---------------------------- MODULE AtomicPublish ----------------------------
(***************************************************************************)
(* What a transactional publisher promises about one destination path: it  *)
(* goes from nothing to one complete, validated tree in a single step, and *)
(* a published tree, or an object somebody else put there, is never        *)
(* touched again.  The one exception the operating system forces on a      *)
(* publisher that ends in rename(2) is an EMPTY directory, which a         *)
(* directory rename may replace.                                           *)
(***************************************************************************)

CONSTANTS
  Absent,       \* there is nothing at the path
  EmptyDir,     \* an empty directory that somebody else created
  ForeignObject,\* a file, symbolic link or non-empty directory of somebody else
  GoodTrees     \* the complete, validated trees a publisher may publish

VARIABLE dest

Init == dest \in {Absent, EmptyDir, ForeignObject}

\* Another process of the host creates something at the path.
Appear ==
  /\ dest = Absent
  /\ dest' \in {EmptyDir, ForeignObject}

\* A publisher succeeds: the whole tree is there at once.
Publish ==
  /\ dest \in {Absent, EmptyDir}
  /\ dest' \in GoodTrees

Next == Appear \/ Publish

Spec == Init /\ [][Next]_dest
==============================================================================
