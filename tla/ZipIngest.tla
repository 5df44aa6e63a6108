------------------------------ MODULE ZipIngest ------------------------------
(***************************************************************************)
(* tools/safe_zip_ingest.py: `extract ARCHIVE DESTINATION`, run by several *)
(* processes against one archive path and one destination path, while the  *)
(* rest of the host (a browser finishing a download, a user, another       *)
(* script) replaces or rewrites the archive and creates things at the      *)
(* destination.  A run makes two passes over the archive: it validates and *)
(* hashes it, then reopens it and writes the members below a private       *)
(* staging directory, which one rename publishes.                          *)
(*                                                                         *)
(* Data abstraction.  A digest is the digested value itself (no hash       *)
(* collisions).  The central directory (names, sizes, flags) is one value  *)
(* of Infos; the directories _checked_infos accepts are SafeInfos.  The    *)
(* contents of a member is a value of Data; those that decompress to the   *)
(* announced size with the right CRC are GoodData.                         *)
(***************************************************************************)
EXTENDS Naturals, FiniteSets

CONSTANTS
  Procs,          \* the concurrent runs of the tool
  Infos,          \* central directories
  SafeInfos,      \* the ones _checked_infos lets through
  Data,           \* contents of a member
  GoodData,       \* the ones _consume_member reads to the end without error
  NMembers,       \* number of members of an archive
  Downloads,      \* the archives the rest of the host may put at the path
  Inodes,         \* inodes the archive path may refer to
  MaxChanges,     \* bound on how often the rest of the host touches the archive
  None,           \* "no value": no stage, no descriptor, member not written
  Absent, EmptyDir, ForeignObject   \* see AtomicPublish

Members  == 1..NMembers
Archives == [infos: Infos, data: [Members -> Data]]
Listing  == [Members -> Data \cup {None}]

\* The manifest records the digest of the archive and of every member; a
\* staging or published directory holds the member files and, once it is
\* written, the manifest.
Manifests == [sha: Archives, listed: Listing]
Trees == [files: Listing, manifest: Manifests \cup {None}]

ASSUME DataAssumption ==
  /\ NMembers \in Nat \ {0}
  /\ SafeInfos \subseteq Infos
  /\ GoodData \subseteq Data
  /\ Downloads \subseteq Archives
  /\ None \notin Data
  /\ MaxChanges \in Nat

ASSUME NamesAssumption ==
  /\ None \notin Inodes
  /\ None \notin Archives
  /\ None \notin Infos
  /\ None \notin Trees /\ None \notin Manifests
  /\ {Absent, EmptyDir, ForeignObject} \cap Trees = {}
  /\ Absent # EmptyDir /\ Absent # ForeignObject /\ EmptyDir # ForeignObject

VARIABLES
  path,     \* the inode at the archive path, or None
  content,  \* inode -> archive it holds
  mtime,    \* inode -> modification time
  changes,  \* how often the archive was touched by the rest of the host
  hidden,   \* inodes whose mtime a rewrite has left as it was
  dest,     \* what is at the destination path
  pc,       \* process -> its next step
  pass,     \* process -> 1: _base_report, 2: _extract_archive
  snap,     \* process -> the _FileSnapshot it holds
  fd,       \* process -> inode of its open descriptor
  next,     \* process -> the next member to consume
  sha,      \* process -> archive digest of its first pass
  infos,    \* process -> central directory of its first pass
  listed,   \* process -> member digests of its first pass
  stage     \* process -> its staging directory, or None

archiveVars == <<path, content, mtime, changes, hidden>>
reportVars  == <<sha, infos, listed>>
vars == <<archiveVars, dest, pc, pass, snap, fd, next, reportVars, stage>>

Running == {"destination", "lstat", "open", "hash", "infos", "consume",
            "manifest", "close", "recheck", "rename", "cleanup"}
Ended   == {"done", "failed", "crashed"}

EmptyListing == [i \in Members |-> None]
EmptyStage == [files |-> EmptyListing, manifest |-> None]
Snapshot(ino) == [inode |-> ino, mtime |-> mtime[ino]]

Init ==
  /\ content \in [Inodes -> Downloads]
  /\ path \in Inodes
  /\ mtime = [i \in Inodes |-> 0]
  /\ changes = 0 /\ hidden = {}
  /\ dest \in {Absent, EmptyDir, ForeignObject}
  /\ pc = [p \in Procs |-> "destination"]
  /\ pass = [p \in Procs |-> 1]
  /\ snap = [p \in Procs |-> None]
  /\ fd = [p \in Procs |-> None]
  /\ next = [p \in Procs |-> 1]
  /\ sha = [p \in Procs |-> None]
  /\ infos = [p \in Procs |-> None]
  /\ listed = [p \in Procs |-> EmptyListing]
  /\ stage = [p \in Procs |-> None]

Goto(p, l) == pc' = [pc EXCEPT ![p] = l]

\* An exception: the `finally` of _extract_archive still has to run.
Abort(p) == Goto(p, "cleanup")

(***************************************************************************)
(* Steps with plausible bugs.  No specification uses them: they show that  *)
(* each property notices a mistake in the step it is about.                *)
(***************************************************************************)

\* The second pass starts counting members at 0.
CheckInfosFromZero(p) ==
  LET seen == content[fd[p]].infos IN
  /\ pc[p] = "infos"
  /\ next' = [next EXCEPT ![p] = 0]
  /\ IF seen \in SafeInfos
     THEN infos' = [infos EXCEPT ![p] = seen] /\ Goto(p, "consume")
     ELSE Abort(p) /\ UNCHANGED infos
  /\ UNCHANGED <<archiveVars, dest, pass, snap, fd, sha, listed, stage>>

\* The last member is forgotten in the second pass.
AfterFirstMember(p, i) ==
  IF pass[p] = 2 THEN "manifest" ELSE IF i < NMembers THEN "consume" ELSE "close"

\* Where the consuming loop goes after member i.
AfterMember(p, i) ==
  IF i < NMembers THEN "consume" ELSE IF pass[p] = 1 THEN "close" ELSE "manifest"

\* An archive that is missing is waited for.
LstatArchiveWaits(p) ==
  /\ pc[p] = "lstat"
  /\ path # None
  /\ snap' = [snap EXCEPT ![p] = Snapshot(path)]
  /\ Goto(p, "open")
  /\ UNCHANGED <<archiveVars, dest, pass, fd, next, reportVars, stage>>

\* A member is written without comparing its digest with the first pass.
WriteMemberUnchecked(p) ==
  LET i == next[p] IN
  /\ pc[p] = "consume" /\ pass[p] = 2
  /\ stage' = [stage EXCEPT ![p].files[i] = content[fd[p]].data[i]]
  /\ next' = [next EXCEPT ![p] = i + 1]
  /\ Goto(p, AfterMember(p, i))
  /\ UNCHANGED <<archiveVars, dest, pass, snap, fd, reportVars>>

\* The path is not looked at again when the archive is closed.
CloseArchiveUnchecked(p) ==
  /\ pc[p] = "close"
  /\ fd' = [fd EXCEPT ![p] = None]
  /\ pass' = [pass EXCEPT ![p] = 2]
  /\ Goto(p, IF pass[p] = 1 THEN "lstat" ELSE "recheck")
  /\ UNCHANGED <<archiveVars, dest, snap, next, reportVars, stage>>

\* Whatever is at the destination is removed to make room.
RenameStageOver(p) ==
  /\ pc[p] = "rename"
  /\ dest' = stage[p]
  /\ stage' = [stage EXCEPT ![p] = None]
  /\ Goto(p, "done")
  /\ UNCHANGED <<archiveVars, pass, snap, fd, next, reportVars>>

(***************************************************************************)
(* The steps of one run.                                                   *)
(***************************************************************************)

\* _destination: an existing destination is rejected before any work.
CheckDestination(p) ==
  /\ pc[p] = "destination"
  /\ IF dest = Absent THEN Goto(p, "lstat") ELSE Abort(p)
  /\ UNCHANGED <<archiveVars, dest, pass, snap, fd, next, reportVars, stage>>

\* _open_regular_archive, first half: lstat of the path.
LstatArchive(p) ==
  /\ pc[p] = "lstat"
  /\ \/ /\ path = None
        /\ Abort(p)
        /\ UNCHANGED snap
     \/ /\ path # None
        /\ snap' = [snap EXCEPT ![p] = Snapshot(path)]
        /\ Goto(p, "open")
  /\ UNCHANGED <<archiveVars, dest, pass, fd, next, reportVars, stage>>

\* _open_regular_archive, second half: open, and fstat must agree with lstat.
OpenArchive(p) ==
  /\ pc[p] = "open"
  /\ IF path # None /\ Snapshot(path) = snap[p]
     THEN fd' = [fd EXCEPT ![p] = path] /\ Goto(p, "hash")
     ELSE Abort(p) /\ UNCHANGED fd
  /\ UNCHANGED <<archiveVars, dest, pass, snap, next, reportVars, stage>>

\* _hash_archive: remembered in the first pass, compared in the second.
HashArchive(p) ==
  /\ pc[p] = "hash"
  /\ \/ /\ pass[p] = 1
        /\ sha' = [sha EXCEPT ![p] = content[fd[p]]]
        /\ Goto(p, "infos")
     \/ /\ pass[p] = 2
        /\ IF content[fd[p]] = sha[p] THEN Goto(p, "infos") ELSE Abort(p)
        /\ UNCHANGED sha
  /\ UNCHANGED <<archiveVars, dest, pass, snap, fd, next, infos, listed, stage>>

\* zipfile.ZipFile and _checked_infos; the second pass also compares the names
\* with those of the first one and then creates the staging directory.
CheckInfos(p) ==
  LET seen == content[fd[p]].infos IN
  /\ pc[p] = "infos"
  /\ next' = [next EXCEPT ![p] = 1]
  /\ \/ /\ seen \notin SafeInfos
        /\ Abort(p)
        /\ UNCHANGED <<infos, stage>>
     \/ /\ seen \in SafeInfos
        /\ pass[p] = 1
        /\ infos' = [infos EXCEPT ![p] = seen]
        /\ Goto(p, "consume")
        /\ UNCHANGED stage
     \/ /\ seen \in SafeInfos
        /\ pass[p] = 2
        /\ IF seen = infos[p]
           THEN stage' = [stage EXCEPT ![p] = EmptyStage] /\ Goto(p, "consume")
           ELSE Abort(p) /\ UNCHANGED stage
        /\ UNCHANGED infos
  /\ UNCHANGED <<archiveVars, dest, pass, snap, fd, sha, listed>>

\* _consume_member without a destination: read a member to its end, digest it.
DigestMember(p) ==
  LET i == next[p]
      d == content[fd[p]].data[i] IN
  /\ pc[p] = "consume" /\ pass[p] = 1
  /\ IF d \in GoodData
     THEN /\ listed' = [listed EXCEPT ![p][i] = d]
          /\ next' = [next EXCEPT ![p] = i + 1]
          /\ Goto(p, AfterMember(p, i))
     ELSE Abort(p) /\ UNCHANGED <<listed, next>>
  /\ UNCHANGED <<archiveVars, dest, pass, snap, fd, sha, infos, stage>>

\* _consume_member with a destination: the file is written below the stage,
\* and its digest must be the one the first pass computed.
WriteMember(p) ==
  LET i == next[p]
      d == content[fd[p]].data[i] IN
  /\ pc[p] = "consume" /\ pass[p] = 2
  /\ stage' = [stage EXCEPT ![p].files[i] = d]
  /\ IF d \in GoodData /\ d = listed[p][i]
     THEN next' = [next EXCEPT ![p] = i + 1] /\ Goto(p, AfterMember(p, i))
     ELSE Abort(p) /\ UNCHANGED next
  /\ UNCHANGED <<archiveVars, dest, pass, snap, fd, reportVars>>

\* The manifest is written below the stage and the stage is synced.
WriteManifest(p) ==
  /\ pc[p] = "manifest"
  /\ stage' = [stage EXCEPT ![p].manifest = [sha |-> sha[p], listed |-> listed[p]]]
  /\ Goto(p, "close")
  /\ UNCHANGED <<archiveVars, dest, pass, snap, fd, next, reportVars>>

\* The context of _open_regular_archive ends: the descriptor is closed and the
\* path must still show the snapshot.
CloseArchive(p) ==
  /\ pc[p] = "close"
  /\ fd' = [fd EXCEPT ![p] = None]
  /\ IF path # None /\ Snapshot(path) = snap[p]
     THEN /\ pass' = [pass EXCEPT ![p] = 2]
          /\ Goto(p, IF pass[p] = 1 THEN "lstat" ELSE "recheck")
     ELSE Abort(p) /\ UNCHANGED pass
  /\ UNCHANGED <<archiveVars, dest, snap, next, reportVars, stage>>

\* The lexists check immediately before publication.
RecheckDestination(p) ==
  /\ pc[p] = "recheck"
  /\ IF dest = Absent THEN Goto(p, "rename") ELSE Abort(p)
  /\ UNCHANGED <<archiveVars, dest, pass, snap, fd, next, reportVars, stage>>

\* os.rename(stage, destination).  rename(2) of a directory replaces an empty
\* directory and fails on anything else that exists.  The fsync of the parent that
\* follows may fail: status 1 for a tree that is published.
RenameStage(p) ==
  /\ pc[p] = "rename"
  /\ IF dest \in {Absent, EmptyDir}
     THEN /\ dest' = stage[p]
          /\ stage' = [stage EXCEPT ![p] = None]
          /\ Goto(p, "done") \/ Goto(p, "failed")
     ELSE Abort(p) /\ UNCHANGED <<dest, stage>>
  /\ UNCHANGED <<archiveVars, pass, snap, fd, next, reportVars>>

\* The `finally` of _extract_archive, and main's handler: exit status 1.
Cleanup(p) ==
  /\ pc[p] = "cleanup"
  /\ fd' = [fd EXCEPT ![p] = None]
  /\ stage' = [stage EXCEPT ![p] = None]
  /\ Goto(p, "failed")
  /\ UNCHANGED <<archiveVars, dest, pass, snap, next, reportVars>>

\* A system call, a read or a write fails (an OSError, or what zipfile raises) at any
\* step before the clean-up, which ignores errors.
IoError(p) ==
  /\ pc[p] \in Running \ {"cleanup"}
  /\ Abort(p)
  /\ UNCHANGED <<archiveVars, dest, pass, snap, fd, next, reportVars, stage>>

\* The process is killed: nothing of it runs any more, its stage stays.
Crash(p) ==
  /\ pc[p] \in Running
  /\ Goto(p, "crashed")
  /\ fd' = [fd EXCEPT ![p] = None]
  /\ UNCHANGED <<archiveVars, dest, pass, snap, next, reportVars, stage>>

Step(p) ==
  \/ CheckDestination(p) \/ LstatArchive(p) \/ OpenArchive(p) \/ HashArchive(p)
  \/ CheckInfos(p) \/ DigestMember(p) \/ WriteMember(p) \/ WriteManifest(p)
  \/ CloseArchive(p) \/ RecheckDestination(p) \/ RenameStage(p) \/ Cleanup(p)

(***************************************************************************)
(* The rest of the host.                                                   *)
(***************************************************************************)

\* The archive path is moved away, or renamed over by another file.
ReplaceArchive ==
  /\ changes < MaxChanges
  /\ changes' = changes + 1
  /\ path' \in (Inodes \cup {None}) \ {path}
  /\ UNCHANGED <<content, mtime, hidden, dest, pc, pass, snap, fd, next, reportVars, stage>>

\* The file at the path is rewritten in place, with the same size.  On a file
\* system whose timestamps are coarser than the rewrite its mtime may not move.
RewriteArchive ==
  /\ changes < MaxChanges
  /\ changes' = changes + 1
  /\ path # None
  /\ \E a \in Downloads \ {content[path]} : content' = [content EXCEPT ![path] = a]
  /\ \/ mtime' = [mtime EXCEPT ![path] = @ + 1] /\ UNCHANGED hidden
     \/ UNCHANGED mtime /\ hidden' = hidden \cup {path}
  /\ UNCHANGED <<path, dest, pc, pass, snap, fd, next, reportVars, stage>>

\* Somebody else creates an object at the destination.
ForeignCreate ==
  /\ dest = Absent
  /\ dest' \in {EmptyDir, ForeignObject}
  /\ UNCHANGED <<archiveVars, pc, pass, snap, fd, next, reportVars, stage>>

Environment == ReplaceArchive \/ RewriteArchive \/ ForeignCreate

\* Every run has ended: the command is over, nothing else is modelled.
Terminated == \A p \in Procs : pc[p] \in Ended

Next ==
  \/ \E p \in Procs : Step(p) \/ IoError(p) \/ Crash(p)
  \/ Environment
  \/ Terminated /\ UNCHANGED vars

Spec == Init /\ [][Next]_vars

\* A process that is not killed is scheduled; its environment owes nothing.
Fairness == \A p \in Procs : WF_vars(Step(p))
FairSpec == Spec /\ Fairness

(***************************************************************************)
(* Properties.                                                             *)
(***************************************************************************)

TypeOK ==
  /\ path \in Inodes \cup {None}
  /\ content \in [Inodes -> Archives]
  /\ mtime \in [Inodes -> Nat]
  /\ changes \in Nat /\ hidden \subseteq Inodes
  /\ dest \in {Absent, EmptyDir, ForeignObject} \cup Trees
  /\ pc \in [Procs -> Running \cup Ended]
  /\ pass \in [Procs -> {1, 2}]
  /\ snap \in [Procs -> [inode: Inodes, mtime: Nat] \cup {None}]
  /\ fd \in [Procs -> Inodes \cup {None}]
  /\ next \in [Procs -> 1..NMembers + 1]
  /\ sha \in [Procs -> Archives \cup {None}]
  /\ infos \in [Procs -> Infos \cup {None}]
  /\ listed \in [Procs -> Listing]
  /\ stage \in [Procs -> Trees \cup {None}]

\* The trees that may be published: every member is there, good, and is the
\* very contents whose digest the validation pass wrote into the manifest.
GoodTrees ==
  {t \in Trees : /\ t.manifest # None
                 /\ t.files = t.manifest.listed
                 /\ \A i \in Members : t.files[i] \in GoodData}

\* Whatever happens to the archive between and during the two passes, and
\* whoever dies, the destination never holds a partial or unvalidated tree.
PublishedIsValidated == dest \in Trees => dest \in GoodTrees

\* A published tree and a foreign file or non-empty directory are never
\* replaced, not even by a run that checked the path before they appeared; so of
\* two runs that both found it free, at most one publishes.
NothingOfValueReplaced ==
  [][dest \notin {Absent, EmptyDir} => dest' = dest]_dest

\* The digest in the manifest is that of an archive with exactly the published
\* members, as long as every rewrite so far has moved the mtime.
ManifestDescribesArchive ==
  dest \in Trees /\ hidden = {} => dest.files = dest.manifest.sha.data

\* Every run ends, whatever the environment does to its files.
RunsEnd == \A p \in Procs : <>(pc[p] \in Ended)

(***************************************************************************)
(* The inductive invariant behind PublishedIsValidated and the refinement. *)
(***************************************************************************)

\* Between open and close a run holds a descriptor, and from the digest of
\* the first pass on it knows the archive digest.
DescriptorHeld(p) ==
  /\ pc[p] \in {"hash", "infos", "consume", "manifest", "close"} => fd[p] # None
  /\ (pass[p] = 2 \/ pc[p] \in {"infos", "consume", "close"}) => sha[p] # None
  /\ pc[p] = "consume" => next[p] \in Members
  /\ pc[p] \in {"manifest", "recheck", "rename"} => pass[p] = 2

\* What the first pass has digested so far is good data.
DigestsGood(p) ==
  /\ pass[p] = 1 /\ pc[p] = "consume" =>
       \A i \in Members : i < next[p] => listed[p][i] \in GoodData
  /\ pass[p] = 2 \/ pc[p] = "close" =>
       \A i \in Members : listed[p][i] \in GoodData

\* What the second pass has written so far is what the first one digested.
StageMatches(p) ==
  /\ pass[p] = 2 /\ pc[p] = "consume" =>
       /\ stage[p] # None
       /\ \A i \in Members : i < next[p] => stage[p].files[i] = listed[p][i]
  /\ pass[p] = 2 /\ pc[p] \in {"manifest", "close", "recheck", "rename"} =>
       /\ stage[p] # None
       /\ \A i \in Members : stage[p].files[i] = listed[p][i]
  /\ pass[p] = 2 /\ pc[p] \in {"close", "recheck", "rename"} =>
       /\ stage[p].manifest # None
       /\ stage[p].manifest.listed = listed[p]

IInv ==
  /\ TypeOK
  /\ \A p \in Procs : DescriptorHeld(p) /\ DigestsGood(p) /\ StageMatches(p)
  /\ PublishedIsValidated

AP == INSTANCE AtomicPublish WITH
        Absent <- Absent, EmptyDir <- EmptyDir, ForeignObject <- ForeignObject,
        GoodTrees <- GoodTrees, dest <- dest
Publishes == AP!Spec
==============================================================================
