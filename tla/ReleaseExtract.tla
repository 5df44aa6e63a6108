---------------------------- MODULE ReleaseExtract ----------------------------
(***************************************************************************)
(* tools/safe_release_extract.py: extract_zip and extract_tar, the two     *)
(* ways they are reached (`main` for extract-zip/extract-tar, unpack_tree  *)
(* for every archive of a release) and what each does when they fail.      *)
(*                                                                         *)
(* A member is [key, kind, text]: the normalised name as a sequence of     *)
(* components, what the archive says it is, and for a link the components  *)
(* of the raw link text.  Names that safe_member_name or validate_part_name*)
(* reject are the kind "unsafe" (their key plays no part), types that      *)
(* neither format lets through are "special", archive-root markers are     *)
(* "root".  ZIP and TAR differ only in how they spell these kinds.  File   *)
(* contents and modes play no part; the size limit and every read, write   *)
(* or format error are IoError, which says whether the types of exception  *)
(* that the extractors and main name include it.                           *)
(***************************************************************************)
EXTENDS Naturals, Sequences, SequencesExt

CONSTANTS
  Names,        \* the components of names; ".." is never one of them
  ArchiveSet,   \* the archives extracted, as sequences of members
  OldTree,      \* the tree below an output somebody else created
  NoOutput,     \* there is nothing at the output path
  Fuel          \* bound on the steps of following links

Entries == {"main", "unpack"}
Up == ".."
Component == Names \cup {Up}
Member == [key  : Seq(Names),
           kind : {"dir", "file", "link", "root", "special", "unsafe"},
           text : Seq(Component)]

\* What safe_member_name lets through is a path of components without "..",
\* and only archive-root markers have none.
ASSUME ArchiveAssumption ==
  /\ Up \notin Names
  /\ Fuel \in Nat
  /\ ArchiveSet \subseteq Seq(Member)
  /\ \A a \in ArchiveSet : \A i \in DOMAIN a : a[i].kind # "root" => a[i].key # <<>>

VARIABLES
  archive,  \* the member list of the archive
  entry,    \* who called the extractor
  disk,     \* the output directory: NoOutput or the tree below it
  mine,     \* TRUE once this process has created the output directory
  existed,  \* unpack_tree's `existed`: the output was there before the call
  cause,    \* why the extractor raised, if it did; "uncaught" is an exception of
            \* a type that neither the extractors nor main name
  dirs, regulars, links,  \* what is left to publish, as positions in the archive
  pc

vars == <<archive, entry, disk, mine, existed, cause, dirs, regulars, links, pc>>

\* A tree maps a path to [kind, text]; text is that of a link, else <<>>.
EmptyTree == [p \in {} |-> NoOutput]
Exists == disk # NoOutput
Node(k, t) == [kind |-> k, text |-> t]
Put(tree, path, node) ==
  [p \in DOMAIN tree \cup {path} |-> IF p = path THEN node ELSE tree[p]]

Parents(key) == {SubSeq(key, 1, i) : i \in 1..Len(key) - 1}

(***************************************************************************)
(* Names and links.                                                        *)
(***************************************************************************)

\* posixpath.normpath of a relative path, component by component.
NormStep(acc, c) ==
  IF c = Up /\ acc # <<>> /\ Last(acc) # Up THEN Front(acc) ELSE Append(acc, c)
Normalize(text) ==
  LET norm[n \in 0..Len(text)] ==
        IF n = 0 THEN <<>> ELSE NormStep(norm[n - 1], text[n])
  IN norm[Len(text)]

\* The raw link text is published: a bug LinksStayInside notices.
RawLinkText(m) == m.text

\* safe_link_target: the target, seen from the archive root, must stay below
\* it; the link that is published keeps the normalised RELATIVE text.
LinkAccepted(m) ==
  LET target == Normalize(Front(m.key) \o m.text) IN
  /\ m.text # <<>>
  /\ target # <<>>
  /\ Head(target) # Up
LinkText(m) == Normalize(m.text)

\* Following a path in a tree the way the kernel does: a link puts its text in
\* front of what is left of the path.
WalkStep(tree, w) ==
  IF w.todo = <<>> \/ w.out THEN w
  ELSE LET c == Head(w.todo)
           here == Append(w.at, c)
       IN CASE c = Up /\ w.at = <<>> -> [w EXCEPT !.out = TRUE]
            [] c = Up /\ w.at # <<>> -> [w EXCEPT !.at = Front(w.at), !.todo = Tail(w.todo)]
            [] c # Up /\ here \in DOMAIN tree /\ tree[here].kind = "link"
                 -> [w EXCEPT !.todo = tree[here].text \o Tail(w.todo)]
            [] OTHER -> [w EXCEPT !.at = here, !.todo = Tail(w.todo)]
Walk(tree, path) ==
  LET walk[n \in 0..Fuel] ==
        IF n = 0 THEN [at |-> <<>>, todo |-> path, out |-> FALSE]
        ELSE WalkStep(tree, walk[n - 1])
  IN walk[Fuel]
Escapes(tree, path) == Walk(tree, path).out
Loops(tree, path) == ~Escapes(tree, path) /\ Walk(tree, path).todo # <<>>

(***************************************************************************)
(* Classification: nothing is written before every member is accepted.     *)
(***************************************************************************)
Keyed(a) == {i \in DOMAIN a : a[i].kind # "root"}
LinkNames(a) == {a[i].key : i \in {j \in Keyed(a) : a[j].kind = "link"}}

\* Special members are let through: a bug SuccessIsFaithful notices.
ClassifiedLoosely(a) ==
  /\ \A i \in DOMAIN a : a[i].kind # "unsafe"
  /\ \A i, j \in Keyed(a) : a[i].key = a[j].key => i = j
  /\ \A i \in Keyed(a) : a[i].kind = "link" => LinkAccepted(a[i])
  /\ \A i \in Keyed(a) : Parents(a[i].key) \cap LinkNames(a) = {}

Classified(a) ==
  /\ \A i \in DOMAIN a : a[i].kind \notin {"unsafe", "special"}
  /\ \A i, j \in Keyed(a) : a[i].key = a[j].key => i = j
  /\ \A i \in Keyed(a) : a[i].kind = "link" => LinkAccepted(a[i])
  /\ \A i \in Keyed(a) : Parents(a[i].key) \cap LinkNames(a) = {}

OfKind(a, k) == {i \in Keyed(a) : a[i].kind = k}
\* Whatever is left after the other cases is extracted as a regular file.
Leftover(a) == {i \in Keyed(a) : a[i].kind \notin {"dir", "link"}}

(***************************************************************************)
(* The extractor.                                                          *)
(***************************************************************************)
Init ==
  /\ archive \in ArchiveSet
  /\ entry \in Entries
  /\ disk \in {NoOutput, OldTree}
  /\ cause = "none"
  /\ existed = FALSE
  /\ mine = FALSE
  /\ dirs = {} /\ regulars = {} /\ links = {}
  /\ pc = "start"

Lists == <<dirs, regulars, links>>
Fixed == <<archive, entry>>

\* A check of the extractor raises.
Reject == pc' = "fail" /\ cause' = "rejected"
Proceed(l) == pc' = l /\ UNCHANGED cause

\* unpack_tree samples `existed` before it calls the extractor.
Start ==
  /\ pc = "start"
  /\ existed' = (entry = "unpack" /\ Exists)
  /\ Proceed("check")
  /\ UNCHANGED <<Fixed, disk, mine, Lists>>

\* ensure_empty_output, first half: the existence check.
CheckOutput ==
  /\ pc = "check"
  /\ IF Exists THEN Reject ELSE Proceed("mkdir")
  /\ UNCHANGED <<Fixed, disk, mine, existed, Lists>>

\* ensure_empty_output, second half: mkdir, which fails if a directory is there.
MakeOutput ==
  /\ pc = "mkdir"
  /\ IF Exists
     THEN Reject /\ UNCHANGED <<disk, mine>>
     ELSE Proceed("classify") /\ disk' = EmptyTree /\ mine' = TRUE
  /\ UNCHANGED <<Fixed, existed, Lists>>

\* The loop over the members and the symlink-parent check.
Classify ==
  /\ pc = "classify"
  /\ IF Classified(archive)
     THEN /\ dirs' = OfKind(archive, "dir")
          /\ regulars' = Leftover(archive)
          /\ links' = OfKind(archive, "link")
          /\ Proceed("publish")
     ELSE Reject /\ UNCHANGED Lists
  /\ UNCHANGED <<Fixed, disk, mine, existed>>

\* Any parent will do: a bug ParentsAreDirectories notices.
AnyParentUsable(tree, key) == TRUE

\* make_parent: missing parents are created, a parent that is not a real
\* directory is refused.
ParentsUsable(tree, key) ==
  \A q \in Parents(key) : q \in DOMAIN tree => tree[q].kind = "dir"
WithParents(tree, key) ==
  [p \in DOMAIN tree \cup Parents(key) |->
     IF p \in DOMAIN tree THEN tree[p] ELSE Node("dir", <<>>)]

With(tree, key, node) == Put(WithParents(tree, key), key, node)
Fits(tree, key) == key \notin DOMAIN tree /\ ParentsUsable(tree, key)
Key(i) == archive[i].key

\* The directories are published in any order: WellFormedAccepted notices.
PublishDirUnsorted ==
  /\ pc = "publish"
  /\ \E i \in dirs :
       IF Fits(disk, Key(i))
       THEN /\ disk' = With(disk, Key(i), Node("dir", <<>>))
            /\ dirs' = dirs \ {i}
            /\ UNCHANGED <<pc, cause>>
       ELSE Reject /\ UNCHANGED <<disk, dirs>>
  /\ UNCHANGED <<Fixed, mine, existed, regulars, links>>

\* Directories by depth; the names, which order those of one depth, are
\* abstracted to any order.
PublishDir ==
  /\ pc = "publish"
  /\ \E i \in dirs :
       /\ \A j \in dirs : Len(Key(i)) <= Len(Key(j))
       /\ IF Fits(disk, Key(i))
          THEN /\ disk' = With(disk, Key(i), Node("dir", <<>>))
               /\ dirs' = dirs \ {i}
               /\ UNCHANGED <<pc, cause>>
          ELSE Reject /\ UNCHANGED <<disk, dirs>>
  /\ UNCHANGED <<Fixed, mine, existed, regulars, links>>

\* Files in archive order.
PublishRegular ==
  /\ pc = "publish"
  /\ dirs = {}
  /\ \E i \in regulars :
       /\ \A j \in regulars : i <= j
       /\ IF Fits(disk, Key(i))
          THEN /\ disk' = With(disk, Key(i), Node("file", <<>>))
               /\ regulars' = regulars \ {i}
               /\ UNCHANGED <<pc, cause>>
          ELSE Reject /\ UNCHANGED <<disk, regulars>>
  /\ UNCHANGED <<Fixed, mine, existed, dirs, links>>

\* make_parent and publish_symlink.  The order in which sorted() publishes the
\* links is abstracted to any order.  A link whose resolution leaves the output
\* is removed again; whether resolve() reports a cycle depends on the Python
\* version, so both outcomes are possible.
PublishLink ==
  /\ pc = "publish"
  /\ dirs = {} /\ regulars = {}
  /\ \E i \in links :
       LET k == Key(i)
           tree == With(disk, k, Node("link", LinkText(archive[i])))
       IN
       \/ /\ Fits(disk, k) /\ ~Escapes(tree, k)
          /\ disk' = tree
          /\ links' = links \ {i}
          /\ UNCHANGED <<pc, cause>>
       \/ /\ ~Fits(disk, k) \/ Escapes(tree, k) \/ Loops(tree, k)
          /\ Reject
          /\ UNCHANGED <<disk, links>>
  /\ UNCHANGED <<Fixed, mine, existed, dirs, regulars>>

Finish ==
  /\ pc = "publish"
  /\ dirs = {} /\ regulars = {} /\ links = {}
  /\ Proceed("done")
  /\ UNCHANGED <<Fixed, disk, mine, existed, Lists>>

\* Reading, writing or the format of the archive fails, or a size limit is hit.
\* The extractors turn OSError, BadZipFile, LargeZipFile and TarError into a
\* ReleaseError; zlib.error, EOFError, LZMAError, the RuntimeError of an encrypted
\* member and NotImplementedError pass through them and through main.
IoError ==
  /\ pc \in {"classify", "publish"}
  /\ pc' = "fail" /\ cause' \in {"io", "uncaught"}
  /\ UNCHANGED <<Fixed, disk, mine, existed, Lists>>

\* The handler of main: whatever directory is at the output path is removed.
HandlerMain ==
  /\ pc = "fail" /\ entry = "main" /\ cause # "uncaught"
  /\ disk' = NoOutput
  /\ Proceed("failed")
  /\ UNCHANGED <<Fixed, mine, existed, Lists>>

\* No handler of main is for this exception: the interpreter ends with a
\* traceback and the output stays as it is.
Traceback ==
  /\ pc = "fail" /\ entry = "main" /\ cause = "uncaught"
  /\ Proceed("failed")
  /\ UNCHANGED <<Fixed, disk, mine, existed, Lists>>

\* The handler of unpack_tree removes nothing, or everything: bugs that
\* FailureLeavesNothing and UnpackKeepsExisting notice.
HandlerUnpackNothing ==
  /\ pc = "fail" /\ entry = "unpack"
  /\ Proceed("failed")
  /\ UNCHANGED <<Fixed, disk, mine, existed, Lists>>

HandlerUnpackAlways ==
  /\ pc = "fail" /\ entry = "unpack"
  /\ disk' = NoOutput
  /\ Proceed("failed")
  /\ UNCHANGED <<Fixed, mine, existed, Lists>>

\* The handlers of unpack_tree, for every exception: only an output that did not
\* exist before.
HandlerUnpack ==
  /\ pc = "fail" /\ entry = "unpack"
  /\ disk' = IF existed THEN disk ELSE NoOutput
  /\ Proceed("failed")
  /\ UNCHANGED <<Fixed, mine, existed, Lists>>

\* Another process creates the output directory while the command is starting.
OutputAppears ==
  /\ pc \in {"start", "check", "mkdir"}
  /\ ~Exists
  /\ disk' = OldTree
  /\ UNCHANGED <<Fixed, mine, existed, cause, Lists, pc>>

Stop == pc \in {"done", "failed"} /\ UNCHANGED vars

Next == \/ Start \/ CheckOutput \/ MakeOutput \/ Classify \/ PublishDir
        \/ PublishRegular \/ PublishLink \/ Finish \/ IoError
        \/ HandlerMain \/ Traceback \/ HandlerUnpack \/ OutputAppears \/ Stop

Spec == Init /\ [][Next]_vars

(***************************************************************************)
(* Properties.                                                             *)
(***************************************************************************)

\* Whatever links an archive carries, and in whatever order they come to exist,
\* following one never leaves the output directory, at any moment.
LinksStayInside ==
  mine /\ Exists => \A p \in DOMAIN disk : disk[p].kind = "link" => ~Escapes(disk, p)

\* Nothing is ever written through a link or below a file: every parent of
\* every object of the output is a real directory.
ParentsAreDirectories ==
  mine /\ Exists =>
            \A p \in DOMAIN disk : \A q \in Parents(p) :
              q \in DOMAIN disk /\ disk[q].kind = "dir"

\* Success means the output is the archive: each member with its kind, the
\* parents they need, and nothing else.
SuccessIsFaithful ==
  pc = "done" =>
    LET keys == {archive[i].key : i \in Keyed(archive)} IN
    /\ \A i \in Keyed(archive) : disk[archive[i].key].kind = archive[i].kind
    /\ DOMAIN disk = keys \cup UNION {Parents(k) : k \in keys}

\* What a member is published as, and what an archive says as a whole.
Image(m) == Node(m.kind, IF m.kind = "link" THEN LinkText(m) ELSE <<>>)
Contents(a) ==
  [k \in {a[i].key : i \in Keyed(a)} |->
     Image(a[CHOOSE i \in Keyed(a) : a[i].key = k])]

\* What an archive without contradictions is: said of the archive alone.
WellFormed(a) ==
  /\ \A i \in DOMAIN a : a[i].kind \notin {"unsafe", "special"}
  /\ \A i, j \in Keyed(a) : a[i].key = a[j].key => i = j
  /\ \A i, j \in Keyed(a) : a[j].key \in Parents(a[i].key) => a[j].kind = "dir"
  /\ \A i \in Keyed(a) : a[i].kind = "link" => LinkAccepted(a[i])
  /\ \A k \in DOMAIN Contents(a) : ~Loops(Contents(a), k)

\* The checks made one member at a time reject nothing they should not: the
\* order of publication (directories by depth, files, links) never collides
\* with itself on a well-formed archive.
WellFormedAccepted == cause = "rejected" /\ mine => ~WellFormed(archive)

\* What a failed command has made of its output is taken back by whichever handler
\* gets the exception -- except that main, unlike unpack_tree, has none for the
\* exceptions called "uncaught" (safe_release_extract.py:611), of which a
\* half-written output stays.
FailureLeavesNothing ==
  pc = "failed" /\ mine /\ ~(entry = "main" /\ cause = "uncaught") => ~Exists

\* An output that unpack_tree found before it called the extractor survives
\* the failure that this causes.
UnpackKeepsExisting == existed => disk = OldTree

\* safe_release_extract.py:612-614: "remove only that newly-created directory;
\* an existing output was rejected before creation and is untouched".
MainKeepsExisting ==
  [][entry = "main" /\ Exists /\ ~mine => disk' = disk]_disk
==============================================================================
