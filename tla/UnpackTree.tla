------------------------------ MODULE UnpackTree ------------------------------
(***************************************************************************)
(* tools/safe_release_extract.py: `unpack-tree ROOT --manifest FILE`.  The *)
(* archives of a staged release are expanded next to themselves, ZIPs      *)
(* recursively up to a depth, and the manifest is written at the very end. *)
(* The command may fail or be killed anywhere and be run again on what it  *)
(* left behind.  One extraction is one step here; ReleaseExtract refines   *)
(* it.                                                                     *)
(***************************************************************************)
EXTENDS Naturals, Sequences, FiniteSets

CONSTANTS
  Archives,     \* every archive file that exists in the release, nested ones too
  Kind,         \* archive -> "zip" or "tar"
  Release,      \* the holder of the archives the release is delivered with
  Holders,      \* the releases: archive -> the archive it is a member of, or Release
  Rank,         \* archive -> its place in the sorted walk of one directory tree
  OldManifest,  \* a file somebody else left where the manifest goes
  MaxZipDepth,  \* max_zip_depth
  MaxRuns       \* bound on how often the command is started

ASSUME ShapeAssumption ==
  /\ IsFiniteSet(Archives)
  /\ Kind \in [Archives -> {"zip", "tar"}]
  /\ Holders \subseteq [Archives -> Archives \cup {Release}]
  /\ Release \notin Archives
  /\ MaxZipDepth \in Nat
  /\ MaxRuns \in Nat

\* os.walk gives the files of a directory in order, then its subdirectories: an
\* archive before what is in its .contents, and no two at one place.
ASSUME WalkAssumption ==
  /\ Rank \in [Archives -> Nat]
  /\ \A a, b \in Archives : Rank[a] = Rank[b] => a = b
  /\ \A h \in Holders, a \in Archives : h[a] # Release => Rank[h[a]] < Rank[a]

VARIABLES
  holder,     \* the release at hand
  output,     \* archive -> "none", "partial" or "full": its .contents directory
  manifest,   \* the manifest file: {}, {OldManifest} or {the archives it lists}
  queue,      \* of [archive, depth]
  processed,
  results,    \* archives extracted by this run
  existed,    \* `existed` of the archive being extracted
  pc,         \* "idle", "loop", "extract", "raised"
  exit,       \* status of the last run
  runs

vars == <<holder, output, manifest, queue, processed, results, existed, pc, exit, runs>>

\* iter_files sees the files of the release, those of every expanded output and
\* some of those of an output that was left behind half written.
InOutput(a, states) == holder[a] # Release /\ output[holder[a]] \in states
Delivered == {a \in Archives : holder[a] = Release}
Visible ==
  {S \in SUBSET Archives :
     /\ Delivered \cup {a \in Archives : InOutput(a, {"full"})} \subseteq S
     /\ S \subseteq Delivered \cup {a \in Archives : InOutput(a, {"full", "partial"})}}
\* The i-th of them comes after i - 1 others.
Sorted(S) == [i \in 1..Cardinality(S) |->
                CHOOSE a \in S : Cardinality({b \in S : Rank[b] < Rank[a]}) = i - 1]
Queued(S, d) == [i \in 1..Cardinality(S) |-> [archive |-> Sorted(S)[i], depth |-> d]]
Inside(a) == {b \in Archives : holder[b] = a}

Init ==
  /\ holder \in Holders
  /\ output = [a \in Archives |-> "none"]
  /\ manifest \in {{}, {OldManifest}}
  /\ queue = <<>> /\ processed = {} /\ results = {}
  /\ existed = FALSE
  /\ pc = "idle" /\ exit = 0 /\ runs = 0

\* The command starts: the candidates are collected before anything is expanded.
Begin ==
  /\ pc = "idle" /\ runs < MaxRuns
  /\ runs' = runs + 1
  /\ \E S \in Visible : queue' = Queued(S, 0)
  /\ processed' = {} /\ results' = {}
  /\ pc' = "loop"
  /\ UNCHANGED <<holder, output, manifest, existed, exit>>

\* Bug: a rerun takes up where the last one stopped, past what is expanded already.
PopResumes ==
  /\ pc = "loop" /\ queue # <<>>
  /\ LET a == Head(queue).archive IN
     IF a \in processed \/ output[a] = "full"
     THEN queue' = Tail(queue) /\ UNCHANGED <<processed, existed, pc>>
     ELSE /\ processed' = processed \cup {a}
          /\ existed' = (output[a] # "none")
          /\ pc' = "extract"
          /\ UNCHANGED queue
  /\ UNCHANGED <<holder, output, manifest, results, exit, runs>>

\* The head of the loop: an archive already processed is skipped, `existed` is
\* sampled for the next one.
Pop ==
  /\ pc = "loop" /\ queue # <<>>
  /\ LET a == Head(queue).archive IN
     IF a \in processed
     THEN queue' = Tail(queue) /\ UNCHANGED <<processed, existed, pc>>
     ELSE /\ processed' = processed \cup {a}
          /\ existed' = (output[a] # "none")
          /\ pc' = "extract"
          /\ UNCHANGED queue
  /\ UNCHANGED <<holder, output, manifest, results, exit, runs>>

\* Bug: an output that is there is taken for the result of this run.
ExtractOkReusing ==
  LET a == Head(queue).archive
      d == Head(queue).depth
      nested == IF Kind[a] = "zip" THEN Inside(a) ELSE {} IN
  /\ pc = "extract"
  /\ output' = IF output[a] = "none" THEN [output EXCEPT ![a] = "full"] ELSE output
  /\ results' = results \cup {a}
  /\ IF nested # {} /\ d >= MaxZipDepth
     THEN pc' = "idle" /\ exit' = 1 /\ UNCHANGED queue
     ELSE pc' = "loop" /\ queue' = Tail(queue) \o Queued(nested, d + 1) /\ UNCHANGED exit
  /\ UNCHANGED <<holder, manifest, processed, existed, runs>>

\* The extractor returns: the output holds the whole archive.  Archives inside
\* an extracted ZIP are queued one level deeper.
ExtractOk ==
  LET a == Head(queue).archive
      d == Head(queue).depth
      nested == IF Kind[a] = "zip" THEN Inside(a) ELSE {} IN
  /\ pc = "extract"
  /\ output[a] = "none"
  /\ output' = [output EXCEPT ![a] = "full"]
  /\ results' = results \cup {a}
  /\ IF nested # {} /\ d >= MaxZipDepth
     THEN pc' = "idle" /\ exit' = 1 /\ UNCHANGED queue
     ELSE pc' = "loop" /\ queue' = Tail(queue) \o Queued(nested, d + 1) /\ UNCHANGED exit
  /\ UNCHANGED <<holder, manifest, processed, existed, runs>>

\* The extractor raises: the output exists already, or the archive is rejected
\* or cannot be read, after some of it may have been written.
ExtractRaises ==
  LET a == Head(queue).archive IN
  /\ pc = "extract"
  /\ output' = IF output[a] = "none" THEN [output EXCEPT ![a] = "partial"] ELSE output
  /\ pc' = "raised"
  /\ UNCHANGED <<holder, manifest, queue, processed, results, existed, exit, runs>>

\* Bug: the output is removed whether or not it was there before.
HandlerAlwaysRemoves ==
  LET a == Head(queue).archive IN
  /\ pc = "raised"
  /\ output' = [output EXCEPT ![a] = "none"]
  /\ pc' = "idle" /\ exit' = 1
  /\ UNCHANGED <<holder, manifest, queue, processed, results, existed, runs>>

\* The handler: an output that this call created is removed; then main reports.
Handler ==
  LET a == Head(queue).archive IN
  /\ pc = "raised"
  /\ output' = IF existed THEN output ELSE [output EXCEPT ![a] = "none"]
  /\ pc' = "idle" /\ exit' = 1
  /\ UNCHANGED <<holder, manifest, queue, processed, results, existed, runs>>

\* The queue is empty: write_json refuses an existing manifest, and otherwise
\* renames a complete temporary file into place.
WriteManifest ==
  /\ pc = "loop" /\ queue = <<>>
  /\ IF manifest = {}
     THEN manifest' = {results} /\ exit' = 0
     ELSE UNCHANGED manifest /\ exit' = 1
  /\ pc' = "idle"
  /\ UNCHANGED <<holder, output, queue, processed, results, existed, runs>>

\* The process is killed: in the middle of an extraction a partial output stays.
Killed ==
  /\ pc # "idle"
  /\ \/ UNCHANGED output
     \/ /\ pc = "extract" /\ output[Head(queue).archive] = "none"
        /\ output' = [output EXCEPT ![Head(queue).archive] = "partial"]
  /\ pc' = "idle" /\ exit' = 1
  /\ UNCHANGED <<holder, manifest, queue, processed, results, existed, runs>>

Exhausted == pc = "idle" /\ runs = MaxRuns /\ UNCHANGED vars

Step == Pop \/ ExtractOk \/ ExtractRaises \/ Handler \/ WriteManifest
Next == Begin \/ Step \/ Killed \/ Exhausted
Spec == Init /\ [][Next]_vars

(***************************************************************************)
(* Properties.                                                             *)
(***************************************************************************)

\* The delivery layers: what is delivered, and with a ZIP what is in it.
Closed(D) ==
  /\ Delivered \subseteq D
  /\ \A a \in Archives : holder[a] \in D /\ Kind[holder[a]] = "zip" => a \in D
Deliveries == {a \in Archives : \A D \in SUBSET Archives : Closed(D) => a \in D}

\* A manifest exists only over a complete expansion: every delivery layer has
\* been expanded in full, each by the run that wrote the manifest, and nothing
\* below a TAR has been touched -- across any number of failed, killed and
\* repeated runs.
ManifestMeansComplete ==
  manifest \notin {{}, {OldManifest}} =>
    /\ manifest = {Deliveries}
    /\ \A a \in Archives : output[a] = IF a \in Deliveries THEN "full" ELSE "none"

\* The manifest, and an expanded output, once there, are never taken back or
\* changed: not by a failing run, not by a repeated one.
NothingTakenBack ==
  [][/\ \A a \in Archives : output[a] = "full" => output'[a] = "full"
     /\ manifest # {} => manifest' = manifest]_vars

\* Layers[d]: the archives inside d ZIPs, one in the other, of which the outermost
\* was delivered.
Layers ==
  LET layer[d \in 0..MaxZipDepth] ==
        IF d = 0 THEN Delivered
        ELSE {a \in Archives : /\ holder[a] \in layer[d - 1]
                               /\ Kind[holder[a]] = "zip"}
  IN layer

\* The limit on nesting and on the queue that grows while it is consumed
\* (safe_release_extract.py:523-570) hold over all runs together, though a rerun
\* counts from zero the archives that it finds in what an earlier one has expanded:
\* nothing inside more than max_zip_depth ZIPs, and nothing inside a TAR, is ever
\* opened, and no archive is ever in the queue twice.
NestingIsLimited ==
  /\ \A a \in Archives : output[a] # "none" => \E d \in 0..MaxZipDepth : a \in Layers[d]
  /\ \A i, j \in 1..Len(queue) : queue[i].archive = queue[j].archive => i = j
==============================================================================
