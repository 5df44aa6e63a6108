--------------------------- MODULE ZipIngestProofs ---------------------------
(***************************************************************************)
(* ZipIngest for any number of concurrent runs, members, archives and      *)
(* changes to them: types, the validity of what is published, and the      *)
(* refinement of AtomicPublish.  IInv is inductive; every theorem follows  *)
(* from it.                                                                *)
(***************************************************************************)
EXTENDS ZipIngest, TLAPS

\* Members are read one after the other; the first one always exists.
LEMMA MembersFacts ==
  /\ 1 \in Members
  /\ \A i \in Members : i \in Nat /\ i + 1 \in 1..NMembers + 1
  /\ \A i \in Members : i < NMembers => i + 1 \in Members
  /\ \A i, j \in Members : j < i + 1 => j < i \/ j = i
  /\ \A i, j \in Members : ~(i < NMembers) => j < i \/ j = i
BY DataAssumption DEF Members

\* The empty staging directory is a tree.
LEMMA EmptyStageIsTree == EmptyStage \in Trees
BY DEF EmptyStage, EmptyListing, Trees, Listing

\* Recording one member.
LEMMA ListingUpdate ==
  ASSUME NEW l \in Listing, NEW i \in Members, NEW d \in Data
  PROVE  /\ [l EXCEPT ![i] = d] \in Listing
         /\ [l EXCEPT ![i] = d][i] = d
         /\ \A j \in Members : j # i => [l EXCEPT ![i] = d][j] = l[j]
BY DEF Listing

LEMMA InitInv == Init => IInv
<1> SUFFICES ASSUME Init PROVE IInv
  OBVIOUS
<1>1. TypeOK
  BY DataAssumption, MembersFacts
  DEF Init, TypeOK, Running, Ended, EmptyListing, Listing
<1>2. \A p \in Procs : DescriptorHeld(p) /\ DigestsGood(p) /\ StageMatches(p)
  BY DEF Init, DescriptorHeld, DigestsGood, StageMatches
<1>3. PublishedIsValidated
  BY NamesAssumption DEF Init, PublishedIsValidated
<1> QED BY <1>1, <1>2, <1>3 DEF IInv

\* A step that changes neither the destination nor, for the runs other than p,
\* anything they know, can only disturb what the invariant says of p itself.
LEMMA OthersKept ==
  ASSUME IInv, NEW p \in Procs, NEW q \in Procs, q # p,
         pc'[q] = pc[q], pass'[q] = pass[q], fd'[q] = fd[q], next'[q] = next[q],
         sha'[q] = sha[q], listed'[q] = listed[q], stage'[q] = stage[q]
  PROVE  DescriptorHeld(q)' /\ DigestsGood(q)' /\ StageMatches(q)'
BY DEF IInv, DescriptorHeld, DigestsGood, StageMatches

LEMMA PublishedKept ==
  ASSUME PublishedIsValidated, dest' = dest
  PROVE  PublishedIsValidated'
BY DEF PublishedIsValidated, GoodTrees

\* One step of one run, its I/O errors and its death included, keeps IInv.
LEMMA StepInv ==
  ASSUME IInv, NEW p \in Procs, Step(p) \/ IoError(p) \/ Crash(p)
  PROVE  IInv'
<1> USE DataAssumption, NamesAssumption, MembersFacts
<1> USE DEF IInv, TypeOK, DescriptorHeld, DigestsGood, StageMatches, Goto,
            Abort, archiveVars, reportVars, Running, Ended
<1>1. CASE CheckDestination(p)
  BY <1>1, PublishedKept DEF CheckDestination
<1>2. CASE LstatArchive(p)
  BY <1>2, PublishedKept DEF LstatArchive, Snapshot
<1>3. CASE OpenArchive(p)
  BY <1>3, PublishedKept DEF OpenArchive, Snapshot
<1>4. CASE HashArchive(p)
  BY <1>4, PublishedKept DEF HashArchive
<1>5. CASE CheckInfos(p)
  <2>1. TypeOK'
    <3>1. stage' \in [Procs -> Trees \cup {None}]
      BY <1>5, EmptyStageIsTree DEF CheckInfos
    <3>2. infos' \in [Procs -> Infos \cup {None}]
      BY <1>5 DEF CheckInfos
    <3>3. next' \in [Procs -> 1..NMembers + 1] /\ pc' \in [Procs -> Running \cup Ended]
      BY <1>5 DEF CheckInfos, Members
    <3> QED BY <1>5, <3>1, <3>2, <3>3 DEF CheckInfos
  <2>2. DescriptorHeld(p)' /\ DigestsGood(p)' /\ StageMatches(p)'
    <3>1. next'[p] = 1 /\ pass'[p] = pass[p] /\ sha'[p] = sha[p] /\ fd'[p] = fd[p]
          /\ listed'[p] = listed[p] /\ sha[p] # None /\ fd[p] # None
      BY <1>5 DEF CheckInfos
    <3>2. pc'[p] = "cleanup" \/ pc'[p] = "consume"
      BY <1>5 DEF CheckInfos
    <3>3. pc'[p] = "consume" /\ pass[p] = 2 => stage'[p] = EmptyStage
      BY <1>5 DEF CheckInfos
    <3>4. \A i \in Members : ~(i < 1)
      BY DEF Members
    <3>5. pass[p] = 2 => \A i \in Members : listed[p][i] \in GoodData
      OBVIOUS
    <3>6. EmptyStage # None
      BY EmptyStageIsTree
    <3> HIDE DEF IInv, TypeOK
    <3>7. DescriptorHeld(p)'
      BY <3>1, <3>2
    <3>8. DigestsGood(p)'
      BY <3>1, <3>2, <3>4, <3>5
    <3>9. StageMatches(p)'
      BY <3>1, <3>2, <3>3, <3>4, <3>6
    <3> QED BY <3>7, <3>8, <3>9
  <2>3. ASSUME NEW q \in Procs, q # p
        PROVE  DescriptorHeld(q)' /\ DigestsGood(q)' /\ StageMatches(q)'
    BY <1>5, <2>3, OthersKept DEF CheckInfos
  <2>4. PublishedIsValidated'
    BY <1>5, PublishedKept DEF CheckInfos
  <2> QED BY <2>1, <2>2, <2>3, <2>4
<1>6. CASE DigestMember(p)
  <2> DEFINE i == next[p]
  <2>1. i \in Members /\ content[fd[p]].data[i] \in Data
    BY <1>6 DEF DigestMember, Archives
  <2>6. listed' = listed \/
        /\ content[fd[p]].data[i] \in GoodData
        /\ listed' = [listed EXCEPT ![p] = [listed[p] EXCEPT ![i] = content[fd[p]].data[i]]]
    BY <1>6 DEF DigestMember
  <2>2. TypeOK'
    <3>1. listed' \in [Procs -> Listing]
      BY <2>1, <2>6, ListingUpdate
    <3>2. next' \in [Procs -> 1..NMembers + 1] /\ pc' \in [Procs -> Running \cup Ended]
      BY <1>6, <2>1 DEF DigestMember, AfterMember
    <3> QED BY <1>6, <3>1, <3>2 DEF DigestMember
  <2>3. DescriptorHeld(p)' /\ DigestsGood(p)' /\ StageMatches(p)'
    <3>1. /\ pass[p] = 1 /\ pass'[p] = 1 /\ fd'[p] = fd[p] /\ sha'[p] = sha[p]
          /\ fd[p] # None /\ sha[p] # None
          /\ \A j \in Members : j < i => listed[p][j] \in GoodData
      BY <1>6 DEF DigestMember
    <3>2. \/ pc'[p] = "cleanup"
          \/ /\ next'[p] = i + 1
             /\ pc'[p] \in {"consume", "close"}
             /\ pc'[p] = "consume" <=> i < NMembers
             /\ listed'[p][i] \in GoodData
             /\ \A j \in Members : j # i => listed'[p][j] = listed[p][j]
      <4>1. CASE content[fd[p]].data[i] \notin GoodData
        BY <1>6, <4>1 DEF DigestMember
      <4>2. CASE content[fd[p]].data[i] \in GoodData
        <5>1. listed'[p] = [listed[p] EXCEPT ![i] = content[fd[p]].data[i]]
          BY <1>6, <4>2 DEF DigestMember
        <5>2. next'[p] = i + 1 /\ pc'[p] = AfterMember(p, i)
          BY <1>6, <4>2 DEF DigestMember
        <5>3. pass[p] = 1
          BY <1>6 DEF DigestMember
        <5> QED BY <2>1, <4>2, <5>1, <5>2, <5>3, ListingUpdate DEF AfterMember
      <4> QED BY <4>1, <4>2
    <3> HIDE DEF IInv, TypeOK
    <3> QED BY <2>1, <3>1, <3>2
  <2>4. ASSUME NEW q \in Procs, q # p
        PROVE  DescriptorHeld(q)' /\ DigestsGood(q)' /\ StageMatches(q)'
    BY <1>6, <2>4, OthersKept DEF DigestMember
  <2>5. PublishedIsValidated'
    BY <1>6, PublishedKept DEF DigestMember
  <2> QED BY <2>2, <2>3, <2>4, <2>5
<1>7. CASE WriteMember(p)
  <2> DEFINE i == next[p]
             d == content[fd[p]].data[i]
             new == [stage[p] EXCEPT !.files = [@ EXCEPT ![i] = d]]
  <2>1. i \in Members /\ d \in Data /\ stage[p] \in Trees
    BY <1>7 DEF WriteMember, Archives
  <2>2. /\ new \in Trees
        /\ new.files[i] = d
        /\ \A j \in Members : j # i => new.files[j] = stage[p].files[j]
        /\ stage' = [stage EXCEPT ![p] = new]
    <3>1. stage[p].files \in Listing /\ stage[p].manifest \in Manifests \cup {None}
      BY <2>1 DEF Trees
    <3>2. [stage[p].files EXCEPT ![i] = d] \in Listing
      BY <2>1, <3>1 DEF Listing
    <3>3. new = [files |-> [stage[p].files EXCEPT ![i] = d],
                 manifest |-> stage[p].manifest]
      BY <2>1 DEF Trees
    <3>4. stage' = [stage EXCEPT ![p] = new]
      BY <1>7 DEF WriteMember
    <3>5. new.files = [stage[p].files EXCEPT ![i] = d]
      BY <3>3
    <3> QED BY <2>1, <3>1, <3>2, <3>3, <3>4, <3>5, ListingUpdate DEF Trees
  <2> HIDE DEF new
  <2>3. TypeOK'
    <3>1. stage' \in [Procs -> Trees \cup {None}]
      BY <2>2
    <3>2. next' \in [Procs -> 1..NMembers + 1]
      BY <1>7, <2>1 DEF WriteMember
    <3>3. pc' \in [Procs -> Running \cup Ended]
      BY <1>7 DEF WriteMember, AfterMember
    <3>4. UNCHANGED <<archiveVars, dest, pass, snap, fd, reportVars>>
      BY <1>7 DEF WriteMember
    <3> HIDE DEF DescriptorHeld, DigestsGood, StageMatches
    <3> QED BY <3>1, <3>2, <3>3, <3>4
  <2>4. DescriptorHeld(p)' /\ DigestsGood(p)' /\ StageMatches(p)'
    <3>1. stage'[p] = new /\ new # None /\ listed' = listed
      BY <1>7, <2>2 DEF WriteMember
    <3>2. /\ pass'[p] = 2 /\ fd'[p] = fd[p] /\ sha'[p] = sha[p]
          /\ fd[p] # None /\ sha[p] # None
          /\ \A j \in Members : listed[p][j] \in GoodData
          /\ \A j \in Members : j < i => stage[p].files[j] = listed[p][j]
      BY <1>7 DEF WriteMember
    <3>3. \/ pc'[p] = "cleanup"
          \/ /\ pc'[p] \in {"consume", "manifest"} /\ next'[p] = i + 1
             /\ d = listed[p][i]
             /\ pc'[p] = "consume" => i < NMembers
             /\ pc'[p] = "manifest" => ~(i < NMembers)
      BY <1>7 DEF WriteMember, AfterMember
    <3>4. d = listed[p][i] => \A j \in Members : j < i \/ j = i => new.files[j] = listed[p][j]
      BY <2>1, <2>2, <3>2
    <3> HIDE DEF IInv, TypeOK
    <3>5. DescriptorHeld(p)'
      BY <2>1, <3>2, <3>3
    <3>6. DigestsGood(p)'
      BY <3>1, <3>2, <3>3
    <3>7. StageMatches(p)'
      BY <2>1, <3>1, <3>2, <3>3, <3>4
    <3> QED BY <3>5, <3>6, <3>7
  <2>5. ASSUME NEW q \in Procs, q # p
        PROVE  DescriptorHeld(q)' /\ DigestsGood(q)' /\ StageMatches(q)'
    BY <1>7, <2>5, OthersKept DEF WriteMember
  <2>6. PublishedIsValidated'
    BY <1>7, PublishedKept DEF WriteMember
  <2> QED BY <2>3, <2>4, <2>5, <2>6
<1>8. CASE WriteManifest(p)
  <2> DEFINE m == [sha |-> sha[p], listed |-> listed[p]]
             new == [stage[p] EXCEPT !.manifest = m]
  <2>1. stage[p] \in Trees /\ m \in Manifests
    BY <1>8 DEF WriteManifest, Manifests
  <2>2. stage' = [stage EXCEPT ![p] = new]
    BY <1>8 DEF WriteManifest
  <2>8. new.files = stage[p].files /\ new.manifest = m
    BY <2>1 DEF Trees
  <2>3. new \in Trees /\ new # None
    BY <2>1, NamesAssumption DEF Trees
  <2>9. m # None
    BY <2>1
  <2> HIDE DEF new
  <2>4. TypeOK'
    <3>1. stage' \in [Procs -> Trees \cup {None}]
      BY <2>2, <2>3
    <3>2. pc' \in [Procs -> Running \cup Ended]
      BY <1>8 DEF WriteManifest
    <3>3. UNCHANGED <<archiveVars, dest, pass, snap, fd, next, reportVars>>
      BY <1>8 DEF WriteManifest
    <3> HIDE DEF DescriptorHeld, DigestsGood, StageMatches
    <3> QED BY <3>1, <3>2, <3>3
  <2>5. DescriptorHeld(p)' /\ DigestsGood(p)' /\ StageMatches(p)'
    <3>1. /\ pc'[p] = "close" /\ stage'[p] = new
          /\ UNCHANGED <<pass, fd, sha, listed>>
      BY <1>8, <2>2 DEF WriteManifest
    <3>2. /\ pass[p] = 2 /\ fd[p] # None /\ sha[p] # None
          /\ \A j \in Members : listed[p][j] \in GoodData /\ stage[p].files[j] = listed[p][j]
      BY <1>8 DEF WriteManifest
    <3>3. new.files = stage[p].files /\ new.manifest # None /\ new.manifest.listed = listed[p]
      BY <2>8, <2>9
    <3> HIDE DEF IInv, TypeOK
    <3> QED BY <2>3, <3>1, <3>2, <3>3
  <2>6. ASSUME NEW q \in Procs, q # p
        PROVE  DescriptorHeld(q)' /\ DigestsGood(q)' /\ StageMatches(q)'
    BY <1>8, <2>6, OthersKept DEF WriteManifest
  <2>7. PublishedIsValidated'
    BY <1>8, PublishedKept DEF WriteManifest
  <2> QED BY <2>4, <2>5, <2>6, <2>7
<1>9. CASE CloseArchive(p)
  <2>1. TypeOK'
    BY <1>9 DEF CloseArchive
  <2>2. DescriptorHeld(p)' /\ DigestsGood(p)' /\ StageMatches(p)'
    BY <1>9 DEF CloseArchive
  <2>3. ASSUME NEW q \in Procs, q # p
        PROVE  DescriptorHeld(q)' /\ DigestsGood(q)' /\ StageMatches(q)'
    BY <1>9, <2>3, OthersKept DEF CloseArchive
  <2>4. PublishedIsValidated'
    BY <1>9, PublishedKept DEF CloseArchive
  <2> QED BY <2>1, <2>2, <2>3, <2>4
<1>10. CASE RecheckDestination(p)
  BY <1>10, PublishedKept DEF RecheckDestination
<1>11. CASE RenameStage(p)
  <2>1. stage[p] \in GoodTrees
    <3>1. stage[p] \in Trees /\ stage[p].manifest # None
          /\ stage[p].manifest.listed = listed[p]
      BY <1>11 DEF RenameStage
    <3>2. \A i \in Members : stage[p].files[i] = listed[p][i] /\ listed[p][i] \in GoodData
      BY <1>11 DEF RenameStage
    <3>3. stage[p].files = listed[p]
      BY <3>1, <3>2 DEF Trees, Listing
    <3> QED BY <3>1, <3>2, <3>3 DEF GoodTrees
  <2>2. TypeOK' /\ PublishedIsValidated'
    <3>1. \/ dest' = dest /\ stage' = stage
          \/ dest' = stage[p] /\ stage' = [stage EXCEPT ![p] = None]
      BY <1>11 DEF RenameStage
    <3>2. PublishedIsValidated'
      BY <2>1, <3>1 DEF PublishedIsValidated, GoodTrees
    <3>3. stage[p] \in Trees
      BY <2>1 DEF GoodTrees
    <3>4. dest' \in {Absent, EmptyDir, ForeignObject} \cup Trees /\ stage' \in [Procs -> Trees \cup {None}]
      BY <3>1, <3>3
    <3>5. pc' \in [Procs -> Running \cup Ended]
      BY <1>11 DEF RenameStage, Goto, Abort
    <3>6. TypeOK'
      BY <1>11, <3>4, <3>5 DEF RenameStage
    <3> QED BY <3>2, <3>6
  <2>3. DescriptorHeld(p)' /\ DigestsGood(p)' /\ StageMatches(p)'
    BY <1>11 DEF RenameStage
  <2>4. ASSUME NEW q \in Procs, q # p
        PROVE  DescriptorHeld(q)' /\ DigestsGood(q)' /\ StageMatches(q)'
    BY <1>11, <2>4, OthersKept DEF RenameStage
  <2> QED BY <2>2, <2>3, <2>4
<1>12. CASE Cleanup(p)
  BY <1>12, PublishedKept DEF Cleanup
<1>13. CASE IoError(p)
  BY <1>13, PublishedKept DEF IoError
<1>14. CASE Crash(p)
  BY <1>14, PublishedKept DEF Crash
<1> QED
  BY <1>1, <1>2, <1>3, <1>4, <1>5, <1>6, <1>7, <1>8, <1>9, <1>10, <1>11,
     <1>12, <1>13, <1>14 DEF Step

\* The rest of the host cannot reach what a run knows or has staged.
LEMMA EnvironmentInv == IInv /\ Environment => IInv'
<1> SUFFICES ASSUME IInv, Environment PROVE IInv'
  OBVIOUS
<1> USE DEF IInv, TypeOK, DescriptorHeld, DigestsGood, StageMatches,
            archiveVars, reportVars
<1>1. CASE ReplaceArchive
  BY <1>1, PublishedKept DEF ReplaceArchive
<1>2. CASE RewriteArchive
  BY <1>2, DataAssumption, PublishedKept DEF RewriteArchive
<1>3. CASE ForeignCreate
  BY <1>3, NamesAssumption DEF ForeignCreate, PublishedIsValidated
<1> QED BY <1>1, <1>2, <1>3 DEF Environment

LEMMA StutterInv == IInv /\ UNCHANGED vars => IInv'
BY DEF vars, IInv, TypeOK, DescriptorHeld, DigestsGood, StageMatches,
       PublishedIsValidated, GoodTrees, archiveVars, reportVars

\* IInv is an inductive invariant of the specification.
THEOREM Invariance == Spec => []IInv
<1>1. IInv /\ [Next]_vars => IInv'
  BY StepInv, EnvironmentInv, StutterInv DEF Next
<1> QED BY InitInv, <1>1, PTL DEF Spec

\* Every variable keeps its type, for any number of runs and members.
THEOREM TypeCorrect == Spec => []TypeOK
<1>1. IInv => TypeOK
  BY DEF IInv
<1> QED BY <1>1, Invariance, PTL

\* What the destination holds, once a run published there, is a complete tree
\* of exactly the members the validation pass digested: whatever is done to
\* the archive meanwhile, however many runs compete and whoever is killed.
THEOREM PublishesOnlyValidated == Spec => []PublishedIsValidated
<1>1. IInv => PublishedIsValidated
  BY DEF IInv
<1> QED BY <1>1, Invariance, PTL

\* What a step of one run does to the destination.
LEMMA DestStep ==
  ASSUME IInv, IInv', Next
  PROVE  \/ dest' = dest
         \/ dest = Absent /\ dest' \in {EmptyDir, ForeignObject}
         \/ dest \in {Absent, EmptyDir} /\ dest' \in GoodTrees
<1>1. ASSUME NEW p \in Procs, RenameStage(p), dest' # dest
      PROVE  dest \in {Absent, EmptyDir} /\ dest' \in GoodTrees
  <2>1. dest \in {Absent, EmptyDir} /\ dest' = stage[p] /\ stage[p] \in Trees
    BY <1>1 DEF RenameStage, IInv, TypeOK, StageMatches, DescriptorHeld
  <2> QED BY <2>1 DEF IInv, PublishedIsValidated
<1>2. ASSUME NEW p \in Procs, Step(p) \/ IoError(p) \/ Crash(p), ~RenameStage(p)
      PROVE  dest' = dest
  BY <1>2 DEF Step, CheckDestination, LstatArchive, OpenArchive, HashArchive,
     CheckInfos, DigestMember, WriteMember, WriteManifest, CloseArchive,
     RecheckDestination, Cleanup, IoError, Crash
<1>3. ASSUME Environment
      PROVE  dest' = dest \/ (dest = Absent /\ dest' \in {EmptyDir, ForeignObject})
  BY <1>3 DEF Environment, ReplaceArchive, RewriteArchive, ForeignCreate
<1> QED BY <1>1, <1>2, <1>3 DEF Next, vars

\* The tool implements the abstract publisher: the destination changes only by
\* a foreign creation or by one complete, validated publication.
THEOREM ImplementsAtomicPublish == Spec => Publishes
<1>1. Init => AP!Init
  BY DEF Init, AP!Init
<1>2. IInv /\ IInv' /\ [Next]_vars => [AP!Next]_dest
  BY DestStep DEF AP!Next, AP!Appear, AP!Publish, vars
<1> QED BY <1>1, <1>2, Invariance, PTL DEF Spec, Publishes, AP!Spec

\* A tree, a file or a non-empty directory at the destination stays.
THEOREM ValueKept == Spec => NothingOfValueReplaced
<1>1. IInv /\ IInv' /\ [Next]_vars => [dest \notin {Absent, EmptyDir} => dest' = dest]_dest
  BY DestStep DEF vars
<1> QED BY <1>1, Invariance, PTL DEF Spec, NothingOfValueReplaced
(***************************************************************************)
(* What the digest in the manifest is of.  Between open and close of the   *)
(* second pass the archive may be rewritten under the descriptor; if every *)
(* rewrite moves the mtime, the check at the close notices.                *)
(***************************************************************************)

\* Nobody has rewritten the file behind the descriptor since it was opened.
Unmoved(p) == mtime[fd[p]] = snap[p].mtime

\* The descriptor is of the file in the snapshot, which only gets newer.
DescriptorIsSnapshot(p) ==
  pc[p] \in {"hash", "infos", "consume", "manifest", "close"} =>
    /\ fd[p] \in Inodes
    /\ snap[p] \in [inode: Inodes, mtime: Nat]
    /\ fd[p] = snap[p].inode
    /\ mtime[fd[p]] >= snap[p].mtime

\* The second pass: what it reads, and what it has written, is what it hashed.
ReadsWhatItHashed(p) ==
  pass[p] = 2 =>
    /\ pc[p] \in {"infos", "consume", "manifest", "close"} /\ Unmoved(p)
         => content[fd[p]] = sha[p]
    /\ pc[p] = "consume" /\ Unmoved(p)
         => \A i \in Members : i < next[p] => stage[p].files[i] = sha[p].data[i]
    /\ pc[p] \in {"manifest", "close"} /\ Unmoved(p)
         => \A i \in Members : stage[p].files[i] = sha[p].data[i]
    /\ pc[p] \in {"recheck", "rename"}
         => \A i \in Members : stage[p].files[i] = sha[p].data[i]
    /\ pc[p] \in {"close", "recheck", "rename"} => stage[p].manifest.sha = sha[p]

Hashed(p) == DescriptorIsSnapshot(p) /\ ReadsWhatItHashed(p)

Describes == dest \in Trees => dest.files = dest.manifest.sha.data

HashInv == Describes /\ \A p \in Procs : Hashed(p)

\* A step that touches neither the archive nor what run q knows.
LEMMA OthersHashed ==
  ASSUME NEW q \in Procs, Hashed(q), UNCHANGED <<content, mtime>>,
         pc'[q] = pc[q], pass'[q] = pass[q], fd'[q] = fd[q], next'[q] = next[q],
         snap'[q] = snap[q], sha'[q] = sha[q], stage'[q] = stage[q]
  PROVE  Hashed(q)'
BY DEF Hashed, DescriptorIsSnapshot, ReadsWhatItHashed, Unmoved

\* What the steps of one run leave alone.
LEMMA StepIsLocal ==
  ASSUME IInv, NEW p \in Procs, Step(p) \/ IoError(p) \/ Crash(p)
  PROVE  /\ UNCHANGED <<content, mtime, hidden>>
         /\ ~RenameStage(p) => dest' = dest
         /\ \A q \in Procs : q # p =>
              /\ pc'[q] = pc[q] /\ pass'[q] = pass[q] /\ fd'[q] = fd[q]
              /\ next'[q] = next[q] /\ snap'[q] = snap[q] /\ sha'[q] = sha[q]
              /\ stage'[q] = stage[q]
<1> USE DEF IInv, TypeOK, Goto, Abort, archiveVars, reportVars
<1>1. CASE CheckDestination(p) \/ LstatArchive(p) \/ OpenArchive(p) \/ HashArchive(p)
  BY <1>1 DEF CheckDestination, LstatArchive, OpenArchive, HashArchive
<1>2. CASE CheckInfos(p) \/ DigestMember(p) \/ WriteManifest(p)
  BY <1>2 DEF CheckInfos, DigestMember, WriteManifest
<1>3. CASE WriteMember(p)
  BY <1>3 DEF WriteMember
<1>4. CASE CloseArchive(p) \/ RecheckDestination(p) \/ RenameStage(p) \/ Cleanup(p)
  BY <1>4 DEF CloseArchive, RecheckDestination, RenameStage, Cleanup
<1>5. CASE IoError(p) \/ Crash(p)
  BY <1>5 DEF IoError, Crash
<1> QED BY <1>1, <1>2, <1>3, <1>4, <1>5 DEF Step

\* One step of the run itself.
LEMMA StepHashed ==
  ASSUME IInv, IInv', HashInv, NEW p \in Procs, Step(p) \/ IoError(p) \/ Crash(p)
  PROVE  Hashed(p)'
<1> USE DataAssumption, NamesAssumption, MembersFacts DEF HashInv, Hashed
<1>1. CASE pc'[p] \notin {"hash", "infos", "consume", "manifest", "close", "recheck", "rename"}
  BY <1>1 DEF DescriptorIsSnapshot, ReadsWhatItHashed
<1>2. CASE OpenArchive(p) \/ HashArchive(p)
  BY <1>2 DEF OpenArchive, HashArchive, Goto, Abort, Snapshot, IInv, TypeOK,
              DescriptorIsSnapshot, ReadsWhatItHashed, Unmoved, archiveVars
<1>3. CASE CheckInfos(p)
  <2>1. /\ UNCHANGED <<content, mtime, pass, snap, fd, sha>>
        /\ pc[p] = "infos" /\ next'[p] = 1
        /\ pc'[p] \in {"cleanup", "consume"}
    BY <1>3 DEF CheckInfos, Goto, Abort, IInv, TypeOK, archiveVars
  <2>2. \A i \in Members : ~(i < 1)
    BY DEF Members
  <2> QED BY <2>1, <2>2 DEF DescriptorIsSnapshot, ReadsWhatItHashed, Unmoved
<1>4. CASE DigestMember(p)
  <2>1. /\ UNCHANGED <<content, mtime, pass, snap, fd, sha>>
        /\ pc[p] = "consume" /\ pass[p] = 1
    BY <1>4 DEF DigestMember, archiveVars
  <2> QED BY <2>1 DEF DescriptorIsSnapshot, ReadsWhatItHashed, Unmoved
<1>5. CASE WriteMember(p)
  <2> DEFINE i == next[p]
             d == content[fd[p]].data[i]
  <2>1. /\ UNCHANGED <<content, mtime, pass, snap, fd, sha>>
        /\ pc[p] = "consume" /\ pass[p] = 2
        /\ i \in Members /\ stage[p] \in Trees
    BY <1>5 DEF WriteMember, archiveVars, reportVars, IInv, TypeOK, DescriptorHeld, StageMatches
  <2>2. stage'[p].files = [stage[p].files EXCEPT ![i] = d]
    BY <1>5, <2>1 DEF WriteMember, IInv, TypeOK, Trees
  <2>3. stage'[p].files[i] = d /\ \A j \in Members : j # i => stage'[p].files[j] = stage[p].files[j]
    BY <2>1, <2>2 DEF Trees, Listing
  <2>4. \/ pc'[p] = "cleanup"
        \/ /\ pc'[p] \in {"consume", "manifest"} /\ next'[p] = i + 1
           /\ pc'[p] = "manifest" => ~(i < NMembers)
    BY <1>5 DEF WriteMember, AfterMember, Goto, Abort, IInv, TypeOK
  <2>5. Unmoved(p) =>
          \A j \in Members : j < i \/ j = i => stage'[p].files[j] = sha[p].data[j]
    BY <2>1, <2>3 DEF ReadsWhatItHashed
  <2>6. DescriptorIsSnapshot(p)'
    BY <2>1, <2>4 DEF DescriptorIsSnapshot
  <2> HIDE DEF i
  <2>7. ReadsWhatItHashed(p)'
    BY <2>1, <2>4, <2>5 DEF ReadsWhatItHashed, Unmoved
  <2> QED BY <2>6, <2>7
<1>6. CASE WriteManifest(p)
  <2>1. /\ UNCHANGED <<content, mtime, pass, snap, fd, sha>>
        /\ pc[p] = "manifest" /\ pc'[p] = "close" /\ stage[p] \in Trees
    BY <1>6 DEF WriteManifest, archiveVars, reportVars, IInv, TypeOK, DescriptorHeld, StageMatches, Goto
  <2>2. stage'[p] = [stage[p] EXCEPT !.manifest = [sha |-> sha[p], listed |-> listed[p]]]
    BY <1>6 DEF WriteManifest, IInv, TypeOK
  <2>3. stage'[p].files = stage[p].files /\ stage'[p].manifest.sha = sha[p]
    BY <2>1, <2>2 DEF Trees
  <2> QED BY <2>1, <2>3 DEF DescriptorIsSnapshot, ReadsWhatItHashed, Unmoved
<1>7. CASE CloseArchive(p)
  <2>1. /\ UNCHANGED <<content, mtime, snap, sha, stage>> /\ pc[p] = "close"
        /\ pc'[p] = "recheck" => pass[p] = 2 /\ snap[p] = Snapshot(path)
        /\ pc'[p] \in {"recheck", "lstat", "cleanup"}
    BY <1>7 DEF CloseArchive, archiveVars, reportVars, Goto, Abort, IInv, TypeOK
  <2>2. pc'[p] = "recheck" => Unmoved(p)
    BY <2>1 DEF DescriptorIsSnapshot, Snapshot, Unmoved
  <2> QED BY <2>1, <2>2 DEF DescriptorIsSnapshot, ReadsWhatItHashed
<1>8. CASE RecheckDestination(p)
  BY <1>8 DEF RecheckDestination, Goto, Abort, IInv, TypeOK, archiveVars, reportVars,
              DescriptorIsSnapshot, ReadsWhatItHashed
<1>9. CASE CheckDestination(p) \/ LstatArchive(p)
  BY <1>9 DEF CheckDestination, LstatArchive, Goto, Abort, IInv, TypeOK,
              DescriptorIsSnapshot, ReadsWhatItHashed
<1>10. CASE RenameStage(p) \/ Cleanup(p) \/ IoError(p) \/ Crash(p)
  BY <1>10, <1>1 DEF RenameStage, Cleanup, IoError, Crash, Goto, Abort, IInv, TypeOK
<1> QED
  BY <1>2, <1>3, <1>4, <1>5, <1>6, <1>7, <1>8, <1>9, <1>10 DEF Step

\* What is renamed into place is described by its manifest.
LEMMA RenameDescribes ==
  ASSUME IInv, HashInv, NEW p \in Procs, RenameStage(p)
  PROVE  Describes'
<1>1. CASE dest' = dest
  BY <1>1 DEF HashInv, Describes
<1>2. CASE dest' # dest
  <2>1. /\ dest' = stage[p] /\ pc[p] = "rename"
    BY <1>2 DEF RenameStage
  <2>2. /\ pass[p] = 2 /\ stage[p] \in Trees /\ sha[p] \in Archives
    BY <2>1 DEF IInv, TypeOK, DescriptorHeld, StageMatches
  <2>3. /\ stage[p].manifest.sha = sha[p]
        /\ \A i \in Members : stage[p].files[i] = sha[p].data[i]
    BY <2>1, <2>2 DEF HashInv, Hashed, ReadsWhatItHashed
  <2>4. stage[p].files = sha[p].data
    BY <2>2, <2>3 DEF Trees, Listing, Archives
  <2> QED BY <2>1, <2>3, <2>4 DEF Describes
<1> QED BY <1>1, <1>2

\* The rest of the host: it may rewrite an archive under a descriptor, but then
\* the descriptor has moved for good.
LEMMA EnvironmentHashed ==
  ASSUME hidden' = {}, IInv, HashInv, Environment
  PROVE  HashInv'
<1> USE DEF HashInv, Hashed
<1>1. CASE ReplaceArchive
  BY <1>1 DEF ReplaceArchive, DescriptorIsSnapshot, ReadsWhatItHashed, Unmoved,
              reportVars, Describes
<1>2. CASE ForeignCreate
  BY <1>2, NamesAssumption DEF ForeignCreate, DescriptorIsSnapshot, ReadsWhatItHashed,
              Unmoved, archiveVars, reportVars, Describes
<1>3. CASE RewriteArchive
  <2>1. /\ path \in Inodes
        /\ mtime' = [mtime EXCEPT ![path] = @ + 1]
        /\ \A i \in Inodes : i # path => content'[i] = content[i]
        /\ UNCHANGED <<dest, pc, pass, snap, fd, next, reportVars, stage>>
    BY <1>3 DEF RewriteArchive, IInv, TypeOK
  <2>2. mtime'[path] = mtime[path] + 1 /\ \A i \in Inodes : i # path => mtime'[i] = mtime[i]
    BY <2>1 DEF IInv, TypeOK
  <2>3. \A i \in Inodes : mtime[i] \in Nat
    BY DEF IInv, TypeOK
  <2>4. Describes'
    BY <2>1 DEF Describes
  <2>5. ASSUME NEW p \in Procs
        PROVE  Hashed(p)'
    <3>1. DescriptorIsSnapshot(p)'
      BY <2>1, <2>2, <2>3 DEF DescriptorIsSnapshot
    <3>2. ASSUME pc[p] \in {"hash", "infos", "consume", "manifest", "close"}, Unmoved(p)'
          PROVE  Unmoved(p) /\ content'[fd[p]] = content[fd[p]]
      <4>1. fd[p] # path
        BY <2>1, <2>2, <2>3, <3>2 DEF DescriptorIsSnapshot, Unmoved
      <4> QED BY <2>1, <2>2, <3>2, <4>1 DEF DescriptorIsSnapshot, Unmoved
    <3>3. ReadsWhatItHashed(p)'
      BY <2>1, <3>2 DEF ReadsWhatItHashed, reportVars
    <3> QED BY <3>1, <3>3
  <2> QED BY <2>4, <2>5
<1> QED BY <1>1, <1>2, <1>3 DEF Environment

\* As long as every rewrite of an archive has moved its mtime, the digest in a
\* manifest is that of an archive with exactly the published members
\* (ManifestDescribesArchive): no file swapped or rewritten between the two
\* passes, or under the descriptor, gets its digest beside other contents.
THEOREM ManifestIsOfTheArchive == Spec => []ManifestDescribesArchive
<1>1. Init => HashInv
  BY NamesAssumption DEF Init, HashInv, Hashed, DescriptorIsSnapshot, ReadsWhatItHashed,
     Describes
<1>2. IInv /\ IInv' /\ (hidden # {} \/ HashInv) /\ [Next]_vars => (hidden # {} \/ HashInv)'
  <2> SUFFICES ASSUME IInv, IInv', hidden # {} \/ HashInv, [Next]_vars, hidden' = {} PROVE HashInv'
    OBVIOUS
  <2>1. HashInv
    <3>1. hidden \subseteq hidden'
      <4>1. ASSUME NEW p \in Procs, Step(p) \/ IoError(p) \/ Crash(p) PROVE hidden' = hidden
        BY <4>1, StepIsLocal
      <4>2. CASE Environment
        BY <4>2 DEF Environment, ReplaceArchive, RewriteArchive, ForeignCreate, archiveVars
      <4>3. CASE UNCHANGED vars
        BY <4>3 DEF vars, archiveVars
      <4> QED BY <4>1, <4>2, <4>3 DEF Next
    <3> QED BY <3>1
  <2>2. ASSUME NEW p \in Procs, Step(p) \/ IoError(p) \/ Crash(p)
        PROVE  HashInv'
    <3>1. \A q \in Procs : Hashed(q)'
      BY <2>1, <2>2, StepIsLocal, StepHashed, OthersHashed DEF HashInv
    <3>2. Describes'
      BY <2>1, <2>2, StepIsLocal, RenameDescribes DEF HashInv, Describes
    <3> QED BY <3>1, <3>2 DEF HashInv
  <2>3. CASE UNCHANGED vars
    BY <2>1, <2>3 DEF vars, archiveVars, reportVars, HashInv, Hashed, DescriptorIsSnapshot,
                      ReadsWhatItHashed, Unmoved, Describes
  <2> QED BY <2>1, <2>2, <2>3, EnvironmentHashed DEF Next
<1>3. hidden # {} \/ HashInv => ManifestDescribesArchive
  BY DEF HashInv, Describes, ManifestDescribesArchive
<1> QED BY Invariance, <1>1, <1>2, <1>3, PTL DEF Spec
==============================================================================
