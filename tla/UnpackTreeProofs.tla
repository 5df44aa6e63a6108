--------------------------- MODULE UnpackTreeProofs ---------------------------
(***************************************************************************)
(* For every release, any nesting and any number of starts: unpack-tree    *)
(* never takes back an output that was complete, or a manifest, and a      *)
(* manifest is only ever there over a complete expansion.                  *)
(*                                                                         *)
(* The handler removes a directory on the word of `existed`, which was     *)
(* sampled before the extraction.  That it is true to the directory until  *)
(* the handler reads it is the first invariant.                            *)
(*                                                                         *)
(* The second is about outputs that earlier runs have left.  If there are  *)
(* any, one of them is of an archive that was delivered, which every run   *)
(* meets and fails on.  So a run that comes to its end has found none, has *)
(* extracted what was delivered and all it has queued since, and nothing   *)
(* else.                                                                   *)
(*                                                                         *)
(* Nor does a run get to an archive that it counts shallower than it is:   *)
(* its place in the walk is after the output of a delivered one.           *)
(***************************************************************************)
EXTENDS UnpackTree, FiniteSetTheorems, FunctionTheorems, SequenceTheorems,
        WellFoundedInduction, NaturalsInduction, TLAPS

AtHand == Head(queue).archive

\* What `existed` says of the archive at hand.
ExistedIsTrue ==
  /\ output \in [Archives -> {"none", "partial", "full"}]
  /\ pc = "extract" /\ AtHand \in Archives => existed = (output[AtHand] # "none")
  /\ pc = "raised" /\ AtHand \in Archives => existed \/ output[AtHand] # "full"

LEMMA InitExisted == Init => ExistedIsTrue
BY DEF Init, ExistedIsTrue

LEMMA StepExisted == ExistedIsTrue /\ [Next]_vars => ExistedIsTrue'
<1> SUFFICES ASSUME ExistedIsTrue, [Next]_vars PROVE ExistedIsTrue'
  OBVIOUS
<1> USE DEF ExistedIsTrue, AtHand
<1>1. CASE Begin
  BY <1>1 DEF Begin
<1>2. CASE Pop
  <2>1. CASE Head(queue).archive \in processed
    BY <1>2, <2>1 DEF Pop
  <2>2. CASE Head(queue).archive \notin processed
    BY <1>2, <2>2 DEF Pop
  <2> QED
    BY <2>1, <2>2
<1>3. CASE ExtractOk
  <2>1. pc' \in {"idle", "loop"} /\ output' = [output EXCEPT ![AtHand] = "full"]
    BY <1>3 DEF ExtractOk
  <2> QED
    BY <2>1
<1>4. CASE ExtractRaises
  <2>1. /\ pc = "extract" /\ pc' = "raised" /\ UNCHANGED <<queue, existed>>
        /\ output' = IF output[AtHand] = "none" THEN [output EXCEPT ![AtHand] = "partial"]
                     ELSE output
    BY <1>4 DEF ExtractRaises
  <2>2. AtHand \in Archives => existed \/ output'[AtHand] = "partial"
    BY <2>1
  <2> QED
    BY <2>1, <2>2
<1>5. CASE Handler
  <2>1. pc' = "idle" /\ (output' = output \/ output' = [output EXCEPT ![AtHand] = "none"])
    BY <1>5 DEF Handler
  <2> QED
    BY <2>1
<1>6. CASE WriteManifest
  BY <1>6 DEF WriteManifest
<1>7. CASE Killed
  <2>1. pc' = "idle" /\ (output' = output \/ output' = [output EXCEPT ![AtHand] = "partial"])
    BY <1>7 DEF Killed
  <2> QED
    BY <2>1
<1>8. CASE UNCHANGED vars
  BY <1>8 DEF vars
<1> QED
  BY <1>1, <1>2, <1>3, <1>4, <1>5, <1>6, <1>7, <1>8 DEF Next, Step, Exhausted

\* Wherever runs of the command fail or are killed, the handler of the next one
\* knows which outputs are not its own (safe_release_extract.py:516-546).
THEOREM ExistedHolds == Spec => []ExistedIsTrue
BY InitExisted, StepExisted, PTL DEF Spec

\* A complete output and a manifest stay what they are, whatever a later run of
\* the command meets.
THEOREM NothingIsTakenBack == Spec => NothingTakenBack
<1> DEFINE Kept == /\ \A a \in Archives : output[a] = "full" => output'[a] = "full"
                   /\ manifest # {} => manifest' = manifest
<1>1. ASSUME ExistedIsTrue, [Next]_vars PROVE [Kept]_vars
  <2> USE <1>1 DEF ExistedIsTrue, AtHand
  <2>1. CASE Begin BY <2>1 DEF Begin
  <2>2. CASE Pop BY <2>2 DEF Pop
  <2>3. CASE ExtractOk
    <3>1. output' = [output EXCEPT ![AtHand] = "full"] /\ UNCHANGED manifest
      BY <2>3 DEF ExtractOk
    <3> QED BY <3>1
  <2>4. CASE ExtractRaises
    <3>1. /\ UNCHANGED manifest
          /\ \/ output' = output
             \/ output[AtHand] = "none" /\ output' = [output EXCEPT ![AtHand] = "partial"]
      BY <2>4 DEF ExtractRaises
    <3> QED BY <3>1
  <2>5. CASE Handler
    <3>1. /\ UNCHANGED manifest
          /\ output' = output \/ (~existed /\ output' = [output EXCEPT ![AtHand] = "none"])
      BY <2>5 DEF Handler
    <3>2. pc = "raised"
      BY <2>5 DEF Handler
    <3> QED BY <3>1, <3>2
  <2>6. CASE WriteManifest BY <2>6 DEF WriteManifest
  <2>7. CASE Killed
    <3>1. /\ UNCHANGED manifest
          /\ \/ output' = output
             \/ output[AtHand] = "none" /\ output' = [output EXCEPT ![AtHand] = "partial"]
      BY <2>7 DEF Killed
    <3> QED BY <3>1
  <2> QED
    BY <2>1, <2>2, <2>3, <2>4, <2>5, <2>6, <2>7 DEF Next, Step, Exhausted
<1> QED
  BY <1>1, ExistedHolds, PTL DEF Spec, NothingTakenBack

(***************************************************************************)
(* The invariant of the manifest.                                          *)
(***************************************************************************)
Entries == [archive : Archives, depth : Nat]
ArchivesOf(q) == {q[i].archive : i \in 1..Len(q)}
Queues == ArchivesOf(queue)
Expanded == {a \in Archives : output[a] # "none"}

\* The outputs that the run has found; its own are those in results, and that of
\* the archive at hand if its extraction has just failed.
Own == results \cup (IF pc = "raised" /\ ~existed THEN {AtHand} ELSE {})
Found == Expanded \ Own

\* Whatever has outputs has that of a delivered archive.
Rooted(S) == S # {} => S \cap Delivered # {}

Types ==
  /\ holder \in Holders
  /\ output \in [Archives -> {"none", "partial", "full"}]
  /\ queue \in Seq(Entries)
  /\ results \subseteq Archives /\ processed \subseteq Archives
  /\ existed \in BOOLEAN
  /\ pc \in {"idle", "loop", "extract", "raised"}
  /\ pc \in {"extract", "raised"} => queue # <<>>

\* What the run has processed, and what it has made of it.
Processing ==
  /\ processed = results \cup (IF pc = "loop" THEN {} ELSE {AtHand})
  /\ pc # "loop" => AtHand \notin results
  /\ \A a \in results : output[a] = "full"
  /\ pc = "extract" => existed = (output[AtHand] # "none")
  /\ pc = "raised" => output[AtHand] # "none"

\* Nothing is forgotten.
Covering ==
  /\ Delivered \subseteq results \cup Queues
  /\ \A a \in results : Kind[a] = "zip" => Inside(a) \subseteq results \cup Queues

\* A run that has found no output looks at delivery layers only, from the outside in.
Clean ==
  /\ results \cup Queues \subseteq Deliveries
  /\ \A a \in results \cup Queues : a \in Delivered \/ holder[a] \in results
  /\ Rooted(results)

Running == pc # "idle" => Processing /\ Covering /\ Rooted(Found) /\ (Found = {} => Clean)
Resting == pc = "idle" => Rooted(Expanded)

\* Once there is a manifest a run fails on the first archive it looks at.
Final ==
  manifest \notin {{}, {OldManifest}} =>
    /\ manifest = {Deliveries}
    /\ \A a \in Archives : output[a] = IF a \in Deliveries THEN "full" ELSE "none"
    /\ pc = "loop" /\ queue # <<>> => AtHand \in Expanded \ processed
    /\ pc = "extract" => AtHand \in Expanded
    /\ pc = "raised" => existed

\* No archive is queued twice.
Once(q) == \A i, j \in 1..Len(q) : q[i].archive = q[j].archive => i = j

\* An entry is as deep as it says, or the run meets an output it has found first.
Shallow(q, layers, found) ==
  \A i \in 1..Len(q) :
    /\ q[i].depth \in 0..MaxZipDepth
    /\ \/ q[i].archive \in layers[q[i].depth]
       \/ \E j \in 1..i : q[j].archive \in found

\* Outputs are of archives whose holders have outputs, down to the limit; so are
\* those in the queue, and an extraction that fails on an output of its own had
\* nothing of it below.
Limit ==
  /\ \A a \in Expanded : a \in Delivered \/ holder[a] \in Expanded
  /\ \A a \in Expanded : \E d \in 0..MaxZipDepth : a \in Layers[d]
  /\ Once(queue)
  /\ pc # "idle" => /\ Shallow(queue, Layers, Found)
                    /\ \A a \in Queues : a \in Delivered \/ holder[a] \in Expanded
  /\ pc = "raised" /\ ~existed => \A a \in Expanded : holder[a] # AtHand

IInv == Types /\ Running /\ Resting /\ Final /\ Limit

(***************************************************************************)
(* The walk and the queue.                                                 *)
(***************************************************************************)
\* The walk has every archive it sees, once, and a first one before all others.
LEMMA SortedFacts ==
  ASSUME NEW S \in SUBSET Archives
  PROVE  /\ IsFiniteSet(S) /\ Cardinality(S) \in Nat
         /\ \A i \in 1..Cardinality(S) : Sorted(S)[i] \in S
         /\ \A a \in S : \E i \in 1..Cardinality(S) : Sorted(S)[i] = a
         /\ \A i, j \in 1..Cardinality(S) :
              /\ Sorted(S)[i] = Sorted(S)[j] => i = j
              /\ Rank[Sorted(S)[i]] < Rank[Sorted(S)[j]] => i < j
         /\ S # {} => /\ Cardinality(S) > 0
                      /\ \A b \in S : Rank[b] >= Rank[Sorted(S)[1]]
<1> DEFINE n == Cardinality(S)
           Below(a) == {b \in S : Rank[b] < Rank[a]}
           pos == [a \in S |-> Cardinality(Below(a)) + 1]
<1>1. IsFiniteSet(S) /\ n \in Nat
  BY ShapeAssumption, FS_Subset, FS_CardinalityType
<1>2. /\ \A a \in S : Below(a) \in SUBSET (S \ {a})
      /\ \A a, b \in S : Rank[a] < Rank[b] => Below(a) \cup {a} \in SUBSET Below(b)
      /\ \A a \in S : Below(a) = {} => \A b \in S : Rank[b] >= Rank[a]
      /\ \A i \in 1..n : Sorted(S)[i] = CHOOSE a \in S : Cardinality(Below(a)) = i - 1
      /\ \A a \in S : pos[a] = Cardinality(Below(a)) + 1
  <2>1. \A i \in 1..n : Sorted(S)[i] = CHOOSE a \in S : Cardinality(Below(a)) = i - 1
    BY DEF Sorted
  <2>2. \A a \in S : pos[a] = Cardinality(Below(a)) + 1
    OBVIOUS
  <2>3. \A a, b \in S : Rank[a] < Rank[b] => Below(a) \cup {a} \in SUBSET Below(b)
    BY WalkAssumption
  <2>4. \A a \in S : Below(a) \in SUBSET (S \ {a})
    BY WalkAssumption
  <2>5. \A a \in S : Below(a) = {} => \A b \in S : Rank[b] >= Rank[a]
    BY WalkAssumption
  <2> QED BY <2>1, <2>2, <2>3, <2>4, <2>5
<1> HIDE DEF Below
<1>10. ASSUME NEW a \in S
       PROVE  IsFiniteSet(Below(a)) /\ Cardinality(Below(a)) \in 0..(n - 1)
  <2>1. IsFiniteSet(S \ {a}) /\ Cardinality(S \ {a}) = n - 1
    BY <1>1, FS_RemoveElement
  <2>2. IsFiniteSet(Below(a)) /\ Cardinality(Below(a)) <= n - 1
    BY <1>2, <2>1, FS_Subset
  <2> QED BY <2>2, <1>1, FS_CardinalityType
<1>3. ASSUME NEW a \in S, NEW b \in S, Rank[a] < Rank[b]
      PROVE  Cardinality(Below(a)) < Cardinality(Below(b))
  <2>1. Below(a) \cup {a} \in SUBSET Below(b) /\ a \notin Below(a)
    BY <1>2, <1>3
  <2>2. Cardinality(Below(a) \cup {a}) = Cardinality(Below(a)) + 1
    BY <1>10, <2>1, FS_AddElement
  <2>3. Cardinality(Below(a) \cup {a}) <= Cardinality(Below(b))
    BY <1>10, <2>1, FS_Subset
  <2> QED BY <1>10, <2>2, <2>3
<1>4. pos \in [S -> 1..n]
  <2>1. \A a \in S : Cardinality(Below(a)) + 1 \in 1..n
    BY <1>1, <1>10
  <2> QED BY <2>1
<1> HIDE DEF pos
<1>5. \A a, b \in S : pos[a] = pos[b] => a = b
  <2> SUFFICES ASSUME NEW a \in S, NEW b \in S, pos[a] = pos[b]
               PROVE  a = b
    OBVIOUS
  <2>1. Cardinality(Below(a)) = Cardinality(Below(b))
    BY <1>2, <1>10
  <2>2. ~(Rank[a] < Rank[b]) /\ ~(Rank[b] < Rank[a])
    BY <1>3, <1>10, <2>1
  <2>3. Rank[a] = Rank[b]
    BY <2>2, WalkAssumption
  <2> QED BY <2>3, WalkAssumption
<1>6. \A i \in 1..n : \E a \in S : pos[a] = i
  <2>1. pos \in Injection(S, 1..n)
    BY <1>4, <1>5 DEF Injection, IsInjective
  <2>2. IsFiniteSet(1..n) /\ Cardinality(1..n) = n
    BY <1>1, FS_Interval
  <2>3. pos \in Surjection(S, 1..n)
    BY <2>1, <2>2, FS_Injection
  <2> QED BY <2>3 DEF Surjection
<1>7. ASSUME NEW i \in 1..n
      PROVE  Sorted(S)[i] \in S /\ pos[Sorted(S)[i]] = i
  <2>1. Sorted(S)[i] = CHOOSE a \in S : Cardinality(Below(a)) = i - 1
    BY <1>2
  <2>2. PICK a \in S : pos[a] = i
    BY <1>6
  <2>3. Cardinality(Below(a)) = i - 1
    BY <1>2, <1>10, <2>2
  <2>4. Sorted(S)[i] \in S /\ Cardinality(Below(Sorted(S)[i])) = i - 1
    BY <2>1, <2>3
  <2> QED BY <1>2, <1>10, <2>4
<1>8. ASSUME NEW a \in S
      PROVE  \E i \in 1..n : Sorted(S)[i] = a
  <2>1. pos[a] \in 1..n
    BY <1>4
  <2> QED BY <1>5, <1>7, <2>1
<1>9. ASSUME S # {}
      PROVE  n > 0 /\ \A b \in S : Rank[b] >= Rank[Sorted(S)[1]]
  <2>1. n > 0
    BY <1>1, <1>9, FS_EmptySet
  <2>2. Sorted(S)[1] \in S /\ Cardinality(Below(Sorted(S)[1])) = 0
    <3>1. Sorted(S)[1] \in S /\ pos[Sorted(S)[1]] = 1
      BY <1>1, <1>7, <2>1
    <3> QED BY <1>2, <1>10, <3>1
  <2>3. Below(Sorted(S)[1]) = {}
    BY <1>10, <2>2, FS_EmptySet
  <2> QED BY <1>2, <2>1, <2>2, <2>3
<1>11. ASSUME NEW i \in 1..n, NEW j \in 1..n
       PROVE  /\ Sorted(S)[i] = Sorted(S)[j] => i = j
              /\ Rank[Sorted(S)[i]] < Rank[Sorted(S)[j]] => i < j
  <2>1. /\ Sorted(S)[i] \in S /\ pos[Sorted(S)[i]] = i
        /\ Sorted(S)[j] \in S /\ pos[Sorted(S)[j]] = j
    BY <1>7
  <2>2. ASSUME Rank[Sorted(S)[i]] < Rank[Sorted(S)[j]]
        PROVE  i < j
    <3>1. Cardinality(Below(Sorted(S)[i])) < Cardinality(Below(Sorted(S)[j]))
      BY <1>3, <2>1, <2>2
    <3>2. /\ i = Cardinality(Below(Sorted(S)[i])) + 1
          /\ j = Cardinality(Below(Sorted(S)[j])) + 1
      BY <1>2, <2>1
    <3> QED BY <1>10, <2>1, <3>1, <3>2
  <2> QED BY <2>1, <2>2
<1> QED BY <1>1, <1>7, <1>8, <1>9, <1>11

\* What is queued is what the walk sees.
LEMMA QueuedFacts ==
  ASSUME NEW S \in SUBSET Archives, NEW d \in Nat
  PROVE  /\ Queued(S, d) \in Seq(Entries)
         /\ ArchivesOf(Queued(S, d)) = S
         /\ Queued(S, d) # <<>> =>
              /\ Head(Queued(S, d)).archive \in S
              /\ \A b \in S : Rank[b] >= Rank[Head(Queued(S, d)).archive]
<1> DEFINE n == Cardinality(S)
           q == Queued(S, d)
<1>1. n \in Nat /\ \A i \in 1..n : Sorted(S)[i] \in S
  BY SortedFacts
<1>2. q = [i \in 1..n |-> [archive |-> Sorted(S)[i], depth |-> d]]
  BY DEF Queued
<1> HIDE DEF q
<1>3. q \in [1..n -> Entries]
  BY <1>1, <1>2 DEF Entries
<1>4. q \in Seq(Entries)
  BY <1>1, <1>3, SeqDef
<1>5. Len(q) = n
  <2>1. Len(q) \in Nat /\ DOMAIN q = 1..Len(q)
    BY <1>4, LenProperties
  <2>2. DOMAIN q = 1..n
    BY <1>2
  <2> QED BY <1>1, <2>1, <2>2
<1>6. \A i \in 1..n : q[i].archive = Sorted(S)[i]
  BY <1>2
<1>7. ArchivesOf(q) = S
  <2>1. \A a \in ArchivesOf(q) : a \in S
    BY <1>1, <1>5, <1>6 DEF ArchivesOf
  <2>2. \A a \in S : a \in ArchivesOf(q)
    BY <1>5, <1>6, SortedFacts DEF ArchivesOf
  <2> QED BY <2>1, <2>2
<1>8. ASSUME q # <<>>
      PROVE  /\ Head(q).archive \in S
             /\ \A b \in S : Rank[b] >= Rank[Head(q).archive]
  <2>1. n > 0
    BY <1>1, <1>4, <1>5, <1>8, EmptySeq
  <2>2. Head(q).archive = Sorted(S)[1]
    BY <1>1, <1>4, <1>6, <1>8, <2>1
  <2> QED BY <1>1, <2>1, <2>2, SortedFacts
<1> QED BY <1>4, <1>7, <1>8 DEF q

\* The head of a queue and the rest.
LEMMA TailFacts ==
  ASSUME NEW q \in Seq(Entries), q # <<>>
  PROVE  /\ Head(q) \in Entries /\ Tail(q) \in Seq(Entries)
         /\ ArchivesOf(q) = {Head(q).archive} \cup ArchivesOf(Tail(q))
<1>1. /\ Head(q) \in Entries /\ Tail(q) \in Seq(Entries) /\ Len(Tail(q)) = Len(q) - 1
      /\ \A i \in 1..Len(Tail(q)) : Tail(q)[i] = q[i + 1]
  BY HeadTailProperties
<1>2. Len(q) \in Nat \ {0} /\ Head(q) = q[1]
  BY EmptySeq
<1>3. ASSUME NEW a \in ArchivesOf(q)
      PROVE  a \in {Head(q).archive} \cup ArchivesOf(Tail(q))
  <2>1. PICK i \in 1..Len(q) : a = q[i].archive
    BY DEF ArchivesOf
  <2>2. CASE i = 1
    BY <1>2, <2>1, <2>2
  <2>3. CASE i # 1
    <3>1. i - 1 \in 1..Len(Tail(q)) /\ Tail(q)[i - 1] = q[i]
      BY <1>1, <1>2, <2>3
    <3> QED BY <2>1, <3>1 DEF ArchivesOf
  <2> QED BY <2>2, <2>3
<1>4. Head(q).archive \in ArchivesOf(q)
  BY <1>2 DEF ArchivesOf
<1>5. ASSUME NEW i \in 1..Len(Tail(q))
      PROVE  Tail(q)[i].archive \in ArchivesOf(q)
  <2>1. i + 1 \in 1..Len(q) /\ Tail(q)[i] = q[i + 1]
    BY <1>1, <1>2
  <2> QED BY <2>1 DEF ArchivesOf
<1> QED BY <1>1, <1>3, <1>4, <1>5 DEF ArchivesOf

\* Queueing behind the rest.
LEMMA ConcatFacts ==
  ASSUME NEW p \in Seq(Entries), NEW q \in Seq(Entries)
  PROVE  p \o q \in Seq(Entries) /\ ArchivesOf(p \o q) = ArchivesOf(p) \cup ArchivesOf(q)
<1>1. /\ p \o q \in Seq(Entries) /\ Len(p \o q) = Len(p) + Len(q)
      /\ Len(p) \in Nat /\ Len(q) \in Nat
      /\ \A i \in 1..Len(p) : (p \o q)[i] = p[i]
      /\ \A i \in 1..Len(q) : (p \o q)[Len(p) + i] = q[i]
  BY ConcatProperties, LenProperties
<1>2. ASSUME NEW i \in 1..Len(p \o q)
      PROVE  (p \o q)[i].archive \in ArchivesOf(p) \cup ArchivesOf(q)
  <2>1. CASE i <= Len(p)
    BY <1>1, <2>1 DEF ArchivesOf
  <2>2. CASE ~(i <= Len(p))
    <3>1. i - Len(p) \in 1..Len(q) /\ i = Len(p) + (i - Len(p))
      BY <1>1, <2>2
    <3> QED BY <1>1, <3>1 DEF ArchivesOf
  <2> QED BY <2>1, <2>2
<1>3. ASSUME NEW i \in 1..Len(p)
      PROVE  p[i].archive \in ArchivesOf(p \o q)
  BY <1>1 DEF ArchivesOf
<1>4. ASSUME NEW i \in 1..Len(q)
      PROVE  q[i].archive \in ArchivesOf(p \o q)
  <2>1. Len(p) + i \in 1..Len(p \o q)
    BY <1>1
  <2> QED BY <1>1, <2>1 DEF ArchivesOf
<1> QED BY <1>1, <1>2, <1>3, <1>4 DEF ArchivesOf

(***************************************************************************)
(* The delivery layers.                                                    *)
(***************************************************************************)
\* They are the least set with what was delivered and what is in its ZIPs.
LEMMA DeliveryFacts ==
  /\ Closed(Deliveries)
  /\ \A D \in SUBSET Archives : Closed(D) => Deliveries \subseteq D
  /\ Types => \A a \in Deliveries : a \in Delivered \/ holder[a] \in Deliveries
<1>1. Closed(Deliveries)
  BY DEF Closed, Deliveries, Delivered
<1>2. \A D \in SUBSET Archives : Closed(D) => Deliveries \subseteq D
  BY DEF Deliveries
<1>3. ASSUME NEW a \in Deliveries, a \notin Delivered, holder[a] \notin Deliveries
      PROVE  FALSE
  <2>1. Closed(Deliveries \ {a})
    BY <1>1, <1>3 DEF Closed
  <2>2. Deliveries \ {a} \in SUBSET Archives
    BY DEF Deliveries
  <2> QED BY <1>2, <2>1, <2>2
<1> QED BY <1>1, <1>2, <1>3

(***************************************************************************)
(* The limit on nesting.                                                   *)
(***************************************************************************)
\* A set of numbers has a least one (from WFMin).
LEMMA LeastNumber ==
  ASSUME NEW T \in SUBSET Nat, NEW t \in T
  PROVE  \E r \in T : \A u \in T : u >= r
<1> DEFINE Less == {ss \in Nat \X Nat : ss[1] < ss[2]}
<1>1. IsWellFoundedOn(Less, Nat)
  BY NatLessThanWellFounded, Zenon DEF OpToRel
<1> HIDE DEF Less
<1>2. PICK r \in T : \A u \in T : ~(<<u, r>> \in Less)
  BY <1>1, WFMin, Zenon
<1>3. \A u \in T : ~(u < r) /\ u \in Nat /\ r \in Nat
  BY <1>2 DEF Less
<1> QED BY <1>2, <1>3

\* Induction over the naturals, for a set.
LEMMA Counting ==
  ASSUME NEW S, 0 \in S, \A n \in Nat : n \in S => n + 1 \in S
  PROVE  \A n \in Nat : n \in S
<1> SUFFICES ASSUME NEW n \in Nat, n \notin S PROVE FALSE
  OBVIOUS
<1> DEFINE T == {m \in Nat : m \notin S}
<1>1. T \in SUBSET Nat /\ n \in T
  OBVIOUS
<1> HIDE DEF T
<1>2. PICK m \in T : \A u \in T : u >= m
  BY <1>1, LeastNumber
<1> USE DEF T
<1>3. m \in Nat /\ m # 0
  BY <1>2
<1>4. m - 1 \in Nat /\ m = (m - 1) + 1 /\ ~(m - 1 >= m)
  BY <1>3
<1> QED BY <1>2, <1>4

\* One layer after the other.
LEMMA LayerFacts ==
  /\ Layers[0] = Delivered
  /\ \A d \in 1..MaxZipDepth :
       Layers[d] = {a \in Archives : holder[a] \in Layers[d - 1] /\ Kind[holder[a]] = "zip"}
<1> DEFINE At(f, d) == IF d = 0 THEN Delivered
                       ELSE {a \in Archives : holder[a] \in f[d - 1] /\ Kind[holder[a]] = "zip"}
           S == {N \in Nat : \E f : f = [d \in 0..N |-> At(f, d)]}
<1>1. 0 \in S
  <2> DEFINE f == [d \in 0..0 |-> Delivered]
  <2>1. f = [d \in 0..0 |-> At(f, d)]
    OBVIOUS
  <2> QED BY <2>1
<1>2. ASSUME NEW N \in Nat, N \in S PROVE N + 1 \in S
  <2>1. PICK g : g = [d \in 0..N |-> At(g, d)]
    BY <1>2
  <2> DEFINE f == [d \in 0..N + 1 |-> IF d <= N THEN g[d] ELSE At(g, N + 1)]
  <2>2. ASSUME NEW d \in 0..N + 1 PROVE f[d] = At(f, d)
    <3>1. CASE d \in 0..N
      <4>1. g[d] = At(g, d)
        <5> HIDE DEF At
        <5> QED BY <2>1, <3>1
      <4>2. f[d] = g[d] /\ (d # 0 => f[d - 1] = g[d - 1])
        <5> HIDE DEF At
        <5> QED BY <3>1
      <4> HIDE DEF f
      <4> QED BY <4>1, <4>2
    <3>2. CASE d = N + 1
      <4>1. f[d] = At(g, N + 1) /\ f[d - 1] = g[d - 1] /\ d # 0
        BY <3>2
      <4> QED BY <3>2, <4>1
    <3> QED BY <3>1, <3>2
  <2>3. f = [d \in 0..N + 1 |-> At(f, d)]
    <3> HIDE DEF At
    <3> QED BY <2>2
  <2> HIDE DEF f
  <2> QED BY <2>3
<1>3. MaxZipDepth \in S
  <2> HIDE DEF S
  <2> QED BY <1>1, <1>2, ShapeAssumption, Counting
<1> DEFINE layer == CHOOSE f : f = [d \in 0..MaxZipDepth |-> At(f, d)]
<1>4. layer = [d \in 0..MaxZipDepth |-> At(layer, d)]
  BY <1>3
<1>5. Layers = layer
  BY DEF Layers
<1> HIDE DEF layer, At
<1>6. \A d \in 0..MaxZipDepth : layer[d] = At(layer, d)
  BY <1>4
<1>7. layer[0] = Delivered
  <2>1. layer[0] = At(layer, 0)
    BY <1>6, ShapeAssumption
  <2> QED BY <2>1 DEF At
<1>8. ASSUME NEW d \in 1..MaxZipDepth
      PROVE  layer[d] = {a \in Archives : holder[a] \in layer[d - 1] /\ Kind[holder[a]] = "zip"}
  <2>1. layer[d] = At(layer, d) /\ d # 0
    BY <1>6, ShapeAssumption
  <2> QED BY <2>1 DEF At
<1> QED BY <1>5, <1>7, <1>8

LEMMA LayersFrame == holder' = holder => Layers' = Layers
BY DEF Layers, Delivered

(***************************************************************************)
(* Queues without repetitions, and how deep their entries are.             *)
(***************************************************************************)
LEMMA TailKeeps ==
  ASSUME NEW q \in Seq(Entries), q # <<>>, Once(q), NEW layers, NEW found
  PROVE  /\ Once(Tail(q))
         /\ Head(q).archive \notin ArchivesOf(Tail(q))
         /\ Shallow(q, layers, found) /\ Head(q).archive \notin found
              => Shallow(Tail(q), layers, found) /\ Head(q).archive \in layers[Head(q).depth]
                 /\ Head(q).depth \in 0..MaxZipDepth
<1>1. /\ Len(Tail(q)) = Len(q) - 1 /\ Len(q) \in Nat \ {0} /\ Head(q) = q[1]
      /\ \A i \in 1..Len(Tail(q)) : Tail(q)[i] = q[i + 1]
  BY HeadTailProperties, EmptySeq, LenProperties
<1>2. \A i \in 1..Len(Tail(q)) : i + 1 \in 1..Len(q)
  BY <1>1
<1>3. ASSUME NEW i \in 1..Len(Tail(q)), NEW j \in 1..Len(Tail(q)),
             Tail(q)[i].archive = Tail(q)[j].archive
      PROVE  i = j
  <2>1. i + 1 = j + 1
    BY <1>1, <1>2, <1>3 DEF Once
  <2> QED BY <2>1
<1>4. Head(q).archive \notin ArchivesOf(Tail(q))
  <2> SUFFICES ASSUME NEW i \in 1..Len(Tail(q)), Tail(q)[i].archive = Head(q).archive
               PROVE  FALSE
    BY DEF ArchivesOf
  <2>1. i + 1 = 1
    BY <1>1, <1>2 DEF Once
  <2> QED BY <2>1
<1>5. ASSUME Shallow(q, layers, found), Head(q).archive \notin found
      PROVE  /\ Shallow(Tail(q), layers, found)
             /\ Head(q).archive \in layers[Head(q).depth] /\ Head(q).depth \in 0..MaxZipDepth
  <2>1. ASSUME NEW i \in 1..Len(Tail(q)), NEW j \in 1..i + 1, q[j].archive \in found
        PROVE  \E k \in 1..i : Tail(q)[k].archive \in found
    <3>1. j # 1
      BY <1>1, <1>5, <2>1
    <3>2. j - 1 \in 1..i /\ j - 1 \in 1..Len(Tail(q)) /\ (j - 1) + 1 = j
      BY <1>1, <2>1, <3>1
    <3>3. Tail(q)[j - 1] = q[j]
      BY <1>1, <3>2
    <3> QED BY <2>1, <3>2, <3>3
  <2>2. ASSUME NEW i \in 1..Len(Tail(q))
        PROVE  /\ Tail(q)[i].depth \in 0..MaxZipDepth
               /\ \/ Tail(q)[i].archive \in layers[Tail(q)[i].depth]
                  \/ \E k \in 1..i : Tail(q)[k].archive \in found
    <3>1. Tail(q)[i] = q[i + 1] /\ i + 1 \in 1..Len(q)
      BY <1>1, <1>2
    <3> QED BY <1>5, <2>1, <3>1 DEF Shallow
  <2>3. Head(q).archive \in layers[Head(q).depth] /\ Head(q).depth \in 0..MaxZipDepth
    <3>1. 1 \in 1..Len(q) /\ \A j \in 1..1 : q[j] = Head(q)
      BY <1>1
    <3> QED BY <1>1, <1>5, <3>1 DEF Shallow
  <2> QED BY <2>2, <2>3 DEF Shallow
<1> QED BY <1>3, <1>4, <1>5 DEF Once

LEMMA ConcatKeeps ==
  ASSUME NEW p \in Seq(Entries), NEW q \in Seq(Entries), NEW layers, NEW found,
         Once(p), Once(q), ArchivesOf(p) \cap ArchivesOf(q) = {}
  PROVE  /\ Once(p \o q)
         /\ Shallow(p, layers, found) /\ Shallow(q, layers, {}) => Shallow(p \o q, layers, found)
<1> DEFINE m == Len(p)
           w == p \o q
<1>1. /\ Len(w) = m + Len(q) /\ m \in Nat /\ Len(q) \in Nat
      /\ \A i \in 1..m : w[i] = p[i]
      /\ \A i \in 1..Len(q) : w[m + i] = q[i]
  BY ConcatProperties, LenProperties
<1> HIDE DEF m, w
<1>2. \A i \in 1..Len(w) : i \in 1..m \/ (i - m \in 1..Len(q) /\ i = m + (i - m))
  BY <1>1
<1>3. \A i \in 1..Len(w) : i \in 1..m => w[i] = p[i]
  BY <1>1
<1>4. \A i \in 1..Len(w) : i - m \in 1..Len(q) => w[i] = q[i - m]
  BY <1>1, <1>2
<1>5. ASSUME NEW i \in 1..Len(w), NEW j \in 1..Len(w), w[i].archive = w[j].archive
      PROVE  i = j
  <2>1. CASE i \in 1..m /\ j \in 1..m
    BY <1>3, <1>5, <2>1 DEF Once, m
  <2>2. CASE i - m \in 1..Len(q) /\ j - m \in 1..Len(q)
    <3>1. i - m = j - m
      BY <1>4, <1>5, <2>2 DEF Once
    <3> QED BY <1>1, <1>2, <2>2, <3>1
  <2>3. CASE i \in 1..m /\ j - m \in 1..Len(q)
    <3>1. w[i].archive \in ArchivesOf(p) /\ w[j].archive \in ArchivesOf(q)
      BY <1>3, <1>4, <2>3 DEF ArchivesOf, m
    <3> QED BY <1>5, <3>1
  <2>4. CASE i - m \in 1..Len(q) /\ j \in 1..m
    <3>1. w[j].archive \in ArchivesOf(p) /\ w[i].archive \in ArchivesOf(q)
      BY <1>3, <1>4, <2>4 DEF ArchivesOf, m
    <3> QED BY <1>5, <3>1
  <2> QED BY <1>2, <2>1, <2>2, <2>3, <2>4
<1>6. ASSUME Shallow(p, layers, found), Shallow(q, layers, {}), NEW i \in 1..Len(w)
      PROVE  /\ w[i].depth \in 0..MaxZipDepth
             /\ \/ w[i].archive \in layers[w[i].depth]
                \/ \E j \in 1..i : w[j].archive \in found
  <2>1. CASE i \in 1..m
    <3>1. \A j \in 1..i : w[j] = p[j]
      BY <1>1, <2>1
    <3>2. w[i] = p[i]
      BY <1>3, <2>1
    <3> QED BY <1>6, <2>1, <3>1, <3>2 DEF Shallow, m
  <2>2. CASE i - m \in 1..Len(q)
    <3>1. w[i] = q[i - m]
      BY <1>4, <2>2
    <3> QED BY <1>6, <2>2, <3>1 DEF Shallow
  <2> QED BY <1>2, <2>1, <2>2
<1> QED BY <1>5, <1>6 DEF Once, Shallow, w

LEMMA QueuedOnce ==
  ASSUME NEW S \in SUBSET Archives, NEW d \in Nat
  PROVE  /\ Once(Queued(S, d)) /\ Len(Queued(S, d)) = Cardinality(S)
         /\ \A i \in 1..Cardinality(S) : Queued(S, d)[i] = [archive |-> Sorted(S)[i], depth |-> d]
         /\ \A layers : S = {} \/ (d <= MaxZipDepth /\ S \subseteq layers[d])
                          => Shallow(Queued(S, d), layers, {})
<1>1. Cardinality(S) \in Nat /\ \A i \in 1..Cardinality(S) : Sorted(S)[i] \in S
  BY SortedFacts
<1>2. Queued(S, d) \in Seq(Entries)
  BY QueuedFacts
<1>3. Queued(S, d) = [i \in 1..Cardinality(S) |-> [archive |-> Sorted(S)[i], depth |-> d]]
  BY DEF Queued
<1> DEFINE q == Queued(S, d)
<1> HIDE DEF q
<1>4. Len(q) = Cardinality(S)
  <2>1. Len(q) \in Nat /\ DOMAIN q = 1..Len(q)
    BY <1>2, LenProperties DEF q
  <2>2. DOMAIN q = 1..Cardinality(S)
    BY <1>3 DEF q
  <2> QED BY <1>1, <2>1, <2>2
<1>5. \A i \in 1..Cardinality(S) : q[i] = [archive |-> Sorted(S)[i], depth |-> d]
  BY <1>3 DEF q
<1>6. \A i \in 1..Len(q) : q[i].archive = Sorted(S)[i] /\ q[i].depth = d
  BY <1>4, <1>5
<1>7. Once(q)
  BY <1>4, <1>6, SortedFacts DEF Once
<1>8. ASSUME NEW layers, S = {} \/ (d <= MaxZipDepth /\ S \subseteq layers[d])
      PROVE  Shallow(q, layers, {})
  <2>1. \A i \in 1..Len(q) : q[i].archive \in S
    BY <1>1, <1>4, <1>6
  <2> QED BY <1>6, <1>8, <2>1, ShapeAssumption DEF Shallow
<1> QED BY <1>4, <1>5, <1>7, <1>8 DEF q

(***************************************************************************)
(* The steps.                                                              *)
(***************************************************************************)
\* The release does not change.
LEMMA Frame ==
  ASSUME holder' = holder
  PROVE  /\ Delivered' = Delivered /\ Deliveries' = Deliveries
         /\ \A S : Rooted(S)' <=> Rooted(S)
<1>1. Delivered' = Delivered
  BY DEF Delivered
<1>2. \A D : Closed(D)' <=> Closed(D)
  BY <1>1 DEF Closed
<1>3. Deliveries' = Deliveries
  BY <1>2 DEF Deliveries
<1> QED BY <1>1, <1>3 DEF Rooted

\* The archive at hand is in the queue, and is what is taken off.
LEMMA HeadFacts ==
  ASSUME Types, queue # <<>>
  PROVE  /\ AtHand \in Archives /\ Head(queue).depth \in Nat /\ AtHand \in Queues
         /\ Tail(queue) \in Seq(Entries)
         /\ Queues = {AtHand} \cup ArchivesOf(Tail(queue))
BY TailFacts DEF Types, Queues, AtHand, Entries

\* Wherever a run stops, whatever has outputs has that of a delivered archive.
LEMMA StopsRooted ==
  ASSUME Types, Running, pc # "idle"
  PROVE  /\ Rooted(Found \cup results)
         /\ queue # <<>> => Rooted(Found \cup results \cup {AtHand})
<1>1. Rooted(Found) /\ (Found = {} => Clean)
  BY DEF Running
<1>2. CASE Found # {}
  BY <1>1, <1>2 DEF Rooted
<1>3. CASE Found = {}
  <2>1. Rooted(results)
    BY <1>1, <1>3 DEF Clean
  <2>2. ASSUME queue # <<>>
        PROVE  Rooted(results \cup {AtHand})
    <3>1. AtHand \in Delivered \/ holder[AtHand] \in results
      BY <1>1, <1>3, <2>2, HeadFacts DEF Clean
    <3> QED BY <2>1, <3>1 DEF Rooted
  <2> QED BY <1>3, <2>1, <2>2 DEF Rooted
<1> QED BY <1>2, <1>3

\* The outputs there are, in a run.
LEMMA Outputs ==
  ASSUME Types, Running, pc # "idle"
  PROVE  /\ results \subseteq Expanded
         /\ pc \in {"loop", "extract"} => Found = Expanded \ results
         /\ pc = "raised" /\ existed => Found = Expanded \ results
         /\ pc = "raised" /\ ~existed => Found = (Expanded \ results) \ {AtHand}
BY DEF Types, Running, Processing, Expanded, Found, Own

\* The initial states satisfy the invariant.
LEMMA InitIInv == Init => IInv
<1> SUFFICES ASSUME Init PROVE IInv
  OBVIOUS
<1>1. Types
  BY EmptySeq DEF Init, Types
<1>2. Running /\ Resting
  BY DEF Init, Running, Resting, Rooted, Expanded
<1>3. Final
  BY DEF Init, Final
<1>4. Limit
  BY EmptySeq DEF Init, Limit, Expanded, Once
<1> QED BY <1>1, <1>2, <1>3, <1>4 DEF IInv

\* A new run: with a manifest there, the first archive of the walk has an output.
LEMMA BeginKeeps ==
  ASSUME IInv, Begin
  PROVE  IInv'
<1>1. /\ pc = "idle" /\ pc' = "loop" /\ processed' = {} /\ results' = {}
      /\ holder' = holder /\ output' = output /\ manifest' = manifest /\ existed' = existed
  BY DEF Begin
<1>2. PICK S \in Visible : queue' = Queued(S, 0)
  BY DEF Begin
<1>3. S \in SUBSET Archives
  BY <1>2 DEF Visible, Delivered
<1>4. /\ queue' \in Seq(Entries) /\ Queues' = S
      /\ queue' # <<>> => AtHand' \in S /\ \A b \in S : Rank[b] >= Rank[AtHand']
  BY <1>2, <1>3, QueuedFacts DEF Queues, AtHand
<1>5. Delivered' = Delivered /\ Deliveries' = Deliveries /\ \A T : Rooted(T)' <=> Rooted(T)
  BY <1>1, Frame
<1>6. Types /\ Resting /\ Final
  BY DEF IInv
<1>7. Types'
  BY <1>1, <1>4, <1>6 DEF Types
<1>8. Found' = Expanded
  BY <1>1 DEF Found, Own, Expanded
<1>9. Delivered \subseteq S
  BY <1>2 DEF Visible
<1>10. ASSUME Expanded = {}
       PROVE  S = Delivered
  <2>1. \A a \in Archives : holder[a] # Release => holder[a] \in Archives
    BY <1>6, ShapeAssumption DEF Types
  <2>2. \A a \in Archives : ~InOutput(a, {"full", "partial"})
    BY <1>10, <2>1 DEF InOutput, Expanded
  <2> QED BY <1>2, <1>9, <2>2 DEF Visible
<1>11. Running'
  <2>1. Processing'
    BY <1>1 DEF Processing
  <2>2. Covering'
    BY <1>1, <1>4, <1>5, <1>9 DEF Covering
  <2>3. Rooted(Found)'
    BY <1>1, <1>5, <1>6, <1>8 DEF Resting, Rooted
  <2>4. ASSUME Found' = {}
        PROVE  Clean'
    <3>1. Queues' = Delivered /\ Delivered \subseteq Deliveries
      BY <1>4, <1>8, <1>10, <2>4, DeliveryFacts DEF Closed
    <3> QED BY <1>1, <1>5, <3>1 DEF Clean, Rooted
  <2> QED BY <2>1, <2>2, <2>3, <2>4 DEF Running
<1>12. Resting'
  BY <1>1 DEF Resting
<1>13. ASSUME manifest' \notin {{}, {OldManifest}}, queue' # <<>>
       PROVE  AtHand' \in Expanded
  <2>1. /\ Expanded = Deliveries
        /\ \A a \in Deliveries : output[a] = "full"
    BY <1>1, <1>6, <1>13 DEF Final, Expanded, Deliveries
  <2>2. AtHand' \in S /\ \A b \in S : Rank[b] >= Rank[AtHand']
    BY <1>4, <1>13
  <2>3. CASE AtHand' \in Delivered
    BY <2>1, <2>3, DeliveryFacts DEF Closed
  <2>4. CASE AtHand' \notin Delivered
    <3> DEFINE a == AtHand'
               h == holder[a]
    <3>1. a \in Archives /\ InOutput(a, {"full", "partial"})
      BY <1>2, <1>3, <2>2, <2>4 DEF Visible
    <3>2. h # Release /\ h \in Archives /\ h \in Deliveries
      <4>1. h # Release /\ output[h] \in {"full", "partial"}
        BY <3>1 DEF InOutput
      <4>2. h \in Archives
        BY <1>6, <3>1, <4>1, ShapeAssumption DEF Types
      <4> QED BY <2>1, <4>1, <4>2 DEF Expanded
    <3>3. h \in S
      <4>1. CASE h \in Delivered
        BY <1>9, <4>1
      <4>2. CASE h \notin Delivered
        <5>1. holder[h] \in Deliveries
          BY <1>6, <3>2, <4>2, DeliveryFacts
        <5>2. InOutput(h, {"full"})
          BY <2>1, <3>2, <4>2, <5>1 DEF InOutput, Delivered
        <5> QED BY <1>2, <3>2, <5>2 DEF Visible
      <4> QED BY <4>1, <4>2
    <3>4. Rank[h] < Rank[a]
      BY <1>6, <3>1, <3>2, WalkAssumption DEF Types
    <3>5. Rank[h] >= Rank[a]
      BY <2>2, <3>3
    <3> QED BY <3>1, <3>2, <3>4, <3>5, WalkAssumption
  <2> QED BY <2>3, <2>4
<1>14. Final'
  BY <1>1, <1>5, <1>6, <1>13 DEF Final, Expanded
<1>15. Limit'
  <2> DEFINE q == Queued(S, 0)
  <2>1. /\ Once(q) /\ Len(q) = Cardinality(S)
        /\ \A i \in 1..Cardinality(S) : q[i].archive = Sorted(S)[i] /\ q[i].depth = 0
    <3>1. /\ Once(q) /\ Len(q) = Cardinality(S)
          /\ \A i \in 1..Cardinality(S) : q[i] = [archive |-> Sorted(S)[i], depth |-> 0]
      <4>1. 0 \in Nat
        OBVIOUS
      <4> QED BY <1>3, <4>1, QueuedOnce, Zenon
    <3> HIDE DEF q
    <3> QED BY <3>1
  <2> HIDE DEF q
  <2>2. Limit /\ Layers' = Layers /\ Expanded' = Expanded /\ queue' = q
    BY <1>1, <1>2, LayersFrame DEF IInv, Expanded, q
  <2>3. \A a \in S : a \in Delivered \/ (holder[a] \in Expanded /\ Rank[holder[a]] < Rank[a])
    <3>1. \A a \in S : a \in Delivered \/ InOutput(a, {"full", "partial"})
      BY <1>2 DEF Visible
    <3>2. \A a \in S : holder[a] # Release => holder[a] \in Archives /\ Rank[holder[a]] < Rank[a]
      BY <1>3, <1>6, ShapeAssumption, WalkAssumption DEF Types
    <3> QED BY <3>1, <3>2 DEF InOutput, Expanded
  <2>4. ASSUME NEW i \in 1..Len(q), q[i].archive \notin Delivered
        PROVE  \E j \in 1..i : q[j].archive \in Expanded
    <3> DEFINE a == q[i].archive
               T == {r \in Nat : \E b \in Expanded : Rank[b] = r /\ r < Rank[a]}
    <3>1. a \in S /\ a = Sorted(S)[i] /\ a \in Archives /\ Rank[a] \in Nat
      BY <1>3, <2>1, SortedFacts, WalkAssumption
    <3>2. Rank[holder[a]] \in T
      BY <2>3, <2>4, <3>1, WalkAssumption DEF Expanded
    <3> HIDE DEF T
    <3>3. PICK r \in T : \A t \in T : t >= r
      BY <3>2, LeastNumber DEF T
    <3>4. PICK b \in Expanded : Rank[b] = r /\ r < Rank[a]
      BY <3>3 DEF T
    <3>5. b \in Delivered
      <4> SUFFICES ASSUME b \notin Delivered PROVE FALSE
        OBVIOUS
      <4>1. holder[b] \in Expanded /\ holder[b] \in Archives /\ b \in Archives
        BY <2>2 DEF Limit, Expanded
      <4>2. Rank[holder[b]] < Rank[b] /\ Rank[holder[b]] \in Nat /\ Rank[b] \in Nat
        BY <1>6, <4>1, ShapeAssumption, WalkAssumption DEF Types
      <4>3. Rank[holder[b]] \in T
        BY <3>1, <3>4, <4>1, <4>2 DEF T
      <4> QED BY <3>3, <3>4, <4>2, <4>3
    <3>6. PICK j \in 1..Cardinality(S) : Sorted(S)[j] = b
      BY <1>3, <1>9, <3>5, SortedFacts
    <3>7. j < i
      BY <1>3, <2>1, <3>1, <3>4, <3>6, SortedFacts
    <3> QED BY <2>1, <3>4, <3>6, <3>7
  <2>5. Shallow(q, Layers, Expanded)
    <3>1. \A i \in 1..Len(q) : q[i].depth = 0 /\ 0 \in 0..MaxZipDepth
      BY <2>1, ShapeAssumption
    <3> QED BY <2>4, <3>1, LayerFacts DEF Shallow
  <2>6. \A a \in S : a \in Delivered \/ holder[a] \in Expanded
    BY <2>3
  <2>7. Once(queue')
    BY <2>1, <2>2
  <2>8. Shallow(queue', Layers', Found')
    BY <1>8, <2>2, <2>5
  <2> QED BY <1>1, <1>4, <1>5, <2>2, <2>6, <2>7, <2>8 DEF Limit
<1> QED BY <1>7, <1>11, <1>12, <1>14, <1>15 DEF IInv

\* The head of the loop.
LEMMA PopKeeps ==
  ASSUME IInv, Pop
  PROVE  IInv'
<1>1. /\ pc = "loop" /\ queue # <<>> /\ holder' = holder /\ output' = output
      /\ manifest' = manifest /\ results' = results /\ Types /\ Running /\ Final
  BY DEF Pop, IInv
<1>2. Delivered' = Delivered /\ Deliveries' = Deliveries /\ \A T : Rooted(T)' <=> Rooted(T)
  BY <1>1, Frame
<1>3. /\ Processing /\ Covering /\ Rooted(Found) /\ (Found = {} => Clean)
      /\ processed = results /\ Found = Expanded \ results
  BY <1>1, Outputs DEF Running, Processing
<1>4. /\ AtHand \in Archives /\ Tail(queue) \in Seq(Entries)
      /\ Queues = {AtHand} \cup ArchivesOf(Tail(queue))
  BY <1>1, HeadFacts
<1>5. CASE AtHand \in processed
  <2>1. queue' = Tail(queue) /\ UNCHANGED <<processed, existed, pc>>
    BY <1>5 DEF Pop, AtHand
  <2>2. queue' \in Seq(Entries) /\ results \cup Queues' = results \cup Queues
    BY <1>3, <1>4, <1>5, <2>1 DEF Queues
  <2>3. Found' = Found /\ Expanded' = Expanded
    BY <1>1, <2>1 DEF Found, Own, Expanded
  <2>4. Types'
    BY <1>1, <2>1, <2>2 DEF Types
  <2>5. Processing'
    BY <1>1, <1>3, <2>1 DEF Processing
  <2>6. Covering'
    BY <1>1, <1>2, <1>3, <2>2 DEF Covering, Inside
  <2>7. Clean => Clean'
    BY <1>1, <1>2, <2>2 DEF Clean
  <2>8. Running' /\ Resting'
    BY <1>1, <1>2, <1>3, <2>1, <2>3, <2>5, <2>6, <2>7 DEF Running, Resting
  <2>9. manifest \in {{}, {OldManifest}}
    BY <1>1, <1>5 DEF Final
  <2>10. Final'
    BY <1>1, <2>9 DEF Final
  <2>11. Limit'
    <3>1. Limit /\ queue \in Seq(Entries) /\ queue # <<>> /\ AtHand \notin Found
      BY <1>1, <1>3, <1>5 DEF IInv, Types
    <3>2. Once(Tail(queue)) /\ Shallow(Tail(queue), Layers, Found)
      BY <1>1, <3>1, TailKeeps DEF Limit, AtHand
    <3>3. Layers' = Layers
      BY <1>1, LayersFrame
    <3>4. Once(queue)' /\ Shallow(queue, Layers, Found)'
      BY <2>1, <2>3, <3>2, <3>3 DEF Once, Shallow
    <3>5. Queues' \subseteq Queues
      BY <1>4, <2>1 DEF Queues
    <3> QED BY <1>1, <1>2, <2>1, <2>3, <3>1, <3>3, <3>4, <3>5 DEF Limit
  <2> QED BY <2>4, <2>8, <2>10, <2>11 DEF IInv
<1>6. CASE AtHand \notin processed
  <2>1. /\ processed' = processed \cup {AtHand} /\ existed' = (output[AtHand] # "none")
        /\ pc' = "extract" /\ queue' = queue
    BY <1>6 DEF Pop, AtHand
  <2>2. Found' = Found /\ Expanded' = Expanded /\ Queues' = Queues /\ AtHand' = AtHand
    BY <1>1, <2>1 DEF Found, Own, Expanded, Queues, AtHand
  <2>3. Types'
    BY <1>1, <1>4, <2>1 DEF Types
  <2>4. Processing'
    BY <1>1, <1>3, <1>6, <2>1, <2>2 DEF Processing
  <2>5. Covering'
    BY <1>1, <1>2, <1>3, <2>2 DEF Covering, Inside
  <2>6. Clean => Clean'
    BY <1>1, <1>2, <2>2 DEF Clean
  <2>7. Running' /\ Resting'
    BY <1>1, <1>2, <1>3, <2>1, <2>2, <2>4, <2>5, <2>6 DEF Running, Resting
  <2>8. Final'
    BY <1>1, <1>2, <2>1, <2>2 DEF Final
  <2>9. Limit'
    <3>1. Layers' = Layers /\ Limit
      BY <1>1, LayersFrame DEF IInv
    <3>2. Once(queue)' /\ Shallow(queue, Layers, Found)'
      BY <1>1, <2>1, <2>2, <3>1 DEF Limit, Once, Shallow
    <3> QED BY <1>1, <1>2, <2>1, <2>2, <3>1, <3>2 DEF Limit
  <2> QED BY <2>3, <2>7, <2>8, <2>9 DEF IInv
<1> QED BY <1>5, <1>6

\* What is in an extracted ZIP is of the next layer, and is queued.
LEMMA ExtractOkKeeps ==
  ASSUME IInv, ExtractOk
  PROVE  IInv'
<1> DEFINE nested == IF Kind[AtHand] = "zip" THEN Inside(AtHand) ELSE {}
<1>1. /\ pc = "extract" /\ queue # <<>> /\ holder' = holder
      /\ output[AtHand] = "none" /\ output' = [output EXCEPT ![AtHand] = "full"]
      /\ manifest' = manifest /\ processed' = processed /\ existed' = existed
      /\ results' = results \cup {AtHand} /\ Types /\ Running /\ Final
      /\ \/ pc' = "idle" /\ queue' = queue
         \/ /\ pc' = "loop"
            /\ queue' = Tail(queue) \o Queued(nested, Head(queue).depth + 1)
  BY DEF ExtractOk, IInv, AtHand, Types
<1>2. Delivered' = Delivered /\ Deliveries' = Deliveries /\ \A T : Rooted(T)' <=> Rooted(T)
  BY <1>1, Frame
<1>3. /\ Processing /\ Covering /\ Rooted(Found) /\ (Found = {} => Clean)
      /\ processed = results \cup {AtHand} /\ AtHand \notin results
      /\ results \subseteq Expanded /\ Found = Expanded \ results
  BY <1>1, Outputs DEF Running, Processing
<1>4. /\ AtHand \in Archives /\ Head(queue).depth \in Nat /\ Tail(queue) \in Seq(Entries)
      /\ Queues = {AtHand} \cup ArchivesOf(Tail(queue))
  BY <1>1, HeadFacts
<1>5. Expanded' = Expanded \cup {AtHand} /\ AtHand \notin Expanded
  BY <1>1, <1>4 DEF Expanded, Types
<1>6. Found' = Found
  BY <1>1, <1>3, <1>5 DEF Found, Own
<1>7. output' \in [Archives -> {"none", "partial", "full"}]
  BY <1>1 DEF Types
<1>8. manifest \in {{}, {OldManifest}}
  BY <1>1, <1>5 DEF Final
<1>9. Final'
  BY <1>1, <1>8 DEF Final
<1>12. /\ Limit /\ Layers' = Layers /\ AtHand \notin Found /\ queue \in Seq(Entries)
       /\ Once(queue) /\ Shallow(queue, Layers, Found)
  BY <1>1, <1>3, <1>5, LayersFrame DEF IInv, Limit, Types
<1>13. /\ Once(Tail(queue)) /\ Shallow(Tail(queue), Layers, Found)
       /\ AtHand \notin ArchivesOf(Tail(queue))
       /\ AtHand \in Layers[Head(queue).depth] /\ Head(queue).depth \in 0..MaxZipDepth
  BY <1>1, <1>12, TailKeeps DEF AtHand
<1>14. /\ \A a \in Expanded' : a \in Delivered \/ holder[a] \in Expanded'
       /\ \A a \in Expanded' : \E d \in 0..MaxZipDepth : a \in Layers[d]
  BY <1>1, <1>4, <1>5, <1>12, <1>13 DEF Limit
<1>10. CASE pc' = "idle"
  <2>1. Types'
    BY <1>1, <1>4, <1>7, <1>10 DEF Types
  <2>2. Rooted(Expanded')
    BY <1>1, <1>3, <1>5, StopsRooted DEF Rooted
  <2>3. Limit'
    BY <1>1, <1>2, <1>10, <1>12, <1>14 DEF Limit, Once
  <2> QED BY <1>2, <1>9, <1>10, <2>1, <2>2, <2>3 DEF IInv, Running, Resting
<1>11. CASE pc' = "loop"
  <2>1. nested \in SUBSET Archives /\ queue' = Tail(queue) \o Queued(nested, Head(queue).depth + 1)
    BY <1>1, <1>11 DEF Inside
  <2>2. /\ Queued(nested, Head(queue).depth + 1) \in Seq(Entries)
        /\ ArchivesOf(Queued(nested, Head(queue).depth + 1)) = nested
    <3>1. Head(queue).depth + 1 \in Nat
      BY <1>4
    <3> HIDE DEF nested
    <3> QED BY <2>1, <3>1, QueuedFacts
  <2>3. queue' \in Seq(Entries) /\ Queues' = ArchivesOf(Tail(queue)) \cup nested
    BY <1>4, <2>1, <2>2, ConcatFacts DEF Queues
  <2>4. results' \cup Queues' = results \cup Queues \cup nested
    BY <1>1, <1>4, <2>3
  <2>5. Types'
    BY <1>1, <1>4, <1>7, <1>11, <2>3 DEF Types
  <2>6. Processing'
    <3>1. \A a \in results' : output'[a] = "full"
      BY <1>1, <1>3, <1>4 DEF Processing, Types
    <3> QED BY <1>1, <1>3, <1>11, <3>1 DEF Processing
  <2>7. Covering'
    <3>1. Delivered \subseteq results' \cup Queues'
      BY <1>3, <2>4 DEF Covering
    <3>2. \A a \in results' : Kind[a] = "zip" => Inside(a) \subseteq results' \cup Queues'
      BY <1>1, <1>3, <2>4 DEF Covering
    <3>3. \A a : Inside(a)' = Inside(a)
      BY <1>1 DEF Inside
    <3> QED BY <1>2, <3>1, <3>2, <3>3 DEF Covering
  <2>8. ASSUME Found = {}
        PROVE  Clean'
    <3>1. /\ Clean /\ AtHand \in Queues
      BY <1>3, <1>4, <2>8
    <3>2. \A a \in nested : a \in Deliveries /\ holder[a] = AtHand
      <4>1. AtHand \in Deliveries
        BY <3>1 DEF Clean
      <4> QED BY <4>1, DeliveryFacts DEF Closed, Inside
    <3>3. results' \cup Queues' \subseteq Deliveries
      BY <2>4, <3>1, <3>2 DEF Clean
    <3>4. \A a \in results' \cup Queues' : a \in Delivered \/ holder[a] \in results'
      BY <1>1, <2>4, <3>1, <3>2 DEF Clean
    <3>5. Rooted(results')
      <4>1. AtHand \in Delivered \/ holder[AtHand] \in results
        BY <3>1 DEF Clean
      <4> QED BY <1>1, <3>1, <4>1 DEF Clean, Rooted
    <3> QED BY <1>1, <1>2, <3>3, <3>4, <3>5 DEF Clean
  <2>9. Running' /\ Resting'
    BY <1>2, <1>3, <1>6, <1>11, <2>6, <2>7, <2>8 DEF Running, Resting
  <2>10. Limit'
    <3> DEFINE n == Head(queue).depth + 1
    <3>1. /\ n \in Nat /\ (nested # {} => n <= MaxZipDepth) /\ n - 1 = Head(queue).depth
          /\ n <= MaxZipDepth => n \in 1..MaxZipDepth
      <4>1. nested # {} => ~(Head(queue).depth >= MaxZipDepth)
        BY <1>1, <1>11 DEF ExtractOk, AtHand
      <4> QED BY <1>13, <4>1, ShapeAssumption
    <3>2. nested = {} \/ (n <= MaxZipDepth /\ nested \subseteq Layers[n])
      <4> SUFFICES ASSUME nested # {} PROVE n <= MaxZipDepth /\ nested \subseteq Layers[n]
        OBVIOUS
      <4>1. n \in 1..MaxZipDepth /\ n <= MaxZipDepth
        BY <3>1
      <4>2. Layers[n] = {a \in Archives : holder[a] \in Layers[n - 1] /\ Kind[holder[a]] = "zip"}
        BY <4>1, LayerFacts
      <4>3. \A b \in nested : b \in Archives /\ holder[b] = AtHand /\ Kind[AtHand] = "zip"
        BY DEF Inside
      <4> QED BY <1>13, <3>1, <4>1, <4>2, <4>3
    <3>3. nested \cap ArchivesOf(Tail(queue)) = {}
      <4> SUFFICES ASSUME NEW b \in nested, b \in ArchivesOf(Tail(queue)) PROVE FALSE
        OBVIOUS
      <4>1. b \in Queues /\ holder[b] = AtHand
        BY <1>4 DEF Inside
      <4>2. b \notin Delivered
        BY <1>4, <4>1, ShapeAssumption DEF Delivered
      <4> QED BY <1>1, <1>5, <1>12, <4>1, <4>2 DEF Limit
    <3> DEFINE q == Queued(nested, n)
    <3>4. q \in Seq(Entries) /\ ArchivesOf(q) = nested /\ queue' = Tail(queue) \o q
      BY <2>1, <2>2
    <3>5. Once(q) /\ Shallow(q, Layers, {})
      <4> HIDE DEF nested, n
      <4> QED BY <2>1, <3>1, <3>2, QueuedOnce
    <3> HIDE DEF q
    <3>6. Once(queue') /\ Shallow(queue', Layers, Found)
      <4> HIDE DEF nested
      <4> QED BY <1>4, <1>13, <3>3, <3>4, <3>5, ConcatKeeps
    <3>7. \A a \in Queues' : a \in Delivered \/ holder[a] \in Expanded'
      <4>1. \A b \in nested : holder[b] = AtHand
        BY DEF Inside
      <4> HIDE DEF nested
      <4> QED BY <1>1, <1>4, <1>5, <1>12, <2>3, <4>1 DEF Limit
    <3>8. Once(queue)' /\ Shallow(queue, Layers, Found)'
      BY <1>6, <1>12, <3>6 DEF Once, Shallow
    <3> QED BY <1>1, <1>2, <1>11, <1>12, <1>14, <3>7, <3>8 DEF Limit
  <2> QED BY <1>9, <2>5, <2>9, <2>10 DEF IInv
<1> QED BY <1>1, <1>10, <1>11

\* A failed extraction is remembered by `existed`.
LEMMA ExtractRaisesKeeps ==
  ASSUME IInv, ExtractRaises
  PROVE  IInv'
<1>1. /\ pc = "extract" /\ pc' = "raised" /\ queue # <<>> /\ Types /\ Running /\ Final
      /\ UNCHANGED <<holder, manifest, queue, processed, results, existed>>
      /\ output' = IF output[AtHand] = "none" THEN [output EXCEPT ![AtHand] = "partial"]
                   ELSE output
  BY DEF ExtractRaises, IInv, AtHand, Types
<1>2. Delivered' = Delivered /\ Deliveries' = Deliveries /\ \A T : Rooted(T)' <=> Rooted(T)
  BY <1>1, Frame
<1>3. /\ Processing /\ Covering /\ Rooted(Found) /\ (Found = {} => Clean)
      /\ existed = (output[AtHand] # "none") /\ AtHand \notin results
      /\ results \subseteq Expanded /\ Found = Expanded \ results
  BY <1>1, Outputs DEF Running, Processing
<1>4. AtHand \in Archives /\ AtHand' = AtHand /\ Queues' = Queues
  BY <1>1, HeadFacts DEF AtHand, Queues
<1>5. /\ output' \in [Archives -> {"none", "partial", "full"}]
      /\ \A a \in Archives \ {AtHand} : output'[a] = output[a]
      /\ output'[AtHand] # "none" /\ (existed => output' = output)
  BY <1>1, <1>3, <1>4 DEF Types
<1>6. Expanded' = Expanded \cup {AtHand} /\ (existed <=> AtHand \in Expanded)
  BY <1>3, <1>4, <1>5 DEF Expanded
<1>7. Found' = Found
  <2>1. CASE existed
    BY <1>1, <1>3, <1>6, <2>1 DEF Found, Own
  <2>2. CASE ~existed
    <3>1. Found' = Expanded' \ (results \cup {AtHand})
      BY <1>1, <1>4, <2>2 DEF Found, Own
    <3> QED BY <1>3, <1>6, <2>2, <3>1
  <2> QED BY <2>1, <2>2
<1>8. Types'
  BY <1>1, <1>4, <1>5 DEF Types
<1>9. Processing'
  <2>1. \A a \in results : output'[a] = "full"
    BY <1>1, <1>3, <1>5 DEF Processing, Types
  <2> QED BY <1>1, <1>3, <1>4, <1>5, <2>1 DEF Processing
<1>10. Covering' /\ (Clean => Clean')
  BY <1>1, <1>2, <1>3, <1>4 DEF Covering, Clean, Inside
<1>11. Running' /\ Resting'
  BY <1>1, <1>2, <1>3, <1>7, <1>9, <1>10 DEF Running, Resting
<1>12. Final'
  BY <1>1, <1>2, <1>5, <1>6 DEF Final
<1>13. Limit'
  <2>1. Limit /\ Layers' = Layers /\ queue \in Seq(Entries) /\ AtHand \in Queues
    BY <1>1, LayersFrame, HeadFacts DEF IInv, Types
  <2>2. AtHand \in Expanded \/ \E d \in 0..MaxZipDepth : AtHand \in Layers[d]
    BY <1>1, <1>3, <2>1, TailKeeps DEF Limit, AtHand
  <2>3. /\ \A a \in Expanded' : a \in Delivered \/ holder[a] \in Expanded'
        /\ \A a \in Expanded' : \E d \in 0..MaxZipDepth : a \in Layers[d]
        /\ \A a \in Queues : a \in Delivered \/ holder[a] \in Expanded'
    BY <1>1, <1>6, <2>1, <2>2 DEF Limit
  <2>4. Once(queue)' /\ Shallow(queue, Layers, Found)'
    BY <1>1, <1>7, <2>1 DEF Limit, Once, Shallow
  <2>5. ASSUME ~existed, NEW a \in Expanded'
        PROVE  holder[a] # AtHand
    <3>1. AtHand \notin Expanded /\ a \in Archives
      BY <1>6, <2>5 DEF Expanded
    <3>2. CASE a \in Expanded
      <4>1. a \in Delivered \/ holder[a] \in Expanded
        BY <2>1, <3>2 DEF Limit
      <4> QED BY <1>4, <3>1, <4>1, ShapeAssumption DEF Delivered
    <3>3. CASE a = AtHand
      BY <1>1, <1>4, <3>3, ShapeAssumption, WalkAssumption DEF Types
    <3> QED BY <1>6, <2>5, <3>2, <3>3
  <2> QED BY <1>1, <1>2, <1>4, <2>1, <2>3, <2>4, <2>5 DEF Limit
<1> QED BY <1>8, <1>11, <1>12, <1>13 DEF IInv

\* The handler leaves what the run has found and what it has extracted.
LEMMA HandlerKeeps ==
  ASSUME IInv, Handler
  PROVE  IInv'
<1>1. /\ pc = "raised" /\ pc' = "idle" /\ queue # <<>> /\ Types /\ Running /\ Final
      /\ UNCHANGED <<holder, manifest, queue, processed, results, existed>>
      /\ output' = IF existed THEN output ELSE [output EXCEPT ![AtHand] = "none"]
  BY DEF Handler, IInv, AtHand, Types
<1>2. Delivered' = Delivered /\ Deliveries' = Deliveries /\ \A T : Rooted(T)' <=> Rooted(T)
  BY <1>1, Frame
<1>3. AtHand \in Archives
  BY <1>1, HeadFacts
<1>4. AtHand \notin results /\ results \subseteq Expanded
  BY <1>1, Outputs DEF Running, Processing
<1>5. Types'
  <2>1. output' \in [Archives -> {"none", "partial", "full"}]
    BY <1>1, <1>3 DEF Types
  <2> QED BY <1>1, <2>1 DEF Types
<1>6. Expanded' = Found \cup results
  <2>1. CASE existed
    BY <1>1, <1>4, <2>1, Outputs DEF Expanded
  <2>2. CASE ~existed
    <3>1. Expanded' = Expanded \ {AtHand}
      BY <1>1, <1>3, <2>2 DEF Expanded, Types
    <3> QED BY <1>1, <1>4, <2>2, <3>1, Outputs
  <2> QED BY <2>1, <2>2
<1>7. Running' /\ Resting'
  BY <1>1, <1>2, <1>6, StopsRooted DEF Running, Resting
<1>8. Final'
  BY <1>1, <1>2 DEF Final
<1>9. Limit'
  <2>1. Limit /\ Layers' = Layers /\ Expanded' \subseteq Expanded
    BY <1>1, <1>6, LayersFrame, Outputs DEF IInv, Found, Expanded, Types
  <2>2. Expanded' = Expanded \/ (~existed /\ Expanded' = Expanded \ {AtHand})
    BY <1>1, <1>3 DEF Expanded, Types
  <2>3. \A a \in Expanded' : a \in Delivered \/ holder[a] \in Expanded'
    BY <1>1, <2>1, <2>2 DEF Limit
  <2> QED BY <1>1, <1>2, <2>1, <2>3 DEF Limit, Once
<1> QED BY <1>5, <1>7, <1>8, <1>9 DEF IInv

\* A run that comes to its end has found nothing and has extracted every layer.
LEMMA WriteManifestKeeps ==
  ASSUME IInv, WriteManifest
  PROVE  IInv'
<1>1. /\ pc = "loop" /\ pc' = "idle" /\ queue = <<>> /\ Types /\ Running /\ Final
      /\ UNCHANGED <<holder, output, queue, processed, results, existed>>
      /\ manifest' = manifest \/ manifest' = {results}
      /\ manifest # {} => manifest' = manifest
  BY DEF WriteManifest, IInv
<1>2. Delivered' = Delivered /\ Deliveries' = Deliveries /\ \A T : Rooted(T)' <=> Rooted(T)
  BY <1>1, Frame
<1>3. /\ Processing /\ Covering /\ Rooted(Found) /\ (Found = {} => Clean)
      /\ results \subseteq Expanded /\ Found = Expanded \ results
  BY <1>1, Outputs DEF Running
<1>4. Queues = {}
  BY <1>1, EmptySeq DEF Queues, ArchivesOf
<1>5. Found = {} /\ Expanded = results
  BY <1>3, <1>4 DEF Covering, Rooted
<1>6. results = Deliveries
  <2>1. results \subseteq Deliveries
    BY <1>3, <1>5 DEF Clean
  <2>2. Closed(results) /\ results \in SUBSET Archives
    BY <1>1, <1>3, <1>4 DEF Covering, Closed, Inside, Types
  <2> QED BY <2>1, <2>2, DeliveryFacts
<1>7. \A a \in Archives : output[a] = IF a \in Deliveries THEN "full" ELSE "none"
  BY <1>3, <1>5, <1>6 DEF Processing, Expanded
<1>8. Final'
  BY <1>1, <1>2, <1>6, <1>7 DEF Final
<1>9. Types'
  BY <1>1 DEF Types
<1>10. Running' /\ Resting'
  <2>1. Expanded' = Found \cup results
    BY <1>1, <1>5 DEF Expanded
  <2> QED BY <1>1, <1>2, <2>1, StopsRooted DEF Running, Resting
<1>11. Limit'
  <2>1. Limit /\ Layers' = Layers /\ Expanded' = Expanded
    BY <1>1, LayersFrame DEF IInv, Expanded
  <2> QED BY <1>1, <1>2, <2>1 DEF Limit, Once
<1> QED BY <1>8, <1>9, <1>10, <1>11 DEF IInv

\* A kill leaves at most the output at hand half written.
LEMMA KilledKeeps ==
  ASSUME IInv, Killed
  PROVE  IInv'
<1>1. /\ pc # "idle" /\ pc' = "idle" /\ Types /\ Running /\ Final
      /\ UNCHANGED <<holder, manifest, queue, processed, results, existed>>
      /\ \/ output' = output
         \/ /\ pc = "extract" /\ queue # <<>> /\ output[AtHand] = "none"
            /\ output' = [output EXCEPT ![AtHand] = "partial"]
  BY DEF Killed, IInv, AtHand, Types
<1>2. Delivered' = Delivered /\ Deliveries' = Deliveries /\ \A T : Rooted(T)' <=> Rooted(T)
  BY <1>1, Frame
<1>3. CASE output' = output
  <2>1. Expanded' \in {Found \cup results, Found \cup results \cup {AtHand}}
    BY <1>1, <1>3, Outputs DEF Expanded, Types
  <2>2. Expanded' = Found \cup results \cup {AtHand} => queue # <<>> \/ Expanded' = Found \cup results
    BY <1>1, <1>3, Outputs DEF Expanded, Types
  <2>3. Rooted(Expanded')
    BY <1>1, <2>1, <2>2, StopsRooted
  <2>4. Types' /\ Final'
    BY <1>1, <1>2, <1>3 DEF Types, Final
  <2>5. Limit'
    <3>1. Limit /\ Layers' = Layers /\ Expanded' = Expanded
      BY <1>1, <1>3, LayersFrame DEF IInv, Expanded
    <3> QED BY <1>1, <1>2, <3>1 DEF Limit, Once
  <2> QED BY <1>1, <1>2, <2>3, <2>4, <2>5 DEF IInv, Running, Resting
<1>4. CASE /\ pc = "extract" /\ queue # <<>> /\ output[AtHand] = "none"
           /\ output' = [output EXCEPT ![AtHand] = "partial"]
  <2>1. AtHand \in Archives
    BY <1>1, <1>4, HeadFacts
  <2>2. Expanded' = Expanded \cup {AtHand} /\ AtHand \notin Expanded
    BY <1>1, <1>4, <2>1 DEF Expanded, Types
  <2>3. Expanded' = Found \cup results \cup {AtHand}
    BY <1>1, <1>4, <2>2, Outputs
  <2>4. Rooted(Expanded')
    BY <1>1, <1>4, <2>3, StopsRooted
  <2>5. Types'
    <3>1. output' \in [Archives -> {"none", "partial", "full"}]
      BY <1>1, <1>4, <2>1 DEF Types
    <3> QED BY <1>1, <3>1 DEF Types
  <2>6. manifest \in {{}, {OldManifest}}
    BY <1>1, <1>4, <2>2 DEF Final
  <2>7. Final'
    BY <1>1, <2>6 DEF Final
  <2>8. Limit'
    <3>1. Limit /\ Layers' = Layers /\ queue \in Seq(Entries) /\ AtHand \in Queues
      BY <1>1, <1>4, LayersFrame, HeadFacts DEF IInv, Types
    <3>2. \E d \in 0..MaxZipDepth : AtHand \in Layers[d]
      BY <1>1, <1>4, <2>2, <3>1, TailKeeps DEF Limit, AtHand, Found
    <3>3. /\ \A a \in Expanded' : a \in Delivered \/ holder[a] \in Expanded'
          /\ \A a \in Expanded' : \E d \in 0..MaxZipDepth : a \in Layers[d]
      BY <1>1, <2>2, <3>1, <3>2 DEF Limit
    <3> QED BY <1>1, <1>2, <3>1, <3>3 DEF Limit, Once
  <2> QED BY <1>1, <1>2, <2>4, <2>5, <2>7, <2>8 DEF IInv, Running, Resting
<1> QED BY <1>1, <1>3, <1>4

\* The inductive invariant of unpack_tree, for every release, whatever was left by
\* runs that failed or were killed (safe_release_extract.py:516-571).
THEOREM Invariance == Spec => []IInv
<1>1. IInv /\ [Next]_vars => IInv'
  <2> SUFFICES ASSUME IInv, [Next]_vars PROVE IInv'
    OBVIOUS
  <2>1. CASE UNCHANGED vars
    <3>1. UNCHANGED vars
      BY <2>1
    <3>2. Delivered' = Delivered /\ Deliveries' = Deliveries /\ \A S : Rooted(S)' <=> Rooted(S)
      BY <3>1, Frame DEF vars
    <3>3. /\ AtHand' = AtHand /\ Queues' = Queues /\ Expanded' = Expanded /\ Found' = Found
          /\ \A a : Inside(a)' = Inside(a)
      BY <3>1 DEF vars, AtHand, Queues, Expanded, Found, Own, Inside
    <3>4. (Processing' <=> Processing) /\ (Covering' <=> Covering) /\ (Clean' <=> Clean)
      BY <3>1, <3>2, <3>3 DEF vars, Processing, Covering, Clean
    <3>5. Running' /\ Resting'
      BY <3>1, <3>2, <3>3, <3>4 DEF vars, IInv, Running, Resting
    <3>6. Types' /\ Final'
      BY <3>1, <3>2, <3>3 DEF vars, IInv, Types, Final
    <3>7. Limit'
      <4>1. Layers' = Layers /\ Limit
        BY <3>1, LayersFrame DEF vars, IInv
      <4>2. Once(queue)' /\ (pc # "idle" => Shallow(queue, Layers, Found)')
        BY <3>1, <3>3, <4>1 DEF vars, Limit, Once, Shallow
      <4> QED BY <3>1, <3>2, <3>3, <4>1, <4>2 DEF vars, Limit
    <3> QED BY <3>5, <3>6, <3>7 DEF IInv
  <2> QED
    BY <2>1, BeginKeeps, PopKeeps, ExtractOkKeeps, ExtractRaisesKeeps, HandlerKeeps,
       WriteManifestKeeps, KilledKeeps DEF Next, Step, Exhausted
<1> QED BY <1>1, InitIInv, PTL DEF Spec

\* A manifest is only ever there over a complete expansion: every delivery layer in
\* full and nothing else, each by the run that wrote it, for every release, any
\* nesting and any number of failed, killed and repeated runs.
THEOREM ManifestIsComplete == Spec => []ManifestMeansComplete
<1>1. IInv => ManifestMeansComplete
  BY DEF IInv, Final, ManifestMeansComplete
<1> QED BY <1>1, Invariance, PTL

\* Nothing below max_zip_depth ZIPs or inside a TAR is ever opened, and the queue
\* never holds an archive twice, over all runs together: before a run gets to an
\* archive that it has counted too shallow, it meets the output of a delivered one,
\* and fails (safe_release_extract.py:523-570).
THEOREM LimitHolds == Spec => []NestingIsLimited
<1>1. IInv => NestingIsLimited
  BY DEF IInv, Limit, NestingIsLimited, Expanded, Once
<1> QED BY <1>1, Invariance, PTL
===============================================================================
