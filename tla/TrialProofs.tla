----------------------------- MODULE TrialProofs -----------------------------
(***************************************************************************)
(* Proofs about what is said of a trial and of a campaign of trials: about *)
(* ObsTrial, for all intervals, delays, episodes and failures, and about   *)
(* CampaignVerdict, for any number of boots, conditions and outcomes and   *)
(* campaigns of any length.                                                *)
(***************************************************************************)
EXTENDS ObsTrial, CampaignVerdict, FunctionTheorems, FiniteSetTheorems, SequenceTheorems,
        WellFoundedInduction, NaturalsInduction, TLAPS

(***************************************************************************)
(* Sequences and sets of numbers.                                          *)
(***************************************************************************)
\* A sequence, of whatever elements.
IsSeq(s) == \E S : s \in Seq(S)

LEMMA IsEmptySeq == IsSeq(<<>>) /\ Len(<<>>) = 0
<1>1. <<>> \in Seq({})
  BY EmptySeq
<1> QED
  BY <1>1, EmptySeq DEF IsSeq

LEMMA DomainAny ==
  ASSUME NEW s, IsSeq(s)
  PROVE  Len(s) \in Nat /\ DOMAIN s = 1..Len(s) /\ (s = <<>> <=> Len(s) = 0)
<1>1. PICK S : s \in Seq(S)
  BY DEF IsSeq
<1> QED
  BY <1>1, LenProperties, EmptySeq

LEMMA AppendAny ==
  ASSUME NEW s, IsSeq(s), NEW e
  PROVE  /\ IsSeq(Append(s, e))
         /\ Len(Append(s, e)) = Len(s) + 1
         /\ \A i \in 1..Len(s) : Append(s, e)[i] = s[i]
         /\ Append(s, e)[Len(s) + 1] = e
<1>1. PICK S : s \in Seq(S)
  BY DEF IsSeq
<1>2. Len(s) \in Nat /\ s \in [1..Len(s) -> S]
  BY <1>1, LenProperties
<1>3. s \in [1..Len(s) -> S \cup {e}]
  BY <1>2
<1>4. s \in Seq(S \cup {e})
  BY <1>2, <1>3
<1>5. /\ Append(s, e) \in Seq(S \cup {e})
      /\ Len(Append(s, e)) = Len(s) + 1
      /\ \A i \in 1..Len(s) : Append(s, e)[i] = s[i]
      /\ Append(s, e)[Len(s) + 1] = e
  BY <1>4, AppendProperties
<1> QED
  BY <1>5 DEF IsSeq

\* A set of numbers with a member has a least one.
LEMMA Least ==
  ASSUME NEW S \in SUBSET Nat, S # {}
  PROVE  \E m \in S : \A n \in S : m <= n
<1> DEFINE Below == {ss \in Nat \X Nat : ss[1] < ss[2]}
<1>0. IsWellFoundedOn(Below, Nat)
  BY NatLessThanWellFounded, Zenon DEF OpToRel
<1> HIDE DEF Below
<1>1. PICK m \in S : \A n \in S : ~(<<n, m>> \in Below)
  BY <1>0, WFMin, Zenon
<1>2. ASSUME NEW n \in S PROVE m <= n
  <2>1. m \in Nat /\ n \in Nat
    OBVIOUS
  <2>2. ~(<<n, m>> \in Below)
    BY <1>1
  <2> QED
    BY <2>1, <2>2 DEF Below
<1> QED
  BY <1>1, <1>2

\* One more place in a selection.
LEMMA OneMorePlace ==
  ASSUME NEW n \in Nat, NEW S \in SUBSET (1..n)
  PROVE  /\ IsFiniteSet(S) /\ Cardinality(S) \in Nat
         /\ Cardinality(S \cup {n + 1}) = Cardinality(S) + 1
<1>1. IsFiniteSet(1..n)
  BY FS_Interval
<1>3. IsFiniteSet(S)
  BY <1>1, FS_Subset
<1>2. n + 1 \notin S
  OBVIOUS
<1> QED
  BY <1>2, <1>3, FS_AddElement, FS_CardinalityType

(***************************************************************************)
(* What a collector's file is like.                                        *)
(***************************************************************************)
Source(k) == SourcesOf[tool][k]
IsBeat(i) == file[i].measurement = "heartbeat"

\* Every beat before place i is over by time t.
BeatsOver(i, t) == \A h \in Beats : h < i => file[h].at + file[h].took <= t

Types ==
  /\ tool \in {"c2", "c3"} /\ episode \in Episodes /\ episode.kind \in KindsOf[tool]
  /\ now \in Nat /\ due \in Nat
  /\ IsSeq(file)
  /\ todo \subseteq Sampled
  /\ pc \in {"discover", "open"} => file = <<>> /\ now = 0
  /\ pc \in {"cycle", "sample", "done"} => file # <<>>
  /\ pc # "sample" => todo = {} \/ pc \in {"failed", "killed"}

\* The metadata record, or what a kill left of it.
Heading ==
  file # <<>> =>
    /\ file[1].source = "collector" /\ file[1].status = "AVAILABLE" /\ file[1].at = 0
    /\ \/ /\ file[1].measurement = "metadata"
          /\ file[1].value.found = found /\ file[1].value.ident = ident
          /\ file[1].value.clamped => Shows("max_freq", 0)
       \/ file[1].measurement = "torn" /\ Len(file) = 1 /\ pc = "killed"

\* A heartbeat states a time between its start and its end.
Beat(i) ==
  /\ IsBeat(i) /\ file[i].source = "collector"
  /\ file[i].at \in Nat /\ file[i].took \in Nat /\ file[i].at + file[i].took <= now
  /\ BeatsOver(i, file[i].at)
  /\ file[i].status = "AVAILABLE" =>
       /\ file[i].value \in Nat
       /\ file[i].at <= file[i].value /\ file[i].value <= file[i].at + file[i].took

\* A reading shows the device at some time since the heartbeat before it.
SeenAt(i, t) ==
  /\ t <= file[i].at /\ BeatsOver(i, t)
  /\ file[i].value \in BOOLEAN
  /\ file[i].value <=> Shows(file[i].source, t)
Read(i) ==
  /\ file[i].measurement = "raw_read"
  /\ \E k \in Sampled : file[i].source = Source(k)
  /\ file[i].at \in Nat /\ file[i].at <= now
  /\ file[i].status = "AVAILABLE" => \E t \in Nat : SeenAt(i, t)

Lines ==
  \A i \in DOMAIN file : i > 1 =>
    \/ Beat(i)
    \/ Read(i)
    \/ /\ file[i].measurement = "end" /\ file[i].source = "collector"
       /\ file[i].status = "AVAILABLE" /\ pc = "done"

\* A reading is over before the next heartbeat starts.
InTime ==
  \A i, j \in DOMAIN file : i < j /\ IsBeat(j) /\ ~IsBeat(i) => file[i].at <= file[j].at

\* Between two heartbeats each source is read; after the last it has been, or is
\* still to be.
EveryCycle ==
  \A k \in Sampled, i \in Beats :
    \/ \E r \in Of(file, Source(k)) : i < r /\ \A h \in Beats : h <= i \/ r < h
    \/ k \in todo /\ \A h \in Beats : h <= i
Counted ==
  \A k \in Sampled :
    Cardinality(Of(file, Source(k))) + (IF k \in todo THEN 1 ELSE 0) = Cardinality(Beats)

Scheduled ==
  /\ NeverAheadOfSchedule
  /\ pc = "cycle" => due <= now /\ due = Cardinality(Beats) * Interval
  /\ pc = "sample" => due + Interval = Cardinality(Beats) * Interval

IInv ==
  /\ Types /\ Heading /\ Lines /\ InTime /\ EveryCycle /\ Counted /\ Scheduled

LEMMA SourceFacts ==
  ASSUME tool \in {"c2", "c3"}
  PROVE  /\ DOMAIN SourcesOf[tool] \subseteq Nat
         /\ \A k \in DOMAIN SourcesOf[tool] : Source(k) # "collector"
         /\ \A k, l \in DOMAIN SourcesOf[tool] : Source(k) = Source(l) => k = l
<1>1. CASE tool = "c2"
  <2>1. SourcesOf[tool] = <<"wakeup_count", "suspend_success", "cgroup">>
    BY <1>1 DEF SourcesOf
  <2> QED
    BY <2>1 DEF Source
<1>2. CASE tool = "c3"
  <2>1. SourcesOf[tool] = <<"temperature", "effective_freq", "max_freq", "trial_cpu">>
    BY <1>2 DEF SourcesOf
  <2> QED
    BY <2>1 DEF Source
<1> QED
  BY <1>1, <1>2

\* Selections are of places in the file.
LEMMA Places ==
  ASSUME IsSeq(file)
  PROVE  /\ Len(file) \in Nat /\ DOMAIN file = 1..Len(file)
         /\ Beats \in SUBSET (1..Len(file))
         /\ \A s : Of(file, s) \in SUBSET (1..Len(file))
         /\ \A i : i \in Beats <=> i \in 1..Len(file) /\ IsBeat(i)
BY DomainAny DEF Beats, Heartbeats, Measured, Of, IsBeat

\* The file has grown by one line.
Grows(source, measurement, at, took, status, value) ==
  /\ IsSeq(file')
  /\ Len(file') = Len(file) + 1
  /\ \A i \in 1..Len(file) : file'[i] = file[i]
  /\ file'[Len(file) + 1].source = source
  /\ file'[Len(file) + 1].measurement = measurement
  /\ file'[Len(file) + 1].at = at
  /\ file'[Len(file) + 1].took = took
  /\ file'[Len(file) + 1].status = status
  /\ file'[Len(file) + 1].value = value

LEMMA Emitted ==
  ASSUME IsSeq(file), NEW source, NEW measurement, NEW at, NEW took, NEW status, NEW value,
         Emit(Record(source, measurement, at, took, status, value))
  PROVE  Grows(source, measurement, at, took, status, value)
<1> DEFINE r == [sequence |-> Len(file), source |-> source, measurement |-> measurement,
                 at |-> at, took |-> took, status |-> status, value |-> value]
<1>1. [Record(source, measurement, at, took, status, value) EXCEPT !.sequence = Len(file)] = r
  BY DEF Record
<1>2. file' = Append(file, r)
  BY <1>1 DEF Emit
<1>3. /\ r.source = source /\ r.measurement = measurement /\ r.at = at
      /\ r.took = took /\ r.status = status /\ r.value = value
  OBVIOUS
<1> HIDE DEF r
<1> QED
  BY <1>2, <1>3, AppendAny DEF Grows

\* What a longer file selects.
LEMMA Selected ==
  ASSUME IsSeq(file), IsSeq(file'), Len(file') = Len(file) + 1,
         \A i \in 1..Len(file) : file'[i] = file[i],
         NEW n, n = Len(file) + 1
  PROVE  /\ DOMAIN file' = 1..n
         /\ Beats' = IF file'[n].measurement = "heartbeat" THEN Beats \cup {n} ELSE Beats
         /\ \A s : Of(file', s) = IF file'[n].source = s THEN Of(file, s) \cup {n} ELSE Of(file, s)
<1>1. /\ Len(file) \in Nat /\ DOMAIN file = 1..Len(file)
      /\ DOMAIN file' = 1..n /\ 1..n = (1..Len(file)) \cup {n}
  BY DomainAny
<1>2. Beats' = {i \in 1..n : file'[i].measurement = "heartbeat"}
  BY <1>1 DEF Beats, Heartbeats, Measured
<1>3. Beats = {i \in 1..Len(file) : file[i].measurement = "heartbeat"}
  BY <1>1 DEF Beats, Heartbeats, Measured
<1>6. Beats' = IF file'[n].measurement = "heartbeat" THEN Beats \cup {n} ELSE Beats
  BY <1>1, <1>2, <1>3
<1>7. ASSUME NEW s
      PROVE  Of(file', s) = IF file'[n].source = s THEN Of(file, s) \cup {n} ELSE Of(file, s)
  <2>1. /\ Of(file', s) = {i \in 1..n : file'[i].source = s}
        /\ Of(file, s) = {i \in 1..Len(file) : file[i].source = s}
    BY <1>1 DEF Of
  <2> QED
    BY <1>1, <2>1
<1> QED
  BY <1>1, <1>6, <1>7

\* The lines so far stay as they are, and time goes on.
Onwards ==
  /\ IsSeq(file') /\ Len(file') >= Len(file)
  /\ \A i \in 1..Len(file) : file'[i] = file[i]
  /\ now' \in Nat /\ now <= now'
  /\ UNCHANGED <<tool, episode, ident, found>>

LEMMA BeatsStay ==
  ASSUME Types, Onwards, Len(file') <= Len(file) + 1, NEW i \in 1..(Len(file) + 1), NEW t
  PROVE  BeatsOver(i, t)' <=> BeatsOver(i, t)
<1>1. /\ Len(file) \in Nat /\ DOMAIN file = 1..Len(file)
      /\ Len(file') \in Nat /\ DOMAIN file' = 1..Len(file')
  BY DomainAny DEF Types, Onwards
<1>2. \A h : h < i /\ h \in Beats' <=> h < i /\ h \in Beats
  BY <1>1 DEF Onwards, Beats, Heartbeats, Measured
<1>3. \A h : h \in Beats => file'[h] = file[h]
  BY <1>1 DEF Onwards, Beats, Heartbeats, Measured
<1> QED
  BY <1>2, <1>3 DEF BeatsOver

LEMMA ShowsStays ==
  ASSUME UNCHANGED episode, NEW s, NEW t
  PROVE  Shows(s, t)' <=> Shows(s, t)
BY DEF Shows

LEMMA LinesStay ==
  ASSUME Types, Onwards, Len(file') <= Len(file) + 1, NEW i \in DOMAIN file
  PROVE  (Beat(i) => Beat(i)') /\ (Read(i) => Read(i)')
<1>1. Len(file) \in Nat /\ i \in 1..Len(file) /\ i \in 1..(Len(file) + 1)
  BY DomainAny DEF Types
<1>2. file'[i] = file[i]
  BY <1>1 DEF Onwards
<1>3. ASSUME Beat(i) PROVE Beat(i)'
  <2>1. BeatsOver(i, file[i].at)'
    BY <1>1, <1>2, <1>3, BeatsStay DEF Beat
  <2>2. file[i].at + file[i].took <= now'
    BY <1>3 DEF Beat, Onwards, Types
  <2> QED
    BY <1>2, <1>3, <2>1, <2>2 DEF Beat, IsBeat
<1>4. ASSUME Read(i) PROVE Read(i)'
  <2>1. \E k \in Sampled' : file'[i].source = Source(k)'
    BY <1>2, <1>4 DEF Read, Sampled, Source, Onwards
  <2>2. file'[i].at \in Nat /\ file'[i].at <= now'
    BY <1>2, <1>4 DEF Read, Onwards, Types
  <2>3. ASSUME NEW t \in Nat, SeenAt(i, t) PROVE SeenAt(i, t)'
    <3>1. BeatsOver(i, t)' /\ (Shows(file[i].source, t)' <=> Shows(file[i].source, t))
      BY <1>1, <2>3, BeatsStay, ShowsStays DEF Onwards, SeenAt
    <3>2. Shows(file[i].source, t)' <=> Shows(file[i].source, t)
      BY <3>1
    <3> QED
      BY <1>2, <2>3, <3>1, <3>2 DEF SeenAt, Shows, Onwards
  <2>4. file'[i].status = "AVAILABLE" => \E t \in Nat : SeenAt(i, t)'
    BY <1>2, <1>4, <2>3 DEF Read
  <2> QED
    BY <1>2, <1>4, <2>1, <2>2, <2>4 DEF Read
<1> QED
  BY <1>3, <1>4

\* What a step does not touch stays so.
LEMMA FileStays ==
  ASSUME IInv, UNCHANGED <<tool, episode, ident, found, file>>, now' \in Nat, now <= now',
         pc = "done" => pc' = "done", pc = "killed" => pc' = "killed"
  PROVE  /\ Heading' /\ Lines' /\ InTime' /\ NeverAheadOfSchedule'
         /\ Beats' = Beats /\ \A s : Of(file', s) = Of(file, s)
<1>1. Beats' = Beats /\ file' = file /\ \A s : Of(file', s) = Of(file, s)
  BY DEF Beats
<1>2. Onwards /\ Len(file') <= Len(file) + 1
  BY DomainAny DEF Onwards, IInv, Types
<1>3. Heading'
  <2>1. Shows("max_freq", 0)' <=> Shows("max_freq", 0)
    BY ShowsStays
  <2>2. file = <<>> \/ (Heading /\ file # <<>>)
    BY DEF IInv
  <2> QED
    BY <2>1, <2>2, <1>1 DEF Heading
<1>4. Lines'
  <2>1. \A i \in DOMAIN file : (Beat(i) => Beat(i)') /\ (Read(i) => Read(i)')
    BY <1>2, LinesStay DEF IInv
  <2> QED
    BY <1>1, <2>1 DEF Lines, IInv
<1>5. InTime'
  BY <1>1 DEF InTime, IInv, IsBeat
<1>6. NeverAheadOfSchedule'
  BY <1>1 DEF NeverAheadOfSchedule, IInv, Scheduled
<1> QED
  BY <1>1, <1>3, <1>4, <1>5, <1>6

LEMMA CyclesStay ==
  ASSUME IInv, UNCHANGED <<tool, found, file, todo>>
  PROVE  EveryCycle' /\ Counted'
BY DEF IInv, EveryCycle, Counted, Beats, Sampled, Source

\* Before the file has a line of a source nothing is to be said of it.
LEMMA NoBeatYet ==
  ASSUME IsSeq(file), file = <<>> \/ (Len(file) = 1 /\ ~IsBeat(1) /\ file[1].source = "collector"),
         tool \in {"c2", "c3"}, todo = {}
  PROVE  /\ Beats = {} /\ \A k \in Sampled : Of(file, Source(k)) = {}
         /\ Lines /\ InTime /\ EveryCycle /\ Counted /\ NeverAheadOfSchedule
<1>1. DOMAIN file = 1..Len(file) /\ (Len(file) = 0 \/ Len(file) = 1)
  BY DomainAny
<1>2. Beats = {}
  BY <1>1 DEF Beats, Heartbeats, Measured, IsBeat
<1>3. \A k \in Sampled : Of(file, Source(k)) = {}
  BY <1>1, SourceFacts DEF Sampled, Of
<1>4. Lines
  BY <1>1 DEF Lines
<1>5. InTime
  BY <1>1 DEF InTime
<1>6. EveryCycle /\ Counted /\ NeverAheadOfSchedule
  BY <1>2, <1>3, FS_EmptySet DEF EveryCycle, Counted, NeverAheadOfSchedule
<1> QED
  BY <1>2, <1>3, <1>4, <1>5, <1>6

LEMMA InitIInv == Init => IInv
<1> SUFFICES ASSUME Init PROVE IInv
  OBVIOUS
<1>1. IsSeq(file) /\ file = <<>> /\ tool \in {"c2", "c3"} /\ todo = {} /\ pc = "discover"
  BY IsEmptySeq DEF Init, SourcesOf
<1>2. Types
  BY <1>1 DEF Init, Types
<1> QED
  BY <1>1, <1>2, NoBeatYet DEF IInv, Heading, Scheduled

LEMMA DiscoverKeeps == IInv /\ Discover => IInv'
<1> SUFFICES ASSUME IInv, Discover PROVE IInv'
  OBVIOUS
<1>1. /\ pc = "discover" /\ pc' = "open"
      /\ UNCHANGED <<tool, episode, now, due, file, todo>>
  BY DEF Discover, setup
<1>2. file = <<>> /\ now = 0 /\ todo = {} /\ IsSeq(file) /\ tool \in {"c2", "c3"}
  BY <1>1 DEF IInv, Types
<1>3. Types'
  BY <1>1, <1>2 DEF IInv, Types
<1>4. (Lines /\ InTime /\ EveryCycle /\ Counted /\ NeverAheadOfSchedule)'
  <2>1. (IsSeq(file) /\ file = <<>> /\ tool \in {"c2", "c3"} /\ todo = {})'
    BY <1>1, <1>2
  <2> QED
    BY <2>1, NoBeatYet, PTL
<1> QED
  BY <1>1, <1>2, <1>3, <1>4 DEF IInv, Heading, Scheduled

LEMMA OpenOutputKeeps == IInv /\ OpenOutput => IInv'
<1> SUFFICES ASSUME IInv, OpenOutput PROVE IInv'
  OBVIOUS
<1>1. pc = "open" /\ UNCHANGED <<tool, episode, ident, found, now, todo>>
  BY DEF OpenOutput, setup
<1>2. file = <<>> /\ now = 0 /\ todo = {} /\ IsSeq(file) /\ tool \in {"c2", "c3"}
  BY <1>1 DEF IInv, Types
<1>3. CASE taken
  <2>1. pc' = "failed" /\ UNCHANGED <<file, due>>
    BY <1>3 DEF OpenOutput
  <2>2. Types' /\ Heading'
    BY <1>1, <1>2, <2>1 DEF IInv, Types, Sampled, Heading
  <2>3. Lines' /\ InTime' /\ NeverAheadOfSchedule'
    BY <1>1, <1>2, <2>1, FileStays DEF IInv, Types
  <2> QED
    BY <1>1, <2>1, <2>2, <2>3, CyclesStay DEF IInv, Scheduled
<1>4. CASE ~taken
  <2> DEFINE v == [found |-> found, ident |-> ident,
                   clamped |-> tool = "c3" /\ Shows("max_freq", now)]
  <2>1. pc' = "cycle" /\ due' = now /\ Emit(Record("collector", "metadata", now, 0, "AVAILABLE", v))
    BY <1>4 DEF OpenOutput
  <2>2. v.found = found /\ v.ident = ident /\ (v.clamped => Shows("max_freq", 0))
    BY <1>2
  <2> HIDE DEF v
  <2>3. Grows("collector", "metadata", now, 0, "AVAILABLE", v)
    BY <1>2, <2>1, Emitted
  <2>4. Len(file) = 0 /\ Len(file') = 1 /\ IsSeq(file') /\ file' # <<>>
    <3>1. Len(file) = 0
      BY <1>2, IsEmptySeq
    <3>2. Len(file') = 1 /\ IsSeq(file')
      BY <2>3, <3>1 DEF Grows
    <3> QED
      BY <3>1, <3>2, IsEmptySeq
  <2>5. /\ file'[1].source = "collector" /\ file'[1].measurement = "metadata"
        /\ file'[1].at = 0 /\ file'[1].status = "AVAILABLE" /\ file'[1].value = v
    BY <1>2, <2>3, <2>4 DEF Grows
  <2>6. Types'
    BY <1>1, <1>2, <2>1, <2>4 DEF IInv, Types, Sampled
  <2>7. Heading'
    <3>1. v.clamped => Shows("max_freq", 0)'
      BY <1>1, <2>2, ShowsStays
    <3> QED
      BY <1>1, <2>2, <2>4, <2>5, <3>1 DEF Heading
  <2>8. (Beats = {} /\ Lines /\ InTime /\ EveryCycle /\ Counted /\ NeverAheadOfSchedule)'
    <3>1. (/\ IsSeq(file) /\ Len(file) = 1 /\ ~IsBeat(1) /\ file[1].source = "collector"
           /\ tool \in {"c2", "c3"} /\ todo = {})'
      BY <1>1, <1>2, <2>4, <2>5 DEF IsBeat
    <3> QED
      BY <3>1, NoBeatYet, PTL
  <2>9. Scheduled'
    <3>1. due' = 0 /\ Cardinality(Beats') = 0 /\ now' = 0
      BY <1>1, <1>2, <2>1, <2>8, FS_EmptySet
    <3>2. 0 = 0 * Interval
      BY TimeAssumption DEF TimeAssumption
    <3> QED
      BY <2>1, <2>8, <3>1, <3>2 DEF Scheduled
  <2> QED
    BY <2>6, <2>7, <2>8, <2>9 DEF IInv
<1> QED
  BY <1>3, <1>4

\* One more line in a file that is being written.
Writing(n) ==
  /\ pc \in {"cycle", "sample"} /\ pc' # "killed"
  /\ Onwards /\ Len(file') = Len(file) + 1 /\ n = Len(file) + 1

LEMMA SoFar ==
  ASSUME IInv, pc \in {"cycle", "sample"}
  PROVE  /\ file # <<>> /\ file[1].measurement = "metadata"
         /\ \A i \in 1..Len(file) : file[i].at \in Nat /\ file[i].at <= now
         /\ \A i \in 1..Len(file) : i > 1 => Beat(i) \/ Read(i)
         /\ \A i : \A t \in Nat : now <= t => BeatsOver(i, t)
<1>1. file # <<>> /\ now \in Nat /\ DOMAIN file = 1..Len(file) /\ Len(file) \in Nat
  BY DomainAny DEF IInv, Types
<1>2. file[1].measurement = "metadata" /\ file[1].at = 0
  BY <1>1 DEF IInv, Heading
<1>3. \A i \in 1..Len(file) : i > 1 => Beat(i) \/ Read(i)
  BY <1>1 DEF IInv, Lines
<1>4. ASSUME NEW i \in 1..Len(file) PROVE file[i].at \in Nat /\ file[i].at <= now
  <2>1. i = 1 \/ i > 1
    BY <1>1
  <2>2. CASE i = 1
    BY <1>1, <1>2, <2>2
  <2>3. CASE Beat(i)
    <3>1. \A a, b, c \in Nat : a + b <= c => a <= c
      OBVIOUS
    <3> QED
      BY <1>1, <2>3, <3>1 DEF Beat
  <2>4. CASE Read(i)
    BY <2>4 DEF Read
  <2> QED
    BY <1>3, <2>1, <2>2, <2>3, <2>4
<1>5. ASSUME NEW h \in Beats, NEW t \in Nat, now <= t PROVE file[h].at + file[h].took <= t
  <2>1. h \in 1..Len(file) /\ IsBeat(h)
    BY Places DEF IInv, Types
  <2>2. h > 1
    BY <1>1, <1>2, <2>1 DEF IsBeat
  <2>3. Beat(h)
    BY <1>3, <2>1, <2>2 DEF Read, IsBeat
  <2>4. \A a, b, c \in Nat : a + b <= c /\ c <= t => a + b <= t
    OBVIOUS
  <2> QED
    BY <1>1, <1>5, <2>3, <2>4 DEF Beat
<1> QED
  BY <1>1, <1>2, <1>3, <1>4, <1>5 DEF BeatsOver

\* The lines so far, when there is one more.
LEMMA WritingKeeps ==
  ASSUME IInv, NEW n, Writing(n)
  PROVE  /\ Heading' /\ file' # <<>> /\ DOMAIN file' = 1..n /\ n \in Nat /\ n > 1
         /\ \A i \in 1..n : i > 1 /\ i # n => Beat(i)' \/ Read(i)'
         /\ \A i \in 1..n : i # n => file'[i].at \in Nat /\ file'[i].at <= now
         /\ \A t \in Nat : now <= t => BeatsOver(n, t)'
<1>1. /\ file # <<>> /\ Len(file) \in Nat /\ DOMAIN file = 1..Len(file) /\ Len(file) >= 1
      /\ pc \in {"cycle", "sample"} /\ Onwards /\ Types
      /\ Len(file') = Len(file) + 1 /\ n = Len(file) + 1
  BY DomainAny DEF IInv, Types, Writing
<1>2. DOMAIN file' = 1..n /\ n \in Nat /\ n > 1 /\ file' # <<>>
  BY <1>1, DomainAny DEF Onwards
<1>3. \A i \in 1..n : i # n => i \in 1..Len(file) /\ i \in DOMAIN file /\ file'[i] = file[i]
  BY <1>1 DEF Onwards
<1>4. Heading'
  <2>1. 1 \in 1..n /\ 1 # n
    BY <1>2
  <2>2. file'[1] = file[1]
    BY <1>3, <2>1
  <2>3. Shows("max_freq", 0)' <=> Shows("max_freq", 0)
    BY <1>1, ShowsStays DEF Onwards
  <2>4. Heading /\ file[1].measurement = "metadata"
    BY <1>1, SoFar DEF IInv
  <2> QED
    BY <1>1, <2>2, <2>3, <2>4 DEF Heading, Onwards
<1>5. \A i \in 1..n : i > 1 /\ i # n => Beat(i)' \/ Read(i)'
  BY <1>1, <1>3, SoFar, LinesStay
<1>6. \A i \in 1..n : i # n => file'[i].at \in Nat /\ file'[i].at <= now
  BY <1>1, <1>3, SoFar
<1>7. ASSUME NEW t \in Nat, now <= t PROVE BeatsOver(n, t)'
  <2>1. BeatsOver(n, t) /\ n \in 1..(Len(file) + 1)
    BY <1>1, <1>7, SoFar
  <2> QED
    BY <1>1, <2>1, BeatsStay
<1> QED
  BY <1>2, <1>4, <1>5, <1>6, <1>7

\* No two counts of beats and readings are of one place.
LEMMA Counts ==
  ASSUME IInv
  PROVE  /\ Cardinality(Beats) \in Nat
         /\ Cardinality(Beats \cup {Len(file) + 1}) = Cardinality(Beats) + 1
         /\ \A s : /\ Cardinality(Of(file, s)) \in Nat
                   /\ Cardinality(Of(file, s) \cup {Len(file) + 1}) = Cardinality(Of(file, s)) + 1
BY Places, OneMorePlace DEF IInv, Types

\* A line that is no beat leaves the schedule alone.
LEMMA NoBeat ==
  ASSUME IInv, NEW n, Writing(n), ~IsBeat(n)'
  PROVE  /\ Beats' = Beats /\ InTime' /\ NeverAheadOfSchedule'
         /\ \A h \in Beats : h \in 1..Len(file)
<1>1. /\ IsSeq(file) /\ IsSeq(file') /\ Len(file') = Len(file) + 1
      /\ \A i \in 1..Len(file) : file'[i] = file[i]
      /\ n = Len(file) + 1
  BY DEF IInv, Types, Writing, Onwards
<1>2. Beats' = Beats
  BY <1>1, Selected DEF IsBeat
<1>3. Len(file) \in Nat /\ DOMAIN file = 1..Len(file) /\ Beats \in SUBSET (1..Len(file))
  BY <1>1, Places
<1>4. DOMAIN file' = 1..n
  BY <1>1, DomainAny
<1>5. InTime'
  <2> SUFFICES ASSUME NEW i \in 1..n, NEW j \in 1..n, i < j, IsBeat(j)', ~IsBeat(i)'
               PROVE  file'[i].at <= file'[j].at
    BY <1>4 DEF InTime, IsBeat
  <2>1. j # n
    OBVIOUS
  <2>2. i \in DOMAIN file /\ j \in DOMAIN file
    BY <1>1, <1>3, <2>1
  <2>3. file'[i] = file[i] /\ file'[j] = file[j]
    BY <1>1, <1>3, <2>2
  <2> QED
    BY <2>2, <2>3 DEF IInv, InTime, IsBeat
<1>6. NeverAheadOfSchedule'
  <2>1. file # <<>> /\ 1 \in 1..Len(file)
    BY <1>3, DomainAny DEF IInv, Types, Writing
  <2>2. file'[1] = file[1] /\ \A i \in Beats : file'[i] = file[i]
    BY <1>1, <1>3, <2>1
  <2> QED
    BY <1>2, <2>2 DEF NeverAheadOfSchedule, IInv, Scheduled
<1> QED
  BY <1>2, <1>3, <1>5, <1>6

LEMMA HeartbeatKeeps == IInv /\ Heartbeat => IInv'
<1> SUFFICES ASSUME IInv, Heartbeat PROVE IInv'
  OBVIOUS
<1>1. /\ pc = "cycle" /\ pc' = "sample" /\ todo' = Sampled
      /\ UNCHANGED <<tool, episode, ident, found, due>>
  BY DEF Heartbeat, setup
<1>2. PICK d \in Delays, status \in Statuses :
        \E shown \in {now, now + d} :
          /\ Reading(d, status, shown)
          /\ Emit(Record("collector", "heartbeat", now, d, status,
                         IF status = "AVAILABLE" THEN shown ELSE None))
  BY DEF Heartbeat
<1>3. PICK shown \in {now, now + d} :
        /\ Reading(d, status, shown)
        /\ Emit(Record("collector", "heartbeat", now, d, status,
                       IF status = "AVAILABLE" THEN shown ELSE None))
  BY <1>2
<1>0. PICK n : n = Len(file) + 1
  OBVIOUS
<1> DEFINE v == IF status = "AVAILABLE" THEN shown ELSE None
<1>4. d \in Nat /\ now \in Nat /\ now' = now + d /\ now' \in Nat /\ now <= now' /\ shown \in Nat
      /\ now <= shown /\ shown <= now + d
  BY <1>3, TimeAssumption DEF TimeAssumption, Reading, IInv, Types
<1>5. status = "AVAILABLE" => v = shown
  OBVIOUS
<1> HIDE DEF v
<1>6. Grows("collector", "heartbeat", now, d, status, v)
  BY <1>3, Emitted DEF IInv, Types, v
<1>7. /\ IsSeq(file) /\ IsSeq(file') /\ Len(file') = Len(file) + 1 /\ Len(file) \in Nat
      /\ \A i \in 1..Len(file) : file'[i] = file[i]
      /\ Len(file') >= Len(file)
  BY <1>6, DomainAny DEF Grows, IInv, Types
<1>8. Writing(n)
  BY <1>0, <1>1, <1>4, <1>7 DEF Writing, Onwards
<1>9. /\ file'[n].source = "collector" /\ file'[n].measurement = "heartbeat"
      /\ file'[n].at = now /\ file'[n].took = d /\ file'[n].status = status /\ file'[n].value = v
  BY <1>0, <1>6 DEF Grows
<1>10. /\ Heading' /\ file' # <<>> /\ DOMAIN file' = 1..n /\ n \in Nat /\ n > 1
       /\ \A i \in 1..n : i > 1 /\ i # n => Beat(i)' \/ Read(i)'
       /\ \A i \in 1..n : i # n => file'[i].at \in Nat /\ file'[i].at <= now
       /\ \A t \in Nat : now <= t => BeatsOver(n, t)'
  BY <1>8, WritingKeeps
<1>11. /\ Beats' = Beats \cup {n}
       /\ \A s : s # "collector" => Of(file', s) = Of(file, s)
  BY <1>0, <1>7, <1>9, Selected
<1>12. /\ todo = {} /\ tool \in {"c2", "c3"} /\ Beats \in SUBSET (1..Len(file))
       /\ \A i : i \in Beats <=> i \in 1..Len(file) /\ IsBeat(i)
       /\ \A s : Of(file, s) \in SUBSET (1..Len(file))
       /\ DOMAIN file = 1..Len(file)
  BY <1>1, <1>7, Places DEF IInv, Types
<1>13. \A k \in Sampled : Source(k) # "collector" /\ Source(k)' = Source(k)
  BY <1>1, <1>12, SourceFacts DEF Sampled, Source
<1>14. Sampled' = Sampled
  BY <1>1 DEF Sampled
<1>15. Types'
  BY <1>1, <1>4, <1>7, <1>10, <1>12, <1>14 DEF IInv, Types
<1>16. Lines'
  <2>1. BeatsOver(n, file[n].at)'
    BY <1>4, <1>9, <1>10 DEF BeatsOver
  <2>2. Beat(n)'
    BY <1>4, <1>5, <1>9, <2>1 DEF Beat, IsBeat
  <2> QED
    BY <1>10, <2>2 DEF Lines
<1>17. InTime'
  <2> SUFFICES ASSUME NEW i \in 1..n, NEW j \in 1..n, i < j, IsBeat(j)', ~IsBeat(i)'
               PROVE  file'[i].at <= file'[j].at
    BY <1>10 DEF InTime, IsBeat
  <2>1. CASE j = n
    BY <1>9, <1>10, <2>1
  <2>2. CASE j # n
    <3>1. i \in DOMAIN file /\ j \in DOMAIN file /\ file'[i] = file[i] /\ file'[j] = file[j]
      BY <1>7, <1>12, <2>2, <1>0
    <3> QED
      BY <3>1 DEF IInv, InTime, IsBeat
  <2> QED
    BY <2>1, <2>2
<1>18. EveryCycle'
  <2> SUFFICES ASSUME NEW k \in Sampled, NEW i \in Beats \cup {n}
               PROVE  \/ \E r \in Of(file', Source(k)) :
                           i < r /\ \A h \in Beats \cup {n} : h <= i \/ r < h
                      \/ k \in todo' /\ \A h \in Beats \cup {n} : h <= i
    BY <1>11, <1>13, <1>14 DEF EveryCycle
  <2>1. CASE i = n
    BY <1>1, <1>7, <1>12, <2>1, <1>0
  <2>2. CASE i # n
    <3>1. PICK r \in Of(file, Source(k)) : i < r /\ \A h \in Beats : h <= i \/ r < h
      BY <1>12, <2>2 DEF IInv, EveryCycle
    <3>2. r < n
      BY <1>7, <1>12, <1>0
    <3> QED
      BY <1>11, <1>13, <3>1, <3>2
  <2> QED
    BY <2>1, <2>2
<1>19. Cardinality(Beats') = Cardinality(Beats) + 1 /\ Cardinality(Beats) \in Nat
  BY <1>11, <1>0, Counts
<1>20. Counted'
  <2>1. ASSUME NEW k \in Sampled
        PROVE  Cardinality(Of(file', Source(k))) + 1 = Cardinality(Beats')
    <3>1. Cardinality(Of(file, Source(k))) + 0 = Cardinality(Beats)
      BY <1>12 DEF IInv, Counted
    <3>2. Of(file', Source(k)) = Of(file, Source(k))
      BY <1>11, <1>13
    <3>3. Cardinality(Of(file, Source(k))) \in Nat
      BY Counts
    <3> QED
      BY <1>19, <3>1, <3>2, <3>3
  <2> QED
    BY <1>1, <1>13, <1>14, <2>1 DEF Counted
<1>21. Scheduled'
  <2>1. due <= now /\ due = Cardinality(Beats) * Interval /\ due \in Nat /\ Interval \in Nat
    BY <1>1, TimeAssumption DEF TimeAssumption, IInv, Scheduled, Types
  <2>2. due' + Interval = Cardinality(Beats') * Interval
    <3>1. \A b, c \in Nat : b * c + c = (b + 1) * c
      OBVIOUS
    <3> QED
      BY <1>1, <1>19, <2>1, <3>1
  <2>3. file # <<>> /\ file[1].at = 0 /\ file'[1].at = 0
    <3>1. file # <<>> /\ file[1].at = 0
      BY <1>1 DEF IInv, Types, Heading
    <3>2. 1 \in 1..Len(file)
      BY <1>7, <3>1, DomainAny
    <3> QED
      BY <1>7, <3>1, <3>2
  <2>4. ASSUME NEW i \in Beats
        PROVE  file'[i].at >= file'[1].at + Cardinality({j \in Beats' : j < i}) * Interval
    <3>1. {j \in Beats' : j < i} = {j \in Beats : j < i}
      BY <1>7, <1>11, <1>12, <1>0
    <3> QED
      BY <1>7, <1>12, <2>3, <3>1 DEF IInv, Scheduled, NeverAheadOfSchedule
  <2>5. file'[n].at >= file'[1].at + Cardinality({j \in Beats' : j < n}) * Interval
    <3>1. {j \in Beats' : j < n} = Beats
      BY <1>7, <1>11, <1>12, <1>0
    <3>2. Cardinality({j \in Beats' : j < n}) * Interval = due
      BY <2>1, <3>1
    <3> QED
      BY <1>4, <1>9, <2>1, <2>3, <3>2
  <2>6. NeverAheadOfSchedule'
    BY <1>11, <2>4, <2>5 DEF NeverAheadOfSchedule
  <2> QED
    BY <1>1, <2>2, <2>6 DEF Scheduled
<1> QED
  BY <1>10, <1>15, <1>16, <1>17, <1>18, <1>20, <1>21 DEF IInv

LEMMA SampleKeeps == IInv /\ Sample => IInv'
<1> SUFFICES ASSUME IInv, Sample PROVE IInv'
  OBVIOUS
<1>1. pc = "sample" /\ pc' = "sample" /\ UNCHANGED <<tool, episode, ident, found, due>>
  BY DEF Sample, setup
<1>2. PICK next \in todo :
        /\ todo' = todo \ {next}
        /\ \E d \in Delays, status \in Statuses : \E shown \in {now, now + d} :
             /\ Reading(d, status, shown)
             /\ Emit(RawRead(Source(next), d, status, shown))
  BY DEF Sample, Source
<1>3. PICK d \in Delays, status \in Statuses :
        \E shown \in {now, now + d} :
          /\ Reading(d, status, shown)
          /\ Emit(RawRead(Source(next), d, status, shown))
  BY <1>2
<1>4. PICK shown \in {now, now + d} :
        /\ Reading(d, status, shown)
        /\ Emit(RawRead(Source(next), d, status, shown))
  BY <1>3
<1>0. PICK n, source : n = Len(file) + 1 /\ source = Source(next)
  OBVIOUS
<1> DEFINE v == IF status = "AVAILABLE" THEN Shows(source, shown) ELSE None
<1>5. d \in Nat /\ now \in Nat /\ now' = now + d /\ now' \in Nat /\ now <= now' /\ shown \in Nat
      /\ now <= shown /\ shown <= now + d
  BY <1>4, TimeAssumption DEF TimeAssumption, Reading, IInv, Types
<1>6. status = "AVAILABLE" => v \in BOOLEAN /\ (v <=> Shows(source, shown))
  BY Zenon DEF Shows
<1>7. Emit(Record(source, "raw_read", now + d, d, status, v))
  BY <1>0, <1>4 DEF RawRead
<1> HIDE DEF v
<1>8. Grows(source, "raw_read", now + d, d, status, v)
  BY <1>7, Emitted DEF IInv, Types
<1>9. /\ IsSeq(file) /\ IsSeq(file') /\ Len(file') = Len(file) + 1 /\ Len(file) \in Nat
      /\ \A i \in 1..Len(file) : file'[i] = file[i]
      /\ Len(file') >= Len(file)
  BY <1>8, DomainAny DEF Grows, IInv, Types
<1>10. Writing(n)
  BY <1>0, <1>1, <1>5, <1>9 DEF Writing, Onwards
<1>11. /\ file'[n].source = source /\ file'[n].measurement = "raw_read"
       /\ file'[n].at = now' /\ file'[n].status = status /\ file'[n].value = v
  BY <1>0, <1>5, <1>8 DEF Grows
<1>12. /\ Heading' /\ file' # <<>> /\ DOMAIN file' = 1..n /\ n \in Nat /\ n > 1
       /\ \A i \in 1..n : i > 1 /\ i # n => Beat(i)' \/ Read(i)'
       /\ \A t \in Nat : now <= t => BeatsOver(n, t)'
  BY <1>10, WritingKeeps
<1>13. /\ Beats' = Beats /\ InTime' /\ NeverAheadOfSchedule'
       /\ \A h \in Beats : h \in 1..Len(file)
  BY <1>10, <1>11, NoBeat DEF IsBeat
<1>14. \A s : Of(file', s) = IF source = s THEN Of(file, s) \cup {n} ELSE Of(file, s)
  BY <1>0, <1>9, <1>11, Selected
<1>15. /\ tool \in {"c2", "c3"} /\ todo \subseteq Sampled /\ next \in Sampled
  BY <1>2 DEF IInv, Types
<1>16. Sampled' = Sampled /\ \A k : Source(k)' = Source(k)
  BY <1>1 DEF Sampled, Source
<1>17. \A k \in Sampled : source = Source(k) => k = next
  BY <1>0, <1>15, SourceFacts DEF Sampled
<1>18. Types'
  BY <1>1, <1>2, <1>5, <1>9, <1>12, <1>15, <1>16 DEF IInv, Types
<1>19. Lines'
  <2>1. \E k \in Sampled' : file'[n].source = Source(k)'
    BY <1>0, <1>11, <1>15, <1>16
  <2>2. file'[n].at \in Nat /\ file'[n].at <= now'
    BY <1>5, <1>11
  <2>3. ASSUME status = "AVAILABLE" PROVE SeenAt(n, shown)'
    <3>1. BeatsOver(n, shown)'
      BY <1>5, <1>12
    <3>2. Shows(source, shown)' <=> Shows(source, shown)
      BY <1>1, ShowsStays
    <3>3. (file[n].value <=> Shows(file[n].source, shown))'
      BY <1>6, <1>11, <2>3, <3>2 DEF Shows
    <3> QED
      BY <1>5, <1>6, <1>11, <2>3, <3>1, <3>3 DEF SeenAt
  <2>4. Read(n)'
    BY <1>5, <1>11, <2>1, <2>2, <2>3 DEF Read
  <2> QED
    BY <1>12, <2>4 DEF Lines
<1>20. EveryCycle'
  <2> SUFFICES ASSUME NEW k \in Sampled, NEW i \in Beats
               PROVE  \/ \E r \in Of(file', Source(k)) : i < r /\ \A h \in Beats : h <= i \/ r < h
                      \/ k \in todo' /\ \A h \in Beats : h <= i
    BY <1>13, <1>16 DEF EveryCycle
  <2>1. CASE \E r \in Of(file, Source(k)) : i < r /\ \A h \in Beats : h <= i \/ r < h
    BY <1>14, <2>1
  <2>2. CASE k \in todo /\ \A h \in Beats : h <= i
    <3>1. CASE k = next
      <4>1. n \in Of(file', Source(k))
        BY <1>0, <1>14, <3>1
      <4>2. i < n
        BY <1>0, <1>9, <1>13
      <4> QED
        BY <2>2, <4>1, <4>2
    <3>2. CASE k # next
      BY <1>2, <2>2, <3>2
    <3> QED
      BY <3>1, <3>2
  <2> QED
    BY <2>1, <2>2 DEF IInv, EveryCycle
<1>21. Counted'
  <2> SUFFICES ASSUME NEW k \in Sampled
               PROVE  Cardinality(Of(file', Source(k))) + (IF k \in todo' THEN 1 ELSE 0)
                        = Cardinality(Beats)
    BY <1>13, <1>16 DEF Counted
  <2>1. Cardinality(Of(file, Source(k))) + (IF k \in todo THEN 1 ELSE 0) = Cardinality(Beats)
    BY DEF IInv, Counted
  <2>2. /\ Cardinality(Of(file, Source(k))) \in Nat
        /\ Cardinality(Of(file, Source(k)) \cup {n}) = Cardinality(Of(file, Source(k))) + 1
    BY <1>0, Counts
  <2>3. CASE k = next
    <3>1. k \in todo /\ k \notin todo'
      BY <1>2, <2>3
    <3>2. Of(file', Source(k)) = Of(file, Source(k)) \cup {n}
      BY <1>0, <1>14, <2>3
    <3> QED
      BY <2>1, <2>2, <3>1, <3>2
  <2>4. CASE k # next
    <3>1. (k \in todo <=> k \in todo') /\ Of(file', Source(k)) = Of(file, Source(k))
      BY <1>2, <1>14, <1>17, <2>4
    <3> QED
      BY <2>1, <3>1
  <2> QED
    BY <2>3, <2>4
<1>22. Scheduled'
  BY <1>1, <1>13 DEF Scheduled, IInv
<1> QED
  BY <1>12, <1>13, <1>18, <1>19, <1>20, <1>21, <1>22 DEF IInv

LEMMA TickKeeps == IInv /\ Tick => IInv'
<1> SUFFICES ASSUME IInv, Tick PROVE IInv'
  OBVIOUS
<1>1. /\ pc = "sample" /\ todo = {} /\ pc' = "cycle"
      /\ due' = due + Interval /\ now' = IF now < due' THEN due' ELSE now
      /\ UNCHANGED <<tool, episode, ident, found, todo, file>>
  BY DEF Tick, setup
<1>2. now \in Nat /\ due \in Nat /\ Interval \in Nat
  BY TimeAssumption DEF TimeAssumption, IInv, Types
<1>3. now' \in Nat /\ due' \in Nat /\ now <= now' /\ due' <= now'
  BY <1>1, <1>2
<1>4. Types'
  BY <1>1, <1>3 DEF IInv, Types, Sampled
<1>5. Heading' /\ Lines' /\ InTime' /\ NeverAheadOfSchedule' /\ Beats' = Beats
  BY <1>1, <1>3, FileStays
<1>6. EveryCycle' /\ Counted'
  BY <1>1, CyclesStay
<1>7. Scheduled'
  BY <1>1, <1>3, <1>5 DEF IInv, Scheduled
<1> QED
  BY <1>4, <1>5, <1>6, <1>7 DEF IInv

LEMMA FinishKeeps == IInv /\ Finish => IInv'
<1> SUFFICES ASSUME IInv, Finish PROVE IInv'
  OBVIOUS
<1>1. /\ pc = "cycle" /\ pc' = "done" /\ UNCHANGED <<tool, episode, ident, found, now, due, todo>>
      /\ Emit(Record("collector", "end", now, 0, "AVAILABLE", None))
  BY DEF Finish, setup
<1>0. PICK n : n = Len(file) + 1
  OBVIOUS
<1>2. Grows("collector", "end", now, 0, "AVAILABLE", None) /\ IsSeq(file) /\ now \in Nat
  BY <1>1, Emitted DEF IInv, Types
<1>3. /\ IsSeq(file') /\ Len(file') = Len(file) + 1 /\ Len(file) \in Nat
      /\ \A i \in 1..Len(file) : file'[i] = file[i]
      /\ Len(file') >= Len(file)
      /\ file'[n].source = "collector" /\ file'[n].measurement = "end"
      /\ file'[n].status = "AVAILABLE"
  BY <1>0, <1>2, DomainAny DEF Grows
<1>4. Writing(n)
  BY <1>0, <1>1, <1>2, <1>3 DEF Writing, Onwards
<1>5. /\ Heading' /\ file' # <<>> /\ DOMAIN file' = 1..n
      /\ \A i \in 1..n : i > 1 /\ i # n => Beat(i)' \/ Read(i)'
  BY <1>4, WritingKeeps
<1>6. Beats' = Beats /\ InTime' /\ NeverAheadOfSchedule'
  BY <1>3, <1>4, NoBeat DEF IsBeat
<1>7. Types'
  BY <1>1, <1>3, <1>5 DEF IInv, Types, Sampled
<1>8. Lines'
  BY <1>1, <1>3, <1>5 DEF Lines
<1>9. \A k \in Sampled : Of(file', Source(k)) = Of(file, Source(k))
  <2>1. \A k \in Sampled : Source(k) # "collector"
    BY SourceFacts DEF IInv, Types, Sampled
  <2>2. \A s : s # "collector" => Of(file', s) = Of(file, s)
    BY <1>0, <1>2, <1>3, Selected
  <2> QED
    BY <2>1, <2>2
<1>10. EveryCycle' /\ Counted'
  <2>1. Sampled' = Sampled /\ \A k : Source(k)' = Source(k)
    BY <1>1 DEF Sampled, Source
  <2> QED
    BY <1>1, <1>6, <1>9, <2>1 DEF IInv, EveryCycle, Counted
<1> QED
  BY <1>1, <1>5, <1>6, <1>7, <1>8, <1>10 DEF IInv, Scheduled

LEMMA EndsKeep == IInv /\ (Disconnect \/ Kill) => IInv'
<1> SUFFICES ASSUME IInv, Disconnect \/ Kill PROVE IInv'
  OBVIOUS
<1>1. /\ pc \in Running /\ pc' \in {"failed", "killed"}
      /\ UNCHANGED <<tool, episode, ident, found, now, due, todo>>
      /\ now \in Nat /\ IsSeq(file)
  BY DEF Disconnect, Kill, Running, setup, IInv, Types
<1>2. CASE file' = file
  <2>1. Heading' /\ Lines' /\ InTime' /\ NeverAheadOfSchedule'
    BY <1>1, <1>2, FileStays DEF Running
  <2>2. Types'
    BY <1>1, <1>2 DEF IInv, Types, Sampled
  <2> QED
    BY <1>1, <1>2, <2>1, <2>2, CyclesStay DEF IInv, Scheduled
<1>3. CASE file' # file
  <2>1. /\ pc = "open" /\ pc' = "killed"
        /\ Emit(Record("collector", "torn", now, 0, "AVAILABLE", None))
    BY <1>3 DEF Kill, Disconnect
  <2>2. file = <<>> /\ now = 0 /\ todo = {} /\ tool \in {"c2", "c3"} /\ Len(file) = 0
    BY <2>1, IsEmptySeq DEF IInv, Types
  <2>3. Grows("collector", "torn", now, 0, "AVAILABLE", None)
    BY <1>1, <2>1, Emitted
  <2>4. /\ IsSeq(file') /\ Len(file') = 1 /\ file' # <<>>
        /\ file'[1].source = "collector" /\ file'[1].measurement = "torn"
        /\ file'[1].at = 0 /\ file'[1].status = "AVAILABLE"
    <3>1. Len(file') = 1 /\ IsSeq(file')
      BY <2>2, <2>3 DEF Grows
    <3>2. file' # <<>>
      BY <3>1, IsEmptySeq
    <3>3. Len(file) + 1 = 1
      BY <2>2
    <3> QED
      BY <2>2, <2>3, <3>1, <3>2, <3>3 DEF Grows
  <2>5. Types' /\ Heading'
    BY <1>1, <2>1, <2>2, <2>4 DEF IInv, Types, Sampled, Heading
  <2>6. (Lines /\ InTime /\ EveryCycle /\ Counted /\ NeverAheadOfSchedule)'
    <3>1. (/\ IsSeq(file) /\ Len(file) = 1 /\ ~IsBeat(1) /\ file[1].source = "collector"
           /\ tool \in {"c2", "c3"} /\ todo = {})'
      BY <1>1, <2>2, <2>4 DEF IsBeat
    <3> QED
      BY <3>1, NoBeatYet, PTL
  <2> QED
    BY <2>1, <2>5, <2>6 DEF IInv, Scheduled
<1> QED
  BY <1>2, <1>3

\* Whatever a file says is so in every state of every trial.
THEOREM ObsInvariance == Spec => []IInv
<1>1. IInv /\ UNCHANGED vars => IInv'
  <2> SUFFICES ASSUME IInv, UNCHANGED vars PROVE IInv'
    OBVIOUS
  <2>1. UNCHANGED <<tool, episode, ident, found, now, pc, due, todo, file>> /\ now \in Nat
    BY DEF vars, setup, IInv, Types
  <2>2. Heading' /\ Lines' /\ InTime' /\ NeverAheadOfSchedule' /\ Beats' = Beats
    BY <2>1, FileStays
  <2>3. EveryCycle' /\ Counted'
    BY <2>1, CyclesStay
  <2>4. Types' /\ Scheduled'
    BY <2>1, <2>2 DEF IInv, Types, Sampled, Scheduled
  <2> QED
    BY <2>2, <2>3, <2>4 DEF IInv
<1>2. IInv /\ [Next]_vars => IInv'
  BY <1>1, DiscoverKeeps, OpenOutputKeeps, HeartbeatKeeps, SampleKeeps, TickKeeps, FinishKeeps,
     EndsKeep DEF Next, Collect
<1> QED
  BY <1>2, InitIInv, PTL DEF Spec

\* By time t a collector has taken no more heartbeats than the schedule has
\* ticks (c3_obs_01_collect.py:345-367).
THEOREM ScheduleIsKept == Spec => []NeverAheadOfSchedule
<1>1. IInv => NeverAheadOfSchedule
  BY DEF IInv, Scheduled
<1> QED
  BY <1>1, ObsInvariance, PTL

(***************************************************************************)
(* What the analyzers make of it.                                          *)
(***************************************************************************)
Started == file # <<>> /\ file[1].measurement = "metadata"

LEMMA Singleton == \A e : IsFiniteSet({e}) /\ Cardinality({e}) = 1
<1> SUFFICES ASSUME NEW e PROVE IsFiniteSet({e}) /\ Cardinality({e}) = 1
  OBVIOUS
<1>1. /\ IsFiniteSet({} \cup {e})
      /\ Cardinality({} \cup {e}) = IF e \in {} THEN Cardinality({}) ELSE Cardinality({}) + 1
  BY FS_EmptySet, FS_AddElement
<1> QED
  BY <1>1, FS_EmptySet

\* A file without metadata has nothing else either.
LEMMA Unstarted ==
  ASSUME IInv, ~Started
  PROVE  Beats = {} /\ \A s : s # "collector" => Of(file, s) = {}
<1>1. DOMAIN file = 1..Len(file) /\ Len(file) \in Nat /\ (file = <<>> <=> Len(file) = 0)
  BY DomainAny DEF IInv, Types
<1>2. CASE file = <<>>
  BY <1>1, <1>2 DEF Beats, Heartbeats, Measured, Of
<1>3. CASE file # <<>>
  <2>1. file[1].measurement = "torn" /\ Len(file) = 1 /\ file[1].source = "collector"
    BY <1>3 DEF IInv, Heading, Started
  <2> QED
    BY <1>1, <2>1 DEF Beats, Heartbeats, Measured, Of
<1> QED
  BY <1>2, <1>3

\* The analyzers read the record of the discovery.
LEMMA MetadataRead ==
  ASSUME IInv, Started, NEW sources
  PROVE  /\ Metadata(file, sources).found = found /\ Metadata(file, sources).ident = ident
         /\ Metadata(file, sources).clamped => Shows("max_freq", 0)
<1>1. DOMAIN file = 1..Len(file) /\ Len(file) \in Nat /\ 1 \in DOMAIN file
  BY DomainAny DEF IInv, Types, Started
<1>2. \A i \in DOMAIN file : i # 1 => file[i].measurement # "metadata"
  BY <1>1 DEF IInv, Lines, Beat, Read, IsBeat
<1>3. Measured(file, "metadata") = {1}
  BY <1>1, <1>2 DEF Measured, Started
<1>4. Cardinality(Measured(file, "metadata")) = 1 /\ (CHOOSE i \in {1} : TRUE) = 1
  BY <1>3, Singleton
<1>5. Metadata(file, sources) = file[1].value
  BY <1>3, <1>4 DEF Metadata
<1> QED
  BY <1>5 DEF IInv, Heading, Started

\* A reading is of a source that is sampled.
LEMMA OfSource ==
  ASSUME IInv, NEW s, s # "collector", NEW r \in Of(file, s)
  PROVE  r \in DOMAIN file /\ Read(r) /\ file[r].source = s
<1>1. r \in DOMAIN file /\ file[r].source = s /\ r \in Nat /\ r >= 1
  BY DomainAny DEF Of, IInv, Types
<1>2. r # 1
  BY <1>1 DEF IInv, Heading
<1> QED
  BY <1>1, <1>2 DEF IInv, Lines, Beat

\* What was read was so.
LEMMA ReadsAreTrue ==
  ASSUME IInv, NEW s, s # "collector"
  PROVE  Reads(file, s) \subseteq BOOLEAN /\ (TRUE \in Reads(file, s) => \E t \in 0..now : Shows(s, t))
<1>1. ASSUME NEW r \in Good(file, Of(file, s))
      PROVE  file[r].value \in BOOLEAN /\ (file[r].value => \E t \in 0..now : Shows(s, t))
  <2>1. Read(r) /\ file[r].source = s /\ file[r].status = "AVAILABLE"
    BY OfSource DEF Good
  <2>2. PICK t \in Nat : SeenAt(r, t)
    BY <2>1 DEF Read
  <2>3. t <= file[r].at /\ file[r].at <= now /\ file[r].at \in Nat /\ now \in Nat
    BY <2>1, <2>2 DEF SeenAt, Read, IInv, Types
  <2> QED
    BY <2>1, <2>2, <2>3 DEF SeenAt
<1> QED
  BY <1>1 DEF Reads

\* Heartbeats are in order.
LEMMA BeatFacts ==
  ASSUME IInv
  PROVE  /\ Beats \in SUBSET Nat
         /\ \A i \in Beats : i \in DOMAIN file /\ Beat(i) /\ file[i].at \in Nat /\ file[i].took \in Nat
         /\ \A i, j \in Beats : i < j => /\ file[i].at + file[i].took <= file[j].at
                                        /\ file[i].at <= file[j].at
<1>1. DOMAIN file = 1..Len(file) /\ Len(file) \in Nat
      /\ \A i : i \in Beats <=> i \in 1..Len(file) /\ IsBeat(i)
  BY Places DEF IInv, Types
<1>2. ASSUME NEW i \in Beats PROVE Beat(i)
  <2>1. i \in DOMAIN file /\ IsBeat(i)
    BY <1>1
  <2>2. i # 1
    BY <1>1, <2>1 DEF IInv, Heading, IsBeat
  <2> QED
    BY <1>1, <2>1, <2>2 DEF IInv, Lines, Read, IsBeat
<1>3. \A i \in Beats : file[i].at \in Nat /\ file[i].took \in Nat
  BY <1>2 DEF Beat
<1>4. ASSUME NEW i \in Beats, NEW j \in Beats, i < j
      PROVE  file[i].at + file[i].took <= file[j].at /\ file[i].at <= file[j].at
  <2>1. file[i].at + file[i].took <= file[j].at
    BY <1>2, <1>4 DEF Beat, BeatsOver
  <2>2. \A a, b, c \in Nat : a + b <= c => a <= c
    OBVIOUS
  <2> QED
    BY <1>3, <2>1, <2>2
<1> QED
  BY <1>1, <1>2, <1>3, <1>4

\* The beats next to one.
LEMMA NextBeat ==
  ASSUME IInv, NEW i \in Beats, NEW j \in Beats, i < j
  PROVE  \E m \in Beats : Adjacent(Beats, i, m)
<1> DEFINE S == {h \in Beats : i < h}
<1>1. S \in SUBSET Nat /\ S # {} /\ i \in Nat
  BY BeatFacts
<1>2. PICK m \in S : \A h \in S : m <= h
  BY <1>1, Least
<1>3. \A h \in Beats : h <= i \/ m <= h
  BY <1>2, BeatFacts
<1> QED
  BY <1>2, <1>3 DEF Adjacent

LEMMA PreviousBeat ==
  ASSUME IInv, NEW i \in Beats, NEW j \in Beats, i < j
  PROVE  \E m \in Beats : Adjacent(Beats, m, j)
<1> DEFINE S == {h \in Beats : h < j}
           T == {j - h : h \in S}
<1>1. Beats \in SUBSET Nat /\ j \in Nat /\ i \in S
  BY BeatFacts
<1>2. T \in SUBSET Nat /\ T # {}
  BY <1>1
<1>3. PICK d \in T : \A e \in T : d <= e
  BY <1>2, Least
<1>4. PICK m \in S : d = j - m
  BY <1>3
<1>5. ASSUME NEW h \in Beats PROVE h <= m \/ j <= h
  <2>1. h \in Nat /\ m \in Nat
    BY <1>1, <1>4
  <2>2. CASE h < j
    <3>1. j - m <= j - h
      BY <1>3, <1>4, <2>2
    <3> QED
      BY <1>1, <2>1, <3>1
  <2> QED
    BY <1>1, <2>1, <2>2
<1> QED
  BY <1>4, <1>5 DEF Adjacent

\* A good reading after one beat and before another shows the device in between.
LEMMA ReadBetween ==
  ASSUME IInv, NEW s, s # "collector", Good(file, Of(file, s)) = Of(file, s), NEW r \in Of(file, s)
  PROVE  \E t \in Nat :
           /\ file[r].value \in BOOLEAN /\ (file[r].value <=> Shows(s, t))
           /\ file[r].value \in Reads(file, s)
           /\ \A i \in Beats : (i < r => file[i].at <= t) /\ (r < i => t <= file[i].at)
<1>1. Read(r) /\ r \in DOMAIN file /\ file[r].source = s
  BY OfSource
<1>2. r \in Good(file, Of(file, s))
  OBVIOUS
<1>3. file[r].status = "AVAILABLE"
  BY <1>2 DEF Good
<1>4. PICK t \in Nat : SeenAt(r, t)
  BY <1>1, <1>3 DEF Read
<1>5. ~IsBeat(r) /\ file[r].at \in Nat
  BY <1>1 DEF Read, IsBeat
<1>6. ASSUME NEW i \in Beats, i < r PROVE file[i].at <= t
  <2>1. file[i].at + file[i].took <= t /\ file[i].at \in Nat /\ file[i].took \in Nat
    BY <1>4, <1>6, BeatFacts DEF SeenAt, BeatsOver
  <2>2. \A a, b \in Nat : a + b <= t => a <= t
    OBVIOUS
  <2> QED
    BY <2>1, <2>2
<1>7. ASSUME NEW i \in Beats, r < i PROVE t <= file[i].at
  <2>1. i \in DOMAIN file /\ IsBeat(i) /\ file[i].at \in Nat
    BY BeatFacts DEF Beat
  <2>2. file[r].at <= file[i].at
    BY <1>1, <1>5, <1>7, <2>1 DEF IInv, InTime
  <2>3. t <= file[r].at
    BY <1>4 DEF SeenAt
  <2> QED
    BY <1>5, <2>1, <2>2, <2>3
<1>8. file[r].value \in Reads(file, s)
  BY <1>2 DEF Reads
<1> QED
  BY <1>1, <1>4, <1>6, <1>7, <1>8 DEF SeenAt

\* A source that is sampled is read between any two beats, ...
LEMMA ReadInCycle ==
  ASSUME IInv, NEW k \in Sampled, NEW i \in Beats, NEW j \in Beats, i < j
  PROVE  \E r \in Of(file, Source(k)) : i < r /\ r < j
<1>1. i \in Nat /\ j \in Nat /\ ~(j <= i)
  BY BeatFacts
<1>2. PICK r \in Of(file, Source(k)) : i < r /\ \A h \in Beats : h <= i \/ r < h
  BY <1>1 DEF IInv, EveryCycle
<1> QED
  BY <1>1, <1>2

\* ... and after the last one if it was read as often as there are beats.
LEMMA ReadInAll ==
  ASSUME IInv, NEW k \in Sampled, NEW i \in Beats,
         Cardinality(Of(file, Source(k))) >= Cardinality(Beats)
  PROVE  \E r \in Of(file, Source(k)) : i < r
<1>1. Cardinality(Of(file, Source(k))) + (IF k \in todo THEN 1 ELSE 0) = Cardinality(Beats)
  BY DEF IInv, Counted
<1>2. Cardinality(Of(file, Source(k))) \in Nat /\ Cardinality(Beats) \in Nat
  BY Counts
<1>3. k \notin todo
  BY <1>1, <1>2
<1> QED
  BY <1>3 DEF IInv, EveryCycle

\* A suspend or a wakeup between two beats is in the readings of a counter.
LEMMA CounterShows ==
  ASSUME IInv, NEW k \in Sampled, Source(k) \in Counters, Source(k) \in episode.seenBy,
         Cardinality(Good(file, Of(file, Source(k)))) >= Cardinality(Beats),
         NEW h \in Beats, NEW i \in Beats, NEW j \in Beats, h < i,
         file[i].at < episode.from, episode.from <= file[j].at
  PROVE  Cardinality(Reads(file, Source(k))) > 1
<1> DEFINE s == Source(k)
<1>0. s # "collector" /\ episode.from \in Nat
  BY SourceFacts, TimeAssumption DEF IInv, Types, Sampled, TimeAssumption
<1>1. /\ Good(file, Of(file, s)) = Of(file, s)
      /\ Cardinality(Of(file, s)) >= Cardinality(Beats)
  <2>1. Good(file, Of(file, s)) \in SUBSET Of(file, s)
    BY DEF Good
  <2>2. IsFiniteSet(Of(file, s))
    BY Places, OneMorePlace DEF IInv, Types
  <2>3. Cardinality(Of(file, s)) + (IF k \in todo THEN 1 ELSE 0) = Cardinality(Beats)
    BY DEF IInv, Counted
  <2>4. Cardinality(Of(file, s)) \in Nat /\ Cardinality(Beats) \in Nat
    BY Counts
  <2>5. /\ Cardinality(Good(file, Of(file, s))) \in Nat
        /\ Cardinality(Good(file, Of(file, s))) <= Cardinality(Of(file, s))
        /\ Cardinality(Good(file, Of(file, s))) = Cardinality(Of(file, s))
             => Good(file, Of(file, s)) = Of(file, s)
    BY <2>1, <2>2, FS_Subset, FS_CardinalityType
  <2> QED
    BY <2>3, <2>4, <2>5
<1>2. /\ file[h].at \in Nat /\ file[i].at \in Nat /\ file[j].at \in Nat
  BY BeatFacts
<1>3. FALSE \in Reads(file, s)
  <2>1. PICK r \in Of(file, s) : h < r /\ r < i
    BY ReadInCycle
  <2>2. PICK t \in Nat : /\ file[r].value \in BOOLEAN /\ (file[r].value <=> Shows(s, t))
                         /\ file[r].value \in Reads(file, s) /\ t <= file[i].at
    BY <1>0, <1>1, <2>1, ReadBetween
  <2>3. ~Shows(s, t)
    BY <1>0, <1>2, <2>2 DEF Shows
  <2> QED
    BY <2>2, <2>3
<1>4. TRUE \in Reads(file, s)
  <2>1. PICK r \in Of(file, s) : j < r
    BY <1>1, ReadInAll
  <2>2. PICK t \in Nat : /\ file[r].value \in BOOLEAN /\ (file[r].value <=> Shows(s, t))
                         /\ file[r].value \in Reads(file, s) /\ file[j].at <= t
    BY <1>0, <1>1, <2>1, ReadBetween
  <2>3. Shows(s, t)
    BY <1>0, <1>2, <2>2 DEF Shows
  <2> QED
    BY <2>2, <2>3
<1>5. Reads(file, s) = {FALSE} \cup {TRUE}
  BY <1>0, <1>3, <1>4, ReadsAreTrue
<1>6. Cardinality({FALSE} \cup {TRUE}) = 1 + 1
  <2>1. IsFiniteSet({FALSE}) /\ Cardinality({FALSE}) = 1
    BY Singleton
  <2>2. TRUE \notin {FALSE}
    OBVIOUS
  <2> QED
    BY <2>1, <2>2, FS_AddElement
<1>7. \A n : n = 1 + 1 => n > 1
  OBVIOUS
<1>8. Cardinality(Reads(file, Source(k))) = 1 + 1
  BY <1>5, <1>6, Zenon
<1> QED
  BY <1>7, <1>8, Zenon

\* An episode of two gaps between two beats is in the readings of its source.
LEMMA IntervalShows ==
  ASSUME IInv, NEW k \in Sampled, Source(k) \in episode.seenBy, Source(k) \notin Counters,
         Good(file, Of(file, Source(k))) = Of(file, Source(k)),
         \A a, b \in Beats : Adjacent(Beats, a, b) => file[b].at - file[a].at <= MaxGap,
         NEW i \in Beats, NEW j \in Beats,
         file[i].at <= episode.from, episode.to <= file[j].at,
         episode.to - episode.from >= 2 * MaxGap
  PROVE  TRUE \in Reads(file, Source(k))
<1> DEFINE s == Source(k)
<1>0. /\ s # "collector" /\ episode.from \in Nat /\ episode.to \in Nat
      /\ MaxGap \in Nat /\ MaxGap > 0
  BY SourceFacts, TimeAssumption, GapAssumption
     DEF IInv, Types, Sampled, TimeAssumption, GapAssumption
<1>1. Beats \in SUBSET Nat /\ \A h \in Beats : file[h].at \in Nat
  BY BeatFacts
<1> DEFINE S == {h \in Beats : file[h].at >= episode.from}
<1>2. S \in SUBSET Nat /\ j \in S
  <2>1. file[j].at \in Nat /\ file[j].at >= episode.from
    BY <1>0, <1>1
  <2> QED
    BY <1>1, <2>1
<1>3. PICK m \in S : \A h \in S : m <= h
  BY <1>2, Least
<1>4. file[m].at < episode.from + MaxGap /\ file[m].at >= episode.from /\ m \in Beats
  <2>1. CASE file[m].at = episode.from
    BY <1>0, <1>3, <2>1
  <2>2. CASE file[m].at > episode.from
    <3>1. i < m
      <4>0. m \in Nat /\ i \in Nat /\ file[i].at # file[m].at /\ m \in Beats
        BY <1>0, <1>1, <1>3, <2>2
      <4>1. ~(m < i)
        <5>1. ~(file[m].at <= file[i].at)
          BY <1>0, <1>1, <2>2, <4>0
        <5> QED
          BY <4>0, <5>1, BeatFacts
      <4>2. m # i
        BY <4>0
      <4> QED
        BY <4>0, <4>1, <4>2
    <3>2. PICK q \in Beats : Adjacent(Beats, q, m)
      BY <1>3, <3>1, PreviousBeat
    <3>3. q < m /\ file[m].at - file[q].at <= MaxGap
      BY <1>3, <3>2 DEF Adjacent
    <3>4. ~(file[q].at >= episode.from)
      BY <1>1, <1>3, <3>3
    <3> QED
      BY <1>0, <1>1, <1>3, <3>3, <3>4
  <2> QED
    BY <1>0, <1>1, <1>3, <2>1, <2>2
<1>5. m < j
  <2>1. file[m].at < file[j].at
    BY <1>0, <1>1, <1>4
  <2>2. m \in Nat /\ j \in Nat /\ file[m].at \in Nat /\ file[j].at \in Nat
    BY <1>1, <1>4
  <2>3. ~(file[j].at <= file[m].at)
    BY <2>1, <2>2
  <2>4. ~(j < m)
    BY <1>4, <2>3, BeatFacts
  <2>5. j # m
    BY <2>2, <2>3
  <2> QED
    BY <2>2, <2>4, <2>5
<1>6. PICK b \in Beats : Adjacent(Beats, m, b)
  BY <1>4, <1>5, NextBeat
<1>7. m < b /\ file[b].at - file[m].at <= MaxGap
  BY <1>4, <1>6 DEF Adjacent
<1>8. file[b].at < episode.to
  BY <1>0, <1>1, <1>4, <1>7
<1>9. PICK r \in Of(file, s) : m < r /\ r < b
  BY <1>4, <1>7, ReadInCycle
<1>10. PICK t \in Nat : /\ file[r].value \in BOOLEAN /\ (file[r].value <=> Shows(s, t))
                        /\ file[r].value \in Reads(file, s)
                        /\ file[m].at <= t /\ t <= file[b].at
  BY <1>0, <1>4, <1>9, ReadBetween
<1>11. Shows(s, t)
  BY <1>0, <1>1, <1>4, <1>8, <1>10 DEF Shows
<1> QED
  BY <1>10, <1>11

\* Which sources are sampled.
LEMMA SampledSources ==
  ASSUME tool \in {"c2", "c3"}
  PROVE  /\ tool = "c2" => \A s \in C2Sources :
              found[s] = "AVAILABLE" => \E k \in Sampled : Source(k) = s
         /\ tool = "c3" => \A s \in C3Sources \ {"trip_points"} :
              found[s] = "AVAILABLE" => \E k \in Sampled : Source(k) = s
         /\ tool = "c3" => \A k \in Sampled : Source(k) \in C3Sources \ {"trip_points"}
         /\ \A k \in Sampled : found[Source(k)] = "AVAILABLE"
         /\ "collector" \notin C2Sources \cup C3Sources
<1>1. CASE tool = "c2"
  <2>1. SourcesOf[tool] = <<"wakeup_count", "suspend_success", "cgroup">>
    BY <1>1 DEF SourcesOf
  <2> QED
    BY <1>1, <2>1 DEF Source, Sampled, C2Sources, C3Sources
<1>2. CASE tool = "c3"
  <2>1. SourcesOf[tool] = <<"temperature", "effective_freq", "max_freq", "trial_cpu">>
    BY <1>2 DEF SourcesOf
  <2> QED
    BY <1>2, <2>1 DEF Source, Sampled, C2Sources, C3Sources
<1> QED
  BY <1>1, <1>2

\* The verdicts that say something are about a file with metadata and two beats.
LEMMA ConclusiveIsStarted ==
  ASSUME IInv, Class \in {"ABSENT", "PRESENT"}
  PROVE  Started
<1> SUFFICES ASSUME ~Started PROVE FALSE
  OBVIOUS
<1>1. Beats = {} /\ \A s : s # "collector" => Of(file, s) = {}
  BY Unstarted
<1>2. tool \in {"c2", "c3"}
  BY DEF IInv, Types
<1>3. CoverageErrors(file)
  BY <1>1, FS_EmptySet DEF CoverageErrors, Beats
<1>4. CASE tool = "c2"
  <2>1. \A s \in C2Sources : Reads(file, s) = {}
    BY <1>1, <1>2, SampledSources DEF Reads, Good
  <2>2. ~Outran(file)
    BY <1>1 DEF Outran, Good, Beats
  <2>3. ~C2Event(file)
    <3>1. Cardinality({}) = 0
      BY FS_EmptySet
    <3>2. ~(TRUE \in Reads(file, "cgroup"))
      BY <2>1 DEF C2Sources
    <3>3. \A c \in {"suspend_success", "wakeup_count"} : Cardinality(Reads(file, c)) = 0
      BY <2>1, <3>1 DEF C2Sources
    <3>4. ~\E c \in {"suspend_success", "wakeup_count"} : Cardinality(Reads(file, c)) > 1
      BY <3>3
    <3> QED
      BY <2>2, <3>2, <3>4, Zenon DEF C2Event
  <2>4. C2Errors(file)
    BY <1>3 DEF C2Errors
  <2> QED
    BY <1>4, <2>3, <2>4 DEF Class, C2Status
<1>5. CASE tool = "c3"
  <2>1. C3Errors(file)
    BY <1>3 DEF C3Errors
  <2> QED
    BY <1>5, <2>1 DEF Class, C3Class, Complete
<1> QED
  BY <1>2, <1>4, <1>5

\* The sources that can show an episode are sources of its collector.
LEMMA SeenBySources ==
  ASSUME Types, NEW s \in episode.seenBy
  PROVE  /\ s \in DOMAIN Senses /\ episode.kind \in Senses[s]
         /\ episode.kind # "none"
         /\ tool = "c2" => s \in Counters \cup {"cgroup"}
         /\ tool = "c3" => s \in {"temperature", "max_freq", "trial_cpu"}
<1>1. s \in DOMAIN Senses /\ episode.kind \in Senses[s]
  BY EpisodeAssumption DEF Types, EpisodeAssumption
<1>2. /\ DOMAIN Senses = {"suspend_success", "wakeup_count", "cgroup", "temperature",
                           "effective_freq", "max_freq", "trial_cpu"}
      /\ Senses["suspend_success"] = {"suspend"} /\ Senses["wakeup_count"] = {"suspend", "wakeup"}
      /\ Senses["cgroup"] = {"freeze"} /\ Senses["temperature"] = {"excursion"}
      /\ Senses["effective_freq"] = {} /\ Senses["max_freq"] = {"clamp"}
      /\ Senses["trial_cpu"] = {"stray"}
  BY DEF Senses
<1>3. /\ episode.kind \in KindsOf[tool]
      /\ tool = "c2" => KindsOf[tool] = {"none", "suspend", "wakeup", "freeze"}
      /\ tool = "c3" => KindsOf[tool] = {"none", "excursion", "clamp", "stray"}
  BY DEF Types, KindsOf
<1> QED
  BY <1>1, <1>2, <1>3 DEF Counters

\* "Absent" is said of nothing that the readings it answers for had to see, in
\* whichever sources an episode shows (c2_obs_01_analyze.py:35-181,
\* c3_obs_01_analyze.py:257-484).
THEOREM AbsentIsAbsent == Spec => []AbsenceIsCovered
<1>1. ASSUME IInv PROVE AbsenceIsCovered
  <2> SUFFICES ASSUME Class = "ABSENT" PROVE
         /\ Cardinality(Beats) >= 2
         /\ \A s \in AnsweredFor, i, j \in Beats :
              IF s \in Counters
              THEN (\E h \in Beats : h < i)
                     => ~(file[i].at < episode.from /\ episode.from <= file[j].at)
              ELSE ~(/\ file[i].at <= episode.from
                     /\ episode.to <= file[j].at
                     /\ episode.to - episode.from >= 2 * MaxGap)
    BY DEF AbsenceIsCovered
  <2>1. tool \in {"c2", "c3"} /\ Started /\ Types
    BY <1>1, ConclusiveIsStarted DEF IInv, Types
  <2>2. \A sources : /\ Metadata(file, sources).found = found
                     /\ Metadata(file, sources).clamped => Shows("max_freq", 0)
    BY <1>1, <2>1, MetadataRead
  <2>3. ~CoverageErrors(file)
    BY <2>1 DEF Class, C2Status, C2Errors, C3Class, Complete, C3Errors
  <2>4. /\ Cardinality(Beats) >= 2
        /\ \A a, b \in Beats : Adjacent(Beats, a, b) => file[b].at - file[a].at <= MaxGap
    <3>1. Cardinality(Beats) \in Nat
      BY <1>1, Counts
    <3>2. ~(Cardinality(Beats) < 2)
      BY <2>3 DEF CoverageErrors, Beats
    <3>3. ASSUME NEW a \in Beats, NEW b \in Beats, Adjacent(Beats, a, b)
          PROVE  file[b].at - file[a].at <= MaxGap
      <4>1. file[a].at \in Nat /\ file[b].at \in Nat /\ MaxGap \in Nat
        BY <1>1, <3>3, BeatFacts, GapAssumption DEF GapAssumption
      <4>2. ~(file[b].at - file[a].at > MaxGap)
        BY <2>3, <3>3 DEF CoverageErrors, Beats
      <4> QED
        BY <4>1, <4>2
    <3> QED
      BY <3>1, <3>2, <3>3
  <2>5. ASSUME NEW s \in AnsweredFor, s \in Counters,
               NEW h \in Beats, NEW i \in Beats, NEW j \in Beats, h < i,
               file[i].at < episode.from, episode.from <= file[j].at
        PROVE  FALSE
    <3>1. s \in episode.seenBy /\ found[s] = "AVAILABLE" /\ ~Incomplete(file, s)
      BY <2>5 DEF AnsweredFor
    <3>2. tool = "c2"
      BY <2>1, <2>5, <3>1, SeenBySources DEF Counters
    <3>3. ~C2Event(file)
      BY <3>2 DEF Class, C2Status
    <3>4. Cardinality(Good(file, Of(file, s))) >= Cardinality(Beats)
      <4>1. /\ Good(file, Of(file, s)) = Of(file, s)
            /\ ~(Cardinality(Of(file, s)) < Cardinality(Beats))
        BY <3>1 DEF Incomplete, Beats
      <4>2. Cardinality(Of(file, s)) \in Nat /\ Cardinality(Beats) \in Nat
        BY <1>1, Counts
      <4> QED
        BY <4>1, <4>2
    <3>5. PICK k \in Sampled : Source(k) = s
      BY <2>1, <2>5, <3>1, <3>2, SampledSources DEF C2Sources, Counters
    <3>6. Cardinality(Reads(file, s)) > 1
      BY <1>1, <2>5, <3>1, <3>4, <3>5, CounterShows
    <3> QED
      BY <2>5, <3>3, <3>6 DEF C2Event, Counters
  <2>6. ASSUME NEW s \in AnsweredFor, s \notin Counters, NEW i \in Beats, NEW j \in Beats,
               file[i].at <= episode.from, episode.to <= file[j].at,
               episode.to - episode.from >= 2 * MaxGap
        PROVE  FALSE
    <3>0. /\ s \in episode.seenBy
          /\ s = "temperature" => found["trip_points"] = "AVAILABLE"
          /\ s = "max_freq" => found["max_freq"] = "AVAILABLE" /\ episode.from > 0
      BY <2>6 DEF AnsweredFor, Counters
    <3>1. ASSUME NEW k \in Sampled, Source(k) = s, ~Incomplete(file, s)
          PROVE  TRUE \in Reads(file, s)
      <4>1. Good(file, Of(file, Source(k))) = Of(file, Source(k))
        BY <3>1 DEF Incomplete
      <4> QED
        BY <1>1, <2>4, <2>6, <3>0, <3>1, <4>1, IntervalShows
    <3>2. CASE tool = "c2"
      <4>1. s = "cgroup"
        BY <2>1, <2>6, <3>0, <3>2, SeenBySources
      <4>2. ~C2Errors(file) /\ ~C2Event(file)
        BY <3>2 DEF Class, C2Status
      <4>3. found["cgroup"] = "AVAILABLE" /\ ~Incomplete(file, "cgroup")
        BY <2>2, <4>2 DEF C2Errors, C2Found
      <4>4. PICK k \in Sampled : Source(k) = "cgroup"
        BY <2>1, <3>2, <4>3, SampledSources DEF C2Sources
      <4>5. TRUE \in Reads(file, "cgroup")
        BY <3>1, <4>1, <4>3, <4>4
      <4> QED
        BY <4>2, <4>5 DEF C2Event
    <3>3. CASE tool = "c3"
      <4>1. ~C3Errors(file) /\ Complete(file) /\ ~C3Event(file)
        BY <3>3 DEF Class, C3Class, Complete
      <4>2. s \in {"temperature", "max_freq", "trial_cpu"}
        BY <2>1, <3>0, <3>3, SeenBySources
      <4>3. found["temperature"] = "AVAILABLE" /\ found["trial_cpu"] = "AVAILABLE"
        BY <2>2, <4>1 DEF Complete, C3Found
      <4>4. found[s] = "AVAILABLE"
        BY <3>0, <4>2, <4>3
      <4>5. TRUE \in Reads(file, s)
        <5>1. s \in Expected(file)
          BY <2>2, <4>2, <4>4 DEF Expected, C3Found, C3Sources
        <5>2. ~Incomplete(file, s)
          BY <4>1, <5>1 DEF C3Errors
        <5>3. PICK k \in Sampled : Source(k) = s
          BY <2>1, <3>3, <4>2, <4>4, SampledSources DEF C3Sources
        <5> QED
          BY <3>1, <5>2, <5>3
      <4>6. CASE s = "temperature"
        BY <2>2, <3>0, <4>1, <4>5, <4>6 DEF C3Event, C3Found
      <4>7. CASE s = "max_freq"
        <5>1. ~Shows("max_freq", 0)
          <6>1. episode.from \in Nat
            BY <1>1, TimeAssumption DEF IInv, Types, TimeAssumption
          <6>2. ~(episode.from <= 0)
            BY <3>0, <4>7, <6>1
          <6> QED
            BY <6>2 DEF Shows
        <5> QED
          BY <2>2, <3>0, <4>1, <4>5, <4>7, <5>1 DEF C3Event, C3Found
      <4>8. CASE s = "trial_cpu"
        BY <4>1, <4>5, <4>8 DEF C3Errors, OutOfStratum
      <4> QED
        BY <4>2, <4>6, <4>7, <4>8
    <3> QED
      BY <2>1, <3>2, <3>3
  <2> QED
    BY <2>4, <2>5, <2>6
<1> QED
  BY <1>1, ObsInvariance, PTL

\* A reading shows only what there has been.
LEMMA ShownIsReal ==
  ASSUME IInv, NEW s, s # "collector", TRUE \in Reads(file, s)
  PROVE  episode.kind # "none" /\ episode.from <= now
<1>1. PICK t \in 0..now : Shows(s, t)
  BY ReadsAreTrue
<1>2. now \in Nat /\ episode.from \in Nat /\ tool \in {"c2", "c3"}
  BY TimeAssumption DEF IInv, Types, TimeAssumption
<1>3. episode.from <= t /\ s \in episode.seenBy
  BY <1>1 DEF Shows
<1>4. episode.from <= now
  BY <1>1, <1>2, <1>3
<1>5. episode.kind # "none"
  BY <1>3, SeenBySources DEF IInv
<1> QED
  BY <1>4, <1>5

\* A boot time that outran the clock of the host is a slow heartbeat.
LEMMA OutranIsSlow ==
  ASSUME IInv, Outran(file)
  PROVE  \E i \in Beats : file[i].took > MaxGap
<1>1. PICK i \in Good(file, Beats), j \in Good(file, Beats) :
        /\ Adjacent(Good(file, Beats), i, j)
        /\ file[j].value - file[i].value > file[j].at - file[i].at + MaxGap
  BY DEF Outran, Beats
<1>2. /\ i \in Beats /\ j \in Beats /\ i < j
      /\ file[i].status = "AVAILABLE" /\ file[j].status = "AVAILABLE"
  BY <1>1 DEF Adjacent, Good
<1>3. /\ file[i].at \in Nat /\ file[j].at \in Nat /\ file[j].took \in Nat
      /\ file[i].value \in Nat /\ file[j].value \in Nat
      /\ file[i].at <= file[i].value
      /\ file[j].value <= file[j].at + file[j].took
  BY <1>2, BeatFacts DEF Beat
<1>4. MaxGap \in Nat
  BY GapAssumption DEF GapAssumption
<1>5. file[j].took > MaxGap
  BY <1>1, <1>3, <1>4
<1> QED
  BY <1>2, <1>5

\* "Present" is never made up (c2_obs_01_analyze.py:124-181, c3_obs_01_analyze.py:257-484).
THEOREM PresentIsPresent == Spec => []PresenceIsReal
<1>1. ASSUME IInv, Class = "PRESENT"
      PROVE  /\ \/ episode.kind # "none" /\ episode.from <= now
                \/ tool = "c2" /\ \E i \in Beats : file[i].took > MaxGap
             /\ tool = "c3" =>
                  /\ ident /\ C3Status(file) # "BLOCKED"
                  /\ \A i, j \in Beats : Adjacent(Beats, i, j) => file[j].at - file[i].at <= MaxGap
                  /\ \A i \in DOMAIN file : file[i].status = "AVAILABLE"
  <2>1. tool \in {"c2", "c3"} /\ Started
    BY <1>1, ConclusiveIsStarted DEF IInv, Types
  <2>2. \A sources : Metadata(file, sources).found = found /\ Metadata(file, sources).ident = ident
    BY <1>1, <2>1, MetadataRead
  <2>3. \A s \in C2Sources \cup C3Sources : s # "collector"
    BY <2>1, SampledSources
  <2>4. ASSUME tool = "c2"
        PROVE  (episode.kind # "none" /\ episode.from <= now) \/ \E i \in Beats : file[i].took > MaxGap
    <3>1. C2Event(file)
      BY <1>1, <2>4 DEF Class, C2Status
    <3>2. CASE TRUE \in Reads(file, "cgroup")
      BY <1>1, <2>3, <3>2, ShownIsReal DEF C2Sources
    <3>3. ASSUME NEW c \in {"suspend_success", "wakeup_count"}, Cardinality(Reads(file, c)) > 1
          PROVE  TRUE \in Reads(file, c)
      <4> SUFFICES ASSUME TRUE \notin Reads(file, c) PROVE FALSE
        OBVIOUS
      <4>1. Reads(file, c) \in SUBSET BOOLEAN
        BY <1>1, <2>3, ReadsAreTrue DEF C2Sources
      <4>2. Reads(file, c) \in SUBSET {FALSE}
        BY <4>1
      <4>3. IsFiniteSet({FALSE}) /\ Cardinality({FALSE}) = 1
        BY Singleton
      <4>4. Cardinality(Reads(file, c)) \in Nat /\ Cardinality(Reads(file, c)) <= 1
        BY <4>2, <4>3, FS_Subset, FS_CardinalityType
      <4> QED
        BY <3>3, <4>4
    <3>4. CASE \E c \in {"suspend_success", "wakeup_count"} : Cardinality(Reads(file, c)) > 1
      <4>1. PICK c \in {"suspend_success", "wakeup_count"} : TRUE \in Reads(file, c)
        BY <3>3, <3>4
      <4> QED
        BY <1>1, <2>3, <2>4, <4>1, ShownIsReal DEF C2Sources
    <3>5. CASE Outran(file)
      BY <1>1, <3>5, OutranIsSlow
    <3> QED
      BY <2>4, <3>1, <3>2, <3>4, <3>5 DEF C2Event
  <2>5. ASSUME tool = "c3"
        PROVE  /\ episode.kind # "none" /\ episode.from <= now
               /\ ident /\ C3Status(file) # "BLOCKED"
               /\ \A i, j \in Beats : Adjacent(Beats, i, j) => file[j].at - file[i].at <= MaxGap
               /\ \A i \in DOMAIN file : file[i].status = "AVAILABLE"
    <3>1. ~C3Errors(file) /\ C3Event(file)
      BY <1>1, <2>5 DEF Class, C3Class
    <3>2. episode.kind # "none" /\ episode.from <= now
      <4>1. PICK s \in C3Sources : TRUE \in Reads(file, s)
        BY <3>1 DEF C3Event, OutOfStratum, C3Sources
      <4> QED
        BY <1>1, <2>3, <4>1, ShownIsReal
    <3>3. ident /\ C3Status(file) # "BLOCKED"
      BY <2>2, <3>1 DEF C3Errors, C3Status
    <3>4. ~CoverageErrors(file)
      BY <3>1 DEF C3Errors
    <3>5. ASSUME NEW i \in Beats, NEW j \in Beats, Adjacent(Beats, i, j)
          PROVE  file[j].at - file[i].at <= MaxGap
      <4>1. file[i].at \in Nat /\ file[j].at \in Nat /\ MaxGap \in Nat
        BY <1>1, <3>5, BeatFacts, GapAssumption DEF GapAssumption
      <4>2. ~(file[j].at - file[i].at > MaxGap)
        BY <3>4, <3>5 DEF CoverageErrors, Beats
      <4> QED
        BY <4>1, <4>2
    <3>6. ASSUME NEW i \in DOMAIN file PROVE file[i].status = "AVAILABLE"
      <4>0. i \in Nat /\ (i = 1 \/ i > 1)
        BY <1>1, DomainAny DEF IInv, Types
      <4>1. CASE i = 1
        BY <1>1, <2>1, <4>1 DEF IInv, Heading, Started
      <4>2. CASE Beat(i)
        <5>1. i \in Beats
          BY <4>2 DEF Beat, IsBeat, Beats, Heartbeats, Measured
        <5>2. Good(file, Beats) = Beats
          BY <3>4 DEF CoverageErrors, Beats
        <5> QED
          BY <5>1, <5>2 DEF Good
      <4>3. CASE Read(i)
        <5>1. PICK k \in Sampled : file[i].source = Source(k)
          BY <4>3 DEF Read
        <5>2. /\ Source(k) \in C3Sources \ {"trip_points"}
              /\ found[Source(k)] = "AVAILABLE"
          BY <2>1, <2>5, SampledSources
        <5>3. Source(k) \in Expected(file)
          BY <2>2, <5>2 DEF Expected, C3Found
        <5>4. ~Incomplete(file, Source(k))
          BY <3>1, <5>3 DEF C3Errors
        <5>5. i \in Of(file, Source(k))
          BY <5>1 DEF Of
        <5> QED
          BY <5>4, <5>5 DEF Incomplete, Good
      <4> QED
        BY <1>1, <4>0, <4>1, <4>2, <4>3 DEF IInv, Lines
    <3> QED
      BY <3>2, <3>3, <3>5, <3>6
  <2> QED
    BY <2>1, <2>4, <2>5, Zenon
<1>2. IInv => PresenceIsReal
  BY <1>1 DEF PresenceIsReal
<1> QED
  BY <1>2, ObsInvariance, PTL

(***************************************************************************)
(* A campaign (CampaignVerdict).                                           *)
(***************************************************************************)
\* A part of a finite set is finite and no larger (FS_Subset).
LEMMA SmallerPart ==
  ASSUME NEW S, IsFiniteSet(S), NEW T \in SUBSET S
  PROVE  /\ IsFiniteSet(T)
         /\ Cardinality(T) \in Nat /\ Cardinality(S) \in Nat
         /\ Cardinality(T) <= Cardinality(S)
BY FS_Subset, FS_CardinalityType

\* Fewer records are of fewer boots, and of finitely many.
LEMMA FewerBoots ==
  ASSUME NEW S, IsFiniteSet(S), NEW T \in SUBSET S
  PROVE  /\ Cardinality(BootsSeen(T)) \in Nat /\ Cardinality(BootsSeen(S)) \in Nat
         /\ Cardinality(BootsSeen(T)) <= Cardinality(BootsSeen(S))
<1> DEFINE f == [t \in S |-> t.boot]
<1>1. f \in Surjection(S, BootsSeen(S))
  BY DEF BootsSeen, Surjection
<1>2. IsFiniteSet(BootsSeen(S))
  BY <1>1, FS_Surjection
<1>3. BootsSeen(T) \in SUBSET BootsSeen(S)
  BY DEF BootsSeen
<1> QED
  BY <1>2, <1>3, SmallerPart

-----------------------------------------------------------------------------
\* Every step adds at most one record, and one that passed validation.
THEOREM AcceptedInvariant == CampaignSpec => []OnlyAccepted
<1>1. CampaignInit => OnlyAccepted
  BY FS_EmptySet DEF CampaignInit, OnlyAccepted
<1>2. OnlyAccepted /\ [CampaignNext]_campaign => OnlyAccepted'
  <2> SUFFICES ASSUME OnlyAccepted, [CampaignNext]_campaign PROVE OnlyAccepted'
    OBVIOUS
  <2>1. ASSUME NEW b \in Boots, NEW c \in Conditions, NEW o \in Outcomes, File(b, c, o)
        PROVE  OnlyAccepted'
    <3> DEFINE r == [boot |-> b, condition |-> c, outcome |-> o,
                     serial |-> Cardinality(Alike(b, c, o))]
    <3>1. CASE ValidRecord(Recorded[o])
      <4>1. trials' = trials \cup {r}
        BY <2>1, <3>1 DEF File
      <4>2. IsFiniteSet(trials')
        BY <4>1, FS_AddElement DEF OnlyAccepted
      <4>3. \A t \in trials' : ValidRecord(Recorded[t.outcome])
        BY <3>1, <4>1 DEF OnlyAccepted
      <4> QED
        BY <4>2, <4>3 DEF OnlyAccepted
    <3>2. CASE ~ValidRecord(Recorded[o])
      BY <2>1, <3>2 DEF File, OnlyAccepted
    <3> QED
      BY <3>1, <3>2
  <2>2. CASE FileAgain
    BY <2>2 DEF FileAgain, OnlyAccepted
  <2>3. CASE UNCHANGED campaign
    BY <2>3 DEF campaign, OnlyAccepted
  <2> QED
    BY <2>1, <2>2, <2>3 DEF CampaignNext
<1> QED
  BY <1>1, <1>2, PTL DEF CampaignSpec

-----------------------------------------------------------------------------
\* The caps and the threshold count records, so more records cannot undo them.
LEMMA CapsMonotone ==
  ASSUME NEW S, IsFiniteSet(S), NEW T \in SUBSET S, CapsExceeded(T)
  PROVE  CapsExceeded(S)
<1>1. InvalidTrials(T) \in SUBSET InvalidTrials(S) /\ IsFiniteSet(InvalidTrials(S))
  BY SmallerPart DEF InvalidTrials
<1>2. /\ Cardinality(InvalidTrials(T)) \in Nat /\ Cardinality(InvalidTrials(S)) \in Nat
      /\ Cardinality(InvalidTrials(T)) <= Cardinality(InvalidTrials(S))
  BY <1>1, SmallerPart
<1>3. ASSUME NEW b \in Boots, Cardinality({t \in InvalidTrials(T) : t.boot = b}) > 1
      PROVE  Cardinality({t \in InvalidTrials(S) : t.boot = b}) > 1
  <2> DEFINE A == {t \in InvalidTrials(T) : t.boot = b}
             B == {t \in InvalidTrials(S) : t.boot = b}
  <2>1. A \in SUBSET B /\ B \in SUBSET InvalidTrials(S)
    BY <1>1
  <2>2. IsFiniteSet(B)
    BY <2>1, <1>1, SmallerPart
  <2>3. Cardinality(A) \in Nat /\ Cardinality(B) \in Nat /\ Cardinality(A) <= Cardinality(B)
    BY <2>1, <2>2, SmallerPart
  <2> QED
    BY <1>3, <2>3
<1>4. CASE \E b \in Boots : Cardinality({t \in InvalidTrials(T) : t.boot = b}) > 1
  BY <1>3, <1>4 DEF CapsExceeded
<1>5. CASE Cardinality(InvalidTrials(T)) > 2
  <2>1. Cardinality(InvalidTrials(S)) > 2
    BY <1>2, <1>5
  <2> QED
    BY <2>1 DEF CapsExceeded
<1> QED
  BY <1>4, <1>5 DEF CapsExceeded

LEMMA FalsifiedMonotone ==
  ASSUME NEW S, IsFiniteSet(S), NEW T \in SUBSET S, Falsified(T)
  PROVE  Falsified(S)
<1> DEFINE Late(R, c) == {t \in Timeouts(R) : t.condition = c}
<1>1. PICK c \in Conditions :
        Cardinality(Late(T, c)) >= 3 /\ Cardinality(BootsSeen(Late(T, c))) >= 2
  BY DEF Falsified
<1>2. Late(T, c) \in SUBSET Late(S, c) /\ Late(S, c) \in SUBSET S
  BY DEF Timeouts, ValidTrials
<1>3. IsFiniteSet(Late(S, c))
  BY <1>2, SmallerPart
<1>4. /\ Cardinality(Late(T, c)) \in Nat /\ Cardinality(Late(S, c)) \in Nat
      /\ Cardinality(Late(T, c)) <= Cardinality(Late(S, c))
  BY <1>2, <1>3, SmallerPart
<1>5. /\ Cardinality(BootsSeen(Late(T, c))) \in Nat
      /\ Cardinality(BootsSeen(Late(S, c))) \in Nat
      /\ Cardinality(BootsSeen(Late(T, c))) <= Cardinality(BootsSeen(Late(S, c)))
  BY <1>2, <1>3, FewerBoots
<1>6. Cardinality(Late(S, c)) >= 3 /\ Cardinality(BootsSeen(Late(S, c))) >= 2
  BY <1>1, <1>4, <1>5
<1> QED
  BY <1>6 DEF Falsified

\* A step only adds records, and never takes the flag back.
LEMMA StepsOnlyAdd ==
  ASSUME [CampaignNext]_campaign
  PROVE  trials \in SUBSET trials' /\ (refused => refused')
BY DEF CampaignNext, File, FileAgain, campaign

\* The verdicts that settle a campaign are never revised, whatever is filed
\* after them.
THEOREM SettledForGood == CampaignSpec => FatalIsFinal
<1>1. ASSUME OnlyAccepted, OnlyAccepted', [CampaignNext]_campaign
      PROVE  (Verdict \in {"INCOMPATIBLE", "INVALID_EXPERIMENT"})
               => Verdict' \in {Verdict, "INVALID_EXPERIMENT"}
  <2>1. IsFiniteSet(trials') /\ trials \in SUBSET trials' /\ (refused => refused')
    BY <1>1, StepsOnlyAdd DEF OnlyAccepted
  <2>2. CapsExceeded(trials) => CapsExceeded(trials')
    BY <2>1, CapsMonotone
  <2>3. Falsified(trials) => Falsified(trials')
    BY <2>1, FalsifiedMonotone
  <2>4. Verdict' = VerdictOf(trials', refused')
    BY DEF Verdict
  <2> QED
    BY <2>1, <2>2, <2>3, <2>4 DEF Verdict, VerdictOf
<1>2. OnlyAccepted /\ OnlyAccepted' /\ [CampaignNext]_campaign
        => [(Verdict \in {"INCOMPATIBLE", "INVALID_EXPERIMENT"})
              => Verdict' \in {Verdict, "INVALID_EXPERIMENT"}]_campaign
  BY <1>1
<1> QED
  BY <1>2, AcceptedInvariant, PTL DEF CampaignSpec, FatalIsFinal

-----------------------------------------------------------------------------
\* A compatible verdict rests on two undisturbed completions in every cell, and
\* beside them on completions alone.
THEOREM CompatibleByTrials == CampaignSpec => []CompatibleIsEarned
<1>1. OnlyAccepted => CompatibleIsEarned
  <2> SUFFICES ASSUME OnlyAccepted, Verdict = "COMPATIBLE" PROVE CompatibleIsEarned
    BY DEF CompatibleIsEarned
  <2>1. EnoughTrials(trials) /\ Unanimous(trials)
    BY DEF Verdict, VerdictOf
  <2>2. ASSUME NEW t \in ValidTrials(trials)
        PROVE  /\ t \in trials
               /\ Recorded[t.outcome].terminal = "QUALIFYING_COMPLETION"
               /\ Recorded[t.outcome].seconds <= 2195
               /\ {Recorded[t.outcome].c1, Recorded[t.outcome].c2}
                    \cap {"PRESENT", "UNKNOWN"} = {}
    BY <2>1, <2>2 DEF OnlyAccepted, Unanimous, ValidTrials, ValidRecord, VoteAllowed, Confounded
  <2>3. ASSUME NEW b \in BootsSeen(trials), NEW c \in Conditions
        PROVE  \E T \in SUBSET Cell(trials, b, c) :
                 /\ Cardinality(T) >= 2
                 /\ \A t \in T : /\ Recorded[t.outcome].terminal = "QUALIFYING_COMPLETION"
                                 /\ Recorded[t.outcome].seconds <= 2195
                                 /\ {Recorded[t.outcome].c1, Recorded[t.outcome].c2}
                                      \cap {"PRESENT", "UNKNOWN"} = {}
    <3> DEFINE U == Cell(ValidTrials(trials), b, c)
    <3>1. U \in SUBSET Cell(trials, b, c) /\ U \in SUBSET ValidTrials(trials)
      BY DEF Cell, ValidTrials
    <3>2. Cardinality(U) >= 2
      BY <2>1 DEF EnoughTrials
    <3> QED
      BY <3>1, <3>2, <2>2
  <2>4. Cardinality(BootsSeen(trials)) >= 3
    BY <2>1 DEF EnoughTrials
  <2>5. \A t \in trials : Recorded[t.outcome].validity = "VALID" =>
          Recorded[t.outcome].terminal = "QUALIFYING_COMPLETION" /\ Recorded[t.outcome].seconds <= 2195
    BY <2>2 DEF ValidTrials
  <2> QED
    BY <2>3, <2>4, <2>5 DEF CompatibleIsEarned
<1> QED
  BY <1>1, AcceptedInvariant, PTL
==============================================================================
