---------------------------- MODULE DualClockProofs ----------------------------
(***************************************************************************)
(* For all clocks, delays, suspends and events on the device: the host     *)
(* script never takes the result of an earlier trial for that of its own,  *)
(* nor concludes anything from a result that was not complete.             *)
(*                                                                         *)
(* The arithmetic of the verdict is not looked into: what a conclusion     *)
(* needs of the file is that it ends with the end record, and what the     *)
(* observer does is that it writes nothing after it.                       *)
(***************************************************************************)
EXTENDS DualClockTrial, SequenceTheorems, FiniteSetTheorems, NaturalsInduction,
        WellFoundedInduction, TLAPS

\* From the launch on what is on the result path is the observer's, if anything.
OwnResult ==
  /\ hpc \in {"alive", "pull"} => remote \in {"none", "mine"}
  /\ NoStaleEvidence

LEMMA InitOwn == Init => OwnResult
BY DEF Init, OwnResult, NoStaleEvidence

LEMMA StepOwn == OwnResult /\ [Next]_vars => OwnResult'
<1> SUFFICES ASSUME OwnResult, [Next]_vars PROVE OwnResult'
  OBVIOUS
<1> USE DEF OwnResult, NoStaleEvidence
<1>1. CASE Launch
  BY <1>1 DEF Launch
<1>2. CASE CheckAlive
  BY <1>2 DEF CheckAlive
<1>3. CASE Pull
  <2>1. hpc = "pull" /\ remote # "stale"
    BY <1>3 DEF Pull
  <2>2. hpc' = "exit" \/ (hpc' = "ok" /\ pulled'.whose = "mine")
    BY <1>3, <2>1 DEF Pull
  <2> QED
    BY <2>2
<1>4. CASE Observing
  BY <1>4 DEF Observing
<1>5. CASE Around
  BY <1>5 DEF Around, hostVars
<1>6. CASE UNCHANGED vars
  BY <1>6 DEF vars, hostVars
<1> QED
  BY <1>1, <1>2, <1>3, <1>4, <1>5, <1>6 DEF Next, Over, NeverLaunched

\* Also if the new observer fails to start, or is pulled before its first record,
\* the evidence is of this trial (run_c2_dual_clock_adb.sh:73).
THEOREM EvidenceIsOwn == Spec => []NoStaleEvidence
<1>1. OwnResult => NoStaleEvidence
  BY DEF OwnResult
<1> QED
  BY <1>1, InitOwn, StepOwn, PTL DEF Spec

-----------------------------------------------------------------------------
\* A sequence, of whatever elements.
IsSeq(s) == \E S : s \in Seq(S)

LEMMA SeqWiden ==
  ASSUME NEW S, NEW T, S \subseteq T, NEW s \in Seq(S)
  PROVE  s \in Seq(T)
<1>1. Len(s) \in Nat /\ s \in [1..Len(s) -> S]
  BY LenProperties
<1>2. s \in [1..Len(s) -> T]
  BY <1>1
<1> QED
  BY <1>1, <1>2

LEMMA AppendAny ==
  ASSUME NEW s, IsSeq(s), NEW e
  PROVE  /\ IsSeq(Append(s, e)) /\ Len(s) \in Nat
         /\ Len(Append(s, e)) = Len(s) + 1
         /\ \A i \in 1..Len(s) : Append(s, e)[i] = s[i]
         /\ Append(s, e)[Len(s) + 1] = e
<1>1. PICK S : s \in Seq(S)
  BY DEF IsSeq
<1>2. s \in Seq(S \cup {e})
  BY <1>1, SeqWiden
<1>3. /\ Append(s, e) \in Seq(S \cup {e})
      /\ Len(Append(s, e)) = Len(s) + 1
      /\ \A i \in 1..Len(s) : Append(s, e)[i] = s[i]
      /\ Append(s, e)[Len(s) + 1] = e
  BY <1>2, AppendProperties
<1> QED
  BY <1>2, <1>3, LenProperties DEF IsSeq

LEMMA PrefixAny ==
  ASSUME NEW s, IsSeq(s), NEW n \in 0..Len(s)
  PROVE  /\ IsSeq(SubSeq(s, 1, n)) /\ Len(SubSeq(s, 1, n)) = n
         /\ \A i \in 1..n : SubSeq(s, 1, n)[i] = s[i]
<1>1. PICK S : s \in Seq(S)
  BY DEF IsSeq
<1>2. Len(s) \in Nat /\ \A i \in 1..n : s[i] \in S
  BY <1>1, LenProperties
<1>3. /\ SubSeq(s, 1, n) \in Seq(S)
      /\ Len(SubSeq(s, 1, n)) = IF 1 <= n THEN n - 1 + 1 ELSE 0
      /\ \A i \in 1..n - 1 + 1 : SubSeq(s, 1, n)[i] = s[1 + i - 1]
  BY <1>2, SubSeqProperties
<1> QED
  BY <1>2, <1>3 DEF IsSeq

LEMMA SameSeq ==
  ASSUME NEW s, NEW t, IsSeq(s), IsSeq(t), Len(s) = Len(t),
         \A i \in 1..Len(s) : s[i] = t[i]
  PROVE  s = t
<1>1. PICK S : s \in Seq(S)
  BY DEF IsSeq
<1>2. PICK T : t \in Seq(T)
  BY DEF IsSeq
<1>3. s \in Seq(S \cup T) /\ t \in Seq(S \cup T)
  BY <1>1, <1>2, SeqWiden
<1> QED
  BY <1>3, SeqEqual

-----------------------------------------------------------------------------
\* Nothing comes after the end record, and what was pulled is how the file began.
EndIsLast ==
  /\ IsSeq(out)
  /\ \A i \in 1..Len(out) :
       out[i].kind = "end" => i = Len(out) /\ opc \in {"close", "done", "failed"}
PulledBefore ==
  hpc = "ok" /\ pulled.whose = "mine" =>
    /\ IsSeq(pulled.recs) /\ Len(pulled.recs) \in Nat /\ Len(pulled.recs) <= Len(out)
    /\ \A i \in 1..Len(pulled.recs) : pulled.recs[i] = out[i]
FileInv == EndIsLast /\ PulledBefore

LEMMA InitFile == Init => FileInv
<1> SUFFICES ASSUME Init PROVE FileInv
  OBVIOUS
<1>1. out = <<>> /\ hpc = "launch"
  BY DEF Init, InitObserver
<1>2. <<>> \in Seq({}) /\ Len(<<>>) = 0
  BY EmptySeq
<1> QED
  BY <1>1, <1>2 DEF FileInv, EndIsLast, PulledBefore, IsSeq

\* What the observer does to its file: nothing, or another record; the end
\* record is the last step but one.
LEMMA ObserverWrites ==
  ASSUME Observe
  PROVE  \/ /\ out' = out
            /\ opc \in {"close", "done", "failed"} => opc' \in {"close", "done", "failed"}
         \/ \E r : /\ out' = Append(out, r) /\ opc \notin {"close", "done", "failed"}
                   /\ r.kind = "end" => opc' = "close"
<1> USE DEF fileVars
<1>1. CASE Emit
  BY <1>1 DEF Emit, Record
<1>2. CASE ReadBefore \/ ReadBoottime \/ ReadAfter
  BY <1>2 DEF ReadBefore, ReadBoottime, ReadAfter
<1>3. CASE BindPath \/ BindStarttime
  BY <1>3 DEF BindPath, BindStarttime
<1>4. CASE ReadStarttime \/ ReadPath \/ ReadEvents
  BY <1>4 DEF ReadStarttime, ReadPath, ReadEvents
<1>5. CASE Sleep \/ Close \/ Fail
  BY <1>5 DEF Sleep, Close, Fail
<1> QED
  BY <1>1, <1>2, <1>3, <1>4, <1>5 DEF Observe

LEMMA StepFile == FileInv /\ [Next]_vars => FileInv'
<1> SUFFICES ASSUME FileInv, [Next]_vars PROVE FileInv'
  OBVIOUS
<1>1. CASE Observing
  <2>1. Observe /\ UNCHANGED <<hpc, pulled>>
    BY <1>1 DEF Observing
  <2>2. CASE out' = out /\ (opc \in {"close", "done", "failed"} => opc' \in {"close", "done", "failed"})
    BY <2>1, <2>2 DEF FileInv, EndIsLast, PulledBefore
  <2>3. ASSUME NEW r, out' = Append(out, r), opc \notin {"close", "done", "failed"},
               r.kind = "end" => opc' = "close"
        PROVE  FileInv'
    <3>1. /\ IsSeq(out') /\ Len(out) \in Nat /\ Len(out') = Len(out) + 1
          /\ \A i \in 1..Len(out) : out'[i] = out[i]
          /\ out'[Len(out) + 1] = r
      BY <2>3, AppendAny DEF FileInv, EndIsLast
    <3>2. \A i \in 1..Len(out) : out[i].kind # "end"
      BY <2>3 DEF FileInv, EndIsLast
    <3>3. EndIsLast'
      <4> SUFFICES ASSUME NEW i \in 1..Len(out'), out'[i].kind = "end"
                   PROVE  i = Len(out') /\ opc' \in {"close", "done", "failed"}
        BY <3>1 DEF EndIsLast
      <4>1. i = Len(out) + 1
        BY <3>1, <3>2
      <4> QED
        BY <2>3, <3>1, <4>1
    <3>4. PulledBefore'
      BY <2>1, <3>1 DEF FileInv, PulledBefore
    <3> QED
      BY <3>3, <3>4 DEF FileInv
  <2> QED
    BY <2>1, <2>2, <2>3, ObserverWrites
<1>2. CASE Pull
  <2>1. UNCHANGED <<out, opc>>
    BY <1>2 DEF Pull, observerVars, fileVars
  <2>2. EndIsLast'
    BY <2>1 DEF FileInv, EndIsLast
  <2>3. CASE hpc' = "ok" /\ pulled'.whose = "mine"
    <3>1. \/ pulled'.recs = out
          \/ \E n \in 0..Len(out) : pulled'.recs = SubSeq(out, 1, n)
      BY <1>2, <2>3 DEF Pull
    <3>2. IsSeq(out) /\ Len(out) \in Nat
      BY AppendAny DEF FileInv, EndIsLast
    <3>3. CASE pulled'.recs = out
      BY <2>1, <2>2, <3>2, <3>3 DEF FileInv, PulledBefore
    <3>4. CASE \E n \in 0..Len(out) : pulled'.recs = SubSeq(out, 1, n)
      <4>1. PICK n \in 0..Len(out) : pulled'.recs = SubSeq(out, 1, n)
        BY <3>4
      <4>2. /\ IsSeq(pulled'.recs) /\ Len(pulled'.recs) = n
            /\ \A i \in 1..n : pulled'.recs[i] = out[i]
        BY <3>2, <4>1, PrefixAny
      <4> QED
        BY <2>1, <2>2, <3>2, <4>2 DEF FileInv, PulledBefore
    <3> QED
      BY <3>1, <3>3, <3>4
  <2> QED
    BY <2>2, <2>3 DEF FileInv, PulledBefore
<1>3. CASE Launch \/ CheckAlive
  BY <1>3 DEF Launch, CheckAlive, observerVars, fileVars, FileInv, EndIsLast, PulledBefore
<1>4. CASE Around
  <2>1. UNCHANGED <<out, opc, hpc, pulled>>
    BY <1>4 DEF Around, hostVars, Device, FreezeOrThaw, Exits, Reaped, Reused, Moves,
       ObserverUnchanged, fileVars
  <2> QED
    BY <2>1 DEF FileInv, EndIsLast, PulledBefore
<1>5. CASE UNCHANGED vars
  BY <1>5 DEF vars, hostVars, observerVars, fileVars, FileInv, EndIsLast, PulledBefore
<1> QED
  BY <1>1, <1>2, <1>3, <1>4, <1>5 DEF Next, Over, NeverLaunched

\* Whenever the file is pulled, what comes to the analyzer is how it will always
\* begin, and the end record ends it (c2_dual_clock_observer.c writes it last).
THEOREM FileInvariance == Spec => []FileInv
BY InitFile, StepFile, PTL DEF Spec

\* A file that looks whole is.
LEMMA WholeFile ==
  ASSUME FileInv, Judged, Structured(pulled.recs)
  PROVE  /\ pulled.recs = out /\ IsSeq(out) /\ Len(out) \in Nat /\ Len(out) >= 1
         /\ out[Len(out)].kind = "end"
<1> DEFINE k == Len(pulled.recs)
<1>1. /\ IsSeq(pulled.recs) /\ IsSeq(out) /\ k \in Nat /\ k <= Len(out)
      /\ \A i \in 1..k : pulled.recs[i] = out[i]
  BY DEF Judged, FileInv, EndIsLast, PulledBefore
<1>2. Len(out) \in Nat
  BY <1>1, AppendAny
<1>3. pulled.recs # <<>> /\ pulled.recs[k].kind = "end"
  BY DEF Structured, Last
<1>4. k >= 1
  <2>1. k # 0
    <3> SUFFICES ASSUME k = 0 PROVE FALSE
      OBVIOUS
    <3>1. IsSeq(<<>>) /\ Len(<<>>) = 0
      BY EmptySeq DEF IsSeq
    <3>2. pulled.recs = <<>>
      BY <1>1, <3>1, SameSeq
    <3> QED
      BY <1>3, <3>2
  <2> QED
    BY <1>1, <2>1
<1>5. out[k].kind = "end" /\ k = Len(out)
  BY <1>1, <1>2, <1>3, <1>4 DEF FileInv, EndIsLast
<1>6. pulled.recs = out
  BY <1>1, <1>5, SameSeq
<1> QED
  BY <1>1, <1>2, <1>4, <1>5, <1>6

LEMMA ConclusiveIsWhole ==
  ASSUME FileInv, Judged, Status \in Conclusive
  PROVE  /\ pulled.recs = out /\ IsSeq(out) /\ Len(out) \in Nat /\ Len(out) >= 1
         /\ out[Len(out)].kind = "end" /\ out[1].kind = "metadata" /\ Watched(out)
<1>1. Structured(pulled.recs) /\ Watched(pulled.recs)
  BY DEF Status, Verdict, Conclusive, Covered
<1>2. pulled.recs[1].kind = "metadata"
  BY <1>1 DEF Structured
<1> QED
  BY <1>1, <1>2, WholeFile

\* However early the pull, and however long the device slept or the observer was
\* held up, a conclusion rests on the whole file.
THEOREM ConclusionsRestOnAll == Spec => []ConclusiveIsComplete
<1>1. ASSUME FileInv PROVE ConclusiveIsComplete
  BY <1>1, ConclusiveIsWhole DEF ConclusiveIsComplete, Last
<1> QED
  BY <1>1, FileInvariance, PTL

-----------------------------------------------------------------------------
(***************************************************************************)
(* The bound process.                                                      *)
(***************************************************************************)
\* The binding is made with the first record, or not at all.
Unmade ==
  \/ opc \in {"bindpath", "bindstart"}
  \/ phase = "metadata" /\ opc \in {"before", "boottime", "after"}
BoundOnce ==
  /\ bind = [status |-> bind.status, path |-> bind.path, starttime |-> bind.starttime]
  /\ opc = "sleep" => phase # "metadata"
  /\ Unmade => bind.status = "AVAILABLE" /\ bind.starttime = 0
  /\ bind.starttime # 0 => bind.status = "AVAILABLE"

\* Start times never go back: the bound process does not come back, unless as one
\* that started in the same tick.
NeverAgain ==
  /\ started \in Nat \ {0} /\ bind.starttime \in 0..started /\ twin \in BOOLEAN
  /\ gone # Null => bind.starttime # 0
  /\ gone # Null /\ ~twin => holder = "nobody" \/ started # bind.starttime

\* The record that was being prepared when it was reaped may say that all is well;
\* none after it does.
NothingAfterExit ==
  gone # Null /\ ~twin =>
    /\ gone \in Nat /\ gone <= Len(out)
    /\ gone < Len(out) =>
         /\ opc \notin {"path", "events"}
         /\ opc = "emit" => cg.status # "AVAILABLE"
    /\ \A i \in 1..Len(out) : gone + 2 <= i => out[i].status # "AVAILABLE"

ExitInv == IsSeq(out) /\ BoundOnce /\ NeverAgain /\ NothingAfterExit

LEMMA InitExit == Init => ExitInv
<1> SUFFICES ASSUME Init PROVE ExitInv
  OBVIOUS
<1> USE DEF Init, InitObserver
<1>1. IsSeq(out)
  BY EmptySeq DEF IsSeq
<1>2. BoundOnce
  BY DEF BoundOnce, Unmade
<1>3. NeverAgain
  <2>1. started = 1 /\ bind.starttime = 0 /\ gone = Null
    OBVIOUS
  <2>2. twin \in BOOLEAN
    OBVIOUS
  <2> QED
    BY <2>1, <2>2 DEF NeverAgain
<1>4. NothingAfterExit
  BY DEF NothingAfterExit
<1> QED
  BY <1>1, <1>2, <1>3, <1>4 DEF ExitInv

LEMMA DeviceExit == ExitInv /\ Device => ExitInv'
<1> SUFFICES ASSUME ExitInv, Device PROVE ExitInv'
  OBVIOUS
<1>1. UNCHANGED <<opc, phase, bind, cg, out>>
  BY DEF Device, FreezeOrThaw, Exits, Reaped, Reused, Moves, Happens, ObserverUnchanged, fileVars
<1>2. IsSeq(out') /\ Len(out) \in Nat
  BY <1>1, AppendAny DEF ExitInv
<1>3. BoundOnce'
  BY <1>1 DEF ExitInv, BoundOnce, Unmade
<1>4. /\ NeverAgain'
      /\ gone' = gone \/ (gone' = Len(out))
      /\ twin => twin'
  <2>1. CASE FreezeOrThaw \/ Moves \/ Exits
    BY <1>1, <2>1 DEF ExitInv, NeverAgain, FreezeOrThaw, Moves, Exits
  <2>2. CASE Reused
    <3>1. started \in Nat \ {0} /\ bind.starttime \in 0..started
      BY DEF ExitInv, NeverAgain
    <3>2. started' \in {started, started + 1} /\ gone' = gone /\ bind' = bind
      BY <1>1, <2>2 DEF Reused
    <3>3. /\ twin' \in BOOLEAN /\ (twin => twin')
          /\ gone # Null /\ ~twin' => started' # bind.starttime
      BY <2>2 DEF Reused
    <3>4. started' \in Nat \ {0} /\ bind'.starttime \in 0..started'
      BY <3>1, <3>2
    <3> QED
      BY <3>2, <3>3, <3>4 DEF ExitInv, NeverAgain
  <2>3. CASE Reaped
    BY <1>1, <2>3 DEF ExitInv, NeverAgain, Reaped
  <2> QED
    BY <2>1, <2>2, <2>3 DEF Device
<1>5. NothingAfterExit'
  <2>1. CASE gone' = gone
    BY <1>1, <1>4, <2>1 DEF ExitInv, NothingAfterExit
  <2>2. CASE gone' = Len(out)
    <3> SUFFICES ASSUME NEW i \in 1..Len(out'), gone' + 2 <= i PROVE FALSE
      BY <1>1, <1>2, <2>2 DEF NothingAfterExit
    <3> QED
      BY <1>1, <1>2, <2>2
  <2> QED
    BY <1>4, <2>1, <2>2
<1> QED
  BY <1>2, <1>3, <1>4, <1>5 DEF ExitInv

LEMMA ObserveExit == ExitInv /\ Observe => ExitInv'
<1> SUFFICES ASSUME ExitInv, Observe PROVE ExitInv'
  OBVIOUS
<1>0. /\ UNCHANGED <<holder, started, gone, twin>>
      /\ IsSeq(out) /\ Len(out) \in Nat
  BY AppendAny DEF ExitInv, Observe, ReadBefore, ReadBoottime, ReadAfter, BindPath, BindStarttime,
     ReadStarttime, ReadPath, ReadEvents, Emit, Sleep, Close, Fail, deviceVars
<1>1. CASE Emit
  <2>0. /\ opc = "emit" /\ opc' \in {"sleep", "before", "close"} /\ UNCHANGED <<bind, cg>>
        /\ \E read \in BOOLEAN : out' = Append(out, Record(read))
    BY <1>1 DEF Emit
  <2>00. PICK read \in BOOLEAN : out' = Append(out, Record(read))
    BY <2>0
  <2> DEFINE r == Record(read)
  <2>1. /\ opc = "emit" /\ out' = Append(out, r)
        /\ UNCHANGED <<bind, cg, holder, started, gone, twin>>
        /\ opc' \in {"sleep", "before", "close"}
    BY <1>0, <2>0, <2>00
  <2>2. r.status = cg.status
    BY DEF Record
  <2> HIDE DEF r
  <2>3. /\ IsSeq(out') /\ Len(out') = Len(out) + 1
        /\ \A i \in 1..Len(out) : out'[i] = out[i]
        /\ out'[Len(out) + 1] = r
    BY <1>0, <2>1, AppendAny
  <2>4. BoundOnce'
    BY <1>1, <2>1 DEF Emit, ExitInv, BoundOnce, Unmade
  <2>5. NeverAgain'
    BY <2>1 DEF ExitInv, NeverAgain
  <2>6. NothingAfterExit'
    <3> SUFFICES ASSUME gone' # Null, ~twin' PROVE NothingAfterExit'
      BY DEF NothingAfterExit
    <3>1. gone \in Nat /\ gone <= Len(out) /\ gone' = gone
      BY <2>1 DEF ExitInv, NothingAfterExit
    <3>2. ASSUME NEW i \in 1..Len(out'), gone + 2 <= i PROVE out'[i].status # "AVAILABLE"
      <4>1. CASE i \in 1..Len(out)
        BY <3>1, <3>2, <4>1, <2>1, <2>3 DEF ExitInv, NothingAfterExit
      <4>2. CASE i = Len(out) + 1
        BY <1>0, <3>1, <3>2, <4>2, <2>1, <2>2, <2>3 DEF ExitInv, NothingAfterExit
      <4> QED
        BY <1>0, <2>3, <3>2, <4>1, <4>2
    <3> QED
      BY <1>0, <2>1, <2>3, <3>1, <3>2 DEF NothingAfterExit
  <2> QED
    BY <2>3, <2>4, <2>5, <2>6 DEF ExitInv
<1>2. CASE ~Emit
  <2>1. out' = out /\ UNCHANGED <<holder, started, gone, twin, phase>>
    BY <1>0, <1>2 DEF Observe, ReadBefore, ReadBoottime, ReadAfter, BindPath, BindStarttime, deviceVars,
       ReadStarttime, ReadPath, ReadEvents, Sleep, Close, Fail, fileVars
  <2>2. BoundOnce'
    <3>1. CASE BindPath
      BY <3>1 DEF ExitInv, BoundOnce, Unmade, BindPath, Unbound
    <3>2. CASE BindStarttime
      BY <3>2 DEF ExitInv, BoundOnce, Unmade, BindStarttime, Unbound
    <3>3. CASE ReadBefore \/ ReadBoottime \/ ReadAfter
      BY <3>3 DEF ExitInv, BoundOnce, Unmade, ReadBefore, ReadBoottime, ReadAfter
    <3>4. CASE ReadStarttime \/ ReadPath \/ ReadEvents
      BY <3>4 DEF ExitInv, BoundOnce, Unmade, ReadStarttime, ReadPath, ReadEvents
    <3>5. CASE Sleep \/ Close \/ Fail
      BY <3>5 DEF ExitInv, BoundOnce, Unmade, Sleep, Close, Fail
    <3> QED
      BY <1>2, <3>1, <3>2, <3>3, <3>4, <3>5 DEF Observe
  <2>3. NeverAgain'
    <3>1. CASE BindStarttime
      <4>1. bind'.starttime \in {started, bind.starttime} /\ bind.starttime = 0
        BY <3>1 DEF ExitInv, BoundOnce, Unmade, BindStarttime, Unbound
      <4> QED
        BY <2>1, <4>1 DEF ExitInv, NeverAgain
    <3>2. CASE BindPath
      <4>1. bind'.starttime = bind.starttime
        BY <3>2 DEF ExitInv, BoundOnce, BindPath, Unbound
      <4> QED
        BY <2>1, <4>1 DEF ExitInv, NeverAgain
    <3>3. CASE UNCHANGED bind
      BY <2>1, <3>3 DEF ExitInv, NeverAgain
    <3> QED
      BY <1>2, <3>1, <3>2, <3>3 DEF Observe, ReadBefore, ReadBoottime, ReadAfter,
         ReadStarttime, ReadPath, ReadEvents, Sleep, Close, Fail
  <2>4. NothingAfterExit'
    <3> SUFFICES ASSUME gone' # Null, ~twin', gone < Len(out)
                 PROVE  /\ opc' \notin {"path", "events"}
                        /\ opc' = "emit" => cg'.status # "AVAILABLE"
      BY <2>1 DEF ExitInv, NothingAfterExit
    <3>1. /\ bind.starttime # 0 /\ bind.status = "AVAILABLE"
          /\ holder = "nobody" \/ started # bind.starttime
          /\ opc \notin {"path", "events", "bindpath", "bindstart"}
          /\ opc = "emit" => cg.status # "AVAILABLE"
          /\ opc = "after" => phase # "metadata"
      BY <2>1 DEF ExitInv, NothingAfterExit, NeverAgain, BoundOnce, Unmade
    <3>2. CASE ReadStarttime
      BY <3>1, <3>2 DEF ReadStarttime, Unread
    <3>3. CASE ReadAfter
      BY <3>1, <3>3 DEF ReadAfter
    <3>4. CASE ReadBefore \/ ReadBoottime \/ Sleep \/ Close \/ Fail
      BY <3>4 DEF ReadBefore, ReadBoottime, Sleep, Close, Fail
    <3>5. CASE BindPath \/ BindStarttime \/ ReadPath \/ ReadEvents
      BY <3>1, <3>5 DEF BindPath, BindStarttime, ReadPath, ReadEvents
    <3> QED
      BY <1>2, <3>2, <3>3, <3>4, <3>5 DEF Observe
  <2> QED
    BY <1>0, <2>1, <2>2, <2>3, <2>4 DEF ExitInv
<1> QED
  BY <1>1, <1>2

LEMMA StepExit == ExitInv /\ [Next]_vars => ExitInv'
<1> SUFFICES ASSUME ExitInv, [Next]_vars PROVE ExitInv'
  OBVIOUS
<1>1. CASE Observing
  BY <1>1, ObserveExit DEF Observing
<1>2. CASE Around
  BY <1>2, DeviceExit DEF Around
<1>3. CASE UNCHANGED observerVars
  <2>1. UNCHANGED <<out, opc, phase, bind, cg, holder, started, gone, twin>>
    BY <1>3 DEF observerVars, fileVars, deviceVars
  <2> QED
    BY <2>1 DEF ExitInv, BoundOnce, Unmade, NeverAgain, NothingAfterExit
<1> QED
  BY <1>1, <1>2, <1>3 DEF Next, Launch, CheckAlive, Pull, Over, NeverLaunched, vars

\* The binding is made once, the holders of the PID start in the order of the clock's
\* ticks, and no record begun after the bound process was reaped says that its cgroup
\* was available, unless a process of the same tick has its PID.
THEOREM ExitInvariance == Spec => []ExitInv
BY InitExit, StepExit, PTL DEF Spec

\* Nothing is concluded about a process that was reaped before the last sample, even
\* when its PID is in use again (c2_dual_clock_observer.c validate_binding), unless
\* by a process that started in the same clock tick.
THEOREM ExitsAreNoticed == Spec => []ExitIsNoticed
<1>1. ASSUME FileInv, ExitInv PROVE ExitIsNoticed
  <2> SUFFICES ASSUME Judged, Status \in Conclusive, gone # Null,
                      ~(gone >= Len(pulled.recs) - 1), ~twin
               PROVE  FALSE
    BY DEF ExitIsNoticed
  <2>1. /\ pulled.recs = out /\ Len(out) \in Nat /\ Len(out) >= 1
        /\ out[Len(out)].kind = "end" /\ Watched(out)
    BY <1>1, ConclusiveIsWhole
  <2>2. gone \in Nat /\ \A i \in 1..Len(out) : gone + 2 <= i => out[i].status # "AVAILABLE"
    BY <1>1 DEF ExitInv, NothingAfterExit
  <2>3. out[Len(out)].status # "AVAILABLE"
    BY <2>1, <2>2
  <2>4. Len(out) \in DOMAIN out
    <3>1. PICK S : out \in Seq(S)
      BY <1>1 DEF ExitInv, IsSeq
    <3> QED
      BY <2>1, <3>1
  <2>5. out[Len(out)].status = "AVAILABLE"
    BY <2>1, <2>4 DEF Watched, WatchedPoint
  <2> QED
    BY <2>3, <2>5
<1> QED
  BY <1>1, FileInvariance, ExitInvariance, PTL

-----------------------------------------------------------------------------
(***************************************************************************)
(* The margin.                                                             *)
(***************************************************************************)
\* Induction over the naturals, for a set (from WFMin).
LEMMA Counting ==
  ASSUME NEW S, 0 \in S, \A n \in Nat : n \in S => n + 1 \in S
  PROVE  \A n \in Nat : n \in S
<1> SUFFICES ASSUME \E n \in Nat : n \notin S PROVE FALSE
  OBVIOUS
<1> DEFINE T == {n \in Nat : n \notin S}
<1> DEFINE Below == {ss \in Nat \X Nat : ss[1] < ss[2]}
<1>0. IsWellFoundedOn(Below, Nat)
  BY NatLessThanWellFounded, Zenon DEF OpToRel
<1>. T \subseteq Nat /\ T # {}
  OBVIOUS
<1> HIDE DEF T, Below
<1>1. PICK m \in T : \A y \in T : ~(<<y, m>> \in Below)
  BY <1>0, WFMin, Zenon
<1> USE DEF T, Below
<1>2. m \in Nat /\ m # 0
  BY <1>1
<1>3. m - 1 \in Nat /\ m = (m - 1) + 1 /\ m - 1 < m
  BY <1>2
<1>4. <<m - 1, m>> \in Below
  BY <1>2, <1>3
<1> QED
  BY <1>1, <1>2, <1>3, <1>4

\* Finitely many numbers have a bound.
LEMMA Bounded ==
  ASSUME NEW s \in Seq(Nat)
  PROVE  \E b \in Nat : \A i \in 1..Len(s) : s[i] <= b
<1> DEFINE S == {k \in Nat : k <= Len(s) => \E b \in Nat : \A i \in 1..k : s[i] <= b}
<1>1. 0 \in S
  OBVIOUS
<1>2. ASSUME NEW k \in Nat, k \in S PROVE k + 1 \in S
  <2> SUFFICES ASSUME k + 1 <= Len(s)
               PROVE  \E b \in Nat : \A i \in 1..k + 1 : s[i] <= b
    OBVIOUS
  <2>0. Len(s) \in Nat /\ s[k + 1] \in Nat /\ \A i \in 1..k : s[i] \in Nat
    OBVIOUS
  <2>1. PICK b \in Nat : \A i \in 1..k : s[i] <= b
    BY <1>2, <2>0
  <2>2. b + s[k + 1] \in Nat /\ \A i \in 1..k + 1 : s[i] <= b + s[k + 1]
    BY <2>0, <2>1
  <2> QED
    BY <2>2
<1> HIDE DEF S
<1>3. Len(s) \in S
  BY <1>1, <1>2, Counting
<1> QED
  BY <1>3 DEF S

\* There is a value at each place of the ordered list.
LEMMA InOrder ==
  ASSUME NEW s \in Seq(Nat), NEW p \in 1..Len(s)
  PROVE  \E v \in Range(s) :
           /\ Cardinality({i \in DOMAIN s : s[i] < v}) < p
           /\ Cardinality({i \in DOMAIN s : s[i] <= v}) >= p
<1> DEFINE Upto(v) == {i \in DOMAIN s : s[i] <= v}
           Under(v) == {i \in DOMAIN s : s[i] < v}
           S == {v \in Nat : Cardinality(Upto(v)) < p}
<1>1. DOMAIN s = 1..Len(s) /\ Len(s) \in Nat /\ \A i \in DOMAIN s : s[i] \in Nat
  OBVIOUS
<1>2. PICK b \in Nat : \A i \in 1..Len(s) : s[i] <= b
  BY Bounded
<1>3. Cardinality(Upto(b)) = Len(s)
  <2>1. Upto(b) = 1..Len(s)
    BY <1>1, <1>2
  <2>2. Cardinality(1..Len(s)) = Len(s)
    BY <1>1, FS_Interval
  <2> QED
    BY <2>1, <2>2
<1>4. ~(b \in S)
  <2> HIDE DEF Upto
  <2> QED
    BY <1>1, <1>3
<1>5. \E v \in Nat : Cardinality(Under(v)) < p /\ ~(Cardinality(Upto(v)) < p)
  <2>1. CASE 0 \in S
    <3>1. PICK n \in Nat : n \in S /\ n + 1 \notin S
      <4> HIDE DEF S
      <4> QED
        BY <1>4, <2>1, Counting
    <3>2. Under(n + 1) = Upto(n)
      BY <1>1
    <3> HIDE DEF Upto, Under
    <3> QED
      BY <3>1, <3>2
  <2>2. CASE 0 \notin S
    <3>1. Under(0) = {}
      BY <1>1
    <3>2. Cardinality(Under(0)) = 0
      BY <3>1, FS_EmptySet
    <3> HIDE DEF Upto, Under
    <3> QED
      BY <1>1, <2>2, <3>2
  <2> QED
    BY <2>1, <2>2
<1>6. PICK v \in Nat : Cardinality(Under(v)) < p /\ ~(Cardinality(Upto(v)) < p)
  BY <1>5
<1>7. Cardinality(Upto(v)) \in Nat
  <2>1. Upto(v) \in SUBSET (1..Len(s))
    BY <1>1
  <2>2. IsFiniteSet(1..Len(s))
    BY <1>1, FS_Interval
  <2> HIDE DEF Upto
  <2> QED
    BY <2>1, <2>2, FS_Subset, FS_CardinalityType
<1>8. v \in Range(s)
  <2> SUFFICES ASSUME v \notin Range(s) PROVE FALSE
    OBVIOUS
  <2>1. Upto(v) = Under(v)
    BY <1>1 DEF Range
  <2> QED
    BY <1>6, <2>1
<1>9. Cardinality(Upto(v)) >= p
  <2> HIDE DEF Upto
  <2> QED
    BY <1>6, <1>7
<1> QED
  BY <1>6, <1>8, <1>9

\* With fewer than twenty values the 95th percentile is the greatest.
LEMMA Percentile ==
  ASSUME NEW s \in Seq(Nat), Len(s) >= 1
  PROVE  /\ P95(s) \in Nat
         /\ Len(s) < 20 => \A i \in 1..Len(s) : s[i] <= P95(s)
<1> DEFINE n == Len(s)
           place == (95 * n + 99) \div 100
           v == P95(s)
           Upto == {i \in DOMAIN s : s[i] <= v}
<1>1. DOMAIN s = 1..n /\ n \in Nat /\ \A i \in DOMAIN s : s[i] \in Nat
  OBVIOUS
<1>2. place \in 1..n /\ (n < 20 => place = n)
  <2>1. \A m \in Nat : m >= 1 =>
          LET q == (95 * m + 99) \div 100 IN q \in 1..m /\ (m < 20 => q = m)
    OBVIOUS
  <2> QED
    BY <1>1, <2>1
<1>3. v \in Range(s) /\ Cardinality(Upto) >= place
  <2> HIDE DEF place
  <2>1. \E w \in Range(s) :
          /\ Cardinality({i \in DOMAIN s : s[i] < w}) < place
          /\ Cardinality({i \in DOMAIN s : s[i] <= w}) >= place
    BY <1>2, InOrder
  <2>2. v = CHOOSE w \in Range(s) :
          /\ Cardinality({i \in DOMAIN s : s[i] < w}) < place
          /\ Cardinality({i \in DOMAIN s : s[i] <= w}) >= place
    BY DEF P95, place
  <2> QED
    BY <2>1, <2>2
<1>4. v \in Nat
  BY <1>1, <1>3 DEF Range
<1>5. ASSUME n < 20, NEW i \in 1..n PROVE s[i] <= v
  <2>1. Upto \in SUBSET (1..n)
    BY <1>1
  <2>2. IsFiniteSet(1..n) /\ Cardinality(1..n) = n
    BY <1>1, FS_Interval
  <2>3. Cardinality(Upto) >= n
    BY <1>2, <1>3, <1>5
  <2>4. Upto = 1..n
    <3> HIDE DEF Upto, v
    <3>1. Cardinality(Upto) \in Nat /\ Cardinality(Upto) <= n
      BY <2>1, <2>2, FS_Subset, FS_CardinalityType
    <3>2. Cardinality(Upto) = n
      BY <1>1, <2>3, <3>1
    <3> QED
      BY <2>1, <2>2, <3>2, FS_Subset
  <2> QED
    BY <2>4
<1> QED
  BY <1>4, <1>5

\* The margin is a number, and twice the span of any pair is within it.
LEMMA Margin ==
  ASSUME NEW recs, IsSeq(recs), Len(recs) >= 1, \A i \in 1..Len(recs) : recs[i].span \in Nat
  PROVE  /\ Threshold(recs) \in Nat
         /\ EvenlyRead(recs) => \A i \in 1..Len(recs) : 2 * recs[i].span <= Threshold(recs)
<1> DEFINE spans == [i \in DOMAIN recs |-> recs[i].span]
<1>1. Len(recs) \in Nat /\ DOMAIN recs = 1..Len(recs)
  BY DEF IsSeq
<1>2. spans \in Seq(Nat) /\ Len(spans) = Len(recs)
  BY <1>1
<1>3. \A i \in 1..Len(recs) : spans[i] = recs[i].span
  BY <1>1
<1>4. Threshold(recs) = Larger(MinMargin, 4 * (2 * P95(spans) + 4 * Resolution))
  BY DEF Threshold
<1> HIDE DEF spans
<1>5. P95(spans) \in Nat /\ (Len(recs) < 20 => \A i \in 1..Len(recs) : spans[i] <= P95(spans))
  BY <1>2, Percentile
<1>6. Threshold(recs) \in Nat /\ Threshold(recs) >= 2 * P95(spans)
  BY <1>4, <1>5, MarginAssumption DEF Larger
<1>7. ASSUME EvenlyRead(recs), NEW i \in 1..Len(recs) PROVE 2 * recs[i].span <= Threshold(recs)
  <2>1. CASE Len(recs) < 20
    BY <1>3, <1>5, <1>6, <2>1
  <2>2. CASE ~(Len(recs) < 20)
    BY <1>1, <1>7, <2>2 DEF EvenlyRead
  <2> QED
    BY <2>1, <2>2
<1> QED
  BY <1>6, <1>7
-----------------------------------------------------------------------------
(***************************************************************************)
(* The clocks.                                                             *)
(***************************************************************************)
\* A reading is as far from the clocks' true offset, at most, as the pair took.
Near(r, offset) == offset - r.span <= Offset(r) /\ Offset(r) <= offset + r.span

Sample == [mono : Int, boot : Int, span : Nat]

\* BOOTTIME never loses on MONOTONIC.
Clocks ==
  /\ mono \in Nat /\ boot \in Nat
  /\ truth = [from |-> truth.from, to |-> truth.to]
  /\ truth.from \in Int /\ truth.to \in Int
  /\ truth.from <= truth.to /\ truth.to <= boot - mono

\* BOOTTIME is read between the two readings of MONOTONIC.
Reading ==
  /\ first \in Int /\ now \in Sample /\ start \in Sample
  /\ opc = "boottime" => first <= mono
  /\ opc = "after" => first <= now.boot - truth.to /\ now.boot - truth.to <= mono
  /\ opc \in {"bindpath", "bindstart", "starttime", "path", "events", "emit"} => Near(now, truth.to)
  /\ phase = "metadata" =>
       /\ truth.from = truth.to
       /\ opc \in {"bindpath", "bindstart", "starttime", "path", "events", "emit"} => start = now

\* The records are readings, one after the other.
Records ==
  /\ IsSeq(out)
  /\ IF phase = "metadata"
     THEN Len(out) = 0
     ELSE /\ Len(out) >= 1
          /\ start.mono = out[1].mono /\ start.boot = out[1].boot
          /\ Near(out[1], truth.from)
  /\ \A i \in 1..Len(out) :
       /\ out[i].mono \in Int /\ out[i].boot \in Int /\ out[i].span \in Nat
       /\ truth.from - out[i].span <= Offset(out[i])
       /\ Offset(out[i]) <= truth.to + out[i].span
       /\ \A j \in 1..i : Offset(out[j]) - out[j].span <= Offset(out[i]) + out[i].span
       /\ out[i].delta = IF Offset(out[i]) >= 0 /\ Offset(out[1]) >= 0
                         THEN Offset(out[i]) - Offset(out[1]) ELSE Null
       /\ out[i].bootId = "MISMATCH" => out[1].bootId # "AVAILABLE"

\* Nothing is read after the end record.
EndIsNow ==
  \A i \in 1..Len(out) :
    out[i].kind = "end" =>
      /\ opc \in {"close", "done", "failed"}
      /\ truth.to - out[i].span <= Offset(out[i])

ClockInv == Clocks /\ Reading /\ Records /\ EndIsNow

LEMMA InitClock == Init => ClockInv
<1> SUFFICES ASSUME Init PROVE ClockInv
  OBVIOUS
<1> USE DEF Init, InitObserver
<1>1. IsSeq(out) /\ Len(out) = 0
  BY EmptySeq DEF IsSeq
<1>2. Clocks
  BY TimeAssumption DEF Clocks
<1>3. Reading
  BY TimeAssumption DEF Reading, NoSample, Sample
<1>4. Records /\ EndIsNow
  BY <1>1 DEF Records, EndIsNow
<1> QED
  BY <1>2, <1>3, <1>4 DEF ClockInv

\* Whatever happens while time passes.
LEMMA Passing ==
  ASSUME Clocks, NEW least \in Nat, Pass(least)
  PROVE  /\ mono' \in Nat /\ boot' \in Nat
         /\ mono <= mono' /\ boot - mono <= boot' - mono'
<1>1. mono \in Nat /\ boot \in Nat
  BY DEF Clocks
<1>2. CASE mono' = mono + least /\ boot' = boot + least
  BY <1>1, <1>2
<1>3. CASE \E d \in Delays : mono' = mono + least + d /\ boot' = boot + least + d
  <2>1. PICK d \in Delays : mono' = mono + least + d /\ boot' = boot + least + d
    BY <1>3
  <2>2. d \in Nat
    BY TimeAssumption
  <2> QED
    BY <1>1, <2>1, <2>2
<1>4. CASE \E s \in Suspends : mono' = mono + least /\ boot' = boot + least + s
  <2>1. PICK s \in Suspends : mono' = mono + least /\ boot' = boot + least + s
    BY <1>4
  <2>2. s \in Nat
    BY TimeAssumption
  <2> QED
    BY <1>1, <2>1, <2>2
<1> QED
  BY <1>2, <1>3, <1>4 DEF Pass

\* What is known of a record.
LEMMA RecordFacts ==
  ASSUME ClockInv, NEW i \in 1..Len(out)
  PROVE  /\ out[i].mono \in Int /\ out[i].boot \in Int /\ out[i].span \in Nat
         /\ Offset(out[i]) \in Int
         /\ truth.from \in Int /\ truth.to \in Int /\ truth.from <= truth.to
         /\ truth.from - out[i].span <= Offset(out[i])
         /\ Offset(out[i]) <= truth.to + out[i].span
<1>1. /\ out[i].mono \in Int /\ out[i].boot \in Int /\ out[i].span \in Nat
      /\ truth.from - out[i].span <= Offset(out[i])
      /\ Offset(out[i]) <= truth.to + out[i].span
  BY DEF ClockInv, Records
<1>2. Offset(out[i]) \in Int
  BY <1>1 DEF Offset
<1>3. truth.from \in Int /\ truth.to \in Int /\ truth.from <= truth.to
  BY DEF ClockInv, Clocks
<1> QED
  BY <1>1, <1>2, <1>3

\* What the observer has written is not touched by a later reading.
LEMMA ReadingOn ==
  ASSUME ClockInv, UNCHANGED <<phase, out>>, opc \notin {"close", "done", "failed"},
         Clocks', truth.to <= truth'.to,
         phase # "metadata" => truth'.from = truth.from /\ start' = start
  PROVE  Records' /\ EndIsNow'
<1>1. EndIsNow'
  BY DEF ClockInv, EndIsNow
<1>2. IsSeq(out) /\ Len(out) \in Nat
  BY AppendAny DEF ClockInv, Records
<1>3. CASE phase = "metadata"
  <2>1. Len(out) = 0 /\ out' = out /\ phase' = phase
    BY <1>3 DEF ClockInv, Records
  <2> QED
    BY <1>1, <1>2, <1>3, <2>1 DEF Records
<1>4. CASE phase # "metadata"
  <2>1. /\ out' = out /\ phase' = phase /\ start' = start
        /\ truth'.from = truth.from /\ truth'.to \in Int
    BY <1>4 DEF Clocks
  <2>2. ASSUME NEW i \in 1..Len(out) PROVE Offset(out[i]) <= truth'.to + out[i].span
    <3>1. /\ Offset(out[i]) \in Int /\ truth.to \in Int /\ out[i].span \in Nat
          /\ Offset(out[i]) <= truth.to + out[i].span
      BY RecordFacts
    <3> QED
      BY <2>1, <3>1
  <2>3. /\ Len(out) >= 1
        /\ start.mono = out[1].mono /\ start.boot = out[1].boot
        /\ Near(out[1], truth.from)
    BY <1>4 DEF ClockInv, Records
  <2>4. \A i \in 1..Len(out) :
          /\ out[i].mono \in Int /\ out[i].boot \in Int /\ out[i].span \in Nat
          /\ truth.from - out[i].span <= Offset(out[i])
          /\ \A j \in 1..i : Offset(out[j]) - out[j].span <= Offset(out[i]) + out[i].span
          /\ out[i].delta = IF Offset(out[i]) >= 0 /\ Offset(out[1]) >= 0
                            THEN Offset(out[i]) - Offset(out[1]) ELSE Null
          /\ out[i].bootId = "MISMATCH" => out[1].bootId # "AVAILABLE"
    BY DEF ClockInv, Records
  <2> QED
    BY <1>1, <1>2, <1>4, <2>1, <2>2, <2>3, <2>4 DEF Records
<1> QED
  BY <1>1, <1>3, <1>4

LEMMA EmitClock == ClockInv /\ Emit => ClockInv'
<1> SUFFICES ASSUME ClockInv, Emit PROVE ClockInv'
  OBVIOUS
<1>a. \E read \in BOOLEAN : out' = Append(out, Record(read))
  BY DEF Emit
<1>b. PICK read \in BOOLEAN : out' = Append(out, Record(read))
  BY <1>a
<1> DEFINE r == Record(read)
           d == Delta
           n == Len(out) + 1
<1>0. opc = "emit" /\ out' = Append(out, r) /\ UNCHANGED <<mono, boot, jolts, first, now, start, truth>>
  BY <1>b DEF Emit, clockVars
<1>1. /\ r.kind = phase /\ r.mono = now.mono /\ r.boot = now.boot /\ r.span = now.span
      /\ r.delta = d
      /\ r.bootId = "MISMATCH" => phase # "metadata" /\ out[1].bootId # "AVAILABLE"
  BY DEF Record, BootId
<1>2. now \in Sample /\ start \in Sample /\ Near(now, truth.to)
  BY <1>0 DEF ClockInv, Reading
<1>3. /\ now.mono \in Int /\ now.boot \in Int /\ now.span \in Nat
      /\ start.mono \in Int /\ start.boot \in Int
  BY <1>2 DEF Sample
<1>4. d = IF Offset(now) >= 0 /\ Offset(start) >= 0 THEN Offset(now) - Offset(start) ELSE Null
  BY DEF Delta
<1>4b. Offset(r) = Offset(now) /\ Near(r, truth.to)
  BY <1>1, <1>2 DEF Near, Offset
<1> HIDE DEF r, d
<1>5. /\ IsSeq(out') /\ Len(out) \in Nat /\ Len(out') = n
      /\ \A i \in 1..Len(out) : out'[i] = out[i]
      /\ out'[n] = r
  BY <1>0, AppendAny DEF ClockInv, Records
<1>6. opc' \in {"sleep", "before", "close"} /\ (phase = "end" => opc' = "close")
      /\ phase' # "metadata"
  BY DEF Emit
<1>7. Clocks'
  BY <1>0 DEF ClockInv, Clocks
<1>8. Reading'
  BY <1>0, <1>6 DEF ClockInv, Reading
<1>9. Len(out) >= 1 => phase # "metadata"
  BY <1>5 DEF ClockInv, Records
<1>10. Offset(start) = Offset(out'[1]) /\ start.mono = out'[1].mono /\ start.boot = out'[1].boot
       /\ Near(out'[1], truth.from)
  <2>1. CASE phase = "metadata"
    <3>1. start = now /\ Len(out) = 0 /\ truth.from = truth.to
      BY <1>0, <2>1 DEF ClockInv, Reading, Records
    <3> QED
      BY <1>1, <1>4b, <1>5, <3>1 DEF Offset
  <2>2. CASE phase # "metadata"
    BY <1>5, <2>2 DEF ClockInv, Records, Offset
  <2> QED
    BY <2>1, <2>2
<1>11. Records'
  <2>1. ASSUME NEW i \in 1..n
        PROVE  /\ out'[i].mono \in Int /\ out'[i].boot \in Int /\ out'[i].span \in Nat
               /\ truth.from - out'[i].span <= Offset(out'[i])
               /\ Offset(out'[i]) <= truth.to + out'[i].span
               /\ \A j \in 1..i : Offset(out'[j]) - out'[j].span <= Offset(out'[i]) + out'[i].span
               /\ out'[i].delta = IF Offset(out'[i]) >= 0 /\ Offset(out'[1]) >= 0
                                  THEN Offset(out'[i]) - Offset(out'[1]) ELSE Null
               /\ out'[i].bootId = "MISMATCH" => out'[1].bootId # "AVAILABLE"
    <3>1. CASE i \in 1..Len(out)
      <4>1. out'[i] = out[i] /\ out'[1] = out[1] /\ \A j \in 1..i : out'[j] = out[j]
        BY <1>5, <3>1
      <4> QED
        BY <3>1, <4>1 DEF ClockInv, Records
    <3>2. CASE i = n
      <4>1. out'[i].mono \in Int /\ out'[i].boot \in Int /\ out'[i].span \in Nat
        BY <1>1, <1>3, <1>5, <3>2
      <4>2. /\ Offset(r) \in Int /\ truth.to - r.span <= Offset(r) /\ Offset(r) <= truth.to + r.span
            /\ truth.from \in Int /\ truth.to \in Int /\ truth.from <= truth.to /\ r.span \in Nat
        BY <1>1, <1>3, <1>4b DEF Near, Offset, ClockInv, Clocks
      <4>3. \A j \in 1..Len(out) : /\ Offset(out[j]) - out[j].span <= truth.to
                                   /\ Offset(out[j]) \in Int /\ out[j].span \in Nat
        <5> SUFFICES ASSUME NEW j \in 1..Len(out)
                     PROVE  /\ Offset(out[j]) - out[j].span <= truth.to
                            /\ Offset(out[j]) \in Int /\ out[j].span \in Nat
          OBVIOUS
        <5>1. /\ Offset(out[j]) \in Int /\ truth.to \in Int /\ out[j].span \in Nat
              /\ Offset(out[j]) <= truth.to + out[j].span
          BY RecordFacts
        <5> QED
          BY <5>1
      <4>4. ASSUME NEW j \in 1..i
            PROVE  Offset(out'[j]) - out'[j].span <= Offset(r) + r.span
        <5>1. CASE j \in 1..Len(out)
          <6>1. out'[j] = out[j]
            BY <1>5, <5>1
          <6>2. /\ Offset(out[j]) - out[j].span <= truth.to
                /\ Offset(out[j]) \in Int /\ out[j].span \in Nat
            BY <4>3, <5>1
          <6>3. truth.to <= Offset(r) + r.span
            BY <4>2
          <6>4. Offset(out[j]) - out[j].span <= Offset(r) + r.span
            BY <4>2, <6>2, <6>3
          <6> QED
            BY <6>1, <6>4
        <5>2. CASE j = n
          BY <1>5, <4>2, <5>2
        <5> QED
          BY <1>5, <3>2, <5>1, <5>2
      <4>5. r.delta = IF Offset(r) >= 0 /\ Offset(out'[1]) >= 0
                      THEN Offset(r) - Offset(out'[1]) ELSE Null
        BY <1>1, <1>4, <1>4b, <1>10
      <4>6. out'[i] = r /\ truth.from - r.span <= Offset(r)
        BY <1>5, <3>2, <4>2
      <4>7. r.bootId = "MISMATCH" => out'[1].bootId # "AVAILABLE"
        <5>1. phase # "metadata" => out'[1] = out[1]
          BY <1>5 DEF ClockInv, Records
        <5> QED
          BY <1>1, <5>1
      <4> QED
        BY <4>1, <4>2, <4>4, <4>5, <4>6, <4>7
    <3> QED
      BY <1>5, <3>1, <3>2
  <2> QED
    BY <1>0, <1>5, <1>6, <1>10, <2>1 DEF Records
<1>12. EndIsNow'
  <2> SUFFICES ASSUME NEW i \in 1..n, out'[i].kind = "end"
               PROVE  opc' \in {"close", "done", "failed"} /\ truth.to - out'[i].span <= Offset(out'[i])
    BY <1>0, <1>5 DEF EndIsNow
  <2>1. i = n
    BY <1>0, <1>5 DEF ClockInv, EndIsNow
  <2> QED
    BY <1>1, <1>4b, <1>5, <1>6, <2>1 DEF Near
<1> QED
  BY <1>7, <1>8, <1>11, <1>12 DEF ClockInv

LEMMA ObserveClock == ClockInv /\ Observe => ClockInv'
<1> SUFFICES ASSUME ClockInv, Observe PROVE ClockInv'
  OBVIOUS
<1>0. 0 \in Nat /\ Interval \in Nat
  BY TimeAssumption
<1>1. CASE ReadBefore
  <2>1. /\ opc = "before" /\ opc' = "boottime" /\ first' = mono
        /\ UNCHANGED <<mono, boot, phase, now, start, truth, out>>
    BY <1>1 DEF ReadBefore, clockVars, fileVars
  <2>2. Clocks'
    BY <2>1 DEF ClockInv, Clocks
  <2>3. Reading'
    BY <2>1 DEF ClockInv, Clocks, Reading
  <2>4. Records' /\ EndIsNow'
    BY <2>1, <2>2, ReadingOn DEF ClockInv, Clocks
  <2> QED
    BY <2>2, <2>3, <2>4 DEF ClockInv
<1>2. CASE ReadBoottime
  <2>1. /\ opc = "boottime" /\ opc' = "after" /\ Pass(0)
        /\ now' = [now EXCEPT !.boot = boot']
        /\ truth' = [from |-> IF phase = "metadata" THEN boot' - mono' ELSE truth.from,
                     to |-> boot' - mono']
        /\ UNCHANGED <<phase, first, start, out>>
    BY <1>2 DEF ReadBoottime, fileVars
  <2>2. /\ mono' \in Nat /\ boot' \in Nat /\ mono <= mono' /\ boot - mono <= boot' - mono'
    BY <1>0, <2>1, Passing DEF ClockInv
  <2>3. Clocks' /\ truth.to <= truth'.to
    BY <2>1, <2>2 DEF ClockInv, Clocks
  <2>4. Reading'
    <3>1. now' \in Sample /\ now'.boot = boot'
      BY <2>1, <2>2 DEF ClockInv, Reading, Sample
    <3>2. first <= now'.boot - truth'.to /\ now'.boot - truth'.to <= mono'
      BY <2>1, <2>2, <3>1 DEF ClockInv, Reading, Clocks
    <3> QED
      BY <2>1, <3>1, <3>2 DEF ClockInv, Reading
  <2>5. Records' /\ EndIsNow'
    BY <2>1, <2>3, ReadingOn
  <2> QED
    BY <2>3, <2>4, <2>5 DEF ClockInv
<1>3. CASE ReadAfter
  <2> DEFINE here == [now EXCEPT !.mono = first + (mono' - first) \div 2, !.span = mono' - first]
  <2>1. /\ opc = "after" /\ Pass(0) /\ now' = here
        /\ opc' \in {"bindpath", "starttime", "emit"}
        /\ UNCHANGED <<phase, first, truth, out>>
        /\ start' = IF phase = "metadata" THEN now' ELSE start
    BY <1>3 DEF ReadAfter, fileVars
  <2>2. /\ mono' \in Nat /\ boot' \in Nat /\ mono <= mono' /\ boot - mono <= boot' - mono'
    BY <1>0, <2>1, Passing DEF ClockInv
  <2>3. Clocks'
    BY <2>1, <2>2 DEF ClockInv, Clocks
  <2>4. /\ first \in Int /\ now.boot \in Int /\ mono \in Nat /\ truth.to \in Int
        /\ first <= now.boot - truth.to /\ now.boot - truth.to <= mono
    BY <2>1 DEF ClockInv, Reading, Clocks, Sample
  <2>5. /\ now'.boot = now.boot /\ now'.mono = first + (mono' - first) \div 2
        /\ now'.span = mono' - first
    BY <2>1 DEF ClockInv, Reading, Sample
  <2>6. now' \in Sample
    <3>1. mono' - first \in Nat
      <4>1. first <= mono
        BY <2>4
      <4>2. first <= mono' /\ first \in Int /\ mono' \in Int
        BY <2>2, <2>4, <4>1
      <4>3. \A a, b \in Int : a <= b => b - a \in Nat
        OBVIOUS
      <4> QED
        BY <4>2, <4>3
    <3>2. \A d \in Nat : first + d \div 2 \in Int
      BY <2>4
    <3>3. first + (mono' - first) \div 2 \in Int
      BY <3>1, <3>2
    <3> QED
      BY <2>1, <3>1, <3>3 DEF ClockInv, Reading, Sample
  <2>7. Near(now', truth.to)
    BY <2>2, <2>4, <2>5 DEF Near, Offset
  <2>8. Reading'
    BY <2>1, <2>6, <2>7 DEF ClockInv, Reading
  <2>9. Records' /\ EndIsNow'
    BY <2>1, <2>3, ReadingOn DEF ClockInv, Clocks
  <2> QED
    BY <2>3, <2>8, <2>9 DEF ClockInv
<1>4. CASE BindPath \/ BindStarttime \/ ReadStarttime \/ ReadPath \/ ReadEvents
  <2>1. /\ opc \in {"bindpath", "bindstart", "starttime", "path", "events"}
        /\ opc' \in {"bindpath", "bindstart", "starttime", "path", "events", "emit"}
        /\ UNCHANGED <<mono, boot, phase, first, now, start, truth, out>>
    BY <1>4 DEF BindPath, BindStarttime, ReadStarttime, ReadPath, ReadEvents, Unbound,
       clockVars, sampleVars, fileVars
  <2>2. Clocks'
    BY <2>1 DEF ClockInv, Clocks
  <2>3. Reading'
    BY <2>1 DEF ClockInv, Reading
  <2>4. Records' /\ EndIsNow'
    BY <2>1, <2>2, ReadingOn DEF ClockInv, Clocks
  <2> QED
    BY <2>2, <2>3, <2>4 DEF ClockInv
<1>5. CASE Emit
  BY <1>5, EmitClock
<1>6. CASE Sleep
  <2>1. /\ opc = "sleep" /\ opc' = "before" /\ Pass(Interval)
        /\ UNCHANGED <<phase, first, now, start, truth, out>>
    BY <1>6 DEF Sleep, sampleVars, fileVars
  <2>2. /\ mono' \in Nat /\ boot' \in Nat /\ mono <= mono' /\ boot - mono <= boot' - mono'
    BY <1>0, <2>1, Passing DEF ClockInv
  <2>3. Clocks'
    BY <2>1, <2>2 DEF ClockInv, Clocks
  <2>4. Reading'
    BY <2>1 DEF ClockInv, Reading
  <2>5. Records' /\ EndIsNow'
    BY <2>1, <2>3, ReadingOn DEF ClockInv, Clocks
  <2> QED
    BY <2>3, <2>4, <2>5 DEF ClockInv
<1>7. CASE Close \/ Fail
  <2>1. /\ opc' \in {"done", "failed"}
        /\ UNCHANGED <<mono, boot, phase, first, now, start, truth, out>>
    BY <1>7 DEF Close, Fail, clockVars, sampleVars, fileVars
  <2> QED
    BY <2>1 DEF ClockInv, Clocks, Reading, Records, EndIsNow
<1> QED
  BY <1>1, <1>2, <1>3, <1>4, <1>5, <1>6, <1>7 DEF Observe

LEMMA StepClock == ClockInv /\ [Next]_vars => ClockInv'
<1> SUFFICES ASSUME ClockInv, [Next]_vars PROVE ClockInv'
  OBVIOUS
<1>1. CASE Observing
  BY <1>1, ObserveClock DEF Observing
<1>2. CASE ~Observing
  <2>1. UNCHANGED <<mono, boot, opc, phase, first, now, start, truth, out>>
    BY <1>2 DEF Next, Launch, CheckAlive, Pull, Around, Over, NeverLaunched, vars, observerVars,
       Device, FreezeOrThaw, Exits, Reaped, Reused, Moves, ObserverUnchanged, clockVars, sampleVars, fileVars
  <2> QED
    BY <2>1 DEF ClockInv, Clocks, Reading, Records, EndIsNow
<1> QED
  BY <1>1, <1>2

THEOREM ClockInvariance == Spec => []ClockInv
BY InitClock, StepClock, PTL DEF Spec

\* An offset only grows on a device that suspends, if it is read evenly
\* (c2_dual_clock_analyze.py _percentile_margin).
THEOREM SuspendsAreReal == Spec => []NoFalseSuspend
<1>1. ASSUME FileInv, ClockInv PROVE NoFalseSuspend
  <2> SUFFICES ASSUME Judged, Status = "SUSPEND_OBSERVED", EvenlyRead(pulled.recs),
                      ~(TrueSuspend > 0)
               PROVE  FALSE
    BY DEF NoFalseSuspend
  <2>1. pulled.recs = out /\ IsSeq(out) /\ Len(out) \in Nat /\ Len(out) >= 1
    BY <1>1, ConclusiveIsWhole DEF Conclusive
  <2>2. Diverged(out)
    BY <2>1 DEF Status, Verdict
  <2>3. DOMAIN out = 1..Len(out)
    BY <2>1 DEF IsSeq
  <2>4. PICK i \in 1..Len(out) : Offset(out[i]) - Offset(out[1]) > Threshold(out)
    BY <2>2, <2>3 DEF Diverged
  <2>5. \A j \in 1..Len(out) : out[j].span \in Nat
    BY <1>1 DEF ClockInv, Records
  <2>6. /\ Threshold(out) \in Nat
        /\ 2 * out[i].span <= Threshold(out) /\ 2 * out[1].span <= Threshold(out)
    BY <2>1, <2>5, Margin
  <2>7. /\ Offset(out[i]) <= truth.to + out[i].span
        /\ truth.from - out[1].span <= Offset(out[1])
        /\ Offset(out[i]) \in Int /\ Offset(out[1]) \in Int
        /\ truth.from \in Int /\ truth.to \in Int /\ truth.from <= truth.to
        /\ out[i].span \in Nat /\ out[1].span \in Nat
    BY <1>1, <2>1, RecordFacts
  <2>8. \A t, f, oi, o1 \in Int : \A h, si, s1 \in Nat :
          /\ oi <= t + si /\ f - s1 <= o1 /\ 2 * si <= h /\ 2 * s1 <= h
          /\ oi - o1 > h
          => t - f > 0
    OBVIOUS
  <2>9. truth.to - truth.from > 0
    BY <2>4, <2>6, <2>7, <2>8
  <2> QED
    BY <2>9 DEF TrueSuspend
<1> QED
  BY <1>1, FileInvariance, ClockInvariance, PTL

\* A suspend beyond the margin is seen, however the readings were held up.
THEOREM SuspendsAreSeen == Spec => []SuspendNotMissed
<1>1. ASSUME FileInv, ClockInv PROVE SuspendNotMissed
  <2> SUFFICES ASSUME Judged, Status = "NO_SUSPEND_OBSERVED"
               PROVE  TrueSuspend <= Threshold(out) + out[1].span + Last(out).span
    BY DEF SuspendNotMissed
  <2> DEFINE k == Len(out)
  <2>1. pulled.recs = out /\ IsSeq(out) /\ k \in Nat /\ k >= 1 /\ out[k].kind = "end"
    BY <1>1, ConclusiveIsWhole DEF Conclusive
  <2>2. ~Diverged(out)
    BY <2>1 DEF Status, Verdict
  <2>3. DOMAIN out = 1..k
    BY <2>1 DEF IsSeq
  <2>4. ~(Offset(out[k]) - Offset(out[1]) > Threshold(out))
    BY <2>1, <2>2, <2>3 DEF Diverged
  <2>5. \A j \in 1..k : out[j].span \in Nat
    BY <1>1 DEF ClockInv, Records
  <2>6. Threshold(out) \in Nat
    BY <2>1, <2>5, Margin
  <2>7. truth.to - out[k].span <= Offset(out[k])
    BY <1>1, <2>1 DEF ClockInv, EndIsNow
  <2>8. /\ Offset(out[1]) <= truth.from + out[1].span
        /\ Offset(out[k]) \in Int /\ Offset(out[1]) \in Int
        /\ truth.from \in Int /\ truth.to \in Int
    <3>1. /\ Offset(out[k]) \in Int /\ Offset(out[1]) \in Int
          /\ truth.from \in Int /\ truth.to \in Int
      BY <1>1, <2>1, RecordFacts
    <3>2. Near(out[1], truth.from)
      BY <1>1, <2>1 DEF ClockInv, Records
    <3> QED
      BY <3>1, <3>2 DEF Near
  <2>9. out[1].span \in Nat /\ out[k].span \in Nat
    BY <2>1, <2>5
  <2>10. truth.to - truth.from <= Threshold(out) + out[1].span + out[k].span
    <3>1. \A t, f, o1, ok \in Int : \A h, s1, sk \in Nat :
            t - sk <= ok /\ ~(ok - o1 > h) /\ o1 <= f + s1 => t - f <= h + s1 + sk
      OBVIOUS
    <3> HIDE DEF k
    <3> QED
      BY <2>4, <2>6, <2>7, <2>8, <2>9, <3>1
  <2> QED
    BY <2>10 DEF TrueSuspend, Last
<1> QED
  BY <1>1, FileInvariance, ClockInvariance, PTL

\* An intact timeline is not thrown away for want of coverage: what the observer
\* computes is what the analyzer recomputes, and the offset never seems to drop.
THEOREM IntactIsJudged == Spec => []IntactIsUsable
<1>1. ASSUME FileInv, ClockInv PROVE IntactIsUsable
  <2> SUFFICES ASSUME Judged, ~pulled.broken, Structured(pulled.recs), Regular(pulled.recs),
                      EvenlyRead(pulled.recs),
                      \A i \in DOMAIN pulled.recs : Offset(pulled.recs[i]) >= 0,
                      pulled.recs[1].bootId = "AVAILABLE"
               PROVE  Status # "COVERAGE_INVALID"
    BY DEF IntactIsUsable
  <2>1. pulled.recs = out /\ IsSeq(out) /\ Len(out) \in Nat /\ Len(out) >= 1
    BY <1>1, WholeFile
  <2>2. DOMAIN out = 1..Len(out)
    BY <2>1 DEF IsSeq
  <2>3. \A j \in 1..Len(out) : out[j].span \in Nat /\ Offset(out[j]) \in Int
    BY <1>1 DEF ClockInv, Records, Offset
  <2>4. /\ Threshold(out) \in Nat
        /\ \A i \in 1..Len(out) : 2 * out[i].span <= Threshold(out)
    BY <2>1, <2>3, Margin
  <2>5. ASSUME NEW i \in 2..Len(out)
        PROVE  /\ out[i].delta = Offset(out[i]) - Offset(out[1])
               /\ Offset(out[i]) - Offset(out[i - 1]) >= -Threshold(out)
    <3>1. i \in 1..Len(out) /\ i - 1 \in 1..Len(out) /\ i - 1 \in 1..i /\ 1 \in 1..Len(out)
      BY <2>1
    <3>2. out[i].delta = Offset(out[i]) - Offset(out[1])
      BY <1>1, <2>1, <2>2, <3>1 DEF ClockInv, Records
    <3>3. Offset(out[i - 1]) - out[i - 1].span <= Offset(out[i]) + out[i].span
      BY <1>1, <3>1 DEF ClockInv, Records
    <3>4. /\ 2 * out[i].span <= Threshold(out) /\ 2 * out[i - 1].span <= Threshold(out)
          /\ out[i].span \in Nat /\ out[i - 1].span \in Nat
          /\ Offset(out[i]) \in Int /\ Offset(out[i - 1]) \in Int
      BY <2>3, <2>4, <3>1
    <3>5. Threshold(out) \in Nat
      BY <2>4
    <3>6. Offset(out[i]) - Offset(out[i - 1]) >= -Threshold(out)
      <4>1. \A o, p \in Int : \A h, s, q \in Nat :
              p - q <= o + s /\ 2 * s <= h /\ 2 * q <= h => o - p >= -h
        OBVIOUS
      <4> QED
        BY <3>3, <3>4, <3>5, <4>1
    <3> QED
      BY <3>2, <3>6
  <2>6. Consistent(out)
    BY <2>5 DEF Consistent
  <2>7. OneBoot(out)
    BY <1>1, <2>1, <2>2 DEF ClockInv, Records, OneBoot
  <2>8. Covered(pulled)
    BY <2>1, <2>6, <2>7 DEF Covered
  <2> QED
    BY <2>8 DEF Status, Verdict
<1> QED
  BY <1>1, FileInvariance, ClockInvariance, PTL
===============================================================================
