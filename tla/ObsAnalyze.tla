------------------------------ MODULE ObsAnalyze ------------------------------
(***************************************************************************)
(* tools/rmg-eze4/c2_obs_01_analyze.py and c3_obs_01_analyze.py: what the  *)
(* offline analyzers conclude from a file f of ObsCollect.  They share the *)
(* checks of the file and of the heartbeats; the errors are kept apart only*)
(* as far as a verdict does.                                               *)
(***************************************************************************)
EXTENDS Naturals, Sequences, FiniteSets

CONSTANT MaxGap   \* MAX_GAP_NS, 500 ms

ASSUME GapAssumption == MaxGap \in Nat \ {0}

\* A selection of records is the set of their places in the file.
Measured(f, measurement) == {i \in DOMAIN f : f[i].measurement = measurement}
Heartbeats(f) == Measured(f, "heartbeat")
Of(f, source) == {i \in DOMAIN f : f[i].source = source}
Good(f, S) == {i \in S : f[i].status = "AVAILABLE"}

\* The places j and, right before it in the selection, i.
Adjacent(S, i, j) == i < j /\ \A k \in S : k <= i \/ j <= k

\* The value of the metadata record, or what a file without one amounts to.
Metadata(f, sources) ==
  IF Cardinality(Measured(f, "metadata")) = 1
  THEN f[CHOOSE i \in Measured(f, "metadata") : TRUE].value
  ELSE [ident |-> FALSE, clamped |-> FALSE, found |-> [s \in sources |-> "MISSING"]]

C2Sources == {"suspend_success", "wakeup_count", "cgroup"}
C3Sources == {"temperature", "effective_freq", "max_freq", "trial_cpu", "trip_points"}

\* parse_jsonl and the checks of sequence numbers, time stamps and metadata.
FileErrors(f) ==
  \/ Measured(f, "torn") # {}
  \/ \E i, j \in DOMAIN f :
       j = i + 1 /\ (f[i].sequence >= f[j].sequence \/ f[i].at > f[j].at)
  \/ Cardinality(Measured(f, "metadata")) # 1

\* Bug: the gaps on average.
CoverageErrorsOnAverage(f) ==
  LET hb == Heartbeats(f) IN
  \/ Cardinality(hb) < 2
  \/ \E i, j \in hb : f[j].at > f[i].at + (Cardinality(hb) - 1) * MaxGap
  \/ Good(f, hb) # hb

\* Too few heartbeats, two of them too far apart, or one without an answer.
CoverageErrors(f) ==
  LET hb == Heartbeats(f) IN
  \/ Cardinality(hb) < 2
  \/ \E i, j \in hb : Adjacent(hb, i, j) /\ f[j].at - f[i].at > MaxGap
  \/ Good(f, hb) # hb

\* A source that was not read in every cycle, or not always with an answer.
Incomplete(f, source) ==
  \/ Cardinality(Of(f, source)) < Cardinality(Heartbeats(f))
  \/ Good(f, Of(f, source)) # Of(f, source)

Reads(f, source) == {f[i].value : i \in Good(f, Of(f, source))}

(***************************************************************************)
(* C2: a freeze of the trial process or a power transition of the device.  *)
(***************************************************************************)
C2Found(f) == Metadata(f, C2Sources).found

C2Errors(f) ==
  \/ FileErrors(f) \/ CoverageErrors(f)
  \/ ~Metadata(f, C2Sources).ident
  \/ C2Found(f)["cgroup"] # "AVAILABLE" \/ Incomplete(f, "cgroup")
  \/ \A c \in {"suspend_success", "wakeup_count"} :
       \/ C2Found(f)[c] # "AVAILABLE"
       \/ Cardinality(Good(f, Of(f, c))) < Cardinality(Heartbeats(f))

\* The device's boot time outran the host's clock between two heartbeats.
Outran(f) ==
  LET timed == Good(f, Heartbeats(f)) IN
  \E i, j \in timed :
    Adjacent(timed, i, j) /\ f[j].value - f[i].value > f[j].at - f[i].at + MaxGap

C2Event(f) ==
  \/ TRUE \in Reads(f, "cgroup")
  \/ \E c \in {"suspend_success", "wakeup_count"} : Cardinality(Reads(f, c)) > 1
  \/ Outran(f)

C2Status(f) ==
  IF C2Event(f) THEN "PRESENT"
  ELSE IF C2Errors(f) \/ \E i \in DOMAIN f : f[i].status = "AMBIGUOUS" THEN "UNKNOWN"
  ELSE "ABSENT"

(***************************************************************************)
(* C3: a thermal excursion, a lowered frequency limit or a trial process   *)
(* outside its declared CPUs.                                              *)
(***************************************************************************)
C3Found(f) == Metadata(f, C3Sources).found

\* The sources that must have been read: those discovery could read, or all
\* that it saw when it could read none.
Expected(f) ==
  LET sampled == {s \in C3Sources \ {"trip_points"} : C3Found(f)[s] = "AVAILABLE"} IN
  IF sampled # {} THEN sampled
  ELSE {s \in C3Sources \ {"trip_points"} : C3Found(f)[s] # "MISSING"}

NoThermal(f) == C3Found(f)["temperature"] = "MISSING"
NoFrequency(f) == \A s \in {"effective_freq", "max_freq"} : C3Found(f)[s] = "MISSING"

OutOfStratum(f) == TRUE \in Reads(f, "trial_cpu")

\* Bug: an excursion counts although the readings around it are in doubt.
C3ErrorsLate(f) ==
  FileErrors(f) \/ ~Metadata(f, C3Sources).ident \/ OutOfStratum(f)

C3Errors(f) ==
  \/ FileErrors(f) \/ CoverageErrors(f)
  \/ ~Metadata(f, C3Sources).ident
  \/ NoThermal(f) \/ NoFrequency(f)
  \/ \E s \in Expected(f) : Incomplete(f, s)
  \/ OutOfStratum(f)

\* thermal_bound, frequency_bound, cpu_bound and readings of each.
Complete(f) ==
  /\ ~C3Errors(f)
  /\ \A s \in {"temperature", "effective_freq", "trial_cpu"} : C3Found(f)[s] = "AVAILABLE"
  /\ C3Found(f)["trip_points"] # "MISSING"

\* A threshold that could not be read is none; the limit read at discovery is
\* the one the later readings are compared with.
C3Event(f) ==
  \/ C3Found(f)["trip_points"] = "AVAILABLE" /\ TRUE \in Reads(f, "temperature")
  \/ ~Metadata(f, C3Sources).clamped /\ C3Found(f)["max_freq"] = "AVAILABLE"
     /\ TRUE \in Reads(f, "max_freq")
  \/ OutOfStratum(f)

C3Status(f) ==
  IF ~Metadata(f, C3Sources).ident \/ (NoThermal(f) /\ NoFrequency(f)) THEN "BLOCKED"
  ELSE IF Complete(f) THEN "OBSERVABLE" ELSE "PARTIAL"

C3Class(f) ==
  IF ~C3Errors(f) /\ C3Event(f) THEN "PRESENT"
  ELSE IF Complete(f) THEN "ABSENT" ELSE "UNKNOWN"
===============================================================================
