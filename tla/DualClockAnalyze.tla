--------------------------- MODULE DualClockAnalyze ---------------------------
(***************************************************************************)
(* tools/rmg-eze4/c2_dual_clock_analyze.py: what is concluded from the     *)
(* file of a clock observer.  A file is the sequence of records that parse *)
(* and a flag that says whether some line did not.  Times are in ticks.    *)
(* Fields that are a difference of two other fields and that the observer  *)
(* always computes (elapsed times, sampling gap) are not kept; the one it  *)
(* sometimes leaves out, suspend_delta_ns, is.  A sequence number is the   *)
(* place of a record.                                                      *)
(***************************************************************************)
EXTENDS Integers, Sequences, SequencesExt

CONSTANTS
  MinMargin,    \* MIN_DETECTION_MARGIN_NS
  MaxPairSpan,  \* MAX_PAIR_SPAN_NS
  MaxGap,       \* MAX_GAP_NS
  Resolution,   \* the coarser of the two clock resolutions
  Null          \* JSON null

ASSUME MarginAssumption == {MinMargin, MaxPairSpan, MaxGap, Resolution} \subseteq Nat

Conclusive == {"NO_SUSPEND_OBSERVED", "SUSPEND_OBSERVED"}

Offset(r) == r.boot - r.mono
Samples(recs) == SelectSeq(recs, LAMBDA r : r.kind = "sample")

\* _percentile with fraction 0.95: of the values in order, the one at the place
\* ceil(0.95 * n), counted from one.
P95(values) ==
  LET place == (95 * Len(values) + 99) \div 100
  IN CHOOSE v \in Range(values) :
       /\ Cardinality({i \in DOMAIN values : values[i] < v}) < place
       /\ Cardinality({i \in DOMAIN values : values[i] <= v}) >= place

Larger(a, b) == IF a < b THEN b ELSE a

\* Bug: the margin ignores how long the pairs took.
FixedThreshold(recs) == MinMargin

\* _percentile_margin: the change of the offset that counts as a suspend.
Threshold(recs) ==
  Larger(MinMargin, 4 * (2 * P95([i \in DOMAIN recs |-> recs[i].span]) + 4 * Resolution))

\* Bug: the end record is not asked for.
StructuredSoFar(recs) ==
  recs # <<>> /\ recs[1].kind = "metadata" /\ Len(Samples(recs)) >= 2

\* One record of each kind where it belongs.
Structured(recs) ==
  /\ recs # <<>>
  /\ recs[1].kind = "metadata"
  /\ Last(recs).kind = "end"
  /\ \A i \in 2..Len(recs) - 1 : recs[i].kind = "sample"
  /\ Len(Samples(recs)) >= 2

\* The clocks never go back, no gap and no pair of readings is too wide.
Regular(recs) ==
  \A i \in 2..Len(recs) :
    /\ recs[i].mono - recs[i - 1].mono \in 0..MaxGap
    /\ recs[i].boot >= recs[i - 1].boot
    /\ recs[i].span <= MaxPairSpan

\* The redundant fields agree with the clocks, and the offset never drops.
Consistent(recs) ==
  \A i \in 2..Len(recs) :
    /\ recs[i].delta = Offset(recs[i]) - Offset(recs[1])
    /\ Offset(recs[i]) - Offset(recs[i - 1]) >= -Threshold(recs)

\* A boot_id that was read and is not the first one: the clocks span a reboot.
OneBoot(recs) == \A i \in DOMAIN recs : recs[i].bootId # "MISMATCH"

Covered(file) ==
  /\ ~file.broken
  /\ Structured(file.recs) /\ Regular(file.recs)
  /\ Consistent(file.recs) /\ OneBoot(file.recs)

\* The trial's cgroup was bound, every point read it as running, and every record
\* has the boot_id.
WatchedPoint(r) == r.status = "AVAILABLE" /\ r.frozen = 0 /\ r.populated = 1
Watched(recs) ==
  /\ recs[1].bound = "AVAILABLE"
  /\ \A i \in DOMAIN recs : recs[i].kind # "metadata" => WatchedPoint(recs[i])
  /\ \A i \in DOMAIN recs : recs[i].bootId = "AVAILABLE"

\* Bug: only the change from one record to the next is looked at.
DivergedAtOnce(recs) ==
  \E i \in 2..Len(recs) : Offset(recs[i]) - Offset(recs[i - 1]) > Threshold(recs)

\* The largest change since the first record counts as a suspend.
Diverged(recs) ==
  \E i \in DOMAIN recs : Offset(recs[i]) - Offset(recs[1]) > Threshold(recs)

\* Conclusions, from the strongest objection to none.
Verdict(file) ==
  IF ~Covered(file) THEN "COVERAGE_INVALID"
  ELSE IF ~Watched(file.recs) THEN "C2_UNKNOWN"
  ELSE IF Diverged(file.recs) THEN "SUSPEND_OBSERVED"
  ELSE "NO_SUSPEND_OBSERVED"
===============================================================================
