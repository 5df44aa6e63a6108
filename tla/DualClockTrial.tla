---------------------------- MODULE DualClockTrial ----------------------------
(***************************************************************************)
(* A trial from end to end: run_c2_dual_clock_adb.sh on the host pushes    *)
(* and launches the observer, waits without looking, pulls its file and    *)
(* hands it to the analyzer.  The host's clock knows nothing of the        *)
(* device's, so the pull may come at any time.                             *)
(***************************************************************************)
EXTENDS DualClockObserver

VARIABLES
  hpc,     \* the host script: its next step, "ok" or "exit"
  remote,  \* the result path on the device: "none", "stale" or "mine"
  pulled   \* what the host has pulled: [whose, recs, broken] or Null

hostVars == <<hpc, remote, pulled>>
vars == <<observerVars, hostVars>>

Init ==
  /\ InitObserver
  /\ hpc = "launch"
  /\ remote \in {"none", "stale"}
  /\ pulled = Null

\* Bug: the launch does not look for a result.
LaunchAnyway ==
  /\ hpc = "launch"
  /\ hpc' \in {"alive", "exit"}
  /\ UNCHANGED <<observerVars, remote, pulled>>

\* The launch transaction rejects a result that exists; the parent of the
\* detached observer prints its PID, or does not, and the script gives up.
Launch ==
  /\ hpc = "launch"
  /\ \/ remote = "none" /\ hpc' = "alive"
     \/ hpc' = "exit"
  /\ UNCHANGED <<observerVars, remote, pulled>>

\* kill -0 once after the launch.
CheckAlive ==
  /\ hpc = "alive"
  /\ hpc' = IF opc \in {"done", "failed"} THEN "exit" ELSE "pull"
  /\ UNCHANGED <<observerVars, remote, pulled>>

\* The wait is over: adb pull.  Before the observer has closed its file only
\* what its buffer has spilled is there, which may end in the middle of a line.
Pull ==
  /\ hpc = "pull"
  /\ \/ hpc' = "exit" /\ UNCHANGED pulled
     \/ /\ remote = "stale"
        /\ hpc' = "ok"
        /\ pulled' = [whose |-> "stale", recs |-> <<>>, broken |-> TRUE]
     \/ /\ remote = "mine"
        /\ hpc' = "ok"
        /\ \/ closed /\ pulled' = [whose |-> "mine", recs |-> out, broken |-> FALSE]
           \/ /\ ~closed
              /\ \E n \in 0..Len(out), b \in BOOLEAN :
                   pulled' = [whose |-> "mine", recs |-> SubSeq(out, 1, n), broken |-> b]
  /\ UNCHANGED <<observerVars, remote>>

\* The observer runs once launched; it creates the result with O_EXCL when it
\* has its first record.
Observing ==
  /\ hpc # "launch"
  /\ Observe
  /\ IF out = <<>> /\ out' # <<>>
     THEN remote = "none" /\ remote' = "mine"
     ELSE UNCHANGED remote
  /\ UNCHANGED <<hpc, pulled>>

Around == hpc # "launch" /\ Device /\ UNCHANGED hostVars

Over == hpc \in {"ok", "exit"} /\ opc \in {"done", "failed"} /\ UNCHANGED vars
NeverLaunched == hpc = "exit" /\ UNCHANGED vars

Next == Launch \/ CheckAlive \/ Pull \/ Observing \/ Around \/ Over \/ NeverLaunched
Spec == Init /\ [][Next]_vars

(***************************************************************************)
(* Properties.                                                             *)
(***************************************************************************)
Judged == hpc = "ok" /\ pulled.whose = "mine"
Status == Verdict(pulled)

\* A pull that comes before the observer has closed its file -- because the
\* device slept, or the observer was slow or dead -- never yields a conclusion.
ConclusiveIsComplete ==
  Judged /\ Status \in Conclusive => pulled.recs = out /\ Last(out).kind = "end"

\* A result an earlier trial with this identifier left on the device is never
\* taken for that of this one, also if the new observer fails to start.
NoStaleEvidence == hpc = "ok" => pulled.whose = "mine"

\* No pair of readings took much longer than the others.  With fewer than twenty
\* records the 95th percentile of the spans is their maximum; with more, a single
\* pair that was held up does not widen the margin.
EvenlyRead(recs) ==
  Len(recs) < 20 \/ \A i \in DOMAIN recs : 2 * recs[i].span <= Threshold(recs)

\* SUSPEND_OBSERVED only if the device really suspended during the trial: readings
\* that were held up, unless one of them stands out, never look like a suspend.
TrueSuspend == truth.to - truth.from
NoFalseSuspend ==
  Judged /\ Status = "SUSPEND_OBSERVED" /\ EvenlyRead(pulled.recs) => TrueSuspend > 0

\* And NO_SUSPEND_OBSERVED only if it did not, up to the margin and to the
\* error of the two pairs; what happens after the last reading does not count.
SuspendNotMissed ==
  Judged /\ Status = "NO_SUSPEND_OBSERVED" =>
    TrueSuspend <= Threshold(out) + out[1].span + Last(out).span

\* A complete timeline without wide gaps or pairs is judged, however often the
\* readings were held up and the device suspended, whatever became of the trial
\* process and whichever later boot_id could not be read: not COVERAGE_INVALID,
\* which c2_dual_clock_analyze.py:18-20 keeps for one that "is malformed, incomplete,
\* regressed, or has a sampling gap".  Three such timelines are judged invalid all
\* the same and are left out: one whose first boot_id was not read, because the
\* observer then reports every one it does read as MISMATCH; one with an offset
\* below zero, for which it leaves suspend_delta_ns null; and one with a pair that
\* stands out among twenty records or more (EvenlyRead).
IntactIsUsable ==
  Judged /\ ~pulled.broken /\ Structured(pulled.recs) /\ Regular(pulled.recs)
    /\ EvenlyRead(pulled.recs)
    /\ (\A i \in DOMAIN pulled.recs : Offset(pulled.recs[i]) >= 0)
    /\ pulled.recs[1].bootId = "AVAILABLE"
    => Status # "COVERAGE_INVALID"

\* When the bound trial process is gone before the last sample, nothing is
\* concluded, not even if its PID is in use again in the same cgroup.  It is gone
\* when it has been reaped: the observer does not look at the state of a process,
\* and takes a zombie whose cgroup others populate for the running trial.  And the
\* new process must not have started in the same clock tick.
ExitIsNoticed ==
  Judged /\ Status \in Conclusive =>
    gone = Null \/ gone >= Len(pulled.recs) - 1 \/ twin
===============================================================================
