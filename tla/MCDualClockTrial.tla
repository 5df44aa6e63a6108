--------------------------- MODULE MCDualClockTrial ---------------------------
(* Times in microseconds, with the constants of the analyzer. *)
EXTENDS DualClockTrial, TLC

CONSTANTS c1, c2
MCCgroups == {c1, c2}
MCSymmetry == Permutations(MCCgroups)

\* A reading is held up a little, by a scheduler tick, too long for a pair, or
\* too long for a gap.
MCDelays == {3, 20000, 120000, 400000}
MCSuspends == {800, 150000}

\* The clocks misbehave, or the trial process, its cgroup and the boot_id do.
MCOneKindOfTrouble == jolts = 0 \/ (events = 0 /\ holder # "zombie" /\ frozen = {})

\* The host has pulled less than there is: it has its verdict, and the observer,
\* which never rewrites a record, is not followed further.
MCPulledEarly == hpc = "ok" /\ pulled.recs # out
MCFollowed == MCOneKindOfTrouble /\ ~MCPulledEarly
===============================================================================
