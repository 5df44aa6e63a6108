------------------------------ MODULE MCEze4Build ------------------------------
(* Two runs that overlap, or that reuse one identifier. *)
EXTENDS Eze4Build, TLC

CONSTANTS r1, r2, i1, i2
MCRuns == {r1, r2}
MCOneRun == {r1}
MCIds == {i1, i2}
MCOneId == {i1}
MCSymmetry == Permutations(MCRuns) \cup Permutations(MCIds)
===============================================================================
