---------------------------- MODULE MCU11Evidence ----------------------------
\* U11Evidence for TLC: two builds, of which the profiles of the first are
\* closed under the dependencies of the second, but not the reverse.
EXTENDS U11Evidence, TLC

CONSTANTS r1, r2

MCGens == {1, 2}
MCCloses == {<<1, 1>>, <<1, 2>>, <<2, 2>>}
MCSmall == {"minimal", "ufs"}
MCRunIds == {r1, r2}

MCSymmetry == Permutations(MCRunIds)
=============================================================================
