\* Two hold-ups or suspends anywhere in a short trial, or two events of the
\* trial process, its cgroup or the boot_id; results an earlier trial left.
SPECIFICATION Spec
CONSTANTS
  MinMargin = 1000
  MaxPairSpan = 100000
  MaxGap = 500000
  Resolution = 1
  Null = Null
  Interval = 200000
  Duration = 400000
  Offset0 = 10000000
  Delays <- MCDelays
  Suspends <- MCSuspends
  MaxJolts = 2
  c1 = c1  c2 = c2
  Cgroups <- MCCgroups
  MaxEvents = 2
SYMMETRY MCSymmetry
CONSTRAINT MCFollowed
INVARIANTS NoFalseSuspend SuspendNotMissed IntactIsUsable
  ConclusiveIsComplete NoStaleEvidence ExitIsNoticed
