\* Both collectors and their analyzers: at most two slow or failed readings or
\* sources not found.  The collector stops at its end.
SPECIFICATION FairSpec
CONSTANTS
  Interval = 2
  Duration = 5
  MaxGap = 2
  MaxTrouble = 2
  Delays <- MCDelays
  Episodes <- MCEpisodes
  None = None
INVARIANTS AbsenceIsCovered PresenceIsReal NeverAheadOfSchedule
PROPERTY CollectorEnds
CHECK_DEADLOCK FALSE
