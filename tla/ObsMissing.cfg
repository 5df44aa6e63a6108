\* The C3 docstring against signals that discovery could not read.
SPECIFICATION Spec
CONSTANTS
  Interval = 2
  Duration = 5
  MaxGap = 2
  MaxTrouble = 2
  Delays <- MCDelays
  Episodes <- MCEpisodes
  None = None
INVARIANT MissingIsNotAbsence
CHECK_DEADLOCK FALSE
