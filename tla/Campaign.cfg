\* Campaigns of three boots up to the limits of the contract and one beyond.
SPECIFICATION MCSpec
CONSTANTS
  b1 = b1  b2 = b2  b3 = b3  nominal = nominal  elevated = elevated
  Boots <- MCBoots
  Conditions <- MCConditions
  Outcomes <- MCOutcomes
  Recorded <- MCRecorded
SYMMETRY MCSymmetry
INVARIANTS CompatibleIsEarned
PROPERTY FatalIsFinal
CHECK_DEADLOCK FALSE
