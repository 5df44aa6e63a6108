\* Every archive of at most three members, both callers.
SPECIFICATION Spec
CONSTANTS
  Names <- MCNames
  ArchiveSet <- MCArchives
  OldTree <- MCOldTree
  NoOutput = NoOutput
  Fuel = 9
INVARIANTS LinksStayInside ParentsAreDirectories SuccessIsFaithful
  WellFormedAccepted FailureLeavesNothing UnpackKeepsExisting
