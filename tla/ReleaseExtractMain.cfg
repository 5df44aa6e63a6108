\* The handler of main against an output that already exists.
SPECIFICATION Spec
CONSTANTS
  Names <- MCNames
  ArchiveSet <- MCFewArchives
  OldTree <- MCOldTree
  NoOutput = NoOutput
  Fuel = 9
PROPERTY MainKeepsExisting
