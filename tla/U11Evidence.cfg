\* Five commands over two builds, each ending anywhere.
SPECIFICATION Spec
CONSTANTS
  r1 = r1  r2 = r2  Mixed = Mixed  None = None  Torn = Torn
  Gens <- MCGens
  Sound <- MCGens
  Closes <- MCCloses
  Small <- MCSmall
  RunIds <- MCRunIds
  Orderly = TRUE
  MaxOps = 5
SYMMETRY MCSymmetry
INVARIANTS CountedIsPacked ReadyIsOfOneBuild ReproducedTwice
PROPERTY AuditIsOfNow
CHECK_DEADLOCK FALSE
