\* Two runs, with one identifier or two, on one cache of stock modules.
SPECIFICATION Spec
CONSTANTS
  r1 = r1  r2 = r2
  i1 = i1  i2 = i2
  Runs <- MCRuns
  Ids <- MCIds
  Modules = {"m1", "m2"}
  Files = {"Image"}
  Nobody = Nobody
SYMMETRY MCSymmetry
INVARIANTS RerunStartsClean SuccessIsWhole PartialAuditIsForeign EveryModuleIsCounted
