\* One run: what the gate lets through.
SPECIFICATION Spec
CONSTANTS
  r1 = r1  r2 = r2
  i1 = i1  i2 = i2
  Runs <- MCOneRun
  Ids <- MCOneId
  Modules = {"m1", "m2"}
  Files = {"Image"}
  Nobody = Nobody
INVARIANT GateMeansParity
