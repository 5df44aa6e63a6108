\* Three invocations, each of the pipeline or of one script of it.
SPECIFICATION Spec
CONSTANTS
  NPatches = 2
  MaxCommands = 3
INVARIANTS SumsNeverOverMixture VerifiedIsWhole FailureHidesOldSuccess
  MadeOfTheRightSources PipelineIsCurrent
