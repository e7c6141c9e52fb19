SPECIFICATION Spec
CONSTANTS
  Streams = {s1}
  Null = Null
  Wrap = Wrap
  MaxCalls = 3
  SpawnFails = FALSE
  CliOutputFails = FALSE
CHECK_DEADLOCK FALSE
INVARIANTS
  UsesItsOwnArguments
  StatusTellsOutcome
  TimingsSurvive
