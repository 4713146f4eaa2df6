CONSTANTS
  Requests = {r1}
  MaxParts = 4
  Errors = {e1}
  Ok = Ok
  InitLens <- TwoBlocks
  Lens = {1}
  MaxBlocks = 4
SPECIFICATION DiskSpec
INVARIANT TypeOK
INVARIANT CountExact
INVARIANT CompletedByLast
INVARIANT FailureLatched
PROPERTY EveryRequestCompletes
PROPERTY ArraySpec
CHECK_DEADLOCK FALSE
