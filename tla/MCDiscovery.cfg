SPECIFICATION Spec
CONSTANTS
  Depth = 3
  SegPrefix <- Begins
  DefaultTTL = 1
  DefaultWeight = 100
  MaxPort = 100
  Inputs <- SomeInputs
  KeyOrder <- SomeKeys
  Queries <- SomeQueries
  Watched <- SomeWatched
  Wildcards = {"any"}
  MaxRev = 3
  MaxTime = 3
INVARIANTS TypeOK QueryExact ViewExact Addressable TargetsExact
CHECK_DEADLOCK FALSE
