SPECIFICATION Spec
CONSTANTS
  NumActors = 2
  Checkpoints = {"read"}
  Schedules <- ManySchedules
  Suppressors = {2}
  MaxAttempts = 2
INVARIANTS
  TypeOK
  Isolation
  EvidenceTrue
  TeardownOnceAfterJoin
  CleanupTruthful
PROPERTIES
  PrimaryFailureSticky
  LimitsBeatCompletion
