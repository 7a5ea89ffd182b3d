SPECIFICATION Spec
CONSTANTS
  NumActors = 2
  Checkpoints = {"read"}
  Schedules <- ShortSchedule
  Suppressors = {}
  MaxAttempts = 1
INVARIANTS
  StopInterruptsWait
