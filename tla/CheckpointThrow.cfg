SPECIFICATION Spec
CONSTANTS
  NumActors = 2
  Checkpoints = {"read"}
  Schedules <- OverlappingSchedule
  Suppressors = {}
  MaxAttempts = 1
INVARIANTS
  RunScheduleReturnsHandle
