SPECIFICATION FairSpec
CONSTANTS
  NumActors = 2
  Checkpoints = {"read"}
  Schedules <- ShortSchedule
  Suppressors = {2}
  MaxAttempts = 1
PROPERTIES
  CallsReturn
  DestructorEnds
