---------------------- MODULE MCCheckpointSchedule ----------------------
(***************************************************************************)
(* Instances of CheckpointSchedule: two actors and one declared checkpoint,*)
(* with the overlapping and the serial schedule of the counter example and *)
(* schedules that admission must reject.                                   *)
(***************************************************************************)
EXTENDS CheckpointSchedule

To(a, c) == [actor |-> a, checkpoint |-> c]

Overlapping == <<To(1, "read"), To(2, "read"), To(1, "$done"), To(2, "$done")>>
Serial == <<To(1, "read"), To(1, "$done"), To(2, "$done")>>
AfterCompletion == <<To(1, "$done"), To(2, "$done"), To(1, "read")>>
MissingCompletion == <<To(1, "read"), To(2, "$done")>>

OverlappingSchedule == {Overlapping}
ShortSchedule == {<<To(1, "$done"), To(2, "$done")>>}
ManySchedules == {Overlapping, Serial, AfterCompletion, MissingCompletion}
==========================================================================
