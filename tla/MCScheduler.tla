---------------------------- MODULE MCScheduler ----------------------------
(* Bounds for the scheduler: the boot and idle slots, the slot only the    *)
(* self-test uses and one or two slots for external tasks.                 *)
EXTENDS Scheduler

=============================================================================
