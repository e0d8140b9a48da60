---------------------------- MODULE MCScheduler ----------------------------
(* Instances of Scheduler for TLC: the kernel thread and two user threads. *)
EXTENDS Scheduler
=============================================================================
