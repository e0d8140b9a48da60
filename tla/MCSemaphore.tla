----------------------------- MODULE MCSemaphore -----------------------------
(* One round of acquires for TLC, for liveness.                            *)
EXTENDS Semaphore
=============================================================================
