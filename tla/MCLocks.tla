------------------------------- MODULE MCLocks -------------------------------
(* The semaphore and the read-write lock built on it for TLC: the futures  *)
(* of a behaviour use either the semaphore itself or the lock.             *)
EXTENDS RwLock, TLC

VARIABLE part

MCInit == part \in {"semaphore", "rwlock"} /\ RwInit

MCNext ==
  /\ \/ part = "semaphore" /\ Next /\ UNCHANGED <<data, seen>>
     \/ part = "rwlock" /\ RwNext
  /\ UNCHANGED part

MCSpec == MCInit /\ [][MCNext]_<<part, rwVars>>

Symmetry == Permutations(Futures)

Guarded ==
  INSTANCE LockPromise
    WITH mode  <- IF part = "rwlock" THEN Mode ELSE [f \in Futures |-> "none"],
         value <- data,
         view  <- seen

(* Through waits, cancellations, drops and downgrades the lock shows its   *)
(* callers a plain read-write lock: ImplementsLock of RwLock where the     *)
(* futures use the lock.                                                   *)
LockPromised == Guarded!Spec
==============================================================================
