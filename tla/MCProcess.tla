------------------------------ MODULE MCProcess ------------------------------
(* Processes and futexes for TLC: a behaviour explores one of the two and   *)
(* leaves the other where it starts.                                        *)
EXTENDS Process, Futex

VARIABLE part

vars == <<procVars, futexVars, part>>

Init ==
  /\ procInit /\ futexInit
  /\ part \in {"process", "futex"}
  /\ part # "process" => calls = 0

Next ==
  \/ part = "process" /\ procNext  /\ UNCHANGED <<futexVars, part>>
  \/ part = "futex"   /\ futexNext /\ UNCHANGED <<procVars, part>>

Spec == Init /\ [][Next]_vars
==============================================================================
