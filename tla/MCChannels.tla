----------------------------- MODULE MCChannels -----------------------------
(* The condition variable, the channels, their users and the queue of the   *)
(* clock for TLC.  They share no state, so a behaviour explores one of them *)
(* and leaves the others in their initial state.                            *)
EXTENDS Condvar, Oneshot, Spsc, Watch, Keyboard, SleepQueue

VARIABLE part

rest == <<part>>
vars == <<cvVars, osVars, spscVars, watchVars, kbVars, sleepVars, part>>

Init ==
  /\ cvInit /\ osInit /\ channel /\ pair /\ kbInit /\ sleepInit
  /\ part \in {"condvar", "oneshot", "spsc", "watch", "keyboard", "sleep"}

Next ==
  \/ part = "condvar"  /\ cvNext    /\ UNCHANGED <<osVars, spscVars, watchVars, kbVars, sleepVars, rest>>
  \/ part = "oneshot"  /\ osNext    /\ UNCHANGED <<cvVars, spscVars, watchVars, kbVars, sleepVars, rest>>
  \/ part = "spsc"     /\ spscNext  /\ UNCHANGED <<cvVars, osVars, watchVars, kbVars, sleepVars, rest>>
  \/ part = "watch"    /\ watchNext /\ UNCHANGED <<cvVars, osVars, spscVars, kbVars, sleepVars, rest>>
  \/ part = "keyboard" /\ kbNext    /\ UNCHANGED <<cvVars, osVars, spscVars, watchVars, sleepVars, rest>>
  \/ part = "sleep"    /\ sleepNext /\ UNCHANGED <<cvVars, osVars, spscVars, watchVars, kbVars, rest>>

Spec == Init /\ [][Next]_vars
=============================================================================
