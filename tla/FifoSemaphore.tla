---------------------------- MODULE FifoSemaphore ----------------------------
(***************************************************************************)
(* What library/async_locks/src/semaphore.rs promises, with no lock, no    *)
(* pool and no waker: free permits, one line of requests served strictly   *)
(* in order of arrival, and who answers for how many permits.              *)
(***************************************************************************)
EXTENDS Integers

CONSTANTS Futures, Total, Requests

VARIABLES avail,     \* permits nobody answers for
          line,      \* who waits: for how many permits, and behind whom
          own,       \* permits each future answers for
          lost       \* permits of forgotten guards

absVars == <<avail, line, own, lost>>

Waiting == DOMAIN line

Init ==
  /\ avail = Total
  /\ line = [f \in {} |-> 0]
  /\ own = [f \in Futures |-> 0]
  /\ lost = 0

(* Permits are taken on the spot only when nobody is waiting.              *)
Take(f) ==
  /\ Waiting = {}
  /\ \E n \in 1..avail : avail' = avail - n /\ own' = [own EXCEPT ![f] = @ + n]
  /\ UNCHANGED <<line, lost>>

(* A request lines up behind all others.                                   *)
LineUp(f) ==
  /\ f \notin Waiting
  /\ \E n \in Requests :
       line' = [g \in Waiting \cup {f} |->
                  IF g = f THEN [n |-> n, ahead |-> Waiting] ELSE line[g]]
  /\ UNCHANGED <<avail, own, lost>>

(* The line when f is out of it.                                           *)
Without(f) ==
  [g \in Waiting \ {f} |-> [n |-> line[g].n, ahead |-> line[g].ahead \ {f}]]

(* Only the oldest request can be served, and only in full.                *)
Serve(f) ==
  /\ f \in Waiting
  /\ line[f].ahead = {}
  /\ line[f].n <= avail
  /\ avail' = avail - line[f].n
  /\ own' = [own EXCEPT ![f] = @ + line[f].n]
  /\ line' = Without(f)
  /\ UNCHANGED lost

(* A waiting request may be withdrawn from anywhere in the line.           *)
Leave(f) ==
  /\ f \in Waiting
  /\ line' = Without(f)
  /\ UNCHANGED <<avail, own, lost>>

GiveBack(f) ==
  \E n \in 1..own[f] :
    /\ own' = [own EXCEPT ![f] = @ - n]
    /\ avail' = avail + n
    /\ UNCHANGED <<line, lost>>

ForgetOwn(f) ==
  /\ lost' = lost + own[f]
  /\ own' = [own EXCEPT ![f] = 0]
  /\ UNCHANGED <<avail, line>>

Recover(f) ==
  \E n \in 1..lost :
    /\ lost' = lost - n
    /\ own' = [own EXCEPT ![f] = @ + n]
    /\ UNCHANGED <<avail, line>>

Next ==
  \E f \in Futures :
    \/ Take(f) \/ LineUp(f) \/ Serve(f) \/ Leave(f)
    \/ GiveBack(f) \/ ForgetOwn(f) \/ Recover(f)

Spec == Init /\ [][Next]_absVars
=============================================================================
