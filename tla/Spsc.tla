-------------------------------- MODULE Spsc --------------------------------
(***************************************************************************)
(* The bounded single-producer single-consumer channel of                  *)
(* library/async_locks/src/channel/spsc.rs.                                *)
(*                                                                         *)
(* The two ends run the same protocol against two semaphores: side s takes *)
(* a credit of credit[s] (tx: a free slot, rx: a filled one), works on the *)
(* next slot of the ring and gives a credit to the other side.  One side   *)
(* never has two calls in progress, so a semaphore has at most one waiter; *)
(* Semaphore.tla shows that it behaves as the atomic one used here.  Every *)
(* atomic access and every access of an UnsafeCell is a step of its own.   *)
(***************************************************************************)
EXTENDS Integers

CONSTANTS Size,     \* slots of the ring buffer
          MaxItems, \* bound: items the sender ever sends
          Empty     \* model value: a slot holding None

ASSUME SpscAssumption == Size \in Nat \ {0} /\ MaxItems \in Nat /\ Empty \notin Nat

Sides == {"tx", "rx"}
Peer(s) == IF s = "tx" THEN "rx" ELSE "tx"

VARIABLES
  credit,   \* credit[s]: free permits of the semaphore side s acquires
  turn,     \* turn[s]: its waiter: "none", "queued" or "granted"
  flag,     \* flag[s]: txstate / rxstate
  cell,     \* cell[s]: whether txwaker / rxwaker holds a waker
  lost,     \* lost[s]: lost_receiver / lost_sender
  index,    \* index[s]: slots the side has used; item i is the i-th one sent
  ring,     \* the slots
  woken,    \* woken[s]: the side's task is to be polled again
  at,       \* at[s]: the side's next step
  answer    \* answer[s]: what the side's last finished call returned

spscVars == <<credit, turn, flag, cell, lost, index, ring, woken, at, answer>>

SideTypes ==
  /\ turn \in [Sides -> {"none", "queued", "granted"}]
  /\ flag \in [Sides -> {"IDLE", "WAITING", "DROP"}]
  /\ cell \in [Sides -> BOOLEAN]
  /\ lost \in [Sides -> BOOLEAN]
  /\ index \in [Sides -> Nat]
  /\ woken \in [Sides -> BOOLEAN]
  /\ at \in [Sides -> {"idle", "tryLoad", "tryTake", "register", "failed", "load",
                       "acquire", "pending", "deregister", "clear", "slot",
                       "release", "drain", "abort", "abortClear", "abortDrop",
                       "dropTake", "gone"}]
  /\ answer \in [Sides -> {"none", "ok", "full", "lost", "lostTry"}]

(* Permits are never below 0 nor above the capacity, slots hold items.     *)
SpscTypeOK ==
  /\ credit \in [Sides -> 0..Size]
  /\ ring \in [0..(Size - 1) -> Nat \union {Empty}]
  /\ SideTypes

channel ==
  /\ credit = [s \in Sides |-> IF s = "tx" THEN Size ELSE 0]
  /\ turn = [s \in Sides |-> "none"]
  /\ flag = [s \in Sides |-> "IDLE"]
  /\ cell = [s \in Sides |-> FALSE]
  /\ lost = [s \in Sides |-> FALSE]
  /\ index = [s \in Sides |-> 0]
  /\ ring = [i \in 0..(Size - 1) |-> Empty]
  /\ woken = [s \in Sides |-> FALSE]
  /\ at = [s \in Sides |-> "idle"]
  /\ answer = [s \in Sides |-> "none"]

Goto(s, step) == at' = [at EXCEPT ![s] = step]
Return(s, a)  == Goto(s, "idle") /\ answer' = [answer EXCEPT ![s] = a]
MayCall(s)    == at[s] = "idle" /\ (s = "tx" => index["tx"] < MaxItems)

(* Semaphore::release(1) on the semaphore of side s: hand the permit to the *)
(* waiter and wake it, or keep it.                                          *)
Release1(s) ==
  IF turn[s] = "queued"
  THEN turn' = [turn EXCEPT ![s] = "granted"] /\ woken' = [woken EXCEPT ![s] = TRUE]
       /\ UNCHANGED credit
  ELSE credit' = [credit EXCEPT ![s] = @ + 1] /\ UNCHANGED <<turn, woken>>

(* Dropping side s's SemaphoreAcquireFuture: a granted permit goes back. *)
DropAcquire(s) ==
  /\ credit' = [credit EXCEPT ![s] = IF turn[s] = "granted" THEN @ + 1 ELSE @]
  /\ turn' = [turn EXCEPT ![s] = "none"]

-----------------------------------------------------------------------------
(* try_send and try_recv.  The sender looks at the flag first, the receiver *)
(* at the buffer first.                                                     *)
TryCall(s) ==
  /\ MayCall(s)
  /\ Goto(s, IF s = "tx" THEN "tryLoad" ELSE "tryTake")
  /\ UNCHANGED <<credit, turn, flag, cell, lost, index, ring, woken, answer>>

TryLoad(s) ==
  /\ at[s] = "tryLoad"
  /\ LET gone == lost[s] \/ flag[s] = "DROP"
     IN  /\ lost' = [lost EXCEPT ![s] = gone]
         /\ IF gone THEN Return(s, "lostTry")
            ELSE IF s = "tx" THEN Goto(s, "tryTake") /\ UNCHANGED answer
            ELSE Return(s, "full")
  /\ UNCHANGED <<credit, turn, flag, cell, index, ring, woken>>

TryTake(s) ==
  /\ at[s] = "tryTake"
  /\ IF credit[s] > 0
     THEN credit' = [credit EXCEPT ![s] = @ - 1] /\ Goto(s, "slot") /\ UNCHANGED answer
     ELSE /\ UNCHANGED credit
          /\ IF s = "tx" THEN Return(s, "full") ELSE Goto(s, "tryLoad") /\ UNCHANGED answer
  /\ UNCHANGED <<turn, flag, cell, lost, index, ring, woken>>

(* send and recv: a side that knows its peer is gone does not reserve. *)
Call(s) ==
  /\ MayCall(s)
  /\ \/ /\ ~lost[s]
        /\ cell' = [cell EXCEPT ![s] = TRUE]
        /\ Goto(s, "register")
        /\ UNCHANGED answer
     \/ /\ lost[s]
        /\ IF s = "tx" THEN Return(s, "lost") ELSE Goto(s, "drain") /\ UNCHANGED answer
        /\ UNCHANGED cell
  /\ UNCHANGED <<credit, turn, flag, lost, index, ring, woken>>

(* Poll of the reserve future: Init's compare_exchange ... *)
Register(s) ==
  /\ at[s] = "register"
  /\ IF flag[s] = "IDLE"
     THEN flag' = [flag EXCEPT ![s] = "WAITING"] /\ Goto(s, "load")
     ELSE Goto(s, "failed") /\ UNCHANGED flag
  /\ UNCHANGED <<credit, turn, cell, lost, index, ring, woken, answer>>

(* What both ends do with Err(()): note the loss; recv then looks once more *)
(* for items sent before the drop.                                          *)
LostPeer(s) ==
  /\ lost' = [lost EXCEPT ![s] = TRUE]
  /\ IF s = "tx" THEN Return(s, "lost") ELSE Goto(s, "drain") /\ UNCHANGED answer

Failed(s) ==
  /\ at[s] = "failed"
  /\ cell' = [cell EXCEPT ![s] = FALSE]
  /\ LostPeer(s)
  /\ UNCHANGED <<credit, turn, flag, index, ring, woken>>

(* ... Acquiring: look for a dropped peer, then poll the semaphore. *)
Load(s) ==
  /\ at[s] = "load"
  /\ IF flag[s] = "DROP"
     THEN LostPeer(s) /\ DropAcquire(s)
     ELSE Goto(s, "acquire") /\ UNCHANGED <<lost, answer, credit, turn>>
  /\ UNCHANGED <<flag, cell, index, ring, woken>>

Acquire(s) ==
  /\ at[s] = "acquire"
  /\ \/ turn[s] = "granted" /\ turn' = [turn EXCEPT ![s] = "none"]
        /\ Goto(s, "deregister") /\ UNCHANGED credit
     \/ turn[s] = "none" /\ credit[s] > 0 /\ credit' = [credit EXCEPT ![s] = @ - 1]
        /\ Goto(s, "deregister") /\ UNCHANGED turn
     \/ (turn[s] = "queued" \/ (turn[s] = "none" /\ credit[s] = 0))
        /\ turn' = [turn EXCEPT ![s] = "queued"]
        /\ Goto(s, "pending") /\ UNCHANGED credit
  /\ UNCHANGED <<flag, cell, lost, index, ring, woken, answer>>

Repoll(s) ==
  /\ at[s] = "pending" /\ woken[s]
  /\ woken' = [woken EXCEPT ![s] = FALSE]
  /\ Goto(s, "load")
  /\ UNCHANGED <<credit, turn, flag, cell, lost, index, ring, answer>>

(* The reservation succeeded: take the waker back unless the peer has it. *)
Deregister(s) ==
  /\ at[s] = "deregister"
  /\ IF flag[s] = "WAITING"
     THEN flag' = [flag EXCEPT ![s] = "IDLE"] /\ Goto(s, "clear")
     ELSE Goto(s, "slot") /\ UNCHANGED flag
  /\ UNCHANGED <<credit, turn, cell, lost, index, ring, woken, answer>>

Clear(s) ==
  /\ at[s] = "clear"
  /\ cell' = [cell EXCEPT ![s] = FALSE]
  /\ Goto(s, "slot")
  /\ UNCHANGED <<credit, turn, flag, lost, index, ring, woken, answer>>

(* write_solt and recv_solt, without their release. *)
Slot(s) ==
  /\ at[s] = "slot"
  /\ ring' = [ring EXCEPT ![index[s] % Size] = IF s = "tx" THEN index[s] ELSE Empty]
  /\ index' = [index EXCEPT ![s] = @ + 1]
  /\ Goto(s, "release")
  /\ UNCHANGED <<credit, turn, flag, cell, lost, woken, answer>>

Release(s) ==
  /\ at[s] = "release"
  /\ Release1(Peer(s))
  /\ Return(s, "ok")
  /\ UNCHANGED <<flag, cell, lost, index, ring>>

Drain ==
  /\ at["rx"] = "drain"
  /\ IF credit["rx"] > 0
     THEN credit' = [credit EXCEPT !["rx"] = @ - 1] /\ Goto("rx", "slot") /\ UNCHANGED answer
     ELSE Return("rx", "lost") /\ UNCHANGED credit
  /\ UNCHANGED <<turn, flag, cell, lost, index, ring, woken>>

(* The caller drops a pending send or recv future. *)
Cancel(s) ==
  /\ at[s] = "pending"
  /\ Goto(s, "abort")
  /\ UNCHANGED <<credit, turn, flag, cell, lost, index, ring, woken, answer>>

Abort(s) ==
  /\ at[s] = "abort"
  /\ IF flag[s] = "WAITING"
     THEN flag' = [flag EXCEPT ![s] = "IDLE"] /\ Goto(s, "abortClear")
     ELSE Goto(s, "abortDrop") /\ UNCHANGED flag
  /\ UNCHANGED <<credit, turn, cell, lost, index, ring, woken, answer>>

AbortClear(s) ==
  /\ at[s] = "abortClear"
  /\ cell' = [cell EXCEPT ![s] = FALSE]
  /\ Goto(s, "abortDrop")
  /\ UNCHANGED <<credit, turn, flag, lost, index, ring, woken, answer>>

(* Variant: the semaphore future is forgotten instead of dropped. *)
AbortForget(s) ==
  /\ at[s] = "abortDrop"
  /\ turn' = [turn EXCEPT ![s] = "none"]
  /\ Return(s, "none")
  /\ UNCHANGED <<credit, flag, cell, lost, index, ring, woken>>

AbortDrop(s) ==
  /\ at[s] = "abortDrop"
  /\ DropAcquire(s)
  /\ Return(s, "none")
  /\ UNCHANGED <<flag, cell, lost, index, ring, woken>>

(* Drop of Sender or Receiver: swap, then take and wake the peer's waker. *)
Drop(s) ==
  /\ at[s] = "idle"
  /\ flag' = [flag EXCEPT ![Peer(s)] = "DROP"]
  /\ Goto(s, IF flag[Peer(s)] = "WAITING" THEN "dropTake" ELSE "gone")
  /\ UNCHANGED <<credit, turn, cell, lost, index, ring, woken, answer>>

DropTake(s) ==
  /\ at[s] = "dropTake"
  /\ cell' = [cell EXCEPT ![Peer(s)] = FALSE]
  /\ woken' = [woken EXCEPT ![Peer(s)] = @ \/ cell[Peer(s)]]
  /\ Goto(s, "gone")
  /\ UNCHANGED <<credit, turn, flag, lost, index, ring, answer>>

SideStep(s) ==
  \/ TryLoad(s) \/ TryTake(s) \/ Register(s) \/ Failed(s) \/ Load(s) \/ Acquire(s)
  \/ Repoll(s) \/ Deregister(s) \/ Clear(s) \/ Slot(s) \/ Release(s)
  \/ Abort(s) \/ AbortClear(s) \/ AbortDrop(s) \/ DropTake(s)

spscNext ==
  \/ Drain
  \/ \E s \in Sides : SideStep(s) \/ TryCall(s) \/ Call(s) \/ Cancel(s) \/ Drop(s)

spscSpec == channel /\ [][spscNext]_spscVars
-----------------------------------------------------------------------------
(* The side owns a credit it has not yet turned into a slot access. *)
InHand(s) == IF turn[s] = "granted" \/ at[s] \in {"deregister", "clear", "slot"} THEN 1 ELSE 0
Owed(s) == IF at[s] = "release" THEN 1 ELSE 0

(* Through every interleaving of calls, cancellations and drops, credits    *)
(* are neither lost nor invented: the free slots are counted by the tx      *)
(* semaphore, by the sender about to fill one, or by the receiver about to  *)
(* return one, and likewise the filled ones.                                *)
CreditsBalance ==
  LET filled == index["tx"] - index["rx"]
  IN  /\ index["rx"] <= index["tx"]
      /\ credit["tx"] + InHand("tx") + Owed("rx") = Size - filled
      /\ credit["rx"] + InHand("rx") + Owed("tx") = filled

(* A receiver about to take a slot finds the very next item the sender      *)
(* sent, so the expect of recv_solt never fails and items arrive in order;  *)
(* a sender about to write finds an empty slot.                             *)
SlotReady ==
  /\ at["rx"] = "slot" => ring[index["rx"] % Size] = index["rx"]
  /\ at["tx"] = "slot" => ring[index["tx"] % Size] = Empty

(* A pending call whose task nobody has woken really has to wait: no permit *)
(* is granted to it, and its peer lives or is about to wake it.             *)
PendingIsOwedAWake ==
  \A s \in Sides : at[s] = "pending" /\ ~woken[s] =>
    /\ turn[s] = "queued"
    /\ flag[s] = "DROP" => at[Peer(s)] = "dropTake" /\ cell[s]

(* recv reports SenderLost only when every item sent before the drop has    *)
(* been received (the module comment: after reading all data of the buffer).*)
RecvLostMeansDrained ==
  at["rx"] = "idle" /\ answer["rx"] = "lost" => index["rx"] = index["tx"]

-----------------------------------------------------------------------------
(* The inductive invariant behind the four.                                 *)

(* A permit is waited for, or granted, only inside a reservation.           *)
TurnInv ==
  \A s \in Sides :
    /\ turn[s] # "none" =>
         at[s] \in {"load", "acquire", "pending", "abort", "abortClear", "abortDrop"}
    /\ at[s] = "pending" => turn[s] # "none"

(* A flag says whether its side is registered, with a waker in the cell,    *)
(* and whether the peer was dropped; what the peer knows it knows for good. *)
FlagInv ==
  \A s \in Sides :
    /\ flag[s] = "DROP" <=> at[Peer(s)] \in {"dropTake", "gone"}
    /\ flag[s] = "WAITING" =>
         cell[s] /\ at[s] \in {"load", "acquire", "pending", "deregister", "abort"}
    /\ at[s] \in {"load", "acquire", "pending"} => flag[s] # "IDLE"
    /\ at[s] = "register" /\ flag[s] = "IDLE" => cell[s]
    /\ at[s] = "failed" => flag[s] = "DROP"
    /\ at[s] = "drain" => lost[s]
    /\ lost[s] => flag[s] = "DROP"
    /\ at[s] \in {"acquire", "pending"} /\ flag[s] = "DROP" /\ ~woken[s] =>
         at[Peer(s)] = "dropTake" /\ cell[s]

(* A call that nobody woke waits for a permit.                              *)
PendingQueued == \A s \in Sides : at[s] = "pending" /\ ~woken[s] => turn[s] = "queued"

(* The items sent and not yet received are in the ring, in order, and the   *)
(* slots after them are empty.                                              *)
RingInv ==
  /\ \A i \in index["rx"]..(index["tx"] - 1) : ring[i % Size] = i
  /\ \A i \in index["tx"]..(index["rx"] + Size - 1) : ring[i % Size] = Empty

DrainInv ==
  answer["rx"] = "lost" => lost["rx"] /\ (at["rx"] = "idle" => index["rx"] = index["tx"])

SpscInv ==
  /\ SpscTypeOK /\ CreditsBalance /\ TurnInv /\ FlagInv /\ PendingQueued /\ DrainInv /\ RingInv

(* The bounded channel through all calls, cancellations and drops: credits *)
(* balance, items arrive in order in slots that are ready, nobody waits    *)
(* without being owed a wake, and SenderLost comes after the last item.    *)
SpscSafe ==
    SpscTypeOK /\ CreditsBalance /\ SlotReady /\ PendingIsOwedAWake /\ RecvLostMeansDrained
=============================================================================
