------------------------------ MODULE Oneshot -------------------------------
(***************************************************************************)
(* library/async_locks/src/channel/oneshot.rs: one Sender, one Receiver,   *)
(* an Option under an async mutex, a condition variable with at most one   *)
(* waiter, and an atomic status.  send and recv may be cancelled at every  *)
(* await.  The steps of the condition variable and of the mutex are those  *)
(* of Condvar.tla, for two tasks.                                          *)
(***************************************************************************)
CONSTANT NoSide  \* model value: nobody

ASSUME OneshotAssumption == NoSide \notin {"tx", "rx"}

VARIABLES
  status,   \* NO_RECV, RECVING, DONE or LOST
  data,     \* TRUE: the Option is Some
  owner,    \* side owning the mutex, polled or not
  inLine,   \* side in line for it
  cvWaker,  \* the receiver's CondvarWaker: none, queued, popped, acquired, giveup
  rxWoken,  \* the receiver's task is to be polled again
  tx,       \* the sender's next step
  rx,       \* the receiver's next step
  rxState   \* the state of ReceiverFuture with that of its inner CondvarWait

osVars == <<status, data, owner, inLine, cvWaker, rxWoken, tx, rx, rxState>>

osInit ==
  /\ status = "NO_RECV" /\ data = FALSE
  /\ owner = NoSide /\ inLine = NoSide
  /\ cvWaker = "none" /\ rxWoken = FALSE
  /\ tx = "new" /\ rx = "new" /\ rxState = "Locking"

(* MutexGuard::drop: the lock goes to the side in line, which is woken. *)
Pass ==
  /\ owner' = inLine /\ inLine' = NoSide
  /\ rxWoken' = (rxWoken \/ inLine = "rx")

(* Drop of side s's MutexLockFuture. *)
LeaveLine(s) ==
  IF owner = s THEN Pass
  ELSE inLine' = (IF inLine = s THEN NoSide ELSE inLine) /\ UNCHANGED <<owner, rxWoken>>

(* Sender::send *)
SendLock ==
  /\ tx = "new"
  /\ IF owner = NoSide THEN owner' = "tx" /\ UNCHANGED inLine
     ELSE inLine' = "tx" /\ UNCHANGED owner
  /\ tx' = "line"
  /\ UNCHANGED <<status, data, cvWaker, rxWoken, rx, rxState>>

SendStore ==
  /\ tx = "line" /\ owner = "tx"
  /\ data' = TRUE
  /\ Pass
  /\ tx' = "pop"
  /\ UNCHANGED <<status, cvWaker, rx, rxState>>

(* Variant: send forgets to wake the condition variable. *)
SendNoWake ==
  /\ tx = "pop"
  /\ tx' = "sent"
  /\ UNCHANGED <<status, data, owner, inLine, cvWaker, rxWoken, rx, rxState>>

SendPop ==
  /\ tx = "pop"
  /\ IF cvWaker \in {"queued", "giveup"}
     THEN cvWaker' = (IF cvWaker = "queued" THEN "popped" ELSE "none")
          /\ tx' = (IF cvWaker = "queued" THEN "mark" ELSE "pop")
     ELSE tx' = "sent" /\ UNCHANGED cvWaker
  /\ UNCHANGED <<status, data, owner, inLine, rxWoken, rx, rxState>>

SendMark ==
  /\ tx = "mark"
  /\ IF cvWaker = "popped"
     THEN cvWaker' = "acquired" /\ rxWoken' = TRUE /\ tx' = "sent"
     ELSE cvWaker' = "none" /\ tx' = "pop" /\ UNCHANGED rxWoken
  /\ UNCHANGED <<status, data, owner, inLine, rx, rxState>>

(* The Sender, or a send future waiting for the lock, is dropped. *)
SendCancel ==
  /\ \/ tx = "new" /\ UNCHANGED <<owner, inLine, rxWoken>>
     \/ tx = "line" /\ LeaveLine("tx")
  /\ tx' = "lose"
  /\ UNCHANGED <<status, data, cvWaker, rx, rxState>>

Lose ==
  /\ tx = "lose"
  /\ status' = "LOST"
  /\ tx' = IF status = "RECVING" THEN "wake" ELSE "lost"
  /\ UNCHANGED <<data, owner, inLine, cvWaker, rxWoken, rx, rxState>>

LoseWake ==
  /\ tx = "wake"
  /\ rxWoken' = TRUE /\ tx' = "lost"
  /\ UNCHANGED <<status, data, owner, inLine, cvWaker, rx, rxState>>

(* Receiver::recv: Init stores the waker (the step from "new") and registers. *)
RecvStart ==
  /\ rx = "new" /\ rx' = "register"
  /\ UNCHANGED <<status, data, owner, inLine, cvWaker, rxWoken, tx, rxState>>

RecvRegister ==
  /\ rx = "register"
  /\ IF status = "NO_RECV" THEN status' = "RECVING" /\ rx' = "load"
     ELSE rx' = "err" /\ UNCHANGED status
  /\ UNCHANGED <<data, owner, inLine, cvWaker, rxWoken, tx, rxState>>

(* Drop of what ReceiverFuture holds, by its state: a MutexLockFuture, the  *)
(* guard of an unpolled wait, a registered waiter.  There is nobody else to *)
(* pass a wake on to.                                                       *)
ReleaseRx ==
  /\ IF rxState = "Init" THEN Pass ELSE LeaveLine("rx")
  /\ cvWaker' = IF cvWaker \in {"queued", "popped"} THEN "giveup" ELSE cvWaker

RecvLoad ==
  /\ rx = "load"
  /\ IF status = "LOST"
     THEN ReleaseRx /\ rx' = "err"
     ELSE rx' = "poll" /\ UNCHANGED <<owner, inLine, rxWoken, cvWaker>>
  /\ UNCHANGED <<status, data, tx, rxState>>

(* The receiver has the guard: take the value, or build a new wait. *)
TakeOrWait ==
  IF data
  THEN data' = FALSE /\ status' = "DONE" /\ Pass /\ rx' = "ok" /\ UNCHANGED rxState
  ELSE rxState' = "Init" /\ rx' = "load" /\ owner' = "rx"
       /\ UNCHANGED <<data, status, inLine, rxWoken>>

RecvPollLock ==
  /\ rx = "poll" /\ rxState \in {"Locking", "Relock"}
  /\ IF owner \in {"rx", NoSide}
     THEN TakeOrWait
     ELSE inLine' = "rx" /\ rx' = "pending"
          /\ UNCHANGED <<data, status, owner, rxWoken, rxState>>
  /\ UNCHANGED <<cvWaker, tx>>

(* CondvarWait Init: queue the waker, then drop the guard. *)
RecvPollInit ==
  /\ rx = "poll" /\ rxState = "Init"
  /\ IF cvWaker \notin {"queued", "popped", "acquired"}
     THEN cvWaker' = "queued" /\ UNCHANGED <<owner, inLine, rxWoken, rxState>>
     ELSE rxState' = "Wait" /\ Pass /\ UNCHANGED cvWaker
  /\ UNCHANGED <<status, data, tx, rx>>

RecvPollWait ==
  /\ rx = "poll" /\ rxState = "Wait"
  /\ IF cvWaker = "acquired"
     THEN rxState' = "Relock" /\ cvWaker' = "none" /\ UNCHANGED rx
     ELSE rx' = "pending" /\ UNCHANGED <<rxState, cvWaker>>
  /\ UNCHANGED <<status, data, owner, inLine, rxWoken, tx>>

RecvAgain ==
  /\ rx = "pending" /\ rxWoken
  /\ rxWoken' = FALSE /\ rx' = "load"
  /\ UNCHANGED <<status, data, owner, inLine, cvWaker, tx, rxState>>

RecvCancel ==
  /\ rx = "pending"
  /\ ReleaseRx
  /\ rx' = "dropped"
  /\ UNCHANGED <<status, data, tx, rxState>>

osNext ==
  \/ SendLock \/ SendStore \/ SendPop \/ SendMark \/ SendCancel \/ Lose \/ LoseWake
  \/ RecvStart \/ RecvRegister \/ RecvLoad \/ RecvPollLock \/ RecvPollInit
  \/ RecvPollWait \/ RecvAgain \/ RecvCancel

osSpec == osInit /\ [][osNext]_osVars
-----------------------------------------------------------------------------
(* A receiver that is asleep and that nobody has woken has a sender that    *)
(* can still act: once the value is sent or the sender lost, recv returns.  *)
RecvNotForgotten == rx = "pending" /\ ~rxWoken => tx \notin {"sent", "lost"}

(* recv reports SenderLost exactly when the sender was dropped before it    *)
(* stored a value, and returns a value only when one was stored, however    *)
(* the two sides interleave ("a Sender dropped before sending").            *)
AnswerTellsTruth ==
  /\ rx = "err" => tx \in {"wake", "lost"} /\ ~data
  /\ rx = "ok"  => tx \in {"pop", "mark", "sent"} /\ ~data

(* The mutex is never left with a side that has finished. *)
LockReturned ==
  /\ tx \in {"pop", "mark", "sent", "lose", "wake", "lost"} => owner # "tx" /\ inLine # "tx"
  /\ rx \in {"ok", "err", "dropped"} => owner # "rx" /\ inLine # "rx"

-----------------------------------------------------------------------------
(* The inductive invariant behind the three.                                *)
OneshotTypeOK ==
  /\ status \in {"NO_RECV", "RECVING", "DONE", "LOST"} /\ data \in BOOLEAN
  /\ owner \in {"tx", "rx", NoSide} /\ inLine \in {"tx", "rx", NoSide}
  /\ cvWaker \in {"none", "queued", "popped", "acquired", "giveup"} /\ rxWoken \in BOOLEAN
  /\ tx \in {"new", "line", "pop", "mark", "sent", "lose", "wake", "lost"}
  /\ rx \in {"new", "register", "load", "poll", "pending", "ok", "err", "dropped"}
  /\ rxState \in {"Locking", "Init", "Wait", "Relock"}

Receiving == rx \in {"load", "poll", "pending"}
Stored    == tx \in {"pop", "mark", "sent"}

(* The mutex is with a side that waits for it or uses it.                   *)
LineInv ==
  /\ inLine # NoSide => owner # NoSide /\ owner # inLine
  /\ tx = "line" <=> owner = "tx" \/ inLine = "tx"
  /\ owner = "rx" => Receiving /\ rxState # "Wait"
  /\ inLine = "rx" => Receiving /\ rxState \in {"Locking", "Relock"}
  /\ Receiving /\ rxState = "Init" => owner = "rx" /\ rx # "pending"

(* Where the waker of the receiver is, by the states of both sides.         *)
WaiterInv ==
  /\ rx \in {"new", "register"} => rxState = "Locking" /\ cvWaker = "none"
  /\ rx \in {"err", "dropped"} => cvWaker \in {"none", "giveup", "acquired"}
  /\ rx = "ok" => cvWaker = "none"
  /\ Receiving =>
       /\ rxState \in {"Locking", "Relock"} => cvWaker = "none"
       /\ rxState = "Init" => cvWaker \in {"none", "queued"} /\ ~Stored
       /\ rxState = "Wait" => cvWaker = CASE tx = "mark" -> "popped"
                                          [] tx = "sent" -> "acquired"
                                          [] OTHER       -> "queued"
  /\ tx = "mark" => cvWaker \in {"popped", "giveup"}

(* The status and the value, by the states of both sides.                   *)
AnswerInv ==
  /\ status = "LOST" <=> tx \in {"wake", "lost"}
  /\ status = "DONE" <=> rx = "ok"
  /\ status = "NO_RECV" => rx \in {"new", "register"}
  /\ rx \in {"new", "register"} => status \in {"NO_RECV", "LOST"}
  /\ rx = "err" => status = "LOST"
  /\ Stored <=> data \/ rx = "ok"
  /\ rx = "ok" => ~data

(* Who sleeps is in line for the mutex or waits for a wake to come.         *)
AsleepInv ==
  /\ rx = "pending" /\ ~rxWoken =>
       /\ inLine = "rx" \/ (rxState = "Wait" /\ tx # "sent")
       /\ tx # "lost"
  /\ rx = "poll" /\ tx = "lost" => rxWoken

OneshotInv == OneshotTypeOK /\ LineInv /\ WaiterInv /\ AnswerInv /\ AsleepInv

(* The oneshot, however its sides interleave, are cancelled or dropped: recv *)
(* does not sleep when its sender has acted, reports SenderLost only when    *)
(* that is true, and nobody leaves with the mutex.                           *)
OneshotSafe == RecvNotForgotten /\ AnswerTellsTruth /\ LockReturned
=============================================================================
