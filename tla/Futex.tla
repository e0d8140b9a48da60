-------------------------------- MODULE Futex --------------------------------
(***************************************************************************)
(* wait_thread and wake_thread on a word of user memory                    *)
(* (kernel/src/syscall/multitask.rs), over register_futex_if_match and     *)
(* wake_futex of kernel/src/multitask/process.rs.  Both run with           *)
(* interrupts off and the process locked: one step each.  The user side is *)
(* the usual protocol: load the word, then wait for it to change; or       *)
(* store, then wake.  A thread may be stopped, and a page freed, between   *)
(* any two steps.                                                          *)
(***************************************************************************)
EXTENDS Integers, Sequences, FiniteSets, Functions

CONSTANTS Waiters,       \* threads of the process
          Addrs,         \* user words
          MaxFutexCalls, \* bound: loads and stores
          MaxStops       \* bound: threads stopped

ASSUME FutexAssumption == IsFiniteSet(Waiters) /\ Addrs # {}

VARIABLES
    word, present,  \* user memory; pages that are mapped
    futex,          \* Process.futex: the senders queued on an address, by thread
    fst,            \* status of a thread
    fpc,            \* where a thread is: at, addr, exp
    lost,           \* the sender of its oneshot was dropped
    fcalls, stops,
    short           \* ghost: addresses where a wake was smaller than the queue, or given up

futexVars == <<word, present, futex, fst, fpc, lost, fcalls, stops, short>>

User == [at |-> "user", addr |-> CHOOSE a \in Addrs : TRUE, exp |-> 0]
Running(t) == fst[t] \in {"ready", "stopping"}
Go(t, at) == fpc' = [fpc EXCEPT ![t].at = at]

futexInit ==
    /\ word = [a \in Addrs |-> 0] /\ present = Addrs
    /\ futex = [a \in Addrs |-> <<>>]
    /\ fst = [t \in Waiters |-> "ready"] /\ fpc = [t \in Waiters |-> User]
    /\ lost = [t \in Waiters |-> FALSE] /\ fcalls = 0 /\ stops = 0 /\ short = {}

(* The user's side of the protocol.                                        *)
Load(t, a) ==
    /\ Running(t) /\ fpc[t].at = "user" /\ a \in present /\ fcalls < MaxFutexCalls
    /\ fpc' = [fpc EXCEPT ![t] = [at |-> "loaded", addr |-> a, exp |-> word[a]]]
    /\ fcalls' = fcalls + 1
    /\ UNCHANGED <<word, present, futex, fst, lost, stops, short>>

Store(t, a) ==
    /\ Running(t) /\ fpc[t].at = "user" /\ a \in present /\ fcalls < MaxFutexCalls
    /\ word' = [word EXCEPT ![a] = 1 - @]
    /\ fpc' = [fpc EXCEPT ![t] = [at |-> "stored", addr |-> a, exp |-> 0]]
    /\ fcalls' = fcalls + 1
    /\ UNCHANGED <<present, futex, fst, lost, stops, short>>

\* Variant: the sender is queued whatever the word holds
register_futex_if_match_always(t) ==
    /\ Running(t) /\ fpc[t].at = "loaded"
    /\ futex' = [futex EXCEPT ![fpc[t].addr] = Append(@, t)]
    /\ lost' = [lost EXCEPT ![t] = FALSE] /\ Go(t, "recv")
    /\ UNCHANGED <<word, present, fst, fcalls, stops, short>>
(* wait_thread up to block_on.  A sender that is not queued is dropped on  *)
(* return; a page that is gone is a BadPointer.                            *)
register_futex_if_match(t) ==
    LET a == fpc[t].addr  match == word[a] = fpc[t].exp IN
    /\ Running(t) /\ fpc[t].at = "loaded"
    /\ IF a \notin present THEN Go(t, "user") /\ UNCHANGED <<futex, lost>>
       ELSE /\ futex' = IF match THEN [futex EXCEPT ![a] = Append(@, t)] ELSE futex
            /\ lost' = [lost EXCEPT ![t] = ~match] /\ Go(t, "recv")
    /\ UNCHANGED <<word, present, fst, fcalls, stops, short>>

(* block_on(recv()): a thread that was stopped, or whose sender is lost,   *)
(* returns, dropping the receiver; the sender of the former stays queued.  *)
Recv(t) ==
    /\ Running(t) /\ fpc[t].at = "recv"
    /\ IF fst[t] = "stopping" \/ lost[t] THEN Go(t, "user") /\ UNCHANGED fst
       ELSE fst' = [fst EXCEPT ![t] = "blocked"] /\ UNCHANGED fpc
    /\ UNCHANGED <<word, present, futex, lost, fcalls, stops, short>>

(* wake_thread: the oldest n senders are dropped, which wakes the threads  *)
(* that sleep on them.                                                     *)
wake_futex(t, n) ==
    LET a == fpc[t].addr  q == futex[a]
        k == IF n < Len(q) THEN n ELSE Len(q)
        out == {q[i] : i \in 1..k}
    IN
    /\ Running(t) /\ fpc[t].at = "stored"
    /\ futex' = [futex EXCEPT ![a] = SubSeq(q, k + 1, Len(q))]
    /\ lost' = [u \in Waiters |-> lost[u] \/ u \in out]
    /\ fst' = [u \in Waiters |-> IF u \in out /\ fst[u] = "blocked" THEN "ready" ELSE fst[u]]
    /\ short' = IF n < Len(q) THEN short \cup {a} ELSE short
    /\ Go(t, "user")
    /\ UNCHANGED <<word, present, fcalls, stops>>

(* stop_thread, by another thread of the process.                          *)
StopOne(t) ==
    /\ fst[t] \in {"ready", "blocked"} /\ stops < MaxStops
    /\ fst' = [fst EXCEPT ![t] = IF @ = "blocked" THEN "lost" ELSE "stopping"]
    /\ stops' = stops + 1
    /\ UNCHANGED <<word, present, futex, fpc, lost, fcalls, short>>

(* The check on the way to user mode, and the timer's interrupts anywhere: *)
(* a thread that was stopped leaves the CPU for good.                      *)
Exit(t) ==
    /\ fst[t] = "stopping"
    /\ fst' = [fst EXCEPT ![t] = "terminated"]
    /\ short' = IF fpc[t].at = "stored" THEN short \cup {fpc[t].addr} ELSE short
    /\ UNCHANGED <<word, present, futex, fpc, lost, fcalls, stops>>

free_page(a) ==
    /\ a \in present /\ present' = present \ {a}
    /\ UNCHANGED <<word, futex, fst, fpc, lost, fcalls, stops, short>>

futexNext ==
    \/ \E t \in Waiters : \/ \E a \in Addrs : Load(t, a) \/ Store(t, a)
                          \/ register_futex_if_match(t) \/ Recv(t)
                          \/ \E n \in {1, Cardinality(Waiters)} : wake_futex(t, n)
                          \/ StopOne(t) \/ Exit(t)
    \/ \E a \in Addrs : free_page(a)

futexSpec == futexInit /\ [][futexNext]_futexVars

-----------------------------------------------------------------------------
(* No wake is missed: a thread that sleeps although the word no longer     *)
(* holds what it expected will be woken by a thread that is between its    *)
(* store and its wake_thread.  Except where the user asked to wake fewer   *)
(* than were queued, or the waker was stopped before it woke anyone.       *)
FutexNotMissed ==
    \A t \in Waiters : fst[t] = "blocked" /\ word[fpc[t].addr] # fpc[t].exp =>
        \/ \E u \in Waiters : Running(u) /\ fpc[u].at = "stored" /\ fpc[u].addr = fpc[t].addr
        \/ fpc[t].addr \in short

(* A sleeping thread can be woken: its sender is queued, once, on the      *)
(* address it waits on.  A queued sender belongs to a thread in            *)
(* wait_thread, or to one that was stopped there: that one still takes a   *)
(* wake.                                                                   *)
FutexQueued ==
    /\ \A t \in Waiters : fst[t] = "blocked" =>
          ~lost[t] /\ Cardinality({i \in DOMAIN futex[fpc[t].addr] : futex[fpc[t].addr][i] = t}) = 1
    /\ \A a \in Addrs : \A i \in DOMAIN futex[a] :
          LET t == futex[a][i] IN
            \/ fpc[t].at = "recv" /\ fpc[t].addr = a /\ ~lost[t]
            \/ fst[t] \in {"stopping", "lost", "terminated"}

(* What the steps keep: a thread in recv() whose sender is not dropped is  *)
(* queued, and is owed a wake once the word has changed; a sender of a     *)
(* thread that was not stopped is the only one of it.                      *)
FutexTypes ==
    /\ word \in [Addrs -> Int] /\ futex \in [Addrs -> Seq(Waiters)] /\ short \subseteq Addrs
    /\ fst \in [Waiters -> {"ready", "stopping", "blocked", "lost", "terminated"}]
    /\ fpc \in [Waiters -> [at : {"user", "loaded", "stored", "recv"}, addr : Addrs, exp : Int]]
    /\ lost \in [Waiters -> BOOLEAN]
WakeOwed(a) ==
    a \in short \/ \E u \in Waiters : Running(u) /\ fpc[u].at = "stored" /\ fpc[u].addr = a
Receiving(t) == fpc[t].at = "recv" /\ ~lost[t]
BlockedReceive == \A t \in Waiters : fst[t] = "blocked" => Receiving(t)
ReceiversQueued == \A t \in Waiters : Receiving(t) => t \in Range(futex[fpc[t].addr])
ReceiversOwed ==
    \A t \in Waiters : Receiving(t) =>
        word[fpc[t].addr] = fpc[t].exp \/ WakeOwed(fpc[t].addr)
SoleSender ==
    \A t \in Waiters : fst[t] \in {"ready", "blocked"} =>
        \A a \in Addrs : \A i \in DOMAIN futex[a] : futex[a][i] = t =>
            /\ Receiving(t) /\ fpc[t].addr = a
            /\ \A j \in DOMAIN futex[a] : futex[a][j] = t => i = j
FutexInv == FutexTypes /\ BlockedReceive /\ ReceiversQueued /\ ReceiversOwed /\ SoleSender

(* wait_thread and wake_thread: a sleeper on a word that changed is owed a   *)
(* wake, and can be woken because its sender is queued once, where it waits. *)
FutexSafe == FutexNotMissed /\ FutexQueued
==============================================================================
