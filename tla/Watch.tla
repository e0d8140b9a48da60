------------------------------- MODULE Watch --------------------------------
(***************************************************************************)
(* library/async_locks/src/watch.rs: one Publisher, any number of          *)
(* Subscribers.  A value is named by the number of the send that stored    *)
(* it.  Every spin lock section and every atomic access is one step; a     *)
(* publisher walking the slot list keeps its lock until the last slot is   *)
(* woken.                                                                  *)
(***************************************************************************)
EXTENDS Naturals

CONSTANTS Subs,     \* subscribers that may ever exist
          First,    \* the one pair() returns
          MaxSends  \* bound: values ever published

ASSUME WatchAssumption == First \in Subs /\ MaxSends \in Nat

VARIABLES
  shared,   \* Inner.value
  version,  \* Inner.version
  pubLost,  \* Inner.publisher_lost
  slots,    \* Inner.waker: the subscribers whose slot is listed
  wakes,    \* slots the publisher has still to wake, holding the list's lock
  pub,      \* the publisher's next step
  armed,    \* armed[s]: the slot holds the task's waker, not the no-op one
  rung,     \* rung[s]: the task of s has been woken
  sub,      \* sub[s]: the subscriber's next step
  seen,     \* seen[s]: Subscriber.version
  copy      \* copy[s]: Subscriber.value

watchVars == <<shared, version, pubLost, slots, wakes, pub, armed, rung, sub, seen, copy>>

(* Wakers are left only in the slots of subscribers that are registered.   *)
WatchTypeOK ==
  /\ shared \in 0..MaxSends /\ version \in 0..MaxSends /\ pubLost \in BOOLEAN
  /\ slots \subseteq Subs /\ wakes \subseteq slots
  /\ pub \in {"idle", "stored", "waking", "dropping", "gone"}
  /\ armed \in [Subs -> BOOLEAN] /\ rung \in [Subs -> BOOLEAN]
  /\ sub \in [Subs -> {"none", "idle", "lostLoad", "load", "copy", "pending",
                       "borrowLoad", "borrowCopy", "push"}]
  /\ seen \in [Subs -> 0..MaxSends] /\ copy \in [Subs -> 0..MaxSends]

pair ==
  /\ shared = 0 /\ version = 0 /\ pubLost = FALSE
  /\ slots = {First} /\ wakes = {} /\ pub = "idle"
  /\ armed = [s \in Subs |-> FALSE] /\ rung = [s \in Subs |-> FALSE]
  /\ sub = [s \in Subs |-> IF s = First THEN "idle" ELSE "none"]
  /\ seen = [s \in Subs |-> 0] /\ copy = [s \in Subs |-> 0]

Step(s, from, to) == sub[s] = from /\ sub' = [sub EXCEPT ![s] = to]

(* Publisher::send: store, bump the version, wake the slots one by one. *)
SendValue ==
  /\ pub = "idle" /\ shared < MaxSends
  /\ shared' = shared + 1 /\ pub' = "stored"
  /\ UNCHANGED <<version, pubLost, slots, wakes, armed, rung, sub, seen, copy>>

SendVersion ==
  /\ pub = "stored"
  /\ version' = version + 1
  /\ wakes' = slots /\ pub' = "waking"
  /\ UNCHANGED <<shared, pubLost, slots, armed, rung, sub, seen, copy>>

WakeSlot(s) ==
  /\ s \in wakes
  /\ wakes' = wakes \ {s}
  /\ rung' = [rung EXCEPT ![s] = @ \/ armed[s]]
  /\ UNCHANGED <<shared, version, pubLost, slots, pub, armed, sub, seen, copy>>

WakesDone ==
  /\ pub \in {"waking", "dropping"} /\ wakes = {}
  /\ pub' = IF pub = "waking" THEN "idle" ELSE "gone"
  /\ UNCHANGED <<shared, version, pubLost, slots, wakes, armed, rung, sub, seen, copy>>

(* Drop of the Publisher. *)
PublisherDrop ==
  /\ pub = "idle"
  /\ pubLost' = TRUE
  /\ wakes' = slots /\ pub' = "dropping"
  /\ UNCHANGED <<shared, version, slots, armed, rung, sub, seen, copy>>

(* First poll of wait(): store the waker in the slot ... *)
PollFirst(s) ==
  /\ Step(s, "idle", "lostLoad")
  /\ armed' = [armed EXCEPT ![s] = TRUE]
  /\ UNCHANGED <<shared, version, pubLost, slots, wakes, pub, rung, seen, copy>>

(* ... look for a lost publisher ... *)
PollLost(s) ==
  /\ Step(s, "lostLoad", IF pubLost THEN "idle" ELSE "load")
  /\ UNCHANGED <<shared, version, pubLost, slots, wakes, pub, armed, rung, seen, copy>>

(* ... and sync: a new version is noted first, the value copied after. *)
SyncLoad(s) ==
  /\ sub[s] \in {"load", "borrowLoad"}
  /\ seen' = [seen EXCEPT ![s] = version]
  /\ sub' = [sub EXCEPT ![s] =
       CASE version # seen[s]      -> IF @ = "load" THEN "copy" ELSE "borrowCopy"
         [] version = seen[s]      -> IF @ = "load" THEN "pending" ELSE "idle"]
  /\ UNCHANGED <<shared, version, pubLost, slots, wakes, pub, armed, rung, copy>>

SyncCopy(s) ==
  /\ sub[s] \in {"copy", "borrowCopy"}
  /\ copy' = [copy EXCEPT ![s] = shared]
  /\ sub' = [sub EXCEPT ![s] = "idle"]
  /\ UNCHANGED <<shared, version, pubLost, slots, wakes, pub, armed, rung, seen>>

PollAgain(s) ==
  /\ rung[s] /\ Step(s, "pending", "lostLoad")
  /\ rung' = [rung EXCEPT ![s] = FALSE]
  /\ UNCHANGED <<shared, version, pubLost, slots, wakes, pub, armed, seen, copy>>

(* Drop of a pending SubscriberChanged. *)
ChangedDrop(s) ==
  /\ Step(s, "pending", "idle")
  /\ armed' = [armed EXCEPT ![s] = FALSE]
  /\ UNCHANGED <<shared, version, pubLost, slots, wakes, pub, rung, seen, copy>>

Borrow(s) ==
  /\ Step(s, "idle", "borrowLoad")
  /\ UNCHANGED <<shared, version, pubLost, slots, wakes, pub, armed, rung, seen, copy>>

(* Clone: skip the list when the publisher is lost, else push under its lock. *)
CloneSub(s, u) ==
  /\ sub[s] = "idle" /\ sub[u] = "none"
  /\ sub' = [sub EXCEPT ![u] = IF pubLost THEN "idle" ELSE "push"]
  /\ seen' = [seen EXCEPT ![u] = seen[s]]
  /\ copy' = [copy EXCEPT ![u] = copy[s]]
  /\ armed' = [armed EXCEPT ![u] = FALSE]
  /\ rung' = [rung EXCEPT ![u] = FALSE]
  /\ UNCHANGED <<shared, version, pubLost, slots, wakes, pub>>

(* Variant: a clone never gets into the list. *)
ClonePushNot(u) ==
  /\ wakes = {}
  /\ Step(u, "push", "idle")
  /\ UNCHANGED <<shared, version, pubLost, slots, wakes, pub, armed, rung, seen, copy>>

ClonePush(u) ==
  /\ wakes = {}
  /\ Step(u, "push", "idle")
  /\ slots' = slots \union {u}
  /\ UNCHANGED <<shared, version, pubLost, wakes, pub, armed, rung, seen, copy>>

SubscriberDrop(s) ==
  /\ wakes = {}
  /\ Step(s, "idle", "none")
  /\ slots' = slots \ {s}
  /\ UNCHANGED <<shared, version, pubLost, wakes, pub, armed, rung, seen, copy>>

watchNext ==
  \/ SendValue \/ SendVersion \/ WakesDone \/ PublisherDrop
  \/ \E s \in Subs :
       \/ WakeSlot(s) \/ PollFirst(s) \/ PollLost(s) \/ SyncLoad(s) \/ SyncCopy(s)
       \/ PollAgain(s) \/ ChangedDrop(s) \/ Borrow(s) \/ ClonePush(s)
       \/ SubscriberDrop(s)
       \/ \E u \in Subs : CloneSub(s, u)

watchSpec == pair /\ [][watchNext]_watchVars
-----------------------------------------------------------------------------
(* A subscriber left asleep has missed nothing: every change since its last *)
(* look, and the publisher's loss, is still on its way to its slot.         *)
ChangeNotMissed ==
  \A s \in Subs : sub[s] = "pending" /\ ~rung[s] =>
    \/ s \in wakes
    \/ seen[s] = version /\ ~pubLost

(* A subscriber never pairs a version with an older value: what it holds is *)
(* at least as new as the version it will compare with next time, although  *)
(* the version and the value are read in two steps.                         *)
ValueNotOlder ==
  \A s \in Subs : sub[s] \in {"idle", "pending", "push"} => copy[s] >= seen[s]

-----------------------------------------------------------------------------
(* The inductive invariant behind both.                                    *)

(* The version follows the value; the list is locked only while the        *)
(* publisher walks it.                                                     *)
PublisherInv ==
  /\ shared = IF pub = "stored" THEN version + 1 ELSE version
  /\ pub \in {"idle", "stored", "waking"} => ~pubLost
  /\ wakes # {} => pub \in {"waking", "dropping"}

(* A subscriber that polls is reached by a walk through the list, which    *)
(* finds its waker.                                                        *)
SubscriberInv ==
  \A s \in Subs :
    /\ sub[s] \notin {"none", "push"} => s \in slots \/ pubLost
    /\ sub[s] \in {"lostLoad", "load", "pending"} => armed[s]
    /\ sub[s] = "load" /\ pubLost => s \in wakes \/ rung[s]
    /\ seen[s] <= version
    /\ sub[s] \notin {"copy", "borrowCopy"} => copy[s] >= seen[s]

WatchInv == WatchTypeOK /\ PublisherInv /\ SubscriberInv /\ ChangeNotMissed

(* The watch: a subscriber asleep has missed no change and no loss of the  *)
(* publisher, and never pairs a version with an older value.               *)
WatchSafe == WatchTypeOK /\ ChangeNotMissed /\ ValueNotOlder
=============================================================================
