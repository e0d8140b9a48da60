---------------------------- MODULE ChannelProofs ----------------------------
(*************************************************************************)
(* Proofs about what a task waits for: a time, an answer, a change of a  *)
(* watched value, a key, and room or an item in the bounded channel.     *)
(* For any number of sleepers and subscribers, any capacity and any      *)
(* clock.                                                                *)
(*************************************************************************)
EXTENDS Oneshot, Spsc, Watch, Keyboard, SleepQueue, TLAPS

(* A leaf names a prover only where the default order, Zenon and then SMT, *)
(* does not find its proof soon.                                           *)
USE ZenonT(5), SMTT(30)

-----------------------------------------------------------------------------
(* Sleeping.                                                              *)
-----------------------------------------------------------------------------

LEMMA ModNat == \A x \in Nat, m \in Nat : m > 0 => x % m \in Nat
OBVIOUS

LEMMA ModSmall == \A x \in Nat, m \in Nat : x < m => x % m = x
OBVIOUS

LEMMA LimitPositive == LIMIT \in Nat /\ LIMIT > 0
BY SleepAssumption

LEMMA AppointedNat ==
  ASSUME SleepTypes, NEW s \in Sleepers
  PROVE  Appointed(s) \in Nat /\ Duration(s) \in Nat
<1>1. asked[s] \in Nat /\ began[s] \in Nat
  BY DEF SleepTypes
<1>2. asked[s] % LIMIT \in Nat
  BY <1>1, ModNat, LimitPositive
<1>3. Duration(s) \in Nat
  BY <1>2 DEF Duration
<1>4. (began[s] + Duration(s)) % LIMIT \in Nat
  BY <1>1, <1>3, ModNat, LimitPositive
<1> QED
  BY <1>3, <1>4 DEF Appointed

(* The time asked for is a number.                                          *)
LEMMA MicrosNat ==
  ASSUME NEW secs \in Seconds, NEW ns \in Nanos
  PROVE  Micros(secs, ns) \in Nat
<1>1. /\ secs \in Nat /\ ns \in Nat /\ LIMIT \in Nat /\ LIMIT > 0
      /\ MicrosPerSecond \in Nat /\ NanosPerMicro \in Nat /\ NanosPerMicro > 0
  BY SleepAssumption
<1>2. NanosPerSecond \in Nat /\ NanosPerSecond > 0
  BY SleepAssumption DEF NanosPerSecond
<1>3. ns \div NanosPerSecond \in Nat /\ ns % NanosPerSecond \in Nat
  BY <1>1, <1>2
<1>4. Capped(secs + ns \div NanosPerSecond) \in Nat
  BY <1>1, <1>3 DEF Capped
<1>5. \A s \in Nat, n \in Nat : s * MicrosPerSecond + n \div NanosPerMicro \in Nat
  BY <1>1
<1> QED
  BY <1>1, <1>3, <1>4, <1>5 DEF Micros

(* A step that changes where a sleeper is: the first poll.     *)
LEMMA PollInitStep ==
  ASSUME SleepInv, NEW s \in Sleepers, PollInit(s)
  PROVE  SleepInv'
<1>1. SleepTypes /\ EntryInv /\ StepInv /\ SleeperKnown /\ DueAreWoken
  BY DEF SleepInv
<1>2. \A u \in Sleepers : Appointed(u)' = Appointed(u)
  BY DEF PollInit, restVars, Appointed, Duration
<1>3. SleepTypes'
  BY <1>1 DEF SleepTypes, PollInit, restVars
<1>4. EntryInv'
  BY <1>1, <1>2 DEF EntryInv, StepInv, SleepTypes, PollInit, restVars
<1>5. StepInv'
  BY <1>1, <1>2 DEF StepInv, SleepTypes, PollInit, restVars
<1>6. SleeperKnown'
  BY <1>1 DEF SleeperKnown, SleepTypes, PollInit, restVars
<1>7. DueAreWoken'
  BY <1>1 DEF DueAreWoken, PollInit, restVars
<1> QED
  BY <1>3, <1>4, <1>5, <1>6, <1>7 DEF SleepInv

(* A step that changes where a sleeper is: the last poll.      *)
LEMMA PollWakeStep ==
  ASSUME SleepInv, NEW s \in Sleepers, PollWake(s)
  PROVE  SleepInv'
<1>1. SleepTypes /\ EntryInv /\ StepInv /\ SleeperKnown /\ DueAreWoken
  BY DEF SleepInv
<1>2. \A u \in Sleepers : Appointed(u)' = Appointed(u)
  BY DEF PollWake, restVars, Appointed, Duration
<1>3. SleepTypes'
  BY <1>1 DEF SleepTypes, PollWake, restVars
<1>4. EntryInv'
  BY <1>1, <1>2 DEF EntryInv, StepInv, SleepTypes, PollWake, restVars
<1>5. StepInv'
  BY <1>1, <1>2 DEF StepInv, SleepTypes, PollWake, restVars
<1>6. SleeperKnown'
  BY <1>1 DEF SleeperKnown, SleepTypes, PollWake, restVars
<1>7. DueAreWoken'
  BY <1>1 DEF DueAreWoken, PollWake, restVars
<1> QED
  BY <1>3, <1>4, <1>5, <1>6, <1>7 DEF SleepInv

(* A step that changes where a sleeper is: it is killed.       *)
LEMMA KilledStep ==
  ASSUME SleepInv, NEW s \in Sleepers, Killed(s)
  PROVE  SleepInv'
<1>1. SleepTypes /\ EntryInv /\ StepInv /\ SleeperKnown /\ DueAreWoken
  BY DEF SleepInv
<1>2. \A u \in Sleepers : Appointed(u)' = Appointed(u)
  BY DEF Killed, restVars, Appointed, Duration
<1>3. SleepTypes'
  BY <1>1 DEF SleepTypes, Killed, restVars
<1>4. EntryInv'
  BY <1>1, <1>2 DEF EntryInv, StepInv, SleepTypes, Killed, restVars
<1>5. StepInv'
  BY <1>1, <1>2 DEF StepInv, SleepTypes, Killed, restVars
<1>6. SleeperKnown'
  BY <1>1 DEF SleeperKnown, SleepTypes, Killed, restVars
<1>7. DueAreWoken'
  BY <1>1 DEF DueAreWoken, Killed, restVars
<1> QED
  BY <1>3, <1>4, <1>5, <1>6, <1>7 DEF SleepInv

(* A new call: the sleeper is in no entry, so a new duration and a new      *)
(* flag change nothing that is pending.                                     *)
LEMMA SleepThreadStep ==
  ASSUME SleepInv, NEW s \in Sleepers, NEW secs \in Seconds, NEW ns \in Nanos,
         sleep_thread(s, secs, ns)
  PROVE  SleepInv'
<1>1. SleepTypes /\ EntryInv /\ StepInv /\ SleeperKnown /\ DueAreWoken
  BY DEF SleepInv
<1>2. \A u \in Sleepers \ {s} : Appointed(u)' = Appointed(u)
  BY <1>1 DEF sleep_thread, Appointed, Duration, SleepTypes
<1>3. SleepTypes'
  BY <1>1, MicrosNat DEF SleepTypes, sleep_thread
<1>4. EntryInv'
  BY <1>1, <1>2 DEF EntryInv, SleepTypes, sleep_thread
<1>5. StepInv'
  BY <1>1, <1>2 DEF StepInv, SleepTypes, sleep_thread
<1>6. SleeperKnown'
  BY <1>1 DEF SleeperKnown, SleepTypes, sleep_thread
<1>7. DueAreWoken'
  BY <1>1 DEF DueAreWoken, sleep_thread
<1> QED
  BY <1>3, <1>4, <1>5, <1>6, <1>7 DEF SleepInv

LEMMA SleepPanicStep ==
  ASSUME SleepInv, NEW s \in Sleepers, NEW secs \in Seconds, NEW ns \in Nanos,
         sleep_panic(s, secs, ns)
  PROVE  SleepInv'
<1>1. SleepTypes /\ EntryInv /\ StepInv /\ SleeperKnown /\ DueAreWoken
  BY DEF SleepInv
<1>2. \A u \in Sleepers : Appointed(u)' = Appointed(u)
  BY DEF sleep_panic, restVars, Appointed, Duration
<1>3. SleepTypes'
  BY <1>1 DEF SleepTypes, sleep_panic, restVars
<1>4. EntryInv'
  BY <1>1, <1>2 DEF EntryInv, SleepTypes, sleep_panic, restVars
<1>5. StepInv'
  BY <1>1, <1>2 DEF StepInv, SleepTypes, sleep_panic, restVars
<1>6. SleeperKnown'
  BY <1>1 DEF SleeperKnown, SleepTypes, sleep_panic, restVars
<1>7. DueAreWoken'
  BY <1>1 DEF DueAreWoken, sleep_panic, restVars
<1> QED
  BY <1>3, <1>4, <1>5, <1>6, <1>7 DEF SleepInv

(* The clock is read: from here on the time of the wake-up is fixed.        *)
LEMMA LoadInstantStep ==
  ASSUME SleepInv, NEW s \in Sleepers, LoadInstant(s)
  PROVE  SleepInv'
<1>1. SleepTypes /\ EntryInv /\ StepInv /\ SleeperKnown /\ DueAreWoken
  BY DEF SleepInv
<1>2. \A u \in Sleepers \ {s} : Appointed(u)' = Appointed(u)
  BY <1>1 DEF LoadInstant, Appointed, Duration, SleepTypes
<1>3. SYSTEM_INSTANT \in Nat /\ Duration(s) \in Nat
  BY <1>1, AppointedNat, SleepAssumption DEF SleepTypes
<1>4. (SYSTEM_INSTANT + Duration(s)) % LIMIT \in Nat
  BY <1>3, ModNat, LimitPositive
<1>5. /\ began' = [began EXCEPT ![s] = SYSTEM_INSTANT]
      /\ wake_time' = [wake_time EXCEPT ![s] = (SYSTEM_INSTANT + Duration(s)) % LIMIT]
      /\ UNCHANGED asked
  BY DEF LoadInstant
<1>6. wake_time'[s] = Appointed(s)'
  <2>1. wake_time'[s] = (SYSTEM_INSTANT + Duration(s)) % LIMIT /\ began'[s] = SYSTEM_INSTANT
    BY <1>1, <1>5 DEF SleepTypes
  <2>2. Duration(s)' = Duration(s)
    BY <1>5 DEF Duration
  <2> QED
    BY <2>1, <2>2 DEF Appointed
<1>7. SleepTypes'
  BY <1>1, <1>3, <1>4 DEF SleepTypes, LoadInstant
<1>8. EntryInv'
  BY <1>1, <1>2 DEF EntryInv, SleepTypes, LoadInstant
<1>9. StepInv'
  BY <1>1, <1>2, <1>6 DEF StepInv, SleepTypes, LoadInstant
<1>10. SleeperKnown'
  BY <1>1 DEF SleeperKnown, SleepTypes, LoadInstant
<1>11. DueAreWoken'
  BY <1>1 DEF DueAreWoken, LoadInstant
<1> QED
  BY <1>7, <1>8, <1>9, <1>10, <1>11 DEF SleepInv

(* The entry goes into the queue with the time that was computed, however   *)
(* often the clock ticked since.                                            *)
LEMMA PushEntryStep ==
  ASSUME SleepInv, NEW s \in Sleepers, PushEntry(s)
  PROVE  SleepInv'
<1>1. SleepTypes /\ EntryInv /\ StepInv /\ SleeperKnown /\ DueAreWoken
  BY DEF SleepInv
<1>2. \A u \in Sleepers : Appointed(u)' = Appointed(u)
  BY DEF PushEntry, Appointed, Duration
<1> DEFINE entry == [wake_time |-> wake_time[s], who |-> s]
<1>3. /\ SLEEP_WAKE_QUEUE' = SLEEP_WAKE_QUEUE \cup {entry}
      /\ entry.who = s /\ entry.wake_time = Appointed(s) /\ FLAG[s] = "sleep"
      /\ entry \in [wake_time : Nat, who : Sleepers]
  BY <1>1 DEF PushEntry, StepInv, SleepTypes
<1> HIDE DEF entry
<1>4. SleepTypes'
  BY <1>1, <1>3 DEF SleepTypes, PushEntry
<1>5. EntryInv'
  <2> SUFFICES ASSUME NEW e \in SLEEP_WAKE_QUEUE'
               PROVE  /\ step'[e.who] \in {"wait", "dead"} /\ FLAG'[e.who] # "wake"
                      /\ e.wake_time = Appointed(e.who)'
    BY DEF EntryInv
  <2>1. CASE e = entry
    BY <1>1, <1>2, <1>3, <2>1 DEF PushEntry, SleepTypes
  <2>2. CASE e \in SLEEP_WAKE_QUEUE
    BY <1>1, <1>2, <2>2 DEF EntryInv, PushEntry, SleepTypes
  <2> QED
    BY <1>3, <2>1, <2>2
<1>6. StepInv'
  BY <1>1, <1>2, <1>3 DEF StepInv, SleepTypes, PushEntry
<1>7. SleeperKnown'
  BY <1>1, <1>3 DEF SleeperKnown, SleepTypes, PushEntry
<1>8. DueAreWoken'
  BY <1>1, <1>3 DEF DueAreWoken, PushEntry
<1> QED
  BY <1>4, <1>5, <1>6, <1>7, <1>8 DEF SleepInv

LEMMA AwakeStep ==
  ASSUME SleepInv, NEW s \in Sleepers, Awake(s)
  PROVE  SleepInv'
<1>1. SleepTypes /\ EntryInv /\ StepInv /\ SleeperKnown /\ DueAreWoken
  BY DEF SleepInv
<1>2. \A u \in Sleepers \ {s} : Appointed(u)' = Appointed(u)
  BY <1>1 DEF Awake, Appointed, Duration, SleepTypes
<1>3. SleepTypes'
  BY <1>1 DEF SleepTypes, Awake
<1>4. EntryInv'
  BY <1>1, <1>2 DEF EntryInv, SleepTypes, Awake
<1>5. StepInv'
  BY <1>1, <1>2 DEF StepInv, SleepTypes, Awake
<1>6. SleeperKnown'
  BY <1>1 DEF SleeperKnown, SleepTypes, Awake
<1>7. DueAreWoken'
  BY <1>1 DEF DueAreWoken, Awake
<1> QED
  BY <1>3, <1>4, <1>5, <1>6, <1>7 DEF SleepInv

(* The interrupt takes out what is due and wakes its sleepers.              *)
LEMMA TickStep ==
  ASSUME SleepInv, tick
  PROVE  SleepInv'
<1>1. SleepTypes /\ EntryInv /\ StepInv /\ SleeperKnown /\ DueAreWoken
  BY DEF SleepInv
<1>2. \A u \in Sleepers : Appointed(u)' = Appointed(u) /\ Appointed(u) \in Nat
  BY <1>1, AppointedNat DEF tick, Appointed, Duration
<1> DEFINE now == SYSTEM_INSTANT + ELAPSED
<1>3. now \in 0..MaxClock /\ now >= SYSTEM_INSTANT /\ SYSTEM_INSTANT \in Nat
  BY <1>1, SleepAssumption DEF tick, SleepTypes
<1>4. now % LIMIT = now
  BY <1>3, SleepAssumption, ModSmall
<1>5. /\ SYSTEM_INSTANT' = now
      /\ SLEEP_WAKE_QUEUE' = SLEEP_WAKE_QUEUE \ Due(now)
      /\ FLAG' = [s \in Sleepers |-> IF \E e \in Due(now) : e.who = s THEN "wake" ELSE FLAG[s]]
      /\ UNCHANGED <<step, wake_time, asked, began>>
  BY <1>4 DEF tick
<1>6. Due(now) = {e \in SLEEP_WAKE_QUEUE : e.wake_time <= now}
  BY DEF Due
<1> HIDE DEF now
<1>7. SleepTypes'
  BY <1>1, <1>3, <1>5 DEF SleepTypes
<1>8. EntryInv'
  <2> SUFFICES ASSUME NEW e \in SLEEP_WAKE_QUEUE, e \notin Due(now)
               PROVE  /\ step[e.who] \in {"wait", "dead"} /\ FLAG'[e.who] # "wake"
                      /\ e.wake_time = Appointed(e.who)'
    BY <1>5 DEF EntryInv
  <2>1. e.who \in Sleepers /\ e.wake_time = Appointed(e.who)
    BY <1>1 DEF EntryInv, SleepTypes
  <2>2. ~\E d \in Due(now) : d.who = e.who
    BY <1>1, <1>6, <2>1 DEF EntryInv
  <2> QED
    BY <1>1, <1>2, <1>5, <2>1, <2>2 DEF EntryInv
<1>9. StepInv'
  <2> SUFFICES ASSUME NEW u \in Sleepers
               PROVE  /\ step[u] \in {"load", "push"} => FLAG'[u] = "sleep"
                      /\ step[u] = "push" => wake_time[u] = Appointed(u)'
                      /\ step[u] = "woken" => FLAG'[u] = "wake"
                      /\ step[u] \in {"wait", "woken"} /\ FLAG'[u] = "wake" => now >= Appointed(u)'
    BY <1>5 DEF StepInv
  <2>1. CASE \E e \in Due(now) : e.who = u
    <3>1. PICK e \in Due(now) : e.who = u
      BY <2>1
    <3>2. step[u] \in {"wait", "dead"} /\ Appointed(u) <= now /\ FLAG'[u] = "wake"
      BY <1>1, <1>5, <1>6, <2>1, <3>1 DEF EntryInv
    <3> QED
      BY <1>2, <1>3, <3>2
  <2>2. CASE ~\E e \in Due(now) : e.who = u
    <3>1. FLAG'[u] = FLAG[u]
      BY <1>5, <2>2
    <3>2. FLAG[u] = "wake" /\ step[u] \in {"wait", "woken"} => SYSTEM_INSTANT >= Appointed(u)
      BY <1>1 DEF StepInv
    <3>3. SYSTEM_INSTANT >= Appointed(u) => now >= Appointed(u)
      BY <1>2, <1>3
    <3> QED
      BY <1>1, <1>2, <3>1, <3>2, <3>3 DEF StepInv
  <2> QED
    BY <2>1, <2>2
<1>10. SleeperKnown'
  BY <1>1, <1>5 DEF SleeperKnown
<1>11. DueAreWoken'
  BY <1>5, <1>6 DEF DueAreWoken
<1> QED
  BY <1>7, <1>8, <1>9, <1>10, <1>11 DEF SleepInv

LEMMA SleepInvInductive == sleepSpec => []SleepInv
<1>1. sleepInit => SleepInv
  BY SleepAssumption
  DEF sleepInit, SleepInv, SleepTypes, EntryInv, StepInv, SleeperKnown, DueAreWoken
<1>2. SleepInv /\ [sleepNext]_sleepVars => SleepInv'
  <2> SUFFICES ASSUME SleepInv, [sleepNext]_sleepVars PROVE SleepInv'
    OBVIOUS
  <2>1. CASE UNCHANGED sleepVars
    BY <2>1 DEF sleepVars, SleepInv, SleepTypes, EntryInv, StepInv, SleeperKnown,
                DueAreWoken, Appointed, Duration
  <2>2. CASE tick
    BY <2>2, TickStep
  <2>3. ASSUME NEW s \in Sleepers, NEW secs \in Seconds, NEW ns \in Nanos,
               sleep_thread(s, secs, ns) \/ sleep_panic(s, secs, ns)
        PROVE  SleepInv'
    BY <2>3, SleepThreadStep, SleepPanicStep
  <2>4. ASSUME NEW s \in Sleepers, PollInit(s) PROVE SleepInv'
    BY <2>4, PollInitStep
  <2>5. ASSUME NEW s \in Sleepers, LoadInstant(s) PROVE SleepInv'
    BY <2>5, LoadInstantStep
  <2>6. ASSUME NEW s \in Sleepers, PushEntry(s) PROVE SleepInv'
    BY <2>6, PushEntryStep
  <2>7. ASSUME NEW s \in Sleepers, PollWake(s) \/ Awake(s) \/ Killed(s) PROVE SleepInv'
    BY <2>7, PollWakeStep, AwakeStep, KilledStep
  <2> QED
    BY <2>1, <2>2, <2>3, <2>4, <2>5, <2>6, <2>7 DEF sleepNext
<1> QED
  BY <1>1, <1>2, PTL DEF sleepSpec

(* No sleeper is forgotten: whatever interrupts its first poll, a sleeper   *)
(* that waits is woken or in the queue of tick().                           *)
THEOREM NoSleeperForgotten == sleepSpec => []SleeperKnown
<1>1. SleepInv => SleeperKnown
  BY DEF SleepInv
<1> QED
  BY <1>1, SleepInvInductive, PTL

(* tick() leaves nothing in the queue that is due.                          *)
THEOREM TickWakesAllDue == sleepSpec => []DueAreWoken
<1>1. SleepInv => DueAreWoken
  BY DEF SleepInv
<1> QED
  BY <1>1, SleepInvInductive, PTL

(* sleep_thread never returns early by the kernel's clock, as long as the   *)
(* end of the sleep can be written in a u64.                                *)
THEOREM SleepNotShort == sleepSpec => []SleptLongEnough
<1>1. SleepInv => SleptLongEnough
  <2> SUFFICES ASSUME SleepInv, NEW s \in Sleepers, step[s] = "woken",
                      ~(began[s] + asked[s] >= LIMIT)
               PROVE  SYSTEM_INSTANT >= began[s] + asked[s]
    BY DEF SleptLongEnough
  <2>1. began[s] \in Nat /\ asked[s] \in Nat /\ LIMIT \in Nat
    BY SleepAssumption DEF SleepInv, SleepTypes
  <2>2. asked[s] < LIMIT /\ began[s] + asked[s] < LIMIT /\ began[s] + asked[s] \in Nat
    BY <2>1
  <2>3. Duration(s) = asked[s]
    BY <2>1, <2>2, ModSmall DEF Duration
  <2>4. Appointed(s) = began[s] + asked[s]
    BY <2>1, <2>2, <2>3, ModSmall DEF Appointed
  <2>5. SYSTEM_INSTANT >= Appointed(s)
    BY DEF SleepInv, StepInv
  <2> QED
    BY <2>4, <2>5
<1> QED
  BY <1>1, SleepInvInductive, PTL

(* sleep() and tick(): no sleeper is forgotten, left in the queue when it  *)
(* is due, or woken early.                                                 *)
THEOREM SleepIsSafe == sleepSpec => []SleepSafe
BY NoSleeperForgotten, TickWakesAllDue, SleepNotShort, PTL DEF SleepSafe

-----------------------------------------------------------------------------
(* Watched values.                                                        *)
-----------------------------------------------------------------------------

(* Every step of the publisher and of the subscribers keeps the invariant. *)
LEMMA WatchStep ==
  ASSUME WatchInv, watchNext
  PROVE  WatchInv'
<1> USE WatchAssumption
        DEF WatchInv, WatchTypeOK, PublisherInv, SubscriberInv, ChangeNotMissed, Step
<1>1. CASE SendValue
  BY <1>1 DEF SendValue
<1>2. CASE SendVersion
  BY <1>2 DEF SendVersion
<1>3. CASE WakesDone
  BY <1>3 DEF WakesDone
<1>4. CASE PublisherDrop
  BY <1>4 DEF PublisherDrop
<1>5. ASSUME NEW s \in Subs, WakeSlot(s) PROVE WatchInv'
  BY <1>5 DEF WakeSlot
<1>6. ASSUME NEW s \in Subs, PollFirst(s) PROVE WatchInv'
  BY <1>6 DEF PollFirst
<1>7. ASSUME NEW s \in Subs, PollLost(s) PROVE WatchInv'
  BY <1>7 DEF PollLost
<1>8. ASSUME NEW s \in Subs, SyncLoad(s) PROVE WatchInv'
  BY <1>8 DEF SyncLoad
<1>9. ASSUME NEW s \in Subs, SyncCopy(s) PROVE WatchInv'
  BY <1>9 DEF SyncCopy
<1>10. ASSUME NEW s \in Subs, PollAgain(s) PROVE WatchInv'
  BY <1>10 DEF PollAgain
<1>11. ASSUME NEW s \in Subs, ChangedDrop(s) PROVE WatchInv'
  BY <1>11 DEF ChangedDrop
<1>12. ASSUME NEW s \in Subs, Borrow(s) PROVE WatchInv'
  BY <1>12 DEF Borrow
<1>13. ASSUME NEW s \in Subs, ClonePush(s) PROVE WatchInv'
  BY <1>13 DEF ClonePush
<1>14. ASSUME NEW s \in Subs, SubscriberDrop(s) PROVE WatchInv'
  BY <1>14 DEF SubscriberDrop
<1>15. ASSUME NEW s \in Subs, NEW u \in Subs, CloneSub(s, u) PROVE WatchInv'
  BY <1>15 DEF CloneSub
<1> QED
  BY <1>1, <1>2, <1>3, <1>4, <1>5, <1>6, <1>7, <1>8, <1>9, <1>10, <1>11, <1>12, <1>13, <1>14, <1>15, Zenon DEF watchNext

(* A subscriber of the watch that sleeps has missed no send and no drop of *)
(* the publisher, and holds a value as new as the version it has noted.    *)
THEOREM WatchIsSafe == watchSpec => []WatchSafe
<1>1. pair => WatchInv
  <2> SUFFICES ASSUME pair PROVE WatchInv
    OBVIOUS
  <2>1. /\ shared = 0 /\ version = 0 /\ ~pubLost /\ pubLost \in BOOLEAN
        /\ slots = {First} /\ wakes = {} /\ pub = "idle"
        /\ First \in Subs
    BY WatchAssumption, Zenon DEF pair
  <2>2. /\ armed \in [Subs -> BOOLEAN] /\ rung \in [Subs -> BOOLEAN]
        /\ seen \in [Subs -> {0}] /\ copy \in [Subs -> {0}] /\ sub \in [Subs -> {"idle", "none"}]
        /\ \A s \in Subs \ {First} : sub[s] = "none"
    BY DEF pair
  <2>3. WatchTypeOK
    BY <2>1, <2>2, WatchAssumption DEF WatchTypeOK
  <2>4. PublisherInv /\ ChangeNotMissed /\ SubscriberInv
    BY <2>1, <2>2 DEF PublisherInv, ChangeNotMissed, SubscriberInv
  <2> QED
    BY <2>3, <2>4 DEF WatchInv
<1>2. WatchInv /\ [watchNext]_watchVars => WatchInv'
  <2>1. ASSUME WatchInv, UNCHANGED watchVars PROVE WatchInv'
    BY <2>1 DEF watchVars, WatchInv, WatchTypeOK, PublisherInv, SubscriberInv, ChangeNotMissed
  <2> QED
    BY <2>1, WatchStep
<1>3. WatchInv => WatchSafe
  BY DEF WatchInv, WatchSafe, SubscriberInv, ValueNotOlder
<1> QED
  BY <1>1, <1>2, <1>3, PTL DEF watchSpec

-----------------------------------------------------------------------------
(* The keyboard.                                                          *)
-----------------------------------------------------------------------------

(* A character offered to the channel is dropped when the buffer is full.  *)
LEMMA OfferKept ==
  ASSUME KeyboardInv, NEW c \in {"a", "A", "blank"}, Offer(c), UNCHANGED taken
  PROVE  typed' \in Seq({"a", "A", "blank"}) /\ BufferKept'
<1>1. typed \in Seq({"a", "A", "blank"}) /\ taken \in Nat /\ Len(typed) \in Nat /\ KeyBuffer \in Nat
      /\ taken <= Len(typed) /\ Len(typed) - taken <= KeyBuffer
  BY KeyboardAssumption DEF KeyboardInv, BufferKept
<1>2. CASE Len(typed) - taken < KeyBuffer
  <2>1. typed' \in Seq({"a", "A", "blank"}) /\ Len(typed') = Len(typed) + 1
    BY <1>1, <1>2 DEF Offer
  <2> QED
    BY <1>1, <1>2, <2>1 DEF BufferKept
<1>3. CASE ~(Len(typed) - taken < KeyBuffer)
  BY <1>1, <1>3 DEF Offer, BufferKept
<1> QED
  BY <1>2, <1>3

(* Presses, releases and reads keep the invariant.                         *)
LEMMA KeyboardStep ==
  ASSUME KeyboardInv, [kbNext]_kbVars
  PROVE  KeyboardInv'
<1>1. /\ (leftShift <=> "lshift" \in held) /\ (rightShift <=> "rshift" \in held)
      /\ typed \in Seq({"a", "A", "blank"}) /\ taken \in Nat /\ Len(typed) \in Nat
  BY DEF KeyboardInv, ShiftFollowsKeys
<1>2. ASSUME NEW k \in Keys, Press(k) PROVE KeyboardInv'
  <2>1. held' = held \cup {k} /\ taken' = taken
    BY <1>2 DEF Press, Pressed
  <2>2. ShiftFollowsKeys'
    <3>1. CASE k \in {"lshift", "rshift"}
      BY <1>1, <1>2, <2>1, <3>1, Zenon DEF Press, ShiftKey, ShiftFollowsKeys
    <3>2. CASE k \notin {"lshift", "rshift"}
      BY <1>1, <1>2, <2>1, <3>2 DEF Press, ShiftFollowsKeys
    <3> QED
      BY <3>1, <3>2
  <2>3. typed' = typed \/ \E c \in {"a", "A", "blank"} : Offer(c)
    <3>1. k \notin {"lshift", "rshift"} => Mapping(k, leftShift \/ rightShift) \subseteq {"a", "A", "blank"}
      BY DEF Keys, Mapping
    <3> QED
      BY <1>2, <3>1, Zenon DEF Press
  <2>4. typed' \in Seq({"a", "A", "blank"}) /\ BufferKept'
    BY <2>1, <2>3, OfferKept DEF KeyboardInv, BufferKept
  <2> QED
    BY <1>1, <2>1, <2>2, <2>4 DEF KeyboardInv
<1>3. ASSUME NEW k \in Keys, ReleaseKey(k) PROVE KeyboardInv'
  <2>1. held' = held \ {k} /\ UNCHANGED <<typed, taken>>
    BY <1>3 DEF ReleaseKey
  <2>2. ShiftFollowsKeys'
    <3>1. CASE k \in {"lshift", "rshift"}
      BY <1>1, <1>3, <2>1, <3>1, Zenon DEF ReleaseKey, ShiftKey, ShiftFollowsKeys
    <3>2. CASE k \notin {"lshift", "rshift"}
      BY <1>1, <1>3, <2>1, <3>2 DEF ReleaseKey, ShiftFollowsKeys
    <3> QED
      BY <3>1, <3>2
  <2> QED
    BY <2>1, <2>2 DEF KeyboardInv, BufferKept
<1>4. CASE GotChar
  <2>1. UNCHANGED <<held, leftShift, rightShift, typed>> /\ taken < Len(typed) /\ taken' = taken + 1
    BY <1>4 DEF GotChar
  <2>2. ShiftFollowsKeys'
    BY <1>1, <2>1, Zenon DEF ShiftFollowsKeys
  <2>3. BufferKept' /\ taken' \in Nat
    BY <1>1, <2>1, KeyboardAssumption DEF KeyboardInv, BufferKept
  <2> QED
    BY <1>1, <2>1, <2>2, <2>3 DEF KeyboardInv
<1>5. ASSUME UNCHANGED <<held, leftShift, rightShift, typed, taken>> PROVE KeyboardInv'
  BY <1>5, Zenon DEF KeyboardInv, ShiftFollowsKeys, BufferKept
<1>6. \/ \E k \in Keys : Press(k) \/ ReleaseKey(k)
      \/ GotChar
      \/ UNCHANGED <<held, leftShift, rightShift, typed, taken>>
  BY Zenon DEF kbNext, kbVars, GetChar, GetCharStopped
<1> QED
  BY <1>2, <1>3, <1>4, <1>5, <1>6, Zenon

(* The shift flags follow the keys held down through any order of presses  *)
(* and releases, and the channel of handle_keyboard_scan is never overrun  *)
(* nor read past what was typed, for any number of readers.                *)
THEOREM KeyboardIsSafe == kbSpec => []KeyboardSafe
<1>1. kbInit => KeyboardInv
  <2> SUFFICES ASSUME kbInit PROVE KeyboardInv
    OBVIOUS
  <2>1. ShiftFollowsKeys
    BY DEF kbInit, ShiftFollowsKeys
  <2>2. typed \in Seq({"a", "A", "blank"}) /\ taken \in Nat /\ BufferKept
    BY KeyboardAssumption DEF kbInit, BufferKept
  <2> QED
    BY <2>1, <2>2 DEF KeyboardInv
<1>2. KeyboardInv /\ [kbNext]_kbVars => KeyboardInv'
  BY KeyboardStep
<1>3. KeyboardInv => KeyboardSafe
  BY DEF KeyboardInv, KeyboardSafe
<1> QED
  BY <1>1, <1>2, <1>3, PTL DEF kbSpec

-----------------------------------------------------------------------------
(* One answer.                                                            *)
-----------------------------------------------------------------------------

(* Every step of the two sides keeps the invariant.                         *)
LEMMA OneshotStep ==
  ASSUME OneshotInv, osNext
  PROVE  OneshotInv'
<1> USE OneshotAssumption DEF OneshotInv, OneshotTypeOK, LineInv, WaiterInv, AnswerInv, AsleepInv,
                              Receiving, Stored, Pass
<1>1. CASE SendLock
  BY <1>1, ZenonT(30) DEF SendLock
<1>2. CASE SendStore
  <2>1. OneshotTypeOK'
    BY <1>2 DEF SendStore
  <2>2. LineInv'
    BY <1>2 DEF SendStore
  <2>3. WaiterInv'
    BY <1>2 DEF SendStore
  <2>4. AnswerInv'
    BY <1>2 DEF SendStore
  <2>5. AsleepInv'
    BY <1>2, Zenon DEF SendStore
  <2> QED
    BY <2>1, <2>2, <2>3, <2>4, <2>5
<1>3. CASE SendPop
  BY <1>3 DEF SendPop
<1>4. CASE SendMark
  <2>1. OneshotTypeOK'
    BY <1>4, Zenon DEF SendMark
  <2>2. LineInv'
    BY <1>4 DEF SendMark
  <2>3. WaiterInv'
    BY <1>4 DEF SendMark
  <2>4. AnswerInv'
    BY <1>4 DEF SendMark
  <2>5. AsleepInv'
    BY <1>4 DEF SendMark
  <2> QED
    BY <2>1, <2>2, <2>3, <2>4, <2>5
<1>5. CASE SendCancel
  <2>1. OneshotTypeOK'
    BY <1>5, ZenonT(40) DEF SendCancel, LeaveLine
  <2>2. LineInv'
    BY <1>5 DEF SendCancel, LeaveLine
  <2>3. WaiterInv'
    BY <1>5 DEF SendCancel, LeaveLine
  <2>4. AnswerInv'
    BY <1>5 DEF SendCancel, LeaveLine
  <2>5. AsleepInv'
    BY <1>5, Zenon DEF SendCancel, LeaveLine
  <2> QED
    BY <2>1, <2>2, <2>3, <2>4, <2>5
<1>6. CASE Lose
  BY <1>6, ZenonT(30) DEF Lose
<1>7. CASE LoseWake
  BY <1>7, ZenonT(30) DEF LoseWake
<1>8. CASE RecvStart
  BY <1>8 DEF RecvStart
<1>9. CASE RecvRegister
  BY <1>9 DEF RecvRegister
<1>10. CASE RecvLoad
  BY <1>10 DEF RecvLoad, ReleaseRx, LeaveLine
<1>11. CASE RecvPollLock
  <2>1. OneshotTypeOK'
    BY <1>11, Zenon DEF RecvPollLock, TakeOrWait
  <2>2. LineInv'
    BY <1>11 DEF RecvPollLock, TakeOrWait
  <2>3. WaiterInv'
    BY <1>11 DEF RecvPollLock, TakeOrWait
  <2>4. AnswerInv'
    BY <1>11 DEF RecvPollLock, TakeOrWait
  <2>5. AsleepInv'
    BY <1>11 DEF RecvPollLock, TakeOrWait
  <2> QED
    BY <2>1, <2>2, <2>3, <2>4, <2>5
<1>12. CASE RecvPollInit
  BY <1>12 DEF RecvPollInit
<1>13. CASE RecvPollWait
  BY <1>13 DEF RecvPollWait
<1>14. CASE RecvAgain
  <2>1. OneshotTypeOK'
    BY <1>14, Zenon DEF RecvAgain
  <2>2. LineInv'
    BY <1>14 DEF RecvAgain
  <2>3. WaiterInv'
    BY <1>14 DEF RecvAgain
  <2>4. AnswerInv'
    BY <1>14 DEF RecvAgain
  <2>5. AsleepInv'
    BY <1>14 DEF RecvAgain
  <2> QED
    BY <2>1, <2>2, <2>3, <2>4, <2>5
<1>15. CASE RecvCancel
  BY <1>15, ZenonT(30) DEF RecvCancel, ReleaseRx, LeaveLine
<1> QED
  BY <1>1, <1>2, <1>3, <1>4, <1>5, <1>6, <1>7, <1>8, <1>9, <1>10, <1>11, <1>12, <1>13, <1>14, <1>15, ZenonT(40)
     DEF osNext

(* The oneshot channel is safe: a recv that sleeps when the sender has     *)
(* sent or is gone was woken, SenderLost and values are told truly, and no *)
(* side that has returned or was dropped keeps the mutex.                  *)
THEOREM OneshotIsSafe == osSpec => []OneshotSafe
<1>1. osInit => OneshotInv
  BY OneshotAssumption, Zenon DEF osInit, OneshotInv, OneshotTypeOK, LineInv, WaiterInv, AnswerInv,
                           AsleepInv, Receiving, Stored
<1>2. OneshotInv /\ [osNext]_osVars => OneshotInv'
  <2>1. ASSUME OneshotInv, UNCHANGED osVars PROVE OneshotInv'
    BY <2>1 DEF osVars, OneshotInv, OneshotTypeOK, LineInv, WaiterInv, AnswerInv, AsleepInv,
                Receiving, Stored
  <2> QED
    BY <2>1, OneshotStep
<1>3. OneshotInv => OneshotSafe
  BY OneshotAssumption DEF OneshotInv, OneshotTypeOK, LineInv, WaiterInv, AnswerInv, AsleepInv,
       Receiving, Stored, OneshotSafe, RecvNotForgotten, AnswerTellsTruth, LockReturned
<1> QED
  BY <1>1, <1>2, <1>3, PTL DEF osSpec

-----------------------------------------------------------------------------
(* Division with remainder.                                               *)
-----------------------------------------------------------------------------

(* Division with remainder.                                                *)
LEMMA ModRange ==
  ASSUME NEW n \in Nat, n > 0, NEW a \in Nat
  PROVE  a % n \in 0..(n - 1) /\ a \div n \in Nat /\ a = (n * (a \div n)) + (a % n)
OBVIOUS

LEMMA Quotients ==
  ASSUME NEW n \in Nat, n > 0, NEW q \in Int, NEW p \in Int, n * q - n * p < n, n * p - n * q < n
  PROVE  q = p
<1>1. ASSUME NEW d \in Int, d > 0 PROVE n * d >= n
  BY <1>1
<1>2. CASE q > p
  <2>1. n * q - n * p = n * (q - p) /\ q - p > 0
    BY <1>2
  <2> QED
    BY <1>1, <2>1
<1>3. CASE p > q
  <2>1. n * p - n * q = n * (p - q) /\ p - q > 0
    BY <1>3
  <2> QED
    BY <1>1, <2>1
<1> QED
  BY <1>2, <1>3

(* Numbers that are less than n apart have different remainders, those     *)
(* that are n apart the same.                                              *)
LEMMA ModApart ==
  ASSUME NEW n \in Nat, n > 0, NEW a \in Nat, NEW b \in Nat, a # b, a - b < n, b - a < n
  PROVE  a % n # b % n
<1>1. PICK q \in Nat, r \in 0..(n - 1) : a = (n * q) + r /\ r = a % n
  BY ModRange
<1>2. PICK p \in Nat, s \in 0..(n - 1) : b = (n * p) + s /\ s = b % n
  BY ModRange
<1>3. r = s => q = p
  <2> SUFFICES ASSUME r = s PROVE q = p
    OBVIOUS
  <2>1. n * q \in Int /\ n * p \in Int /\ n * q - n * p < n /\ n * p - n * q < n
    BY <1>1, <1>2
  <2> QED
    BY <2>1, Quotients
<1> QED
  BY <1>1, <1>2, <1>3

LEMMA ModWrap ==
  ASSUME NEW n \in Nat, n > 0, NEW a \in Nat
  PROVE  (a + n) % n = a % n
<1>1. PICK q \in Nat, r \in 0..(n - 1) : a = (n * q) + r /\ r = a % n
  BY ModRange, ZenonT(40)
<1>2. PICK p \in Nat, s \in 0..(n - 1) : a + n = (n * p) + s /\ s = (a + n) % n
  BY ModRange
<1>3. n * (q + 1) = (n * q) + n
  OBVIOUS
<1>4. n * (q + 1) \in Int /\ n * p \in Int /\ n * (q + 1) - n * p < n /\ n * p - n * (q + 1) < n
  BY <1>1, <1>2, <1>3
<1>5. q + 1 = p
  BY <1>4, Quotients
<1> QED
  BY <1>1, <1>2, <1>3, <1>5

-----------------------------------------------------------------------------
(* The bounded channel.                                                   *)
-----------------------------------------------------------------------------

(* What a side of the bounded channel may do in one step.                  *)
SideAction(s) ==
  \/ TryCall(s) \/ TryLoad(s) \/ TryTake(s) \/ Call(s) \/ Register(s) \/ Failed(s) \/ Load(s)
  \/ Acquire(s) \/ Repoll(s) \/ Deregister(s) \/ Clear(s) \/ Slot(s) \/ Release(s) \/ Cancel(s)
  \/ Abort(s) \/ AbortClear(s) \/ AbortDrop(s) \/ Drop(s) \/ DropTake(s)

(* Turns and flags follow the steps of the sides.                          *)
LEMMA SpscPlaces ==
  ASSUME SpscTypeOK, TurnInv, FlagInv, PendingQueued,
         Drain \/ \E s \in Sides : SideAction(s)
  PROVE  TurnInv' /\ FlagInv' /\ PendingQueued'
<1> USE DEF Sides, Peer, TurnInv, FlagInv, PendingQueued, SpscTypeOK, SideTypes
<1>1. ASSUME NEW s \in Sides, TryCall(s) PROVE TurnInv' /\ FlagInv' /\ PendingQueued'
  BY <1>1 DEF TryCall, Goto, MayCall
<1>2. ASSUME NEW s \in Sides, TryLoad(s) PROVE TurnInv' /\ FlagInv' /\ PendingQueued'
  BY <1>2 DEF TryLoad, Goto, Return
<1>3. ASSUME NEW s \in Sides, TryTake(s) PROVE TurnInv' /\ FlagInv' /\ PendingQueued'
  BY <1>3 DEF TryTake, Goto, Return
<1>4. ASSUME NEW s \in Sides, Call(s) PROVE TurnInv' /\ FlagInv' /\ PendingQueued'
  BY <1>4 DEF Call, Goto, MayCall, Return
<1>5. ASSUME NEW s \in Sides, Register(s) PROVE TurnInv' /\ FlagInv' /\ PendingQueued'
  BY <1>5 DEF Register, Goto
<1>6. ASSUME NEW s \in Sides, Failed(s) PROVE TurnInv' /\ FlagInv' /\ PendingQueued'
  BY <1>6 DEF Failed, Goto, LostPeer, Return
<1>7. ASSUME NEW s \in Sides, Load(s) PROVE TurnInv' /\ FlagInv' /\ PendingQueued'
  BY <1>7 DEF Load, Goto, LostPeer, Return, DropAcquire
<1>8. ASSUME NEW s \in Sides, Acquire(s) PROVE TurnInv' /\ FlagInv' /\ PendingQueued'
  BY <1>8 DEF Acquire, Goto
<1>9. ASSUME NEW s \in Sides, Repoll(s) PROVE TurnInv' /\ FlagInv' /\ PendingQueued'
  BY <1>9 DEF Repoll, Goto
<1>10. ASSUME NEW s \in Sides, Deregister(s) PROVE TurnInv' /\ FlagInv' /\ PendingQueued'
  BY <1>10 DEF Deregister, Goto
<1>11. ASSUME NEW s \in Sides, Clear(s) PROVE TurnInv' /\ FlagInv' /\ PendingQueued'
  BY <1>11 DEF Clear, Goto
<1>12. ASSUME NEW s \in Sides, Slot(s) PROVE TurnInv' /\ FlagInv' /\ PendingQueued'
  BY <1>12 DEF Slot, Goto
<1>13. ASSUME NEW s \in Sides, Release(s) PROVE TurnInv' /\ FlagInv' /\ PendingQueued'
  BY <1>13 DEF Release, Goto, Release1, Return
<1>14. ASSUME NEW s \in Sides, Cancel(s) PROVE TurnInv' /\ FlagInv' /\ PendingQueued'
  BY <1>14 DEF Cancel, Goto
<1>15. ASSUME NEW s \in Sides, Abort(s) PROVE TurnInv' /\ FlagInv' /\ PendingQueued'
  BY <1>15 DEF Abort, Goto
<1>16. ASSUME NEW s \in Sides, AbortClear(s) PROVE TurnInv' /\ FlagInv' /\ PendingQueued'
  BY <1>16 DEF AbortClear, Goto
<1>17. ASSUME NEW s \in Sides, AbortDrop(s) PROVE TurnInv' /\ FlagInv' /\ PendingQueued'
  BY <1>17 DEF AbortDrop, Goto, DropAcquire, Return
<1>18. ASSUME NEW s \in Sides, Drop(s) PROVE TurnInv' /\ FlagInv' /\ PendingQueued'
  BY <1>18 DEF Drop, Goto
<1>19. ASSUME NEW s \in Sides, DropTake(s) PROVE TurnInv' /\ FlagInv' /\ PendingQueued'
  BY <1>19 DEF DropTake, Goto
<1>20. CASE Drain
  BY <1>20 DEF Drain, Goto, Return
<1> QED
  BY <1>1, <1>2, <1>3, <1>4, <1>5, <1>6, <1>7, <1>8, <1>9, <1>10, <1>11, <1>12,
     <1>13, <1>14, <1>15, <1>16, <1>17, <1>18, <1>19, <1>20, Zenon DEF SideAction

(* SenderLost is told when nothing is left.                                *)
LEMMA SpscDrained ==
  ASSUME SpscTypeOK, TurnInv, FlagInv, DrainInv, CreditsBalance,
         Drain \/ \E s \in Sides : SideAction(s)
  PROVE  DrainInv'
<1> USE DEF Sides, Peer, FlagInv, DrainInv, SpscTypeOK, SideTypes
<1>1. ASSUME NEW s \in Sides, TryCall(s) PROVE DrainInv'
  BY <1>1 DEF TryCall, Goto, MayCall
<1>2. ASSUME NEW s \in Sides, TryLoad(s) PROVE DrainInv'
  BY <1>2 DEF TryLoad, Goto, Return
<1>3. ASSUME NEW s \in Sides, TryTake(s) PROVE DrainInv'
  BY <1>3 DEF TryTake, Goto, Return
<1>4. ASSUME NEW s \in Sides, Call(s) PROVE DrainInv'
  BY <1>4 DEF Call, Goto, MayCall, Return
<1>5. ASSUME NEW s \in Sides, Register(s) PROVE DrainInv'
  BY <1>5 DEF Register, Goto
<1>6. ASSUME NEW s \in Sides, Failed(s) PROVE DrainInv'
  BY <1>6, ZenonT(30) DEF Failed, Goto, LostPeer, Return
<1>7. ASSUME NEW s \in Sides, Load(s) PROVE DrainInv'
  BY <1>7 DEF Load, Goto, LostPeer, Return, DropAcquire
<1>8. ASSUME NEW s \in Sides, Acquire(s) PROVE DrainInv'
  BY <1>8 DEF Acquire, Goto
<1>9. ASSUME NEW s \in Sides, Repoll(s) PROVE DrainInv'
  BY <1>9 DEF Repoll, Goto
<1>10. ASSUME NEW s \in Sides, Deregister(s) PROVE DrainInv'
  BY <1>10 DEF Deregister, Goto
<1>11. ASSUME NEW s \in Sides, Clear(s) PROVE DrainInv'
  BY <1>11 DEF Clear, Goto
<1>12. ASSUME NEW s \in Sides, Slot(s) PROVE DrainInv'
  BY <1>12 DEF Slot, Goto
<1>13. ASSUME NEW s \in Sides, Release(s) PROVE DrainInv'
  BY <1>13 DEF Release, Goto, Release1, Return
<1>14. ASSUME NEW s \in Sides, Cancel(s) PROVE DrainInv'
  BY <1>14 DEF Cancel, Goto
<1>15. ASSUME NEW s \in Sides, Abort(s) PROVE DrainInv'
  BY <1>15 DEF Abort, Goto
<1>16. ASSUME NEW s \in Sides, AbortClear(s) PROVE DrainInv'
  BY <1>16 DEF AbortClear, Goto
<1>17. ASSUME NEW s \in Sides, AbortDrop(s) PROVE DrainInv'
  BY <1>17 DEF AbortDrop, Goto, DropAcquire, Return
<1>18. ASSUME NEW s \in Sides, Drop(s) PROVE DrainInv'
  BY <1>18 DEF Drop, Goto
<1>19. ASSUME NEW s \in Sides, DropTake(s) PROVE DrainInv'
  BY <1>19 DEF DropTake, Goto
<1>20. CASE Drain
  <2>1. turn["rx"] = "none" /\ at["rx"] = "drain" /\ lost["rx"] /\ at["tx"] \in {"dropTake", "gone"}
    BY <1>20 DEF Drain, TurnInv
  <2>2. credit["rx"] = 0 => index["rx"] = index["tx"]
    BY <2>1 DEF CreditsBalance, InHand, Owed
  <2> QED
    BY <1>20, <2>1, <2>2 DEF Drain, Goto, Return
<1> QED
  BY <1>1, <1>2, <1>3, <1>4, <1>5, <1>6, <1>7, <1>8, <1>9, <1>10, <1>11, <1>12,
     <1>13, <1>14, <1>15, <1>16, <1>17, <1>18, <1>19, <1>20, Zenon DEF SideAction

(* Permits are numbers, and everything else keeps its type.                *)
LEMMA SpscTypes ==
  ASSUME SpscTypeOK, SideTypes,
         Drain \/ \E s \in Sides : SideAction(s)
  PROVE  SideTypes' /\ credit' \in [Sides -> Nat]
<1> USE SpscAssumption DEF Sides, Peer, SideTypes, SpscTypeOK, SideTypes
<1>1. ASSUME NEW s \in Sides, TryCall(s) PROVE SideTypes' /\ credit' \in [Sides -> Nat]
  BY <1>1 DEF TryCall, Goto, MayCall
<1>2. ASSUME NEW s \in Sides, TryLoad(s) PROVE SideTypes' /\ credit' \in [Sides -> Nat]
  BY <1>2 DEF TryLoad, Goto, Return
<1>3. ASSUME NEW s \in Sides, TryTake(s) PROVE SideTypes' /\ credit' \in [Sides -> Nat]
  BY <1>3 DEF TryTake, Goto, Return
<1>4. ASSUME NEW s \in Sides, Call(s) PROVE SideTypes' /\ credit' \in [Sides -> Nat]
  <2>1. at' \in [Sides -> {"idle", "tryLoad", "tryTake", "register", "failed", "load",
                           "acquire", "pending", "deregister", "clear", "slot",
                           "release", "drain", "abort", "abortClear", "abortDrop",
                           "dropTake", "gone"}]
    BY <1>4 DEF Call, Goto, MayCall, Return
  <2>2. answer' \in [Sides -> {"none", "ok", "full", "lost", "lostTry"}]
    BY <1>4 DEF Call, Goto, MayCall, Return
  <2>3. credit' \in [Sides -> Nat] /\ turn' \in [Sides -> {"none", "queued", "granted"}]
    BY <1>4 DEF Call, Goto, MayCall, Return
  <2>4. lost' \in [Sides -> BOOLEAN] /\ woken' \in [Sides -> BOOLEAN] /\ cell' \in [Sides -> BOOLEAN]
    <3>1. CASE cell' = cell
      BY <1>4, <3>1 DEF Call
    <3>2. CASE cell' = [cell EXCEPT ![s] = TRUE]
      BY <1>4, <3>2 DEF Call
    <3> QED
      BY <1>4, <3>1, <3>2, Zenon DEF Call
  <2> QED
    BY <1>4, <2>1, <2>2, <2>3, <2>4 DEF Call
<1>5. ASSUME NEW s \in Sides, Register(s) PROVE SideTypes' /\ credit' \in [Sides -> Nat]
  BY <1>5 DEF Register, Goto
<1>6. ASSUME NEW s \in Sides, Failed(s) PROVE SideTypes' /\ credit' \in [Sides -> Nat]
  BY <1>6 DEF Failed, Goto, LostPeer, Return
<1>7. ASSUME NEW s \in Sides, Load(s) PROVE SideTypes' /\ credit' \in [Sides -> Nat]
  <2>1. at' \in [Sides -> {"idle", "tryLoad", "tryTake", "register", "failed", "load",
                           "acquire", "pending", "deregister", "clear", "slot",
                           "release", "drain", "abort", "abortClear", "abortDrop",
                           "dropTake", "gone"}]
    BY <1>7 DEF Load, Goto, LostPeer, Return, DropAcquire
  <2>2. answer' \in [Sides -> {"none", "ok", "full", "lost", "lostTry"}]
    BY <1>7 DEF Load, Goto, LostPeer, Return, DropAcquire
  <2>3. credit' \in [Sides -> Nat] /\ turn' \in [Sides -> {"none", "queued", "granted"}]
    BY <1>7 DEF Load, Goto, LostPeer, Return, DropAcquire
  <2>4. lost' \in [Sides -> BOOLEAN] /\ woken' \in [Sides -> BOOLEAN] /\ cell' \in [Sides -> BOOLEAN]
    <3>1. CASE lost' = lost
      BY <1>7, <3>1 DEF Load, LostPeer
    <3>2. CASE lost' = [lost EXCEPT ![s] = TRUE]
      BY <1>7, <3>2 DEF Load, LostPeer
    <3> QED
      BY <1>7, <3>1, <3>2, Zenon DEF Load, LostPeer
  <2> QED
    BY <1>7, <2>1, <2>2, <2>3, <2>4 DEF Load
<1>8. ASSUME NEW s \in Sides, Acquire(s) PROVE SideTypes' /\ credit' \in [Sides -> Nat]
  BY <1>8 DEF Acquire, Goto
<1>9. ASSUME NEW s \in Sides, Repoll(s) PROVE SideTypes' /\ credit' \in [Sides -> Nat]
  BY <1>9 DEF Repoll, Goto
<1>10. ASSUME NEW s \in Sides, Deregister(s) PROVE SideTypes' /\ credit' \in [Sides -> Nat]
  BY <1>10 DEF Deregister, Goto
<1>11. ASSUME NEW s \in Sides, Clear(s) PROVE SideTypes' /\ credit' \in [Sides -> Nat]
  BY <1>11 DEF Clear, Goto
<1>12. ASSUME NEW s \in Sides, Slot(s) PROVE SideTypes' /\ credit' \in [Sides -> Nat]
  BY <1>12 DEF Slot, Goto
<1>13. ASSUME NEW s \in Sides, Release(s) PROVE SideTypes' /\ credit' \in [Sides -> Nat]
  <2>1. at' \in [Sides -> {"idle", "tryLoad", "tryTake", "register", "failed", "load",
                           "acquire", "pending", "deregister", "clear", "slot",
                           "release", "drain", "abort", "abortClear", "abortDrop",
                           "dropTake", "gone"}]
    BY <1>13 DEF Release, Goto, Release1, Return
  <2>2. answer' \in [Sides -> {"none", "ok", "full", "lost", "lostTry"}]
    BY <1>13 DEF Release, Goto, Release1, Return
  <2>3. credit' \in [Sides -> Nat] /\ turn' \in [Sides -> {"none", "queued", "granted"}]
    BY <1>13 DEF Release, Goto, Release1, Return
  <2>4. lost' \in [Sides -> BOOLEAN] /\ woken' \in [Sides -> BOOLEAN] /\ cell' \in [Sides -> BOOLEAN]
    <3>1. CASE woken' = woken
      BY <1>13, <3>1 DEF Release, Release1
    <3>2. CASE woken' = [woken EXCEPT ![Peer(s)] = TRUE]
      BY <1>13, <3>2 DEF Release, Release1
    <3> QED
      BY <1>13, <3>1, <3>2, Zenon DEF Release, Release1
  <2> QED
    BY <1>13, <2>1, <2>2, <2>3, <2>4 DEF Release
<1>14. ASSUME NEW s \in Sides, Cancel(s) PROVE SideTypes' /\ credit' \in [Sides -> Nat]
  BY <1>14 DEF Cancel, Goto
<1>15. ASSUME NEW s \in Sides, Abort(s) PROVE SideTypes' /\ credit' \in [Sides -> Nat]
  BY <1>15 DEF Abort, Goto
<1>16. ASSUME NEW s \in Sides, AbortClear(s) PROVE SideTypes' /\ credit' \in [Sides -> Nat]
  BY <1>16 DEF AbortClear, Goto
<1>17. ASSUME NEW s \in Sides, AbortDrop(s) PROVE SideTypes' /\ credit' \in [Sides -> Nat]
  BY <1>17 DEF AbortDrop, Goto, DropAcquire, Return
<1>18. ASSUME NEW s \in Sides, Drop(s) PROVE SideTypes' /\ credit' \in [Sides -> Nat]
  BY <1>18 DEF Drop, Goto
<1>19. ASSUME NEW s \in Sides, DropTake(s) PROVE SideTypes' /\ credit' \in [Sides -> Nat]
  BY <1>19 DEF DropTake, Goto
<1>20. CASE Drain
  BY <1>20 DEF Drain, Goto, Return
<1> QED
  BY <1>1, <1>2, <1>3, <1>4, <1>5, <1>6, <1>7, <1>8, <1>9, <1>10, <1>11, <1>12,
     <1>13, <1>14, <1>15, <1>16, <1>17, <1>18, <1>19, <1>20, Zenon DEF SideAction

(* A step that moves a permit between its semaphore and its owner.         *)
LEMMA CreditsKept ==
  ASSUME SpscTypeOK, CreditsBalance, index' = index,
         \A u \in Sides : /\ credit'[u] + InHand(u)' = credit[u] + InHand(u)
                          /\ Owed(u)' = Owed(u)
  PROVE  CreditsBalance'
<1>1. /\ credit'["tx"] + InHand("tx")' = credit["tx"] + InHand("tx")
      /\ credit'["rx"] + InHand("rx")' = credit["rx"] + InHand("rx")
      /\ Owed("tx")' = Owed("tx") /\ Owed("rx")' = Owed("rx")
  BY DEF Sides
<1> QED
  BY <1>1 DEF CreditsBalance

(* No step loses or invents a permit.                                      *)
LEMMA SpscCredits ==
  ASSUME SpscTypeOK, TurnInv, CreditsBalance,
         Drain \/ \E s \in Sides : SideAction(s)
  PROVE  CreditsBalance'
<1> USE SpscAssumption DEF Sides, Peer, SpscTypeOK, SideTypes
<1>1. ASSUME NEW s \in Sides, TryCall(s) PROVE CreditsBalance'
  <2>1. \A u \in Sides : /\ credit'[u] + InHand(u)' = credit[u] + InHand(u)
                         /\ Owed(u)' = Owed(u)
    BY <1>1 DEF TryCall, Goto, MayCall, InHand, Owed, TurnInv
  <2> QED
    BY <1>1, <2>1, CreditsKept DEF TryCall
<1>2. ASSUME NEW s \in Sides, TryLoad(s) PROVE CreditsBalance'
  <2>1. \A u \in Sides : /\ credit'[u] + InHand(u)' = credit[u] + InHand(u)
                         /\ Owed(u)' = Owed(u)
    BY <1>2 DEF TryLoad, Goto, Return, InHand, Owed, TurnInv
  <2> QED
    BY <1>2, <2>1, CreditsKept DEF TryLoad
<1>3. ASSUME NEW s \in Sides, TryTake(s) PROVE CreditsBalance'
  <2>1. \A u \in Sides : /\ credit'[u] + InHand(u)' = credit[u] + InHand(u)
                         /\ Owed(u)' = Owed(u)
    BY <1>3 DEF TryTake, Goto, Return, InHand, Owed, TurnInv
  <2> QED
    BY <1>3, <2>1, CreditsKept DEF TryTake
<1>4. ASSUME NEW s \in Sides, Call(s) PROVE CreditsBalance'
  <2>1. \A u \in Sides : /\ credit'[u] + InHand(u)' = credit[u] + InHand(u)
                         /\ Owed(u)' = Owed(u)
    BY <1>4 DEF Call, Goto, MayCall, Return, InHand, Owed, TurnInv
  <2> QED
    BY <1>4, <2>1, CreditsKept DEF Call
<1>5. ASSUME NEW s \in Sides, Register(s) PROVE CreditsBalance'
  <2>1. \A u \in Sides : /\ credit'[u] + InHand(u)' = credit[u] + InHand(u)
                         /\ Owed(u)' = Owed(u)
    BY <1>5 DEF Register, Goto, InHand, Owed, TurnInv
  <2> QED
    BY <1>5, <2>1, CreditsKept DEF Register
<1>6. ASSUME NEW s \in Sides, Failed(s) PROVE CreditsBalance'
  <2>1. \A u \in Sides : /\ credit'[u] + InHand(u)' = credit[u] + InHand(u)
                         /\ Owed(u)' = Owed(u)
    BY <1>6 DEF Failed, Goto, LostPeer, Return, InHand, Owed, TurnInv
  <2> QED
    BY <1>6, <2>1, CreditsKept DEF Failed
<1>7. ASSUME NEW s \in Sides, Load(s) PROVE CreditsBalance'
  <2>1. \A u \in Sides : /\ credit'[u] + InHand(u)' = credit[u] + InHand(u)
                         /\ Owed(u)' = Owed(u)
    BY <1>7 DEF Load, Goto, LostPeer, Return, DropAcquire, InHand, Owed, TurnInv
  <2> QED
    BY <1>7, <2>1, CreditsKept DEF Load
<1>8. ASSUME NEW s \in Sides, Acquire(s) PROVE CreditsBalance'
  <2>1. \A u \in Sides : /\ credit'[u] + InHand(u)' = credit[u] + InHand(u)
                         /\ Owed(u)' = Owed(u)
    BY <1>8 DEF Acquire, Goto, InHand, Owed, TurnInv
  <2> QED
    BY <1>8, <2>1, CreditsKept DEF Acquire
<1>9. ASSUME NEW s \in Sides, Repoll(s) PROVE CreditsBalance'
  <2>1. \A u \in Sides : /\ credit'[u] + InHand(u)' = credit[u] + InHand(u)
                         /\ Owed(u)' = Owed(u)
    BY <1>9 DEF Repoll, Goto, InHand, Owed, TurnInv
  <2> QED
    BY <1>9, <2>1, CreditsKept DEF Repoll
<1>10. ASSUME NEW s \in Sides, Deregister(s) PROVE CreditsBalance'
  <2>1. \A u \in Sides : /\ credit'[u] + InHand(u)' = credit[u] + InHand(u)
                         /\ Owed(u)' = Owed(u)
    BY <1>10, ZenonT(30) DEF Deregister, Goto, InHand, Owed, TurnInv
  <2> QED
    BY <1>10, <2>1, CreditsKept DEF Deregister
<1>11. ASSUME NEW s \in Sides, Clear(s) PROVE CreditsBalance'
  <2>1. \A u \in Sides : /\ credit'[u] + InHand(u)' = credit[u] + InHand(u)
                         /\ Owed(u)' = Owed(u)
    BY <1>11 DEF Clear, Goto, InHand, Owed, TurnInv
  <2> QED
    BY <1>11, <2>1, CreditsKept DEF Clear
<1>12. ASSUME NEW s \in Sides, Slot(s) PROVE CreditsBalance'
  <2>1. CASE s = "tx"
    <3>1. /\ credit' = credit /\ index'["tx"] = index["tx"] + 1 /\ index'["rx"] = index["rx"]
          /\ InHand("tx") = 1 /\ InHand("tx")' = 0 /\ InHand("rx")' = InHand("rx")
          /\ Owed("tx") = 0 /\ Owed("tx")' = 1 /\ Owed("rx")' = Owed("rx")
      BY <1>12, <2>1 DEF Slot, Goto, InHand, Owed, TurnInv
    <3>2. /\ credit["tx"] \in Nat /\ credit["rx"] \in Nat /\ Owed("rx") \in Nat /\ InHand("rx") \in Nat
          /\ index["tx"] \in Nat /\ index["rx"] \in Nat
      BY DEF InHand, Owed
    <3>3. /\ index["rx"] <= index["tx"]
          /\ credit["tx"] + InHand("tx") + Owed("rx") = Size - (index["tx"] - index["rx"])
          /\ credit["rx"] + InHand("rx") + Owed("tx") = index["tx"] - index["rx"]
      BY DEF CreditsBalance
    <3>4. index["rx"]' <= index["tx"]'
      BY <3>1, <3>2, <3>3
    <3>5. credit'["tx"] + InHand("tx")' + Owed("rx")' = Size - (index'["tx"] - index'["rx"])
      <4>1. credit["tx"] + 1 + Owed("rx") = Size - (index["tx"] - index["rx"])
        BY <3>1, <3>3
      <4>2. credit["tx"] + 0 + Owed("rx") = Size - ((index["tx"] + 1) - index["rx"])
        BY <3>2, <4>1
      <4> QED
        BY <3>1, <4>2
    <3>6. credit'["rx"] + InHand("rx")' + Owed("tx")' = index'["tx"] - index'["rx"]
      BY <3>1, <3>2, <3>3
    <3> QED
      BY <3>4, <3>5, <3>6 DEF CreditsBalance
  <2>2. CASE s = "rx"
    <3>1. /\ credit' = credit /\ index'["rx"] = index["rx"] + 1 /\ index'["tx"] = index["tx"]
          /\ InHand("rx") = 1 /\ InHand("rx")' = 0 /\ InHand("tx")' = InHand("tx")
          /\ Owed("rx") = 0 /\ Owed("rx")' = 1 /\ Owed("tx")' = Owed("tx")
      BY <1>12, <2>2 DEF Slot, Goto, InHand, Owed, TurnInv
    <3>2. /\ credit["tx"] \in Nat /\ credit["rx"] \in Nat /\ Owed("tx") \in Nat /\ InHand("tx") \in Nat
          /\ index["tx"] \in Nat /\ index["rx"] \in Nat
      BY DEF InHand, Owed
    <3>3. /\ index["rx"] <= index["tx"]
          /\ credit["tx"] + InHand("tx") + Owed("rx") = Size - (index["tx"] - index["rx"])
          /\ credit["rx"] + InHand("rx") + Owed("tx") = index["tx"] - index["rx"]
      BY DEF CreditsBalance
    <3>4. index["rx"]' <= index["tx"]'
      BY <3>1, <3>2, <3>3
    <3>5. credit'["tx"] + InHand("tx")' + Owed("rx")' = Size - (index'["tx"] - index'["rx"])
      BY <3>1, <3>2, <3>3
    <3>6. credit'["rx"] + InHand("rx")' + Owed("tx")' = index'["tx"] - index'["rx"]
      <4>1. credit["rx"] + 1 + Owed("tx") = index["tx"] - index["rx"]
        BY <3>1, <3>3
      <4>2. credit["rx"] + 0 + Owed("tx") = index["tx"] - (index["rx"] + 1)
        BY <3>2, <4>1
      <4> QED
        BY <3>1, <4>2
    <3> QED
      BY <3>4, <3>5, <3>6 DEF CreditsBalance
  <2> QED
    BY <2>1, <2>2
<1>13. ASSUME NEW s \in Sides, Release(s) PROVE CreditsBalance'
  <2>1. CASE s = "tx"
    <3>1. /\ index' = index /\ credit'["tx"] = credit["tx"]
          /\ credit'["rx"] + InHand("rx")' = credit["rx"] + InHand("rx") + 1
          /\ InHand("tx")' = InHand("tx")
          /\ Owed("tx") = 1 /\ Owed("tx")' = 0 /\ Owed("rx")' = Owed("rx")
      BY <1>13, <2>1 DEF Release, Release1, Return, Goto, InHand, Owed, TurnInv
    <3>2. /\ credit["tx"] \in Nat /\ credit["rx"] \in Nat /\ Owed("rx") \in Nat
          /\ InHand("tx") \in Nat /\ InHand("rx") \in Nat
      BY DEF InHand, Owed
    <3> QED
      BY <3>1, <3>2 DEF CreditsBalance
  <2>2. CASE s = "rx"
    <3>1. /\ index' = index /\ credit'["rx"] = credit["rx"]
          /\ credit'["tx"] + InHand("tx")' = credit["tx"] + InHand("tx") + 1
          /\ InHand("rx")' = InHand("rx")
          /\ Owed("rx") = 1 /\ Owed("rx")' = 0 /\ Owed("tx")' = Owed("tx")
      BY <1>13, <2>2 DEF Release, Release1, Return, Goto, InHand, Owed, TurnInv
    <3>2. /\ credit["tx"] \in Nat /\ credit["rx"] \in Nat /\ Owed("tx") \in Nat
          /\ InHand("tx") \in Nat /\ InHand("rx") \in Nat
      BY DEF InHand, Owed
    <3> QED
      BY <3>1, <3>2 DEF CreditsBalance
  <2> QED
    BY <2>1, <2>2
<1>14. ASSUME NEW s \in Sides, Cancel(s) PROVE CreditsBalance'
  <2>1. \A u \in Sides : /\ credit'[u] + InHand(u)' = credit[u] + InHand(u)
                         /\ Owed(u)' = Owed(u)
    BY <1>14 DEF Cancel, Goto, InHand, Owed, TurnInv
  <2> QED
    BY <1>14, <2>1, CreditsKept DEF Cancel
<1>15. ASSUME NEW s \in Sides, Abort(s) PROVE CreditsBalance'
  <2>1. \A u \in Sides : /\ credit'[u] + InHand(u)' = credit[u] + InHand(u)
                         /\ Owed(u)' = Owed(u)
    BY <1>15 DEF Abort, Goto, InHand, Owed, TurnInv
  <2> QED
    BY <1>15, <2>1, CreditsKept DEF Abort
<1>16. ASSUME NEW s \in Sides, AbortClear(s) PROVE CreditsBalance'
  <2>1. \A u \in Sides : /\ credit'[u] + InHand(u)' = credit[u] + InHand(u)
                         /\ Owed(u)' = Owed(u)
    BY <1>16 DEF AbortClear, Goto, InHand, Owed, TurnInv
  <2> QED
    BY <1>16, <2>1, CreditsKept DEF AbortClear
<1>17. ASSUME NEW s \in Sides, AbortDrop(s) PROVE CreditsBalance'
  <2>1. \A u \in Sides : /\ credit'[u] + InHand(u)' = credit[u] + InHand(u)
                         /\ Owed(u)' = Owed(u)
    BY <1>17 DEF AbortDrop, Goto, DropAcquire, Return, InHand, Owed, TurnInv
  <2> QED
    BY <1>17, <2>1, CreditsKept DEF AbortDrop
<1>18. ASSUME NEW s \in Sides, Drop(s) PROVE CreditsBalance'
  <2>1. \A u \in Sides : /\ credit'[u] + InHand(u)' = credit[u] + InHand(u)
                         /\ Owed(u)' = Owed(u)
    BY <1>18 DEF Drop, Goto, InHand, Owed, TurnInv
  <2> QED
    BY <1>18, <2>1, CreditsKept DEF Drop
<1>19. ASSUME NEW s \in Sides, DropTake(s) PROVE CreditsBalance'
  <2>1. \A u \in Sides : /\ credit'[u] + InHand(u)' = credit[u] + InHand(u)
                         /\ Owed(u)' = Owed(u)
    BY <1>19 DEF DropTake, Goto, InHand, Owed, TurnInv
  <2> QED
    BY <1>19, <2>1, CreditsKept DEF DropTake
<1>20. CASE Drain
  <2>1. \A u \in Sides : /\ credit'[u] + InHand(u)' = credit[u] + InHand(u)
                         /\ Owed(u)' = Owed(u)
    BY <1>20 DEF Drain, Goto, Return, InHand, Owed, TurnInv
  <2> QED
    BY <1>20, <2>1, CreditsKept DEF Drain
<1> QED
  BY <1>1, <1>2, <1>3, <1>4, <1>5, <1>6, <1>7, <1>8, <1>9, <1>10, <1>11, <1>12,
     <1>13, <1>14, <1>15, <1>16, <1>17, <1>18, <1>19, <1>20, Zenon DEF SideAction

(* The ring keeps the items in order: a sender writes where nothing is,    *)
(* the receiver takes the oldest.                                          *)
LEMMA SpscRing ==
  ASSUME SpscTypeOK, TurnInv, CreditsBalance, RingInv,
         Drain \/ \E s \in Sides : SideAction(s)
  PROVE  RingInv' /\ ring' \in [0..(Size - 1) -> Nat \union {Empty}]
<1> USE SpscAssumption
<1>1. CASE ring' = ring /\ index' = index
  BY <1>1 DEF RingInv, SpscTypeOK
<1>2. /\ index["tx"] \in Nat /\ index["rx"] \in Nat /\ index["rx"] <= index["tx"]
      /\ \A s \in Sides : credit[s] \in Nat /\ InHand(s) \in Nat /\ Owed(s) \in Nat
  BY DEF SpscTypeOK, SideTypes, Sides, CreditsBalance, InHand, Owed
<1>3. ASSUME NEW a \in Nat PROVE a % Size \in 0..(Size - 1) /\ (a + Size) % Size = a % Size
  <2>1. Size \in Nat /\ Size > 0
    OBVIOUS
  <2>2. a % Size \in 0..(Size - 1)
    BY <2>1, ModRange
  <2>3. (a + Size) % Size = a % Size
    BY <2>1, ModWrap, ZenonT(40)
  <2> QED
    BY <2>2, <2>3
<1>4. ASSUME NEW a \in Nat, NEW b \in Nat, a # b, a - b < Size, b - a < Size
      PROVE  a % Size # b % Size
  BY <1>4, ModApart
<1>5. index["tx"] <= index["rx"] + Size
  BY <1>2 DEF CreditsBalance, Sides
<1>6. CASE Slot("tx")
  <2>1. InHand("tx") = 1
    BY <1>6 DEF Slot, InHand
  <2>2. index["tx"] < index["rx"] + Size
    BY <1>2, <2>1 DEF CreditsBalance, Sides
  <2>3. index'["tx"] = index["tx"] + 1 /\ index'["rx"] = index["rx"]
    BY <1>6 DEF Slot, SpscTypeOK, SideTypes, Sides
  <2>4. ring' \in [0..(Size - 1) -> Nat \union {Empty}] /\ ring'[index["tx"] % Size] = index["tx"]
    BY <1>2, <1>3, <1>6, Zenon DEF Slot, SpscTypeOK
  <2>5. ASSUME NEW i \in Nat, i % Size # index["tx"] % Size PROVE ring'[i % Size] = ring[i % Size]
    BY <1>2, <1>3, <1>6, <2>5 DEF Slot, SpscTypeOK
  <2>6. ASSUME NEW i \in index'["rx"]..(index'["tx"] - 1) PROVE ring'[i % Size] = i
    <3>1. CASE i = index["tx"]
      BY <3>1, <2>4
    <3>2. CASE i # index["tx"]
      <4>1. i \in Nat /\ i \in index["rx"]..(index["tx"] - 1) /\ i % Size # index["tx"] % Size
        BY <1>2, <1>4, <2>2, <2>3, <2>6, <3>2
      <4> QED
        BY <2>5, <4>1 DEF RingInv
    <3> QED
      BY <3>1, <3>2
  <2>7. ASSUME NEW i \in index'["tx"]..(index'["rx"] + Size - 1) PROVE ring'[i % Size] = Empty
    <3>1. i \in Nat /\ i \in index["tx"]..(index["rx"] + Size - 1) /\ i % Size # index["tx"] % Size
      BY <1>2, <1>4, <2>3, <2>7
    <3> QED
      BY <2>5, <3>1 DEF RingInv
  <2> QED
    BY <2>4, <2>6, <2>7 DEF RingInv
<1>7. CASE Slot("rx")
  <2>1. InHand("rx") = 1
    BY <1>7 DEF Slot, InHand
  <2>2. index["rx"] < index["tx"]
    BY <1>2, <2>1 DEF CreditsBalance, Sides
  <2>3. index'["rx"] = index["rx"] + 1 /\ index'["tx"] = index["tx"]
    BY <1>7 DEF Slot, SpscTypeOK, SideTypes, Sides
  <2>4. ring' \in [0..(Size - 1) -> Nat \union {Empty}] /\ ring'[index["rx"] % Size] = Empty
    BY <1>2, <1>3, <1>7, Zenon DEF Slot, SpscTypeOK
  <2>5. ASSUME NEW i \in Nat, i % Size # index["rx"] % Size PROVE ring'[i % Size] = ring[i % Size]
    BY <1>2, <1>3, <1>7, <2>5 DEF Slot, SpscTypeOK
  <2>6. ASSUME NEW i \in index'["rx"]..(index'["tx"] - 1) PROVE ring'[i % Size] = i
    <3>1. i \in Nat /\ i \in index["rx"]..(index["tx"] - 1) /\ i % Size # index["rx"] % Size
      BY <1>2, <1>4, <1>5, <2>3, <2>6
    <3> QED
      BY <2>5, <3>1 DEF RingInv
  <2>7. ASSUME NEW i \in index'["tx"]..(index'["rx"] + Size - 1) PROVE ring'[i % Size] = Empty
    <3>1. CASE i = index["rx"] + Size
      <4>1. i % Size = index["rx"] % Size
        BY <1>2, <1>3, <3>1
      <4> QED
        BY <2>4, <4>1
    <3>2. CASE i # index["rx"] + Size
      <4>1. i \in Nat /\ i \in index["tx"]..(index["rx"] + Size - 1) /\ i % Size # index["rx"] % Size
        <5>1. i \in Nat /\ i >= index["tx"] /\ i < index["rx"] + Size
          BY <1>2, <2>3, <2>7, <3>2
        <5>2. i # index["rx"] /\ i - index["rx"] < Size /\ index["rx"] - i < Size
          BY <1>2, <2>2, <5>1
        <5> QED
          BY <1>2, <1>4, <5>1, <5>2
      <4> QED
        BY <2>5, <4>1 DEF RingInv
    <3> QED
      BY <3>1, <3>2
  <2> QED
    BY <2>4, <2>6, <2>7 DEF RingInv
<1>8. (\E s \in Sides : Slot(s)) \/ (ring' = ring /\ index' = index)
  BY ZenonT(40) DEF SideAction, Drain, TryCall, TryLoad, TryTake, Call, Register, Failed, Load, Acquire,
         Repoll, Deregister, Clear, Release, Cancel, Abort, AbortClear, AbortDrop, Drop, DropTake
<1> QED
  BY <1>1, <1>6, <1>7, <1>8 DEF Sides

LEMMA SpscStep ==
  ASSUME SpscInv, [spscNext]_spscVars
  PROVE  SpscInv'
<1> USE DEF SpscInv
<1>1. CASE Drain \/ \E s \in Sides : SideAction(s)
  <2>1. SideTypes' /\ credit' \in [Sides -> Nat]
    BY <1>1, SpscTypes DEF SpscTypeOK
  <2>2. CreditsBalance'
    BY <1>1, SpscCredits
  <2>3. RingInv' /\ ring' \in [0..(Size - 1) -> Nat \union {Empty}]
    BY <1>1, SpscRing
  <2>4. ASSUME NEW s \in Sides PROVE credit'[s] <= Size
    <3>1. /\ credit'["tx"] \in Nat /\ credit'["rx"] \in Nat /\ index'["tx"] \in Nat /\ index'["rx"] \in Nat
          /\ \A u \in Sides : InHand(u)' \in Nat /\ Owed(u)' \in Nat
      BY <2>1 DEF Sides, SideTypes, InHand, Owed
    <3> QED
      BY <2>2, <3>1, SpscAssumption DEF CreditsBalance, Sides
  <2>5. credit' \in [Sides -> 0..Size]
    BY <2>1, <2>4, SpscAssumption
  <2>6. SpscTypeOK'
    BY <2>1, <2>3, <2>5 DEF SpscTypeOK
  <2>7. TurnInv' /\ FlagInv' /\ PendingQueued'
    BY <1>1, SpscPlaces
  <2>8. DrainInv'
    BY <1>1, SpscDrained
  <2> QED
    BY <2>2, <2>3, <2>6, <2>7, <2>8
<1>2. CASE UNCHANGED spscVars
  BY <1>2, Zenon DEF spscVars, SpscTypeOK, SideTypes, CreditsBalance, InHand, Owed, TurnInv, FlagInv,
              PendingQueued, DrainInv, RingInv
<1>3. spscNext => Drain \/ \E s \in Sides : SideAction(s)
  BY Zenon DEF spscNext, SideStep, SideAction
<1> QED
  BY <1>1, <1>2, <1>3

LEMMA SpscInit ==
  ASSUME channel
  PROVE  SpscInv
<1> USE SpscAssumption DEF channel, Sides, Peer
<1>1. SpscTypeOK
  BY DEF SpscTypeOK, SideTypes
<1>2. index["tx"] = 0 /\ index["rx"] = 0 /\ credit["tx"] = Size /\ credit["rx"] = 0
  OBVIOUS
<1>3. CreditsBalance
  BY <1>2 DEF CreditsBalance, InHand, Owed
<1>4. TurnInv /\ FlagInv /\ PendingQueued /\ DrainInv
  BY DEF TurnInv, FlagInv, PendingQueued, DrainInv
<1>5. RingInv
  <2>1. ASSUME NEW i \in 0..(0 + Size - 1) PROVE ring[i % Size] = Empty
    BY ModRange
  <2> QED
    BY <1>2, <2>1 DEF RingInv
<1> QED
  BY <1>1, <1>3, <1>4, <1>5 DEF SpscInv

(* The inductive invariant says what the channel promises.                 *)
LEMMA SpscInvSafe ==
  ASSUME SpscInv
  PROVE  SpscSafe
<1> USE SpscAssumption DEF SpscInv
<1>1. /\ index["tx"] \in Nat /\ index["rx"] \in Nat /\ index["rx"] <= index["tx"]
      /\ \A s \in Sides : credit[s] \in Nat /\ InHand(s) \in Nat /\ Owed(s) \in Nat
  BY DEF SpscTypeOK, SideTypes, Sides, CreditsBalance, InHand, Owed
<1>2. at["rx"] = "slot" => ring[index["rx"] % Size] = index["rx"]
  <2> SUFFICES ASSUME at["rx"] = "slot" PROVE index["rx"] \in index["rx"]..(index["tx"] - 1)
    BY DEF RingInv
  <2>1. InHand("rx") = 1
    BY DEF InHand
  <2> QED
    BY <1>1, <2>1 DEF CreditsBalance, Sides
<1>3. at["tx"] = "slot" => ring[index["tx"] % Size] = Empty
  <2> SUFFICES ASSUME at["tx"] = "slot" PROVE index["tx"] \in index["tx"]..(index["rx"] + Size - 1)
    BY DEF RingInv
  <2>1. InHand("tx") = 1
    BY DEF InHand
  <2> QED
    BY <1>1, <2>1 DEF CreditsBalance, Sides
<1>4. PendingIsOwedAWake
  BY Zenon DEF PendingIsOwedAWake, PendingQueued, FlagInv
<1>5. RecvLostMeansDrained
  BY DEF RecvLostMeansDrained, DrainInv
<1> QED
  BY <1>2, <1>3, <1>4, <1>5 DEF SpscSafe, SlotReady

(* The bounded channel, for every size of the ring and whatever the two    *)
(* ends do: no credit is lost, items arrive in order in slots that are     *)
(* ready, a pending call is owed its wake-up, and SenderLost is told only  *)
(* after the last item.                                                    *)
THEOREM SpscIsSafe == spscSpec => []SpscSafe
<1>1. channel => SpscInv
  BY SpscInit
<1>2. SpscInv /\ [spscNext]_spscVars => SpscInv'
  BY SpscStep
<1>3. SpscInv => SpscSafe
  BY SpscInvSafe
<1> QED
  BY <1>1, <1>2, <1>3, PTL DEF spscSpec
==============================================================================
