----------------------------- MODULE SleepQueue -----------------------------
(***************************************************************************)
(* Sleeping threads (kernel/src/multitask/async_task.rs and the system     *)
(* call sleep_thread): the future of sleep() registers itself with the     *)
(* clock's queue at its first poll, and the timer interrupt takes out the  *)
(* entries that are due.  A sleeper is a thread in block_on(sleep(..)); it *)
(* can be interrupted between any two of its steps, except while it pushes *)
(* its entry.  tick() runs inside the interrupt, in one step.              *)
(*                                                                         *)
(* Times are u64; the build does not check overflow, so sums and the       *)
(* conversion of a duration wrap at LIMIT = 2^64.  A second has            *)
(* NanosPerMicro * MicrosPerSecond nanoseconds.                            *)
(***************************************************************************)
EXTENDS Integers, FiniteSets, FiniteSetsExt

CONSTANTS Sleepers,
          LIMIT, MicrosPerSecond, NanosPerMicro,
          Seconds, Nanos,    \* arguments of the system call
          ELAPSED,           \* microseconds between two interrupts
          MaxClock           \* bound of the clock in a behaviour

ASSUME SleepAssumption ==
    /\ LIMIT \in Nat /\ MicrosPerSecond \in Nat \ {0} /\ NanosPerMicro \in Nat \ {0}
    /\ Seconds \subseteq Nat /\ Nanos \subseteq Nat
    /\ ELAPSED \in Nat /\ MaxClock \in Nat /\ MaxClock < LIMIT

VARIABLES
    SYSTEM_INSTANT,
    SLEEP_WAKE_QUEUE,   \* entries [wake_time, who]
    FLAG,               \* of each Sleep: "init", "sleep", "wake"
    step,               \* where the system call of each sleeper is
    wake_time,          \* computed and not yet pushed
    asked,              \* the time asked for, without wrapping
    began,              \* ghost: the clock when wake_time was computed
    fresh               \* ghost: sleepers that pushed since the last tick

sleepVars == <<SYSTEM_INSTANT, SLEEP_WAKE_QUEUE, FLAG, step, wake_time, asked, began, fresh>>
restVars == <<SYSTEM_INSTANT, SLEEP_WAKE_QUEUE, asked, began, fresh>>

sleepInit ==
    /\ SYSTEM_INSTANT = 0 /\ SLEEP_WAKE_QUEUE = {} /\ fresh = {}
    /\ FLAG = [s \in Sleepers |-> "init"] /\ step = [s \in Sleepers |-> "user"]
    /\ wake_time = [s \in Sleepers |-> 0]
    /\ asked = [s \in Sleepers |-> 0] /\ began = [s \in Sleepers |-> 0]

NanosPerSecond == NanosPerMicro * MicrosPerSecond
Capped(n) == IF n >= LIMIT THEN LIMIT - 1 ELSE n

(* Duration::new of the two arguments, whole seconds of nanoseconds        *)
(* carried over (Duration::new carries exactly one second itself), in      *)
(* microseconds.                                                           *)
Micros(secs, ns) ==
    LET s == IF ns > NanosPerSecond THEN Capped(secs + ns \div NanosPerSecond) ELSE secs
        n == IF ns > NanosPerSecond THEN ns % NanosPerSecond ELSE ns
    IN  s * MicrosPerSecond + n \div NanosPerMicro

(* The carry of Duration::new overflows: the kernel panics and stops.      *)
Panics(secs, ns) == ns = NanosPerSecond /\ secs = LIMIT - 1

(* sleep(): as_micros() as u64.                                            *)
Duration(s) == asked[s] % LIMIT

sleep_thread(s, secs, ns) ==
    /\ step[s] = "user" /\ ~Panics(secs, ns)
    /\ asked' = [asked EXCEPT ![s] = Micros(secs, ns)]
    /\ FLAG' = [FLAG EXCEPT ![s] = "init"] /\ step' = [step EXCEPT ![s] = "poll"]
    /\ UNCHANGED <<SYSTEM_INSTANT, SLEEP_WAKE_QUEUE, wake_time, began, fresh>>

sleep_panic(s, secs, ns) ==
    /\ step[s] = "user" /\ Panics(secs, ns)
    /\ step' = [step EXCEPT ![s] = "panic"]
    /\ UNCHANGED <<restVars, FLAG, wake_time>>

PollInit(s) ==
    /\ step[s] = "poll" /\ FLAG[s] = "init"
    /\ FLAG' = [FLAG EXCEPT ![s] = "sleep"] /\ step' = [step EXCEPT ![s] = "load"]
    /\ UNCHANGED <<restVars, wake_time>>

LoadInstant(s) ==
    /\ step[s] = "load"
    /\ wake_time' = [wake_time EXCEPT ![s] = (SYSTEM_INSTANT + Duration(s)) % LIMIT]
    /\ began' = [began EXCEPT ![s] = SYSTEM_INSTANT]
    /\ step' = [step EXCEPT ![s] = "push"]
    /\ UNCHANGED <<SYSTEM_INSTANT, SLEEP_WAKE_QUEUE, FLAG, asked, fresh>>

\* Variant: an entry that is already due is left out
PushEntry_past(s) ==
    /\ step[s] = "push"
    /\ SLEEP_WAKE_QUEUE' = SLEEP_WAKE_QUEUE \cup
          {e \in {[wake_time |-> wake_time[s], who |-> s]} : e.wake_time > SYSTEM_INSTANT}
    /\ fresh' = fresh \cup {s} /\ step' = [step EXCEPT ![s] = "wait"]
    /\ wake_time' = [wake_time EXCEPT ![s] = 0]
    /\ UNCHANGED <<SYSTEM_INSTANT, FLAG, asked, began>>
PushEntry(s) ==
    /\ step[s] = "push"
    /\ SLEEP_WAKE_QUEUE' = SLEEP_WAKE_QUEUE \cup {[wake_time |-> wake_time[s], who |-> s]}
    /\ fresh' = fresh \cup {s} /\ step' = [step EXCEPT ![s] = "wait"]
    /\ wake_time' = [wake_time EXCEPT ![s] = 0]
    /\ UNCHANGED <<SYSTEM_INSTANT, FLAG, asked, began>>

(* The poll after the waker: FLAG_WAKE, the call returns.                  *)
PollWake(s) ==
    /\ step[s] = "wait" /\ FLAG[s] = "wake"
    /\ step' = [step EXCEPT ![s] = "woken"]
    /\ UNCHANGED <<restVars, FLAG, wake_time>>
Awake(s) ==
    /\ step[s] = "woken"
    /\ step' = [step EXCEPT ![s] = "user"]
    /\ asked' = [asked EXCEPT ![s] = 0] /\ began' = [began EXCEPT ![s] = 0]
    /\ UNCHANGED <<SYSTEM_INSTANT, SLEEP_WAKE_QUEUE, FLAG, wake_time, fresh>>

(* The thread is killed and never polls again.                             *)
Killed(s) ==
    /\ step[s] \in {"poll", "load", "push", "wait"}
    /\ step' = [step EXCEPT ![s] = "dead"]
    /\ UNCHANGED <<restVars, FLAG, wake_time>>

(* What the loop over the min-heap pops.                                   *)
Due(now) == {e \in SLEEP_WAKE_QUEUE : e.wake_time <= now}

tick ==
    LET now == (SYSTEM_INSTANT + ELAPSED) % LIMIT
    IN  /\ SYSTEM_INSTANT + ELAPSED <= MaxClock
        /\ SYSTEM_INSTANT' = now
        /\ SLEEP_WAKE_QUEUE' = SLEEP_WAKE_QUEUE \ Due(now)
        /\ FLAG' = [s \in Sleepers |-> IF \E e \in Due(now) : e.who = s THEN "wake" ELSE FLAG[s]]
        /\ fresh' = {}
        /\ UNCHANGED <<step, wake_time, asked, began>>

sleepNext ==
    /\ \A s \in Sleepers : step[s] # "panic"
    /\ \/ \E s \in Sleepers :
             \/ \E secs \in Seconds, ns \in Nanos : sleep_thread(s, secs, ns) \/ sleep_panic(s, secs, ns)
             \/ PollInit(s) \/ LoadInstant(s) \/ PushEntry(s) \/ PollWake(s) \/ Awake(s) \/ Killed(s)
       \/ tick

sleepSpec == sleepInit /\ [][sleepNext]_sleepVars

-----------------------------------------------------------------------------
(* A sleeper that waits is either woken or in the queue, however its first *)
(* poll was interleaved with interrupts: no tick between the load of the   *)
(* clock and the push is the last chance to be woken.                      *)
SleeperKnown ==
    \A s \in Sleepers : step[s] = "wait" =>
        FLAG[s] = "wake" \/ \E e \in SLEEP_WAKE_QUEUE : e.who = s

(* After an interrupt nothing that is due stays in the queue; an entry     *)
(* that was due when it was pushed goes with the next one.                 *)
DueAreWoken ==
    \A e \in SLEEP_WAKE_QUEUE : e.wake_time <= SYSTEM_INSTANT => e.who \in fresh

(* A call returns after the time it asked for, by the kernel's clock,      *)
(* unless that time is past the end of a u64.                              *)
SleptLongEnough ==
    \A s \in Sleepers : step[s] = "woken" =>
        SYSTEM_INSTANT >= began[s] + asked[s] \/ began[s] + asked[s] >= LIMIT

-----------------------------------------------------------------------------
(* The inductive invariant behind the three properties.                    *)
SleepTypes ==
    /\ SYSTEM_INSTANT \in 0..MaxClock
    /\ SLEEP_WAKE_QUEUE \subseteq [wake_time : Nat, who : Sleepers]
    /\ FLAG \in [Sleepers -> {"init", "sleep", "wake"}]
    /\ step \in [Sleepers -> {"user", "poll", "load", "push", "wait", "woken", "dead", "panic"}]
    /\ wake_time \in [Sleepers -> Nat] /\ asked \in [Sleepers -> Nat] /\ began \in [Sleepers -> Nat]

(* When s is to be woken.                                                  *)
Appointed(s) == (began[s] + Duration(s)) % LIMIT

(* An entry is that of a sleeper past its push, who was not woken yet.     *)
EntryInv ==
    \A e \in SLEEP_WAKE_QUEUE :
        /\ step[e.who] \in {"wait", "dead"} /\ FLAG[e.who] # "wake"
        /\ e.wake_time = Appointed(e.who)
StepInv ==
    \A s \in Sleepers :
        /\ step[s] \in {"load", "push"} => FLAG[s] = "sleep"
        /\ step[s] = "push" => wake_time[s] = Appointed(s)
        /\ step[s] = "woken" => FLAG[s] = "wake"
        /\ step[s] \in {"wait", "woken"} /\ FLAG[s] = "wake" => SYSTEM_INSTANT >= Appointed(s)
SleepInv == SleepTypes /\ EntryInv /\ StepInv /\ SleeperKnown /\ DueAreWoken

(* Sleeping, wherever the timer interrupts the first poll: a sleeper is known *)
(* to the clock, is woken by the first tick after its time, and not before    *)
(* it, unless that time is past the end of a u64.                             *)
SleepSafe == SleeperKnown /\ DueAreWoken /\ SleptLongEnough
==============================================================================
