------------------------------ MODULE Keyboard ------------------------------
(***************************************************************************)
(* kernel/src/io/keyboard.rs with the get_char system call: the interrupt  *)
(* handler turns scan codes into characters and offers them to a bounded   *)
(* channel; reading threads share the receiver through an async mutex (a   *)
(* FIFO line, Condvar.tla) and take one character each.  A thread whose    *)
(* block_on is stopped drops its lock future or its pending recv.          *)
(*                                                                         *)
(* Keys are kinds of scan codes: "a" stands for the ones whose two tables  *)
(* differ, "space" for those that map to one character, "f1" for those     *)
(* without a mapping.                                                      *)
(***************************************************************************)
EXTENDS Integers, Sequences

CONSTANTS Readers,  \* threads calling get_char
          KeyBuffer,\* capacity of the channel (0x80 in the code)
          MaxKeys   \* bound: keys ever pressed

ASSUME KeyboardAssumption == KeyBuffer \in Nat

Keys == {"a", "space", "f1", "lshift", "rshift"}

VARIABLES held,      \* keys the user holds down
          leftShift, rightShift,
          typed,     \* characters accepted by the channel, oldest first
          taken,     \* how many of them readers have received
          strokes,   \* keys pressed so far
          rline      \* readers in line for the receiver; the head owns it

kbVars == <<held, leftShift, rightShift, typed, taken, strokes, rline>>

(* The two tables. *)
Mapping(k, shift) ==
  CASE k = "a"     -> IF shift THEN {"A"} ELSE {"a"}
    [] k = "space" -> {"blank"}
    [] k = "f1"    -> {}

kbInit ==
  /\ held = {} /\ leftShift = FALSE /\ rightShift = FALSE
  /\ typed = <<>> /\ taken = 0 /\ strokes = 0 /\ rline = <<>>

(* The key is pressed, or repeats while it is held. *)
Pressed(k) ==
  /\ strokes < MaxKeys
  /\ strokes' = strokes + 1
  /\ held' = held \union {k}

(* Variant: either shift key sets and clears one flag. *)
ShiftKeyShared(k, down) ==
  /\ leftShift' = down /\ rightShift' = down

ShiftKey(k, down) ==
  /\ leftShift'  = IF k = "lshift" THEN down ELSE leftShift
  /\ rightShift' = IF k = "rshift" THEN down ELSE rightShift

(* try_send, whose "buffer full" is ignored. *)
Offer(c) ==
  typed' = IF Len(typed) - taken < KeyBuffer THEN Append(typed, c) ELSE typed

(* handle_keyboard_scan, run to its end by the interrupt handler. *)
Press(k) ==
  /\ Pressed(k)
  /\ IF k \in {"lshift", "rshift"}
     THEN ShiftKey(k, TRUE) /\ UNCHANGED typed
     ELSE /\ UNCHANGED <<leftShift, rightShift>>
          /\ \/ \E c \in Mapping(k, leftShift \/ rightShift) : Offer(c)
             \/ Mapping(k, leftShift \/ rightShift) = {} /\ UNCHANGED typed
  /\ UNCHANGED <<taken, rline>>

ReleaseKey(k) ==
  /\ k \in held
  /\ held' = held \ {k}
  /\ IF k \in {"lshift", "rshift"} THEN ShiftKey(k, FALSE)
     ELSE UNCHANGED <<leftShift, rightShift>>
  /\ UNCHANGED <<typed, taken, strokes, rline>>

(* get_char: join the line, receive at its head, leave it when stopped. *)
GetChar(r) ==
  /\ \A i \in 1..Len(rline) : rline[i] # r
  /\ rline' = Append(rline, r)
  /\ UNCHANGED <<held, leftShift, rightShift, typed, taken, strokes>>

GotChar ==
  /\ rline # <<>> /\ taken < Len(typed)
  /\ taken' = taken + 1
  /\ rline' = Tail(rline)
  /\ UNCHANGED <<held, leftShift, rightShift, typed, strokes>>

GetCharStopped(r) ==
  /\ \E i \in 1..Len(rline) : rline[i] = r
  /\ rline' = SelectSeq(rline, LAMBDA x : x # r)
  /\ UNCHANGED <<held, leftShift, rightShift, typed, taken, strokes>>

kbNext ==
  \/ GotChar
  \/ \E k \in Keys : Press(k) \/ ReleaseKey(k)
  \/ \E r \in Readers : GetChar(r) \/ GetCharStopped(r)

kbSpec == kbInit /\ [][kbNext]_kbVars
-----------------------------------------------------------------------------
(* The flags agree with the keys held down through any order of presses and *)
(* releases of the two shift keys, so a character is upper case exactly     *)
(* when one of them is down.                                                *)
ShiftFollowsKeys ==
  /\ leftShift <=> "lshift" \in held
  /\ rightShift <=> "rshift" \in held

(* A full buffer loses the new key and nothing else: what the readers have *)
(* still to come is never more than it holds, and was all typed.           *)
BufferKept == taken <= Len(typed) /\ Len(typed) - taken <= KeyBuffer

(* What is typed, and how much of it was read, is a sequence and a number. *)
KeyboardInv ==
  /\ typed \in Seq({"a", "A", "blank"}) /\ taken \in Nat
  /\ ShiftFollowsKeys /\ BufferKept

(* The keyboard: the shift flags follow the keys through any order of presses *)
(* and releases, and the buffer is never overrun nor read past its end.       *)
KeyboardSafe == ShiftFollowsKeys /\ BufferKept
=============================================================================
