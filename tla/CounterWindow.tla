---------------------------- MODULE CounterWindow ----------------------------
(***************************************************************************)
(* A TimeBasedCounter used by itself, with a clock that does not go back   *)
(* (time_based_counter.h:33): Inc and Count at any pace, and the history   *)
(* of what was counted when.                                               *)
(***************************************************************************)
EXTENDS TimeBasedCounter

CONSTANTS
  Amounts,    \* arguments of Inc
  MaxTime,    \* bound: length of a behaviour, in ticks
  MaxTotal    \* bound: sum of the increments

ASSUME WindowAssumption == Amounts \subseteq Nat /\ {MaxTime, MaxTotal} \subseteq Nat

VARIABLES
  counter,
  asked,   \* the time given to the last call
  events   \* history: how much was counted at each time

counter_vars == <<counter, asked, events>>

CounterInit ==
  /\ counter = NewCounter(0)
  /\ asked = 0
  /\ events = [u \in 0..MaxTime |-> 0]

IncAt(n, t) ==
  /\ SumFunction(events) + n <= MaxTotal
  /\ counter' = Inc(counter, n, t)
  /\ asked' = t
  /\ events' = [events EXCEPT ![t] = @ + n]

\* Count(t) returns counter'.count.
CountAt(t) ==
  /\ counter' = Roll(counter, t)
  /\ asked' = t
  /\ UNCHANGED events

CounterNext == \E t \in asked..MaxTime : CountAt(t) \/ \E n \in Amounts : IncAt(n, t)

CounterSpec == CounterInit /\ [][CounterNext]_counter_vars

-----------------------------------------------------------------------------

Duration == WindowSize * SlotDuration

\* The sum of what was counted at or after time t.
Since(t) == SumFunctionOnSet(events, {u \in DOMAIN events : u >= t})

\* time_based_counter.h:27, "The count outside of the window will not be
\* counted": nothing older than the window is in the count, and what is at most
\* the window less one slot old is, wherever the calls fall within their slots.
WindowBounds ==
  /\ counter.count <= Since(asked - Duration + 1)
  /\ counter.count >= Since(asked - (Duration - SlotDuration))
=============================================================================
