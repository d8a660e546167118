-------------------------- MODULE TimeBasedCounter --------------------------
(***************************************************************************)
(* prefetch/time_based_counter.cc: a count over a sliding time window,     *)
(* kept as a ring of WindowSize slots of SlotDuration each.  A counter is  *)
(* a record, so that QuotaPrefetch can keep one as a member.               *)
(***************************************************************************)
EXTENDS Integers, Functions

CONSTANTS
  WindowSize,    \* window_size (kTimeBasedWindowSize)
  SlotDuration   \* duration / window_size, in clock ticks

ASSUME CounterAssumption == WindowSize \in Nat \ {0} /\ SlotDuration \in Nat \ {0}

NewCounter(t) ==
  [slots |-> [i \in 0..WindowSize-1 |-> 0], count |-> 0, tail |-> 0, last |-> t]

Clear(c, t) == NewCounter(t)

\* d.count() / slot_duration_.count(), truncated towards zero.
SlotsPassed(d) == IF d >= 0 THEN d \div SlotDuration ELSE -((-d) \div SlotDuration)

\* Mutant: the slots rolled over keep their counts.
RollWithoutReset(c, n) ==
  [c EXCEPT !.tail = (@ + n) % WindowSize, !.last = @ + n * SlotDuration]

\* n turns of Roll's loop, n < WindowSize: the n slots after tail_ are emptied.
RollSlots(c, n) ==
  LET rolled == {(c.tail + i) % WindowSize : i \in 1..n}
  IN [slots |-> [i \in DOMAIN c.slots |-> IF i \in rolled THEN 0 ELSE c.slots[i]],
      count |-> c.count - SumFunctionOnSet(c.slots, rolled),
      tail  |-> (c.tail + n) % WindowSize,
      last  |-> c.last + n * SlotDuration]

\* A negative n becomes a huge uint32_t: a clock set back by a slot clears.
Roll(c, t) ==
  LET n == SlotsPassed(t - c.last)
  IN IF n < 0 \/ n >= WindowSize THEN Clear(c, t) ELSE RollSlots(c, n)

Inc(c, n, t) ==
  LET r == Roll(c, t)
  IN [r EXCEPT !.slots[r.tail] = @ + n, !.count = @ + n]
=============================================================================
