----------------------------- MODULE TimerHeap ------------------------------
(* The timers of the fiber scheduler (xt_scheduler_timer_add, _tick): a binary
   heap of sleeping fibers, the earliest at its root.  FiberScheduler has it as
   a set from which any fiber may become due; this is the order in which. *)
EXTENDS Integers, Sequences, FiniteSets

CONSTANTS Sleepers, Times, TimerHeapSize

ASSUME TimerAssumption == Times \subseteq Nat /\ TimerHeapSize \in Nat \ {0}

VARIABLES
  timers,    \* timer_heap: fibers with their wakeup_at (numbered from 1 here)
  woken,     \* what the last tick put into the ready list, in order
  now,       \* when that tick was
  overflow   \* a sleep found the heap full: the process has ended

timerVars == <<timers, woken, now, overflow>>

TimerInit == timers = <<>> /\ woken = <<>> /\ now = 0 /\ overflow = FALSE

Heaps == Seq([fiber : Sleepers, at : Times])
Swap(h, i, j) == [h EXCEPT ![i] = h[j], ![j] = h[i]]

(* What a loop makes of s in n rounds of its body; one that is over stays as it is. *)
Rounds(body, s, n) == LET round[k \in 0 .. n] == IF k = 0 THEN s ELSE body[round[k - 1]] IN round[n]

(* The loops of _sched_timer_up and _sched_timer_down: the heap, and where in it. *)
Up == [s \in Heaps \X Nat |->
  LET h == s[1] i == s[2] IN
  IF i = 1 \/ h[i].at >= h[i \div 2].at THEN s ELSE <<Swap(h, i, i \div 2), i \div 2>>]
TimerUp(h) == Rounds(Up, <<h, Len(h)>>, Len(h))[1]

BadEarliest(h, i) == IF 2 * i <= Len(h) /\ h[2 * i].at < h[i].at THEN 2 * i ELSE i
Earliest(h, i) ==
  CHOOSE k \in {i, 2 * i, 2 * i + 1} \cap DOMAIN h :
    \A j \in {i, 2 * i, 2 * i + 1} \cap DOMAIN h : h[k].at < h[j].at \/ (h[k].at = h[j].at /\ k <= j)
Down == [s \in Heaps \X Nat |->   \* i itself the earliest: the end
  LET h == s[1] i == s[2] IN <<Swap(h, i, Earliest(h, i)), Earliest(h, i)>>]
TimerDown(h) == Rounds(Down, <<h, 1>>, Len(h))[1]

Popped(h) == IF Len(h) = 1 THEN <<>> ELSE TimerDown(SubSeq([h EXCEPT ![1] = h[Len(h)]], 1, Len(h) - 1))
Due(t) == [s \in Heaps \X Heaps |->
  LET h == s[1] IN IF h = <<>> \/ h[1].at > t THEN s ELSE <<Popped(h), Append(s[2], h[1])>>]
TickAt(h, t) == Rounds(Due(t), <<h, <<>>>>, Len(h))

InHeap == {timers[i].fiber : i \in DOMAIN timers}

TimerAdd(f, t) ==   \* a sleep of no length, or a negative one, is due at once
  /\ f \notin InHeap
  /\ IF Len(timers) >= TimerHeapSize THEN overflow' = TRUE /\ UNCHANGED timers
     ELSE timers' = TimerUp(Append(timers, [fiber |-> f, at |-> t])) /\ UNCHANGED overflow
  /\ woken' = <<>> /\ UNCHANGED now
TimerTick(t) ==
  LET ticked == TickAt(timers, t) IN
  /\ t >= now /\ now' = t /\ timers' = ticked[1] /\ woken' = ticked[2] /\ UNCHANGED overflow

TimerNext ==
  /\ ~overflow
  /\ (\E f \in Sleepers, t \in Times : TimerAdd(f, t)) \/ \E t \in Times : TimerTick(t)
TimerSpec == TimerInit /\ [][TimerNext]_timerVars

(* A tick wakes the fibers that are due, earliest first, and leaves none of them
   asleep; no fiber is in the heap twice, or both awake and asleep.          *)
TimersFireInOrder ==
  /\ \A i \in DOMAIN woken : woken[i].at <= now /\ \A j \in 1 .. i : woken[j].at <= woken[i].at
  /\ woken # <<>> => \A i \in DOMAIN timers : timers[i].at > now
  /\ Cardinality(InHeap) = Len(timers) /\ \A i \in DOMAIN woken : woken[i].fiber \notin InHeap
=============================================================================
