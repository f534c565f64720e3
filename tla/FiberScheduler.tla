--------------------------- MODULE FiberScheduler ---------------------------
(***************************************************************************)
(* The fiber scheduler of runtime/xt_runtime.c and the calls of its        *)
(* asynchronous layer on fiber handles.                                    *)
(*                                                                         *)
(* Fibers are state machines in a table; `poll' advances one until it      *)
(* suspends itself (yield, sleep, wait for a target) or ends.  There is no *)
(* scheduler thread: a thread that awaits a fiber runs the loop until it   *)
(* finds nothing to do, unless another thread is running it already, and   *)
(* then spins until the fiber is done.  Threads that run no fibers wake    *)
(* waiting ones (a finished pool task, a channel operation: an "event").   *)
(*                                                                         *)
(* Sections under g_sched_mutex are one step each; so is every unlocked    *)
(* step between them that others can see.  Code compiled for a fiber is    *)
(* not in the repository: here it may call the scheduler in any order.     *)
(***************************************************************************)
EXTENDS Integers, Sequences, FiniteSets, SequencesExt

CONSTANTS
    Threads,     \* threads that spawn and await fibers (xt_async_wait)
    Events,      \* what fibers wait for besides fibers; anyone may wake it
    MaxFibers,   \* XT_MAX_FIBERS
    MaxSpawns,   \* bound of the model: fibers spawned over a run
    NoOne        \* NULL

ASSUME ConstantsAssumption ==
    /\ MaxFibers \in Nat \ {0}
    /\ MaxSpawns \in Nat
    /\ Threads # {} /\ IsFiniteSet(Threads)
    /\ NoOne \notin Threads \cup Events \cup Int
    /\ Threads \cap Int = {} /\ Events \cap Int = {}

Fibers == 0 .. MaxFibers - 1

VARIABLES
    status,      \* per fiber: "ready", "waiting", "sleeping" or "done"
    waitTarget,  \* per fiber: the event or fiber it waits for
    result,      \* per fiber: its result, 0 for none
    consumed,    \* per fiber: result_consumed
    inFree,      \* per fiber: in_free_list
    freeIds,     \* the stack g_fiber_free_ids
    fiberCount,  \* fiber_count
    ready,       \* the list from ready_head to ready_tail
    sleeping,    \* the fibers in timer_heap
    running,     \* the flag of the same name
    current,     \* the fiber being polled
    fiber,       \* per thread, the loop's local f
    pc,          \* per thread, where it is
    awaited,     \* per thread, the fiber it awaits
    serial,      \* which spawn a fiber's slot now holds (names its result)
    spawned,     \* number of spawns
    owner,       \* who holds the handle of a fiber and will await it
    got          \* the last await that ended: whose result, and which it got

sched == <<status, waitTarget, result, consumed, inFree, freeIds, fiberCount,
           ready, sleeping, running, current>>
ghost == <<serial, spawned, owner, got>>
vars  == <<sched, pc, fiber, awaited, ghost>>

Statuses == {"ready", "waiting", "sleeping", "done"}

(* "user": outside the scheduler.  "top": at the head of the loop.         *)
(* "next": about to dequeue.  "idle": found nothing.  "stop": about to     *)
(* clear `running', "recheck": about to read it.  "begin", "poll": before  *)
(* and in a fiber's poll.  "done", "wake": after a poll that ended.        *)
(* "spin": in xt_async_wait, waiting for DONE.                             *)
LoopPlaces == {"top", "next", "idle", "stop", "recheck", "begin", "poll", "done", "wake"}
Places     == {"user", "enter", "spin"} \cup LoopPlaces

Init ==
    /\ status = [f \in Fibers |-> "ready"]
    /\ waitTarget = [f \in Fibers |-> NoOne]
    /\ result = [f \in Fibers |-> 0]
    /\ consumed = [f \in Fibers |-> FALSE]
    /\ inFree = [f \in Fibers |-> FALSE]
    /\ freeIds = <<>>
    /\ fiberCount = 0
    /\ ready = <<>>
    /\ sleeping = {}
    /\ running = FALSE
    /\ current = NoOne
    /\ fiber = [t \in Threads |-> NoOne]
    /\ pc = [t \in Threads |-> "user"]
    /\ awaited = [t \in Threads |-> NoOne]
    /\ serial = [f \in Fibers |-> 0]
    /\ spawned = 0
    /\ owner = [f \in Fibers |-> NoOne]
    /\ got = [of |-> 0, val |-> 0]

Goto(t, place) == pc' = [pc EXCEPT ![t] = place]

-----------------------------------------------------------------------------
(* (The Bad operators here and below are the mistakes the properties are   *)
(* shown to catch; no action uses them.)                                   *)

(* Spawning: a recycled slot if there is one, else a fresh one.            *)
Reused == freeIds # <<>>
Room   == Reused \/ fiberCount < MaxFibers
NewId  == IF Reused THEN Last(freeIds) ELSE fiberCount

StillFree    == IF Reused THEN Front(freeIds) ELSE freeIds

(* The fields xt_scheduler_spawn sets.                                     *)
Spawn(by) ==
    /\ Room
    /\ spawned < MaxSpawns
    /\ LET f == NewId IN
       /\ status' = [status EXCEPT ![f] = "ready"]
       /\ waitTarget' = [waitTarget EXCEPT ![f] = NoOne]
       /\ result' = [result EXCEPT ![f] = 0]
       /\ consumed' = [consumed EXCEPT ![f] = FALSE]
       /\ inFree' = [inFree EXCEPT ![f] = FALSE]
       /\ ready' = Append(ready, f)
       /\ freeIds' = StillFree
       /\ fiberCount' = IF Reused THEN fiberCount ELSE fiberCount + 1
       /\ serial' = [serial EXCEPT ![f] = spawned + 1]
       /\ owner' = [owner EXCEPT ![f] = by]
    /\ spawned' = spawned + 1
    /\ UNCHANGED <<sleeping, running, current, got>>

ThreadSpawn(t) ==
    /\ pc[t] = "user"
    /\ Spawn(t)
    /\ UNCHANGED <<pc, fiber, awaited>>

-----------------------------------------------------------------------------
(* Taking a result: the owner reads it once, marks it consumed, and        *)
(* _xt_fiber_recycle gives the slot back when the fiber is done.           *)
MayRecycle(f) == status[f] = "done" /\ ~inFree[f]

Consume(f) ==
    /\ got' = [of |-> serial[f], val |-> result[f]]
    /\ owner' = [owner EXCEPT ![f] = NoOne]
    /\ consumed' = [consumed EXCEPT ![f] = TRUE]
    /\ IF MayRecycle(f)
       THEN /\ result' = [result EXCEPT ![f] = 0]
            /\ inFree' = [inFree EXCEPT ![f] = TRUE]
            /\ freeIds' = Append(freeIds, f)
       ELSE UNCHANGED <<result, inFree, freeIds>>
    /\ UNCHANGED <<status, waitTarget, fiberCount, ready, sleeping, running,
                   current, serial, spawned>>

-----------------------------------------------------------------------------
(* xt_async_wait by a thread: run the loop, or find it run by another;     *)
(* then spin.                                                              *)
Await(t, f) ==
    /\ pc[t] = "user"
    /\ owner[f] = t
    /\ awaited' = [awaited EXCEPT ![t] = f]
    /\ Goto(t, "enter")
    /\ UNCHANGED <<sched, fiber, ghost>>

BadEnterPlace == "top"
EnterPlace    == IF running THEN "spin" ELSE "top"

RunEnter(t) ==
    /\ pc[t] = "enter"
    /\ running' = TRUE
    /\ Goto(t, EnterPlace)
    /\ UNCHANGED <<status, waitTarget, result, consumed, inFree, freeIds,
                   fiberCount, ready, sleeping, current, fiber, awaited, ghost>>

BadSpinEnds(f) == TRUE
SpinEnds(f)    == status[f] = "done" \/ consumed[f]

Collect(t) ==
    /\ pc[t] = "spin"
    /\ SpinEnds(awaited[t])
    /\ Consume(awaited[t])
    /\ awaited' = [awaited EXCEPT ![t] = NoOne]
    /\ Goto(t, "user")
    /\ UNCHANGED fiber

-----------------------------------------------------------------------------
(* xt_scheduler_run by the thread that set `running'.                      *)

Orders(fs) == {q \in [1 .. Cardinality(fs) -> fs] : ToSet(q) = fs}

(* xt_scheduler_timer_tick: every fiber that is due becomes ready.  Which  *)
(* are due is left open, and so is their order.                            *)
BadTicked(due) == {<<>>}
Ticked(due) == Orders(due)

Tick(t) ==
    /\ pc[t] = "top"
    /\ \E due \in SUBSET sleeping :
          /\ \E q \in Ticked(due) : ready' = ready \o q
          /\ sleeping' = sleeping \ due
          /\ status' = [f \in Fibers |-> IF f \in due THEN "ready" ELSE status[f]]
    /\ Goto(t, "next")
    /\ UNCHANGED <<waitTarget, result, consumed, inFree, freeIds, fiberCount,
                   running, current, fiber, awaited, ghost>>

Dequeue(t) ==
    /\ pc[t] = "next"
    /\ IF ready = <<>>
       THEN Goto(t, "idle") /\ UNCHANGED <<ready, fiber>>
       ELSE /\ ready' = Tail(ready)
            /\ fiber' = [fiber EXCEPT ![t] = Head(ready)]
            /\ Goto(t, "begin")
    /\ UNCHANGED <<status, waitTarget, result, consumed, inFree, freeIds, fiberCount,
                   sleeping, running, current, awaited, ghost>>

(* Nothing was ready.  With timers or waiting fibers the loop sleeps and   *)
(* goes round; else it is going to stop.  The ready list is not looked at  *)
(* again.                                                                  *)
SomeoneWaits == \E f \in 0 .. fiberCount - 1 : status[f] = "waiting"
BadKeepOn == SomeoneWaits
KeepOn    == sleeping # {} \/ SomeoneWaits

Idle(t) ==
    /\ pc[t] = "idle"
    /\ Goto(t, IF KeepOn THEN "top" ELSE "stop")
    /\ UNCHANGED <<sched, fiber, awaited, ghost>>

Stop(t) ==
    /\ pc[t] = "stop"
    /\ running' = FALSE
    /\ Goto(t, "recheck")
    /\ UNCHANGED <<status, waitTarget, result, consumed, inFree, freeIds,
                   fiberCount, ready, sleeping, current, fiber, awaited, ghost>>

(* The loop's condition is read after that, and not under the mutex.       *)
Recheck(t) ==
    /\ pc[t] = "recheck"
    /\ Goto(t, IF running THEN "top" ELSE "spin")
    /\ UNCHANGED <<sched, fiber, awaited, ghost>>

PollBegin(t) ==
    /\ pc[t] = "begin"
    /\ current' = fiber[t]
    /\ Goto(t, "poll")
    /\ UNCHANGED <<status, waitTarget, result, consumed, inFree, freeIds, fiberCount,
                   ready, sleeping, running, fiber, awaited, ghost>>

(* What a fiber does while it is polled acts on g_scheduler->current.      *)

(* The fiber returned 0.                                                   *)
Suspended(t) ==
    /\ current' = NoOne
    /\ Goto(t, "top")
    /\ UNCHANGED <<result, consumed, inFree, freeIds, fiberCount, running, fiber,
                   awaited, ghost>>

PollYield(t) ==
    /\ pc[t] = "poll"
    /\ IF current = NoOne THEN UNCHANGED <<status, ready>>
       ELSE /\ status' = [status EXCEPT ![current] = "ready"]
            /\ ready' = Append(ready, current)
    /\ UNCHANGED <<waitTarget, sleeping>>
    /\ Suspended(t)

PollSleep(t) ==
    /\ pc[t] = "poll"
    /\ IF current = NoOne THEN UNCHANGED <<status, sleeping>>
       ELSE /\ status' = [status EXCEPT ![current] = "sleeping"]
            /\ sleeping' = sleeping \cup {current}
    /\ UNCHANGED <<waitTarget, ready>>
    /\ Suspended(t)

(* A fiber waits for an event, or for a fiber whose handle it holds and    *)
(* which it has seen not to be done.                                       *)
BadMayPark(f, target) ==
    \/ target \in Events
    \/ target \in Fibers /\ owner[target] = f
MayPark(f, target) ==
    \/ target \in Events
    \/ target \in Fibers /\ owner[target] = f /\ status[target] # "done"

PollWait(t, target) ==
    /\ pc[t] = "poll"
    /\ MayPark(fiber[t], target)
    /\ IF current = NoOne THEN UNCHANGED <<status, waitTarget>>
       ELSE /\ status' = [status EXCEPT ![current] = "waiting"]
            /\ waitTarget' = [waitTarget EXCEPT ![current] = target]
    /\ UNCHANGED <<ready, sleeping>>
    /\ Suspended(t)

(* xt_task_result on a handle whose fiber is done.                         *)
PollTake(t, f) ==
    /\ pc[t] = "poll"
    /\ owner[f] = fiber[t] /\ status[f] = "done"
    /\ Consume(f)
    /\ UNCHANGED <<pc, fiber, awaited>>

PollSpawn(t) ==
    /\ pc[t] = "poll"
    /\ Spawn(fiber[t])
    /\ UNCHANGED <<pc, fiber, awaited>>

(* xt_fiber_set_result, and poll returns 1.  Handles it still holds are    *)
(* lost with it.                                                           *)
PollFinish(t) ==
    /\ pc[t] = "poll"
    /\ result' = IF current = NoOne THEN result
                 ELSE [result EXCEPT ![current] = serial[fiber[t]]]
    /\ owner' = [f \in Fibers |-> IF owner[f] = fiber[t] THEN NoOne ELSE owner[f]]
    /\ current' = NoOne
    /\ Goto(t, "done")
    /\ UNCHANGED <<status, waitTarget, consumed, inFree, freeIds, fiberCount,
                   ready, sleeping, running, fiber, awaited, serial, spawned, got>>

MarkDone(t) ==
    /\ pc[t] = "done"
    /\ status' = [status EXCEPT ![fiber[t]] = "done"]
    /\ Goto(t, "wake")
    /\ UNCHANGED <<waitTarget, result, consumed, inFree, freeIds, fiberCount,
                   ready, sleeping, running, current, fiber, awaited, ghost>>

(* xt_scheduler_wake_task: every fiber that waits for the target, in the   *)
(* order of the table.                                                     *)
Waiters(target) == {f \in 0 .. fiberCount - 1 :
                       status[f] = "waiting" /\ waitTarget[f] = target}

TableOrder(fs) == {q \in Orders(fs) : \A i, j \in DOMAIN q : i < j => q[i] < q[j]}

Wake(target) ==
    /\ status' = [f \in Fibers |-> IF f \in Waiters(target) THEN "ready" ELSE status[f]]
    /\ waitTarget' = [f \in Fibers |-> IF f \in Waiters(target) THEN NoOne ELSE waitTarget[f]]
    /\ \E q \in TableOrder(Waiters(target)) : ready' = ready \o q

(* The two wake_task calls after a poll that ended, the one for waiters    *)
(* that name the fiber by address and the one for its handle (its index    *)
(* plus one; here the index stands for both).                              *)
Handle(f)    == f

WakeAwaiters(t) ==
    /\ pc[t] = "wake"
    /\ Wake(Handle(fiber[t]))
    /\ Goto(t, "top")
    /\ UNCHANGED <<result, consumed, inFree, freeIds, fiberCount, sleeping, running,
                   current, fiber, awaited, ghost>>

(* A thread that runs no fiber wakes the waiters of an event.              *)
Signal(e) ==
    /\ Waiters(e) # {}
    /\ Wake(e)
    /\ UNCHANGED <<result, consumed, inFree, freeIds, fiberCount, sleeping, running,
                   current, pc, fiber, awaited, ghost>>

-----------------------------------------------------------------------------
RunStep(t) ==
    \/ RunEnter(t) \/ Tick(t) \/ Dequeue(t) \/ PollBegin(t)
    \/ Idle(t) \/ Stop(t) \/ Recheck(t) \/ MarkDone(t) \/ WakeAwaiters(t)
PollStep(t) ==
    \/ PollYield(t) \/ PollSleep(t) \/ PollSpawn(t) \/ PollFinish(t)
    \/ \E target \in Events \cup Fibers : PollWait(t, target)
    \/ \E f \in Fibers : PollTake(t, f)

(* One thread runs the loop, and `running' says so.  The model stops where *)
(* a second one has entered it: from there on both poll on one `current'.  *)
InLoop  == {t \in Threads : pc[t] \in LoopPlaces}
OneRunner ==
    /\ Cardinality(InLoop) <= 1
    /\ running <=> \E t \in InLoop : pc[t] # "recheck"

Next ==
    /\ OneRunner
    /\ \/ \E t \in Threads :
             \/ ThreadSpawn(t)
             \/ \E f \in Fibers : Await(t, f)
             \/ RunStep(t) \/ PollStep(t)
             \/ Collect(t)
       \/ \E e \in Events : Signal(e)

(* A thread in the scheduler goes on; every sleep ends; a fiber that is    *)
(* polled again and again ends; every event comes again.                   *)
Fairness ==
    /\ \A t \in Threads : WF_vars(RunStep(t) \/ PollStep(t) \/ Collect(t))
    /\ \A f \in Fibers :
          /\ SF_vars(\E t \in Threads : current = f /\ PollFinish(t))
          /\ SF_vars(\E t \in Threads : f \in sleeping /\ Tick(t) /\ f \notin sleeping')
    /\ \A e \in Events : WF_vars(Signal(e))

Spec     == Init /\ [][Next]_vars
FairSpec == Spec /\ Fairness

-----------------------------------------------------------------------------
(* Properties                                                              *)

Spawned == 0 .. fiberCount - 1

(* The fibers a thread of the loop has in its hands: dequeued, not yet     *)
(* suspended or marked done.                                               *)
InHand  == {fiber[t] : t \in {u \in Threads : pc[u] \in {"begin", "poll", "done"}}}

(* A fiber is in one place: in the ready list once exactly when it is      *)
(* ready and not in a thread's hands, in the timers exactly when it        *)
(* sleeps.  A second enqueue would tie the linked list into a loop.        *)
OnePlace ==
    /\ \A i, j \in DOMAIN ready : ready[i] = ready[j] => i = j
    /\ ToSet(ready) = {f \in Spawned : status[f] = "ready"} \ InHand
    /\ sleeping = {f \in Spawned : status[f] = "sleeping"}

(* A second thread enters the loop in one way only: while the first has     *)
(* cleared `running' and not read it again.                                *)
SecondRunnerOnlyAtRecheck ==
    [][OneRunner /\ ~OneRunner' => \E t \in InLoop : pc[t] = "recheck"]_vars

(* An await of a handle ends with the result of the fiber that was spawned *)
(* under it, however often its slot was used before and after.             *)
AwaitGetsOwnResult == got.val = got.of

(* A fiber that waits for a fiber waits for one that is not done, or whose *)
(* wake-up call is the next thing the running thread does.                 *)
NoMissedWake ==
    \A f \in Spawned : status[f] = "waiting" /\ waitTarget[f] \in Fibers =>
        \/ status[waitTarget[f]] # "done"
        \/ \E t \in Threads : pc[t] = "wake" /\ fiber[t] = waitTarget[f]

(* The loop has stopped beside a fiber that another thread made ready      *)
(* after the loop had found the list empty; the awaiting thread spins and  *)
(* nobody runs the loop.                                                   *)
Stranded == ~running /\ ready # <<>> /\ \A t \in Threads : pc[t] \in {"user", "spin"}

(* An await ends, unless it is stranded or two threads run the loop.       *)
AwaitEndsOrStranded ==
    \A t \in Threads : (awaited[t] # NoOne) ~> (awaited[t] = NoOne \/ Stranded \/ ~OneRunner)

=============================================================================
