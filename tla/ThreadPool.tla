----------------------------- MODULE ThreadPool -----------------------------
(***************************************************************************)
(* The thread pool of runtime/xt_threadpool.c.                             *)
(*                                                                         *)
(* One mutex protects a ring of MAX_TASKS slots; worker threads take tasks *)
(* from its head, callers append at its tail and later collect a result by *)
(* task id.  A slot is not only a queue cell: the finished task's result   *)
(* is left in it until the ring comes round, so the slot a caller is going *)
(* to read may by then belong to a younger task.                           *)
(*                                                                         *)
(* Everything between a lock and the next unlock or condition wait is one  *)
(* step.  The one section that is two steps is the end of a task: the      *)
(* worker stores the result and goes back to the top of its loop without   *)
(* unlocking, so `mu' names it in between.                                 *)
(***************************************************************************)
EXTENDS Integers, FiniteSets

CONSTANTS
    Workers,         \* the worker threads
    Clients,         \* the other threads that call the pool
    MaxTasks,        \* MAX_TASKS: number of slots of the ring
    MaxSubmits,      \* bound of the model: tasks submitted over a run
    BodiesCallPool,  \* may a task's function itself submit and wait?
    Null             \* NULL, and "no thread" for the mutex

ASSUME ThreadsAssumption ==
    /\ Workers # {}
    /\ IsFiniteSet(Workers) /\ IsFiniteSet(Clients)
    /\ Workers \cap Clients = {}
    /\ Null \notin Workers \cup Clients
ASSUME SizesAssumption ==
    /\ MaxTasks \in Nat \ {0}
    /\ MaxSubmits \in Nat \ {0}
    /\ BodiesCallPool \in BOOLEAN
ASSUME NullAssumption == Null \notin Int

Threads == Workers \cup Clients
Slots   == 0 .. MaxTasks - 1
Ids     == 0 .. MaxSubmits - 1

(* Results.  Task functions are numbered in the order of submission and    *)
(* function f returns the value f: enough to tell one task's result from   *)
(* another's.  Gone is the (void* ) -1 of xt_threadpool_try_wait.          *)
Gone    == -1
Results == Ids \cup {Null, Gone}

(* The condition variables cv, done_cv and space_cv.                       *)
CondVars == {"cv", "done_cv", "space_cv"}

(* A slot of g_pool.tasks (func and arg are one closure).                  *)
PoolTask == [func : Ids \cup {Null}, result : Ids \cup {Null},
             done : BOOLEAN, id : Ids]

VARIABLES
    tasks,       \* the ring
    head,        \* task_head
    count,       \* task_count
    nextId,      \* task_id_counter
    shutdown,    \* the flag of the same name
    mu,          \* the worker that has the mutex between two of its steps
    asleep,      \* per condition variable, the threads that wait on it
    pc,          \* per thread, where it is
    held,        \* per worker, its local copy t of the task it took
    arg,         \* per thread, the task id it is waiting for
    ret          \* per thread, what its last (try_)wait was for and returned

pool == <<tasks, head, count, nextId, shutdown>>
vars == <<pool, mu, asleep, pc, held, arg, ret>>

(* "run": in code outside the pool; for a worker, in the task's function.  *)
(* "loop": a worker at the top of worker_loop.  "submit", "wait": in that  *)
(* call, having slept at least once.  "join": in xt_threadpool_shutdown.   *)
Places == {"run", "loop", "submit", "wait", "join", "exited"}

Calls == [id : Ids \cup {Null}, val : Results, op : {"none", "wait", "try_wait"}]

EmptySlot == [func |-> Null, result |-> Null, done |-> FALSE, id |-> 0]

Init ==
    /\ tasks = [i \in Slots |-> EmptySlot]
    /\ head = 0
    /\ count = 0
    /\ nextId = 0
    /\ shutdown = FALSE
    /\ mu = Null
    /\ asleep = [c \in CondVars |-> {}]
    /\ pc = [t \in Threads |-> IF t \in Workers THEN "loop" ELSE "run"]
    /\ held = [w \in Workers |-> EmptySlot]
    /\ arg = [t \in Threads |-> Null]
    /\ ret = [t \in Threads |-> [id |-> Null, val |-> Null, op |-> "none"]]

-----------------------------------------------------------------------------
(* The mutex and the condition variables.                                  *)

Awake(t)     == \A c \in CondVars : t \notin asleep[c]
MayLock(t)   == Awake(t) /\ mu \in {Null, t}
Sleep(t, c)  == [asleep EXCEPT ![c] = @ \cup {t}]
Broadcast(c) == [asleep EXCEPT ![c] = {}]

(* xt_cond_signal: the possible outcomes of waking at most one waiter.     *)
Signal(c) ==
    IF asleep[c] = {} THEN {asleep}
    ELSE {[asleep EXCEPT ![c] = @ \ {t}] : t \in asleep[c]}

(* The wake-ups of the code: submit signals cv, a worker that takes a task *)
(* signals space_cv, one that ends a task broadcasts done_cv, shutdown     *)
(* broadcasts cv and space_cv.  (The Bad operators here and below are the  *)
(* mistakes the properties are shown to catch; no action uses them.)       *)
BadWakeWorker    == IF count = 0 THEN Signal("cv") ELSE {asleep}
WakeWorker       == Signal("cv")
BadWakeSubmitter == {asleep}
WakeSubmitter    == Signal("space_cv")
BadWakeWaiters   == Signal("done_cv")
WakeWaiters      == {Broadcast("done_cv")}
BadWakeAtShutdown == [asleep EXCEPT !["space_cv"] = {}]
WakeAtShutdown    == [asleep EXCEPT !["cv"] = {}, !["space_cv"] = {}]

-----------------------------------------------------------------------------
(* worker_loop                                                             *)

WorkerSleep(w) ==
    /\ pc[w] = "loop" /\ MayLock(w)
    /\ count = 0 /\ ~shutdown
    /\ asleep' = Sleep(w, "cv")
    /\ mu' = Null
    /\ UNCHANGED <<pool, pc, held, arg, ret>>

WorkerExit(w) ==
    /\ pc[w] = "loop" /\ MayLock(w)
    /\ shutdown
    /\ pc' = [pc EXCEPT ![w] = "exited"]
    /\ mu' = Null
    /\ UNCHANGED <<pool, asleep, held, arg, ret>>

NextHead          == (head + 1) % MaxTasks

WorkerTake(w) ==
    /\ pc[w] = "loop" /\ MayLock(w)
    /\ count > 0 /\ ~shutdown
    /\ head' = NextHead
    /\ count' = count - 1
    /\ asleep' \in WakeSubmitter
    /\ held' = [held EXCEPT ![w] = tasks[head]]
    /\ tasks' = [tasks EXCEPT ![head].func = Null]
    /\ pc' = [pc EXCEPT ![w] = "run"]
    /\ mu' = Null
    /\ UNCHANGED <<nextId, shutdown, arg, ret>>

(* The loops over the slots stop at the first that carries the id.         *)
HasId(id)      == \E i \in Slots : tasks[i].id = id
IsFirst(i, id) == /\ tasks[i].id = id
                  /\ \A j \in Slots : j < i => tasks[j].id # id

Finish(i, t) == tasks' = [tasks EXCEPT ![i] = [@ EXCEPT !.result = t.func, !.done = TRUE]]

(* The result of task t is left in its slot, or dropped if the slot went   *)
(* to a younger task while t was running.                                  *)
BadStore(t) == Finish(t.id % MaxTasks, t)
Store(t) ==
    \/ \E i \in Slots : IsFirst(i, t.id) /\ Finish(i, t)
    \/ ~HasId(t.id) /\ UNCHANGED tasks

WorkerFinish(w) ==
    /\ w \in Workers
    /\ pc[w] = "run" /\ mu = Null
    /\ Store(held[w])
    /\ asleep' \in WakeWaiters
    /\ pc' = [pc EXCEPT ![w] = "loop"]
    /\ mu' = w
    /\ held' = [held EXCEPT ![w] = EmptySlot]
    /\ UNCHANGED <<head, count, nextId, shutdown, arg, ret>>

-----------------------------------------------------------------------------
(* The calls.  A caller is a client, or a worker whose task's function     *)
(* calls the pool.  After xt_threadpool_shutdown has destroyed the mutex a *)
(* call is undefined behaviour: no caller makes a step any more.           *)

Destroyed == \E c \in Clients : pc[c] = "exited"

MayCall(t) ==
    /\ pc[t] = "run" /\ mu = Null /\ ~Destroyed
    /\ t \in Workers => BodiesCallPool
Retries(t, call) ==
    /\ pc[t] = call /\ Awake(t) /\ mu = Null /\ ~Destroyed
(* The bound keeps a submission for every call that is under way.          *)
Budget == nextId + Cardinality({t \in Threads : pc[t] = "submit"}) < MaxSubmits
Submits(t) == (MayCall(t) /\ Budget) \/ Retries(t, "submit")

(* xt_threadpool_submit: the space_cv wait.                                *)
SubmitSleep(t) ==
    /\ Submits(t)
    /\ count >= MaxTasks /\ ~shutdown
    /\ asleep' = Sleep(t, "space_cv")
    /\ pc' = [pc EXCEPT ![t] = "submit"]
    /\ UNCHANGED <<pool, mu, held, arg, ret>>

(* It returns -1; the caller goes on.                                      *)
SubmitReject(t) ==
    /\ Retries(t, "submit")
    /\ shutdown
    /\ pc' = [pc EXCEPT ![t] = "run"]
    /\ UNCHANGED <<pool, mu, asleep, held, arg, ret>>

TailSlot == (head + count) % MaxTasks
NewTask  == [func |-> nextId, result |-> Null, done |-> FALSE, id |-> nextId]

SubmitPut(t) ==
    /\ Submits(t)
    /\ count < MaxTasks /\ ~shutdown
    /\ nextId < MaxSubmits
    /\ tasks' = [tasks EXCEPT ![TailSlot] = NewTask]
    /\ nextId' = nextId + 1
    /\ count' = count + 1
    /\ asleep' \in WakeWorker
    /\ pc' = [pc EXCEPT ![t] = "run"]
    /\ UNCHANGED <<head, shutdown, mu, held, arg, ret>>

(* A caller waits for a task that was submitted.  A task's function waits  *)
(* for a younger task (one it submitted), never for itself.                *)
MayAskFor(t, id) ==
    /\ id < nextId
    /\ t \in Workers => id > held[t].id

Waits(t, id) ==
    \/ MayCall(t) /\ MayAskFor(t, id)
    \/ Retries(t, "wait") /\ arg[t] = id

BadDoneSlots(id) == {i \in Slots : tasks[i].id = id}
DoneSlots(id) == {i \in Slots : tasks[i].id = id /\ tasks[i].done}

Returned(t, op, id, val) ==
    /\ ret' = [ret EXCEPT ![t] = [id |-> id, val |-> val, op |-> op]]
    /\ pc' = [pc EXCEPT ![t] = "run"]
    /\ arg' = [arg EXCEPT ![t] = Null]
    /\ UNCHANGED <<pool, mu, asleep, held>>

(* xt_threadpool_wait: the task is in its slot and done ...                *)
WaitReturn(t, id) ==
    /\ Waits(t, id)
    /\ \E i \in DoneSlots(id) :
          /\ \A j \in DoneSlots(id) : i <= j
          /\ Returned(t, "wait", id, tasks[i].result)

(* ... or no slot carries the id any more ...                              *)
WaitMissing(t, id) ==
    /\ Waits(t, id)
    /\ ~HasId(id)
    /\ Returned(t, "wait", id, Null)

(* ... or it is queued or running.                                         *)
WaitSleep(t, id) ==
    /\ Waits(t, id)
    /\ HasId(id) /\ DoneSlots(id) = {}
    /\ asleep' = Sleep(t, "done_cv")
    /\ pc' = [pc EXCEPT ![t] = "wait"]
    /\ arg' = [arg EXCEPT ![t] = id]
    /\ UNCHANGED <<pool, mu, held, ret>>

(* xt_threadpool_try_wait: the first slot with the id decides.             *)
TryWait(t, id) ==
    /\ MayCall(t) /\ MayAskFor(t, id)
    /\ \/ \E i \in Slots :
             /\ IsFirst(i, id)
             /\ Returned(t, "try_wait", id,
                         IF tasks[i].done THEN tasks[i].result ELSE Null)
       \/ ~HasId(id) /\ Returned(t, "try_wait", id, Gone)

(* xt_threadpool_shutdown: the flag, the two broadcasts, then the joins.   *)
(* done_cv is not broadcast.  Called once, by a thread outside the pool.   *)
Shutdown(c) ==
    /\ c \in Clients
    /\ MayCall(c) /\ ~shutdown
    /\ shutdown' = TRUE
    /\ asleep' = WakeAtShutdown
    /\ pc' = [pc EXCEPT ![c] = "join"]
    /\ UNCHANGED <<tasks, head, count, nextId, mu, held, arg, ret>>

Join(c) ==
    /\ pc[c] = "join"
    /\ \A w \in Workers : pc[w] = "exited"
    /\ pc' = [pc EXCEPT ![c] = "exited"]
    /\ UNCHANGED <<pool, mu, asleep, held, arg, ret>>

(* Both platforms' condition waits may return without a signal.            *)
SpuriousWakeup(t) ==
    /\ \E c \in CondVars :
          /\ t \in asleep[c]
          /\ asleep' = [asleep EXCEPT ![c] = @ \ {t}]
    /\ UNCHANGED <<pool, mu, pc, held, arg, ret>>

WorkerStep(w) == WorkerSleep(w) \/ WorkerExit(w) \/ WorkerTake(w)

SubmitStep(t) == SubmitSleep(t) \/ SubmitReject(t) \/ SubmitPut(t)
WaitStep(t, id) == WaitReturn(t, id) \/ WaitMissing(t, id) \/ WaitSleep(t, id)

Next ==
    \/ \E w \in Workers : WorkerStep(w) \/ WorkerFinish(w)
    \/ \E t \in Threads :
          \/ SubmitStep(t)
          \/ \E id \in Ids : WaitStep(t, id) \/ TryWait(t, id)
          \/ SpuriousWakeup(t)
    \/ \E c \in Clients : Shutdown(c) \/ Join(c)

Spec == Init /\ [][Next]_vars

-----------------------------------------------------------------------------
(* Properties                                                              *)

(* Every variable has its type.                                            *)
TypeOK ==
    /\ tasks \in [Slots -> PoolTask]
    /\ head \in Slots
    /\ count \in 0 .. MaxTasks
    /\ nextId \in 0 .. MaxSubmits
    /\ shutdown \in BOOLEAN
    /\ mu \in Workers \cup {Null}
    /\ asleep \in [CondVars -> SUBSET Threads]
    /\ pc \in [Threads -> Places]
    /\ held \in [Workers -> PoolTask]
    /\ arg \in [Threads -> Ids \cup {Null}]
    /\ ret \in [Threads -> Calls]

Oldest       == nextId - count
QueuedIds    == Oldest .. nextId - 1
Runs(w)      == pc[w] \in {"run", "submit", "wait"}
RunningIds   == {held[w].id : w \in {v \in Workers : Runs(v)}}
(* Task id's slot was given to the task submitted MaxTasks later.          *)
Overwritten(id) == id + MaxTasks < nextId

(* The ring holds exactly the last MaxTasks submissions, each in the slot  *)
(* id % MaxTasks, and the queued ones still have their function: head,     *)
(* count and the id counter never disagree however submit and take         *)
(* interleave.                                                             *)
RingInv ==
    /\ count <= nextId
    /\ head = Oldest % MaxTasks
    /\ \A id \in 0 .. nextId - 1 :
          ~Overwritten(id) => tasks[id % MaxTasks].id = id
    /\ \A id \in QueuedIds :
          tasks[id % MaxTasks] = [func |-> id, result |-> Null, done |-> FALSE, id |-> id]

(* A task is run by at most one worker, never again once dispatched, and   *)
(* it is the function that was submitted under that id.                    *)
RunOnce ==
    \A w \in Workers : Runs(w) =>
        /\ held[w].id < Oldest /\ held[w].func = held[w].id
        /\ \A v \in Workers \ {w} : Runs(v) => held[v].id # held[w].id

(* xt_threadpool_wait answers with the result of the task asked for, and   *)
(* with NULL only when that task's slot has been given to another: a late  *)
(* writer never leaves its result in a younger task's slot.                *)
WaitAnswersItsTask ==
    \A t \in Threads : LET r == ret[t] IN
        /\ r.op = "wait" => \/ r.val = r.id
                            \/ r.val = Null /\ Overwritten(r.id)
        /\ r.op = "try_wait" => \/ r.val \in {r.id, Null}
                                \/ r.val = Gone /\ Overwritten(r.id)

(* Whenever a worker sleeps on cv there are at least as many workers on    *)
(* their way to the queue as there are queued tasks, and whenever a        *)
(* submitter sleeps on space_cv, as many woken submitters as free slots:   *)
(* no signal of submit or of a worker is lost on a thread that is between  *)
(* its test and its wait.                                                  *)
OnTheirWay == {w \in Workers : pc[w] = "loop" /\ Awake(w)}
Submitting == {t \in Threads : pc[t] = "submit" /\ Awake(t)}
NobodySleepsBesideWork == ~shutdown =>
    /\ asleep["cv"] # {} => Cardinality(OnTheirWay) >= count
    /\ asleep["space_cv"] # {} => Cardinality(Submitting) >= MaxTasks - count

(* A thread asleep on done_cv waits for a task that is still going to be   *)
(* finished by a broadcast: it is queued or some worker runs it.           *)
SleepersAreOwed ==
    \A t \in asleep["done_cv"] : arg[t] \in QueuedIds \cup RunningIds

(* The strengthening that makes the invariants above inductive: what every *)
(* slot holds, and where the tasks that were dispatched are.               *)
SlotsInv ==
    /\ \A i \in Slots : i >= nextId => tasks[i] = EmptySlot
    /\ \A i \in Slots : i < nextId =>
          /\ tasks[i].id % MaxTasks = i
          /\ tasks[i].id < nextId /\ ~Overwritten(tasks[i].id)
          /\ tasks[i].done => /\ tasks[i].result = tasks[i].id
                              /\ tasks[i].id < Oldest
                              /\ tasks[i].id \notin RunningIds
          /\ ~tasks[i].done => tasks[i].id \in QueuedIds \cup RunningIds
CallsInv ==
    /\ \A t \in Threads : pc[t] = "wait" => arg[t] \in 0 .. nextId - 1
    /\ \A t \in Threads : ret[t].op # "none" => ret[t].id \in 0 .. nextId - 1
    /\ \A t \in asleep["done_cv"] : pc[t] = "wait"

(* What the wait sets say of their members; done_cv's is in CallsInv.      *)
SleepersInv ==
    /\ \A t \in asleep["cv"] : t \in Workers /\ pc[t] = "loop"
    /\ \A t \in asleep["space_cv"] : pc[t] = "submit"

(* The inductive invariant.                                                *)
PoolInv ==
    /\ TypeOK /\ RingInv /\ RunOnce /\ SlotsInv /\ CallsInv
    /\ WaitAnswersItsTask /\ SleepersAreOwed

AllWorkersBlocked == \A w \in Workers : pc[w] \in {"submit", "wait"}

(* A wait ends, unless the pool is shut down under it, and so does a submit *)
(* that found the ring full, with a slot or with -1; only a pool whose      *)
(* workers are all blocked in calls of the pool holds them for ever.  A     *)
(* shutdown ends unless a task waits inside the pool.                       *)
CallsEnd ==
    \A t \in Threads :
        /\ (pc[t] = "wait") ~> (pc[t] # "wait" \/ shutdown \/ AllWorkersBlocked)
        /\ (pc[t] = "submit") ~> (pc[t] # "submit" \/ Destroyed \/ AllWorkersBlocked)
        /\ (pc[t] = "join") ~> \/ \A w \in Workers : pc[w] = "exited"
                              \/ \E w \in Workers : pc[w] = "wait"

-----------------------------------------------------------------------------
(* The pool implements TaskPool.  The tasks dispatched are those below     *)
(* Oldest; of them, those no worker holds have finished.                   *)
Finished == (0 .. Oldest - 1) \ RunningIds

Abstract == INSTANCE TaskPool WITH
    Capacity <- MaxTasks, submitted <- nextId, started <- Oldest,
    finished <- Finished, closed <- shutdown, answer <- ret

(* Every step of the pool is a step of TaskPool or invisible to a caller:  *)
(* tasks start once and in order, and no answer comes before its task has  *)
(* finished.                                                               *)
ImplementsTaskPool == Abstract!Spec

=============================================================================
