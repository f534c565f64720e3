----------------------------- MODULE AsyncTask ------------------------------
(* Asynchronous tasks of the C runtime (xt_async_spawn, xt_async_wait,
   xt_async_try_wait, async_runner in xt_runtime.c): a handle with a result and
   a status around a task of the thread pool.

   Three parties write a handle without a lock: the pool's worker, when the
   task's function has returned, and every caller that waits for the task or
   asks for it, with what the pool answers.  A pool that has given the task's
   slot away answers a wait with NULL and a try_wait with -1, and that is stored
   as the result.  A client that was told "not yet" may park: a fiber in
   xt_scheduler_wait_task, until the runner wakes those that wait for the handle.

   A handle is named by its task's id.  The handle of a spawn that the pool
   refused (pool_id -1) is not in the model: it answers NULL for ever. *)
EXTENDS ThreadPool

VARIABLES
  handle,   \* XTTask: result and status
  step,     \* per thread: where it is in async_runner or in a call
  answer,   \* per thread: the handle it asked last, and what it was given
  notified, \* the tasks whose runner has woken those that wait for it
  missed    \* clients that parked for a task in notified (no code reads these two)

async == <<handle, step, answer, notified, missed>>
asyncVars == <<vars, async>>

Unasked == [id |-> Null, val |-> Null]

AsyncInit ==
  /\ Init
  /\ handle = [id \in Ids |-> [result |-> Null, status |-> 0]]
  /\ step = [t \in Threads |-> "none"] /\ answer = [t \in Threads |-> Unasked]
  /\ notified = {} /\ missed = {}

At(t, from, to) == step[t] = from /\ step' = [step EXCEPT ![t] = to]
Kept(id, val) == handle' = [handle EXCEPT ![id].result = val]
Marked(id) == handle' = [handle EXCEPT ![id].status = 1]

-----------------------------------------------------------------------------
(* async_runner: the function's result into the handle, then the status, then
   the wake-up; the pool's worker stores the result too, when it returns.      *)
BadRunnerStores(w) ==   \* the status first
  /\ pc[w] = "run" /\ At(w, "none", "stored") /\ Marked(held[w].id)
  /\ UNCHANGED <<vars, answer, notified, missed>>
RunnerStores(w) ==
  /\ pc[w] = "run" /\ At(w, "none", "stored") /\ Kept(held[w].id, held[w].func)
  /\ UNCHANGED <<vars, answer, notified, missed>>
BadRunnerMarks(w) == At(w, "stored", "marked") /\ UNCHANGED <<vars, handle, answer, notified, missed>>
RunnerMarks(w) ==
  /\ At(w, "stored", "marked") /\ Marked(held[w].id)
  /\ UNCHANGED <<vars, answer, notified, missed>>

BadAwakened(id) == {}
Awakened(id) == {t \in Clients : step[t] = "parked" /\ ret[t].id = id}
RunnerWakes(w) ==
  /\ step[w] = "marked"
  /\ step' = [t \in Threads |-> IF t = w THEN "ended" ELSE IF t \in Awakened(held[w].id) THEN "none" ELSE step[t]]
  /\ notified' = notified \cup {held[w].id} /\ missed' = missed \ Awakened(held[w].id)
  /\ UNCHANGED <<vars, handle, answer>>
RunnerReturns(w) ==
  /\ At(w, "ended", "none") /\ WorkerFinish(w) /\ UNCHANGED <<handle, answer, notified, missed>>

Runner(w) == RunnerStores(w) \/ RunnerMarks(w) \/ RunnerWakes(w) \/ RunnerReturns(w)

-----------------------------------------------------------------------------
(* The calls *)
Free(t) == step[t] = "none"
Spawn(t) == Free(t) /\ SubmitStep(t) /\ UNCHANGED async

(* xt_async_wait asks the pool even if the handle has its result.            *)
Blocks(t) == Free(t) /\ (\E id \in Ids : WaitSleep(t, id)) /\ UNCHANGED async
WaitAnswered(t, id) ==
  /\ WaitReturn(t, id) \/ WaitMissing(t, id)
  /\ At(t, "none", "got") /\ UNCHANGED <<handle, answer, notified, missed>>

(* xt_async_try_wait looks at the status first; NULL means not yet.          *)
Asks(id) == handle[id].status = 0
TryAnswered(t, id) ==
  /\ Asks(id) /\ TryWait(t, id) /\ At(t, "none", IF ret'[t].val = Null THEN "none" ELSE "got")
  /\ UNCHANGED <<handle, answer, notified, missed>>
TryKnown(t, id) ==   \* and xt_task_result
  /\ MayCall(t) /\ MayAskFor(t, id) /\ Free(t) /\ ~Asks(id)
  /\ answer' = [answer EXCEPT ![t] = [id |-> id, val |-> handle[id].result]]
  /\ UNCHANGED <<vars, handle, step, notified, missed>>

(* Both store the pool's answer, set the status, and give the caller what the
   handle then holds.                                                        *)
CallerStores(t) ==
  /\ At(t, "got", "kept") /\ Kept(ret[t].id, ret[t].val)
  /\ UNCHANGED <<vars, answer, notified, missed>>
CallerReturns(t) ==
  /\ At(t, "kept", "none") /\ Marked(ret[t].id)
  /\ answer' = [answer EXCEPT ![t] = [id |-> ret[t].id, val |-> handle[ret[t].id].result]]
  /\ UNCHANGED <<vars, notified, missed>>
Caller(t) == CallerStores(t) \/ CallerReturns(t)

Park(c) ==
  /\ c \in Clients /\ pc[c] = "run" /\ ret[c].op = "try_wait" /\ ret[c].val = Null
  /\ At(c, "none", "parked")
  /\ missed' = IF ret[c].id \in notified THEN missed \cup {c} ELSE missed
  /\ UNCHANGED <<vars, handle, answer, notified>>

PoolStep ==
  /\ \/ \E w \in Workers : WorkerStep(w)
     \/ \E t \in Threads : SpuriousWakeup(t)
     \/ \E c \in Clients : (Free(c) /\ Shutdown(c)) \/ Join(c)
  /\ UNCHANGED async

AsyncNext ==
  \/ PoolStep
  \/ \E w \in Workers : Runner(w)
  \/ \E t \in Threads :
       \/ Spawn(t) \/ Blocks(t) \/ Caller(t)
       \/ \E id \in Ids : WaitAnswered(t, id) \/ TryAnswered(t, id) \/ TryKnown(t, id)
  \/ \E c \in Clients : Park(c)

(* Fairness: the operating system runs every thread that can run and gives it
   the mutex in the end; a call that was woken, or has its answer, goes on; and a
   task's function, which may call again and again, ends: hence the strong
   fairness.  No thread has to call.                                         *)
AsyncFairness ==
  /\ \A w \in Workers : WF_asyncVars(WorkerStep(w) /\ UNCHANGED async) /\ SF_asyncVars(Runner(w))
  /\ \A t \in Threads :
       /\ WF_asyncVars(pc[t] = "submit" /\ Spawn(t))
       /\ WF_asyncVars(pc[t] = "wait" /\ (Blocks(t) \/ \E id \in Ids : WaitAnswered(t, id)))
       /\ WF_asyncVars(Caller(t))
AsyncSpec == AsyncInit /\ [][AsyncNext]_asyncVars /\ AsyncFairness

-----------------------------------------------------------------------------
(* A handle marked complete holds its own task's result, and a caller is given
   the result of the task it asked for, whoever else writes the handle; unless
   the pool had given the task's slot to another when someone asked: then there
   may be NULL, or the -1 of try_wait, even before the task has ended.       *)
IsResultOf(val, id) == val = id \/ (Overwritten(id) /\ val \in {Null, Gone})
AnswersAreTheTasks ==
  /\ \A id \in Ids : handle[id].status = 1 => IsResultOf(handle[id].result, id)
  /\ \A t \in Threads : answer[t].id # Null => IsResultOf(answer[t].val, answer[t].id)

(* A fiber is parked for a finished task only if it was between its test and its
   wait when the runner woke the others: nothing wakes that one.             *)
ParkedFibersAreWoken == \A c \in Clients : step[c] = "parked" /\ ret[c].id \in notified => c \in missed

(* The strengthening that makes the two invariants inductive: what a thread has
   in hand between its steps, and what the handle it is writing then holds.  *)
AsyncTypeOK ==
  /\ handle \in [Ids -> [result : Results, status : {0, 1}]]
  /\ step \in [Threads -> {"none", "stored", "marked", "ended", "got", "kept", "parked"}]
  /\ answer \in [Threads -> [id : Ids \cup {Null}, val : Results]]
StepsInv ==
  \A t \in Threads :
    /\ step[t] # "none" => pc[t] = "run"
    /\ step[t] \in {"stored", "marked", "ended"} => t \in Workers
    /\ step[t] \in {"got", "kept"} => ret[t].op # "none" /\ IsResultOf(ret[t].val, ret[t].id)
StoredInv ==
  /\ \A w \in Workers : step[w] = "stored" => IsResultOf(handle[held[w].id].result, held[w].id)
  /\ \A t \in Threads : step[t] = "kept" => IsResultOf(handle[ret[t].id].result, ret[t].id)
AsyncInv == AsyncTypeOK /\ StepsInv /\ StoredInv /\ AnswersAreTheTasks /\ ParkedFibersAreWoken

(* A spawned task is marked complete in the end, unless the pool is shut down or
   its workers are all blocked in calls of the pool.                         *)
SpawnedTasksComplete ==
  \A id \in Ids : (id < nextId) ~> (handle[id].status = 1 \/ shutdown \/ AllWorkersBlocked)
=============================================================================
