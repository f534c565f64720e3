--------------------------- MODULE ThreadPoolProofs ---------------------------
(***************************************************************************)
(* ThreadPool's safety invariants, for every number of workers, callers    *)
(* and slots.  PoolInv is inductive; each action is a lemma.  Then those   *)
(* of AsyncTask, whose handles are written without a lock by whoever has   *)
(* an answer of the pool.                                                  *)
(***************************************************************************)
EXTENDS AsyncTask, CommonLemmas

USE ThreadsAssumption, SizesAssumption, NullAssumption

(* What a step leaves alone when it touches neither the ring nor a         *)
(* worker's copy of its task: all that is said of slots and running tasks. *)
LEMMA Frame ==
  ASSUME PoolInv, UNCHANGED <<tasks, head, count, nextId, held>>,
         \A w \in Workers : Runs(w)' = Runs(w)
  PROVE  /\ RingInv' /\ RunOnce' /\ SlotsInv'
         /\ QueuedIds' = QueuedIds /\ RunningIds' = RunningIds
         /\ \A id : Overwritten(id)' = Overwritten(id)
  <1>1. RunningIds' = RunningIds BY DEF RunningIds
  <1>2. QueuedIds' = QueuedIds /\ Oldest' = Oldest BY DEF QueuedIds, Oldest
  <1>3. \A id : Overwritten(id)' = Overwritten(id) BY DEF Overwritten
  <1>5. RingInv' BY <1>2, <1>3 DEF PoolInv, RingInv
  <1>6. RunOnce' BY <1>2 DEF PoolInv, RunOnce
  <1>7. SlotsInv' BY <1>1, <1>2, <1>3 DEF PoolInv, SlotsInv
  <1> QED BY <1>1, <1>2, <1>3, <1>5, <1>6, <1>7

(* An empty pool: no slot is used, nobody runs or waits.                   *)
LEMMA InitPoolInv == Init => PoolInv
  <1> SUFFICES ASSUME Init PROVE PoolInv OBVIOUS
  <1>1. EmptySlot \in PoolTask BY DEF EmptySlot, PoolTask, Ids
  <1>2. TypeOK
    <2>1. tasks \in [Slots -> PoolTask] /\ held \in [Workers -> PoolTask]
      BY <1>1 DEF Init
    <2>2. head \in Slots /\ count \in 0 .. MaxTasks /\ nextId \in 0 .. MaxSubmits
      BY DEF Init, Slots
    <2>3. ret \in [Threads -> Calls] BY DEF Init, Calls, Results
    <2>4. pc \in [Threads -> Places] BY DEF Init, Places
    <2>5. asleep \in [CondVars -> SUBSET Threads] BY DEF Init
    <2>6. /\ shutdown \in BOOLEAN /\ mu \in Workers \cup {Null}
          /\ arg \in [Threads -> Ids \cup {Null}]
      BY DEF Init
    <2> QED BY <2>1, <2>2, <2>3, <2>4, <2>5, <2>6 DEF TypeOK
  <1>3. RingInv BY DEF Init, RingInv, Oldest, QueuedIds, Overwritten
  <1>4. \A w \in Workers : ~Runs(w) BY DEF Init, Runs, Threads
  <1>5. RunOnce /\ SlotsInv BY <1>4 DEF Init, RunOnce, SlotsInv, Slots
  <1>6. CallsInv /\ WaitAnswersItsTask /\ SleepersAreOwed
    BY DEF Init, CallsInv, WaitAnswersItsTask, SleepersAreOwed, Threads, CondVars
  <1> QED BY <1>2, <1>3, <1>5, <1>6 DEF PoolInv

(* A worker goes to sleep on cv, where nothing is owed.                    *)
LEMMA WorkerSleepInv == ASSUME PoolInv, NEW w \in Workers, WorkerSleep(w) PROVE PoolInv'
  <1> USE DEF WorkerSleep, pool
  <1>1. TypeOK' BY DEF PoolInv, TypeOK, Sleep, CondVars, Threads
  <1>2. RingInv' /\ RunOnce' /\ SlotsInv' /\ QueuedIds' = QueuedIds /\ RunningIds' = RunningIds
        /\ \A id : Overwritten(id)' = Overwritten(id)
    BY Frame DEF Runs
  <1>3. asleep'["done_cv"] = asleep["done_cv"]
    BY DEF PoolInv, TypeOK, Sleep, CondVars
  <1>4. CallsInv' BY <1>3 DEF PoolInv, CallsInv
  <1>5. WaitAnswersItsTask' BY <1>2 DEF PoolInv, WaitAnswersItsTask
  <1>6. SleepersAreOwed' BY <1>2, <1>3 DEF PoolInv, SleepersAreOwed
  <1> QED BY <1>1, <1>2, <1>4, <1>5, <1>6 DEF PoolInv

(* A worker leaves its loop.                                               *)
LEMMA WorkerExitInv == ASSUME PoolInv, NEW w \in Workers, WorkerExit(w) PROVE PoolInv'
  <1> USE DEF WorkerExit, pool
  <1>1. TypeOK' BY DEF PoolInv, TypeOK, Places
  <1>2. RingInv' /\ RunOnce' /\ SlotsInv' /\ QueuedIds' = QueuedIds /\ RunningIds' = RunningIds
        /\ \A id : Overwritten(id)' = Overwritten(id)
    <2>1. \A v \in Workers : Runs(v)' = Runs(v) BY DEF Runs, PoolInv, TypeOK, Threads
    <2> QED BY <2>1, Frame
  <1>4. CallsInv' BY DEF PoolInv, TypeOK, CallsInv, Threads, CondVars
  <1>5. WaitAnswersItsTask' BY <1>2 DEF PoolInv, WaitAnswersItsTask
  <1>6. SleepersAreOwed' BY <1>2 DEF PoolInv, SleepersAreOwed
  <1> QED BY <1>1, <1>2, <1>4, <1>5, <1>6 DEF PoolInv

-----------------------------------------------------------------------------
(* A worker takes the task at the head of the ring, which is the oldest    *)
(* one queued.                                                             *)
LEMMA TakeMoves ==
  ASSUME PoolInv, NEW w \in Workers, WorkerTake(w)
  PROVE  /\ Oldest \in 0 .. nextId - 1 /\ nextId' = nextId
         /\ Oldest' = Oldest + 1 /\ QueuedIds' = QueuedIds \ {Oldest}
         /\ RunningIds' = RunningIds \cup {Oldest}
  <1>0. /\ TypeOK /\ RingInv /\ count \in 1 .. MaxTasks /\ nextId \in Nat
        /\ Oldest \in 0 .. nextId - 1 /\ ~Runs(w) /\ ~Overwritten(Oldest)
    BY DEF PoolInv, TypeOK, RingInv, Oldest, WorkerTake, Runs, Overwritten
  <1>1. head \in Slots /\ tasks[head].id = Oldest
    BY <1>0 DEF RingInv, QueuedIds, TypeOK
  <1>2. /\ count' = count - 1 /\ nextId' = nextId /\ held' = [held EXCEPT ![w] = tasks[head]]
        /\ pc' = [pc EXCEPT ![w] = "run"]
    BY DEF WorkerTake
  <1>3. Oldest' = Oldest + 1 /\ QueuedIds' = QueuedIds \ {Oldest}
    BY <1>0, <1>2 DEF Oldest, QueuedIds
  <1>4. \A v \in Workers : /\ v # w => (Runs(v)' = Runs(v) /\ held'[v] = held[v])
                           /\ v = w => (Runs(v)' /\ held'[v] = tasks[head])
    BY <1>0, <1>2 DEF Runs, TypeOK, Threads
  <1>5. RunningIds' = RunningIds \cup {Oldest}
    BY <1>0, <1>1, <1>4 DEF RunningIds
  <1> QED BY <1>0, <1>2, <1>3, <1>5

(* ... and keeps the invariant.                                            *)
LEMMA WorkerTakeInv == ASSUME PoolInv, NEW w \in Workers, WorkerTake(w) PROVE PoolInv'
  <1> DEFINE id == Oldest
  <1>0. /\ TypeOK /\ RingInv /\ RunOnce /\ SlotsInv /\ CallsInv
        /\ WaitAnswersItsTask /\ SleepersAreOwed
        /\ count \in 1 .. MaxTasks /\ nextId \in Nat /\ MaxTasks \in Nat \ {0}
        /\ id \in 0 .. nextId - 1 /\ ~Runs(w) /\ ~Overwritten(id)
    BY DEF PoolInv, TypeOK, RingInv, Oldest, WorkerTake, Runs, Overwritten
  <1>1. head = id % MaxTasks /\ head \in Slots
        /\ tasks[head] = [func |-> id, result |-> Null, done |-> FALSE, id |-> id]
    BY <1>0 DEF RingInv, QueuedIds, TypeOK
  <1>2. /\ count' = count - 1 /\ nextId' = nextId /\ held' = [held EXCEPT ![w] = tasks[head]]
        /\ tasks' = [tasks EXCEPT ![head].func = Null]
        /\ pc' = [pc EXCEPT ![w] = "run"] /\ arg' = arg /\ ret' = ret
        /\ head' = (head + 1) % MaxTasks /\ shutdown' = shutdown /\ mu' = Null
    BY DEF WorkerTake, NextHead
  <1>3. Oldest' = id + 1 /\ QueuedIds' = QueuedIds \ {id}
    BY TakeMoves
  <1>4. asleep' \in [CondVars -> SUBSET Threads] /\ asleep'["done_cv"] = asleep["done_cv"]
    BY <1>0 DEF WorkerTake, WakeSubmitter, Signal, CondVars, TypeOK
  <1>5. \A i \in Slots : /\ tasks'[i].id = tasks[i].id
                         /\ tasks'[i].done = tasks[i].done
                         /\ tasks'[i].result = tasks[i].result
                         /\ i # head => tasks'[i] = tasks[i]
    BY <1>0, <1>1, <1>2 DEF TypeOK, PoolTask
  <1>6. \A v \in Workers : /\ v # w => (Runs(v)' = Runs(v) /\ held'[v] = held[v])
                           /\ v = w => (Runs(v)' /\ held'[v] = tasks[head])
    BY <1>0, <1>2 DEF Runs, TypeOK, Threads
  <1>7. RunningIds' = RunningIds \cup {id} BY TakeMoves
  <1>8. TypeOK'
    <2>1. tasks' \in [Slots -> PoolTask] BY <1>0, <1>1, <1>2 DEF TypeOK, PoolTask
    <2>2. held' \in [Workers -> PoolTask] BY <1>0, <1>1, <1>2 DEF TypeOK
    <2>3. head' \in Slots BY <1>0, <1>1, <1>2, ModRange DEF Slots
    <2>4. pc' \in [Threads -> Places] BY <1>0, <1>2 DEF TypeOK, Places
    <2> QED BY <1>0, <1>2, <1>4, <2>1, <2>2, <2>3, <2>4 DEF TypeOK
  <1>9. RingInv'
    <2>1. head' = Oldest' % MaxTasks BY <1>0, <1>1, <1>2, <1>3, ModAdd
    <2>2. ASSUME NEW k \in 0 .. nextId - 1, ~Overwritten(k)
          PROVE  tasks'[k % MaxTasks].id = k
      <3>0. k \in Int /\ MaxTasks \in Nat \ {0} BY <1>0
      <3>1. k % MaxTasks \in Slots BY <3>0, ModRange DEF Slots
      <3> QED BY <1>0, <1>5, <2>2, <3>1 DEF RingInv
    <2>3. ASSUME NEW k \in QueuedIds, k # id
          PROVE  tasks'[k % MaxTasks] = tasks[k % MaxTasks]
      <3>0. k \in Int /\ MaxTasks \in Nat \ {0} BY <1>0 DEF QueuedIds
      <3>1. k \in Int /\ k % MaxTasks \in Slots BY <3>0, ModRange DEF Slots
      <3>2. k % MaxTasks # head
        <4>1. id < k /\ k < id + MaxTasks BY <1>0, <2>3 DEF QueuedIds, Oldest
        <4>2. id \in Int /\ ~(id + MaxTasks <= k) BY <1>0, <3>1, <4>1
        <4> HIDE DEF id
        <4>3. id % MaxTasks = k % MaxTasks => id + MaxTasks <= k
          BY <3>1, <4>1, <4>2, ModDistinct
        <4> QED BY <1>1, <4>2, <4>3
      <3> QED BY <1>5, <3>1, <3>2
    <2> QED BY <1>0, <1>2, <1>3, <2>1, <2>2, <2>3 DEF RingInv, Overwritten
  <1>10. RunOnce'
    <2>1. held'[w].id = id /\ held'[w].func = id BY <1>1, <1>6
    <2>2. ASSUME NEW v \in Workers, Runs(v)', v # w
          PROVE  /\ Runs(v) /\ held'[v] = held[v] /\ held[v].id < id
                 /\ held[v].func = held[v].id
      BY <1>0, <1>6, <2>2 DEF RunOnce
    <2>3. ASSUME NEW v \in Workers, Runs(v)'
          PROVE  held'[v].id < Oldest' /\ held'[v].func = held'[v].id
      <3>1. CASE v = w BY <1>0, <1>3, <2>1, <3>1
      <3>2. CASE v # w BY <1>0, <1>3, <2>2, <2>3, <3>2 DEF TypeOK, PoolTask, Ids
      <3> QED BY <3>1, <3>2
    <2>4. ASSUME NEW v \in Workers, Runs(v)', NEW u \in Workers \ {v}, Runs(u)'
          PROVE  held'[u].id # held'[v].id
      <3>1. CASE v = w BY <1>0, <2>1, <2>2, <2>4, <3>1
      <3>2. CASE u = w BY <1>0, <2>1, <2>2, <2>4, <3>2
      <3>3. CASE v # w /\ u # w BY <1>0, <2>2, <2>4, <3>3 DEF RunOnce
      <3> QED BY <3>1, <3>2, <3>3
    <2> QED BY <2>3, <2>4 DEF RunOnce
  <1>11. SlotsInv'
    <2>1. ASSUME NEW i \in Slots, i >= nextId PROVE tasks'[i] = EmptySlot
      <3>1. tasks[i] = EmptySlot BY <1>0, <2>1 DEF SlotsInv
      <3>2. CASE i = head BY <1>0, <1>1, <2>1, <3>1, <3>2 DEF EmptySlot, Slots
      <3>3. CASE i # head BY <1>5, <3>1, <3>3
      <3> QED BY <3>2, <3>3
    <2>2. ASSUME NEW i \in Slots, i < nextId
          PROVE  /\ tasks'[i].id % MaxTasks = i
                 /\ tasks'[i].id < nextId /\ ~Overwritten(tasks'[i].id)
      BY <1>0, <1>5, <2>2 DEF SlotsInv
    <2>3. ASSUME NEW i \in Slots, i < nextId, tasks'[i].done
          PROVE  /\ tasks'[i].result = tasks'[i].id
                 /\ tasks'[i].id < Oldest'
                 /\ tasks'[i].id \notin RunningIds'
      <3>1. /\ tasks[i].done /\ tasks[i].result = tasks[i].id
            /\ tasks[i].id < id /\ tasks[i].id \notin RunningIds
        BY <1>0, <1>5, <2>3 DEF SlotsInv
      <3>2. tasks[i].id \in Int /\ id \in Int BY <1>0 DEF TypeOK, PoolTask, Ids
      <3> HIDE DEF id
      <3> QED BY <1>3, <1>5, <1>7, <3>1, <3>2
    <2>4. ASSUME NEW i \in Slots, i < nextId, ~tasks'[i].done
          PROVE  tasks'[i].id \in QueuedIds' \cup RunningIds'
      BY <1>0, <1>3, <1>5, <1>7, <2>4 DEF SlotsInv
    <2> QED BY <1>2, <2>1, <2>2, <2>3, <2>4 DEF SlotsInv, Overwritten
  <1>12. CallsInv' BY <1>0, <1>2, <1>4 DEF CallsInv, TypeOK, Runs, Threads
  <1>13. WaitAnswersItsTask' BY <1>0, <1>2 DEF WaitAnswersItsTask, Overwritten
  <1>14. SleepersAreOwed' BY <1>0, <1>2, <1>3, <1>4, <1>7 DEF SleepersAreOwed
  <1> QED BY <1>8, <1>9, <1>10, <1>11, <1>12, <1>13, <1>14 DEF PoolInv

-----------------------------------------------------------------------------
(* A worker ends its task, which was in its hands only.                    *)
LEMMA FinishMoves ==
  ASSUME PoolInv, NEW w \in Workers, WorkerFinish(w)
  PROVE  /\ Oldest' = Oldest /\ QueuedIds' = QueuedIds
         /\ held[w].id \in RunningIds /\ held[w].id \in 0 .. Oldest - 1
         /\ RunningIds' = RunningIds \ {held[w].id}
  <1>0. TypeOK /\ RunOnce /\ Runs(w) /\ held[w].id \in Nat /\ Oldest \in Int
    BY DEF PoolInv, TypeOK, Oldest, WorkerFinish, Runs, PoolTask, Ids
  <1>1. /\ count' = count /\ nextId' = nextId /\ held' = [held EXCEPT ![w] = EmptySlot]
        /\ pc' = [pc EXCEPT ![w] = "loop"]
    BY DEF WorkerFinish
  <1>2. Oldest' = Oldest /\ QueuedIds' = QueuedIds BY <1>1 DEF Oldest, QueuedIds
  <1>3. \A v \in Workers : /\ v # w => (Runs(v)' = Runs(v) /\ held'[v] = held[v])
                           /\ ~Runs(w)'
    BY <1>0, <1>1 DEF Runs, TypeOK, Threads
  <1>4. RunningIds' = RunningIds \ {held[w].id}
    BY <1>0, <1>3 DEF RunningIds, RunOnce
  <1>5. held[w].id \in RunningIds /\ held[w].id < Oldest BY <1>0 DEF RunningIds, RunOnce
  <1> QED BY <1>0, <1>2, <1>4, <1>5

(* It leaves the task's result in the slot, if the slot is still that      *)
(* task's.                                                                 *)
LEMMA WorkerFinishInv == ASSUME PoolInv, NEW w \in Workers, WorkerFinish(w) PROVE PoolInv'
  <1> DEFINE id == held[w].id
  <1>0. /\ TypeOK /\ RingInv /\ RunOnce /\ SlotsInv /\ CallsInv
        /\ WaitAnswersItsTask /\ SleepersAreOwed
        /\ count \in 0 .. MaxTasks /\ nextId \in Nat /\ MaxTasks \in Nat \ {0}
        /\ Runs(w) /\ id \in Nat /\ id \in Ids /\ Oldest \in Int /\ Oldest <= nextId
    BY DEF PoolInv, TypeOK, RingInv, Oldest, WorkerFinish, Runs, PoolTask, Ids
  <1>1. id < Oldest /\ held[w].func = id BY <1>0 DEF RunOnce
  <1>2. /\ count' = count /\ nextId' = nextId /\ held' = [held EXCEPT ![w] = EmptySlot]
        /\ pc' = [pc EXCEPT ![w] = "loop"] /\ arg' = arg /\ ret' = ret
        /\ head' = head /\ shutdown' = shutdown /\ mu' = w
        /\ asleep' = [asleep EXCEPT !["done_cv"] = {}]
        /\ Store(held[w])
    BY DEF WorkerFinish, WakeWaiters, Broadcast
  <1>3. /\ Oldest' = Oldest /\ QueuedIds' = QueuedIds
        /\ \A k : Overwritten(k)' = Overwritten(k)
    BY <1>2 DEF Oldest, QueuedIds, Overwritten
  <1>4. \A v \in Workers : /\ v # w => (Runs(v)' = Runs(v) /\ held'[v] = held[v])
                           /\ ~Runs(w)'
    BY <1>0, <1>2 DEF Runs, TypeOK, Threads
  <1>5. RunningIds' = RunningIds \ {id} BY FinishMoves
  <1>6. \A i \in Slots : /\ tasks'[i].id = tasks[i].id
                         /\ tasks[i].id # id => tasks'[i] = tasks[i]
    <2>1. CASE UNCHANGED tasks BY <2>1
    <2>2. ASSUME NEW j \in Slots, IsFirst(j, id), Finish(j, held[w])
          PROVE  \A i \in Slots : /\ tasks'[i].id = tasks[i].id
                                  /\ tasks[i].id # id => tasks'[i] = tasks[i]
      BY <1>0, <1>1, <2>2 DEF Finish, IsFirst, TypeOK, PoolTask
    <2> QED BY <1>2, <2>1, <2>2 DEF Store
  <1>7. ASSUME NEW i \in Slots, i < nextId, tasks[i].id = id
        PROVE  tasks'[i].done /\ tasks'[i].result = id
    <2>1. PICK j \in Slots : IsFirst(j, id) /\ Finish(j, held[w])
      BY <1>2, <1>7 DEF Store, HasId
    <2>2. j <= i BY <1>7, <2>1 DEF IsFirst, Slots
    <2>3. tasks[j].id % MaxTasks = j /\ tasks[i].id % MaxTasks = i /\ tasks[j].id = id
      BY <1>0, <1>7, <2>1, <2>2 DEF IsFirst, SlotsInv, Slots
    <2>4. j = i BY <1>7, <2>3
    <2> QED BY <1>0, <1>1, <2>1, <2>4 DEF Finish, TypeOK, PoolTask
  <1>8. ASSUME NEW i \in Slots, i >= nextId
        PROVE  tasks'[i] = tasks[i]
    <2>1. CASE id # 0
      BY <1>0, <1>6, <1>8, <2>1 DEF SlotsInv, EmptySlot
    <2>2. CASE id = 0
      <3>1. tasks[0].id = 0 /\ 0 \in Slots /\ 0 < i
        <4>1. ~Overwritten(0) /\ 0 < nextId BY <1>0, <1>1, <1>8, <2>2 DEF Overwritten, Slots
        <4>2. 0 % MaxTasks = 0 BY <1>0
        <4> QED BY <1>0, <1>8, <4>1, <4>2 DEF RingInv, Slots
      <3>2. ~IsFirst(i, 0) BY <3>1 DEF IsFirst
      <3> QED BY <1>0, <1>2, <2>2, <3>2 DEF Store, Finish, TypeOK
    <2> QED BY <2>1, <2>2
  <1>9. TypeOK'
    <2>1. tasks' \in [Slots -> PoolTask]
      <3>1. ASSUME NEW j \in Slots, Finish(j, held[w])
            PROVE  tasks' \in [Slots -> PoolTask]
        <4>1. [tasks[j] EXCEPT !.result = id, !.done = TRUE] \in PoolTask
          <5>1. tasks[j] \in PoolTask BY <1>0 DEF TypeOK
          <5> QED BY <1>0, <5>1 DEF PoolTask
        <4> QED BY <1>0, <1>1, <3>1, <4>1 DEF Finish, TypeOK
      <3> QED BY <1>0, <1>2, <3>1 DEF Store, TypeOK
    <2>2. held' \in [Workers -> PoolTask]
      BY <1>0, <1>2 DEF TypeOK, EmptySlot, PoolTask, Ids
    <2>3. pc' \in [Threads -> Places] BY <1>0, <1>2 DEF TypeOK, Places
    <2>4. asleep' \in [CondVars -> SUBSET Threads] BY <1>0, <1>2 DEF TypeOK
    <2> QED BY <1>0, <1>2, <2>1, <2>2, <2>3, <2>4 DEF TypeOK
  <1>10. RingInv'
    <2>1. ASSUME NEW k \in 0 .. nextId - 1, ~Overwritten(k)
          PROVE  tasks'[k % MaxTasks].id = k
      <3>1. k % MaxTasks \in Slots BY <1>0, ModRange DEF Slots
      <3> QED BY <1>0, <1>6, <2>1, <3>1 DEF RingInv
    <2>2. ASSUME NEW k \in QueuedIds
          PROVE  tasks'[k % MaxTasks] = tasks[k % MaxTasks]
      <3>1. k \in Int /\ k >= Oldest /\ k % MaxTasks \in Slots
        BY <1>0, ModRange DEF Slots, QueuedIds
      <3>2. tasks[k % MaxTasks] = [func |-> k, result |-> Null, done |-> FALSE, id |-> k]
        BY <1>0 DEF RingInv
      <3> QED BY <1>0, <1>1, <1>6, <3>1, <3>2
    <2> QED BY <1>0, <1>2, <1>3, <2>1, <2>2 DEF RingInv
  <1>11. RunOnce' BY <1>0, <1>3, <1>4 DEF RunOnce
  <1>12. SlotsInv'
    <2>1. ASSUME NEW i \in Slots, i < nextId
          PROVE  /\ tasks'[i].id % MaxTasks = i
                 /\ tasks'[i].id < nextId /\ ~Overwritten(tasks'[i].id)
      BY <1>0, <1>6, <2>1 DEF SlotsInv
    <2>2. ASSUME NEW i \in Slots, i < nextId
          PROVE  /\ tasks'[i].done => /\ tasks'[i].result = tasks'[i].id
                                      /\ tasks'[i].id < Oldest
                                      /\ tasks'[i].id \notin RunningIds'
                 /\ ~tasks'[i].done => tasks'[i].id \in QueuedIds \cup RunningIds'
      <3>1. CASE tasks[i].id = id BY <1>1, <1>5, <1>6, <1>7, <2>2, <3>1
      <3>2. CASE tasks[i].id # id
        <4>1. tasks'[i] = tasks[i] BY <1>6, <3>2
        <4>2. /\ tasks[i].done => /\ tasks[i].result = tasks[i].id
                                  /\ tasks[i].id < Oldest
                                  /\ tasks[i].id \notin RunningIds
              /\ ~tasks[i].done => tasks[i].id \in QueuedIds \cup RunningIds
          BY <1>0, <2>2 DEF SlotsInv
        <4> QED BY <1>5, <3>2, <4>1, <4>2
      <3> QED BY <3>1, <3>2
    <2>3. ASSUME NEW i \in Slots, i >= nextId PROVE tasks'[i] = EmptySlot
      BY <1>0, <1>8, <2>3 DEF SlotsInv
    <2> QED BY <1>2, <1>3, <2>1, <2>2, <2>3 DEF SlotsInv
  <1>13. asleep'["done_cv"] = {} BY <1>0, <1>2 DEF TypeOK, CondVars
  <1>14. CallsInv' BY <1>0, <1>2, <1>13 DEF CallsInv, TypeOK, Threads
  <1>15. WaitAnswersItsTask' BY <1>0, <1>2, <1>3 DEF WaitAnswersItsTask
  <1>16. SleepersAreOwed' BY <1>13 DEF SleepersAreOwed
  <1> QED BY <1>9, <1>10, <1>11, <1>12, <1>14, <1>15, <1>16 DEF PoolInv

-----------------------------------------------------------------------------
(* The calls.                                                              *)
LEMMA SubmitSleepInv == ASSUME PoolInv, NEW t \in Threads, SubmitSleep(t) PROVE PoolInv'
  <1>0. /\ TypeOK /\ CallsInv /\ WaitAnswersItsTask /\ SleepersAreOwed
        /\ pc[t] \in {"run", "submit"} /\ t \notin asleep["done_cv"]
        /\ pc' = [pc EXCEPT ![t] = "submit"] /\ arg' = arg /\ ret' = ret
        /\ tasks' = tasks /\ head' = head /\ count' = count /\ nextId' = nextId
        /\ shutdown' = shutdown /\ mu' = mu /\ held' = held
    BY DEF PoolInv, SubmitSleep, Submits, MayCall, Retries, pool, CallsInv
  <1>1. asleep' \in [CondVars -> SUBSET Threads] /\ asleep'["done_cv"] = asleep["done_cv"]
    BY <1>0 DEF SubmitSleep, Sleep, TypeOK, CondVars
  <1>2. TypeOK' BY <1>0, <1>1 DEF TypeOK, Places
  <1>3. \A v \in Workers : Runs(v)' = Runs(v) BY <1>0 DEF Runs, TypeOK, Threads
  <1>4. /\ RingInv' /\ RunOnce' /\ SlotsInv'
        /\ QueuedIds' = QueuedIds /\ RunningIds' = RunningIds
        /\ \A id : Overwritten(id)' = Overwritten(id)
    BY <1>0, <1>3, Frame
  <1>5. CallsInv' BY <1>0, <1>1 DEF CallsInv, TypeOK
  <1>6. WaitAnswersItsTask' BY <1>0, <1>4 DEF WaitAnswersItsTask
  <1>7. SleepersAreOwed' BY <1>0, <1>1, <1>4 DEF SleepersAreOwed
  <1> QED BY <1>2, <1>4, <1>5, <1>6, <1>7 DEF PoolInv

(* A submit is refused, after the shutdown.                                *)
LEMMA SubmitRejectInv == ASSUME PoolInv, NEW t \in Threads, SubmitReject(t) PROVE PoolInv'
  <1>0. /\ TypeOK /\ CallsInv /\ WaitAnswersItsTask /\ SleepersAreOwed
        /\ pc[t] = "submit" /\ t \notin asleep["done_cv"]
        /\ pc' = [pc EXCEPT ![t] = "run"] /\ arg' = arg /\ ret' = ret /\ asleep' = asleep
        /\ tasks' = tasks /\ head' = head /\ count' = count /\ nextId' = nextId
        /\ shutdown' = shutdown /\ mu' = mu /\ held' = held
    BY DEF PoolInv, SubmitReject, Retries, pool, CallsInv
  <1>2. TypeOK' BY <1>0 DEF TypeOK, Places
  <1>3. \A v \in Workers : Runs(v)' = Runs(v) BY <1>0 DEF Runs, TypeOK, Threads
  <1>4. /\ RingInv' /\ RunOnce' /\ SlotsInv'
        /\ QueuedIds' = QueuedIds /\ RunningIds' = RunningIds
        /\ \A id : Overwritten(id)' = Overwritten(id)
    BY <1>0, <1>3, Frame
  <1>5. CallsInv' BY <1>0 DEF CallsInv, TypeOK
  <1>6. WaitAnswersItsTask' BY <1>0, <1>4 DEF WaitAnswersItsTask
  <1>7. SleepersAreOwed' BY <1>0, <1>4 DEF SleepersAreOwed
  <1> QED BY <1>2, <1>4, <1>5, <1>6, <1>7 DEF PoolInv

(* The new task's slot is nextId % MaxTasks: the one that the task         *)
(* MaxTasks submissions earlier was in.                                    *)
LEMMA SubmitPutInv == ASSUME PoolInv, NEW t \in Threads, SubmitPut(t) PROVE PoolInv'
  <1> DEFINE s == nextId % MaxTasks
  <1>0. /\ TypeOK /\ RingInv /\ RunOnce /\ SlotsInv /\ CallsInv
        /\ WaitAnswersItsTask /\ SleepersAreOwed
        /\ count \in 0 .. MaxTasks - 1 /\ nextId \in Nat /\ nextId \in Ids
        /\ MaxTasks \in Nat \ {0} /\ Oldest \in Nat /\ Oldest <= nextId
        /\ pc[t] \in {"run", "submit"} /\ t \notin asleep["done_cv"]
        /\ pc' = [pc EXCEPT ![t] = "run"] /\ arg' = arg /\ ret' = ret
        /\ tasks' = [tasks EXCEPT ![TailSlot] = NewTask]
        /\ head' = head /\ count' = count + 1 /\ nextId' = nextId + 1
        /\ shutdown' = shutdown /\ mu' = mu /\ held' = held
    BY DEF PoolInv, TypeOK, RingInv, Oldest, SubmitPut, Submits, MayCall, Retries,
           pool, CallsInv, Ids
  <1>1. s \in Slots /\ TailSlot = s
    <2>0. nextId \in Int /\ MaxTasks \in Nat \ {0} BY <1>0
    <2>1. s \in Slots BY <2>0, ModRange DEF Slots
    <2>2. head = Oldest % MaxTasks /\ Oldest + count = nextId
      BY <1>0 DEF RingInv, Oldest
    <2>3. MaxTasks \in Nat \ {0} /\ Oldest \in Int /\ count \in Int BY <1>0
    <2>4. ((Oldest % MaxTasks) + count) % MaxTasks = (Oldest + count) % MaxTasks
      <3> DEFINE o == Oldest
      <3>1. o \in Int BY <2>3
      <3> HIDE DEF o
      <3>2. ((o % MaxTasks) + count) % MaxTasks = (o + count) % MaxTasks BY ONLY <2>3, <3>1, ModAdd
      <3> QED BY <3>2 DEF o
    <2> QED BY <2>1, <2>2, <2>4 DEF TailSlot
  <1>2. /\ \A i \in Slots : i # s => tasks'[i] = tasks[i]
        /\ tasks'[s] = [func |-> nextId, result |-> Null, done |-> FALSE, id |-> nextId]
    BY <1>0, <1>1 DEF TypeOK, NewTask
  <1>3. /\ Oldest' = Oldest /\ QueuedIds' = QueuedIds \cup {nextId}
        /\ \A k \in Int : Overwritten(k) => Overwritten(k)'
    BY <1>0 DEF Oldest, QueuedIds, Overwritten
  <1>4. asleep' \in [CondVars -> SUBSET Threads] /\ asleep'["done_cv"] = asleep["done_cv"]
    BY <1>0 DEF SubmitPut, WakeWorker, Signal, CondVars, TypeOK
  <1>5. \A v \in Workers : Runs(v)' = Runs(v) BY <1>0 DEF Runs, TypeOK, Threads
  <1>6. RunningIds' = RunningIds BY <1>0, <1>5 DEF RunningIds
  <1>7. TypeOK'
    <2>1. NewTask \in PoolTask BY <1>0 DEF NewTask, PoolTask
    <2>2. tasks' \in [Slots -> PoolTask] BY <1>0, <1>1, <2>1 DEF TypeOK
    <2>3. pc' \in [Threads -> Places] BY <1>0 DEF TypeOK, Places
    <2> QED BY <1>0, <1>4, <2>2, <2>3 DEF TypeOK, Ids
  <1>8. \A k \in Int : k < nextId /\ k % MaxTasks = s => k + MaxTasks <= nextId
    BY <1>0, ModDistinct
  <1>9. RingInv'
    <2>1. count' <= nextId' /\ head' = Oldest' % MaxTasks BY <1>0, <1>3 DEF RingInv
    <2>2. ASSUME NEW k \in 0 .. nextId' - 1, ~Overwritten(k)'
          PROVE  tasks'[k % MaxTasks].id = k
      <3>1. CASE k = nextId BY <1>2, <3>1
      <3>2. CASE k # nextId
        <4>1. k \in 0 .. nextId - 1 /\ k + MaxTasks >= nextId + 1
          BY <1>0, <2>2, <3>2 DEF Overwritten
        <4>2. k % MaxTasks # s
          <5>1. k \in Int /\ k < nextId /\ ~(k + MaxTasks <= nextId) BY <1>0, <4>1
          <5> HIDE DEF s
          <5> QED BY <1>8, <5>1, Zenon
        <4>3. k % MaxTasks \in Slots /\ ~Overwritten(k) BY <1>0, <4>1, ModRange DEF Slots, Overwritten
        <4> QED BY <1>0, <1>2, <4>1, <4>2, <4>3 DEF RingInv
      <3> QED BY <3>1, <3>2
    <2>3. ASSUME NEW k \in QueuedIds'
          PROVE  tasks'[k % MaxTasks] = [func |-> k, result |-> Null, done |-> FALSE, id |-> k]
      <3>1. CASE k = nextId BY <1>2, <3>1
      <3>2. CASE k # nextId
        <4>1. k \in QueuedIds /\ k \in Int /\ k < nextId /\ k + MaxTasks >= nextId + 1
          BY <1>0, <1>3, <2>3, <3>2 DEF QueuedIds, Oldest
        <4>2. k % MaxTasks # s
          <5>1. k \in Int /\ k < nextId /\ ~(k + MaxTasks <= nextId) BY <1>0, <4>1
          <5> HIDE DEF s
          <5> QED BY <1>8, <5>1, Zenon
        <4>3. k % MaxTasks \in Slots BY <1>0, <4>1, ModRange DEF Slots
        <4> QED BY <1>0, <1>2, <4>1, <4>2, <4>3 DEF RingInv
      <3> QED BY <3>1, <3>2
    <2> QED BY <2>1, <2>2, <2>3 DEF RingInv
  <1>10. RunOnce' BY <1>0, <1>3, <1>5 DEF RunOnce
  <1>11. SlotsInv'
    <2>1. ASSUME NEW i \in Slots, i >= nextId + 1
          PROVE  tasks'[i] = EmptySlot
      <3>1. i # s BY <1>0, <2>1 DEF Slots
      <3> QED BY <1>0, <1>2, <2>1, <3>1 DEF SlotsInv, Slots
    <2>2. ASSUME NEW i \in Slots, i < nextId + 1, i # s
          PROVE  i < nextId
      BY <1>0, <2>2 DEF Slots
    <2>3. ASSUME NEW i \in Slots, i < nextId + 1
          PROVE  /\ tasks'[i].id % MaxTasks = i
                 /\ tasks'[i].id < nextId + 1 /\ ~(tasks'[i].id + MaxTasks < nextId + 1)
      <3>1. CASE i = s BY <1>0, <1>2, <3>1
      <3>2. CASE i # s
        <4> DEFINE k == tasks[i].id
        <4>1. k % MaxTasks = i /\ k < nextId /\ ~Overwritten(k) /\ k \in Int
          BY <1>0, <2>2, <2>3, <3>2 DEF SlotsInv, TypeOK, PoolTask, Ids
        <4>2. k + MaxTasks = nextId => (k + MaxTasks) % MaxTasks = s OBVIOUS
        <4>2a. (k + MaxTasks) % MaxTasks = k % MaxTasks
          <5> HIDE DEF k
          <5> QED BY <4>1, ModTurn
        <4>3. k + MaxTasks # nextId BY <3>2, <4>1, <4>2, <4>2a
        <4>4. k + MaxTasks > nextId BY <1>0, <4>1, <4>3 DEF Overwritten
        <4> QED BY <1>0, <1>2, <3>2, <4>1, <4>4
      <3> QED BY <3>1, <3>2
    <2>4. ASSUME NEW i \in Slots, i < nextId + 1
          PROVE  /\ tasks'[i].done => /\ tasks'[i].result = tasks'[i].id
                                      /\ tasks'[i].id < Oldest
                                      /\ tasks'[i].id \notin RunningIds
                 /\ ~tasks'[i].done => tasks'[i].id \in QueuedIds' \cup RunningIds
      <3>1. CASE i = s BY <1>2, <1>3, <3>1
      <3>2. CASE i # s
        <4>1. /\ tasks[i].done => /\ tasks[i].result = tasks[i].id
                                  /\ tasks[i].id < Oldest
                                  /\ tasks[i].id \notin RunningIds
              /\ ~tasks[i].done => tasks[i].id \in QueuedIds \cup RunningIds
          BY <1>0, <2>2, <2>4, <3>2 DEF SlotsInv
        <4> QED BY <1>2, <1>3, <3>2, <4>1
      <3> QED BY <3>1, <3>2
    <2>5. \A k : Overwritten(k)' <=> k + MaxTasks < nextId + 1 BY <1>0 DEF Overwritten
    <2> QED BY <1>0, <1>3, <1>6, <2>1, <2>3, <2>4, <2>5 DEF SlotsInv
  <1>12. CallsInv' BY <1>0, <1>4 DEF CallsInv, TypeOK
  <1>13. WaitAnswersItsTask'
    <2>1. ASSUME NEW u \in Threads, ret[u].op # "none"
          PROVE  Overwritten(ret[u].id) => Overwritten(ret[u].id)'
      BY <1>0, <1>3, <2>1 DEF CallsInv, Overwritten
    <2> QED BY <1>0, <2>1 DEF WaitAnswersItsTask
  <1>14. SleepersAreOwed' BY <1>0, <1>3, <1>4, <1>6 DEF SleepersAreOwed
  <1> QED BY <1>7, <1>9, <1>10, <1>11, <1>12, <1>13, <1>14 DEF PoolInv

(* An answer to a call: what it says must be true of the task asked for.   *)
LEMMA ReturnedInv ==
  ASSUME PoolInv, NEW t \in Threads, NEW id \in 0 .. nextId - 1, NEW val \in Results,
         NEW op \in {"wait", "try_wait"},
         op = "wait" => val = id \/ (val = Null /\ Overwritten(id)),
         op = "try_wait" => val \in {id, Null} \/ (val = Gone /\ Overwritten(id)),
         pc[t] \in {"run", "wait"}, t \notin asleep["done_cv"],
         Returned(t, op, id, val)
  PROVE  PoolInv'
  <1>0. /\ TypeOK /\ CallsInv /\ WaitAnswersItsTask /\ SleepersAreOwed
        /\ nextId \in 0 .. MaxSubmits
        /\ pc' = [pc EXCEPT ![t] = "run"] /\ arg' = [arg EXCEPT ![t] = Null]
        /\ ret' = [ret EXCEPT ![t] = [id |-> id, val |-> val, op |-> op]]
        /\ asleep' = asleep
        /\ tasks' = tasks /\ head' = head /\ count' = count /\ nextId' = nextId
        /\ shutdown' = shutdown /\ mu' = mu /\ held' = held
    BY DEF PoolInv, Returned, pool, TypeOK
  <1>1. id \in Ids BY <1>0 DEF Ids
  <1>2. TypeOK'
    <2>1. [id |-> id, val |-> val, op |-> op] \in Calls BY <1>1 DEF Calls
    <2>2. ret' \in [Threads -> Calls] BY <1>0, <2>1 DEF TypeOK
    <2>3. pc' \in [Threads -> Places] BY <1>0 DEF TypeOK, Places
    <2>4. arg' \in [Threads -> Ids \cup {Null}] BY <1>0 DEF TypeOK
    <2> QED BY <1>0, <2>2, <2>3, <2>4 DEF TypeOK
  <1>3. \A v \in Workers : Runs(v)' = Runs(v) BY <1>0 DEF Runs, TypeOK, Threads
  <1>4. /\ RingInv' /\ RunOnce' /\ SlotsInv'
        /\ QueuedIds' = QueuedIds /\ RunningIds' = RunningIds
        /\ \A k : Overwritten(k)' = Overwritten(k)
    BY <1>0, <1>3, Frame
  <1>5. \A u \in Threads : /\ u # t => ret'[u] = ret[u] /\ arg'[u] = arg[u] /\ pc'[u] = pc[u]
                           /\ u = t => /\ ret'[u] = [id |-> id, val |-> val, op |-> op]
                                       /\ pc'[u] = "run"
    BY <1>0 DEF TypeOK
  <1>6. CallsInv' BY <1>0, <1>5 DEF CallsInv, TypeOK, CondVars
  <1>7. WaitAnswersItsTask'
    <2>1. ASSUME NEW u \in Threads
          PROVE  /\ ret'[u].op = "wait" => \/ ret'[u].val = ret'[u].id
                                           \/ ret'[u].val = Null /\ Overwritten(ret'[u].id)
                 /\ ret'[u].op = "try_wait" => \/ ret'[u].val \in {ret'[u].id, Null}
                                               \/ ret'[u].val = Gone /\ Overwritten(ret'[u].id)
      <3>1. CASE u = t BY <1>5, <3>1
      <3>2. CASE u # t BY <1>0, <1>5, <3>2 DEF WaitAnswersItsTask
      <3> QED BY <3>1, <3>2
    <2> QED BY <1>4, <2>1 DEF WaitAnswersItsTask
  <1>8. SleepersAreOwed' BY <1>0, <1>4, <1>5 DEF SleepersAreOwed, TypeOK, CondVars
  <1> QED BY <1>2, <1>4, <1>6, <1>7, <1>8 DEF PoolInv

(* Who calls, and for which task.                                          *)
LEMMA WaitsFacts ==
  ASSUME PoolInv, NEW t \in Threads, NEW id \in Ids,
         Waits(t, id) \/ (MayCall(t) /\ MayAskFor(t, id))
  PROVE  /\ id \in 0 .. nextId - 1 /\ pc[t] \in {"run", "wait"}
         /\ t \notin asleep["done_cv"]
  BY DEF PoolInv, TypeOK, CallsInv, Waits, MayCall, MayAskFor, Retries, Awake, CondVars, Ids

(* What the slots say about a task that was submitted.                     *)
LEMMA SlotFacts ==
  ASSUME PoolInv, NEW id \in 0 .. nextId - 1
  PROVE  /\ \A i \in DoneSlots(id) : tasks[i].result = id
         /\ ~HasId(id) => Overwritten(id)
         /\ HasId(id) /\ DoneSlots(id) = {} => id \in QueuedIds \cup RunningIds
  <1>0. /\ TypeOK /\ RingInv /\ SlotsInv /\ id \in Int /\ nextId \in Int
        /\ MaxTasks \in Nat \ {0}
    BY DEF PoolInv, TypeOK
  <1>1. ASSUME NEW i \in Slots, i >= nextId PROVE ~tasks[i].done /\ tasks[i].id = 0
    BY <1>0, <1>1 DEF SlotsInv, EmptySlot
  <1>2. \A i \in DoneSlots(id) : tasks[i].result = id
    BY <1>0, <1>1 DEF DoneSlots, SlotsInv, Slots
  <1>3. ~HasId(id) => Overwritten(id)
    <2>1. id % MaxTasks \in Slots BY <1>0, ModRange DEF Slots
    <2> QED BY <1>0, <2>1 DEF RingInv, HasId
  <1>4. ASSUME HasId(id), DoneSlots(id) = {} PROVE id \in QueuedIds \cup RunningIds
    <2>1. PICK i \in Slots : tasks[i].id = id BY <1>4 DEF HasId
    <2>2. \A j \in Slots : tasks[j].id = id => ~tasks[j].done BY <1>4 DEF DoneSlots
    <2>3. CASE i < nextId BY <1>0, <2>1, <2>2, <2>3 DEF SlotsInv
    <2>4. CASE i >= nextId
      <3>1. id = 0 /\ 0 < nextId /\ 0 \in Slots /\ ~Overwritten(0)
        BY <1>0, <1>1, <2>1, <2>4 DEF Slots, Overwritten
      <3>2. 0 % MaxTasks = 0 BY <1>0
      <3>3. tasks[0].id = 0 BY <1>0, <3>1, <3>2 DEF RingInv
      <3> QED BY <1>0, <2>2, <3>1, <3>3 DEF SlotsInv
    <2> QED BY <1>0, <2>3, <2>4 DEF Slots
  <1> QED BY <1>2, <1>3, <1>4

(* A wait answers from its task's slot.                                    *)
LEMMA WaitReturnInv ==
  ASSUME PoolInv, NEW t \in Threads, NEW id \in Ids, WaitReturn(t, id)
  PROVE  PoolInv'
  <1>1. Waits(t, id) BY DEF WaitReturn
  <1>2. id \in 0 .. nextId - 1 /\ pc[t] \in {"run", "wait"} /\ t \notin asleep["done_cv"]
    BY <1>1, WaitsFacts
  <1>3. PICK i \in DoneSlots(id) : Returned(t, "wait", id, tasks[i].result)
    BY DEF WaitReturn
  <1>4. tasks[i].result = id BY <1>2, <1>3, SlotFacts
  <1>5. id \in Results BY DEF Results
  <1> QED BY <1>2, <1>3, <1>4, <1>5, ReturnedInv

(* A wait finds no slot with the id: the task was overtaken.               *)
LEMMA WaitMissingInv ==
  ASSUME PoolInv, NEW t \in Threads, NEW id \in Ids, WaitMissing(t, id)
  PROVE  PoolInv'
  <1>1. Waits(t, id) /\ Returned(t, "wait", id, Null) /\ ~HasId(id) BY DEF WaitMissing
  <1>2. id \in 0 .. nextId - 1 /\ pc[t] \in {"run", "wait"} /\ t \notin asleep["done_cv"]
    BY <1>1, WaitsFacts
  <1>3. Overwritten(id) BY <1>1, <1>2, SlotFacts
  <1>4. Null \in Results BY DEF Results
  <1> QED BY <1>1, <1>2, <1>3, <1>4, ReturnedInv

(* An enquiry answers by the slot it finds, or that there is none.         *)
LEMMA TryWaitInv ==
  ASSUME PoolInv, NEW t \in Threads, NEW id \in Ids, TryWait(t, id)
  PROVE  PoolInv'
  <1>1. MayCall(t) /\ MayAskFor(t, id) BY DEF TryWait
  <1>2. id \in 0 .. nextId - 1 /\ pc[t] \in {"run", "wait"} /\ t \notin asleep["done_cv"]
    BY <1>1, WaitsFacts
  <1>3. {id, Null, Gone} \subseteq Results BY DEF Results
  <1>4. CASE ~HasId(id) /\ Returned(t, "try_wait", id, Gone)
    <2>1. Overwritten(id) BY <1>2, <1>4, SlotFacts
    <2> QED BY <1>2, <1>3, <1>4, <2>1, ReturnedInv
  <1>5. ASSUME NEW i \in Slots, IsFirst(i, id),
               Returned(t, "try_wait", id, IF tasks[i].done THEN tasks[i].result ELSE Null)
        PROVE  PoolInv'
    <2>1. CASE tasks[i].done
      <3>1. i \in DoneSlots(id) BY <1>5, <2>1 DEF DoneSlots, IsFirst
      <3>2. tasks[i].result = id BY <1>2, <3>1, SlotFacts
      <3>3. Returned(t, "try_wait", id, id) BY <1>5, <2>1, <3>2
      <3> QED BY <1>2, <1>3, <3>3, ReturnedInv
    <2>2. CASE ~tasks[i].done
      <3>1. Returned(t, "try_wait", id, Null) BY <1>5, <2>2
      <3> QED BY <1>2, <1>3, <3>1, ReturnedInv
    <2> QED BY <2>1, <2>2
  <1> QED BY <1>4, <1>5 DEF TryWait

(* A wait sleeps for a task that is not done, hence queued or run.         *)
LEMMA WaitSleepInv ==
  ASSUME PoolInv, NEW t \in Threads, NEW id \in Ids, WaitSleep(t, id)
  PROVE  PoolInv'
  <1>1. id \in 0 .. nextId - 1 /\ pc[t] \in {"run", "wait"} BY WaitsFacts DEF WaitSleep
  <1>2. id \in QueuedIds \cup RunningIds BY <1>1, SlotFacts DEF WaitSleep
  <1>3. /\ TypeOK /\ CallsInv /\ WaitAnswersItsTask /\ SleepersAreOwed
        /\ pc' = [pc EXCEPT ![t] = "wait"] /\ arg' = [arg EXCEPT ![t] = id]
        /\ ret' = ret
        /\ tasks' = tasks /\ head' = head /\ count' = count /\ nextId' = nextId
        /\ shutdown' = shutdown /\ mu' = mu /\ held' = held
        /\ asleep' = [asleep EXCEPT !["done_cv"] = @ \cup {t}]
    BY DEF PoolInv, WaitSleep, pool, Sleep
  <1>4. asleep' \in [CondVars -> SUBSET Threads] /\ asleep'["done_cv"] = asleep["done_cv"] \cup {t}
    BY <1>3 DEF TypeOK, CondVars
  <1>5. TypeOK'
    <2>1. pc' \in [Threads -> Places] BY <1>3 DEF TypeOK, Places
    <2>2. arg' \in [Threads -> Ids \cup {Null}] BY <1>3 DEF TypeOK
    <2> QED BY <1>3, <1>4, <2>1, <2>2 DEF TypeOK
  <1>6. \A v \in Workers : Runs(v)' = Runs(v) BY <1>1, <1>3 DEF Runs, TypeOK, Threads
  <1>7. /\ RingInv' /\ RunOnce' /\ SlotsInv'
        /\ QueuedIds' = QueuedIds /\ RunningIds' = RunningIds
        /\ \A k : Overwritten(k)' = Overwritten(k)
    BY <1>3, <1>6, Frame
  <1>8. \A u \in Threads : /\ u # t => arg'[u] = arg[u] /\ pc'[u] = pc[u]
                           /\ u = t => arg'[u] = id /\ pc'[u] = "wait"
    BY <1>3 DEF TypeOK
  <1>9. \A u \in asleep["done_cv"] : u \in Threads BY <1>3 DEF TypeOK, CondVars
  <1>10. CallsInv' BY <1>1, <1>3, <1>4, <1>8, <1>9 DEF CallsInv
  <1>11. WaitAnswersItsTask' BY <1>3, <1>7 DEF WaitAnswersItsTask
  <1>12. SleepersAreOwed' BY <1>2, <1>3, <1>4, <1>7, <1>8, <1>9 DEF SleepersAreOwed
  <1> QED BY <1>5, <1>7, <1>10, <1>11, <1>12 DEF PoolInv

(* The shutdown wakes workers and submitters, and not those on done_cv.    *)
LEMMA ShutdownInv == ASSUME PoolInv, NEW c \in Clients, Shutdown(c) PROVE PoolInv'
  <1>1. /\ TypeOK /\ CallsInv /\ WaitAnswersItsTask /\ SleepersAreOwed
        /\ pc[c] = "run" /\ pc' = [pc EXCEPT ![c] = "join"] /\ arg' = arg /\ ret' = ret
        /\ tasks' = tasks /\ head' = head /\ count' = count /\ nextId' = nextId
        /\ shutdown' = TRUE /\ mu' = mu /\ held' = held
        /\ asleep' = [asleep EXCEPT !["cv"] = {}, !["space_cv"] = {}]
    BY DEF PoolInv, Shutdown, MayCall, WakeAtShutdown
  <1>2. asleep' \in [CondVars -> SUBSET Threads] /\ asleep'["done_cv"] = asleep["done_cv"]
    BY <1>1 DEF TypeOK, CondVars
  <1>3. TypeOK' BY <1>1, <1>2 DEF TypeOK, Places
  <1>4. \A v \in Workers : Runs(v)' = Runs(v) BY <1>1 DEF Runs, TypeOK, Threads
  <1>5. /\ RingInv' /\ RunOnce' /\ SlotsInv'
        /\ QueuedIds' = QueuedIds /\ RunningIds' = RunningIds
        /\ \A id : Overwritten(id)' = Overwritten(id)
    BY <1>1, <1>4, Frame
  <1>6. CallsInv' BY <1>1, <1>2 DEF CallsInv, TypeOK, CondVars, Threads
  <1>7. WaitAnswersItsTask' BY <1>1, <1>5 DEF WaitAnswersItsTask
  <1>8. SleepersAreOwed' BY <1>1, <1>2, <1>5 DEF SleepersAreOwed
  <1> QED BY <1>3, <1>5, <1>6, <1>7, <1>8 DEF PoolInv

(* The shutdown has joined the workers.                                    *)
LEMMA JoinInv == ASSUME PoolInv, NEW c \in Clients, Join(c) PROVE PoolInv'
  <1>1. /\ TypeOK /\ CallsInv /\ WaitAnswersItsTask /\ SleepersAreOwed
        /\ pc[c] = "join" /\ pc' = [pc EXCEPT ![c] = "exited"] /\ arg' = arg /\ ret' = ret
        /\ tasks' = tasks /\ head' = head /\ count' = count /\ nextId' = nextId
        /\ shutdown' = shutdown /\ mu' = mu /\ held' = held /\ asleep' = asleep
    BY DEF PoolInv, Join, pool
  <1>3. TypeOK' BY <1>1 DEF TypeOK, Places
  <1>4. \A v \in Workers : Runs(v)' = Runs(v) BY <1>1 DEF Runs, TypeOK, Threads
  <1>5. /\ RingInv' /\ RunOnce' /\ SlotsInv'
        /\ QueuedIds' = QueuedIds /\ RunningIds' = RunningIds
        /\ \A id : Overwritten(id)' = Overwritten(id)
    BY <1>1, <1>4, Frame
  <1>6. CallsInv' BY <1>1 DEF CallsInv, TypeOK, CondVars, Threads
  <1>7. WaitAnswersItsTask' BY <1>1, <1>5 DEF WaitAnswersItsTask
  <1>8. SleepersAreOwed' BY <1>1, <1>5 DEF SleepersAreOwed
  <1> QED BY <1>3, <1>5, <1>6, <1>7, <1>8 DEF PoolInv

(* A waiter less is owed less.                                             *)
LEMMA SpuriousWakeupInv == ASSUME PoolInv, NEW t \in Threads, SpuriousWakeup(t) PROVE PoolInv'
  <1>1. /\ TypeOK /\ CallsInv /\ WaitAnswersItsTask /\ SleepersAreOwed
        /\ pc' = pc /\ arg' = arg /\ ret' = ret
        /\ tasks' = tasks /\ head' = head /\ count' = count /\ nextId' = nextId
        /\ shutdown' = shutdown /\ mu' = mu /\ held' = held
    BY DEF PoolInv, SpuriousWakeup, pool
  <1>2. /\ asleep' \in [CondVars -> SUBSET Threads]
        /\ asleep'["done_cv"] \subseteq asleep["done_cv"]
    BY <1>1 DEF TypeOK, CondVars, SpuriousWakeup
  <1>3. TypeOK' BY <1>1, <1>2 DEF TypeOK
  <1>5. /\ RingInv' /\ RunOnce' /\ SlotsInv'
        /\ QueuedIds' = QueuedIds /\ RunningIds' = RunningIds
        /\ \A id : Overwritten(id)' = Overwritten(id)
    BY <1>1, Frame DEF Runs
  <1>6. CallsInv' BY <1>1, <1>2 DEF CallsInv
  <1>7. WaitAnswersItsTask' BY <1>1, <1>5 DEF WaitAnswersItsTask
  <1>8. SleepersAreOwed' BY <1>1, <1>2, <1>5 DEF SleepersAreOwed
  <1> QED BY <1>3, <1>5, <1>6, <1>7, <1>8 DEF PoolInv

-----------------------------------------------------------------------------
(* Every step keeps the invariant.                                         *)
LEMMA NextPoolInv == PoolInv /\ [Next]_vars => PoolInv'
  <1> SUFFICES ASSUME PoolInv, [Next]_vars PROVE PoolInv' OBVIOUS
  <1>1. ASSUME NEW w \in Workers, WorkerStep(w) \/ WorkerFinish(w) PROVE PoolInv'
    BY <1>1, WorkerSleepInv, WorkerExitInv, WorkerTakeInv, WorkerFinishInv DEF WorkerStep
  <1>2. ASSUME NEW t \in Threads, SubmitStep(t) PROVE PoolInv'
    BY <1>2, SubmitSleepInv, SubmitRejectInv, SubmitPutInv DEF SubmitStep
  <1>3. ASSUME NEW t \in Threads, NEW id \in Ids, WaitStep(t, id) \/ TryWait(t, id)
        PROVE  PoolInv'
    BY <1>3, WaitReturnInv, WaitMissingInv, WaitSleepInv, TryWaitInv DEF WaitStep
  <1>4. ASSUME NEW c \in Clients, Shutdown(c) \/ Join(c) PROVE PoolInv'
    BY <1>4, ShutdownInv, JoinInv
  <1>5. CASE UNCHANGED vars
    <2>1. UNCHANGED <<tasks, head, count, nextId, held, pc, asleep, arg, ret, shutdown, mu>>
      BY <1>5 DEF vars, pool
    <2>2. /\ RingInv' /\ RunOnce' /\ SlotsInv'
          /\ QueuedIds' = QueuedIds /\ RunningIds' = RunningIds
          /\ \A id : Overwritten(id)' = Overwritten(id)
      BY <2>1, Frame DEF Runs
    <2> QED BY <2>1, <2>2 DEF PoolInv, TypeOK, CallsInv, WaitAnswersItsTask, SleepersAreOwed
  <1> QED BY <1>1, <1>2, <1>3, <1>4, <1>5, SpuriousWakeupInv DEF Next

(* PoolInv holds in every reachable state of every pool.                   *)
THEOREM PoolInvariant == Spec => []PoolInv
  <1> QED BY InitPoolInv, NextPoolInv, PTL DEF Spec

(* Every variable of the pool keeps its type: head stays a slot, count     *)
(* never passes MAX_TASKS.                                                 *)
THEOREM TypeCorrect == Spec => []TypeOK
  <1>1. PoolInv => TypeOK BY DEF PoolInv
  <1> QED BY <1>1, PoolInvariant, PTL

(* The ring holds the last MaxTasks submissions, each in slot id modulo    *)
(* MaxTasks (xt_threadpool_submit, worker_loop).                           *)
THEOREM RingCorrect == Spec => []RingInv
  <1>1. PoolInv => RingInv BY DEF PoolInv
  <1> QED BY <1>1, PoolInvariant, PTL

(* No task is run by two workers (worker_loop).                            *)
THEOREM TasksRunOnce == Spec => []RunOnce
  <1>1. PoolInv => RunOnce BY DEF PoolInv
  <1> QED BY <1>1, PoolInvariant, PTL

(* A wait is never answered with another task's result, and with NULL only *)
(* after the task's slot was reused (xt_threadpool_wait, _try_wait).       *)
THEOREM AnswersCorrect == Spec => []WaitAnswersItsTask
  <1>1. PoolInv => WaitAnswersItsTask BY DEF PoolInv
  <1> QED BY <1>1, PoolInvariant, PTL

(* No wait sleeps on done_cv for a task that has already finished.         *)
THEOREM NoMissedCompletion == Spec => []SleepersAreOwed
  <1>1. PoolInv => SleepersAreOwed BY DEF PoolInv
  <1> QED BY <1>1, PoolInvariant, PTL

-----------------------------------------------------------------------------
(* The pool implements TaskPool: each action is a step of it or none.      *)

(* A step that takes no task in or out of the ring or of a worker's hands, *)
(* and gives no answer, is invisible.                                      *)
LEMMA Invisible ==
  ASSUME PoolInv, UNCHANGED <<count, nextId, held, shutdown, ret>>,
         \A w \in Workers : Runs(w)' = Runs(w)
  PROVE  UNCHANGED Abstract!vars
  <1>1. Oldest' = Oldest BY DEF Oldest
  <1>2. RunningIds' = RunningIds BY DEF RunningIds
  <1>3. Finished' = Finished BY <1>1, <1>2 DEF Finished
  <1> QED BY <1>1, <1>3 DEF Abstract!vars

(* Taking a task starts the oldest one.                                    *)
LEMMA TakeStarts ==
  ASSUME PoolInv, NEW w \in Workers, WorkerTake(w)
  PROVE  Abstract!Start
  <1>1. /\ Oldest \in 0 .. nextId - 1 /\ nextId' = nextId /\ nextId \in Nat
        /\ Oldest' = Oldest + 1 /\ RunningIds' = RunningIds \cup {Oldest}
    BY TakeMoves DEF PoolInv, TypeOK
  <1>2. Finished' = Finished BY <1>1 DEF Finished
  <1> QED BY <1>1, <1>2 DEF Abstract!Start, WorkerTake

(* Ending it is the task's end, whatever becomes of its result.            *)
LEMMA FinishFinishes ==
  ASSUME PoolInv, NEW w \in Workers, WorkerFinish(w)
  PROVE  Abstract!Finish
  <1>1. /\ Oldest' = Oldest /\ held[w].id \in RunningIds /\ held[w].id \in 0 .. Oldest - 1
        /\ RunningIds' = RunningIds \ {held[w].id}
    BY FinishMoves
  <1>2. held[w].id \in (0 .. Oldest - 1) \ Finished /\ Finished' = Finished \cup {held[w].id}
    BY <1>1 DEF Finished
  <1> QED BY <1>1, <1>2 DEF Abstract!Finish, WorkerFinish

(* A task put into the ring is submitted.                                  *)
LEMMA PutSubmits ==
  ASSUME PoolInv, NEW t \in Threads, SubmitPut(t)
  PROVE  Abstract!Submit
  <1>1. /\ TypeOK /\ pc[t] \in {"run", "submit"} /\ pc' = [pc EXCEPT ![t] = "run"]
        /\ count < MaxTasks /\ ~shutdown
        /\ nextId' = nextId + 1 /\ count' = count + 1
        /\ shutdown' = shutdown /\ held' = held /\ ret' = ret
    BY DEF PoolInv, SubmitPut, Submits, MayCall, Retries
  <1>2. \A v \in Workers : Runs(v)' = Runs(v) BY <1>1 DEF Runs, TypeOK, Threads
  <1>3. Oldest' = Oldest /\ nextId - Oldest = count BY <1>1 DEF Oldest, TypeOK
  <1>4. Finished' = Finished BY <1>1, <1>2, <1>3 DEF Finished, RunningIds
  <1> QED BY <1>1, <1>3, <1>4 DEF Abstract!Submit

(* An answer, if TaskPool would give it.                                   *)
LEMMA ReturnedAnswers ==
  ASSUME PoolInv, NEW t \in Threads, NEW id \in 0 .. nextId - 1, NEW val,
         NEW op \in {"wait", "try_wait"},
         op = "wait" => val \in Abstract!WaitAnswers(id),
         op = "try_wait" => val \in Abstract!TryAnswers(id),
         pc[t] \in {"run", "wait"}, Returned(t, op, id, val)
  PROVE  Abstract!Answer
  <1>1. /\ TypeOK /\ pc' = [pc EXCEPT ![t] = "run"]
        /\ UNCHANGED <<count, nextId, held, shutdown>>
        /\ ret' = [ret EXCEPT ![t] = [id |-> id, val |-> val, op |-> op]]
    BY DEF PoolInv, Returned, pool
  <1>2. \A v \in Workers : Runs(v)' = Runs(v) BY <1>1 DEF Runs, TypeOK, Threads
  <1>3. Oldest' = Oldest BY <1>1 DEF Oldest
  <1>4. Finished' = Finished BY <1>1, <1>2, <1>3 DEF Finished, RunningIds
  <1> QED BY <1>1, <1>3, <1>4 DEF Abstract!Answer

(* What a slot says of its task's end.                                     *)
LEMMA SlotsTellTheEnd ==
  ASSUME PoolInv, NEW id \in 0 .. nextId - 1
  PROVE  /\ \A i \in DoneSlots(id) : id \in Finished
         /\ \A i \in Slots : IsFirst(i, id) /\ ~tasks[i].done => id \notin Finished
  <1>0. /\ TypeOK /\ RingInv /\ SlotsInv /\ id \in Int /\ nextId \in Nat /\ count \in Nat
        /\ MaxTasks \in Nat \ {0} /\ Oldest \in Int
    BY DEF PoolInv, TypeOK, Oldest
  <1>1. ASSUME NEW i \in DoneSlots(id) PROVE id \in Finished
    <2>1. i \in Slots /\ tasks[i].id = id /\ tasks[i].done BY DEF DoneSlots
    <2>2. i < nextId BY <1>0, <2>1 DEF SlotsInv, EmptySlot, Slots
    <2>3. id < Oldest /\ id \notin RunningIds BY <1>0, <2>1, <2>2 DEF SlotsInv
    <2> QED BY <1>0, <2>3 DEF Finished
  <1>2. ASSUME NEW i \in Slots, IsFirst(i, id), ~tasks[i].done PROVE id \notin Finished
    <2>1. tasks[i].id = id BY <1>2 DEF IsFirst
    <2>2. i < nextId
      <3>1. SUFFICES ASSUME i >= nextId PROVE FALSE BY <1>0 DEF Slots
      <3>2. id = 0 /\ 0 < nextId /\ 0 \in Slots /\ 0 < i /\ ~Overwritten(0)
        BY <1>0, <2>1, <3>1 DEF SlotsInv, EmptySlot, Slots, Overwritten
      <3>3. 0 % MaxTasks = 0 BY <1>0
      <3>4. tasks[0].id = 0 BY <1>0, <3>2, <3>3 DEF RingInv
      <3> QED BY <1>2, <3>2, <3>4 DEF IsFirst
    <2>3. id \in QueuedIds \cup RunningIds BY <1>0, <1>2, <2>1, <2>2 DEF SlotsInv
    <2> QED BY <1>0, <2>3 DEF QueuedIds, Finished
  <1> QED BY <1>1, <1>2

(* The answers of the pool are those TaskPool allows.                      *)
LEMMA WaitIsAnswered ==
  ASSUME PoolInv, NEW t \in Threads, NEW id \in Ids,
         WaitReturn(t, id) \/ WaitMissing(t, id) \/ TryWait(t, id)
  PROVE  Abstract!Answer
  <1>1. id \in 0 .. nextId - 1 /\ pc[t] \in {"run", "wait"}
    BY WaitsFacts DEF WaitReturn, WaitMissing, TryWait
  <1>2. Overwritten(id) = Abstract!Forgotten(id) BY DEF Overwritten, Abstract!Forgotten
  <1>3. CASE WaitReturn(t, id)
    <2>1. PICK i \in DoneSlots(id) : Returned(t, "wait", id, tasks[i].result)
      BY <1>3 DEF WaitReturn
    <2>2. tasks[i].result = id /\ id \in Finished BY <1>1, SlotFacts, SlotsTellTheEnd
    <2>3. id \in Abstract!WaitAnswers(id) BY <2>2 DEF Abstract!WaitAnswers
    <2> QED BY <1>1, <2>1, <2>2, <2>3, ReturnedAnswers
  <1>4. CASE WaitMissing(t, id)
    <2>1. Returned(t, "wait", id, Null) /\ Overwritten(id)
      BY <1>1, <1>4, SlotFacts DEF WaitMissing
    <2>2. Null \in Abstract!WaitAnswers(id) BY <1>2, <2>1 DEF Abstract!WaitAnswers
    <2> QED BY <1>1, <2>1, <2>2, ReturnedAnswers
  <1>5. CASE ~HasId(id) /\ Returned(t, "try_wait", id, Gone)
    <2>1. Overwritten(id) BY <1>1, <1>5, SlotFacts
    <2>2. Gone \in Abstract!TryAnswers(id) BY <1>2, <2>1 DEF Abstract!TryAnswers
    <2> QED BY <1>1, <1>5, <2>2, ReturnedAnswers
  <1>6. ASSUME NEW i \in Slots, IsFirst(i, id),
               Returned(t, "try_wait", id, IF tasks[i].done THEN tasks[i].result ELSE Null)
        PROVE  Abstract!Answer
    <2>1. CASE tasks[i].done
      <3>1. i \in DoneSlots(id) BY <1>6, <2>1 DEF DoneSlots, IsFirst
      <3>2. tasks[i].result = id /\ id \in Finished BY <1>1, <3>1, SlotFacts, SlotsTellTheEnd
      <3>3. Returned(t, "try_wait", id, id) BY <1>6, <2>1, <3>2
      <3>4. id \in Abstract!TryAnswers(id) BY <3>2 DEF Abstract!TryAnswers
      <3> QED BY <1>1, <3>3, <3>4, ReturnedAnswers
    <2>2. CASE ~tasks[i].done
      <3>1. Returned(t, "try_wait", id, Null) BY <1>6, <2>2
      <3>2. id \notin Finished BY <1>1, <1>6, <2>2, SlotsTellTheEnd
      <3>3. Null \in Abstract!TryAnswers(id) BY <3>2 DEF Abstract!TryAnswers
      <3> QED BY <1>1, <3>1, <3>3, ReturnedAnswers
    <2> QED BY <2>1, <2>2
  <1> QED BY <1>3, <1>4, <1>5, <1>6 DEF TryWait

(* Steps about waiting and waking only, and the calls' refusals and joins. *)
LEMMA QuietSteps ==
  ASSUME PoolInv, NEW t \in Threads,
         \/ t \in Workers /\ (WorkerSleep(t) \/ WorkerExit(t))
         \/ SubmitSleep(t) \/ SubmitReject(t) \/ (\E id \in Ids : WaitSleep(t, id))
         \/ SpuriousWakeup(t) \/ (t \in Clients /\ Join(t))
  PROVE  UNCHANGED Abstract!vars
  <1>1. TypeOK /\ UNCHANGED <<count, nextId, held, shutdown, ret>>
    BY DEF PoolInv, WorkerSleep, WorkerExit, SubmitSleep, SubmitReject, WaitSleep,
           SpuriousWakeup, Join, pool
  <1>2. \/ pc' = pc
        \/ pc[t] = "loop" /\ pc' = [pc EXCEPT ![t] = "exited"]
        \/ t \in Clients /\ pc' = [pc EXCEPT ![t] = "exited"]
        \/ \E p \in {"run", "submit", "wait"} :
              pc[t] \in {"run", "submit", "wait"} /\ pc' = [pc EXCEPT ![t] = p]
    BY DEF WorkerSleep, WorkerExit, SubmitSleep, SubmitReject, WaitSleep, Submits, Waits,
           MayCall, Retries, SpuriousWakeup, Join
  <1>3. \A w \in Workers : Runs(w)' = Runs(w)
    BY <1>1, <1>2 DEF Runs, TypeOK, Threads
  <1> QED BY <1>1, <1>3, Invisible

(* The shutdown closes the pool.                                           *)
LEMMA ShutdownCloses ==
  ASSUME PoolInv, NEW c \in Clients, Shutdown(c)
  PROVE  Abstract!Close
  <1>1. /\ TypeOK /\ UNCHANGED <<count, nextId, held, ret>> /\ ~shutdown /\ shutdown' = TRUE
        /\ pc' = [pc EXCEPT ![c] = "join"]
    BY DEF PoolInv, Shutdown
  <1>2. \A w \in Workers : Runs(w)' = Runs(w) BY <1>1 DEF Runs, TypeOK, Threads
  <1>3. Oldest' = Oldest BY <1>1 DEF Oldest
  <1>4. Finished' = Finished BY <1>1, <1>2, <1>3 DEF Finished, RunningIds
  <1> QED BY <1>1, <1>3, <1>4 DEF Abstract!Close

(* Every step of the pool maps to a step of TaskPool or to none.           *)
LEMMA StepImplements == PoolInv /\ [Next]_vars => [Abstract!Next]_(Abstract!vars)
  <1> SUFFICES ASSUME PoolInv, [Next]_vars PROVE [Abstract!Next]_(Abstract!vars) OBVIOUS
  <1>1. ASSUME NEW w \in Workers, WorkerStep(w) \/ WorkerFinish(w)
        PROVE  [Abstract!Next]_(Abstract!vars)
    <2>1. w \in Threads BY DEF Threads
    <2> QED BY <1>1, <2>1, QuietSteps, TakeStarts, FinishFinishes DEF WorkerStep, Abstract!Next
  <1>2. ASSUME NEW t \in Threads, SubmitStep(t)
        PROVE  [Abstract!Next]_(Abstract!vars)
    BY <1>2, QuietSteps, PutSubmits DEF SubmitStep, Abstract!Next
  <1>3. ASSUME NEW t \in Threads, NEW id \in Ids, WaitStep(t, id) \/ TryWait(t, id)
        PROVE  [Abstract!Next]_(Abstract!vars)
    BY <1>3, QuietSteps, WaitIsAnswered DEF WaitStep, Abstract!Next
  <1>4. ASSUME NEW t \in Threads, SpuriousWakeup(t)
        PROVE  [Abstract!Next]_(Abstract!vars)
    <2>1. UNCHANGED Abstract!vars BY <1>4, Invisible DEF SpuriousWakeup, pool, Runs
    <2> QED BY <2>1
  <1>5. ASSUME NEW c \in Clients, Shutdown(c) \/ Join(c)
        PROVE  [Abstract!Next]_(Abstract!vars)
    <2>1. c \in Threads BY DEF Threads
    <2> QED BY <1>5, <2>1, QuietSteps, ShutdownCloses DEF Abstract!Next
  <1>6. CASE UNCHANGED vars
    BY <1>6, Invisible DEF vars, pool, Runs
  <1> QED BY <1>1, <1>2, <1>3, <1>4, <1>5, <1>6 DEF Next

(* An empty pool is an empty TaskPool.                                     *)
LEMMA InitImplements == Init => Abstract!Init
  <1> SUFFICES ASSUME Init PROVE Abstract!Init OBVIOUS
  <1>1. Oldest = 0 BY DEF Init, Oldest
  <1>2. Finished = {} BY <1>1 DEF Finished
  <1> QED BY <1>1, <1>2 DEF Init, Abstract!Init

(* The pool implements TaskPool: tasks start once, in the order of their   *)
(* submission, none after the shutdown; and no answer is given about a     *)
(* task but its result, after its end, or that it was overtaken.           *)
THEOREM PoolImplementsTaskPool == Spec => ImplementsTaskPool
  <1> QED BY InitImplements, StepImplements, PoolInvariant, PTL
       DEF Spec, ImplementsTaskPool, Abstract!Spec

-----------------------------------------------------------------------------
(* No signal is lost.  The single signals of cv and space_cv are counted:  *)
(* each covers one task, or one free slot, more.                           *)

SignalInv == SleepersInv /\ NobodySleepsBesideWork

LEMMA ThreadsAreFinite ==
  /\ IsFiniteSet(Threads)
  /\ IsFiniteSet(OnTheirWay) /\ IsFiniteSet(OnTheirWay')
  /\ IsFiniteSet(Submitting) /\ IsFiniteSet(Submitting')
  <1>1. IsFiniteSet(Threads) BY FS_Union DEF Threads
  <1> QED BY <1>1, FS_Subset DEF OnTheirWay, Submitting, Threads

(* The halves of the invariant when nothing more is owed.                  *)
LEMMA WorkersStillCome ==
  ASSUME PoolInv, SignalInv, ~shutdown, count' = count,
         OnTheirWay \subseteq OnTheirWay', asleep'["cv"] \subseteq asleep["cv"]
  PROVE  asleep'["cv"] # {} => Cardinality(OnTheirWay') >= count'
  <1>1. count \in Nat BY DEF PoolInv, TypeOK
  <1>2. /\ Cardinality(OnTheirWay) <= Cardinality(OnTheirWay')
        /\ Cardinality(OnTheirWay) \in Nat /\ Cardinality(OnTheirWay') \in Nat
    BY ThreadsAreFinite, MoreMembers
  <1> QED BY <1>1, <1>2 DEF SignalInv, NobodySleepsBesideWork

LEMMA SubmittersStillCome ==
  ASSUME PoolInv, SignalInv, ~shutdown, count' = count,
         Submitting \subseteq Submitting', asleep'["space_cv"] \subseteq asleep["space_cv"]
  PROVE  asleep'["space_cv"] # {} => Cardinality(Submitting') >= MaxTasks - count'
  <1>1. count \in Nat BY DEF PoolInv, TypeOK
  <1>2. /\ Cardinality(Submitting) <= Cardinality(Submitting')
        /\ Cardinality(Submitting) \in Nat /\ Cardinality(Submitting') \in Nat
    BY ThreadsAreFinite, MoreMembers
  <1> QED BY <1>1, <1>2 DEF SignalInv, NobodySleepsBesideWork

(* A signal wakes one sleeper, if there is one, and nobody elsewhere.      *)
LEMMA SignalWakes ==
  ASSUME TypeOK, NEW c \in CondVars, asleep' \in Signal(c)
  PROVE  /\ \A d \in CondVars : asleep'[d] \subseteq asleep[d]
         /\ \A d \in CondVars \ {c} : asleep'[d] = asleep[d]
         /\ asleep[c] # {} => \E b \in asleep[c] : asleep'[c] = asleep[c] \ {b}
  BY DEF TypeOK, Signal

(* Nobody sleeps in two places.                                            *)
LEMMA OneBed ==
  ASSUME PoolInv, SleepersInv
  PROVE  /\ \A t \in asleep["cv"] : t \notin asleep["space_cv"] /\ t \notin asleep["done_cv"]
         /\ \A t \in asleep["space_cv"] : t \notin asleep["done_cv"]
  BY DEF PoolInv, CallsInv, SleepersInv

LEMMA WorkerSleepSignal == ASSUME PoolInv, SignalInv, NEW w \in Workers, WorkerSleep(w) PROVE SignalInv'
  <1>1. /\ TypeOK /\ SleepersInv /\ pc[w] = "loop" /\ count = 0 /\ ~shutdown /\ w \in Threads
        /\ UNCHANGED <<pc, count, shutdown>>
        /\ asleep' = [asleep EXCEPT !["cv"] = @ \cup {w}]
    BY DEF PoolInv, SignalInv, WorkerSleep, Sleep, pool, Threads
  <1>2. /\ asleep'["cv"] = asleep["cv"] \cup {w} /\ asleep'["space_cv"] = asleep["space_cv"]
        /\ asleep'["done_cv"] = asleep["done_cv"]
    BY <1>1 DEF TypeOK, CondVars
  <1>3. SleepersInv' BY <1>1, <1>2 DEF SleepersInv
  <1>4. Submitting \subseteq Submitting'
    BY <1>1, <1>2 DEF Submitting, Awake, CondVars
  <1>5. Cardinality(OnTheirWay') >= count'
    <2>1. Cardinality(OnTheirWay') \in Nat BY ThreadsAreFinite, FS_CardinalityType
    <2> QED BY <1>1, <2>1
  <1>6. asleep'["space_cv"] # {} => Cardinality(Submitting') >= MaxTasks - count'
    BY <1>1, <1>2, <1>4, SubmittersStillCome
  <1> QED BY <1>3, <1>5, <1>6 DEF SignalInv, NobodySleepsBesideWork

(* A worker that takes a task was on its way; the slot it frees is         *)
(* signalled.                                                              *)
LEMMA WorkerTakeSignal == ASSUME PoolInv, SignalInv, NEW w \in Workers, WorkerTake(w) PROVE SignalInv'
  <1>1. /\ TypeOK /\ SleepersInv /\ NobodySleepsBesideWork
        /\ pc[w] = "loop" /\ w \in OnTheirWay /\ w \in Threads
        /\ count \in 1 .. MaxTasks /\ ~shutdown
        /\ count' = count - 1 /\ shutdown' = shutdown /\ asleep' \in Signal("space_cv")
        /\ pc' = [pc EXCEPT ![w] = "run"]
    BY DEF PoolInv, SignalInv, WorkerTake, WakeSubmitter, MayLock, OnTheirWay, Threads, TypeOK
  <1>2. /\ \A d \in CondVars : asleep'[d] \subseteq asleep[d]
        /\ asleep'["cv"] = asleep["cv"] /\ asleep'["done_cv"] = asleep["done_cv"]
        /\ asleep["space_cv"] # {} =>
              \E b \in asleep["space_cv"] : asleep'["space_cv"] = asleep["space_cv"] \ {b}
    BY <1>1, SignalWakes DEF CondVars
  <1>3. \A t \in Threads : /\ t # w => pc'[t] = pc[t]
                           /\ Awake(t) => Awake(t)'
    BY <1>1, <1>2 DEF TypeOK, Awake
  <1>4. \A c \in CondVars : w \notin asleep[c]
    BY <1>1 DEF OnTheirWay, Awake
  <1>5. SleepersInv'
    BY <1>1, <1>2, <1>3, <1>4 DEF SleepersInv, CondVars, TypeOK
  <1>6. asleep'["cv"] # {} => Cardinality(OnTheirWay') >= count'
    <2>1. OnTheirWay \ {w} \subseteq OnTheirWay' BY <1>3 DEF OnTheirWay, Threads
    <2>2. /\ Cardinality(OnTheirWay) - 1 <= Cardinality(OnTheirWay')
          /\ Cardinality(OnTheirWay) \in Nat /\ Cardinality(OnTheirWay') \in Nat
      BY <2>1, ThreadsAreFinite, OneLessMember
    <2> QED BY <1>1, <1>2, <2>2 DEF NobodySleepsBesideWork
  <1>7. ASSUME asleep'["space_cv"] # {} PROVE Cardinality(Submitting') >= MaxTasks - count'
    <2>1. asleep["space_cv"] # {} BY <1>2, <1>7 DEF CondVars
    <2>2. PICK b \in asleep["space_cv"] : asleep'["space_cv"] = asleep["space_cv"] \ {b}
      BY <1>2, <2>1
    <2>3. b \in Threads /\ pc[b] = "submit" /\ b # w
      BY <1>1 DEF TypeOK, CondVars, SleepersInv
    <2>4. b \notin asleep["cv"] /\ b \notin asleep["done_cv"] BY <1>1, OneBed
    <2>5. b \in Submitting' \ Submitting
      BY <1>2, <1>3, <2>2, <2>3, <2>4 DEF Submitting, Awake, CondVars
    <2>6. Submitting \subseteq Submitting' BY <1>1, <1>3 DEF Submitting
    <2>7. /\ Cardinality(Submitting) + 1 <= Cardinality(Submitting')
          /\ Cardinality(Submitting) \in Nat /\ Cardinality(Submitting') \in Nat
      BY <2>5, <2>6, ThreadsAreFinite, OneMoreMember
    <2> QED BY <1>1, <2>1, <2>7 DEF NobodySleepsBesideWork
  <1> QED BY <1>5, <1>6, <1>7 DEF SignalInv, NobodySleepsBesideWork

(* A worker that ends a task is on its way to the next one.                *)
LEMMA WorkerFinishSignal == ASSUME PoolInv, SignalInv, NEW w \in Workers, WorkerFinish(w) PROVE SignalInv'
  <1>1. /\ TypeOK /\ SleepersInv /\ pc[w] = "run" /\ w \in Threads
        /\ count' = count /\ shutdown' = shutdown
        /\ asleep' = [asleep EXCEPT !["done_cv"] = {}]
        /\ pc' = [pc EXCEPT ![w] = "loop"]
    BY DEF PoolInv, SignalInv, WorkerFinish, WakeWaiters, Broadcast, Threads
  <1>2. /\ asleep'["cv"] = asleep["cv"] /\ asleep'["space_cv"] = asleep["space_cv"]
        /\ asleep'["done_cv"] = {}
    BY <1>1 DEF TypeOK, CondVars
  <1>3. \A t \in Threads : /\ t # w => pc'[t] = pc[t]
                           /\ Awake(t) => Awake(t)'
    BY <1>1, <1>2 DEF TypeOK, Awake, CondVars
  <1>4. SleepersInv' BY <1>1, <1>2, <1>3 DEF SleepersInv, TypeOK, CondVars
  <1>5. OnTheirWay \subseteq OnTheirWay' BY <1>1, <1>3 DEF OnTheirWay, Threads
  <1>6. Submitting \subseteq Submitting' BY <1>1, <1>3 DEF Submitting
  <1>7. ~shutdown' => /\ asleep'["cv"] # {} => Cardinality(OnTheirWay') >= count'
                      /\ asleep'["space_cv"] # {} => Cardinality(Submitting') >= MaxTasks - count'
    BY <1>1, <1>2, <1>5, <1>6, WorkersStillCome, SubmittersStillCome
  <1> QED BY <1>4, <1>7 DEF SignalInv, NobodySleepsBesideWork

(* A submitter sleeps where no slot is free.                               *)
LEMMA SubmitSleepSignal == ASSUME PoolInv, SignalInv, NEW t \in Threads, SubmitSleep(t) PROVE SignalInv'
  <1>1. /\ TypeOK /\ SleepersInv /\ pc[t] \in {"run", "submit"} /\ count = MaxTasks
        /\ ~shutdown /\ count' = count /\ shutdown' = shutdown
        /\ asleep' = [asleep EXCEPT !["space_cv"] = @ \cup {t}]
        /\ pc' = [pc EXCEPT ![t] = "submit"]
    BY DEF PoolInv, SignalInv, SubmitSleep, Submits, MayCall, Retries, Sleep, pool, TypeOK
  <1>2. /\ asleep'["cv"] = asleep["cv"] /\ asleep'["space_cv"] = asleep["space_cv"] \cup {t}
        /\ asleep'["done_cv"] = asleep["done_cv"]
    BY <1>1 DEF TypeOK, CondVars
  <1>3. \A v \in Threads \ {t} : pc'[v] = pc[v] /\ (Awake(v) => Awake(v)')
    BY <1>1, <1>2 DEF TypeOK, Awake, CondVars
  <1>4. SleepersInv' BY <1>1, <1>2, <1>3 DEF SleepersInv, TypeOK, CondVars
  <1>5. OnTheirWay \subseteq OnTheirWay' BY <1>1, <1>3 DEF OnTheirWay, Threads
  <1>6. asleep'["cv"] # {} => Cardinality(OnTheirWay') >= count'
    BY <1>1, <1>2, <1>5, WorkersStillCome
  <1>7. Cardinality(Submitting') >= MaxTasks - count'
    <2>1. Cardinality(Submitting') \in Nat BY ThreadsAreFinite, FS_CardinalityType
    <2> QED BY <1>1, <2>1
  <1> QED BY <1>4, <1>6, <1>7 DEF SignalInv, NobodySleepsBesideWork

(* The task put into the ring is signalled; the slot it takes is one less. *)
LEMMA SubmitPutSignal == ASSUME PoolInv, SignalInv, NEW t \in Threads, SubmitPut(t) PROVE SignalInv'
  <1>1. /\ TypeOK /\ SleepersInv /\ NobodySleepsBesideWork /\ pc[t] \in {"run", "submit"}
        /\ count \in 0 .. MaxTasks - 1 /\ ~shutdown
        /\ count' = count + 1 /\ shutdown' = shutdown /\ asleep' \in Signal("cv")
        /\ pc' = [pc EXCEPT ![t] = "run"]
        /\ pc[t] = "submit" => Awake(t)
    BY DEF PoolInv, SignalInv, SubmitPut, Submits, MayCall, Retries, WakeWorker, TypeOK
  <1>2. /\ \A d \in CondVars : asleep'[d] \subseteq asleep[d]
        /\ asleep'["space_cv"] = asleep["space_cv"] /\ asleep'["done_cv"] = asleep["done_cv"]
        /\ asleep["cv"] # {} => \E b \in asleep["cv"] : asleep'["cv"] = asleep["cv"] \ {b}
    BY <1>1, SignalWakes DEF CondVars
  <1>3. \A v \in Threads : /\ v # t => pc'[v] = pc[v]
                           /\ Awake(v) => Awake(v)'
    BY <1>1, <1>2 DEF TypeOK, Awake
  <1>4. t \notin asleep["cv"] /\ t \notin asleep["space_cv"]
    BY <1>1 DEF SleepersInv, Awake, CondVars
  <1>5. SleepersInv' BY <1>1, <1>2, <1>3, <1>4 DEF SleepersInv, TypeOK, CondVars
  <1>6. ASSUME asleep'["cv"] # {} PROVE Cardinality(OnTheirWay') >= count'
    <2>1. asleep["cv"] # {} BY <1>2, <1>6 DEF CondVars
    <2>2. PICK b \in asleep["cv"] : asleep'["cv"] = asleep["cv"] \ {b} BY <1>2, <2>1
    <2>3. b \in Workers /\ b \in Threads /\ pc[b] = "loop" /\ b # t
      BY <1>1 DEF SleepersInv, Threads
    <2>4. b \notin asleep["space_cv"] /\ b \notin asleep["done_cv"] BY <1>1, OneBed
    <2>5. b \in OnTheirWay' \ OnTheirWay
      BY <1>2, <1>3, <2>2, <2>3, <2>4 DEF OnTheirWay, Awake, CondVars
    <2>6. OnTheirWay \subseteq OnTheirWay' BY <1>1, <1>3 DEF OnTheirWay, Threads
    <2>7. /\ Cardinality(OnTheirWay) + 1 <= Cardinality(OnTheirWay')
          /\ Cardinality(OnTheirWay) \in Nat /\ Cardinality(OnTheirWay') \in Nat
      BY <2>5, <2>6, ThreadsAreFinite, OneMoreMember
    <2> QED BY <1>1, <2>1, <2>7 DEF NobodySleepsBesideWork
  <1>7. asleep'["space_cv"] # {} => Cardinality(Submitting') >= MaxTasks - count'
    <2>1. Submitting \ {t} \subseteq Submitting' BY <1>3 DEF Submitting
    <2>2. /\ Cardinality(Submitting) - 1 <= Cardinality(Submitting')
          /\ Cardinality(Submitting) \in Nat /\ Cardinality(Submitting') \in Nat
      BY <2>1, ThreadsAreFinite, OneLessMember
    <2> QED BY <1>1, <1>2, <2>2 DEF NobodySleepsBesideWork
  <1> QED BY <1>5, <1>6, <1>7 DEF SignalInv, NobodySleepsBesideWork

(* The other steps: nobody on its way turns back, and nobody falls asleep  *)
(* on cv or space_cv.                                                      *)
LEMMA OthersSignal ==
  ASSUME PoolInv, SignalInv, NEW t \in Threads, NEW p, count' = count, shutdown' = shutdown,
         pc[t] \in {"run", "wait", "join"} /\ p \notin {"loop", "submit"},
         pc' = [pc EXCEPT ![t] = p],
         \/ asleep' = asleep
         \/ asleep' = [asleep EXCEPT !["done_cv"] = @ \cup {t}]
  PROVE  SignalInv'
  <1>1. TypeOK /\ SleepersInv BY DEF PoolInv, SignalInv
  <1>2. /\ asleep'["cv"] = asleep["cv"] /\ asleep'["space_cv"] = asleep["space_cv"]
        /\ \A v \in Threads \ {t} : pc'[v] = pc[v] /\ (Awake(v) => Awake(v)')
    BY <1>1 DEF TypeOK, CondVars, Awake
  <1>3. SleepersInv' BY <1>1, <1>2 DEF SleepersInv, TypeOK, CondVars
  <1>4. OnTheirWay \subseteq OnTheirWay' /\ Submitting \subseteq Submitting'
    BY <1>2 DEF OnTheirWay, Submitting, Threads
  <1>5. ~shutdown' => /\ asleep'["cv"] # {} => Cardinality(OnTheirWay') >= count'
                      /\ asleep'["space_cv"] # {} => Cardinality(Submitting') >= MaxTasks - count'
    BY <1>2, <1>4, WorkersStillCome, SubmittersStillCome
  <1> QED BY <1>3, <1>5 DEF SignalInv, NobodySleepsBesideWork

LEMMA WaitsSignal ==
  ASSUME PoolInv, SignalInv, NEW t \in Threads, NEW id \in Ids, WaitStep(t, id) \/ TryWait(t, id)
  PROVE  SignalInv'
  <1>1. /\ pc[t] \in {"run", "wait", "join"} /\ count' = count /\ shutdown' = shutdown
        /\ \/ asleep' = asleep
           \/ asleep' = [asleep EXCEPT !["done_cv"] = @ \cup {t}]
        /\ \E p \in {"run", "wait"} : pc' = [pc EXCEPT ![t] = p]
    BY DEF WaitStep, WaitReturn, WaitMissing, WaitSleep, TryWait, Waits, MayCall, Retries,
           Returned, Sleep, pool
  <1> QED BY <1>1, OthersSignal

(* A wake-up without a signal only puts a thread on its way.               *)
LEMMA SpuriousWakeupSignal ==
  ASSUME PoolInv, SignalInv, NEW t \in Threads, SpuriousWakeup(t) PROVE SignalInv'
  <1>1. /\ TypeOK /\ SleepersInv /\ UNCHANGED <<pc, count, shutdown>>
        /\ \A c \in CondVars : asleep'[c] \subseteq asleep[c]
    BY DEF PoolInv, SignalInv, SpuriousWakeup, pool, TypeOK
  <1>2. OnTheirWay \subseteq OnTheirWay' /\ Submitting \subseteq Submitting'
    BY <1>1 DEF OnTheirWay, Submitting, Awake
  <1>3. asleep'["cv"] \subseteq asleep["cv"] /\ asleep'["space_cv"] \subseteq asleep["space_cv"]
    BY <1>1 DEF CondVars
  <1>4. SleepersInv' BY <1>1, <1>3 DEF SleepersInv
  <1>5. ~shutdown' => /\ asleep'["cv"] # {} => Cardinality(OnTheirWay') >= count'
                      /\ asleep'["space_cv"] # {} => Cardinality(Submitting') >= MaxTasks - count'
    BY <1>1, <1>2, <1>3, WorkersStillCome, SubmittersStillCome
  <1> QED BY <1>4, <1>5 DEF SignalInv, NobodySleepsBesideWork

(* In a pool that is shutting down no signal is owed.                      *)
LEMMA ShutdownSignal ==
  ASSUME PoolInv, SignalInv, NEW t \in Threads,
         \/ t \in Workers /\ WorkerExit(t)
         \/ SubmitReject(t)
         \/ t \in Clients /\ Shutdown(t)
  PROVE  SignalInv'
  <1>1. /\ TypeOK /\ SleepersInv /\ shutdown'
        /\ \/ asleep' = asleep /\ Awake(t) /\ \E p : pc' = [pc EXCEPT ![t] = p]
           \/ asleep' = [asleep EXCEPT !["cv"] = {}, !["space_cv"] = {}]
    BY DEF PoolInv, SignalInv, WorkerExit, SubmitReject, Shutdown, MayLock, Retries,
           WakeAtShutdown, pool
  <1>2. CASE asleep' = [asleep EXCEPT !["cv"] = {}, !["space_cv"] = {}]
    <2>1. asleep'["cv"] = {} /\ asleep'["space_cv"] = {} BY <1>1, <1>2 DEF TypeOK, CondVars
    <2> QED BY <1>1, <2>1 DEF SignalInv, SleepersInv, NobodySleepsBesideWork
  <1>3. CASE asleep' = asleep /\ Awake(t) /\ \E p : pc' = [pc EXCEPT ![t] = p]
    <2>1. t \notin asleep["cv"] /\ t \notin asleep["space_cv"] BY <1>3 DEF Awake, CondVars
    <2>2. SleepersInv' BY <1>1, <1>3, <2>1 DEF SleepersInv, TypeOK, CondVars
    <2> QED BY <1>1, <2>2 DEF SignalInv, NobodySleepsBesideWork
  <1> QED BY <1>1, <1>2, <1>3

LEMMA NextSignalInv == PoolInv /\ SignalInv /\ [Next]_vars => SignalInv'
  <1> SUFFICES ASSUME PoolInv, SignalInv, [Next]_vars PROVE SignalInv' OBVIOUS
  <1>1. ASSUME NEW w \in Workers, WorkerStep(w) \/ WorkerFinish(w) PROVE SignalInv'
    <2>1. w \in Threads BY DEF Threads
    <2> QED BY <1>1, <2>1, WorkerSleepSignal, WorkerTakeSignal, WorkerFinishSignal,
               ShutdownSignal DEF WorkerStep
  <1>2. ASSUME NEW t \in Threads, SubmitStep(t) PROVE SignalInv'
    BY <1>2, SubmitSleepSignal, SubmitPutSignal, ShutdownSignal DEF SubmitStep
  <1>3. ASSUME NEW c \in Clients, Shutdown(c) \/ Join(c) PROVE SignalInv'
    <2>1. c \in Threads BY DEF Threads
    <2>2. CASE Join(c) BY <2>1, <2>2, OthersSignal DEF Join, pool
    <2> QED BY <1>3, <2>1, <2>2, ShutdownSignal
  <1>4. CASE UNCHANGED vars
    BY <1>4 DEF vars, pool, SignalInv, SleepersInv, NobodySleepsBesideWork, OnTheirWay,
                Submitting, Awake
  <1> QED BY <1>1, <1>2, <1>3, <1>4, WaitsSignal, SpuriousWakeupSignal DEF Next

(* No signal of submit or of a worker is lost: whoever sleeps on cv or on  *)
(* space_cv, as many others are on their way as there are tasks, or free   *)
(* slots (worker_loop, xt_threadpool_submit).                              *)
THEOREM NoLostSignal == Spec => []NobodySleepsBesideWork
  <1>1. Init => SignalInv
    BY DEF Init, SignalInv, SleepersInv, NobodySleepsBesideWork, CondVars
  <1>2. SignalInv => NobodySleepsBesideWork BY DEF SignalInv
  <1> QED BY <1>1, <1>2, NextSignalInv, PoolInvariant, PTL DEF Spec

-----------------------------------------------------------------------------
(* Asynchronous tasks.  What holds between the writes to a handle: between *)
(* a result's store and the status that makes it visible, whatever other   *)
(* thread has stored over it was an answer of the pool about the same      *)
(* task.  That the pool's answers are the task's is shown above: a step    *)
(* here is a step of the pool or none of it.                               *)

(* The pool's part of a step is a step of the pool.                        *)
LEMMA PoolMoves == [AsyncNext]_asyncVars => [Next]_vars
  <1> SUFFICES ASSUME [AsyncNext]_asyncVars PROVE [Next]_vars OBVIOUS
  <1>1. CASE PoolStep BY <1>1 DEF PoolStep, Next
  <1>2. ASSUME NEW w \in Workers, Runner(w) PROVE [Next]_vars
    BY <1>2 DEF Runner, RunnerStores, RunnerMarks, RunnerWakes, RunnerReturns, Next
  <1>3. ASSUME NEW t \in Threads, Spawn(t) \/ Blocks(t) \/ Caller(t) PROVE [Next]_vars
    BY <1>3 DEF Spawn, Blocks, Caller, CallerStores, CallerReturns, WaitStep, Next
  <1>4. ASSUME NEW t \in Threads, NEW id \in Ids,
               WaitAnswered(t, id) \/ TryAnswered(t, id) \/ TryKnown(t, id)
        PROVE  [Next]_vars
    BY <1>4 DEF WaitAnswered, TryAnswered, TryKnown, WaitStep, Next
  <1>5. ASSUME NEW c \in Clients, Park(c) PROVE [Next]_vars BY <1>5 DEF Park
  <1>6. CASE UNCHANGED asyncVars BY <1>6 DEF asyncVars
  <1> QED BY <1>1, <1>2, <1>3, <1>4, <1>5, <1>6 DEF AsyncNext

(* Under the asynchronous tasks the pool is the pool of ThreadPool, with   *)
(* all that is proved of it.                                               *)
THEOREM AsyncUsesThePool == AsyncSpec => Spec
  <1>1. AsyncInit => Init BY DEF AsyncInit
  <1> QED BY <1>1, PoolMoves, PTL DEF AsyncSpec, Spec
-----------------------------------------------------------------------------
(* What is an answer about a task stays one: tasks are only added.         *)
LEMMA StaysAnAnswer ==
  ASSUME PoolInv, [Next]_vars, NEW val, NEW id \in Ids, IsResultOf(val, id)
  PROVE  IsResultOf(val, id)'
  <1>1. nextId' \in {nextId, nextId + 1}
    BY DEF Next, WorkerStep, WorkerSleep, WorkerExit, WorkerTake, WorkerFinish, SubmitStep,
           SubmitSleep, SubmitReject, SubmitPut, WaitStep, WaitReturn, WaitMissing, WaitSleep,
           TryWait, Returned, SpuriousWakeup, Shutdown, Join, vars, pool
  <1>2. nextId \in Nat /\ id \in Int /\ MaxTasks \in Nat BY DEF PoolInv, TypeOK, Ids
  <1> QED BY <1>1, <1>2 DEF IsResultOf, Overwritten

(* What a thread has in hand is not touched by the steps of others, nor by *)
(* its own steps in the pool while it has something in hand.               *)
HandsKept ==
  \A t \in Threads : step[t] # "none" =>
    /\ pc'[t] = pc[t] /\ ret'[t] = ret[t]
    /\ t \in Workers => held'[t] = held[t]

LEMMA PoolStepKeepsHands ==
  ASSUME PoolInv, AsyncInv,
         \/ PoolStep
         \/ \E t \in Threads : Spawn(t) \/ Blocks(t)
         \/ UNCHANGED vars
  PROVE  HandsKept
  <1>1. TypeOK /\ StepsInv BY DEF PoolInv, AsyncInv
  <1>2. /\ \A w \in Workers : w \in Threads
        /\ \A c \in Clients : c \in Threads
    BY DEF Threads
  <1>3. ASSUME NEW t \in Threads, step[t] = "none",
               /\ \E p : pc' \in {pc, [pc EXCEPT ![t] = p]}
               /\ \E h : held' \in {held, [held EXCEPT ![t] = h]}
               /\ ret' = ret
        PROVE  HandsKept
    BY <1>1, <1>3 DEF HandsKept, TypeOK
  <1>4. CASE UNCHANGED vars BY <1>4 DEF vars, HandsKept
  <1>5. ASSUME NEW w \in Workers, WorkerStep(w) PROVE HandsKept
    <2>1. pc[w] = "loop" BY <1>5 DEF WorkerStep, WorkerSleep, WorkerExit, WorkerTake
    <2>2. step[w] = "none" BY <1>1, <1>2, <2>1 DEF StepsInv
    <2>3. /\ \E p : pc' \in {pc, [pc EXCEPT ![w] = p]}
          /\ \E h : held' \in {held, [held EXCEPT ![w] = h]}
          /\ ret' = ret
      BY <1>5 DEF WorkerStep, WorkerSleep, WorkerExit, WorkerTake
    <2> QED BY <1>2, <1>3, <2>2, <2>3
  <1>6. ASSUME NEW t \in Threads, SpuriousWakeup(t) PROVE HandsKept
    BY <1>6 DEF SpuriousWakeup, HandsKept
  <1>7. ASSUME NEW c \in Clients, (Free(c) /\ Shutdown(c)) \/ Join(c) PROVE HandsKept
    <2>1. step[c] = "none" BY <1>1, <1>2, <1>7 DEF StepsInv, Free, Join
    <2>2. /\ \E p : pc' = [pc EXCEPT ![c] = p]
          /\ held' = held /\ ret' = ret
      BY <1>7 DEF Shutdown, Join
    <2> QED BY <1>2, <1>3, <2>1, <2>2
  <1>8. ASSUME NEW t \in Threads, Spawn(t) PROVE HandsKept
    <2>1. step[t] = "none" BY <1>8 DEF Spawn, Free
    <2>2. /\ \E p : pc' = [pc EXCEPT ![t] = p]
          /\ held' = held /\ ret' = ret
      BY <1>8 DEF Spawn, SubmitStep, SubmitSleep, SubmitReject, SubmitPut
    <2> QED BY <1>3, <2>1, <2>2
  <1>9. ASSUME NEW t \in Threads, Blocks(t) PROVE HandsKept
    <2>1. step[t] = "none" BY <1>9 DEF Blocks, Free
    <2>2. /\ \E p : pc' = [pc EXCEPT ![t] = p]
          /\ held' = held /\ ret' = ret
      BY <1>9 DEF Blocks, WaitSleep
    <2> QED BY <1>3, <2>1, <2>2
  <1> QED BY <1>4, <1>5, <1>6, <1>7, <1>8, <1>9 DEF PoolStep

(* Where the tasks are that threads have in hand.                          *)
LEMMA HandsHoldIds ==
  ASSUME PoolInv, AsyncInv, NEW t \in Threads
  PROVE  /\ t \in Workers => held[t].id \in Ids
         /\ step[t] \in {"got", "kept"} => ret[t].id \in Ids /\ ret[t].val \in Results
         /\ answer[t].id # Null => answer[t].id \in Ids
  <1>1. /\ TypeOK /\ CallsInv /\ StepsInv /\ AsyncTypeOK BY DEF PoolInv, AsyncInv
  <1>2. t \in Workers => held[t].id \in Ids BY <1>1 DEF TypeOK, PoolTask
  <1>3. ret[t].val \in Results BY <1>1 DEF TypeOK, Calls
  <1>4. ret[t].op # "none" => ret[t].id \in Ids BY <1>1 DEF CallsInv, TypeOK, Ids
  <1>5. answer[t].id \in Ids \cup {Null} BY <1>1 DEF AsyncTypeOK
  <1> QED BY <1>1, <1>2, <1>3, <1>4, <1>5 DEF StepsInv

(* A step of the pool that leaves the handles alone: each thread keeps     *)
(* what it had in hand, or has nothing any more, or has got an answer.     *)
Goes(t) ==
  \/ step'[t] = "none"
  \/ /\ step'[t] = step[t]
     /\ step[t] # "none" => /\ pc'[t] = pc[t] /\ ret'[t] = ret[t]
                            /\ t \in Workers => held'[t] = held[t]
  \/ /\ step'[t] = "got" /\ pc'[t] = "run"
     /\ ret'[t].op # "none" /\ IsResultOf(ret[t].val, ret[t].id)'

LEMMA AsyncFrame ==
  ASSUME PoolInv, AsyncInv, [Next]_vars, UNCHANGED <<handle, answer, notified, missed>>,
         step' = [t \in Threads |-> step'[t]],
         \A t \in Threads : Goes(t)
  PROVE  AsyncInv'
  <1>1. AsyncTypeOK /\ StepsInv /\ StoredInv /\ AnswersAreTheTasks /\ ParkedFibersAreWoken
    BY DEF AsyncInv
  <1>2. \A w \in Workers \cup Clients : w \in Threads BY DEF Threads
  <1>3. AsyncTypeOK' BY <1>1 DEF AsyncTypeOK, Goes
  <1>4. StepsInv'
    <2>1. ASSUME NEW t \in Threads
          PROVE  /\ step'[t] # "none" => pc'[t] = "run"
                 /\ step'[t] \in {"stored", "marked", "ended"} => t \in Workers
                 /\ step'[t] \in {"got", "kept"} =>
                       ret'[t].op # "none" /\ IsResultOf(ret[t].val, ret[t].id)'
      <3>1. CASE step'[t] = "none" BY <3>1
      <3>2. CASE step'[t] = step[t] /\ step[t] # "none"
        <4>1. \/ pc'[t] = pc[t] /\ ret'[t] = ret[t]
              \/ step'[t] = "got" /\ pc'[t] = "run"
                 /\ ret'[t].op # "none" /\ IsResultOf(ret[t].val, ret[t].id)'
          BY <3>2 DEF Goes
        <4> QED BY <1>1, <3>2, <4>1, HandsHoldIds, StaysAnAnswer DEF StepsInv
      <3>3. CASE step'[t] # "none" /\ step'[t] # step[t] BY <3>3 DEF Goes
      <3> QED BY <3>1, <3>2, <3>3
    <2> QED BY <2>1 DEF StepsInv
  <1>5. StoredInv'
    <2>1. ASSUME NEW w \in Workers, step'[w] = "stored"
          PROVE  IsResultOf(handle[held[w].id].result, held[w].id)'
      <3>1. w \in Threads /\ held'[w] = held[w] /\ step[w] = "stored"
        BY <1>2, <2>1 DEF Goes
      <3>2. IsResultOf(handle[held[w].id].result, held[w].id) BY <1>1, <3>1 DEF StoredInv
      <3>3. held[w].id \in Ids BY <3>1, HandsHoldIds
      <3> QED BY <3>1, <3>2, <3>3, StaysAnAnswer
    <2>2. ASSUME NEW t \in Threads, step'[t] = "kept"
          PROVE  IsResultOf(handle[ret[t].id].result, ret[t].id)'
      <3>1. ret'[t] = ret[t] /\ step[t] = "kept" BY <2>2 DEF Goes
      <3>2. IsResultOf(handle[ret[t].id].result, ret[t].id) BY <1>1, <3>1 DEF StoredInv
      <3>3. ret[t].id \in Ids BY <3>1, HandsHoldIds
      <3> QED BY <3>1, <3>2, <3>3, StaysAnAnswer
    <2> QED BY <2>1, <2>2 DEF StoredInv
  <1>6. AnswersAreTheTasks'
    BY <1>1, HandsHoldIds, StaysAnAnswer DEF AnswersAreTheTasks
  <1>7. ParkedFibersAreWoken'
    BY <1>1, <1>2 DEF ParkedFibersAreWoken, Goes
  <1> QED BY <1>3, <1>4, <1>5, <1>6, <1>7 DEF AsyncInv

LEMMA PoolStepAsync ==
  ASSUME PoolInv, AsyncInv, [Next]_vars, HandsKept, UNCHANGED async
  PROVE  AsyncInv'
  <1>1. UNCHANGED <<handle, step, answer, notified, missed>> BY DEF async
  <1>2. \A t \in Threads : Goes(t) BY <1>1 DEF HandsKept, Goes
  <1>3. step' = [t \in Threads |-> step'[t]]
    BY <1>1 DEF AsyncInv, AsyncTypeOK
  <1> QED BY <1>1, <1>2, <1>3, AsyncFrame

(* The worker goes back to its loop; the pool keeps the result too.        *)
LEMMA RunnerReturnsAsync ==
  ASSUME PoolInv, AsyncInv, NEW w \in Workers, RunnerReturns(w)
  PROVE  AsyncInv'
  <1>1. /\ TypeOK /\ AsyncTypeOK /\ w \in Threads
        /\ step' = [step EXCEPT ![w] = "none"]
        /\ UNCHANGED <<handle, answer, notified, missed>> /\ WorkerFinish(w)
    BY DEF PoolInv, AsyncInv, RunnerReturns, At, Threads
  <1>2. ret' = ret /\ pc' = [pc EXCEPT ![w] = "loop"] /\ held' = [held EXCEPT ![w] = EmptySlot]
    BY <1>1 DEF WorkerFinish
  <1>3. \A t \in Threads : Goes(t) BY <1>1, <1>2 DEF Goes, TypeOK, AsyncTypeOK
  <1>4. step' = [t \in Threads |-> step'[t]]
    BY <1>1 DEF AsyncTypeOK
  <1>5. Next BY <1>1 DEF Next
  <1> QED BY <1>1, <1>3, <1>4, <1>5, AsyncFrame

(* The pool's answer, which is one about the task asked for.               *)
LEMMA AnsweredAsync ==
  ASSUME PoolInv, AsyncInv, NEW t \in Threads, NEW id \in Ids,
         WaitAnswered(t, id) \/ TryAnswered(t, id)
  PROVE  AsyncInv'
  <1>1. TypeOK /\ AsyncTypeOK BY DEF PoolInv, AsyncInv
  <1>2. Next BY DEF WaitAnswered, TryAnswered, WaitStep, Next
  <1>3. PoolInv' BY <1>2, NextPoolInv
  <1>4. /\ pc' = [pc EXCEPT ![t] = "run"] /\ held' = held
        /\ \E val, op : /\ ret' = [ret EXCEPT ![t] = [id |-> id, val |-> val, op |-> op]]
                        /\ op \in {"wait", "try_wait"}
                        /\ WaitAnswered(t, id) => op = "wait"
        /\ UNCHANGED <<handle, answer, notified, missed>>
    BY DEF WaitAnswered, TryAnswered, WaitReturn, WaitMissing, TryWait, Returned
  <1>5. step[t] = "none" /\ \/ step' = [step EXCEPT ![t] = "none"]
                            \/ /\ step' = [step EXCEPT ![t] = "got"]
                               /\ ret'[t].op = "wait" \/ ret'[t].val # Null
    <2>1. CASE WaitAnswered(t, id)
      BY <1>1, <1>4, <2>1 DEF WaitAnswered, At, TypeOK
    <2>2. CASE TryAnswered(t, id)
      BY <2>2 DEF TryAnswered, At
    <2> QED BY <2>1, <2>2
  <1>6. ret'[t].op \in {"wait", "try_wait"} /\ ret'[t].id = id BY <1>1, <1>4 DEF TypeOK
  <1>7. step'[t] = "got" => IsResultOf(ret[t].val, ret[t].id)'
    <2>1. WaitAnswersItsTask' BY <1>3 DEF PoolInv
    <2>2. /\ ret'[t].op = "wait" => \/ ret'[t].val = ret'[t].id
                                    \/ ret'[t].val = Null /\ Overwritten(ret[t].id)'
          /\ ret'[t].op = "try_wait" => \/ ret'[t].val \in {ret'[t].id, Null}
                                        \/ ret'[t].val = Gone /\ Overwritten(ret[t].id)'
      BY <2>1 DEF WaitAnswersItsTask
    <2> QED BY <1>1, <1>5, <1>6, <2>2 DEF AsyncTypeOK, IsResultOf
  <1>8. \A v \in Threads : Goes(v)
    BY <1>1, <1>4, <1>5, <1>6, <1>7 DEF Goes, TypeOK, AsyncTypeOK
  <1>9. step' = [v \in Threads |-> step'[v]]
    BY <1>1, <1>5 DEF AsyncTypeOK
  <1> QED BY <1>2, <1>4, <1>8, <1>9, AsyncFrame

-----------------------------------------------------------------------------
(* The steps on a handle, and those on the parked fibers: the pool stays   *)
(* as it is.                                                               *)
LEMMA SameAnswers ==
  ASSUME UNCHANGED vars
  PROVE  \A val, id : IsResultOf(val, id)' = IsResultOf(val, id)
  BY DEF vars, pool, IsResultOf, Overwritten

(* A result is stored only over or under an answer about the same task.    *)
LEMMA Stores ==
  ASSUME AsyncTypeOK, UNCHANGED vars, NEW id \in Ids, NEW val \in Results,
         IsResultOf(val, id), Kept(id, val)
  PROVE  /\ handle' \in [Ids -> [result : Results, status : {0, 1}]]
         /\ \A j \in Ids : handle'[j].status = handle[j].status
         /\ \A j \in Ids : IsResultOf(handle[j].result, j) => IsResultOf(handle[j].result, j)'
         /\ IsResultOf(handle[id].result, id)'
  <1>1. /\ handle' \in [Ids -> [result : Results, status : {0, 1}]]
        /\ \A j \in Ids : /\ handle'[j].status = handle[j].status
                          /\ handle'[j].result = IF j = id THEN val ELSE handle[j].result
    BY DEF AsyncTypeOK, Kept
  <1> QED BY <1>1, SameAnswers

(* A handle is marked when it holds an answer.                             *)
LEMMA Marks ==
  ASSUME AsyncTypeOK, UNCHANGED vars, NEW id \in Ids, Marked(id)
  PROVE  /\ handle' \in [Ids -> [result : Results, status : {0, 1}]]
         /\ \A j \in Ids : /\ handle'[j].result = handle[j].result
                           /\ j # id => handle'[j].status = handle[j].status
  BY DEF AsyncTypeOK, Marked

LEMMA RunnerStoresAsync ==
  ASSUME PoolInv, AsyncInv, NEW w \in Workers, RunnerStores(w)
  PROVE  AsyncInv'
  <1>1. /\ AsyncTypeOK /\ StepsInv /\ StoredInv /\ AnswersAreTheTasks /\ ParkedFibersAreWoken
        /\ w \in Threads /\ held[w].id \in Ids /\ held[w].func = held[w].id
    BY HandsHoldIds DEF PoolInv, RunOnce, Runs, AsyncInv, Threads, RunnerStores
  <1>2. /\ UNCHANGED vars /\ UNCHANGED <<pc, ret, held, answer, notified, missed>>
        /\ pc[w] = "run" /\ step[w] = "none" /\ step' = [step EXCEPT ![w] = "stored"]
        /\ Kept(held[w].id, held[w].id)
    BY <1>1 DEF RunnerStores, At, vars
  <1>3. IsResultOf(held[w].id, held[w].id) BY DEF IsResultOf
  <1>4. /\ handle' \in [Ids -> [result : Results, status : {0, 1}]]
        /\ \A j \in Ids : handle'[j].status = handle[j].status
        /\ \A j \in Ids : IsResultOf(handle[j].result, j) => IsResultOf(handle[j].result, j)'
        /\ IsResultOf(handle[held[w].id].result, held[w].id)'
    BY <1>1, <1>2, <1>3, Stores DEF Results
  <1>5. \A t \in Threads \ {w} : step'[t] = step[t] BY <1>1, <1>2 DEF AsyncTypeOK
  <1>6. step'[w] = "stored" BY <1>1, <1>2 DEF AsyncTypeOK
  <1>7. AsyncTypeOK' BY <1>1, <1>2, <1>4 DEF AsyncTypeOK
  <1>8. StepsInv' BY <1>1, <1>2, <1>5, <1>6, SameAnswers DEF StepsInv
  <1>9. StoredInv'
    BY <1>1, <1>2, <1>4, <1>5, <1>6, HandsHoldIds DEF StoredInv, Threads
  <1>10. AnswersAreTheTasks' BY <1>1, <1>2, <1>4, SameAnswers DEF AnswersAreTheTasks
  <1>11. ParkedFibersAreWoken'
    BY <1>1, <1>2, <1>5, <1>6 DEF ParkedFibersAreWoken, Threads
  <1> QED BY <1>7, <1>8, <1>9, <1>10, <1>11 DEF AsyncInv

LEMMA RunnerMarksAsync ==
  ASSUME PoolInv, AsyncInv, NEW w \in Workers, RunnerMarks(w)
  PROVE  AsyncInv'
  <1>1. /\ AsyncTypeOK /\ StepsInv /\ StoredInv /\ AnswersAreTheTasks /\ ParkedFibersAreWoken
        /\ w \in Threads /\ held[w].id \in Ids
    BY HandsHoldIds DEF AsyncInv, Threads
  <1>2. /\ UNCHANGED vars /\ UNCHANGED <<pc, ret, held, answer, notified, missed>>
        /\ step[w] = "stored" /\ step' = [step EXCEPT ![w] = "marked"]
        /\ Marked(held[w].id)
    BY <1>1 DEF RunnerMarks, At, vars
  <1>3. IsResultOf(handle[held[w].id].result, held[w].id) BY <1>1, <1>2 DEF StoredInv
  <1>4. /\ handle' \in [Ids -> [result : Results, status : {0, 1}]]
        /\ \A j \in Ids : /\ handle'[j].result = handle[j].result
                          /\ j # held[w].id => handle'[j].status = handle[j].status
    BY <1>1, <1>2, Marks
  <1>5. /\ \A t \in Threads \ {w} : step'[t] = step[t]
        /\ step'[w] = "marked"
    BY <1>1, <1>2 DEF AsyncTypeOK
  <1>7. AsyncTypeOK' BY <1>1, <1>2, <1>4 DEF AsyncTypeOK
  <1>8. StepsInv' BY <1>1, <1>2, <1>5, SameAnswers DEF StepsInv
  <1>9. StoredInv'
    BY <1>1, <1>2, <1>4, <1>5, SameAnswers, HandsHoldIds DEF StoredInv, Threads
  <1>10. AnswersAreTheTasks'
    BY <1>1, <1>2, <1>3, <1>4, SameAnswers DEF AnswersAreTheTasks
  <1>11. ParkedFibersAreWoken'
    BY <1>1, <1>2, <1>5 DEF ParkedFibersAreWoken, Threads
  <1> QED BY <1>7, <1>8, <1>9, <1>10, <1>11 DEF AsyncInv

(* The runner wakes those that are parked for its task: who is parked for  *)
(* it later has missed it.                                                 *)
LEMMA RunnerWakesAsync ==
  ASSUME PoolInv, AsyncInv, NEW w \in Workers, RunnerWakes(w)
  PROVE  AsyncInv'
  <1>1. /\ AsyncTypeOK /\ StepsInv /\ StoredInv /\ AnswersAreTheTasks /\ ParkedFibersAreWoken
        /\ w \in Threads
    BY DEF AsyncInv, Threads
  <1>2. /\ UNCHANGED vars /\ UNCHANGED <<pc, ret, held, handle, answer>>
        /\ step[w] = "marked"
        /\ step' = [t \in Threads |-> IF t = w THEN "ended"
                                      ELSE IF t \in Awakened(held[w].id) THEN "none" ELSE step[t]]
        /\ notified' = notified \cup {held[w].id} /\ missed' = missed \ Awakened(held[w].id)
    BY <1>1 DEF RunnerWakes, vars
  <1>5. /\ \A t \in Threads \ {w} : step'[t] \in {step[t], "none"}
        /\ step'[w] = "ended"
    BY <1>1, <1>2
  <1>7. AsyncTypeOK' BY <1>1, <1>2, <1>5 DEF AsyncTypeOK
  <1>8. StepsInv' BY <1>1, <1>2, <1>5, SameAnswers DEF StepsInv
  <1>9. StoredInv'
    BY <1>1, <1>2, <1>5, SameAnswers DEF StoredInv, Threads
  <1>10. AnswersAreTheTasks' BY <1>1, <1>2, SameAnswers DEF AnswersAreTheTasks
  <1>11. ParkedFibersAreWoken'
    <2>1. ASSUME NEW c \in Clients, step'[c] = "parked", ret'[c].id \in notified'
          PROVE  c \in missed'
      <3>1. c \in Threads /\ step[c] = "parked" /\ c \notin Awakened(held[w].id)
        BY <1>2, <2>1 DEF Threads
      <3>2. ret[c].id # held[w].id BY <3>1 DEF Awakened
      <3>3. c \in missed BY <1>1, <1>2, <2>1, <3>1, <3>2 DEF ParkedFibersAreWoken
      <3> QED BY <1>2, <3>1, <3>3
    <2> QED BY <2>1 DEF ParkedFibersAreWoken
  <1> QED BY <1>7, <1>8, <1>9, <1>10, <1>11 DEF AsyncInv

LEMMA CallerStoresAsync ==
  ASSUME PoolInv, AsyncInv, NEW t \in Threads, CallerStores(t)
  PROVE  AsyncInv'
  <1>1. /\ AsyncTypeOK /\ StepsInv /\ StoredInv /\ AnswersAreTheTasks /\ ParkedFibersAreWoken
        /\ step[t] = "got" /\ ret[t].id \in Ids /\ ret[t].val \in Results
    BY HandsHoldIds DEF AsyncInv, CallerStores, At
  <1>2. /\ UNCHANGED vars /\ UNCHANGED <<pc, ret, held, answer, notified, missed>>
        /\ step' = [step EXCEPT ![t] = "kept"]
        /\ Kept(ret[t].id, ret[t].val)
    BY <1>1 DEF CallerStores, At, vars
  <1>3. IsResultOf(ret[t].val, ret[t].id) BY <1>1 DEF StepsInv
  <1>4. /\ handle' \in [Ids -> [result : Results, status : {0, 1}]]
        /\ \A j \in Ids : handle'[j].status = handle[j].status
        /\ \A j \in Ids : IsResultOf(handle[j].result, j) => IsResultOf(handle[j].result, j)'
        /\ IsResultOf(handle[ret[t].id].result, ret[t].id)'
    BY <1>1, <1>2, <1>3, Stores
  <1>5. /\ \A v \in Threads \ {t} : step'[v] = step[v]
        /\ step'[t] = "kept"
    BY <1>1, <1>2 DEF AsyncTypeOK
  <1>7. AsyncTypeOK' BY <1>1, <1>2, <1>4 DEF AsyncTypeOK
  <1>8. StepsInv' BY <1>1, <1>2, <1>5, SameAnswers DEF StepsInv
  <1>9. StoredInv'
    BY <1>1, <1>2, <1>4, <1>5, HandsHoldIds DEF StoredInv, Threads
  <1>10. AnswersAreTheTasks' BY <1>1, <1>2, <1>4, SameAnswers DEF AnswersAreTheTasks
  <1>11. ParkedFibersAreWoken' BY <1>1, <1>2, <1>5 DEF ParkedFibersAreWoken, Threads
  <1> QED BY <1>7, <1>8, <1>9, <1>10, <1>11 DEF AsyncInv

LEMMA CallerReturnsAsync ==
  ASSUME PoolInv, AsyncInv, NEW t \in Threads, CallerReturns(t)
  PROVE  AsyncInv'
  <1>1. /\ AsyncTypeOK /\ StepsInv /\ StoredInv /\ AnswersAreTheTasks /\ ParkedFibersAreWoken
        /\ step[t] = "kept" /\ ret[t].id \in Ids
    BY HandsHoldIds DEF AsyncInv, CallerReturns, At
  <1>2. /\ UNCHANGED vars /\ UNCHANGED <<pc, ret, held, notified, missed>>
        /\ step' = [step EXCEPT ![t] = "none"]
        /\ Marked(ret[t].id)
        /\ answer' = [answer EXCEPT ![t] = [id |-> ret[t].id, val |-> handle[ret[t].id].result]]
    BY <1>1 DEF CallerReturns, At, vars
  <1>3. IsResultOf(handle[ret[t].id].result, ret[t].id) /\ handle[ret[t].id].result \in Results
    BY <1>1 DEF StoredInv, AsyncTypeOK
  <1>4. /\ handle' \in [Ids -> [result : Results, status : {0, 1}]]
        /\ \A j \in Ids : /\ handle'[j].result = handle[j].result
                          /\ j # ret[t].id => handle'[j].status = handle[j].status
    BY <1>1, <1>2, Marks
  <1>5. /\ \A v \in Threads \ {t} : step'[v] = step[v] /\ answer'[v] = answer[v]
        /\ step'[t] = "none" /\ answer'[t] = [id |-> ret[t].id, val |-> handle[ret[t].id].result]
    BY <1>1, <1>2 DEF AsyncTypeOK
  <1>7. AsyncTypeOK' BY <1>1, <1>2, <1>3, <1>4 DEF AsyncTypeOK
  <1>8. StepsInv' BY <1>1, <1>2, <1>5, SameAnswers DEF StepsInv
  <1>9. StoredInv'
    BY <1>1, <1>2, <1>4, <1>5, SameAnswers, HandsHoldIds DEF StoredInv, Threads
  <1>10. AnswersAreTheTasks'
    BY <1>1, <1>3, <1>4, <1>5, <1>2, SameAnswers DEF AnswersAreTheTasks
  <1>11. ParkedFibersAreWoken' BY <1>1, <1>2, <1>5 DEF ParkedFibersAreWoken, Threads
  <1> QED BY <1>7, <1>8, <1>9, <1>10, <1>11 DEF AsyncInv

(* A status that is set says that the result may be read.                  *)
LEMMA TryKnownAsync ==
  ASSUME PoolInv, AsyncInv, NEW t \in Threads, NEW id \in Ids, TryKnown(t, id)
  PROVE  AsyncInv'
  <1>1. AsyncTypeOK /\ StepsInv /\ StoredInv /\ AnswersAreTheTasks /\ ParkedFibersAreWoken
    BY DEF AsyncInv
  <1>2. /\ UNCHANGED vars /\ UNCHANGED <<pc, ret, held, handle, step, notified, missed>>
        /\ answer' = [answer EXCEPT ![t] = [id |-> id, val |-> handle[id].result]]
        /\ handle[id].status # 0
    BY DEF TryKnown, Asks, vars
  <1>3. IsResultOf(handle[id].result, id) /\ handle[id].result \in Results
    BY <1>1, <1>2 DEF AnswersAreTheTasks, AsyncTypeOK
  <1>4. AsyncTypeOK' BY <1>1, <1>2, <1>3 DEF AsyncTypeOK
  <1>5. /\ \A v \in Threads \ {t} : answer'[v] = answer[v]
        /\ answer'[t] = [id |-> id, val |-> handle[id].result]
    BY <1>1, <1>2 DEF AsyncTypeOK
  <1>6. AnswersAreTheTasks'
    BY <1>1, <1>2, <1>3, <1>5, SameAnswers DEF AnswersAreTheTasks
  <1>7. StepsInv' BY <1>1, <1>2, SameAnswers DEF StepsInv
  <1>8. StoredInv' BY <1>1, <1>2, SameAnswers DEF StoredInv
  <1>9. ParkedFibersAreWoken' BY <1>1, <1>2 DEF ParkedFibersAreWoken
  <1> QED BY <1>4, <1>6, <1>7, <1>8, <1>9 DEF AsyncInv

LEMMA ParkAsync ==
  ASSUME PoolInv, AsyncInv, NEW c \in Clients, Park(c)
  PROVE  AsyncInv'
  <1>1. /\ AsyncTypeOK /\ StepsInv /\ StoredInv /\ AnswersAreTheTasks /\ ParkedFibersAreWoken
        /\ c \in Threads
    BY DEF AsyncInv, Threads
  <1>2. /\ UNCHANGED vars /\ UNCHANGED <<pc, ret, held, handle, answer, notified>>
        /\ step' = [step EXCEPT ![c] = "parked"] /\ pc[c] = "run"
        /\ missed' = IF ret[c].id \in notified THEN missed \cup {c} ELSE missed
    BY DEF Park, At, vars
  <1>3. /\ \A v \in Threads \ {c} : step'[v] = step[v]
        /\ step'[c] = "parked"
    BY <1>1, <1>2 DEF AsyncTypeOK
  <1>4. AsyncTypeOK' BY <1>1, <1>2 DEF AsyncTypeOK
  <1>5. StepsInv' BY <1>1, <1>2, <1>3, SameAnswers DEF StepsInv
  <1>6. StoredInv' BY <1>1, <1>2, <1>3, SameAnswers DEF StoredInv, Threads
  <1>7. AnswersAreTheTasks' BY <1>1, <1>2, SameAnswers DEF AnswersAreTheTasks
  <1>8. ParkedFibersAreWoken' BY <1>1, <1>2, <1>3 DEF ParkedFibersAreWoken, Threads
  <1> QED BY <1>4, <1>5, <1>6, <1>7, <1>8 DEF AsyncInv

-----------------------------------------------------------------------------
LEMMA InitAsyncInv == AsyncInit => AsyncInv
  <1> SUFFICES ASSUME AsyncInit PROVE AsyncInv OBVIOUS
  <1>1. AsyncTypeOK BY DEF AsyncInit, AsyncTypeOK, Unasked, Results
  <1>2. \A t \in Threads : step[t] = "none" /\ answer[t].id = Null
    BY DEF AsyncInit, Unasked
  <1>3. \A id \in Ids : handle[id].status # 1 BY DEF AsyncInit
  <1> QED BY <1>1, <1>2, <1>3
          DEF AsyncInv, StepsInv, StoredInv, AnswersAreTheTasks, ParkedFibersAreWoken, Threads

LEMMA NextAsyncInv == PoolInv /\ AsyncInv /\ [AsyncNext]_asyncVars => AsyncInv'
  <1> SUFFICES ASSUME PoolInv, AsyncInv, [AsyncNext]_asyncVars PROVE AsyncInv' OBVIOUS
  <1>1. [Next]_vars BY PoolMoves
  <1>2. CASE PoolStep
    BY <1>1, <1>2, PoolStepKeepsHands, PoolStepAsync DEF PoolStep
  <1>3. ASSUME NEW w \in Workers, Runner(w) PROVE AsyncInv'
    BY <1>3, RunnerStoresAsync, RunnerMarksAsync, RunnerWakesAsync, RunnerReturnsAsync DEF Runner
  <1>4. ASSUME NEW t \in Threads, Spawn(t) \/ Blocks(t) PROVE AsyncInv'
    <2>1. HandsKept BY <1>4, PoolStepKeepsHands
    <2>2. UNCHANGED async BY <1>4 DEF Spawn, Blocks
    <2> QED BY <1>1, <2>1, <2>2, PoolStepAsync
  <1>5. ASSUME NEW t \in Threads, Caller(t) PROVE AsyncInv'
    BY <1>5, CallerStoresAsync, CallerReturnsAsync DEF Caller
  <1>6. ASSUME NEW t \in Threads, NEW id \in Ids,
               WaitAnswered(t, id) \/ TryAnswered(t, id) \/ TryKnown(t, id)
        PROVE  AsyncInv'
    BY <1>6, AnsweredAsync, TryKnownAsync
  <1>7. CASE UNCHANGED asyncVars
    <2>1. UNCHANGED vars /\ UNCHANGED async BY <1>7 DEF asyncVars
    <2> QED BY <1>1, <2>1, PoolStepKeepsHands, PoolStepAsync
  <1> QED BY <1>2, <1>3, <1>4, <1>5, <1>6, <1>7, ParkAsync DEF AsyncNext

LEMMA AsyncInvariant == AsyncSpec => []AsyncInv
  <1> QED BY InitAsyncInv, NextAsyncInv, AsyncUsesThePool, PoolInvariant, PTL DEF AsyncSpec

(* A handle marked complete holds its own task's result, and a caller is   *)
(* given the result of the task it asked for, whoever else writes it.      *)
THEOREM AnswersCorrectAsync == AsyncSpec => []AnswersAreTheTasks
  <1>1. AsyncInv => AnswersAreTheTasks BY DEF AsyncInv
  <1> QED BY <1>1, AsyncInvariant, PTL

(* Whoever is parked for a task whose runner has woken the others was      *)
(* between its test and its wait.                                          *)
THEOREM ParkedAreWoken == AsyncSpec => []ParkedFibersAreWoken
  <1>1. AsyncInv => ParkedFibersAreWoken BY DEF AsyncInv
  <1> QED BY <1>1, AsyncInvariant, PTL
=============================================================================
