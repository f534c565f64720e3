---------------------------- MODULE StopTheWorld ----------------------------
(* How the native runtime (self-hosted/atl_rt.at) stops the world for a
   collection.  Any thread that allocates may become the collector.  It asks by
   rt_gc_pending; workers that run a task are counted in rt_gc_in_at, the main
   thread has a flag of its own.  A thread that meets the request at a safe point
   (the entry of a function that calls others, an allocation, a collection of its
   own, a wait for a task, the next card) takes itself out of the count and waits.

   Sections under g_sched_cs are single steps.  Cards and their contexts are those
   of NativeScheduler: here a worker may always find one. *)
EXTENDS Integers, FiniteSets

CONSTANTS
  Workers, Main,     \* threads
  Nobody,            \* no thread
  MaxCollections     \* bound: collections over a run

ASSUME WorldAssumption ==
  Main \notin Workers /\ Nobody \notin Workers \cup {Main} /\ IsFiniteSet(Workers) /\ MaxCollections \in Nat

WorldThreads == Workers \cup {Main}

VARIABLES
  where,          \* where a thread is
  pending,     \* rt_gc_pending
  initiator,   \* rt_gc_initiator_tid
  inAt,        \* rt_gc_in_at
  mainParked,  \* rt_gc_main_parked
  lock,        \* who has rt_gc_collect_lock
  mainWoken,   \* a wake-up of g_main_cv the main thread has still to see
  begun,       \* collections begun
  slipped      \* threads that were between their look at pending and the next
               \*   step when it was set, and run since (no code reads this)

worldVars == <<where, pending, initiator, inAt, mainParked, lock, mainWoken, begun, slipped>>
shared == <<pending, initiator, lock, begun>>

WorldInit ==
  /\ where = [t \in WorldThreads |-> IF t = Main THEN "code" ELSE "loop"]
  /\ pending = FALSE /\ initiator = Nobody /\ inAt = 0 /\ mainParked = FALSE
  /\ lock = Nobody /\ mainWoken = FALSE /\ begun = 0 /\ slipped = {}

MoveTo(t, place) == where' = [where EXCEPT ![t] = place]
Asked(t) == pending /\ initiator # t

(* A thread takes itself out of the world, and comes back.                   *)
TakeOut(t) ==
  IF t = Main THEN mainParked' = TRUE /\ UNCHANGED inAt ELSE inAt' = inAt - 1 /\ UNCHANGED mainParked
BringBack(t) ==
  IF t = Main THEN mainParked' = FALSE /\ UNCHANGED inAt ELSE inAt' = inAt + 1 /\ UNCHANGED mainParked

(* A worker pops a card and looks at pending in one section; it counts itself
   after it has left the section.                                            *)
TakeCard(w) ==
  /\ where[w] = "loop" /\ MoveTo(w, IF pending THEN "resting" ELSE "admitted")
  /\ UNCHANGED <<shared, inAt, mainParked, mainWoken, slipped>>
Rested(w) ==
  /\ where[w] = "resting" /\ ~pending /\ MoveTo(w, "loop")
  /\ UNCHANGED <<shared, inAt, mainParked, mainWoken, slipped>>
EnterTask(w) ==
  /\ where[w] = "admitted" /\ MoveTo(w, "code") /\ BringBack(w)
  /\ UNCHANGED <<shared, mainWoken, slipped>>
LeaveTask(w) ==   \* the task waits, or ends, which may wake the main thread
  /\ w \in Workers /\ where[w] = "code" /\ MoveTo(w, "loop") /\ TakeOut(w)
  /\ mainWoken' \in {mainWoken, where[Main] = "asleep"} /\ slipped' = slipped \ {w}
  /\ UNCHANGED shared

(* atl_stack_guard: look at pending, step out, wait in a section, step in again
   in the section in which pending was seen cleared.                         *)
Guard(t) ==
  /\ where[t] = "code" /\ Asked(t) /\ MoveTo(t, "guard") /\ slipped' = slipped \ {t}
  /\ UNCHANGED <<shared, inAt, mainParked, mainWoken>>
Park(t) ==
  /\ where[t] = "guard" /\ MoveTo(t, "parked") /\ TakeOut(t)
  /\ UNCHANGED <<shared, mainWoken, slipped>>
Resume(t) ==
  /\ where[t] = "parked" /\ ~pending /\ MoveTo(t, "code") /\ BringBack(t)
  /\ UNCHANGED <<shared, mainWoken, slipped>>

(* The main thread at an allocation, and any thread that wants to collect while
   another does, poll pending instead; between the last look and the step back
   they are in no section.                                                   *)
StepOut(t) == MoveTo(t, "polling") /\ TakeOut(t) /\ slipped' = slipped \ {t}
Allocate ==
  /\ where[Main] = "code" /\ Asked(Main) /\ StepOut(Main) /\ UNCHANGED <<shared, mainWoken>>
Cleared(t) ==
  /\ where[t] = "polling" /\ ~pending /\ MoveTo(t, "late")
  /\ UNCHANGED <<shared, inAt, mainParked, mainWoken, slipped>>
StepIn(t) ==
  /\ where[t] = "late" /\ MoveTo(t, "code") /\ BringBack(t)
  /\ UNCHANGED <<shared, mainWoken, slipped>>

(* atl_task_wait and the channels, in the main thread.  Its wait for a task looks
   at pending and is woken by the collector; its wait at a channel is neither. *)
WaitForTask ==
  /\ where[Main] = "code"
  /\ \/ Asked(Main) /\ MoveTo(Main, "parked") /\ TakeOut(Main) /\ slipped' = slipped \ {Main}
     \/ ~Asked(Main) /\ MoveTo(Main, "asleep") /\ UNCHANGED <<inAt, mainParked, slipped>>
  /\ mainWoken' = FALSE /\ UNCHANGED shared
MainWakes ==
  /\ where[Main] = "asleep" /\ mainWoken /\ mainWoken' = FALSE
  /\ \/ MoveTo(Main, "code") /\ UNCHANGED <<inAt, mainParked, slipped>>
     \/ Asked(Main) /\ MoveTo(Main, "parked") /\ TakeOut(Main) /\ slipped' = slipped \ {Main}
     \/ ~Asked(Main) /\ UNCHANGED <<where, inAt, mainParked, slipped>>
  /\ UNCHANGED shared
WaitAtChannel ==
  /\ where[Main] = "code" /\ MoveTo(Main, "channel")
  /\ UNCHANGED <<shared, inAt, mainParked, mainWoken, slipped>>
Transfer ==   \* a task sends or receives at that channel
  /\ where[Main] = "channel" /\ (\E w \in Workers : where[w] = "code") /\ MoveTo(Main, "code")
  /\ UNCHANGED <<shared, inAt, mainParked, mainWoken, slipped>>

(* atl_gc_collect: the claim is decided under a spin lock, which is given back
   once the request is made or another's was seen.                           *)
Claim(t) ==
  /\ where[t] = "code" /\ lock = Nobody /\ begun < MaxCollections /\ ~pending
  /\ lock' = t /\ MoveTo(t, "claim") /\ UNCHANGED <<pending, initiator, inAt, mainParked, mainWoken, begun, slipped>>
Refused(t) ==
  /\ where[t] = "code" /\ lock = Nobody /\ Asked(t) /\ StepOut(t) /\ UNCHANGED <<shared, mainWoken>>
BadWakeMain == mainWoken
WakeMain == mainWoken \/ where[Main] = "asleep"
Request(t) ==
  /\ where[t] = "claim" /\ MoveTo(t, "stopping")
  /\ initiator' = t /\ pending' = TRUE /\ mainWoken' = WakeMain /\ lock' = Nobody /\ begun' = begun + 1
  /\ slipped' = {u \in WorldThreads : where[u] \in {"admitted", "late"}} /\ UNCHANGED <<inAt, mainParked>>

BadStopped(t) == inAt <= 1 /\ (t # Main => mainParked)
Stopped(t) == inAt <= (IF t = Main THEN 0 ELSE 1) /\ (t # Main => mainParked)
CollectGarbage(t) ==
  /\ where[t] = "stopping" /\ Stopped(t) /\ MoveTo(t, "collecting")
  /\ UNCHANGED <<shared, inAt, mainParked, mainWoken, slipped>>
Release(t) ==
  /\ where[t] = "collecting" /\ MoveTo(t, "code") /\ pending' = FALSE
  /\ UNCHANGED <<initiator, lock, begun, inAt, mainParked, mainWoken, slipped>>

WorkerStep(w) == TakeCard(w) \/ Rested(w) \/ EnterTask(w) \/ LeaveTask(w)
Return(t) == Park(t) \/ Resume(t) \/ Cleared(t) \/ StepIn(t)
Collector(t) == Request(t) \/ CollectGarbage(t) \/ Release(t)

WorldNext ==
  \/ \E w \in Workers : WorkerStep(w)
  \/ \E t \in WorldThreads : Guard(t) \/ Return(t) \/ Claim(t) \/ Refused(t) \/ Collector(t)
  \/ Allocate \/ WaitForTask \/ MainWakes \/ WaitAtChannel \/ Transfer

(* WorldFairness: the system runs every thread; a task that runs comes to a safe point
   or leaves its worker (functions that call others begin with one).  Nobody has
   to collect, to wait, or to use a channel.                                 *)
WorldFairness ==
  /\ \A w \in Workers : WF_worldVars(EnterTask(w)) /\ WF_worldVars(Rested(w))
  /\ \A t \in WorldThreads : WF_worldVars(Guard(t)) /\ WF_worldVars(Return(t)) /\ WF_worldVars(Collector(t))
  /\ WF_worldVars(MainWakes)

WorldSpec == WorldInit /\ [][WorldNext]_worldVars /\ WorldFairness

-----------------------------------------------------------------------------
(* While one thread collects, no other collects, and none runs the program except
   one that had looked at pending and not yet stepped in when it was set (a worker
   with a new card, a thread that polled): nothing holds those back.         *)
CollectorIsAlone ==
  \A c, t \in WorldThreads : where[c] = "collecting" /\ t # c =>
    where[t] # "collecting" /\ (where[t] = "code" => t \in slipped)

(* A collection that was asked for comes to its end, and who waited for that goes
   on, unless the main thread sleeps at a channel: the collector waits for its
   flag, which it cannot set there, and whoever could wake it may be parked.  *)
CollectionsEnd ==
  /\ pending ~> ~pending \/ where[Main] = "channel"
  /\ \A t \in WorldThreads :
       where[t] \in {"parked", "polling", "resting"} ~> where[t] \notin {"parked", "polling", "resting"} \/ where[Main] = "channel"
=============================================================================
