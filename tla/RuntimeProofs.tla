---------------------------- MODULE RuntimeProofs ----------------------------
(***************************************************************************)
(* The schedulers' world: the fibers of the C runtime, for any number of   *)
(* threads, fibers and spawns, and their timers' heap, for any number of   *)
(* sleepers, times and places; its dictionaries, for any number of keys,   *)
(* buckets and values; stopping the world in the native runtime, for any   *)
(* number of workers.                                                      *)
(*                                                                         *)
(* Every fiber is in one place (OnePlace); the one a thread                *)
(* has in its hands is ready and is the one being polled (HandInv); the    *)
(* free stack holds the slots that were recycled, whose handles are gone   *)
(* (FreeInv); a handle still held has not been read, and a fiber that is   *)
(* done has the result of its spawn until it is (ResultInv); who waits for *)
(* a fiber, fiber or thread, holds its handle (WaitInv, AwaitInv).  The    *)
(* last is why no slot is recycled under a waiter.                         *)
(*                                                                         *)
(* While a thread collects it is alone: rt_gc_in_at counts the workers     *)
(* that are inside (CountInv), the lock and the request belong to one      *)
(* thread each (OwnersInv), and while a request stands, whoever is about   *)
(* to step in was between its look and that step when it was made          *)
(* (LateInv).  From the counts it follows that everybody else is out when  *)
(* the collector goes on, and from the rest that nobody but those comes    *)
(* back (AloneInv).                                                        *)
(*                                                                         *)
(* The heap's two loops keep an order that fails at most where they are;   *)
(* a tick is a loop of them.  Each bucket of a dictionary is the list of   *)
(* the meant keys that belong into it, each once, with their values.       *)
(***************************************************************************)
EXTENDS FiberScheduler, TimerHeap, Dict, StopTheWorld, CommonLemmas

-----------------------------------------------------------------------------
(* Stopping the world.                                                     *)
In == {"code", "guard", "claim", "stopping", "collecting"}
OfMain == {"asleep", "channel"}
OfWorkers == {"loop", "resting", "admitted"}
Out == {"parked", "polling", "late"}

Inside == {w \in Workers : where[w] \in In}

TypeOK ==
  /\ where \in [WorldThreads -> In \cup Out \cup OfMain \cup OfWorkers]
  /\ where[Main] \notin OfWorkers /\ \A w \in Workers : where[w] \notin OfMain
  /\ pending \in BOOLEAN /\ mainParked \in BOOLEAN /\ inAt \in Int
  /\ slipped \subseteq WorldThreads

CountInv == inAt = Cardinality(Inside) /\ mainParked = (where[Main] \in Out)

OwnersInv == \A t \in WorldThreads :
  /\ where[t] = "claim" => lock = t /\ ~pending
  /\ where[t] \in {"stopping", "collecting"} => pending /\ initiator = t

LateInv == pending => \A t \in WorldThreads : where[t] \in {"admitted", "late"} => t \in slipped

AloneInv == \A c, t \in WorldThreads :
  where[c] = "collecting" /\ t # c /\ where[t] \in {"code"} \cup OfMain => t \in slipped

WorldInv == TypeOK /\ CountInv /\ OwnersInv /\ LateInv /\ AloneInv

-----------------------------------------------------------------------------
(* One thread moves: the count of those inside changes by it alone.          *)
LEMMA Moves ==
  ASSUME TypeOK, NEW t \in WorldThreads, NEW p, MoveTo(t, p)
  PROVE  /\ Cardinality(Inside) \in Nat
         /\ t = Main => Cardinality(Inside') = Cardinality(Inside)
         /\ t \in Workers =>
              Cardinality(Inside') = Cardinality(Inside)
                - (IF where[t] \in In THEN 1 ELSE 0) + (IF p \in In THEN 1 ELSE 0)
<1>1. IsFiniteSet(Inside) /\ IsFiniteSet(Inside \ {t})
  BY WorldAssumption, FS_Subset DEF Inside
<1>2. Cardinality(Inside) \in Nat
  BY <1>1, FS_CardinalityType
<1>3. CASE t = Main
  <2>1. Inside' = Inside
    BY <1>3, WorldAssumption DEF Inside, MoveTo, TypeOK, WorldThreads
  <2> QED  BY <1>2, <1>3, <2>1, WorldAssumption
<1>4. CASE t \in Workers
  <2> DEFINE Others == Inside \ {t}
  <2>1. Inside' = IF p \in In THEN Others \cup {t} ELSE Others
    BY <1>4 DEF Inside, MoveTo, TypeOK, WorldThreads
  <2>2. Inside = IF where[t] \in In THEN Others \cup {t} ELSE Others
    BY <1>4 DEF Inside
  <2>3. Cardinality(Others \cup {t}) = Cardinality(Others) + 1 /\ Cardinality(Others) \in Nat
    BY <1>1, FS_AddElement, FS_CardinalityType
  <2> HIDE DEF Others
  <2>4. Cardinality(Inside') = Cardinality(Others) + (IF p \in In THEN 1 ELSE 0)
    BY <2>1, <2>3
  <2>5. Cardinality(Inside) = Cardinality(Others) + (IF where[t] \in In THEN 1 ELSE 0)
    BY <2>2, <2>3
  <2> QED  BY <1>2, <1>4, <2>3, <2>4, <2>5, WorldAssumption
<1> QED  BY <1>3, <1>4 DEF WorldThreads

(* If the count lets a collector go on, no other worker is inside.           *)
LEMMA NobodyElseInside ==
  ASSUME TypeOK, CountInv, NEW c \in WorldThreads, where[c] = "stopping", Stopped(c),
         NEW w \in Workers, w # c
  PROVE  where[w] \notin In
<1> SUFFICES ASSUME where[w] \in In PROVE FALSE
  OBVIOUS
<1>1. IsFiniteSet(Inside) /\ w \in Inside
  BY WorldAssumption, FS_Subset DEF Inside
<1>2. Cardinality(Inside) \in Nat \ {0}
  BY <1>1, FS_CardinalityType, FS_EmptySet
<1>3. CASE c = Main
  BY <1>2, <1>3 DEF Stopped, CountInv
<1>4. CASE c \in Workers
  <2>1. c \in Inside \ {w} /\ IsFiniteSet(Inside \ {w})
    BY <1>1, <1>4, FS_Subset DEF Inside, In
  <2>2. Cardinality(Inside \ {w}) = Cardinality(Inside) - 1
    BY <1>1, FS_RemoveElement
  <2>3. Cardinality(Inside \ {w}) \in Nat \ {0}
    BY <2>1, FS_CardinalityType, FS_EmptySet
  <2>4. Cardinality(Inside) <= 1
    BY <1>4, WorldAssumption DEF Stopped, CountInv
  <2> QED  BY <1>2, <2>2, <2>3, <2>4
<1> QED  BY <1>3, <1>4 DEF WorldThreads

(* The counters follow a thread that moves.                                  *)
Counts(t, p) ==
  /\ t \in Workers => /\ inAt' = inAt - (IF where[t] \in In THEN 1 ELSE 0) + (IF p \in In THEN 1 ELSE 0)
                      /\ mainParked' = mainParked
  /\ t = Main => inAt' = inAt /\ mainParked' = (p \in Out)

(* What a thread that takes itself out, or comes back, changes.              *)
LEMMA TakenOut ==
  ASSUME NEW t \in WorldThreads, TakeOut(t), mainParked \in BOOLEAN
  PROVE  /\ mainParked' \in BOOLEAN
         /\ t = Main => inAt' = inAt /\ mainParked'
         /\ t # Main => inAt' = inAt - 1 /\ mainParked' = mainParked
<1>1. CASE t = Main
  BY <1>1 DEF TakeOut
<1>2. CASE t # Main
  BY <1>2 DEF TakeOut
<1> QED  BY <1>1, <1>2

LEMMA BroughtBack ==
  ASSUME NEW t \in WorldThreads, BringBack(t), mainParked \in BOOLEAN
  PROVE  /\ mainParked' \in BOOLEAN
         /\ t = Main => inAt' = inAt /\ ~mainParked'
         /\ t # Main => inAt' = inAt + 1 /\ mainParked' = mainParked
<1>1. CASE t = Main
  BY <1>1 DEF BringBack
<1>2. CASE t # Main
  BY <1>2 DEF BringBack
<1> QED  BY <1>1, <1>2

LEMMA StillCounted ==
  ASSUME TypeOK, CountInv, NEW t \in WorldThreads, NEW p, MoveTo(t, p), Counts(t, p)
  PROVE  CountInv'
<1>1. inAt' = Cardinality(Inside')
  BY Moves, WorldAssumption DEF CountInv, Counts, WorldThreads, TypeOK
<1>2. mainParked' = (where'[Main] \in Out)
  BY WorldAssumption DEF CountInv, Counts, WorldThreads, TypeOK, MoveTo
<1> QED  BY <1>1, <1>2 DEF CountInv

-----------------------------------------------------------------------------
(* Initially, and after every step.                                          *)
LEMMA InitWorld == WorldInit => WorldInv
<1> SUFFICES ASSUME WorldInit PROVE WorldInv
  OBVIOUS
<1>1. TypeOK
  <2>1. pending \in BOOLEAN /\ mainParked \in BOOLEAN
    BY DEF WorldInit
  <2> QED  BY <2>1, WorldAssumption DEF WorldInit, TypeOK, WorldThreads, In, Out, OfMain, OfWorkers
<1>2. Inside = {}
  <2> SUFFICES ASSUME NEW w \in Workers PROVE where[w] \notin In
    BY DEF Inside
  <2>1. where[w] = "loop"
    BY WorldAssumption DEF WorldInit, WorldThreads
  <2> QED  BY <2>1 DEF In
<1>3. CountInv
  <2>1. where[Main] = "code" /\ inAt = 0 /\ ~mainParked
    BY DEF WorldInit, WorldThreads
  <2>2. inAt = Cardinality(Inside)
    BY <1>2, <2>1, FS_EmptySet
  <2>3. where[Main] \notin Out
    BY <2>1 DEF Out
  <2>4. mainParked = FALSE /\ (where[Main] \in Out) = FALSE
    BY <2>3 DEF WorldInit
  <2> QED  BY <2>2, <2>4 DEF CountInv
<1>4. OwnersInv /\ LateInv /\ AloneInv
  <2>1. ~pending /\ \A t \in WorldThreads : where[t] \in {"code", "loop"}
    BY DEF WorldInit
  <2> QED  BY <2>1 DEF OwnersInv, LateInv, AloneInv
<1> QED  BY <1>1, <1>3, <1>4 DEF WorldInv

(* One lemma for each action.  A thread comes to run the program either from a
   place that LateInv or AloneInv knows as slipped, or without a request standing;
   a collector goes on when the counts say that the others are out.          *)
LEMMA TakeCardInv == ASSUME WorldInv, NEW w \in Workers, TakeCard(w) PROVE WorldInv'
<1>1. TypeOK'
  BY WorldAssumption DEF WorldInv, TypeOK, WorldThreads, In, Out, OfMain, OfWorkers, MoveTo, shared, TakeCard
<1>2. CountInv'
  <2>1. CASE pending
    <3>1. MoveTo(w, "resting") /\ Counts(w, "resting")
      BY <2>1, WorldAssumption DEF WorldInv, TypeOK, CountInv, Counts, WorldThreads, In, Out, TakeCard
    <3> QED  BY <3>1, StillCounted DEF WorldInv, WorldThreads
  <2>2. CASE ~pending
    <3>1. MoveTo(w, "admitted") /\ Counts(w, "admitted")
      BY <2>2, WorldAssumption DEF WorldInv, TypeOK, CountInv, Counts, WorldThreads, In, Out, TakeCard
    <3> QED  BY <3>1, StillCounted DEF WorldInv, WorldThreads
  <2> QED  BY <2>1, <2>2 DEF TakeCard
<1>3. OwnersInv'
  BY WorldAssumption DEF WorldInv, TypeOK, OwnersInv, WorldThreads, MoveTo, shared, TakeCard
<1>4. LateInv'
  BY WorldAssumption DEF WorldInv, TypeOK, LateInv, WorldThreads, MoveTo, shared, TakeCard
<1>5. AloneInv'
  BY WorldAssumption DEF WorldInv, TypeOK, OwnersInv, LateInv, AloneInv, WorldThreads, OfMain, MoveTo, shared, TakeCard
<1> QED  BY <1>1, <1>2, <1>3, <1>4, <1>5 DEF WorldInv

LEMMA RestedInv == ASSUME WorldInv, NEW w \in Workers, Rested(w) PROVE WorldInv'
<1>1. TypeOK'
  BY WorldAssumption DEF WorldInv, TypeOK, WorldThreads, In, Out, OfMain, OfWorkers, MoveTo, shared, Rested
<1>2. CountInv'
  <2>1. MoveTo(w, "loop") /\ Counts(w, "loop")
    BY WorldAssumption DEF WorldInv, TypeOK, CountInv, Counts, WorldThreads, In, Out, Rested
  <2> QED  BY <2>1, StillCounted DEF WorldInv, WorldThreads
<1>3. OwnersInv'
  BY WorldAssumption DEF WorldInv, TypeOK, OwnersInv, WorldThreads, MoveTo, shared, Rested
<1>4. LateInv'
  BY WorldAssumption DEF WorldInv, TypeOK, LateInv, WorldThreads, MoveTo, shared, Rested
<1>5. AloneInv'
  BY WorldAssumption DEF WorldInv, TypeOK, OwnersInv, LateInv, AloneInv, WorldThreads, OfMain, MoveTo, shared, Rested
<1> QED  BY <1>1, <1>2, <1>3, <1>4, <1>5 DEF WorldInv

LEMMA EnterTaskInv == ASSUME WorldInv, NEW w \in Workers, EnterTask(w) PROVE WorldInv'
<1>1. TypeOK'
  BY WorldAssumption DEF WorldInv, TypeOK, WorldThreads, In, Out, OfMain, OfWorkers, MoveTo, shared, EnterTask, BringBack
<1>2. CountInv'
  <2>1. MoveTo(w, "code") /\ Counts(w, "code")
    BY WorldAssumption DEF WorldInv, TypeOK, CountInv, Counts, WorldThreads, In, Out, EnterTask, BringBack
  <2> QED  BY <2>1, StillCounted DEF WorldInv, WorldThreads
<1>3. OwnersInv'
  BY WorldAssumption DEF WorldInv, TypeOK, OwnersInv, WorldThreads, MoveTo, shared, EnterTask, BringBack
<1>4. LateInv'
  BY WorldAssumption DEF WorldInv, TypeOK, LateInv, WorldThreads, MoveTo, shared, EnterTask, BringBack
<1>5. AloneInv'
  BY WorldAssumption DEF WorldInv, TypeOK, OwnersInv, LateInv, AloneInv, WorldThreads, OfMain, MoveTo, shared, EnterTask, BringBack
<1> QED  BY <1>1, <1>2, <1>3, <1>4, <1>5 DEF WorldInv

LEMMA LeaveTaskInv == ASSUME WorldInv, NEW w \in Workers, LeaveTask(w) PROVE WorldInv'
<1>1. TypeOK'
  BY WorldAssumption DEF WorldInv, TypeOK, WorldThreads, In, Out, OfMain, OfWorkers, MoveTo, shared, LeaveTask, TakeOut
<1>2. CountInv'
  <2>1. MoveTo(w, "loop") /\ Counts(w, "loop")
    BY WorldAssumption DEF WorldInv, TypeOK, CountInv, Counts, WorldThreads, In, Out, LeaveTask, TakeOut
  <2> QED  BY <2>1, StillCounted DEF WorldInv, WorldThreads
<1>3. OwnersInv'
  BY WorldAssumption DEF WorldInv, TypeOK, OwnersInv, WorldThreads, MoveTo, shared, LeaveTask, TakeOut
<1>4. LateInv'
  BY WorldAssumption DEF WorldInv, TypeOK, LateInv, WorldThreads, MoveTo, shared, LeaveTask, TakeOut
<1>5. AloneInv'
  BY WorldAssumption DEF WorldInv, TypeOK, OwnersInv, LateInv, AloneInv, WorldThreads, OfMain, MoveTo, shared, LeaveTask, TakeOut
<1> QED  BY <1>1, <1>2, <1>3, <1>4, <1>5 DEF WorldInv

LEMMA GuardInv == ASSUME WorldInv, NEW t \in WorldThreads, Guard(t) PROVE WorldInv'
<1>1. TypeOK'
  BY WorldAssumption DEF WorldInv, TypeOK, WorldThreads, In, Out, OfMain, OfWorkers, MoveTo, shared, Guard, Asked
<1>2. CountInv'
  <2>1. MoveTo(t, "guard") /\ Counts(t, "guard")
    BY WorldAssumption DEF WorldInv, TypeOK, CountInv, Counts, WorldThreads, In, Out, Guard, Asked
  <2> QED  BY <2>1, StillCounted DEF WorldInv, WorldThreads
<1>3. OwnersInv'
  BY WorldAssumption DEF WorldInv, TypeOK, OwnersInv, WorldThreads, MoveTo, shared, Guard, Asked
<1>4. LateInv'
  BY WorldAssumption DEF WorldInv, TypeOK, LateInv, WorldThreads, MoveTo, shared, Guard, Asked
<1>5. AloneInv'
  BY WorldAssumption DEF WorldInv, TypeOK, OwnersInv, LateInv, AloneInv, WorldThreads, OfMain, MoveTo, shared, Guard, Asked
<1> QED  BY <1>1, <1>2, <1>3, <1>4, <1>5 DEF WorldInv

LEMMA ParkInv == ASSUME WorldInv, NEW t \in WorldThreads, Park(t) PROVE WorldInv'
<1>0. TakeOut(t) /\ mainParked \in BOOLEAN
  BY DEF WorldInv, TypeOK, Park
<1>1. TypeOK'
  BY <1>0, TakenOut, WorldAssumption DEF WorldInv, TypeOK, WorldThreads, In, Out, OfMain, OfWorkers, MoveTo, shared, Park
<1>2. CountInv'
  <2>1. MoveTo(t, "parked") /\ Counts(t, "parked")
    BY <1>0, TakenOut, WorldAssumption DEF WorldInv, TypeOK, CountInv, Counts, WorldThreads, In, Out, Park
  <2> QED  BY <2>1, StillCounted DEF WorldInv, WorldThreads
<1>3. OwnersInv'
  BY WorldAssumption DEF WorldInv, TypeOK, OwnersInv, WorldThreads, MoveTo, shared, Park, TakeOut
<1>4. LateInv'
  BY WorldAssumption DEF WorldInv, TypeOK, LateInv, WorldThreads, MoveTo, shared, Park, TakeOut
<1>5. AloneInv'
  BY WorldAssumption DEF WorldInv, TypeOK, OwnersInv, LateInv, AloneInv, WorldThreads, OfMain, MoveTo, shared, Park, TakeOut
<1> QED  BY <1>1, <1>2, <1>3, <1>4, <1>5 DEF WorldInv

LEMMA ResumeInv == ASSUME WorldInv, NEW t \in WorldThreads, Resume(t) PROVE WorldInv'
<1>0. BringBack(t) /\ mainParked \in BOOLEAN
  BY DEF WorldInv, TypeOK, Resume
<1>1. TypeOK'
  BY <1>0, BroughtBack, WorldAssumption DEF WorldInv, TypeOK, WorldThreads, In, Out, OfMain, OfWorkers, MoveTo, shared, Resume
<1>2. CountInv'
  <2>1. MoveTo(t, "code") /\ Counts(t, "code")
    BY <1>0, BroughtBack, WorldAssumption DEF WorldInv, TypeOK, CountInv, Counts, WorldThreads, In, Out, Resume
  <2> QED  BY <2>1, StillCounted DEF WorldInv, WorldThreads
<1>3. OwnersInv'
  BY WorldAssumption DEF WorldInv, TypeOK, OwnersInv, WorldThreads, MoveTo, shared, Resume, BringBack
<1>4. LateInv'
  BY WorldAssumption DEF WorldInv, TypeOK, LateInv, WorldThreads, MoveTo, shared, Resume, BringBack
<1>5. AloneInv'
  BY WorldAssumption DEF WorldInv, TypeOK, OwnersInv, LateInv, AloneInv, WorldThreads, OfMain, MoveTo, shared, Resume, BringBack
<1> QED  BY <1>1, <1>2, <1>3, <1>4, <1>5 DEF WorldInv

LEMMA ClearedInv == ASSUME WorldInv, NEW t \in WorldThreads, Cleared(t) PROVE WorldInv'
<1>1. TypeOK'
  BY WorldAssumption DEF WorldInv, TypeOK, WorldThreads, In, Out, OfMain, OfWorkers, MoveTo, shared, Cleared
<1>2. CountInv'
  <2>1. MoveTo(t, "late") /\ Counts(t, "late")
    BY WorldAssumption DEF WorldInv, TypeOK, CountInv, Counts, WorldThreads, In, Out, Cleared
  <2> QED  BY <2>1, StillCounted DEF WorldInv, WorldThreads
<1>3. OwnersInv'
  BY WorldAssumption DEF WorldInv, TypeOK, OwnersInv, WorldThreads, MoveTo, shared, Cleared
<1>4. LateInv'
  BY WorldAssumption DEF WorldInv, TypeOK, LateInv, WorldThreads, MoveTo, shared, Cleared
<1>5. AloneInv'
  BY WorldAssumption DEF WorldInv, TypeOK, OwnersInv, LateInv, AloneInv, WorldThreads, OfMain, MoveTo, shared, Cleared
<1> QED  BY <1>1, <1>2, <1>3, <1>4, <1>5 DEF WorldInv

LEMMA StepInInv == ASSUME WorldInv, NEW t \in WorldThreads, StepIn(t) PROVE WorldInv'
<1>0. BringBack(t) /\ mainParked \in BOOLEAN
  BY DEF WorldInv, TypeOK, StepIn
<1>1. TypeOK'
  BY <1>0, BroughtBack, WorldAssumption DEF WorldInv, TypeOK, WorldThreads, In, Out, OfMain, OfWorkers, MoveTo, shared, StepIn
<1>2. CountInv'
  <2>1. MoveTo(t, "code") /\ Counts(t, "code")
    BY <1>0, BroughtBack, WorldAssumption DEF WorldInv, TypeOK, CountInv, Counts, WorldThreads, In, Out, StepIn
  <2> QED  BY <2>1, StillCounted DEF WorldInv, WorldThreads
<1>3. OwnersInv'
  BY WorldAssumption DEF WorldInv, TypeOK, OwnersInv, WorldThreads, MoveTo, shared, StepIn, BringBack
<1>4. LateInv'
  BY WorldAssumption DEF WorldInv, TypeOK, LateInv, WorldThreads, MoveTo, shared, StepIn, BringBack
<1>5. AloneInv'
  BY WorldAssumption DEF WorldInv, TypeOK, OwnersInv, LateInv, AloneInv, WorldThreads, OfMain, MoveTo, shared, StepIn, BringBack
<1> QED  BY <1>1, <1>2, <1>3, <1>4, <1>5 DEF WorldInv

LEMMA AllocateInv == ASSUME WorldInv, Allocate PROVE WorldInv'
<1>1. TypeOK'
  BY WorldAssumption DEF WorldInv, TypeOK, WorldThreads, In, Out, OfMain, OfWorkers, MoveTo, shared, Allocate, Asked, StepOut, TakeOut
<1>2. CountInv'
  <2>1. MoveTo(Main, "polling") /\ Counts(Main, "polling")
    BY WorldAssumption DEF WorldInv, TypeOK, CountInv, Counts, WorldThreads, In, Out, Allocate, Asked, StepOut, TakeOut
  <2> QED  BY <2>1, StillCounted DEF WorldInv, WorldThreads
<1>3. OwnersInv'
  BY WorldAssumption DEF WorldInv, TypeOK, OwnersInv, WorldThreads, MoveTo, shared, Allocate, Asked, StepOut, TakeOut
<1>4. LateInv'
  BY WorldAssumption DEF WorldInv, TypeOK, LateInv, WorldThreads, MoveTo, shared, Allocate, Asked, StepOut, TakeOut
<1>5. AloneInv'
  BY WorldAssumption DEF WorldInv, TypeOK, OwnersInv, LateInv, AloneInv, WorldThreads, OfMain, MoveTo, shared, Allocate, Asked, StepOut, TakeOut
<1> QED  BY <1>1, <1>2, <1>3, <1>4, <1>5 DEF WorldInv

LEMMA WaitForTaskInv == ASSUME WorldInv, WaitForTask PROVE WorldInv'
<1>1. TypeOK'
  BY WorldAssumption DEF WorldInv, TypeOK, WorldThreads, In, Out, OfMain, OfWorkers, MoveTo, shared, WaitForTask, Asked, TakeOut
<1>2. CountInv'
  <2>1. CASE Asked(Main)
    <3>1. MoveTo(Main, "parked") /\ Counts(Main, "parked")
      BY <2>1, WorldAssumption DEF WorldInv, TypeOK, CountInv, Counts, WorldThreads, In, Out, WaitForTask, Asked, TakeOut
    <3> QED  BY <3>1, StillCounted DEF WorldInv, WorldThreads
  <2>2. CASE ~Asked(Main)
    <3>1. MoveTo(Main, "asleep") /\ Counts(Main, "asleep")
      BY <2>2, WorldAssumption DEF WorldInv, TypeOK, CountInv, Counts, WorldThreads, In, Out, WaitForTask, Asked, TakeOut
    <3> QED  BY <3>1, StillCounted DEF WorldInv, WorldThreads
  <2> QED  BY <2>1, <2>2 DEF WaitForTask, Asked, TakeOut
<1>3. OwnersInv'
  BY WorldAssumption DEF WorldInv, TypeOK, OwnersInv, WorldThreads, MoveTo, shared, WaitForTask, Asked, TakeOut
<1>4. LateInv'
  BY WorldAssumption DEF WorldInv, TypeOK, LateInv, WorldThreads, MoveTo, shared, WaitForTask, Asked, TakeOut
<1>5. AloneInv'
  BY WorldAssumption DEF WorldInv, TypeOK, OwnersInv, LateInv, AloneInv, WorldThreads, OfMain, MoveTo, shared, WaitForTask, Asked, TakeOut
<1> QED  BY <1>1, <1>2, <1>3, <1>4, <1>5 DEF WorldInv

LEMMA MainWakesInv == ASSUME WorldInv, MainWakes PROVE WorldInv'
<1>1. TypeOK'
  BY WorldAssumption DEF WorldInv, TypeOK, WorldThreads, In, Out, OfMain, OfWorkers, MoveTo, shared, MainWakes, Asked, TakeOut
<1>2. CountInv'
  <2>1. CASE MoveTo(Main, "code") /\ UNCHANGED <<inAt, mainParked>>
    <3>1. Counts(Main, "code")
      BY <2>1, WorldAssumption DEF WorldInv, TypeOK, CountInv, Counts, WorldThreads, In, Out, MainWakes
    <3> QED  BY <2>1, <3>1, StillCounted DEF WorldInv, WorldThreads
  <2>2. CASE MoveTo(Main, "parked") /\ TakeOut(Main)
    <3>1. Counts(Main, "parked")
      BY <2>2, WorldAssumption DEF WorldInv, TypeOK, CountInv, Counts, WorldThreads, In, Out, MainWakes, TakeOut
    <3> QED  BY <2>2, <3>1, StillCounted DEF WorldInv, WorldThreads
  <2>3. CASE UNCHANGED <<where, inAt, mainParked>>
    BY <2>3 DEF WorldInv, CountInv, Inside
  <2> QED  BY <2>1, <2>2, <2>3 DEF MainWakes
<1>3. OwnersInv'
  BY WorldAssumption DEF WorldInv, TypeOK, OwnersInv, WorldThreads, MoveTo, shared, MainWakes, Asked, TakeOut
<1>4. LateInv'
  BY WorldAssumption DEF WorldInv, TypeOK, LateInv, WorldThreads, MoveTo, shared, MainWakes, Asked, TakeOut
<1>5. AloneInv'
  BY WorldAssumption DEF WorldInv, TypeOK, OwnersInv, LateInv, AloneInv, WorldThreads, OfMain, MoveTo, shared, MainWakes, Asked, TakeOut
<1> QED  BY <1>1, <1>2, <1>3, <1>4, <1>5 DEF WorldInv

LEMMA WaitAtChannelInv == ASSUME WorldInv, WaitAtChannel PROVE WorldInv'
<1>1. TypeOK'
  BY WorldAssumption DEF WorldInv, TypeOK, WorldThreads, In, Out, OfMain, OfWorkers, MoveTo, shared, WaitAtChannel
<1>2. CountInv'
  <2>1. MoveTo(Main, "channel") /\ Counts(Main, "channel")
    BY WorldAssumption DEF WorldInv, TypeOK, CountInv, Counts, WorldThreads, In, Out, WaitAtChannel
  <2> QED  BY <2>1, StillCounted DEF WorldInv, WorldThreads
<1>3. OwnersInv'
  BY WorldAssumption DEF WorldInv, TypeOK, OwnersInv, WorldThreads, MoveTo, shared, WaitAtChannel
<1>4. LateInv'
  BY WorldAssumption DEF WorldInv, TypeOK, LateInv, WorldThreads, MoveTo, shared, WaitAtChannel
<1>5. AloneInv'
  BY WorldAssumption DEF WorldInv, TypeOK, OwnersInv, LateInv, AloneInv, WorldThreads, OfMain, MoveTo, shared, WaitAtChannel
<1> QED  BY <1>1, <1>2, <1>3, <1>4, <1>5 DEF WorldInv

LEMMA TransferInv == ASSUME WorldInv, Transfer PROVE WorldInv'
<1>1. TypeOK'
  BY WorldAssumption DEF WorldInv, TypeOK, WorldThreads, In, Out, OfMain, OfWorkers, MoveTo, shared, Transfer
<1>2. CountInv'
  <2>1. MoveTo(Main, "code") /\ Counts(Main, "code")
    BY WorldAssumption DEF WorldInv, TypeOK, CountInv, Counts, WorldThreads, In, Out, Transfer
  <2> QED  BY <2>1, StillCounted DEF WorldInv, WorldThreads
<1>3. OwnersInv'
  BY WorldAssumption DEF WorldInv, TypeOK, OwnersInv, WorldThreads, MoveTo, shared, Transfer
<1>4. LateInv'
  BY WorldAssumption DEF WorldInv, TypeOK, LateInv, WorldThreads, MoveTo, shared, Transfer
<1>5. AloneInv'
  BY WorldAssumption DEF WorldInv, TypeOK, OwnersInv, LateInv, AloneInv, WorldThreads, OfMain, MoveTo, shared, Transfer
<1> QED  BY <1>1, <1>2, <1>3, <1>4, <1>5 DEF WorldInv

LEMMA ClaimInv == ASSUME WorldInv, NEW t \in WorldThreads, Claim(t) PROVE WorldInv'
<1>1. TypeOK'
  BY WorldAssumption DEF WorldInv, TypeOK, WorldThreads, In, Out, OfMain, OfWorkers, MoveTo, shared, Claim
<1>2. CountInv'
  <2>1. MoveTo(t, "claim") /\ Counts(t, "claim")
    BY WorldAssumption DEF WorldInv, TypeOK, CountInv, Counts, WorldThreads, In, Out, Claim
  <2> QED  BY <2>1, StillCounted DEF WorldInv, WorldThreads
<1>3. OwnersInv'
  BY WorldAssumption DEF WorldInv, TypeOK, OwnersInv, WorldThreads, MoveTo, shared, Claim
<1>4. LateInv'
  BY WorldAssumption DEF WorldInv, TypeOK, LateInv, WorldThreads, MoveTo, shared, Claim
<1>5. AloneInv'
  BY WorldAssumption DEF WorldInv, TypeOK, OwnersInv, LateInv, AloneInv, WorldThreads, OfMain, MoveTo, shared, Claim
<1> QED  BY <1>1, <1>2, <1>3, <1>4, <1>5 DEF WorldInv

LEMMA RefusedInv == ASSUME WorldInv, NEW t \in WorldThreads, Refused(t) PROVE WorldInv'
<1>0. TakeOut(t) /\ mainParked \in BOOLEAN
  BY DEF WorldInv, TypeOK, Refused, Asked, StepOut
<1>1. TypeOK'
  BY <1>0, TakenOut, WorldAssumption DEF WorldInv, TypeOK, WorldThreads, In, Out, OfMain, OfWorkers, MoveTo, shared, Refused, Asked, StepOut
<1>2. CountInv'
  <2>1. MoveTo(t, "polling") /\ Counts(t, "polling")
    BY <1>0, TakenOut, WorldAssumption DEF WorldInv, TypeOK, CountInv, Counts, WorldThreads, In, Out, Refused, Asked, StepOut
  <2> QED  BY <2>1, StillCounted DEF WorldInv, WorldThreads
<1>3. OwnersInv'
  BY WorldAssumption DEF WorldInv, TypeOK, OwnersInv, WorldThreads, MoveTo, shared, Refused, Asked, StepOut, TakeOut
<1>4. LateInv'
  BY WorldAssumption DEF WorldInv, TypeOK, LateInv, WorldThreads, MoveTo, shared, Refused, Asked, StepOut, TakeOut
<1>5. AloneInv'
  BY WorldAssumption DEF WorldInv, TypeOK, OwnersInv, LateInv, AloneInv, WorldThreads, OfMain, MoveTo, shared, Refused, Asked, StepOut, TakeOut
<1> QED  BY <1>1, <1>2, <1>3, <1>4, <1>5 DEF WorldInv

LEMMA RequestInv == ASSUME WorldInv, NEW t \in WorldThreads, Request(t) PROVE WorldInv'
<1>1. TypeOK'
  BY WorldAssumption DEF WorldInv, TypeOK, WorldThreads, In, Out, OfMain, OfWorkers, MoveTo, shared, Request, WakeMain
<1>2. CountInv'
  <2>1. MoveTo(t, "stopping") /\ Counts(t, "stopping")
    BY WorldAssumption DEF WorldInv, TypeOK, CountInv, Counts, WorldThreads, In, Out, Request, WakeMain
  <2> QED  BY <2>1, StillCounted DEF WorldInv, WorldThreads
<1>3. OwnersInv'
  BY WorldAssumption DEF WorldInv, TypeOK, OwnersInv, WorldThreads, MoveTo, shared, Request, WakeMain
<1>4. LateInv'
  BY WorldAssumption DEF WorldInv, TypeOK, LateInv, WorldThreads, MoveTo, shared, Request, WakeMain
<1>5. AloneInv'
  BY WorldAssumption DEF WorldInv, TypeOK, OwnersInv, LateInv, AloneInv, WorldThreads, OfMain, MoveTo, shared, Request, WakeMain
<1> QED  BY <1>1, <1>2, <1>3, <1>4, <1>5 DEF WorldInv

LEMMA CollectInv == ASSUME WorldInv, NEW t \in WorldThreads, CollectGarbage(t) PROVE WorldInv'
<1>1. TypeOK'
  BY WorldAssumption DEF WorldInv, TypeOK, WorldThreads, In, Out, OfMain, OfWorkers, MoveTo, shared, CollectGarbage, Stopped
<1>2. CountInv'
  <2>1. MoveTo(t, "collecting") /\ Counts(t, "collecting")
    BY WorldAssumption DEF WorldInv, TypeOK, CountInv, Counts, WorldThreads, In, Out, CollectGarbage, Stopped
  <2> QED  BY <2>1, StillCounted DEF WorldInv, WorldThreads
<1>3. OwnersInv'
  BY WorldAssumption DEF WorldInv, TypeOK, OwnersInv, WorldThreads, MoveTo, shared, CollectGarbage, Stopped
<1>4. LateInv'
  BY WorldAssumption DEF WorldInv, TypeOK, LateInv, WorldThreads, MoveTo, shared, CollectGarbage, Stopped
<1>5. AloneInv'
  <2>1. \A u \in Workers \ {t} : where[u] \notin In \cup OfMain
    BY NobodyElseInside DEF WorldInv, TypeOK, CollectGarbage
  <2>2. t # Main => where[Main] \in Out
    BY DEF WorldInv, CountInv, CollectGarbage, Stopped
  <2> QED  BY <2>1, <2>2, WorldAssumption DEF WorldInv, TypeOK, OwnersInv, AloneInv, WorldThreads, In, Out, OfMain, MoveTo, shared, CollectGarbage
<1> QED  BY <1>1, <1>2, <1>3, <1>4, <1>5 DEF WorldInv

LEMMA ReleaseInv == ASSUME WorldInv, NEW t \in WorldThreads, Release(t) PROVE WorldInv'
<1>1. TypeOK'
  BY WorldAssumption DEF WorldInv, TypeOK, WorldThreads, In, Out, OfMain, OfWorkers, MoveTo, shared, Release
<1>2. CountInv'
  <2>1. MoveTo(t, "code") /\ Counts(t, "code")
    BY WorldAssumption DEF WorldInv, TypeOK, CountInv, Counts, WorldThreads, In, Out, Release
  <2> QED  BY <2>1, StillCounted DEF WorldInv, WorldThreads
<1>3. OwnersInv'
  BY WorldAssumption DEF WorldInv, TypeOK, OwnersInv, WorldThreads, MoveTo, shared, Release
<1>4. LateInv'
  BY WorldAssumption DEF WorldInv, TypeOK, LateInv, WorldThreads, MoveTo, shared, Release
<1>5. AloneInv'
  BY WorldAssumption DEF WorldInv, TypeOK, OwnersInv, LateInv, AloneInv, WorldThreads, OfMain, MoveTo, shared, Release
<1> QED  BY <1>1, <1>2, <1>3, <1>4, <1>5 DEF WorldInv

-----------------------------------------------------------------------------
(* Every step keeps the invariant.                                           *)
LEMMA NextWorld == WorldInv /\ [WorldNext]_worldVars => WorldInv'
<1> SUFFICES ASSUME WorldInv, [WorldNext]_worldVars PROVE WorldInv'
  OBVIOUS
<1>1. ASSUME NEW w \in Workers, WorkerStep(w) PROVE WorldInv'
  BY <1>1, TakeCardInv, RestedInv, EnterTaskInv, LeaveTaskInv DEF WorkerStep
<1>2. ASSUME NEW t \in WorldThreads, Return(t) PROVE WorldInv'
  BY <1>2, ParkInv, ResumeInv, ClearedInv, StepInInv DEF Return
<1>3. ASSUME NEW t \in WorldThreads, Collector(t) PROVE WorldInv'
  BY <1>3, RequestInv, CollectInv, ReleaseInv DEF Collector
<1>4. ASSUME NEW t \in WorldThreads, Guard(t) \/ Claim(t) \/ Refused(t) PROVE WorldInv'
  BY <1>4, GuardInv, ClaimInv, RefusedInv
<1>5. CASE Allocate \/ WaitForTask \/ MainWakes \/ WaitAtChannel \/ Transfer
  BY <1>5, AllocateInv, WaitForTaskInv, MainWakesInv, WaitAtChannelInv, TransferInv
<1>6. CASE UNCHANGED worldVars
  BY <1>6 DEF WorldInv, TypeOK, CountInv, OwnersInv, LateInv, AloneInv, Inside, worldVars
<1> QED  BY <1>1, <1>2, <1>3, <1>4, <1>5, <1>6 DEF WorldNext

(* The inductive invariant of the collector's protocol, for any number of
   workers and collections.                                                  *)
THEOREM WorldInvariant == WorldSpec => []WorldInv
<1> QED  BY InitWorld, NextWorld, PTL DEF WorldSpec

(* While a thread collects, no other does, and who runs the program beside it had
   looked at rt_gc_pending before the request (atl_gc_collect).              *)
THEOREM CollectorAlone == WorldSpec => []CollectorIsAlone
<1>1. WorldInv => CollectorIsAlone
  <2> SUFFICES ASSUME WorldInv, NEW c \in WorldThreads, NEW t \in WorldThreads, where[c] = "collecting", t # c
               PROVE where[t] # "collecting" /\ (where[t] = "code" => t \in slipped)
    BY DEF CollectorIsAlone
  <2> QED  BY DEF WorldInv, OwnersInv, AloneInv
<1> QED  BY <1>1, WorldInvariant, PTL

-----------------------------------------------------------------------------
(* Timers.                                                                 *)
Timer == [fiber : Sleepers, at : Times]
Apart(h) == \A i, j \in DOMAIN h : h[i].fiber = h[j].fiber => i = j
Ordered(h) == \A j \in 2 .. Len(h) : h[j \div 2].at <= h[j].at
Rearranged(g, h) == g \in Heaps /\ Len(g) = Len(h) /\ ToSet(g) = ToSet(h) /\ (Apart(h) => Apart(g))

-----------------------------------------------------------------------------
(* A loop: what holds before every round holds after the last.  "What" is  *)
(* a set of pairs of a round's number and the loop's state.                *)
LEMMA RoundsMade ==
  ASSUME NEW body, NEW s, NEW n \in Nat
  PROVE  \E f : /\ Rounds(body, s, n) = f[n] /\ f[0] = s
                /\ \A k \in 1 .. n : f[k] = body[f[k - 1]]
<1> DEFINE Part(f, k) == IF k = 0 THEN s ELSE body[f[k - 1]]
           T == {k \in Nat : \E f : f = [j \in 0 .. k |-> Part(f, j)]}
<1>1. 0 \in T
  <2> DEFINE f == [j \in 0 .. 0 |-> s]
  <2>1. f = [j \in 0 .. 0 |-> Part(f, j)]
    OBVIOUS
  <2> QED  BY <2>1
<1>2. ASSUME NEW k \in Nat, k \in T PROVE k + 1 \in T
  <2>1. PICK f : f = [j \in 0 .. k |-> Part(f, j)]
    BY <1>2
  <2> DEFINE g == [j \in 0 .. k + 1 |-> IF j = k + 1 THEN Part(f, k + 1) ELSE f[j]]
  <2>2. \A j \in 0 .. k : g[j] = f[j] /\ f[j] = Part(f, j)
    <3>1. \A j \in 0 .. k : j \in 0 .. k + 1 /\ j # k + 1
      BY <1>2
    <3>2. \A j \in 0 .. k : g[j] = f[j]
      BY <3>1
    <3> HIDE DEF Part, g
    <3> QED  BY <2>1, <3>2
  <2>3. g[k + 1] = Part(f, k + 1)
    BY <1>2
  <2>4. ASSUME NEW j \in 0 .. k + 1 PROVE g[j] = Part(g, j)
    <3>1. g[j] = Part(f, j)
      <4> HIDE DEF g, Part
      <4>1. j = k + 1 \/ j \in 0 .. k
        BY <1>2
      <4> QED  BY <2>2, <2>3, <4>1
    <3>2. j # 0 => g[j - 1] = f[j - 1]
      <4> HIDE DEF g
      <4>1. j # 0 => j - 1 \in 0 .. k
        BY <1>2
      <4> QED  BY <2>2, <4>1
    <3> HIDE DEF g
    <3> QED  BY <3>1, <3>2
  <2>5. g = [j \in 0 .. k + 1 |-> g[j]]
    OBVIOUS
  <2> HIDE DEF g, Part
  <2>6. g = [j \in 0 .. k + 1 |-> Part(g, j)]
    BY <2>4, <2>5
  <2> QED  BY <2>6
<1>3. n \in T
  <2> HIDE DEF T
  <2> QED  BY <1>1, <1>2, Upwards
<1>4. PICK f : f = [j \in 0 .. n |-> Part(f, j)]
  BY <1>3
<1> DEFINE h == CHOOSE h : h = [j \in 0 .. n |-> Part(h, j)]
<1>5. h = [j \in 0 .. n |-> Part(h, j)]
  BY <1>4, Zenon
<1>6. Rounds(body, s, n) = h[n]
  BY Zenon DEF Rounds
<1> HIDE DEF h
<1>7. h[0] = s /\ \A k \in 1 .. n : h[k] = body[h[k - 1]]
  <2>1. 0 \in 0 .. n /\ \A k \in 1 .. n : k \in 0 .. n /\ k # 0
    OBVIOUS
  <2> QED  BY <1>5, <2>1
<1> QED  BY <1>6, <1>7

LEMMA LoopKeeps ==
  ASSUME NEW body, NEW s, NEW n \in Nat, NEW I, <<0, s>> \in I,
         \A k \in 0 .. n - 1 : \A x : <<k, x>> \in I => <<k + 1, body[x]>> \in I
  PROVE  <<n, Rounds(body, s, n)>> \in I
<1>1. PICK f : /\ Rounds(body, s, n) = f[n] /\ f[0] = s
               /\ \A k \in 1 .. n : f[k] = body[f[k - 1]]
  BY RoundsMade
<1> DEFINE T == {k \in Nat : k <= n => <<k, f[k]>> \in I}
<1>2. 0 \in T
  BY <1>1
<1>3. ASSUME NEW k \in Nat, k \in T PROVE k + 1 \in T
  <2> SUFFICES ASSUME k + 1 <= n PROVE <<k + 1, f[k + 1]>> \in I
    OBVIOUS
  <2>1. k \in 0 .. n - 1 /\ k + 1 \in 1 .. n /\ (k + 1) - 1 = k /\ k <= n
    OBVIOUS
  <2>2. f[k + 1] = body[f[k]]
    BY <1>1, <2>1
  <2> QED  BY <1>3, <2>1, <2>2
<1>4. n \in T
  <2> HIDE DEF T
  <2> QED  BY <1>2, <1>3, Upwards
<1> QED  BY <1>1, <1>4

LEMMA Halves ==
  ASSUME NEW j \in Nat, j > 1
  PROVE  /\ j \div 2 \in Nat /\ j \div 2 >= 1 /\ j \div 2 < j
         /\ \A i \in Nat : j \div 2 = i <=> j = 2 * i \/ j = 2 * i + 1
<1>1. j \div 2 \in Int /\ 2 * (j \div 2) <= j /\ j < 2 * (j \div 2) + 2
  BY DivMod
<1> QED  BY <1>1

LEMMA HeapItems ==
  ASSUME NEW h \in Heaps
  PROVE  /\ Len(h) \in Nat /\ DOMAIN h = 1 .. Len(h)
         /\ \A i \in 1 .. Len(h) : h[i] \in Timer /\ h[i].at \in Nat /\ h[i] \in ToSet(h)
         /\ h = <<>> <=> Len(h) = 0
<1>1. Len(h) \in Nat /\ DOMAIN h = 1 .. Len(h) /\ \A i \in 1 .. Len(h) : h[i] \in Timer
  BY LenProperties, ElementOfSeq DEF Heaps, Timer
<1>2. h = <<>> <=> Len(h) = 0
  BY EmptySeq DEF Heaps
<1> QED  BY <1>1, <1>2, TimerAssumption DEF Timer, ToSet

LEMMA Swapped ==
  ASSUME NEW h \in Heaps, NEW i \in 1 .. Len(h), NEW j \in 1 .. Len(h)
  PROVE  /\ Rearranged(Swap(h, i, j), h) /\ Swap(h, i, j)[i] = h[j] /\ Swap(h, i, j)[j] = h[i]
         /\ \A k \in 1 .. Len(h) : k # i /\ k # j => Swap(h, i, j)[k] = h[k]
         /\ i = j => Swap(h, i, j) = h
<1> DEFINE g == Swap(h, i, j)  m == Len(h)
<1>1. m \in Nat /\ DOMAIN h = 1 .. m /\ \A k \in 1 .. m : h[k] \in Timer
  BY HeapItems
<1>2. g = [k \in 1 .. m |-> IF k = j THEN h[i] ELSE IF k = i THEN h[j] ELSE h[k]]
  <2>1. h = [k \in 1 .. m |-> h[k]]
    BY <1>1 DEF Heaps
  <2> QED  BY <1>1, <2>1 DEF Swap
<1> HIDE DEF g, m
<1>3. g \in Seq(Timer) /\ Len(g) = m /\ DOMAIN g = 1 .. m
  BY <1>1, <1>2 DEF m
<1>4. /\ \A k \in 1 .. m : g[k] = IF k = j THEN h[i] ELSE IF k = i THEN h[j] ELSE h[k]
      /\ i \in 1 .. m /\ j \in 1 .. m
  BY <1>2 DEF m
<1>5. ToSet(g) = ToSet(h)
  <2>1. ToSet(g) \subseteq ToSet(h)
    BY <1>1, <1>3, <1>4 DEF ToSet
  <2>2. ASSUME NEW k \in 1 .. m PROVE \E l \in 1 .. m : g[l] = h[k]
    <3>1. CASE k = i
      BY <1>4, <3>1
    <3>2. CASE k = j
      BY <1>4, <3>2
    <3>3. CASE k # i /\ k # j
      BY <1>4, <3>3
    <3> QED  BY <3>1, <3>2, <3>3
  <2>3. ToSet(h) \subseteq ToSet(g)
    BY <1>1, <1>3, <2>2 DEF ToSet
  <2> QED  BY <2>1, <2>3
<1>6. ASSUME Apart(h) PROVE Apart(g)
  BY <1>1, <1>3, <1>4, <1>6 DEF Apart
<1>7. i = j => g = h
  <2>1. h = [k \in 1 .. m |-> h[k]]
    BY <1>1 DEF Heaps
  <2> QED  BY <1>2, <2>1
<1>8. Rearranged(g, h)
  BY <1>3, <1>5, <1>6 DEF Rearranged, Heaps, Timer, m
<1> QED  BY <1>4, <1>7, <1>8 DEF g, m

LEMMA RearrangedTwice ==
  ASSUME NEW f, NEW g, NEW h, Rearranged(f, g), Rearranged(g, h)
  PROVE  Rearranged(f, h)
BY DEF Rearranged

(* In an ordered heap the first is the earliest.                           *)
LEMMA RootIsFirst ==
  ASSUME NEW h \in Heaps, Ordered(h)
  PROVE  \A i \in 1 .. Len(h) : h[1].at <= h[i].at
<1> DEFINE T == {n \in Nat : \A i \in 1 .. n : i <= Len(h) => h[1].at <= h[i].at}
<1>1. 0 \in T
  OBVIOUS
<1>2. ASSUME NEW n \in Nat, n \in T PROVE n + 1 \in T
  <2> SUFFICES ASSUME n + 1 <= Len(h) PROVE h[1].at <= h[n + 1].at
    BY <1>2
  <2>0. Len(h) \in Nat /\ n + 1 \in 1 .. Len(h) /\ 1 \in 1 .. Len(h)
    BY HeapItems
  <2>1. CASE n = 0
    BY <2>0, <2>1, HeapItems
  <2>2. CASE n # 0
    <3> DEFINE p == (n + 1) \div 2
    <3>1. p \in 1 .. n /\ p <= Len(h) /\ n + 1 \in 2 .. Len(h)
      BY <2>0, <2>2, Halves
    <3>2. h[p].at <= h[n + 1].at
      BY <3>1 DEF Ordered
    <3> HIDE DEF p
    <3>3. h[1].at <= h[p].at
      BY <1>2, <3>1
    <3>4. h[1].at \in Nat /\ h[p].at \in Nat /\ h[n + 1].at \in Nat
      BY <2>0, <3>1, HeapItems
    <3> QED  BY <3>2, <3>3, <3>4
  <2> QED  BY <2>1, <2>2
<1>3. Len(h) \in T
  <2>1. Len(h) \in Nat
    BY HeapItems
  <2> HIDE DEF T
  <2> QED  BY <1>1, <1>2, <2>1, Upwards
<1> QED  BY <1>3, HeapItems
-----------------------------------------------------------------------------
(* The loop of _sched_timer_up: the heap is ordered but for i, which may   *)
(* be earlier than its parent, though what is below it is not.             *)
OrderedButUp(h, i) ==
  /\ \A j \in 2 .. Len(h) : j # i => h[j \div 2].at <= h[j].at
  /\ \A j \in 2 .. Len(h) : j \div 2 = i /\ i > 1 => h[i \div 2].at <= h[j].at
UpOver(h, i) == i = 1 \/ h[i].at >= h[i \div 2].at

LEMMA UpRound ==
  ASSUME NEW h \in Heaps, NEW i \in 1 .. Len(h), OrderedButUp(h, i), ~UpOver(h, i)
  PROVE  LET p == i \div 2 IN
         p \in 1 .. i - 1 /\ OrderedButUp(Swap(h, i, p), p) /\ Rearranged(Swap(h, i, p), h)
<1> DEFINE p == i \div 2  g == Swap(h, i, p)
<1>1. Len(h) \in Nat /\ \A k \in 1 .. Len(h) : h[k].at \in Nat
  BY HeapItems
<1>2. i > 1 /\ i \in 2 .. Len(h) /\ p \in 1 .. i - 1 /\ p \in 1 .. Len(h)
  BY <1>1, Halves DEF UpOver
<1>3. h[i].at < h[p].at
  BY <1>1, <1>2 DEF UpOver
<1>4. /\ Rearranged(g, h) /\ g[i] = h[p] /\ g[p] = h[i]
      /\ \A k \in 1 .. Len(h) : k # i /\ k # p => g[k] = h[k]
  BY <1>2, Swapped
<1>5. Len(g) = Len(h)
  BY <1>4 DEF Rearranged
<1> HIDE DEF g
<1>6. \A j \in 2 .. Len(h) : j \div 2 \in 1 .. j - 1 /\ j \div 2 \in 1 .. Len(h) /\ j \in 1 .. Len(h)
  BY <1>1, Halves
<1>0. p = i \div 2
  OBVIOUS
<1> HIDE DEF p
<1>7. ASSUME NEW j \in 2 .. Len(h), NEW q, q = j \div 2, j # p PROVE g[q].at <= g[j].at
  <2>0. q \in 1 .. j - 1 /\ q \in 1 .. Len(h) /\ j \in 1 .. Len(h)
    BY <1>6, <1>7
  <2>1. h[q].at \in Nat /\ h[j].at \in Nat /\ h[i].at \in Nat /\ h[p].at \in Nat
    BY <1>1, <1>2, <2>0
  <2>2. CASE j = i
    <3>1. q = p
      BY <1>0, <1>7, <2>2
    <3> QED  BY <1>3, <1>4, <2>1, <2>2, <3>1
  <2>3. CASE j # i /\ q = i
    <3>1. h[p].at <= h[j].at
      BY <1>0, <1>2, <1>7, <2>3 DEF OrderedButUp
    <3> QED  BY <1>4, <1>7, <2>0, <2>3, <3>1
  <2>4. CASE j # i /\ q = p
    <3>1. h[p].at <= h[j].at
      BY <1>7, <2>4 DEF OrderedButUp
    <3>2. g[j] = h[j] /\ g[q] = h[i]
      BY <1>4, <1>7, <2>0, <2>4
    <3> QED  BY <1>3, <2>1, <3>1, <3>2
  <2>5. CASE j # i /\ q # i /\ q # p
    <3>1. h[q].at <= h[j].at
      BY <1>7, <2>5 DEF OrderedButUp
    <3> QED  BY <1>4, <1>7, <2>0, <2>5, <3>1
  <2> QED  BY <2>2, <2>3, <2>4, <2>5
<1>8. ASSUME NEW j \in 2 .. Len(h), j \div 2 = p, p > 1, NEW r, r = p \div 2 PROVE g[r].at <= g[j].at
  <2>0. p \in 2 .. Len(h) /\ r \in 1 .. p - 1 /\ r \in 1 .. Len(h) /\ r # i /\ r # p /\ j \in 1 .. Len(h)
        /\ j # p /\ p # i
    BY <1>2, <1>6, <1>8
  <2>1. g[r] = h[r]
    BY <1>4, <2>0
  <2>2. h[r].at <= h[p].at
    BY <1>8, <2>0 DEF OrderedButUp
  <2>3. CASE j = i
    BY <1>4, <2>1, <2>2, <2>3
  <2>4. CASE j # i
    <3>1. h[p].at <= h[j].at
      BY <1>8, <2>4 DEF OrderedButUp
    <3>2. g[j] = h[j]
      BY <1>4, <2>0, <2>4
    <3>3. h[r].at \in Nat /\ h[p].at \in Nat /\ h[j].at \in Nat
      BY <1>1, <1>2, <2>0
    <3> QED  BY <2>1, <2>2, <3>1, <3>2, <3>3
  <2> QED  BY <2>3, <2>4
<1>9. OrderedButUp(g, p)
  BY <1>5, <1>7, <1>8 DEF OrderedButUp
<1> QED  BY <1>2, <1>4, <1>9 DEF g, p

LEMMA UpEnds ==
  ASSUME NEW h \in Heaps, NEW i \in 1 .. Len(h), OrderedButUp(h, i), UpOver(h, i)
  PROVE  Ordered(h)
<1> SUFFICES ASSUME NEW j \in 2 .. Len(h) PROVE h[j \div 2].at <= h[j].at
  BY DEF Ordered
<1>1. CASE j # i
  BY <1>1 DEF OrderedButUp
<1>2. CASE j = i
  <2>1. i # 1 /\ i > 1 /\ i \div 2 \in 1 .. Len(h)
    BY <1>2, HeapItems, Halves
  <2>2. h[i].at \in Nat /\ h[i \div 2].at \in Nat
    BY <2>1, HeapItems
  <2> QED  BY <1>2, <2>1, <2>2 DEF UpOver
<1> QED  BY <1>1, <1>2

LEMMA UpOrders ==
  ASSUME NEW h \in Heaps, Len(h) > 0, OrderedButUp(h, Len(h))
  PROVE  Rearranged(TimerUp(h), h) /\ Ordered(TimerUp(h))
<1> DEFINE n == Len(h)
           Goes(k, g, i) == /\ Rearranged(g, h) /\ i \in 1 .. n /\ OrderedButUp(g, i)
                            /\ UpOver(g, i) \/ i + k <= n
           I == {x \in Nat \X (Heaps \X Nat) : Goes(x[1], x[2][1], x[2][2])}
<1>1. n \in Nat \ {0}
  BY HeapItems
<1>2. <<0, <<h, n>>>> \in I
  <2>1. Rearranged(h, h)
    BY DEF Rearranged
  <2> QED  BY <1>1, <2>1
<1>3. ASSUME NEW k \in 0 .. n - 1, NEW x, <<k, x>> \in I
      PROVE  <<k + 1, Up[x]>> \in I
  <2>1. x \in Heaps \X Nat /\ Goes(k, x[1], x[2])
    BY <1>3
  <2> DEFINE g == x[1]  i == x[2]  p == i \div 2
  <2>2. g \in Heaps /\ i \in Nat /\ x = <<g, i>> /\ Len(g) = n /\ i \in 1 .. Len(g)
    BY <2>1 DEF Rearranged
  <2>3. Up[x] = IF UpOver(g, i) THEN x ELSE <<Swap(g, i, p), p>>
    BY <2>1 DEF Up, UpOver
  <2>4. CASE UpOver(g, i)
    <3>1. Goes(k + 1, g, i)
      BY <2>1, <2>4
    <3> QED  BY <2>1, <2>3, <2>4, <3>1
  <2>5. CASE ~UpOver(g, i)
    <3>1. p \in 1 .. i - 1 /\ OrderedButUp(Swap(g, i, p), p) /\ Rearranged(Swap(g, i, p), g)
      BY <2>1, <2>2, <2>5, UpRound
    <3>2. Rearranged(Swap(g, i, p), h) /\ Swap(g, i, p) \in Heaps
      BY <2>1, <3>1, RearrangedTwice DEF Rearranged
    <3>3. p + (k + 1) <= n /\ p \in 1 .. n /\ p \in Nat
      BY <1>1, <2>1, <2>2, <2>5, <3>1
    <3>4. Goes(k + 1, Swap(g, i, p), p)
      BY <3>1, <3>2, <3>3
    <3> HIDE DEF Goes, p, g, i
    <3> QED  BY <2>3, <2>5, <3>2, <3>3, <3>4
  <2> QED  BY <2>4, <2>5
<1> DEFINE x == Rounds(Up, <<h, n>>, n)
<1>4. <<n, x>> \in I
  <2> HIDE DEF I, x, n
  <2> QED  BY <1>1, <1>2, <1>3, LoopKeeps DEF x
<1> HIDE DEF x
<1>5. x[1] \in Heaps /\ x[2] \in Nat /\ Goes(n, x[1], x[2])
  BY <1>4
<1>6. UpOver(x[1], x[2]) /\ Rearranged(x[1], h) /\ x[2] \in 1 .. Len(x[1]) /\ OrderedButUp(x[1], x[2])
  BY <1>1, <1>5 DEF Rearranged
<1>7. Ordered(x[1])
  BY <1>5, <1>6, UpEnds
<1> QED  BY <1>6, <1>7 DEF TimerUp, x

-----------------------------------------------------------------------------
(* The loop of _sched_timer_down: the heap is ordered but for i, which may *)
(* be later than its children, though what is above it is not.             *)
OrderedButDown(h, i) ==
  /\ \A j \in 2 .. Len(h) : j \div 2 # i => h[j \div 2].at <= h[j].at
  /\ \A j \in 2 .. Len(h) : j \div 2 = i /\ i > 1 => h[i \div 2].at <= h[j].at

LEMMA EarliestIs ==
  ASSUME NEW h \in Heaps, NEW i \in 1 .. Len(h)
  PROVE  LET e == Earliest(h, i) IN
         /\ e \in 1 .. Len(h) /\ (e = i \/ (e > i /\ e \div 2 = i /\ e \in 2 .. Len(h)))
         /\ h[e].at <= h[i].at
         /\ \A j \in 2 .. Len(h) : j \div 2 = i => h[e].at <= h[j].at
<1> DEFINE C == {i, 2 * i, 2 * i + 1} \cap DOMAIN h
           IsLeast(k) == \A j \in C : h[k].at < h[j].at \/ (h[k].at = h[j].at /\ k <= j)
<1>1. Len(h) \in Nat /\ DOMAIN h = 1 .. Len(h) /\ \A k \in 1 .. Len(h) : h[k].at \in Nat
  BY HeapItems
<1>2. \E k \in C : IsLeast(k)
  <2> DEFINE a == IF 2 * i <= Len(h) /\ h[2 * i].at < h[i].at THEN 2 * i ELSE i
             b == IF 2 * i + 1 <= Len(h) /\ h[2 * i + 1].at < h[a].at THEN 2 * i + 1 ELSE a
  <2>1. a \in 1 .. Len(h) /\ a \in {i, 2 * i} /\ h[a].at <= h[i].at /\ (h[a].at = h[i].at => a = i)
        /\ (2 * i <= Len(h) => h[a].at <= h[2 * i].at)
    BY <1>1
  <2>2. 2 * i \in DOMAIN h <=> 2 * i <= Len(h)
    BY <1>1
  <2>3. 2 * i + 1 \in DOMAIN h <=> 2 * i + 1 <= Len(h)
    BY <1>1
  <2> HIDE DEF a
  <2>4. b \in 1 .. Len(h) /\ (b = a \/ b = 2 * i + 1) /\ h[b].at <= h[a].at /\ (h[b].at = h[a].at => b = a)
        /\ (2 * i + 1 <= Len(h) => h[b].at <= h[2 * i + 1].at)
    BY <1>1, <2>1
  <2> HIDE DEF b
  <2>5. b \in C
    BY <1>1, <2>1, <2>4
  <2>6. h[b].at < h[i].at \/ (h[b].at = h[i].at /\ b <= i)
    BY <1>1, <2>1, <2>4
  <2>7. ASSUME 2 * i \in DOMAIN h PROVE h[b].at < h[2 * i].at \/ (h[b].at = h[2 * i].at /\ b <= 2 * i)
    <3>1. h[a].at \in Nat /\ h[b].at \in Nat /\ h[2 * i].at \in Nat /\ a \in Nat /\ b \in Nat
      BY <1>1, <2>1, <2>4, <2>7
    <3> QED  BY <2>1, <2>2, <2>4, <2>7, <3>1
  <2>8. ASSUME 2 * i + 1 \in DOMAIN h
        PROVE  h[b].at < h[2 * i + 1].at \/ (h[b].at = h[2 * i + 1].at /\ b <= 2 * i + 1)
    <3>1. h[b].at \in Nat /\ h[2 * i + 1].at \in Nat
      BY <1>1, <2>4, <2>8
    <3> QED  BY <2>1, <2>3, <2>4, <2>8, <3>1
  <2> QED  BY <2>5, <2>6, <2>7, <2>8
<1> DEFINE e == Earliest(h, i)
<1>3. e \in C /\ IsLeast(e)
  BY <1>2, Zenon DEF Earliest
<1> HIDE DEF e
<1>4. e \in 1 .. Len(h) /\ i \in C /\ e \in {i, 2 * i, 2 * i + 1}
  BY <1>1, <1>3
<1>5. e = i \/ (e > i /\ e \div 2 = i /\ e \in 2 .. Len(h))
  <2>1. ASSUME e # i PROVE e > 1 /\ e > i /\ (e = 2 * i \/ e = 2 * i + 1)
    BY <1>1, <1>4, <2>1
  <2> QED  BY <1>1, <1>4, <2>1, Halves
<1>6. \A k \in C : h[e].at <= h[k].at
  BY <1>1, <1>3, <1>4
<1>7. ASSUME NEW j \in 2 .. Len(h), j \div 2 = i PROVE j \in C
  <2>1. j \in Nat /\ j > 1 /\ j \in DOMAIN h
    BY <1>1
  <2>2. j = 2 * i \/ j = 2 * i + 1
    BY <1>7, <2>1, Halves
  <2> QED  BY <2>1, <2>2
<1> QED  BY <1>4, <1>5, <1>6, <1>7 DEF e

LEMMA DownRound ==
  ASSUME NEW h \in Heaps, NEW i \in 1 .. Len(h), OrderedButDown(h, i), Earliest(h, i) # i
  PROVE  LET e == Earliest(h, i) IN
         e \in i + 1 .. Len(h) /\ OrderedButDown(Swap(h, i, e), e) /\ Rearranged(Swap(h, i, e), h)
<1> DEFINE e == Earliest(h, i)  g == Swap(h, i, e)
<1>1. Len(h) \in Nat /\ \A k \in 1 .. Len(h) : h[k].at \in Nat
  BY HeapItems
<1>2. /\ e \in 1 .. Len(h) /\ e > i /\ e \div 2 = i /\ e \in 2 .. Len(h)
      /\ h[e].at <= h[i].at /\ \A j \in 2 .. Len(h) : j \div 2 = i => h[e].at <= h[j].at
  BY EarliestIs
<1> HIDE DEF e
<1>4. /\ Rearranged(g, h) /\ g[i] = h[e] /\ g[e] = h[i]
      /\ \A k \in 1 .. Len(h) : k # i /\ k # e => g[k] = h[k]
  BY <1>2, Swapped
<1>5. Len(g) = Len(h)
  BY <1>4 DEF Rearranged
<1> HIDE DEF g
<1>6. \A j \in 2 .. Len(h) : j \div 2 \in 1 .. j - 1 /\ j \div 2 \in 1 .. Len(h) /\ j \in 1 .. Len(h)
  BY <1>1, Halves
<1>7. ASSUME NEW j \in 2 .. Len(h), j \div 2 # e PROVE g[j \div 2].at <= g[j].at
  <2> DEFINE q == j \div 2
  <2>0. q \in 1 .. j - 1 /\ q \in 1 .. Len(h) /\ j \in 1 .. Len(h) /\ q # e
    BY <1>6, <1>7
  <2>1. CASE j = e
    BY <1>2, <1>4, <2>1
  <2>2. CASE j # e /\ q = i
    <3>1. h[e].at <= h[j].at
      BY <1>2, <2>2
    <3>2. j # i
      BY <2>0, <2>2
    <3> QED  BY <1>4, <2>0, <2>2, <3>1, <3>2
  <2>3. CASE j = i
    <3>1. i > 1
      BY <2>3
    <3>2. h[q].at <= h[e].at
      BY <1>2, <2>3, <3>1 DEF OrderedButDown
    <3>3. q # i
      BY <2>0, <2>3
    <3> QED  BY <1>4, <2>0, <2>3, <3>2, <3>3
  <2>4. CASE j # e /\ j # i /\ q # i
    <3>1. h[q].at <= h[j].at
      BY <2>4 DEF OrderedButDown
    <3> QED  BY <1>4, <2>0, <2>4, <3>1
  <2> QED  BY <2>1, <2>2, <2>3, <2>4
<1>8. ASSUME NEW j \in 2 .. Len(h), j \div 2 = e PROVE g[e \div 2].at <= g[j].at
  <2>1. j \in 1 .. Len(h) /\ j # e /\ j # i /\ e # i
    <3>1. e \in 1 .. j - 1
      BY <1>6, <1>8
    <3> QED  BY <1>2, <3>1
  <2>2. h[e].at <= h[j].at
    BY <1>8, <2>1 DEF OrderedButDown
  <2> QED  BY <1>2, <1>4, <2>1, <2>2
<1>9. OrderedButDown(g, e)
  BY <1>5, <1>7, <1>8 DEF OrderedButDown
<1>10. e \in i + 1 .. Len(h)
  BY <1>1, <1>2
<1> QED  BY <1>4, <1>9, <1>10 DEF e, g

LEMMA DownOrders ==
  ASSUME NEW h \in Heaps, Len(h) > 0, OrderedButDown(h, 1)
  PROVE  Rearranged(TimerDown(h), h) /\ Ordered(TimerDown(h))
<1> DEFINE n == Len(h)
           Goes(k, g, i) == /\ Rearranged(g, h) /\ i \in 1 .. n /\ OrderedButDown(g, i)
                            /\ Earliest(g, i) = i \/ i >= k + 1
           I == {x \in Nat \X (Heaps \X Nat) : Goes(x[1], x[2][1], x[2][2])}
<1>1. n \in Nat \ {0}
  BY HeapItems
<1>2. <<0, <<h, 1>>>> \in I
  <2>1. Rearranged(h, h)
    BY DEF Rearranged
  <2> QED  BY <1>1, <2>1
<1>3. ASSUME NEW k \in 0 .. n - 1, NEW x, <<k, x>> \in I
      PROVE  <<k + 1, Down[x]>> \in I
  <2>1. x \in Heaps \X Nat /\ Goes(k, x[1], x[2])
    BY <1>3
  <2> DEFINE g == x[1]  i == x[2]  e == Earliest(g, i)
  <2>2. g \in Heaps /\ i \in Nat /\ x = <<g, i>> /\ Len(g) = n /\ i \in 1 .. Len(g)
    BY <2>1 DEF Rearranged
  <2>3. Down[x] = <<Swap(g, i, e), e>>
    BY <2>1 DEF Down
  <2>4. CASE e = i
    <3>1. Swap(g, i, e) = g
      BY <2>2, <2>4, Swapped
    <3>2. Down[x] = x
      BY <2>2, <2>3, <2>4, <3>1
    <3>3. Goes(k + 1, g, i)
      BY <2>1, <2>4
    <3> QED  BY <2>1, <3>2, <3>3
  <2>5. CASE e # i
    <3>1. e \in i + 1 .. Len(g) /\ OrderedButDown(Swap(g, i, e), e) /\ Rearranged(Swap(g, i, e), g)
      BY <2>1, <2>2, <2>5, DownRound
    <3>2. Rearranged(Swap(g, i, e), h) /\ Swap(g, i, e) \in Heaps
      BY <2>1, <3>1, RearrangedTwice DEF Rearranged
    <3>3. e >= (k + 1) + 1 /\ e \in 1 .. n /\ e \in Nat
      BY <1>1, <2>1, <2>2, <2>5, <3>1
    <3> HIDE DEF e
    <3>4. Goes(k + 1, Swap(g, i, e), e)
      BY <3>1, <3>2, <3>3
    <3> HIDE DEF Goes, g, i
    <3> QED  BY <2>3, <3>2, <3>3, <3>4
  <2> QED  BY <2>4, <2>5
<1> DEFINE x == Rounds(Down, <<h, 1>>, n)
<1>4. <<n, x>> \in I
  <2> HIDE DEF I, x, n
  <2> QED  BY <1>1, <1>2, <1>3, LoopKeeps DEF x
<1> HIDE DEF x
<1>5. x[1] \in Heaps /\ x[2] \in Nat /\ Goes(n, x[1], x[2])
  BY <1>4
<1> DEFINE g == x[1]  i == x[2]
<1>6. Earliest(g, i) = i /\ Rearranged(g, h) /\ i \in 1 .. Len(g) /\ OrderedButDown(g, i)
  BY <1>1, <1>5 DEF Rearranged
<1>7. Ordered(g)
  <2> SUFFICES ASSUME NEW j \in 2 .. Len(g) PROVE g[j \div 2].at <= g[j].at
    BY DEF Ordered
  <2>1. CASE j \div 2 = i
    BY <1>5, <1>6, <2>1, EarliestIs
  <2>2. CASE j \div 2 # i
    BY <1>6, <2>2 DEF OrderedButDown
  <2> QED  BY <2>1, <2>2
<1> QED  BY <1>6, <1>7 DEF TimerDown, x
-----------------------------------------------------------------------------
(* xt_scheduler_timer_add and the pop of _timer_tick keep the heap.        *)
LEMMA AddOrders ==
  ASSUME NEW h \in Heaps, Ordered(h), Apart(h), NEW x \in Timer, \A i \in DOMAIN h : h[i].fiber # x.fiber
  PROVE  LET g == TimerUp(Append(h, x)) IN
         /\ g \in Heaps /\ Ordered(g) /\ Apart(g) /\ ToSet(g) = ToSet(h) \cup {x} /\ Len(g) = Len(h) + 1
<1> DEFINE a == Append(h, x)
<1>1. /\ a \in Heaps /\ Len(a) = Len(h) + 1 /\ a[Len(h) + 1] = x
      /\ \A i \in 1 .. Len(h) : a[i] = h[i]
  BY AppendProperties DEF Heaps, Timer
<1>2. Len(h) \in Nat /\ DOMAIN h = 1 .. Len(h) /\ DOMAIN a = 1 .. Len(h) + 1
  BY <1>1, HeapItems
<1>3. ToSet(a) = ToSet(h) \cup {x}
  <2>1. h \in Seq(Timer)
    BY DEF Heaps, Timer
  <2> QED  BY <2>1, OnceAppended
<1> HIDE DEF a
<1>4. Apart(a)
  <2> SUFFICES ASSUME NEW i \in 1 .. Len(h) + 1, NEW j \in 1 .. Len(h) + 1, a[i].fiber = a[j].fiber
               PROVE  i = j
    BY <1>2 DEF Apart
  <2>1. \A k \in 1 .. Len(h) + 1 : k # Len(h) + 1 => k \in 1 .. Len(h)
    BY <1>2
  <2> QED  BY <1>1, <1>2, <2>1 DEF Apart
<1>5. OrderedButUp(a, Len(a))
  <2>1. ASSUME NEW j \in 2 .. Len(a) PROVE j \div 2 \in 1 .. Len(h) /\ j \div 2 < j /\ (j # Len(a) => j \in 2 .. Len(h))
    BY <1>1, <1>2, Halves
  <2>2. ASSUME NEW j \in 2 .. Len(a), j # Len(a) PROVE a[j \div 2].at <= a[j].at
    <3>1. j \in 2 .. Len(h) /\ j \in 1 .. Len(h)
      BY <2>1, <2>2
    <3>2. a[j \div 2] = h[j \div 2] /\ a[j] = h[j]
      BY <1>1, <2>1, <3>1
    <3> QED  BY <3>1, <3>2 DEF Ordered
  <2>3. \A j \in 2 .. Len(a) : j \div 2 # Len(a)
    BY <1>1, <1>2, <2>1
  <2> QED  BY <2>2, <2>3 DEF OrderedButUp
<1>6. Rearranged(TimerUp(a), a) /\ Ordered(TimerUp(a))
  BY <1>1, <1>2, <1>5, UpOrders
<1>7. TimerUp(a) \in Heaps /\ Len(TimerUp(a)) = Len(a) /\ ToSet(TimerUp(a)) = ToSet(a) /\ Apart(TimerUp(a))
  BY <1>4, <1>6 DEF Rearranged
<1> QED  BY <1>1, <1>3, <1>6, <1>7 DEF a

LEMMA PopOrders ==
  ASSUME NEW h \in Heaps, Ordered(h), Apart(h), h # <<>>
  PROVE  /\ Popped(h) \in Heaps /\ Ordered(Popped(h)) /\ Apart(Popped(h))
         /\ ToSet(Popped(h)) = ToSet(h) \ {h[1]} /\ Len(Popped(h)) = Len(h) - 1
<1> DEFINE n == Len(h)  a == [h EXCEPT ![1] = h[n]]  b == SubSeq(a, 1, n - 1)
<1>1. n \in Nat \ {0} /\ DOMAIN h = 1 .. n /\ \A i \in 1 .. n : h[i] \in Timer
  BY HeapItems
<1>2. \A i, j \in 1 .. n : h[i] = h[j] => i = j
  BY <1>1 DEF Apart
<1>3. ToSet(h) = {h[i] : i \in 1 .. n}
  BY <1>1 DEF ToSet
<1>4. CASE n = 1
  <2>1. Popped(h) = <<>> /\ <<>> \in Heaps /\ Len(<<>>) = 0
    BY <1>4 DEF Popped, Heaps
  <2>2. Ordered(<<>>) /\ Apart(<<>>) /\ ToSet(<<>>) = {}
    BY DEF Ordered, Apart, ToSet
  <2>3. ToSet(h) = {h[1]}
    BY <1>3, <1>4
  <2> QED  BY <1>4, <2>1, <2>2, <2>3
<1>5. CASE n # 1
  <2>1. Popped(h) = TimerDown(b)
    BY <1>5 DEF Popped
  <2>2. a \in Seq(Timer) /\ Len(a) = n /\ a[1] = h[n] /\ \A i \in 2 .. n : a[i] = h[i]
    <3>1. h \in Seq(Timer) /\ h[n] \in Timer /\ 1 \in 1 .. n /\ n \in 1 .. n
      BY <1>1 DEF Heaps, Timer
    <3>2. a \in Seq(Timer) /\ Len(a) = n
      BY <3>1, ExceptSeq
    <3>3. a[1] = h[n] /\ \A i \in 2 .. n : a[i] = h[i]
      BY <1>1, <3>1
    <3> QED  BY <3>2, <3>3
  <2> HIDE DEF a
  <2>3. \A i \in 1 .. n : a[i] \in Timer
    BY <2>2, ElementOfSeq
  <2>4. /\ b \in Seq(Timer) /\ Len(b) = n - 1 /\ \A i \in 1 .. n - 1 : b[i] = a[i]
    <3>1. n - 1 \in 1 .. Len(a)
      BY <1>1, <1>5, <2>2
    <3>2. /\ b \in Seq(Timer)
          /\ Len(b) = IF 1 <= n - 1 THEN (n - 1) - 1 + 1 ELSE 0
          /\ \A i \in 1 .. (n - 1) - 1 + 1 : b[i] = a[1 + i - 1]
      <4> DEFINE l == n - 1
      <4>1. l \in Int /\ 1 \in Int /\ \A i \in 1 .. l : a[i] \in Timer
        BY <1>1, <2>3
      <4>2. b = SubSeq(a, 1, l)
        OBVIOUS
      <4> HIDE DEF l, b
      <4>3. /\ b \in Seq(Timer)
            /\ Len(b) = IF 1 <= l THEN l - 1 + 1 ELSE 0
            /\ \A i \in 1 .. l - 1 + 1 : b[i] = a[1 + i - 1]
        BY <4>1, <4>2, SubSeqProperties
      <4> QED  BY <4>3 DEF l
    <3> HIDE DEF b
    <3>3. \A i \in 1 .. n - 1 : i \in 1 .. (n - 1) - 1 + 1 /\ 1 + i - 1 = i
      BY <1>1
    <3>4. \A i \in 1 .. n - 1 : b[i] = a[i]
      BY <3>2, <3>3
    <3>5. Len(b) = n - 1
      <4> HIDE DEF n
      <4> QED  BY <1>1, <1>5, <3>2
    <3> QED  BY <3>2, <3>4, <3>5
  <2> HIDE DEF b
  <2>5. b \in Heaps /\ DOMAIN b = 1 .. n - 1 /\ Len(b) > 0
    BY <1>1, <1>5, <2>4, LenProperties DEF Heaps, Timer
  <2>6. b[1] = h[n] /\ \A i \in 2 .. n - 1 : b[i] = h[i]
    BY <1>1, <1>5, <2>2, <2>4
  <2>7. ToSet(b) = ToSet(h) \ {h[1]}
    <3>1. ASSUME NEW i \in 1 .. n - 1 PROVE b[i] \in ToSet(h) \ {h[1]}
      <4>1. CASE i = 1
        BY <1>1, <1>2, <1>3, <1>5, <2>6, <4>1
      <4>2. CASE i # 1
        <5>1. i \in 1 .. n /\ i \in 2 .. n - 1 /\ 1 \in 1 .. n
          BY <1>1, <4>2
        <5> QED  BY <1>2, <1>3, <2>6, <4>2, <5>1
      <4> QED  BY <4>1, <4>2
    <3>2. ASSUME NEW i \in 1 .. n, h[i] # h[1] PROVE \E j \in 1 .. n - 1 : b[j] = h[i]
      <4>1. CASE i = n
        <5>1. 1 \in 1 .. n - 1
          BY <1>1, <1>5
        <5> QED  BY <2>6, <4>1, <5>1
      <4>2. CASE i # n
        <5>1. i \in 2 .. n - 1 /\ i \in 1 .. n - 1
          <6>1. i # 1 /\ i # n /\ i \in 1 .. n
            BY <3>2, <4>2
          <6> HIDE DEF n
          <6> QED  BY <1>1, <6>1
        <5> QED  BY <2>6, <5>1
      <4> QED  BY <4>1, <4>2
    <3>3. ToSet(b) = {b[j] : j \in 1 .. n - 1}
      BY <2>5 DEF ToSet
    <3> QED  BY <1>3, <3>1, <3>2, <3>3
  <2>8. Apart(b)
    <3> SUFFICES ASSUME NEW i \in 1 .. n - 1, NEW j \in 1 .. n - 1, b[i].fiber = b[j].fiber PROVE i = j
      BY <2>5 DEF Apart
    <3>1. ASSUME NEW k \in 1 .. n - 1
          PROVE  b[k] = h[IF k = 1 THEN n ELSE k] /\ (IF k = 1 THEN n ELSE k) \in 1 .. n
      <4>1. k # 1 => k \in 2 .. n - 1 /\ k \in 1 .. n
        BY <1>1
      <4> QED  BY <1>1, <2>6, <4>1
    <3>2. (IF i = 1 THEN n ELSE i) = (IF j = 1 THEN n ELSE j)
      BY <1>1, <3>1 DEF Apart
    <3> QED  BY <1>1, <3>2
  <2>9. OrderedButDown(b, 1)
    <3> SUFFICES ASSUME NEW j \in 2 .. n - 1, j \div 2 # 1 PROVE b[j \div 2].at <= b[j].at
      BY <1>1, <2>4 DEF OrderedButDown
    <3>1. j \div 2 \in 2 .. n - 1 /\ j \in 2 .. n
      BY <1>1, Halves
    <3>2. h[j \div 2].at <= h[j].at
      BY <3>1 DEF Ordered
    <3> QED  BY <2>6, <3>1, <3>2
  <2>10. Rearranged(TimerDown(b), b) /\ Ordered(TimerDown(b))
    BY <2>5, <2>9, DownOrders
  <2> QED  BY <2>1, <2>4, <2>7, <2>8, <2>10 DEF Rearranged
<1> QED  BY <1>4, <1>5

(* The loop of xt_scheduler_timer_tick: what has been woken is due, in     *)
(* order, and not later than what is left.                                 *)
Woken(h, out, t) ==
  /\ h \in Heaps /\ Ordered(h) /\ Apart(h) /\ out \in Heaps
  /\ \A i \in 1 .. Len(out) : out[i].at <= t /\ \A j \in 1 .. i : out[j].at <= out[i].at
  /\ \A i \in 1 .. Len(out) : \A j \in 1 .. Len(h) : out[i].at <= h[j].at /\ out[i].fiber # h[j].fiber
TickOver(h, t) == h = <<>> \/ h[1].at > t

LEMMA TickRound ==
  ASSUME NEW h, NEW out, NEW t \in Nat, Woken(h, out, t), ~TickOver(h, t)
  PROVE  Woken(Popped(h), Append(out, h[1]), t) /\ Len(Popped(h)) = Len(h) - 1
<1> DEFINE g == Popped(h)  o == Append(out, h[1])
<1>1. /\ h \in Heaps /\ out \in Heaps /\ Len(h) \in Nat /\ Len(out) \in Nat /\ Len(h) > 0
      /\ \A i \in 1 .. Len(h) : h[i] \in Timer /\ h[i].at \in Nat
      /\ \A i \in 1 .. Len(out) : out[i] \in Timer /\ out[i].at \in Nat
  BY HeapItems DEF Woken, TickOver
<1>2. /\ g \in Heaps /\ Ordered(g) /\ Apart(g) /\ ToSet(g) = ToSet(h) \ {h[1]} /\ Len(g) = Len(h) - 1
  BY <1>1, PopOrders DEF Woken, TickOver
<1> HIDE DEF g
<1>3. 1 \in 1 .. Len(h) /\ h[1] \in Timer /\ h[1].at \in Nat
  BY <1>1
<1>4. /\ o \in Heaps /\ Len(o) = Len(out) + 1 /\ o[Len(out) + 1] = h[1]
      /\ \A i \in 1 .. Len(out) : o[i] = out[i]
  BY <1>1, <1>3, AppendProperties DEF Heaps, Timer
<1> HIDE DEF o
<1>5. \A i \in 1 .. Len(out) + 1 : i # Len(out) + 1 => i \in 1 .. Len(out)
  BY <1>1
<1>6. h[1].at <= t
  BY <1>1, <1>3 DEF TickOver
<1>7. ASSUME NEW i \in 1 .. Len(o), NEW j \in 1 .. i PROVE o[i].at <= t /\ o[j].at <= o[i].at
  <2>1. CASE i = Len(out) + 1 /\ j = i
    BY <1>3, <1>4, <1>6, <2>1
  <2>2. CASE i = Len(out) + 1 /\ j # i
    <3>1. j \in 1 .. Len(out)
      BY <1>1, <2>2
    <3> QED  BY <1>3, <1>4, <1>6, <2>2, <3>1 DEF Woken
  <2>3. CASE i # Len(out) + 1
    <3>1. i \in 1 .. Len(out) /\ j \in 1 .. Len(out)
      BY <1>1, <1>4, <2>3
    <3> QED  BY <1>4, <3>1 DEF Woken
  <2> QED  BY <2>1, <2>2, <2>3
<1>8. ASSUME NEW i \in 1 .. Len(o), NEW j \in 1 .. Len(g) PROVE o[i].at <= g[j].at /\ o[i].fiber # g[j].fiber
  <2>1. g[j] \in ToSet(g)
    BY <1>2, HeapItems
  <2>2. PICK l \in 1 .. Len(h) : g[j] = h[l] /\ l # 1
    <3>1. g[j] \in ToSet(h) /\ g[j] # h[1] /\ DOMAIN h = 1 .. Len(h)
      BY <1>1, <1>2, <2>1, HeapItems
    <3> QED  BY <3>1 DEF ToSet
  <2>3. CASE i = Len(out) + 1
    <3>1. h[1].at <= h[l].at
      BY <1>1, RootIsFirst DEF Woken
    <3>2. h[1].fiber # h[l].fiber
      BY <1>1, <1>3, <2>2, HeapItems DEF Woken, Apart
    <3> QED  BY <1>4, <2>2, <2>3, <3>1, <3>2
  <2>4. CASE i # Len(out) + 1
    BY <1>4, <1>5, <2>2, <2>4 DEF Woken
  <2> QED  BY <2>3, <2>4
<1>9. Woken(g, o, t)
  <2>1. \A i \in 1 .. Len(o) : i \in 1 .. i
    BY <1>1, <1>4
  <2> QED  BY <1>2, <1>4, <1>7, <1>8, <2>1 DEF Woken
<1> QED  BY <1>2, <1>9 DEF g, o

LEMMA TickWakes ==
  ASSUME NEW h \in Heaps, Ordered(h), Apart(h), NEW t \in Nat
  PROVE  Woken(TickAt(h, t)[1], TickAt(h, t)[2], t) /\ TickOver(TickAt(h, t)[1], t)
<1> DEFINE n == Len(h)
           Goes(k, g, o) == Woken(g, o, t) /\ (TickOver(g, t) \/ Len(g) + k <= n)
           I == {x \in Nat \X (Heaps \X Heaps) : Goes(x[1], x[2][1], x[2][2])}
<1>1. n \in Nat
  BY HeapItems
<1>2. <<0, <<h, <<>>>>>> \in I
  <2>1. <<>> \in Heaps /\ Len(<<>>) = 0
    BY DEF Heaps
  <2>2. Woken(h, <<>>, t)
    BY <2>1 DEF Woken
  <2> QED  BY <1>1, <2>1, <2>2
<1>3. ASSUME NEW k \in 0 .. n - 1, NEW x, <<k, x>> \in I
      PROVE  <<k + 1, Due(t)[x]>> \in I
  <2>1. x \in Heaps \X Heaps /\ Goes(k, x[1], x[2])
    BY <1>3
  <2> DEFINE g == x[1]  o == x[2]
  <2>2. Due(t)[x] = IF TickOver(g, t) THEN x ELSE <<Popped(g), Append(o, g[1])>>
    BY <2>1 DEF Due, TickOver
  <2>3. CASE TickOver(g, t)
    <3>1. Goes(k + 1, g, o)
      BY <2>1, <2>3
    <3> QED  BY <2>1, <2>2, <2>3, <3>1
  <2>4. CASE ~TickOver(g, t)
    <3> DEFINE gg == Popped(g)  oo == Append(o, g[1])
    <3>1. Woken(gg, oo, t) /\ Len(gg) = Len(g) - 1 /\ Len(g) \in Nat
      BY <2>1, <2>4, TickRound, HeapItems
    <3> HIDE DEF gg, oo
    <3>2. gg \in Heaps /\ oo \in Heaps
      BY <3>1 DEF Woken
    <3>3. Goes(k + 1, gg, oo)
      BY <1>1, <2>1, <2>4, <3>1
    <3>4. Due(t)[x] = <<gg, oo>>
      BY <2>2, <2>4 DEF gg, oo
    <3> HIDE DEF Goes
    <3> QED  BY <3>2, <3>3, <3>4
  <2> QED  BY <2>3, <2>4
<1> DEFINE x == Rounds(Due(t), <<h, <<>>>>, n)
<1>4. <<n, x>> \in I
  <2> DEFINE body == Due(t)  s == <<h, <<>>>>
  <2>1. \A k \in 0 .. n - 1 : \A y : <<k, y>> \in I => <<k + 1, body[y]>> \in I
    BY <1>3
  <2>2. <<0, s>> \in I
    BY <1>2
  <2>3. x = Rounds(body, s, n)
    OBVIOUS
  <2> HIDE DEF I, x, n, body, s
  <2> QED  BY <1>1, <2>1, <2>2, <2>3, LoopKeeps
<1> HIDE DEF x
<1>5. x[1] \in Heaps /\ Goes(n, x[1], x[2])
  BY <1>4
<1>6. Len(x[1]) \in Nat /\ (x[1] = <<>> <=> Len(x[1]) = 0)
  BY <1>5, HeapItems
<1>7. TickOver(x[1], t)
  BY <1>1, <1>5, <1>6 DEF TickOver
<1> QED  BY <1>5, <1>7 DEF TickAt, x

-----------------------------------------------------------------------------
TimerInv ==
  /\ timers \in Heaps /\ Ordered(timers) /\ Apart(timers) /\ now \in Nat
  /\ woken # <<>> => Woken(timers, woken, now) /\ TickOver(timers, now)

LEMMA TimerStep == TimerInv /\ [TimerNext]_timerVars => TimerInv'
<1> SUFFICES ASSUME TimerInv, [TimerNext]_timerVars PROVE TimerInv'
  OBVIOUS
<1>1. CASE UNCHANGED timerVars
  BY <1>1 DEF timerVars, TimerInv, Woken, TickOver
<1>2. ASSUME NEW f \in Sleepers, NEW t \in Times, TimerAdd(f, t) PROVE TimerInv'
  <2> DEFINE x == [fiber |-> f, at |-> t]
  <2>1. x \in Timer /\ \A i \in DOMAIN timers : timers[i].fiber # x.fiber
    BY <1>2 DEF Timer, TimerAdd, InHeap
  <2>2. timers' = timers \/ timers' = TimerUp(Append(timers, x))
    BY <1>2 DEF TimerAdd
  <2>3. timers' \in Heaps /\ Ordered(timers') /\ Apart(timers')
    BY <2>1, <2>2, AddOrders DEF TimerInv
  <2> QED  BY <1>2, <2>3 DEF TimerInv, TimerAdd
<1>3. ASSUME NEW t \in Times, TimerTick(t) PROVE TimerInv'
  <2>1. t \in Nat /\ timers' = TickAt(timers, t)[1] /\ woken' = TickAt(timers, t)[2] /\ now' = t
    BY <1>3, TimerAssumption DEF TimerTick
  <2>2. Woken(timers', woken', now') /\ TickOver(timers', now')
    BY <2>1, TickWakes DEF TimerInv
  <2> QED  BY <2>1, <2>2 DEF TimerInv, Woken, TickOver
<1> QED  BY <1>1, <1>2, <1>3 DEF TimerNext

(* xt_scheduler_timer_tick wakes the fibers that are due, the earliest     *)
(* first, and no other; the heap has each sleeping fiber once, also when   *)
(* times are equal and when it was full.                                   *)
THEOREM TimersWakeInOrder == TimerSpec => []TimersFireInOrder
<1>1. TimerInit => TimerInv
  <2>1. <<>> \in Heaps /\ Ordered(<<>>) /\ Apart(<<>>)
    BY DEF Heaps, Ordered, Apart
  <2> QED  BY <2>1 DEF TimerInit, TimerInv
<1>2. TimerInv => TimersFireInOrder
  <2> SUFFICES ASSUME TimerInv PROVE TimersFireInOrder
    OBVIOUS
  <2>1. Len(timers) \in Nat /\ DOMAIN timers = 1 .. Len(timers)
        /\ \A i \in 1 .. Len(timers) : timers[i].at \in Nat
    BY HeapItems DEF TimerInv
  <2>2. Cardinality(InHeap) = Len(timers)
    <3> DEFINE f == [i \in 1 .. Len(timers) |-> timers[i].fiber]
    <3>1. f \in Surjection(1 .. Len(timers), InHeap)
      BY <2>1 DEF Surjection, InHeap
    <3>2. f \in Injection(1 .. Len(timers), InHeap)
      BY <2>1 DEF Injection, IsInjective, InHeap, TimerInv, Apart
    <3>3. IsFiniteSet(1 .. Len(timers)) /\ Cardinality(1 .. Len(timers)) = Len(timers)
      <4> DEFINE l == Len(timers)
      <4>1. l \in Int /\ 1 \in Int /\ l - 1 + 1 = l /\ (1 > l => l = 0)
        BY <2>1
      <4> HIDE DEF l
      <4>2. IsFiniteSet(1 .. l) /\ Cardinality(1 .. l) = l
        BY <4>1, FS_Interval
      <4> QED  BY <4>2 DEF l
    <3> QED  BY <3>1, <3>2, <3>3, FS_Surjection
  <2>3. CASE woken = <<>>
    BY <2>2, <2>3 DEF TimersFireInOrder
  <2>4. CASE woken # <<>>
    <3>1. Woken(timers, woken, now) /\ TickOver(timers, now) /\ now \in Nat
      BY <2>4 DEF TimerInv
    <3>2. DOMAIN woken = 1 .. Len(woken)
      BY <3>1, HeapItems DEF Woken
    <3>3. \A i \in DOMAIN woken : woken[i].at <= now /\ \A j \in 1 .. i : woken[j].at <= woken[i].at
      BY <3>1, <3>2 DEF Woken
    <3>4. \A i \in DOMAIN woken : woken[i].fiber \notin InHeap
      BY <2>1, <3>1, <3>2 DEF Woken, InHeap
    <3>5. ASSUME NEW i \in 1 .. Len(timers) PROVE timers[i].at > now
      <4>1. timers # <<>> /\ 1 \in 1 .. Len(timers)
        BY <2>1, <3>5, HeapItems DEF TimerInv
      <4>2. timers[1].at > now /\ timers[1].at <= timers[i].at
        BY <3>1, <4>1, RootIsFirst DEF TickOver, TimerInv
      <4> QED  BY <2>1, <3>1, <4>1, <4>2
    <3> QED  BY <2>1, <2>2, <3>3, <3>4, <3>5 DEF TimersFireInOrder
  <2> QED  BY <2>3, <2>4
<1> QED  BY <1>1, <1>2, TimerStep, PTL DEF TimerSpec

-----------------------------------------------------------------------------
(* Dictionaries.                                                           *)
USE DictAssumption

Plain == KeySet \ WithNul
Entries == [key : Plain, value : Vals]
KeysIn(s) == [i \in DOMAIN s |-> s[i].key]
Belong(m, b) == {k \in DOMAIN m : BucketOf[k] = b}

(* A bucket s holds the keys K with their values in m.                     *)
Carries(s, K, m) ==
  /\ s \in Seq(Entries) /\ IsInjective(KeysIn(s)) /\ ToSet(KeysIn(s)) = K
  /\ \A i \in DOMAIN s : s[i].value = m[s[i].key]

DictInv == ~nulUsed =>
  /\ DOMAIN meant \subseteq Plain /\ IsFiniteSet(DOMAIN meant) /\ \A k \in DOMAIN meant : meant[k] \in Vals
  /\ DOMAIN buckets = Buckets /\ buckets = [b \in Buckets |-> buckets[b]]
  /\ \A b \in Buckets : Carries(buckets[b], Belong(meant, b), meant)
  /\ dictSize = Cardinality(DOMAIN meant)

-----------------------------------------------------------------------------
(* Buckets as lists: a new entry before the others, another value in one,  *)
(* one less.                                                               *)
LEMMA KeysAreOnce ==
  ASSUME NEW K, NEW m, NEW s, Carries(s, K, m)
  PROVE  /\ Len(s) \in Nat /\ DOMAIN s = 1 .. Len(s) /\ \A i \in 1 .. Len(s) : s[i] \in Entries
         /\ \A i \in 1 .. Len(s) : s[i].key \in K /\ s[i].key \in Plain
         /\ \A i, j \in 1 .. Len(s) : s[i].key = s[j].key => i = j
         /\ \A k \in K : \E i \in 1 .. Len(s) : s[i].key = k
<1>1. s \in Seq(Entries)
  BY DEF Carries
<1>2. Len(s) \in Nat /\ DOMAIN s = 1 .. Len(s) /\ \A i \in 1 .. Len(s) : s[i] \in Entries
  BY <1>1, LenProperties, ElementOfSeq
<1>3. DOMAIN KeysIn(s) = 1 .. Len(s) /\ \A i \in 1 .. Len(s) : KeysIn(s)[i] = s[i].key
  BY <1>2 DEF KeysIn
<1>4. \A i \in 1 .. Len(s) : s[i].key \in Plain
  BY <1>2 DEF Entries
<1>5. K = {KeysIn(s)[i] : i \in 1 .. Len(s)}
  BY <1>3 DEF Carries, ToSet
<1>6. \A i, j \in 1 .. Len(s) : s[i].key = s[j].key => i = j
  BY <1>3 DEF Carries, IsInjective
<1> QED  BY <1>2, <1>3, <1>4, <1>5, <1>6

LEMMA CarriesFrom ==
  ASSUME NEW K, NEW m, NEW s \in Seq(Entries),
         \A i, j \in 1 .. Len(s) : s[i].key = s[j].key => i = j,
         \A i \in 1 .. Len(s) : s[i].key \in K /\ s[i].value = m[s[i].key],
         \A k \in K : \E i \in 1 .. Len(s) : s[i].key = k
  PROVE  Carries(s, K, m)
<1>1. DOMAIN s = 1 .. Len(s)
  BY LenProperties
<1>2. DOMAIN KeysIn(s) = 1 .. Len(s) /\ \A i \in 1 .. Len(s) : KeysIn(s)[i] = s[i].key
  BY <1>1 DEF KeysIn
<1>3. IsInjective(KeysIn(s))
  BY <1>2 DEF IsInjective
<1>4. ToSet(KeysIn(s)) = K
  <2>1. ToSet(KeysIn(s)) = {s[i].key : i \in 1 .. Len(s)}
    BY <1>2 DEF ToSet
  <2> QED  BY <2>1
<1> QED  BY <1>1, <1>3, <1>4 DEF Carries

LEMMA EntryBefore ==
  ASSUME NEW K, NEW m, NEW s, Carries(s, K, m), NEW k \in Plain, NEW v \in Vals, k \notin K,
         NEW n, n[k] = v, \A l \in K : n[l] = m[l]
  PROVE  Carries(<<[key |-> k, value |-> v]>> \o s, K \cup {k}, n)
<1> DEFINE e == [key |-> k, value |-> v]  q == <<e>>  t == q \o s
<1>1. Len(s) \in Nat /\ \A i \in 1 .. Len(s) : s[i] \in Entries /\ s[i].key \in K
  BY KeysAreOnce
<1>2. e \in Entries /\ e.key = k /\ e.value = v
  BY DEF Entries
<1>3. q \in Seq(Entries) /\ Len(q) = 1 /\ q[1] = e /\ s \in Seq(Entries)
  BY <1>2 DEF Carries
<1>4. /\ t \in Seq(Entries) /\ Len(t) = Len(s) + 1
      /\ \A i \in 1 .. Len(s) + 1 : t[i] = IF i <= 1 THEN q[i] ELSE s[i - 1]
  <2>0. t = q \o s /\ q \in Seq(Entries) /\ s \in Seq(Entries)
    BY <1>3
  <2> HIDE DEF q, t, e
  <2>1. t \in Seq(Entries) /\ Len(t) = Len(q) + Len(s)
        /\ \A i \in 1 .. Len(q) + Len(s) : t[i] = IF i <= Len(q) THEN q[i] ELSE s[i - Len(q)]
    BY <2>0, ConcatProperties
  <2>2. Len(q) = 1 /\ 1 + Len(s) = Len(s) + 1
    BY <1>1, <1>3
  <2> QED  BY <2>1, <2>2
<1> HIDE DEF e, q, t
<1>5. t[1] = e /\ \A i \in 1 .. Len(s) + 1 : i # 1 => i - 1 \in 1 .. Len(s) /\ t[i] = s[i - 1]
  <2>1. \A i \in 1 .. Len(s) + 1 : i # 1 => i - 1 \in 1 .. Len(s) /\ ~(i <= 1)
    BY <1>1
  <2>2. 1 \in 1 .. Len(s) + 1
    BY <1>1
  <2> QED  BY <1>3, <1>4, <2>1, <2>2
<1>6. ASSUME NEW i \in 1 .. Len(t), NEW j \in 1 .. Len(t), t[i].key = t[j].key PROVE i = j
  <2>1. CASE i = 1 \/ j = 1
    BY <1>1, <1>2, <1>4, <1>5, <1>6, <2>1
  <2>2. CASE i # 1 /\ j # 1
    <3>1. i - 1 \in 1 .. Len(s) /\ j - 1 \in 1 .. Len(s) /\ s[i - 1].key = s[j - 1].key
      BY <1>4, <1>5, <1>6, <2>2
    <3>2. i - 1 = j - 1
      BY <3>1, KeysAreOnce
    <3> QED  BY <1>1, <1>4, <3>2
  <2> QED  BY <2>1, <2>2
<1>7. ASSUME NEW i \in 1 .. Len(t) PROVE t[i].key \in K \cup {k} /\ t[i].value = n[t[i].key]
  <2>1. CASE i = 1
    BY <1>2, <1>5, <2>1
  <2>2. CASE i # 1
    <3>1. DOMAIN s = 1 .. Len(s)
      BY KeysAreOnce
    <3>2. t[i] = s[i - 1] /\ i - 1 \in 1 .. Len(s) /\ s[i - 1].value = m[s[i - 1].key]
      BY <1>4, <1>5, <2>2, <3>1 DEF Carries
    <3> QED  BY <1>1, <3>2
  <2> QED  BY <2>1, <2>2
<1>8. ASSUME NEW l \in K \cup {k} PROVE \E i \in 1 .. Len(t) : t[i].key = l
  <2>1. CASE l = k
    <3>1. 1 \in 1 .. Len(t)
      BY <1>1, <1>4
    <3> QED  BY <1>2, <1>5, <2>1, <3>1
  <2>2. CASE l # k
    <3>1. PICK i \in 1 .. Len(s) : s[i].key = l
      BY <2>2, KeysAreOnce
    <3>2. i + 1 \in 1 .. Len(s) + 1 /\ i + 1 # 1 /\ (i + 1) - 1 = i
      BY <1>1
    <3>3. t[i + 1] = s[i]
      BY <1>5, <3>2
    <3> QED  BY <1>4, <3>1, <3>2, <3>3
  <2> QED  BY <2>1, <2>2
<1>9. Carries(t, K \cup {k}, n)
  BY <1>4, <1>6, <1>7, <1>8, CarriesFrom
<1> QED  BY <1>9 DEF t, q, e

LEMMA OtherValue ==
  ASSUME NEW K, NEW m, NEW s, Carries(s, K, m), NEW i \in DOMAIN s, NEW v \in Vals,
         NEW n, n[s[i].key] = v, \A l \in K : l # s[i].key => n[l] = m[l]
  PROVE  Carries([s EXCEPT ![i].value = v], K, n)
<1> DEFINE t == [s EXCEPT ![i].value = v]
<1>1. s \in Seq(Entries) /\ DOMAIN s = 1 .. Len(s) /\ \A j \in 1 .. Len(s) : s[j] \in Entries
  BY KeysAreOnce DEF Carries
<1>2. t = [s EXCEPT ![i] = [s[i] EXCEPT !.value = v]]
  OBVIOUS
<1>3. [s[i] EXCEPT !.value = v] \in Entries /\ [s[i] EXCEPT !.value = v].key = s[i].key
      /\ [s[i] EXCEPT !.value = v].value = v
  BY <1>1 DEF Entries
<1>4. t \in Seq(Entries) /\ Len(t) = Len(s)
  <2> HIDE DEF t
  <2> QED  BY <1>1, <1>2, <1>3, ExceptSeq
<1>5. \A j \in 1 .. Len(s) : t[j].key = s[j].key /\ t[j].value = IF j = i THEN v ELSE s[j].value
  <2>1. \A j \in 1 .. Len(s) : t[j] = IF j = i THEN [s[i] EXCEPT !.value = v] ELSE s[j]
    BY <1>1, <1>2
  <2> HIDE DEF t
  <2> QED  BY <1>3, <2>1
<1> HIDE DEF t
<1>6. \A j, l \in 1 .. Len(t) : t[j].key = t[l].key => j = l
  BY <1>4, <1>5, KeysAreOnce
<1>7. \A k \in K : \E j \in 1 .. Len(t) : t[j].key = k
  BY <1>4, <1>5, KeysAreOnce
<1>8. ASSUME NEW j \in 1 .. Len(t) PROVE t[j].key \in K /\ t[j].value = n[t[j].key]
  <2>1. CASE j = i
    BY <1>4, <1>5, <2>1, KeysAreOnce
  <2>2. CASE j # i
    <3>1. s[j].key # s[i].key /\ s[j].key \in K
      BY <1>1, <1>4, <2>2, KeysAreOnce
    <3>2. s[j].value = m[s[j].key]
      BY <1>1, <1>4 DEF Carries
    <3> QED  BY <1>4, <1>5, <2>2, <3>1, <3>2
  <2> QED  BY <2>1, <2>2
<1>9. Carries(t, K, n)
  BY <1>4, <1>6, <1>7, <1>8, CarriesFrom
<1> QED  BY <1>9 DEF t

LEMMA OneRemoved ==
  ASSUME NEW K, NEW m, NEW s, Carries(s, K, m), NEW i \in DOMAIN s,
         NEW n, \A l \in K : l # s[i].key => n[l] = m[l]
  PROVE  Carries(RemoveAt(s, i), K \ {s[i].key}, n)
<1> DEFINE len == Len(s)  a == SubSeq(s, 1, i - 1)  b == SubSeq(s, i + 1, len)  t == RemoveAt(s, i)
<1>1. s \in Seq(Entries) /\ DOMAIN s = 1 .. len /\ len \in Nat /\ \A j \in 1 .. len : s[j] \in Entries
  BY KeysAreOnce DEF Carries
<1>2. /\ a \in Seq(Entries) /\ Len(a) = i - 1 /\ \A j \in 1 .. i - 1 : a[j] = s[j]
  <2> DEFINE h == i - 1
  <2>1. h \in Int /\ 1 \in Int /\ \A j \in 1 .. h : s[j] \in Entries
    BY <1>1
  <2>2. /\ SubSeq(s, 1, h) \in Seq(Entries)
        /\ Len(SubSeq(s, 1, h)) = IF 1 <= h THEN h - 1 + 1 ELSE 0
        /\ \A j \in 1 .. h - 1 + 1 : SubSeq(s, 1, h)[j] = s[1 + j - 1]
    <3> HIDE DEF h
    <3> QED  BY <2>1, SubSeqProperties
  <2>3. \A j \in 1 .. h : j \in 1 .. h - 1 + 1 /\ 1 + j - 1 = j
    BY <2>1
  <2>4. \A j \in 1 .. h : SubSeq(s, 1, h)[j] = s[j]
    BY <2>2, <2>3
  <2>5. Len(SubSeq(s, 1, h)) = h
    BY <1>1, <2>2
  <2> QED  BY <2>2, <2>4, <2>5
<1>3. /\ b \in Seq(Entries) /\ Len(b) = len - i /\ \A j \in 1 .. len - i : b[j] = s[i + j]
  <2> DEFINE h == i + 1
  <2>0. i \in 1 .. len
    BY <1>1
  <2>1. h \in Int /\ len \in Int /\ \A j \in h .. len : s[j] \in Entries
    BY <1>1
  <2>2. /\ SubSeq(s, h, len) \in Seq(Entries)
        /\ Len(SubSeq(s, h, len)) = IF h <= len THEN len - h + 1 ELSE 0
        /\ \A j \in 1 .. len - h + 1 : SubSeq(s, h, len)[j] = s[h + j - 1]
    <3> HIDE DEF h, len
    <3> QED  BY <2>1, SubSeqProperties
  <2>3. \A j \in 1 .. len - i : j \in 1 .. len - h + 1 /\ h + j - 1 = i + j
    BY <2>1, <2>0
  <2>4. \A j \in 1 .. len - i : SubSeq(s, h, len)[j] = s[i + j]
    BY <2>2, <2>3
  <2>5. Len(SubSeq(s, h, len)) = len - i
    BY <1>1, <2>0, <2>2
  <2> QED  BY <2>2, <2>4, <2>5
<1>4. t = a \o b
  BY DEF RemoveAt
<1> HIDE DEF a, b, t, len
<1>5. /\ t \in Seq(Entries) /\ Len(t) = len - 1
      /\ \A j \in 1 .. len - 1 : t[j] = IF j <= i - 1 THEN a[j] ELSE b[j - (i - 1)]
  <2>1. /\ t \in Seq(Entries) /\ Len(t) = Len(a) + Len(b)
        /\ \A j \in 1 .. Len(a) + Len(b) : t[j] = IF j <= Len(a) THEN a[j] ELSE b[j - Len(a)]
    <3>1. a \in Seq(Entries) /\ b \in Seq(Entries)
      BY <1>2, <1>3
    <3> QED  BY <1>4, <3>1, ConcatProperties
  <2>2. (i - 1) + (len - i) = len - 1
    BY <1>1
  <2> QED  BY <1>2, <1>3, <2>1, <2>2
<1>6. \A j \in 1 .. len - 1 : t[j] = IF j < i THEN s[j] ELSE s[j + 1]
  <2> TAKE j \in 1 .. len - 1
  <2>0. i \in 1 .. len
    BY <1>1
  <2>1. CASE j < i
    <3>1. j <= i - 1 /\ j \in 1 .. i - 1
      BY <1>1, <2>0, <2>1
    <3> QED  BY <1>2, <1>5, <2>1, <3>1
  <2>2. CASE ~(j < i)
    <3>1. ~(j <= i - 1) /\ j - (i - 1) \in 1 .. len - i /\ i + (j - (i - 1)) = j + 1
      BY <1>1, <2>0, <2>2
    <3> QED  BY <1>3, <1>5, <2>2, <3>1
  <2> QED  BY <2>1, <2>2
<1> DEFINE old(j) == IF j < i THEN j ELSE j + 1
<1>7. \A j \in 1 .. len - 1 : old(j) \in 1 .. len /\ old(j) # i /\ t[j] = s[old(j)]
  BY <1>1, <1>6
<1>8. \A j, l \in 1 .. len - 1 : old(j) = old(l) => j = l
  BY <1>1
<1>9. \A j \in 1 .. len : j # i => \E l \in 1 .. len - 1 : old(l) = j
  <2> TAKE j \in 1 .. len
  <2>1. ASSUME j < i PROVE j \in 1 .. len - 1 /\ old(j) = j
    BY <1>1, <2>1
  <2>2. ASSUME j > i PROVE j - 1 \in 1 .. len - 1 /\ old(j - 1) = j
    BY <1>1, <2>2
  <2> HIDE DEF old
  <2> QED  BY <1>1, <2>1, <2>2
<1> HIDE DEF old
<1>10. len = Len(s)
  BY DEF len
<1>11. ASSUME NEW j \in 1 .. Len(t), NEW l \in 1 .. Len(t), t[j].key = t[l].key PROVE j = l
  <2>1. j \in 1 .. len - 1 /\ l \in 1 .. len - 1
    BY <1>5
  <2>2. old(j) \in 1 .. len /\ old(l) \in 1 .. len /\ s[old(j)].key = s[old(l)].key
    BY <1>7, <1>11, <2>1
  <2>3. old(j) = old(l)
    BY <1>10, <2>2, KeysAreOnce
  <2> QED  BY <1>8, <2>1, <2>3
<1>12. ASSUME NEW j \in 1 .. Len(t)
       PROVE  t[j].key \in K \ {s[i].key} /\ t[j].value = n[t[j].key]
  <2>1. old(j) \in 1 .. len /\ old(j) # i /\ t[j] = s[old(j)] /\ i \in 1 .. len
    BY <1>1, <1>5, <1>7
  <2>2. s[old(j)].key \in K /\ s[old(j)].key # s[i].key
    BY <1>10, <2>1, KeysAreOnce
  <2>3. s[old(j)].value = m[s[old(j)].key]
    BY <1>1, <2>1 DEF Carries
  <2> QED  BY <2>1, <2>2, <2>3
<1>13. ASSUME NEW k \in K \ {s[i].key} PROVE \E j \in 1 .. Len(t) : t[j].key = k
  <2>1. PICK j \in 1 .. len : s[j].key = k
    BY <1>10, KeysAreOnce
  <2>2. j # i
    BY <2>1
  <2>3. PICK l \in 1 .. len - 1 : old(l) = j
    BY <1>9, <2>2
  <2> QED  BY <1>5, <1>7, <2>1, <2>3
<1>14. Carries(t, K \ {s[i].key}, n)
  BY <1>5, <1>11, <1>12, <1>13, CarriesFrom
<1> QED  BY <1>14 DEF t
-----------------------------------------------------------------------------
(* The search finds the entry of a key if there is one.                    *)
LEMMA FoundIs ==
  ASSUME DictInv, ~nulUsed, NEW k \in Plain
  PROVE  /\ BucketOf[k] \in Buckets
         /\ Found(k) = {} <=> k \notin DOMAIN meant
         /\ Found(k) # {} => First(k) \in DOMAIN buckets[BucketOf[k]] /\ buckets[BucketOf[k]][First(k)].key = k
<1> DEFINE b == BucketOf[k]  s == buckets[b]
<1>1. b \in Buckets
  BY DEF Buckets, Plain
<1>2. Carries(s, Belong(meant, b), meant)
  BY <1>1 DEF DictInv
<1> HIDE DEF s
<1>3. /\ Len(s) \in Nat /\ DOMAIN s = 1 .. Len(s)
      /\ \A i \in 1 .. Len(s) : s[i].key \in Belong(meant, b) /\ s[i].key \in Plain
      /\ \A i, j \in 1 .. Len(s) : s[i].key = s[j].key => i = j
      /\ \A l \in Belong(meant, b) : \E i \in 1 .. Len(s) : s[i].key = l
  BY <1>2, KeysAreOnce
<1>4. \A i \in 1 .. Len(s) : Eq(s[i].key, k) <=> s[i].key = k
  BY <1>3 DEF Eq, Plain
<1>5. Found(k) = {i \in 1 .. Len(s) : s[i].key = k}
  BY <1>3, <1>4 DEF Found, s
<1>6. k \in DOMAIN meant <=> k \in Belong(meant, b)
  BY DEF Belong
<1>7. Found(k) = {} <=> k \notin DOMAIN meant
  BY <1>3, <1>5, <1>6
<1>8. ASSUME Found(k) # {} PROVE First(k) \in DOMAIN s /\ s[First(k)].key = k
  <2>1. PICK i \in Found(k) : TRUE
    BY <1>8
  <2>2. \A j \in Found(k) : j = i
    BY <1>3, <1>5, <2>1
  <2>3. i <= i
    BY <1>3, <1>5, <2>1
  <2>4. First(k) \in Found(k)
    BY <2>1, <2>2, <2>3 DEF First
  <2> QED  BY <1>3, <1>5, <2>4
<1> QED  BY <1>1, <1>7, <1>8 DEF s

(* A bucket that is not touched.                                           *)
LEMMA OtherBucket ==
  ASSUME NEW K, NEW m, NEW s, Carries(s, K, m), NEW n, \A l \in K : n[l] = m[l]
  PROVE  Carries(s, K, n)
<1>1. \A i \in DOMAIN s : s[i].key \in K
  BY KeysAreOnce
<1> QED  BY <1>1 DEF Carries

LEMMA StoreKeeps ==
  ASSUME DictInv, NEW k \in KeySet, NEW v \in Vals, DictStore(k, v)
  PROVE  DictInv'
<1> SUFFICES ASSUME ~nulUsed, k \in Plain PROVE DictInv'
  BY DEF DictStore, DictInv, Plain
<1> DEFINE b == BucketOf[k]  D == DOMAIN meant
<1>1. b \in Buckets /\ (Found(k) = {} <=> k \notin D)
  BY FoundIs
<1>2. /\ D \subseteq Plain /\ IsFiniteSet(D) /\ \A l \in D : meant[l] \in Vals
      /\ buckets = [c \in Buckets |-> buckets[c]]
      /\ \A c \in Buckets : Carries(buckets[c], Belong(meant, c), meant)
      /\ dictSize = Cardinality(D)
  BY DEF DictInv
<1>3. /\ DOMAIN meant' = D \cup {k} /\ meant'[k] = v
      /\ \A l \in D : l # k => meant'[l] = meant[l]
  BY DEF DictStore
<1>4. \A c \in Buckets : Belong(meant', c) = IF c = b THEN Belong(meant, c) \cup {k} ELSE Belong(meant, c)
  BY <1>3 DEF Belong
<1>5. DOMAIN meant' \subseteq Plain /\ IsFiniteSet(DOMAIN meant') /\ \A l \in DOMAIN meant' : meant'[l] \in Vals
  BY <1>2, <1>3, FS_AddElement
<1>6. dictSize' = Cardinality(DOMAIN meant')
  <2>1. Found(k) = {} => dictSize' = dictSize + 1
    BY DEF DictStore
  <2>2. Found(k) # {} => dictSize' = dictSize /\ D \cup {k} = D
    BY <1>1 DEF DictStore
  <2> QED  BY <1>1, <1>2, <1>3, <2>1, <2>2, FS_AddElement
<1>7. ASSUME NEW c \in Buckets, c # b PROVE Carries(buckets[c], Belong(meant', c), meant')
  <2>1. k \notin Belong(meant, c)
    BY <1>7 DEF Belong
  <2>2. \A l \in Belong(meant, c) : meant'[l] = meant[l]
    BY <1>3, <2>1 DEF Belong
  <2>3. Carries(buckets[c], Belong(meant, c), meant')
    BY <1>2, <2>2, OtherBucket
  <2> QED  BY <1>4, <1>7, <2>3
<1>8. CASE Found(k) = {}
  <2>1. buckets' = [buckets EXCEPT ![b] = <<[key |-> k, value |-> v]>> \o @]
    BY <1>8 DEF DictStore, Stored
  <2>2. k \notin Belong(meant, b) /\ \A l \in Belong(meant, b) : meant'[l] = meant[l]
    BY <1>1, <1>3, <1>8 DEF Belong
  <2>3. Carries(<<[key |-> k, value |-> v]>> \o buckets[b], Belong(meant, b) \cup {k}, meant')
    BY <1>1, <1>2, <1>3, <2>2, EntryBefore
  <2>4. /\ DOMAIN buckets' = Buckets /\ buckets' = [c \in Buckets |-> buckets'[c]]
        /\ buckets'[b] = <<[key |-> k, value |-> v]>> \o buckets[b]
        /\ \A c \in Buckets \ {b} : buckets'[c] = buckets[c]
    BY <1>1, <1>2, <2>1
  <2>5. ASSUME NEW c \in Buckets PROVE Carries(buckets'[c], Belong(meant', c), meant')
    <3>1. CASE c = b
      BY <1>4, <2>3, <2>4, <3>1
    <3>2. CASE c # b
      BY <1>7, <2>4, <3>2
    <3> QED  BY <3>1, <3>2
  <2> QED  BY <1>5, <1>6, <2>4, <2>5 DEF DictInv
<1>9. CASE Found(k) # {}
  <2> DEFINE i == First(k)  s == buckets[b]
  <2>0. i \in DOMAIN s /\ s[i].key = k
    BY <1>9, FoundIs
  <2>1. buckets' = [buckets EXCEPT ![b][i].value = v]
    BY <1>9 DEF DictStore, Stored
  <2> HIDE DEF i
  <2>2. \A l \in Belong(meant, b) : l # s[i].key => meant'[l] = meant[l]
    BY <1>3, <2>0 DEF Belong
  <2>3. Belong(meant', b) = Belong(meant, b)
    BY <1>1, <1>4, <1>9 DEF Belong
  <2>4. Carries([s EXCEPT ![i].value = v], Belong(meant, b), meant')
    BY <1>1, <1>2, <1>3, <2>0, <2>2, OtherValue
  <2>5. /\ DOMAIN buckets' = Buckets /\ buckets' = [c \in Buckets |-> buckets'[c]]
        /\ buckets'[b] = [s EXCEPT ![i].value = v]
        /\ \A c \in Buckets \ {b} : buckets'[c] = buckets[c]
    BY <1>1, <1>2, <2>1
  <2>6. \A c \in Buckets : Carries(buckets'[c], Belong(meant', c), meant')
    BY <1>1, <1>7, <2>3, <2>4, <2>5
  <2> QED  BY <1>5, <1>6, <2>5, <2>6 DEF DictInv
<1> QED  BY <1>8, <1>9

LEMMA DeleteKeeps ==
  ASSUME DictInv, NEW k \in KeySet, DictDelete(k)
  PROVE  DictInv'
<1> SUFFICES ASSUME ~nulUsed, k \in Plain PROVE DictInv'
  BY DEF DictDelete, DictInv, Plain
<1> DEFINE b == BucketOf[k]  D == DOMAIN meant
<1>1. b \in Buckets /\ (Found(k) = {} <=> k \notin D)
  BY FoundIs
<1>2. /\ D \subseteq Plain /\ IsFiniteSet(D) /\ \A l \in D : meant[l] \in Vals
      /\ buckets = [c \in Buckets |-> buckets[c]]
      /\ \A c \in Buckets : Carries(buckets[c], Belong(meant, c), meant)
      /\ dictSize = Cardinality(D)
  BY DEF DictInv
<1>3. DOMAIN meant' = D \ {k} /\ \A l \in D : l # k => meant'[l] = meant[l]
  BY DEF DictDelete
<1>4. \A c \in Buckets : Belong(meant', c) = Belong(meant, c) \ {k}
  BY <1>3 DEF Belong
<1>5. DOMAIN meant' \subseteq Plain /\ IsFiniteSet(DOMAIN meant') /\ \A l \in DOMAIN meant' : meant'[l] \in Vals
  BY <1>2, <1>3, FS_RemoveElement
<1>6. dictSize' = Cardinality(DOMAIN meant')
  <2>1. Found(k) # {} => dictSize' = dictSize - 1
    BY DEF DictDelete
  <2>2. Found(k) = {} => dictSize' = dictSize /\ D \ {k} = D
    BY <1>1 DEF DictDelete
  <2> QED  BY <1>1, <1>2, <1>3, <2>1, <2>2, FS_RemoveElement
<1>7. ASSUME NEW c \in Buckets, k \notin Belong(meant, c) PROVE Carries(buckets[c], Belong(meant', c), meant')
  <2>1. \A l \in Belong(meant, c) : meant'[l] = meant[l]
    BY <1>3, <1>7 DEF Belong
  <2>2. Carries(buckets[c], Belong(meant, c), meant')
    BY <1>2, <2>1, OtherBucket
  <2>3. Belong(meant', c) = Belong(meant, c)
    BY <1>4, <1>7
  <2> QED  BY <2>2, <2>3
<1>8. CASE Found(k) = {}
  <2>1. buckets' = buckets
    BY <1>8 DEF DictDelete
  <2>2. \A c \in Buckets : k \notin Belong(meant, c)
    BY <1>1, <1>8 DEF Belong
  <2> QED  BY <1>2, <1>5, <1>6, <1>7, <2>1, <2>2 DEF DictInv
<1>9. CASE Found(k) # {}
  <2> DEFINE i == First(k)  s == buckets[b]
  <2>0. i \in DOMAIN s /\ s[i].key = k
    BY <1>9, FoundIs
  <2>1. buckets' = [buckets EXCEPT ![b] = RemoveAt(@, i)]
    BY <1>9 DEF DictDelete
  <2> HIDE DEF i
  <2>2. \A l \in Belong(meant, b) : l # s[i].key => meant'[l] = meant[l]
    BY <1>3, <2>0 DEF Belong
  <2>3. Carries(RemoveAt(s, i), Belong(meant, b) \ {s[i].key}, meant')
    BY <1>1, <1>2, <2>0, <2>2, OneRemoved
  <2>4. /\ DOMAIN buckets' = Buckets /\ buckets' = [c \in Buckets |-> buckets'[c]]
        /\ buckets'[b] = RemoveAt(s, i)
        /\ \A c \in Buckets \ {b} : buckets'[c] = buckets[c] /\ k \notin Belong(meant, c)
    BY <1>1, <1>2, <2>1 DEF Belong
  <2>5. \A c \in Buckets : Carries(buckets'[c], Belong(meant', c), meant')
    BY <1>1, <1>4, <1>7, <2>0, <2>3, <2>4
  <2> QED  BY <1>5, <1>6, <2>4, <2>5 DEF DictInv
<1> QED  BY <1>8, <1>9

LEMMA InitMapped == DictInit => DictInv
<1> SUFFICES ASSUME DictInit PROVE DictInv
  OBVIOUS
<1>1. DOMAIN meant = {} /\ buckets = [b \in Buckets |-> <<>>] /\ dictSize = 0
  BY DEF DictInit
<1>2. Cardinality(DOMAIN meant) = 0 /\ IsFiniteSet(DOMAIN meant)
  BY <1>1, FS_EmptySet
<1>3. ASSUME NEW b \in Buckets PROVE Carries(buckets[b], Belong(meant, b), meant)
  <2>1. buckets[b] = <<>> /\ Belong(meant, b) = {} /\ <<>> \in Seq(Entries) /\ Len(<<>>) = 0
    BY <1>1 DEF Belong
  <2>2. Carries(<<>>, {}, meant)
    <3> DEFINE e == <<>>
    <3>1. e \in Seq(Entries) /\ 1 .. Len(e) = {}
      BY <2>1
    <3> HIDE DEF e
    <3>2. Carries(e, {}, meant)
      BY <3>1, CarriesFrom
    <3> QED  BY <3>2 DEF e
  <2> QED  BY <2>1, <2>2
<1> QED  BY <1>1, <1>2, <1>3 DEF DictInv

LEMMA StepMapped == DictInv /\ [DictNext]_dictVars => DictInv'
<1> SUFFICES ASSUME DictInv, [DictNext]_dictVars PROVE DictInv'
  OBVIOUS
<1>1. CASE UNCHANGED dictVars
  BY <1>1 DEF dictVars, DictInv
<1>2. CASE DictNext
  BY <1>2, StoreKeeps, DeleteKeeps DEF DictNext
<1> QED  BY <1>1, <1>2
-----------------------------------------------------------------------------
(* xt_dict_keys lists every bucket: what a list of lists holds when they   *)
(* are put one behind the other.                                           *)
LEMMA InOrder ==
  ASSUME NEW S, IsFiniteSet(S)
  PROVE  /\ SetToSeq(S) \in Seq(S) /\ IsInjective(SetToSeq(S)) /\ Len(SetToSeq(S)) = Cardinality(S)
         /\ S = {SetToSeq(S)[i] : i \in 1 .. Len(SetToSeq(S))}
<1> DEFINE n == Cardinality(S)
<1>1. n \in Nat /\ ExistsBijection(1 .. n, S)
  BY FS_CardinalityType
<1>2. PICK g : g \in [1 .. n -> S] /\ IsInjective(g)
  BY <1>1, Zenon DEF ExistsBijection, Bijection, Injection
<1> DEFINE f == SetToSeq(S)
<1>3. f \in [1 .. n -> S] /\ IsInjective(f)
  BY <1>2, Zenon DEF SetToSeq
<1>4. IsFiniteSet(1 .. n) /\ Cardinality(1 .. n) = n
  BY <1>1, FS_Interval
<1>5. f \in Injection(1 .. n, S)
  BY <1>3 DEF Injection
<1>6. f \in Surjection(1 .. n, S)
  BY <1>4, <1>5, FS_Injection
<1> HIDE DEF f
<1>7. f \in Seq(S) /\ Len(f) = n
  BY <1>1, <1>3
<1>8. S = {f[i] : i \in 1 .. n}
  BY <1>3, <1>6 DEF Surjection
<1> QED  BY <1>3, <1>7, <1>8 DEF f

LEMMA Flattened ==
  ASSUME NEW q, Len(q) \in Nat, Len(q) # 0
  PROVE  \E f : /\ FlattenSeq(q) = f[Len(q)] /\ f[1] = q[1]
                /\ \A n \in 1 .. Len(q) : n # 1 => f[n] = f[n - 1] \o q[n]
<1> DEFINE Part(f, n) == IF n = 1 THEN q[n] ELSE f[n - 1] \o q[n]
           T == {k \in Nat : \E f : f = [n \in 1 .. k |-> Part(f, n)]}
<1>1. 0 \in T
  <2>1. \A f : [n \in 1 .. 0 |-> Part(f, n)] = <<>>
    OBVIOUS
  <2> QED  BY <2>1
<1>2. ASSUME NEW k \in Nat, k \in T PROVE k + 1 \in T
  <2>1. PICK f : f = [n \in 1 .. k |-> Part(f, n)]
    BY <1>2
  <2> DEFINE g == [n \in 1 .. k + 1 |-> IF n = k + 1 THEN Part(f, k + 1) ELSE f[n]]
  <2>2. \A n \in 1 .. k : g[n] = f[n] /\ f[n] = Part(f, n)
    <3>1. \A n \in 1 .. k : n \in 1 .. k + 1 /\ n # k + 1
      BY <1>2
    <3>2. \A n \in 1 .. k : g[n] = f[n]
      BY <3>1
    <3> HIDE DEF Part, g
    <3> QED  BY <2>1, <3>2
  <2>3. g[k + 1] = Part(f, k + 1)
    BY <1>2
  <2>4. ASSUME NEW n \in 1 .. k + 1 PROVE g[n] = Part(g, n)
    <3>1. g[n] = Part(f, n)
      <4> HIDE DEF g, Part
      <4>1. n = k + 1 \/ n \in 1 .. k
        BY <1>2
      <4> QED  BY <2>2, <2>3, <4>1
    <3>2. n # 1 => g[n - 1] = f[n - 1]
      <4> HIDE DEF g
      <4>1. n # 1 => n - 1 \in 1 .. k
        BY <1>2
      <4> QED  BY <2>2, <4>1
    <3> HIDE DEF g
    <3> QED  BY <3>1, <3>2
  <2>5. g = [n \in 1 .. k + 1 |-> g[n]]
    OBVIOUS
  <2> HIDE DEF g, Part
  <2>6. g = [n \in 1 .. k + 1 |-> Part(g, n)]
    BY <2>4, <2>5
  <2> QED  BY <2>6
<1>3. Len(q) \in T
  <2> HIDE DEF T
  <2> QED  BY <1>1, <1>2, Upwards
<1>4. PICK f : f = [n \in 1 .. Len(q) |-> Part(f, n)]
  BY <1>3
<1> DEFINE h == CHOOSE h : h = [n \in 1 .. Len(q) |-> Part(h, n)]
<1>5. h = [n \in 1 .. Len(q) |-> Part(h, n)]
  BY <1>4, Zenon
<1>6. FlattenSeq(q) = h[Len(q)]
  BY Zenon DEF FlattenSeq
<1> HIDE DEF h
<1>7. h[1] = q[1] /\ \A n \in 1 .. Len(q) : n # 1 => h[n] = h[n - 1] \o q[n]
  <2>1. 1 \in 1 .. Len(q)
    OBVIOUS
  <2> QED  BY <1>5, <2>1
<1> QED  BY <1>6, <1>7

LEMMA KeysJoined ==
  ASSUME NEW s \in Seq(Entries), NEW t \in Seq(Entries)
  PROVE  /\ s \o t \in Seq(Entries) /\ ToSet(KeysIn(s \o t)) = ToSet(KeysIn(s)) \cup ToSet(KeysIn(t))
         /\ IsInjective(KeysIn(s)) /\ IsInjective(KeysIn(t)) /\ ToSet(KeysIn(s)) \cap ToSet(KeysIn(t)) = {}
              => IsInjective(KeysIn(s \o t))
<1> DEFINE m == Len(s)  n == Len(t)  st == s \o t
<1>1. m \in Nat /\ n \in Nat /\ DOMAIN s = 1 .. m /\ DOMAIN t = 1 .. n
      /\ (\A i \in 1 .. m : s[i] \in Entries) /\ \A i \in 1 .. n : t[i] \in Entries
  BY LenProperties, ElementOfSeq
<1>2. /\ st \in Seq(Entries) /\ Len(st) = m + n
      /\ \A i \in 1 .. m + n : st[i] = IF i <= m THEN s[i] ELSE t[i - m]
  BY ConcatProperties
<1>3. DOMAIN st = 1 .. m + n
  BY <1>2, LenProperties
<1>4. KeysIn(s) \in Seq(Plain) /\ Len(KeysIn(s)) = m /\ \A i \in 1 .. m : KeysIn(s)[i] = s[i].key
  <2> HIDE DEF m
  <2> QED  BY <1>1 DEF KeysIn, Entries
<1>5. KeysIn(t) \in Seq(Plain) /\ Len(KeysIn(t)) = n /\ \A i \in 1 .. n : KeysIn(t)[i] = t[i].key
  <2> HIDE DEF n
  <2> QED  BY <1>1 DEF KeysIn, Entries
<1> HIDE DEF st, m, n
<1>6. KeysIn(st) = [i \in 1 .. m + n |-> st[i].key]
  BY <1>3 DEF KeysIn
<1> DEFINE j == KeysIn(s) \o KeysIn(t)
<1>7. /\ j \in Seq(Plain) /\ Len(j) = m + n
      /\ \A i \in 1 .. m + n : j[i] = IF i <= m THEN KeysIn(s)[i] ELSE KeysIn(t)[i - m]
  <2>1. /\ j \in Seq(Plain) /\ Len(j) = Len(KeysIn(s)) + Len(KeysIn(t))
        /\ \A i \in 1 .. Len(KeysIn(s)) + Len(KeysIn(t)) :
              j[i] = IF i <= Len(KeysIn(s)) THEN KeysIn(s)[i] ELSE KeysIn(t)[i - Len(KeysIn(s))]
    <3>1. KeysIn(s) \in Seq(Plain) /\ KeysIn(t) \in Seq(Plain)
      BY <1>4, <1>5
    <3> QED  BY <3>1, ConcatProperties
  <2> QED  BY <1>4, <1>5, <2>1
<1> HIDE DEF j
<1>8. j = [i \in 1 .. m + n |-> j[i]]
  BY <1>7, LenProperties
<1>9. ASSUME NEW i \in 1 .. m + n PROVE j[i] = st[i].key
  <2>1. CASE i <= m
    <3>1. i \in 1 .. m
      BY <1>1, <2>1
    <3> QED  BY <1>2, <1>4, <1>7, <2>1, <3>1
  <2>2. CASE ~(i <= m)
    <3>1. i - m \in 1 .. n
      BY <1>1, <2>2
    <3> QED  BY <1>2, <1>5, <1>7, <2>2, <3>1
  <2> QED  BY <2>1, <2>2
<1>10. KeysIn(st) = j
  BY <1>6, <1>8, <1>9
<1>11. /\ ToSet(j) = ToSet(KeysIn(s)) \cup ToSet(KeysIn(t))
       /\ IsInjective(KeysIn(s)) /\ IsInjective(KeysIn(t)) /\ ToSet(KeysIn(s)) \cap ToSet(KeysIn(t)) = {}
            => IsInjective(j)
  BY <1>4, <1>5, OnceJoined DEF j
<1> QED  BY <1>2, <1>10, <1>11 DEF st

(* Lists whose keys are apart, put one behind the other.                   *)
LEMMA KeysFlattened ==
  ASSUME NEW q \in Seq(Seq(Entries)), \A i \in 1 .. Len(q) : IsInjective(KeysIn(q[i])),
         \A i, j \in 1 .. Len(q) : i # j => ToSet(KeysIn(q[i])) \cap ToSet(KeysIn(q[j])) = {}
  PROVE  /\ FlattenSeq(q) \in Seq(Entries) /\ IsInjective(KeysIn(FlattenSeq(q)))
         /\ ToSet(KeysIn(FlattenSeq(q))) = UNION {ToSet(KeysIn(q[i])) : i \in 1 .. Len(q)}
<1> DEFINE m == Len(q)  Upto(k) == UNION {ToSet(KeysIn(q[i])) : i \in 1 .. k}
           Good(s, k) == s \in Seq(Entries) /\ IsInjective(KeysIn(s)) /\ ToSet(KeysIn(s)) = Upto(k)
<1>1. m \in Nat /\ \A i \in 1 .. m : q[i] \in Seq(Entries)
  BY LenProperties, ElementOfSeq
<1>2. CASE m = 0
  <2>1. FlattenSeq(q) = q /\ q = <<>>
    BY <1>2, EmptySeq DEF FlattenSeq
  <2>2. KeysIn(<<>>) = <<>> /\ IsInjective(<<>>) /\ ToSet(<<>>) = {} /\ Upto(0) = {} /\ <<>> \in Seq(Entries)
    BY DEF KeysIn, IsInjective, ToSet
  <2> QED  BY <1>2, <2>1, <2>2
<1>3. CASE m # 0
  <2>1. PICK f : /\ FlattenSeq(q) = f[m] /\ f[1] = q[1]
                 /\ \A n \in 1 .. m : n # 1 => f[n] = f[n - 1] \o q[n]
    BY <1>1, <1>3, Flattened
  <2> DEFINE T == {k \in Nat : k + 1 <= m => Good(f[k + 1], k + 1)}
  <2>2. 0 \in T
    <3>1. Upto(1) = ToSet(KeysIn(q[1]))
      OBVIOUS
    <3>2. 1 \in 1 .. m
      BY <1>1, <1>3
    <3>3. Good(f[1], 1)
      BY <1>1, <2>1, <3>1, <3>2
    <3> HIDE DEF Good
    <3> QED  BY <3>3
  <2>3. ASSUME NEW k \in Nat, k \in T PROVE k + 1 \in T
    <3> DEFINE n == k + 2
    <3> SUFFICES ASSUME n <= m PROVE Good(f[n], n)
      <4> HIDE DEF Good
      <4> QED  OBVIOUS
    <3>1. n \in 1 .. m /\ n # 1 /\ n - 1 = k + 1 /\ k + 1 <= m /\ 1 .. n = (1 .. k + 1) \cup {n}
      BY <1>1
    <3>2. Good(f[k + 1], k + 1)
      <4> HIDE DEF Good
      <4> QED  BY <2>3, <3>1
    <3>3. f[n] = f[k + 1] \o q[n]
      BY <2>1, <3>1
    <3>4. Upto(n) = Upto(k + 1) \cup ToSet(KeysIn(q[n]))
      BY <3>1
    <3>5. Upto(k + 1) \cap ToSet(KeysIn(q[n])) = {}
      <4>1. \A i \in 1 .. k + 1 : i \in 1 .. m /\ i # n
        BY <1>1, <3>1
      <4> HIDE DEF n
      <4>2. \A i \in 1 .. k + 1 : ToSet(KeysIn(q[i])) \cap ToSet(KeysIn(q[n])) = {}
        BY <3>1, <4>1
      <4> QED  BY <4>2
    <3>6. f[k + 1] \in Seq(Entries) /\ IsInjective(KeysIn(f[k + 1])) /\ ToSet(KeysIn(f[k + 1])) = Upto(k + 1)
      BY <3>2
    <3>7. q[n] \in Seq(Entries) /\ IsInjective(KeysIn(q[n]))
      BY <1>1, <3>1
    <3> HIDE DEF Upto, n
    <3>8. /\ f[n] \in Seq(Entries) /\ ToSet(KeysIn(f[n])) = Upto(k + 1) \cup ToSet(KeysIn(q[n]))
          /\ IsInjective(KeysIn(f[n]))
      BY <3>3, <3>5, <3>6, <3>7, KeysJoined
    <3> QED  BY <3>4, <3>8
  <2>4. m - 1 \in T
    <3>1. m - 1 \in Nat
      BY <1>1, <1>3
    <3> HIDE DEF T, m
    <3>2. Nat \subseteq T
      BY <2>2, <2>3, Upwards
    <3> QED  BY <3>1, <3>2
  <2>5. Good(f[m], m)
    <3>1. m - 1 + 1 = m /\ m <= m
      BY <1>1
    <3> HIDE DEF Good
    <3> QED  BY <2>4, <3>1
  <2> QED  BY <2>1, <2>5
<1> QED  BY <1>2, <1>3

(* xt_dict_keys, of what the buckets carry.                                *)
LEMMA AllListed ==
  ASSUME DictInv, ~nulUsed
  PROVE  /\ IsInjective(Listed("key")) /\ ToSet(Listed("key")) = DOMAIN meant
         /\ Len(Listed("value")) = Cardinality(DOMAIN meant)
<1> DEFINE S == {buckets[b] : b \in Buckets}  q == SetToSeq(S)  e == DictEntries
<1>1. IsFiniteSet(Buckets)
  BY DEF Buckets
<1>2. IsFiniteSet(S)
  <2> DEFINE f == [b \in Buckets |-> buckets[b]]
  <2>1. f \in Surjection(Buckets, S)
    BY DEF Surjection
  <2> HIDE DEF f
  <2> QED  BY <1>1, <2>1, FS_Surjection
<1>3. q \in Seq(S) /\ IsInjective(q) /\ S = {q[i] : i \in 1 .. Len(q)}
  BY <1>2, InOrder
<1>4. e = FlattenSeq(q)
  BY DEF DictEntries
<1>5. \A b \in Buckets : Carries(buckets[b], Belong(meant, b), meant)
  BY DEF DictInv
<1> HIDE DEF q, e
<1>6. Len(q) \in Nat /\ DOMAIN q = 1 .. Len(q) /\ \A i \in 1 .. Len(q) : q[i] \in S
  BY <1>3, LenProperties, ElementOfSeq
<1>7. S \subseteq Seq(Entries)
  BY <1>5 DEF Carries
<1>8. q \in Seq(Seq(Entries))
  BY <1>6, <1>7, <1>3
<1>9. \A i \in 1 .. Len(q) : IsInjective(KeysIn(q[i]))
  BY <1>5, <1>6 DEF Carries
<1>10. ASSUME NEW i \in 1 .. Len(q), NEW j \in 1 .. Len(q), i # j
       PROVE  ToSet(KeysIn(q[i])) \cap ToSet(KeysIn(q[j])) = {}
  <2>1. PICK b \in Buckets : q[i] = buckets[b]
    BY <1>6
  <2>2. PICK c \in Buckets : q[j] = buckets[c]
    BY <1>6
  <2>3. q[i] # q[j]
    BY <1>3, <1>6, <1>10 DEF IsInjective
  <2>4. b # c
    BY <2>1, <2>2, <2>3
  <2>5. ToSet(KeysIn(q[i])) = Belong(meant, b) /\ ToSet(KeysIn(q[j])) = Belong(meant, c)
    BY <1>5, <2>1, <2>2 DEF Carries
  <2> QED  BY <2>4, <2>5 DEF Belong
<1>11. /\ e \in Seq(Entries) /\ IsInjective(KeysIn(e))
       /\ ToSet(KeysIn(e)) = UNION {ToSet(KeysIn(q[i])) : i \in 1 .. Len(q)}
  BY <1>4, <1>8, <1>9, <1>10, KeysFlattened
<1>12. ToSet(KeysIn(e)) = DOMAIN meant
  <2>1. UNION {ToSet(KeysIn(q[i])) : i \in 1 .. Len(q)} = UNION {ToSet(KeysIn(s)) : s \in S}
    <3> HIDE DEF S
    <3>1. {ToSet(KeysIn(q[i])) : i \in 1 .. Len(q)} = {ToSet(KeysIn(s)) : s \in S}
      BY <1>3
    <3> QED  BY <3>1
  <2>2. \A b \in Buckets : ToSet(KeysIn(buckets[b])) = Belong(meant, b)
    BY <1>5 DEF Carries
  <2>3. UNION {ToSet(KeysIn(s)) : s \in S} = UNION {Belong(meant, b) : b \in Buckets}
    BY <2>2
  <2>4. \A k \in DOMAIN meant : BucketOf[k] \in Buckets
    BY DEF DictInv, Buckets, Plain
  <2>5. UNION {Belong(meant, b) : b \in Buckets} = DOMAIN meant
    BY <2>4 DEF Belong
  <2> QED  BY <1>11, <2>1, <2>3, <2>5
<1>13. Len(e) \in Nat /\ DOMAIN e = 1 .. Len(e) /\ \A i \in 1 .. Len(e) : e[i] \in Entries
  BY <1>11, LenProperties, ElementOfSeq
<1>14. Listed("key") = KeysIn(e)
  <2>1. \A i \in 1 .. Len(e) : e[i]["key"] = e[i].key
    BY <1>13 DEF Entries
  <2> QED  BY <1>13, <2>1 DEF Listed, KeysIn, e
<1>15. Len(Listed("value")) = Len(e)
  BY <1>13 DEF Listed, e
<1>16. Cardinality(DOMAIN meant) = Len(e)
  <2>1. KeysIn(e) \in [1 .. Len(e) -> DOMAIN meant]
    <3>1. DOMAIN KeysIn(e) = 1 .. Len(e) /\ KeysIn(e) = [i \in 1 .. Len(e) |-> KeysIn(e)[i]]
      BY <1>13 DEF KeysIn
    <3>2. \A i \in 1 .. Len(e) : KeysIn(e)[i] \in DOMAIN meant
      BY <1>12, <3>1 DEF ToSet
    <3> QED  BY <3>1, <3>2
  <2>2. KeysIn(e) \in Injection(1 .. Len(e), DOMAIN meant)
    BY <1>11, <2>1 DEF Injection
  <2>3. KeysIn(e) \in Surjection(1 .. Len(e), DOMAIN meant)
    BY <1>12, <2>1 DEF Surjection, ToSet
  <2>4. IsFiniteSet(DOMAIN meant) /\ Cardinality(1 .. Len(e)) = Len(e)
    BY <1>13, FS_Interval DEF DictInv
  <2> QED  BY <2>2, <2>3, <2>4, FS_Injection
<1> QED  BY <1>11, <1>12, <1>14, <1>15, <1>16

(* xt_dict_get, xt_dict_contains and xt_dict_keys answer as the map the    *)
(* program means, whatever was set and removed in whatever order, unless a *)
(* key with a NUL inside was used.                                         *)
THEOREM DictIsTheMap == DictSpec => []DictIsMap
<1>1. DictInv => DictIsMap
  <2> SUFFICES ASSUME DictInv, ~nulUsed PROVE DictIsMap
    BY DEF DictIsMap
  <2>1. ASSUME NEW k \in Plain PROVE DictGet(k) = IF k \in DOMAIN meant THEN meant[k] ELSE NoVal
    <3>1. CASE k \notin DOMAIN meant
      BY <3>1, FoundIs DEF DictGet
    <3>2. CASE k \in DOMAIN meant
      <4> DEFINE s == buckets[BucketOf[k]]
      <4>1. BucketOf[k] \in Buckets /\ Found(k) # {} /\ First(k) \in DOMAIN s /\ s[First(k)].key = k
        BY <3>2, FoundIs
      <4>2. s[First(k)].value = meant[k]
        BY <4>1 DEF DictInv, Carries
      <4> QED  BY <3>2, <4>1, <4>2 DEF DictGet
    <3> QED  BY <3>1, <3>2
  <2>2. \A k \in Plain : DictContains(k) <=> k \in DOMAIN meant /\ meant[k] # NoVal
    BY <2>1 DEF DictContains
  <2>3. dictSize = Cardinality(DOMAIN meant)
    BY DEF DictInv
  <2> QED  BY <2>1, <2>2, <2>3, AllListed DEF DictIsMap, Plain
<1> QED  BY <1>1, InitMapped, StepMapped, PTL DEF DictSpec

-----------------------------------------------------------------------------
(* The fiber scheduler.                                                    *)
FiberTypeOK ==
  /\ status \in [Fibers -> Statuses] /\ waitTarget \in [Fibers -> Events \cup Fibers \cup {NoOne}]
  /\ result \in [Fibers -> Nat] /\ serial \in [Fibers -> Nat] /\ spawned \in Nat
  /\ consumed \in [Fibers -> BOOLEAN] /\ inFree \in [Fibers -> BOOLEAN]
  /\ freeIds \in Seq(Fibers) /\ ready \in Seq(Fibers) /\ sleeping \subseteq Fibers
  /\ fiberCount \in 0 .. MaxFibers
  /\ running \in BOOLEAN /\ current \in Fibers \cup {NoOne}
  /\ fiber \in [Threads -> Fibers \cup {NoOne}] /\ awaited \in [Threads -> Fibers \cup {NoOne}]
  /\ pc \in [Threads -> Places]
  /\ owner \in [Fibers -> Threads \cup Fibers \cup {NoOne}]

Handling == {"begin", "poll", "done"}
HandInv == \A t \in Threads :
  /\ pc[t] \in Handling => fiber[t] \in Spawned /\ status[fiber[t]] = "ready"
  /\ pc[t] = "poll" => current = fiber[t]
  /\ pc[t] = "done" => result[fiber[t]] = serial[fiber[t]]

FreeInv ==
  /\ IsInjective(freeIds)
  /\ ToSet(freeIds) = {f \in Fibers : inFree[f]}
  /\ \A f \in Fibers : inFree[f] => f \in Spawned /\ status[f] = "done" /\ owner[f] = NoOne
  /\ \A f \in Fibers \ Spawned : owner[f] = NoOne

ResultInv == \A f \in Fibers :
  /\ owner[f] # NoOne => ~consumed[f]
  /\ status[f] = "done" /\ ~consumed[f] => result[f] = serial[f]

WaitInv == \A f \in Spawned :
  status[f] = "waiting" /\ waitTarget[f] \in Fibers => owner[waitTarget[f]] = f
AwaitInv == \A t \in Threads : pc[t] # "user" => awaited[t] \in Fibers /\ owner[awaited[t]] = t

HandlesInv == FreeInv /\ ResultInv /\ WaitInv /\ AwaitInv /\ NoMissedWake /\ AwaitGetsOwnResult
FiberInv == FiberTypeOK /\ OnePlace /\ HandInv /\ HandlesInv

USE ConstantsAssumption

-----------------------------------------------------------------------------
(* Handles are slots, threads or NULL, and no two of these.                *)
LEMMA Names ==
  /\ Fibers \subseteq Int /\ IsFiniteSet(Fibers) /\ NoOne \notin Fibers \cup Threads \cup Events
  /\ Fibers \cap Threads = {} /\ Fibers \cap Events = {}
<1>1. Fibers \subseteq Int /\ IsFiniteSet(Fibers)
  BY FS_Interval DEF Fibers
<1> QED  BY <1>1

LEMMA SlotsInUse ==
  ASSUME FiberTypeOK
  PROVE  Spawned \subseteq Fibers
BY DEF FiberTypeOK, Spawned, Fibers

(* One thread runs the loop, in words that steps can use.                  *)
LEMMA OneRunnerMeans ==
  ASSUME FiberTypeOK
  PROVE  OneRunner <=> /\ \A t, u \in InLoop : t = u
                       /\ running <=> \E t \in InLoop : pc[t] # "recheck"
<1>1. IsFiniteSet(InLoop)
  BY FS_Subset DEF InLoop
<1> QED  BY <1>1, AtMostOne DEF OneRunner

LEMMA OnlyRunner ==
  ASSUME FiberTypeOK, OneRunner, NEW t \in Threads, pc[t] \in LoopPlaces
  PROVE  /\ \A u \in Threads \ {t} : pc[u] \notin LoopPlaces
         /\ InHand = IF pc[t] \in Handling THEN {fiber[t]} ELSE {}
<1>1. \A u \in Threads \ {t} : pc[u] \notin LoopPlaces
  BY OneRunnerMeans DEF InLoop
<1>2. Handling \subseteq LoopPlaces
  BY DEF Handling, LoopPlaces
<1> QED  BY <1>1, <1>2 DEF InHand, Handling

(* And so it is after a step of that thread.                               *)
LEMMA RunnerSteps ==
  ASSUME FiberTypeOK, OneRunner, NEW t \in Threads, pc[t] \in LoopPlaces, NEW p \in Places,
         pc' = [pc EXCEPT ![t] = p],
         \A u \in Threads \ {t} : fiber'[u] = fiber[u]
  PROVE  /\ pc' \in [Threads -> Places] /\ pc'[t] = p
         /\ \A u \in Threads \ {t} : pc'[u] = pc[u] /\ pc[u] \notin LoopPlaces
         /\ InHand' = IF p \in Handling THEN {fiber'[t]} ELSE {}
<1>1. /\ pc' \in [Threads -> Places] /\ pc'[t] = p
      /\ \A u \in Threads \ {t} : pc'[u] = pc[u] /\ pc[u] \notin LoopPlaces
  BY OnlyRunner DEF FiberTypeOK
<1>2. Handling \subseteq LoopPlaces
  BY DEF Handling, LoopPlaces
<1> QED  BY <1>1, <1>2 DEF InHand, Handling

-----------------------------------------------------------------------------
(* Steps that give out no handle and take none back.                       *)
LEMMA HandlesKept ==
  ASSUME FiberInv, FiberTypeOK', AwaitInv',
         UNCHANGED <<inFree, freeIds, consumed, owner, serial, fiberCount, got, result>>,
         \A f \in Fibers : status[f] = "done" => status'[f] = "done",
         \A f \in Fibers : status'[f] = "done" =>
            \/ status[f] = "done"
            \/ result[f] = serial[f] /\ \E t \in Threads : pc'[t] = "wake" /\ fiber'[t] = f,
         \A f \in Spawned : status'[f] = "waiting" /\ waitTarget'[f] \in Fibers =>
            \/ status[f] = "waiting" /\ waitTarget'[f] = waitTarget[f]
            \/ owner[waitTarget'[f]] = f /\ status[waitTarget'[f]] # "done",
         \A t \in Threads : pc[t] = "wake" =>
            \/ pc'[t] = "wake" /\ fiber'[t] = fiber[t]
            \/ \A f \in Spawned : status'[f] = "waiting" => waitTarget'[f] # fiber[t]
  PROVE  HandlesInv'
<1>1. /\ FiberTypeOK /\ FreeInv /\ ResultInv /\ WaitInv /\ NoMissedWake /\ AwaitGetsOwnResult
      /\ Spawned' = Spawned
  BY DEF FiberInv, HandlesInv, Spawned
<1>2. FreeInv'
  BY <1>1 DEF FreeInv
<1>3. ResultInv'
  BY <1>1 DEF ResultInv
<1>4. WaitInv'
  BY <1>1 DEF WaitInv
<1>5. NoMissedWake'
  <2> SUFFICES ASSUME NEW f \in Spawned, status'[f] = "waiting", waitTarget'[f] \in Fibers,
                      status'[waitTarget'[f]] = "done"
               PROVE  \E t \in Threads : pc'[t] = "wake" /\ fiber'[t] = waitTarget'[f]
    BY <1>1 DEF NoMissedWake
  <2>1. CASE status[waitTarget'[f]] # "done"
    BY <2>1
  <2>2. CASE status[waitTarget'[f]] = "done"
    <3>1. status[f] = "waiting" /\ waitTarget'[f] = waitTarget[f]
      BY <2>2
    <3>2. PICK t \in Threads : pc[t] = "wake" /\ fiber[t] = waitTarget[f]
      BY <1>1, <2>2, <3>1 DEF NoMissedWake
    <3> QED  BY <3>1, <3>2
  <2> QED  BY <2>1, <2>2
<1>6. AwaitGetsOwnResult'
  BY <1>1 DEF AwaitGetsOwnResult
<1> QED  BY <1>2, <1>3, <1>4, <1>5, <1>6 DEF HandlesInv

LEMMA AwaitKept ==
  ASSUME AwaitInv, UNCHANGED <<awaited, owner>>, \A t \in Threads : pc[t] = "user" => pc'[t] = "user"
  PROVE  AwaitInv'
BY DEF AwaitInv

(* Steps that move only threads.                                           *)
LEMMA ThreadsMove ==
  ASSUME FiberInv, FiberTypeOK', AwaitInv', UNCHANGED <<inFree, freeIds, consumed, owner, serial, fiberCount>>,
         UNCHANGED <<got, result, status, waitTarget, ready, sleeping, fiber>>,
         \A t \in Threads :
           /\ pc'[t] \in Handling <=> pc[t] \in Handling
           /\ pc'[t] = "done" => pc[t] = "done"
           /\ pc'[t] = "poll" => current' = fiber[t]
           /\ pc[t] = "wake" => pc'[t] = "wake"
  PROVE  FiberInv'
<1>1. HandlesInv'
  BY HandlesKept DEF FiberInv, HandlesInv, WaitInv
<1>2. Spawned' = Spawned /\ InHand' = InHand
  BY DEF Spawned, InHand, Handling
<1>3. OnePlace'
  BY <1>2 DEF FiberInv, OnePlace
<1>4. HandInv'
  BY <1>2 DEF FiberInv, HandInv
<1> QED  BY <1>1, <1>3, <1>4 DEF FiberInv

LEMMA ThreadStepInv ==
  ASSUME FiberInv, OneRunner, NEW t \in Threads,
         \/ RunEnter(t) \/ Idle(t) \/ Stop(t) \/ Recheck(t) \/ PollBegin(t)
         \/ \E f \in Fibers : Await(t, f)
  PROVE  FiberInv'
<1>0. FiberTypeOK /\ HandInv /\ AwaitInv
  BY DEF FiberInv, HandlesInv
<1>1. /\ UNCHANGED <<inFree, freeIds, consumed, owner, serial, fiberCount, spawned>>
      /\ UNCHANGED <<got, result, status, waitTarget, ready, sleeping, fiber>>
  BY DEF RunEnter, Idle, Stop, Recheck, PollBegin, Await, sched, ghost
<1>2. ASSUME NEW f \in Fibers, Await(t, f) PROVE FiberInv'
  <2>1. /\ pc[t] = "user" /\ pc' = [pc EXCEPT ![t] = "enter"] /\ awaited' = [awaited EXCEPT ![t] = f]
        /\ owner[f] = t /\ UNCHANGED <<running, current>>
    BY <1>2 DEF Await, Goto, sched
  <2>2. FiberTypeOK'
    BY <1>0, <1>1, <2>1 DEF FiberTypeOK, Places
  <2>3. AwaitInv'
    BY <1>0, <1>1, <2>1 DEF AwaitInv, FiberTypeOK
  <2>4. \A u \in Threads : pc'[u] = pc[u] \/ (pc[u] = "user" /\ pc'[u] = "enter")
    BY <1>0, <2>1 DEF FiberTypeOK
  <2> QED  BY <1>0, <1>1, <2>1, <2>2, <2>3, <2>4, ThreadsMove DEF HandInv, Handling
<1>3. CASE RunEnter(t)
  <2>1. /\ pc[t] = "enter" /\ pc' = [pc EXCEPT ![t] = EnterPlace] /\ EnterPlace \in {"spin", "top"}
        /\ running' = TRUE /\ UNCHANGED <<current, awaited>>
    BY <1>3 DEF RunEnter, Goto, EnterPlace
  <2>2. FiberTypeOK'
    BY <1>0, <1>1, <2>1 DEF FiberTypeOK, Places, LoopPlaces
  <2>4. \A u \in Threads : pc'[u] = pc[u] \/ (pc[u] = "enter" /\ pc'[u] \in {"spin", "top"})
    BY <1>0, <2>1 DEF FiberTypeOK
  <2>3. AwaitInv'
    BY <1>0, <1>1, <2>1, <2>4, AwaitKept
  <2> QED  BY <1>0, <1>1, <2>1, <2>2, <2>3, <2>4, ThreadsMove DEF HandInv, Handling
<1>4. CASE Idle(t) \/ Stop(t) \/ Recheck(t)
  <2>1. PICK p \in {"top", "stop", "recheck", "spin"} :
           /\ pc[t] \in {"idle", "stop", "recheck"} /\ pc' = [pc EXCEPT ![t] = p]
           /\ running' \in {running, FALSE} /\ UNCHANGED <<current, awaited>>
    BY <1>4 DEF Idle, Stop, Recheck, Goto, sched
  <2>2. FiberTypeOK'
    BY <1>0, <1>1, <2>1 DEF FiberTypeOK, Places, LoopPlaces
  <2>4. \A u \in Threads : pc'[u] = pc[u] \/ (pc[u] \in {"idle", "stop", "recheck"} /\ pc'[u] = p)
    BY <1>0, <2>1 DEF FiberTypeOK
  <2>3. AwaitInv'
    BY <1>0, <1>1, <2>1, <2>4, AwaitKept
  <2> QED  BY <1>0, <1>1, <2>1, <2>2, <2>3, <2>4, ThreadsMove DEF HandInv, Handling
<1>5. CASE PollBegin(t)
  <2>1. /\ pc[t] = "begin" /\ pc' = [pc EXCEPT ![t] = "poll"] /\ current' = fiber[t]
        /\ UNCHANGED <<running, awaited>>
    BY <1>5 DEF PollBegin, Goto
  <2>2. FiberTypeOK'
    BY <1>0, <1>1, <2>1 DEF FiberTypeOK, Places, LoopPlaces
  <2>4. \A u \in Threads \ {t} : pc'[u] = pc[u] /\ pc[u] \notin LoopPlaces
    BY <1>0, <2>1, OnlyRunner DEF FiberTypeOK, LoopPlaces
  <2>5. pc'[t] = "poll"
    BY <1>0, <2>1 DEF FiberTypeOK
  <2>3. AwaitInv'
    BY <1>0, <1>1, <2>1, <2>4, <2>5, AwaitKept
  <2> QED  BY <1>0, <1>1, <2>1, <2>2, <2>3, <2>4, <2>5, ThreadsMove DEF HandInv, Handling, LoopPlaces
<1> QED  BY <1>2, <1>3, <1>4, <1>5

-----------------------------------------------------------------------------
(* Fibers become ready together: those whose timers are due, those that    *)
(* waited for one target.                                                  *)
LEMMA ListGrows ==
  ASSUME FiberInv, NEW due \in SUBSET Spawned, NEW q \in Orders(due), ready' = ready \o q,
         \A f \in due : status[f] \in {"sleeping", "waiting"},
         status' = [f \in Fibers |-> IF f \in due THEN "ready" ELSE status[f]],
         sleeping' = sleeping \ due, UNCHANGED fiberCount, InHand' = InHand
  PROVE  OnePlace' /\ ready' \in Seq(Fibers) /\ status' \in [Fibers -> Statuses]
<1>1. /\ ready \in Seq(Fibers) /\ status \in [Fibers -> Statuses] /\ Spawned \subseteq Fibers /\ OnePlace
      /\ Spawned' = Spawned
  BY SlotsInUse DEF FiberInv, FiberTypeOK, Spawned
<1>2. IsFiniteSet(due) /\ q \in [1 .. Cardinality(due) -> due] /\ ToSet(q) = due
  BY <1>1, Names, FS_Subset DEF Orders
<1>3. q \in Seq(due) /\ IsInjective(q)
  BY <1>2, OnceCounted
<1>4. q \in Seq(Fibers)
  BY <1>1, <1>3, SeqMonotonic
<1>5. IsInjective(ready) /\ ToSet(ready) = {f \in Spawned : status[f] = "ready"} \ InHand
  BY <1>1 DEF OnePlace, IsInjective
<1>6. ToSet(ready) \cap ToSet(q) = {}
  BY <1>2, <1>5
<1>7. ready' \in Seq(Fibers) /\ IsInjective(ready') /\ ToSet(ready') = ToSet(ready) \cup due
  BY <1>1, <1>2, <1>3, <1>4, <1>5, <1>6, OnceJoined
<1>8. \A f \in due : f \notin InHand
  BY DEF FiberInv, HandInv, InHand, Handling
<1>9. ToSet(ready') = {f \in Spawned : status'[f] = "ready"} \ InHand
  BY <1>1, <1>5, <1>7, <1>8
<1>10. sleeping' = {f \in Spawned : status'[f] = "sleeping"}
  BY <1>1 DEF OnePlace
<1>11. status' \in [Fibers -> Statuses]
  BY <1>1 DEF Statuses
<1> QED  BY <1>1, <1>7, <1>9, <1>10, <1>11 DEF OnePlace, IsInjective

(* xt_scheduler_timer_tick                                                 *)
LEMMA TickInv ==
  ASSUME FiberInv, OneRunner, NEW t \in Threads, Tick(t)
  PROVE  FiberInv'
<1>1. PICK due \in SUBSET sleeping : \E q \in Orders(due) :
         /\ ready' = ready \o q /\ sleeping' = sleeping \ due
         /\ status' = [f \in Fibers |-> IF f \in due THEN "ready" ELSE status[f]]
  BY DEF Tick, Ticked
<1>2. /\ UNCHANGED <<waitTarget, result, consumed, inFree, freeIds, fiberCount, running, current>>
      /\ UNCHANGED <<fiber, awaited, serial, spawned, owner, got>>
      /\ pc[t] = "top" /\ pc' = [pc EXCEPT ![t] = "next"]
  BY DEF Tick, Goto, ghost
<1>3. /\ FiberTypeOK /\ HandInv /\ AwaitInv /\ WaitInv /\ Spawned' = Spawned /\ Spawned \subseteq Fibers
      /\ sleeping = {f \in Spawned : status[f] = "sleeping"}
  BY <1>2, SlotsInUse DEF FiberInv, HandlesInv, Spawned, OnePlace
<1>4. /\ \A u \in Threads \ {t} : pc'[u] = pc[u] /\ pc[u] \notin LoopPlaces
      /\ pc'[t] = "next" /\ InHand = {} /\ InHand' = {}
  BY <1>2, <1>3, RunnerSteps, OnlyRunner DEF Places, LoopPlaces, Handling
<1>5. OnePlace' /\ ready' \in Seq(Fibers) /\ status' \in [Fibers -> Statuses]
  BY <1>1, <1>2, <1>3, <1>4, ListGrows
<1>6. FiberTypeOK'
  BY <1>1, <1>2, <1>3, <1>5 DEF FiberTypeOK, Places, LoopPlaces
<1>7. AwaitInv'
  BY <1>2, <1>3, <1>4, AwaitKept
<1>8. HandInv'
  BY <1>2, <1>3, <1>4 DEF HandInv, Handling, LoopPlaces
<1>9. \A f \in Fibers : status'[f] = status[f] \/ (status[f] = "sleeping" /\ status'[f] = "ready")
  BY <1>1, <1>3
<1>10. HandlesInv'
  BY <1>2, <1>3, <1>4, <1>6, <1>7, <1>9, HandlesKept DEF WaitInv, LoopPlaces
<1> QED  BY <1>5, <1>6, <1>8, <1>10 DEF FiberInv

(* xt_scheduler_wake_task, whoever calls it.                               *)
LEMMA WakeKeeps ==
  ASSUME FiberInv, NEW target, Wake(target), UNCHANGED <<sleeping, fiberCount>>, InHand' = InHand
  PROVE  /\ OnePlace' /\ ready' \in Seq(Fibers) /\ status' \in [Fibers -> Statuses]
         /\ waitTarget' \in [Fibers -> Events \cup Fibers \cup {NoOne}]
         /\ \A f \in Fibers : \/ status'[f] = status[f] /\ waitTarget'[f] = waitTarget[f]
                              \/ status[f] = "waiting" /\ status'[f] = "ready"
         /\ \A f \in Spawned : status'[f] = "waiting" => waitTarget'[f] # target
<1>1. /\ FiberTypeOK /\ Spawned \subseteq Fibers /\ sleeping = {f \in Spawned : status[f] = "sleeping"}
  BY SlotsInUse DEF FiberInv, OnePlace
<1>2. Waiters(target) = {f \in Spawned : status[f] = "waiting" /\ waitTarget[f] = target}
  BY DEF Waiters, Spawned
<1>3. PICK q \in Orders(Waiters(target)) : ready' = ready \o q
  BY DEF Wake, TableOrder
<1>4. /\ status' = [f \in Fibers |-> IF f \in Waiters(target) THEN "ready" ELSE status[f]]
      /\ waitTarget' = [f \in Fibers |-> IF f \in Waiters(target) THEN NoOne ELSE waitTarget[f]]
  BY DEF Wake
<1>5. /\ Waiters(target) \in SUBSET Spawned /\ \A f \in Waiters(target) : status[f] \in {"sleeping", "waiting"}
      /\ sleeping' = sleeping \ Waiters(target)
  BY <1>1, <1>2
<1>6. OnePlace' /\ ready' \in Seq(Fibers) /\ status' \in [Fibers -> Statuses]
  BY <1>3, <1>4, <1>5, ListGrows
<1>7. waitTarget' \in [Fibers -> Events \cup Fibers \cup {NoOne}]
  BY <1>1, <1>4 DEF FiberTypeOK
<1> QED  BY <1>1, <1>2, <1>4, <1>6, <1>7

LEMMA WakeInv ==
  ASSUME FiberInv, OneRunner, (\E t \in Threads : WakeAwaiters(t)) \/ (\E e \in Events : Signal(e))
  PROVE  FiberInv'
<1>0. FiberTypeOK /\ HandInv /\ AwaitInv /\ WaitInv /\ Spawned \subseteq Fibers
  BY SlotsInUse DEF FiberInv, HandlesInv
<1>1. /\ UNCHANGED <<result, consumed, inFree, freeIds, fiberCount, sleeping, running, current>>
      /\ UNCHANGED <<fiber, awaited, serial, spawned, owner, got>>
  BY DEF WakeAwaiters, Signal, ghost
<1>2. ASSUME NEW t \in Threads, WakeAwaiters(t) PROVE FiberInv'
  <2>1. pc[t] = "wake" /\ pc' = [pc EXCEPT ![t] = "top"] /\ Wake(fiber[t])
    BY <1>2 DEF WakeAwaiters, Goto, Handle
  <2>2. /\ \A u \in Threads \ {t} : pc'[u] = pc[u] /\ pc[u] \notin LoopPlaces
        /\ pc'[t] = "top" /\ InHand' = InHand
    BY <1>0, <1>1, <2>1, RunnerSteps, OnlyRunner DEF Places, LoopPlaces, Handling
  <2>3. /\ OnePlace' /\ ready' \in Seq(Fibers) /\ status' \in [Fibers -> Statuses]
        /\ waitTarget' \in [Fibers -> Events \cup Fibers \cup {NoOne}]
        /\ \A f \in Fibers : \/ status'[f] = status[f] /\ waitTarget'[f] = waitTarget[f]
                             \/ status[f] = "waiting" /\ status'[f] = "ready"
        /\ \A f \in Spawned : status'[f] = "waiting" => waitTarget'[f] # fiber[t]
    BY <1>1, <2>1, <2>2, WakeKeeps
  <2>4. FiberTypeOK'
    BY <1>0, <1>1, <2>1, <2>3 DEF FiberTypeOK, Places, LoopPlaces
  <2>5. AwaitInv'
    BY <1>0, <1>1, <2>1, <2>2, AwaitKept
  <2>6. HandInv'
    BY <1>0, <1>1, <2>2, <2>3 DEF HandInv, Handling, LoopPlaces
  <2>7. HandlesInv'
    BY <1>0, <1>1, <2>2, <2>3, <2>4, <2>5, HandlesKept DEF WaitInv, LoopPlaces
  <2> QED  BY <2>3, <2>4, <2>6, <2>7 DEF FiberInv
<1>3. ASSUME NEW e \in Events, Signal(e) PROVE FiberInv'
  <2>1. UNCHANGED pc /\ Wake(e)
    BY <1>3 DEF Signal
  <2>2. InHand' = InHand /\ Spawned' = Spawned
    BY <1>1, <2>1 DEF InHand, Spawned
  <2>3. /\ OnePlace' /\ ready' \in Seq(Fibers) /\ status' \in [Fibers -> Statuses]
        /\ waitTarget' \in [Fibers -> Events \cup Fibers \cup {NoOne}]
        /\ \A f \in Fibers : \/ status'[f] = status[f] /\ waitTarget'[f] = waitTarget[f]
                             \/ status[f] = "waiting" /\ status'[f] = "ready"
    BY <1>1, <2>1, <2>2, WakeKeeps
  <2>4. FiberTypeOK'
    BY <1>0, <1>1, <2>1, <2>3 DEF FiberTypeOK
  <2>5. AwaitInv'
    BY <1>0, <1>1, <2>1, AwaitKept
  <2>6. HandInv'
    BY <1>0, <1>1, <2>1, <2>2, <2>3 DEF HandInv, Handling
  <2>7. HandlesInv'
    BY <1>0, <1>1, <2>1, <2>3, <2>4, <2>5, HandlesKept DEF WaitInv
  <2> QED  BY <2>3, <2>4, <2>6, <2>7 DEF FiberInv
<1> QED  BY <1>2, <1>3

(* A fiber leaves the list for a thread's hands ...                        *)
LEMMA DequeueInv ==
  ASSUME FiberInv, OneRunner, NEW t \in Threads, Dequeue(t)
  PROVE  FiberInv'
<1>0. FiberTypeOK /\ HandInv /\ AwaitInv /\ WaitInv /\ Spawned \subseteq Fibers /\ OnePlace
  BY SlotsInUse DEF FiberInv, HandlesInv
<1>1. /\ UNCHANGED <<status, waitTarget, result, consumed, inFree, freeIds, fiberCount, sleeping, running>>
      /\ UNCHANGED <<current, awaited, serial, spawned, owner, got>> /\ pc[t] = "next"
  BY DEF Dequeue, ghost
<1>2. CASE ready = <<>>
  <2>1. pc' = [pc EXCEPT ![t] = "idle"] /\ UNCHANGED <<ready, fiber>>
    BY <1>2 DEF Dequeue, Goto
  <2>2. FiberTypeOK'
    BY <1>0, <1>1, <2>1 DEF FiberTypeOK, Places, LoopPlaces
  <2>4. \A u \in Threads : pc'[u] = pc[u] \/ (pc[u] = "next" /\ pc'[u] = "idle")
    BY <1>0, <1>1, <2>1 DEF FiberTypeOK
  <2>3. AwaitInv'
    BY <1>0, <1>1, <2>1, <2>4, AwaitKept
  <2> QED  BY <1>0, <1>1, <2>1, <2>2, <2>3, <2>4, ThreadsMove DEF HandInv, Handling
<1>3. CASE ready # <<>>
  <2>1. /\ pc' = [pc EXCEPT ![t] = "begin"] /\ ready' = Tail(ready)
        /\ fiber' = [fiber EXCEPT ![t] = Head(ready)]
    BY <1>3 DEF Dequeue, Goto
  <2>2. IsInjective(ready) /\ ready \in Seq(Fibers)
    BY <1>0 DEF OnePlace, IsInjective, FiberTypeOK
  <2>3. /\ ready' \in Seq(Fibers) /\ Head(ready) \in Fibers /\ Head(ready) \in ToSet(ready)
        /\ IsInjective(ready') /\ ToSet(ready') = ToSet(ready) \ {Head(ready)}
    BY <1>3, <2>1, <2>2, OnceTail
  <2>4. fiber' \in [Threads -> Fibers \cup {NoOne}] /\ fiber'[t] = Head(ready)
        /\ \A u \in Threads \ {t} : fiber'[u] = fiber[u]
    BY <1>0, <2>1, <2>3 DEF FiberTypeOK
  <2>5. /\ \A u \in Threads \ {t} : pc'[u] = pc[u] /\ pc[u] \notin LoopPlaces
        /\ pc'[t] = "begin" /\ InHand = {} /\ InHand' = {Head(ready)}
    BY <1>0, <1>1, <2>1, <2>4, RunnerSteps, OnlyRunner DEF Places, LoopPlaces, Handling
  <2>6. OnePlace'
    <3>1. Spawned' = Spawned
      BY <1>1 DEF Spawned
    <3>2. ToSet(ready') = {f \in Spawned : status[f] = "ready"} \ {Head(ready)}
      BY <1>0, <2>3, <2>5 DEF OnePlace
    <3> QED  BY <1>0, <1>1, <2>3, <2>5, <3>1, <3>2 DEF OnePlace, IsInjective
  <2>7. FiberTypeOK'
    BY <1>0, <1>1, <2>1, <2>3, <2>4 DEF FiberTypeOK, Places, LoopPlaces
  <2>8. AwaitInv'
    BY <1>0, <1>1, <2>5, AwaitKept
  <2>9. HandInv'
    <3>1. Head(ready) \in Spawned /\ status[Head(ready)] = "ready" /\ Spawned' = Spawned
      BY <1>0, <1>1, <2>3 DEF OnePlace, Spawned
    <3> QED  BY <1>0, <1>1, <2>4, <2>5, <3>1 DEF HandInv, Handling, LoopPlaces
  <2>10. HandlesInv'
    BY <1>0, <1>1, <2>4, <2>5, <2>7, <2>8, HandlesKept DEF WaitInv, LoopPlaces
  <2> QED  BY <2>6, <2>7, <2>9, <2>10 DEF FiberInv
<1> QED  BY <1>2, <1>3

-----------------------------------------------------------------------------
(* ... and from there goes to the place its poll has chosen, or is done.   *)
LEMMA LeavesHand ==
  ASSUME FiberInv, OneRunner, NEW t \in Threads, pc[t] \in {"poll", "done"}, NEW p \in {"top", "wake"},
         pc' = [pc EXCEPT ![t] = p], NEW to \in Statuses, status' = [status EXCEPT ![fiber[t]] = to],
         ready' = (IF to = "ready" THEN Append(ready, fiber[t]) ELSE ready),
         sleeping' = (IF to = "sleeping" THEN sleeping \cup {fiber[t]} ELSE sleeping),
         UNCHANGED <<fiber, fiberCount>>
  PROVE  /\ OnePlace' /\ ready' \in Seq(Fibers) /\ status' \in [Fibers -> Statuses] /\ sleeping' \subseteq Fibers
         /\ pc' \in [Threads -> Places] /\ pc'[t] = p
         /\ \A u \in Threads \ {t} : pc'[u] = pc[u] /\ pc[u] \notin LoopPlaces
         /\ fiber[t] \in Spawned /\ status[fiber[t]] = "ready" /\ status'[fiber[t]] = to
         /\ \A f \in Fibers \ {fiber[t]} : status'[f] = status[f]
<1>1. /\ ready \in Seq(Fibers) /\ status \in [Fibers -> Statuses] /\ Spawned \subseteq Fibers /\ OnePlace
      /\ Spawned' = Spawned /\ FiberTypeOK /\ HandInv
  BY SlotsInUse DEF FiberInv, FiberTypeOK, Spawned
<1>2. fiber[t] \in Spawned /\ status[fiber[t]] = "ready" /\ InHand = {fiber[t]}
  BY <1>1, OnlyRunner DEF HandInv, Handling, LoopPlaces
<1>3. /\ \A u \in Threads \ {t} : pc'[u] = pc[u] /\ pc[u] \notin LoopPlaces
      /\ pc' \in [Threads -> Places] /\ pc'[t] = p /\ InHand' = {}
  BY <1>1, RunnerSteps DEF Places, LoopPlaces, Handling
<1>4. /\ status' \in [Fibers -> Statuses] /\ status'[fiber[t]] = to
      /\ \A f \in Fibers \ {fiber[t]} : status'[f] = status[f]
  BY <1>1, <1>2
<1>5. IsInjective(ready) /\ ToSet(ready) = {f \in Spawned : status[f] = "ready"} \ {fiber[t]}
  BY <1>1, <1>2 DEF OnePlace, IsInjective
<1>6. /\ ready' \in Seq(Fibers) /\ IsInjective(ready')
      /\ ToSet(ready') = IF to = "ready" THEN ToSet(ready) \cup {fiber[t]} ELSE ToSet(ready)
  <2>1. fiber[t] \in Fibers /\ fiber[t] \notin ToSet(ready)
    BY <1>1, <1>2, <1>5
  <2>2. CASE to = "ready"
    <3>1. ready' = Append(ready, fiber[t])
      BY <2>2
    <3> QED  BY <1>1, <1>5, <2>1, <2>2, <3>1, OnceAppended
  <2>3. CASE to # "ready"
    <3>1. ready' = ready
      BY <2>3
    <3> QED  BY <1>1, <1>5, <2>3, <3>1
  <2> QED  BY <2>2, <2>3
<1>7. ToSet(ready') = {f \in Spawned : status'[f] = "ready"} \ {}
  BY <1>1, <1>2, <1>4, <1>5, <1>6
<1>8. sleeping' = {f \in Spawned : status'[f] = "sleeping"}
  BY <1>1, <1>2, <1>4 DEF OnePlace
<1>9. OnePlace'
  BY <1>1, <1>3, <1>6, <1>7, <1>8 DEF OnePlace, IsInjective
<1> QED  BY <1>1, <1>2, <1>3, <1>4, <1>6, <1>8, <1>9

LEMMA SuspendInv ==
  ASSUME FiberInv, OneRunner, NEW t \in Threads,
         PollYield(t) \/ PollSleep(t) \/ \E target \in Events \cup Fibers : PollWait(t, target)
  PROVE  FiberInv'
<1>0. FiberTypeOK /\ HandInv /\ AwaitInv /\ WaitInv /\ Spawned \subseteq Fibers
  BY SlotsInUse DEF FiberInv, HandlesInv
<1>1. /\ UNCHANGED <<result, consumed, inFree, freeIds, fiberCount, running>>
      /\ UNCHANGED <<fiber, awaited, serial, spawned, owner, got>>
      /\ pc[t] = "poll" /\ pc' = [pc EXCEPT ![t] = "top"] /\ current' = NoOne
  BY DEF PollYield, PollSleep, PollWait, Suspended, Goto, ghost
<1>2. current = fiber[t] /\ current # NoOne
  BY <1>0, <1>1, Names DEF HandInv, Handling
<1>3. /\ \A target \in Events \cup Fibers : PollWait(t, target) => waitTarget' = [waitTarget EXCEPT ![fiber[t]] = target]
      /\ PollYield(t) \/ PollSleep(t) => waitTarget' = waitTarget
  BY <1>2 DEF PollYield, PollSleep, PollWait
<1>4. PICK to \in {"ready", "sleeping", "waiting"} :
         /\ status' = [status EXCEPT ![fiber[t]] = to]
         /\ ready' = (IF to = "ready" THEN Append(ready, fiber[t]) ELSE ready)
         /\ sleeping' = (IF to = "sleeping" THEN sleeping \cup {fiber[t]} ELSE sleeping)
         /\ to = "waiting" => \E target \in Events \cup Fibers : PollWait(t, target)
  <2>1. CASE PollYield(t)
    BY <1>2, <2>1 DEF PollYield
  <2>2. CASE PollSleep(t)
    BY <1>2, <2>2 DEF PollSleep
  <2>3. CASE \E target \in Events \cup Fibers : PollWait(t, target)
    BY <1>2, <2>3 DEF PollWait
  <2> QED  BY <2>1, <2>2, <2>3
<1>5. /\ OnePlace' /\ ready' \in Seq(Fibers) /\ status' \in [Fibers -> Statuses] /\ sleeping' \subseteq Fibers
      /\ pc' \in [Threads -> Places] /\ pc'[t] = "top"
      /\ \A u \in Threads \ {t} : pc'[u] = pc[u] /\ pc[u] \notin LoopPlaces
      /\ fiber[t] \in Spawned /\ status[fiber[t]] = "ready" /\ status'[fiber[t]] = to
      /\ \A f \in Fibers \ {fiber[t]} : status'[f] = status[f]
  BY <1>1, <1>4, LeavesHand DEF Statuses
<1>6. waitTarget' \in [Fibers -> Events \cup Fibers \cup {NoOne}]
  <2>1. waitTarget \in [Fibers -> Events \cup Fibers \cup {NoOne}]
    BY <1>0 DEF FiberTypeOK
  <2>2. CASE PollYield(t) \/ PollSleep(t)
    BY <1>3, <2>1, <2>2
  <2>3. CASE \E target \in Events \cup Fibers : PollWait(t, target)
    <3>1. PICK target \in Events \cup Fibers : waitTarget' = [waitTarget EXCEPT ![fiber[t]] = target]
      BY <1>3, <2>3
    <3> QED  BY <2>1, <3>1
  <2> QED  BY <2>2, <2>3
<1>7. FiberTypeOK'
  BY <1>0, <1>1, <1>5, <1>6 DEF FiberTypeOK
<1>8. AwaitInv'
  BY <1>0, <1>1, <1>5, AwaitKept
<1>9. HandInv'
  BY <1>0, <1>1, <1>5 DEF HandInv, Handling, LoopPlaces
<1>10. ASSUME NEW f \in Spawned, status'[f] = "waiting", waitTarget'[f] \in Fibers
       PROVE  \/ status[f] = "waiting" /\ waitTarget'[f] = waitTarget[f]
              \/ owner[waitTarget'[f]] = f /\ status[waitTarget'[f]] # "done"
  <2>1. CASE f = fiber[t]
    <3>1. PICK target \in Events \cup Fibers : PollWait(t, target)
      BY <1>4, <1>5, <1>10, <2>1
    <3>2. waitTarget'[f] = target
      BY <1>0, <1>3, <1>10, <2>1, <3>1 DEF FiberTypeOK
    <3> QED  BY <1>10, <2>1, <3>1, <3>2, Names DEF PollWait, MayPark
  <2>2. CASE f # fiber[t]
    <3>1. waitTarget'[f] = waitTarget[f]
      BY <1>0, <1>3, <1>4, <2>2 DEF FiberTypeOK
    <3> QED  BY <1>0, <1>5, <1>10, <2>2, <3>1
  <2> QED  BY <2>1, <2>2
<1>11. \A f \in Fibers : status'[f] = "done" <=> status[f] = "done"
  BY <1>4, <1>5
<1>12. \A u \in Threads : pc[u] = "wake" => pc'[u] = "wake" /\ fiber'[u] = fiber[u]
  BY <1>1, <1>5
<1>13. HandlesInv'
  BY <1>1, <1>7, <1>8, <1>10, <1>11, <1>12, HandlesKept
<1> QED  BY <1>5, <1>7, <1>9, <1>13 DEF FiberInv

LEMMA MarkDoneInv ==
  ASSUME FiberInv, OneRunner, NEW t \in Threads, MarkDone(t)
  PROVE  FiberInv'
<1>0. FiberTypeOK /\ HandInv /\ AwaitInv /\ WaitInv /\ Spawned \subseteq Fibers
  BY SlotsInUse DEF FiberInv, HandlesInv
<1>1. /\ UNCHANGED <<waitTarget, result, consumed, inFree, freeIds, fiberCount, running, current, ready>>
      /\ UNCHANGED <<sleeping, fiber, awaited, serial, spawned, owner, got>>
      /\ pc[t] = "done" /\ pc' = [pc EXCEPT ![t] = "wake"] /\ status' = [status EXCEPT ![fiber[t]] = "done"]
  BY DEF MarkDone, Goto, ghost
<1>2. /\ OnePlace' /\ status' \in [Fibers -> Statuses] /\ sleeping' \subseteq Fibers
      /\ pc' \in [Threads -> Places] /\ pc'[t] = "wake"
      /\ \A u \in Threads \ {t} : pc'[u] = pc[u] /\ pc[u] \notin LoopPlaces
      /\ fiber[t] \in Spawned /\ status[fiber[t]] = "ready" /\ status'[fiber[t]] = "done"
      /\ \A f \in Fibers \ {fiber[t]} : status'[f] = status[f]
  BY <1>1, LeavesHand DEF Statuses
<1>3. FiberTypeOK'
  BY <1>0, <1>1, <1>2 DEF FiberTypeOK
<1>4. AwaitInv'
  BY <1>0, <1>1, <1>2, AwaitKept
<1>5. HandInv'
  BY <1>0, <1>1, <1>2 DEF HandInv, Handling, LoopPlaces
<1>6. result[fiber[t]] = serial[fiber[t]]
  BY <1>0, <1>1 DEF HandInv
<1>7. HandlesInv'
  BY <1>0, <1>1, <1>2, <1>3, <1>4, <1>6, HandlesKept DEF WaitInv
<1> QED  BY <1>2, <1>3, <1>5, <1>7 DEF FiberInv

(* The poll ends: the fiber has its result, the handles it held are lost.  *)
LEMMA PollFinishInv ==
  ASSUME FiberInv, OneRunner, NEW t \in Threads, PollFinish(t)
  PROVE  FiberInv'
<1>0. /\ FiberTypeOK /\ HandInv /\ AwaitInv /\ WaitInv /\ FreeInv /\ ResultInv /\ NoMissedWake
      /\ AwaitGetsOwnResult /\ Spawned \subseteq Fibers /\ OnePlace
  BY SlotsInUse DEF FiberInv, HandlesInv
<1>1. /\ UNCHANGED <<status, waitTarget, consumed, inFree, freeIds, fiberCount, running, ready>>
      /\ UNCHANGED <<sleeping, fiber, awaited, serial, spawned, got>>
      /\ pc[t] = "poll" /\ pc' = [pc EXCEPT ![t] = "done"] /\ current' = NoOne
      /\ owner' = [f \in Fibers |-> IF owner[f] = fiber[t] THEN NoOne ELSE owner[f]]
      /\ Spawned' = Spawned
  BY DEF PollFinish, Goto, Spawned
<1>2. fiber[t] \in Spawned /\ status[fiber[t]] = "ready" /\ current = fiber[t] /\ current # NoOne
  BY <1>0, <1>1, Names DEF HandInv, Handling
<1>3. result' = [result EXCEPT ![fiber[t]] = serial[fiber[t]]]
  BY <1>2 DEF PollFinish
<1>4. /\ \A u \in Threads \ {t} : pc'[u] = pc[u] /\ pc[u] \notin LoopPlaces
      /\ pc' \in [Threads -> Places] /\ pc'[t] = "done" /\ InHand' = InHand
  <2>1. "done" \in Places /\ "done" \in Handling /\ "poll" \in Handling /\ "poll" \in LoopPlaces
    BY DEF Places, LoopPlaces, Handling
  <2>2. fiber' = fiber
    BY <1>1
  <2>3. InHand = {fiber[t]}
    BY <1>0, <1>1, <2>1, OnlyRunner
  <2>4. /\ pc' \in [Threads -> Places] /\ pc'[t] = "done"
        /\ \A u \in Threads \ {t} : pc'[u] = pc[u] /\ pc[u] \notin LoopPlaces
        /\ InHand' = {fiber'[t]}
    BY <1>0, <1>1, <2>1, <2>2, RunnerSteps
  <2> QED  BY <2>2, <2>3, <2>4
<1>5. FiberTypeOK'
  <2>1. result' \in [Fibers -> Nat] /\ owner' \in [Fibers -> Threads \cup Fibers \cup {NoOne}]
    BY <1>0, <1>1, <1>2, <1>3 DEF FiberTypeOK
  <2> QED  BY <1>0, <1>1, <1>4, <2>1 DEF FiberTypeOK
<1>6. OnePlace'
  BY <1>0, <1>1, <1>4 DEF OnePlace
<1>7. result'[fiber[t]] = serial[fiber[t]] /\ \A f \in Fibers \ {fiber[t]} : result'[f] = result[f]
  BY <1>0, <1>2, <1>3 DEF FiberTypeOK
<1>8. HandInv'
  BY <1>0, <1>1, <1>2, <1>4, <1>7 DEF HandInv, Handling, LoopPlaces
<1>9. FreeInv'
  BY <1>0, <1>1 DEF FreeInv
<1>10. ResultInv'
  BY <1>0, <1>1, <1>2, <1>7 DEF ResultInv
<1>11. WaitInv'
  BY <1>0, <1>1, <1>2 DEF WaitInv
<1>12. AwaitInv'
  <2>1. \A u \in Threads : u # fiber[t]
    BY <1>0, <1>2, Names
  <2>2. \A u \in Threads : pc'[u] # "user" => pc[u] # "user"
    BY <1>1, <1>4
  <2> QED  BY <1>0, <1>1, <2>1, <2>2 DEF AwaitInv
<1>13. NoMissedWake'
  BY <1>0, <1>1, <1>4 DEF NoMissedWake, LoopPlaces
<1>14. AwaitGetsOwnResult'
  BY <1>0, <1>1 DEF AwaitGetsOwnResult
<1> QED  BY <1>5, <1>6, <1>8, <1>9, <1>10, <1>11, <1>12, <1>13, <1>14 DEF FiberInv, HandlesInv

-----------------------------------------------------------------------------
(* A handle is taken back: nobody else waits for its fiber, and the slot   *)
(* goes to the free stack, where it is not yet.                            *)
LEMMA ConsumeKeeps ==
  ASSUME FiberInv, NEW f \in Fibers, owner[f] # NoOne, status[f] = "done", Consume(f),
         \A g \in Spawned : status[g] = "waiting" => owner[f] # g,
         UNCHANGED fiber, pc' \in [Threads -> Places], awaited' \in [Threads -> Fibers \cup {NoOne}], AwaitInv',
         \A t \in Threads : pc'[t] = pc[t] \/ (pc[t] = "spin" /\ pc'[t] = "user")
  PROVE  FiberInv'
<1>0. /\ FiberTypeOK /\ HandInv /\ WaitInv /\ FreeInv /\ ResultInv /\ NoMissedWake
      /\ Spawned \subseteq Fibers /\ OnePlace
  BY SlotsInUse DEF FiberInv, HandlesInv
<1>1. ~consumed[f] /\ ~inFree[f] /\ f \in Spawned /\ result[f] = serial[f]
  BY <1>0 DEF ResultInv, FreeInv
<1>2. /\ result' = [result EXCEPT ![f] = 0] /\ inFree' = [inFree EXCEPT ![f] = TRUE]
      /\ freeIds' = Append(freeIds, f) /\ owner' = [owner EXCEPT ![f] = NoOne]
      /\ consumed' = [consumed EXCEPT ![f] = TRUE] /\ got' = [of |-> serial[f], val |-> result[f]]
      /\ UNCHANGED <<status, waitTarget, fiberCount, ready, sleeping, running, current, serial, spawned>>
      /\ Spawned' = Spawned
  BY <1>1 DEF Consume, MayRecycle, Spawned
<1>3. freeIds \in Seq(Fibers) /\ IsInjective(freeIds) /\ f \notin ToSet(freeIds)
  BY <1>0, <1>1 DEF FreeInv, FiberTypeOK
<1>4. freeIds' \in Seq(Fibers) /\ IsInjective(freeIds') /\ ToSet(freeIds') = ToSet(freeIds) \cup {f}
  BY <1>2, <1>3, OnceAppended
<1>5. FiberTypeOK'
  BY <1>0, <1>2, <1>4 DEF FiberTypeOK
<1>6. /\ inFree'[f] /\ owner'[f] = NoOne /\ consumed'[f]
      /\ \A g \in Fibers \ {f} : /\ inFree'[g] = inFree[g] /\ owner'[g] = owner[g]
                                 /\ consumed'[g] = consumed[g] /\ result'[g] = result[g]
  BY <1>0, <1>2 DEF FiberTypeOK
<1>7. OnePlace'
  <2>1. InHand' = InHand
    BY DEF InHand
  <2> QED  BY <1>0, <1>2, <2>1 DEF OnePlace
<1>8. HandInv'
  BY <1>0, <1>2, <1>6 DEF HandInv, Handling
<1>9. FreeInv'
  <2>1. ToSet(freeIds') = {g \in Fibers : inFree'[g]}
    BY <1>0, <1>4, <1>6 DEF FreeInv
  <2>2. \A g \in Fibers : inFree'[g] => g \in Spawned /\ status[g] = "done" /\ owner'[g] = NoOne
    BY <1>0, <1>1, <1>6 DEF FreeInv
  <2>3. \A g \in Fibers \ Spawned : owner'[g] = NoOne
    BY <1>0, <1>6 DEF FreeInv
  <2> QED  BY <1>2, <1>4, <2>1, <2>2, <2>3 DEF FreeInv
<1>10. ResultInv'
  BY <1>0, <1>2, <1>6 DEF ResultInv
<1>11. WaitInv'
  BY <1>0, <1>2, <1>6 DEF WaitInv
<1>12. NoMissedWake'
  <2> SUFFICES ASSUME NEW g \in Spawned, status[g] = "waiting", waitTarget[g] \in Fibers, status[waitTarget[g]] = "done"
               PROVE  \E t \in Threads : pc'[t] = "wake" /\ fiber[t] = waitTarget[g]
    BY <1>2 DEF NoMissedWake
  <2>1. PICK t \in Threads : pc[t] = "wake" /\ fiber[t] = waitTarget[g]
    BY <1>0 DEF NoMissedWake
  <2>2. pc'[t] = "wake"
    BY <2>1
  <2> QED  BY <2>1, <2>2
<1>13. AwaitGetsOwnResult'
  BY <1>1, <1>2 DEF AwaitGetsOwnResult
<1> QED  BY <1>5, <1>7, <1>8, <1>9, <1>10, <1>11, <1>12, <1>13 DEF FiberInv, HandlesInv

LEMMA ConsumeInv ==
  ASSUME FiberInv, NEW t \in Threads, Collect(t) \/ \E f \in Fibers : PollTake(t, f)
  PROVE  FiberInv'
<1>0. FiberTypeOK /\ HandInv /\ AwaitInv /\ ResultInv /\ Spawned \subseteq Fibers
  BY SlotsInUse DEF FiberInv, HandlesInv
<1>1. CASE Collect(t)
  <2> DEFINE f == awaited[t]
  <2>1. /\ pc[t] = "spin" /\ pc' = [pc EXCEPT ![t] = "user"] /\ awaited' = [awaited EXCEPT ![t] = NoOne]
        /\ UNCHANGED fiber /\ Consume(f) /\ SpinEnds(f)
    BY <1>1 DEF Collect, Goto
  <2>2. f \in Fibers /\ owner[f] = t /\ owner[f] # NoOne
    BY <1>0, <2>1, Names DEF AwaitInv
  <2>3. status[f] = "done"
    BY <1>0, <2>1, <2>2 DEF SpinEnds, ResultInv
  <2>4. \A g \in Spawned : owner[f] # g
    BY <1>0, <2>2, Names
  <2>5. /\ pc' \in [Threads -> Places] /\ awaited' \in [Threads -> Fibers \cup {NoOne}] /\ pc'[t] = "user"
        /\ \A u \in Threads \ {t} : pc'[u] = pc[u] /\ awaited'[u] = awaited[u]
    BY <1>0, <2>1 DEF FiberTypeOK, Places
  <2>6. AwaitInv'
    <3>1. \A g \in Fibers \ {f} : owner'[g] = owner[g]
      BY <1>0, <2>1 DEF Consume, FiberTypeOK
    <3> QED  BY <1>0, <2>2, <2>5, <3>1 DEF AwaitInv
  <2> QED  BY <2>1, <2>2, <2>3, <2>4, <2>5, <2>6, ConsumeKeeps
<1>2. ASSUME NEW f \in Fibers, PollTake(t, f) PROVE FiberInv'
  <2>1. /\ pc[t] = "poll" /\ owner[f] = fiber[t] /\ status[f] = "done" /\ Consume(f)
        /\ UNCHANGED <<pc, fiber, awaited>>
    BY <1>2 DEF PollTake
  <2>2. fiber[t] \in Fibers /\ status[fiber[t]] = "ready" /\ owner[f] # NoOne
    BY <1>0, <2>1, Names DEF HandInv, Handling
  <2>3. pc' \in [Threads -> Places] /\ awaited' \in [Threads -> Fibers \cup {NoOne}]
    BY <1>0, <2>1 DEF FiberTypeOK
  <2>4. AwaitInv'
    <3>1. \A g \in Fibers \ {f} : owner'[g] = owner[g]
      BY <1>0, <2>1 DEF Consume, FiberTypeOK
    <3>2. pc' = pc /\ awaited' = awaited
      BY <2>1
    <3>3. \A u \in Threads : u # fiber[t]
      BY <2>2, Names
    <3> QED  BY <1>0, <2>1, <3>1, <3>2, <3>3 DEF AwaitInv
  <2> QED  BY <2>1, <2>2, <2>3, <2>4, ConsumeKeeps
<1> QED  BY <1>1, <1>2

(* A slot is given out: a recycled one, whose handle is gone, or a new one.*)
LEMMA NewSlot ==
  ASSUME FiberInv, Room
  PROVE  /\ NewId \in Fibers /\ owner[NewId] = NoOne
         /\ NewId \in Spawned => status[NewId] = "done"
         /\ StillFree \in Seq(Fibers) /\ IsInjective(StillFree) /\ ToSet(StillFree) = ToSet(freeIds) \ {NewId}
         /\ (IF Reused THEN fiberCount ELSE fiberCount + 1) \in 0 .. MaxFibers
         /\ 0 .. (IF Reused THEN fiberCount ELSE fiberCount + 1) - 1 = Spawned \cup {NewId}
<1>0. FiberTypeOK /\ FreeInv /\ freeIds \in Seq(Fibers) /\ IsInjective(freeIds) /\ Spawned \subseteq Fibers
  BY SlotsInUse DEF FiberInv, HandlesInv, FreeInv, FiberTypeOK
<1>1. fiberCount \in 0 .. MaxFibers
  BY <1>0 DEF FiberTypeOK
<1>2. CASE Reused
  <2>1. /\ StillFree \in Seq(Fibers) /\ NewId \in Fibers /\ NewId \in ToSet(freeIds)
        /\ IsInjective(StillFree) /\ ToSet(StillFree) = ToSet(freeIds) \ {NewId}
    BY <1>0, <1>2, OnceFront DEF StillFree, NewId, Reused
  <2>2. NewId \in Spawned /\ status[NewId] = "done" /\ owner[NewId] = NoOne
    BY <1>0, <2>1 DEF FreeInv
  <2>3. 0 .. fiberCount - 1 = Spawned \cup {NewId}
    BY <2>2 DEF Spawned
  <2> QED  BY <1>1, <1>2, <2>1, <2>2, <2>3
<1>3. CASE ~Reused
  <2>1. NewId = fiberCount /\ StillFree = freeIds /\ freeIds = <<>> /\ fiberCount < MaxFibers
    BY <1>3 DEF NewId, StillFree, Reused, Room
  <2>2. NewId \in Fibers /\ NewId \notin Spawned /\ 0 .. (fiberCount + 1) - 1 = Spawned \cup {NewId}
    BY <1>1, <2>1 DEF Fibers, Spawned
  <2>3. ToSet(StillFree) = ToSet(freeIds) \ {NewId}
    BY <1>0, <2>1, <2>2 DEF FreeInv
  <2>4. owner[NewId] = NoOne
    BY <1>0, <2>2 DEF FreeInv
  <2>5. fiberCount + 1 \in 0 .. MaxFibers
    BY <1>1, <2>1
  <2> QED  BY <1>0, <1>3, <2>1, <2>2, <2>3, <2>4, <2>5
<1> QED  BY <1>2, <1>3

LEMMA SpawnKeeps ==
  ASSUME FiberInv, NEW by \in Threads \cup Fibers, Spawn(by), UNCHANGED <<pc, fiber, awaited>>
  PROVE  FiberInv'
<1>0. /\ FiberTypeOK /\ HandInv /\ WaitInv /\ FreeInv /\ ResultInv /\ NoMissedWake /\ AwaitInv
      /\ AwaitGetsOwnResult /\ Spawned \subseteq Fibers /\ OnePlace
  BY SlotsInUse DEF FiberInv, HandlesInv
<1>1. PICK f : f = NewId
  OBVIOUS
<1>2. /\ status' = [status EXCEPT ![f] = "ready"] /\ waitTarget' = [waitTarget EXCEPT ![f] = NoOne]
      /\ result' = [result EXCEPT ![f] = 0] /\ consumed' = [consumed EXCEPT ![f] = FALSE]
      /\ inFree' = [inFree EXCEPT ![f] = FALSE] /\ ready' = Append(ready, f) /\ freeIds' = StillFree
      /\ fiberCount' = (IF Reused THEN fiberCount ELSE fiberCount + 1)
      /\ serial' = [serial EXCEPT ![f] = spawned + 1] /\ owner' = [owner EXCEPT ![f] = by]
      /\ spawned' = spawned + 1 /\ UNCHANGED <<sleeping, running, current, got>> /\ Room
  BY <1>1 DEF Spawn
<1>3. /\ f \in Fibers /\ owner[f] = NoOne /\ (f \in Spawned => status[f] = "done")
      /\ freeIds' \in Seq(Fibers) /\ IsInjective(freeIds') /\ ToSet(freeIds') = ToSet(freeIds) \ {f}
      /\ fiberCount' \in 0 .. MaxFibers /\ Spawned' = Spawned \cup {f}
  BY <1>1, <1>2, NewSlot DEF Spawned
<1>4. /\ status'[f] = "ready" /\ ~consumed'[f] /\ ~inFree'[f] /\ owner'[f] = by
      /\ \A g \in Fibers \ {f} : /\ status'[g] = status[g] /\ waitTarget'[g] = waitTarget[g]
                                 /\ result'[g] = result[g] /\ serial'[g] = serial[g]
      /\ \A g \in Fibers \ {f} : /\ consumed'[g] = consumed[g] /\ inFree'[g] = inFree[g]
                                 /\ owner'[g] = owner[g]
  BY <1>0, <1>2, <1>3 DEF FiberTypeOK
<1>5. InHand' = InHand /\ f \notin InHand
  BY <1>0, <1>3 DEF InHand, HandInv, Handling
<1>6. IsInjective(ready) /\ f \notin ToSet(ready) /\ ready \in Seq(Fibers)
  BY <1>0, <1>3 DEF OnePlace, IsInjective, FiberTypeOK
<1>7. ready' \in Seq(Fibers) /\ IsInjective(ready') /\ ToSet(ready') = ToSet(ready) \cup {f}
  BY <1>2, <1>3, <1>6, OnceAppended
<1>8. FiberTypeOK'
  <2>1. /\ status' \in [Fibers -> Statuses] /\ waitTarget' \in [Fibers -> Events \cup Fibers \cup {NoOne}]
        /\ consumed' \in [Fibers -> BOOLEAN] /\ inFree' \in [Fibers -> BOOLEAN]
        /\ owner' \in [Fibers -> Threads \cup Fibers \cup {NoOne}]
    BY <1>0, <1>2 DEF FiberTypeOK, Statuses
  <2>2. result' \in [Fibers -> Nat] /\ serial' \in [Fibers -> Nat] /\ spawned' \in Nat
    <3>1. result \in [Fibers -> Nat] /\ serial \in [Fibers -> Nat] /\ spawned \in Nat
      BY <1>0 DEF FiberTypeOK
    <3>2. spawned + 1 \in Nat /\ 0 \in Nat
      BY <3>1
    <3> QED  BY <1>2, <3>1, <3>2
  <2> QED  BY <1>0, <1>2, <1>3, <1>7, <2>1, <2>2 DEF FiberTypeOK
<1>9. OnePlace'
  <2>1. ToSet(ready') = {g \in Spawned' : status'[g] = "ready"} \ InHand'
    BY <1>0, <1>3, <1>4, <1>5, <1>7 DEF OnePlace
  <2>2. sleeping' = {g \in Spawned' : status'[g] = "sleeping"}
    BY <1>0, <1>2, <1>3, <1>4 DEF OnePlace
  <2> QED  BY <1>7, <2>1, <2>2 DEF OnePlace, IsInjective
<1>10. HandInv'
  <2>1. \A t \in Threads : pc[t] \in Handling => fiber[t] \in Spawned /\ fiber[t] # f
    BY <1>0, <1>3 DEF HandInv
  <2> QED  BY <1>0, <1>2, <1>3, <1>4, <2>1 DEF HandInv, Handling
<1>11. FreeInv'
  <2>1. ToSet(freeIds') = {g \in Fibers : inFree'[g]}
    BY <1>0, <1>3, <1>4 DEF FreeInv
  <2>2. \A g \in Fibers : inFree'[g] => g \in Spawned' /\ status'[g] = "done" /\ owner'[g] = NoOne
    BY <1>0, <1>3, <1>4 DEF FreeInv
  <2>3. \A g \in Fibers \ Spawned' : owner'[g] = NoOne
    BY <1>0, <1>3, <1>4 DEF FreeInv
  <2> QED  BY <1>3, <2>1, <2>2, <2>3 DEF FreeInv
<1>12. ResultInv'
  BY <1>0, <1>4 DEF ResultInv
<1>13. ASSUME NEW g \in Spawned', status'[g] = "waiting", waitTarget'[g] \in Fibers
       PROVE  /\ g \in Spawned /\ status[g] = "waiting" /\ waitTarget'[g] = waitTarget[g]
              /\ waitTarget[g] # f /\ owner[waitTarget[g]] = g
  <2>1. g \in Spawned /\ g # f
    BY <1>3, <1>4, <1>13
  <2>2. status[g] = "waiting" /\ waitTarget'[g] = waitTarget[g]
    BY <1>0, <1>4, <1>13, <2>1
  <2>3. owner[waitTarget[g]] = g
    BY <1>0, <1>13, <2>1, <2>2 DEF WaitInv
  <2> QED  BY <1>0, <1>3, <2>1, <2>2, <2>3, Names
<1>14. WaitInv'
  BY <1>4, <1>13 DEF WaitInv
<1>15. NoMissedWake'
  BY <1>0, <1>2, <1>4, <1>13 DEF NoMissedWake
<1>16. AwaitInv'
  <2>1. pc' = pc /\ awaited' = awaited
    OBVIOUS
  <2>2. \A u \in Threads : u # NoOne
    BY Names
  <2> QED  BY <1>0, <1>3, <1>4, <2>1, <2>2 DEF AwaitInv
<1>17. AwaitGetsOwnResult'
  BY <1>0, <1>2 DEF AwaitGetsOwnResult
<1> QED  BY <1>8, <1>9, <1>10, <1>11, <1>12, <1>14, <1>15, <1>16, <1>17 DEF FiberInv, HandlesInv

LEMMA SpawnInv ==
  ASSUME FiberInv, NEW t \in Threads, ThreadSpawn(t) \/ PollSpawn(t)
  PROVE  FiberInv'
<1>1. CASE ThreadSpawn(t)
  BY <1>1, SpawnKeeps DEF ThreadSpawn
<1>2. CASE PollSpawn(t)
  <2>1. fiber[t] \in Fibers
    BY <1>2, SlotsInUse DEF PollSpawn, FiberInv, HandInv, Handling
  <2> QED  BY <1>2, <2>1, SpawnKeeps DEF PollSpawn
<1> QED  BY <1>1, <1>2

-----------------------------------------------------------------------------
LEMMA InitInv == Init => FiberInv
<1> SUFFICES ASSUME Init PROVE FiberInv
  OBVIOUS
<1>1. FiberTypeOK
  <2>1. freeIds \in Seq(Fibers) /\ ready \in Seq(Fibers)
    BY DEF Init
  <2>2. fiberCount \in 0 .. MaxFibers /\ spawned \in Nat
    BY DEF Init
  <2>3. /\ status \in [Fibers -> Statuses] /\ waitTarget \in [Fibers -> Events \cup Fibers \cup {NoOne}]
        /\ result \in [Fibers -> Nat] /\ serial \in [Fibers -> Nat]
        /\ consumed \in [Fibers -> BOOLEAN] /\ inFree \in [Fibers -> BOOLEAN]
    BY DEF Init, Statuses
  <2>4. /\ fiber \in [Threads -> Fibers \cup {NoOne}] /\ awaited \in [Threads -> Fibers \cup {NoOne}]
        /\ pc \in [Threads -> Places] /\ owner \in [Fibers -> Threads \cup Fibers \cup {NoOne}]
    BY DEF Init, Places
  <2>5. sleeping \subseteq Fibers /\ running \in BOOLEAN /\ current \in Fibers \cup {NoOne}
    BY DEF Init
  <2> QED  BY <2>1, <2>2, <2>3, <2>4, <2>5 DEF FiberTypeOK
<1>2. Spawned = {} /\ ToSet(freeIds) = {} /\ ToSet(ready) = {}
  BY DEF Init, Spawned, ToSet
<1>3. OnePlace /\ HandInv
  BY <1>2 DEF Init, OnePlace, HandInv, Handling
<1>4. FreeInv /\ ResultInv /\ WaitInv /\ AwaitInv /\ NoMissedWake /\ AwaitGetsOwnResult
  BY <1>2 DEF Init, FreeInv, ResultInv, WaitInv, AwaitInv, NoMissedWake, AwaitGetsOwnResult, IsInjective
<1> QED  BY <1>1, <1>3, <1>4 DEF FiberInv, HandlesInv

LEMMA StutterInv ==
  ASSUME FiberInv, UNCHANGED vars
  PROVE  FiberInv'
BY DEF FiberInv, FiberTypeOK, OnePlace, HandInv, HandlesInv, FreeInv, ResultInv, WaitInv, AwaitInv,
       NoMissedWake, AwaitGetsOwnResult, Spawned, InHand, vars, sched, ghost

LEMMA StepInv == FiberInv /\ [Next]_vars => FiberInv'
<1> SUFFICES ASSUME FiberInv, Next PROVE FiberInv'
  BY StutterInv
<1>1. OneRunner
  BY DEF Next
<1>2. CASE \E e \in Events : Signal(e)
  BY <1>1, <1>2, WakeInv
<1>3. ASSUME NEW t \in Threads,
             \/ ThreadSpawn(t)
             \/ \E f \in Fibers : Await(t, f)
             \/ RunStep(t) \/ PollStep(t)
             \/ Collect(t)
      PROVE  FiberInv'
  <2>1. CASE ThreadSpawn(t)
    BY <2>1, SpawnInv
  <2>2. CASE \E f \in Fibers : Await(t, f)
    BY <1>1, <2>2, ThreadStepInv
  <2>3. CASE Collect(t)
    BY <2>3, ConsumeInv
  <2>4. CASE RunStep(t)
    BY <1>1, <2>4, ThreadStepInv, TickInv, DequeueInv, MarkDoneInv, WakeInv DEF RunStep
  <2>5. CASE PollStep(t)
    BY <1>1, <2>5, SuspendInv, SpawnInv, PollFinishInv, ConsumeInv DEF PollStep
  <2> QED  BY <1>3, <2>1, <2>2, <2>3, <2>4, <2>5
<1> QED  BY <1>2, <1>3 DEF Next

(* The invariant of the scheduler (see above) holds as long as one thread  *)
(* runs the loop, where the specification stops.                           *)
THEOREM FiberInvariant == Spec => []FiberInv
BY InitInv, StepInv, PTL DEF Spec

(* Every fiber of the table is in the ready list once, asleep in the       *)
(* timers, waiting, done, or in the hands of the thread that runs it, and  *)
(* in one of these places only: xt_sched_enqueue links no fiber twice.     *)
THEOREM FibersInOnePlace == Spec => []OnePlace
<1>1. FiberInv => OnePlace
  BY DEF FiberInv
<1> QED  BY <1>1, FiberInvariant, PTL

(* A fiber that waits for a fiber that is done will be made ready by the   *)
(* wake-up call that the loop makes next: no fiber is done between a       *)
(* waiter's look at it and the waiter's going to sleep.                    *)
THEOREM NoWakeMissed == Spec => []NoMissedWake
<1>1. FiberInv => NoMissedWake
  BY DEF FiberInv, HandlesInv
<1> QED  BY <1>1, FiberInvariant, PTL

(* xt_async_wait and xt_task_result return the result of the fiber that    *)
(* was spawned under the handle, however often slots were recycled.        *)
THEOREM AwaitsCorrect == Spec => []AwaitGetsOwnResult
<1>1. FiberInv => AwaitGetsOwnResult
  BY DEF FiberInv, HandlesInv
<1> QED  BY <1>1, FiberInvariant, PTL

-----------------------------------------------------------------------------
(* How a second thread comes to run the loop.                              *)
LEMMA OneRunnerThen ==
  OneRunner' <=> /\ \A t, u \in InLoop' : t = u
                 /\ running' <=> \E t \in InLoop' : pc'[t] # "recheck"
<1>1. IsFiniteSet(InLoop')
  BY FS_Subset DEF InLoop
<1> QED  BY <1>1, AtMostOne DEF OneRunner

LEMMA LoopAsBefore ==
  ASSUME FiberTypeOK, OneRunner, running' = running, NEW t \in Threads, \A u \in InLoop : pc[u] # "recheck",
         \/ pc' = pc
         \/ \E p \in LoopPlaces \ {"recheck"} : pc[t] \in LoopPlaces /\ pc' = [pc EXCEPT ![t] = p]
         \/ \E p \in Places \ LoopPlaces : pc[t] \notin LoopPlaces /\ pc' = [pc EXCEPT ![t] = p]
  PROVE  OneRunner'
<1>1. \A u \in Threads : (pc'[u] \in LoopPlaces <=> pc[u] \in LoopPlaces) /\ (pc'[u] = "recheck" => pc[u] = "recheck")
  BY DEF FiberTypeOK, LoopPlaces
<1>2. InLoop' = InLoop
  BY <1>1 DEF InLoop
<1>3. \A u \in InLoop : pc'[u] # "recheck"
  BY <1>1 DEF InLoop
<1> QED  BY <1>2, <1>3, OneRunnerMeans, OneRunnerThen

LEMMA RunnerKept ==
  ASSUME FiberInv, Next, \A t \in InLoop : pc[t] # "recheck"
  PROVE  OneRunner'
<1>0. FiberTypeOK /\ OneRunner
  BY DEF Next, FiberInv
<1>1. ASSUME NEW e \in Events, Signal(e) PROVE OneRunner'
  <2>1. pc' = pc /\ running' = running
    BY <1>1 DEF Signal
  <2>2. PICK t \in Threads : TRUE
    OBVIOUS
  <2> QED  BY <1>0, <2>1, <2>2, LoopAsBefore
<1>2. ASSUME NEW t \in Threads, RunEnter(t) PROVE OneRunner'
  <2>1. pc[t] = "enter" /\ running' = TRUE /\ pc' = [pc EXCEPT ![t] = EnterPlace]
    BY <1>2 DEF RunEnter, Goto
  <2>2. CASE running
    BY <1>0, <2>1, <2>2, LoopAsBefore DEF EnterPlace, Places, LoopPlaces, FiberTypeOK
  <2>3. CASE ~running
    <3>1. InLoop = {}
      BY <1>0, <2>3, OneRunnerMeans
    <3>2. pc'[t] = "top" /\ \A u \in Threads \ {t} : pc'[u] = pc[u]
      BY <1>0, <2>1, <2>3 DEF EnterPlace, FiberTypeOK
    <3>3. InLoop' = {t}
      BY <3>1, <3>2 DEF InLoop, LoopPlaces
    <3> QED  BY <2>1, <3>2, <3>3, OneRunnerThen
  <2> QED  BY <2>2, <2>3
<1>3. ASSUME NEW t \in Threads, Stop(t) PROVE OneRunner'
  <2>1. pc[t] = "stop" /\ running' = FALSE /\ pc' = [pc EXCEPT ![t] = "recheck"]
    BY <1>3 DEF Stop, Goto
  <2>2. \A u \in Threads \ {t} : pc'[u] = pc[u] /\ pc[u] \notin LoopPlaces
    BY <1>0, <2>1, OnlyRunner DEF LoopPlaces, FiberTypeOK
  <2>3. pc'[t] = "recheck"
    BY <1>0, <2>1 DEF FiberTypeOK
  <2>4. InLoop' = {t}
    BY <2>2, <2>3 DEF InLoop, LoopPlaces
  <2> QED  BY <2>1, <2>3, <2>4, OneRunnerThen
<1>4. ASSUME NEW t \in Threads, Recheck(t) PROVE OneRunner'
  BY <1>4 DEF Recheck, InLoop, LoopPlaces
<1>5. ASSUME NEW t \in Threads, Idle(t) \/ Tick(t) \/ Dequeue(t) \/ PollBegin(t) \/ MarkDone(t) \/ WakeAwaiters(t)
      PROVE  OneRunner'
  <2>1. /\ running' = running /\ pc[t] \in LoopPlaces
        /\ \E p \in LoopPlaces \ {"recheck"} : pc' = [pc EXCEPT ![t] = p]
    BY <1>5 DEF Idle, Tick, Dequeue, PollBegin, MarkDone, WakeAwaiters, Goto, sched, LoopPlaces
  <2> QED  BY <1>0, <2>1, LoopAsBefore
<1>6. ASSUME NEW t \in Threads, PollStep(t) PROVE OneRunner'
  <2>1. running' = running /\ pc[t] \in LoopPlaces
    BY <1>6 DEF PollStep, PollYield, PollSleep, PollSpawn, PollFinish, PollWait, PollTake, Suspended,
                Spawn, Consume, LoopPlaces
  <2>2. pc' = pc \/ \E p \in LoopPlaces \ {"recheck"} : pc' = [pc EXCEPT ![t] = p]
    BY <1>6 DEF PollStep, PollYield, PollSleep, PollSpawn, PollFinish, PollWait, PollTake, Suspended,
                Goto, LoopPlaces
  <2> QED  BY <1>0, <2>1, <2>2, LoopAsBefore
<1>7. ASSUME NEW t \in Threads, ThreadSpawn(t) \/ Collect(t) \/ \E f \in Fibers : Await(t, f) PROVE OneRunner'
  <2>1. running' = running /\ pc[t] \notin LoopPlaces
    BY <1>7 DEF ThreadSpawn, Collect, Await, Spawn, Consume, sched, LoopPlaces
  <2>2. pc' = pc \/ \E p \in Places \ LoopPlaces : pc' = [pc EXCEPT ![t] = p]
    BY <1>7 DEF ThreadSpawn, Collect, Await, Goto, Places, LoopPlaces
  <2> QED  BY <1>0, <2>1, <2>2, LoopAsBefore
<1> QED  BY <1>1, <1>2, <1>3, <1>4, <1>5, <1>6, <1>7 DEF Next, RunStep

(* A second thread enters xt_scheduler_run only while the first is between *)
(* clearing `running' and reading it again for its loop's condition: the   *)
(* flag excludes it everywhere else.                                       *)
THEOREM SecondRunnerEnters == Spec => SecondRunnerOnlyAtRecheck
<1>1. FiberInv /\ [Next]_vars => [OneRunner /\ ~OneRunner' => \E t \in InLoop : pc[t] = "recheck"]_vars
  BY RunnerKept
<1> QED  BY <1>1, FiberInvariant, PTL DEF Spec, SecondRunnerOnlyAtRecheck
==============================================================================
