--------------------------- MODULE NativeScheduler ---------------------------
(***************************************************************************)
(* The task scheduler of the native runtime (self-hosted/atl_rt.at): tasks *)
(* with stacks of their own, run by one worker thread per processor.       *)
(*                                                                         *)
(* A task is a card.  A ready card is in an intrusive list; a worker takes *)
(* the first, switches to the context saved in it, and gets its own        *)
(* context back when the task ends or has to wait.  The main thread takes  *)
(* part with a card that is only ever queued as a waiter.                  *)
(*                                                                         *)
(* The ready list is changed one field at a time, by pops and pushes that  *)
(* own g_sched_cs, and by those of channel operations, which own only the  *)
(* channel's section.  What a section does beside the list is one step.  A *)
(* task that waits leaves the section first and saves its context          *)
(* afterwards: two steps.                                                  *)
(***************************************************************************)
EXTENDS Integers, Sequences, FiniteSets, SequencesExt

CONSTANTS
    Workers,    \* worker threads
    Main,       \* the main thread, and its card g_main_card
    Timer,      \* the thread of timer_loop
    Cards,      \* the tasks
    Chans,      \* the channels
    Capacity,   \* values a channel holds (16)
    Spurious,   \* may the main thread's wait end early?
    MaxOps,     \* bound of the model: operations begun over a run
    Nil         \* null

ASSUME ConstantsAssumption ==
    /\ Workers # {}
    /\ Cards \cap Chans = {}
    /\ Main \notin Cards /\ Timer \notin Cards \cup {Main}
    /\ Workers \cap (Cards \cup {Main, Timer}) = {}
    /\ Nil \notin Workers \cup Cards \cup Chans \cup {Main, Timer}
    /\ Capacity \in Nat \ {0} /\ MaxOps \in Nat /\ Spurious \in BOOLEAN

Callers == Cards \cup {Main}
Pushers == Callers \cup {Timer}     \* those who put cards into the ready list

(* The lists of waiting cards: of a task, and two of a channel.            *)
Lists == (Cards \X {"done"}) \cup (Chans \X {"recv", "send"})

VARIABLES
    state,    \* per card, field +32
    ready,    \* g_ready_head, g_ready_tail and the links at +64
    waiters,  \* per list, the cards linked at +48
    timers,   \* the cards in the list from g_timer_head
    cs,       \* who owns g_sched_cs between two steps
    readyCv,  \* the workers asleep on g_ready_cv
    pc,       \* per worker, where it is
    card,     \* per worker, the card it popped
    at,       \* per pusher, where its code is
    doing,    \* per caller, the list its operation may wait in
    count,    \* per channel, the values in it
    owner,    \* per channel, who owns its section between two steps
    todo,     \* per pusher, the cards it still has to put into the ready list
    seen,     \* per thread, the tail (a pusher) or the link (a worker) it has read
    stack,    \* per card: "none", "mapped" or "freed"
    crash,    \* what has gone wrong beyond repair; nothing happens after it
    ops       \* number of operations begun

\* What happened on the way (no code reads these)
VARIABLES
    overlapped,  \* two threads were in the middle of a change of the ready list
    dropped      \* cards cut off a waiting list by a second entry of the main card

queues == <<ready, waiters, timers, readyCv>>
tasks  == <<state, at, doing, stack>>
chans  == <<count, owner, todo, seen>>
vars   == <<queues, tasks, chans, cs, pc, card, crash, ops, overlapped, dropped>>

Init ==
    /\ state = [c \in Cards |-> "unborn"]
    /\ ready = [head |-> Nil, tail |-> Nil, next |-> [c \in Cards |-> Nil]]
    /\ waiters = [l \in Lists |-> <<>>]
    /\ timers = {}
    /\ cs = Nil
    /\ readyCv = {}
    /\ pc = [w \in Workers |-> "loop"]
    /\ card = [w \in Workers |-> Nil]
    /\ at = [a \in Pushers |-> IF a \in Cards THEN "saved" ELSE "code"]
    /\ doing = [a \in Callers |-> Nil]
    /\ count = [c \in Chans |-> 0]
    /\ owner = [c \in Chans |-> Nil]
    /\ todo = [a \in Pushers |-> <<>>]
    /\ seen = [t \in Pushers \cup Workers |-> Nil]
    /\ stack = [c \in Cards |-> "none"]
    /\ crash = "none"
    /\ ops = 0
    /\ overlapped = FALSE
    /\ dropped = {}

-----------------------------------------------------------------------------
(* Moves, and rt_push_ready's wake-up of one worker.  (The Bad operators   *)
(* here and below are the mistakes the properties are shown to catch; no   *)
(* action uses them.)                                                      *)
IsCard(a) == a \in Cards

GoOn(w, place) == pc' = [pc EXCEPT ![w] = place]
Goto(a, place) == at' = [at EXCEPT ![a] = place]

BadWoken == {readyCv}
Woken == IF readyCv = {} THEN {readyCv} ELSE {readyCv \ {w} : w \in readyCv}

(* rt_waiters_append.  A card that is in the list already loses what       *)
(* follows it: its link is cleared and it becomes the tail.                *)
Appended(s, a) ==
    IF a \in ToSet(s) THEN SubSeq(s, 1, CHOOSE i \in DOMAIN s : s[i] = a)
    ELSE Append(s, a)

-----------------------------------------------------------------------------
(* worker_loop: under g_sched_cs it reads the head and then its link, sets *)
(* the head, and clears the tail if nothing follows.                       *)
Look(w) ==
    /\ pc[w] = "loop" /\ cs = Nil
    /\ cs' = w
    /\ IF ready.head = Nil
       THEN GoOn(w, "drowsy") /\ UNCHANGED card
       ELSE GoOn(w, "next") /\ card' = [card EXCEPT ![w] = ready.head]
    /\ UNCHANGED <<queues, tasks, chans, crash, ops>>

ReadNext(w) ==
    /\ pc[w] = "next"
    /\ seen' = [seen EXCEPT ![w] = ready.next[card[w]]]
    /\ GoOn(w, "head")
    /\ UNCHANGED <<queues, tasks, count, owner, todo, cs, card, crash, ops>>

BadWasLast(w) == FALSE
WasLast(w)    == seen[w] = Nil

SetHead(w) ==
    /\ pc[w] = "head"
    /\ ready' = [ready EXCEPT !.head = seen[w]]
    /\ GoOn(w, IF WasLast(w) THEN "clear" ELSE "popped")
    /\ cs' = IF WasLast(w) THEN cs ELSE Nil
    /\ UNCHANGED <<waiters, timers, readyCv, tasks, chans, card, crash, ops>>

ClearTail(w) ==
    /\ pc[w] = "clear"
    /\ ready' = [ready EXCEPT !.tail = Nil]
    /\ GoOn(w, "popped")
    /\ cs' = Nil
    /\ UNCHANGED <<waiters, timers, readyCv, tasks, chans, card, crash, ops>>

FallAsleep(w) ==
    /\ pc[w] = "drowsy"
    /\ cs' = Nil
    /\ readyCv' = readyCv \cup {w}
    /\ GoOn(w, "asleep")
    /\ UNCHANGED <<ready, waiters, timers, tasks, chans, card, crash, ops>>

WakeUp(w) ==
    /\ pc[w] = "asleep" /\ w \notin readyCv
    /\ GoOn(w, "loop")
    /\ UNCHANGED <<queues, tasks, chans, cs, card, crash, ops>>

(* The switch to the popped card, outside the section.  A context that is  *)
(* not saved yet is the one of an earlier wait, and two workers are then   *)
(* on one stack.                                                           *)
SwitchTo(w) ==
    /\ pc[w] = "popped"
    /\ ready' = [ready EXCEPT !.next[card[w]] = Nil]
    /\ IF at[card[w]] = "saved" /\ stack[card[w]] = "mapped"
       THEN /\ state' = [state EXCEPT ![card[w]] = "running"]
            /\ at' = [at EXCEPT ![card[w]] = IF doing[card[w]] = Nil THEN "code" ELSE "retry"]
            /\ GoOn(w, "run")
            /\ UNCHANGED crash
       ELSE crash' = "torn" /\ UNCHANGED <<state, at, pc>>
    /\ UNCHANGED <<waiters, timers, readyCv, doing, stack, chans, cs, card, ops>>

(* Back from it: was that the end of the task?                             *)
BadOver == {"done", "blocked"}
Over    == {"done"}

Back(w) ==
    /\ pc[w] = "back"
    /\ GoOn(w, IF state[card[w]] \in Over /\ stack[card[w]] = "mapped" THEN "free" ELSE "loop")
    /\ UNCHANGED <<queues, tasks, chans, cs, card, crash, ops>>

OnStack(c) == {w \in Workers : pc[w] = "run" /\ card[w] = c}

Free(w) ==
    /\ pc[w] = "free"
    /\ crash' = IF stack[card[w]] = "freed" \/ OnStack(card[w]) # {} THEN "freed" ELSE crash
    /\ stack' = [stack EXCEPT ![card[w]] = "freed"]
    /\ GoOn(w, "loop")
    /\ UNCHANGED <<queues, state, at, doing, chans, cs, card, ops>>

-----------------------------------------------------------------------------
(* What running code does.                                                 *)
Runs(a) == IF IsCard(a) THEN OnStack(a) # {} ELSE TRUE
InCode(a) == Runs(a) /\ at[a] = "code"

Begin == ops < MaxOps /\ ops' = ops + 1

(* A section of g_sched_cs in which a puts the cards of s into the list.   *)
Enter(a, s) ==
    /\ cs = Nil /\ cs' = a
    /\ todo' = [todo EXCEPT ![a] = s]
    /\ Goto(a, "wake")

(* atl_task_spawn                                                          *)
SpawnTask(a, c) ==
    /\ InCode(a)
    /\ state[c] = "unborn"
    /\ Begin
    /\ state' = [state EXCEPT ![c] = "ready"]
    /\ stack' = [stack EXCEPT ![c] = "mapped"]
    /\ Enter(a, <<c>>)
    /\ UNCHANGED <<queues, doing, count, owner, seen, pc, card, crash>>

(* The operations that may wait, until they first look.                    *)
Call(a, l) ==
    /\ InCode(a)
    /\ l[2] = "done" => state[l[1]] # "unborn"
    /\ Begin
    /\ doing' = [doing EXCEPT ![a] = l]
    /\ Goto(a, "retry")
    /\ UNCHANGED <<queues, state, stack, chans, cs, pc, card, crash>>

(* A card waits: blocked, in the list; the section is left; the context is *)
(* saved and the worker has its own back.  The main thread sleeps.         *)
Wait(a, l) ==
    /\ waiters' = IF IsCard(a) \/ l[2] = "done"
                  THEN [waiters EXCEPT ![l] = Appended(@, a)] ELSE waiters
    /\ state' = IF IsCard(a) THEN [state EXCEPT ![a] = "blocked"] ELSE state
    /\ Goto(a, IF IsCard(a) THEN "leaving" ELSE "asleep")
    /\ UNCHANGED <<ready, timers, readyCv, doing, stack, chans, cs, pc, card, crash, ops>>

Save(w) ==
    /\ pc[w] = "run" /\ at[card[w]] = "leaving"
    /\ Goto(card[w], "saved")
    /\ GoOn(w, "back")
    /\ UNCHANGED <<queues, state, doing, stack, chans, cs, card, crash, ops>>

Returns(a) ==
    /\ Goto(a, "code")
    /\ doing' = [doing EXCEPT ![a] = Nil]

(* atl_task_wait, from its loop head.                                      *)
WaitForTask(a) ==
    /\ Runs(a) /\ at[a] = "retry" /\ doing[a] # Nil /\ doing[a][2] = "done"
    /\ cs = Nil
    /\ IF state[doing[a][1]] = "done"
       THEN /\ Returns(a)
            /\ UNCHANGED <<queues, state, stack, chans, cs, pc, card, crash, ops>>
       ELSE Wait(a, doing[a])

(* atl_sleep_ms of a task, and timer_loop when it is due.                  *)
GoToSleep(c) ==
    /\ InCode(c) /\ IsCard(c) /\ cs = Nil
    /\ Begin
    /\ state' = [state EXCEPT ![c] = "blocked"]
    /\ timers' = timers \cup {c}
    /\ Goto(c, "leaving")
    /\ UNCHANGED <<ready, waiters, readyCv, doing, stack, chans, cs, pc, card, crash>>

BadFired(c) == timers
Fired(c)    == timers \ {c}

TimerFires(c) ==
    /\ c \in timers
    /\ timers' = Fired(c)
    /\ Enter(Timer, <<c>>)
    /\ UNCHANGED <<ready, waiters, readyCv, state, doing, stack, count, owner, seen, pc, card, crash, ops>>

(* rt_task_complete: every waiter is woken.  rt_task_done then switches to *)
(* the worker, from the stack of the task.                                 *)
BadReleased(c) == SelectSeq(waiters[<<c, "done">>], LAMBDA a : a = Head(waiters[<<c, "done">>]))
Released(c)    == waiters[<<c, "done">>]

Complete(c) ==
    /\ InCode(c) /\ IsCard(c)
    /\ state' = [state EXCEPT ![c] = "done"]
    /\ waiters' = [waiters EXCEPT ![<<c, "done">>] = <<>>]
    /\ Enter(c, Released(c))
    /\ UNCHANGED <<ready, timers, readyCv, doing, stack, count, owner, seen, pc, card, crash, ops>>

TaskDone(w) ==
    /\ pc[w] = "run" /\ at[card[w]] = "ending"
    /\ Goto(card[w], "over")
    /\ GoOn(w, "back")
    /\ UNCHANGED <<queues, state, doing, stack, chans, cs, card, crash, ops>>

-----------------------------------------------------------------------------
(* atl_chan_send and atl_chan_recv.                                        *)
Other(side) == IF side = "recv" THEN "send" ELSE "recv"
Blocks(l)   == IF l[2] = "send" THEN count[l[1]] >= Capacity ELSE count[l[1]] = 0

ChannelWait(a) ==
    /\ Runs(a) /\ at[a] = "retry" /\ doing[a] # Nil /\ doing[a][2] # "done"
    /\ owner[doing[a][1]] = Nil
    /\ Blocks(doing[a])
    /\ Wait(a, doing[a])

(* The value goes in or out; the waiting cards of the other side are taken *)
(* off their list, to be put into the ready list.                          *)
Transfer(a) ==
    /\ Runs(a) /\ at[a] = "retry" /\ doing[a] # Nil /\ doing[a][2] # "done"
    /\ LET ch == doing[a][1]  there == <<ch, Other(doing[a][2])>> IN
       /\ owner[ch] = Nil
       /\ ~Blocks(doing[a])
       /\ count' = [count EXCEPT ![ch] = IF doing[a][2] = "send" THEN @ + 1 ELSE @ - 1]
       /\ owner' = [owner EXCEPT ![ch] = a]
       /\ todo' = [todo EXCEPT ![a] = waiters[there]]
       /\ waiters' = [waiters EXCEPT ![there] = <<>>]
    /\ Goto(a, "wake")
    /\ UNCHANGED <<ready, timers, readyCv, state, doing, stack, seen, cs, pc, card, crash, ops>>

(* The main thread waits on the channel's condition variable of its side.  *)
BadWakesMain(a) == FALSE
WakesMain(a) ==
    at[Main] = "asleep" /\ doing[Main] = <<doing[a][1], Other(doing[a][2])>>

LeaveChannel(a) ==
    /\ Runs(a) /\ at[a] = "wake" /\ todo[a] = <<>> /\ doing[a] # Nil
    /\ owner' = [owner EXCEPT ![doing[a][1]] = Nil]
    /\ at' = [at EXCEPT ![Main] = IF WakesMain(a) THEN "retry" ELSE @, ![a] = "code"]
    /\ doing' = [doing EXCEPT ![a] = Nil]
    /\ UNCHANGED <<queues, state, stack, count, todo, seen, cs, pc, card, crash, ops>>

(* The main thread's wait ends for no reason; or because on its way to     *)
(* sleep it parked for a collection, which has ended (17006-17029).        *)
MainWakesEarly ==
    /\ Spurious /\ at[Main] = "asleep"
    /\ Goto(Main, "retry")
    /\ UNCHANGED <<queues, state, doing, stack, chans, cs, pc, card, crash, ops>>

-----------------------------------------------------------------------------
(* rt_wake_all and rt_push_ready, by whoever has cards to put in: read the *)
(* tail, link, set the tail.  For the main card, its condition variable.   *)
ReadTail(a) ==
    /\ Runs(a) /\ at[a] = "wake" /\ todo[a] # <<>> /\ IsCard(Head(todo[a]))
    /\ ready' = [ready EXCEPT !.next[Head(todo[a])] = Nil]
    /\ state' = [state EXCEPT ![Head(todo[a])] = "ready"]
    /\ seen' = [seen EXCEPT ![a] = ready.tail]
    /\ Goto(a, "link")
    /\ UNCHANGED <<waiters, timers, readyCv, doing, stack, count, owner, todo, cs, pc, card, crash, ops>>

Link(a) ==
    /\ Runs(a) /\ at[a] = "link"
    /\ ready' = IF seen[a] = Nil THEN [ready EXCEPT !.head = Head(todo[a])]
                ELSE [ready EXCEPT !.next[seen[a]] = Head(todo[a])]
    /\ Goto(a, "tail")
    /\ UNCHANGED <<waiters, timers, readyCv, state, doing, stack, chans, cs, pc, card, crash, ops>>

SetTail(a) ==
    /\ Runs(a) /\ at[a] = "tail"
    /\ ready' = [ready EXCEPT !.tail = Head(todo[a])]
    /\ readyCv' \in Woken
    /\ todo' = [todo EXCEPT ![a] = Tail(@)]
    /\ Goto(a, "wake")
    /\ UNCHANGED <<waiters, timers, state, doing, stack, count, owner, seen, cs, pc, card, crash, ops>>

WakeMain(a) ==
    /\ Runs(a) /\ at[a] = "wake" /\ todo[a] # <<>> /\ Head(todo[a]) = Main
    /\ todo' = [todo EXCEPT ![a] = Tail(@)]
    /\ at' = [at EXCEPT ![Main] = IF @ = "asleep" /\ doing[Main][2] = "done" THEN "retry" ELSE @]
    /\ UNCHANGED <<queues, state, doing, stack, count, owner, seen, cs, pc, card, crash, ops>>

LeaveSection(a) ==
    /\ Runs(a) /\ at[a] = "wake" /\ todo[a] = <<>> /\ cs = a
    /\ cs' = Nil
    /\ Goto(a, IF IsCard(a) /\ state[a] = "done" THEN "ending" ELSE "code")
    /\ UNCHANGED <<queues, state, doing, stack, chans, pc, card, crash, ops>>

-----------------------------------------------------------------------------
WorkerStep(w) ==
    \/ Look(w) \/ FallAsleep(w) \/ WakeUp(w)
    \/ ReadNext(w) \/ SetHead(w) \/ ClearTail(w) \/ SwitchTo(w)
    \/ Save(w) \/ TaskDone(w) \/ Back(w) \/ Free(w)
CallStep(a) == WaitForTask(a) \/ ChannelWait(a) \/ Transfer(a) \/ LeaveChannel(a)
PushStep(a) == ReadTail(a) \/ Link(a) \/ SetTail(a) \/ WakeMain(a) \/ LeaveSection(a)

(* The threads that are in the middle of a change of the ready list, and   *)
(* the cards that the main thread cuts off a list in this step.            *)
AtTheList ==
    {w \in Workers : pc[w] \in {"next", "head", "clear"}} \cup {a \in Pushers : at[a] \in {"link", "tail"}}
CutOff ==
    {c \in Cards : \E l \in Lists :
        /\ c \in ToSet(waiters[l]) \ ToSet(waiters'[l])
        /\ doing[Main] = l /\ at[Main] = "retry" /\ at'[Main] = "asleep"}

Step(A) ==
    /\ crash = "none" /\ A
    /\ overlapped' = (overlapped \/ \E s, t \in AtTheList' : s # t)
    /\ dropped' = dropped \cup CutOff

Next ==
    Step(\/ \E w \in Workers : WorkerStep(w)
         \/ \E a \in Callers :
               \/ \E c \in Cards : SpawnTask(a, c)
               \/ \E l \in Lists : Call(a, l)
               \/ CallStep(a)
         \/ \E a \in Pushers : PushStep(a)
         \/ \E c \in Cards : GoToSleep(c) \/ TimerFires(c) \/ Complete(c)
         \/ MainWakesEarly)

(* Threads go on, sleeps end, and so does every task that is left to run.  *)
Fairness ==
    /\ \A w \in Workers : WF_vars(Step(WorkerStep(w)))
    /\ \A a \in Callers : WF_vars(Step(CallStep(a)))
    /\ \A a \in Pushers : WF_vars(Step(PushStep(a)))
    /\ \A c \in Cards :
          /\ WF_vars(Step(TimerFires(c)))
          /\ WF_vars(Step(Complete(c)))

Spec     == Init /\ [][Next]_vars
FairSpec == Spec /\ Fairness

-----------------------------------------------------------------------------
(* Properties                                                              *)

(* The cards a walk from g_ready_head meets: those of every set that holds *)
(* the head, and the next of each of its cards.                            *)
Walked(S) ==
    /\ ready.head \in S \cup {Nil}
    /\ \A c \in S : ready.next[c] \in S \cup {Nil}
Queued  == {c \in Cards : \A S \in SUBSET Cards : Walked(S) => c \in S}
Taken   == {"clear", "popped"}
InHands == {card[w] : w \in {v \in Workers : pc[v] \in Taken}}
Running == {c \in Cards : OnStack(c) # {}}

(* The cards that somebody has not finished putting in.                    *)
BeingPushed == UNION {ToSet(todo[a]) : a \in Pushers}

(* A card that was woken will be run: a worker that walks the ready list   *)
(* meets it, or has it, or somebody is at work on it.                      *)
NoCardLost ==
    \A c \in Cards : state[c] = "ready" => c \in Queued \cup InHands \cup BeingPushed

(* A card is in one place: ready, asleep, in a waiting list, in a worker's *)
(* hands, or run by one worker; the last may overlap with the others only  *)
(* while the card has left its section and not yet saved its context.      *)
OnePlace ==
    /\ \A c \in Queued \cup InHands :
          state[c] = "ready" /\ c \notin timers /\ \A l \in Lists : c \notin ToSet(waiters[l])
    /\ Queued \cap InHands = {}
    /\ \A c \in timers : state[c] = "blocked" /\ \A l \in Lists : c \notin ToSet(waiters[l])
    /\ \A v, w \in Workers : v # w /\ card[v] = card[w] =>
          ~({pc[v], pc[w]} \subseteq Taken \cup {"run"}) \/ at[card[w]] = "leaving"
    /\ \A c \in Running \cap (Queued \cup InHands \cup timers) : at[c] = "leaving"

(* A worker switches to a context that is not saved, or to a stack that is *)
(* gone, only while another is on its way out of the same card.            *)
TornOnlyBeforeSave ==
    crash = "torn" => \E v, w \in Workers :
        /\ v # w /\ card[v] = card[w]
        /\ pc[v] = "run" /\ at[card[v]] = "leaving" /\ pc[w] = "popped"

(* A stack is given back once, and after the last use of it.               *)
StackNotInUse == crash # "freed"

(* An action property: a card leaves a waiting list by being woken, unless *)
(* the main thread, awake without reason, queues its own card once more.   *)
DroppedOnlyByMain ==
    [][\A l \in Lists : \A a \in Cards :
          a \in ToSet(waiters[l]) /\ a \notin ToSet(waiters'[l]) =>
             \/ state'[a] = "ready" \/ a \in BeingPushed'
             \/ at[Main] = "retry" /\ at'[Main] = "asleep" /\ doing[Main] = l]_vars

(* Nobody waits at a channel where there is nothing to wait for, unless the *)
(* operation that changed that is still at its wake-ups.                   *)
NoWaiterBesideValue ==
    \A ch \in Chans, side \in {"recv", "send"} : owner[ch] = Nil /\ ~Blocks(<<ch, side>>) =>
        /\ waiters[<<ch, side>>] = <<>>
        /\ ~(at[Main] = "asleep" /\ doing[Main] = <<ch, side>>)

(* Whenever nobody is in the middle of a change of it, the ready list      *)
(* holds exactly the ready cards nobody has taken or will put in, and ends *)
(* in its tail, unless two threads have been in the middle of a change at  *)
(* once; and those that own g_sched_cs never are: one of the two is a      *)
(* channel operation.                                                      *)
ListIsWhole ==
    /\ \A c \in Cards : c \in Queued <=> state[c] = "ready" /\ c \notin InHands \cup BeingPushed
    /\ \A c \in Queued : ready.next[c] = Nil <=> c = ready.tail
    /\ ready.head = Nil <=> ready.tail = Nil
ListIsKept ==
    /\ ~overlapped /\ AtTheList = {} => ListIsWhole
    /\ \A s, t \in AtTheList : s # t => \E a \in {s, t} \cap Callers : doing[a] # Nil

(* A card that was woken is run (or the process has crashed).              *)
WokenCardsRun ==
    \A c \in Cards : (state[c] = "ready") ~> (state[c] # "ready" \/ crash # "none")

(* Who waits for a task goes on after the task is done, unless the main    *)
(* thread has cut it off the list (or the process has crashed).            *)
WaitersResume ==
    \A a \in Callers, c \in Cards :
        (doing[a] = <<c, "done">> /\ state[c] = "done")
            ~> (doing[a] # <<c, "done">> \/ a \in dropped \/ crash # "none")

=============================================================================
