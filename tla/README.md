# TLA+ models of Atlanage

Atlanage is a programming language in Chinese with a self-hosted compiler. This
directory holds models of its runtimes: of what runs concurrently in them, of
their memory, and of the data structures of the older one; the TLC
configurations that check them on small instances, and theorems about them
that TLAPS checks for every instance. Paths below are relative to the
repository, line numbers are those of the commit the models were written from.

Contents: [the system](#the-system), [the modules](#the-modules),
[the runs](#the-runs), [fairness](#fairness), [the proofs](#the-proofs),
[disagreements found](#disagreements-found), [limits](#limits),
[the plan](#the-plan), [how to run](#how-to-run).

## The system

A program is compiled by the self-hosted compiler (`self-hosted/*.at`) to an
object file and linked with a runtime. There are two runtimes. The *C runtime*
(`runtime/*.c`) is the older one, of the programs the first compiler made; it
has reference counting, a thread pool, fibers and channels, and a network
layer. The *native runtime* (`self-hosted/atl_rt.at`, written in the language
itself) has a stop-the-world collector and tasks with stacks of their own on
one worker thread per processor.

| Component | State it keeps | Operations | What makes it correct |
|---|---|---|---|
| Thread pool, `runtime/xt_threadpool.c` | ring of `MAX_TASKS` slots, head, count, id counter, shutdown flag, one mutex, three condition variables | init, submit, wait, try_wait, shutdown; worker loop | a task runs once; an answer belongs to its task although slots are reused; no signal is lost; blocked calls end |
| Fiber scheduler, `runtime/xt_runtime.c` 150-340 | table of fibers, stack of free slots, ready list, timer heap, `running`, `current` | spawn, run, yield, sleep, wait for a fiber or an event, wake, recycle, await by a thread | a fiber is in one list at most, once; slots are not reused while somebody holds the handle; who waits is woken; the loop stops only when it is drained; one thread runs it |
| Channels, `runtime/xt_runtime.c` 2165-2304 | ring of values, head, tail, size, mutex, two condition variables | send, receive, both also blocking with a time-out, select | values leave in order and once; nobody sleeps beside a value or beside room; bounded calls end |
| Asynchronous tasks (`xt_async`), `runtime/xt_runtime.c` 2040-2160 | `XTTask`: result, status, pool id | spawn on the pool, wait, try_wait, result, wake who waits | whoever asks for a task's result gets it; the result is stored before waiters go on, and kept |
| Reference counting, weak references, arenas, `runtime/xt_runtime.c` 690-1010 | counts, list of weak references, arenas with chained blocks, the global current arena | retain, release with all it frees, weak assignment; arena new, use, disable, restore, destroy; allocate | an object is freed once, after its last reference; its weak references are cleared; memory of an arena is given out once and not freed piecewise |
| Values and containers, `runtime/xt_runtime.c` | tagged words, strings, arrays, dictionaries, instances, JSON texts | arithmetic, get, set, append, remove, split, replace, parse, serialize | a dictionary finds what was put; texts are read by characters; a document comes back as it was |
| Sockets and TCP server, `runtime/xt_net.c` | sockets, one thread per connection | connect, listen, accept loop, handlers, close, read, write | a connection is closed once; handlers leave the program's arena as it was |
| Native scheduler and channels, `self-hosted/atl_rt.at` 15080-15640, 16950-17330 | cards: state, saved context, links; ready list, waiting lists, timers, one section; per channel a ring, two waiting lists, one section and two condition variables | spawn, task wait, sleep, timer, completion, context switch, channel send and receive, freeing of stacks | a woken card is run, once at a time; nobody waits for what has happened; a stack is freed once and after its last use |
| Native collector, `atl_rt.at` 7900-9100 | `rt_gc_pending`, `rt_gc_in_at`, `main_parked`, mark bits, free lists, shadow stacks | poll, park, collect, mark, sweep, allocate | nobody runs in the language while the collector marks; what is reachable survives; collections end |
| Native values, strings, containers, files, calls of the system, `atl_rt.at` | heap blocks, boxed values | sequential operations on data | as for the C runtime |
| Compiler front end, `atl_lexer.at`, `atl_parser.at`, `atl_semantic.at` | token list, tree, scopes and types | lex, parse, resolve | tokens, precedence, scopes as documented |
| Code generator, assembler, linker, `atl_codegen.at`, `atl_assembler.at`, `atl_linker.at`, `atl_embedded_objs.at` | instruction list, labels, sections, symbols, relocations | emit, resolve jumps, lay out sections, relocate | a jump reaches its label; a relocation points at its symbol |
| Driver and data structures, `atlv1.at`, `atl_ds.at`, `atl_runtime.at` | imported files, options | read, import, run the phases | a file is imported once |
| Package manager, `tools/atp/*.at` | manifest, lock file, installed packages | install, remove, publish, resolve | one version for each package, the lock file says which |
| Package server, `tools/atp/*.py` | a directory | list, get, put | a small file server for tests |
| Seed builder, `seed/seed_builder.c` | hexadecimal seeds | decode, hash, write | the bytes written have the hash |
| Library, examples, tests, `lib/`, `examples/`, `测试/` | none | clients of the runtime | evidence of what the runtime promises |

How they interact. `xt_async` puts tasks on the pool or makes them fibers; a
thread that awaits a fiber runs the fiber scheduler itself or, if another thread
does, spins. The end of a pool task wakes fibers (`xt_scheduler_wake_task`) from
a worker thread. A channel call of the main thread that has to wait runs the
fiber scheduler first, on its own stack, so that fibers make channel calls in
the middle of it. The server's handlers allocate beside the program's thread,
all of them through one global arena pointer, and counted objects go from thread
to thread, their containers do not. In the native runtime a channel operation
takes its own section and wakes cards into the scheduler's ready list; a
function that calls others begins with a check at which its thread parks for a
requested collection, and the main thread parks in allocations too; the main
thread takes part in everything with a card of its own but is never run by a
worker.

What is hard. All of it is shared-memory concurrency: condition variables with
single signals, lists changed under a lock here and without it there, decisions
made from what was read before an unlock, contexts saved after the section that
makes them visible, slots and handles that are reused, waits with a bound that
race with their wake-up, counts and lists that cascades of frees change under a
walk over them, and a world that has to stop. The data structures add sequences
of legal calls that reach an odd state, and numeric edges. There is no
persistent state and no message passing between machines (but for the network
layer, whose reads may be short), so crash recovery and lost messages are not
among the hazards. `PROJECT.json` lists each hazard with its line and the
properties for it.

## The modules

Everything between a lock and the next unlock or condition wait is one step, as
long as no code touches that state without the lock; where some does, the
section is cut into its reads and writes (how finely is said of each module
below). A condition variable is a set of waiters: a wait is membership, a signal
takes at most one waiter out (any one), a broadcast takes all, and a spurious
wake-up takes one for no reason. Operators called `Bad...` are mistakes that the
properties are shown to catch; no action uses them.

| Module | Models | Correspondence |
|---|---|---|
| `ThreadPool` | `xt_threadpool.c` | `tasks`, `head`, `count`, `nextId`, `shutdown` are the fields of `g_pool`; `asleep` has a set for each of `cv`, `done_cv`, `space_cv`; `mu` names the worker that keeps the mutex from storing a result to the top of its loop. A task function is its number and returns it. With `BodiesCallPool` task functions submit and wait themselves. |
| `TaskPool` | the promise of the pool | tasks start in order, once; an answer is the task's result, or "gone" when it was overtaken. `ThreadPool` implements it under `Abstract` (queue position for the ring, the tasks below `Oldest` not in a worker's hands for the finished ones). |
| `FiberScheduler` | `xt_scheduler_*`, `xt_async_wait` on fibers | the table of fibers as functions of the slot; `ready` is the linked list, `sleeping` the timer heap as a set, from which a tick takes who is due in any order and enters them in the ready list (`Orders`, `Ticked`); the loop of `xt_scheduler_run` is cut at every point where it has let go of its mutex; `serial`, `owner` and `got` are history, of which fiber a slot holds, who has its handle, and whose result was read. Events stand for the pool tasks and channels that a fiber waits for and that another thread signals. |
| `Channel` | `xt_channel_*` | `buffer`, `size`, `head`, `tail` are the fields of `XTChannel`, `recvCv` and `sendCv` its condition variables. A call is one step if it does not wait, else a step for each turn of its loop, for each wait, and for its end. |
| `FifoChannel` | the promise of a channel | a bounded queue for each channel, a call and a reply for each caller. `Channel` implements it under `Fifo`, the queue being the slots from `head` on. |
| `AsyncTask` | `xt_async_*`, `async_runner`, over `ThreadPool` | EXTENDS `ThreadPool`: a handle's `result` and `status` are the fields of `XTTask`; the runner is the task function's frame in the worker, four steps; a caller stores the pool's answer and the status in two more. `notified` and `missed` are history. |
| `TimerHeap` | `xt_scheduler_timer_*` | `timers` is `timer_heap`, with its sifting (a loop is a number of rounds of its body, `Rounds`); what `FiberScheduler` keeps as a set. |
| `NativeScheduler` | tasks and channels of `atl_rt.at` | `ready` is `g_ready_head`, `g_ready_tail` and the links at +64 (a walk along them meets the set `Queued`). Because channel operations run `rt_push_ready` without `g_sched_cs`, every pop and every push, inside the section or not, is a step for each field: a worker reads the head (`Look`), the link (`ReadNext`), writes the head (`SetHead`) and may clear the tail (`ClearTail`); whoever has cards to put in (`todo`; a caller, or `Timer`, the thread of `timer_loop`) reads the tail (`ReadTail`), links (`Link`) and writes the tail (`SetTail`), for each card of `rt_wake_all` again. `cs` says who owns `g_sched_cs` between two steps, `seen` what a thread has read; `waiters` are the lists linked at +48; `at[a]` is where a caller's code is and says whether its context is saved; `crash` records a switch to a torn context or a freed stack, after which nothing is claimed. `overlapped` is history: two threads were in the middle of a change of the list at once; so is `dropped`: the cards that the main thread's second entry has cut off a waiting list. `MainWakesEarly` is its wait that ends without a reason, or its park for a collection on the way to sleep (17006-17029): both lead to `.tw_loop` with the card in the list. |
| `StopTheWorld` | the request, parking and counting around `atl_gc_collect` | `pending`, `initiator`, `inAt`, `mainParked`, `lock` are `rt_gc_pending`, `rt_gc_initiator_tid`, `rt_gc_in_at`, `rt_gc_main_parked`, `rt_gc_collect_lock`. A look at `pending` outside a section and the step that follows it are two steps. `slipped` is history: who stood between the two when the request was made. |
| `Heap` | `xt_retain`, `xt_release`, `xt_free_obj`, `xt_weak_*`, and the containers' calls as far as counts go | `rc` is `ref_count`; `cells` what a container holds; `node` and `link` the list `g_weak_slots`; a call is a sequence of primitive steps (`todo`), so that a release that frees an object that releases others is taken apart, and two threads' calls interleave. To store into a freed container is to use it; a cell that was released to be stored over and is emptied by another call first is an excess release (`Replaced`). `skew`, `borrowed`, `raced`, `broken`, `touched` are history. |
| `Arena` | `xt_arena_*`, allocation, arrays that grow | `current` is `g_current_arena`. An allocation is a sequence of steps: choose a header (`Begin`), choose memory (`TestArena`), test for room (`TestRoom`), expand (`Grow`, `Chain`), place (`Place`), move the offset (`Move`). Each goes by the pointer the thread has read (`ptr`), and `Load` reads it anew, between any two of them or not, as a compiler may; a read that finds no arena or a freed one ends the run (`Crash`). Merged are the reads within a line (727, 753), those of 736-742 and those of 744-750. An array's header and its elements are two allocations, each by its own look at the pointer (`ArrayNew`, `ArrayElements`, `ArrayHas`), and so is its growth. `rivals`, `stale`, `mixed` and `torn` are history. `blocks` are pieces of memory in the order they were allocated. |
| `NetServer` | `xt_net_listen`, `accept_thread`, `conn_handler`, connect, close, over `Arena` | EXTENDS `Arena`: `saved` holds each handler's copy of the arena pointer, `conn` a connection's descriptor, `is_closed`, count and the stage of its handler. |
| `Dict`, `Text`, `Json` | `xt_dict_*`; strings as UTF-8; JSON | each beside what the program means by the calls: a map (`meant`), a sequence of characters (`chars`), the document before it was serialized (`sent`). Bytes and lexemes are symbols; the width of a character is its lead byte's. A text cut behind a backslash or inside the digits of an escape is read past its end (`CutInEscape`): what lies there is unknown, so the answer is any value (`Anything`), and the run stops. |
| `DataMC` | - | `Heap`, `TimerHeap`, `Dict`, `Text`, `Json` in one run, one at a time (`work`): they share no state. |
| other `...MC` | - | values and symmetry for TLC. |
| `CommonLemmas` | - | remainders, for the two rings; counting; lists without repetition; induction over the naturals; how many members of a list are of a kind. |
| `ThreadPoolProofs`, `ChannelProofs`, `NativeSchedulerProofs`, `NetServerProofs`, `HeapProofs`, `HeapReachProofs`, `RuntimeProofs` | - | the theorems: each about the module it is named for, the first about `AsyncTask` too, the last about `FiberScheduler`, `TimerHeap`, `Dict` and `StopTheWorld`. `HeapReachProofs` goes on where `HeapProofs` ends. |

Symmetry is used in runs without liveness properties only, for threads,
workers, cards and connections that the modules treat alike; the main thread is
not among them.

## The runs

Bounds are constants: `MaxSubmits`, `MaxSends`, `MaxSpawns`, `MaxOps`,
`MaxCollections`, `MaxCalls`, `MaxUses` bound calls over a run, `MaxHeld`,
`MaxCells`, `MaxBlocks`, `MaxBytes`, `MaxNodes` sizes of data; everything else is
a size of the system. Deadlock is not checked where a system may stop for good:
all callers of a channel may be waiting, a pool may be shut down, and the bound
of calls ends every run.

| Run | Instance | Shows |
|---|---|---|
| `pool_safety` | 2 workers, 2 callers, 2 slots, 4 tasks | answers of the right task (`WaitAnswersItsTask`), nobody asleep on `done_cv` for what has happened (`SleepersAreOwed`), and by counting that the single signals are enough (`NobodySleepsBesideWork`); `ImplementsTaskPool`. 4 tasks in 2 slots: each slot is reused while an older task of it may still run or be waited for. |
| `async_live` | 2 workers, 1 caller, 1 slot, 2 tasks that call the pool | a complete handle holds its task's result and callers get it, unless the pool had given the slot away when somebody asked (`AnswersAreTheTasks`); a fiber stays parked for a finished task only if it stood between its test and its wait when the runner woke the others (`ParkedFibersAreWoken`); spawned tasks are marked complete (`SpawnedTasksComplete`); blocked submits, waits and shutdowns end (`CallsEnd`), unless every worker is itself blocked in a call (the pool does deadlock then). 2 tasks in 1 slot: the second takes the slot of the first while it is asked for. |
| `fiber` | 2 awaiting fair threads, 2 slots, 4 fibers, 1 event | lists and states agree (`OnePlace`), results go to who asked (`AwaitGetsOwnResult`), no wake-up is missed (`NoMissedWake`); one thread runs the loop, but for a second one that enters between the clearing of `running` and its re-reading (`SecondRunnerOnlyAtRecheck`); an await ends or ends `Stranded`: the loop looked at an empty ready list, another thread then made a fiber ready, and nobody runs it (`AwaitEndsOrStranded`). 4 fibers in 2 slots: slots are reused with handles of their old fibers around. |
| `channel_safety` | 2 threads, main, 1 fiber, 1 channel of 2 slots, 3 sends, selections | `ImplementsFifo`; no sender sleeps on beside room (`SendersAreOwed`); a receiver is left asleep beside a value only by a selection that got its signal (`OnlySelectionsLoseAWakeUp`). Three sends through two slots bring the ring round, and make senders wait for room. |
| `channel_live` | 2 threads, 2 channels of 1 slot, calls that wait not at all, for two rounds, for ever | `CallsEnd`: calls with a bound end, and a selection does not go on for ever beside a value; `ImplementsFifo` with time-outs. |
| `native_tasks` | 2 workers, main, timer, 2 cards, 4 operations, waits of main that end early, fair | woken cards are not lost (`NoCardLost`), in one place (`OnePlace`), run (`WokenCardsRun`); who waits for a task goes on after it, unless the main thread's second entry has cut it off the list (`WaitersResume`); a context is resumed unsaved only while its owner is between leaving the section and saving it (`TornOnlyBeforeSave`). |
| `native_channels` | the same with one channel of 1 value, spurious wake-ups, 6 operations | nobody is left asleep at a channel (`NoWaiterBesideValue`); a waiter drops out of a list only by the main thread's second entry (`DroppedOnlyByMain`); the ready list is whole whenever nobody is in the middle of a change of it, until two threads were in the middle of one at once, and one of the two is then in a channel operation (`ListIsKept`). |
| `stop_world` | 3 workers, main, 3 collections, fair | while one thread collects no other does, and none runs the program but one that stood between its look at `pending` and its next step when the request was made (`CollectorIsAlone`); collections end and who parked goes on, unless the main thread sleeps at a channel (`CollectionsEnd`). 3 collections: a thread late from the first meets the second. |
| `server` | 2 connections, their handlers, the acceptor, the program's thread, 1 arena of 1-object blocks, 5 uses | objects of an arena are apart unless two threads allocated at once or the arena changed meanwhile (`ObjectsAreApart`); memory of a destroyed arena is used only if it was put aside when it was destroyed, or by an allocation that met another one or a change of the arena (`FreedArenasAreNotUsed`); only memory of the heap is freed, but for arrays that grew into an arena or whose header and elements were made under different ones (`OnlyHeapMemoryIsFreed`); a connection is closed, and twice only by two threads at once (`ConnectionsAreClosedOnce`); handlers that do not overlap keep the arena (`HandlersKeepTheArena`). Blocks of one object: the second allocation expands. |
| `data` | 2 threads, 2 or 3 of 6 objects in a run, 2 weak references, 3 calls; 5 sleepers, a heap of 4, 3 times; 5 keys in 2 buckets; texts of 6 bytes over 5 characters; documents of 3 values, a parse buffer of 2 | counts are exact through every cascade of frees (`CountsAreExact`); freed memory is reached, and a weak reference dangles, in the named ways only (`NothingFreedIsReached`, `WeakReferencesAreCleared`); a tick wakes who is due, in order (`TimersFireInOrder`); the dictionary is the map meant (`DictIsMap`); every way to read a text by characters agrees (`TextIsItsCharacters`); documents come back, and one that was cut, but not inside an escape, is not taken for whole (`DocumentsAreCarried`). |
| `native_stack` | 2 workers, 2 cards, no channel | violation, see below. |
| `native_wake` | 1 worker, 2 cards, 1 channel | violation, see below. |

Two slots, two workers and two callers are the least with which a ring comes
round, a signal can go to the wrong waiter and a late writer can meet a reused
slot; where a counter is compared with 1 (`inAt`), three workers are the least
with one too many beside the collector. Time-outs are relative: a bounded wait
may end at any moment, and for selections two rounds of 100 ms show both a
round that is followed by another and the last one. A heap of four timers is
the least in which a fiber sifted down has a choice on two levels; three calls
build a container that holds the last reference to another and take it apart.
Dictionaries never grow their table (nor does the code), so two buckets, one
with four keys, stand for any number.

## Fairness

Safety runs use `Spec`, without fairness. `FairSpec` states:

* Pool: weak fairness of every worker's step, of the end of every task function
  that is not inside a call, and of a call that has begun. The mutex is the
  operating system's; a thread that waits for it is enabled whenever nobody
  holds it, and a section is one step. Nobody has to make a call.
* Fibers: weak fairness of the running thread; strong fairness of the end of a
  fiber that is polled again and again, and of a sleep (it comes to its end
  while the loop ticks); weak fairness of an event that somebody waits for.
  The last two are assumptions on the program and its tasks, not on the loop.
* Asynchronous tasks: that of the pool, and strong fairness of the runner's
  steps, since a task function that calls the pool again and again ends.
* Channels: weak fairness of a call's own steps and of the end of a bounded
  wait. Nobody has to send or receive.
* Native: weak fairness of every worker, of a call in progress, of the timer
  (its thread waits on `g_timer_cv` for no longer than until the next sleep
  ends), of pushes that have begun, and of the end of a task's code, until the
  model's `crash`.
* Collections: weak fairness of the collector, of who was asked to park and of
  who waits for the end, and of a task that meets the request at a safe point:
  every function that calls another begins with one, and a function that calls
  none ends. Nobody has to collect, to wait or to use a channel.

## The proofs

`tlapm` checks every leaf; nothing is assumed but the named ASSUMEs of the
modules: sizes are positive naturals; the sets of threads, fibers, workers and
callers are disjoint as stated, and finite where sleepers, owners or references
are counted (the pool's workers and clients, a channel's callers, the awaiting
threads, the native workers, the heap's threads, objects and weak references,
a dictionary's buckets). All these are finite in the program: each is made by a
call of its own.

**`ThreadPoolProofs`**: `PoolInv` is inductive for any number of workers,
callers and slots. `RingInv`, `RunOnce` and `WaitAnswersItsTask` are not
inductive alone: what a worker stores depends on whether the slot it finds by
id is still its own. The strengthening, `SlotsInv`, says of every slot that it
holds the last task whose id is congruent to it, not done exactly as long as
that task is queued or run; `CallsInv` says that calls ask for ids that exist.
With it a worker that ends a task either finds the slot under its id or the
task was overtaken and nobody is answered from it (lemma by lemma, an action
each). From it follow `RingCorrect`, `TasksRunOnce`, `AnswersCorrect`,
`NoMissedCompletion` and, step by step, `PoolImplementsTaskPool`: a step that
takes, finishes, stores or answers is the step of the same name of `TaskPool`,
every other one a stutter. `SignalInv` counts: the tasks in the queue are at
most those on their way to them while a worker sleeps, and likewise the free
slots and the submitters, so that one signal for each is enough
(`NoLostSignal`). The asynchronous tasks are proved over it: each of their steps
is a step of the pool or leaves it alone (`AsyncUsesThePool`), hence the pool's
invariants hold under them. What is added, `AsyncInv`, follows a caller from the
pool's answer over the storing of the result to the status; an answer about a
task stays one while others go on (`StaysAnAnswer`).

**`ChannelProofs`**: `ChannelInv` is inductive for any number of threads,
fibers, channels, slots, time-outs and selections. Its parts are the ring, a
description of where a caller may be in which call and wait set (`CallsInv`),
and two counting invariants. The counting argument: while a receiver sleeps,
there are at least as many receivers on their way (`Coming`) as values. A put
adds a value and moves one sleeper to the road; a take removes both a value and
a receiver; a receiver leaves the road for another reason only when it has seen
the channel empty, or in a time-out, when it was asleep and not on the road.
`PutOwed` and `TakeOwed` do this for the two steps that change the ring,
`StillOwed` for all others. For senders it holds always (`SendersNotForgotten`);
for receivers only where nobody selects (`ReceiversNotForgotten`, with the
hypothesis `Lists = {}`), since a selection takes the signal and not the value.
Where somebody selects, a step that loses the wake-up is one of a selection that
had it (`WakeUpsLostOnlyToSelections`): every step is quiet, a put or a take at
a channel, and for each of these the receivers and selections that will still
look are compared. `RingCorrect` is the arithmetic of head, tail and size modulo
the capacity (`SlotSum`, `SlotDifference`), and with it the slots read from head
on are the queue of `FifoChannel` (`ChannelsAreQueues`).

**`RuntimeProofs`**, the fibers: `FiberInv` is inductive. `OnePlace` needs to
know what the running thread has in its hands (`HandInv`). That nobody is
answered with another fiber's result, and that nobody waits for a recycled slot,
follows from who holds a handle: a slot in the free stack has no holder
(`FreeInv`), a held handle has not been read (`ResultInv`), and whoever waits,
fiber or thread, holds the handle he waits for (`WaitInv`, `AwaitInv`). Hence
the one who recycles a slot, having read its result, was the only one to wait
for it.

**`NetServerProofs`**: `ServerInv` is inductive. Each of its parts begins with
the named way in which it is lost. The arenas: which memory belongs to whom
(`BuffersInv`), that what is current or saved is live unless it was destroyed
while put aside (`MemoryInv`), that nothing was given out behind an arena's
offset but by the one thread about to move it (`ApartInv`), and that an array's
flag tells where its elements are until it grew into an arena or the arena
changed between its two halves (`ArrayInv`). Where allocations meet, no more is
known of what a thread has read than that it is an arena, and of a buffer
swapped out that no arena has it (`PointersInv`). The connections: the count of
a socket is the number of its references (`CountsInv`), a close by two threads
is known (`ClosingInv`), and the handlers inside have saved the arena the
program wants (`HandlersInv`).

**`NativeSchedulerProofs`**: `ChannelsInv` is inductive without any condition: a
channel's section is owned from its change to the end of the wake-ups, and
nobody is left in its lists meanwhile (`OwnersInv`); hence
`NobodySleepsBesideValue`. The theorems about the cards say what holds until two
threads have been in the middle of a change of the ready list at once
(`overlapped \/ ...`). That cannot be left out, since the run `native_wake`
shows a card being lost where a push and a pop overlap; and it never happens in
a program without channels (`OnlyChannelsOverlap`), since two that own
`g_sched_cs` are one. Until then `TaskInv` is inductive: `CardsInv` and
`WorkersInv` relate where a card's code is, what its state says and which worker
has it, `WaitingInv` puts a waiter in one list, and `ReadyInv` says that some
sequence without repetition runs along the links from head to tail and holds the
ready cards nobody has popped (a witness for the list, since the code keeps the
fields only), in every stage of a pop or a push by the one thread that is in the
middle of one. Hence `ListStaysWhole`.

*Stopping the world* (`RuntimeProofs` too): `WorldInv` is inductive for any
number of workers and of collections. `CountInv` says that `inAt` is the number
of workers inside; one thread moves at a time, so each step changes it by the
mover alone (`Moves`). `OwnersInv` gives the lock and the request to one thread
each. When the counts let a collector go on, nobody else is inside
(`NobodyElseInside`: a set with one member at most that has the collector in it,
or none if the collector is the main thread); after that a thread comes in only
from "admitted" or "late", and with a request standing those are slipped
(`LateInv`). Hence `CollectorAlone`.

*Timers*: `TimerHeap` writes the loops of the sifting as rounds of their body,
so that an invariant of the loop is kept by a round and then by any number of
them (`Upwards`). While a fiber goes up, only it may be before its father, and
its children are not (`OrderedButUp`); while one goes down, only its children
may be before it, and they are not before its father (`OrderedButDown`). An
ordered heap's root is first (`RootIsFirst`), hence a tick wakes all that are
due and the earliest first (`TimersWakeInOrder`). *Dictionaries*: each bucket
carries the keys that belong to it, once, with the values meant (`Carries`), and
prepending, overwriting and unlinking keep that; `xt_dict_keys` is the buckets'
keys one after another (`DictIsTheMap`).

**`HeapProofs`**: `CountsAreExact` is not inductive alone. Which cells of a
container count depends on who is emptying it or about to store into it, so
`HeapInv` adds that of each there is one at a time, by a thread that may
(`StepsInv`); that nothing refers to what is not born yet (`BornInv`); that keys
and values alternate in a dictionary, where alone weak cells are (`CellsInv`);
and which entries of the weak list are whose (`NodesInv`). Every step takes the
first step off a thread's list and puts others in its place, or begins a call
with a new list (`StepsMove`), so each part of a count moves by what the thread
does (`WorkMoves`) and by what one container changes (`RefsMove`), and
`CountMoved` adds up. `ReleaseKeeps` and `EmptyKeeps` are the cascade,
`EntryClearedKeeps` the walk, which writes into dictionaries while they are
being freed. `HeapInv` holds while no thread has used freed memory or overtaken
a walk (`Defined`); after that the model has stopped. Hence `CountsExact`.

**`HeapReachProofs`**: `NothingFreedIsReached`, over exact counts. An object is
mentioned by owned counts, counted cells, keys of the weak list and steps to be
done; nothing that is dead is mentioned (`DeadInv`). When a release finds a
count of one, exactness leaves no other mention but retains, which exact counts
subtract (`Freed`). So the invariant must say why no retain is pending for an
object that its last count is released of. A call that only retains leaves more
references behind than retains to do (`Covered`); the walk over the weak list
retains a key only to release it next, and a store's retain comes while its
caller owns a count of the value (`Secured`, `StoresHeld`). To add these up over
all threads, each claim needs something of its thread's own behind it, which no
other thread can take away: the counts it owns, the counted cells of its own
containers that it owns a count of, and the keys of their weak entries (`Kept`,
`Spared`). One thread's step then keeps its own claims (`OwnKeeps`) and
everybody else's (`OthersKeep`), and each call begins with its claims secured
(`StartedPlain`, `StartedStore`). The exceptions are named by `borrowed`: values
taken from a weak reference or stored over an element without a count, objects
released in excess (`Surplus`), what a container holds that is emptied although
a thread owns a count of it (`Orphaned`: the container itself was used without a
count before), and keys of new entries that a walk writes into a dictionary its
thread owns no count of (`Written`). The last two were found by this proof:
without them the property holds on the instance of the run and fails on larger
ones.

Model-checked only: liveness under fairness and ENABLED, which are beyond the
prover; `Text` and `Json`, whose texts and documents are read by recursive
operators; what a damaged native list leads to, once two threads have changed it
at once; and `WeakReferencesAreCleared`, which needs the order of the weak list
as an invariant of walks that are inside one another. Induction over data is
done where a set can stand for the predicate (`Upwards` in `CommonLemmas`). Type
invariants, `RingInv`, `RunOnce` and `ReceiversAreOwed` (without selections) are
proved for every instance and no run repeats them.

## Disagreements found

* `native_stack`: after a switch back from a card the worker reads the card's
  state outside `g_sched_cs` (`atl_rt.at:15325`) and frees the stack if the
  task is over. Between the card's leaving its section and that read another
  worker may resume the card and reach its end: the stack is freed while the
  end of the task still runs on it, and a second time by the other worker. The
  comment at 15609 says using that stack there is safe.
* `native_wake`: `atl_chan_send` (17220) and the other channel operations wake
  cards by `rt_push_ready`, holding the channel's section and not
  `g_sched_cs`. A worker that pops the last card meanwhile leaves the woken card
  in no list, although 17212 says it is woken.

The passing runs state other limits as properties that hold: each says that a
guarantee is lost in named ways only. What the code does in those cases, where
no document or comment of the repository says otherwise:

* Fibers: `SecondRunnerOnlyAtRecheck`, `AwaitEndsOrStranded`. Channels:
  `OnlySelectionsLoseAWakeUp`. Native tasks: `TornOnlyBeforeSave`, `ListIsKept`,
  `DroppedOnlyByMain`, `WaitersResume`.
* Collections: a worker looks at `pending` when it takes a card and counts itself
  in later (`atl_rt.at:15317`), the main thread at an allocation and a refused
  collector step back in outside any section (8020, 8992-8995): a collection
  that begins in between does not see them. The main thread asleep at a channel
  (17190, 17307) is waited for and cannot park.
* Counts: `array_set` and `dict_set` release the old value before they retain
  the new one (1274, 1731); a weak entry's value is released like a strong one's
  when it is overwritten, removed or freed with its dictionary, and one that is
  set over a strong value leaks that; a dictionary that dies before what it
  refers to weakly is written to when that dies; the walk over the weak
  references takes no lock (943-962).
* Arenas: one global pointer, read several times in an allocation (721-755); an
  array that grows under an arena does not set `elements_in_arena`, and
  `xt_free_obj` does not look at it (1221-1237, 986-1000); an array's header and
  its elements are made by two looks at the pointer (834, 1201), between which a
  handler's restore (`xt_net.c:192`) may fall.
* Sockets: a socket object made while an arena is current counts nothing and is
  never closed by its release; one from `xt_connect` starts with a count too
  many (2370-2376); the result of `pthread_create` is not looked at.
* Data: keys with a NUL inside are equal for `strcmp` and apart for the hash;
  splitting goes by the bytes of the separator, merges empty fields and cuts
  characters that share a byte with it; JSON strings beyond 4095 bytes end the
  document they are in, keys that are not strings do not come back, the digits
  of an escape are read from its `u` on, so that all control characters without
  a letter come back as NUL (2906), and a text that ends behind a backslash or
  inside those digits is read past its end (2893-2921).

## Limits

* Fibers' and tasks' code is a choice among the calls it may make.
  `FiberScheduler` leaves the order of the timers to `TimerHeap`: a sleeping
  fiber may be due at any tick. A channel call of the main thread may stay in
  the scheduler for any time (`Channel`'s "sched"; in the code as long as a
  fiber waits or sleeps, `xt_runtime.c:2217`), so nothing is claimed about how
  long.
* After undefined behaviour (a destroyed mutex, a torn context, a freed stack or
  object, a list changed during a walk, a text read past its end) the models
  stop rather than guess.
* The reuse of ids after 2^31 submissions (`xt_threadpool.c:223`), callers still
  inside the pool when shutdown destroys its mutex (204), two takers of one
  fiber's result (`xt_runtime.c:161`) and a fiber that awaits another through
  `xt_async_wait` (2099: it spins in its own poll, whatever else happens) are
  known and not in the models.
* `NativeScheduler` leaves out parking for the collector, which is in
  `StopTheWorld` with the cards left out, but for the main thread's on its way
  to sleep in a wait, and the failure of a spawn. Its channels hold counts, not
  values.
* `Heap` has one container of each shape and no arena; `Arena` has no counts but
  those of sockets, and one array; an arena that was destroyed is not made
  current anew by `xt_arena_use`. Sizes of arenas are in objects, of JSON
  buffers in symbols.

Not modelled, and why: marking and sweeping of the native collector and the
native values (assembly over raw memory and conservative stack scanning, where
what matters is the layout that a model would leave out); the compiler, its
assembler and its linker (sequential translations of large inputs, checked in the
repository by compiling itself); the package manager, its test server and the
seed builder (file and network operations in a row); tagged arithmetic,
conversion to text, bytes, files and processes of the C runtime. `components` in
`PROJECT.json` lists them all.

## The plan

Done: the pool with its promise and the tasks over it, fibers and their timers,
channels with their promise, native tasks and channels, the stopping of the
world, counted memory, arenas with the server, dictionaries, texts and JSON; the
proofs of all safety properties and refinements of these but for the weak list,
texts, documents and damaged lists.

Theorems to come, in this order: `WeakReferencesAreCleared`, over `HeapInv` and
the list's order by a rank of its entries; `TextIsItsCharacters`, with positions
as a recursive function.

Modules that could follow: `Channel` with the scheduler's loop instead of its
"sched", version resolution of the package manager, jump resolution of the
assembler.

A run's bound is chosen so that it ends within a few minutes; where a new module
needs room, properties that a stronger one implies are checked through it.

## How to run

    tlc -workers 2 -config ChannelSafety.cfg ChannelMC.tla
    tlapm ChannelProofs.tla

Each run's module and configuration are in `PROJECT.json`, which also maps every
definition to the lines it models.
