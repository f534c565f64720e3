------------------------------- MODULE Arena --------------------------------
(* Arenas of the C runtime (xt_runtime.c): while g_current_arena is set, every
   object and the memory it grows into comes from that arena, and is immortal.
   The pointer is one global, neither atomic nor per thread, and an allocation
   reads it again and again: to choose a header, to choose memory, to test for
   room, to expand, to place the object and to move the offset.  It goes by what
   it has read, which may be old.

   A full arena swaps its buffer with that of a new block, which it chains;
   destroying it frees the chain, and leaves the current buffer to the second
   release that follows.  Sizes are in units of one object. *)
EXTENDS Integers, Sequences, SequencesExt, FiniteSets

CONSTANTS
  Threads, Arenas, None,
  Main,         \* the program's own thread, which makes and destroys arenas
  BlockSize,    \* what xt_arena_new and the expansion allocate
  MaxBlocks,    \* bounds: blocks of memory,
  MaxUses       \*   calls of the program, and connections

ASSUME ArenaAssumption ==
  Main \in Threads /\ None \notin Arenas /\ {BlockSize, MaxBlocks} \subseteq Nat \ {0} /\ MaxUses \in Nat

VARIABLES
  current,   \* g_current_arena
  arena,     \* per arena: state, releases to come, buffer, offset in it, chain
  blocks,    \* per block of memory: whether it is still allocated
  alloc,     \* per thread: where it is in an allocation, whether the object counts,
             \*   the pointer it has read, the buffer it swapped out, its memory
  saved,     \* what xt_arena_disable or conn_handler put aside
  array,     \* an array of the program: its stage, whether it counts, its elements
  uses

\* What happened on the way (no code reads these)
VARIABLES
  objects,   \* places given to objects, in the order they were given
  rivals,    \* an allocation met another one, or a change of the current arena
  stale,     \* arenas destroyed while someone had put them aside
  mixed,     \* an array with its elements on the heap grew under an arena
  torn,      \* the current arena changed between an array's header and elements
  faults     \* "null": no arena where one was found before, "dead": a freed one,
             \*   "free": memory of an arena given to free or realloc

history == <<rivals, stale, mixed, torn>>
memory == <<current, arena, blocks, saved, array, objects, history, faults>>
arenaVars == <<memory, alloc, uses>>

Heap == "heap"
NoArray == [made |-> "no", counted |-> FALSE, elements |-> Heap, inArena |-> FALSE]
Idle == [at |-> "idle", immortal |-> FALSE, ptr |-> None, old |-> 0, from |-> Heap]

ArenaInit ==
  /\ current = None /\ saved = [t \in Threads |-> None]
  /\ arena = [a \in Arenas |-> [state |-> "new", refs |-> 0, buffer |-> 0, offset |-> 0, chain |-> <<>>]]
  /\ blocks = <<>> /\ objects = <<>>
  /\ alloc = [t \in Threads |-> Idle] /\ array = NoArray /\ uses = 0
  /\ rivals = FALSE /\ stale = {} /\ mixed = FALSE /\ torn = FALSE /\ faults = {}

Sound == faults = {}
Busy(t) == alloc[t].at \notin {"idle", "done"}
Meets(t) == \E u \in Threads \ {t} : Busy(u)
Uses == uses < MaxUses /\ uses' = uses + 1

(* Every change of g_current_arena by thread t                              *)
Switch(t, a) ==
  /\ current' = a
  /\ rivals' = (rivals \/ Meets(t)) /\ torn' = (torn \/ array.made = "header")

-----------------------------------------------------------------------------
(* An allocation.  A read of the pointer, which the compiler makes at every use
   or leaves out, and which others may make old at once:                     *)
Load(t) ==
  /\ Busy(t) /\ alloc' = [alloc EXCEPT ![t].ptr = current]
  /\ UNCHANGED <<memory, uses>>

(* Without an arena there it is lost.                                        *)
Dead(a) == ~blocks[arena[a].buffer]
Lost(t) == IF alloc[t].ptr = None THEN {"null"} ELSE IF Dead(alloc[t].ptr) THEN {"dead"} ELSE {}
Crash(t) ==
  /\ Busy(t) /\ alloc[t].at # "raw" /\ Lost(t) # {} /\ faults' = Lost(t)
  /\ UNCHANGED <<current, arena, blocks, alloc, saved, array, uses, objects, history>>
At(t, place) == alloc[t].at = place /\ (place # "raw" => Lost(t) = {})

(* xt_malloc tests for an arena, and that decides whether the object counts. *)
Raw(t) ==
  /\ alloc' = [alloc EXCEPT ![t] = IF current = None THEN [Idle EXCEPT !.at = "done"]
                                   ELSE [Idle EXCEPT !.at = "raw", !.immortal = TRUE, !.ptr = current]]
  /\ rivals' = (rivals \/ (current # None /\ Meets(t)))
Begin(t) ==
  /\ alloc[t].at = "idle" /\ Raw(t)
  /\ UNCHANGED <<current, arena, blocks, saved, array, uses, objects, stale, mixed, torn, faults>>

(* xt_arena_alloc_raw tests again before it takes memory, and then for room. *)
TestArena(t) ==
  /\ At(t, "raw")
  /\ alloc' = [alloc EXCEPT ![t].at = IF alloc[t].ptr = None THEN "done" ELSE "room"]
  /\ UNCHANGED <<memory, uses>>
Full(a) == arena[a].offset + 1 > BlockSize
TestRoom(t) ==
  /\ At(t, "room")
  /\ alloc' = [alloc EXCEPT ![t].at = IF Full(alloc[t].ptr) THEN "grow" ELSE "place"]
  /\ UNCHANGED <<memory, uses>>

(* The expansion: the arena goes on in a new block; the old one is chained.  *)
NewBlock == Len(blocks) + 1
BadExpanded(a) == [arena EXCEPT ![a].offset = 0]
Expanded(a) == [arena EXCEPT ![a].offset = 0, ![a].buffer = NewBlock]
Grow(t) ==
  /\ At(t, "grow") /\ Len(blocks) < MaxBlocks
  /\ alloc' = [alloc EXCEPT ![t].at = "chain", ![t].old = arena[alloc[t].ptr].buffer]
  /\ arena' = Expanded(alloc[t].ptr) /\ blocks' = Append(blocks, TRUE)
  /\ UNCHANGED <<current, saved, array, uses, objects, history, faults>>
Chain(t) ==
  /\ At(t, "chain")
  /\ arena' = [arena EXCEPT ![alloc[t].ptr].chain = <<alloc[t].old>> \o @]
  /\ alloc' = [alloc EXCEPT ![t].at = "place", ![t].old = 0]
  /\ UNCHANGED <<current, blocks, saved, array, uses, objects, history, faults>>

Place(t) ==
  /\ At(t, "place")
  /\ objects' = Append(objects, <<arena[alloc[t].ptr].buffer, arena[alloc[t].ptr].offset>>)
  /\ alloc' = [alloc EXCEPT ![t].at = "move", ![t].from = alloc[t].ptr]
  /\ UNCHANGED <<current, arena, blocks, saved, array, uses, history, faults>>
Move(t) ==
  /\ At(t, "move")
  /\ arena' = [arena EXCEPT ![alloc[t].ptr].offset = @ + 1]
  /\ alloc' = [alloc EXCEPT ![t].at = "done", ![t].ptr = None]
  /\ UNCHANGED <<current, blocks, saved, array, uses, objects, history, faults>>

Allocate(t) ==
  \/ Begin(t) \/ Load(t) \/ Crash(t)
  \/ TestArena(t) \/ TestRoom(t) \/ Grow(t) \/ Chain(t) \/ Place(t) \/ Move(t)

\* The program's thread keeps what it got, and may allocate again
InArray == array.made \in {"header", "elements", "growing"}
Resting == alloc[Main].at = "idle" /\ ~InArray
Keep ==
  /\ Uses /\ alloc[Main].at = "done" /\ ~InArray /\ alloc' = [alloc EXCEPT ![Main] = Idle]
  /\ UNCHANGED memory

-----------------------------------------------------------------------------
(* The program's calls *)
ArenaNew(a) ==
  /\ Uses /\ arena[a].state = "new" /\ Len(blocks) < MaxBlocks
  /\ arena' = [arena EXCEPT ![a].state = "live", ![a].buffer = NewBlock]
  /\ blocks' = Append(blocks, TRUE)
  /\ UNCHANGED <<current, alloc, saved, array, objects, history, faults>>
ArenaUse(a) ==
  /\ Uses /\ arena[a].state = "live" /\ Switch(Main, a)
  /\ UNCHANGED <<arena, blocks, alloc, saved, array, objects, stale, mixed, faults>>
ArenaDisable ==
  /\ Uses /\ saved' = [saved EXCEPT ![Main] = current] /\ Switch(Main, None)
  /\ UNCHANGED <<arena, blocks, alloc, array, objects, stale, mixed, faults>>
ArenaRestore ==
  /\ Uses /\ Switch(Main, saved[Main]) /\ saved' = [saved EXCEPT ![Main] = None]
  /\ UNCHANGED <<arena, blocks, alloc, array, objects, stale, mixed, faults>>

(* xt_arena_destroy frees the chain and lets two releases free the rest.     *)
Freed(bs) == [b \in DOMAIN blocks |-> blocks[b] /\ b \notin bs]
PutAside(a) == \E t \in Threads : saved[t] = a
BadAfterDestroy(a) == current
AfterDestroy(a) == IF current = a THEN None ELSE current
ArenaDestroy(a) ==
  /\ Uses /\ arena[a].state = "live"
  /\ Switch(Main, AfterDestroy(a))
  /\ blocks' = Freed(ToSet(arena[a].chain))
  /\ arena' = [arena EXCEPT ![a].state = "destroyed", ![a].chain = <<>>, ![a].refs = 2]
  /\ stale' = stale \cup {x \in {a} : PutAside(x)}
  /\ UNCHANGED <<alloc, saved, array, objects, mixed, faults>>
ArenaRelease(a) ==   \* xt_release: the last one frees what xt_free_obj finds
  /\ arena[a].state = "destroyed"
  /\ arena' = [arena EXCEPT ![a].refs = @ - 1, ![a].state = IF arena[a].refs = 1 THEN "freed" ELSE @]
  /\ blocks' = IF arena[a].refs = 1 THEN Freed({arena[a].buffer} \cup ToSet(arena[a].chain)) ELSE blocks
  /\ UNCHANGED <<current, alloc, saved, array, uses, objects, history, faults>>

(* xt_array_new: the header, and then, as the arena is then, the elements.  *)
ArrayNew ==
  /\ Uses /\ array.made = "no" /\ Raw(Main)
  /\ array' = [NoArray EXCEPT !.made = "header", !.counted = (current = None)]
  /\ UNCHANGED <<current, arena, blocks, saved, objects, stale, mixed, torn, faults>>
ArrayElements ==
  /\ array.made = "header" /\ alloc[Main].at = "done" /\ Raw(Main)
  /\ array' = [array EXCEPT !.made = "elements", !.inArena = (current # None)]
  /\ UNCHANGED <<current, arena, blocks, saved, uses, objects, stale, mixed, torn, faults>>

(* xt_array_append on a full array: under an arena the elements move into it
   and the flag stays; without one they are reallocated, unless the flag says
   that they are an arena's.                                                 *)
BadReallocates == current = None
Reallocates == ~array.inArena
ArrayGrow ==
  /\ Uses /\ array.made = "yes" /\ Raw(Main)
  /\ array' = [array EXCEPT !.made = "growing", !.inArena = @ /\ current # None]
  /\ mixed' = (mixed \/ (current # None /\ ~array.inArena))
  /\ faults' = IF current = None /\ Reallocates /\ array.elements # Heap THEN {"free"} ELSE {}
  /\ UNCHANGED <<current, arena, blocks, saved, objects, stale, torn>>
ArrayHas ==   \* both end with the elements where the allocation has put them
  /\ array.made \in {"elements", "growing"} /\ alloc[Main].at = "done"
  /\ array' = [array EXCEPT !.made = "yes", !.elements = alloc[Main].from]
  /\ alloc' = [alloc EXCEPT ![Main] = Idle]
  /\ UNCHANGED <<current, arena, blocks, saved, uses, objects, history, faults>>
ArrayFree ==   \* the last xt_release of a counted array; xt_free_obj ignores the flag
  /\ Uses /\ array.made = "yes" /\ array.counted
  /\ array' = [array EXCEPT !.made = "freed"]
  /\ faults' = IF array.elements # Heap THEN {"free"} ELSE {}
  /\ UNCHANGED <<current, arena, blocks, alloc, saved, objects, history>>

ArenaSwitch ==   \* the calls that decide which arena is current
  ArenaDisable \/ ArenaRestore \/ \E a \in Arenas : ArenaUse(a) \/ ArenaDestroy(a)
ArenaCall ==
  ArenaSwitch \/ ArrayNew \/ ArrayGrow \/ ArrayFree \/ \E a \in Arenas : ArenaNew(a) \/ ArenaRelease(a)

-----------------------------------------------------------------------------
(* Objects never share memory, and no allocation that has found an arena meets
   none, unless a thread was allocating from an arena while another did, or
   changed the current one: g_current_arena has no lock.                     *)
ObjectsAreApart == ~rivals => IsInjective(objects) /\ "null" \notin faults

(* A freed arena is used only if it was destroyed while it was put aside, by
   xt_arena_disable or by a connection's handler, which makes it current again
   without a look at it; or by an allocation that met another thread's.      *)
FreedArenasAreNotUsed == "dead" \in faults => stale # {} \/ rivals

(* free and realloc never get memory of an arena, unless an array with its
   elements on the heap had grown while an arena was current (that does not set
   elements_in_arena, and xt_free_obj does not look at it), or a thread changed
   the current arena between an array's header and its elements.             *)
OnlyHeapMemoryIsFreed == "free" \in faults => mixed \/ torn
=============================================================================
