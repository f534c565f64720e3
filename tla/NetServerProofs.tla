--------------------------- MODULE NetServerProofs ---------------------------
(* The arenas under the TCP server, and the connections it serves, for any
   number of connections, arenas and blocks.

   The invariants: no two arenas own one block (BuffersInv), and as long as none
   was destroyed while put aside, whatever is current or put aside has its
   memory (MemoryInv); without rivals one thread at a time is inside an
   allocation, has read the arena that is current, and what was given out lies
   before the offset (ApartInv); with them, what has been read is an arena, and
   a buffer swapped out is nobody's (PointersInv); unless an array grew into an
   arena or the current one changed between its two halves, its flag tells where
   its elements are (ArrayInv); one handler has the
   arena of the program (HandlersInv); the references of a connection are its
   handler's and the program's (CountsInv), and who is closing it still holds
   one of them (ClosingInv). *)
EXTENDS NetServer, SequenceTheorems, TLAPS

Stages == {"none", "accepted", "made", "started", "lost", "entered", "callback",
           "releasing", "ended", "connecting", "connected"}

ArenaRecords ==
  [state : {"new", "live", "destroyed", "freed"}, refs : Int, buffer : Nat, offset : Nat, chain : Seq(Nat)]
Allocations ==
  [at : {"idle", "raw", "room", "grow", "chain", "place", "move", "done"}, immortal : BOOLEAN,
   ptr : Arenas \cup {None}, old : Nat, from : Arenas \cup {Heap}]
ArrayRecords ==
  [made : {"no", "header", "elements", "yes", "growing", "freed"}, counted : BOOLEAN,
   elements : Arenas \cup {Heap}, inArena : BOOLEAN]

ArenaTypeOK ==
  /\ current \in Arenas \cup {None} /\ saved \in [Threads -> Arenas \cup {None}]
  /\ arena \in [Arenas -> ArenaRecords] /\ alloc \in [Threads -> Allocations]
  /\ blocks \in Seq(BOOLEAN) /\ objects \in Seq(Nat \X Nat)
  /\ array \in ArrayRecords
  /\ {rivals, mixed, torn} \subseteq BOOLEAN /\ stale \subseteq Arenas

ConnRecords ==
  [fd : {"none", "open", "closed"}, isClosed : BOOLEAN, rc : Int, immortal : BOOLEAN, shared : BOOLEAN,
   stage : Stages]
ConnTypeOK ==
  /\ conn \in [Conns -> ConnRecords] /\ closing \subseteq Threads \X Conns
  /\ reclosed \in BOOLEAN /\ raced \in BOOLEAN /\ crossed \in BOOLEAN

TypeOK == ArenaTypeOK /\ ConnTypeOK

Used(a) == arena[a].state # "new"
Live(a) == arena[a].state = "live"
Chained(a) == ToSet(arena[a].chain)

BuffersInv ==
  /\ \A a \in Arenas : Used(a) => arena[a].buffer \in DOMAIN blocks
  /\ \A a, b \in Arenas : Used(a) /\ Used(b) /\ arena[a].buffer = arena[b].buffer => a = b
  /\ \A a \in Arenas : Chained(a) \subseteq DOMAIN blocks
  /\ \A a, b \in Arenas : Used(b) => arena[b].buffer \notin Chained(a)
  /\ current # None => Used(current)
  /\ \A t \in Threads : saved[t] # None => Used(saved[t])

MemoryInv == stale = {} =>
  /\ \A a \in Arenas : Live(a) => blocks[arena[a].buffer]
  /\ current # None => Live(current)
  /\ \A t \in Threads : saved[t] # None => Live(saved[t])

(* Nothing was given out of a's buffer at or behind its offset, or just there
   by the thread that is about to move the offset.                           *)
InMove == \E t \in Threads : alloc[t].at = "move"
Behind(o, a) == o[1] = arena[a].buffer =>
  o[2] < arena[a].offset \/ (o[2] = arena[a].offset /\ a = current /\ InMove)
ObjectsInv == \A i \in DOMAIN objects : objects[i][1] \in DOMAIN blocks
ApartInv == ~rivals =>
  /\ \A t, u \in Threads : Busy(t) /\ Busy(u) => t = u
  /\ \A t \in Threads : Busy(t) => current # None /\ alloc[t].ptr = current
  /\ \A i \in DOMAIN objects, a \in Arenas : Used(a) => Behind(objects[i], a)
  /\ IsInjective(objects)

(* What an allocation has read is an arena; and the buffer it has swapped out
   is no arena's until it is chained.                                        *)
Points(r) == r.ptr # None => Used(r.ptr)
Swapped(r) == r.at = "chain" => r.old \in DOMAIN blocks /\ \A a \in Arenas : Used(a) => arena[a].buffer # r.old
PointersInv == \A t \in Threads : Points(alloc[t]) /\ Swapped(alloc[t])

(* The flag of the array says where its elements are, or where those it grows
   into will be, and a counted array has them on the heap.                   *)
HeapInv == array.made \in {"elements", "growing"} /\ ~array.inArena =>
  alloc[Main].at = "done" /\ alloc[Main].from = Heap
HeaderInv == array.made = "header" => ~array.inArena /\ (array.counted => current = None)
FlagInv == (~array.inArena /\ array.made # "growing" => array.elements = Heap) /\ (array.counted => ~array.inArena)
ArrayInv == ~mixed /\ ~torn => HeapInv /\ HeaderInv /\ FlagInv

FaultsInv == FreedArenasAreNotUsed /\ OnlyHeapMemoryIsFreed /\ ("null" \in faults => rivals)

BusyInv == \A c \in Conns : Busy(c) => conn[c].stage = "callback"

HandlersInv == ~crossed =>
  /\ \A c, d \in Conns : Inside(c) /\ Inside(d) => c = d
  /\ \A c \in Conns : Inside(c) => saved[c] = wanted
  /\ (\E c \in Conns : Inside(c)) \/ current = wanted

(* The record k of a connection: one reference for its object or its handler,
   one for the program.                                                      *)
Referring == {"made", "started", "lost", "entered", "callback", "releasing", "connected"}
References(k) == (IF k.stage \in Referring THEN 1 ELSE 0) + (IF k.shared THEN 1 ELSE 0)
Accounted(k) ==
  /\ k.rc = References(k) /\ (k.shared => k.stage \in {"callback", "releasing", "ended", "connected"})
  /\ (k.isClosed => k.fd = "closed") /\ (k.fd = "closed" => k.isClosed)
  /\ k.stage = "none" => ~k.isClosed
  /\ k.stage = "ended" /\ ~k.shared => k.fd = "closed" \/ k.immortal
CountsInv == \A c \in Conns : Accounted(conn[c])

ClosingInv ==
  /\ \A t \in Threads, c \in Conns : <<t, c>> \in closing => Holds(t, c)
  /\ ~raced => \A t \in Threads, c \in Conns : <<t, c>> \in closing =>
        conn[c].fd # "closed" /\ \A u \in Threads : <<u, c>> \in closing => u = t
  /\ reclosed => raced

ArenaInv == BuffersInv /\ MemoryInv /\ ObjectsInv /\ ApartInv /\ PointersInv /\ ArrayInv /\ FaultsInv
ConnInv == BusyInv /\ HandlersInv /\ CountsInv /\ ClosingInv
ServerInv == TypeOK /\ ArenaInv /\ ConnInv
USE ArenaAssumption, NetAssumption

-----------------------------------------------------------------------------
(* The current arena changes, or what is put aside does.                     *)
LEMMA CurrentMoves ==
  ASSUME ArenaTypeOK, ArenaInv, NEW t \in Threads, NEW a \in Arenas \cup {None},
         \/ Switch(t, a) /\ ~Busy(t)
         \/ a = current /\ UNCHANGED <<current, rivals, torn>>,
         UNCHANGED <<arena, blocks, alloc, array, objects, stale, mixed, faults>>,
         a # None => Used(a), stale = {} /\ a # None => Live(a),
         saved' \in [Threads -> Arenas \cup {None}],
         \A u \in Threads : saved'[u] \in {None, current, saved[u]}
  PROVE  ArenaTypeOK' /\ ArenaInv'
<1>1. current' = a
  BY DEF Switch
<1>2. ArenaTypeOK'
  BY <1>1 DEF ArenaTypeOK, Switch
<1>3. BuffersInv' /\ MemoryInv'
  BY <1>1 DEF ArenaInv, BuffersInv, MemoryInv, Used, Live, Chained
<1>4. ObjectsInv' /\ PointersInv'
  BY DEF ArenaInv, ObjectsInv, PointersInv, Points, Swapped, Used
<1>4a. ArrayInv'
  BY DEF ArenaInv, ArrayInv, HeapInv, HeaderInv, FlagInv, Switch
<1>5. ApartInv'
  <2>1. CASE UNCHANGED <<current, rivals>>
    BY <2>1 DEF ArenaInv, ApartInv, Busy, Behind, InMove, Used
  <2>2. CASE Switch(t, a) /\ ~Busy(t)
    <3> SUFFICES ASSUME ~rivals' PROVE ApartInv'
      BY DEF ApartInv
    <3>1. ~rivals /\ \A u \in Threads : ~Busy(u)
      BY <2>2 DEF Switch, Meets
    <3>2. ~InMove /\ ~InMove' /\ \A u \in Threads : ~Busy(u)'
      BY <3>1 DEF InMove, Busy
    <3>3. \A i \in DOMAIN objects, x \in Arenas : Used(x) => Behind(objects[i], x)
      BY <3>1 DEF ArenaInv, ApartInv
    <3>4. \A i \in DOMAIN objects, x \in Arenas : Used(x)' => Behind(objects[i], x)'
      BY <3>2, <3>3 DEF Behind, Used
    <3> QED  BY <3>1, <3>2, <3>4 DEF ArenaInv, ApartInv
  <2> QED  BY <2>1, <2>2
<1>6. FaultsInv'
  BY DEF ArenaInv, FaultsInv, FreedArenasAreNotUsed, OnlyHeapMemoryIsFreed, Switch
<1> QED  BY <1>2, <1>3, <1>4, <1>4a, <1>5, <1>6 DEF ArenaInv

(* One thread's allocation goes on, in steps that change no arena.           *)
LEMMA OneAllocation ==
  ASSUME ArenaTypeOK, NEW t \in Threads, NEW r \in Allocations, alloc' = [alloc EXCEPT ![t] = r]
  PROVE  /\ alloc' \in [Threads -> Allocations] /\ alloc'[t] = r
         /\ \A u \in Threads \ {t} : alloc'[u] = alloc[u]
<1>1. alloc \in [Threads -> Allocations]
  BY DEF ArenaTypeOK
<1> QED  BY <1>1

Entered(r) == r.at \notin {"idle", "done"}
LEMMA AllocationMoves ==
  ASSUME ArenaTypeOK, ArenaInv, NEW t \in Threads, NEW r \in Allocations, alloc' = [alloc EXCEPT ![t] = r],
         UNCHANGED <<current, arena, blocks, saved, objects, stale>>,
         Points(r), r.at = "chain" => alloc[t].at = "chain" /\ r.old = alloc[t].old,
         r.at = "move" <=> alloc[t].at = "move",
         rivals' \in {rivals, TRUE},
         ~rivals' /\ Entered(r) => current # None /\ r.ptr = current /\ (Busy(t) \/ ~Meets(t))
  PROVE  BuffersInv' /\ MemoryInv' /\ ObjectsInv' /\ ApartInv' /\ PointersInv'
         /\ alloc' \in [Threads -> Allocations]
<1>1. /\ alloc' \in [Threads -> Allocations] /\ alloc'[t] = r
      /\ \A u \in Threads \ {t} : alloc'[u] = alloc[u]
  BY OneAllocation
<1>2. BuffersInv' /\ MemoryInv' /\ ObjectsInv'
  BY DEF ArenaInv, BuffersInv, MemoryInv, ObjectsInv, Used, Live, Chained
<1>3. PointersInv'
  <2>1. ASSUME NEW u \in Threads PROVE alloc'[u] = r \/ alloc'[u] = alloc[u]
    BY <1>1
  <2>2. Swapped(r) /\ \A u \in Threads : Points(alloc[u]) /\ Swapped(alloc[u])
    BY DEF ArenaInv, PointersInv, Swapped
  <2> QED  BY <2>1, <2>2 DEF PointersInv, Points, Swapped, Used
<1>4. ApartInv'
  <2> SUFFICES ASSUME ~rivals' PROVE ApartInv'
    BY DEF ApartInv
  <2>1. ~rivals
    OBVIOUS
  <2>2. InMove' <=> InMove
    BY <1>1 DEF InMove
  <2>3. (\A u \in Threads \ {t} : Busy(u)' <=> Busy(u)) /\ (Busy(t)' <=> Entered(r))
    BY <1>1 DEF Busy, Entered
  <2>4. ASSUME NEW u \in Threads, NEW v \in Threads, Busy(u)', Busy(v)' PROVE u = v
    BY <2>1, <2>3, <2>4 DEF ArenaInv, ApartInv, Meets
  <2>5. ASSUME NEW u \in Threads, Busy(u)' PROVE current # None /\ alloc'[u].ptr = current
    BY <1>1, <2>1, <2>3, <2>5 DEF ArenaInv, ApartInv
  <2> QED  BY <2>1, <2>2, <2>4, <2>5 DEF ArenaInv, ApartInv, Behind, Used
<1> QED  BY <1>1, <1>2, <1>3, <1>4

LEMMA IdleIs ==
  /\ Idle \in Allocations /\ Idle.at = "idle" /\ Idle.ptr = None
  /\ [Idle EXCEPT !.at = "done"] \in Allocations /\ [Idle EXCEPT !.at = "done"].at = "done"
  /\ [Idle EXCEPT !.at = "done"].ptr = None /\ [Idle EXCEPT !.at = "done"].from = Heap
BY DEF Idle, Allocations

(* A step that has nothing to do with the arenas.                            *)
LEMMA ArenaUntouched ==
  ASSUME ArenaTypeOK, ArenaInv, UNCHANGED memory,
         \/ UNCHANGED alloc
         \/ \E t \in Threads : /\ alloc[t].at = "done" /\ alloc' = [alloc EXCEPT ![t] = Idle]
                               /\ t = Main => ~InArray
  PROVE  ArenaTypeOK' /\ ArenaInv'
<1>1. CASE UNCHANGED alloc
  BY <1>1 DEF ArenaTypeOK, ArenaInv, BuffersInv, MemoryInv, ObjectsInv, ApartInv, PointersInv, ArrayInv, FaultsInv,
     HeapInv, HeaderInv, FlagInv, Points, Swapped, Busy, Behind, InMove, Used, Live, Chained,
     memory, history, FreedArenasAreNotUsed, OnlyHeapMemoryIsFreed
<1>2. ASSUME NEW t \in Threads, alloc[t].at = "done", alloc' = [alloc EXCEPT ![t] = Idle], t = Main => ~InArray
      PROVE  ArenaTypeOK' /\ ArenaInv'
  <2>1. Points(Idle) /\ Idle.at \notin {"chain", "move"} /\ ~Entered(Idle)
    BY IdleIs DEF Points, Entered
  <2>2. BuffersInv' /\ MemoryInv' /\ ObjectsInv' /\ ApartInv' /\ PointersInv' /\ alloc' \in [Threads -> Allocations]
    BY <1>2, <2>1, IdleIs, AllocationMoves DEF memory, history
  <2>3. t # Main => alloc'[Main] = alloc[Main]
    BY <1>2 DEF ArenaTypeOK
  <2>4. ArrayInv' /\ FaultsInv'
    BY <1>2, <2>3 DEF ArenaInv, ArrayInv, HeapInv, HeaderInv, FlagInv, InArray, FaultsInv, memory, history,
       FreedArenasAreNotUsed, OnlyHeapMemoryIsFreed
  <2> QED  BY <2>2, <2>4 DEF ArenaTypeOK, ArenaInv, memory, history
<1> QED  BY <1>1, <1>2

-----------------------------------------------------------------------------
(* The fields of an arena that change, one or two at a time.                 *)
LEMMA OneArena ==
  ASSUME ArenaTypeOK, NEW a \in Arenas, NEW r \in ArenaRecords, arena' = [arena EXCEPT ![a] = r]
  PROVE  /\ arena' \in [Arenas -> ArenaRecords] /\ arena'[a] = r
         /\ \A x \in Arenas \ {a} : arena'[x] = arena[x]
<1>1. arena \in [Arenas -> ArenaRecords]
  BY DEF ArenaTypeOK
<1> QED  BY <1>1

LEMMA ArenaFields ==
  ASSUME NEW r \in ArenaRecords
  PROVE  /\ r.buffer \in Nat /\ r.offset \in Nat /\ r.chain \in Seq(Nat)
         /\ [r EXCEPT !.offset = @ + 1] \in ArenaRecords
         /\ [r EXCEPT !.offset = @ + 1].state = r.state
         /\ [r EXCEPT !.offset = @ + 1].buffer = r.buffer
         /\ [r EXCEPT !.offset = @ + 1].chain = r.chain
         /\ [r EXCEPT !.offset = @ + 1].offset = r.offset + 1
BY DEF ArenaRecords

(* A new block is nobody's yet.                                              *)
LEMMA FreshBlock ==
  ASSUME ArenaTypeOK
  PROVE  /\ NewBlock \in Nat /\ NewBlock \notin DOMAIN blocks
         /\ DOMAIN Append(blocks, TRUE) = DOMAIN blocks \cup {NewBlock}
         /\ Append(blocks, TRUE)[NewBlock] = TRUE
         /\ \A b \in DOMAIN blocks : Append(blocks, TRUE)[b] = blocks[b]
         /\ Append(blocks, TRUE) \in Seq(BOOLEAN)
<1>1. blocks \in Seq(BOOLEAN) /\ Len(blocks) \in Nat /\ DOMAIN blocks = 1 .. Len(blocks)
  BY DEF ArenaTypeOK
<1>2. /\ Append(blocks, TRUE) \in Seq(BOOLEAN) /\ Len(Append(blocks, TRUE)) = Len(blocks) + 1
      /\ \A b \in 1 .. Len(blocks) : Append(blocks, TRUE)[b] = blocks[b]
      /\ Append(blocks, TRUE)[Len(blocks) + 1] = TRUE
  BY <1>1, AppendProperties
<1>3. DOMAIN Append(blocks, TRUE) = 1 .. Len(blocks) + 1
  BY <1>2, LenProperties
<1> QED  BY <1>1, <1>2, <1>3 DEF NewBlock

(* Blocks that are freed keep their numbers.                                 *)
LEMMA FreedBlocks ==
  ASSUME ArenaTypeOK, NEW bs
  PROVE  /\ Freed(bs) \in Seq(BOOLEAN) /\ DOMAIN Freed(bs) = DOMAIN blocks
         /\ \A b \in DOMAIN blocks \ bs : Freed(bs)[b] = blocks[b]
<1>1. blocks \in [1 .. Len(blocks) -> BOOLEAN] /\ Len(blocks) \in Nat
  BY DEF ArenaTypeOK
<1>2. Freed(bs) \in [1 .. Len(blocks) -> BOOLEAN]
  BY <1>1 DEF Freed
<1>3. Freed(bs) \in Seq(BOOLEAN)
  BY <1>1, <1>2
<1> QED  BY <1>1, <1>2, <1>3 DEF Freed

(* The first test, by xt_malloc or for the elements of an array.             *)
Chosen == IF current = None THEN [Idle EXCEPT !.at = "done"]
          ELSE [Idle EXCEPT !.at = "raw", !.immortal = TRUE, !.ptr = current]

LEMMA ChosenIs ==
  ASSUME ArenaTypeOK
  PROVE  /\ Chosen \in Allocations /\ Chosen.ptr = current
         /\ Chosen.at = (IF current = None THEN "done" ELSE "raw")
         /\ current = None => Chosen.from = Heap
BY DEF Chosen, Idle, Allocations, ArenaTypeOK

LEMMA RawInv ==
  ASSUME ArenaTypeOK, ArenaInv, NEW t \in Threads, ~Busy(t), Raw(t),
         UNCHANGED <<current, arena, blocks, saved, objects, stale>>
  PROVE  /\ BuffersInv' /\ MemoryInv' /\ ObjectsInv' /\ ApartInv' /\ PointersInv' /\ rivals' \in BOOLEAN
         /\ alloc' \in [Threads -> Allocations] /\ alloc'[t] = Chosen
         /\ \A u \in Threads \ {t} : alloc'[u] = alloc[u]
<1>1. alloc' = [alloc EXCEPT ![t] = Chosen] /\ rivals' = (rivals \/ (current # None /\ Meets(t)))
  BY DEF Raw, Chosen
<1>2. Points(Chosen) /\ Chosen.at \notin {"chain", "move"} /\ alloc[t].at # "move"
  BY ChosenIs DEF Points, ArenaInv, BuffersInv, Busy
<1>3. ~rivals' /\ Entered(Chosen) => current # None /\ Chosen.ptr = current /\ ~Meets(t)
  BY <1>1, ChosenIs DEF Entered
<1>4. rivals' \in {rivals, TRUE} /\ rivals' \in BOOLEAN
  BY <1>1 DEF ArenaTypeOK
<1>5. Chosen \in Allocations
  BY ChosenIs
<1> QED  BY <1>1, <1>2, <1>3, <1>4, <1>5, AllocationMoves, OneAllocation

(* The array, the flags and the faults stay; Main, if it allocates, has not
   finished.                                                                 *)
LEMMA ArrayStays ==
  ASSUME ArenaTypeOK, ArenaInv, UNCHANGED <<current, array, stale, mixed, torn>>,
         alloc'[Main] = alloc[Main] \/ alloc[Main].at # "done",
         rivals => rivals', "free" \in faults' => "free" \in faults,
         "dead" \in faults' => "dead" \in faults \/ stale # {} \/ rivals,
         "null" \in faults' => "null" \in faults \/ rivals
  PROVE  ArrayInv' /\ FaultsInv'
<1>1. ArrayInv'
  BY DEF ArenaInv, ArrayInv, HeapInv, HeaderInv, FlagInv
<1>2. FaultsInv'
  BY DEF ArenaInv, FaultsInv, FreedArenasAreNotUsed, OnlyHeapMemoryIsFreed
<1> QED  BY <1>1, <1>2

(* An allocation begins, reads the pointer, and tests.                       *)
LEMMA BeginInv ==
  ASSUME ArenaTypeOK, ArenaInv, NEW t \in Threads, Begin(t)
  PROVE  ArenaTypeOK' /\ ArenaInv'
<1>1. /\ ~Busy(t) /\ alloc[t].at = "idle" /\ Raw(t)
      /\ UNCHANGED <<current, arena, blocks, saved, array, objects, stale, mixed, torn, faults>>
  BY DEF Begin, Busy
<1>2. /\ BuffersInv' /\ MemoryInv' /\ ObjectsInv' /\ ApartInv' /\ PointersInv' /\ rivals' \in BOOLEAN
      /\ alloc' \in [Threads -> Allocations] /\ \A u \in Threads \ {t} : alloc'[u] = alloc[u]
  BY <1>1, RawInv
<1>3. rivals => rivals'
  BY <1>1 DEF Raw
<1>4. alloc'[Main] = alloc[Main] \/ alloc[Main].at # "done"
  BY <1>1, <1>2
<1>5. ArrayInv' /\ FaultsInv'
  BY <1>1, <1>3, <1>4, ArrayStays
<1> QED  BY <1>1, <1>2, <1>5 DEF ArenaTypeOK, ArenaInv

LEMMA TestsInv ==
  ASSUME ArenaTypeOK, ArenaInv, NEW t \in Threads, Load(t) \/ TestArena(t) \/ TestRoom(t)
  PROVE  ArenaTypeOK' /\ ArenaInv'
<1>1. /\ Busy(t) /\ UNCHANGED memory /\ alloc[t] \in Allocations /\ alloc \in [Threads -> Allocations]
      /\ current \in Arenas \cup {None} /\ alloc[t].ptr \in Arenas \cup {None}
  BY DEF Load, TestArena, TestRoom, At, Busy, ArenaTypeOK, Allocations
<1>2. PICK r \in Allocations :
        /\ alloc' = [alloc EXCEPT ![t] = r] /\ r.ptr \in {current, alloc[t].ptr}
        /\ r.old = alloc[t].old /\ (r.at = "chain" <=> alloc[t].at = "chain")
        /\ (r.at = "move" <=> alloc[t].at = "move")
  <2>1. CASE Load(t)
    <3>0. PICK q \in Allocations : q = alloc[t]
      BY <1>1
    <3> DEFINE r == [q EXCEPT !.ptr = current]
    <3>1. alloc' = [alloc EXCEPT ![t] = r]
      BY <1>1, <2>1, <3>0 DEF Load
    <3>2. r \in Allocations /\ r.ptr = current /\ r.at = q.at /\ r.old = q.old
      <4>1. current \in Arenas \cup {None}
        BY <1>1
      <4> QED  BY ONLY q \in Allocations, <4>1 DEF Allocations
    <3> HIDE DEF r
    <3> QED  BY <3>0, <3>1, <3>2
  <2>2. CASE TestArena(t) \/ TestRoom(t)
    <3>1. PICK s \in {"room", "done", "grow", "place"} : alloc' = [alloc EXCEPT ![t].at = s]
      BY <2>2 DEF TestArena, TestRoom
    <3>0. PICK q \in Allocations : q = alloc[t]
      BY <1>1
    <3> DEFINE r == [q EXCEPT !.at = s]
    <3>2. alloc' = [alloc EXCEPT ![t] = r]
      BY <1>1, <3>0, <3>1
    <3>3. r \in Allocations /\ r.ptr = q.ptr /\ r.at = s /\ r.old = q.old
      <4>1. s \in {"idle", "raw", "room", "grow", "chain", "place", "move", "done"}
        BY <3>1
      <4> QED  BY ONLY q \in Allocations, <4>1 DEF Allocations
    <3>4. alloc[t].at \in {"raw", "room"}
      BY <2>2 DEF TestArena, TestRoom, At
    <3> HIDE DEF r
    <3> QED  BY <3>0, <3>1, <3>2, <3>3, <3>4
  <2> QED  BY <2>1, <2>2
<1>3. Points(r)
  BY <1>2 DEF Points, ArenaInv, PointersInv, BuffersInv
<1>4. ~rivals => current # None /\ r.ptr = current
  BY <1>1, <1>2 DEF ArenaInv, ApartInv
<1>5. BuffersInv' /\ MemoryInv' /\ ObjectsInv' /\ ApartInv' /\ PointersInv' /\ alloc' \in [Threads -> Allocations]
  BY <1>1, <1>2, <1>3, <1>4, AllocationMoves DEF memory, history
<1>6. alloc'[Main] = alloc[Main] \/ alloc[Main].at # "done"
  BY <1>1, <1>2 DEF Busy
<1>7. ArrayInv' /\ FaultsInv'
  BY <1>1, <1>6, ArrayStays DEF memory, history
<1> QED  BY <1>1, <1>5, <1>7 DEF ArenaTypeOK, ArenaInv, memory, history

(* What is lost without rivals is lost to an arena that was put aside.       *)
LEMMA LostInv ==
  ASSUME ArenaTypeOK, ArenaInv, NEW t \in Threads, Busy(t)
  PROVE  /\ "null" \in Lost(t) => rivals
         /\ "dead" \in Lost(t) => stale # {} \/ rivals
         /\ "free" \notin Lost(t)
<1>1. ~rivals => current # None /\ alloc[t].ptr = current
  BY DEF ArenaInv, ApartInv
<1>2. stale = {} /\ current # None => current \in Arenas /\ blocks[arena[current].buffer]
  BY DEF ArenaInv, MemoryInv, ArenaTypeOK
<1> QED  BY <1>1, <1>2 DEF Lost, Dead

LEMMA CrashInv ==
  ASSUME ArenaTypeOK, ArenaInv, Sound, NEW t \in Threads, Crash(t)
  PROVE  ArenaTypeOK' /\ ArenaInv'
<1>1. /\ Busy(t) /\ faults' = Lost(t) /\ faults = {}
      /\ UNCHANGED <<current, arena, blocks, alloc, saved, array, objects, rivals, stale, mixed, torn>>
  BY DEF Crash, Sound, history
<1>2. ArrayInv' /\ FaultsInv'
  BY <1>1, LostInv, ArrayStays
<1>3. BuffersInv' /\ MemoryInv' /\ ObjectsInv'
  BY <1>1 DEF ArenaInv, BuffersInv, MemoryInv, ObjectsInv, Used, Live, Chained
<1>4. ApartInv'
  BY <1>1 DEF ArenaInv, ApartInv, Busy, Behind, InMove, Used
<1>5. PointersInv'
  BY <1>1 DEF ArenaInv, PointersInv, Points, Swapped, Used
<1> QED  BY <1>1, <1>2, <1>3, <1>4, <1>5 DEF ArenaTypeOK, ArenaInv

(* The steps that find their arena.                                          *)
LEMMA Found ==
  ASSUME ArenaTypeOK, ArenaInv, NEW t \in Threads, NEW s \in {"grow", "chain", "place", "move"}, At(t, s)
  PROVE  /\ Busy(t) /\ alloc[t].at = s /\ alloc[t] \in Allocations
         /\ alloc[t].ptr \in Arenas /\ Used(alloc[t].ptr) /\ blocks[arena[alloc[t].ptr].buffer]
         /\ ~rivals => alloc[t].ptr = current /\ \A u \in Threads \ {t} : ~Busy(u)
<1>1. alloc[t].at = s /\ Lost(t) = {} /\ alloc[t] \in Allocations
  BY DEF At, ArenaTypeOK
<1>2. alloc[t].ptr # None /\ ~Dead(alloc[t].ptr) /\ alloc[t].ptr \in Arenas
  BY <1>1 DEF Lost, Allocations
<1>3. Busy(t)
  BY <1>1 DEF Busy
<1> QED  BY <1>1, <1>2, <1>3 DEF Dead, ArenaInv, PointersInv, Points, ApartInv

(* The last step of one: the offset moves behind the object.                 *)
LEMMA MoveInv ==
  ASSUME ArenaTypeOK, ArenaInv, NEW t \in Threads, Move(t)
  PROVE  ArenaTypeOK' /\ ArenaInv'
<1>a. PICK q \in Allocations : q = alloc[t]
  BY DEF ArenaTypeOK
<1>b. PICK a \in Arenas : a = alloc[t].ptr
  BY Found DEF Move
<1>c. PICK none \in Arenas \cup {None} : none = None
  OBVIOUS
<1>d. PICK done \in {"done"} : TRUE
  OBVIOUS
<1>1. /\ Busy(t) /\ alloc[t].at = "move" /\ Used(a)
      /\ ~rivals => a = current /\ \A u \in Threads \ {t} : ~Busy(u)
  BY <1>b, Found DEF Move
<1>2. UNCHANGED <<current, blocks, saved, array, objects, rivals, stale, mixed, torn, faults>>
  BY DEF Move, history
<1> DEFINE moved == [arena[a] EXCEPT !.offset = @ + 1]
           r == [q EXCEPT !.at = done, !.ptr = none]
<1>3. /\ arena' = [arena EXCEPT ![a] = moved] /\ arena[a] \in ArenaRecords
      /\ alloc' = [alloc EXCEPT ![t] = r]
  BY <1>a, <1>b, <1>c, <1>d DEF Move, ArenaTypeOK
<1>4. /\ moved \in ArenaRecords /\ moved.state = arena[a].state
      /\ moved.buffer = arena[a].buffer /\ moved.chain = arena[a].chain
      /\ moved.offset = arena[a].offset + 1
  BY <1>3, ArenaFields
<1>5. r \in Allocations /\ r.at = done /\ r.ptr = none
  BY ONLY q \in Allocations, none \in Arenas \cup {None}, done \in {"done"} DEF Allocations
<1> HIDE DEF moved, r
<1>6. /\ arena' \in [Arenas -> ArenaRecords] /\ alloc' \in [Threads -> Allocations]
      /\ arena'[a] = moved /\ \A x \in Arenas \ {a} : arena'[x] = arena[x]
      /\ alloc'[t] = r /\ \A u \in Threads \ {t} : alloc'[u] = alloc[u]
  BY <1>3, <1>4, <1>5, OneArena, OneAllocation
<1>7. /\ \A x \in Arenas :
           /\ arena'[x].state = arena[x].state /\ arena'[x].buffer = arena[x].buffer
           /\ arena'[x].chain = arena[x].chain
           /\ arena'[x].offset = IF x = a THEN arena[x].offset + 1 ELSE arena[x].offset
      /\ alloc'[t].at = "done" /\ alloc'[t].ptr = None
  BY <1>c, <1>4, <1>5, <1>6
<1>8. ArenaTypeOK'
  BY <1>2, <1>6 DEF ArenaTypeOK
<1>8a. \A x \in Arenas : (Used(x)' <=> Used(x)) /\ (Live(x)' <=> Live(x)) /\ Chained(x)' = Chained(x)
  BY <1>7 DEF Used, Live, Chained
<1>9. BuffersInv' /\ MemoryInv' /\ ObjectsInv'
  <2>1. /\ (current # None => Used(current))' /\ (\A u \in Threads : saved[u] # None => Used(saved[u]))'
        /\ stale = {} => (current # None => Live(current))' /\ (\A u \in Threads : saved[u] # None => Live(saved[u]))'
    BY <1>2, <1>8, <1>8a DEF ArenaInv, BuffersInv, MemoryInv, ArenaTypeOK, Used, Live
  <2>2. BuffersInv'
    BY <1>2, <1>7, <1>8a, <2>1 DEF ArenaInv, BuffersInv
  <2>3. MemoryInv'
    BY <1>2, <1>7, <1>8a, <2>1 DEF ArenaInv, MemoryInv
  <2> QED  BY <1>2, <2>2, <2>3 DEF ArenaInv, ObjectsInv
<1>10. PointersInv'
  <2>1. ASSUME NEW u \in Threads PROVE Points(alloc[u])'
    <3>1. alloc'[u].ptr # None => Used(alloc'[u].ptr)
      BY <1>6, <1>7 DEF ArenaInv, PointersInv, Points
    <3> QED  BY <1>6, <1>8a, <3>1 DEF Allocations, Points
  <2>2. ASSUME NEW u \in Threads PROVE Swapped(alloc[u])'
    <3>1. alloc'[u].at = "chain" => alloc'[u] = alloc[u]
      BY <1>6, <1>7
    <3> QED  BY <1>2, <1>7, <1>8a, <3>1 DEF ArenaInv, PointersInv, Swapped
  <2> QED  BY <2>1, <2>2 DEF PointersInv
<1>11. ArrayInv' /\ FaultsInv'
  <2>1. alloc'[Main] = alloc[Main] \/ alloc[Main].at # "done"
    BY <1>1, <1>6
  <2> QED  BY <1>2, <2>1, ArrayStays
<1>12. ApartInv'
  <2> SUFFICES ASSUME ~rivals PROVE ApartInv'
    BY <1>2 DEF ApartInv
  <2>1. \A u \in Threads : ~Busy(u)'
    BY <1>1, <1>6, <1>7 DEF Busy
  <2>2. ASSUME NEW i \in DOMAIN objects, NEW x \in Arenas, Used(x), objects[i][1] = arena[x].buffer
        PROVE  objects[i][2] < arena'[x].offset
    <3>1. \/ objects[i][2] < arena[x].offset
          \/ objects[i][2] = arena[x].offset /\ x = current
      BY <2>2 DEF ArenaInv, ApartInv, Behind
    <3>2. objects[i] \in Nat \X Nat /\ arena[x].offset \in Nat
      BY ElementOfSeq DEF ArenaTypeOK, ArenaRecords
    <3> QED  BY <1>1, <1>7, <3>1, <3>2
  <2> QED  BY <1>2, <1>7, <2>1, <2>2 DEF ArenaInv, ApartInv, Behind, Used
<1> QED  BY <1>8, <1>9, <1>10, <1>11, <1>12 DEF ArenaInv

(* A full arena goes on in a new block.                                      *)
LEMMA ExpandedFields ==
  ASSUME ArenaTypeOK, NEW a \in Arenas, arena' = Expanded(a)
  PROVE  /\ arena' \in [Arenas -> ArenaRecords]
         /\ arena'[a].state = arena[a].state /\ arena'[a].buffer = NewBlock
         /\ arena'[a].offset = 0 /\ arena'[a].chain = arena[a].chain
         /\ \A x \in Arenas \ {a} : arena'[x] = arena[x]
<1> DEFINE r == [arena[a] EXCEPT !.offset = 0, !.buffer = NewBlock]
<1>1. arena \in [Arenas -> ArenaRecords] /\ arena[a] \in ArenaRecords
  BY DEF ArenaTypeOK
<1>2. NewBlock \in Nat
  BY FreshBlock
<1>3. arena' = [arena EXCEPT ![a] = r]
  BY <1>1 DEF Expanded
<1>4. r \in ArenaRecords /\ r.state = arena[a].state /\ r.buffer = NewBlock /\ r.offset = 0 /\ r.chain = arena[a].chain
  BY <1>1, <1>2 DEF ArenaRecords
<1> HIDE DEF r
<1> QED  BY <1>3, <1>4, OneArena

LEMMA GrowInv ==
  ASSUME ArenaTypeOK, ArenaInv, NEW t \in Threads, Grow(t)
  PROVE  ArenaTypeOK' /\ ArenaInv'
<1>a. PICK q \in Allocations : q = alloc[t]
  BY DEF ArenaTypeOK
<1>b. PICK a \in Arenas : a = alloc[t].ptr
  BY Found DEF Grow
<1>d. PICK next \in {"chain", "place", "move", "done"} : next = "chain"
  OBVIOUS
<1>1. /\ Busy(t) /\ alloc[t].at = "grow" /\ Used(a)
      /\ ~rivals => a = current /\ \A u \in Threads \ {t} : ~Busy(u)
  BY <1>b, Found DEF Grow
<1>2. UNCHANGED <<current, saved, array, objects, rivals, stale, mixed, torn, faults>>
  BY DEF Grow, history
<1>3. arena' = Expanded(a) /\ blocks' = Append(blocks, TRUE)
  BY <1>b DEF Grow
<1>e. PICK b \in Nat : b = arena[a].buffer
  BY DEF ArenaTypeOK, ArenaRecords
<1> DEFINE r == [q EXCEPT !.at = next, !.old = b]
<1>4. alloc' = [alloc EXCEPT ![t] = r]
  BY <1>a, <1>b, <1>d, <1>e DEF Grow, ArenaTypeOK
<1>5. r \in Allocations /\ r.at = next /\ r.ptr = q.ptr /\ r.old = b
  BY ONLY q \in Allocations, next \in {"chain", "place", "move", "done"}, b \in Nat DEF Allocations
<1> HIDE DEF r
<1>6. /\ alloc' \in [Threads -> Allocations] /\ alloc'[t].at = "chain" /\ alloc'[t].ptr = a /\ alloc'[t].old = arena[a].buffer
      /\ \A u \in Threads \ {t} : alloc'[u] = alloc[u]
  BY <1>a, <1>b, <1>d, <1>e, <1>4, <1>5, OneAllocation
<1>7. /\ blocks' \in Seq(BOOLEAN) /\ NewBlock \notin DOMAIN blocks
      /\ DOMAIN blocks' = DOMAIN blocks \cup {NewBlock}
      /\ blocks'[NewBlock] = TRUE /\ \A x \in DOMAIN blocks : blocks'[x] = blocks[x]
  BY <1>3, FreshBlock
<1>8. /\ arena' \in [Arenas -> ArenaRecords]
      /\ arena'[a].buffer = NewBlock
      /\ \A x \in Arenas : arena'[x].state = arena[x].state /\ arena'[x].chain = arena[x].chain
      /\ \A x \in Arenas \ {a} : arena'[x].buffer = arena[x].buffer /\ arena'[x].offset = arena[x].offset
  BY <1>3, ExpandedFields
<1>9. ArenaTypeOK'
  BY <1>2, <1>6, <1>7, <1>8 DEF ArenaTypeOK
<1>10. /\ \A x \in Arenas : (Used(x)' <=> Used(x)) /\ (Live(x)' <=> Live(x)) /\ Chained(x)' = Chained(x)
       /\ BuffersInv /\ MemoryInv
  BY <1>8 DEF Used, Live, Chained, ArenaInv
<1>11. BuffersInv'
  <2>1. \A x \in Arenas : Used(x) => arena'[x].buffer \in DOMAIN blocks'
    BY <1>7, <1>8, <1>10 DEF BuffersInv
  <2>2. \A x, y \in Arenas : Used(x) /\ Used(y) /\ arena'[x].buffer = arena'[y].buffer => x = y
    BY <1>7, <1>8, <1>10 DEF BuffersInv
  <2>3. \A x, y \in Arenas : Used(y) => arena'[y].buffer \notin Chained(x)
    BY <1>7, <1>8, <1>10 DEF BuffersInv
  <2>4. \A x \in Arenas : Chained(x) \subseteq DOMAIN blocks'
    BY <1>7, <1>10 DEF BuffersInv
  <2>5. (current # None => Used(current))' /\ (\A u \in Threads : saved[u] # None => Used(saved[u]))'
    BY <1>2, <1>9, <1>10 DEF BuffersInv, ArenaTypeOK, Used
  <2> QED  BY <1>10, <2>1, <2>2, <2>3, <2>4, <2>5 DEF BuffersInv
<1>12. MemoryInv'
  <2>1. \A x \in Arenas : stale = {} /\ Live(x) => blocks'[arena'[x].buffer]
    BY <1>7, <1>8, <1>10 DEF MemoryInv, BuffersInv, Live, Used
  <2>2. stale = {} => (current # None => Live(current))' /\ (\A u \in Threads : saved[u] # None => Live(saved[u]))'
    BY <1>2, <1>9, <1>10 DEF MemoryInv, ArenaTypeOK, Live
  <2> QED  BY <1>2, <1>10, <2>1, <2>2 DEF MemoryInv
<1>13. ObjectsInv'
  BY <1>2, <1>7 DEF ArenaInv, ObjectsInv
<1>14. PointersInv'
  <2>1. PointersInv
    BY DEF ArenaInv
  <2>4. ASSUME NEW u \in Threads PROVE Points(alloc[u])'
    <3>1. alloc'[u].ptr # None => Used(alloc'[u].ptr)
      BY <1>1, <1>6, <2>1 DEF PointersInv, Points
    <3> QED  BY <1>6, <1>10, <3>1 DEF Allocations, Points
  <2>3. ASSUME NEW u \in Threads, alloc'[u].at = "chain"
        PROVE  alloc'[u].old \in DOMAIN blocks /\ \A x \in Arenas : Used(x) => arena'[x].buffer # alloc'[u].old
    <3>1. CASE u = t
      BY <1>1, <1>6, <1>7, <1>8, <1>10, <3>1 DEF BuffersInv
    <3>2. CASE u # t
      BY <1>6, <1>7, <1>8, <2>1, <2>3, <3>2 DEF PointersInv, Swapped
    <3> QED  BY <3>1, <3>2
  <2>5. \A u \in Threads : Swapped(alloc[u])'
    BY <1>7, <1>10, <2>3 DEF Swapped
  <2> QED  BY <2>4, <2>5 DEF PointersInv
<1>15. ArrayInv' /\ FaultsInv'
  <2>1. alloc'[Main] = alloc[Main] \/ alloc[Main].at # "done"
    BY <1>1, <1>6
  <2> QED  BY <1>2, <2>1, ArrayStays
<1>16. ApartInv'
  <2> SUFFICES ASSUME ~rivals PROVE ApartInv'
    BY <1>2 DEF ApartInv
  <2>1. \A u \in Threads : Busy(u)' <=> u = t
    BY <1>1, <1>6 DEF Busy
  <2>2. InMove' <=> InMove
    BY <1>1, <1>6 DEF InMove
  <2>3. a = current /\ current # None
    BY <1>1
  <2>4. ASSUME NEW i \in DOMAIN objects, NEW x \in Arenas, Used(x)
        PROVE  Behind(objects[i], x)'
    <3>1. CASE x = a
      BY <1>2, <1>7, <1>8, <3>1 DEF ArenaInv, ObjectsInv, Behind
    <3>2. CASE x # a
      BY <1>2, <1>8, <2>2, <2>4, <3>2 DEF ArenaInv, ApartInv, Behind
    <3> QED  BY <3>1, <3>2
  <2> QED  BY <1>2, <1>6, <1>10, <2>1, <2>3, <2>4 DEF ArenaInv, ApartInv
<1> QED  BY <1>9, <1>11, <1>12, <1>13, <1>14, <1>15, <1>16 DEF ArenaInv

(* The old block is chained.                                                 *)
LEMMA ChainedFields ==
  ASSUME ArenaTypeOK, NEW a \in Arenas, NEW b \in Nat, arena' = [arena EXCEPT ![a].chain = <<b>> \o @]
  PROVE  /\ arena' \in [Arenas -> ArenaRecords] /\ Chained(a)' = {b} \cup Chained(a)
         /\ \A x \in Arenas : /\ arena'[x].state = arena[x].state /\ arena'[x].buffer = arena[x].buffer
                              /\ arena'[x].offset = arena[x].offset
         /\ \A x \in Arenas \ {a} : arena'[x].chain = arena[x].chain
<1> DEFINE chain == <<b>> \o arena[a].chain
           r == [arena[a] EXCEPT !.chain = chain]
<1>1. arena \in [Arenas -> ArenaRecords] /\ arena[a] \in ArenaRecords
  BY DEF ArenaTypeOK
<1>2. arena[a].chain \in Seq(Nat)
  BY <1>1, ArenaFields
<1>3. chain \in Seq(Nat) /\ ToSet(chain) = {b} \cup Chained(a)
  <2>1. <<b>> \in Seq(Nat)
    OBVIOUS
  <2>2. /\ chain \in Seq(Nat) /\ Len(chain) = 1 + Len(arena[a].chain)
        /\ \A i \in 1 .. Len(chain) :
              chain[i] = IF i <= 1 THEN <<b>>[i] ELSE arena[a].chain[i - 1]
    BY <1>2, <2>1, ConcatProperties
  <2>3. DOMAIN chain = 1 .. 1 + Len(arena[a].chain) /\ Len(arena[a].chain) \in Nat
        /\ DOMAIN arena[a].chain = 1 .. Len(arena[a].chain)
    BY <1>2, <2>2, LenProperties
  <2>3a. /\ chain[1] = <<b>>[1]
         /\ \A i \in 2 .. 1 + Len(arena[a].chain) : chain[i] = arena[a].chain[i - 1]
    BY <2>2, <2>3
  <2> HIDE DEF chain
  <2>3b. <<b>>[1] = b
    OBVIOUS
  <2>4. /\ 1 \in DOMAIN chain /\ chain[1] = b
        /\ \A i \in DOMAIN arena[a].chain : i + 1 \in DOMAIN chain /\ chain[i + 1] = arena[a].chain[i]
        /\ \A i \in DOMAIN chain : i = 1 \/ (i - 1 \in DOMAIN arena[a].chain /\ chain[i] = arena[a].chain[i - 1])
    BY ONLY <2>3, <2>3a, <2>3b
  <2>5. ASSUME NEW v PROVE v \in ToSet(chain) <=> v \in {b} \cup Chained(a)
    BY <2>4 DEF ToSet, Chained
  <2> QED  BY <2>2, <2>5
<1>4. arena' = [arena EXCEPT ![a] = r]
  BY <1>1
<1> HIDE DEF chain
<1>5. /\ r \in ArenaRecords /\ r.state = arena[a].state /\ r.buffer = arena[a].buffer /\ r.offset = arena[a].offset
      /\ r.chain = chain
  BY <1>1, <1>3 DEF ArenaRecords
<1> HIDE DEF r
<1> QED  BY <1>3, <1>4, <1>5, OneArena DEF Chained

LEMMA ChainInv ==
  ASSUME ArenaTypeOK, ArenaInv, NEW t \in Threads, Chain(t)
  PROVE  ArenaTypeOK' /\ ArenaInv'
<1>a. PICK q \in Allocations : q = alloc[t]
  BY DEF ArenaTypeOK
<1>b. PICK a \in Arenas : a = alloc[t].ptr
  BY Found DEF Chain
<1>d. PICK next \in {"chain", "place", "move", "done"} : next = "place"
  OBVIOUS
<1>e. PICK b \in Nat : b = alloc[t].old
  BY DEF ArenaTypeOK, Allocations
<1>f. PICK z \in Nat : z = 0
  OBVIOUS
<1>1. /\ Busy(t) /\ alloc[t].at = "chain" /\ Used(a)
      /\ ~rivals => a = current /\ \A u \in Threads \ {t} : ~Busy(u)
  BY <1>b, Found DEF Chain
<1>2. UNCHANGED <<current, blocks, saved, array, objects, rivals, stale, mixed, torn, faults>>
  BY DEF Chain, history
<1>3. arena' = [arena EXCEPT ![a].chain = <<b>> \o @]
  BY <1>b, <1>e DEF Chain
<1> DEFINE r == [q EXCEPT !.at = next, !.old = z]
<1>4. alloc' = [alloc EXCEPT ![t] = r]
  BY <1>a, <1>b, <1>d, <1>f DEF Chain, ArenaTypeOK
<1>5. r \in Allocations /\ r.at = next /\ r.ptr = q.ptr
  BY ONLY q \in Allocations, next \in {"chain", "place", "move", "done"}, z \in Nat DEF Allocations
<1> HIDE DEF r
<1>6. /\ alloc' \in [Threads -> Allocations] /\ alloc'[t].at = "place" /\ alloc'[t].ptr = a
      /\ \A u \in Threads \ {t} : alloc'[u] = alloc[u]
  BY <1>a, <1>b, <1>d, <1>4, <1>5, OneAllocation
<1>7. /\ arena' \in [Arenas -> ArenaRecords] /\ Chained(a)' = {b} \cup Chained(a)
      /\ \A x \in Arenas : /\ arena'[x].state = arena[x].state /\ arena'[x].buffer = arena[x].buffer
                           /\ arena'[x].offset = arena[x].offset
      /\ \A x \in Arenas \ {a} : arena'[x].chain = arena[x].chain
  BY <1>3, ChainedFields
<1>8. ArenaTypeOK'
  BY <1>2, <1>6, <1>7 DEF ArenaTypeOK
<1>9. /\ \A x \in Arenas : (Used(x)' <=> Used(x)) /\ (Live(x)' <=> Live(x))
      /\ \A x \in Arenas \ {a} : Chained(x)' = Chained(x)
      /\ BuffersInv /\ MemoryInv /\ PointersInv
  BY <1>7 DEF Used, Live, Chained, ArenaInv
<1>10. b \in DOMAIN blocks /\ \A x \in Arenas : Used(x) => arena[x].buffer # b
  BY <1>1, <1>e, <1>9 DEF PointersInv, Swapped
<1>11. BuffersInv'
  <2>1. \A x \in Arenas : Chained(x)' \subseteq DOMAIN blocks
    BY <1>7, <1>9, <1>10 DEF BuffersInv
  <2>2. \A x, y \in Arenas : Used(y) => arena'[y].buffer \notin Chained(x)'
    BY <1>7, <1>9, <1>10 DEF BuffersInv
  <2>3. (current # None => Used(current))' /\ (\A u \in Threads : saved[u] # None => Used(saved[u]))'
    BY <1>2, <1>8, <1>9 DEF BuffersInv, ArenaTypeOK, Used
  <2> QED  BY <1>2, <1>7, <1>9, <2>1, <2>2, <2>3 DEF BuffersInv
<1>12. MemoryInv'
  <2>1. stale = {} => (current # None => Live(current))' /\ (\A u \in Threads : saved[u] # None => Live(saved[u]))'
    BY <1>2, <1>8, <1>9 DEF MemoryInv, ArenaTypeOK, Live
  <2> QED  BY <1>2, <1>7, <1>9, <2>1 DEF MemoryInv
<1>13. ObjectsInv'
  BY <1>2 DEF ArenaInv, ObjectsInv
<1>14. PointersInv'
  <2>1. ASSUME NEW u \in Threads PROVE Points(alloc[u])'
    <3>1. alloc'[u].ptr # None => Used(alloc'[u].ptr)
      BY <1>1, <1>6, <1>9 DEF PointersInv, Points
    <3> QED  BY <1>6, <1>9, <3>1 DEF Allocations, Points
  <2>2. ASSUME NEW u \in Threads PROVE Swapped(alloc[u])'
    <3>1. alloc'[u].at = "chain" => alloc'[u] = alloc[u]
      BY <1>6
    <3> QED  BY <1>2, <1>7, <1>9, <3>1 DEF PointersInv, Swapped
  <2> QED  BY <2>1, <2>2 DEF PointersInv
<1>15. ArrayInv' /\ FaultsInv'
  <2>1. alloc'[Main] = alloc[Main] \/ alloc[Main].at # "done"
    BY <1>1, <1>6
  <2> QED  BY <1>2, <2>1, ArrayStays
<1>16. ApartInv'
  <2> SUFFICES ASSUME ~rivals PROVE ApartInv'
    BY <1>2 DEF ApartInv
  <2>1. \A u \in Threads : Busy(u)' <=> u = t
    BY <1>1, <1>6 DEF Busy
  <2>2. InMove' <=> InMove
    BY <1>1, <1>6 DEF InMove
  <2>3. a = current /\ current # None
    BY <1>1
  <2> QED  BY <1>2, <1>6, <1>7, <1>9, <2>1, <2>2, <2>3 DEF ArenaInv, ApartInv, Behind
<1> QED  BY <1>8, <1>11, <1>12, <1>13, <1>14, <1>15, <1>16 DEF ArenaInv

(* A place that was given to nobody.                                         *)
LEMMA NewObject ==
  ASSUME objects \in Seq(Nat \X Nat), NEW o \in Nat \X Nat, objects' = Append(objects, o)
  PROVE  /\ objects' \in Seq(Nat \X Nat)
         /\ \A i \in DOMAIN objects : i \in DOMAIN objects' /\ objects'[i] = objects[i]
         /\ \A i \in DOMAIN objects' : (i \in DOMAIN objects /\ objects'[i] = objects[i]) \/ objects'[i] = o
         /\ IsInjective(objects) /\ (\A i \in DOMAIN objects : objects[i] # o) => IsInjective(objects')
<1>1. /\ objects' \in Seq(Nat \X Nat) /\ Len(objects') = Len(objects) + 1 /\ Len(objects) \in Nat
      /\ \A i \in 1 .. Len(objects) : objects'[i] = objects[i]
      /\ objects'[Len(objects) + 1] = o
  BY AppendProperties, LenProperties
<1>2. DOMAIN objects = 1 .. Len(objects) /\ DOMAIN objects' = 1 .. Len(objects) + 1
  BY <1>1, LenProperties
<1> QED  BY <1>1, <1>2 DEF IsInjective

(* The object is placed, at the offset of the arena that was read.           *)
LEMMA PlaceInv ==
  ASSUME ArenaTypeOK, ArenaInv, NEW t \in Threads, Place(t)
  PROVE  ArenaTypeOK' /\ ArenaInv'
<1>a. PICK q \in Allocations : q = alloc[t]
  BY DEF ArenaTypeOK
<1>b. PICK a \in Arenas : a = alloc[t].ptr
  BY Found DEF Place
<1>d. PICK next \in {"chain", "place", "move", "done"} : next = "move"
  OBVIOUS
<1>1. /\ Busy(t) /\ alloc[t].at = "place" /\ Used(a)
      /\ ~rivals => a = current /\ \A u \in Threads \ {t} : ~Busy(u)
  BY <1>b, Found DEF Place
<1>2. UNCHANGED <<current, arena, blocks, saved, array, rivals, stale, mixed, torn, faults>>
  BY DEF Place, history
<1> DEFINE o == <<arena[a].buffer, arena[a].offset>>
           r == [q EXCEPT !.at = next, !.from = a]
<1>3. objects' = Append(objects, o) /\ alloc' = [alloc EXCEPT ![t] = r]
  BY <1>a, <1>b, <1>d DEF Place, ArenaTypeOK
<1>4. r \in Allocations /\ r.at = next /\ r.ptr = q.ptr
  BY ONLY q \in Allocations, a \in Arenas, next \in {"chain", "place", "move", "done"} DEF Allocations
<1> HIDE DEF r
<1>5. /\ alloc' \in [Threads -> Allocations] /\ alloc'[t].at = "move" /\ alloc'[t].ptr = a
      /\ \A u \in Threads \ {t} : alloc'[u] = alloc[u]
  BY <1>a, <1>b, <1>d, <1>3, <1>4, OneAllocation
<1>6. arena[a].buffer \in DOMAIN blocks /\ arena[a].buffer \in Nat /\ arena[a].offset \in Nat
  <2>1. arena[a] \in ArenaRecords
    BY DEF ArenaTypeOK
  <2> QED  BY <1>1, <2>1, ArenaFields DEF ArenaInv, BuffersInv
<1>7. /\ objects' \in Seq(Nat \X Nat)
      /\ \A i \in DOMAIN objects : i \in DOMAIN objects' /\ objects'[i] = objects[i]
      /\ \A i \in DOMAIN objects' : (i \in DOMAIN objects /\ objects'[i] = objects[i]) \/ objects'[i] = o
      /\ IsInjective(objects) /\ (\A i \in DOMAIN objects : objects[i] # o) => IsInjective(objects')
  <2>1. o \in Nat \X Nat
    BY <1>6
  <2> HIDE DEF o
  <2> QED  BY <1>3, <2>1, NewObject DEF ArenaTypeOK
<1>8. ArenaTypeOK'
  BY <1>2, <1>5, <1>7 DEF ArenaTypeOK
<1>9. BuffersInv' /\ MemoryInv'
  BY <1>2 DEF ArenaInv, BuffersInv, MemoryInv, Used, Live, Chained
<1>10. ObjectsInv'
  <2>1. o[1] \in DOMAIN blocks
    BY <1>6
  <2> HIDE DEF o
  <2> QED  BY <1>2, <1>7, <2>1 DEF ArenaInv, ObjectsInv
<1>11. PointersInv'
  <2>1. ASSUME NEW u \in Threads PROVE alloc'[u].ptr = alloc[u].ptr /\ (alloc'[u].at = "chain" => alloc'[u] = alloc[u])
    BY <1>b, <1>5
  <2> QED  BY <1>2, <2>1 DEF ArenaInv, PointersInv, Points, Swapped, Used
<1>12. ArrayInv' /\ FaultsInv'
  <2>1. alloc'[Main] = alloc[Main] \/ alloc[Main].at # "done"
    BY <1>1, <1>5
  <2> QED  BY <1>2, <2>1, ArrayStays
<1>13. ApartInv'
  <2> SUFFICES ASSUME ~rivals PROVE ApartInv'
    BY <1>2 DEF ApartInv
  <2>1. /\ \A u \in Threads : Busy(u)' <=> u = t
        /\ InMove' /\ ~InMove /\ a = current /\ current # None
    BY <1>1, <1>5 DEF Busy, InMove
  <2>2. ASSUME NEW i \in DOMAIN objects, NEW x \in Arenas, Used(x), objects[i][1] = arena[x].buffer
        PROVE  objects[i][2] < arena[x].offset /\ arena[x].offset \in Nat /\ objects[i][2] \in Nat
    <3>1. objects[i] \in Nat \X Nat
      BY ElementOfSeq DEF ArenaTypeOK
    <3>2. objects[i][2] < arena[x].offset
      BY <2>1, <2>2 DEF ArenaInv, ApartInv, Behind
    <3>3. arena[x] \in ArenaRecords
      BY DEF ArenaTypeOK
    <3> QED  BY <3>1, <3>2, <3>3, ArenaFields
  <2>3. \A i \in DOMAIN objects : objects[i] # o
    BY <1>1, <2>2
  <2>4. IsInjective(objects')
    BY <1>7, <2>3 DEF ArenaInv, ApartInv
  <2>5. ASSUME NEW i \in DOMAIN objects', NEW x \in Arenas, Used(x)
        PROVE  Behind(objects[i], x)'
    <3>1. CASE i \in DOMAIN objects /\ objects'[i] = objects[i]
      BY <1>2, <2>2, <2>5, <3>1 DEF Behind
    <3>2. CASE objects'[i] = o
      <4>1. arena[x].buffer = arena[a].buffer => x = a
        BY <1>1, <2>5 DEF ArenaInv, BuffersInv
      <4> QED  BY <1>2, <2>1, <3>2, <4>1 DEF Behind
    <3> QED  BY <1>7, <3>1, <3>2
  <2> QED  BY <1>2, <1>5, <2>1, <2>4, <2>5 DEF ApartInv, Used
<1> QED  BY <1>8, <1>9, <1>10, <1>11, <1>12, <1>13 DEF ArenaInv

-----------------------------------------------------------------------------
(* The program's calls.  xt_arena_new: nothing lies in the new block yet.    *)
LEMMA ArenaNewInv ==
  ASSUME ArenaTypeOK, ArenaInv, NEW a \in Arenas, ArenaNew(a)
  PROVE  ArenaTypeOK' /\ ArenaInv'
<1> DEFINE r == [arena[a] EXCEPT !.state = "live", !.buffer = NewBlock]
<1>1. /\ ~Used(a) /\ blocks' = Append(blocks, TRUE) /\ arena' = [arena EXCEPT ![a] = r]
      /\ UNCHANGED <<current, alloc, saved, array, objects, rivals, stale, mixed, torn, faults>>
  BY DEF ArenaNew, Used, ArenaTypeOK, history
<1>2. /\ NewBlock \in Nat /\ NewBlock \notin DOMAIN blocks /\ blocks' \in Seq(BOOLEAN)
      /\ DOMAIN blocks' = DOMAIN blocks \cup {NewBlock} /\ blocks'[NewBlock] = TRUE
      /\ \A b \in DOMAIN blocks : blocks'[b] = blocks[b]
  BY <1>1, FreshBlock
<1>3. /\ r \in ArenaRecords /\ r.state = "live" /\ r.buffer = NewBlock /\ r.chain = arena[a].chain
      /\ r.offset = arena[a].offset
  <2>1. arena[a] \in ArenaRecords
    BY DEF ArenaTypeOK
  <2> QED  BY <1>2, <2>1 DEF ArenaRecords
<1> HIDE DEF r
<1>4. /\ arena' \in [Arenas -> ArenaRecords] /\ arena'[a] = r
      /\ \A x \in Arenas \ {a} : arena'[x] = arena[x]
  BY <1>1, <1>3, OneArena
<1>5. ArenaTypeOK'
  BY <1>1, <1>2, <1>4 DEF ArenaTypeOK
<1>6. /\ \A x \in Arenas : Chained(x)' = Chained(x)
      /\ \A x \in Arenas : Used(x)' <=> Used(x) \/ x = a
      /\ \A x \in Arenas : Live(x)' <=> Live(x) \/ x = a
  BY <1>3, <1>4 DEF Chained, Used, Live
<1>7. BuffersInv /\ MemoryInv
  BY DEF ArenaInv
<1>8. BuffersInv'
  <2>1. \A x \in Arenas : Used(x)' => arena'[x].buffer = arena[x].buffer \/ (x = a /\ arena'[x].buffer = NewBlock)
    BY <1>3, <1>4
  <2>2. \A x \in Arenas : Used(x)' => arena'[x].buffer \in DOMAIN blocks'
    BY <1>2, <1>3, <1>4, <1>6, <1>7 DEF BuffersInv
  <2>3. \A x, y \in Arenas : Used(x)' /\ Used(y)' /\ arena'[x].buffer = arena'[y].buffer => x = y
    BY <1>2, <1>3, <1>4, <1>6, <1>7 DEF BuffersInv
  <2>4. \A x, y \in Arenas : Used(y)' => arena'[y].buffer \notin Chained(x)'
    BY <1>2, <1>3, <1>4, <1>6, <1>7 DEF BuffersInv
  <2>5. \A x \in Arenas : Chained(x)' \subseteq DOMAIN blocks'
    BY <1>2, <1>6, <1>7 DEF BuffersInv
  <2>6. (current # None => Used(current))' /\ (\A u \in Threads : saved[u] # None => Used(saved[u]))'
    BY <1>1, <1>5, <1>6, <1>7 DEF BuffersInv, ArenaTypeOK, Used
  <2> QED  BY <2>2, <2>3, <2>4, <2>5, <2>6 DEF BuffersInv
<1>9. MemoryInv'
  <2>1. \A x \in Arenas : stale = {} /\ Live(x)' => blocks'[arena'[x].buffer]
    BY <1>2, <1>3, <1>4, <1>6, <1>7 DEF MemoryInv, BuffersInv, Live, Used
  <2>2. stale = {} => (current # None => Live(current))' /\ (\A u \in Threads : saved[u] # None => Live(saved[u]))'
    BY <1>1, <1>5, <1>6, <1>7 DEF MemoryInv, ArenaTypeOK, Live
  <2> QED  BY <1>1, <2>1, <2>2 DEF MemoryInv
<1>10. ObjectsInv' /\ ArrayInv' /\ FaultsInv'
  BY <1>1, <1>2, ArrayStays DEF ArenaInv, ObjectsInv
<1>10a. PointersInv'
  <2>1. ASSUME NEW u \in Threads PROVE Points(alloc[u])'
    BY <1>1, <1>6 DEF ArenaInv, PointersInv, Points, ArenaTypeOK, Allocations
  <2>2. ASSUME NEW u \in Threads PROVE Swapped(alloc[u])'
    BY <1>1, <1>2, <1>3, <1>4, <1>6 DEF ArenaInv, PointersInv, Swapped
  <2> QED  BY <2>1, <2>2 DEF PointersInv
<1>11. ApartInv'
  <2> SUFFICES ASSUME ~rivals PROVE ApartInv'
    BY <1>1 DEF ApartInv
  <2>1. ASSUME NEW i \in DOMAIN objects, NEW x \in Arenas, Used(x)'
        PROVE  Behind(objects[i], x)'
    <3>1. CASE x = a
      BY <1>1, <1>2, <1>3, <1>4, <3>1 DEF ArenaInv, ObjectsInv, Behind
    <3>2. CASE x # a
      BY <1>1, <1>4, <1>6, <2>1, <3>2 DEF ArenaInv, ApartInv, Behind, InMove
    <3> QED  BY <3>1, <3>2
  <2> QED  BY <1>1, <2>1 DEF ArenaInv, ApartInv, Busy
<1> QED  BY <1>5, <1>8, <1>9, <1>10, <1>10a, <1>11 DEF ArenaInv

(* xt_arena_destroy and the releases after it free the blocks of one arena,
   and no other one's buffer.                                                *)
LEMMA ArenaGoes ==
  ASSUME ArenaTypeOK, ArenaInv, NEW a \in Arenas, NEW r \in ArenaRecords, NEW bs,
         Used(a), arena' = [arena EXCEPT ![a] = r],
         r.state \notin {"new", "live"}, r.buffer = arena[a].buffer, r.offset = arena[a].offset,
         ToSet(r.chain) \subseteq Chained(a),
         bs \subseteq {arena[a].buffer} \cup Chained(a), blocks' \in {blocks, Freed(bs)},
         UNCHANGED <<alloc, saved, array, objects, mixed, faults>>,
         torn' \in {torn, TRUE},
         \/ UNCHANGED <<current, rivals, stale>> /\ ~Live(a)
         \/ /\ current' \in {current, None} /\ (current = a => current' = None)
            /\ rivals' = (rivals \/ Meets(Main)) /\ ~Busy(Main)
            /\ stale' \in {stale, {a} \cup stale} /\ ((\E t \in Threads : saved[t] = a) => a \in stale')
  PROVE  ArenaTypeOK' /\ ArenaInv'
<1>1. /\ arena' \in [Arenas -> ArenaRecords] /\ arena'[a] = r
      /\ \A x \in Arenas \ {a} : arena'[x] = arena[x]
  BY OneArena
<1>2. /\ blocks' \in Seq(BOOLEAN) /\ DOMAIN blocks' = DOMAIN blocks
      /\ \A b \in DOMAIN blocks \ bs : blocks'[b] = blocks[b]
  BY FreedBlocks DEF ArenaTypeOK
<1>3. ArenaTypeOK'
  BY <1>1, <1>2 DEF ArenaTypeOK
<1>4. /\ \A x \in Arenas : Chained(x)' \subseteq Chained(x)
      /\ \A x \in Arenas : Used(x)' <=> Used(x)
      /\ \A x \in Arenas : arena'[x].buffer = arena[x].buffer /\ arena'[x].offset = arena[x].offset
      /\ \A x \in Arenas : Live(x)' <=> Live(x) /\ x # a
  BY <1>1 DEF Chained, Used, Live
<1>5. BuffersInv /\ MemoryInv
  BY DEF ArenaInv
<1>6. BuffersInv'
  <2>1. \A x \in Arenas : Used(x)' => arena'[x].buffer \in DOMAIN blocks'
    BY <1>2, <1>4, <1>5 DEF BuffersInv
  <2>2. \A x, y \in Arenas : Used(x)' /\ Used(y)' /\ arena'[x].buffer = arena'[y].buffer => x = y
    BY <1>4, <1>5 DEF BuffersInv
  <2>3. \A x, y \in Arenas : Used(y)' => arena'[y].buffer \notin Chained(x)'
    BY <1>4, <1>5 DEF BuffersInv
  <2>4. \A x \in Arenas : Chained(x)' \subseteq DOMAIN blocks'
    BY <1>2, <1>4, <1>5 DEF BuffersInv
  <2>5. (current # None => Used(current))' /\ (\A u \in Threads : saved[u] # None => Used(saved[u]))'
    BY <1>3, <1>4, <1>5 DEF BuffersInv, ArenaTypeOK, Used
  <2> QED  BY <2>1, <2>2, <2>3, <2>4, <2>5 DEF BuffersInv
<1>7. MemoryInv'
  <2> SUFFICES ASSUME stale' = {} PROVE MemoryInv'
    BY DEF MemoryInv
  <2>1. stale = {} /\ current' \in {current, None} /\ current' # a
    BY <1>5 DEF MemoryInv
  <2>2. \A t \in Threads : saved[t] # a
    BY <2>1, <1>5 DEF MemoryInv
  <2>3. ASSUME NEW x \in Arenas, Live(x)' PROVE blocks'[arena'[x].buffer]
    <3>1. Live(x) /\ x # a /\ Used(x)
      BY <1>4, <2>3 DEF Live, Used
    <3>2. arena[x].buffer \in DOMAIN blocks /\ arena[x].buffer \notin bs
      BY <1>5, <3>1 DEF BuffersInv
    <3> QED  BY <1>2, <1>4, <1>5, <2>1, <3>1, <3>2 DEF MemoryInv
  <2>4. (current # None => Live(current))'
    BY <1>3, <1>4, <1>5, <2>1 DEF MemoryInv, ArenaTypeOK, Live
  <2>5. (\A u \in Threads : saved[u] # None => Live(saved[u]))'
    BY <1>3, <1>4, <1>5, <2>1, <2>2 DEF MemoryInv, ArenaTypeOK, Live
  <2> QED  BY <2>3, <2>4, <2>5 DEF MemoryInv
<1>8. ObjectsInv' /\ FaultsInv'
  BY <1>2 DEF ArenaInv, ObjectsInv, FaultsInv, FreedArenasAreNotUsed, OnlyHeapMemoryIsFreed
<1>8a. ArrayInv'
  BY DEF ArenaInv, ArrayInv, HeapInv, HeaderInv, FlagInv
<1>8b. PointersInv'
  <2>1. ASSUME NEW u \in Threads PROVE Points(alloc[u])'
    BY <1>4 DEF ArenaInv, PointersInv, Points, ArenaTypeOK, Allocations
  <2>2. ASSUME NEW u \in Threads PROVE Swapped(alloc[u])'
    BY <1>2, <1>4 DEF ArenaInv, PointersInv, Swapped
  <2> QED  BY <2>1, <2>2 DEF PointersInv
<1>9. ApartInv'
  <2> SUFFICES ASSUME ~rivals' PROVE ApartInv'
    BY DEF ApartInv
  <2>0. (InMove' <=> InMove) /\ \A u \in Threads : Busy(u)' <=> Busy(u)
    BY DEF InMove, Busy
  <2>1a. ~rivals /\ (UNCHANGED current \/ (~Meets(Main) /\ ~Busy(Main)))
    <3>1. CASE UNCHANGED <<current, rivals, stale>>
      BY <3>1
    <3>2. CASE rivals' = (rivals \/ Meets(Main)) /\ ~Busy(Main)
      BY <3>2
    <3> QED  BY <3>1, <3>2
  <2>1. ~rivals /\ UNCHANGED objects /\ (UNCHANGED current \/ \A u \in Threads : ~Busy(u))
    BY <2>1a DEF Meets
  <2>2. InMove => \E u \in Threads : Busy(u)
    BY DEF InMove, Busy
  <2>3. ASSUME NEW i \in DOMAIN objects, NEW x \in Arenas, Used(x)'
        PROVE  Behind(objects[i], x)'
    BY <1>4, <2>0, <2>1, <2>2, <2>3 DEF ArenaInv, ApartInv, Behind
  <2> QED  BY <2>0, <2>1, <2>3 DEF ArenaInv, ApartInv
<1> QED  BY <1>3, <1>6, <1>7, <1>8, <1>8a, <1>8b, <1>9 DEF ArenaInv

LEMMA GoneFields ==
  ASSUME NEW r \in ArenaRecords, NEW n \in Int
  PROVE  /\ [r EXCEPT !.refs = n] \in ArenaRecords
         /\ [r EXCEPT !.refs = n].state = r.state /\ [r EXCEPT !.refs = n].chain = r.chain
         /\ [r EXCEPT !.refs = n].buffer = r.buffer /\ [r EXCEPT !.refs = n].offset = r.offset
BY DEF ArenaRecords

LEMMA FreedFields ==
  ASSUME NEW r \in ArenaRecords
  PROVE  /\ [r EXCEPT !.state = "freed"] \in ArenaRecords
         /\ [r EXCEPT !.state = "freed"].state = "freed" /\ [r EXCEPT !.state = "freed"].chain = r.chain
         /\ [r EXCEPT !.state = "freed"].buffer = r.buffer
         /\ [r EXCEPT !.state = "freed"].offset = r.offset
BY DEF ArenaRecords

LEMMA ArenaDestroyInv ==
  ASSUME ArenaTypeOK, ArenaInv, NEW a \in Arenas, alloc[Main].at = "idle", ArenaDestroy(a)
  PROVE  ArenaTypeOK' /\ ArenaInv'
<1>a. PICK st \in {"destroyed"} : TRUE
  OBVIOUS
<1>b. PICK s \in Seq(Nat) : s = <<>>
  <2>1. <<>> \in Seq(Nat)
    BY EmptySeq
  <2> QED  BY <2>1, Zenon
<1>c. PICK n \in Int : n = 2
  <2>1. 2 \in Int
    OBVIOUS
  <2> QED  BY <2>1, Zenon
<1> DEFINE r == [arena[a] EXCEPT !.state = st, !.chain = s, !.refs = n]
<1>1. arena[a] \in ArenaRecords /\ arena[a].state = "live"
  BY DEF ArenaTypeOK, ArenaDestroy
<1>2. /\ arena' = [arena EXCEPT ![a] = r] /\ blocks' = Freed(Chained(a))
      /\ UNCHANGED <<alloc, saved, array, objects, mixed, faults>>
  BY <1>a, <1>b, <1>c DEF ArenaDestroy, ArenaTypeOK, Chained
<1>3. /\ r \in ArenaRecords /\ r.state = "destroyed" /\ r.buffer = arena[a].buffer
      /\ r.offset = arena[a].offset /\ r.chain = s
  <2>1. /\ r \in ArenaRecords /\ r.state = st /\ r.buffer = arena[a].buffer
        /\ r.offset = arena[a].offset /\ r.chain = s
    BY ONLY <1>1, st \in {"destroyed"}, s \in Seq(Nat), n \in Int DEF ArenaRecords
  <2>2. st = "destroyed"
    OBVIOUS
  <2> QED  BY <2>1, <2>2
<1> HIDE DEF r
<1>4. ToSet(r.chain) = {}
  BY <1>b, <1>3 DEF ToSet
<1>5. /\ current' \in {current, None} /\ (current = a => current' = None) /\ torn' \in {torn, TRUE}
      /\ rivals' = (rivals \/ Meets(Main)) /\ ~Busy(Main)
      /\ stale' \in {stale, {a} \cup stale} /\ ((\E t \in Threads : saved[t] = a) => a \in stale')
  BY DEF ArenaDestroy, Switch, AfterDestroy, PutAside, Busy, ArenaTypeOK
<1> QED  BY <1>1, <1>2, <1>3, <1>4, <1>5, ArenaGoes DEF Used

LEMMA ArenaReleaseInv ==
  ASSUME ArenaTypeOK, ArenaInv, NEW a \in Arenas, ArenaRelease(a)
  PROVE  ArenaTypeOK' /\ ArenaInv'
<1> DEFINE n == arena[a].refs - 1
           k == [arena[a] EXCEPT !.refs = n]
           r == IF arena[a].refs = 1 THEN [k EXCEPT !.state = "freed"] ELSE k
           bs == {arena[a].buffer} \cup Chained(a)
<1>1. arena[a] \in ArenaRecords /\ arena[a].state = "destroyed"
  BY DEF ArenaTypeOK, ArenaRelease
<1>2. /\ blocks' \in {blocks, Freed(bs)}
      /\ UNCHANGED <<current, alloc, saved, array, objects, rivals, stale, mixed, torn, faults>>
  BY DEF ArenaRelease, Chained, history
<1>2a. arena' = [arena EXCEPT ![a] = r]
  <2>1. arena' = [arena EXCEPT ![a] = [arena[a] EXCEPT !.refs = n, !.state = IF arena[a].refs = 1 THEN "freed" ELSE @]]
    BY DEF ArenaRelease, ArenaTypeOK
  <2>2. [arena[a] EXCEPT !.refs = n, !.state = IF arena[a].refs = 1 THEN "freed" ELSE @] = r
    BY <1>1 DEF ArenaRecords
  <2> QED  BY <2>1, <2>2
<1>2b. n \in Int
  BY <1>1 DEF ArenaRecords
<1>3. /\ r \in ArenaRecords /\ r.state \in {"destroyed", "freed"} /\ r.buffer = arena[a].buffer
      /\ r.offset = arena[a].offset /\ r.chain = arena[a].chain
  <2>1. /\ k \in ArenaRecords /\ k.state = "destroyed" /\ k.buffer = arena[a].buffer
        /\ k.offset = arena[a].offset /\ k.chain = arena[a].chain
    <3> HIDE DEF n
    <3> QED  BY <1>1, <1>2b, GoneFields
  <2> HIDE DEF k
  <2> QED  BY <2>1, FreedFields
<1> HIDE DEF r
<1> QED  BY <1>1, <1>2, <1>2a, <1>3, ArenaGoes DEF Used, Live, Chained

(* Arrays.                                                                   *)
LEMMA ArrayCallInv ==
  ASSUME ArenaTypeOK, ArenaInv, Sound, ~Busy(Main), ArrayNew \/ ArrayElements \/ ArrayGrow
  PROVE  ArenaTypeOK' /\ ArenaInv'
<1>1. UNCHANGED <<current, arena, blocks, saved, objects, stale, torn>> /\ Raw(Main) /\ Main \in Threads
  BY DEF ArrayNew, ArrayElements, ArrayGrow
<1>2. /\ BuffersInv' /\ MemoryInv' /\ ObjectsInv' /\ ApartInv' /\ PointersInv' /\ rivals' \in BOOLEAN
      /\ alloc' \in [Threads -> Allocations] /\ alloc'[Main] = Chosen
  BY <1>1, RawInv
<1>3. /\ array \in ArrayRecords /\ {mixed, torn} \subseteq BOOLEAN /\ current \in Arenas \cup {None}
      /\ ArrayInv /\ faults = {}
      /\ Chosen.at = (IF current = None THEN "done" ELSE "raw") /\ (current = None => Chosen.from = Heap)
  BY ChosenIs DEF ArenaTypeOK, ArenaInv, Sound
<1>4. array' \in ArrayRecords /\ mixed' \in BOOLEAN
  <2>1. CASE ArrayNew
    BY <1>3, <2>1 DEF ArrayNew, NoArray, ArrayRecords
  <2>2. CASE ArrayElements
    BY <1>3, <2>2 DEF ArrayElements, ArrayRecords
  <2>3. CASE ArrayGrow
    BY <1>3, <2>3 DEF ArrayGrow, ArrayRecords
  <2> QED  BY <2>1, <2>2, <2>3
<1>5. ArenaTypeOK'
  BY <1>1, <1>2, <1>3, <1>4 DEF ArenaTypeOK
<1>6. ArrayInv' /\ FaultsInv'
  <2>1. CASE ArrayNew
    <3>1. /\ array'.made = "header" /\ array'.inArena = FALSE /\ array'.elements = Heap
          /\ array'.counted = (current = None) /\ UNCHANGED faults
      BY <2>1 DEF ArrayNew, NoArray
    <3> QED
      BY <1>1, <1>3, <3>1 DEF ArrayInv, HeapInv, HeaderInv, FlagInv, FaultsInv,
         FreedArenasAreNotUsed, OnlyHeapMemoryIsFreed
  <2>2. CASE ArrayElements
    <3>1. /\ array.made = "header" /\ array'.made = "elements" /\ array'.inArena = (current # None)
          /\ array'.elements = array.elements /\ array'.counted = array.counted /\ UNCHANGED <<mixed, faults>>
      BY <1>3, <2>2 DEF ArrayElements, ArrayRecords
    <3> QED
      BY <1>1, <1>2, <1>3, <3>1 DEF ArrayInv, HeapInv, HeaderInv, FlagInv, FaultsInv,
         FreedArenasAreNotUsed, OnlyHeapMemoryIsFreed
  <2>3. CASE ArrayGrow
    <3>1. /\ array.made = "yes" /\ array'.made = "growing" /\ array'.inArena = (array.inArena /\ current # None)
          /\ array'.elements = array.elements /\ array'.counted = array.counted
          /\ mixed' = (mixed \/ (current # None /\ ~array.inArena))
          /\ faults' = IF current = None /\ ~array.inArena /\ array.elements # Heap THEN {"free"} ELSE {}
      BY <1>3, <2>3 DEF ArrayGrow, ArrayRecords, Reallocates
    <3>2. FaultsInv'
      BY <1>1, <1>3, <3>1 DEF ArrayInv, FlagInv, FaultsInv, FreedArenasAreNotUsed, OnlyHeapMemoryIsFreed
    <3>3. ASSUME ~mixed', ~torn' PROVE HeapInv' /\ HeaderInv' /\ FlagInv'
      <4>1. ~mixed /\ ~torn /\ (array.inArena \/ current = None)
        BY <1>1, <1>3, <3>1, <3>3
      <4>2. array.elements = Heap \/ array.inArena
        BY <1>3, <3>1, <4>1 DEF ArrayInv, FlagInv
      <4> QED  BY <1>1, <1>2, <1>3, <3>1, <4>1, <4>2 DEF ArrayInv, HeapInv, HeaderInv, FlagInv
    <3> QED  BY <3>2, <3>3 DEF ArrayInv
  <2> QED  BY <2>1, <2>2, <2>3
<1> QED  BY <1>2, <1>5, <1>6 DEF ArenaInv

LEMMA ArrayFreeInv ==
  ASSUME ArenaTypeOK, ArenaInv, Sound, ArrayFree
  PROVE  ArenaTypeOK' /\ ArenaInv'
<1>1. /\ UNCHANGED <<current, arena, blocks, alloc, saved, objects, rivals, stale, mixed, torn>>
      /\ array.made = "yes" /\ array.counted /\ array \in ArrayRecords
      /\ faults' = IF array.elements # Heap THEN {"free"} ELSE {}
  BY DEF ArrayFree, history, ArenaTypeOK
<1>2. /\ array'.made = "freed" /\ array'.elements = array.elements /\ array' \in ArrayRecords
      /\ (array'.counted <=> array.counted) /\ (array'.inArena <=> array.inArena)
  BY <1>1 DEF ArrayFree, ArrayRecords
<1>3. ArenaTypeOK' /\ BuffersInv' /\ MemoryInv' /\ ObjectsInv'
  BY <1>1, <1>2 DEF ArenaTypeOK, ArenaInv, BuffersInv, MemoryInv, ObjectsInv, Used, Live, Chained
<1>4. ApartInv' /\ PointersInv'
  BY <1>1 DEF ArenaInv, ApartInv, PointersInv, Points, Swapped, Used, Behind, InMove, Busy
<1>5. ArrayInv' /\ FaultsInv'
  BY <1>1, <1>2 DEF ArenaInv, ArrayInv, HeapInv, HeaderInv, FlagInv, FaultsInv,
     FreedArenasAreNotUsed, OnlyHeapMemoryIsFreed
<1> QED  BY <1>3, <1>4, <1>5 DEF ArenaInv

(* The elements are where the allocation has put them.                       *)
LEMMA ArrayHasInv ==
  ASSUME ArenaTypeOK, ArenaInv, ArrayHas
  PROVE  ArenaTypeOK' /\ ArenaInv'
<1>1. /\ UNCHANGED <<current, arena, blocks, saved, objects, rivals, stale, mixed, torn, faults>>
      /\ alloc' = [alloc EXCEPT ![Main] = Idle] /\ alloc[Main].at = "done" /\ Main \in Threads
      /\ array.made \in {"elements", "growing"} /\ array \in ArrayRecords
      /\ alloc[Main].from \in Arenas \cup {Heap}
  BY DEF ArrayHas, history, ArenaTypeOK, Allocations
<1>2. /\ array'.made = "yes" /\ array'.elements = alloc[Main].from /\ array' \in ArrayRecords
      /\ (array'.counted <=> array.counted) /\ (array'.inArena <=> array.inArena)
  BY <1>1 DEF ArrayHas, ArrayRecords
<1>3. Points(Idle) /\ Idle.at \notin {"chain", "move"} /\ ~Entered(Idle) /\ Idle \in Allocations
  BY IdleIs DEF Points, Entered
<1>4. BuffersInv' /\ MemoryInv' /\ ObjectsInv' /\ ApartInv' /\ PointersInv' /\ alloc' \in [Threads -> Allocations]
  BY <1>1, <1>3, AllocationMoves
<1>5. ArrayInv'
  BY <1>1, <1>2 DEF ArenaInv, ArrayInv, HeapInv, HeaderInv, FlagInv
<1>6. FaultsInv'
  BY <1>1 DEF ArenaInv, FaultsInv, FreedArenasAreNotUsed, OnlyHeapMemoryIsFreed
<1>7. ArenaTypeOK'
  BY <1>1, <1>2, <1>4 DEF ArenaTypeOK
<1> QED  BY <1>4, <1>5, <1>6, <1>7 DEF ArenaInv

(* All of the program's calls about arenas.                                  *)
LEMMA ArenaCallInv ==
  ASSUME ArenaTypeOK, ArenaInv, Sound, Resting, ArenaCall
  PROVE  ArenaTypeOK' /\ ArenaInv'
<1>1. ~Busy(Main) /\ Main \in Threads /\ alloc[Main].at = "idle"
  BY DEF Busy, Resting
<1>2. ASSUME NEW a \in Arenas, ArenaUse(a) PROVE ArenaTypeOK' /\ ArenaInv'
  <2>1. /\ Live(a) /\ Used(a) /\ Switch(Main, a) /\ saved' \in [Threads -> Arenas \cup {None}]
        /\ UNCHANGED <<arena, blocks, alloc, array, objects, stale, mixed, faults>>
        /\ \A u \in Threads : saved'[u] = saved[u]
    BY <1>2 DEF ArenaUse, Live, Used, ArenaTypeOK
  <2> QED  BY <1>1, <2>1, CurrentMoves
<1>3. CASE ArenaDisable
  <2>1. /\ Switch(Main, None) /\ saved' \in [Threads -> Arenas \cup {None}]
        /\ UNCHANGED <<arena, blocks, alloc, array, objects, stale, mixed, faults>>
        /\ \A u \in Threads : saved'[u] \in {current, saved[u]}
    BY <1>3 DEF ArenaDisable, ArenaTypeOK
  <2> QED  BY <1>1, <2>1, CurrentMoves
<1>4. CASE ArenaRestore
  <2>1. /\ Switch(Main, saved[Main]) /\ saved' \in [Threads -> Arenas \cup {None}]
        /\ UNCHANGED <<arena, blocks, alloc, array, objects, stale, mixed, faults>>
        /\ \A u \in Threads : saved'[u] \in {None, saved[u]}
        /\ saved[Main] \in Arenas \cup {None}
    BY <1>4 DEF ArenaRestore, ArenaTypeOK
  <2>2. /\ saved[Main] # None => Used(saved[Main])
        /\ stale = {} /\ saved[Main] # None => Live(saved[Main])
    BY DEF ArenaInv, BuffersInv, MemoryInv
  <2> QED  BY <1>1, <2>1, <2>2, CurrentMoves
<1> QED
  BY <1>1, <1>2, <1>3, <1>4, ArenaNewInv, ArenaDestroyInv, ArenaReleaseInv, ArrayCallInv, ArrayFreeInv
     DEF ArenaCall, ArenaSwitch

-----------------------------------------------------------------------------
(* The arenas under every step of the server.                                *)
LEMMA ArenaStepInv ==
  ASSUME ServerInv, Next
  PROVE  ArenaTypeOK' /\ ArenaInv'
<1> USE DEF ServerInv, TypeOK
<1>1. CASE ArenaStep
  BY <1>1, ArenaCallInv DEF ArenaStep, Calling, Next
<1>2. ASSUME NEW t \in Threads, Allocate(t) PROVE ArenaTypeOK' /\ ArenaInv'
  BY <1>2, BeginInv, TestsInv, CrashInv, GrowInv, ChainInv, PlaceInv, MoveInv DEF Allocate, Next
<1>2a. CASE ArrayElements
  BY <1>2a, ArrayCallInv DEF ArrayElements, Busy, Next
<1>2b. CASE ArrayHas
  BY <1>2b, ArrayHasInv
<1>3. CASE Keep
  BY <1>3, ArenaUntouched DEF Keep
<1>4. CASE UNCHANGED arenaVars
  BY <1>4, ArenaUntouched DEF arenaVars
<1>5. ASSUME NEW c \in Conns PROVE NewSocket(c) \/ Connected(c) => ArenaTypeOK' /\ ArenaInv'
  <2>1. Acceptor \in Threads /\ Main \in Threads /\ Acceptor # Main
    OBVIOUS
  <2> QED  BY <2>1, ArenaUntouched DEF NewSocket, Connected, MadeBy
<1>6. ASSUME NEW c \in Conns PROVE Accept(c) \/ Connect(c) \/ Share(c) => ArenaTypeOK' /\ ArenaInv'
  BY ArenaUntouched DEF Accept, Connect, Share, Opened, OnlyConnAndUses
<1>7. ASSUME NEW c \in Conns, PutArenaAside(c) PROVE ArenaTypeOK' /\ ArenaInv'
  <2>1. /\ UNCHANGED <<current, rivals, torn>> /\ c \in Threads
        /\ UNCHANGED <<arena, blocks, alloc, array, objects, stale, mixed, faults>>
    BY <1>7 DEF PutArenaAside, history
  <2>2. /\ saved' \in [Threads -> Arenas \cup {None}]
        /\ \A u \in Threads : saved'[u] \in {None, current, saved[u]}
    BY <1>7 DEF PutArenaAside, ArenaTypeOK
  <2>3. /\ current \in Arenas \cup {None} /\ (current # None => Used(current))
        /\ stale = {} /\ current # None => Live(current)
    BY DEF ArenaTypeOK, ArenaInv, BuffersInv, MemoryInv
  <2> QED  BY <2>1, <2>2, <2>3, CurrentMoves
<1>8. ASSUME NEW c \in Conns, ClearArena(c) PROVE ArenaTypeOK' /\ ArenaInv'
  <2>1. /\ Switch(c, None) /\ c \in Threads /\ conn[c].stage = "entered"
        /\ UNCHANGED <<arena, blocks, alloc, array, objects, stale, mixed, faults>>
        /\ UNCHANGED saved
    BY <1>8 DEF ClearArena, Stage
  <2>2. ~Busy(c)
    BY <2>1 DEF ConnInv, BusyInv
  <2>3. saved' \in [Threads -> Arenas \cup {None}] /\ \A u \in Threads : saved'[u] = saved[u]
    BY <2>1 DEF ArenaTypeOK
  <2> QED  BY <2>1, <2>2, <2>3, CurrentMoves
<1>9. ASSUME NEW c \in Conns, CallbackReturns(c) PROVE ArenaTypeOK' /\ ArenaInv'
  <2>1. /\ Switch(c, saved[c]) /\ c \in Threads /\ ~Busy(c)
        /\ UNCHANGED <<arena, blocks, alloc, array, objects, stale, mixed, faults>>
    BY <1>9 DEF CallbackReturns, Restored
  <2>2. /\ saved' \in [Threads -> Arenas \cup {None}]
        /\ \A u \in Threads : saved'[u] \in {None, saved[u]}
    BY <1>9 DEF CallbackReturns, ArenaTypeOK
  <2>3. /\ saved[c] \in Arenas \cup {None} /\ (saved[c] # None => Used(saved[c]))
        /\ stale = {} /\ saved[c] # None => Live(saved[c])
    BY <2>1 DEF ArenaTypeOK, ArenaInv, BuffersInv, MemoryInv
  <2> QED  BY <2>1, <2>2, <2>3, CurrentMoves
<1> QED
  BY <1>1, <1>2, <1>2a, <1>2b, <1>3, <1>4, <1>5, <1>6, <1>7, <1>8, <1>9
     DEF Next, Listen, StartHandler, OnlyConn, Close, EndClose, Unshare, ReleaseSocket, Release

-----------------------------------------------------------------------------
(* One connection's record changes; what that does to each invariant.        *)
LEMMA OneConn ==
  ASSUME ConnTypeOK, NEW c \in Conns, NEW k \in ConnRecords, conn' = [conn EXCEPT ![c] = k]
  PROVE  /\ conn' \in [Conns -> ConnRecords] /\ conn'[c] = k
         /\ \A d \in Conns \ {c} : conn'[d] = conn[d]
<1>1. conn \in [Conns -> ConnRecords]
  BY DEF ConnTypeOK
<1> QED  BY <1>1

LEMMA CountsKept ==
  ASSUME ConnTypeOK, CountsInv, NEW c \in Conns, NEW k \in ConnRecords, conn' = [conn EXCEPT ![c] = k],
         Accounted(k)
  PROVE  CountsInv'
<1>1. \A d \in Conns : conn'[d] = k \/ conn'[d] = conn[d]
  BY OneConn
<1>2. \A d \in Conns : Accounted(conn'[d])
  BY <1>1 DEF CountsInv
<1> QED  BY <1>2 DEF CountsInv, Accounted, References

LEMMA ClosingKept ==
  ASSUME ConnTypeOK, ClosingInv, NEW c \in Conns, NEW k \in ConnRecords, conn' = [conn EXCEPT ![c] = k],
         closing' \subseteq closing, UNCHANGED raced,
         <<c, c>> \in closing' /\ conn[c].stage = "callback" => k.stage = "callback",
         <<Main, c>> \in closing' /\ conn[c].shared => k.shared,
         ~raced /\ k.fd = "closed" /\ conn[c].fd # "closed" => \A t \in Threads : <<t, c>> \notin closing',
         reclosed' => raced
  PROVE  ClosingInv'
<1>1. conn'[c] = k /\ \A d \in Conns \ {c} : conn'[d] = conn[d]
  BY OneConn
<1>2. ASSUME NEW t \in Threads, NEW d \in Conns, <<t, d>> \in closing' PROVE Holds(t, d)'
  BY <1>1, <1>2 DEF ClosingInv, Holds
<1>3. ASSUME ~raced, NEW t \in Threads, NEW d \in Conns, <<t, d>> \in closing'
      PROVE  conn'[d].fd # "closed" /\ \A u \in Threads : <<u, d>> \in closing' => u = t
  BY <1>1, <1>3 DEF ClosingInv
<1> QED  BY <1>2, <1>3 DEF ClosingInv

LEMMA BusyKept ==
  ASSUME ConnTypeOK, BusyInv, NEW c \in Conns, NEW k \in ConnRecords, conn' = [conn EXCEPT ![c] = k],
         \A d \in Conns : Busy(d)' => Busy(d),
         Busy(c) => k.stage = "callback"
  PROVE  BusyInv'
<1>1. conn'[c] = k /\ \A d \in Conns \ {c} : conn'[d] = conn[d]
  BY OneConn
<1> QED  BY <1>1 DEF BusyInv

LEMMA HandlersKept ==
  ASSUME ConnTypeOK, HandlersInv, NEW c \in Conns, NEW k \in ConnRecords, conn' = [conn EXCEPT ![c] = k],
         k.stage = conn[c].stage \/ {k.stage, conn[c].stage} \cap {"entered", "callback"} = {},
         UNCHANGED <<current, saved, wanted, crossed>>
  PROVE  HandlersInv'
<1>1. conn'[c] = k /\ \A d \in Conns \ {c} : conn'[d] = conn[d]
  BY OneConn
<1>2. \A d \in Conns : Inside(d)' <=> Inside(d)
  BY <1>1 DEF Inside
<1> QED  BY <1>2 DEF HandlersInv

(* A connection's step that leaves the handlers and the closings alone.      *)
LEMMA ConnKept ==
  ASSUME ServerInv, NEW c \in Conns, NEW k \in ConnRecords, conn' = [conn EXCEPT ![c] = k],
         \A d \in Conns : Busy(d)' => Busy(d),
         k.stage = conn[c].stage \/ {k.stage, conn[c].stage} \cap {"entered", "callback"} = {},
         conn[c].shared => k.shared, k.fd = "closed" => conn[c].fd = "closed",
         Accounted(k), UNCHANGED <<current, saved, closing, reclosed, raced, wanted, crossed>>
  PROVE  ConnTypeOK' /\ ConnInv'
<1>1. ConnTypeOK /\ BusyInv /\ HandlersInv /\ CountsInv /\ ClosingInv
  BY DEF ServerInv, TypeOK, ConnInv
<1>2. ConnTypeOK'
  BY <1>1, OneConn DEF ConnTypeOK
<1>3. CountsInv'
  BY <1>1, CountsKept
<1>4. Busy(c) => k.stage = "callback"
  BY <1>1 DEF BusyInv
<1>5. BusyInv'
  BY <1>1, <1>4, BusyKept
<1>6. HandlersInv'
  BY <1>1, HandlersKept
<1>7. conn[c].stage = "callback" => k.stage = "callback"
  OBVIOUS
<1>8. reclosed' => raced
  BY <1>1 DEF ClosingInv
<1>9. ClosingInv'
  BY <1>1, <1>7, <1>8, ClosingKept
<1> QED  BY <1>2, <1>3, <1>5, <1>6, <1>9 DEF ConnInv

(* A connection's record.                                                    *)
LEMMA ConnFields ==
  ASSUME ServerInv, NEW c \in Conns
  PROVE  conn[c] \in ConnRecords /\ Accounted(conn[c]) /\ c \in Threads /\ c # Main
BY DEF ServerInv, TypeOK, ConnTypeOK, ConnInv, CountsInv

(* xt_net_new_socket's first half.                                           *)
LEMMA OpenedInv ==
  ASSUME ServerInv, NEW c \in Conns, Accept(c) \/ Connect(c)
  PROVE  ConnTypeOK' /\ ConnInv'
<1>1. PICK to \in {"accepted", "connecting"} : Opened(c, to)
  BY DEF Accept, Connect
<1> DEFINE k == [conn[c] EXCEPT !.fd = "open", !.stage = to]
<1>2. /\ conn[c] \in ConnRecords /\ Accounted(conn[c]) /\ conn[c].stage = "none"
  BY <1>1, ConnFields DEF Opened
<1>3. conn' = [conn EXCEPT ![c] = k]
  BY <1>1 DEF Opened, ServerInv, TypeOK, ConnTypeOK
<1>4. k \in ConnRecords /\ Accounted(k) /\ k.stage = to /\ k.fd = "open" /\ k.shared = conn[c].shared
  BY <1>2 DEF ConnRecords, Stages, Accounted, References, Referring
<1> HIDE DEF k
<1>5. /\ UNCHANGED <<current, saved, closing, reclosed, raced, wanted, crossed>>
      /\ \A d \in Conns : Busy(d)' <=> Busy(d)
  BY <1>1 DEF Opened, OnlyConnAndUses, memory, Busy
<1> QED  BY <1>2, <1>3, <1>4, <1>5, ConnKept

(* Its second half, in the accepting thread or in xt_connect.                *)
LEMMA MadeInv ==
  ASSUME ServerInv, NEW c \in Conns, NewSocket(c) \/ Connected(c)
  PROVE  ConnTypeOK' /\ ConnInv'
<1>1. PICK t \in {Acceptor, Main} : alloc[t].at = "done" /\ alloc' = [alloc EXCEPT ![t] = Idle]
  BY DEF NewSocket, Connected, MadeBy
<1>2. /\ conn[c] \in ConnRecords /\ Accounted(conn[c])
      /\ alloc[Main].immortal \in BOOLEAN /\ alloc[Acceptor].immortal \in BOOLEAN
      /\ conn \in [Conns -> ConnRecords] /\ alloc \in [Threads -> Allocations]
  BY ConnFields DEF ServerInv, TypeOK, ArenaTypeOK, Allocations, ConnTypeOK
<1>3. /\ UNCHANGED <<current, saved, closing, reclosed, raced, wanted, crossed>>
      /\ \A d \in Conns : Busy(d)' => Busy(d)
  <2>1. UNCHANGED <<current, saved, closing, reclosed, raced, wanted, crossed>>
    BY DEF NewSocket, Connected, MadeBy, memory
  <2>2. \A d \in Conns : Busy(d)' => Busy(d)
    BY <1>1, <1>2 DEF Busy, Idle
  <2> QED  BY <2>1, <2>2
<1>a. PICK n \in Int : n = IF NewSocket(c) THEN 1 ELSE 2
  OBVIOUS
<1>b. PICK s \in Stages : s = IF NewSocket(c) THEN "made" ELSE "connected"
  BY DEF Stages
<1>c. PICK b \in BOOLEAN : b
  OBVIOUS
<1>4. CASE NewSocket(c)
  <2> DEFINE m == alloc[Acceptor].immortal
             k == [conn[c] EXCEPT !.stage = s, !.immortal = m, !.rc = n]
  <2>1. conn' = [conn EXCEPT ![c] = k] /\ conn[c].stage = "accepted" /\ n = 1 /\ s = "made"
    BY <1>a, <1>b, <1>4 DEF NewSocket, MadeBy
  <2>a. m \in BOOLEAN
    BY <1>2
  <2> HIDE DEF m
  <2>2. /\ k \in ConnRecords /\ k.stage = s /\ (k.shared <=> conn[c].shared) /\ k.fd = conn[c].fd
        /\ (k.isClosed <=> conn[c].isClosed) /\ k.rc = n
    BY ONLY <1>2, <2>a, n \in Int, s \in Stages DEF ConnRecords
  <2> HIDE DEF k
  <2>3. Accounted(k) /\ ~conn[c].shared
    BY <1>2, <2>1, <2>2 DEF Accounted, References, Referring, ConnRecords
  <2> QED  BY <1>3, <2>1, <2>2, <2>3, ConnKept
<1>5. CASE Connected(c)
  <2> DEFINE m == alloc[Main].immortal
             k == [conn[c] EXCEPT !.stage = s, !.immortal = m, !.rc = n, !.shared = b]
  <2>1. conn[c].stage = "connecting" /\ n = 2 /\ s = "connected"
    BY <1>a, <1>b, <1>5 DEF Connected, NewSocket
  <2>b. conn' = [conn EXCEPT ![c] = k]
    BY <1>c, <1>5, <2>1 DEF Connected, MadeBy
  <2>a. m \in BOOLEAN
    BY <1>2
  <2> HIDE DEF m
  <2>2. /\ k \in ConnRecords /\ k.stage = s /\ (k.shared <=> b) /\ k.fd = conn[c].fd
        /\ (k.isClosed <=> conn[c].isClosed) /\ k.rc = n
    BY ONLY <1>2, <2>a, n \in Int, s \in Stages, b \in BOOLEAN DEF ConnRecords
  <2> HIDE DEF k
  <2>3. Accounted(k) /\ ~conn[c].shared
    BY <1>2, <1>c, <2>1, <2>2 DEF Accounted, References, Referring, ConnRecords
  <2> QED  BY <1>3, <1>c, <2>1, <2>b, <2>2, <2>3, ConnKept
<1> QED  BY <1>4, <1>5

(* The handler's thread starts, and the program keeps its socket.            *)
LEMMA StartInv ==
  ASSUME ServerInv, NEW c \in Conns, StartHandler(c)
  PROVE  ConnTypeOK' /\ ConnInv'
<1>1. PICK to \in {"started", "lost"} : Stage(c, "made", to)
  BY DEF StartHandler
<1> DEFINE k == [conn[c] EXCEPT !.stage = to]
<1>2. conn[c] \in ConnRecords /\ Accounted(conn[c]) /\ conn[c].stage = "made"
  BY <1>1, ConnFields DEF Stage
<1>3. conn' = [conn EXCEPT ![c] = k]
  BY <1>1 DEF Stage, ServerInv, TypeOK, ConnTypeOK
<1>4. /\ k \in ConnRecords /\ Accounted(k) /\ k.stage = to /\ k.shared = conn[c].shared
      /\ k.fd = conn[c].fd
  BY <1>2 DEF ConnRecords, Stages, Accounted, References, Referring
<1> HIDE DEF k
<1>5. /\ UNCHANGED <<current, saved, closing, reclosed, raced, wanted, crossed>>
      /\ \A d \in Conns : Busy(d)' <=> Busy(d)
  BY DEF StartHandler, OnlyConn, arenaVars, memory, Busy
<1> QED  BY <1>2, <1>3, <1>4, <1>5, ConnKept

LEMMA ShareInv ==
  ASSUME ServerInv, NEW c \in Conns, Share(c)
  PROVE  ConnTypeOK' /\ ConnInv'
<1>a. PICK b \in BOOLEAN : b
  OBVIOUS
<1> DEFINE n == conn[c].rc + 1
           k == [conn[c] EXCEPT !.shared = b, !.rc = n]
<1>2. /\ conn[c] \in ConnRecords /\ Accounted(conn[c]) /\ conn[c].stage = "callback" /\ ~conn[c].shared
  BY ConnFields DEF Share
<1>3. conn' = [conn EXCEPT ![c] = k]
  BY <1>a, <1>2 DEF Share, ServerInv, TypeOK, ConnTypeOK
<1>3a. n \in Int
  BY <1>2 DEF ConnRecords
<1>4. /\ k \in ConnRecords /\ k.stage = conn[c].stage /\ k.shared
      /\ k.fd = conn[c].fd /\ (k.isClosed <=> conn[c].isClosed) /\ k.rc = conn[c].rc + 1
  <2>1. /\ k \in ConnRecords /\ k.stage = conn[c].stage /\ (k.shared <=> b)
        /\ k.fd = conn[c].fd /\ (k.isClosed <=> conn[c].isClosed) /\ k.rc = n
    <3> HIDE DEF n
    <3> QED  BY ONLY <1>2, <1>3a, b \in BOOLEAN DEF ConnRecords
  <2> QED  BY <1>a, <2>1
<1> HIDE DEF k
<1>4a. Accounted(k)
  BY <1>2, <1>4 DEF Accounted, References, Referring
<1>5. /\ UNCHANGED <<current, saved, closing, reclosed, raced, wanted, crossed>>
      /\ \A d \in Conns : Busy(d)' <=> Busy(d)
  BY DEF Share, OnlyConnAndUses, memory, Busy
<1> QED  BY <1>2, <1>3, <1>4, <1>4a, <1>5, ConnKept

-----------------------------------------------------------------------------
(* conn_handler before the callback: its arena put aside, then cleared.      *)
LEMMA EnterInv ==
  ASSUME ServerInv, NEW c \in Conns, PutArenaAside(c) \/ ClearArena(c)
  PROVE  ConnTypeOK' /\ ConnInv'
<1>1. PICK to \in {"entered", "callback"} : Stage(c, IF to = "entered" THEN "started" ELSE "entered", to)
  BY DEF PutArenaAside, ClearArena
<1> DEFINE k == [conn[c] EXCEPT !.stage = to]
<1>2. /\ conn[c] \in ConnRecords /\ Accounted(conn[c]) /\ conn[c].stage \in {"started", "entered"}
      /\ ConnTypeOK /\ BusyInv /\ HandlersInv /\ CountsInv /\ ClosingInv
  BY <1>1, ConnFields DEF Stage, ServerInv, TypeOK, ConnInv
<1>3. conn' = [conn EXCEPT ![c] = k]
  BY <1>1 DEF Stage, ServerInv, TypeOK, ConnTypeOK
<1>4. /\ k \in ConnRecords /\ Accounted(k) /\ k.stage = to /\ k.fd = conn[c].fd
  BY <1>2 DEF ConnRecords, Stages, Accounted, References, Referring
<1>4a. k.shared <=> conn[c].shared
  BY <1>2 DEF ConnRecords
<1> HIDE DEF k
<1>5. /\ UNCHANGED <<alloc, closing, reclosed, raced, wanted>> /\ crossed' \in BOOLEAN
      /\ \A d \in Conns : Busy(d)' <=> Busy(d)
  BY <1>2 DEF PutArenaAside, ClearArena, Busy, ConnTypeOK
<1>6. ConnTypeOK'
  BY <1>2, <1>3, <1>4, <1>5, OneConn DEF ConnTypeOK
<1>7. CountsInv'
  BY <1>2, <1>3, <1>4, CountsKept
<1>8. BusyInv'
  <2>1. Busy(c) => conn[c].stage = "callback"
    BY <1>2 DEF BusyInv
  <2> QED  BY <1>2, <1>3, <1>4, <1>5, <2>1, BusyKept
<1>9. ClosingInv'
  <2>1. reclosed' => raced
    BY <1>2, <1>5 DEF ClosingInv
  <2> QED  BY <1>2, <1>3, <1>4, <1>4a, <1>5, <2>1, ClosingKept
<1>10. HandlersInv'
  <2>0. conn'[c] = k /\ \A d \in Conns \ {c} : conn'[d] = conn[d]
    BY <1>2, <1>3, <1>4, OneConn
  <2>1. \A d \in Conns : Inside(d)' <=> Inside(d) \/ d = c
    BY <1>4, <2>0 DEF Inside
  <2> SUFFICES ASSUME ~crossed' PROVE HandlersInv'
    BY DEF HandlersInv
  <2>2. CASE PutArenaAside(c)
    <3>1. /\ ~crossed /\ \A d \in Conns : ~Inside(d)
          /\ saved' = [saved EXCEPT ![c] = current] /\ saved \in [Threads -> Arenas \cup {None}]
      BY <1>2, <2>2 DEF PutArenaAside, ServerInv, TypeOK, ArenaTypeOK, ConnTypeOK
    <3>2. current = wanted /\ c \in Threads
      BY <1>2, <3>1 DEF HandlersInv
    <3> QED  BY <1>5, <2>1, <3>1, <3>2 DEF HandlersInv
  <2>3. CASE ClearArena(c)
    <3>1. /\ ~crossed /\ UNCHANGED saved /\ Inside(c)
      BY <2>3 DEF ClearArena, Stage, Inside
    <3>2. \A d \in Conns : Inside(d)' <=> Inside(d)
      BY <2>1, <3>1
    <3> QED  BY <1>2, <1>5, <3>1, <3>2 DEF HandlersInv
  <2> QED  BY <2>2, <2>3
<1> QED  BY <1>6, <1>7, <1>8, <1>9, <1>10 DEF ConnInv

(* And after it: the only handler there is gives back what the program set.  *)
LEMMA ReturnInv ==
  ASSUME ServerInv, NEW c \in Conns, CallbackReturns(c)
  PROVE  ConnTypeOK' /\ ConnInv'
<1> DEFINE k == [conn[c] EXCEPT !.stage = "releasing"]
<1>1. Stage(c, "callback", "releasing") /\ ~Busy(c) /\ <<c, c>> \notin closing
  BY DEF CallbackReturns
<1>2. /\ conn[c] \in ConnRecords /\ Accounted(conn[c]) /\ conn[c].stage = "callback"
      /\ ConnTypeOK /\ BusyInv /\ HandlersInv /\ CountsInv /\ ClosingInv
  BY <1>1, ConnFields DEF Stage, ServerInv, TypeOK, ConnInv
<1>3. conn' = [conn EXCEPT ![c] = k]
  BY <1>1 DEF Stage, ServerInv, TypeOK, ConnTypeOK
<1>4. /\ k \in ConnRecords /\ Accounted(k) /\ k.stage = "releasing" /\ k.fd = conn[c].fd
  BY <1>2 DEF ConnRecords, Stages, Accounted, References, Referring
<1>4a. k.shared <=> conn[c].shared
  BY <1>2 DEF ConnRecords
<1> HIDE DEF k
<1>5. /\ UNCHANGED <<alloc, closing, reclosed, raced, wanted, crossed>>
      /\ \A d \in Conns : Busy(d)' <=> Busy(d)
  BY DEF CallbackReturns, Busy
<1>6. ConnTypeOK'
  BY <1>2, <1>3, <1>4, <1>5, OneConn DEF ConnTypeOK
<1>7. CountsInv'
  BY <1>2, <1>3, <1>4, CountsKept
<1>8. BusyInv'
  BY <1>1, <1>2, <1>3, <1>4, <1>5, BusyKept
<1>9. ClosingInv'
  <2>1. reclosed' => raced
    BY <1>2, <1>5 DEF ClosingInv
  <2> QED  BY <1>1, <1>2, <1>3, <1>4, <1>4a, <1>5, <2>1, ClosingKept
<1>10. HandlersInv'
  <2>0. conn'[c] = k /\ \A d \in Conns \ {c} : conn'[d] = conn[d]
    BY <1>2, <1>3, <1>4, OneConn
  <2>1. Inside(c) /\ \A d \in Conns : Inside(d)' <=> Inside(d) /\ d # c
    BY <1>2, <1>4, <2>0 DEF Inside
  <2>2. current' = saved[c]
    BY DEF CallbackReturns, Switch, Restored
  <2> QED  BY <1>2, <1>5, <2>1, <2>2 DEF HandlersInv
<1> QED  BY <1>6, <1>7, <1>8, <1>9, <1>10 DEF ConnInv

-----------------------------------------------------------------------------
(* Closing is two steps: found open, then closed.                            *)
LEMMA CloseInv ==
  ASSUME ServerInv, NEW t \in Threads, NEW c \in Conns, Close(t, c)
  PROVE  ConnTypeOK' /\ ConnInv'
<1>1. /\ UNCHANGED <<current, saved, alloc, conn, reclosed, wanted, crossed>>
      /\ closing' = closing \cup {<<t, c>>} /\ raced' = (raced \/ \E u \in Threads : <<u, c>> \in closing)
      /\ Holds(t, c) /\ conn[c].fd # "closed"
  <2>1. Accounted(conn[c]) /\ ~conn[c].isClosed
    BY ConnFields DEF Close
  <2> QED  BY <2>1 DEF Close, arenaVars, memory, Accounted
<1>2. ConnTypeOK /\ BusyInv /\ HandlersInv /\ CountsInv /\ ClosingInv
  BY DEF ServerInv, TypeOK, ConnInv
<1>3. ConnTypeOK'
  BY <1>1, <1>2 DEF ConnTypeOK
<1>4. BusyInv' /\ HandlersInv' /\ CountsInv'
  BY <1>1, <1>2 DEF BusyInv, Busy, HandlersInv, Inside, CountsInv
<1>5. ClosingInv'
  <2>1. \A u \in Threads, d \in Conns : <<u, d>> \in closing' => Holds(u, d)'
    BY <1>1, <1>2 DEF ClosingInv, Holds
  <2>2. reclosed' => raced'
    BY <1>1, <1>2 DEF ClosingInv
  <2>3. ASSUME ~raced', NEW u \in Threads, NEW d \in Conns, <<u, d>> \in closing'
        PROVE  conn[d].fd # "closed" /\ \A v \in Threads : <<v, d>> \in closing' => v = u
    <3>1. ~raced /\ \A v \in Threads : <<v, c>> \notin closing
      BY <1>1, <2>3
    <3>2. CASE d = c
      BY <1>1, <2>3, <3>1, <3>2
    <3>3. CASE d # c
      BY <1>1, <1>2, <2>3, <3>1, <3>3 DEF ClosingInv
    <3> QED  BY <3>2, <3>3
  <2> QED  BY <1>1, <2>1, <2>2, <2>3 DEF ClosingInv
<1> QED  BY <1>3, <1>4, <1>5 DEF ConnInv

(* A descriptor is closed, by who found it open or by the last release: k is
   what becomes of the connection.                                           *)
LEMMA ShutInv ==
  ASSUME ServerInv, NEW c \in Conns, NEW k \in ConnRecords, conn' = [conn EXCEPT ![c] = k],
         UNCHANGED <<current, saved, alloc, raced, wanted, crossed>>, reclosed' \in BOOLEAN,
         k.stage = conn[c].stage \/ {k.stage, conn[c].stage} \cap {"entered", "callback"} = {},
         Accounted(k), closing' \subseteq closing,
         <<Main, c>> \in closing' /\ conn[c].shared => k.shared,
         ~raced /\ k.fd = "closed" /\ conn[c].fd # "closed" => \A t \in Threads : <<t, c>> \notin closing',
         reclosed' => raced
  PROVE  ConnTypeOK' /\ ConnInv'
<1>1. ConnTypeOK /\ BusyInv /\ HandlersInv /\ CountsInv /\ ClosingInv
  BY DEF ServerInv, TypeOK, ConnInv
<1>2. ConnTypeOK'
  BY <1>1, OneConn DEF ConnTypeOK
<1>3. CountsInv'
  BY <1>1, CountsKept
<1>4. (Busy(c) => k.stage = "callback") /\ \A d \in Conns : Busy(d)' => Busy(d)
  BY <1>1 DEF BusyInv, Busy
<1>5. BusyInv'
  BY <1>1, <1>4, BusyKept
<1>6. HandlersInv'
  BY <1>1, HandlersKept
<1>7. conn[c].stage = "callback" => k.stage = "callback"
  OBVIOUS
<1>9. ClosingInv'
  BY <1>1, <1>7, ClosingKept
<1> QED  BY <1>2, <1>3, <1>5, <1>6, <1>9 DEF ConnInv

LEMMA EndCloseInv ==
  ASSUME ServerInv, NEW t \in Threads, NEW c \in Conns, EndClose(t, c)
  PROVE  ConnTypeOK' /\ ConnInv'
<1>a. PICK b \in BOOLEAN : b
  OBVIOUS
<1> DEFINE k == [conn[c] EXCEPT !.fd = "closed", !.isClosed = b]
<1>1. /\ conn[c] \in ConnRecords /\ Accounted(conn[c]) /\ ClosingInv /\ reclosed \in BOOLEAN
      /\ conn \in [Conns -> ConnRecords]
  BY ConnFields DEF ServerInv, TypeOK, ConnInv, ConnTypeOK
<1>2. conn' = [conn EXCEPT ![c] = k]
  BY <1>a, <1>1 DEF EndClose, Shut
<1>3. /\ k \in ConnRecords /\ k.stage = conn[c].stage /\ k.rc = conn[c].rc /\ k.fd = "closed"
      /\ (k.isClosed <=> b) /\ (k.shared <=> conn[c].shared)
  BY ONLY <1>1, b \in BOOLEAN DEF ConnRecords
<1> HIDE DEF k
<1>4. Holds(t, c)
  BY <1>1 DEF EndClose, ClosingInv
<1>5. Accounted(k)
  BY <1>a, <1>1, <1>3, <1>4 DEF Accounted, References, Holds
<1>6. /\ closing' = closing \ {<<t, c>>} /\ <<t, c>> \in closing
      /\ reclosed' = (reclosed \/ conn[c].fd = "closed")
      /\ UNCHANGED <<current, saved, alloc, raced, wanted, crossed>>
  BY DEF EndClose, arenaVars, memory
<1>7. ~raced => conn[c].fd # "closed" /\ \A u \in Threads : <<u, c>> \in closing => u = t
  BY <1>1, <1>6 DEF ClosingInv
<1>8. (reclosed' => raced) /\ reclosed' \in BOOLEAN
  BY <1>1, <1>6, <1>7 DEF ClosingInv
<1> QED  BY <1>2, <1>3, <1>5, <1>6, <1>7, <1>8, ShutInv

(* Releasing: the last one closes, and nobody else is closing then.          *)
LEMMA ReleasedInv ==
  ASSUME ServerInv, NEW c \in Conns, ReleaseSocket(c) \/ Unshare(c)
  PROVE  ConnTypeOK' /\ ConnInv'
<1>a. PICK b \in BOOLEAN : b
  OBVIOUS
<1>n. PICK f \in BOOLEAN : ~f
  OBVIOUS
<1> DEFINE n == conn[c].rc - 1
           shuts == LastCount(c) /\ ~conn[c].isClosed
           j == IF shuts THEN [conn[c] EXCEPT !.fd = "closed", !.isClosed = b] ELSE conn[c]
           k == IF ReleaseSocket(c) THEN [j EXCEPT !.stage = "ended", !.rc = n]
                ELSE [j EXCEPT !.shared = f, !.rc = n]
<1>1. /\ conn[c] \in ConnRecords /\ Accounted(conn[c]) /\ ClosingInv /\ reclosed \in BOOLEAN
      /\ conn \in [Conns -> ConnRecords] /\ c # Main /\ n \in Int
  <2>1. conn[c].rc \in Int
    BY ConnFields DEF ConnRecords
  <2> QED  BY <2>1, ConnFields DEF ServerInv, TypeOK, ConnInv, ConnTypeOK
<1>2. /\ j \in ConnRecords /\ j.stage = conn[c].stage /\ (j.shared <=> conn[c].shared)
      /\ j.fd = (IF shuts THEN "closed" ELSE conn[c].fd) /\ (j.isClosed <=> conn[c].isClosed \/ shuts)
      /\ (j.immortal <=> conn[c].immortal)
  <2> HIDE DEF shuts
  <2>1. CASE shuts
    BY ONLY <1>1, <1>a, <2>1 DEF ConnRecords
  <2>2. CASE ~shuts
    BY <1>1, <2>2
  <2> QED  BY <2>1, <2>2
<1>3. conn' = [conn EXCEPT ![c] = k]
  <2>1. [Released(c) EXCEPT ![c].stage = "ended", ![c].rc = n] = [conn EXCEPT ![c] = [j EXCEPT !.stage = "ended", !.rc = n]]
    BY <1>1, <1>a DEF Released, Shut
  <2>2. [Released(c) EXCEPT ![c].shared = FALSE, ![c].rc = n] = [conn EXCEPT ![c] = [j EXCEPT !.shared = f, !.rc = n]]
    BY <1>1, <1>a, <1>n DEF Released, Shut
  <2> QED  BY <2>1, <2>2 DEF ReleaseSocket, Unshare
<1> HIDE DEF j, n
<1>4. /\ k \in ConnRecords /\ k.rc = n /\ k.fd = j.fd
      /\ k.stage = (IF ReleaseSocket(c) THEN "ended" ELSE j.stage)
      /\ (k.shared <=> j.shared /\ ReleaseSocket(c)) /\ (k.isClosed <=> j.isClosed)
      /\ (k.immortal <=> j.immortal)
  <2>1. CASE ReleaseSocket(c)
    BY ONLY <1>1, <1>2, <2>1 DEF ConnRecords, Stages
  <2>2. CASE ~ReleaseSocket(c)
    BY ONLY <1>1, <1>2, <1>n, <2>2 DEF ConnRecords
  <2> QED  BY <2>1, <2>2
<1> HIDE DEF k
<1>5. /\ n = conn[c].rc - 1 /\ (ReleaseSocket(c) => conn[c].stage = "releasing")
      /\ (~ReleaseSocket(c) => conn[c].shared /\ <<Main, c>> \notin closing)
  BY DEF n, ReleaseSocket, Unshare
<1>6. Accounted(k)
  BY <1>1, <1>2, <1>4, <1>5 DEF Accounted, References, Referring, LastCount
<1>7. /\ UNCHANGED <<current, saved, alloc, closing, raced, wanted, crossed>>
      /\ reclosed' = (reclosed \/ (conn[c].fd = "closed" /\ shuts))
  BY DEF ReleaseSocket, Unshare, Release, arenaVars, memory
<1>8. (reclosed' => raced) /\ reclosed' \in BOOLEAN
  BY <1>1, <1>7 DEF Accounted, ClosingInv
<1>9. k.fd = "closed" /\ conn[c].fd # "closed" => \A t \in Threads : <<t, c>> \notin closing
  <2> SUFFICES ASSUME shuts, NEW t \in Threads, Holds(t, c), <<t, c>> \in closing PROVE FALSE
    BY <1>1, <1>2, <1>4 DEF ClosingInv
  <2>1. conn[c].rc = 1
    BY DEF LastCount
  <2> QED  BY <1>1, <1>5, <2>1 DEF Holds, Accounted, References, Referring
<1> HIDE DEF shuts
<1>10. k.stage = conn[c].stage \/ {k.stage, conn[c].stage} \cap {"entered", "callback"} = {}
  BY <1>2, <1>4, <1>5
<1>11. <<Main, c>> \in closing /\ conn[c].shared => k.shared
  BY <1>2, <1>4, <1>5
<1> QED  BY <1>3, <1>4, <1>6, <1>7, <1>8, <1>9, <1>10, <1>11, ShutInv

-----------------------------------------------------------------------------
(* The program's steps, and the allocations.                                 *)
LEMMA QuietInv ==
  ASSUME ServerInv, UNCHANGED <<conn, closing, reclosed, raced>>, crossed' \in BOOLEAN,
         \A c \in Conns : Busy(c)' => Busy(c) \/ conn[c].stage = "callback",
         \A c \in Conns : saved'[c] = saved[c],
         \/ UNCHANGED <<current, wanted, crossed>>
         \/ current' = wanted' /\ crossed' = (crossed \/ \E c \in Conns : Inside(c))
  PROVE  ConnTypeOK' /\ ConnInv'
<1>1. ConnTypeOK /\ BusyInv /\ HandlersInv /\ CountsInv /\ ClosingInv
  BY DEF ServerInv, TypeOK, ConnInv
<1>2. ConnTypeOK' /\ BusyInv' /\ CountsInv' /\ ClosingInv'
  BY <1>1 DEF ConnTypeOK, BusyInv, CountsInv, ClosingInv, Holds
<1>3. \A c \in Conns : Inside(c)' <=> Inside(c)
  BY DEF Inside
<1>4. HandlersInv'
  <2>1. CASE UNCHANGED <<current, wanted, crossed>>
    BY <1>1, <1>3, <2>1 DEF HandlersInv
  <2>2. CASE current' = wanted' /\ crossed' = (crossed \/ \E c \in Conns : Inside(c))
    BY <1>3, <2>2 DEF HandlersInv
  <2> QED  BY <2>1, <2>2
<1> QED  BY <1>2, <1>4 DEF ConnInv

LEMMA OthersRest ==
  ASSUME ArenaTypeOK, Raw(Main)
  PROVE  \A c \in Conns : alloc'[c] = alloc[c]
<1>1. alloc \in [Threads -> Allocations] /\ \A c \in Conns : c \in Threads /\ c # Main
  BY DEF ArenaTypeOK
<1> QED  BY <1>1 DEF Raw

LEMMA ProgramInv ==
  ASSUME ServerInv, ArenaStep
  PROVE  ConnTypeOK' /\ ConnInv'
<1>1. /\ UNCHANGED <<conn, closing, reclosed, raced>> /\ Main \in Threads
      /\ UNCHANGED alloc \/ Raw(Main)
  BY DEF ArenaStep, ArenaCall, ArenaSwitch, ArenaDisable, ArenaRestore, ArenaUse, ArenaDestroy,
         ArrayNew, ArrayGrow, ArrayFree, ArenaNew, ArenaRelease
<1>2. crossed \in BOOLEAN /\ saved \in [Threads -> Arenas \cup {None}]
  BY DEF ServerInv, TypeOK, ConnTypeOK, ArenaTypeOK
<1>3. \A c \in Conns : Busy(c)' => Busy(c)
  BY <1>1, OthersRest DEF Busy, ServerInv, TypeOK
<1>4. \A c \in Conns : saved'[c] = saved[c]
  BY <1>1, <1>2 DEF ArenaStep, ArenaCall, ArenaSwitch, ArenaDisable, ArenaRestore, ArenaUse, ArenaDestroy,
         ArrayNew, ArrayGrow, ArrayFree, ArenaNew, ArenaRelease
<1>5. CASE ArenaSwitch
  BY <1>1, <1>2, <1>3, <1>4, <1>5, QuietInv DEF ArenaStep
<1>6. CASE ~ArenaSwitch
  <2>1. UNCHANGED <<current, wanted, crossed>>
    BY <1>6 DEF ArenaStep, ArenaCall, ArrayNew, ArrayGrow, ArrayFree, ArenaNew, ArenaRelease
  <2> QED  BY <1>1, <1>2, <1>3, <1>4, <2>1, QuietInv
<1> QED  BY <1>5, <1>6

LEMMA AllocationInv ==
  ASSUME ServerInv, NEW t \in Threads, Allocates(t), Allocate(t), UNCHANGED netVars
  PROVE  ConnTypeOK' /\ ConnInv'
<1>1. /\ UNCHANGED <<current, saved, wanted, crossed, conn, closing, reclosed, raced>>
      /\ crossed \in BOOLEAN /\ alloc \in [Threads -> Allocations]
  BY DEF Allocate, Begin, Load, Crash, TestArena, TestRoom, Grow, Chain, Place, Move, memory,
         netVars, ServerInv, TypeOK, ConnTypeOK, ArenaTypeOK
<1>2. \A u \in Threads \ {t} : alloc'[u] = alloc[u]
  BY <1>1 DEF Allocate, Begin, Raw, Load, Crash, TestArena, TestRoom, Grow, Chain, Place, Move
<1>3. \A c \in Conns : Busy(c)' => Busy(c) \/ conn[c].stage = "callback"
  BY <1>2 DEF Busy, Allocates
<1> QED  BY <1>1, <1>3, QuietInv

(* Every step keeps all of it.                                               *)
LEMMA StepInv ==
  ASSUME ServerInv, [Next]_vars
  PROVE  ServerInv'
<1>1. CASE UNCHANGED vars
  <2>1. UNCHANGED <<memory, alloc, uses, netVars>>
    BY <1>1 DEF vars, arenaVars
  <2>2. ArenaTypeOK' /\ ArenaInv'
    BY <2>1, ArenaUntouched DEF ServerInv, TypeOK
  <2>3. /\ UNCHANGED <<conn, closing, reclosed, raced, current, wanted, crossed, saved, alloc>>
        /\ crossed \in BOOLEAN
    BY <2>1 DEF memory, netVars, ServerInv, TypeOK, ConnTypeOK
  <2>4. \A c \in Conns : Busy(c)' => Busy(c)
    BY <2>3 DEF Busy
  <2>5. ConnTypeOK' /\ ConnInv'
    BY <2>3, <2>4, QuietInv
  <2> QED  BY <2>2, <2>5 DEF ServerInv, TypeOK
<1>2. CASE Next
  <2>1. ArenaTypeOK' /\ ArenaInv'
    BY <1>2, ArenaStepInv
  <2>2. ASSUME Keep \/ Listen \/ ArrayElements \/ ArrayHas, UNCHANGED <<conn, closing, reclosed, raced, wanted, crossed>>
        PROVE  ConnTypeOK' /\ ConnInv'
    <3>1. UNCHANGED <<current, saved>> /\ crossed \in BOOLEAN /\ alloc \in [Threads -> Allocations]
      BY <2>2 DEF Keep, Listen, ArrayElements, ArrayHas, arenaVars, memory, ServerInv, TypeOK,
         ConnTypeOK, ArenaTypeOK
    <3>2. \A c \in Conns : Busy(c)' => Busy(c)
      <4>1. CASE ArrayElements
        BY <4>1, OthersRest DEF ArrayElements, Busy, ServerInv, TypeOK
      <4> QED  BY <2>2, <3>1, <4>1 DEF Keep, Listen, ArrayHas, arenaVars, Busy, Idle
    <3> QED  BY <2>2, <3>1, <3>2, QuietInv
  <2>3. ASSUME NEW c \in Conns
        PROVE  /\ ReleaseSocket(c) \/ Unshare(c) => ConnTypeOK' /\ ConnInv'
               /\ \A t \in Threads : Close(t, c) \/ EndClose(t, c) => ConnTypeOK' /\ ConnInv'
               /\ Accept(c) \/ Connect(c) => ConnTypeOK' /\ ConnInv'
               /\ NewSocket(c) \/ Connected(c) => ConnTypeOK' /\ ConnInv'
               /\ PutArenaAside(c) \/ ClearArena(c) => ConnTypeOK' /\ ConnInv'
               /\ StartHandler(c) \/ Share(c) \/ CallbackReturns(c) => ConnTypeOK' /\ ConnInv'
    BY ReleasedInv, CloseInv, EndCloseInv, OpenedInv, MadeInv, EnterInv, StartInv, ShareInv, ReturnInv
  <2>4. ASSUME Listen \/ ((Keep \/ ArrayElements \/ ArrayHas) /\ UNCHANGED netVars)
        PROVE  ConnTypeOK' /\ ConnInv'
    BY <2>2, <2>4 DEF Listen, netVars
  <2>5. ConnTypeOK' /\ ConnInv'
    BY <1>2, <2>3, <2>4, ProgramInv, AllocationInv DEF Next
  <2> QED  BY <2>1, <2>5 DEF ServerInv, TypeOK
<1> QED  BY <1>1, <1>2

LEMMA InitInv ==
  ASSUME Init
  PROVE  ServerInv
<1>1. ArenaTypeOK
  <2>1. [state |-> "new", refs |-> 0, buffer |-> 0, offset |-> 0, chain |-> <<>>] \in ArenaRecords
    <3>1. <<>> \in Seq(Nat)
      BY EmptySeq
    <3> QED  BY <3>1 DEF ArenaRecords
  <2>2. Idle \in Allocations /\ NoArray \in ArrayRecords
    BY DEF Idle, Allocations, NoArray, ArrayRecords
  <2>3. blocks \in Seq(BOOLEAN) /\ objects \in Seq(Nat \X Nat)
    BY EmptySeq DEF Init, ArenaInit
  <2> QED  BY <2>1, <2>2, <2>3 DEF Init, ArenaInit, ArenaTypeOK
<1>2. ConnTypeOK
  <2>1. NoConn \in ConnRecords
    BY DEF NoConn, ConnRecords, Stages
  <2> QED  BY <2>1 DEF Init, ConnTypeOK
<1>3. \A t \in Threads : ~Busy(t)
  BY DEF Init, ArenaInit, Idle, Busy
<1>4. BuffersInv
  BY DEF Init, ArenaInit, BuffersInv, Used, Chained, ToSet
<1>5. MemoryInv
  BY DEF Init, ArenaInit, MemoryInv, Live
<1>6. ObjectsInv /\ ApartInv /\ PointersInv
  BY <1>3 DEF Init, ArenaInit, ObjectsInv, ApartInv, IsInjective, PointersInv, Points, Swapped, Idle
<1>7. ArrayInv /\ FaultsInv
  BY DEF Init, ArenaInit, NoArray, ArrayInv, HeapInv, HeaderInv, FlagInv, FaultsInv,
     FreedArenasAreNotUsed, OnlyHeapMemoryIsFreed
<1>8. ConnInv
  BY <1>3 DEF Init, ArenaInit, NoConn, ConnInv, BusyInv, HandlersInv, Inside, CountsInv, Accounted, References,
              Referring, ClosingInv
<1> QED  BY <1>1, <1>2, <1>4, <1>5, <1>6, <1>7, <1>8 DEF ServerInv, TypeOK, ArenaInv

-----------------------------------------------------------------------------
(* Everything named at the head of this module holds throughout.             *)
THEOREM ServerInvariant == Spec => []ServerInv
<1>1. Init => ServerInv
  BY InitInv
<1>2. ServerInv /\ [Next]_vars => ServerInv'
  BY StepInv
<1> QED  BY <1>1, <1>2, PTL DEF Spec

(* Objects given out by the arenas never share memory, and none of an
   allocation's reads of g_current_arena finds the arena gone, unless another
   thread met it (xt_arena_alloc_raw, xt_malloc).                            *)
THEOREM ObjectsDoNotOverlap == Spec => []ObjectsAreApart
<1>1. ServerInv => ObjectsAreApart
  BY DEF ServerInv, ArenaInv, ApartInv, FaultsInv, ObjectsAreApart
<1> QED  BY <1>1, ServerInvariant, PTL

(* Freed memory is used only through an arena destroyed while put aside
   (xt_arena_disable, conn_handler), or by an allocation that met another
   thread's between its reads of g_current_arena (xt_arena_alloc_raw).       *)
THEOREM FreedMemoryIsGone == Spec => []FreedArenasAreNotUsed
<1>1. ServerInv => FreedArenasAreNotUsed
  BY DEF ServerInv, ArenaInv, FaultsInv
<1> QED  BY <1>1, ServerInvariant, PTL

(* free and realloc get an arena's memory only after an array with elements on
   the heap grew under an arena (xt_array_append), or the current arena changed
   between an array's header and its elements (xt_array_new).                *)
THEOREM ArenaMemoryIsNotFreed == Spec => []OnlyHeapMemoryIsFreed
<1>1. ServerInv => OnlyHeapMemoryIsFreed
  BY DEF ServerInv, ArenaInv, FaultsInv
<1> QED  BY <1>1, ServerInvariant, PTL

(* A served connection ends closed, and no descriptor is closed twice unless
   two threads closed the socket at once (xt_net_close_obj, xt_release).     *)
THEOREM ClosedOnce == Spec => []ConnectionsAreClosedOnce
<1>1. ServerInv => ConnectionsAreClosedOnce
  BY DEF ServerInv, ConnInv, CountsInv, Accounted, ClosingInv, ConnectionsAreClosedOnce
<1> QED  BY <1>1, ServerInvariant, PTL

(* conn_handler leaves the current arena as the program set it, unless handlers
   ran into each other or the program changed it under one.                  *)
THEOREM ArenaComesBack == Spec => []HandlersKeepTheArena
<1>1. ServerInv => HandlersKeepTheArena
  BY DEF ServerInv, ConnInv, HandlersInv, HandlersKeepTheArena
<1> QED  BY <1>1, ServerInvariant, PTL
=============================================================================
