-------------------------------- MODULE Heap --------------------------------
(* Reference counting and weak references of the C runtime (xt_runtime.c).

   An object has a count; whoever keeps a reference to it retains it, and the
   release that brings the count to 0 frees it: its weak references are
   cleared, what it holds is released (which may free more), and its memory is
   given back.  The list of weak references is global; registering locks its
   mutex, and the walk that clears references does not.

   A container is a sequence of cells: the elements of an array or the waiting
   values of a channel, the value and error of a result, the result of a task,
   and key after value for each entry of a dictionary or an instance.  A
   container is used by its owner's thread only; any thread may hold counts on
   it.  A thread's calls are sequences of primitive steps (todo), so that calls
   of two threads, and the frees inside them, interleave.

   Using freed memory is undefined, and so is changing the weak list, or a
   dictionary, that another thread is using: the threads stop there. *)
EXTENDS Integers, Sequences, SequencesExt, FiniteSetsExt

CONSTANTS
  Threads, Objects,
  Programs,  \* sets of objects that a run of the program may allocate
  Null,      \* XT_NULL; stands for every value that is not an object
  Kind,      \* an object's type: "string", "sequence", "pair" or "dict"
  Owner,     \* the thread that creates an object, and alone uses it if it is a container
  Fits,      \* what the program puts into each container
  Text,      \* what xt_compare sees of a key
  WeakVars,  \* variables of the program that hold a weak reference
  Nodes,     \* memory for the entries of the weak list
  Immortal,  \* XT_REF_COUNT_IMMORTAL
  MaxCalls, MaxCells, MaxHeld   \* bounds: calls on containers and weak references,
                                \*   elements of an array, counts a thread owns

ASSUME HeapAssumption ==
  /\ IsFiniteSet(Threads) /\ IsFiniteSet(Objects) /\ IsFiniteSet(Nodes)
  /\ Null \notin Objects \cup WeakVars /\ Null \notin Nodes
  /\ Kind \in [Objects -> {"string", "sequence", "pair", "dict"}]
  /\ Owner \in [Objects -> Threads] /\ Fits \in [Objects -> SUBSET Objects]
  /\ {MaxCalls, MaxCells, MaxHeld} \subseteq Nat /\ Immortal \in Nat \ {0, 1}

VARIABLES
  mem,       \* an object's memory: "unused" in this run, "new", "live", "dying" in
             \*   xt_free_obj, "freed"
  rc,        \* its count
  cells,     \* a container's cells, and whether a cell was stored as weak
  weakVar,   \* g_weak_slots and what it points to: the program's variables,
  node,      \*   the list's entries,
  link,      \*   and where each link points (Null: the head, g_weak_slots)
  held,      \* counts that the program's threads own
  todo,      \* what is left of a thread's call
  calls

\* What happened on the way (no code reads these)
VARIABLES
  borrowed,    \* objects used without a count that stands for it: taken so by a
               \*   caller that needs one, released without having been retained,
               \*   or in a container that was freed while a thread owned it
  skew,        \* releases of an object beyond the references it lost
  touched,     \* objects used when freed or being freed
  raced,       \* a thread changed the weak list while another walked it, or
               \*   cleared a weak entry of another thread's dictionary
  broken       \* a walk followed a freed entry

counts == <<mem, rc, cells, held, borrowed, skew>>
weak == <<weakVar, node, link, raced, broken>>
vars == <<counts, weak, todo, calls, touched>>

Values == Objects \cup {Null}
Cell == [to : Values, weak : BOOLEAN]
Strong(v) == [to |-> v, weak |-> FALSE]
Weakly(v) == [to |-> v, weak |-> v # Null]
NewEntry == [used |-> "no", on |-> Null, var |-> Null, dict |-> Null, key |-> Null]

Init ==
  /\ \E new \in Programs : mem = [o \in Objects |-> IF o \in new THEN "new" ELSE "unused"]
  /\ rc = [o \in Objects |-> 0]
  /\ cells = [o \in Objects |-> <<>>]
  /\ weakVar = [w \in WeakVars |-> Null]
  /\ node = [n \in Nodes |-> NewEntry] /\ link = [n \in Nodes \cup {Null} |-> Null]
  /\ held = [t \in Threads |-> [o \in Objects |-> 0]]
  /\ todo = [t \in Threads |-> <<>>] /\ calls = 0
  /\ borrowed = {} /\ skew = [o \in Objects |-> 0] /\ touched = {}
  /\ raced = FALSE /\ broken = FALSE

-----------------------------------------------------------------------------
Defined == touched = {} /\ ~broken /\ ~raced

(* The primitive steps of a call *)
Retaining(v) == [op |-> "retain", on |-> v]
Releasing(v) == [op |-> "release", on |-> v]
Storing(c, i, v) == [op |-> "store", on |-> c, at |-> i, value |-> v]
Visiting(o, p) == [op |-> "visit", on |-> o, from |-> p]
Unlinking(o, p, n) == [op |-> "unlink", on |-> o, from |-> p, entry |-> n]
Emptying(o, i) == [op |-> "empty", on |-> o, at |-> i]

Before(t, ops) == todo' = [todo EXCEPT ![t] = ops \o Tail(@)]
Walks(op) == op.op \in {"visit", "unlink"}
Places == UNION {{t} \X DOMAIN todo[t] : t \in Threads}
At(x) == todo[x[1]][x[2]]
Walked(t) == \E u \in Threads \ {t} : \E i \in DOMAIN todo[u] : Walks(todo[u][i])

(* xt_retain; an immortal object's count stands still *)
Retained(o) == IF rc[o] >= Immortal THEN rc ELSE [rc EXCEPT ![o] = @ + 1]
Touch(v) == touched' = touched \cup (IF mem[v] = "live" THEN {} ELSE {v})
RetainNow(v) == rc' = Retained(v) /\ Touch(v)
Retain(t, v) ==
  /\ UNCHANGED <<mem, cells, weak, held, calls, borrowed, skew>>
  /\ Before(t, <<>>)
  /\ IF v = Null THEN UNCHANGED <<rc, touched>> ELSE RetainNow(v)

(* xt_release: the last one frees the object, its weak references first *)
BadIsLast(o) == rc[o] <= 2
IsLast(o) == rc[o] = 1
Release(t, v) ==
  /\ UNCHANGED <<cells, weak, held, calls, borrowed, skew>>
  /\ IF v = Null THEN Before(t, <<>>) /\ UNCHANGED <<mem, rc, touched>>
     ELSE /\ Touch(v)
          /\ rc' = IF rc[v] >= Immortal \/ mem[v] # "live" THEN rc ELSE [rc EXCEPT ![v] = @ - 1]
          /\ IF IsLast(v) /\ mem[v] = "live"
             THEN /\ mem' = [mem EXCEPT ![v] = "dying"]
                  /\ Before(t, <<Visiting(v, Null), Emptying(v, 1)>>)
             ELSE Before(t, <<>>) /\ UNCHANGED mem

(* The keys of a dictionary are its odd cells, each before its value.       *)
Entry(d, k) == {i \in DOMAIN cells[d] : i % 2 = 1 /\ Text[cells[d][i].to] = Text[k]}
Value(d, k) == 1 + CHOOSE i \in Entry(d, k) : TRUE
WithEntry(d, k, v) == [cells EXCEPT ![d] = @ \o <<Strong(k), v>>]
Overwritten(c, i, v) == [cells EXCEPT ![c][i] = v]

(* A cell whose reference was retained and is not yet being released: not
   one to be stored over, nor one that xt_free_obj has come past.           *)
Released(c, i) == \E x \in Places : At(x).op = "empty" /\ At(x).on = c /\ At(x).at > i
Replaced(c, i) == \E x \in Places : At(x).op = "store" /\ At(x).on = c /\ At(x).at = i
Counted(c, i) ==
  /\ mem[c] \in {"live", "dying"} /\ ~cells[c][i].weak /\ cells[c][i].to # Null
  /\ ~Released(c, i) /\ ~Replaced(c, i)

(* Releasing the value of a weak entry, which was never retained, or one that
   was released to be stored over, and overwriting a retained one without a
   release.                                                                 *)
Excess(c, i) ==
  IF cells[c][i].weak \/ Replaced(c, i) THEN [skew EXCEPT ![cells[c][i].to] = @ + 1] ELSE skew
Surplus(c, i) == IF cells[c][i].weak \/ Replaced(c, i) THEN {cells[c][i].to} ELSE {}
Leak(c, i) == IF Counted(c, i) THEN [skew EXCEPT ![cells[c][i].to] = @ - 1] ELSE skew

(* xt_dict_set_weak *)
SetWeak(d, k, v) ==
  IF Entry(d, k) # {}
  THEN cells' = Overwritten(d, Value(d, k), Weakly(v)) /\ skew' = Leak(d, Value(d, k))
  ELSE cells' = WithEntry(d, k, Weakly(v)) /\ UNCHANGED skew
BadKeyRetained(d, k) == <<>>
KeyRetained(d, k) == IF Entry(d, k) # {} THEN <<>> ELSE <<Retaining(k)>>

(* A dictionary being freed still has the entries not yet released.         *)
InTable(d, k) ==
  \/ mem[d] = "live"
  \/ mem[d] = "dying" /\ \E i \in Entry(d, k) : ~Released(d, i + 2)

(* xt_weak_clear: one round of the walk looks at the entry that a link points
   to, clears what refers to the dying object, and then unlinks the entry.  *)
BadRefersTo(n, o) == node[n].on = o /\ node[n].dict = Null
RefersTo(n, o) == node[n].on = o
ClearVar(n, o) ==
  /\ weakVar' = IF weakVar[node[n].var] = o THEN [weakVar EXCEPT ![node[n].var] = Null] ELSE weakVar
  /\ UNCHANGED <<cells, skew, touched>>
ClearEntry(n) ==
  LET d == node[n].dict IN
  /\ IF InTable(d, node[n].key)
     THEN SetWeak(d, node[n].key, Null) /\ UNCHANGED touched
     ELSE touched' = touched \cup {d} /\ UNCHANGED <<cells, skew>>
  /\ UNCHANGED weakVar

Written(t, n) ==   \* a new entry, in a dictionary that the thread owns no count of
  LET d == node[n].dict IN InTable(d, node[n].key) /\ Entry(d, node[n].key) = {} /\ held[t][d] = 0

Visit(t, o, p) ==
  LET n == link[p] IN
  /\ UNCHANGED <<mem, rc, held, calls, node, link>>
  /\ broken' = \E x \in {n, p} \ {Null} : node[x].used # "yes"
  /\ IF n = Null \/ broken' THEN Before(t, <<>>) /\ UNCHANGED <<weakVar, cells, skew, borrowed, touched, raced>>
     ELSE IF ~RefersTo(n, o) THEN Before(t, <<Visiting(o, n)>>) /\ UNCHANGED <<weakVar, cells, skew, borrowed, touched, raced>>
     ELSE IF node[n].var # Null THEN ClearVar(n, o) /\ Before(t, <<Unlinking(o, p, n)>>) /\ UNCHANGED <<borrowed, raced>>
     ELSE /\ ClearEntry(n) /\ raced' = (Owner[node[n].dict] # t)
          /\ borrowed' = borrowed \cup (IF Written(t, n) THEN {node[n].key} ELSE {})
          /\ Before(t, KeyRetained(node[n].dict, node[n].key)
                         \o <<Releasing(node[n].key), Unlinking(o, p, n)>>)

Unlink(t, o, p, n) ==
  /\ UNCHANGED <<counts, weakVar, calls, touched>>
  /\ broken' = \E x \in {n, p} \ {Null} : node[x].used # "yes"
  /\ link' = [link EXCEPT ![p] = link[n]]
  /\ node' = [node EXCEPT ![n].used = "freed"]
  /\ raced' = Walked(t)
  /\ Before(t, <<Visiting(o, p)>>)

(* The rest of xt_free_obj: release what the object holds, then its memory. *)
Orphaned(o, i) == IF \E u \in Threads : held[u][o] > 0 THEN {cells[o][i].to} ELSE {}
Empty(t, o, i) ==
  /\ UNCHANGED <<rc, cells, weak, held, calls, touched>>
  /\ IF i > Len(cells[o])
     THEN mem' = [mem EXCEPT ![o] = "freed"] /\ Before(t, <<>>) /\ UNCHANGED <<borrowed, skew>>
     ELSE /\ Before(t, <<Releasing(cells[o][i].to), Emptying(o, i + 1)>>)
          /\ skew' = Excess(o, i) /\ borrowed' = borrowed \cup Surplus(o, i) \cup Orphaned(o, i)
          /\ UNCHANGED mem

Store(t, c, i, v) ==
  /\ UNCHANGED <<mem, rc, weak, held, calls, borrowed, skew>>
  /\ cells' = Overwritten(c, i, Strong(v)) /\ Touch(c)
  /\ Before(t, <<>>)

Step(t) ==
  /\ todo[t] # <<>> /\ Defined
  /\ LET s == Head(todo[t]) IN
     \/ s.op = "retain" /\ Retain(t, s.on)
     \/ s.op = "release" /\ Release(t, s.on)
     \/ s.op = "store" /\ Store(t, s.on, s.at, s.value)
     \/ s.op = "visit" /\ Visit(t, s.on, s.from)
     \/ s.op = "unlink" /\ Unlink(t, s.on, s.from, s.entry)
     \/ s.op = "empty" /\ Empty(t, s.on, s.at)

-----------------------------------------------------------------------------
(* The calls.  A thread uses what it holds a count on, or borrows from a
   container of its own (array_get and dict_get do not retain) or from a weak
   reference.                                                               *)
Mine(t, kind) == {o \in Objects : Kind[o] = kind /\ Owner[o] = t /\ mem[o] = "live" /\ held[t][o] > 0}
Held(t) == {o \in Objects : held[t][o] > 0}
Lent(t, weakly) ==
  LET mine == UNION {Mine(t, k) : k \in {"sequence", "pair", "dict"}} IN
  UNION {{cells[c][i].to : i \in {j \in DOMAIN cells[c] : cells[c][j].weak = weakly}} : c \in mine}
Safe(t) == (Held(t) \cup Lent(t, FALSE)) \ {Null}
Usable(t) == (Safe(t) \cup Lent(t, TRUE) \cup {weakVar[w] : w \in WeakVars}) \ {Null}
Keys == {o \in Objects : Kind[o] = "string"}

(* What a call takes without a count: from a weak reference, or to store it
   over an element.                                                         *)
Borrow(t, os) == borrowed' = borrowed \cup (os \ Safe(t))
BorrowOver(t, os) == borrowed' = borrowed \cup (os \ Held(t))

Start(t, ops) == todo' = [todo EXCEPT ![t] = ops]
Call(t, ops) ==
  /\ calls < MaxCalls /\ calls' = calls + 1
  /\ Start(t, ops)
OnlyCells == UNCHANGED <<mem, rc, held, weak, touched>>

(* xt_malloc without an arena, as in array_new, dict_new, instance_new,
   func_new and task_new; a result retains its value and its error.         *)
NewCells(t, o, vs) ==
  /\ mem[o] = "new" /\ Owner[o] = t
  /\ mem' = [mem EXCEPT ![o] = "live"] /\ rc' = [rc EXCEPT ![o] = 1]
  /\ held' = [held EXCEPT ![t][o] = 1]
  /\ cells' = [cells EXCEPT ![o] = [i \in DOMAIN vs |-> Strong(vs[i])]]
  /\ Start(t, [i \in DOMAIN vs |-> Retaining(vs[i])])
  /\ Borrow(t, ToSet(vs) \ {Null})
  /\ UNCHANGED <<weak, skew, calls, touched>>
New(t, o) == Kind[o] # "pair" /\ NewCells(t, o, <<>>)
NewResult(t, o, value, error) == Kind[o] = "pair" /\ NewCells(t, o, <<value, error>>)

Keep(t, o) ==
  /\ held[t][o] < MaxHeld
  /\ held' = [held EXCEPT ![t][o] = @ + 1] /\ RetainNow(o) /\ Borrow(t, {o})
  /\ Call(t, <<>>) /\ UNCHANGED <<mem, cells, weak, skew>>
LetGo(t, o) ==
  /\ held' = [held EXCEPT ![t][o] = @ - 1] /\ Start(t, <<Releasing(o)>>)
  /\ UNCHANGED <<mem, rc, cells, weak, calls, touched, borrowed, skew>>
Hand(t, u, o) ==
  /\ t # u /\ held[u][o] = 0
  /\ held' = [held EXCEPT ![t][o] = @ - 1, ![u][o] = 1] /\ Call(t, <<>>)
  /\ UNCHANGED <<mem, rc, cells, weak, borrowed, skew, touched>>
RetainForever(t, o) ==
  /\ mem[o] = "live"
  /\ rc' = [rc EXCEPT ![o] = Immortal] /\ Call(t, <<>>)
  /\ UNCHANGED <<mem, cells, held, weak, borrowed, skew, touched>>

ArrayInsert(t, a, i, v) ==   \* after the last element: xt_array_append
  /\ Len(cells[a]) < MaxCells
  /\ cells' = [cells EXCEPT ![a] = InsertAt(@, i, Strong(v))] /\ RetainNow(v) /\ Call(t, <<>>)
  /\ Borrow(t, {v}) /\ UNCHANGED <<mem, held, weak, skew>>
ArrayPop(t, a) ==
  /\ cells[a] # <<>>
  /\ held' = [held EXCEPT ![t][Last(cells[a]).to] = @ + 1]
  /\ cells' = [cells EXCEPT ![a] = Front(@)] /\ Call(t, <<>>)
  /\ UNCHANGED <<mem, rc, weak, borrowed, skew, touched>>
ArraySet(t, a, i, v) ==
  /\ Call(t, <<Releasing(cells[a][i].to), Storing(a, i, v), Retaining(v)>>)
  /\ BorrowOver(t, {v}) /\ OnlyCells /\ UNCHANGED <<cells, skew>>
ArrayRemove(t, a, i) ==
  /\ cells' = [cells EXCEPT ![a] = RemoveAt(@, i)] /\ Call(t, <<Releasing(cells[a][i].to)>>)
  /\ OnlyCells /\ UNCHANGED <<borrowed, skew>>
Tos(c, from, step) == [i \in 1 .. (Len(cells[c]) - from) \div step + 1 |-> cells[c][from + step * (i - 1)].to]
ArraySlice(t, a, i, o) == Kind[o] = "sequence" /\ NewCells(t, o, Tos(a, i, 1))
DictList(t, d, first, o) ==   \* dict_keys from the first cell, dict_values from the second
  cells[d] # <<>> /\ Kind[o] = "sequence" /\ NewCells(t, o, Tos(d, first, 2))

DictSet(t, d, k, v) ==
  /\ IF Entry(d, k) # {}
     THEN LET i == Value(d, k) IN
          /\ Call(t, <<Releasing(cells[d][i].to), Storing(d, i, v), Retaining(v)>>)
          /\ borrowed' = borrowed \cup ({v} \ Held(t)) \cup Surplus(d, i)
          /\ skew' = Excess(d, i) /\ UNCHANGED cells
     ELSE /\ cells' = WithEntry(d, k, Strong(v)) /\ Call(t, <<Retaining(k), Retaining(v)>>)
          /\ Borrow(t, {k, v}) /\ UNCHANGED skew
  /\ OnlyCells
DictRemove(t, d, k) ==
  /\ Entry(d, k) # {}
  /\ LET i == Value(d, k) IN
     /\ skew' = Excess(d, i) /\ borrowed' = borrowed \cup Surplus(d, i)
     /\ Call(t, <<Releasing(cells[d][i - 1].to), Releasing(cells[d][i].to)>>)
     /\ cells' = [cells EXCEPT ![d] = RemoveAt(RemoveAt(@, i), i - 1)]
  /\ OnlyCells

(* A weak reference is stored, and registered at the head of the list.      *)
Register(t, n, e) ==
  /\ node[n].used = "no"
  /\ node' = [node EXCEPT ![n] = e]
  /\ link' = [link EXCEPT ![n] = link[Null], ![Null] = n]
  /\ raced' = Walked(t) /\ UNCHANGED broken
WeakInit(t, w, v, n) ==
  /\ Register(t, n, [NewEntry EXCEPT !.used = "yes", !.on = v, !.var = w])
  /\ weakVar' = [weakVar EXCEPT ![w] = v] /\ Call(t, <<>>)
  /\ UNCHANGED <<counts, touched>>
DictSetWeak(t, d, k, v, n) ==   \* with the xt_dict_weak_init that follows it
  /\ Register(t, n, [NewEntry EXCEPT !.used = "yes", !.on = v, !.dict = d, !.key = k])
  /\ SetWeak(d, k, v) /\ Call(t, KeyRetained(d, k) \o <<Retaining(k)>>)
  /\ Borrow(t, {k}) /\ UNCHANGED <<mem, rc, held, weakVar, touched>>

OnArray(t, a) ==
  \/ ArrayPop(t, a)
  \/ \E v \in Usable(t) \cap Fits[a] :
       \/ \E i \in 1 .. Len(cells[a]) + 1 : ArrayInsert(t, a, i, v)
       \/ \E i \in DOMAIN cells[a] : ArraySet(t, a, i, v)
  \/ \E i \in DOMAIN cells[a] : ArrayRemove(t, a, i) \/ \E o \in Objects : ArraySlice(t, a, i, o)
OnDict(t, d) ==
  \/ \E o \in Objects, first \in 1 .. 2 : DictList(t, d, first, o)
  \/ \E k \in Usable(t) \cap Keys :
       \/ DictRemove(t, d, k)
       \/ \E v \in Usable(t) \cap Fits[d] : DictSet(t, d, k, v)
       \/ \E v \in Held(t) \cap Fits[d], n \in Nodes : DictSetWeak(t, d, k, v, n)

Operation(t) ==
  /\ todo[t] = <<>> /\ Defined
  /\ \/ \E o \in Objects :
          \/ New(t, o)
          \/ \E v, e \in (Usable(t) \cap Fits[o]) \cup {Null} : NewResult(t, o, v, e)
     \/ \E o \in Usable(t) : Keep(t, o)
     \/ \E o \in Held(t) :
          \/ LetGo(t, o) \/ RetainForever(t, o)
          \/ \E u \in Threads : Hand(t, u, o)
          \/ \E w \in WeakVars, n \in Nodes : WeakInit(t, w, o, n)
     \/ \E a \in Mine(t, "sequence") : OnArray(t, a)
     \/ \E d \in Mine(t, "dict") : OnDict(t, d)

Next == \E t \in Threads : Step(t) \/ Operation(t)
Spec == Init /\ [][Next]_vars

-----------------------------------------------------------------------------
(* References to an object that its count stands for: counted cells, and
   keys of the weak list's entries until they are released.                 *)
References(o) == UNION {{c} \X {i \in DOMAIN cells[c] : cells[c][i].to = o /\ Counted(c, i)} : c \in Objects}
UnlinkSoon(n) == \E x \in Places : At(x).op = "unlink" /\ At(x).entry = n
KeyOf(o) == {n \in Nodes : node[n].used = "yes" /\ node[n].key = o /\ ~UnlinkSoon(n)}
Owned(o) == UNION {{t} \X (1 .. held[t][o]) : t \in Threads}
Remaining(op, o) == {x \in Places : At(x).op = op /\ At(x).on = o}
Arriving(o) == {x \in Places : At(x).op = "store" /\ At(x).value = o}

(* A count is exact: the counts threads own, the references in containers and
   in the weak list, what is still to be released and retained, and the
   releases that had no retain (a weak dictionary value released as if it were
   strong) -- through every cascade of frees and every overwrite.            *)
CountsAreExact == Defined =>
  \A o \in Objects : mem[o] = "live" /\ rc[o] < Immortal =>
    rc[o] = Cardinality(Owned(o)) + Cardinality(References(o)) + Cardinality(KeyOf(o))
              + Cardinality(Remaining("release", o)) + Cardinality(Arriving(o))
              - Cardinality(Remaining("retain", o)) - skew[o]

(* However the frees cascade and the threads' calls interleave: of the objects
   that nobody uses without a count (borrowed), one that is being freed, or is
   freed, is owned by no thread and in no cell that counts; and the only way such
   an object is still used is through the weak list, whose walk clears an entry
   of a dictionary that died before the value it held weakly.                *)
Dead(o) == mem[o] \in {"dying", "freed"}
NothingFreedIsReached == \A o \in Objects \ borrowed :
  /\ o \in touched => \E n \in Nodes : node[n].dict = o
  /\ Dead(o) => Owned(o) = {} /\ References(o) = {}

(* Unless a thread changed the list or the dictionary under another's hands
   (registering takes the list's mutex, the walk does not), a weak variable or
   a weak entry never refers to freed memory, and the walk follows an entry that
   is gone only if a weak entry's key is itself weakly referred to (the walk
   releases the key, which may free it and walk the list inside).            *)
Dangles(v) == v # Null /\ mem[v] = "freed" /\ v \notin borrowed
WeakReferencesAreCleared ==
  raced \/ touched # {} \/
    /\ broken => \E m, n \in Nodes : node[m].key # Null /\ node[m].key = node[n].on
    /\ \A w \in WeakVars : ~Dangles(weakVar[w])
    /\ \A c \in Objects : \A i \in DOMAIN cells[c] :
         mem[c] = "live" /\ cells[c][i].weak => ~Dangles(cells[c][i].to)
=============================================================================
