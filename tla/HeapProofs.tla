----------------------------- MODULE HeapProofs -----------------------------
(***************************************************************************)
(* Reference counts are exact, for any number of threads, objects, weak    *)
(* references and calls.                                                   *)
(*                                                                         *)
(* A count is what is owned of the object, what containers refer to it,    *)
(* the keys that the weak list keeps, and what threads have still to do to *)
(* it, less the skew that the model names.  That is not inductive alone.   *)
(* Which cells count depends on who is emptying or about to store into the *)
(* container; so the invariant adds that of each there is one at a time    *)
(* (StepsInv), that nothing refers to what is not born yet (BornInv), and  *)
(* that keys and values alternate in a dictionary (CellsInv), where a weak *)
(* entry of the list is a dictionary's or a variable's (NodesInv).         *)
(*                                                                         *)
(* Every step takes the first step off a thread's list and puts others in  *)
(* its place, or begins a call with a new list.  So each part of the count *)
(* moves by what that one thread does and by what one container changes,   *)
(* and these add up to nothing.                                            *)
(***************************************************************************)
EXTENDS Heap, CommonLemmas

USE HeapAssumption

-----------------------------------------------------------------------------
(* The invariant.  Objects are born before anything mentions them; keys and *)
(* values alternate in a dictionary; of an object that is being freed there *)
(* is one walk and one emptying, by the thread that released it last, and   *)
(* a container's owner stores into it once at a time; then the counts.      *)
Links == Nodes \cup {Null}

(* The primitive steps that a call is made of. *)
Operations ==
       [op : {"retain", "release"}, on : Values]
  \cup [op : {"store"}, on : Objects, at : Nat \ {0}, value : Objects]
  \cup [op : {"visit"}, on : Objects, from : Links]
  \cup [op : {"unlink"}, on : Objects, from : Links, entry : Nodes]
  \cup [op : {"empty"}, on : Objects, at : Nat \ {0}]
HeapTypeOK ==
  /\ mem \in [Objects -> {"unused", "new", "live", "dying", "freed"}]
  /\ rc \in [Objects -> Int] /\ skew \in [Objects -> Int]
  /\ cells \in [Objects -> Seq(Cell)] /\ weakVar \in [WeakVars -> Values]
  /\ node \in [Nodes -> [used : {"no", "yes", "freed"}, on : Values, var : WeakVars \cup {Null},
                         dict : Values, key : Values]]
  /\ link \in [Links -> Links]
  /\ held \in [Threads -> [Objects -> Nat]]
  /\ todo \in [Threads -> Seq(Operations)]

(* An object is born when its constructor ends; before, nothing mentions it. *)
Born == {o \in Objects : mem[o] \in {"live", "dying", "freed"}}
BornInv ==
  /\ \A o \in Objects \ Born : skew[o] = 0 /\ \A t \in Threads : held[t][o] = 0
  /\ \A c \in Objects : \A i \in DOMAIN cells[c] : cells[c][i].to \in Born \cup {Null}
  /\ \A x \in Places : At(x).on \in Born \cup {Null} /\ (At(x).op = "store" => At(x).value \in Born)
  /\ \A n \in Nodes : {node[n].dict, node[n].key, node[n].on} \subseteq Born \cup {Null}
  /\ \A w \in WeakVars : weakVar[w] \in Born \cup {Null}

(* Only dictionaries hold weak values, at even places behind their keys. *)
CellsOf(c) ==
  /\ \A i \in DOMAIN cells[c] : cells[c][i].weak => Kind[c] = "dict" /\ cells[c][i].to # Null
  /\ Kind[c] = "dict" =>
       Len(cells[c]) % 2 = 0 /\ \A i \in DOMAIN cells[c] : i % 2 = 1 => ~cells[c][i].weak /\ cells[c][i].to # Null
CellsInv == \A c \in Objects : CellsOf(c)

(* An entry of the weak list is a variable's, or a dictionary's with its    *)
(* key.                                                                     *)
NodesInv == \A n \in Nodes : node[n].used = "yes" =>
  IF node[n].var # Null THEN node[n].key = Null
  ELSE node[n].dict \in Objects /\ Kind[node[n].dict] = "dict" /\ node[n].key \in Objects

(* The steps of a kind that some thread has still to make. *)
Pending(S) == {x \in Places : At(x) \in S}
EmptiesOf(c) == {s \in Operations : s.op = "empty" /\ s.on = c}
WalksFor(o) == {s \in Operations : s.op \in {"visit", "unlink"} /\ s.on = o}
StoresInto(c) == {s \in Operations : s.op = "store" /\ s.on = c}

(* What a step that is left to do relies on. *)
StepOK(t, s) ==
  /\ s.op = "store" => Owner[s.on] = t /\ s.at \in DOMAIN cells[s.on]
  /\ s.op = "empty" => mem[s.on] = "dying"
  /\ s.op \in {"visit", "unlink"} => mem[s.on] \in {"dying", "freed"}
  /\ s.op = "unlink" => node[s.entry].on = s.on /\ node[s.entry].used # "no"
StepsInv ==
  /\ \A x \in Places : StepOK(x[1], At(x))
  /\ \A c \in Objects :
       /\ Cardinality(Pending(EmptiesOf(c))) <= 1 /\ Cardinality(Pending(WalksFor(c))) <= 1
       /\ Cardinality(Pending(StoresInto(c))) <= 1

(* A count is what the model says it stands for. *)
CountIs(o) ==
  rc[o] = Cardinality(Owned(o)) + Cardinality(References(o)) + Cardinality(KeyOf(o))
            + Cardinality(Remaining("release", o)) + Cardinality(Arriving(o))
            - Cardinality(Remaining("retain", o)) - skew[o]
CountsInv == \A o \in Objects : mem[o] = "live" /\ rc[o] < Immortal => CountIs(o)

(* The inductive invariant. *)
HeapOK == HeapTypeOK /\ BornInv /\ CellsInv /\ NodesInv /\ StepsInv /\ CountsInv

(* It stands while no thread has used freed memory or overtaken a walk. *)
HeapInv == Defined => HeapOK
-----------------------------------------------------------------------------
(* What is left to do, counted: when one thread's list of steps changes. *)
LEMMA StepsCounted ==
  ASSUME todo \in [Threads -> Seq(Operations)], NEW t \in Threads, NEW q \in Seq(Operations),
         todo' = [todo EXCEPT ![t] = q], NEW S
  PROVE  /\ IsFiniteSet(Pending(S)) /\ Cardinality(Pending(S)) \in Nat
         /\ IsFiniteSet(Pending(S)') /\ Cardinality(Pending(S)') \in Nat
         /\ todo' \in [Threads -> Seq(Operations)]
         /\ Cardinality(Pending(S)') + Cardinality(Picked(todo[t], S))
              = Cardinality(Pending(S)) + Cardinality(Picked(q, S))
<1> DEFINE F == [u \in Threads |-> Picked(todo[u], S)]  G == [u \in Threads |-> Picked(todo'[u], S)]
<1>1. todo' \in [Threads -> Seq(Operations)] /\ todo'[t] = q
  OBVIOUS
<1>2. Pending(S) = Family(F, Threads)
  BY DEF Pending, Places, At, Family, Picked
<1>3. Pending(S)' = Family(G, Threads)
  BY DEF Pending, Places, At, Family, Picked
<1>4. \A u \in Threads : IsFiniteSet(F[u]) /\ IsFiniteSet(G[u])
  BY <1>1, PickedAre
<1>5. F[t] = Picked(todo[t], S) /\ G[t] = Picked(q, S) /\ \A u \in Threads \ {t} : G[u] = F[u]
  BY <1>1
<1>6. IsFiniteSet(Threads)
  BY DEF HeapAssumption
<1> HIDE DEF F, G
<1>7. /\ IsFiniteSet(Family(F, Threads)) /\ Cardinality(Family(F, Threads)) \in Nat
      /\ IsFiniteSet(Family(G, Threads)) /\ Cardinality(Family(G, Threads)) \in Nat
      /\ Cardinality(Family(G, Threads)) + Cardinality(F[t]) = Cardinality(Family(F, Threads)) + Cardinality(G[t])
  <2>1. Alike(F, G, Threads, t)
    BY <1>4, <1>5 DEF Alike
  <2> QED  BY <1>6, <2>1, OnePart
<1> QED  BY <1>1, <1>2, <1>3, <1>5, <1>7

(* When a thread's first step is replaced by others. *)
LEMMA StepsReplaced ==
  ASSUME todo \in [Threads -> Seq(Operations)], NEW t \in Threads, NEW ops \in Seq(Operations),
         todo[t] # <<>>, Before(t, ops), NEW S
  PROVE  /\ Cardinality(Pending(S)) \in Nat /\ Cardinality(Pending(S)') \in Nat
         /\ Cardinality(Pending(S)') + (IF Head(todo[t]) \in S THEN 1 ELSE 0)
              = Cardinality(Pending(S)) + Cardinality(Picked(ops, S))
<1> DEFINE a == todo[t]  q == ops \o Tail(a)
<1>1. a \in Seq(Operations) /\ a # <<>>
  OBVIOUS
<1> HIDE DEF a
<1>2. Tail(a) \in Seq(Operations)
      /\ Cardinality(Picked(a, S)) = (IF Head(a) \in S THEN 1 ELSE 0) + Cardinality(Picked(Tail(a), S))
  BY <1>1, PickedTail
<1> DEFINE r == Tail(a)
<1>3. r \in Seq(Operations)
  BY <1>2
<1>4. todo' = [todo EXCEPT ![t] = q]
  BY DEF Before, a
<1> HIDE DEF r
<1>5. ops \o r \in Seq(Operations)
      /\ Cardinality(Picked(ops \o r, S)) = Cardinality(Picked(ops, S)) + Cardinality(Picked(r, S))
  BY <1>3, PickedJoined
<1>6. q = ops \o r
  BY DEF r
<1> HIDE DEF q
<1>7. /\ Cardinality(Pending(S)) \in Nat /\ Cardinality(Pending(S)') \in Nat
      /\ Cardinality(Pending(S)') + Cardinality(Picked(a, S)) = Cardinality(Pending(S)) + Cardinality(Picked(q, S))
  BY <1>4, <1>5, <1>6, StepsCounted DEF a
<1>8. /\ Cardinality(Picked(r, S)) \in Nat /\ Cardinality(Picked(ops, S)) \in Nat
  BY <1>3, PickedAre
<1>9. Cardinality(Picked(Tail(a), S)) = Cardinality(Picked(r, S)) /\ Head(a) = Head(todo[t])
  BY DEF a, r
<1> DEFINE pa == Cardinality(Picked(a, S))  pr == Cardinality(Picked(r, S))  po == Cardinality(Picked(ops, S))
           p0 == Cardinality(Pending(S))  p1 == Cardinality(Pending(S)')  h == IF Head(a) \in S THEN 1 ELSE 0
<1>10. pr \in Nat /\ po \in Nat /\ p0 \in Nat /\ p1 \in Nat /\ h \in Nat /\ pa = h + pr /\ p1 + pa = p0 + (po + pr)
  BY <1>2, <1>5, <1>6, <1>7, <1>8, <1>9
<1> HIDE DEF pa, pr, po, p0, p1, h
<1>11. p0 \in Nat /\ p1 \in Nat /\ p1 + h = p0 + po
  BY <1>10
<1> QED  BY <1>9, <1>11 DEF p0, p1, po, h

(* Which steps are left, and whose.                                         *)
LEMMA StepsAre ==
  ASSUME todo \in [Threads -> Seq(Operations)]
  PROVE  \A x \in Places : /\ x = <<x[1], x[2]>> /\ x[1] \in Threads /\ x[2] \in DOMAIN todo[x[1]]
                           /\ todo[x[1]] # <<>> /\ At(x) \in Operations
<1> SUFFICES ASSUME NEW x \in Places
             PROVE /\ x = <<x[1], x[2]>> /\ x[1] \in Threads /\ x[2] \in DOMAIN todo[x[1]]
                   /\ todo[x[1]] # <<>> /\ At(x) \in Operations
  OBVIOUS
<1>1. x = <<x[1], x[2]>> /\ x[1] \in Threads /\ x[2] \in DOMAIN todo[x[1]]
  BY DEF Places
<1> DEFINE s == todo[x[1]]
<1>2. s \in Seq(Operations)
  BY <1>1
<1> HIDE DEF s
<1>3. \A i \in DOMAIN s : s[i] \in Operations /\ s # <<>>
  BY <1>2, LenProperties, ElementOfSeq, EmptySeq
<1> QED  BY <1>1, <1>3 DEF s, At

(* After a step, what is left was left before, or replaces it. *)
LEMMA StepsLeft ==
  ASSUME todo \in [Threads -> Seq(Operations)], NEW t \in Threads, NEW ops \in Seq(Operations),
         todo[t] # <<>>, Before(t, ops)
  PROVE  /\ todo' \in [Threads -> Seq(Operations)]
         /\ <<t, 1>> \in Places /\ At(<<t, 1>>) = Head(todo[t])
         /\ \A y \in Places' : \/ y[1] = t /\ \E i \in DOMAIN ops : At(y)' = ops[i]
                               \/ \E x \in Places \ {<<t, 1>>} : x[1] = y[1] /\ At(y)' = At(x)
<1> DEFINE a == todo[t]  r == Tail(a)  q == ops \o r  m == Len(ops)  n == Len(a)
<1>1. a \in Seq(Operations) /\ a # <<>>
  OBVIOUS
<1> HIDE DEF a
<1>2. n \in Nat /\ n > 0 /\ DOMAIN a = 1 .. n /\ m \in Nat /\ DOMAIN ops = 1 .. m
  BY <1>1, LenProperties, EmptySeq
<1>3. Head(a) = a[1] /\ r \in Seq(Operations) /\ Len(r) = n - 1 /\ \A i \in 1 .. n - 1 : r[i] = a[i + 1]
  BY <1>1, <1>2, HeadTailProperties
<1> HIDE DEF r, n, m
<1>4. q \in Seq(Operations) /\ Len(q) = m + (n - 1)
      /\ \A i \in 1 .. m + (n - 1) : q[i] = IF i <= m THEN ops[i] ELSE r[i - m]
  <2>1. q \in Seq(Operations) /\ Len(q) = Len(ops) + Len(r)
        /\ \A i \in 1 .. Len(ops) + Len(r) : q[i] = IF i <= Len(ops) THEN ops[i] ELSE r[i - Len(ops)]
    BY <1>3, ConcatProperties
  <2>2. Len(ops) = m /\ Len(r) = n - 1
    BY <1>3 DEF m
  <2> QED  BY <2>1, <2>2
<1>5. DOMAIN q = 1 .. m + (n - 1)
  BY <1>4, LenProperties
<1>6. todo' = [todo EXCEPT ![t] = q]
  BY DEF Before, a, r
<1> HIDE DEF q
<1>7. todo' \in [Threads -> Seq(Operations)] /\ todo'[t] = q /\ \A u \in Threads \ {t} : todo'[u] = todo[u]
  BY <1>4, <1>6
<1>8. <<t, 1>> \in Places /\ At(<<t, 1>>) = Head(todo[t])
  <2>1. 1 \in DOMAIN todo[t]
    BY <1>2 DEF a
  <2> QED  BY <1>3, <2>1 DEF Places, At, a
<1>9. ASSUME NEW y \in Places'
      PROVE  \/ y[1] = t /\ \E i \in DOMAIN ops : At(y)' = ops[i]
             \/ \E x \in Places \ {<<t, 1>>} : x[1] = y[1] /\ At(y)' = At(x)
  <2>1. PICK u \in Threads, i \in Nat : i \in DOMAIN todo'[u] /\ y = <<u, i>>
    <3>1. \A u \in Threads : todo'[u] \in Seq(Operations)
      BY <1>7
    <3>2. \A u \in Threads : \A i \in DOMAIN todo'[u] : i \in Nat
      BY <3>1, LenProperties
    <3>3. PICK u \in Threads : \E i \in DOMAIN todo'[u] : y = <<u, i>>
      BY DEF Places
    <3> QED  BY <3>2, <3>3
  <2>2. At(y)' = todo'[u][i]
    BY <2>1 DEF At
  <2>3. CASE u # t
    <3>1. <<u, i>> \in Places /\ At(<<u, i>>) = At(y)' /\ <<u, i>> # <<t, 1>>
      BY <1>7, <2>1, <2>2, <2>3 DEF Places, At
    <3> QED  BY <2>1, <3>1
  <2>4. CASE u = t /\ i <= m
    <3>1. i \in 1 .. m /\ i \in 1 .. m + (n - 1)
      BY <1>2, <1>5, <1>7, <2>1, <2>4
    <3>2. At(y)' = ops[i] /\ i \in DOMAIN ops
      BY <1>2, <1>4, <1>7, <2>2, <2>4, <3>1
    <3> QED  BY <2>1, <2>4, <3>2
  <2>5. CASE u = t /\ ~(i <= m)
    <3>0. i \in 1 .. m + (n - 1)
      BY <1>5, <1>7, <2>1, <2>5
    <3>1. i - m \in 1 .. n - 1 /\ (i - m) + 1 \in DOMAIN a /\ (i - m) + 1 # 1
      BY <1>2, <2>5, <3>0
    <3>2. q[i] = a[(i - m) + 1]
      BY <1>3, <1>4, <2>5, <3>0, <3>1
    <3> DEFINE j == (i - m) + 1
    <3>3. <<t, j>> \in Places /\ At(<<t, j>>) = a[j] /\ <<t, j>> # <<t, 1>>
      BY <3>1 DEF Places, At, a
    <3> QED  BY <1>7, <2>1, <2>2, <2>5, <3>2, <3>3
  <2> QED  BY <2>3, <2>4, <2>5
<1> QED  BY <1>7, <1>8, <1>9

(* When a call begins, what is left was left before, or is the call's. *)
LEMMA StepsStarted ==
  ASSUME todo \in [Threads -> Seq(Operations)], NEW t \in Threads, NEW ops \in Seq(Operations),
         todo[t] = <<>>, Start(t, ops)
  PROVE  /\ todo' \in [Threads -> Seq(Operations)]
         /\ \A y \in Places' : \/ y[1] = t /\ \E i \in DOMAIN ops : At(y)' = ops[i]
                               \/ y \in Places /\ y[1] # t /\ At(y)' = At(y)
         /\ \A S : /\ Cardinality(Pending(S)) \in Nat /\ Cardinality(Pending(S)') \in Nat
                   /\ Cardinality(Pending(S)') = Cardinality(Pending(S)) + Cardinality(Picked(ops, S))
<1>1. todo' = [todo EXCEPT ![t] = ops]
  BY DEF Start
<1>2. ASSUME NEW S
      PROVE  /\ Cardinality(Pending(S)) \in Nat /\ Cardinality(Pending(S)') \in Nat
             /\ Cardinality(Pending(S)') = Cardinality(Pending(S)) + Cardinality(Picked(ops, S))
  <2>1. /\ Cardinality(Pending(S)) \in Nat /\ Cardinality(Pending(S)') \in Nat
        /\ Cardinality(Pending(S)') + Cardinality(Picked(todo[t], S)) = Cardinality(Pending(S)) + Cardinality(Picked(ops, S))
    BY <1>1, StepsCounted
  <2>2. Cardinality(Picked(todo[t], S)) = 0 /\ Cardinality(Picked(ops, S)) \in Nat
    BY PickedNone, PickedAre
  <2> QED  BY <2>1, <2>2
<1>3. \A y \in Places' : \/ y[1] = t /\ \E i \in DOMAIN ops : At(y)' = ops[i]
                         \/ y \in Places /\ y[1] # t /\ At(y)' = At(y)
  BY <1>1 DEF Places, At
<1> QED  BY <1>1, <1>2, <1>3
-----------------------------------------------------------------------------
(* The sets of steps that the counts and marks are about.                   *)
Waiting(op, o) == {s \in Operations : s.op = op /\ s.on = o}
Bringing(o) == {s \in Operations : s.op = "store" /\ s.value = o}
EmptiesPast(c, i) == {s \in Operations : s.op = "empty" /\ s.on = c /\ s.at > i}
StoresAt(c, i) == {s \in Operations : s.op = "store" /\ s.on = c /\ s.at = i}
UnlinksOf(n) == {s \in Operations : s.op = "unlink" /\ s.entry = n}

(* The model's marks and counts, as numbers of steps that are left. *)
LEMMA Marks ==
  ASSUME todo \in [Threads -> Seq(Operations)]
  PROVE  /\ \A S : IsFiniteSet(Pending(S)) /\ Cardinality(Pending(S)) \in Nat
                   /\ (Cardinality(Pending(S)) > 0 <=> \E x \in Places : At(x) \in S)
         /\ \A op, o : Remaining(op, o) = Pending(Waiting(op, o))
         /\ \A o : Arriving(o) = Pending(Bringing(o))
         /\ \A c, i : Released(c, i) <=> Cardinality(Pending(EmptiesPast(c, i))) > 0
         /\ \A c, i : Replaced(c, i) <=> Cardinality(Pending(StoresAt(c, i))) > 0
         /\ \A n : UnlinkSoon(n) <=> Cardinality(Pending(UnlinksOf(n))) > 0
<1>1. ASSUME NEW S
      PROVE IsFiniteSet(Pending(S)) /\ Cardinality(Pending(S)) \in Nat
            /\ (Cardinality(Pending(S)) > 0 <=> \E x \in Places : At(x) \in S)
  <2> DEFINE F == [u \in Threads |-> Picked(todo[u], S)]
  <2>1. \A u \in Threads : IsFiniteSet(F[u])
    BY PickedAre
  <2>2. Pending(S) = Family(F, Threads)
    BY DEF Pending, Places, At, Family, Picked
  <2>3. IsFiniteSet(Threads)
    BY DEF HeapAssumption
  <2>4. \A t \in Threads : Alike(F, F, Threads, t)
    BY <2>1 DEF Alike
  <2> HIDE DEF F
  <2>5. \A t \in Threads : IsFiniteSet(Family(F, Threads))
    BY <2>3, <2>4, OnePart
  <2>6. IsFiniteSet(Family(F, Threads))
    <3>1. CASE Threads = {}
      <4>1. Family(F, Threads) = {}
        BY <3>1 DEF Family
      <4> QED  BY <4>1, FS_EmptySet
    <3> QED  BY <2>5, <3>1
  <2>7. Cardinality(Pending(S)) \in Nat /\ (Cardinality(Pending(S)) = 0 <=> Pending(S) = {})
    BY <2>2, <2>6, FS_CardinalityType, FS_EmptySet
  <2>8. Pending(S) # {} <=> \E x \in Places : At(x) \in S
    BY DEF Pending
  <2>9. Cardinality(Pending(S)) > 0 <=> Pending(S) # {}
    BY <2>7
  <2> QED  BY <2>2, <2>6, <2>7, <2>8, <2>9
<1>2. \A x \in Places : At(x) \in Operations
  BY StepsAre
<1>3. \A op, o : Remaining(op, o) = Pending(Waiting(op, o))
  BY <1>2 DEF Remaining, Pending, Waiting
<1>4. \A o : Arriving(o) = Pending(Bringing(o))
  BY <1>2 DEF Arriving, Pending, Bringing
<1>5. \A c, i : Released(c, i) <=> Cardinality(Pending(EmptiesPast(c, i))) > 0
  BY <1>1, <1>2 DEF Released, EmptiesPast
<1>6. \A c, i : Replaced(c, i) <=> Cardinality(Pending(StoresAt(c, i))) > 0
  BY <1>1, <1>2 DEF Replaced, StoresAt
<1>7. \A n : UnlinkSoon(n) <=> Cardinality(Pending(UnlinksOf(n))) > 0
  BY <1>1, <1>2 DEF UnlinkSoon, UnlinksOf
<1> QED  BY <1>1, <1>3, <1>4, <1>5, <1>6, <1>7

(* The same of the next state. *)
LEMMA MarksAfter ==
  ASSUME todo' \in [Threads -> Seq(Operations)]
  PROVE  /\ \A S : IsFiniteSet(Pending(S)') /\ Cardinality(Pending(S)') \in Nat
                   /\ (Cardinality(Pending(S)') > 0 <=> \E x \in Places' : At(x)' \in S)
         /\ \A op, o : Remaining(op, o)' = Pending(Waiting(op, o))'
         /\ \A o : Arriving(o)' = Pending(Bringing(o))'
         /\ \A c, i : Released(c, i)' <=> Cardinality(Pending(EmptiesPast(c, i))') > 0
         /\ \A c, i : Replaced(c, i)' <=> Cardinality(Pending(StoresAt(c, i))') > 0
         /\ \A n : UnlinkSoon(n)' <=> Cardinality(Pending(UnlinksOf(n))') > 0
<1>1. ASSUME NEW S
      PROVE IsFiniteSet(Pending(S)') /\ Cardinality(Pending(S)') \in Nat
            /\ (Cardinality(Pending(S)') > 0 <=> \E x \in Places' : At(x)' \in S)
  <2> DEFINE F == [u \in Threads |-> Picked(todo'[u], S)]
  <2>1. \A u \in Threads : IsFiniteSet(F[u])
    BY PickedAre
  <2>2. Pending(S)' = Family(F, Threads)
    BY DEF Pending, Places, At, Family, Picked
  <2>3. IsFiniteSet(Threads)
    BY DEF HeapAssumption
  <2>4. \A t \in Threads : Alike(F, F, Threads, t)
    BY <2>1 DEF Alike
  <2> HIDE DEF F
  <2>5. \A t \in Threads : IsFiniteSet(Family(F, Threads))
    BY <2>3, <2>4, OnePart
  <2>6. IsFiniteSet(Family(F, Threads))
    <3>1. CASE Threads = {}
      <4>1. Family(F, Threads) = {}
        BY <3>1 DEF Family
      <4> QED  BY <4>1, FS_EmptySet
    <3> QED  BY <2>5, <3>1
  <2>7. Cardinality(Pending(S)') \in Nat /\ (Cardinality(Pending(S)') = 0 <=> Pending(S)' = {})
    BY <2>2, <2>6, FS_CardinalityType, FS_EmptySet
  <2>8. Pending(S)' # {} <=> \E x \in Places' : At(x)' \in S
    BY DEF Pending
  <2>9. Cardinality(Pending(S)') > 0 <=> Pending(S)' # {}
    BY <2>7
  <2> QED  BY <2>2, <2>6, <2>7, <2>8, <2>9
<1>2. \A x \in Places' : At(x)' \in Operations
  BY ElementOfSeq, LenProperties DEF Places, At
<1>3. \A op, o : Remaining(op, o)' = Pending(Waiting(op, o))'
  BY <1>2 DEF Remaining, Pending, Waiting
<1>4. \A o : Arriving(o)' = Pending(Bringing(o))'
  BY <1>2 DEF Arriving, Pending, Bringing
<1>5. \A c, i : Released(c, i)' <=> Cardinality(Pending(EmptiesPast(c, i))') > 0
  BY <1>1, <1>2 DEF Released, EmptiesPast
<1>6. \A c, i : Replaced(c, i)' <=> Cardinality(Pending(StoresAt(c, i))') > 0
  BY <1>1, <1>2 DEF Replaced, StoresAt
<1>7. \A n : UnlinkSoon(n)' <=> Cardinality(Pending(UnlinksOf(n))') > 0
  BY <1>1, <1>2 DEF UnlinkSoon, UnlinksOf
<1> QED  BY <1>1, <1>3, <1>4, <1>5, <1>6, <1>7
-----------------------------------------------------------------------------
(* References, counts owned and keys, counted.                              *)
RefsIn(c, o) == {i \in DOMAIN cells[c] : cells[c][i].to = o /\ Counted(c, i)}

(* If one container changes, the references to an object change as its own  *)
(* do.                                                                      *)
LEMMA RefsCounted ==
  ASSUME cells \in [Objects -> Seq(Cell)], cells' \in [Objects -> Seq(Cell)], NEW o, NEW c \in Objects,
         \A d \in Objects \ {c} : RefsIn(d, o)' = RefsIn(d, o)
  PROVE  /\ Cardinality(References(o)) \in Nat /\ Cardinality(References(o)') \in Nat
         /\ Cardinality(RefsIn(c, o)) \in Nat /\ Cardinality(RefsIn(c, o)') \in Nat
         /\ IsFiniteSet(RefsIn(c, o)) /\ IsFiniteSet(RefsIn(c, o)')
         /\ Cardinality(References(o)') + Cardinality(RefsIn(c, o))
              = Cardinality(References(o)) + Cardinality(RefsIn(c, o)')
<1> DEFINE F == [d \in Objects |-> RefsIn(d, o)]  G == [d \in Objects |-> RefsIn(d, o)']
<1>1. References(o) = Family(F, Objects)
  BY DEF References, Family, RefsIn
<1>2. References(o)' = Family(G, Objects)
  BY DEF References, Family, RefsIn
<1>3. ASSUME NEW s \in Seq(Cell) PROVE IsFiniteSet(DOMAIN s)
  <2>1. Picked(s, Cell) = DOMAIN s
    BY ElementOfSeq, LenProperties DEF Picked
  <2> QED  BY <2>1, PickedAre
<1>4. \A d \in Objects : IsFiniteSet(RefsIn(d, o)) /\ IsFiniteSet(RefsIn(d, o)')
  <2> TAKE d \in Objects
  <2>1. IsFiniteSet(DOMAIN cells[d]) /\ IsFiniteSet(DOMAIN cells'[d])
    BY <1>3
  <2>2. RefsIn(d, o) \subseteq DOMAIN cells[d] /\ RefsIn(d, o)' \subseteq DOMAIN cells'[d]
    BY DEF RefsIn
  <2> QED  BY <2>1, <2>2, FS_Subset
<1>5. F[c] = RefsIn(c, o) /\ G[c] = RefsIn(c, o)' /\ IsFiniteSet(Objects) /\ Alike(F, G, Objects, c)
  BY <1>4 DEF HeapAssumption, Alike
<1> HIDE DEF F, G
<1>6. /\ IsFiniteSet(Family(F, Objects)) /\ Cardinality(Family(F, Objects)) \in Nat
      /\ IsFiniteSet(Family(G, Objects)) /\ Cardinality(Family(G, Objects)) \in Nat
      /\ Cardinality(F[c]) \in Nat /\ Cardinality(G[c]) \in Nat
      /\ Cardinality(Family(G, Objects)) + Cardinality(F[c]) = Cardinality(Family(F, Objects)) + Cardinality(G[c])
  BY <1>5, OnePart
<1> QED  BY <1>1, <1>2, <1>4, <1>5, <1>6

(* If one thread's holdings change, what is owned of an object does as these*)
(* do.                                                                      *)
LEMMA OwnedCounted ==
  ASSUME held \in [Threads -> [Objects -> Nat]], held' \in [Threads -> [Objects -> Nat]],
         NEW o \in Objects, NEW t \in Threads, \A u \in Threads \ {t} : held'[u][o] = held[u][o]
  PROVE  /\ Cardinality(Owned(o)) \in Nat /\ Cardinality(Owned(o)') \in Nat
         /\ held[t][o] \in Nat /\ held'[t][o] \in Nat
         /\ Cardinality(Owned(o)') + held[t][o] = Cardinality(Owned(o)) + held'[t][o]
<1> DEFINE F == [u \in Threads |-> 1 .. held[u][o]]  G == [u \in Threads |-> 1 .. held'[u][o]]
<1>1. Owned(o) = Family(F, Threads) /\ Owned(o)' = Family(G, Threads)
  BY DEF Owned, Family
<1>2. \A n \in Nat : IsFiniteSet(1 .. n) /\ Cardinality(1 .. n) = n
  <2> TAKE n \in Nat
  <2>1. 1 \in Int /\ n \in Int /\ (1 > n => n = 0) /\ n - 1 + 1 = n
    OBVIOUS
  <2> QED  BY <2>1, FS_Interval
<1>3. \A u \in Threads : held[u][o] \in Nat /\ held'[u][o] \in Nat
  OBVIOUS
<1>4. /\ IsFiniteSet(Threads) /\ Alike(F, G, Threads, t)
      /\ Cardinality(F[t]) = held[t][o] /\ Cardinality(G[t]) = held'[t][o]
  BY <1>2, <1>3 DEF HeapAssumption, Alike
<1> HIDE DEF F, G
<1>5. /\ Cardinality(Family(F, Threads)) \in Nat /\ Cardinality(Family(G, Threads)) \in Nat
      /\ Cardinality(Family(G, Threads)) + Cardinality(F[t]) = Cardinality(Family(F, Threads)) + Cardinality(G[t])
  BY <1>4, OnePart
<1> QED  BY <1>1, <1>3, <1>4, <1>5

(* The keys that the weak list keeps are finitely many. *)
LEMMA KeysCounted ==
  ASSUME NEW o
  PROVE  /\ IsFiniteSet(KeyOf(o)) /\ Cardinality(KeyOf(o)) \in Nat
         /\ IsFiniteSet(KeyOf(o)') /\ Cardinality(KeyOf(o)') \in Nat
<1>1. IsFiniteSet(Nodes)
  BY DEF HeapAssumption
<1>2. KeyOf(o) \subseteq Nodes /\ KeyOf(o)' \subseteq Nodes
  BY DEF KeyOf
<1> QED  BY <1>1, <1>2, FS_Subset, FS_CardinalityType

(* A thread's first step is among those that are left. *)
LEMMA FirstStep ==
  ASSUME HeapTypeOK, NEW t \in Threads, todo[t] # <<>>
  PROVE  /\ Head(todo[t]) \in Operations /\ <<t, 1>> \in Places /\ At(<<t, 1>>) = Head(todo[t])
         /\ <<>> \in Seq(Operations)
<1>1. todo[t] \in Seq(Operations)
  BY DEF HeapTypeOK
<1> DEFINE a == todo[t]
<1>2. a \in Seq(Operations) /\ a # <<>>
  BY <1>1
<1> HIDE DEF a
<1>3. Head(a) \in Operations /\ Head(a) = a[1] /\ 1 \in DOMAIN a
  BY <1>2, HeadTailProperties, LenProperties, EmptySeq
<1> QED  BY <1>3 DEF a, Places, At

(* All that makes up a count is a number. *)
LEMMA SizesAre ==
  ASSUME HeapTypeOK, NEW o \in Objects
  PROVE  /\ Cardinality(Owned(o)) \in Nat /\ Cardinality(References(o)) \in Nat /\ Cardinality(KeyOf(o)) \in Nat
         /\ Cardinality(Remaining("release", o)) \in Nat /\ Cardinality(Remaining("retain", o)) \in Nat
         /\ Cardinality(Arriving(o)) \in Nat
<1>1. /\ Cardinality(Remaining("release", o)) \in Nat /\ Cardinality(Remaining("retain", o)) \in Nat
      /\ Cardinality(Arriving(o)) \in Nat
  BY Marks DEF HeapTypeOK
<1>2. Cardinality(KeyOf(o)) \in Nat
  BY KeysCounted
<1>3. Cardinality(References(o)) \in Nat
  <2> DEFINE F == [d \in Objects |-> RefsIn(d, o)]
  <2>1. References(o) = Family(F, Objects)
    BY DEF References, Family, RefsIn
  <2>2. ASSUME NEW d \in Objects PROVE IsFiniteSet(RefsIn(d, o))
    <3>1. cells[d] \in Seq(Cell)
      BY DEF HeapTypeOK
    <3>2. RefsIn(d, o) = Picked(cells[d], {r \in Cell : r.to = o}) \cap RefsIn(d, o)
      BY <3>1, ElementOfSeq, LenProperties DEF Picked, RefsIn
    <3>3. IsFiniteSet(Picked(cells[d], {r \in Cell : r.to = o}))
      BY <3>1, PickedAre
    <3> QED  BY <3>2, <3>3, FS_Subset
  <2>3. IsFiniteSet(Objects) /\ Alike(F, F, Objects, o)
    BY <2>2 DEF HeapAssumption, Alike
  <2> HIDE DEF F
  <2>4. Cardinality(Family(F, Objects)) \in Nat
    BY <2>3, OnePart
  <2> QED  BY <2>1, <2>4
<1>4. Cardinality(Owned(o)) \in Nat
  <2> DEFINE F == [u \in Threads |-> 1 .. held[u][o]]
  <2>1. Owned(o) = Family(F, Threads)
    BY DEF Owned, Family
  <2>2. \A n \in Nat : IsFiniteSet(1 .. n)
    BY FS_Interval
  <2>3. IsFiniteSet(Threads) /\ \A t \in Threads : Alike(F, F, Threads, t)
    BY <2>2 DEF HeapAssumption, Alike, HeapTypeOK
  <2>4. Owner[o] \in Threads
    BY DEF HeapAssumption
  <2> HIDE DEF F
  <2>5. Cardinality(Family(F, Threads)) \in Nat
    BY <2>3, <2>4, OnePart
  <2> QED  BY <2>1, <2>5
<1> QED  BY <1>1, <1>2, <1>3, <1>4
-----------------------------------------------------------------------------
(* What is left to do to an object's count, and what a list of steps adds.  *)
Work(o) == Cardinality(Remaining("release", o)) + Cardinality(Arriving(o)) - Cardinality(Remaining("retain", o))
WorkIn(ops, o) == Cardinality(Picked(ops, Waiting("release", o))) + Cardinality(Picked(ops, Bringing(o)))
                    - Cardinality(Picked(ops, Waiting("retain", o)))

(* What a step is to do to o's count. *)
Weight(s, o) == IF s.op = "release" /\ s.on = o THEN 1 ELSE IF s.op = "store" /\ s.value = o THEN 1
                ELSE IF s.op = "retain" /\ s.on = o THEN -1 ELSE 0

(* A step's weight, by the sets of steps it is in. *)
LEMMA Weights ==
  ASSUME NEW s \in Operations, NEW o
  PROVE  /\ Weight(s, o) \in Int
         /\ Weight(s, o) = (IF s \in Waiting("release", o) THEN 1 ELSE 0) + (IF s \in Bringing(o) THEN 1 ELSE 0)
                             - (IF s \in Waiting("retain", o) THEN 1 ELSE 0)
<1>1. CASE s.op = "release"
  BY <1>1 DEF Weight, Waiting, Bringing
<1>2. CASE s.op = "store"
  BY <1>2 DEF Weight, Waiting, Bringing
<1>3. CASE s.op = "retain"
  BY <1>3 DEF Weight, Waiting, Bringing
<1>4. CASE s.op \notin {"release", "store", "retain"}
  BY <1>4 DEF Weight, Waiting, Bringing
<1> QED  BY <1>1, <1>2, <1>3, <1>4

(* What a short list of steps is to do to a count. *)
LEMMA WorkOfFew ==
  ASSUME NEW o
  PROVE  /\ WorkIn(<<>>, o) = 0
         /\ \A a \in Operations : WorkIn(<<a>>, o) = Weight(a, o)
         /\ \A a, b \in Operations : WorkIn(<<a, b>>, o) = Weight(a, o) + Weight(b, o)
         /\ \A a, b, c \in Operations : WorkIn(<<a, b, c>>, o) = Weight(a, o) + Weight(b, o) + Weight(c, o)
<1> DEFINE I(s, S) == IF s \in S THEN 1 ELSE 0
           X == Waiting("release", o)  Y == Bringing(o)  Z == Waiting("retain", o)
<1>1. \A s \in Operations : /\ I(s, X) \in Int /\ I(s, Y) \in Int /\ I(s, Z) \in Int
                            /\ Weight(s, o) = I(s, X) + I(s, Y) - I(s, Z)
  BY Weights
<1>2. \A S : Cardinality(Picked(<<>>, S)) = 0
  BY PickedNone
<1>3. \A S, a : Cardinality(Picked(<<a>>, S)) = I(a, S)
  BY PickedOne
<1>4. \A S, a, b : Cardinality(Picked(<<a, b>>, S)) = I(a, S) + I(b, S)
  BY PickedTwo
<1>5. \A S, a, b, c : Cardinality(Picked(<<a, b, c>>, S)) = I(a, S) + I(b, S) + I(c, S)
  BY PickedThree
<1> HIDE DEF I, X, Y, Z
<1>6. \A ops : WorkIn(ops, o) = Cardinality(Picked(ops, X)) + Cardinality(Picked(ops, Y)) - Cardinality(Picked(ops, Z))
  BY DEF WorkIn, X, Y, Z
<1>7. WorkIn(<<>>, o) = 0
  BY <1>2, <1>6
<1>8. \A a \in Operations : WorkIn(<<a>>, o) = Weight(a, o)
  <2> TAKE a \in Operations
  <2>1. WorkIn(<<a>>, o) = I(a, X) + I(a, Y) - I(a, Z)
    BY <1>3, <1>6
  <2> QED  BY <1>1, <2>1
<1>9. \A a, b \in Operations : WorkIn(<<a, b>>, o) = Weight(a, o) + Weight(b, o)
  <2> TAKE a, b \in Operations
  <2>1. WorkIn(<<a, b>>, o) = (I(a, X) + I(b, X)) + (I(a, Y) + I(b, Y)) - (I(a, Z) + I(b, Z))
    BY <1>4, <1>6
  <2> QED  BY <1>1, <2>1
<1>10. \A a, b, c \in Operations : WorkIn(<<a, b, c>>, o) = Weight(a, o) + Weight(b, o) + Weight(c, o)
  <2> TAKE a, b, c \in Operations
  <2>1. WorkIn(<<a, b, c>>, o)
          = (I(a, X) + I(b, X) + I(c, X)) + (I(a, Y) + I(b, Y) + I(c, Y)) - (I(a, Z) + I(b, Z) + I(c, Z))
    BY <1>5, <1>6
  <2> QED  BY <1>1, <2>1
<1> QED  BY <1>7, <1>8, <1>9, <1>10
-----------------------------------------------------------------------------
(* A thread goes on: its first step is replaced by others, or a call begins. *)
First(t) == IF todo[t] = <<>> THEN {} ELSE {Head(todo[t])}
GoesOn(t, ops) == IF todo[t] = <<>> THEN Start(t, ops) ELSE Before(t, ops)

(* Either way the steps left are those of before, less the first, and the   *)
(* new ones.                                                                *)
LEMMA StepsMove ==
  ASSUME HeapTypeOK, NEW t \in Threads, NEW ops \in Seq(Operations), GoesOn(t, ops)
  PROVE  /\ todo' \in [Threads -> Seq(Operations)] /\ First(t) \subseteq Operations
         /\ \A y \in Places' : \/ y[1] = t /\ \E i \in DOMAIN ops : At(y)' = ops[i]
                               \/ \E x \in Places \ {<<t, 1>>} : x[1] = y[1] /\ At(y)' = At(x)
         /\ \A S : /\ Cardinality(Pending(S)) \in Nat /\ Cardinality(Pending(S)') \in Nat
                   /\ Cardinality(Picked(ops, S)) \in Nat
                   /\ Cardinality(Pending(S)') = Cardinality(Pending(S)) - One(First(t) \cap S # {})
                                                   + Cardinality(Picked(ops, S))
<1>0. todo \in [Threads -> Seq(Operations)]
  BY DEF HeapTypeOK
<1>1. \A S : Cardinality(Picked(ops, S)) \in Nat
  BY PickedAre
<1>2. CASE todo[t] = <<>>
  <2>1. Start(t, ops)
    BY <1>2 DEF GoesOn
  <2>2. /\ todo' \in [Threads -> Seq(Operations)]
        /\ \A y \in Places' : \/ y[1] = t /\ \E i \in DOMAIN ops : At(y)' = ops[i]
                              \/ y \in Places /\ y[1] # t /\ At(y)' = At(y)
        /\ \A S : /\ Cardinality(Pending(S)) \in Nat /\ Cardinality(Pending(S)') \in Nat
                  /\ Cardinality(Pending(S)') = Cardinality(Pending(S)) + Cardinality(Picked(ops, S))
    BY <1>0, <1>2, <2>1, StepsStarted
  <2>3. \A y : y[1] # t => y # <<t, 1>>
    OBVIOUS
  <2>4. First(t) = {} /\ \A S : One(First(t) \cap S # {}) = 0
    BY <1>2 DEF First, One
  <2> QED  BY <1>1, <2>2, <2>3, <2>4
<1>3. CASE todo[t] # <<>>
  <2>1. Before(t, ops) /\ Head(todo[t]) \in Operations
    BY <1>3, FirstStep DEF GoesOn
  <2>2. /\ todo' \in [Threads -> Seq(Operations)]
        /\ \A y \in Places' : \/ y[1] = t /\ \E i \in DOMAIN ops : At(y)' = ops[i]
                              \/ \E x \in Places \ {<<t, 1>>} : x[1] = y[1] /\ At(y)' = At(x)
    BY <1>0, <1>3, <2>1, StepsLeft
  <2>3. \A S : /\ Cardinality(Pending(S)) \in Nat /\ Cardinality(Pending(S)') \in Nat
               /\ Cardinality(Pending(S)') + (IF Head(todo[t]) \in S THEN 1 ELSE 0)
                    = Cardinality(Pending(S)) + Cardinality(Picked(ops, S))
    BY <1>0, <1>3, <2>1, StepsReplaced
  <2>4. First(t) = {Head(todo[t])}
    BY <1>3 DEF First
  <2>5. \A S : One(First(t) \cap S # {}) = IF Head(todo[t]) \in S THEN 1 ELSE 0
    BY <2>4 DEF One
  <2>6. ASSUME NEW S PROVE Cardinality(Pending(S)') = Cardinality(Pending(S)) - One(First(t) \cap S # {})
                                                   + Cardinality(Picked(ops, S))
    <3> DEFINE h == One(First(t) \cap S # {})  k == Cardinality(Picked(ops, S))
               p == Cardinality(Pending(S))  p1 == Cardinality(Pending(S)')
    <3>1. h = IF Head(todo[t]) \in S THEN 1 ELSE 0
      BY <2>5
    <3>2. k \in Nat /\ p \in Nat /\ p1 \in Nat /\ p1 + (IF Head(todo[t]) \in S THEN 1 ELSE 0) = p + k
      BY <1>1, <2>3
    <3> HIDE DEF h, k, p, p1
    <3>3. p1 = p - h + k
      BY <3>1, <3>2
    <3> QED  BY <3>3 DEF h, k, p, p1
  <2> QED  BY <1>1, <2>1, <2>2, <2>3, <2>4, <2>6
<1> QED  BY <1>2, <1>3

(* The same of the steps of one kind.                                       *)
LEMMA PendingMoves ==
  ASSUME HeapTypeOK, NEW t \in Threads, NEW ops \in Seq(Operations), GoesOn(t, ops), NEW S
  PROVE  /\ Cardinality(Pending(S)) \in Nat /\ Cardinality(Pending(S)') \in Nat
         /\ Cardinality(Picked(ops, S)) \in Nat
         /\ Cardinality(Pending(S)') = Cardinality(Pending(S)) - One(First(t) \cap S # {})
                                         + Cardinality(Picked(ops, S))
<1>1. \A T : /\ Cardinality(Pending(T)) \in Nat /\ Cardinality(Pending(T)') \in Nat
             /\ Cardinality(Picked(ops, T)) \in Nat
             /\ Cardinality(Pending(T)') = Cardinality(Pending(T)) - One(First(t) \cap T # {})
                                             + Cardinality(Picked(ops, T))
  BY StepsMove, SMTT(30)
<1> QED  BY <1>1

(* What no step that goes or comes is about is marked as before.            *)
NoneOf(t, ops, S) == First(t) \cap S = {} /\ \A i \in DOMAIN ops : ops[i] \notin S

(* Of a kind that neither goes nor comes as many are left. *)
LEMMA CountStays ==
  ASSUME HeapTypeOK, NEW t \in Threads, NEW ops \in Seq(Operations), GoesOn(t, ops), NEW S, NoneOf(t, ops, S)
  PROVE  Cardinality(Pending(S)') = Cardinality(Pending(S))
<1>1. Picked(ops, S) = {} /\ One(First(t) \cap S # {}) = 0
  BY DEF Picked, NoneOf, One
<1>2. Cardinality(Picked(ops, S)) = 0
  BY <1>1, FS_EmptySet
<1>3. /\ Cardinality(Pending(S)) \in Nat
      /\ Cardinality(Pending(S)') = Cardinality(Pending(S)) - One(First(t) \cap S # {})
                                                   + Cardinality(Picked(ops, S))
  BY PendingMoves
<1> QED  BY <1>1, <1>2, <1>3

(* A mark stays when no step that it is about goes or comes. *)
LEMMA MarksStay ==
  ASSUME HeapTypeOK, NEW t \in Threads, NEW ops \in Seq(Operations), GoesOn(t, ops)
  PROVE  /\ \A c, i : NoneOf(t, ops, EmptiesPast(c, i)) => (Released(c, i)' <=> Released(c, i))
         /\ \A c, i : NoneOf(t, ops, StoresAt(c, i)) => (Replaced(c, i)' <=> Replaced(c, i))
         /\ \A n : NoneOf(t, ops, UnlinksOf(n)) => (UnlinkSoon(n)' <=> UnlinkSoon(n))
<1>1. todo \in [Threads -> Seq(Operations)] /\ todo' \in [Threads -> Seq(Operations)]
  BY StepsMove DEF HeapTypeOK
<1>2. \A S : NoneOf(t, ops, S) => Cardinality(Pending(S)') = Cardinality(Pending(S))
  BY CountStays
<1>3. /\ \A c, i : Released(c, i) <=> Cardinality(Pending(EmptiesPast(c, i))) > 0
      /\ \A c, i : Replaced(c, i) <=> Cardinality(Pending(StoresAt(c, i))) > 0
      /\ \A n : UnlinkSoon(n) <=> Cardinality(Pending(UnlinksOf(n))) > 0
  BY <1>1, Marks
<1>4. /\ \A c, i : Released(c, i)' <=> Cardinality(Pending(EmptiesPast(c, i))') > 0
      /\ \A c, i : Replaced(c, i)' <=> Cardinality(Pending(StoresAt(c, i))') > 0
      /\ \A n : UnlinkSoon(n)' <=> Cardinality(Pending(UnlinksOf(n))') > 0
  BY <1>1, MarksAfter
<1>5. \A c, i : NoneOf(t, ops, EmptiesPast(c, i)) => (Released(c, i)' <=> Released(c, i))
  BY <1>2, <1>3, <1>4
<1>6. \A c, i : NoneOf(t, ops, StoresAt(c, i)) => (Replaced(c, i)' <=> Replaced(c, i))
  BY <1>2, <1>3, <1>4
<1>7. \A n : NoneOf(t, ops, UnlinksOf(n)) => (UnlinkSoon(n)' <=> UnlinkSoon(n))
  BY <1>2, <1>3, <1>4
<1> QED  BY <1>5, <1>6, <1>7

(* A container that the step does not concern, and the keys of the weak list. *)
Marking == {"empty", "store"}
Aside(t, ops, d) ==
  /\ \A s \in First(t) : s.op \in Marking => s.on # d
  /\ \A i \in DOMAIN ops : ops[i].op \in Marking => ops[i].on # d
  /\ cells'[d] = cells[d] /\ (mem'[d] \in {"live", "dying"} <=> mem[d] \in {"live", "dying"})
AllAside(t, ops) == \A d \in Objects : Aside(t, ops, d)
OthersAside(t, ops, c) == \A d \in Objects \ {c} : Aside(t, ops, d)
NoUnlink(t, ops) ==
  /\ \A s \in First(t) : s.op # "unlink"
  /\ \A i \in DOMAIN ops : ops[i].op # "unlink"

(* Such a container refers to what it referred to. *)
LEMMA AsideIsSame ==
  ASSUME HeapTypeOK, NEW t \in Threads, NEW ops \in Seq(Operations), GoesOn(t, ops),
         NEW d \in Objects, Aside(t, ops, d), NEW o
  PROVE  RefsIn(d, o)' = RefsIn(d, o)
<1>1. \A i : NoneOf(t, ops, EmptiesPast(d, i)) /\ NoneOf(t, ops, StoresAt(d, i))
  BY DEF Aside, NoneOf, EmptiesPast, StoresAt, Marking
<1>2. \A i : (Released(d, i)' <=> Released(d, i)) /\ (Replaced(d, i)' <=> Replaced(d, i))
  BY <1>1, MarksStay
<1> QED  BY <1>2 DEF RefsIn, Counted, Aside

(* The weak list keeps the same keys when no step unlinks. *)
LEMMA KeysSame ==
  ASSUME HeapTypeOK, NEW t \in Threads, NEW ops \in Seq(Operations), GoesOn(t, ops), NoUnlink(t, ops), node' = node, NEW o
  PROVE  KeyOf(o)' = KeyOf(o)
<1>1. \A n : NoneOf(t, ops, UnlinksOf(n))
  BY DEF NoneOf, UnlinksOf, NoUnlink
<1>2. \A n : UnlinkSoon(n)' <=> UnlinkSoon(n)
  BY <1>1, MarksStay
<1> QED  BY <1>2 DEF KeyOf

(* If the step concerns no container, all refer to what they did. *)
LEMMA RefsSame ==
  ASSUME HeapTypeOK, NEW t \in Threads, NEW ops \in Seq(Operations), GoesOn(t, ops),
         AllAside(t, ops), NEW o
  PROVE  References(o)' = References(o)
<1>1. \A d \in Objects : RefsIn(d, o)' = RefsIn(d, o)
  BY AsideIsSame DEF AllAside
<1>2. References(o) = UNION {{d} \X RefsIn(d, o) : d \in Objects}
      /\ References(o)' = UNION {{d} \X RefsIn(d, o)' : d \in Objects}
  BY DEF References, RefsIn
<1> QED  BY <1>1, <1>2

(* One container changes.                                                   *)
LEMMA RefsMove ==
  ASSUME HeapTypeOK, cells' \in [Objects -> Seq(Cell)],
         NEW t \in Threads, NEW ops \in Seq(Operations), GoesOn(t, ops),
         NEW c \in Objects, OthersAside(t, ops, c), NEW o
  PROVE  /\ Cardinality(References(o)) \in Nat /\ Cardinality(References(o)') \in Nat
         /\ Cardinality(RefsIn(c, o)) \in Nat /\ Cardinality(RefsIn(c, o)') \in Nat
         /\ IsFiniteSet(RefsIn(c, o)) /\ IsFiniteSet(RefsIn(c, o)')
         /\ Cardinality(References(o)')
              = Cardinality(References(o)) + (Cardinality(RefsIn(c, o)') - Cardinality(RefsIn(c, o)))
<1>1. \A d \in Objects \ {c} : RefsIn(d, o)' = RefsIn(d, o)
  BY AsideIsSame DEF OthersAside
<1>2. cells \in [Objects -> Seq(Cell)]
  BY DEF HeapTypeOK
<1>3. /\ Cardinality(References(o)) \in Nat /\ Cardinality(References(o)') \in Nat
      /\ Cardinality(RefsIn(c, o)) \in Nat /\ Cardinality(RefsIn(c, o)') \in Nat
      /\ IsFiniteSet(RefsIn(c, o)) /\ IsFiniteSet(RefsIn(c, o)')
      /\ Cardinality(References(o)') + Cardinality(RefsIn(c, o))
              = Cardinality(References(o)) + Cardinality(RefsIn(c, o)')
  BY <1>1, <1>2, RefsCounted
<1> DEFINE r == Cardinality(References(o))  r1 == Cardinality(References(o)')
           f == Cardinality(RefsIn(c, o))  f1 == Cardinality(RefsIn(c, o)')
<1>4. r \in Nat /\ r1 \in Nat /\ f \in Nat /\ f1 \in Nat /\ r1 + f = r + f1
  BY <1>3
<1> HIDE DEF r, r1, f, f1
<1>5. r1 = r + (f1 - f)
  BY <1>4
<1> QED  BY <1>3, <1>5 DEF r, r1, f, f1
-----------------------------------------------------------------------------
(* Of steps that are rivals there is one at a time.                         *)
Rivals(r, s) ==
  /\ r.on = s.on
  /\ \/ r.op = s.op /\ r.op \in {"store", "empty"}
     \/ r.op \in {"visit", "unlink"} /\ s.op \in {"visit", "unlink"}

(* So the invariant says of frees, walks and stores. *)
LEMMA OneOfAKind ==
  ASSUME HeapTypeOK, StepsInv
  PROVE  \A x, y \in Places : Rivals(At(x), At(y)) => x = y
<1> SUFFICES ASSUME NEW x \in Places, NEW y \in Places, Rivals(At(x), At(y)) PROVE x = y
  OBVIOUS
<1>0. todo \in [Threads -> Seq(Operations)]
  BY DEF HeapTypeOK
<1>1. At(x) \in Operations /\ At(y) \in Operations
  BY <1>0, StepsAre
<1> DEFINE c == At(x).on
<1>2. c \in Objects
  BY <1>1 DEF Rivals, Operations
<1>3. PICK S \in {EmptiesOf(c), WalksFor(c), StoresInto(c)} : At(x) \in S /\ At(y) \in S
  BY <1>1 DEF Rivals, EmptiesOf, WalksFor, StoresInto
<1>4. Cardinality(Pending(S)) <= 1
  BY <1>2, <1>3 DEF StepsInv
<1>5. IsFiniteSet(Pending(S))
  BY <1>0, Marks
<1>6. \A p, q \in Pending(S) : p = q
  BY <1>4, <1>5, AtMostOne
<1> QED  BY <1>3, <1>6 DEF Pending

(* The steps that stay can still be made, but those in gone. *)
StaysOK(t, gone) ==
  /\ \A x \in Places \ {<<t, 1>>} : At(x) \notin gone
  /\ \A u \in Threads : \A s \in Operations \ gone : StepOK(u, s) => StepOK(u, s)'

(* The steps that come can be made, and have no rival. *)
ComesOK(t, ops) ==
  /\ \A i \in DOMAIN ops : StepOK(t, ops[i])'
  /\ \A i, j \in DOMAIN ops : Rivals(ops[i], ops[j]) => i = j
  /\ \A i \in DOMAIN ops : \/ ops[i].op \in {"retain", "release"}
                           \/ \E s \in First(t) : Rivals(s, ops[i])
                           \/ \A x \in Places : ~Rivals(At(x), ops[i])

(* Then the steps' part of the invariant is kept. *)
LEMMA StepsKept ==
  ASSUME HeapTypeOK, StepsInv, NEW t \in Threads, NEW ops \in Seq(Operations), GoesOn(t, ops),
         NEW gone, StaysOK(t, gone), ComesOK(t, ops)
  PROVE  StepsInv'
<1>0. todo \in [Threads -> Seq(Operations)]
  BY DEF HeapTypeOK
<1>1. ASSUME NEW c \in Objects, NEW S \in {EmptiesOf(c), WalksFor(c), StoresInto(c)}
      PROVE  Cardinality(Pending(S)') <= 1
  <2>1. Cardinality(Pending(S)) <= 1
    BY DEF StepsInv
  <2> DEFINE k == Cardinality(Picked(ops, S))  p == Cardinality(Pending(S))  p1 == Cardinality(Pending(S)')
             h == One(First(t) \cap S # {})
  <2>2. /\ p \in Nat /\ p1 \in Nat /\ k \in Nat /\ p1 = p - h + k
    BY PendingMoves
  <2>3. h \in {0, 1} /\ (h = 1 <=> First(t) \cap S # {})
    BY DEF One
  <2>4. IsFiniteSet(Picked(ops, S)) /\ \A i \in Picked(ops, S) : i \in DOMAIN ops /\ ops[i] \in Operations
    <3>1. IsFiniteSet(Picked(ops, S))
      BY PickedAre
    <3>2. \A i \in DOMAIN ops : ops[i] \in Operations
      BY ElementOfSeq, LenProperties
    <3> QED  BY <3>1, <3>2 DEF Picked
  <2>5. /\ First(t) \subseteq Operations
        /\ \A r, s \in Operations : r \in S => (s \in S <=> Rivals(r, s))
    <3>1. First(t) \subseteq Operations
      BY StepsMove
    <3>2. \A s \in Operations : s.op \in {"retain", "release", "store", "empty", "visit", "unlink"}
      BY DEF Operations
    <3>3. CASE S = EmptiesOf(c)
      BY <3>1, <3>3 DEF EmptiesOf, Rivals
    <3>4. CASE S = WalksFor(c)
      BY <3>1, <3>4 DEF WalksFor, Rivals
    <3>5. CASE S = StoresInto(c)
      BY <3>1, <3>5 DEF StoresInto, Rivals
    <3> QED  BY <3>1, <3>3, <3>4, <3>5
  <2>6. \A i, j \in Picked(ops, S) : i = j
    BY <2>4, <2>5 DEF Picked, ComesOK
  <2>7. k <= 1
    BY <2>4, <2>6, AtMostOne
  <2>8. CASE Picked(ops, S) = {}
    <3>1. k = 0
      BY <2>8, FS_EmptySet
    <3> HIDE DEF h, k, p, p1
    <3> QED  BY <2>1, <2>2, <2>3, <3>1 DEF p, p1
  <2>9. CASE Picked(ops, S) # {}
    <3>1. PICK i \in DOMAIN ops : ops[i] \in S
      BY <2>9 DEF Picked
    <3>2. ops[i] \in Operations /\ ops[i].op \notin {"retain", "release"}
      BY <2>4, <3>1 DEF Picked, EmptiesOf, WalksFor, StoresInto
    <3>3. CASE \E s \in First(t) : Rivals(s, ops[i])
      <4>1. PICK s \in First(t) : Rivals(s, ops[i])
        BY <3>3
      <4>2. Rivals(ops[i], s) /\ s \in Operations
        BY <2>5, <4>1 DEF Rivals
      <4>3. s \in S
        BY <2>5, <3>1, <3>2, <4>2
      <4>4. h = 1
        BY <2>3, <4>1, <4>3
      <4> HIDE DEF h, k, p, p1
      <4> QED  BY <2>1, <2>2, <2>7, <4>4 DEF p, p1
    <3>4. CASE \A x \in Places : ~Rivals(At(x), ops[i])
      <4>1. Pending(S) = {}
        <5>1. \A x \in Places : At(x) \in Operations
          BY <1>0, StepsAre
        <5> QED  BY <2>5, <3>1, <3>2, <3>4, <5>1 DEF Pending
      <4>2. p = 0
        BY <4>1, FS_EmptySet
      <4> HIDE DEF h, k, p, p1
      <4> QED  BY <2>2, <2>3, <2>7, <4>2 DEF p1
    <3> QED  BY <3>2, <3>3, <3>4 DEF ComesOK
  <2> QED  BY <2>8, <2>9
<1>2. \A c \in Objects : /\ Cardinality(Pending(EmptiesOf(c))') <= 1 /\ Cardinality(Pending(WalksFor(c))') <= 1
                         /\ Cardinality(Pending(StoresInto(c))') <= 1
  BY <1>1
<1>4. \A y \in Places' : \/ y[1] = t /\ \E i \in DOMAIN ops : At(y)' = ops[i]
                        \/ \E x \in Places \ {<<t, 1>>} : x[1] = y[1] /\ At(y)' = At(x)
  BY StepsMove
<1>3. ASSUME NEW y \in Places' PROVE StepOK(y[1], At(y))'
  <2>1. \/ y[1] = t /\ \E i \in DOMAIN ops : At(y)' = ops[i]
        \/ \E x \in Places \ {<<t, 1>>} : x[1] = y[1] /\ At(y)' = At(x)
    BY <1>4
  <2>2. CASE y[1] = t /\ \E i \in DOMAIN ops : At(y)' = ops[i]
    <3>1. PICK i \in DOMAIN ops : At(y)' = ops[i]
      BY <2>2
    <3>2. StepOK(t, ops[i])'
      BY DEF ComesOK
    <3> QED  BY <2>2, <3>1, <3>2 DEF StepOK
  <2>3. ASSUME NEW x \in Places \ {<<t, 1>>}, x[1] = y[1], At(y)' = At(x) PROVE StepOK(y[1], At(y))'
    <3>1. x[1] \in Threads /\ At(x) \in Operations /\ StepOK(x[1], At(x)) /\ At(x) \notin gone
      BY <1>0, StepsAre DEF StepsInv, StaysOK
    <3> DEFINE u == x[1]  s == At(x)
    <3>2. PICK uu \in Threads, ss \in Operations : uu = u /\ ss = s
      BY <3>1
    <3>3. StepOK(uu, ss)'
      BY <3>1, <3>2 DEF StaysOK
    <3> QED  BY <2>3, <3>2, <3>3 DEF StepOK
  <2> QED  BY <2>1, <2>2, <2>3
<1> QED  BY <1>2, <1>3 DEF StepsInv

(* A step about what is born. *)
BornStep(s) == s.on \in Born \cup {Null} /\ (s.op = "store" => s.value \in Born)

(* The steps that are left stay about what is born. *)
LEMMA BornStepsKept ==
  ASSUME HeapTypeOK, BornInv, NEW t \in Threads, NEW ops \in Seq(Operations), GoesOn(t, ops),
         Born \subseteq Born', \A i \in DOMAIN ops : BornStep(ops[i])'
  PROVE  \A x \in Places' : At(x)'.on \in Born' \cup {Null} /\ (At(x)'.op = "store" => At(x)'.value \in Born')
<1>1. \A y \in Places' : \/ y[1] = t /\ \E i \in DOMAIN ops : At(y)' = ops[i]
                        \/ \E x \in Places \ {<<t, 1>>} : x[1] = y[1] /\ At(y)' = At(x)
  BY StepsMove DEF HeapTypeOK
<1>2. \A i \in DOMAIN ops : ops[i].on \in Born' \cup {Null} /\ (ops[i].op = "store" => ops[i].value \in Born')
  BY DEF BornStep
<1>3. \A x \in Places : At(x).on \in Born' \cup {Null} /\ (At(x).op = "store" => At(x).value \in Born')
  BY DEF BornInv
<1> QED  BY <1>1, <1>2, <1>3

(* What a thread owns.                                                      *)
LEMMA OwnedMoves ==
  ASSUME HeapTypeOK, held' \in [Threads -> [Objects -> Nat]],
         NEW o \in Objects, NEW t \in Threads, \A u \in Threads \ {t} : held'[u][o] = held[u][o]
  PROVE  Cardinality(Owned(o)') = Cardinality(Owned(o)) + (held'[t][o] - held[t][o])
<1> DEFINE a == Cardinality(Owned(o))  a1 == Cardinality(Owned(o)')  h == held[t][o]  h1 == held'[t][o]
<1>1. a \in Nat /\ a1 \in Nat /\ h \in Nat /\ h1 \in Nat /\ a1 + h = a + h1
  BY OwnedCounted DEF HeapTypeOK
<1> HIDE DEF a, a1, h, h1
<1>2. PICK n \in Nat, n1 \in Nat, k \in Nat, k1 \in Nat : n = a /\ n1 = a1 /\ k = h /\ k1 = h1
  BY <1>1
<1>3. a1 = a + (h1 - h)
  BY <1>1, <1>2
<1> QED  BY <1>3 DEF a, a1, h, h1
-----------------------------------------------------------------------------
(* What the step made was to do for a count, and what the new ones are.     *)
Done(t, o) == IF todo[t] = <<>> THEN 0 ELSE Weight(Head(todo[t]), o)

(* What is left to do to a count, after a step. *)
LEMMA WorkMoves ==
  ASSUME HeapTypeOK, NEW t \in Threads, NEW ops \in Seq(Operations), GoesOn(t, ops), NEW o
  PROVE  /\ Work(o) \in Int /\ Work(o)' \in Int /\ Done(t, o) \in Int /\ WorkIn(ops, o) \in Int
         /\ Work(o)' = Work(o) + (WorkIn(ops, o) - Done(t, o))
<1> DEFINE X == Waiting("release", o)  Y == Bringing(o)  Z == Waiting("retain", o)
           I(S) == One(First(t) \cap S # {})
<1>1. todo \in [Threads -> Seq(Operations)] /\ todo' \in [Threads -> Seq(Operations)]
  BY StepsMove DEF HeapTypeOK
<1>2. \A S : /\ Cardinality(Pending(S)) \in Nat /\ Cardinality(Pending(S)') \in Nat
             /\ Cardinality(Picked(ops, S)) \in Nat
             /\ Cardinality(Pending(S)') = Cardinality(Pending(S)) - I(S) + Cardinality(Picked(ops, S))
  BY StepsMove
<1>3. Done(t, o) = I(X) + I(Y) - I(Z)
  <2>1. CASE todo[t] = <<>>
    BY <2>1 DEF Done, First, One
  <2>2. CASE todo[t] # <<>>
    <3> DEFINE h == Head(todo[t])
    <3>1. h \in Operations /\ First(t) = {h} /\ Done(t, o) = Weight(h, o)
      BY <2>2, FirstStep DEF First, Done
    <3> HIDE DEF h
    <3>2. \A S : I(S) = IF h \in S THEN 1 ELSE 0
      BY <3>1 DEF One
    <3>3. Weight(h, o) = (IF h \in X THEN 1 ELSE 0) + (IF h \in Y THEN 1 ELSE 0) - (IF h \in Z THEN 1 ELSE 0)
      BY <3>1, Weights
    <3> HIDE DEF I, X, Y, Z
    <3>4. I(X) = (IF h \in X THEN 1 ELSE 0) /\ I(Y) = (IF h \in Y THEN 1 ELSE 0) /\ I(Z) = (IF h \in Z THEN 1 ELSE 0)
      BY <3>2
    <3> QED  BY <3>1, <3>3, <3>4
  <2> QED  BY <2>1, <2>2
<1>4. \A S : I(S) \in Nat
  BY DEF One
<1>5. /\ Remaining("release", o) = Pending(X) /\ Arriving(o) = Pending(Y) /\ Remaining("retain", o) = Pending(Z)
      /\ Remaining("release", o)' = Pending(X)' /\ Arriving(o)' = Pending(Y)' /\ Remaining("retain", o)' = Pending(Z)'
  BY <1>1, Marks, MarksAfter
<1> HIDE DEF I, X, Y, Z
<1>6. Work(o) = Cardinality(Pending(X)) + Cardinality(Pending(Y)) - Cardinality(Pending(Z))
      /\ Work(o)' = Cardinality(Pending(X)') + Cardinality(Pending(Y)') - Cardinality(Pending(Z)')
  BY <1>5 DEF Work
<1>7. WorkIn(ops, o) = Cardinality(Picked(ops, X)) + Cardinality(Picked(ops, Y)) - Cardinality(Picked(ops, Z))
  BY DEF WorkIn, X, Y, Z
<1> DEFINE x == Cardinality(Pending(X))  y == Cardinality(Pending(Y))  z == Cardinality(Pending(Z))
           x1 == Cardinality(Pending(X)')  y1 == Cardinality(Pending(Y)')  z1 == Cardinality(Pending(Z)')
           xo == Cardinality(Picked(ops, X))  yo == Cardinality(Picked(ops, Y))  zo == Cardinality(Picked(ops, Z))
           ix == I(X)  iy == I(Y)  iz == I(Z)
           w == Work(o)  w1 == Work(o)'  d == Done(t, o)  wo == WorkIn(ops, o)
<1>8. /\ x \in Nat /\ y \in Nat /\ z \in Nat /\ xo \in Nat /\ yo \in Nat /\ zo \in Nat
      /\ ix \in Nat /\ iy \in Nat /\ iz \in Nat
      /\ x1 = x - ix + xo /\ y1 = y - iy + yo /\ z1 = z - iz + zo
  BY <1>2, <1>4
<1>9. w = x + y - z /\ w1 = x1 + y1 - z1 /\ wo = xo + yo - zo /\ d = ix + iy - iz
  BY <1>3, <1>6, <1>7
<1> HIDE DEF x, y, z, x1, y1, z1, xo, yo, zo, ix, iy, iz, w, w1, d, wo
<1>10. w \in Int /\ w1 \in Int /\ d \in Int /\ wo \in Int
  BY <1>8, <1>9
<1>11. w1 = w + (wo - d)
  BY <1>8, <1>9
<1> QED  BY <1>10, <1>11 DEF w, w1, d, wo

(* The count is still right if it moves by what its parts do.               *)
Moved(o, n, refs, keys, owned) ==
  /\ rc'[o] + skew'[o] = rc[o] + skew[o] + n
  /\ Cardinality(References(o)') = Cardinality(References(o)) + refs
  /\ Cardinality(KeyOf(o)') = Cardinality(KeyOf(o)) + keys
  /\ Cardinality(Owned(o)') = Cardinality(Owned(o)) + owned

(* Each part moves by its own amount, and they add up. *)
LEMMA CountMoved ==
  ASSUME HeapTypeOK, HeapTypeOK', NEW t \in Threads, NEW ops \in Seq(Operations), GoesOn(t, ops),
         NEW o \in Objects, CountIs(o),
         NEW n \in Int, NEW refs \in Int, NEW keys \in Int, NEW owned \in Int,
         Moved(o, n, refs, keys, owned), n = WorkIn(ops, o) - Done(t, o) + refs + keys + owned
  PROVE  CountIs(o)'
<1>1. /\ Cardinality(Owned(o)) \in Nat /\ Cardinality(References(o)) \in Nat /\ Cardinality(KeyOf(o)) \in Nat
      /\ Cardinality(Remaining("release", o)) \in Nat /\ Cardinality(Remaining("retain", o)) \in Nat
      /\ Cardinality(Arriving(o)) \in Nat
  BY SizesAre
<1>2. /\ Cardinality(Remaining("release", o)') \in Nat /\ Cardinality(Remaining("retain", o)') \in Nat
      /\ Cardinality(Arriving(o)') \in Nat
  BY MarksAfter DEF HeapTypeOK
<1>3. rc[o] \in Int /\ skew[o] \in Int /\ rc'[o] \in Int /\ skew'[o] \in Int
  BY DEF HeapTypeOK
<1> DEFINE w == Work(o)  v == Work(o)'  ow == Cardinality(Owned(o))  re == Cardinality(References(o))
           ke == Cardinality(KeyOf(o))  ow1 == Cardinality(Owned(o)')  re1 == Cardinality(References(o)')
           ke1 == Cardinality(KeyOf(o)')  d == Done(t, o)  wo == WorkIn(ops, o)
           r == rc[o]  r1 == rc'[o]  k == skew[o]  k1 == skew'[o]
<1>4. w \in Int /\ v \in Int /\ d \in Int /\ wo \in Int /\ v = w + (wo - d)
  BY WorkMoves
<1> DEFINE rl == Cardinality(Remaining("release", o))  ar == Cardinality(Arriving(o))
           rt == Cardinality(Remaining("retain", o))  rl1 == Cardinality(Remaining("release", o)')
           ar1 == Cardinality(Arriving(o)')  rt1 == Cardinality(Remaining("retain", o)')
<1>5. r = ow + re + ke + w - k
  <2>1. w = rl + ar - rt /\ r = ow + re + ke + rl + ar - rt - k
    BY DEF Work, CountIs
  <2>2. ow \in Nat /\ re \in Nat /\ ke \in Nat /\ rl \in Nat /\ ar \in Nat /\ rt \in Nat /\ k \in Int
    BY <1>1, <1>3
  <2> HIDE DEF w, r, ow, re, ke, rl, ar, rt, k
  <2> QED  BY <2>1, <2>2
<1>6. /\ r1 + k1 = r + k + n /\ re1 = re + refs /\ ke1 = ke + keys /\ ow1 = ow + owned
      /\ ow \in Int /\ re \in Int /\ ke \in Int
      /\ r \in Int /\ r1 \in Int /\ k \in Int /\ k1 \in Int /\ n = wo - d + refs + keys + owned
  BY <1>1, <1>3 DEF Moved
<1> HIDE DEF w, v, ow, re, ke, ow1, re1, ke1, d, wo, r, r1, k, k1
<1>7. r1 = ow1 + re1 + ke1 + v - k1 /\ ow1 \in Int /\ re1 \in Int /\ ke1 \in Int
  BY <1>4, <1>5, <1>6
<1>8. v = rl1 + ar1 - rt1 /\ rl1 \in Nat /\ ar1 \in Nat /\ rt1 \in Nat
  BY <1>2 DEF Work, v
<1> HIDE DEF rl1, ar1, rt1
<1>9. r1 = ow1 + re1 + ke1 + rl1 + ar1 - rt1 - k1
  BY <1>6, <1>7, <1>8
<1> QED  BY <1>9 DEF CountIs, ow1, re1, ke1, r1, k1, rl1, ar1, rt1
-----------------------------------------------------------------------------
(* The primitive steps.                                                     *)
LEMMA Primitives ==
  /\ \A v \in Values : Retaining(v) \in Operations /\ Releasing(v) \in Operations
  /\ \A c \in Objects, i \in Nat \ {0} : Emptying(c, i) \in Operations /\ \A v \in Objects : Storing(c, i, v) \in Operations
  /\ \A o \in Objects, p \in Links : Visiting(o, p) \in Operations /\ \A n \in Nodes : Unlinking(o, p, n) \in Operations
BY DEF Retaining, Releasing, Emptying, Storing, Visiting, Unlinking, Operations

(* What each of them does to a count. *)
LEMMA PrimitiveWeights ==
  ASSUME NEW o
  PROVE  /\ \A v : Weight(Retaining(v), o) = 0 - One(v = o) /\ Weight(Releasing(v), o) = One(v = o)
         /\ \A c, i, v : Weight(Storing(c, i, v), o) = One(v = o)
         /\ \A c, i : Weight(Emptying(c, i), o) = 0
         /\ \A c, p : Weight(Visiting(c, p), o) = 0
         /\ \A c, p, n : Weight(Unlinking(c, p, n), o) = 0
BY DEF Weight, Retaining, Releasing, Emptying, Storing, Visiting, Unlinking, One

(* Lists of up to three steps. *)
LEMMA ShortLists ==
  /\ <<>> \in Seq(Operations) /\ \A a \in Operations : <<a>> \in Seq(Operations)
  /\ \A a, b \in Operations : <<a, b>> \in Seq(Operations)
  /\ \A a, b, c \in Operations : <<a, b, c>> \in Seq(Operations)
OBVIOUS

(* retain keeps the invariant: one step less to do, one count more. *)
LEMMA RetainKeeps ==
  ASSUME HeapOK, NEW t \in Threads, todo[t] # <<>>, NEW v \in Values, Head(todo[t]) = Retaining(v), Retain(t, v),
         touched' = {}
  PROVE  HeapOK'
<1> DEFINE ops == <<>>
<1>0. /\ HeapTypeOK /\ BornInv /\ CellsInv /\ NodesInv /\ StepsInv /\ CountsInv
      /\ UNCHANGED <<mem, cells, weak, held, skew>>
  BY DEF HeapOK, Retain
<1>1. /\ GoesOn(t, ops) /\ ops \in Seq(Operations) /\ DOMAIN ops = {} /\ First(t) = {Retaining(v)}
      /\ Retaining(v).op = "retain"
  BY DEF GoesOn, Retain, First, Retaining
<1> HIDE DEF ops
<1>2. \/ v = Null /\ rc' = rc
      \/ v # Null /\ v \in Objects /\ mem[v] = "live" /\ rc' = Retained(v)
  BY DEF Retain, RetainNow, Touch, Values
<1>3. HeapTypeOK'
  <2>1. todo' \in [Threads -> Seq(Operations)]
    BY <1>0, <1>1, StepsMove
  <2>2. rc' \in [Objects -> Int]
    BY <1>0, <1>2 DEF Retained, HeapTypeOK
  <2> QED  BY <1>0, <2>1, <2>2 DEF HeapTypeOK, weak, Cell
<1>4. BornInv'
  <2>1. Born' = Born
    BY <1>0 DEF Born
  <2>2. \A x \in Places' : At(x)'.on \in Born' \cup {Null} /\ (At(x)'.op = "store" => At(x)'.value \in Born')
    BY <1>0, <1>1, <2>1, BornStepsKept
  <2> QED  BY <1>0, <2>1, <2>2 DEF BornInv, weak
<1>5. CellsInv' /\ NodesInv'
  BY <1>0 DEF CellsInv, CellsOf, NodesInv, weak
<1>6. StepsInv'
  <2>1. StaysOK(t, {})
    BY <1>0 DEF StepOK, weak, StaysOK
  <2>2. ComesOK(t, ops)
    BY <1>1 DEF ComesOK
  <2> QED  BY <1>0, <1>1, <2>1, <2>2, StepsKept
<1>7. ASSUME NEW o \in Objects, mem'[o] = "live", rc'[o] < Immortal PROVE CountIs(o)'
  <2>1. AllAside(t, ops)
    BY <1>0, <1>1 DEF AllAside, Aside, Marking
  <2>2. References(o)' = References(o)
    BY <1>0, <1>1, <2>1, RefsSame
  <2>3. KeyOf(o)' = KeyOf(o)
    BY <1>0, <1>1, KeysSame DEF NoUnlink, weak
  <2>4. Owned(o)' = Owned(o)
    BY <1>0 DEF Owned
  <2>5. rc[o] < Immortal /\ rc'[o] = rc[o] + One(v = o) /\ mem[o] = "live"
    <3>1. rc[o] \in Int /\ mem[o] = "live" /\ Immortal \in Int
      BY <1>0, <1>7 DEF HeapTypeOK, HeapAssumption
    <3>2. CASE o = v
      BY <1>0, <1>2, <1>7, <3>1, <3>2 DEF Retained, HeapTypeOK, HeapAssumption, One
    <3>3. CASE o # v
      BY <1>0, <1>2, <1>7, <3>1, <3>3 DEF Retained, HeapTypeOK, One
    <3> QED  BY <3>2, <3>3
  <2>6. CountIs(o)
    BY <1>0, <2>5 DEF CountsInv
  <2> PICK n \in Int : n = One(v = o)
    BY DEF One
  <2>7. Done(t, o) = 0 - n /\ WorkIn(ops, o) = 0
    <3>1. Weight(Retaining(v), o) = 0 - n
      BY PrimitiveWeights
    <3> QED  BY <3>1, WorkOfFew DEF Done, ops
  <2>8. Moved(o, n, 0, 0, 0)
    <3>1. rc[o] \in Int /\ skew[o] \in Int /\ skew'[o] = skew[o]
      BY <1>0 DEF HeapTypeOK
    <3>2. /\ Cardinality(Owned(o)) \in Nat /\ Cardinality(References(o)) \in Nat /\ Cardinality(KeyOf(o)) \in Nat
      BY <1>0, SizesAre
    <3>3. rc'[o] + skew'[o] = rc[o] + skew[o] + n
      BY <2>5, <3>1
    <3>4. /\ Cardinality(References(o)') = Cardinality(References(o)) + 0
          /\ Cardinality(KeyOf(o)') = Cardinality(KeyOf(o)) + 0 /\ Cardinality(Owned(o)') = Cardinality(Owned(o)) + 0
      BY <2>2, <2>3, <2>4, <3>2
    <3> QED  BY <3>3, <3>4 DEF Moved
  <2>9. n = WorkIn(ops, o) - Done(t, o) + 0 + 0 + 0
    BY <2>7
  <2>10. GoesOn(t, ops) /\ ops \in Seq(Operations) /\ HeapTypeOK /\ 0 \in Int
    BY <1>0, <1>1
  <2> QED  BY <1>3, <2>6, <2>8, <2>9, <2>10, CountMoved
<1> QED  BY <1>3, <1>4, <1>5, <1>6, <1>7 DEF HeapOK, CountsInv

(* release keeps the invariant, whether the count goes down or the object is*)
(* freed and its walk and its emptying begin.                               *)
LEMMA ReleaseKeeps ==
  ASSUME HeapOK, NEW t \in Threads, todo[t] # <<>>, NEW v \in Values, Head(todo[t]) = Releasing(v), Release(t, v),
         touched' = {}
  PROVE  HeapOK'
<1> PICK dies \in BOOLEAN : dies <=> v # Null /\ rc[v] = 1
  OBVIOUS
<1> DEFINE ops == IF dies THEN <<Visiting(v, Null), Emptying(v, 1)>> ELSE <<>>
<1>0. /\ HeapTypeOK /\ BornInv /\ CellsInv /\ NodesInv /\ StepsInv /\ CountsInv
      /\ UNCHANGED <<cells, weak, held, skew>>
  BY DEF HeapOK, Release
<1>1. /\ v # Null => v \in Objects /\ mem[v] = "live"
      /\ mem' = IF dies THEN [mem EXCEPT ![v] = "dying"] ELSE mem
      /\ rc' = IF v = Null \/ rc[v] >= Immortal THEN rc ELSE [rc EXCEPT ![v] = @ - 1]
      /\ Before(t, ops)
  BY DEF Release, Touch, Values, IsLast
<1>2. Visiting(v, Null).op = "visit" /\ Visiting(v, Null).on = v
      /\ Emptying(v, 1).op = "empty" /\ Emptying(v, 1).on = v /\ Emptying(v, 1).at = 1
      /\ Releasing(v).op = "release"
  BY DEF Visiting, Emptying, Releasing
<1>3. GoesOn(t, ops) /\ ops \in Seq(Operations) /\ First(t) = {Releasing(v)}
  <2>1. v # Null => Visiting(v, Null) \in Operations /\ Emptying(v, 1) \in Operations
    BY <1>1, Primitives DEF Links
  <2>2. ops \in Seq(Operations)
    BY <2>1, ShortLists
  <2> QED  BY <1>1, <2>2 DEF GoesOn, First
<1>4. \A i \in DOMAIN ops : dies /\ (ops[i] = Visiting(v, Null) \/ ops[i] = Emptying(v, 1))
  OBVIOUS
<1>5. \A i, j \in DOMAIN ops : ops[i].op = ops[j].op => i = j
  BY <1>2
<1>6. dies => \A i \in DOMAIN ops : \A x \in Places : ~Rivals(At(x), ops[i])
  <2> SUFFICES ASSUME dies, NEW i \in DOMAIN ops, NEW x \in Places, Rivals(At(x), ops[i]) PROVE FALSE
    OBVIOUS
  <2>1. StepOK(x[1], At(x)) /\ mem[v] = "live"
    BY <1>0, <1>1 DEF StepsInv
  <2> QED  BY <1>2, <1>4, <2>1 DEF StepOK, Rivals
<1> HIDE DEF ops
<1>7. HeapTypeOK'
  <2>1. todo' \in [Threads -> Seq(Operations)]
    BY <1>0, <1>3, StepsMove
  <2>2. rc' \in [Objects -> Int] /\ mem' \in [Objects -> {"unused", "new", "live", "dying", "freed"}]
    <3>1. CASE v = Null
      BY <1>0, <1>1, <3>1 DEF HeapTypeOK
    <3>2. CASE v # Null
      BY <1>0, <1>1, <3>2 DEF HeapTypeOK
    <3> QED  BY <3>1, <3>2
  <2> QED  BY <1>0, <2>1, <2>2 DEF HeapTypeOK, weak, Cell
<1>8. BornInv'
  <2>1. Born' = Born
    BY <1>0, <1>1 DEF Born, HeapTypeOK
  <2>2. \A x \in Places' : At(x)'.on \in Born' \cup {Null} /\ (At(x)'.op = "store" => At(x)'.value \in Born')
    <3>1. \A i \in DOMAIN ops : BornStep(ops[i])'
      BY <1>1, <1>2, <1>4, <2>1 DEF BornStep, Born
    <3> QED  BY <1>0, <1>3, <2>1, <3>1, BornStepsKept
  <2> QED  BY <1>0, <2>1, <2>2 DEF BornInv, weak
<1>9. CellsInv' /\ NodesInv'
  BY <1>0 DEF CellsInv, CellsOf, NodesInv, weak
<1>10. StepsInv'
  <2>1. StaysOK(t, {})
    <3>1. \A o \in Objects : mem[o] \in {"dying", "freed"} => mem'[o] = mem[o]
      BY <1>0, <1>1 DEF HeapTypeOK
    <3>2. \A s \in Operations : s.op \in {"store", "empty", "visit", "unlink"} => s.on \in Objects
      BY DEF Operations
    <3> QED  BY <1>0, <3>1, <3>2 DEF StepOK, weak, StaysOK
  <2>2. ComesOK(t, ops)
    <3>1. \A i \in DOMAIN ops : StepOK(t, ops[i])'
      <4>1. dies => mem'[v] = "dying"
        BY <1>0, <1>1 DEF HeapTypeOK
      <4> QED  BY <1>2, <1>4, <4>1 DEF StepOK
    <3>2. \A i, j \in DOMAIN ops : Rivals(ops[i], ops[j]) => i = j
      BY <1>2, <1>4, <1>5 DEF Rivals
    <3> QED  BY <1>4, <1>6, <3>1, <3>2 DEF ComesOK
  <2> QED  BY <1>0, <1>3, <2>1, <2>2, StepsKept
<1>11. ASSUME NEW o \in Objects, mem'[o] = "live", rc'[o] < Immortal PROVE CountIs(o)'
  <2>1. ~(dies /\ o = v) /\ mem[o] = "live"
    BY <1>0, <1>1, <1>11 DEF HeapTypeOK
  <2>2. References(o)' = References(o)
    <3>1. ASSUME NEW d \in Objects PROVE RefsIn(d, o)' = RefsIn(d, o)
      <4>1. \A i \in DOMAIN cells[d] : NoneOf(t, ops, EmptiesPast(d, i)) /\ NoneOf(t, ops, StoresAt(d, i))
        <5>1. \A i \in DOMAIN cells[d] : i >= 1 /\ i \in Nat
          <6> PICK s \in Seq(Cell) : s = cells[d]
            BY <1>0 DEF HeapTypeOK
          <6>1. Len(s) \in Nat /\ DOMAIN s = 1 .. Len(s)
            BY LenProperties
          <6> QED  BY <6>1
        <5>2. \A i \in DOMAIN cells[d] : \A j \in DOMAIN ops : ops[j] \notin EmptiesPast(d, i) /\ ops[j] \notin StoresAt(d, i)
          BY <1>2, <1>4, <5>1 DEF EmptiesPast, StoresAt
        <5> QED  BY <1>2, <1>3, <5>2 DEF NoneOf, EmptiesPast, StoresAt
      <4>2. \A i \in DOMAIN cells[d] : (Released(d, i)' <=> Released(d, i)) /\ (Replaced(d, i)' <=> Replaced(d, i))
        BY <1>0, <1>3, <4>1, MarksStay
      <4>3. mem'[d] \in {"live", "dying"} <=> mem[d] \in {"live", "dying"}
        BY <1>0, <1>1 DEF HeapTypeOK
      <4> QED  BY <1>0, <4>2, <4>3 DEF RefsIn, Counted
    <3>2. References(o) = UNION {{d} \X RefsIn(d, o) : d \in Objects}
          /\ References(o)' = UNION {{d} \X RefsIn(d, o)' : d \in Objects}
      BY DEF References, RefsIn
    <3> QED  BY <3>1, <3>2
  <2>3. KeyOf(o)' = KeyOf(o)
    <3>1. NoUnlink(t, ops)
      BY <1>2, <1>3, <1>4 DEF NoUnlink
    <3> QED  BY <1>0, <1>3, <3>1, KeysSame DEF weak
  <2>4. Owned(o)' = Owned(o)
    BY <1>0 DEF Owned
  <2>5. rc[o] < Immortal /\ rc'[o] = rc[o] + (0 - One(v = o))
    <3>1. rc[o] \in Int /\ Immortal \in Int /\ (o = v => v # Null)
      BY <1>0 DEF HeapTypeOK, HeapAssumption
    <3>2. CASE o = v
      BY <1>0, <1>1, <1>11, <3>1, <3>2 DEF HeapTypeOK, One
    <3>3. CASE o # v
      BY <1>0, <1>1, <1>11, <3>1, <3>3 DEF HeapTypeOK, One
    <3> QED  BY <3>2, <3>3
  <2>6. CountIs(o)
    BY <1>0, <2>1, <2>5 DEF CountsInv
  <2> PICK n \in Int : n = One(v = o)
    BY DEF One
  <2>7. Done(t, o) = n /\ WorkIn(ops, o) = 0
    <3>1. Done(t, o) = n
      <4>1. Weight(Releasing(v), o) = n
        BY PrimitiveWeights
      <4> QED  BY <4>1 DEF Done
    <3>2. CASE dies
      <4>1. Visiting(v, Null) \in Operations /\ Emptying(v, 1) \in Operations
        BY <1>1, <3>2, Primitives DEF Links
      <4>2. WorkIn(<<Visiting(v, Null), Emptying(v, 1)>>, o) = Weight(Visiting(v, Null), o) + Weight(Emptying(v, 1), o)
        BY <4>1, WorkOfFew
      <4> QED  BY <3>1, <3>2, <4>2, PrimitiveWeights DEF ops
    <3>3. CASE ~dies
      BY <3>1, <3>3, WorkOfFew DEF ops
    <3> QED  BY <3>2, <3>3
  <2>8. Moved(o, 0 - n, 0, 0, 0)
    <3>1. rc[o] \in Int /\ skew[o] \in Int /\ skew'[o] = skew[o]
      BY <1>0 DEF HeapTypeOK
    <3>2. /\ Cardinality(Owned(o)) \in Nat /\ Cardinality(References(o)) \in Nat /\ Cardinality(KeyOf(o)) \in Nat
      BY <1>0, SizesAre
    <3> QED  BY <2>2, <2>3, <2>4, <2>5, <2>7, <3>1, <3>2 DEF Moved
  <2>9. 0 - n = WorkIn(ops, o) - Done(t, o) + 0 + 0 + 0 /\ 0 - n \in Int
    BY <2>7
  <2> QED  BY <1>0, <1>3, <1>7, <2>6, <2>8, <2>9, CountMoved
<1> QED  BY <1>7, <1>8, <1>9, <1>10, <1>11 DEF HeapOK, CountsInv

(* References add up over the containers. *)
LEMMA RefsAre ==
  ASSUME NEW o, \A d \in Objects : RefsIn(d, o)' = RefsIn(d, o)
  PROVE  References(o)' = References(o)
<1>1. References(o) = UNION {{d} \X RefsIn(d, o) : d \in Objects}
      /\ References(o)' = UNION {{d} \X RefsIn(d, o)' : d \in Objects}
  BY DEF References, RefsIn
<1> QED  BY <1>1

(* A store keeps the invariant: the reference it was bringing is in its     *)
(* cell.                                                                    *)
LEMMA StoreKeeps ==
  ASSUME HeapOK, NEW t \in Threads, todo[t] # <<>>, NEW c \in Objects, NEW i \in Nat \ {0}, NEW v \in Objects,
         Head(todo[t]) = Storing(c, i, v), Store(t, c, i, v), touched' = {}
  PROVE  HeapOK'
<1> DEFINE ops == <<>>
<1>0. /\ HeapTypeOK /\ BornInv /\ CellsInv /\ NodesInv /\ StepsInv /\ CountsInv
      /\ UNCHANGED <<mem, rc, weak, held, skew>> /\ mem[c] = "live"
      /\ cells' = [cells EXCEPT ![c][i] = Strong(v)]
  BY DEF HeapOK, Store, Touch, Overwritten
<1>1. /\ GoesOn(t, ops) /\ ops \in Seq(Operations) /\ DOMAIN ops = {} /\ First(t) = {Storing(c, i, v)}
      /\ <<t, 1>> \in Places /\ At(<<t, 1>>) = Storing(c, i, v)
  BY <1>0, FirstStep DEF GoesOn, Store, First
<1> HIDE DEF ops
<1>2. Storing(c, i, v).op = "store" /\ Storing(c, i, v).on = c /\ Storing(c, i, v).at = i /\ Storing(c, i, v).value = v
  BY DEF Storing
<1>3. i \in DOMAIN cells[c] /\ v \in Born /\ cells[c] \in Seq(Cell) /\ Strong(v) \in Cell
  <2>1. i \in DOMAIN cells[c]
    BY <1>0, <1>1, <1>2 DEF StepsInv, StepOK
  <2>2. v \in Born
    BY <1>0, <1>1, <1>2 DEF BornInv
  <2> QED  BY <1>0, <2>1, <2>2 DEF HeapTypeOK, Strong, Cell, Values
<1>4. /\ cells' \in [Objects -> Seq(Cell)] /\ \A d \in Objects : DOMAIN cells'[d] = DOMAIN cells[d]
      /\ cells'[c][i] = Strong(v) /\ Len(cells'[c]) = Len(cells[c])
      /\ \A d \in Objects : \A j \in DOMAIN cells[d] : d # c \/ j # i => cells'[d][j] = cells[d][j]
  <2> PICK s \in Seq(Cell) : s = cells[c]
    BY <1>3
  <2> PICK q : q = [s EXCEPT ![i] = Strong(v)]
    OBVIOUS
  <2>1. q \in Seq(Cell) /\ Len(q) = Len(s)
    BY <1>3, ExceptSeq
  <2>2. cells' = [cells EXCEPT ![c] = q] /\ cells \in [Objects -> Seq(Cell)]
    BY <1>0 DEF HeapTypeOK
  <2>3. DOMAIN q = DOMAIN s /\ q[i] = Strong(v) /\ \A j \in DOMAIN s : j # i => q[j] = s[j]
    BY <1>3
  <2> QED  BY <2>1, <2>2, <2>3
<1>5. HeapTypeOK'
  <2>1. todo' \in [Threads -> Seq(Operations)]
    BY <1>0, <1>1, StepsMove
  <2> QED  BY <1>0, <1>4, <2>1 DEF HeapTypeOK, weak
<1>6. BornInv'
  <2>1. Born' = Born
    BY <1>0 DEF Born
  <2>2. \A x \in Places' : At(x)'.on \in Born' \cup {Null} /\ (At(x)'.op = "store" => At(x)'.value \in Born')
    BY <1>0, <1>1, <2>1, BornStepsKept
  <2>3. \A d \in Objects : \A j \in DOMAIN cells'[d] : cells'[d][j].to \in Born' \cup {Null}
    BY <1>0, <1>3, <1>4, <2>1 DEF BornInv, Strong
  <2> QED  BY <1>0, <2>1, <2>2, <2>3 DEF BornInv, weak
<1>7. CellsInv' /\ NodesInv'
  <2>1. ~Strong(v).weak /\ Strong(v).to = v /\ v # Null
    BY DEF Strong, HeapAssumption
  <2>2. ASSUME NEW d \in Objects PROVE CellsOf(d)'
    <3>1. CellsOf(d)
      BY <1>0 DEF CellsInv
    <3>2. Len(cells'[d]) = Len(cells[d])
      BY <1>0, <1>4 DEF HeapTypeOK
    <3>3. DOMAIN cells'[d] = DOMAIN cells[d]
      BY <1>4
    <3>4. ASSUME NEW j \in DOMAIN cells[d]
          PROVE \/ cells'[d][j] = cells[d][j]
                \/ ~cells'[d][j].weak /\ cells'[d][j].to # Null
      BY <1>4, <2>1
    <3> QED  BY <3>1, <3>2, <3>3, <3>4 DEF CellsOf
  <2> QED  BY <1>0, <2>2 DEF CellsInv, NodesInv, weak
<1>8. StepsInv'
  <2>1. StaysOK(t, {})
    <3>1. \A s \in Operations : s.op = "store" => s.on \in Objects
      BY DEF Operations
    <3> QED  BY <1>0, <1>4, <3>1 DEF StepOK, weak, StaysOK
  <2>2. ComesOK(t, ops)
    BY <1>1 DEF ComesOK
  <2> QED  BY <1>0, <1>1, <2>1, <2>2, StepsKept
<1>9. ASSUME NEW o \in Objects, mem'[o] = "live", rc'[o] < Immortal PROVE CountIs(o)'
  <2>1. OthersAside(t, ops, c)
    BY <1>0, <1>1, <1>2 DEF OthersAside, Aside, Marking, HeapTypeOK
  <2>2. \A j : ~Released(c, j) /\ (Released(c, j)' <=> Released(c, j))
    <3>1. \A j : NoneOf(t, ops, EmptiesPast(c, j))
      BY <1>1, <1>2 DEF NoneOf, EmptiesPast
    <3>2. \A x \in Places : ~(At(x).op = "empty" /\ At(x).on = c)
      BY <1>0 DEF StepsInv, StepOK
    <3>3. \A j : Released(c, j)' <=> Released(c, j)
      BY <1>0, <1>1, <3>1, MarksStay
    <3> QED  BY <3>2, <3>3 DEF Released
  <2>3. \A j : j # i => (Replaced(c, j)' <=> Replaced(c, j))
    <3>1. \A j : j # i => NoneOf(t, ops, StoresAt(c, j))
      BY <1>1, <1>2 DEF NoneOf, StoresAt
    <3> QED  BY <1>0, <1>1, <3>1, MarksStay
  <2>4. Replaced(c, i)
    BY <1>1, <1>2 DEF Replaced
  <2>5. ~Replaced(c, i)'
    <3> SUFFICES ASSUME NEW y \in Places', At(y)'.op = "store", At(y)'.on = c PROVE FALSE
      BY DEF Replaced
    <3>0. \A z \in Places' : \/ z[1] = t /\ \E k \in DOMAIN ops : At(z)' = ops[k]
                             \/ \E x \in Places \ {<<t, 1>>} : x[1] = z[1] /\ At(z)' = At(x)
      BY <1>0, <1>1, StepsMove
    <3>1. PICK x \in Places \ {<<t, 1>>} : At(y)' = At(x)
      BY <1>1, <3>0
    <3>2. Rivals(At(x), At(<<t, 1>>))
      BY <1>1, <1>2, <3>1 DEF Rivals
    <3> QED  BY <1>0, <1>1, <3>1, <3>2, OneOfAKind
  <2>6. i \notin RefsIn(c, o) /\ (i \in RefsIn(c, o)' <=> v = o)
    <3>1. v # Null /\ Strong(v).to = v /\ ~Strong(v).weak /\ mem'[c] = "live"
      BY <1>0 DEF Strong, HeapAssumption
    <3> QED  BY <1>3, <1>4, <2>2, <2>4, <2>5, <3>1 DEF RefsIn, Counted
  <2>7. RefsIn(c, o) \ {i} = RefsIn(c, o)' \ {i}
    BY <1>0, <1>4, <2>2, <2>3 DEF RefsIn, Counted
  <2> PICK n \in Int : n = One(v = o)
    BY DEF One
  <2>8. Cardinality(References(o)') = Cardinality(References(o)) + n
    <3>1. /\ IsFiniteSet(RefsIn(c, o)) /\ IsFiniteSet(RefsIn(c, o)')
          /\ Cardinality(References(o)')
              = Cardinality(References(o)) + (Cardinality(RefsIn(c, o)') - Cardinality(RefsIn(c, o)))
      <4>1. HeapTypeOK /\ cells' \in [Objects -> Seq(Cell)] /\ GoesOn(t, ops) /\ ops \in Seq(Operations)
        BY <1>0, <1>1, <1>4
      <4> QED  BY <2>1, <4>1, RefsMove
    <3>2. Cardinality(RefsIn(c, o)') - Cardinality(RefsIn(c, o)) = One(i \in RefsIn(c, o)') - One(i \in RefsIn(c, o))
      BY <2>7, <3>1, OneDiffers
    <3>3. One(i \in RefsIn(c, o)') - One(i \in RefsIn(c, o)) = n
      BY <2>6 DEF One
    <3> QED  BY <3>1, <3>2, <3>3
  <2>9. KeyOf(o)' = KeyOf(o) /\ Owned(o)' = Owned(o)
    <3>1. NoUnlink(t, ops) /\ node' = node
      BY <1>0, <1>1, <1>2 DEF NoUnlink, weak
    <3>2. KeyOf(o)' = KeyOf(o)
      BY <1>0, <1>1, <3>1, KeysSame
    <3> QED  BY <1>0, <3>2 DEF Owned
  <2>10. CountIs(o)
    BY <1>0, <1>9 DEF CountsInv
  <2>11. Done(t, o) = n /\ WorkIn(ops, o) = 0
    <3>1. Weight(Storing(c, i, v), o) = n
      BY DEF Weight, Storing, One
    <3> QED  BY <3>1, WorkOfFew DEF Done, ops
  <2>12. Moved(o, 0, n, 0, 0)
    <3>1. rc[o] \in Int /\ skew[o] \in Int /\ skew'[o] = skew[o] /\ rc'[o] = rc[o]
      BY <1>0 DEF HeapTypeOK
    <3>2. /\ Cardinality(Owned(o)) \in Nat /\ Cardinality(KeyOf(o)) \in Nat
      BY <1>0, SizesAre
    <3> QED  BY <2>8, <2>9, <3>1, <3>2 DEF Moved
  <2>13. 0 = WorkIn(ops, o) - Done(t, o) + n + 0 + 0
    BY <2>11
  <2>14. GoesOn(t, ops) /\ ops \in Seq(Operations) /\ HeapTypeOK /\ 0 \in Int
    BY <1>0, <1>1
  <2> QED  BY <1>5, <2>10, <2>12, <2>13, <2>14, CountMoved
<1> QED  BY <1>5, <1>6, <1>7, <1>8, <1>9 DEF HeapOK, CountsInv
-----------------------------------------------------------------------------
(* The emptying of a container ends behind its last cell. *)
LEMMA EmptyEnds ==
  ASSUME HeapOK, NEW t \in Threads, todo[t] # <<>>, NEW c \in Objects, NEW i \in Nat \ {0},
         Head(todo[t]) = Emptying(c, i), Empty(t, c, i), i > Len(cells[c])
  PROVE  HeapOK'
<1> DEFINE ops == <<>>
<1>0. /\ HeapTypeOK /\ BornInv /\ CellsInv /\ NodesInv /\ StepsInv /\ CountsInv
      /\ UNCHANGED <<rc, cells, weak, held, skew>> /\ mem' = [mem EXCEPT ![c] = "freed"]
  BY DEF HeapOK, Empty
<1>1. /\ GoesOn(t, ops) /\ ops \in Seq(Operations) /\ DOMAIN ops = {} /\ First(t) = {Emptying(c, i)}
      /\ <<t, 1>> \in Places /\ At(<<t, 1>>) = Emptying(c, i)
  BY <1>0, FirstStep DEF GoesOn, Empty, First
<1> HIDE DEF ops
<1>2. Emptying(c, i).op = "empty" /\ Emptying(c, i).on = c /\ Emptying(c, i).at = i
  BY DEF Emptying
<1>3. /\ mem[c] = "dying" /\ mem'[c] = "freed" /\ \A d \in Objects \ {c} : mem'[d] = mem[d]
      /\ \A j \in DOMAIN cells[c] : j \in Nat /\ j < i
  <2>1. mem[c] = "dying"
    BY <1>0, <1>1, <1>2 DEF StepsInv, StepOK
  <2>2. \A j \in DOMAIN cells[c] : j \in Nat /\ j < i
    BY <1>0, LenProperties DEF HeapTypeOK
  <2> QED  BY <1>0, <2>1, <2>2 DEF HeapTypeOK
<1>4. HeapTypeOK'
  <2>1. todo' \in [Threads -> Seq(Operations)]
    BY <1>0, <1>1, StepsMove
  <2> QED  BY <1>0, <2>1 DEF HeapTypeOK, weak
<1>5. BornInv'
  <2>1. Born' = Born
    BY <1>0, <1>3 DEF Born
  <2>2. \A x \in Places' : At(x)'.on \in Born' \cup {Null} /\ (At(x)'.op = "store" => At(x)'.value \in Born')
    BY <1>0, <1>1, <2>1, BornStepsKept
  <2> QED  BY <1>0, <2>1, <2>2 DEF BornInv, weak
<1>6. CellsInv' /\ NodesInv'
  BY <1>0 DEF CellsInv, CellsOf, NodesInv, weak
<1>7. StepsInv'
  <2>1. StaysOK(t, EmptiesOf(c))
    <3>1. ASSUME NEW x \in Places \ {<<t, 1>>}, At(x) \in EmptiesOf(c) PROVE FALSE
      <4>1. Rivals(At(x), At(<<t, 1>>))
        BY <1>1, <1>2, <3>1 DEF Rivals, EmptiesOf
      <4> QED  BY <1>0, <1>1, <4>1, OneOfAKind
    <3>2. \A s \in Operations : s.op \in {"store", "empty", "visit", "unlink"} => s.on \in Objects
      BY DEF Operations
    <3>3. \A u \in Threads : \A s \in Operations \ EmptiesOf(c) : StepOK(u, s) => StepOK(u, s)'
      BY <1>0, <1>3, <3>2 DEF StepOK, weak, EmptiesOf
    <3> QED  BY <3>1, <3>3 DEF StaysOK
  <2>2. ComesOK(t, ops)
    BY <1>1 DEF ComesOK
  <2> QED  BY <1>0, <1>1, <2>1, <2>2, StepsKept
<1>8. ASSUME NEW o \in Objects, mem'[o] = "live", rc'[o] < Immortal PROVE CountIs(o)'
  <2>1. ASSUME NEW d \in Objects PROVE RefsIn(d, o)' = RefsIn(d, o)
    <3>1. CASE d = c
      <4>1. \A j \in DOMAIN cells[c] : Released(c, j)
        BY <1>1, <1>2, <1>3 DEF Released
      <4> QED  BY <1>0, <1>3, <3>1, <4>1 DEF RefsIn, Counted
    <3>2. CASE d # c
      <4>1. Aside(t, ops, d)
        BY <1>0, <1>1, <1>2, <1>3, <3>2 DEF Aside
      <4> QED  BY <1>0, <1>1, <4>1, AsideIsSame
    <3> QED  BY <3>1, <3>2
  <2>2. References(o)' = References(o)
    BY <2>1, RefsAre
  <2>3. KeyOf(o)' = KeyOf(o)
    <3>1. NoUnlink(t, ops) /\ node' = node
      BY <1>0, <1>1, <1>2 DEF NoUnlink, weak
    <3> QED  BY <1>0, <1>1, <3>1, KeysSame
  <2>4. Owned(o)' = Owned(o)
    BY <1>0 DEF Owned
  <2>5. CountIs(o)
    BY <1>0, <1>3, <1>8 DEF CountsInv
  <2>6. Done(t, o) = 0 /\ WorkIn(ops, o) = 0
    <3>1. Weight(Emptying(c, i), o) = 0
      BY DEF Weight, Emptying
    <3> QED  BY <3>1, WorkOfFew DEF Done, ops
  <2>7. Moved(o, 0, 0, 0, 0)
    <3>1. rc[o] \in Int /\ skew[o] \in Int /\ skew'[o] = skew[o] /\ rc'[o] = rc[o]
      BY <1>0 DEF HeapTypeOK
    <3>2. /\ Cardinality(Owned(o)) \in Nat /\ Cardinality(References(o)) \in Nat /\ Cardinality(KeyOf(o)) \in Nat
      BY <1>0, SizesAre
    <3> QED  BY <2>2, <2>3, <2>4, <3>1, <3>2 DEF Moved
  <2>8. 0 = WorkIn(ops, o) - Done(t, o) + 0 + 0 + 0
    BY <2>6
  <2>9. GoesOn(t, ops) /\ ops \in Seq(Operations) /\ HeapTypeOK /\ 0 \in Int
    BY <1>0, <1>1
  <2> QED  BY <1>4, <2>5, <2>7, <2>8, <2>9, CountMoved
<1> QED  BY <1>4, <1>5, <1>6, <1>7, <1>8 DEF HeapOK, CountsInv

(* A round of the emptying keeps the invariant: a cell that counted is a    *)
(* release to do.                                                           *)
LEMMA EmptyKeeps ==
  ASSUME HeapOK, NEW t \in Threads, todo[t] # <<>>, NEW c \in Objects, NEW i \in Nat \ {0},
         Head(todo[t]) = Emptying(c, i), Empty(t, c, i), i <= Len(cells[c])
  PROVE  HeapOK'
<1> PICK v : v = cells[c][i].to
  OBVIOUS
<1> DEFINE ops == <<Releasing(v), Emptying(c, i + 1)>>
<1>0. /\ HeapTypeOK /\ BornInv /\ CellsInv /\ NodesInv /\ StepsInv /\ CountsInv
      /\ UNCHANGED <<mem, rc, cells, weak, held>> /\ skew' = Excess(c, i)
  <2>1. Len(cells[c]) \in Nat
    BY LenProperties DEF HeapOK, HeapTypeOK
  <2> QED  BY <2>1 DEF HeapOK, Empty
<1>1. /\ Before(t, ops) /\ First(t) = {Emptying(c, i)}
      /\ <<t, 1>> \in Places /\ At(<<t, 1>>) = Emptying(c, i)
  <2>1. Len(cells[c]) \in Nat
    BY LenProperties DEF HeapOK, HeapTypeOK
  <2> QED  BY <1>0, <2>1, FirstStep DEF Empty, First
<1>2. /\ Emptying(c, i).op = "empty" /\ Emptying(c, i).on = c /\ Emptying(c, i).at = i
      /\ Emptying(c, i + 1).op = "empty" /\ Emptying(c, i + 1).on = c /\ Emptying(c, i + 1).at = i + 1
      /\ Releasing(v).op = "release" /\ Releasing(v).on = v
  BY DEF Emptying, Releasing
<1>3. i \in DOMAIN cells[c] /\ v \in Values /\ v \in Born \cup {Null} /\ \A j \in DOMAIN cells[c] : j \in Nat
  <2> PICK s \in Seq(Cell) : s = cells[c]
    BY <1>0 DEF HeapTypeOK
  <2>1. i \in DOMAIN s /\ s[i] \in Cell /\ \A j \in DOMAIN s : j \in Nat
    BY LenProperties, ElementOfSeq
  <2> QED  BY <1>0, <2>1 DEF BornInv, Cell
<1>4. mem[c] = "dying" /\ \A x \in Places \ {<<t, 1>>} : ~(At(x).op = "empty" /\ At(x).on = c)
  <2>1. mem[c] = "dying"
    BY <1>0, <1>1, <1>2 DEF StepsInv, StepOK
  <2>2. ASSUME NEW x \in Places \ {<<t, 1>>}, At(x).op = "empty", At(x).on = c PROVE FALSE
    <3>1. Rivals(At(x), At(<<t, 1>>))
      BY <1>1, <1>2, <2>2 DEF Rivals
    <3> QED  BY <1>0, <1>1, <3>1, OneOfAKind
  <2> QED  BY <2>1, <2>2
<1>5. GoesOn(t, ops) /\ ops \in Seq(Operations) /\ DOMAIN ops = {1, 2}
      /\ ops[1] = Releasing(v) /\ ops[2] = Emptying(c, i + 1)
  <2>1. Releasing(v) \in Operations /\ Emptying(c, i + 1) \in Operations
    BY <1>3, Primitives
  <2> QED  BY <1>1, <2>1, ShortLists DEF GoesOn
<1> HIDE DEF ops
<1> DEFINE ex == cells[c][i].weak \/ Replaced(c, i)
<1>51. HeapTypeOK /\ GoesOn(t, ops) /\ ops \in Seq(Operations)
  BY <1>0, <1>5
<1>52. skew' = IF ex THEN [skew EXCEPT ![v] = @ + 1] ELSE skew
  BY <1>0 DEF Excess
<1>53. skew \in [Objects -> Int]
  BY <1>0 DEF HeapTypeOK
<1> HIDE DEF ex
<1>6. HeapTypeOK'
  <2>1. todo' \in [Threads -> Seq(Operations)]
    BY <1>0, <1>5, StepsMove
  <2>2. skew' \in [Objects -> Int]
    <3>1. CASE v \in Objects
      BY <1>52, <1>53, <3>1
    <3>2. CASE v \notin Objects
      <4>1. [skew EXCEPT ![v] = @ + 1] = skew
        BY <1>53, <3>2
      <4> QED  BY <1>52, <1>53, <4>1
    <3> QED  BY <3>1, <3>2
  <2> QED  BY <1>0, <2>1, <2>2 DEF HeapTypeOK, weak
<1>7. BornInv'
  <2>1. Born' = Born
    BY <1>0 DEF Born
  <2>2. \A x \in Places' : At(x)'.on \in Born' \cup {Null} /\ (At(x)'.op = "store" => At(x)'.value \in Born')
    <3>1. \A k \in DOMAIN ops : BornStep(ops[k])'
      BY <1>2, <1>3, <1>4, <1>5, <2>1 DEF BornStep, Born
    <3> QED  BY <1>0, <1>5, <2>1, <3>1, BornStepsKept
  <2>3. \A o \in Objects \ Born : skew'[o] = 0
    <3>1. \A o \in Objects \ Born : skew[o] = 0
      BY <1>0 DEF BornInv
    <3>2. v \in Born \/ v \notin Objects
      BY <1>3 DEF HeapAssumption
    <3> QED  BY <1>52, <1>53, <3>1, <3>2
  <2> QED  BY <1>0, <2>1, <2>2, <2>3 DEF BornInv, weak
<1>8. CellsInv' /\ NodesInv'
  BY <1>0 DEF CellsInv, CellsOf, NodesInv, weak
<1>9. StepsInv'
  <2>1. StaysOK(t, {})
    BY <1>0 DEF StepOK, weak, StaysOK
  <2>2. ComesOK(t, ops)
    <3>1. StepOK(t, Emptying(c, i + 1))' /\ StepOK(t, Releasing(v))'
      BY <1>0, <1>2, <1>4 DEF StepOK
    <3>2. Rivals(Emptying(c, i), Emptying(c, i + 1)) /\ ~Rivals(Releasing(v), Emptying(c, i + 1))
          /\ ~Rivals(Emptying(c, i + 1), Releasing(v))
      BY <1>2 DEF Rivals
    <3> QED  BY <1>1, <1>2, <1>5, <3>1, <3>2 DEF ComesOK
  <2> QED  BY <1>0, <1>5, <2>1, <2>2, StepsKept
<1>10. ASSUME NEW o \in Objects, mem'[o] = "live", rc'[o] < Immortal PROVE CountIs(o)'
  <2>1. OthersAside(t, ops, c)
    BY <1>0, <1>1, <1>2, <1>5 DEF OthersAside, Aside, Marking
  <2>2. \A j : Replaced(c, j)' <=> Replaced(c, j)
    <3>1. \A j : NoneOf(t, ops, StoresAt(c, j))
      BY <1>1, <1>2, <1>5 DEF NoneOf, StoresAt
    <3> QED  BY <1>51, <3>1, MarksStay
  <2>3. \A j \in DOMAIN cells[c] : (Released(c, j) <=> i > j) /\ (Released(c, j)' <=> i + 1 > j)
    <3>1. \A j : Released(c, j) <=> i > j
      BY <1>1, <1>2, <1>4 DEF Released
    <3>2. \A z \in Places' : \/ z[1] = t /\ \E k \in DOMAIN ops : At(z)' = ops[k]
                             \/ \E x \in Places \ {<<t, 1>>} : x[1] = z[1] /\ At(z)' = At(x)
      BY <1>51, StepsMove
    <3>3. \A z \in Places' : At(z)'.op = "empty" /\ At(z)'.on = c => At(z)'.at = i + 1
      BY <1>2, <1>4, <1>5, <3>2
    <3>4. \E z \in Places' : At(z)'.op = "empty" /\ At(z)'.on = c
      <4> DEFINE S == EmptiesOf(c)
      <4>1. /\ Cardinality(Pending(S)) \in Nat /\ Cardinality(Pending(S)') \in Nat /\ Cardinality(Picked(ops, S)) \in Nat
            /\ Cardinality(Pending(S)') = Cardinality(Pending(S)) - One(First(t) \cap S # {}) + Cardinality(Picked(ops, S))
        <5> HIDE DEF S
        <5> QED  BY <1>51, PendingMoves
      <4>2. Cardinality(Pending(S)) > 0 /\ One(First(t) \cap S # {}) <= 1 /\ One(First(t) \cap S # {}) \in Nat
        <5>1. At(<<t, 1>>) \in S
          BY <1>1, <1>2, <1>0, FirstStep DEF EmptiesOf
        <5>2. Cardinality(Pending(S)) > 0
          BY <1>0, <1>1, <5>1, Marks DEF HeapTypeOK
        <5> QED  BY <5>2 DEF One
      <4>3. Cardinality(Picked(ops, S)) # 0
        <5>1. IsFiniteSet(Picked(ops, S))
          BY <1>5, PickedAre
        <5>2. 2 \in Picked(ops, S)
          <6>1. Emptying(c, i + 1) \in Operations
            BY Primitives
          <6> QED  BY <1>2, <1>5, <6>1 DEF Picked, EmptiesOf
        <5> QED  BY <5>1, <5>2, FS_EmptySet
      <4>4. Cardinality(Pending(S)') > 0
        <5> DEFINE p == Cardinality(Pending(S))  p1 == Cardinality(Pending(S)')  k == Cardinality(Picked(ops, S))
                   h == One(First(t) \cap S # {})
        <5>1. p \in Nat /\ p1 \in Nat /\ k \in Nat /\ p1 = p - h + k /\ p > 0 /\ h <= 1 /\ h \in Nat /\ k # 0
          BY <4>1, <4>2, <4>3
        <5> HIDE DEF p, p1, k, h
        <5> QED  BY <5>1 DEF p1
      <4>5. \E z \in Places' : At(z)' \in S
        BY <1>6, <4>4, MarksAfter DEF HeapTypeOK
      <4> QED  BY <4>5 DEF EmptiesOf
    <3> QED  BY <3>1, <3>3, <3>4 DEF Released
  <2>4. RefsIn(c, o) \ {i} = RefsIn(c, o)' \ {i} /\ i \notin RefsIn(c, o)'
    <3>1. \A j \in DOMAIN cells[c] : j # i => (i > j <=> i + 1 > j)
      BY <1>3
    <3> QED  BY <1>0, <2>2, <2>3, <3>1 DEF RefsIn, Counted
  <2>5. i \in RefsIn(c, o) <=> v = o /\ ~cells[c][i].weak /\ ~Replaced(c, i)
    <3>1. ~Released(c, i) /\ o # Null
      BY <1>3, <2>3 DEF HeapAssumption
    <3> QED  BY <1>3, <1>4, <3>1 DEF RefsIn, Counted
  <2> PICK n \in Int : n = One(v = o)
    BY DEF One
  <2> PICK k \in Int : k = One(i \in RefsIn(c, o))
    BY DEF One
  <2>6. Cardinality(References(o)') = Cardinality(References(o)) + (0 - k)
    <3>1. /\ IsFiniteSet(RefsIn(c, o)) /\ IsFiniteSet(RefsIn(c, o)')
          /\ Cardinality(References(o)')
              = Cardinality(References(o)) + (Cardinality(RefsIn(c, o)') - Cardinality(RefsIn(c, o)))
      <4>1. HeapTypeOK /\ cells' \in [Objects -> Seq(Cell)] /\ GoesOn(t, ops) /\ ops \in Seq(Operations)
        BY <1>0, <1>5, <1>6 DEF HeapTypeOK
      <4> QED  BY <2>1, <4>1, RefsMove
    <3>2. Cardinality(RefsIn(c, o)') - Cardinality(RefsIn(c, o)) = One(i \in RefsIn(c, o)') - One(i \in RefsIn(c, o))
      BY <2>4, <3>1, OneDiffers
    <3>3. One(i \in RefsIn(c, o)') - One(i \in RefsIn(c, o)) = 0 - k
      BY <2>4 DEF One
    <3> QED  BY <3>1, <3>2, <3>3
  <2>7. rc'[o] = rc[o] /\ skew'[o] = skew[o] + (n - k) /\ rc[o] \in Int /\ skew[o] \in Int
    <3>1. rc[o] \in Int /\ skew[o] \in Int /\ rc'[o] = rc[o] /\ (i \in RefsIn(c, o) <=> v = o /\ ~ex)
      BY <1>0, <2>5 DEF HeapTypeOK, ex
    <3>2. CASE v # o
      <4>1. n = 0 /\ k = 0 /\ skew'[o] = skew[o]
        BY <1>52, <1>53, <3>1, <3>2 DEF One
      <4> QED  BY <3>1, <4>1
    <3>3. CASE v = o /\ ex
      <4>1. n = 1 /\ k = 0 /\ skew'[o] = skew[o] + 1
        BY <1>52, <1>53, <3>1, <3>3 DEF One
      <4> QED  BY <3>1, <4>1
    <3>4. CASE v = o /\ ~ex
      <4>1. n = 1 /\ k = 1 /\ skew'[o] = skew[o]
        BY <1>52, <1>53, <3>1, <3>4 DEF One
      <4> QED  BY <3>1, <4>1
    <3> QED  BY <3>2, <3>3, <3>4
  <2>8. KeyOf(o)' = KeyOf(o)
    <3>1. NoUnlink(t, ops) /\ node' = node
      BY <1>0, <1>1, <1>2, <1>5 DEF NoUnlink, weak
    <3> QED  BY <1>0, <1>5, <3>1, KeysSame
  <2>9. Owned(o)' = Owned(o)
    BY <1>0 DEF Owned
  <2>10. CountIs(o)
    BY <1>0, <1>10 DEF CountsInv
  <2>11. Done(t, o) = 0 /\ WorkIn(ops, o) = n
    <3>1. Weight(Emptying(c, i), o) = 0 /\ Weight(Emptying(c, i + 1), o) = 0 /\ Weight(Releasing(v), o) = n
      BY DEF Weight, Emptying, Releasing, One
    <3>2. Releasing(v) \in Operations /\ Emptying(c, i + 1) \in Operations
      BY <1>3, Primitives
    <3>3. WorkIn(ops, o) = Weight(Releasing(v), o) + Weight(Emptying(c, i + 1), o)
      BY <3>2, WorkOfFew DEF ops
    <3> QED  BY <3>1, <3>3 DEF Done
  <2>12. Moved(o, n - k, 0 - k, 0, 0)
    <3>2. /\ Cardinality(Owned(o)) \in Nat /\ Cardinality(References(o)) \in Nat /\ Cardinality(KeyOf(o)) \in Nat
      BY <1>0, SizesAre
    <3>3. rc'[o] + skew'[o] = rc[o] + skew[o] + (n - k)
      BY <2>7
    <3>4. /\ rc'[o] + skew'[o] = rc[o] + skew[o] + (n - k)
          /\ Cardinality(References(o)') = Cardinality(References(o)) + (0 - k)
          /\ Cardinality(KeyOf(o)') = Cardinality(KeyOf(o)) + 0 /\ Cardinality(Owned(o)') = Cardinality(Owned(o)) + 0
      <4>1. Cardinality(References(o)') = Cardinality(References(o)) + (0 - k)
        BY <2>6
      <4>2. Cardinality(KeyOf(o)') = Cardinality(KeyOf(o)) + 0
        BY <2>8, <3>2
      <4>3. Cardinality(Owned(o)') = Cardinality(Owned(o)) + 0
        BY <2>9, <3>2
      <4> QED  BY <3>3, <4>1, <4>2, <4>3
    <3> QED  BY <3>4 DEF Moved
  <2>13. n - k = WorkIn(ops, o) - Done(t, o) + (0 - k) + 0 + 0 /\ n - k \in Int /\ 0 - k \in Int
    BY <2>11
  <2>14. GoesOn(t, ops) /\ ops \in Seq(Operations) /\ HeapTypeOK /\ 0 \in Int
    BY <1>0, <1>5
  <2> QED  BY <1>6, <2>10, <2>12, <2>13, <2>14, CountMoved
<1> QED  BY <1>6, <1>7, <1>8, <1>9, <1>10 DEF HeapOK, CountsInv
-----------------------------------------------------------------------------
(* The walk over the weak references.  A round that changes no count.       *)
NoWork(t, ops) ==
  /\ \A s \in First(t) : s.op \in {"visit", "unlink"}
  /\ \A i \in DOMAIN ops : ops[i].op \in {"visit", "unlink"}
  /\ Len(ops) <= 1

(* Such a round leaves the counts right. *)
LEMMA WalkCounts ==
  ASSUME HeapOK, HeapTypeOK', NEW t \in Threads, NEW ops \in Seq(Operations), GoesOn(t, ops),
         NoWork(t, ops), UNCHANGED <<mem, rc, held, cells, skew>>,
         \A o \in Objects : KeyOf(o)' = KeyOf(o)
  PROVE  CountsInv'
<1>0. HeapTypeOK /\ CountsInv
  BY DEF HeapOK
<1> SUFFICES ASSUME NEW o \in Objects, mem'[o] = "live", rc'[o] < Immortal PROVE CountIs(o)'
  BY DEF CountsInv
<1>1. References(o)' = References(o)
  <2>1. AllAside(t, ops)
    BY DEF AllAside, Aside, Marking, NoWork
  <2> QED  BY <1>0, <2>1, RefsSame
<1>2. KeyOf(o)' = KeyOf(o) /\ Owned(o)' = Owned(o)
  BY DEF Owned
<1>3. CountIs(o)
  BY <1>0 DEF CountsInv
<1>4. \A s : s.op \in {"visit", "unlink"} => Weight(s, o) = 0
  BY DEF Weight
<1>5. Done(t, o) = 0
  <2>1. todo[t] # <<>> => Head(todo[t]) \in First(t)
    BY DEF First
  <2> QED  BY <1>4, <2>1 DEF Done, NoWork
<1>6. WorkIn(ops, o) = 0
  <2>1. Len(ops) \in Nat /\ \A i \in DOMAIN ops : ops[i] \in Operations
    BY LenProperties, ElementOfSeq
  <2>2. CASE Len(ops) = 0
    <3>1. ops = <<>>
      BY <2>2, EmptySeq
    <3> QED  BY <3>1, WorkOfFew
  <2>3. CASE Len(ops) = 1
    <3>1. ops = <<ops[1]>> /\ 1 \in DOMAIN ops
      BY <2>3
    <3>2. ops[1] \in Operations /\ Weight(ops[1], o) = 0
      BY <1>4, <2>1, <3>1 DEF NoWork
    <3>3. \A a \in Operations : WorkIn(<<a>>, o) = Weight(a, o)
      BY WorkOfFew
    <3> QED  BY <3>1, <3>2, <3>3
  <2>4. Len(ops) <= 1 /\ Len(ops) \in Nat
    BY LenProperties DEF NoWork
  <2>5. Len(ops) = 0 \/ Len(ops) = 1
    <3> PICK k \in Nat : k = Len(ops)
      BY <2>4
    <3>1. k <= 1
      BY <2>4
    <3>2. k = 0 \/ k = 1
      BY <3>1
    <3> QED  BY <3>2
  <2> QED  BY <2>2, <2>3, <2>5
<1>7. Moved(o, 0, 0, 0, 0)
  <2>1. rc[o] \in Int /\ skew[o] \in Int /\ skew'[o] = skew[o] /\ rc'[o] = rc[o]
    BY <1>0 DEF HeapTypeOK
  <2>2. /\ Cardinality(Owned(o)) \in Nat /\ Cardinality(References(o)) \in Nat /\ Cardinality(KeyOf(o)) \in Nat
    BY <1>0, SizesAre
  <2> QED  BY <1>1, <1>2, <2>1, <2>2 DEF Moved
<1>8. 0 = WorkIn(ops, o) - Done(t, o) + 0 + 0 + 0 /\ 0 \in Int
  BY <1>5, <1>6
<1> QED  BY <1>0, <1>3, <1>7, <1>8, CountMoved

(* Unlinking an entry keeps the invariant: its key counted no more since    *)
(* this was to do.                                                          *)
LEMMA UnlinkKeeps ==
  ASSUME HeapOK, NEW t \in Threads, todo[t] # <<>>, NEW o \in Objects, NEW p \in Links, NEW n \in Nodes,
         Head(todo[t]) = Unlinking(o, p, n), Unlink(t, o, p, n)
  PROVE  HeapOK'
<1> DEFINE ops == <<Visiting(o, p)>>
<1>0. /\ HeapTypeOK /\ BornInv /\ CellsInv /\ NodesInv /\ StepsInv /\ CountsInv
      /\ UNCHANGED <<mem, rc, held, cells, skew, weakVar>>
      /\ link' = [link EXCEPT ![p] = link[n]] /\ node' = [node EXCEPT ![n].used = "freed"]
  BY DEF HeapOK, Unlink, counts
<1>1. /\ Visiting(o, p).op = "visit" /\ Visiting(o, p).on = o
      /\ Unlinking(o, p, n).op = "unlink" /\ Unlinking(o, p, n).on = o /\ Unlinking(o, p, n).entry = n
  BY DEF Visiting, Unlinking
<1>2. /\ GoesOn(t, ops) /\ ops \in Seq(Operations) /\ DOMAIN ops = {1} /\ Len(ops) = 1 /\ ops[1] = Visiting(o, p)
      /\ First(t) = {Unlinking(o, p, n)} /\ <<t, 1>> \in Places /\ At(<<t, 1>>) = Unlinking(o, p, n)
  <2>1. Visiting(o, p) \in Operations
    BY Primitives
  <2> QED  BY <1>0, <2>1, FirstStep, ShortLists DEF GoesOn, First, Unlink
<1> HIDE DEF ops
<1>3. /\ HeapTypeOK /\ GoesOn(t, ops) /\ ops \in Seq(Operations)
      /\ StepOK(t, Unlinking(o, p, n)) /\ mem[o] \in {"dying", "freed"}
  <2>1. StepOK(t, Unlinking(o, p, n))
    BY <1>0, <1>2 DEF StepsInv
  <2> QED  BY <1>0, <1>1, <1>2, <2>1 DEF StepOK
<1>4. /\ node'[n] = [node[n] EXCEPT !.used = "freed"] /\ \A m \in Nodes \ {n} : node'[m] = node[m]
      /\ node' \in [Nodes -> [used : {"no", "yes", "freed"}, on : Values, var : WeakVars \cup {Null},
                         dict : Values, key : Values]]
      /\ \A m \in Nodes : /\ node'[m].on = node[m].on /\ node'[m].var = node[m].var
                          /\ node'[m].dict = node[m].dict /\ node'[m].key = node[m].key
      /\ node'[n].used = "freed"
  <2> PICK e : e = node[n]
    OBVIOUS
  <2> PICK e1 : e1 = [e EXCEPT !.used = "freed"]
    OBVIOUS
  <2> DEFINE Entries == [used : {"no", "yes", "freed"}, on : Values, var : WeakVars \cup {Null},
                         dict : Values, key : Values]
  <2>1. node' = [node EXCEPT ![n] = e1] /\ node \in [Nodes -> Entries] /\ e \in Entries
    BY <1>0 DEF HeapTypeOK
  <2>2. /\ e1 \in Entries /\ e1.used = "freed" /\ e1.on = e.on /\ e1.var = e.var
        /\ e1.dict = e.dict /\ e1.key = e.key
    BY <2>1
  <2> HIDE DEF Entries
  <2>3. node' \in [Nodes -> Entries] /\ node'[n] = e1 /\ \A m \in Nodes \ {n} : node'[m] = node[m]
    BY <2>1, <2>2
  <2> QED  BY <2>2, <2>3 DEF Entries
<1>5. HeapTypeOK'
  <2>1. todo' \in [Threads -> Seq(Operations)]
    BY <1>3, StepsMove
  <2>2. link' \in [Links -> Links]
    BY <1>0 DEF HeapTypeOK, Links
  <2> QED  BY <1>0, <1>4, <2>1, <2>2 DEF HeapTypeOK
<1>6. BornInv'
  <2>1. Born' = Born
    BY <1>0 DEF Born
  <2>2. \A x \in Places' : At(x)'.on \in Born' \cup {Null} /\ (At(x)'.op = "store" => At(x)'.value \in Born')
    <3>1. \A i \in DOMAIN ops : BornStep(ops[i])'
      BY <1>1, <1>2, <1>3, <2>1 DEF BornStep, Born
    <3> QED  BY <1>0, <1>3, <2>1, <3>1, BornStepsKept
  <2> QED  BY <1>0, <1>4, <2>1, <2>2 DEF BornInv
<1>7. CellsInv'
  BY <1>0 DEF CellsInv, CellsOf
<1>8. NodesInv'
  <2> SUFFICES ASSUME NEW m \in Nodes, node'[m].used = "yes"
               PROVE IF node'[m].var # Null THEN node'[m].key = Null
                     ELSE node'[m].dict \in Objects /\ Kind[node'[m].dict] = "dict" /\ node'[m].key \in Objects
    BY DEF NodesInv
  <2>1. m # n /\ node'[m] = node[m]
    BY <1>4
  <2> QED  BY <1>0, <2>1 DEF NodesInv
<1>9. StepsInv'
  <2>1. StaysOK(t, {})
    <3>1. \A s \in Operations : s.op = "unlink" => s.entry \in Nodes
      BY DEF Operations
    <3>2. \A m \in Nodes : node[m].used # "no" => node'[m].used # "no"
      BY <1>4
    <3> QED  BY <1>0, <1>4, <3>1, <3>2 DEF StepOK, StaysOK
  <2>2. ComesOK(t, ops)
    <3>1. StepOK(t, Visiting(o, p))'
      BY <1>0, <1>1, <1>3 DEF StepOK
    <3>2. Rivals(Unlinking(o, p, n), Visiting(o, p))
      BY <1>1 DEF Rivals
    <3> QED  BY <1>2, <3>1, <3>2 DEF ComesOK
  <2> QED  BY <1>0, <1>3, <2>1, <2>2, StepsKept
<1>10. \A x \in Objects : KeyOf(x)' = KeyOf(x)
  <2>1. \A m : m # n => (UnlinkSoon(m)' <=> UnlinkSoon(m))
    <3>1. \A m : m # n => NoneOf(t, ops, UnlinksOf(m))
      BY <1>1, <1>2 DEF NoneOf, UnlinksOf
    <3> QED  BY <1>3, <3>1, MarksStay
  <2>2. UnlinkSoon(n)
    BY <1>1, <1>2 DEF UnlinkSoon
  <2> TAKE x \in Objects
  <2>3. n \notin KeyOf(x) /\ n \notin KeyOf(x)'
    BY <1>4, <2>2 DEF KeyOf
  <2>4. \A m \in Nodes \ {n} : m \in KeyOf(x) <=> m \in KeyOf(x)'
    BY <1>4, <2>1 DEF KeyOf
  <2>5. KeyOf(x) \subseteq Nodes /\ KeyOf(x)' \subseteq Nodes
    BY DEF KeyOf
  <2> DEFINE K == KeyOf(x)  K1 == KeyOf(x)'
  <2>6. /\ n \notin K /\ n \notin K1 /\ K \subseteq Nodes /\ K1 \subseteq Nodes
        /\ \A m \in Nodes \ {n} : m \in K <=> m \in K1
    BY <2>3, <2>4, <2>5
  <2> HIDE DEF K, K1
  <2>7. \A m : m \in K <=> m \in K1
    BY <2>6, Zenon
  <2>8. K1 = K
    BY <2>7
  <2> QED  BY <2>8 DEF K, K1
<1>11. CountsInv'
  <2>1. NoWork(t, ops)
    BY <1>1, <1>2 DEF NoWork
  <2>2. UNCHANGED <<mem, rc, held, cells, skew>>
    BY <1>0
  <2> QED  BY <1>3, <1>5, <1>10, <2>1, <2>2, WalkCounts
<1> QED  BY <1>5, <1>6, <1>7, <1>8, <1>9, <1>11 DEF HeapOK

(* A round that ends, passes on, or clears a variable keeps the invariant. *)
LEMMA PassKeeps ==
  ASSUME HeapOK, NEW t \in Threads, todo[t] # <<>>, NEW o \in Objects, NEW p \in Links,
         Head(todo[t]) = Visiting(o, p), Visit(t, o, p), ~broken',
         link[p] # Null /\ node[link[p]].on = o => node[link[p]].var # Null
  PROVE  HeapOK'
<1> PICK n : n = link[p]
  OBVIOUS
<1> PICK found \in BOOLEAN : found <=> n # Null /\ node[n].on = o
  OBVIOUS
<1> DEFINE ops == IF n = Null THEN <<>> ELSE IF found THEN <<Unlinking(o, p, n)>> ELSE <<Visiting(o, n)>>
<1>0. /\ HeapTypeOK /\ BornInv /\ CellsInv /\ NodesInv /\ StepsInv /\ CountsInv
      /\ UNCHANGED <<mem, rc, held, node, link>>
  BY DEF HeapOK, Visit
<1>1. n \in Links /\ (n # Null => n \in Nodes /\ node[n].used = "yes")
  BY <1>0 DEF HeapTypeOK, Links, Visit
<1>2. Before(t, ops) /\ UNCHANGED <<cells, skew>>
      /\ (weakVar' = weakVar \/ weakVar' = [weakVar EXCEPT ![node[n].var] = Null])
  BY <1>1 DEF Visit, RefersTo, ClearVar
<1>3. /\ Visiting(o, p).op = "visit" /\ Visiting(o, p).on = o
      /\ Visiting(o, n).op = "visit" /\ Visiting(o, n).on = o
      /\ Unlinking(o, p, n).op = "unlink" /\ Unlinking(o, p, n).on = o /\ Unlinking(o, p, n).entry = n
  BY DEF Visiting, Unlinking
<1>4. /\ GoesOn(t, ops) /\ ops \in Seq(Operations) /\ Len(ops) <= 1
      /\ First(t) = {Visiting(o, p)} /\ <<t, 1>> \in Places /\ At(<<t, 1>>) = Visiting(o, p)
      /\ \A i \in DOMAIN ops : i = 1 /\ \/ ops[i] = Visiting(o, n)
                                        \/ found /\ ops[i] = Unlinking(o, p, n)
  <2>1. Visiting(o, n) \in Operations /\ (n # Null => Unlinking(o, p, n) \in Operations)
    BY <1>1, Primitives
  <2>2. ops \in Seq(Operations)
    BY <2>1, ShortLists
  <2>3. <<t, 1>> \in Places /\ At(<<t, 1>>) = Visiting(o, p)
    BY <1>0, FirstStep
  <2> QED  BY <1>2, <2>2, <2>3 DEF GoesOn, First
<1> HIDE DEF ops
<1>5. /\ HeapTypeOK /\ GoesOn(t, ops) /\ ops \in Seq(Operations) /\ mem[o] \in {"dying", "freed"}
  <2>1. StepOK(t, Visiting(o, p))
    BY <1>0, <1>4 DEF StepsInv
  <2> QED  BY <1>0, <1>3, <1>4, <2>1 DEF StepOK
<1>6. HeapTypeOK'
  <2>1. todo' \in [Threads -> Seq(Operations)]
    BY <1>5, StepsMove
  <2>2. weakVar' \in [WeakVars -> Values]
    BY <1>0, <1>2 DEF HeapTypeOK, Values
  <2> QED  BY <1>0, <1>2, <2>1, <2>2 DEF HeapTypeOK
<1>7. BornInv'
  <2>1. Born' = Born
    BY <1>0 DEF Born
  <2>2. \A x \in Places' : At(x)'.on \in Born' \cup {Null} /\ (At(x)'.op = "store" => At(x)'.value \in Born')
    <3>1. \A i \in DOMAIN ops : BornStep(ops[i])'
      BY <1>3, <1>4, <1>5, <2>1 DEF BornStep, Born
    <3> QED  BY <1>0, <1>5, <2>1, <3>1, BornStepsKept
  <2>3. \A w \in WeakVars : weakVar'[w] \in Born' \cup {Null}
    BY <1>0, <1>2, <2>1 DEF BornInv, HeapTypeOK
  <2> QED  BY <1>0, <1>2, <2>1, <2>2, <2>3 DEF BornInv
<1>8. CellsInv' /\ NodesInv'
  BY <1>0, <1>2 DEF CellsInv, CellsOf, NodesInv
<1>9. StepsInv'
  <2>1. StaysOK(t, {})
    BY <1>0, <1>2 DEF StepOK, StaysOK
  <2>2. ComesOK(t, ops)
    <3>1. StepOK(t, Visiting(o, n))' /\ (found => StepOK(t, Unlinking(o, p, n))')
      BY <1>0, <1>1, <1>3, <1>5 DEF StepOK
    <3>2. Rivals(Visiting(o, p), Visiting(o, n)) /\ Rivals(Visiting(o, p), Unlinking(o, p, n))
      BY <1>3 DEF Rivals
    <3> QED  BY <1>4, <3>1, <3>2 DEF ComesOK
  <2> QED  BY <1>0, <1>5, <2>1, <2>2, StepsKept
<1>10. \A x \in Objects : KeyOf(x)' = KeyOf(x)
  <2>1. \A m : ~(found /\ m = n) => (UnlinkSoon(m)' <=> UnlinkSoon(m))
    <3>1. \A m : ~(found /\ m = n) => NoneOf(t, ops, UnlinksOf(m))
      BY <1>3, <1>4 DEF NoneOf, UnlinksOf
    <3> QED  BY <1>5, <3>1, MarksStay
  <2>2. found => node[n].key = Null
    BY <1>0, <1>1 DEF NodesInv
  <2> TAKE x \in Objects
  <2>3. x # Null
    BY DEF HeapAssumption
  <2> QED  BY <1>0, <2>1, <2>2, <2>3 DEF KeyOf
<1>11. CountsInv'
  <2>1. NoWork(t, ops)
    BY <1>3, <1>4 DEF NoWork
  <2>2. UNCHANGED <<mem, rc, held, cells, skew>>
    BY <1>0, <1>2
  <2> QED  BY <1>5, <1>6, <1>10, <2>1, <2>2, WalkCounts
<1> QED  BY <1>6, <1>7, <1>8, <1>9, <1>11 DEF HeapOK
-----------------------------------------------------------------------------
(* Steps that are neither a free nor a store. *)
Unmarked(t, ops) ==
  /\ \A s \in First(t) : s.op \notin Marking
  /\ \A i \in DOMAIN ops : ops[i].op \notin Marking

(* They leave which cells are released or replaced as it was. *)
LEMMA UnmarkedStay ==
  ASSUME HeapTypeOK, NEW t \in Threads, NEW ops \in Seq(Operations), GoesOn(t, ops), Unmarked(t, ops)
  PROVE  \A c, i : (Released(c, i)' <=> Released(c, i)) /\ (Replaced(c, i)' <=> Replaced(c, i))
<1>1. \A c, i : NoneOf(t, ops, EmptiesPast(c, i)) /\ NoneOf(t, ops, StoresAt(c, i))
  BY DEF NoneOf, EmptiesPast, StoresAt, Unmarked, Marking
<1> QED  BY <1>1, MarksStay

(* They concern no container but the one that changes. *)
LEMMA UnmarkedAside ==
  ASSUME HeapTypeOK, NEW t \in Threads, NEW ops \in Seq(Operations), Unmarked(t, ops), mem' = mem,
         NEW c, \A d \in Objects \ {c} : cells'[d] = cells[d]
  PROVE  OthersAside(t, ops, c)
BY DEF OthersAside, Aside, Unmarked

(* A weak value over what the key had: a reference that is forgotten is     *)
(* skew.                                                                    *)
LEMMA WeaklyOver ==
  ASSUME HeapTypeOK, BornInv, CellsInv, NEW t \in Threads, NEW ops \in Seq(Operations), GoesOn(t, ops), Unmarked(t, ops),
         NEW c \in Objects, NEW i \in DOMAIN cells[c], NEW v \in Born \cup {Null}, Kind[c] = "dict", i % 2 = 0,
         cells' = Overwritten(c, i, Weakly(v)), skew' = Leak(c, i), mem' = mem
  PROVE  /\ cells' \in [Objects -> Seq(Cell)] /\ skew' \in [Objects -> Int]
         /\ \A d \in Objects : DOMAIN cells[d] \subseteq DOMAIN cells'[d]
         /\ \A d \in Objects : \A j \in DOMAIN cells'[d] : cells'[d][j].to \in Born \cup {Null}
         /\ CellsInv' /\ \A o \in Objects \ Born : skew'[o] = 0
         /\ \A o \in Objects : \E r \in Int : /\ Cardinality(References(o)') = Cardinality(References(o)) + r
                                              /\ skew'[o] = skew[o] + r
<1> PICK w : w = cells[c][i].to
  OBVIOUS
<1> PICK gone \in BOOLEAN : gone <=> Counted(c, i)
  OBVIOUS
<1>0. /\ cells \in [Objects -> Seq(Cell)] /\ skew \in [Objects -> Int]
      /\ skew' = IF gone THEN [skew EXCEPT ![w] = @ - 1] ELSE skew
      /\ cells[c] \in Seq(Cell) /\ Weakly(v) \in Cell /\ w \in Born \cup {Null} /\ (gone => w \in Objects)
      /\ (Weakly(v).weak => Weakly(v).to # Null) /\ Weakly(v).to = v /\ Weakly(v).weak \in BOOLEAN
  <2>1. cells[c] \in Seq(Cell) /\ v \in Values
    BY DEF HeapTypeOK, Born, Values
  <2>2. w \in Born \cup {Null} /\ (gone => w \in Objects)
    BY DEF BornInv, Counted, Born
  <2> QED  BY <2>1, <2>2 DEF HeapTypeOK, Weakly, Cell, Leak
<1>1. /\ cells' \in [Objects -> Seq(Cell)] /\ \A d \in Objects : DOMAIN cells'[d] = DOMAIN cells[d]
      /\ cells'[c][i] = Weakly(v) /\ \A d \in Objects : Len(cells'[d]) = Len(cells[d])
      /\ \A d \in Objects : \A j \in DOMAIN cells[d] : d # c \/ j # i => cells'[d][j] = cells[d][j]
      /\ \A d \in Objects \ {c} : cells'[d] = cells[d]
  <2> PICK s \in Seq(Cell) : s = cells[c]
    BY <1>0
  <2> PICK q : q = [s EXCEPT ![i] = Weakly(v)]
    OBVIOUS
  <2>1. q \in Seq(Cell) /\ Len(q) = Len(s)
    BY <1>0, ExceptSeq
  <2>2. cells' = [cells EXCEPT ![c] = q]
    BY DEF Overwritten
  <2>3. DOMAIN q = DOMAIN s /\ q[i] = Weakly(v) /\ \A j \in DOMAIN s : j # i => q[j] = s[j]
    OBVIOUS
  <2> QED  BY <1>0, <2>1, <2>2, <2>3
<1>2. skew' \in [Objects -> Int] /\ \A o \in Objects : skew'[o] = skew[o] + (0 - One(gone /\ w = o))
  <2>1. CASE gone
    BY <1>0, <2>1 DEF One
  <2>2. CASE ~gone
    BY <1>0, <2>2 DEF One
  <2> QED  BY <2>1, <2>2
<1>3. \A o \in Objects \ Born : skew'[o] = 0
  <2>1. \A o \in Objects \ Born : skew[o] = 0 /\ ~(gone /\ w = o)
    BY <1>0 DEF BornInv, HeapAssumption
  <2> QED  BY <1>0, <1>2, <2>1 DEF One
<1>4. \A d \in Objects : \A j \in DOMAIN cells'[d] : cells'[d][j].to \in Born \cup {Null}
  <2> TAKE d \in Objects
  <2> TAKE j \in DOMAIN cells'[d]
  <2>1. j \in DOMAIN cells[d] /\ cells[d][j].to \in Born \cup {Null}
    BY <1>1 DEF BornInv
  <2>2. CASE d = c /\ j = i
    BY <1>0, <1>1, <2>2
  <2>3. CASE ~(d = c /\ j = i)
    BY <1>1, <2>1, <2>3
  <2> QED  BY <2>2, <2>3
<1>5. CellsInv'
  <2>1. ASSUME NEW d \in Objects PROVE CellsOf(d)'
    <3>1. CellsOf(d) /\ Len(cells'[d]) = Len(cells[d]) /\ DOMAIN cells'[d] = DOMAIN cells[d]
      BY <1>1 DEF CellsInv
    <3>2. ASSUME NEW j \in DOMAIN cells[d]
          PROVE \/ cells'[d][j] = cells[d][j]
                \/ /\ (cells'[d][j].weak => Kind[d] = "dict" /\ cells'[d][j].to # Null)
                   /\ ~(j % 2 = 1)
      BY <1>0, <1>1
    <3> QED  BY <3>1, <3>2 DEF CellsOf
  <2> QED  BY <2>1 DEF CellsInv
<1>6. ASSUME NEW o \in Objects
      PROVE  \E r \in Int : /\ Cardinality(References(o)') = Cardinality(References(o)) + r
                            /\ skew'[o] = skew[o] + r
  <2> PICK k \in Int : k = One(gone /\ w = o)
    BY DEF One
  <2>1. OthersAside(t, ops, c)
    BY <1>1, UnmarkedAside
  <2>2. /\ IsFiniteSet(RefsIn(c, o)) /\ IsFiniteSet(RefsIn(c, o)')
        /\ Cardinality(References(o)')
              = Cardinality(References(o)) + (Cardinality(RefsIn(c, o)') - Cardinality(RefsIn(c, o)))
    BY <1>1, <2>1, RefsMove
  <2>3. RefsIn(c, o) \ {i} = RefsIn(c, o)' \ {i}
    <3>1. \A j : (Released(c, j)' <=> Released(c, j)) /\ (Replaced(c, j)' <=> Replaced(c, j))
      BY UnmarkedStay
    <3> QED  BY <1>1, <3>1 DEF RefsIn, Counted
  <2>4. i \notin RefsIn(c, o)' /\ (i \in RefsIn(c, o) <=> gone /\ w = o)
    <3>1. o # Null /\ cells'[c][i].to = v /\ (cells'[c][i].weak <=> v # Null)
      <4>1. Weakly(v).weak <=> v # Null
        BY DEF Weakly
      <4>2. cells'[c][i] = Weakly(v) /\ o # Null /\ Weakly(v).to = v
        BY <1>0, <1>1 DEF HeapAssumption
      <4> QED  BY <4>1, <4>2
    <3>2. i \notin RefsIn(c, o)'
      BY <3>1 DEF RefsIn, Counted
    <3>3. i \in RefsIn(c, o) <=> Counted(c, i) /\ w = o
      BY DEF RefsIn
    <3> QED  BY <3>2, <3>3
  <2>5. Cardinality(RefsIn(c, o)') - Cardinality(RefsIn(c, o)) = One(i \in RefsIn(c, o)') - One(i \in RefsIn(c, o))
    BY <2>2, <2>3, OneDiffers
  <2>6. One(i \in RefsIn(c, o)') = 0 /\ One(i \in RefsIn(c, o)) = k
    BY <2>4 DEF One
  <2>7. Cardinality(References(o)') = Cardinality(References(o)) + (0 - k) /\ 0 - k \in Int
    BY <2>2, <2>5, <2>6
  <2> QED  BY <1>2, <2>7
<1> QED  BY <1>1, <1>2, <1>3, <1>4, <1>5, <1>6

(* A live container that no thread frees or stores into. *)
Quiet(c) == mem[c] = "live" /\ \A x \in Places : ~(At(x).op = "store" /\ At(x).on = c)
To(o) == {r \in Cell : r.to = o /\ ~r.weak}

(* No cell of a live container has been released. *)
LEMMA LiveIsKept ==
  ASSUME StepsInv, NEW c \in Objects, mem[c] = "live"
  PROVE  \A i : ~Released(c, i)
BY DEF StepsInv, StepOK, Released

(* A new entry refers to its key, and to its value if it is strong. *)
LEMMA NewEntryDoes ==
  ASSUME HeapTypeOK, BornInv, CellsInv, StepsInv, NEW t \in Threads, NEW ops \in Seq(Operations), GoesOn(t, ops),
         Unmarked(t, ops), NEW d \in Objects, NEW k \in Born, NEW v \in Cell, v.to \in Born \cup {Null},
         v.weak => v.to # Null,
         Kind[d] = "dict", mem[d] = "live", cells' = WithEntry(d, k, v), mem' = mem
  PROVE  /\ cells' \in [Objects -> Seq(Cell)]
         /\ \A c \in Objects : DOMAIN cells[c] \subseteq DOMAIN cells'[c]
         /\ \A c \in Objects : \A j \in DOMAIN cells'[c] : cells'[c][j].to \in Born \cup {Null}
         /\ CellsInv'
         /\ \A o \in Objects : Cardinality(References(o)')
              = Cardinality(References(o)) + (One(k = o) + One(v.to = o /\ ~v.weak))
<1> PICK s \in Seq(Cell) : s = cells[d]
  BY DEF HeapTypeOK
<1> PICK q : q = s \o <<Strong(k), v>>
  OBVIOUS
<1> PICK m \in Nat : m = Len(s)
  BY LenProperties
<1>0. Strong(k) \in Cell /\ Strong(k).to = k /\ ~Strong(k).weak /\ k \in Objects /\ k # Null
  BY DEF Strong, Cell, Values, Born, HeapAssumption
<1>1. /\ q \in Seq(Cell) /\ Len(q) = m + 2 /\ DOMAIN q = 1 .. m + 2 /\ DOMAIN s = 1 .. m
      /\ q[m + 1] = Strong(k) /\ q[m + 2] = v /\ \A j \in 1 .. m : q[j] = s[j]
  <2> DEFINE e == <<Strong(k), v>>
  <2>1. e \in Seq(Cell) /\ Len(e) = 2 /\ e[1] = Strong(k) /\ e[2] = v
    BY <1>0
  <2>0. e \in Seq(Cell)
    BY <2>1
  <2> HIDE DEF e
  <2>2. /\ s \o e \in Seq(Cell) /\ Len(s \o e) = Len(s) + Len(e)
        /\ \A j \in 1 .. Len(s) + Len(e) : (s \o e)[j] = IF j <= Len(s) THEN s[j] ELSE e[j - Len(s)]
    BY <2>0, ConcatProperties
  <2>3. q = s \o e
    BY DEF e
  <2>4. /\ q \in Seq(Cell) /\ Len(q) = m + 2
        /\ \A j \in 1 .. m + 2 : q[j] = IF j <= m THEN s[j] ELSE e[j - m]
    BY <2>1, <2>2, <2>3
  <2>5. (m + 1) - m = 1 /\ (m + 2) - m = 2 /\ m + 1 \in 1 .. m + 2 /\ m + 2 \in 1 .. m + 2
        /\ \A j \in 1 .. m : j \in 1 .. m + 2 /\ j <= m
    OBVIOUS
  <2>6. DOMAIN q = 1 .. m + 2 /\ DOMAIN s = 1 .. m
    BY <2>4, LenProperties
  <2> QED  BY <2>1, <2>4, <2>5, <2>6
<1>2. /\ cells \in [Objects -> Seq(Cell)] /\ cells' \in [Objects -> Seq(Cell)] /\ cells'[d] = q
      /\ \A c \in Objects \ {d} : cells'[c] = cells[c]
  <2>1. cells' = [cells EXCEPT ![d] = q] /\ cells \in [Objects -> Seq(Cell)]
    BY DEF WithEntry, HeapTypeOK
  <2> QED  BY <1>1, <2>1
<1>3. \A c \in Objects : DOMAIN cells[c] \subseteq DOMAIN cells'[c]
  <2>1. 1 .. m \subseteq 1 .. m + 2
    OBVIOUS
  <2> QED  BY <1>1, <1>2, <2>1
<1>4. \A j \in 1 .. m + 2 : j \in 1 .. m \/ j = m + 1 \/ j = m + 2
  BY TwoMore
<1>5. \A c \in Objects : \A j \in DOMAIN cells'[c] : cells'[c][j].to \in Born \cup {Null}
  <2>1. \A c \in Objects : \A j \in DOMAIN cells[c] : cells[c][j].to \in Born \cup {Null}
    BY DEF BornInv
  <2>2. ASSUME NEW j \in DOMAIN q PROVE q[j].to \in Born \cup {Null}
    <3>1. j \in 1 .. m + 2 /\ DOMAIN s = 1 .. m
      BY <1>1, <2>2
    <3>2. CASE j \in 1 .. m
      BY <1>0, <1>1, <2>1, <3>1, <3>2
    <3>3. CASE j = m + 1
      BY <1>0, <1>1, <3>3
    <3>4. CASE j = m + 2
      BY <1>0, <1>1, <3>4
    <3> QED  BY <1>4, <3>1, <3>2, <3>3, <3>4
  <2> QED  BY <1>2, <2>1, <2>2
<1>6. CellsInv'
  <2>1. ASSUME NEW c \in Objects PROVE CellsOf(c)'
    <3>1. CellsOf(c)
      BY DEF CellsInv
    <3>2. CASE c # d
      BY <1>2, <3>1, <3>2 DEF CellsOf
    <3>3. CASE c = d
      <4>1. m % 2 = 0 /\ (m + 2) % 2 = 0 /\ ~((m + 2) % 2 = 1)
        <5>1. m % 2 = 0
          BY <3>1, <3>3 DEF CellsOf
        <5> QED  BY <5>1, TwoMore
      <4>2. ASSUME NEW j \in DOMAIN q
            PROVE  /\ q[j].weak => q[j].to # Null
                   /\ j % 2 = 1 => ~q[j].weak /\ q[j].to # Null
        <5>1. CASE j \in 1 .. m
          BY <1>1, <3>1, <3>3, <5>1 DEF CellsOf
        <5>2. CASE j = m + 1
          BY <1>0, <1>1, <5>2
        <5>3. CASE j = m + 2
          BY <1>1, <4>1, <5>3
        <5> QED  BY <1>1, <1>4, <5>1, <5>2, <5>3
      <4> QED  BY <1>1, <1>2, <3>3, <4>1, <4>2 DEF CellsOf
    <3> QED  BY <3>2, <3>3
  <2> QED  BY <2>1 DEF CellsInv
<1>7. ASSUME NEW o \in Objects
      PROVE  Cardinality(References(o)') = Cardinality(References(o)) + (One(k = o) + One(v.to = o /\ ~v.weak))
  <2>1. OthersAside(t, ops, d)
    BY <1>2, UnmarkedAside
  <2>2. /\ IsFiniteSet(RefsIn(d, o)) /\ IsFiniteSet(RefsIn(d, o)')
        /\ Cardinality(References(o)) \in Nat
        /\ Cardinality(References(o)')
              = Cardinality(References(o)) + (Cardinality(RefsIn(d, o)') - Cardinality(RefsIn(d, o)))
    BY <1>2, <2>1, RefsMove
  <2>3. \A j : (Released(d, j)' <=> Released(d, j)) /\ (Replaced(d, j)' <=> Replaced(d, j)) /\ ~Released(d, j)
    BY UnmarkedStay, LiveIsKept
  <2>4. ~Replaced(d, m + 1) /\ ~Replaced(d, m + 2)
    <3>1. \A x \in Places : At(x).op = "store" /\ At(x).on = d => At(x).at \in 1 .. m
      BY <1>1 DEF StepsInv, StepOK
    <3>2. m + 1 \notin 1 .. m /\ m + 2 \notin 1 .. m
      OBVIOUS
    <3> QED  BY <3>1, <3>2 DEF Replaced
  <2>5. RefsIn(d, o) \ {m + 1, m + 2} = RefsIn(d, o)' \ {m + 1, m + 2}
    <3>1. \A j : j \in RefsIn(d, o) \ {m + 1, m + 2} <=> j \in RefsIn(d, o)' \ {m + 1, m + 2}
      <4> TAKE j
      <4>1. CASE j \in 1 .. m
        BY <1>1, <1>2, <2>3, <4>1 DEF RefsIn, Counted
      <4>2. CASE j \notin 1 .. m
        BY <1>1, <1>2, <1>4, <4>2 DEF RefsIn
      <4> QED  BY <4>1, <4>2
    <3> QED  BY <3>1
  <2>6. m + 1 \notin RefsIn(d, o) /\ m + 2 \notin RefsIn(d, o)
    BY <1>1 DEF RefsIn
  <2>7. m + 1 \in RefsIn(d, o)' <=> k = o
    BY <1>0, <1>1, <1>2, <2>3, <2>4 DEF RefsIn, Counted
  <2>8. m + 2 \in RefsIn(d, o)' <=> v.to = o /\ ~v.weak
    <3>1. o # Null
      BY DEF HeapAssumption
    <3> QED  BY <1>1, <1>2, <2>3, <2>4, <3>1 DEF RefsIn, Counted
  <2>9. Cardinality(RefsIn(d, o)') - Cardinality(RefsIn(d, o))
          = One(m + 1 \in RefsIn(d, o)') - One(m + 1 \in RefsIn(d, o)) + One(m + 2 \in RefsIn(d, o)') - One(m + 2 \in RefsIn(d, o))
    <3>a. PICK a \in Nat : a = m + 1
      OBVIOUS
    <3>b. PICK b \in Nat : b = m + 2
      OBVIOUS
    <3>0. a # b
      BY <3>a, <3>b
    <3>c. PICK R : R = RefsIn(d, o)
      OBVIOUS
    <3>d. PICK Q : Q = RefsIn(d, o)'
      OBVIOUS
    <3>1. IsFiniteSet(R) /\ IsFiniteSet(Q) /\ R \ {a, b} = Q \ {a, b}
      BY <2>2, <2>5, <3>a, <3>b, <3>c, <3>d
    <3>2. /\ Cardinality(R) \in Nat /\ Cardinality(Q) \in Nat
          /\ Cardinality(Q) - Cardinality(R) = One(a \in Q) - One(a \in R) + One(b \in Q) - One(b \in R)
      BY <3>0, <3>1, TwoDiffer
    <3> QED  BY <3>2, <3>a, <3>b, <3>c, <3>d
  <2>10. /\ One(m + 1 \in RefsIn(d, o)') = One(k = o) /\ One(m + 1 \in RefsIn(d, o)) = 0
         /\ One(m + 2 \in RefsIn(d, o)') = One(v.to = o /\ ~v.weak) /\ One(m + 2 \in RefsIn(d, o)) = 0
         /\ One(k = o) \in Int /\ One(v.to = o /\ ~v.weak) \in Int
    BY <2>6, <2>7, <2>8 DEF One
  <2> QED  BY <2>2, <2>9, <2>10
<1> QED  BY <1>2, <1>3, <1>5, <1>6, <1>7

(* A key that is found has its value behind it. *)
LEMMA ValueIsThere ==
  ASSUME HeapTypeOK, CellsInv, NEW d \in Objects, Kind[d] = "dict", NEW k, Entry(d, k) # {}
  PROVE  /\ Value(d, k) \in DOMAIN cells[d] /\ Value(d, k) % 2 = 0 /\ Value(d, k) \in Nat \ {0}
         /\ Value(d, k) - 1 \in DOMAIN cells[d] /\ (Value(d, k) - 1) % 2 = 1
<1>1. PICK e : e = CHOOSE i \in Entry(d, k) : TRUE
  OBVIOUS
<1>2. e \in DOMAIN cells[d] /\ e % 2 = 1
  BY <1>1 DEF Entry
<1>3. PICK s \in Seq(Cell) : s = cells[d]
  BY DEF HeapTypeOK
<1>4. PICK m \in Nat : m = Len(s)
  BY LenProperties
<1>5. DOMAIN s = 1 .. m /\ m % 2 = 0
  BY <1>3, <1>4, LenProperties DEF CellsInv, CellsOf
<1>6. e \in Nat /\ e <= m /\ e >= 1
  BY <1>2, <1>3, <1>5
<1>7. e + 1 <= m /\ (e + 1) % 2 = 0
  BY <1>2, <1>5, <1>6, OddAndEven
<1>8. Value(d, k) = 1 + e
  BY <1>1 DEF Value
<1>9. e + 1 \in 1 .. m /\ 1 + e = e + 1 /\ (1 + e) - 1 = e
  BY <1>6, <1>7
<1> QED  BY <1>2, <1>3, <1>5, <1>6, <1>7, <1>8, <1>9

(* A weak value is put into a dictionary, over another or in a new entry. *)
LEMMA SetWeakDoes ==
  ASSUME HeapTypeOK, BornInv, CellsInv, StepsInv, NEW t \in Threads, NEW ops \in Seq(Operations), GoesOn(t, ops),
         Unmarked(t, ops), NEW d \in Objects, NEW k \in Born, NEW v \in Born \cup {Null},
         Kind[d] = "dict", SetWeak(d, k, v), mem' = mem, Entry(d, k) = {} => mem[d] = "live",
         NEW new \in BOOLEAN, new <=> Entry(d, k) = {}
  PROVE  /\ cells' \in [Objects -> Seq(Cell)] /\ skew' \in [Objects -> Int]
         /\ \A c \in Objects : DOMAIN cells[c] \subseteq DOMAIN cells'[c]
         /\ \A c \in Objects : \A j \in DOMAIN cells'[c] : cells'[c][j].to \in Born \cup {Null}
         /\ CellsInv' /\ \A o \in Objects \ Born : skew'[o] = 0
         /\ \A o \in Objects : \E r \in Int : /\ Cardinality(References(o)') = Cardinality(References(o)) + r
                                              /\ skew'[o] = skew[o] + (r - One(new /\ k = o))
<1>0. skew \in [Objects -> Int]
  BY DEF HeapTypeOK
<1>1. CASE ~new
  <2>1. PICK i : i = Value(d, k)
    OBVIOUS
  <2>2. i \in DOMAIN cells[d] /\ i % 2 = 0
    BY <1>1, <2>1, ValueIsThere
  <2>3. cells' = Overwritten(d, i, Weakly(v)) /\ skew' = Leak(d, i)
    BY <1>1, <2>1 DEF SetWeak
  <2>4. /\ cells' \in [Objects -> Seq(Cell)] /\ skew' \in [Objects -> Int]
        /\ \A c \in Objects : DOMAIN cells[c] \subseteq DOMAIN cells'[c]
        /\ \A c \in Objects : \A j \in DOMAIN cells'[c] : cells'[c][j].to \in Born \cup {Null}
        /\ CellsInv' /\ \A o \in Objects \ Born : skew'[o] = 0
        /\ \A o \in Objects : \E r \in Int : /\ Cardinality(References(o)') = Cardinality(References(o)) + r
                                             /\ skew'[o] = skew[o] + r
    BY <2>2, <2>3, WeaklyOver
  <2>5. \A o \in Objects : One(new /\ k = o) = 0
    BY <1>1 DEF One
  <2>6. \A o \in Objects : \E r \in Int : /\ Cardinality(References(o)') = Cardinality(References(o)) + r
                                          /\ skew'[o] = skew[o] + (r - One(new /\ k = o))
    <3> TAKE o \in Objects
    <3>1. PICK r \in Int : /\ Cardinality(References(o)') = Cardinality(References(o)) + r
                           /\ skew'[o] = skew[o] + r
      BY <2>4
    <3>2. r - One(new /\ k = o) = r
      BY <2>5
    <3> QED  BY <3>1, <3>2
  <2> QED  BY <2>4, <2>6
<1>2. CASE new
  <2>1. PICK w : w = Weakly(v)
    OBVIOUS
  <2>2. w \in Cell /\ w.to = v /\ (w.weak => w.to # Null)
    BY <2>1 DEF Weakly, Cell, Born, Values
  <2>3. cells' = WithEntry(d, k, w) /\ skew' = skew /\ mem[d] = "live"
    BY <1>2, <2>1 DEF SetWeak
  <2>4. /\ cells' \in [Objects -> Seq(Cell)]
        /\ \A c \in Objects : DOMAIN cells[c] \subseteq DOMAIN cells'[c]
        /\ \A c \in Objects : \A j \in DOMAIN cells'[c] : cells'[c][j].to \in Born \cup {Null}
        /\ CellsInv'
        /\ \A o \in Objects : Cardinality(References(o)')
              = Cardinality(References(o)) + (One(k = o) + One(w.to = o /\ ~w.weak))
    BY <2>2, <2>3, NewEntryDoes
  <2>5. \A o \in Objects : One(w.to = o /\ ~w.weak) = 0
    BY <2>1 DEF One, Weakly, HeapAssumption
  <2>6. \A o \in Objects : One(new /\ k = o) = One(k = o) /\ One(k = o) \in Int
    BY <1>2 DEF One
  <2>7. \A o \in Objects : \E r \in Int : /\ Cardinality(References(o)') = Cardinality(References(o)) + r
                                          /\ skew'[o] = skew[o] + (r - One(new /\ k = o))
    <3> TAKE o \in Objects
    <3>1. PICK r \in Int : r = One(k = o) /\ r = One(new /\ k = o)
      BY <2>6
    <3>2. Cardinality(References(o)') = Cardinality(References(o)) + (r + 0)
      BY <2>4, <2>5, <3>1
    <3>3. r + 0 = r /\ skew'[o] = skew[o] + (r - r)
      BY <1>0, <2>3
    <3> QED  BY <3>1, <3>2, <3>3
  <2>8. \A o \in Objects \ Born : skew'[o] = 0
    BY <2>3 DEF BornInv
  <2> QED  BY <1>0, <2>3, <2>4, <2>7, <2>8
<1> QED  BY <1>1, <1>2

(* A round of the walk that clears a dictionary's entry keeps the invariant. *)
LEMMA EntryClearedKeeps ==
  ASSUME HeapOK, NEW t \in Threads, todo[t] # <<>>, NEW o \in Objects, NEW p \in Links,
         Head(todo[t]) = Visiting(o, p), Visit(t, o, p), ~broken', ~raced', touched' = {},
         link[p] # Null, node[link[p]].on = o, node[link[p]].var = Null
  PROVE  HeapOK'
<1>n. PICK n : n = link[p]
  OBVIOUS
<1>d. PICK d : d = node[n].dict
  OBVIOUS
<1>k. PICK k : k = node[n].key
  OBVIOUS
<1>new. PICK new \in BOOLEAN : new <=> Entry(d, k) = {}
  OBVIOUS
<1> DEFINE ops == IF new THEN <<Retaining(k), Releasing(k), Unlinking(o, p, n)>>
                  ELSE <<Releasing(k), Unlinking(o, p, n)>>
<1>0. /\ HeapTypeOK /\ BornInv /\ CellsInv /\ NodesInv /\ StepsInv /\ CountsInv
      /\ UNCHANGED <<mem, rc, held, node, link, weakVar>>
  BY <1>n DEF HeapOK, Visit, ClearEntry, RefersTo
<1>1. /\ n \in Nodes /\ node[n].used = "yes" /\ node[n].on = o /\ d \in Objects /\ Kind[d] = "dict" /\ k \in Objects
      /\ d \in Born /\ k \in Born /\ k \in Values
  <2>1. n \in Nodes /\ node[n].used = "yes"
    BY <1>0, <1>n DEF HeapTypeOK, Links, Visit
  <2>2. d \in Objects /\ Kind[d] = "dict" /\ k \in Objects
    BY <1>0, <1>n, <1>d, <1>k, <2>1 DEF NodesInv
  <2>3. d \in Born /\ k \in Born
    BY <1>0, <1>d, <1>k, <2>1, <2>2 DEF BornInv, HeapAssumption
  <2> QED  BY <1>n, <2>1, <2>2, <2>3 DEF Values
<1>2. InTable(d, k) /\ SetWeak(d, k, Null) /\ Before(t, KeyRetained(d, k) \o <<Releasing(k), Unlinking(o, p, n)>>)
      /\ Owner[d] = t
  <2>1. ClearEntry(n) /\ raced' = (Owner[d] # t)
        /\ Before(t, KeyRetained(d, k) \o <<Releasing(k), Unlinking(o, p, n)>>)
    BY <1>n, <1>d, <1>k DEF Visit, RefersTo
  <2> QED  BY <1>d, <1>k, <2>1 DEF ClearEntry
<1>3. Retaining(k) \in Operations /\ Releasing(k) \in Operations /\ Unlinking(o, p, n) \in Operations
  BY <1>1, Primitives
<1>4. GoesOn(t, ops) /\ ops \in Seq(Operations)
  <2>1. KeyRetained(d, k) \o <<Releasing(k), Unlinking(o, p, n)>> = ops
    <3>1. CASE new
      <4>1. KeyRetained(d, k) = <<Retaining(k)>>
        BY <1>new, <3>1 DEF KeyRetained
      <4>2. <<Retaining(k)>> \o <<Releasing(k), Unlinking(o, p, n)>> = <<Retaining(k), Releasing(k), Unlinking(o, p, n)>>
        BY Prepended
      <4> QED  BY <3>1, <4>1, <4>2
    <3>2. CASE ~new
      <4>1. KeyRetained(d, k) = <<>>
        BY <1>new, <3>2 DEF KeyRetained
      <4>2. <<>> \o <<Releasing(k), Unlinking(o, p, n)>> = <<Releasing(k), Unlinking(o, p, n)>>
        OBVIOUS
      <4> QED  BY <3>2, <4>1, <4>2
    <3> QED  BY <3>1, <3>2
  <2> QED  BY <1>2, <1>3, <2>1, ShortLists DEF GoesOn
<1>5. \A i \in DOMAIN ops : ops[i] \in {Retaining(k), Releasing(k)} \/ (i = Len(ops) /\ ops[i] = Unlinking(o, p, n))
  OBVIOUS
<1>6. \E i \in DOMAIN ops : ops[i] = Unlinking(o, p, n)
  <2>1. CASE new
    <3>1. 3 \in DOMAIN ops /\ ops[3] = Unlinking(o, p, n)
      BY <2>1
    <3> QED  BY <3>1
  <2>2. CASE ~new
    <3>1. 2 \in DOMAIN ops /\ ops[2] = Unlinking(o, p, n)
      BY <2>2
    <3> QED  BY <3>1
  <2> QED  BY <2>1, <2>2
<1>7. \A x \in Objects : WorkIn(ops, x) = One(k = x) - One(new /\ k = x)
  <2> TAKE x \in Objects
  <2>r. PICK a \in Int : a = One(k = x)
    BY DEF One
  <2>1. Weight(Retaining(k), x) = 0 - a /\ Weight(Releasing(k), x) = a /\ Weight(Unlinking(o, p, n), x) = 0
    BY <2>r DEF Weight, Retaining, Releasing, Unlinking, One
  <2>2. CASE new
    <3>0. ops = <<Retaining(k), Releasing(k), Unlinking(o, p, n)>>
      BY <2>2
    <3>1. WorkIn(ops, x) = Weight(Retaining(k), x) + Weight(Releasing(k), x) + Weight(Unlinking(o, p, n), x)
      <4>1. \A e, f, g \in Operations : WorkIn(<<e, f, g>>, x) = Weight(e, x) + Weight(f, x) + Weight(g, x)
        BY WorkOfFew
      <4> QED  BY <1>3, <3>0, <4>1
    <3>2. One(new /\ k = x) = a
      BY <2>2, <2>r DEF One
    <3> HIDE DEF ops
    <3> QED  BY <2>1, <2>r, <3>1, <3>2
  <2>3. CASE ~new
    <3>0. ops = <<Releasing(k), Unlinking(o, p, n)>>
      BY <2>3
    <3>1. WorkIn(ops, x) = Weight(Releasing(k), x) + Weight(Unlinking(o, p, n), x)
      <4>1. \A e, f \in Operations : WorkIn(<<e, f>>, x) = Weight(e, x) + Weight(f, x)
        BY WorkOfFew
      <4> QED  BY <1>3, <3>0, <4>1
    <3>2. One(new /\ k = x) = 0
      BY <2>3 DEF One
    <3> HIDE DEF ops
    <3> QED  BY <2>1, <2>r, <3>1, <3>2
  <2> QED  BY <2>2, <2>3
<1> HIDE DEF ops
<1>8. /\ Visiting(o, p).op = "visit" /\ Visiting(o, p).on = o
      /\ Retaining(k).op = "retain" /\ Retaining(k).on = k /\ Releasing(k).op = "release" /\ Releasing(k).on = k
      /\ Unlinking(o, p, n).op = "unlink" /\ Unlinking(o, p, n).on = o /\ Unlinking(o, p, n).entry = n
  BY DEF Visiting, Unlinking, Retaining, Releasing
<1>9. /\ First(t) = {Visiting(o, p)} /\ <<t, 1>> \in Places /\ At(<<t, 1>>) = Visiting(o, p)
      /\ StepOK(t, Visiting(o, p)) /\ mem[o] \in {"dying", "freed"}
  <2>1. <<t, 1>> \in Places /\ At(<<t, 1>>) = Visiting(o, p)
    BY <1>0, FirstStep
  <2>2. StepOK(t, Visiting(o, p))
    BY <1>0, <2>1 DEF StepsInv
  <2> QED  BY <1>8, <2>1, <2>2 DEF StepOK, First
<1>10. Unmarked(t, ops)
  BY <1>5, <1>8, <1>9 DEF Unmarked, Marking
<1>11. new => mem[d] = "live"
  BY <1>2, <1>new DEF InTable
<1>12. /\ cells' \in [Objects -> Seq(Cell)] /\ skew' \in [Objects -> Int]
       /\ \A c \in Objects : DOMAIN cells[c] \subseteq DOMAIN cells'[c]
       /\ \A c \in Objects : \A j \in DOMAIN cells'[c] : cells'[c][j].to \in Born \cup {Null}
       /\ CellsInv' /\ \A x \in Objects \ Born : skew'[x] = 0
       /\ \A x \in Objects : \E r \in Int : /\ Cardinality(References(x)') = Cardinality(References(x)) + r
                                            /\ skew'[x] = skew[x] + (r - One(new /\ k = x))
  BY <1>0, <1>1, <1>2, <1>4, <1>10, <1>11, <1>new, SetWeakDoes
<1>13. HeapTypeOK'
  <2>1. todo' \in [Threads -> Seq(Operations)]
    BY <1>0, <1>4, StepsMove
  <2> QED  BY <1>0, <1>12, <2>1 DEF HeapTypeOK
<1>14. BornInv'
  <2>1. Born' = Born
    BY <1>0 DEF Born
  <2>2. \A x \in Places' : At(x)'.on \in Born' \cup {Null} /\ (At(x)'.op = "store" => At(x)'.value \in Born')
    <3>1. o \in Born
      BY <1>9 DEF Born
    <3>2. \A i \in DOMAIN ops : BornStep(ops[i])'
      BY <1>1, <1>5, <1>8, <2>1, <3>1 DEF BornStep
    <3> QED  BY <1>0, <1>4, <2>1, <3>2, BornStepsKept
  <2> QED  BY <1>0, <1>12, <2>1, <2>2 DEF BornInv
<1>15. NodesInv'
  BY <1>0 DEF NodesInv
<1>16. StepsInv'
  <2>1. StaysOK(t, {})
    <3>1. \A s \in Operations : s.op = "store" => s.on \in Objects
      BY DEF Operations
    <3> QED  BY <1>0, <1>12, <3>1 DEF StepOK, StaysOK
  <2>2. ComesOK(t, ops)
    <3>1. StepOK(t, Retaining(k))' /\ StepOK(t, Releasing(k))' /\ StepOK(t, Unlinking(o, p, n))'
      BY <1>0, <1>1, <1>8, <1>9 DEF StepOK
    <3>2. Rivals(Visiting(o, p), Unlinking(o, p, n))
      BY <1>8 DEF Rivals
    <3>3. \A i, j \in DOMAIN ops : Rivals(ops[i], ops[j]) => i = j
      BY <1>5, <1>8 DEF Rivals
    <3> QED  BY <1>5, <1>8, <1>9, <3>1, <3>2, <3>3 DEF ComesOK
  <2> QED  BY <1>0, <1>4, <2>1, <2>2, StepsKept
<1>17. ~UnlinkSoon(n) /\ UnlinkSoon(n)' /\ \A m : m # n => (UnlinkSoon(m)' <=> UnlinkSoon(m))
  <2>1. ~UnlinkSoon(n)
    <3> SUFFICES ASSUME NEW x \in Places, At(x).op = "unlink", At(x).entry = n PROVE FALSE
      BY DEF UnlinkSoon
    <3>1. StepOK(x[1], At(x))
      BY <1>0 DEF StepsInv
    <3>2. At(x).on = o
      BY <1>1, <3>1 DEF StepOK
    <3>3. Rivals(At(x), At(<<t, 1>>))
      BY <1>8, <1>9, <3>2 DEF Rivals
    <3>4. x = <<t, 1>>
      BY <1>0, <1>9, <3>3, OneOfAKind
    <3> QED  BY <1>8, <1>9, <3>4
  <2>2. \A m : m # n => (UnlinkSoon(m)' <=> UnlinkSoon(m))
    <3>1. \A m : m # n => NoneOf(t, ops, UnlinksOf(m))
      BY <1>5, <1>8, <1>9 DEF NoneOf, UnlinksOf
    <3> QED  BY <1>0, <1>4, <3>1, MarksStay
  <2>3. UnlinkSoon(n)'
    <3> DEFINE S == UnlinksOf(n)
    <3>1. /\ Cardinality(Pending(S)) \in Nat /\ Cardinality(Pending(S)') \in Nat /\ Cardinality(Picked(ops, S)) \in Nat
          /\ Cardinality(Pending(S)') = Cardinality(Pending(S)) - One(First(t) \cap S # {}) + Cardinality(Picked(ops, S))
      <4>1. HeapTypeOK /\ GoesOn(t, ops) /\ ops \in Seq(Operations)
        BY <1>0, <1>4
      <4> HIDE DEF S
      <4> QED  BY <4>1, PendingMoves
    <3>2. One(First(t) \cap S # {}) = 0
      BY <1>8, <1>9 DEF One, UnlinksOf
    <3>3. Cardinality(Picked(ops, S)) # 0
      <4>1. IsFiniteSet(Picked(ops, S))
        BY <1>4, PickedAre
      <4>2. Picked(ops, S) # {}
        BY <1>3, <1>6, <1>8 DEF Picked, UnlinksOf
      <4> QED  BY <4>1, <4>2, FS_EmptySet
    <3> HIDE DEF S
    <3>4. Cardinality(Pending(S)') > 0
      <4>p. PICK a \in Nat : a = Cardinality(Pending(S))
        BY <3>1
      <4>q. PICK b \in Nat : b = Cardinality(Pending(S)')
        BY <3>1
      <4>r. PICK c \in Nat : c = Cardinality(Picked(ops, S))
        BY <3>1
      <4>1. b = a - 0 + c /\ c # 0
        BY <3>1, <3>2, <3>3, <4>p, <4>q, <4>r
      <4>2. b > 0
        BY <4>1
      <4> QED  BY <4>2, <4>q
    <3>5. \A m : UnlinkSoon(m)' <=> Cardinality(Pending(UnlinksOf(m))') > 0
      BY <1>13, MarksAfter DEF HeapTypeOK
    <3> QED  BY <3>4, <3>5 DEF S
  <2> QED  BY <2>1, <2>2, <2>3
<1>18. ASSUME NEW x \in Objects, mem'[x] = "live", rc'[x] < Immortal PROVE CountIs(x)'
  <2>r. PICK r \in Int : /\ Cardinality(References(x)') = Cardinality(References(x)) + r
                         /\ skew'[x] = skew[x] + (r - One(new /\ k = x))
    BY <1>12
  <2>a. PICK a \in Int : a = One(k = x)
    BY DEF One
  <2>b. PICK b \in Int : b = One(new /\ k = x)
    BY DEF One
  <2>1. Cardinality(KeyOf(x)') = Cardinality(KeyOf(x)) + (0 - a)
    <3>1. IsFiniteSet(KeyOf(x)) /\ IsFiniteSet(KeyOf(x)') /\ Cardinality(KeyOf(x)) \in Nat /\ Cardinality(KeyOf(x)') \in Nat
      BY KeysCounted
    <3>2. KeyOf(x) \ {n} = KeyOf(x)' \ {n}
      BY <1>0, <1>17 DEF KeyOf
    <3>3. Cardinality(KeyOf(x)') - Cardinality(KeyOf(x)) = One(n \in KeyOf(x)') - One(n \in KeyOf(x))
      BY <3>1, <3>2, OneDiffers
    <3>4. n \notin KeyOf(x)' /\ (n \in KeyOf(x) <=> k = x)
      BY <1>1, <1>k, <1>17 DEF KeyOf
    <3>5. One(n \in KeyOf(x)') = 0 /\ One(n \in KeyOf(x)) = a
      BY <2>a, <3>4 DEF One
    <3> QED  BY <3>1, <3>3, <3>5
  <2>2. Owned(x)' = Owned(x)
    BY <1>0 DEF Owned
  <2>3. CountIs(x)
    BY <1>0, <1>18 DEF CountsInv
  <2>4. Done(t, x) = 0 /\ WorkIn(ops, x) = a - b
    <3>1. Weight(Visiting(o, p), x) = 0
      BY DEF Weight, Visiting
    <3> QED  BY <1>7, <2>a, <2>b, <3>1 DEF Done
  <2>5. Moved(x, r - b, r, 0 - a, 0)
    <3>1. rc[x] \in Int /\ skew[x] \in Int /\ rc'[x] = rc[x] /\ skew'[x] = skew[x] + (r - b)
      BY <1>0, <2>r, <2>b DEF HeapTypeOK
    <3>2. /\ Cardinality(Owned(x)) \in Nat /\ Cardinality(References(x)) \in Nat /\ Cardinality(KeyOf(x)) \in Nat
      BY <1>0, SizesAre
    <3>3. rc'[x] + skew'[x] = rc[x] + skew[x] + (r - b)
      BY <3>1
    <3> QED  BY <2>r, <2>1, <2>2, <3>2, <3>3 DEF Moved
  <2>6. r - b = WorkIn(ops, x) - Done(t, x) + r + (0 - a) + 0 /\ r - b \in Int /\ 0 - a \in Int /\ 0 \in Int
    BY <2>4
  <2> QED  BY <1>0, <1>4, <1>13, <2>3, <2>5, <2>6, CountMoved
<1> QED  BY <1>12, <1>13, <1>14, <1>15, <1>16, <1>18 DEF HeapOK, CountsInv
-----------------------------------------------------------------------------
(* The calls.  What a thread can use is born, and of what it owns the       *)
(* counts are positive.                                                     *)
LEMMA UsableIsBorn ==
  ASSUME HeapTypeOK, BornInv, NEW t \in Threads
  PROVE  /\ Usable(t) \subseteq Born /\ Held(t) \subseteq Born /\ Usable(t) \subseteq Objects /\ Held(t) \subseteq Objects
         /\ Born \subseteq Objects
         /\ \A o \in Held(t) : held[t][o] \in Nat /\ held[t][o] > 0
         /\ \A k \in {"sequence", "pair", "dict"} : Mine(t, k) \subseteq Born
<1>1. Born \subseteq Objects
  BY DEF Born
<1>2. Held(t) \subseteq Born /\ \A o \in Held(t) : held[t][o] \in Nat /\ held[t][o] > 0
  <2> SUFFICES ASSUME NEW o \in Held(t) PROVE o \in Born /\ held[t][o] \in Nat /\ held[t][o] > 0
    OBVIOUS
  <2>1. o \in Objects /\ held[t][o] > 0 /\ held[t][o] \in Nat
    BY DEF Held, HeapTypeOK
  <2>2. o \notin Born => held[t][o] = 0
    BY <2>1 DEF BornInv
  <2> QED  BY <2>1, <2>2
<1>3. \A k \in {"sequence", "pair", "dict"} : Mine(t, k) \subseteq Born
  BY DEF Mine, Born
<1>4. \A w \in BOOLEAN : Lent(t, w) \subseteq Born \cup {Null}
  BY <1>1, <1>3 DEF Lent, BornInv
<1>5. Usable(t) \subseteq Born
  <2>1. \A w \in WeakVars : weakVar[w] \in Born \cup {Null}
    BY DEF BornInv
  <2>2. Safe(t) \subseteq Born
    BY <1>2, <1>4 DEF Safe
  <2> QED  BY <1>4, <2>1, <2>2 DEF Usable
<1> QED  BY <1>1, <1>2, <1>3, <1>5

(* A call that begins with retaining and releasing only.                    *)
Light(ops) == \A i \in DOMAIN ops : ops[i].op \in {"retain", "release"} /\ ops[i].on \in Born \cup {Null}

(* Such a call brings no rival, and mentions nothing that is not born. *)
LEMMA LightCall ==
  ASSUME HeapTypeOK, BornInv, StepsInv, NEW t \in Threads, NEW ops \in Seq(Operations), todo[t] = <<>>, Start(t, ops),
         Light(ops), NEW gone, StaysOK(t, gone), Born \subseteq Born'
  PROVE  /\ GoesOn(t, ops) /\ First(t) = {} /\ \A x : Done(t, x) = 0
         /\ todo' \in [Threads -> Seq(Operations)] /\ StepsInv' /\ Unmarked(t, ops) /\ NoUnlink(t, ops)
         /\ \A x \in Places' : At(x)'.on \in Born' \cup {Null} /\ (At(x)'.op = "store" => At(x)'.value \in Born')
<1>1. GoesOn(t, ops) /\ First(t) = {} /\ \A x : Done(t, x) = 0
  BY DEF GoesOn, First, Done
<1>2. todo' \in [Threads -> Seq(Operations)]
  BY <1>1, StepsMove
<1>3. Unmarked(t, ops) /\ NoUnlink(t, ops)
  BY <1>1 DEF Unmarked, NoUnlink, Marking, Light
<1>4. ComesOK(t, ops)
  BY DEF ComesOK, Light, StepOK, Rivals
<1>5. StepsInv'
  BY <1>1, <1>4, StepsKept
<1>6. \A i \in DOMAIN ops : BornStep(ops[i])'
  BY DEF Light, BornStep
<1>7. \A x \in Places' : At(x)'.on \in Born' \cup {Null} /\ (At(x)'.op = "store" => At(x)'.value \in Born')
  BY <1>1, <1>6, BornStepsKept
<1> QED  BY <1>1, <1>2, <1>3, <1>5, <1>7

(* A call that changes what is owned, and no container.                     *)
Owns(x, a, b) == rc'[x] = rc[x] + a /\ Cardinality(Owned(x)') = Cardinality(Owned(x)) + b

(* Counts stay right if they move as what is owned and to do does. *)
LEMMA OwningCounts ==
  ASSUME HeapOK, HeapTypeOK', NEW t \in Threads, NEW ops \in Seq(Operations), GoesOn(t, ops), Unmarked(t, ops),
         UNCHANGED <<mem, cells, skew>>, \A x \in Objects : KeyOf(x)' = KeyOf(x),
         \A x \in Objects : mem[x] = "live" /\ rc'[x] < Immortal =>
           rc[x] < Immortal /\ \E a, b \in Int : Owns(x, a, b) /\ a = WorkIn(ops, x) - Done(t, x) + b
  PROVE  CountsInv'
<1>0. HeapTypeOK /\ CountsInv
  BY DEF HeapOK
<1> SUFFICES ASSUME NEW x \in Objects, mem'[x] = "live", rc'[x] < Immortal PROVE CountIs(x)'
  BY DEF CountsInv
<1>1. rc[x] < Immortal /\ mem[x] = "live" /\ \E a, b \in Int : Owns(x, a, b) /\ a = WorkIn(ops, x) - Done(t, x) + b
  OBVIOUS
<1>2. PICK a \in Int, b \in Int : Owns(x, a, b) /\ a = WorkIn(ops, x) - Done(t, x) + b
  BY <1>1
<1>3. References(x)' = References(x)
  <2>1. AllAside(t, ops)
    BY DEF AllAside, Aside, Unmarked
  <2> QED  BY <1>0, <2>1, RefsSame
<1>4. CountIs(x)
  BY <1>0, <1>1 DEF CountsInv
<1>5. Moved(x, a, 0, 0, b)
  <2>1. rc[x] \in Int /\ skew[x] \in Int /\ skew'[x] = skew[x] /\ rc'[x] = rc[x] + a
    BY <1>0, <1>2 DEF HeapTypeOK, Owns
  <2>2. /\ Cardinality(References(x)) \in Nat /\ Cardinality(KeyOf(x)) \in Nat
    BY <1>0, SizesAre
  <2>3. KeyOf(x)' = KeyOf(x) /\ Cardinality(Owned(x)') = Cardinality(Owned(x)) + b
    BY <1>2 DEF Owns
  <2>4. rc'[x] + skew'[x] = rc[x] + skew[x] + a
    BY <2>1
  <2> QED  BY <1>3, <2>2, <2>3, <2>4 DEF Moved
<1>6. WorkIn(ops, x) \in Int /\ Done(t, x) \in Int
  BY <1>0, WorkMoves
<1>7. a = WorkIn(ops, x) - Done(t, x) + 0 + 0 + b /\ 0 \in Int
  BY <1>2, <1>6
<1> QED  BY <1>0, <1>4, <1>5, <1>7, CountMoved

(* A thread holds n of o. *)
HeldIs(t, o, n) == held' = [held EXCEPT ![t][o] = n]

(* Then so much more or less of o is owned, and of all else as much. *)
LEMMA HeldBecomes ==
  ASSUME HeapTypeOK, NEW t \in Threads, NEW o \in Objects, NEW n \in Nat, HeldIs(t, o, n)
  PROVE  /\ held' \in [Threads -> [Objects -> Nat]]
         /\ held'[t][o] = n /\ \A u \in Threads : \A x \in Objects : u # t \/ x # o => held'[u][x] = held[u][x]
         /\ \A x \in Objects \ {o} : Cardinality(Owned(x)') = Cardinality(Owned(x))
         /\ Cardinality(Owned(o)') = Cardinality(Owned(o)) + (n - held[t][o])
<1>1. held \in [Threads -> [Objects -> Nat]]
  BY DEF HeapTypeOK
<1>2. PICK f \in [Objects -> Nat] : f = held[t]
  BY <1>1
<1>3. PICK g : g = [f EXCEPT ![o] = n]
  OBVIOUS
<1>4. g \in [Objects -> Nat] /\ g[o] = n /\ \A x \in Objects \ {o} : g[x] = f[x]
  BY <1>3
<1>5. held' = [held EXCEPT ![t] = g]
  BY <1>1, <1>2, <1>3 DEF HeldIs
<1>6. /\ held' \in [Threads -> [Objects -> Nat]] /\ held'[t] = g /\ \A u \in Threads \ {t} : held'[u] = held[u]
  BY <1>1, <1>4, <1>5
<1>7. /\ held'[t][o] = n /\ \A u \in Threads : \A x \in Objects : u # t \/ x # o => held'[u][x] = held[u][x]
  BY <1>2, <1>4, <1>6
<1>8. \A x \in Objects \ {o} : Cardinality(Owned(x)') = Cardinality(Owned(x))
  <2> TAKE x \in Objects \ {o}
  <2>1. \A u \in Threads : held'[u][x] = held[u][x]
    BY <1>7
  <2>2. Owned(x)' = Owned(x)
    BY <2>1 DEF Owned
  <2> QED  BY <2>2
<1>9. Cardinality(Owned(o)') = Cardinality(Owned(o)) + (n - held[t][o])
  <2>1. \A u \in Threads \ {t} : held'[u][o] = held[u][o]
    BY <1>7
  <2>2. Cardinality(Owned(o)') = Cardinality(Owned(o)) + (held'[t][o] - held[t][o])
    BY <1>6, <2>1, OwnedMoves
  <2> QED  BY <1>7, <2>2
<1> QED  BY <1>6, <1>7, <1>8, <1>9

(* A count that is not immortal after a retain was one lower before. *)
LEMMA RetainedIs ==
  ASSUME HeapTypeOK, NEW o \in Objects, rc' = Retained(o)
  PROVE  /\ rc' \in [Objects -> Int]
         /\ \A x \in Objects : rc'[x] < Immortal => rc[x] < Immortal /\ rc'[x] = rc[x] + One(o = x)
<1>1. rc \in [Objects -> Int] /\ Immortal \in Int /\ rc[o] \in Int
  BY DEF HeapTypeOK, HeapAssumption
<1>2. CASE rc[o] >= Immortal
  <2>1. rc' = rc
    BY <1>2 DEF Retained
  <2>2. \A x \in Objects : rc'[x] < Immortal => x # o
    BY <1>1, <1>2, <2>1
  <2> QED  BY <1>1, <2>1, <2>2 DEF One
<1>3. CASE ~(rc[o] >= Immortal)
  <2>1. rc' = [rc EXCEPT ![o] = @ + 1]
    BY <1>3 DEF Retained
  <2>2. rc[o] < Immortal
    BY <1>1, <1>3
  <2> QED  BY <1>1, <2>1, <2>2 DEF One
<1> QED  BY <1>2, <1>3

(* A call that changes counts and who owns them keeps the invariant.        *)
LEMMA OwningKeeps ==
  ASSUME HeapOK, NEW t \in Threads, todo[t] = <<>>, NEW ops \in Seq(Operations), Start(t, ops), Light(ops),
         UNCHANGED <<mem, cells, weak, skew>>, rc' \in [Objects -> Int], held' \in [Threads -> [Objects -> Nat]],
         \A x \in Objects \ Born : \A u \in Threads : held'[u][x] = 0,
         \A x \in Objects : mem[x] = "live" /\ rc'[x] < Immortal =>
           rc[x] < Immortal /\ \E a, b \in Int : Owns(x, a, b) /\ a = WorkIn(ops, x) + b
  PROVE  HeapOK'
<1>0. HeapTypeOK /\ BornInv /\ CellsInv /\ NodesInv /\ StepsInv /\ CountsInv
  BY DEF HeapOK
<1>2. Born' = Born /\ Born \subseteq Born'
  BY DEF Born
<1>3. StaysOK(t, {})
  BY <1>0 DEF StaysOK, StepOK, weak
<1>4. /\ GoesOn(t, ops) /\ First(t) = {} /\ \A x : Done(t, x) = 0
      /\ todo' \in [Threads -> Seq(Operations)] /\ StepsInv' /\ Unmarked(t, ops) /\ NoUnlink(t, ops)
      /\ \A x \in Places' : At(x)'.on \in Born' \cup {Null} /\ (At(x)'.op = "store" => At(x)'.value \in Born')
  BY <1>0, <1>2, <1>3, LightCall
<1>5. HeapTypeOK'
  BY <1>0, <1>4 DEF HeapTypeOK, weak
<1>6. BornInv'
  BY <1>0, <1>2, <1>4 DEF BornInv, weak
<1>7. CellsInv' /\ NodesInv'
  BY <1>0 DEF CellsInv, CellsOf, NodesInv, weak
<1>8. CountsInv'
  <2>1. \A x \in Objects : KeyOf(x)' = KeyOf(x)
    BY <1>0, <1>4, KeysSame DEF weak
  <2>2. ASSUME NEW x \in Objects, mem[x] = "live", rc'[x] < Immortal
        PROVE rc[x] < Immortal /\ \E a, b \in Int : Owns(x, a, b) /\ a = WorkIn(ops, x) - Done(t, x) + b
    <3>1. rc[x] < Immortal /\ \E a, b \in Int : Owns(x, a, b) /\ a = WorkIn(ops, x) + b
      BY <2>2
    <3>2. WorkIn(ops, x) - Done(t, x) = WorkIn(ops, x)
      <4>1. WorkIn(ops, x) \in Int /\ Done(t, x) = 0
        BY <1>0, <1>4, WorkMoves
      <4> QED  BY <4>1
    <3> QED  BY <3>1, <3>2
  <2> QED  BY <1>4, <1>5, <2>1, <2>2, OwningCounts
<1> QED  BY <1>4, <1>5, <1>6, <1>7, <1>8 DEF HeapOK

(* A thread that keeps an object, having retained it, owns one count more. *)
LEMMA KeepKeeps ==
  ASSUME HeapOK, NEW t \in Threads, todo[t] = <<>>, NEW o \in Usable(t), Keep(t, o), touched' = {}
  PROVE  HeapOK'
<1>0. HeapTypeOK /\ BornInv /\ UNCHANGED <<mem, cells, weak, skew>> /\ rc' = Retained(o) /\ Start(t, <<>>)
  BY DEF HeapOK, Keep, Call, RetainNow
<1>1. o \in Objects /\ o \in Born
  BY <1>0, UsableIsBorn
<1>h. PICK h \in Nat : h = held[t][o]
  BY <1>0, <1>1 DEF HeapTypeOK
<1>n. PICK n \in Nat : n = h + 1
  OBVIOUS
<1>2. o \in Objects /\ HeapTypeOK /\ n \in Nat /\ HeldIs(t, o, n)
  BY <1>0, <1>1, <1>h, <1>n DEF HeapTypeOK, Keep, HeldIs
<1>3. /\ held' \in [Threads -> [Objects -> Nat]]
      /\ held'[t][o] = n /\ \A u \in Threads : \A x \in Objects : u # t \/ x # o => held'[u][x] = held[u][x]
      /\ \A x \in Objects \ {o} : Cardinality(Owned(x)') = Cardinality(Owned(x))
      /\ Cardinality(Owned(o)') = Cardinality(Owned(o)) + (n - held[t][o])
  BY <1>2, HeldBecomes
<1>4. /\ rc' \in [Objects -> Int]
      /\ \A x \in Objects : rc'[x] < Immortal => rc[x] < Immortal /\ rc'[x] = rc[x] + One(o = x)
  BY <1>0, <1>1, RetainedIs
<1>5. \A x \in Objects \ Born : \A u \in Threads : held'[u][x] = 0
  BY <1>0, <1>1, <1>3 DEF BornInv
<1>6. ASSUME NEW x \in Objects, mem[x] = "live", rc'[x] < Immortal
      PROVE rc[x] < Immortal /\ \E a, b \in Int : Owns(x, a, b) /\ a = WorkIn(<<>>, x) + b
  <2>a. PICK a \in Int : a = One(o = x)
    BY DEF One
  <2>1. rc[x] < Immortal /\ rc'[x] = rc[x] + a
    BY <1>4, <1>6, <2>a
  <2>2. Cardinality(Owned(x)') = Cardinality(Owned(x)) + a
    <3>1. Cardinality(Owned(x)) \in Nat /\ n - held[t][o] = 1
      <4>1. Cardinality(Owned(x)) \in Nat
        BY <1>0, SizesAre
      <4>2. n - held[t][o] = 1
        BY <1>h, <1>n
      <4> QED  BY <4>1, <4>2
    <3>2. CASE o = x
      BY <1>3, <2>a, <3>1, <3>2 DEF One
    <3>3. CASE o # x
      BY <1>3, <2>a, <3>1, <3>3 DEF One
    <3> QED  BY <3>2, <3>3
  <2>3. a = WorkIn(<<>>, x) + a
    BY WorkOfFew
  <2> QED  BY <2>1, <2>2, <2>3 DEF Owns
<1>7. <<>> \in Seq(Operations) /\ Light(<<>>)
  BY DEF Light
<1>8. HeapOK /\ todo[t] = <<>>
  OBVIOUS
<1> QED  BY <1>0, <1>3, <1>4, <1>5, <1>6, <1>7, <1>8, OwningKeeps

(* A thread that lets go of one has one less, and a release to do. *)
LEMMA LetGoKeeps ==
  ASSUME HeapOK, NEW t \in Threads, todo[t] = <<>>, NEW o \in Held(t), LetGo(t, o)
  PROVE  HeapOK'
<1>ops. PICK ops : ops = <<Releasing(o)>>
  OBVIOUS
<1>0. HeapTypeOK /\ BornInv /\ UNCHANGED <<mem, rc, cells, weak, skew>> /\ Start(t, ops)
  BY <1>ops DEF HeapOK, LetGo
<1>1. o \in Objects /\ o \in Born /\ held[t][o] \in Nat /\ held[t][o] > 0
  BY <1>0, UsableIsBorn
<1>h. PICK h \in Nat \ {0} : h = held[t][o]
  BY <1>1
<1>n. PICK n \in Nat : n = h - 1
  OBVIOUS
<1>2. o \in Objects /\ HeapTypeOK /\ n \in Nat /\ HeldIs(t, o, n)
  BY <1>0, <1>1, <1>h, <1>n DEF HeapTypeOK, LetGo, HeldIs
<1>3. /\ held' \in [Threads -> [Objects -> Nat]]
      /\ held'[t][o] = n /\ \A u \in Threads : \A x \in Objects : u # t \/ x # o => held'[u][x] = held[u][x]
      /\ \A x \in Objects \ {o} : Cardinality(Owned(x)') = Cardinality(Owned(x))
      /\ Cardinality(Owned(o)') = Cardinality(Owned(o)) + (n - held[t][o])
  BY <1>2, HeldBecomes
<1>5. \A x \in Objects \ Born : \A u \in Threads : held'[u][x] = 0
  BY <1>0, <1>1, <1>3 DEF BornInv
<1>7. Releasing(o) \in Operations /\ Releasing(o).op = "release" /\ Releasing(o).on = o
  BY <1>1, Primitives DEF Releasing, Values
<1>8. ops \in Seq(Operations) /\ Light(ops)
  BY <1>ops, <1>1, <1>7, ShortLists DEF Light
<1>9. \A x : WorkIn(ops, x) = One(o = x)
  <2> TAKE x
  <2>1. WorkIn(<<Releasing(o)>>, x) = Weight(Releasing(o), x)
    BY <1>7, WorkOfFew
  <2>2. Weight(Releasing(o), x) = One(o = x)
    BY PrimitiveWeights
  <2> QED  BY <1>ops, <2>1, <2>2
<1>4. rc' \in [Objects -> Int]
  BY <1>0 DEF HeapTypeOK
<1>6. ASSUME NEW x \in Objects, mem[x] = "live", rc'[x] < Immortal
      PROVE rc[x] < Immortal /\ \E a, b \in Int : Owns(x, a, b) /\ a = WorkIn(ops, x) + b
  <2>b. PICK b \in Int : b = 0 - One(o = x)
    BY DEF One
  <2>1. rc[x] < Immortal /\ rc'[x] = rc[x] + 0
    BY <1>0, <1>6 DEF HeapTypeOK
  <2>2. Cardinality(Owned(x)') = Cardinality(Owned(x)) + b
    <3>1. Cardinality(Owned(x)) \in Nat /\ n - held[t][o] = 0 - 1
      BY <1>0, <1>h, <1>n, SizesAre
    <3>2. CASE o = x
      BY <1>3, <2>b, <3>1, <3>2 DEF One
    <3>3. CASE o # x
      BY <1>3, <2>b, <3>1, <3>3 DEF One
    <3> QED  BY <3>2, <3>3
  <2>3. 0 = WorkIn(ops, x) + b /\ 0 \in Int
    BY <1>9, <2>b DEF One
  <2> QED  BY <2>1, <2>2, <2>3 DEF Owns
<1>10. HeapOK /\ todo[t] = <<>>
  OBVIOUS
<1> QED  BY <1>0, <1>3, <1>4, <1>5, <1>6, <1>8, <1>10, OwningKeeps

(* An object made immortal has no count to be right. *)
LEMMA RetainForeverKeeps ==
  ASSUME HeapOK, NEW t \in Threads, todo[t] = <<>>, NEW o \in Objects, RetainForever(t, o)
  PROVE  HeapOK'
<1>0. /\ HeapTypeOK /\ BornInv /\ UNCHANGED <<mem, held, cells, weak, skew>> /\ Start(t, <<>>)
      /\ rc' = [rc EXCEPT ![o] = Immortal]
  BY DEF HeapOK, RetainForever, Call
<1>1. /\ rc' \in [Objects -> Int] /\ held' \in [Threads -> [Objects -> Nat]]
      /\ \A x \in Objects \ Born : \A u \in Threads : held'[u][x] = 0
  BY <1>0 DEF HeapTypeOK, HeapAssumption, BornInv
<1>2. ASSUME NEW x \in Objects, mem[x] = "live", rc'[x] < Immortal
      PROVE rc[x] < Immortal /\ \E a, b \in Int : Owns(x, a, b) /\ a = WorkIn(<<>>, x) + b
  <2>1. x # o
    BY <1>0, <1>2 DEF HeapTypeOK, HeapAssumption
  <2>2. rc'[x] = rc[x] + 0 /\ rc[x] < Immortal
    BY <1>0, <1>2, <2>1 DEF HeapTypeOK
  <2>3. Cardinality(Owned(x)') = Cardinality(Owned(x)) + 0
    <3>1. Owned(x)' = Owned(x) /\ Cardinality(Owned(x)) \in Nat
      <4>1. Owned(x)' = Owned(x)
        BY <1>0 DEF Owned
      <4>2. Cardinality(Owned(x)) \in Nat
        BY <1>0, SizesAre
      <4> QED  BY <4>1, <4>2
    <3> QED  BY <3>1
  <2>4. 0 = WorkIn(<<>>, x) + 0 /\ 0 \in Int
    BY WorkOfFew
  <2> QED  BY <2>2, <2>3, <2>4 DEF Owns
<1>3. <<>> \in Seq(Operations) /\ Light(<<>>)
  BY DEF Light
<1>4. HeapOK /\ todo[t] = <<>>
  OBVIOUS
<1> QED  BY <1>0, <1>1, <1>2, <1>3, <1>4, OwningKeeps
-----------------------------------------------------------------------------
(* A thread hands a count over to another.                                  *)
HandedTo(t, u, o) == held' = [held EXCEPT ![t][o] = @ - 1, ![u][o] = 1]

(* Nothing is lost or gained, of this object or any other. *)
LEMMA HandedOver ==
  ASSUME HeapTypeOK, NEW t \in Threads, NEW u \in Threads, t # u, NEW o \in Objects, held[u][o] = 0, held[t][o] > 0, HandedTo(t, u, o)
  PROVE  /\ held' \in [Threads -> [Objects -> Nat]]
         /\ \A v \in Threads : \A x \in Objects \ {o} : held'[v][x] = held[v][x]
         /\ \A x \in Objects : Cardinality(Owned(x)') = Cardinality(Owned(x))
<1>0. held \in [Threads -> [Objects -> Nat]]
  BY DEF HeapTypeOK
<1>h. PICK h \in Nat \ {0} : h = held[t][o]
  BY <1>0
<1>n. PICK n \in Nat : n = h - 1
  OBVIOUS
<1>f. PICK f : f = [held[t] EXCEPT ![o] = n]
  OBVIOUS
<1>g. PICK g : g = [held[u] EXCEPT ![o] = 1]
  OBVIOUS
<1>1. /\ f \in [Objects -> Nat] /\ f[o] = n /\ \A x \in Objects \ {o} : f[x] = held[t][x]
      /\ g \in [Objects -> Nat] /\ g[o] = 1 /\ \A x \in Objects \ {o} : g[x] = held[u][x]
  BY <1>0, <1>n, <1>f, <1>g
<1>2. held' = [[held EXCEPT ![t] = f] EXCEPT ![u] = g]
  BY <1>0, <1>h, <1>n, <1>f, <1>g DEF HandedTo
<1>3. /\ held' \in [Threads -> [Objects -> Nat]] /\ held'[t] = f /\ held'[u] = g
      /\ \A v \in Threads \ {t, u} : held'[v] = held[v]
  <2>k. PICK k : k = [held EXCEPT ![t] = f]
    OBVIOUS
  <2>1. k \in [Threads -> [Objects -> Nat]] /\ k[t] = f /\ \A v \in Threads \ {t} : k[v] = held[v]
    BY <1>0, <1>1, <2>k
  <2>2. held' = [k EXCEPT ![u] = g]
    BY <1>2, <2>k
  <2> QED  BY <1>1, <2>1, <2>2
<1>4. \A v \in Threads : \A x \in Objects \ {o} : held'[v][x] = held[v][x]
  BY <1>1, <1>3
<1>5. \A x \in Objects \ {o} : Owned(x)' = Owned(x)
  <2> TAKE x \in Objects \ {o}
  <2>1. \A v \in Threads : held'[v][x] = held[v][x]
    BY <1>4
  <2> QED  BY <2>1 DEF Owned
<1>6. Cardinality(Owned(o)') = Cardinality(Owned(o))
  <2> DEFINE F == [v \in Threads |-> 1 .. held[v][o]]  G == [v \in Threads |-> 1 .. held'[v][o]]
             M == [v \in Threads |-> IF v = t THEN G[v] ELSE F[v]]
  <2>1. Owned(o) = Family(F, Threads) /\ Owned(o)' = Family(G, Threads)
    BY DEF Owned, Family
  <2>2. \A m \in Nat : IsFiniteSet(1 .. m) /\ Cardinality(1 .. m) = m
    <3> TAKE m \in Nat
    <3>1. 1 \in Int /\ m \in Int /\ (1 > m => m = 0) /\ m - 1 + 1 = m
      OBVIOUS
    <3> QED  BY <3>1, FS_Interval
  <2>3. \A v \in Threads : held[v][o] \in Nat /\ held'[v][o] \in Nat
    <3>1. held \in [Threads -> [Objects -> Nat]] /\ held' \in [Threads -> [Objects -> Nat]]
      BY <1>0, <1>3
    <3> HIDE DEF F, G, M
    <3> QED  BY <3>1
  <2>4. \A v \in Threads \ {t, u} : held'[v][o] = held[v][o]
    BY <1>3
  <2>5. IsFiniteSet(Threads) /\ Alike(F, M, Threads, t) /\ Alike(M, G, Threads, u)
    BY <2>2, <2>3, <2>4 DEF HeapAssumption, Alike
  <2>6. /\ F[t] = 1 .. h /\ M[t] = 1 .. n /\ M[u] = 1 .. 0 /\ G[u] = 1 .. 1
    BY <1>1, <1>3, <1>h
  <2>7. Cardinality(F[t]) = h /\ Cardinality(M[t]) = n /\ Cardinality(M[u]) = 0 /\ Cardinality(G[u]) = 1
    <3>1. h \in Nat /\ n \in Nat /\ 0 \in Nat /\ 1 \in Nat
      BY <1>h, <1>n
    <3> HIDE DEF F, G, M
    <3>2. Cardinality(1 .. h) = h /\ Cardinality(1 .. n) = n /\ Cardinality(1 .. 0) = 0 /\ Cardinality(1 .. 1) = 1
      BY <2>2, <3>1
    <3> QED  BY <2>6, <3>2
  <2> HIDE DEF F, M, G
  <2>8. /\ Cardinality(Family(F, Threads)) \in Nat /\ Cardinality(Family(M, Threads)) \in Nat
        /\ Cardinality(Family(M, Threads)) + Cardinality(F[t]) = Cardinality(Family(F, Threads)) + Cardinality(M[t])
    BY <2>5, OnePart
  <2>9. /\ Cardinality(Family(G, Threads)) \in Nat
        /\ Cardinality(Family(G, Threads)) + Cardinality(M[u]) = Cardinality(Family(M, Threads)) + Cardinality(G[u])
    BY <2>5, OnePart
  <2>10. Cardinality(Family(G, Threads)) = Cardinality(Family(F, Threads))
    BY <1>n, <2>7, <2>8, <2>9
  <2> QED  BY <2>1, <2>10
<1> QED  BY <1>3, <1>4, <1>5, <1>6

(* Handing an object to another thread keeps the invariant. *)
LEMMA HandKeeps ==
  ASSUME HeapOK, NEW t \in Threads, todo[t] = <<>>, NEW o \in Held(t), NEW u \in Threads, Hand(t, u, o)
  PROVE  HeapOK'
<1>0. HeapTypeOK /\ BornInv /\ UNCHANGED <<mem, rc, cells, weak, skew>> /\ Start(t, <<>>)
  BY DEF HeapOK, Hand, Call
<1>1. o \in Objects /\ o \in Born /\ held[t][o] > 0 /\ t # u /\ held[u][o] = 0
      /\ HandedTo(t, u, o)
  BY <1>0, UsableIsBorn DEF Hand, HandedTo
<1>2. /\ held' \in [Threads -> [Objects -> Nat]]
      /\ \A v \in Threads : \A x \in Objects \ {o} : held'[v][x] = held[v][x]
      /\ \A x \in Objects : Cardinality(Owned(x)') = Cardinality(Owned(x))
  BY <1>0, <1>1, HandedOver
<1>3. rc' \in [Objects -> Int] /\ \A x \in Objects \ Born : \A v \in Threads : held'[v][x] = 0
  <2>1. \A x \in Objects \ Born : x # o /\ \A v \in Threads : held[v][x] = 0
    BY <1>0, <1>1 DEF BornInv
  <2>2. rc' \in [Objects -> Int]
    BY <1>0 DEF HeapTypeOK
  <2> QED  BY <1>2, <2>1, <2>2
<1>4. ASSUME NEW x \in Objects, mem[x] = "live", rc'[x] < Immortal
      PROVE rc[x] < Immortal /\ \E a, b \in Int : Owns(x, a, b) /\ a = WorkIn(<<>>, x) + b
  <2>1. rc[x] < Immortal /\ rc'[x] = rc[x] + 0
    BY <1>0, <1>4 DEF HeapTypeOK
  <2>2. Cardinality(Owned(x)') = Cardinality(Owned(x)) + 0
    <3>1. Cardinality(Owned(x)) \in Nat
      BY <1>0, SizesAre
    <3> QED  BY <1>2, <3>1
  <2>3. 0 = WorkIn(<<>>, x) + 0 /\ 0 \in Int
    BY WorkOfFew
  <2> QED  BY <2>1, <2>2, <2>3 DEF Owns
<1>5. <<>> \in Seq(Operations) /\ Light(<<>>)
  BY DEF Light
<1>6. HeapOK /\ todo[t] = <<>>
  OBVIOUS
<1> QED  BY <1>0, <1>2, <1>3, <1>4, <1>5, <1>6, OwningKeeps

(* A weak reference is registered: its entry is new, and no step is about it. *)
LEMMA RegisterDoes ==
  ASSUME HeapTypeOK, StepsInv, NodesInv, NEW t \in Threads, NEW n \in Nodes, NEW e, Register(t, n, e), weakVar' \in [WeakVars -> Values],
         e \in [used : {"yes"}, on : Values, var : WeakVars \cup {Null}, dict : Values, key : Values]
  PROVE  /\ node' \in [Nodes -> [used : {"no", "yes", "freed"}, on : Values, var : WeakVars \cup {Null},
                                dict : Values, key : Values]]
         /\ link' \in [Links -> Links]
         /\ node'[n] = e /\ \A m \in Nodes \ {n} : node'[m] = node[m]
         /\ ~UnlinkSoon(n) /\ node[n].used = "no" /\ \A x : n \notin KeyOf(x)
         /\ \A m \in Nodes : node[m].used # "no" => node'[m] = node[m]
<1>1. node[n].used = "no" /\ node' = [node EXCEPT ![n] = e] /\ link' = [link EXCEPT ![n] = link[Null], ![Null] = n]
  BY DEF Register
<1>2. node' \in [Nodes -> [used : {"no", "yes", "freed"}, on : Values, var : WeakVars \cup {Null},
                                dict : Values, key : Values]]
  <2>1. e \in [used : {"no", "yes", "freed"}, on : Values, var : WeakVars \cup {Null}, dict : Values, key : Values]
    OBVIOUS
  <2> QED  BY <1>1, <2>1 DEF HeapTypeOK
<1>3. link' \in [Links -> Links]
  BY <1>1 DEF HeapTypeOK, Links
<1>4. node'[n] = e /\ \A m \in Nodes \ {n} : node'[m] = node[m]
  BY <1>1 DEF HeapTypeOK
<1>5. ~UnlinkSoon(n)
  BY <1>1 DEF UnlinkSoon, StepsInv, StepOK
<1>6. \A x : n \notin KeyOf(x)
  BY <1>1 DEF KeyOf
<1>7. \A m \in Nodes : node[m].used # "no" => node'[m] = node[m]
  BY <1>1, <1>4
<1> QED  BY <1>1, <1>2, <1>3, <1>4, <1>5, <1>6, <1>7

(* A weak variable registered keeps the invariant: its entry keeps no key. *)
LEMMA WeakInitKeeps ==
  ASSUME HeapOK, NEW t \in Threads, todo[t] = <<>>, NEW v \in Held(t), NEW w \in WeakVars, NEW n \in Nodes,
         WeakInit(t, w, v, n)
  PROVE  HeapOK'
<1>ops. PICK ops : ops = <<>>
  OBVIOUS
<1>e. PICK e : e = [NewEntry EXCEPT !.used = "yes", !.on = v, !.var = w]
  OBVIOUS
<1>0. /\ HeapTypeOK /\ BornInv /\ CellsInv /\ NodesInv /\ StepsInv /\ CountsInv
      /\ UNCHANGED <<mem, rc, cells, held, skew>> /\ Start(t, ops) /\ Register(t, n, e)
      /\ weakVar' = [weakVar EXCEPT ![w] = v]
  BY <1>ops, <1>e DEF HeapOK, WeakInit, Call, counts
<1>1. v \in Objects /\ v \in Born
  BY <1>0, UsableIsBorn
<1>2. /\ e \in [used : {"yes"}, on : Values, var : WeakVars \cup {Null}, dict : Values, key : Values]
      /\ e.used = "yes" /\ e.on = v /\ e.var = w /\ e.dict = Null /\ e.key = Null
  BY <1>1, <1>e DEF NewEntry, Values
<1>3. weakVar' \in [WeakVars -> Values] /\ \A x \in WeakVars : weakVar'[x] = weakVar[x] \/ weakVar'[x] = v
  BY <1>0, <1>1 DEF HeapTypeOK, Values
<1>4. /\ node' \in [Nodes -> [used : {"no", "yes", "freed"}, on : Values, var : WeakVars \cup {Null},
                                dict : Values, key : Values]]
      /\ link' \in [Links -> Links]
      /\ node'[n] = e /\ \A m \in Nodes \ {n} : node'[m] = node[m]
      /\ ~UnlinkSoon(n) /\ node[n].used = "no" /\ \A x : n \notin KeyOf(x)
      /\ \A m \in Nodes : node[m].used # "no" => node'[m] = node[m]
  BY <1>0, <1>2, <1>3, RegisterDoes
<1>5. Born' = Born /\ Born \subseteq Born'
  BY <1>0 DEF Born
<1>6. StaysOK(t, {})
  <2>1. \A s \in Operations : s.op = "unlink" => s.entry \in Nodes
    BY DEF Operations
  <2> QED  BY <1>0, <1>4, <2>1 DEF StaysOK, StepOK
<1>7. ops \in Seq(Operations) /\ Light(ops) /\ \A x : WorkIn(ops, x) = 0
  BY <1>ops, WorkOfFew DEF Light
<1>8. /\ GoesOn(t, ops) /\ First(t) = {} /\ \A x : Done(t, x) = 0
      /\ todo' \in [Threads -> Seq(Operations)] /\ StepsInv' /\ Unmarked(t, ops) /\ NoUnlink(t, ops)
      /\ \A x \in Places' : At(x)'.on \in Born' \cup {Null} /\ (At(x)'.op = "store" => At(x)'.value \in Born')
  BY <1>0, <1>5, <1>6, <1>7, LightCall
<1>9. HeapTypeOK'
  BY <1>0, <1>3, <1>4, <1>8 DEF HeapTypeOK
<1>10. BornInv'
  <2>1. \A m \in Nodes : {node'[m].dict, node'[m].key, node'[m].on} \subseteq Born \cup {Null}
    BY <1>0, <1>1, <1>2, <1>4 DEF BornInv
  <2>2. \A x \in WeakVars : weakVar'[x] \in Born \cup {Null}
    BY <1>0, <1>1, <1>3 DEF BornInv
  <2> QED  BY <1>0, <1>5, <1>8, <2>1, <2>2 DEF BornInv
<1>11. CellsInv' /\ NodesInv'
  <2>1. w # Null
    BY DEF HeapAssumption
  <2>2. CellsInv'
    BY <1>0 DEF CellsInv, CellsOf
  <2>3. NodesInv'
    BY <1>0, <1>2, <1>4, <2>1 DEF NodesInv
  <2> QED  BY <2>2, <2>3
<1>12. CountsInv'
  <2>1. \A x \in Objects : KeyOf(x)' = KeyOf(x)
    <3> TAKE x \in Objects
    <3>1. \A m : UnlinkSoon(m)' <=> UnlinkSoon(m)
      <4>1. \A m : NoneOf(t, ops, UnlinksOf(m))
        BY <1>8 DEF NoneOf, UnlinksOf, NoUnlink
      <4> QED  BY <1>0, <1>7, <1>8, <4>1, MarksStay
    <3>2. n \notin KeyOf(x) /\ n \notin KeyOf(x)'
      <4>1. x # Null
        BY DEF HeapAssumption
      <4> QED  BY <1>2, <1>4, <4>1 DEF KeyOf
    <3> QED  BY <1>4, <3>1, <3>2 DEF KeyOf
  <2>2. ASSUME NEW x \in Objects, mem[x] = "live", rc'[x] < Immortal
        PROVE rc[x] < Immortal /\ \E a, b \in Int : Owns(x, a, b) /\ a = WorkIn(ops, x) - Done(t, x) + b
    <3>1. Owned(x)' = Owned(x)
      BY <1>0 DEF Owned
    <3>2. Owns(x, 0, 0)
      <4>1. Cardinality(Owned(x)) \in Nat /\ rc[x] \in Int
        BY <1>0, SizesAre DEF HeapTypeOK
      <4> QED  BY <1>0, <3>1, <4>1 DEF Owns
    <3>3. 0 = WorkIn(ops, x) - Done(t, x) + 0 /\ 0 \in Int
      BY <1>7, <1>8
    <3> QED  BY <1>0, <2>2, <3>2, <3>3
  <2>3. HeapOK /\ UNCHANGED <<mem, cells, skew>>
    BY <1>0
  <2> QED  BY <1>7, <1>8, <1>9, <2>1, <2>2, <2>3, OwningCounts
<1> QED  BY <1>8, <1>9, <1>10, <1>11, <1>12 DEF HeapOK
-----------------------------------------------------------------------------
(* An object is born, with references to values that are: each cell is a    *)
(* reference, and a retain to do.                                           *)
LEMMA NewCellsKeeps ==
  ASSUME HeapOK, NEW t \in Threads, todo[t] = <<>>, NEW o \in Objects, NEW vs \in Seq(Born \cup {Null}),
         NewCells(t, o, vs), Kind[o] = "dict" => vs = <<>>
  PROVE  HeapOK'
<1>ops. PICK ops : ops = [i \in DOMAIN vs |-> Retaining(vs[i])]
  OBVIOUS
<1>q. PICK q : q = [i \in DOMAIN vs |-> Strong(vs[i])]
  OBVIOUS
<1>n. PICK n \in Nat : n = Len(vs) /\ DOMAIN vs = 1 .. n
  BY LenProperties
<1>0. /\ HeapTypeOK /\ BornInv /\ CellsInv /\ NodesInv /\ StepsInv /\ CountsInv
      /\ UNCHANGED <<weak, skew>> /\ Start(t, ops)
      /\ mem' = [mem EXCEPT ![o] = "live"] /\ rc' = [rc EXCEPT ![o] = 1] /\ cells' = [cells EXCEPT ![o] = q]
      /\ mem[o] = "new"
  BY <1>ops, <1>q DEF HeapOK, NewCells
<1>1. o \notin Born /\ o # Null /\ Born \subseteq Objects /\ \A i \in 1 .. n : vs[i] \in Born \cup {Null} /\ vs[i] # o
  <2>1. o \notin Born /\ o # Null /\ Born \subseteq Objects
    BY <1>0 DEF Born, HeapAssumption
  <2>2. \A i \in 1 .. n : vs[i] \in Born \cup {Null}
    BY <1>n, ElementOfSeq
  <2> QED  BY <2>1, <2>2
<1>2. /\ Born' = Born \cup {o} /\ Born \subseteq Born' /\ \A x \in Objects \ {o} : mem'[x] = mem[x]
      /\ mem'[o] = "live" /\ mem' \in [Objects -> {"unused", "new", "live", "dying", "freed"}]
  <2>1. mem \in [Objects -> {"unused", "new", "live", "dying", "freed"}]
    BY <1>0 DEF HeapTypeOK
  <2>2. mem'[o] = "live" /\ \A x \in Objects \ {o} : mem'[x] = mem[x]
    BY <1>0, <2>1
  <2>3. mem' \in [Objects -> {"unused", "new", "live", "dying", "freed"}]
    BY <1>0, <2>1
  <2>4. Born' = Born \cup {o}
    BY <2>2 DEF Born
  <2> QED  BY <2>2, <2>3, <2>4
<1>3. /\ q \in Seq(Cell) /\ DOMAIN q = 1 .. n /\ Len(q) = n /\ ops \in Seq(Operations) /\ DOMAIN ops = 1 .. n
      /\ \A i \in 1 .. n : /\ q[i].to = vs[i] /\ ~q[i].weak
                           /\ ops[i] \in Operations /\ ops[i].op = "retain" /\ ops[i].on = vs[i]
  <2>1. \A v \in Values : Retaining(v) \in Operations /\ Retaining(v).op = "retain" /\ Retaining(v).on = v
    BY Primitives DEF Retaining
  <2>2. \A v \in Values : Strong(v) \in Cell /\ Strong(v).to = v /\ ~Strong(v).weak
    BY DEF Strong, Cell
  <2>3. \A i \in 1 .. n : vs[i] \in Values
    BY <1>1 DEF Values
  <2>4. q \in [1 .. n -> Cell] /\ ops \in [1 .. n -> Operations]
    BY <1>n, <1>q, <1>ops, <2>1, <2>2, <2>3
  <2>5. q \in Seq(Cell) /\ ops \in Seq(Operations)
    BY <2>4, SeqDef
  <2>6. \A i \in 1 .. n : q[i] = Strong(vs[i]) /\ ops[i] = Retaining(vs[i])
    BY <1>n, <1>q, <1>ops
  <2>7. DOMAIN q = 1 .. n /\ DOMAIN ops = 1 .. n
    BY <2>4
  <2>8. Len(q) = n
    BY <2>5, <2>7, LenProperties
  <2>9. \A i \in 1 .. n : /\ q[i].to = vs[i] /\ ~q[i].weak
                          /\ ops[i] \in Operations /\ ops[i].op = "retain" /\ ops[i].on = vs[i]
    BY <2>1, <2>2, <2>3, <2>6
  <2> QED  BY <2>5, <2>7, <2>8, <2>9
<1>4. /\ cells' \in [Objects -> Seq(Cell)] /\ cells'[o] = q /\ \A c \in Objects \ {o} : cells'[c] = cells[c]
  BY <1>0, <1>3 DEF HeapTypeOK
<1>5. /\ HeldIs(t, o, 1) /\ held' \in [Threads -> [Objects -> Nat]]
      /\ \A u \in Threads : \A x \in Objects : u # t \/ x # o => held'[u][x] = held[u][x]
      /\ \A x \in Objects \ {o} : Cardinality(Owned(x)') = Cardinality(Owned(x))
      /\ Cardinality(Owned(o)') = Cardinality(Owned(o)) + (1 - held[t][o])
  <2>1. o \in Objects /\ HeapTypeOK /\ 1 \in Nat /\ HeldIs(t, o, 1)
    BY <1>0 DEF NewCells, HeldIs
  <2> QED  BY <2>1, HeldBecomes
<1>g. PICK gone : gone = {s \in Operations : s.on = o}
  OBVIOUS
<1>6. \A x \in Places : At(x) \in Operations /\ At(x).on # o
  <2>1. \A x \in Places : At(x) \in Operations
    BY <1>0, StepsAre DEF HeapTypeOK
  <2> QED  BY <1>0, <1>1, <2>1 DEF BornInv
<1>7. StaysOK(t, gone) /\ Light(ops)
  <2>1. \A x \in Places : At(x) \notin gone
    BY <1>6, <1>g
  <2>2. \A u \in Threads : \A s \in Operations \ gone : StepOK(u, s) => StepOK(u, s)'
    <3>1. \A s \in Operations \ gone : s.on # o /\ (s.op \in {"store", "empty", "visit", "unlink"} => s.on \in Objects)
      BY <1>g DEF Operations
    <3> QED  BY <1>0, <1>2, <1>4, <3>1 DEF StepOK, weak
  <2> QED  BY <1>1, <1>3, <2>1, <2>2 DEF StaysOK, Light
<1>8. /\ GoesOn(t, ops) /\ First(t) = {} /\ \A x : Done(t, x) = 0
      /\ todo' \in [Threads -> Seq(Operations)] /\ StepsInv' /\ Unmarked(t, ops) /\ NoUnlink(t, ops)
      /\ \A x \in Places' : At(x)'.on \in Born' \cup {Null} /\ (At(x)'.op = "store" => At(x)'.value \in Born')
  BY <1>0, <1>2, <1>3, <1>7, LightCall
<1>9. HeapTypeOK'
  <2>1. rc' \in [Objects -> Int]
    BY <1>0 DEF HeapTypeOK
  <2> QED  BY <1>0, <1>2, <1>4, <1>5, <1>8, <2>1 DEF HeapTypeOK, weak
<1>10. BornInv'
  <2>1. \A x \in Objects \ Born' : skew'[x] = 0 /\ \A u \in Threads : held'[u][x] = 0
    <3>1. \A x \in Objects \ Born' : x \in Objects \ Born /\ x # o
      BY <1>2
    <3>2. \A x \in Objects \ Born : skew[x] = 0 /\ \A u \in Threads : held[u][x] = 0
      BY <1>0 DEF BornInv
    <3> QED  BY <1>0, <1>5, <3>1, <3>2
  <2>2. \A c \in Objects : \A i \in DOMAIN cells'[c] : cells'[c][i].to \in Born' \cup {Null}
    BY <1>0, <1>1, <1>2, <1>3, <1>4 DEF BornInv
  <2>3. \A m \in Nodes : {node'[m].dict, node'[m].key, node'[m].on} \subseteq Born' \cup {Null}
    BY <1>0, <1>2 DEF BornInv, weak
  <2>4. \A w \in WeakVars : weakVar'[w] \in Born' \cup {Null}
    BY <1>0, <1>2 DEF BornInv, weak
  <2> QED  BY <1>8, <2>1, <2>2, <2>3, <2>4 DEF BornInv
<1>11. CellsInv' /\ NodesInv'
  <2>1. ASSUME NEW c \in Objects PROVE CellsOf(c)'
    <3>1. CASE c = o
      <4>1. Kind[o] = "dict" => n = 0
        BY <1>n
      <4>2. n = 0 => n % 2 = 0 /\ 1 .. n = {}
        OBVIOUS
      <4> QED  BY <1>3, <1>4, <3>1, <4>1, <4>2 DEF CellsOf
    <3>2. CASE c # o
      BY <1>0, <1>4, <3>2 DEF CellsInv, CellsOf
    <3> QED  BY <3>1, <3>2
  <2>2. NodesInv'
    BY <1>0 DEF NodesInv, weak
  <2> QED  BY <2>1, <2>2 DEF CellsInv
<1>12. ASSUME NEW x \in Objects
       PROVE  \E k \in Int : /\ Cardinality(References(x)') = Cardinality(References(x)) + k
                             /\ WorkIn(ops, x) = 0 - k /\ KeyOf(x)' = KeyOf(x)
                             /\ (x = o => k = 0)
  <2>K. PICK K : K = {i \in 1 .. n : vs[i] = x}
    OBVIOUS
  <2>1. OthersAside(t, ops, o)
    BY <1>2, <1>4, <1>8 DEF OthersAside, Aside, Unmarked
  <2>2. /\ Cardinality(References(x)) \in Nat /\ Cardinality(RefsIn(o, x)') \in Nat
        /\ Cardinality(References(x)')
              = Cardinality(References(x)) + (Cardinality(RefsIn(o, x)') - Cardinality(RefsIn(o, x)))
    <3>1. HeapTypeOK /\ ops \in Seq(Operations) /\ GoesOn(t, ops) /\ cells' \in [Objects -> Seq(Cell)]
      BY <1>0, <1>3, <1>4, <1>8
    <3> QED  BY <2>1, <3>1, RefsMove
  <2>3. Cardinality(RefsIn(o, x)) = 0
    <3>1. RefsIn(o, x) = {}
      BY <1>0 DEF RefsIn, Counted
    <3> QED  BY <3>1, FS_EmptySet
  <2>4. RefsIn(o, x)' = K
    <3>1. \A i : ~Released(o, i) /\ ~Replaced(o, i)
      BY <1>6 DEF Released, Replaced
    <3>2. \A i : ~Released(o, i)' /\ ~Replaced(o, i)'
      <4>1. HeapTypeOK /\ ops \in Seq(Operations) /\ GoesOn(t, ops) /\ Unmarked(t, ops)
        BY <1>0, <1>3, <1>8
      <4> QED  BY <3>1, <4>1, UnmarkedStay
    <3>3. x # Null
      BY DEF HeapAssumption
    <3> QED  BY <1>2, <1>3, <1>4, <2>K, <3>2, <3>3 DEF RefsIn, Counted
  <2>5. WorkIn(ops, x) = 0 - Cardinality(K)
    <3>1. Picked(ops, Waiting("release", x)) = {} /\ Picked(ops, Bringing(x)) = {}
      BY <1>3 DEF Picked, Waiting, Bringing
    <3>2. Picked(ops, Waiting("retain", x)) = K
      BY <1>3, <2>K DEF Picked, Waiting
    <3>3. Cardinality(Picked(ops, Waiting("release", x))) = 0 /\ Cardinality(Picked(ops, Bringing(x))) = 0
      BY <3>1, FS_EmptySet
    <3>4. Cardinality(K) \in Nat
      BY <2>2, <2>4
    <3> QED  BY <3>2, <3>3, <3>4 DEF WorkIn
  <2>6. KeyOf(x)' = KeyOf(x)
    <3>1. HeapTypeOK /\ ops \in Seq(Operations) /\ GoesOn(t, ops) /\ NoUnlink(t, ops) /\ node' = node
      BY <1>0, <1>3, <1>8 DEF weak
    <3> QED  BY <3>1, KeysSame
  <2>7. x = o => Cardinality(K) = 0
    <3>1. x = o => K = {}
      BY <1>1, <2>K
    <3> QED  BY <3>1, FS_EmptySet
  <2>8. Cardinality(K) \in Int /\ Cardinality(RefsIn(o, x)') = Cardinality(K)
    BY <2>2, <2>4
  <2>9. Cardinality(References(x)') = Cardinality(References(x)) + Cardinality(K)
    BY <2>2, <2>3, <2>8
  <2> QED  BY <2>5, <2>6, <2>7, <2>8, <2>9
<1>13. ASSUME NEW x \in Objects, x # o, mem'[x] = "live", rc'[x] < Immortal PROVE CountIs(x)'
  <2>k. PICK k \in Int : /\ Cardinality(References(x)') = Cardinality(References(x)) + k
                         /\ WorkIn(ops, x) = 0 - k /\ KeyOf(x)' = KeyOf(x)
    BY <1>12
  <2>1. rc'[x] = rc[x] /\ skew'[x] = skew[x] /\ rc[x] \in Int /\ skew[x] \in Int /\ mem[x] = "live"
    BY <1>0, <1>2, <1>13 DEF HeapTypeOK
  <2>2. CountIs(x)
    BY <1>0, <1>13, <2>1 DEF CountsInv
  <2>3. Moved(x, 0, k, 0, 0)
    <3>1. Cardinality(Owned(x)) \in Nat /\ Cardinality(KeyOf(x)) \in Nat
      BY <1>0, SizesAre
    <3>2. Cardinality(Owned(x)') = Cardinality(Owned(x))
      BY <1>5, <1>13
    <3> QED  BY <2>k, <2>1, <3>1, <3>2 DEF Moved
  <2>4. 0 = WorkIn(ops, x) - Done(t, x) + k + 0 + 0
    BY <1>8, <2>k
  <2>5. HeapTypeOK /\ ops \in Seq(Operations) /\ GoesOn(t, ops) /\ 0 \in Int /\ k \in Int
    BY <1>0, <1>3, <1>8, <2>k
  <2> QED  BY <1>9, <2>2, <2>3, <2>4, <2>5, CountMoved
<1>14. CountIs(o)'
  <2>1. \A x \in Places : At(x).on # o /\ (At(x).op = "store" => At(x).value # o)
    BY <1>0, <1>1 DEF BornInv
  <2>2. Remaining("release", o)' = {} /\ Remaining("retain", o)' = {} /\ Arriving(o)' = {}
    <3>1. \A y \in Places' : \/ y[1] = t /\ \E i \in DOMAIN ops : At(y)' = ops[i]
                             \/ \E x \in Places \ {<<t, 1>>} : x[1] = y[1] /\ At(y)' = At(x)
      <4>1. HeapTypeOK /\ ops \in Seq(Operations) /\ GoesOn(t, ops)
        BY <1>0, <1>3, <1>8
      <4> QED  BY <4>1, StepsMove
    <3>2. \A i \in DOMAIN ops : ops[i].on # o /\ ops[i].op # "store"
      BY <1>1, <1>3
    <3>3. ASSUME NEW y \in Places' PROVE At(y)'.on # o /\ (At(y)'.op = "store" => At(y)'.value # o)
      <4>1. CASE \E i \in DOMAIN ops : At(y)' = ops[i]
        BY <3>2, <4>1
      <4>2. CASE \E x \in Places : At(y)' = At(x)
        BY <2>1, <4>2
      <4> QED  BY <3>1, <4>1, <4>2
    <3> QED  BY <3>3 DEF Remaining, Arriving
  <2>3. KeyOf(o)' = {}
    BY <1>0, <1>1 DEF KeyOf, BornInv, weak
  <2>4. References(o)' = {}
    <3>1. \A c \in Objects : \A i \in DOMAIN cells'[c] : cells'[c][i].to # o
      BY <1>0, <1>1, <1>3, <1>4 DEF BornInv
    <3> QED  BY <3>1 DEF References
  <2>5. Cardinality(Owned(o)') = 1
    <3>1. held[t][o] = 0 /\ Owned(o) = {}
      <4>1. \A u \in Threads : held[u][o] = 0
        BY <1>0, <1>1 DEF BornInv
      <4>2. 1 .. 0 = {}
        OBVIOUS
      <4> QED  BY <4>1, <4>2 DEF Owned
    <3>2. Cardinality(Owned(o)) = 0
      BY <3>1, FS_EmptySet
    <3> QED  BY <1>5, <3>1, <3>2
  <2>6. rc'[o] = 1 /\ skew'[o] = 0
    BY <1>0, <1>1 DEF HeapTypeOK, BornInv
  <2>7. /\ Cardinality(Remaining("release", o)') = 0 /\ Cardinality(Remaining("retain", o)') = 0
        /\ Cardinality(Arriving(o)') = 0 /\ Cardinality(KeyOf(o)') = 0 /\ Cardinality(References(o)') = 0
    BY <2>2, <2>3, <2>4, FS_EmptySet
  <2> QED  BY <2>5, <2>6, <2>7 DEF CountIs
<1> QED  BY <1>8, <1>9, <1>10, <1>11, <1>13, <1>14 DEF HeapOK, CountsInv

(* Every cell, or every other, from one on lies in the list. *)
LEMMA TosReach ==
  ASSUME NEW m \in Nat, NEW from \in Nat \ {0}, from <= m, NEW step \in {1, 2}
  PROVE  /\ (m - from) \div step + 1 \in Nat
         /\ \A j \in 1 .. (m - from) \div step + 1 : from + step * (j - 1) \in 1 .. m
<1>1. CASE step = 1
  BY <1>1
<1>2. CASE step = 2
  BY <1>2
<1> QED  BY <1>1, <1>2

(* What a container's cells refer to is born. *)
LEMMA TosAre ==
  ASSUME HeapTypeOK, BornInv, NEW c \in Objects, NEW from \in DOMAIN cells[c], NEW step \in {1, 2}
  PROVE  Tos(c, from, step) \in Seq(Born \cup {Null})
<1>1. PICK s \in Seq(Cell) : s = cells[c]
  BY DEF HeapTypeOK
<1>2. PICK m \in Nat : m = Len(s) /\ DOMAIN s = 1 .. m
  BY LenProperties
<1>3. from \in Nat \ {0} /\ from <= m
  BY <1>1, <1>2
<1>4. PICK n \in Nat : /\ n = (m - from) \div step + 1
                       /\ \A j \in 1 .. n : from + step * (j - 1) \in 1 .. m
  BY <1>3, TosReach
<1>5. Tos(c, from, step) = [j \in 1 .. n |-> s[from + step * (j - 1)].to]
  BY <1>1, <1>2, <1>4 DEF Tos
<1>6. \A i \in 1 .. m : s[i].to \in Born \cup {Null}
  BY <1>1, <1>2 DEF BornInv
<1>7. \A j \in 1 .. n : s[from + step * (j - 1)].to \in Born \cup {Null}
  BY <1>4, <1>6
<1>8. Tos(c, from, step) \in [1 .. n -> Born \cup {Null}]
  BY <1>5, <1>7
<1> QED  BY <1>8, SeqDef

(* An empty object is born. *)
LEMMA NewKeeps ==
  ASSUME HeapOK, NEW t \in Threads, todo[t] = <<>>, NEW o \in Objects, New(t, o)
  PROVE  HeapOK'
<1>1. <<>> \in Seq(Born \cup {Null}) /\ NewCells(t, o, <<>>)
  BY DEF New
<1> QED  BY <1>1, NewCellsKeeps

(* A result is born with its value and its error. *)
LEMMA NewResultKeeps ==
  ASSUME HeapOK, NEW t \in Threads, todo[t] = <<>>, NEW o \in Objects, NEW v \in Usable(t) \cup {Null},
         NEW e \in Usable(t) \cup {Null}, NewResult(t, o, v, e)
  PROVE  HeapOK'
<1>1. v \in Born \cup {Null} /\ e \in Born \cup {Null}
  BY UsableIsBorn DEF HeapOK
<1>2. <<v, e>> \in Seq(Born \cup {Null}) /\ NewCells(t, o, <<v, e>>) /\ Kind[o] # "dict"
  BY <1>1 DEF NewResult
<1> QED  BY <1>2, NewCellsKeeps

(* A slice is born with the values it was cut from. *)
LEMMA ArraySliceKeeps ==
  ASSUME HeapOK, NEW t \in Threads, todo[t] = <<>>, NEW o \in Objects, NEW a \in Objects, NEW i \in DOMAIN cells[a],
         ArraySlice(t, a, i, o)
  PROVE  HeapOK'
<1>1. Tos(a, i, 1) \in Seq(Born \cup {Null})
  BY TosAre DEF HeapOK
<1>2. NewCells(t, o, Tos(a, i, 1)) /\ Kind[o] # "dict"
  BY DEF ArraySlice
<1> QED  BY <1>1, <1>2, NewCellsKeeps

(* A list of a dictionary's keys or values is born. *)
LEMMA DictListKeeps ==
  ASSUME HeapOK, NEW t \in Threads, todo[t] = <<>>, NEW o \in Objects, NEW d \in Objects, Kind[d] = "dict",
         NEW first \in 1 .. 2, DictList(t, d, first, o)
  PROVE  HeapOK'
<1>1. first \in DOMAIN cells[d]
  <2>1. PICK s \in Seq(Cell) : s = cells[d]
    BY DEF HeapOK, HeapTypeOK
  <2>2. PICK m \in Nat : m = Len(s) /\ DOMAIN s = 1 .. m
    BY LenProperties
  <2>3. m # 0 /\ m % 2 = 0
    <3>1. s # <<>>
      BY <2>1 DEF DictList
    <3>2. m % 2 = 0
      BY <2>1, <2>2 DEF HeapOK, CellsInv, CellsOf
    <3> QED  BY <2>2, <3>1, <3>2, EmptySeq
  <2>4. first \in 1 .. m
    BY <2>3
  <2> QED  BY <2>1, <2>2, <2>4
<1>2. Tos(d, first, 2) \in Seq(Born \cup {Null})
  BY <1>1, TosAre DEF HeapOK
<1>3. NewCells(t, o, Tos(d, first, 2)) /\ Kind[o] # "dict"
  BY DEF DictList
<1> QED  BY <1>2, <1>3, NewCellsKeeps
-----------------------------------------------------------------------------
(* A container in its owner's hands: all its cells count.                   *)
LEMMA IdleRefs ==
  ASSUME HeapTypeOK, StepsInv, NEW t \in Threads, todo[t] = <<>>, NEW c \in Objects, mem[c] = "live", Owner[c] = t
  PROVE  /\ \A x \in Places : ~(At(x).op = "store" /\ At(x).on = c)
         /\ \A i : ~Released(c, i) /\ ~Replaced(c, i)
         /\ \A o \in Objects : RefsIn(c, o) = Picked(cells[c], To(o))
<1>1. \A x \in Places : ~(At(x).op = "store" /\ At(x).on = c)
  <2> SUFFICES ASSUME NEW x \in Places, At(x).op = "store", At(x).on = c PROVE FALSE
    OBVIOUS
  <2>1. x[1] = t
    BY DEF StepsInv, StepOK
  <2> QED  BY <2>1 DEF Places
<1>2. \A i : ~Released(c, i) /\ ~Replaced(c, i)
  BY <1>1, LiveIsKept DEF Replaced
<1>3. \A i \in DOMAIN cells[c] : cells[c][i] \in Cell
  BY ElementOfSeq, LenProperties DEF HeapTypeOK
<1>4. \A o \in Objects : RefsIn(c, o) = Picked(cells[c], To(o))
  <2> TAKE o \in Objects
  <2>1. o # Null
    BY DEF HeapAssumption
  <2> QED  BY <1>2, <1>3, <2>1 DEF RefsIn, Counted, Picked, To
<1> QED  BY <1>1, <1>2, <1>4

(* A call that changes a container and begins with retaining and releasing. *)
Refs(s, o) == Cardinality(Picked(s, To(o)))

(* A count with its skew goes up by n, and b more are owned. *)
Counts(x, n, b) ==
  rc'[x] + skew'[x] = rc[x] + skew[x] + n /\ Cardinality(Owned(x)') = Cardinality(Owned(x)) + b
CellsAre(c, q) == cells' = [cells EXCEPT ![c] = q]

(* A call's change of one container moves every count by what it does to    *)
(* references.                                                              *)
CellsCount(ops, c, q) ==
  \A x \in Objects : mem[x] = "live" /\ rc'[x] < Immortal =>
    rc[x] < Immortal /\ \E n, b \in Int : Counts(x, n, b) /\ n = WorkIn(ops, x) + (Refs(q, x) - Refs(cells[c], x)) + b

(* Then the invariant is kept. *)
LEMMA ContainerKeeps ==
  ASSUME HeapOK, NEW t \in Threads, todo[t] = <<>>, NEW ops \in Seq(Operations), Start(t, ops), Light(ops),
         NEW c \in Objects, mem[c] = "live", Owner[c] = t, NEW q \in Seq(Cell), CellsAre(c, q),
         UNCHANGED <<mem, weak>>, \A i \in DOMAIN q : q[i].to \in Born \cup {Null}, CellsOf(c)',
         rc' \in [Objects -> Int], skew' \in [Objects -> Int], held' \in [Threads -> [Objects -> Nat]],
         \A x \in Objects \ Born : skew'[x] = 0 /\ \A u \in Threads : held'[u][x] = 0,
         CellsCount(ops, c, q)
  PROVE  HeapOK'
<1>0. HeapTypeOK /\ BornInv /\ CellsInv /\ NodesInv /\ StepsInv /\ CountsInv
  BY DEF HeapOK
<1>1. cells' \in [Objects -> Seq(Cell)] /\ cells'[c] = q /\ \A d \in Objects \ {c} : cells'[d] = cells[d]
  BY <1>0 DEF HeapTypeOK, CellsAre
<1>2. Born' = Born /\ Born \subseteq Born'
  BY DEF Born
<1>3. /\ \A x \in Places : ~(At(x).op = "store" /\ At(x).on = c)
      /\ \A i : ~Released(c, i) /\ ~Replaced(c, i)
      /\ \A o \in Objects : RefsIn(c, o) = Picked(cells[c], To(o))
  BY <1>0, IdleRefs
<1>4. StaysOK(t, StoresInto(c))
  <2>1. \A x \in Places : At(x) \notin StoresInto(c)
    BY <1>3 DEF StoresInto
  <2>2. \A u \in Threads : \A s \in Operations \ StoresInto(c) : StepOK(u, s) => StepOK(u, s)'
    <3>1. \A s \in Operations \ StoresInto(c) : s.op = "store" => s.on \in Objects \ {c}
      BY DEF StoresInto, Operations
    <3> QED  BY <1>1, <3>1 DEF StepOK, weak
  <2> QED  BY <2>1, <2>2 DEF StaysOK
<1>5. /\ GoesOn(t, ops) /\ First(t) = {} /\ \A x : Done(t, x) = 0
      /\ todo' \in [Threads -> Seq(Operations)] /\ StepsInv' /\ Unmarked(t, ops) /\ NoUnlink(t, ops)
      /\ \A x \in Places' : At(x)'.on \in Born' \cup {Null} /\ (At(x)'.op = "store" => At(x)'.value \in Born')
  BY <1>0, <1>2, <1>4, LightCall
<1>6. HeapTypeOK'
  BY <1>0, <1>1, <1>5 DEF HeapTypeOK, weak
<1>7. BornInv'
  <2>1. \A d \in Objects : \A i \in DOMAIN cells'[d] : cells'[d][i].to \in Born \cup {Null}
    BY <1>0, <1>1 DEF BornInv
  <2> QED  BY <1>0, <1>2, <1>5, <2>1 DEF BornInv, weak
<1>8. CellsInv' /\ NodesInv'
  <2>1. \A d \in Objects \ {c} : CellsOf(d)'
    <3> TAKE d \in Objects \ {c}
    <3>1. cells'[d] = cells[d] /\ CellsOf(d)
      BY <1>0, <1>1 DEF CellsInv
    <3> QED  BY <3>1 DEF CellsOf
  <2>2. NodesInv'
    BY <1>0 DEF NodesInv, weak
  <2> QED  BY <2>1, <2>2 DEF CellsInv
<1>9. ASSUME NEW x \in Objects, mem'[x] = "live", rc'[x] < Immortal PROVE CountIs(x)'
  <2>1. rc[x] < Immortal /\ \E n, b \in Int : Counts(x, n, b) /\ n = WorkIn(ops, x) + (Refs(q, x) - Refs(cells[c], x)) + b
    BY <1>9 DEF CellsCount
  <2>nb. PICK n \in Int, b \in Int : Counts(x, n, b) /\ n = WorkIn(ops, x) + (Refs(q, x) - Refs(cells[c], x)) + b
    BY <2>1
  <2>p. HeapTypeOK /\ GoesOn(t, ops) /\ Unmarked(t, ops) /\ ops \in Seq(Operations) /\ mem' = mem
    BY <1>0, <1>5
  <2>2. OthersAside(t, ops, c)
    BY <1>1, <2>p, UnmarkedAside
  <2>3. /\ Cardinality(References(x)) \in Nat /\ Cardinality(RefsIn(c, x)) \in Nat /\ Cardinality(RefsIn(c, x)') \in Nat
        /\ Cardinality(References(x)')
              = Cardinality(References(x)) + (Cardinality(RefsIn(c, x)') - Cardinality(RefsIn(c, x)))
    BY <1>1, <2>p, <2>2, RefsMove
  <2>4. RefsIn(c, x)' = Picked(q, To(x))
    <3>1. \A i : ~Released(c, i)' /\ ~Replaced(c, i)'
      BY <1>3, <2>p, UnmarkedStay
    <3>2. \A i \in DOMAIN q : q[i] \in Cell
      BY ElementOfSeq, LenProperties
    <3>3. x # Null
      BY DEF HeapAssumption
    <3> QED  BY <1>1, <3>1, <3>2, <3>3 DEF RefsIn, Counted, Picked, To
  <2>r. PICK r \in Int : r = Refs(q, x) - Refs(cells[c], x)
    BY <1>3, <2>3, <2>4 DEF Refs
  <2>5. Cardinality(References(x)') = Cardinality(References(x)) + r
    BY <1>3, <2>3, <2>4, <2>r DEF Refs
  <2>6. KeyOf(x)' = KeyOf(x) /\ Cardinality(KeyOf(x)) \in Nat
    <3>1. NoUnlink(t, ops) /\ node' = node
      BY <1>5 DEF weak
    <3>2. KeyOf(x)' = KeyOf(x)
      BY <2>p, <3>1, KeysSame
    <3> QED  BY <1>0, <3>2, SizesAre
  <2>7. Moved(x, n, r, 0, b)
    BY <2>nb, <2>5, <2>6 DEF Moved, Counts
  <2>8. n = WorkIn(ops, x) - Done(t, x) + r + 0 + b /\ 0 \in Int
    <3>1. WorkIn(ops, x) \in Int /\ Done(t, x) = 0
      BY <1>5, <2>p, WorkMoves
    <3> QED  BY <2>nb, <2>r, <3>1
  <2>9. CountIs(x)
    BY <1>0, <1>9, <2>1 DEF CountsInv
  <2> QED  BY <1>6, <2>p, <2>nb, <2>r, <2>7, <2>8, <2>9, CountMoved
<1> QED  BY <1>5, <1>6, <1>7, <1>8, <1>9 DEF HeapOK, CountsInv
-----------------------------------------------------------------------------
(* Arrays hold no weak references.                                          *)
Firm == {r \in Cell : r.to \in Born \cup {Null} /\ ~r.weak}

(* The cells of what is no dictionary are such. *)
LEMMA FirmCells ==
  ASSUME HeapTypeOK, BornInv, CellsInv, NEW c \in Objects, Kind[c] # "dict"
  PROVE  cells[c] \in Seq(Firm)
<1>1. PICK s \in Seq(Cell) : s = cells[c]
  BY DEF HeapTypeOK
<1>2. PICK m \in Nat : m = Len(s) /\ DOMAIN s = 1 .. m
  BY LenProperties
<1>3. \A j \in 1 .. m : s[j] \in Firm
  <2>1. \A j \in 1 .. m : s[j] \in Cell
    BY <1>2, ElementOfSeq
  <2>2. \A j \in 1 .. m : s[j].to \in Born \cup {Null} /\ ~s[j].weak
    BY <1>1, <1>2 DEF BornInv, CellsInv, CellsOf
  <2> QED  BY <2>1, <2>2 DEF Firm
<1>4. s \in [1 .. m -> Cell]
  BY <1>2, LenProperties
<1>5. s \in [1 .. m -> Firm]
  BY <1>3, <1>4
<1> QED  BY <1>1, <1>5, SeqDef

(* Such cells are as the invariant wants them. *)
LEMMA FirmAre ==
  ASSUME NEW c \in Objects, Kind[c] # "dict", NEW q \in Seq(Firm), cells'[c] = q
  PROVE  q \in Seq(Cell) /\ CellsOf(c)' /\ \A i \in DOMAIN q : q[i].to \in Born \cup {Null}
<1>1. \A i \in DOMAIN q : q[i] \in Firm
  BY ElementOfSeq, LenProperties
<1>2. q \in Seq(Cell)
  <2>1. Firm \subseteq Cell
    BY DEF Firm
  <2> QED  BY <2>1, SeqMonotonic
<1> QED  BY <1>1, <1>2 DEF Firm, CellsOf

(* Such a cell counts for what it refers to. *)
LEMMA FirmTo ==
  ASSUME NEW r \in Firm, NEW x
  PROVE  One(r \in To(x)) = One(r.to = x)
BY DEF Firm, To, One

(* What a list has of references to an object is a number. *)
LEMMA RefsAreNat == ASSUME NEW A, NEW s \in Seq(A) PROVE \A x : Refs(s, x) \in Nat
BY PickedAre DEF Refs

(* A value put into an array keeps the invariant. *)
LEMMA ArrayInsertKeeps ==
  ASSUME HeapOK, NEW t \in Threads, todo[t] = <<>>, NEW a \in Mine(t, "sequence"), NEW v \in Usable(t),
         NEW i \in 1 .. Len(cells[a]) + 1, ArrayInsert(t, a, i, v)
  PROVE  HeapOK'
<1>0. /\ HeapTypeOK /\ BornInv /\ CellsInv /\ rc' = Retained(v) /\ UNCHANGED <<mem, held, weak, skew>> /\ Start(t, <<>>)
      /\ a \in Objects /\ Kind[a] # "dict" /\ mem[a] = "live" /\ Owner[a] = t
  BY DEF HeapOK, ArrayInsert, RetainNow, Call, Mine
<1>1. v \in Born /\ v \in Objects /\ Strong(v) \in Firm /\ Strong(v).to = v
  BY <1>0, UsableIsBorn DEF Firm, Strong, Cell, Values
<1>F. PICK F : F = Firm
  OBVIOUS
<1>s. PICK s \in Seq(F) : s = cells[a]
  BY <1>0, <1>F, FirmCells
<1>q. PICK q : q = InsertAt(s, i, Strong(v))
  OBVIOUS
<1>2. /\ q \in Seq(Firm) /\ \A S : Cardinality(Picked(q, S)) = Cardinality(Picked(s, S)) + One(Strong(v) \in S)
  <2>1. i \in 1 .. Len(s) + 1 /\ Strong(v) \in F
    BY <1>1, <1>F, <1>s
  <2> QED  BY <1>F, <1>s, <1>q, <2>1, WithOneMore
<1>3. cells' = [cells EXCEPT ![a] = q]
  BY <1>s, <1>q DEF ArrayInsert
<1>4. q \in Seq(Cell) /\ CellsOf(a)' /\ \A j \in DOMAIN q : q[j].to \in Born \cup {Null}
  <2>1. cells'[a] = q
    BY <1>0, <1>3 DEF HeapTypeOK
  <2> QED  BY <1>0, <1>2, <2>1, FirmAre
<1>5. /\ rc' \in [Objects -> Int]
      /\ \A x \in Objects : rc'[x] < Immortal => rc[x] < Immortal /\ rc'[x] = rc[x] + One(v = x)
  BY <1>0, <1>1, RetainedIs
<1>6. /\ skew' \in [Objects -> Int] /\ held' \in [Threads -> [Objects -> Nat]]
      /\ \A x \in Objects \ Born : skew'[x] = 0 /\ \A u \in Threads : held'[u][x] = 0
  BY <1>0 DEF HeapTypeOK, BornInv
<1>7. ASSUME NEW x \in Objects, mem[x] = "live", rc'[x] < Immortal
      PROVE rc[x] < Immortal /\ \E n, b \in Int : Counts(x, n, b)
                                  /\ n = WorkIn(<<>>, x) + (Refs(q, x) - Refs(cells[a], x)) + b
  <2>n. PICK n \in Int : n = One(v = x)
    BY DEF One
  <2>1. rc[x] < Immortal /\ rc'[x] = rc[x] + n
    BY <1>5, <1>7, <2>n
  <2>2. Counts(x, n, 0)
    <3>1. Owned(x)' = Owned(x) /\ Cardinality(Owned(x)) \in Nat
      <4>1. Owned(x)' = Owned(x)
        BY <1>0 DEF Owned
      <4>2. Cardinality(Owned(x)) \in Nat
        BY <1>0, SizesAre
      <4> QED  BY <4>1, <4>2
    <3>2. skew'[x] = skew[x] /\ skew[x] \in Int /\ rc[x] \in Int
      BY <1>0 DEF HeapTypeOK
    <3> QED  BY <2>1, <2>n, <3>1, <3>2 DEF Counts
  <2>3. Refs(q, x) - Refs(cells[a], x) = n
    <3>1. Refs(q, x) = Refs(s, x) + n /\ Refs(s, x) \in Nat
      <4>1. One(Strong(v) \in To(x)) = n
        BY <1>1, <2>n, FirmTo
      <4> QED  BY <1>2, <1>s, <4>1, RefsAreNat DEF Refs
    <3> QED  BY <1>s, <2>n, <3>1
  <2>4. n = WorkIn(<<>>, x) + (Refs(q, x) - Refs(cells[a], x)) + 0 /\ 0 \in Int
    BY <2>n, <2>3, WorkOfFew
  <2> QED  BY <2>n, <2>1, <2>2, <2>4
<1>8. <<>> \in Seq(Operations) /\ Light(<<>>) /\ HeapOK /\ todo[t] = <<>>
  BY DEF Light
<1>9. CellsAre(a, q) /\ CellsCount(<<>>, a, q) /\ UNCHANGED <<mem, weak>>
  BY <1>0, <1>3, <1>7 DEF CellsAre, CellsCount
<1> QED  BY <1>0, <1>4, <1>5, <1>6, <1>8, <1>9, ContainerKeeps

(* A value popped off an array becomes its taker's. *)
LEMMA ArrayPopKeeps ==
  ASSUME HeapOK, NEW t \in Threads, todo[t] = <<>>, NEW a \in Mine(t, "sequence"), ArrayPop(t, a)
  PROVE  HeapOK'
<1>0. /\ HeapTypeOK /\ BornInv /\ CellsInv /\ UNCHANGED <<mem, rc, weak, skew>> /\ Start(t, <<>>) /\ cells[a] # <<>>
      /\ a \in Objects /\ Kind[a] # "dict" /\ mem[a] = "live" /\ Owner[a] = t
  BY DEF HeapOK, ArrayPop, Call, Mine
<1>F. PICK F : F = Firm
  OBVIOUS
<1>s. PICK s \in Seq(F) : s = cells[a]
  BY <1>0, <1>F, FirmCells
<1>q. PICK q : q = Front(s)
  OBVIOUS
<1>r. PICK r : r = Last(s)
  OBVIOUS
<1>w. PICK w : w = r.to
  OBVIOUS
<1>1. /\ q \in Seq(Firm) /\ r \in Firm /\ w \in Born \cup {Null}
      /\ \A S : Cardinality(Picked(q, S)) = Cardinality(Picked(s, S)) - One(r \in S)
  <2>1. /\ q \in Seq(Firm) /\ r \in Firm
        /\ \A S : Cardinality(Picked(q, S)) = Cardinality(Picked(s, S)) - One(r \in S)
    BY <1>0, <1>F, <1>s, <1>q, <1>r, WithoutLast
  <2> QED  BY <1>w, <2>1 DEF Firm
<1>2. cells' = [cells EXCEPT ![a] = q] /\ held' = [held EXCEPT ![t][w] = @ + 1]
  BY <1>s, <1>q, <1>r, <1>w DEF ArrayPop
<1>3. q \in Seq(Cell) /\ CellsOf(a)' /\ \A j \in DOMAIN q : q[j].to \in Born \cup {Null}
  <2>1. cells'[a] = q
    BY <1>0, <1>2 DEF HeapTypeOK
  <2> QED  BY <1>0, <1>1, <2>1, FirmAre
<1>4. /\ held' \in [Threads -> [Objects -> Nat]]
      /\ \A u \in Threads : \A x \in Objects : x # w => held'[u][x] = held[u][x]
      /\ \A x \in Objects : Cardinality(Owned(x)') = Cardinality(Owned(x)) + One(w = x)
  <2>1. CASE w = Null
    <3>1. held' = held
      <4>h. PICK h \in [Objects -> Nat] : h = held[t]
        BY <1>0 DEF HeapTypeOK
      <4>1. w \notin Objects
        BY <2>1 DEF HeapAssumption
      <4>2. [h EXCEPT ![w] = @ + 1] = h
        BY <4>1
      <4>3. held' = [held EXCEPT ![t] = h]
        BY <1>2, <4>h, <4>2
      <4> QED  BY <1>0, <4>h, <4>3 DEF HeapTypeOK
    <3>2. ASSUME NEW x \in Objects PROVE Cardinality(Owned(x)') = Cardinality(Owned(x)) + One(w = x)
      <4>1. Owned(x)' = Owned(x) /\ Cardinality(Owned(x)) \in Nat
        <5>1. Owned(x)' = Owned(x)
          BY <3>1 DEF Owned
        <5>2. Cardinality(Owned(x)) \in Nat
          BY <1>0, SizesAre
        <5> QED  BY <5>1, <5>2
      <4>2. One(w = x) = 0
        BY <2>1 DEF One, HeapAssumption
      <4> QED  BY <4>1, <4>2
    <3> QED  BY <1>0, <3>1, <3>2 DEF HeapTypeOK
  <2>2. CASE w # Null
    <3>h. PICK h \in Nat : h = held[t][w]
      BY <1>0, <1>1, <2>2 DEF HeapTypeOK, Born
    <3>n. PICK n \in Nat : n = h + 1
      OBVIOUS
    <3>1. HeapTypeOK /\ w \in Objects /\ n \in Nat /\ HeldIs(t, w, n)
      BY <1>0, <1>1, <1>2, <2>2, <3>h, <3>n DEF HeldIs, Born, HeapTypeOK
    <3>2. /\ held' \in [Threads -> [Objects -> Nat]]
          /\ held'[t][w] = n /\ \A u \in Threads : \A x \in Objects : u # t \/ x # w => held'[u][x] = held[u][x]
          /\ \A x \in Objects \ {w} : Cardinality(Owned(x)') = Cardinality(Owned(x))
          /\ Cardinality(Owned(w)') = Cardinality(Owned(w)) + (n - held[t][w])
      BY <3>1, HeldBecomes
    <3>3. ASSUME NEW x \in Objects PROVE Cardinality(Owned(x)') = Cardinality(Owned(x)) + One(w = x)
      <4>1. Cardinality(Owned(x)) \in Nat /\ n - held[t][w] = 1
        <5>1. HeapTypeOK /\ n - h = 1
          BY <1>0, <3>n, <3>h
        <5> QED  BY <3>h, <5>1, SizesAre
      <4>2. CASE x = w
        BY <3>2, <4>1, <4>2 DEF One
      <4>3. CASE x # w
        BY <3>2, <4>1, <4>3 DEF One
      <4> QED  BY <4>2, <4>3
    <3> QED  BY <3>2, <3>3
  <2> QED  BY <2>1, <2>2
<1>5. /\ rc' \in [Objects -> Int] /\ skew' \in [Objects -> Int]
      /\ \A x \in Objects \ Born : skew'[x] = 0 /\ \A u \in Threads : held'[u][x] = 0
  <2>1. \A x \in Objects \ Born : x # w /\ skew'[x] = 0 /\ \A u \in Threads : held[u][x] = 0
    BY <1>0, <1>1 DEF BornInv, HeapAssumption
  <2>2. rc' \in [Objects -> Int] /\ skew' \in [Objects -> Int]
    BY <1>0 DEF HeapTypeOK
  <2> QED  BY <1>4, <2>1, <2>2
<1>7. ASSUME NEW x \in Objects, mem[x] = "live", rc'[x] < Immortal
      PROVE rc[x] < Immortal /\ \E n, b \in Int : Counts(x, n, b)
                                  /\ n = WorkIn(<<>>, x) + (Refs(q, x) - Refs(cells[a], x)) + b
  <2>b. PICK b \in Int : b = One(w = x)
    BY DEF One
  <2>1. rc[x] < Immortal
    BY <1>0, <1>7
  <2>2. Counts(x, 0, b)
    <3>1. skew'[x] = skew[x] /\ skew[x] \in Int /\ rc[x] \in Int /\ rc'[x] = rc[x]
      BY <1>0 DEF HeapTypeOK
    <3> QED  BY <1>4, <2>b, <3>1 DEF Counts
  <2>3. Refs(q, x) - Refs(cells[a], x) = 0 - b
    <3>1. Refs(q, x) = Refs(s, x) - b /\ Refs(s, x) \in Nat
      <4>1. One(r \in To(x)) = b
        BY <1>1, <1>w, <2>b, FirmTo
      <4> QED  BY <1>1, <1>s, <4>1, RefsAreNat DEF Refs
    <3> QED  BY <1>s, <2>b, <3>1
  <2>4. 0 = WorkIn(<<>>, x) + (Refs(q, x) - Refs(cells[a], x)) + b /\ 0 \in Int
    BY <2>b, <2>3, WorkOfFew
  <2> QED  BY <2>b, <2>1, <2>2, <2>4
<1>8. <<>> \in Seq(Operations) /\ Light(<<>>) /\ HeapOK /\ todo[t] = <<>>
  BY DEF Light
<1>9. CellsAre(a, q) /\ CellsCount(<<>>, a, q) /\ UNCHANGED <<mem, weak>>
  BY <1>0, <1>2, <1>7 DEF CellsAre, CellsCount
<1> QED  BY <1>0, <1>3, <1>4, <1>5, <1>8, <1>9, ContainerKeeps

(* A value taken out of an array is released, the others move up. *)
LEMMA ArrayRemoveKeeps ==
  ASSUME HeapOK, NEW t \in Threads, todo[t] = <<>>, NEW a \in Mine(t, "sequence"), NEW i \in DOMAIN cells[a],
         ArrayRemove(t, a, i)
  PROVE  HeapOK'
<1>F. PICK F : F = Firm
  OBVIOUS
<1>0. /\ HeapTypeOK /\ BornInv /\ CellsInv /\ UNCHANGED <<mem, rc, held, weak, skew>>
      /\ a \in Objects /\ Kind[a] # "dict" /\ mem[a] = "live" /\ Owner[a] = t
  BY DEF HeapOK, ArrayRemove, OnlyCells, Mine
<1>s. PICK s \in Seq(F) : s = cells[a]
  BY <1>0, <1>F, FirmCells
<1>q. PICK q : q = RemoveAt(s, i)
  OBVIOUS
<1>r. PICK r : r = s[i]
  OBVIOUS
<1>w. PICK w : w = r.to
  OBVIOUS
<1>ops. PICK ops : ops = <<Releasing(w)>>
  OBVIOUS
<1>1. /\ q \in Seq(Firm) /\ r \in Firm /\ w \in Born \cup {Null}
      /\ \A S : Cardinality(Picked(q, S)) = Cardinality(Picked(s, S)) - One(r \in S)
  <2>1. i \in DOMAIN s
    BY <1>s
  <2>2. /\ q \in Seq(F) /\ r \in F
        /\ \A S : Cardinality(Picked(q, S)) = Cardinality(Picked(s, S)) - One(r \in S)
    BY <1>s, <1>q, <1>r, <2>1, WithoutOne
  <2> QED  BY <1>F, <1>w, <2>2 DEF Firm
<1>2. cells' = [cells EXCEPT ![a] = q] /\ Start(t, ops)
  BY <1>s, <1>q, <1>r, <1>w, <1>ops DEF ArrayRemove, Call
<1>3. q \in Seq(Cell) /\ CellsOf(a)' /\ \A j \in DOMAIN q : q[j].to \in Born \cup {Null}
  <2>1. cells'[a] = q
    BY <1>0, <1>2 DEF HeapTypeOK
  <2> QED  BY <1>0, <1>1, <2>1, FirmAre
<1>4. Releasing(w) \in Operations /\ Releasing(w).op = "release" /\ Releasing(w).on = w
  BY <1>1, Primitives DEF Releasing, Values, Born
<1>5. ops \in Seq(Operations) /\ Light(ops)
  BY <1>ops, <1>1, <1>4, ShortLists DEF Light
<1>6. \A x : WorkIn(ops, x) = One(w = x)
  <2> TAKE x
  <2>1. WorkIn(<<Releasing(w)>>, x) = Weight(Releasing(w), x)
    BY <1>4, WorkOfFew
  <2>2. Weight(Releasing(w), x) = One(w = x)
    BY PrimitiveWeights
  <2> QED  BY <1>ops, <2>1, <2>2
<1>7. /\ rc' \in [Objects -> Int] /\ skew' \in [Objects -> Int] /\ held' \in [Threads -> [Objects -> Nat]]
      /\ \A x \in Objects \ Born : skew'[x] = 0 /\ \A u \in Threads : held'[u][x] = 0
  BY <1>0 DEF HeapTypeOK, BornInv
<1>8. ASSUME NEW x \in Objects, mem[x] = "live", rc'[x] < Immortal
      PROVE rc[x] < Immortal /\ \E n, b \in Int : Counts(x, n, b)
                                  /\ n = WorkIn(ops, x) + (Refs(q, x) - Refs(cells[a], x)) + b
  <2>k. PICK k \in Int : k = One(w = x)
    BY DEF One
  <2>1. rc[x] < Immortal
    BY <1>0, <1>8
  <2>2. Counts(x, 0, 0)
    <3>1. skew'[x] = skew[x] /\ skew[x] \in Int /\ rc[x] \in Int /\ rc'[x] = rc[x]
      BY <1>0 DEF HeapTypeOK
    <3>2. Owned(x)' = Owned(x) /\ Cardinality(Owned(x)) \in Nat
      <4>1. held' = held
        BY <1>0
      <4>2. Cardinality(Owned(x)) \in Nat
        BY <1>0, SizesAre
      <4> QED  BY <4>1, <4>2 DEF Owned
    <3> QED  BY <3>1, <3>2 DEF Counts
  <2>3. Refs(q, x) - Refs(cells[a], x) = 0 - k
    <3>1. Refs(q, x) = Refs(s, x) - k /\ Refs(s, x) \in Nat
      <4>1. One(r \in To(x)) = k
        BY <1>1, <1>w, <2>k, FirmTo
      <4> QED  BY <1>1, <1>s, <4>1, RefsAreNat DEF Refs
    <3> QED  BY <1>s, <2>k, <3>1
  <2>4. 0 = WorkIn(ops, x) + (Refs(q, x) - Refs(cells[a], x)) + 0 /\ 0 \in Int
    BY <1>6, <2>k, <2>3
  <2> QED  BY <2>1, <2>2, <2>4
<1>9. CellsAre(a, q) /\ CellsCount(ops, a, q) /\ UNCHANGED <<mem, weak>> /\ HeapOK /\ todo[t] = <<>>
  BY <1>0, <1>2, <1>8 DEF CellsAre, CellsCount
<1> QED  BY <1>0, <1>2, <1>3, <1>5, <1>7, <1>9, ContainerKeeps
-----------------------------------------------------------------------------
(* A value is about to be stored over another: the old one is released      *)
(* first, and its cell counts no more.                                      *)
LEMMA ReplacedNow ==
  ASSUME HeapTypeOK, NEW t \in Threads, NEW ops \in Seq(Operations), GoesOn(t, ops), First(t) = {},
         NEW c, NEW i, NEW k \in DOMAIN ops, ops[k] \in StoresAt(c, i)
  PROVE  Replaced(c, i)'
<1>s. PICK S : S = StoresAt(c, i)
  OBVIOUS
<1>1. /\ todo' \in [Threads -> Seq(Operations)]
      /\ Cardinality(Pending(S)) \in Nat /\ Cardinality(Pending(S)') \in Nat /\ Cardinality(Picked(ops, S)) \in Nat
      /\ Cardinality(Pending(S)') = Cardinality(Pending(S)) - One(First(t) \cap S # {}) + Cardinality(Picked(ops, S))
  <2>1. todo' \in [Threads -> Seq(Operations)]
    BY StepsMove
  <2>2. /\ Cardinality(Pending(S)) \in Nat /\ Cardinality(Pending(S)') \in Nat /\ Cardinality(Picked(ops, S)) \in Nat
        /\ Cardinality(Pending(S)') = Cardinality(Pending(S)) - One(First(t) \cap S # {}) + Cardinality(Picked(ops, S))
    BY PendingMoves
  <2> QED  BY <2>1, <2>2
<1>2. One(First(t) \cap S # {}) = 0
  BY DEF One
<1>3. Cardinality(Picked(ops, S)) # 0
  <2>1. IsFiniteSet(Picked(ops, S))
    BY PickedAre
  <2>2. k \in Picked(ops, S)
    BY <1>s DEF Picked
  <2> QED  BY <2>1, <2>2, FS_EmptySet
<1>4. Cardinality(Pending(S)') > 0
  <2> DEFINE p == Cardinality(Pending(S))  p1 == Cardinality(Pending(S)')  n == Cardinality(Picked(ops, S))
  <2>1. p \in Nat /\ p1 \in Nat /\ n \in Nat /\ p1 = p - 0 + n /\ n # 0
    BY <1>1, <1>2, <1>3
  <2> HIDE DEF p, p1, n
  <2> QED  BY <2>1 DEF p1
<1>5. Replaced(c, i)' <=> Cardinality(Pending(StoresAt(c, i))') > 0
  BY <1>1, MarksAfter
<1> QED  BY <1>s, <1>4, <1>5

(* A call that overwrites a cell keeps the invariant: the cell counts no    *)
(* more when its value's release is to do.                                  *)
LEMMA OverwriteCallKeeps ==
  ASSUME HeapOK, NEW t \in Threads, todo[t] = <<>>, NEW c \in Objects, mem[c] = "live", Owner[c] = t,
         NEW i \in DOMAIN cells[c], NEW v \in Born,
         Start(t, <<Releasing(cells[c][i].to), Storing(c, i, v), Retaining(v)>>),
         UNCHANGED <<mem, rc, held, weak, cells>>, skew' = Excess(c, i)
  PROVE  HeapOK'
<1>w. PICK w : w = cells[c][i].to
  OBVIOUS
<1> DEFINE ops == <<Releasing(w), Storing(c, i, v), Retaining(v)>>
<1> DEFINE ex == cells[c][i].weak
<1>0. /\ HeapTypeOK /\ BornInv /\ CellsInv /\ NodesInv /\ StepsInv /\ CountsInv /\ Start(t, ops)
      /\ v \in Objects /\ Born \subseteq Objects
  BY <1>w DEF HeapOK, Born
<1>2. /\ Storing(c, i, v).op = "store" /\ Storing(c, i, v).on = c /\ Storing(c, i, v).at = i /\ Storing(c, i, v).value = v
      /\ Retaining(v).op = "retain" /\ Retaining(v).on = v
      /\ Releasing(w).op = "release" /\ Releasing(w).on = w
  BY DEF Storing, Retaining, Releasing
<1>3. i \in Nat \ {0} /\ w \in Values /\ w \in Born \cup {Null}
  <2> PICK s \in Seq(Cell) : s = cells[c]
    BY <1>0 DEF HeapTypeOK
  <2>1. i \in DOMAIN s /\ s[i] \in Cell /\ i \in Nat \ {0}
    BY LenProperties, ElementOfSeq
  <2> QED  BY <1>0, <1>w, <2>1 DEF BornInv, Cell
<1>4. /\ \A x \in Places : ~(At(x).op = "store" /\ At(x).on = c)
      /\ \A j : ~Released(c, j) /\ ~Replaced(c, j)
  BY <1>0, IdleRefs
<1>5. /\ GoesOn(t, ops) /\ First(t) = {} /\ \A x : Done(t, x) = 0
      /\ ops \in Seq(Operations) /\ DOMAIN ops = {1, 2, 3}
      /\ ops[1] = Releasing(w) /\ ops[2] = Storing(c, i, v) /\ ops[3] = Retaining(v)
      /\ Releasing(w) \in Operations /\ Storing(c, i, v) \in Operations /\ Retaining(v) \in Operations
  <2>1. Releasing(w) \in Operations /\ Storing(c, i, v) \in Operations /\ Retaining(v) \in Operations
    BY <1>0, <1>3, Primitives DEF Values
  <2> QED  BY <1>0, <2>1, ShortLists DEF GoesOn, First, Done
<1>51. \A x : WorkIn(ops, x) = One(w = x) + One(v = x) + (0 - One(v = x))
  <2> TAKE x
  <2>1. \A p, q, r \in Operations : WorkIn(<<p, q, r>>, x) = Weight(p, x) + Weight(q, x) + Weight(r, x)
    BY WorkOfFew
  <2>2. WorkIn(ops, x) = Weight(Releasing(w), x) + Weight(Storing(c, i, v), x) + Weight(Retaining(v), x)
    BY <1>5, <2>1
  <2>3. Weight(Releasing(w), x) = One(w = x)
    BY PrimitiveWeights
  <2>4. Weight(Retaining(v), x) = 0 - One(v = x)
    BY PrimitiveWeights
  <2>5. Weight(Storing(c, i, v), x) = One(v = x)
    BY DEF Weight, Storing, One
  <2> QED  BY <2>2, <2>3, <2>4, <2>5
<1> HIDE DEF ops
<1>52. skew' = (IF ex THEN [skew EXCEPT ![w] = @ + 1] ELSE skew) /\ skew \in [Objects -> Int]
  BY <1>0, <1>w, <1>4 DEF Excess, HeapTypeOK
<1>53. ex => w \in Objects
  <2>1. ex => w # Null
    BY <1>0, <1>w DEF CellsInv, CellsOf
  <2> QED  BY <1>0, <1>3, <2>1
<1> HIDE DEF ex
<1>6. HeapTypeOK'
  <2>1. todo' \in [Threads -> Seq(Operations)]
    BY <1>0, <1>5, StepsMove
  <2>2. skew' \in [Objects -> Int]
    BY <1>52, <1>53
  <2> QED  BY <1>0, <2>1, <2>2 DEF HeapTypeOK, weak
<1>7. BornInv'
  <2>1. Born' = Born
    BY <1>0 DEF Born
  <2>2. \A x \in Places' : At(x)'.on \in Born' \cup {Null} /\ (At(x)'.op = "store" => At(x)'.value \in Born')
    <3>1. \A k \in DOMAIN ops : BornStep(ops[k])'
      BY <1>2, <1>3, <1>5, <2>1 DEF BornStep, Born
    <3> QED  BY <1>0, <1>5, <2>1, <3>1, BornStepsKept
  <2>3. \A o \in Objects \ Born : skew'[o] = 0
    <3>1. \A o \in Objects \ Born : skew[o] = 0
      BY <1>0 DEF BornInv
    <3>2. ex => w \in Born
      BY <1>3, <1>53 DEF HeapAssumption
    <3> QED  BY <1>52, <3>1, <3>2
  <2> QED  BY <1>0, <2>1, <2>2, <2>3 DEF BornInv, weak
<1>8. CellsInv' /\ NodesInv'
  BY <1>0 DEF CellsInv, CellsOf, NodesInv, weak
<1>9. StepsInv'
  <2>1. StaysOK(t, {})
    BY <1>0 DEF StepOK, weak, StaysOK
  <2>2. ComesOK(t, ops)
    <3>1. \A k \in {1, 2, 3} : StepOK(t, ops[k])'
      BY <1>2, <1>5 DEF StepOK
    <3>2. \A j, k \in {1, 2, 3} : Rivals(ops[j], ops[k]) => j = k
      BY <1>2, <1>5 DEF Rivals
    <3>3. \A x \in Places : ~Rivals(At(x), Storing(c, i, v))
      BY <1>2, <1>4 DEF Rivals
    <3> QED  BY <1>2, <1>5, <3>1, <3>2, <3>3 DEF ComesOK
  <2> QED  BY <1>0, <1>5, <2>1, <2>2, StepsKept
<1>10. ASSUME NEW o \in Objects, mem'[o] = "live", rc'[o] < Immortal PROVE CountIs(o)'
  <2>0. HeapTypeOK /\ GoesOn(t, ops) /\ ops \in Seq(Operations)
    BY <1>0, <1>5
  <2>1. OthersAside(t, ops, c)
    BY <1>0, <1>2, <1>5 DEF OthersAside, Aside, Marking
  <2>2. \A j : j # i => (Replaced(c, j)' <=> Replaced(c, j))
    <3>1. \A j : j # i => NoneOf(t, ops, StoresAt(c, j))
      BY <1>2, <1>5 DEF NoneOf, StoresAt
    <3> QED  BY <2>0, <3>1, MarksStay
  <2>3. \A j : Released(c, j)' <=> Released(c, j)
    <3>1. \A j : NoneOf(t, ops, EmptiesPast(c, j))
      BY <1>2, <1>5 DEF NoneOf, EmptiesPast
    <3> QED  BY <2>0, <3>1, MarksStay
  <2>4. Replaced(c, i)'
    <3>1. ops[2] \in StoresAt(c, i) /\ 2 \in DOMAIN ops
      BY <1>2, <1>5 DEF StoresAt
    <3> QED  BY <1>5, <2>0, <3>1, ReplacedNow
  <2>5. RefsIn(c, o) \ {i} = RefsIn(c, o)' \ {i} /\ i \notin RefsIn(c, o)'
    BY <1>0, <2>2, <2>3, <2>4 DEF RefsIn, Counted
  <2>6. i \in RefsIn(c, o) <=> w = o /\ ~ex
    <3>1. o # Null
      BY DEF HeapAssumption
    <3> QED  BY <1>w, <1>4, <3>1 DEF RefsIn, Counted, ex
  <2>n. PICK n \in Int : n = One(w = o)
    BY DEF One
  <2>k. PICK k \in Int : k = One(i \in RefsIn(c, o))
    BY DEF One
  <2>7. Cardinality(References(o)') = Cardinality(References(o)) + (0 - k)
    <3>1. /\ IsFiniteSet(RefsIn(c, o)) /\ IsFiniteSet(RefsIn(c, o)')
          /\ Cardinality(References(o)')
              = Cardinality(References(o)) + (Cardinality(RefsIn(c, o)') - Cardinality(RefsIn(c, o)))
      <4>1. HeapTypeOK /\ cells' \in [Objects -> Seq(Cell)] /\ GoesOn(t, ops) /\ ops \in Seq(Operations)
        BY <1>0, <1>5, <1>6 DEF HeapTypeOK
      <4> QED  BY <2>1, <4>1, RefsMove
    <3>2. Cardinality(RefsIn(c, o)') - Cardinality(RefsIn(c, o)) = One(i \in RefsIn(c, o)') - One(i \in RefsIn(c, o))
      BY <2>5, <3>1, OneDiffers
    <3>3. One(i \in RefsIn(c, o)') - One(i \in RefsIn(c, o)) = 0 - k
      BY <2>k, <2>5 DEF One
    <3> QED  BY <3>1, <3>2, <3>3
  <2>8. rc'[o] = rc[o] /\ skew'[o] = skew[o] + (n - k) /\ rc[o] \in Int /\ skew[o] \in Int
    <3>1. rc[o] \in Int /\ skew[o] \in Int /\ rc'[o] = rc[o] /\ n = One(w = o) /\ k = One(w = o /\ ~ex)
      BY <1>0, <2>n, <2>k, <2>6 DEF HeapTypeOK, One
    <3>2. CASE w # o
      <4>1. n = 0 /\ k = 0 /\ skew'[o] = skew[o]
        BY <1>52, <3>1, <3>2 DEF One
      <4> QED  BY <3>1, <4>1
    <3>3. CASE w = o /\ ex
      <4>1. n = 1 /\ k = 0 /\ skew'[o] = skew[o] + 1
        BY <1>52, <3>1, <3>3 DEF One
      <4> QED  BY <3>1, <4>1
    <3>4. CASE w = o /\ ~ex
      <4>1. n = 1 /\ k = 1 /\ skew'[o] = skew[o]
        BY <1>52, <3>1, <3>4 DEF One
      <4> QED  BY <3>1, <4>1
    <3> QED  BY <3>2, <3>3, <3>4
  <2>9. KeyOf(o)' = KeyOf(o) /\ Owned(o)' = Owned(o)
    <3>1. NoUnlink(t, ops) /\ node' = node
      BY <1>0, <1>2, <1>5 DEF NoUnlink, weak
    <3>2. KeyOf(o)' = KeyOf(o)
      BY <2>0, <3>1, KeysSame
    <3> QED  BY <1>0, <3>2 DEF Owned
  <2>10. CountIs(o)
    BY <1>0, <1>10 DEF CountsInv
  <2>11. Done(t, o) = 0 /\ WorkIn(ops, o) = n
    <3>1. WorkIn(ops, o) = One(w = o) + One(v = o) + (0 - One(v = o)) /\ One(v = o) \in Int
      BY <1>51 DEF One
    <3> QED  BY <1>5, <2>n, <3>1
  <2>12. Moved(o, n - k, 0 - k, 0, 0)
    <3>2. /\ Cardinality(Owned(o)) \in Nat /\ Cardinality(References(o)) \in Nat /\ Cardinality(KeyOf(o)) \in Nat
      BY <1>0, SizesAre
    <3>3. rc'[o] + skew'[o] = rc[o] + skew[o] + (n - k)
      BY <2>n, <2>k, <2>8
    <3> QED  BY <2>7, <2>9, <3>2, <3>3 DEF Moved
  <2>13. n - k = WorkIn(ops, o) - Done(t, o) + (0 - k) + 0 + 0 /\ n - k \in Int /\ 0 - k \in Int
    BY <2>n, <2>k, <2>11
  <2> QED  BY <1>6, <2>0, <2>10, <2>12, <2>13, CountMoved
<1> QED  BY <1>6, <1>7, <1>8, <1>9, <1>10 DEF HeapOK, CountsInv

(* A value is stored over another in an array. *)
LEMMA ArraySetKeeps ==
  ASSUME HeapOK, NEW t \in Threads, todo[t] = <<>>, NEW a \in Mine(t, "sequence"), NEW i \in DOMAIN cells[a],
         NEW v \in Usable(t), ArraySet(t, a, i, v)
  PROVE  HeapOK'
<1>1. /\ HeapTypeOK /\ BornInv /\ CellsInv /\ StepsInv /\ a \in Objects /\ mem[a] = "live" /\ Owner[a] = t /\ Kind[a] # "dict"
      /\ UNCHANGED <<mem, rc, held, weak, cells>> /\ skew' = skew
      /\ Start(t, <<Releasing(cells[a][i].to), Storing(a, i, v), Retaining(v)>>)
  BY DEF HeapOK, Mine, ArraySet, Call, OnlyCells
<1>2. v \in Born
  BY <1>1, UsableIsBorn
<1>3. skew' = Excess(a, i)
  <2>1. ~cells[a][i].weak
    BY <1>1 DEF CellsInv, CellsOf
  <2>2. ~Replaced(a, i)
    BY <1>1, IdleRefs
  <2> QED  BY <1>1, <2>1, <2>2 DEF Excess
<1> QED  BY <1>1, <1>2, <1>3, OverwriteCallKeeps

(* A call that changes no count, owner or skew. *)
LEMMA NotOwned ==
  ASSUME HeapTypeOK, UNCHANGED <<rc, held, skew>>, NEW x \in Objects
  PROVE  Counts(x, 0, 0)
<1>1. skew'[x] = skew[x] /\ skew[x] \in Int /\ rc[x] \in Int /\ rc'[x] = rc[x]
  BY DEF HeapTypeOK
<1>2. Owned(x)' = Owned(x) /\ Cardinality(Owned(x)) \in Nat
  BY SizesAre DEF Owned
<1> QED  BY <1>1, <1>2 DEF Counts
-----------------------------------------------------------------------------
(* A dictionary's cells without a key and its value still alternate. *)
LEMMA WithoutEntry ==
  ASSUME NEW s \in Seq(Cell), Len(s) % 2 = 0, NEW i \in DOMAIN s, i % 2 = 0, NEW q, q = RemoveAt(RemoveAt(s, i), i - 1)
  PROVE  /\ q \in Seq(Cell) /\ Len(q) % 2 = 0
         /\ \A j \in DOMAIN q : \E k \in DOMAIN s : q[j] = s[k] /\ (j % 2 = 1 => k % 2 = 1)
         /\ \A S : Cardinality(Picked(q, S)) = Cardinality(Picked(s, S)) - One(s[i] \in S) - One(s[i - 1] \in S)
         /\ i - 1 \in DOMAIN s /\ s[i] \in Cell /\ s[i - 1] \in Cell
<1>m. PICK m \in Nat : m = Len(s) /\ DOMAIN s = 1 .. m
  BY LenProperties
<1>0. m % 2 = 0 /\ i \in 1 .. m
  BY <1>m
<1>l. PICK l \in Nat : l = m - 1
  BY <1>0
<1>n. PICK n \in Nat : n = l - 1
  BY <1>0, <1>l, TwoLess
<1>h. PICK h \in Nat : h = i - 1
  BY <1>0
<1>1. /\ h \in 1 .. l /\ h \in 1 .. m /\ h < i /\ n % 2 = 0
      /\ \A j \in 1 .. n : j \in 1 .. l /\ j \in 1 .. m /\ j + 1 \in 1 .. l /\ j + 2 \in 1 .. m /\ (j + 1) + 1 = j + 2
      /\ \A j \in 1 .. n : (j < h => j < i) /\ (~(j < h) => ~(j + 1 < i))
      /\ \A j \in 1 .. n : j % 2 = 1 => (j + 2) % 2 = 1
  BY <1>0, <1>l, <1>n, <1>h, TwoLess
<1>r. PICK r : r = RemoveAt(s, i)
  OBVIOUS
<1>2. /\ r \in Seq(Cell) /\ s[i] \in Cell
      /\ \A S : Cardinality(Picked(r, S)) = Cardinality(Picked(s, S)) - One(s[i] \in S)
      /\ Len(r) = Len(s) - 1
      /\ \A j \in DOMAIN r : r[j] = IF j < i THEN s[j] ELSE s[j + 1]
  BY <1>r, WithoutOne
<1>3. DOMAIN r = 1 .. l
  BY <1>m, <1>l, <1>2, LenProperties
<1>4. q = RemoveAt(r, h)
  BY <1>r, <1>h
<1>5. /\ q \in Seq(Cell)
      /\ \A S : Cardinality(Picked(q, S)) = Cardinality(Picked(r, S)) - One(r[h] \in S)
      /\ Len(q) = Len(r) - 1
      /\ \A j \in DOMAIN q : q[j] = IF j < h THEN r[j] ELSE r[j + 1]
  <2>1. h \in DOMAIN r
    <3>1. h \in 1 .. l
      BY <1>1
    <3> QED  BY <1>3, <3>1
  <2> QED  BY <1>2, <1>4, <2>1, WithoutOne
<1>6. DOMAIN q = 1 .. n /\ Len(q) = n
  <2>1. Len(q) = n
    BY <1>m, <1>l, <1>n, <1>2, <1>5
  <2> QED  BY <1>5, <2>1, LenProperties
<1>7. r[h] = s[h] /\ s[h] \in Cell
  <2>1. r[h] = s[h]
    BY <1>1, <1>2, <1>3
  <2> QED  BY <1>1, <1>m, <2>1, ElementOfSeq
<1>8. \A j \in DOMAIN q : \E k \in DOMAIN s : q[j] = s[k] /\ (j % 2 = 1 => k % 2 = 1)
  <2> TAKE j \in DOMAIN q
  <2>0. j \in 1 .. n
    BY <1>6
  <2>1. CASE j < h
    <3>1. q[j] = r[j] /\ r[j] = s[j] /\ j \in DOMAIN s
      BY <1>1, <1>2, <1>3, <1>5, <1>m, <2>0, <2>1
    <3> QED  BY <3>1
  <2>2. CASE ~(j < h)
    <3>1. q[j] = r[j + 1]
      BY <1>5, <2>2
    <3>2. j + 1 \in DOMAIN r /\ ~(j + 1 < i) /\ (j + 1) + 1 = j + 2 /\ j + 2 \in DOMAIN s /\ (j % 2 = 1 => (j + 2) % 2 = 1)
      BY <1>1, <1>3, <1>m, <2>0, <2>2
    <3>3. r[j + 1] = s[j + 2]
      BY <1>2, <3>2
    <3> QED  BY <3>1, <3>2, <3>3
  <2> QED  BY <2>1, <2>2
<1>9. \A S : Cardinality(Picked(q, S)) = Cardinality(Picked(s, S)) - One(s[i] \in S) - One(s[i - 1] \in S)
  <2> TAKE S
  <2>1. Cardinality(Picked(q, S)) = Cardinality(Picked(r, S)) - One(r[h] \in S)
    BY <1>5
  <2>2. Cardinality(Picked(r, S)) = Cardinality(Picked(s, S)) - One(s[i] \in S)
    BY <1>2
  <2> QED  BY <1>7, <1>h, <2>1, <2>2
<1> QED  BY <1>1, <1>2, <1>5, <1>6, <1>7, <1>8, <1>9, <1>h, <1>m

(* An entry taken out of a dictionary: its key and its value are released. *)
LEMMA DictRemoveKeeps ==
  ASSUME HeapOK, NEW t \in Threads, todo[t] = <<>>, NEW d \in Mine(t, "dict"), NEW k, DictRemove(t, d, k)
  PROVE  HeapOK'
<1>i. PICK i : i = Value(d, k)
  OBVIOUS
<1>0. /\ HeapTypeOK /\ BornInv /\ CellsInv /\ StepsInv /\ UNCHANGED <<mem, rc, held, weak>>
      /\ d \in Objects /\ Kind[d] = "dict" /\ mem[d] = "live" /\ Owner[d] = t /\ skew' = Excess(d, i)
  BY <1>i DEF HeapOK, DictRemove, OnlyCells, Mine
<1>s. PICK s \in Seq(Cell) : s = cells[d]
  BY <1>0 DEF HeapTypeOK
<1>q. PICK q : q = RemoveAt(RemoveAt(s, i), i - 1)
  OBVIOUS
<1>1. i \in DOMAIN s /\ i % 2 = 0 /\ (i - 1) % 2 = 1 /\ Len(s) % 2 = 0
  BY <1>0, <1>i, <1>s, ValueIsThere DEF DictRemove, CellsInv, CellsOf
<1>2. /\ q \in Seq(Cell) /\ Len(q) % 2 = 0
      /\ \A j \in DOMAIN q : \E l \in DOMAIN s : q[j] = s[l] /\ (j % 2 = 1 => l % 2 = 1)
      /\ \A S : Cardinality(Picked(q, S)) = Cardinality(Picked(s, S)) - One(s[i] \in S) - One(s[i - 1] \in S)
      /\ i - 1 \in DOMAIN s /\ s[i] \in Cell /\ s[i - 1] \in Cell
  BY <1>1, <1>q, WithoutEntry
<1>a. PICK a : a = s[i - 1].to
  OBVIOUS
<1>b. PICK b : b = s[i].to
  OBVIOUS
<1>w. PICK w : w = s[i].weak
  OBVIOUS
<1>3. /\ \A j \in DOMAIN s : s[j].to \in Born \cup {Null} /\ (s[j].weak => s[j].to # Null)
      /\ \A j \in DOMAIN s : j % 2 = 1 => ~s[j].weak /\ s[j].to # Null
  BY <1>0, <1>s DEF BornInv, CellsInv, CellsOf
<1>4. a \in Born /\ a \in Objects /\ ~s[i - 1].weak /\ b \in Born \cup {Null} /\ b \in Values
      /\ (w => b \in Born /\ b \in Objects)
  <2>1. Born \subseteq Objects
    BY DEF Born
  <2> QED  BY <1>1, <1>2, <1>3, <1>a, <1>b, <1>w, <2>1 DEF Values
<1>ops. PICK ops : ops = <<Releasing(a), Releasing(b)>>
  OBVIOUS
<1>5. CellsAre(d, q) /\ cells'[d] = q /\ Start(t, ops)
  <2>1. cells' = [cells EXCEPT ![d] = q]
    BY <1>s, <1>q, <1>i DEF DictRemove
  <2>2. cells'[d] = q
    BY <1>0, <2>1 DEF HeapTypeOK
  <2> QED  BY <1>s, <1>i, <1>a, <1>b, <1>ops, <2>1, <2>2 DEF DictRemove, Call, CellsAre
<1>6. CellsOf(d)' /\ \A j \in DOMAIN q : q[j].to \in Born \cup {Null}
  <2>1. \A j \in DOMAIN q : /\ q[j].to \in Born \cup {Null} /\ (q[j].weak => q[j].to # Null)
                            /\ (j % 2 = 1 => ~q[j].weak /\ q[j].to # Null)
    BY <1>2, <1>3
  <2> QED  BY <1>0, <1>2, <1>5, <2>1 DEF CellsOf
<1>7. /\ Releasing(a) \in Operations /\ Releasing(b) \in Operations
      /\ Releasing(a).op = "release" /\ Releasing(a).on = a /\ Releasing(b).op = "release" /\ Releasing(b).on = b
  BY <1>4, Primitives DEF Releasing, Values
<1>8. ops \in Seq(Operations) /\ Light(ops)
  BY <1>ops, <1>4, <1>7, ShortLists DEF Light
<1>9. \A x : WorkIn(ops, x) = One(a = x) + One(b = x)
  <2> TAKE x
  <2>1. \A p, r \in Operations : WorkIn(<<p, r>>, x) = Weight(p, x) + Weight(r, x)
    BY WorkOfFew
  <2>2. WorkIn(ops, x) = Weight(Releasing(a), x) + Weight(Releasing(b), x)
    BY <1>7, <1>ops, <2>1
  <2>3. Weight(Releasing(a), x) = One(a = x)
    BY PrimitiveWeights
  <2>4. Weight(Releasing(b), x) = One(b = x)
    BY PrimitiveWeights
  <2> QED  BY <2>2, <2>3, <2>4
<1>10. skew' = (IF w THEN [skew EXCEPT ![b] = @ + 1] ELSE skew) /\ skew \in [Objects -> Int]
  <2>1. ~Replaced(d, i)
    BY <1>0, IdleRefs
  <2> QED  BY <1>0, <1>s, <1>b, <1>w, <2>1 DEF Excess, HeapTypeOK
<1>11. /\ rc' \in [Objects -> Int] /\ skew' \in [Objects -> Int] /\ held' \in [Threads -> [Objects -> Nat]]
       /\ \A x \in Objects \ Born : skew'[x] = 0 /\ \A u \in Threads : held'[u][x] = 0
  <2>1. \A x \in Objects \ Born : skew[x] = 0 /\ \A u \in Threads : held[u][x] = 0
    BY <1>0 DEF BornInv
  <2>2. rc' \in [Objects -> Int] /\ held' \in [Threads -> [Objects -> Nat]] /\ held' = held
    BY <1>0 DEF HeapTypeOK
  <2>3. skew' \in [Objects -> Int] /\ \A x \in Objects \ Born : skew'[x] = skew[x]
    BY <1>4, <1>10
  <2> QED  BY <2>1, <2>2, <2>3
<1>12. ASSUME NEW x \in Objects, mem[x] = "live", rc'[x] < Immortal
       PROVE rc[x] < Immortal /\ \E n, p \in Int : Counts(x, n, p)
                                   /\ n = WorkIn(ops, x) + (Refs(q, x) - Refs(cells[d], x)) + p
  <2>k. PICK k1 \in Int : k1 = One(a = x)
    BY DEF One
  <2>l. PICK k2 \in Int : k2 = One(b = x)
    BY DEF One
  <2>m. PICK k3 \in Int : k3 = One(b = x /\ ~w)
    BY DEF One
  <2>1. rc[x] < Immortal
    BY <1>0, <1>12
  <2>2. Counts(x, k2 - k3, 0)
    <3>1. skew'[x] = skew[x] + (k2 - k3)
      <4>0. skew[x] \in Int
        BY <1>10
      <4>1. CASE b = x /\ w
        <5>1. k2 = 1 /\ k3 = 0 /\ skew'[x] = skew[x] + 1
          BY <1>10, <2>l, <2>m, <4>1 DEF One
        <5> QED  BY <4>0, <5>1
      <4>2. CASE b = x /\ ~w
        <5>1. k2 = 1 /\ k3 = 1 /\ skew'[x] = skew[x]
          BY <1>10, <2>l, <2>m, <4>2 DEF One
        <5> QED  BY <4>0, <5>1
      <4>3. CASE b # x
        <5>1. k2 = 0 /\ k3 = 0 /\ skew'[x] = skew[x]
          BY <1>10, <2>l, <2>m, <4>3 DEF One
        <5> QED  BY <4>0, <5>1
      <4> QED  BY <4>1, <4>2, <4>3
    <3>2. Owned(x)' = Owned(x) /\ Cardinality(Owned(x)) \in Nat
      <4>1. held' = held
        BY <1>0
      <4>2. Cardinality(Owned(x)) \in Nat
        BY <1>0, SizesAre
      <4> QED  BY <4>1, <4>2 DEF Owned
    <3>3. rc'[x] = rc[x] /\ rc[x] \in Int /\ skew[x] \in Int
      BY <1>0 DEF HeapTypeOK
    <3>4. rc'[x] + skew'[x] = rc[x] + skew[x] + (k2 - k3)
      BY <2>l, <2>m, <3>1, <3>3
    <3> QED  BY <3>2, <3>4 DEF Counts
  <2>3. Refs(q, x) - Refs(cells[d], x) = 0 - k1 - k3
    <3>1. Refs(q, x) = Refs(s, x) - k3 - k1 /\ Refs(s, x) \in Nat
      <4>1. One(s[i] \in To(x)) = k3 /\ One(s[i - 1] \in To(x)) = k1
        BY <1>2, <1>4, <1>a, <1>b, <1>w, <2>k, <2>m DEF To, One
      <4>2. \A S : Cardinality(Picked(q, S)) = Cardinality(Picked(s, S)) - One(s[i] \in S) - One(s[i - 1] \in S)
        BY <1>2
      <4> QED  BY <1>s, <4>1, <4>2, RefsAreNat DEF Refs
    <3> QED  BY <1>s, <2>k, <2>m, <3>1
  <2>4. k2 - k3 = WorkIn(ops, x) + (Refs(q, x) - Refs(cells[d], x)) + 0 /\ 0 \in Int /\ k2 - k3 \in Int
    <3>1. WorkIn(ops, x) = k1 + k2
      BY <1>9, <2>k, <2>l
    <3>e. PICK e : e = Refs(q, x) - Refs(cells[d], x)
      OBVIOUS
    <3>2. e = 0 - k1 - k3
      BY <2>3, <3>e
    <3>3. k2 - k3 = (k1 + k2) + e + 0 /\ k2 - k3 \in Int
      BY <3>2
    <3> QED  BY <3>1, <3>e, <3>3
  <2> QED  BY <2>1, <2>2, <2>4
<1>13. CellsCount(ops, d, q) /\ UNCHANGED <<mem, weak>> /\ HeapOK /\ todo[t] = <<>>
  BY <1>0, <1>12 DEF CellsCount
<1> QED  BY <1>0, <1>2, <1>5, <1>6, <1>8, <1>11, <1>13, ContainerKeeps

(* A reference to what is born. *)
LEMMA StrongIsCell ==
  ASSUME NEW v \in Born
  PROVE  v \in Objects /\ v # Null /\ Strong(v) \in Cell /\ Strong(v).to = v /\ ~Strong(v).weak
BY DEF Strong, Cell, Values, Born, HeapAssumption

(* A value is put into a dictionary, over another or in a new entry. *)
LEMMA DictSetKeeps ==
  ASSUME HeapOK, NEW t \in Threads, todo[t] = <<>>, NEW d \in Mine(t, "dict"), NEW k \in Usable(t), NEW v \in Usable(t),
         DictSet(t, d, k, v)
  PROVE  HeapOK'
<1>0. /\ HeapTypeOK /\ BornInv /\ CellsInv /\ StepsInv /\ UNCHANGED <<mem, rc, held, weak>>
      /\ d \in Objects /\ Kind[d] = "dict" /\ mem[d] = "live" /\ Owner[d] = t
  BY DEF HeapOK, DictSet, OnlyCells, Mine
<1>1. k \in Born /\ v \in Born
  BY <1>0, UsableIsBorn
<1>2. CASE Entry(d, k) # {}
  <2>i. PICK i : i = Value(d, k)
    OBVIOUS
  <2>1. i \in DOMAIN cells[d]
    BY <1>0, <1>2, <2>i, ValueIsThere
  <2>2. /\ Start(t, <<Releasing(cells[d][i].to), Storing(d, i, v), Retaining(v)>>)
        /\ skew' = Excess(d, i) /\ cells' = cells
    BY <1>2, <2>i DEF DictSet, Call
  <2>3. HeapOK /\ todo[t] = <<>> /\ UNCHANGED <<mem, rc, held, weak, cells>>
    BY <1>0, <2>2
  <2> QED  BY <1>0, <1>1, <2>1, <2>2, <2>3, OverwriteCallKeeps
<1>3. CASE Entry(d, k) = {}
  <2>s. PICK s \in Seq(Cell) : s = cells[d]
    BY <1>0 DEF HeapTypeOK
  <2>e. PICK e : e = <<Strong(k), Strong(v)>>
    OBVIOUS
  <2>q. PICK q : q = s \o e
    OBVIOUS
  <2>ops. PICK ops : ops = <<Retaining(k), Retaining(v)>>
    OBVIOUS
  <2>1. /\ k \in Objects /\ Strong(k) \in Cell /\ Strong(k).to = k /\ ~Strong(k).weak
        /\ v \in Objects /\ Strong(v) \in Cell /\ Strong(v).to = v /\ ~Strong(v).weak
    BY <1>1, StrongIsCell
  <2>2. cells' = WithEntry(d, k, Strong(v)) /\ Start(t, ops) /\ skew' = skew
    BY <1>3, <2>ops DEF DictSet, Call
  <2>3. CellsAre(d, q)
    BY <2>2, <2>s, <2>e, <2>q DEF WithEntry, CellsAre
  <2>4. /\ Retaining(k) \in Operations /\ Retaining(k).op = "retain" /\ Retaining(k).on = k
        /\ Retaining(v) \in Operations /\ Retaining(v).op = "retain" /\ Retaining(v).on = v
    BY <2>1, Primitives DEF Retaining, Values
  <2>5. ops \in Seq(Operations) /\ Light(ops)
    BY <1>1, <2>ops, <2>4, ShortLists DEF Light
  <2>6. GoesOn(t, ops) /\ Unmarked(t, ops)
    BY <2>2, <2>5 DEF GoesOn, Unmarked, First, Light, Marking
  <2>7. /\ cells' \in [Objects -> Seq(Cell)] /\ CellsInv'
        /\ \A c \in Objects : \A j \in DOMAIN cells'[c] : cells'[c][j].to \in Born \cup {Null}
    <3>1. Strong(v).to \in Born \cup {Null} /\ (Strong(v).weak => Strong(v).to # Null) /\ mem' = mem
      BY <1>0, <1>1, <2>1
    <3> QED  BY <1>0, <1>1, <2>1, <2>2, <2>5, <2>6, <3>1, NewEntryDoes
  <2>8. cells'[d] = q
    BY <1>0, <2>3 DEF CellsAre, HeapTypeOK
  <2>9. CellsOf(d)' /\ q \in Seq(Cell) /\ \A j \in DOMAIN q : q[j].to \in Born \cup {Null}
    BY <1>0, <2>7, <2>8 DEF CellsInv
  <2>10. \A x : WorkIn(ops, x) = (0 - One(k = x)) + (0 - One(v = x))
    <3> TAKE x
    <3>1. \A p, r \in Operations : WorkIn(<<p, r>>, x) = Weight(p, x) + Weight(r, x)
      BY WorkOfFew
    <3>2. WorkIn(ops, x) = Weight(Retaining(k), x) + Weight(Retaining(v), x)
      BY <2>4, <2>ops, <3>1
    <3>3. Weight(Retaining(k), x) = 0 - One(k = x)
      BY PrimitiveWeights
    <3>4. Weight(Retaining(v), x) = 0 - One(v = x)
      BY PrimitiveWeights
    <3> QED  BY <3>2, <3>3, <3>4
  <2>11. /\ rc' \in [Objects -> Int] /\ skew' \in [Objects -> Int] /\ held' \in [Threads -> [Objects -> Nat]]
         /\ \A x \in Objects \ Born : skew'[x] = 0 /\ \A u \in Threads : held'[u][x] = 0
    BY <1>0, <2>2 DEF HeapTypeOK, BornInv
  <2>12. ASSUME NEW x \in Objects, mem[x] = "live", rc'[x] < Immortal
         PROVE rc[x] < Immortal /\ \E n, p \in Int : Counts(x, n, p)
                                     /\ n = WorkIn(ops, x) + (Refs(q, x) - Refs(cells[d], x)) + p
    <3>k. PICK k1 \in Int : k1 = One(k = x)
      BY DEF One
    <3>l. PICK k2 \in Int : k2 = One(v = x)
      BY DEF One
    <3>1. rc[x] < Immortal
      BY <1>0, <2>12
    <3>2. Counts(x, 0, 0)
      BY <1>0, <2>2, NotOwned
    <3>3. Refs(q, x) = Refs(s, x) + (k1 + k2) /\ Refs(s, x) \in Nat
      <4>1. e \in Seq(Cell)
        BY <2>1, <2>e
      <4>2. \A S : Cardinality(Picked(s \o e, S)) = Cardinality(Picked(s, S)) + Cardinality(Picked(e, S))
        <5> TAKE S
        <5> QED  BY <4>1, PickedJoined
      <4>3. Refs(q, x) = Refs(s, x) + Refs(e, x)
        BY <2>q, <4>2 DEF Refs
      <4>4. Refs(e, x) = One(Strong(k) \in To(x)) + One(Strong(v) \in To(x))
        BY <2>e, PickedTwo DEF Refs, One
      <4>5. One(Strong(k) \in To(x)) = k1 /\ One(Strong(v) \in To(x)) = k2
        BY <2>1, <3>k, <3>l DEF To, One
      <4> QED  BY <4>3, <4>4, <4>5, RefsAreNat
    <3>4. 0 = WorkIn(ops, x) + (Refs(q, x) - Refs(cells[d], x)) + 0 /\ 0 \in Int
      <4>1. WorkIn(ops, x) = (0 - k1) + (0 - k2)
        BY <2>10, <3>k, <3>l
      <4>2. Refs(q, x) - Refs(cells[d], x) = k1 + k2
        BY <2>s, <3>k, <3>l, <3>3
      <4> QED  BY <3>k, <3>l, <4>1, <4>2
    <3> QED  BY <3>1, <3>2, <3>4
  <2>13. CellsCount(ops, d, q) /\ UNCHANGED <<mem, weak>> /\ HeapOK /\ todo[t] = <<>>
    BY <1>0, <2>12 DEF CellsCount
  <2> QED  BY <1>0, <2>2, <2>3, <2>5, <2>9, <2>11, <2>13, ContainerKeeps
<1> QED  BY <1>2, <1>3
-----------------------------------------------------------------------------
(* A weak reference is put into a dictionary and registered: the entry keeps*)
(* the key.                                                                 *)
LEMMA DictSetWeakKeeps ==
  ASSUME HeapOK, NEW t \in Threads, todo[t] = <<>>, NEW d \in Mine(t, "dict"), NEW k \in Usable(t), NEW v \in Held(t),
         NEW n \in Nodes, DictSetWeak(t, d, k, v, n)
  PROVE  HeapOK'
<1>new. PICK new \in BOOLEAN : new <=> Entry(d, k) = {}
  OBVIOUS
<1>ops. PICK ops : ops = IF new THEN <<Retaining(k), Retaining(k)>> ELSE <<Retaining(k)>>
  OBVIOUS
<1>e. PICK e : e = [NewEntry EXCEPT !.used = "yes", !.on = v, !.dict = d, !.key = k]
  OBVIOUS
<1>0. /\ HeapTypeOK /\ BornInv /\ CellsInv /\ NodesInv /\ StepsInv /\ CountsInv
      /\ UNCHANGED <<mem, rc, held, weakVar>> /\ Register(t, n, e) /\ SetWeak(d, k, v)
      /\ d \in Objects /\ Kind[d] = "dict" /\ mem[d] = "live" /\ Owner[d] = t
      /\ Start(t, KeyRetained(d, k) \o <<Retaining(k)>>)
  BY <1>e DEF HeapOK, DictSetWeak, Mine, Call
<1>1. k \in Born /\ v \in Born /\ k \in Objects /\ v \in Objects /\ d \in Born /\ k # Null
  BY <1>0, UsableIsBorn DEF Born, HeapAssumption
<1>2. /\ e \in [used : {"yes"}, on : Values, var : WeakVars \cup {Null}, dict : Values, key : Values]
      /\ e.used = "yes" /\ e.on = v /\ e.var = Null /\ e.dict = d /\ e.key = k
  BY <1>0, <1>1, <1>e DEF NewEntry, Values
<1>3. Retaining(k) \in Operations /\ Retaining(k).op = "retain" /\ Retaining(k).on = k
  BY <1>1, Primitives DEF Retaining, Values
<1>4. Start(t, ops) /\ ops \in Seq(Operations) /\ Light(ops)
  <2>1. CASE new
    <3>1. KeyRetained(d, k) = <<Retaining(k)>>
      BY <1>new, <2>1 DEF KeyRetained
    <3>2. <<Retaining(k)>> \o <<Retaining(k)>> = <<Retaining(k), Retaining(k)>>
      BY Doubled
    <3>3. ops = <<Retaining(k), Retaining(k)>>
      BY <1>ops, <2>1
    <3>4. ops \in Seq(Operations) /\ Light(ops)
      BY <1>1, <1>3, <3>3, ShortLists DEF Light
    <3> QED  BY <1>0, <3>1, <3>2, <3>3, <3>4
  <2>2. CASE ~new
    <3>1. KeyRetained(d, k) = <<>>
      BY <1>new, <2>2 DEF KeyRetained
    <3>2. <<>> \o <<Retaining(k)>> = <<Retaining(k)>>
      OBVIOUS
    <3>3. ops = <<Retaining(k)>>
      BY <1>ops, <2>2
    <3>4. ops \in Seq(Operations) /\ Light(ops)
      BY <1>1, <1>3, <3>3, ShortLists DEF Light
    <3> QED  BY <1>0, <3>1, <3>2, <3>3, <3>4
  <2> QED  BY <2>1, <2>2
<1>5. \A x : WorkIn(ops, x) = 0 - One(k = x) - One(new /\ k = x)
  <2> TAKE x
  <2>a. PICK a \in Int : a = One(k = x)
    BY DEF One
  <2>1. Weight(Retaining(k), x) = 0 - a
    BY <2>a, PrimitiveWeights
  <2>2. CASE new
    <3>1. \A p, r \in Operations : WorkIn(<<p, r>>, x) = Weight(p, x) + Weight(r, x)
      BY WorkOfFew
    <3>2. WorkIn(ops, x) = Weight(Retaining(k), x) + Weight(Retaining(k), x)
      BY <1>3, <1>ops, <2>2, <3>1
    <3>3. One(new /\ k = x) = a
      BY <2>a, <2>2 DEF One
    <3> QED  BY <2>a, <2>1, <3>2, <3>3
  <2>3. CASE ~new
    <3>1. \A p \in Operations : WorkIn(<<p>>, x) = Weight(p, x)
      BY WorkOfFew
    <3>2. WorkIn(ops, x) = Weight(Retaining(k), x)
      BY <1>3, <1>ops, <2>3, <3>1
    <3>3. One(new /\ k = x) = 0
      BY <2>3 DEF One
    <3> QED  BY <2>a, <2>1, <3>2, <3>3
  <2> QED  BY <2>2, <2>3
<1>6. GoesOn(t, ops) /\ Unmarked(t, ops)
  BY <1>4 DEF GoesOn, Unmarked, First, Light, Marking
<1>7. /\ cells' \in [Objects -> Seq(Cell)] /\ skew' \in [Objects -> Int]
      /\ \A c \in Objects : DOMAIN cells[c] \subseteq DOMAIN cells'[c]
      /\ \A c \in Objects : \A j \in DOMAIN cells'[c] : cells'[c][j].to \in Born \cup {Null}
      /\ CellsInv' /\ \A x \in Objects \ Born : skew'[x] = 0
      /\ \A x \in Objects : \E r \in Int : /\ Cardinality(References(x)') = Cardinality(References(x)) + r
                                           /\ skew'[x] = skew[x] + (r - One(new /\ k = x))
  <2>1. v \in Born \cup {Null} /\ mem' = mem
    BY <1>0, <1>1
  <2> QED  BY <1>0, <1>1, <1>4, <1>6, <1>new, <2>1, SetWeakDoes
<1>8. /\ node' \in [Nodes -> [used : {"no", "yes", "freed"}, on : Values, var : WeakVars \cup {Null},
                                dict : Values, key : Values]]
      /\ link' \in [Links -> Links]
      /\ node'[n] = e /\ \A m \in Nodes \ {n} : node'[m] = node[m]
      /\ ~UnlinkSoon(n) /\ node[n].used = "no" /\ \A x : n \notin KeyOf(x)
      /\ \A m \in Nodes : node[m].used # "no" => node'[m] = node[m]
  <2>1. weakVar' \in [WeakVars -> Values]
    BY <1>0 DEF HeapTypeOK
  <2> QED  BY <1>0, <1>2, <2>1, RegisterDoes
<1>9. Born' = Born /\ Born \subseteq Born'
  BY <1>0 DEF Born
<1>10. StaysOK(t, {})
  <2>1. \A s \in Operations : (s.op = "unlink" => s.entry \in Nodes) /\ (s.op = "store" => s.on \in Objects)
    BY DEF Operations
  <2>2. \A u \in Threads : \A s \in Operations : StepOK(u, s) => StepOK(u, s)'
    <3> SUFFICES ASSUME NEW u \in Threads, NEW s \in Operations, StepOK(u, s) PROVE StepOK(u, s)'
      OBVIOUS
    <3>1. s.op = "store" => Owner[s.on] = u /\ s.at \in DOMAIN cells'[s.on]
      BY <1>7, <2>1 DEF StepOK
    <3>2. s.op = "unlink" => node'[s.entry].on = s.on /\ node'[s.entry].used # "no"
      BY <1>8, <2>1 DEF StepOK
    <3> QED  BY <1>0, <3>1, <3>2 DEF StepOK
  <2> QED  BY <2>2 DEF StaysOK
<1>11. /\ GoesOn(t, ops) /\ First(t) = {} /\ \A x : Done(t, x) = 0
       /\ todo' \in [Threads -> Seq(Operations)] /\ StepsInv' /\ Unmarked(t, ops) /\ NoUnlink(t, ops)
       /\ \A x \in Places' : At(x)'.on \in Born' \cup {Null} /\ (At(x)'.op = "store" => At(x)'.value \in Born')
  BY <1>0, <1>4, <1>9, <1>10, LightCall
<1>12. HeapTypeOK'
  BY <1>0, <1>7, <1>8, <1>11 DEF HeapTypeOK
<1>13. BornInv'
  <2>1. \A m \in Nodes : {node'[m].dict, node'[m].key, node'[m].on} \subseteq Born \cup {Null}
    BY <1>0, <1>1, <1>2, <1>8 DEF BornInv
  <2>2. \A x \in Objects \ Born : skew'[x] = 0 /\ \A u \in Threads : held'[u][x] = 0
    BY <1>0, <1>7 DEF BornInv
  <2>3. \A w \in WeakVars : weakVar'[w] \in Born \cup {Null}
    BY <1>0 DEF BornInv
  <2> QED  BY <1>7, <1>9, <1>11, <2>1, <2>2, <2>3 DEF BornInv
<1>14. NodesInv'
  BY <1>0, <1>1, <1>2, <1>8 DEF NodesInv
<1>15. ASSUME NEW x \in Objects, mem'[x] = "live", rc'[x] < Immortal PROVE CountIs(x)'
  <2>r. PICK r \in Int : /\ Cardinality(References(x)') = Cardinality(References(x)) + r
                         /\ skew'[x] = skew[x] + (r - One(new /\ k = x))
    BY <1>7
  <2>a. PICK a \in Int : a = One(k = x)
    BY DEF One
  <2>b. PICK b \in Int : b = One(new /\ k = x)
    BY DEF One
  <2>1. Cardinality(KeyOf(x)') = Cardinality(KeyOf(x)) + a
    <3>0. \A m : UnlinkSoon(m)' <=> UnlinkSoon(m)
      <4>1. \A m : NoneOf(t, ops, UnlinksOf(m))
        BY <1>11 DEF NoneOf, UnlinksOf, NoUnlink
      <4> QED  BY <1>0, <1>4, <1>11, <4>1, MarksStay
    <3>1. IsFiniteSet(KeyOf(x)) /\ IsFiniteSet(KeyOf(x)') /\ Cardinality(KeyOf(x)) \in Nat /\ Cardinality(KeyOf(x)') \in Nat
      BY KeysCounted
    <3>2. KeyOf(x) \ {n} = KeyOf(x)' \ {n}
      BY <1>8, <3>0 DEF KeyOf
    <3>3. Cardinality(KeyOf(x)') - Cardinality(KeyOf(x)) = One(n \in KeyOf(x)') - One(n \in KeyOf(x))
      BY <3>1, <3>2, OneDiffers
    <3>4. n \notin KeyOf(x) /\ (n \in KeyOf(x)' <=> k = x)
      BY <1>2, <1>8, <3>0 DEF KeyOf
    <3>5. One(n \in KeyOf(x)') = a /\ One(n \in KeyOf(x)) = 0
      BY <2>a, <3>4 DEF One
    <3> QED  BY <2>a, <3>1, <3>3, <3>5
  <2>2. Owned(x)' = Owned(x)
    BY <1>0 DEF Owned
  <2>3. CountIs(x)
    BY <1>0, <1>15 DEF CountsInv
  <2>4. Done(t, x) = 0 /\ WorkIn(ops, x) = 0 - a - b
    BY <1>5, <1>11, <2>a, <2>b
  <2>5. Moved(x, r - b, r, a, 0)
    <3>1. rc[x] \in Int /\ skew[x] \in Int /\ rc'[x] = rc[x] /\ skew'[x] = skew[x] + (r - b)
      BY <1>0, <2>r, <2>b DEF HeapTypeOK
    <3>2. /\ Cardinality(Owned(x)) \in Nat /\ Cardinality(References(x)) \in Nat /\ Cardinality(KeyOf(x)) \in Nat
      BY <1>0, SizesAre
    <3>3. rc'[x] + skew'[x] = rc[x] + skew[x] + (r - b)
      BY <2>r, <2>b, <3>1
    <3> QED  BY <2>r, <2>1, <2>2, <3>2, <3>3 DEF Moved
  <2>6. r - b = WorkIn(ops, x) - Done(t, x) + r + a + 0 /\ r - b \in Int /\ 0 \in Int
    <3>1. r - b = (0 - a - b) - 0 + r + a + 0 /\ r - b \in Int
      OBVIOUS
    <3> QED  BY <2>4, <3>1
  <2> QED  BY <1>0, <1>4, <1>11, <1>12, <2>r, <2>a, <2>3, <2>5, <2>6, CountMoved
<1> QED  BY <1>7, <1>11, <1>12, <1>13, <1>14, <1>15 DEF HeapOK, CountsInv
-----------------------------------------------------------------------------
(* A step left to do is one of the six, with what it is about. *)
LEMMA OperationsAre ==
  ASSUME NEW s \in Operations
  PROVE  /\ s.op = "retain" => s.on \in Values /\ s = Retaining(s.on)
         /\ s.op = "release" => s.on \in Values /\ s = Releasing(s.on)
         /\ s.op = "store" => s.on \in Objects /\ s.at \in Nat \ {0} /\ s.value \in Objects /\ s = Storing(s.on, s.at, s.value)
         /\ s.op = "visit" => s.on \in Objects /\ s.from \in Links /\ s = Visiting(s.on, s.from)
         /\ s.op = "unlink" => s.on \in Objects /\ s.from \in Links /\ s.entry \in Nodes
                               /\ s = Unlinking(s.on, s.from, s.entry)
         /\ s.op = "empty" => s.on \in Objects /\ s.at \in Nat \ {0} /\ s = Emptying(s.on, s.at)
<1>1. CASE s \in [op : {"retain", "release"}, on : Values]
  BY <1>1 DEF Retaining, Releasing
<1>2. CASE s \in [op : {"store"}, on : Objects, at : Nat \ {0}, value : Objects]
  BY <1>2 DEF Storing
<1>3. CASE s \in [op : {"visit"}, on : Objects, from : Links]
  BY <1>3 DEF Visiting
<1>4. CASE s \in [op : {"unlink"}, on : Objects, from : Links, entry : Nodes]
  BY <1>4 DEF Unlinking
<1>5. CASE s \in [op : {"empty"}, on : Objects, at : Nat \ {0}]
  BY <1>5 DEF Emptying
<1> QED  BY <1>1, <1>2, <1>3, <1>4, <1>5 DEF Operations

(* So every step that is left to do keeps the invariant, while the model's  *)
(* names for undefined behaviour stay false.                                *)
LEMMA StepKeeps ==
  ASSUME HeapOK, NEW t \in Threads, Step(t), Defined' PROVE HeapOK'
<1>s. PICK s : s = Head(todo[t])
  OBVIOUS
<1>1. s \in Operations /\ todo[t] # <<>> /\ HeapOK
  BY <1>s, FirstStep DEF HeapOK, Step
<1>2. touched' = {} /\ ~broken' /\ ~raced'
  BY DEF Defined
<1>3. CASE s.op = "retain" /\ Retain(t, s.on)
  <2>1. s.on \in Values /\ Head(todo[t]) = Retaining(s.on)
    BY <1>s, <1>1, <1>3, OperationsAre
  <2> QED  BY <1>1, <1>2, <1>3, <2>1, RetainKeeps
<1>4. CASE s.op = "release" /\ Release(t, s.on)
  <2>1. s.on \in Values /\ Head(todo[t]) = Releasing(s.on)
    BY <1>s, <1>1, <1>4, OperationsAre
  <2> QED  BY <1>1, <1>2, <1>4, <2>1, ReleaseKeeps
<1>5. CASE s.op = "store" /\ Store(t, s.on, s.at, s.value)
  <2>1. s.on \in Objects /\ s.at \in Nat \ {0} /\ s.value \in Objects /\ Head(todo[t]) = Storing(s.on, s.at, s.value)
    BY <1>s, <1>1, <1>5, OperationsAre
  <2> QED  BY <1>1, <1>2, <1>5, <2>1, StoreKeeps
<1>6. CASE s.op = "visit" /\ Visit(t, s.on, s.from)
  <2>1. s.on \in Objects /\ s.from \in Links /\ Head(todo[t]) = Visiting(s.on, s.from)
    BY <1>s, <1>1, <1>6, OperationsAre
  <2>2. CASE link[s.from] # Null /\ node[link[s.from]].on = s.on /\ node[link[s.from]].var = Null
    BY <1>1, <1>2, <1>6, <2>1, <2>2, EntryClearedKeeps
  <2>3. CASE ~(link[s.from] # Null /\ node[link[s.from]].on = s.on /\ node[link[s.from]].var = Null)
    <3>1. link[s.from] # Null /\ node[link[s.from]].on = s.on => node[link[s.from]].var # Null
      BY <2>3
    <3> QED  BY <1>1, <1>2, <1>6, <2>1, <3>1, PassKeeps
  <2> QED  BY <2>2, <2>3
<1>7. CASE s.op = "unlink" /\ Unlink(t, s.on, s.from, s.entry)
  <2>1. s.on \in Objects /\ s.from \in Links /\ s.entry \in Nodes /\ Head(todo[t]) = Unlinking(s.on, s.from, s.entry)
    BY <1>s, <1>1, <1>7, OperationsAre
  <2> QED  BY <1>1, <1>7, <2>1, UnlinkKeeps
<1>8. CASE s.op = "empty" /\ Empty(t, s.on, s.at)
  <2>1. s.on \in Objects /\ s.at \in Nat \ {0} /\ Head(todo[t]) = Emptying(s.on, s.at)
    BY <1>s, <1>1, <1>8, OperationsAre
  <2>2. Len(cells[s.on]) \in Nat
    BY <1>1, <2>1, LenProperties DEF HeapOK, HeapTypeOK
  <2>3. CASE s.at > Len(cells[s.on])
    BY <1>1, <1>8, <2>1, <2>3, EmptyEnds
  <2>4. CASE s.at <= Len(cells[s.on])
    BY <1>1, <1>8, <2>1, <2>4, EmptyKeeps
  <2> QED  BY <2>1, <2>2, <2>3, <2>4
<1> QED  BY <1>s, <1>3, <1>4, <1>5, <1>6, <1>7, <1>8 DEF Step

(* The calls on an array keep it. *)
LEMMA OnArrayKeeps ==
  ASSUME HeapOK, NEW t \in Threads, todo[t] = <<>>, NEW a \in Mine(t, "sequence"), OnArray(t, a), touched' = {}
  PROVE  HeapOK'
<1>0. HeapOK /\ todo[t] = <<>> /\ a \in Objects
  BY DEF Mine
<1>1. CASE ArrayPop(t, a)
  BY <1>0, <1>1, ArrayPopKeeps
<1>2. ASSUME NEW v \in Usable(t), NEW i \in 1 .. Len(cells[a]) + 1, ArrayInsert(t, a, i, v) PROVE HeapOK'
  BY <1>0, <1>2, ArrayInsertKeeps
<1>3. ASSUME NEW v \in Usable(t), NEW i \in DOMAIN cells[a], ArraySet(t, a, i, v) PROVE HeapOK'
  BY <1>0, <1>3, ArraySetKeeps
<1>4. ASSUME NEW i \in DOMAIN cells[a], ArrayRemove(t, a, i) PROVE HeapOK'
  BY <1>0, <1>4, ArrayRemoveKeeps
<1>5. ASSUME NEW i \in DOMAIN cells[a], NEW o \in Objects, ArraySlice(t, a, i, o) PROVE HeapOK'
  BY <1>0, <1>5, ArraySliceKeeps
<1> QED  BY <1>1, <1>2, <1>3, <1>4, <1>5 DEF OnArray

(* The calls on a dictionary keep it. *)
LEMMA OnDictKeeps ==
  ASSUME HeapOK, NEW t \in Threads, todo[t] = <<>>, NEW d \in Mine(t, "dict"), OnDict(t, d)
  PROVE  HeapOK'
<1>0. HeapOK /\ todo[t] = <<>> /\ d \in Objects /\ Kind[d] = "dict"
  BY DEF Mine
<1>1. ASSUME NEW o \in Objects, NEW first \in 1 .. 2, DictList(t, d, first, o) PROVE HeapOK'
  BY <1>0, <1>1, DictListKeeps
<1>2. ASSUME NEW k \in Usable(t), DictRemove(t, d, k) PROVE HeapOK'
  BY <1>0, <1>2, DictRemoveKeeps
<1>3. ASSUME NEW k \in Usable(t), NEW v \in Usable(t), DictSet(t, d, k, v) PROVE HeapOK'
  BY <1>0, <1>3, DictSetKeeps
<1>4. ASSUME NEW k \in Usable(t), NEW v \in Held(t), NEW n \in Nodes, DictSetWeak(t, d, k, v, n) PROVE HeapOK'
  BY <1>0, <1>4, DictSetWeakKeeps
<1> QED  BY <1>1, <1>2, <1>3, <1>4 DEF OnDict

(* Every call that begins keeps it. *)
LEMMA OperationKeeps ==
  ASSUME HeapOK, NEW t \in Threads, Operation(t), Defined' PROVE HeapOK'
<1>0. HeapOK /\ todo[t] = <<>> /\ touched' = {}
  BY DEF Operation, Defined
<1>1. ASSUME NEW o \in Objects, New(t, o) PROVE HeapOK'
  BY <1>0, <1>1, NewKeeps
<1>2. ASSUME NEW o \in Objects, NEW v \in Usable(t) \cup {Null}, NEW e \in Usable(t) \cup {Null}, NewResult(t, o, v, e)
      PROVE  HeapOK'
  BY <1>0, <1>2, NewResultKeeps
<1>3. ASSUME NEW o \in Usable(t), Keep(t, o) PROVE HeapOK'
  BY <1>0, <1>3, KeepKeeps
<1>4. ASSUME NEW o \in Held(t), LetGo(t, o) \/ RetainForever(t, o) \/ \E u \in Threads : Hand(t, u, o) PROVE HeapOK'
  <2>1. o \in Objects
    BY DEF Held
  <2> QED  BY <1>0, <1>4, <2>1, LetGoKeeps, RetainForeverKeeps, HandKeeps
<1>5. ASSUME NEW o \in Held(t), NEW w \in WeakVars, NEW n \in Nodes, WeakInit(t, w, o, n) PROVE HeapOK'
  BY <1>0, <1>5, WeakInitKeeps
<1>6. ASSUME NEW a \in Mine(t, "sequence"), OnArray(t, a) PROVE HeapOK'
  BY <1>0, <1>6, OnArrayKeeps
<1>7. ASSUME NEW d \in Mine(t, "dict"), OnDict(t, d) PROVE HeapOK'
  BY <1>0, <1>7, OnDictKeeps
<1>8. ASSUME NEW o \in Objects,
             New(t, o) \/ \E v, e \in (Usable(t) \cap Fits[o]) \cup {Null} : NewResult(t, o, v, e)
      PROVE HeapOK'
  BY <1>1, <1>2, <1>8
<1>9. ASSUME NEW o \in Held(t),
             \/ LetGo(t, o) \/ RetainForever(t, o)
             \/ \E u \in Threads : Hand(t, u, o)
             \/ \E w \in WeakVars, n \in Nodes : WeakInit(t, w, o, n)
      PROVE HeapOK'
  BY <1>4, <1>5, <1>9
<1> QED  BY <1>3, <1>6, <1>7, <1>8, <1>9 DEF Operation

(* At the start nothing is born. *)
LEMMA HeapInit == Init => HeapOK
<1> SUFFICES ASSUME Init PROVE HeapOK
  OBVIOUS
<1>1. PICK new \in Programs : mem = [o \in Objects |-> IF o \in new THEN "new" ELSE "unused"]
  BY DEF Init
<1>2. \A o \in Objects : mem[o] \in {"new", "unused"} /\ cells[o] = <<>> /\ DOMAIN cells[o] = {}
  BY <1>1 DEF Init
<1>3. Born = {} /\ Places = {}
  <2>1. Born = {}
    BY <1>2 DEF Born
  <2>2. \A t \in Threads : DOMAIN todo[t] = {}
    BY DEF Init
  <2> QED  BY <2>1, <2>2 DEF Places
<1>4. HeapTypeOK
  <2>1. mem \in [Objects -> {"unused", "new", "live", "dying", "freed"}]
    BY <1>1
  <2>2. <<>> \in Seq(Cell) /\ <<>> \in Seq(Operations)
    OBVIOUS
  <2>3. NewEntry \in [used : {"no", "yes", "freed"}, on : Values, var : WeakVars \cup {Null}, dict : Values, key : Values]
    BY DEF NewEntry, Values
  <2> QED  BY <2>1, <2>2, <2>3 DEF Init, HeapTypeOK, Values, Links
<1>5. BornInv
  BY <1>2, <1>3 DEF BornInv, Init, NewEntry
<1>6. CellsInv
  <2>1. Len(<<>>) = 0 /\ 0 % 2 = 0
    OBVIOUS
  <2> QED  BY <1>2, <2>1 DEF CellsInv, CellsOf
<1>7. NodesInv
  BY DEF NodesInv, Init, NewEntry
<1>8. StepsInv
  <2>1. \A S : Cardinality(Pending(S)) <= 1
    <3> TAKE S
    <3>1. Pending(S) = {}
      BY <1>3 DEF Pending
    <3> QED  BY <3>1, FS_EmptySet
  <2> QED  BY <1>3, <2>1 DEF StepsInv
<1>9. CountsInv
  BY <1>2 DEF CountsInv
<1> QED  BY <1>4, <1>5, <1>6, <1>7, <1>8, <1>9 DEF HeapOK

(* Stuttering changes nothing. *)
LEMMA HeapUnchanged == HeapOK /\ UNCHANGED vars => HeapOK'
<1> SUFFICES ASSUME HeapOK, UNCHANGED vars PROVE HeapOK'
  OBVIOUS
<1>1. UNCHANGED <<mem, rc, cells, held, skew, weakVar, node, link, todo>>
  BY DEF vars, counts, weak
<1>2. HeapTypeOK' /\ BornInv'
  BY <1>1 DEF HeapOK, HeapTypeOK, BornInv, Born, Places, At
<1>3. CellsInv' /\ NodesInv'
  BY <1>1 DEF HeapOK, CellsInv, CellsOf, NodesInv
<1>4. StepsInv'
  <2>1. Places' = Places /\ \A x : At(x)' = At(x)
    BY <1>1 DEF Places, At
  <2>2. \A S : Pending(S)' = Pending(S)
    BY <2>1 DEF Pending
  <2>3. \A u : \A s : StepOK(u, s)' <=> StepOK(u, s)
    BY <1>1 DEF StepOK
  <2>4. StepsInv
    BY DEF HeapOK
  <2>5. \A x \in Places' : StepOK(x[1], At(x))'
    <3>1. \A x \in Places : StepOK(x[1], At(x))' <=> StepOK(x[1], At(x))
      BY <1>1, <2>1 DEF StepOK
    <3> QED  BY <2>1, <2>4, <3>1 DEF StepsInv
  <2>6. \A c \in Objects :
          /\ Cardinality(Pending(EmptiesOf(c))') <= 1 /\ Cardinality(Pending(WalksFor(c))') <= 1
          /\ Cardinality(Pending(StoresInto(c))') <= 1
    BY <2>2, <2>4 DEF StepsInv
  <2> QED  BY <2>5, <2>6 DEF StepsInv
<1>5. CountsInv'
  <2>1. \A o \in Objects : CountIs(o)' <=> CountIs(o)
    BY <1>1 DEF CountIs, Owned, References, Counted, Released, Replaced, KeyOf, UnlinkSoon, Remaining, Arriving, Places, At
  <2> QED  BY <1>1, <2>1 DEF HeapOK, CountsInv
<1> QED  BY <1>2, <1>3, <1>4, <1>5 DEF HeapOK

(* Counts are exact for any number of threads, objects and calls: through   *)
(* every cascade of frees, every overwrite and every walk that clears weak  *)
(* references, as long as no thread has used freed memory or changed the    *)
(* weak list under another's walk.                                          *)
THEOREM CountsExact == Spec => []CountsAreExact
<1>1. Init => HeapInv
  BY HeapInit DEF HeapInv
<1>2. HeapInv /\ [Next]_vars => HeapInv'
  <2> SUFFICES ASSUME HeapInv, [Next]_vars, Defined' PROVE HeapOK'
    BY DEF HeapInv
  <2>1. ASSUME NEW t \in Threads, Step(t) \/ Operation(t) PROVE HeapOK'
    <3>1. HeapOK
      BY <2>1 DEF HeapInv, Step, Operation
    <3> QED  BY <2>1, <3>1, StepKeeps, OperationKeeps
  <2>2. CASE UNCHANGED vars
    <3>1. Defined
      BY <2>2 DEF Defined, vars, weak
    <3> QED  BY <2>2, <3>1, HeapUnchanged DEF HeapInv
  <2> QED  BY <2>1, <2>2 DEF Next
<1>3. HeapInv => CountsAreExact
  BY DEF HeapInv, HeapOK, CountsInv, CountIs, CountsAreExact
<1> QED  BY <1>1, <1>2, <1>3, PTL DEF Spec
=============================================================================
