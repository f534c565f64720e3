-------------------------- MODULE HeapReachProofs --------------------------
(***************************************************************************)
(* What is freed is reached by nobody, for any number of threads, objects, *)
(* weak references and calls.                                              *)
(*                                                                         *)
(* An object is mentioned by the counts that threads own, by cells that    *)
(* count, by the keys of the weak list and by the steps still to be done.  *)
(* DeadInv: nothing mentions what is being freed or is freed.  So when the *)
(* last count is released, nothing may mention the object any more; and    *)
(* that is so because counts are exact (HeapProofs): if a release finds a  *)
(* count of one, the release itself is all that is left (Freed).           *)
(*                                                                         *)
(* Retains that are still to be done are the exception: exact counts       *)
(* subtract them, so an object could be freed under one.  Therefore the    *)
(* invariant says what secures them.  A call that only retains leaves more *)
(* references behind than it has retains to do (Covered: Claims against    *)
(* Kept); one that retains between other steps does so for a key that it   *)
(* releases next, or for what it has just stored while it owns a count of  *)
(* it (Secured, StoresHeld).  What a thread keeps, only the thread itself  *)
(* can take away: its own counts, the cells of its own containers that it  *)
(* owns a count of, and the keys of their weak entries (Spared).           *)
(*                                                                         *)
(* An object that was released in excess (skew above 0) would break this;  *)
(* each such object is borrowed (SkewInv).                                 *)
(***************************************************************************)
EXTENDS HeapProofs

USE HeapAssumption

-----------------------------------------------------------------------------
(* An object is mentioned by a count, by a counted cell, by an entry of the *)
(* weak list whose key it is, and by a step that is still to be done.       *)
About(s, v) == IF s.op = "store" THEN s.value = v ELSE s.op \in {"retain", "release"} /\ s.on = v
Mentioned(v) ==
  \/ \E t \in Threads : held[t][v] > 0
  \/ \E c \in Objects : RefsIn(c, v) # {}
  \/ KeyOf(v) # {}
  \/ \E x \in Places : About(At(x), v)

DeadInv == \A v \in Objects \ borrowed : Dead(v) => ~Mentioned(v)
SkewInv == \A v \in Objects : skew[v] > 0 => v \in borrowed
TouchedInv == \A v \in Objects \ borrowed : v \in touched => \E n \in Nodes : node[n].dict = v

(* What a thread may rely on: counts that it owns, counted cells of its own *)
(* containers that it owns a count of, and keys of their weak entries.      *)
RefsBy(t, v) == {x \in References(v) : Owner[x[1]] = t /\ held[t][x[1]] > 0}
KeysBy(t, v) == {n \in KeyOf(v) : Owner[node[n].dict] = t}
Kept(t, v) == ({"count"} \X ({t} \X (1 .. held[t][v]))) \cup ({"cell"} \X RefsBy(t, v)) \cup ({"key"} \X KeysBy(t, v))

(* The retains that a thread has still to make are secured.  A call that    *)
(* only retains leaves more references than retains behind it.              *)
Claims(t, v) == Picked(todo[t], Waiting("retain", v))
Plain(t) == \A i \in DOMAIN todo[t] : todo[t][i].op = "retain"
Enough(t, v) ==
  /\ Cardinality(Claims(t, v)) <= Cardinality(Kept(t, v))
  /\ skew[v] = 0 => Cardinality(Claims(t, v)) < Cardinality(Kept(t, v))
Covered(t) == Plain(t) => \A v \in Objects \ borrowed : Claims(t, v) # {} => Enough(t, v)

(* Of the others one retains a key that it will release next, and one what  *)
(* it will have stored by then.                                             *)
KeyFirst(t, i) ==
  LET v == todo[t][1].on IN
  /\ i = 1 /\ 2 \in DOMAIN todo[t] /\ todo[t][2] = Releasing(v)
  /\ v \notin borrowed => RefsBy(t, v) # {}
Behind(t, i) == i - 1 \in DOMAIN todo[t] /\ todo[t][i - 1].op = "store" /\ todo[t][i - 1].value = todo[t][i].on
Secured(t) == Plain(t) \/ \A i \in DOMAIN todo[t] : todo[t][i].op = "retain" => KeyFirst(t, i) \/ Behind(t, i)

(* A store is the last step but one; a retain of what was stored follows.   *)
StoreHeld(t, i) ==
  LET s == todo[t][i] IN
  /\ i + 1 = Len(todo[t]) /\ todo[t][i + 1] = Retaining(s.value)
  /\ held[t][s.on] > 0 /\ (s.value \notin borrowed => held[t][s.value] > 0)
StoresHeld(t) == \A i \in DOMAIN todo[t] : todo[t][i].op = "store" => StoreHeld(t, i)

ThreadOK(t) == Covered(t) /\ Secured(t) /\ StoresHeld(t)
ReachInv ==
  /\ HeapInv /\ DeadInv /\ SkewInv /\ TouchedInv
  /\ Defined => \A t \in Threads : ThreadOK(t)
-----------------------------------------------------------------------------
(* The cells of a container are numbered from 1. *)
LEMMA CellsNumbered ==
  ASSUME HeapTypeOK, NEW c \in Objects
  PROVE  /\ cells[c] \in Seq(Cell) /\ Len(cells[c]) \in Nat /\ DOMAIN cells[c] = 1 .. Len(cells[c])
         /\ \A i \in DOMAIN cells[c] : i \in Nat /\ i >= 1 /\ i <= Len(cells[c]) /\ cells[c][i] \in Cell
<1>1. cells[c] \in Seq(Cell)
  BY DEF HeapTypeOK
<1> DEFINE s == cells[c]
<1>2. s \in Seq(Cell)
  BY <1>1
<1> HIDE DEF s
<1>3. Len(s) \in Nat /\ DOMAIN s = 1 .. Len(s) /\ \A i \in DOMAIN s : s[i] \in Cell
  BY <1>2, LenProperties, ElementOfSeq
<1>4. \A i \in DOMAIN s : i \in Nat /\ i >= 1 /\ i <= Len(s)
  BY <1>3
<1> QED  BY <1>2, <1>3, <1>4 DEF s

(* So are a thread's steps. *)
LEMMA StepsNumbered ==
  ASSUME HeapTypeOK, NEW t \in Threads
  PROVE  /\ todo[t] \in Seq(Operations) /\ Len(todo[t]) \in Nat /\ DOMAIN todo[t] = 1 .. Len(todo[t])
         /\ \A i \in DOMAIN todo[t] : i \in Nat /\ i >= 1 /\ i <= Len(todo[t]) /\ todo[t][i] \in Operations
         /\ todo[t] # <<>> => 1 \in DOMAIN todo[t] /\ Head(todo[t]) = todo[t][1]
<1>1. todo[t] \in Seq(Operations)
  BY DEF HeapTypeOK
<1> DEFINE s == todo[t]
<1>2. s \in Seq(Operations)
  BY <1>1
<1> HIDE DEF s
<1>3. Len(s) \in Nat /\ DOMAIN s = 1 .. Len(s) /\ \A i \in DOMAIN s : s[i] \in Operations
  BY <1>2, LenProperties, ElementOfSeq
<1>4. \A i \in DOMAIN s : i \in Nat /\ i >= 1 /\ i <= Len(s)
  BY <1>3
<1>5. s # <<>> => 1 \in DOMAIN s /\ Head(s) = s[1]
  BY <1>2, <1>3, EmptySeq, HeadTailProperties
<1> QED  BY <1>2, <1>3, <1>4, <1>5 DEF s

(* After a step an object is mentioned only if its new parts say so. *)
LEMMA MentionMoves ==
  ASSUME HeapTypeOK, NEW t \in Threads, NEW ops \in Seq(Operations), GoesOn(t, ops), NEW v \in Objects, NEW b \in BOOLEAN,
         (\E u \in Threads : held'[u][v] > 0) => Mentioned(v) \/ b,
         \A c \in Objects : RefsIn(c, v)' # {} => Mentioned(v) \/ b,
         KeyOf(v)' # {} => Mentioned(v) \/ b,
         \A j \in DOMAIN ops : About(ops[j], v) => Mentioned(v) \/ b
  PROVE  Mentioned(v)' => Mentioned(v) \/ b
<1> SUFFICES ASSUME NEW x \in Places', About(At(x)', v) PROVE Mentioned(v) \/ b
  BY DEF Mentioned, About
<1>1. \A z \in Places' : \/ z[1] = t /\ \E i \in DOMAIN ops : At(z)' = ops[i]
                         \/ \E y \in Places \ {<<t, 1>>} : y[1] = z[1] /\ At(z)' = At(y)
  BY StepsMove
<1>2. CASE \E i \in DOMAIN ops : At(x)' = ops[i]
  BY <1>2
<1>3. CASE \E y \in Places : At(x)' = At(y)
  BY <1>3 DEF Mentioned
<1> QED  BY <1>1, <1>2, <1>3

(* What other threads keep they keep, if the step spares their containers.  *)
Spared(t, ops, u, v) ==
  /\ \A c \in Objects : \A i \in RefsIn(c, v) : Owner[c] = u /\ held[u][c] > 0 =>
       /\ i \in DOMAIN cells'[c] /\ cells'[c][i] = cells[c][i] /\ mem'[c] \in {"live", "dying"}
       /\ \A j \in DOMAIN ops : ops[j] \notin EmptiesPast(c, i) /\ ops[j] \notin StoresAt(c, i)
  /\ \A n \in KeysBy(u, v) : node'[n] = node[n] /\ \A j \in DOMAIN ops : ops[j] \notin UnlinksOf(n)
  /\ \A c \in Objects : held'[u][c] >= held[u][c]

(* What a thread keeps alive of an object it keeps through a step that      *)
(* spares it.                                                               *)
LEMMA KeptStays ==
  ASSUME HeapTypeOK, held' \in [Threads -> [Objects -> Nat]], NEW t \in Threads, NEW ops \in Seq(Operations), GoesOn(t, ops),
         NEW u \in Threads, NEW v \in Objects, Spared(t, ops, u, v)
  PROVE  RefsBy(u, v) \subseteq RefsBy(u, v)' /\ KeysBy(u, v) \subseteq KeysBy(u, v)' /\ Kept(u, v) \subseteq Kept(u, v)'
<1>0. /\ \A y \in Places' : \/ y[1] = t /\ \E i \in DOMAIN ops : At(y)' = ops[i]
                            \/ \E x \in Places \ {<<t, 1>>} : x[1] = y[1] /\ At(y)' = At(x)
      /\ todo' \in [Threads -> Seq(Operations)]
  BY StepsMove
<1>h. \A y \in Places' : (\E i \in DOMAIN ops : At(y)' = ops[i]) \/ \E x \in Places : At(y)' = At(x)
  BY <1>0
<1>1. \A y \in Places' : At(y)' \in Operations
  BY <1>0 DEF Places, At
<1>2. RefsBy(u, v) \subseteq RefsBy(u, v)'
  <2> SUFFICES ASSUME NEW x \in RefsBy(u, v) PROVE x \in RefsBy(u, v)'
    OBVIOUS
  <2>1. PICK c \in Objects : \E j \in RefsIn(c, v) : x = <<c, j>>
    BY DEF RefsBy, References, RefsIn
  <2>i. PICK i \in RefsIn(c, v) : x = <<c, i>>
    BY <2>1
  <2>2. Owner[c] = u /\ held[u][c] > 0 /\ i \in DOMAIN cells'[c] /\ cells'[c][i] = cells[c][i] /\ mem'[c] \in {"live", "dying"}
        /\ \A j \in DOMAIN ops : ops[j] \notin EmptiesPast(c, i) /\ ops[j] \notin StoresAt(c, i)
    BY <2>i DEF RefsBy, Spared
  <2>3. ~Released(c, i)'
    <3> SUFFICES ASSUME NEW y \in Places', At(y)' \in EmptiesPast(c, i) PROVE FALSE
      BY <1>1 DEF Released, EmptiesPast
    <3>1. ~\E j \in DOMAIN ops : At(y)' = ops[j]
      BY <2>2
    <3>2. PICK z \in Places : At(y)' = At(z)
      BY <1>h, <3>1
    <3> QED  BY <3>2 DEF RefsIn, Counted, Released, EmptiesPast
  <2>4. ~Replaced(c, i)'
    <3> SUFFICES ASSUME NEW y \in Places', At(y)' \in StoresAt(c, i) PROVE FALSE
      BY <1>1 DEF Replaced, StoresAt
    <3>1. ~\E j \in DOMAIN ops : At(y)' = ops[j]
      BY <2>2
    <3>2. PICK z \in Places : At(y)' = At(z)
      BY <1>h, <3>1
    <3> QED  BY <3>2 DEF RefsIn, Counted, Replaced, StoresAt
  <2>5. i \in RefsIn(c, v)'
    BY <2>2, <2>3, <2>4 DEF RefsIn, Counted
  <2>6. held'[u][c] > 0
    <3>1. held'[u][c] \in Nat /\ held[u][c] \in Nat /\ held'[u][c] >= held[u][c]
      BY DEF Spared, HeapTypeOK
    <3> QED  BY <2>2, <3>1
  <2> QED  BY <2>i, <2>2, <2>5, <2>6 DEF RefsBy, References, RefsIn
<1>3. KeysBy(u, v) \subseteq KeysBy(u, v)'
  <2> SUFFICES ASSUME NEW n \in KeysBy(u, v) PROVE n \in KeysBy(u, v)'
    OBVIOUS
  <2>1. n \in Nodes /\ node'[n] = node[n] /\ \A j \in DOMAIN ops : ops[j] \notin UnlinksOf(n)
    BY DEF Spared, KeysBy, KeyOf
  <2>2. ~UnlinkSoon(n)'
    <3> SUFFICES ASSUME NEW y \in Places', At(y)' \in UnlinksOf(n) PROVE FALSE
      BY <1>1 DEF UnlinkSoon, UnlinksOf
    <3>1. ~\E j \in DOMAIN ops : At(y)' = ops[j]
      BY <2>1
    <3>2. PICK z \in Places : At(y)' = At(z)
      BY <1>h, <3>1
    <3> QED  BY <3>2 DEF KeysBy, KeyOf, UnlinkSoon, UnlinksOf
  <2> QED  BY <2>1, <2>2 DEF KeysBy, KeyOf
<1>4. 1 .. held[u][v] \subseteq 1 .. held'[u][v]
  <2>1. held[u][v] \in Nat /\ held'[u][v] \in Nat /\ held'[u][v] >= held[u][v]
    BY DEF HeapTypeOK, Spared
  <2> QED  BY <2>1
<1> QED  BY <1>2, <1>3, <1>4 DEF Kept

(* A finite family of finite sets is finite.                                *)
LEMMA FamilyFinite ==
  ASSUME NEW D, IsFiniteSet(D), NEW F, \A d \in D : IsFiniteSet(F[d])
  PROVE  IsFiniteSet(Family(F, D))
<1>1. CASE D = {}
  <2>1. Family(F, D) = {}
    BY <1>1 DEF Family
  <2> QED  BY <2>1, FS_EmptySet
<1>2. CASE D # {}
  <2>1. PICK c \in D : TRUE
    BY <1>2
  <2>2. Alike(F, F, D, c)
    BY DEF Alike
  <2> QED  BY <2>1, <2>2, OnePart
<1> QED  BY <1>1, <1>2

(* An object is referred to from finitely many cells.                       *)
LEMMA ReferencesFinite ==
  ASSUME HeapTypeOK, NEW v
  PROVE  IsFiniteSet(References(v))
<1> DEFINE F == [c \in Objects |-> RefsIn(c, v)]
<1>1. \A c \in Objects : IsFiniteSet(F[c])
  <2> TAKE c \in Objects
  <2>0. PICK m \in Nat : DOMAIN cells[c] = 1 .. m
    BY CellsNumbered
  <2>1. IsFiniteSet(1 .. m)
    BY FS_Interval
  <2>2. RefsIn(c, v) \subseteq 1 .. m
    BY <2>0 DEF RefsIn
  <2>3. IsFiniteSet(RefsIn(c, v))
    BY <2>1, <2>2, FS_Subset
  <2> QED  BY <2>3
<1>2. References(v) = Family(F, Objects)
  BY DEF References, RefsIn, Family
<1> HIDE DEF F
<1> QED  BY <1>1, <1>2, FamilyFinite DEF HeapAssumption

(* Finitely many counts of an object are owned.                             *)
LEMMA OwnedFinite ==
  ASSUME HeapTypeOK, NEW v \in Objects
  PROVE  IsFiniteSet(Owned(v))
<1> DEFINE F == [t \in Threads |-> 1 .. held[t][v]]
<1>1. \A t \in Threads : IsFiniteSet(F[t])
  <2> TAKE t \in Threads
  <2>1. PICK m \in Nat : m = held[t][v]
    BY DEF HeapTypeOK
  <2>2. IsFiniteSet(1 .. m)
    BY FS_Interval
  <2> QED  BY <2>1, <2>2
<1>2. Owned(v) = Family(F, Threads)
  BY DEF Owned, Family
<1> HIDE DEF F
<1> QED  BY <1>1, <1>2, FamilyFinite DEF HeapAssumption

(* What a thread keeps of an object, and what it claims of it, can be       *)
(* counted.                                                                 *)
LEMMA KeptFinite ==
  ASSUME HeapTypeOK, NEW u \in Threads, NEW v \in Objects
  PROVE  /\ IsFiniteSet(Kept(u, v)) /\ IsFiniteSet(Claims(u, v))
         /\ Cardinality(Kept(u, v)) \in Nat /\ Cardinality(Claims(u, v)) \in Nat
<1>1. IsFiniteSet({"count"} \X ({u} \X (1 .. held[u][v])))
  <2>1. PICK m \in Nat : m = held[u][v]
    BY DEF HeapTypeOK
  <2>2. IsFiniteSet(1 .. m)
    BY FS_Interval
  <2>3. IsFiniteSet({"count"}) /\ IsFiniteSet({u} \X (1 .. m))
    BY <2>2, FS_Singleton, FS_Product
  <2> QED  BY <2>1, <2>2, <2>3, FS_Product
<1>2. IsFiniteSet({"cell"} \X RefsBy(u, v))
  <2>4. IsFiniteSet(References(v))
    BY ReferencesFinite
  <2>5. IsFiniteSet(RefsBy(u, v)) /\ IsFiniteSet({"cell"})
    BY <2>4, FS_Subset, FS_Singleton DEF RefsBy
  <2> QED  BY <2>5, FS_Product
<1>3. IsFiniteSet({"key"} \X KeysBy(u, v))
  <2>1. IsFiniteSet(KeysBy(u, v)) /\ IsFiniteSet({"key"})
    BY FS_Subset, FS_Singleton DEF KeysBy, KeyOf, HeapAssumption
  <2> QED  BY <2>1, FS_Product
<1>4. IsFiniteSet(Kept(u, v))
  BY <1>1, <1>2, <1>3, FS_Union DEF Kept
<1>5. IsFiniteSet(Claims(u, v))
  BY PickedAre DEF Claims, HeapTypeOK
<1> QED  BY <1>4, <1>5, FS_CardinalityType

(* Of two families, the one whose members are no larger is no larger; and   *)
(* smaller, if one of them is.                                              *)
Mixed(F, G, E) == [d \in DOMAIN F |-> IF d \in E THEN G[d] ELSE F[d]]
Over(F, G, D) == \A d \in D : IsFiniteSet(F[d]) /\ IsFiniteSet(G[d]) /\ Cardinality(F[d]) <= Cardinality(G[d])

(* A family has at most as many members as one that is nowhere smaller.     *)
LEMMA FamilyLess ==
  ASSUME NEW D, IsFiniteSet(D), NEW F, DOMAIN F = D, NEW G, DOMAIN G = D, Over(F, G, D)
  PROVE  /\ Cardinality(Family(F, D)) \in Nat /\ Cardinality(Family(G, D)) \in Nat
         /\ Cardinality(Family(F, D)) <= Cardinality(Family(G, D))
<1>1. \A d \in D : /\ IsFiniteSet(F[d]) /\ IsFiniteSet(G[d]) /\ Cardinality(F[d]) <= Cardinality(G[d])
                   /\ Cardinality(F[d]) \in Nat /\ Cardinality(G[d]) \in Nat
  BY FS_CardinalityType DEF Over
<1>2. \A E \in SUBSET D : Cardinality(Family(Mixed(F, G, E), D)) \in Nat
  <2> TAKE E \in SUBSET D
  <2>1. IsFiniteSet(Family(Mixed(F, G, E), D))
    <3>1. \A d \in D : IsFiniteSet(Mixed(F, G, E)[d])
      BY <1>1 DEF Mixed
    <3> QED  BY <3>1, FamilyFinite
  <2> QED  BY <2>1, FS_CardinalityType
<1>3. Family(Mixed(F, G, {}), D) = Family(F, D) /\ Family(Mixed(F, G, D), D) = Family(G, D)
  BY DEF Family, Mixed
<1> DEFINE T == {n \in Nat : \A E \in SUBSET D : Cardinality(E) = n =>
                   Cardinality(Family(F, D)) <= Cardinality(Family(Mixed(F, G, E), D))}
<1>4. 0 \in T
  <2>1. \A E \in SUBSET D : Cardinality(E) = 0 => E = {}
    BY FS_Subset, FS_EmptySet
  <2>2. Cardinality(Family(F, D)) <= Cardinality(Family(F, D))
    BY <1>2, <1>3
  <2> QED  BY <1>3, <2>1, <2>2
<1>5. \A n \in Nat : n \in T => n + 1 \in T
  <2> SUFFICES ASSUME NEW n \in Nat, n \in T, NEW E \in SUBSET D, Cardinality(E) = n + 1
               PROVE  Cardinality(Family(F, D)) <= Cardinality(Family(Mixed(F, G, E), D))
    OBVIOUS
  <2>1. IsFiniteSet(E) /\ E # {}
    BY FS_Subset, FS_EmptySet
  <2>2. PICK c \in E : TRUE
    BY <2>1
  <2>3. Cardinality(E \ {c}) = n /\ E \ {c} \in SUBSET D
    <3>1. Cardinality(E \ {c}) = Cardinality(E) - 1
      BY <2>1, <2>2, FS_RemoveElement
    <3>2. (n + 1) - 1 = n
      OBVIOUS
    <3> QED  BY <3>1, <3>2
  <2>4. Cardinality(Family(F, D)) <= Cardinality(Family(Mixed(F, G, E \ {c}), D))
    BY <2>3
  <2> HIDE DEF T
  <2> DEFINE H == Mixed(F, G, E \ {c})  J == Mixed(F, G, E)
  <2>5. Alike(H, J, D, c) /\ H[c] = F[c] /\ J[c] = G[c] /\ c \in D
    BY <1>1, <2>2 DEF Alike, Mixed
  <2> HIDE DEF H, J
  <2>6. Cardinality(Family(J, D)) + Cardinality(F[c]) = Cardinality(Family(H, D)) + Cardinality(G[c])
    BY <2>5, OnePart
  <2>p. PICK p \in Nat : p = Cardinality(Family(J, D))
    BY <1>2 DEF J
  <2>q. PICK q \in Nat : q = Cardinality(Family(H, D))
    BY <1>2, <2>3 DEF H
  <2>r. PICK r \in Nat : r = Cardinality(Family(F, D))
    BY <1>2, <1>3
  <2>a. PICK a \in Nat, b \in Nat : a = Cardinality(F[c]) /\ b = Cardinality(G[c]) /\ a <= b
    BY <1>1, <2>5
  <2>7. r <= q
    BY <2>4, <2>q, <2>r DEF H
  <2>8. p + a = q + b
    BY <2>6, <2>p, <2>q, <2>a
  <2>9. r <= p
    BY <2>7, <2>8, <2>a
  <2> QED  BY <2>9, <2>p, <2>r DEF J
<1>6. Nat \subseteq T
  <2> HIDE DEF T
  <2> QED  BY <1>4, <1>5, Upwards
<1>7. Cardinality(D) \in T
  BY <1>6, FS_CardinalityType
<1> QED  BY <1>2, <1>3, <1>7

(* It has fewer if the other is larger somewhere.                           *)
LEMMA FamilySmaller ==
  ASSUME NEW D, IsFiniteSet(D), NEW F, DOMAIN F = D, NEW G, DOMAIN G = D, Over(F, G, D),
         NEW c \in D, Cardinality(F[c]) < Cardinality(G[c])
  PROVE  /\ Cardinality(Family(F, D)) \in Nat /\ Cardinality(Family(G, D)) \in Nat
         /\ Cardinality(Family(F, D)) < Cardinality(Family(G, D))
<1> DEFINE H == Mixed(F, G, {c})
<1>1. \A d \in D : /\ IsFiniteSet(F[d]) /\ IsFiniteSet(G[d]) /\ Cardinality(F[d]) <= Cardinality(G[d])
                   /\ Cardinality(F[d]) \in Nat /\ Cardinality(G[d]) \in Nat
  BY FS_CardinalityType DEF Over
<1>2. DOMAIN H = D /\ Over(H, G, D) /\ Alike(F, H, D, c) /\ H[c] = G[c]
  <2>1. \A d \in D : Cardinality(G[d]) <= Cardinality(G[d])
    BY <1>1
  <2> QED  BY <1>1, <2>1 DEF Over, Alike, Mixed
<1> HIDE DEF H
<1>3. /\ Cardinality(Family(H, D)) \in Nat /\ Cardinality(Family(G, D)) \in Nat
      /\ Cardinality(Family(H, D)) <= Cardinality(Family(G, D))
  BY <1>2, FamilyLess
<1>4. /\ Cardinality(Family(F, D)) \in Nat
      /\ Cardinality(Family(H, D)) + Cardinality(F[c]) = Cardinality(Family(F, D)) + Cardinality(G[c])
  BY <1>2, OnePart
<1>p. PICK p \in Nat, q \in Nat, r \in Nat :
        p = Cardinality(Family(F, D)) /\ q = Cardinality(Family(H, D)) /\ r = Cardinality(Family(G, D))
  BY <1>3, <1>4
<1>a. PICK a \in Nat, b \in Nat : a = Cardinality(F[c]) /\ b = Cardinality(G[c]) /\ a < b
  BY <1>1
<1>5. q <= r /\ q + a = p + b
  BY <1>3, <1>4, <1>p, <1>a
<1>6. p < r
  BY <1>5, <1>a
<1> QED  BY <1>6, <1>p

(* Two or three members are so many. *)
LEMMA TwoWithin ==
  ASSUME NEW S, IsFiniteSet(S), NEW a \in S, NEW b \in S, a # b
  PROVE  Cardinality(S) \in Nat /\ Cardinality(S) >= 2
<1>1. IsFiniteSet(S \ {a}) /\ Cardinality(S \ {a}) = Cardinality(S) - 1 /\ b \in S \ {a}
  BY FS_RemoveElement
<1>2. Cardinality(S \ {a}) # 0 /\ Cardinality(S \ {a}) \in Nat /\ Cardinality(S) \in Nat
  BY <1>1, FS_EmptySet, FS_CardinalityType
<1> QED  BY <1>1, <1>2

(* Three different members make at least three.                             *)
LEMMA ThreeWithin ==
  ASSUME NEW S, IsFiniteSet(S), NEW a \in S, NEW b \in S, NEW c \in S, a # b, b # c, a # c
  PROVE  Cardinality(S) \in Nat /\ Cardinality(S) >= 3
<1>1. IsFiniteSet(S \ {a}) /\ Cardinality(S \ {a}) = Cardinality(S) - 1 /\ b \in S \ {a} /\ c \in S \ {a}
  BY FS_RemoveElement
<1>2. Cardinality(S \ {a}) >= 2 /\ Cardinality(S \ {a}) \in Nat
  BY <1>1, TwoWithin
<1>3. Cardinality(S) \in Nat
  BY FS_CardinalityType
<1> QED  BY <1>1, <1>2, <1>3

(* All that a thread's retains of v may rely on, but for one step. *)
ReleasesOf(u, v, x) == {y \in Remaining("release", v) \ {x} : y[1] = u}
StoresOf(u, v) == {y \in Arriving(v) : y[1] = u}
Backing(u, v, x) ==
  Kept(u, v) \cup ({"release"} \X ReleasesOf(u, v, x)) \cup ({"store"} \X StoresOf(u, v))

(* What backs a thread's claims can be counted, and is no less than it      *)
(* keeps.                                                                   *)
LEMMA BackingFinite ==
  ASSUME HeapTypeOK, NEW u \in Threads, NEW v \in Objects, NEW x
  PROVE  /\ IsFiniteSet(Backing(u, v, x)) /\ Cardinality(Backing(u, v, x)) \in Nat
         /\ Cardinality(Kept(u, v)) <= Cardinality(Backing(u, v, x))
<1>1. IsFiniteSet(Remaining("release", v)) /\ IsFiniteSet(Arriving(v))
  BY Marks DEF HeapTypeOK
<1>2. IsFiniteSet(ReleasesOf(u, v, x)) /\ IsFiniteSet(StoresOf(u, v))
  BY <1>1, FS_Subset DEF ReleasesOf, StoresOf
<1>3. IsFiniteSet({"release"} \X ReleasesOf(u, v, x)) /\ IsFiniteSet({"store"} \X StoresOf(u, v))
  BY <1>2, FS_Singleton, FS_Product
<1>4. IsFiniteSet(Kept(u, v))
  BY KeptFinite
<1>5. IsFiniteSet(Backing(u, v, x))
  BY <1>3, <1>4, FS_Union DEF Backing
<1>6. Kept(u, v) \subseteq Backing(u, v, x)
  BY DEF Backing
<1> QED  BY <1>5, <1>6, FS_Subset, FS_CardinalityType

(* A thread that does more than retain has more to rely on than it retains. *)
LEMMA SecuredBacked ==
  ASSUME HeapTypeOK, NEW u \in Threads, NEW v \in Objects \ borrowed, ~Plain(u), Secured(u), StoresHeld(u),
         NEW x, Claims(u, v) # {}, 2 \in DOMAIN todo[u] /\ todo[u][1].op = "retain" => x # <<u, 2>>
  PROVE  Cardinality(Claims(u, v)) < Cardinality(Backing(u, v, x))
<1> DEFINE G == Backing(u, v, x)  C == Claims(u, v)
<1>0. /\ IsFiniteSet(G) /\ Cardinality(G) \in Nat /\ IsFiniteSet(C) /\ Cardinality(C) \in Nat
  BY BackingFinite, KeptFinite
<1>1. \A i \in C : i \in DOMAIN todo[u] /\ todo[u][i].op = "retain" /\ todo[u][i].on = v
  BY DEF Claims, Picked, Waiting
<1>n. PICK m \in Nat : m = Len(todo[u]) /\ DOMAIN todo[u] = 1 .. m
  BY StepsNumbered
<1>o. \A i \in DOMAIN todo[u] : todo[u][i] \in Operations
  BY StepsNumbered
<1>2. \A i \in C : (i = 1 /\ KeyFirst(u, 1)) \/ (i = m /\ Behind(u, m))
  <2> TAKE i \in C
  <2>1. KeyFirst(u, i) \/ Behind(u, i)
    BY <1>1 DEF Secured
  <2>2. CASE KeyFirst(u, i)
    BY <2>2 DEF KeyFirst
  <2>3. CASE Behind(u, i)
    <3>1. i - 1 \in DOMAIN todo[u] /\ StoreHeld(u, i - 1) /\ i \in 1 .. m
      BY <1>1, <1>n, <2>3 DEF Behind, StoresHeld
    <3>2. (i - 1) + 1 = m
      BY <1>n, <3>1 DEF StoreHeld
    <3>3. i = m
      BY <3>1, <3>2
    <3> QED  BY <2>3, <3>3
  <2> QED  BY <2>1, <2>2, <2>3
<1>3. ASSUME 1 \in C, KeyFirst(u, 1)
      PROVE \E a, b \in G : a # b /\ a[1] = "release" /\ b[1] = "cell"
  <2>1. 2 \in DOMAIN todo[u] /\ todo[u][2] = Releasing(v) /\ RefsBy(u, v) # {} /\ x # <<u, 2>>
    BY <1>1, <1>3 DEF KeyFirst
  <2>2. <<u, 2>> \in ReleasesOf(u, v, x)
    BY <2>1 DEF ReleasesOf, Remaining, Places, At, Releasing
  <2>3. PICK r \in RefsBy(u, v) : TRUE
    BY <2>1
  <2>4. <<"release", <<u, 2>>>> \in G /\ <<"cell", r>> \in G
    BY <2>2, <2>3 DEF Backing, Kept
  <2> HIDE DEF G
  <2>5. <<"release", <<u, 2>>>>[1] = "release" /\ <<"cell", r>>[1] = "cell" /\ "release" # "cell"
    OBVIOUS
  <2> QED  BY <2>4, <2>5
<1>4. ASSUME m \in C, Behind(u, m)
      PROVE \E a, b \in G : a # b /\ a[1] = "store" /\ b[1] = "count"
  <2>1. /\ m - 1 \in DOMAIN todo[u] /\ todo[u][m - 1].op = "store" /\ todo[u][m - 1].value = v /\ held[u][v] > 0
    <3>1. m - 1 \in DOMAIN todo[u] /\ StoreHeld(u, m - 1) /\ todo[u][m - 1].value = v /\ todo[u][m - 1].op = "store"
      BY <1>1, <1>4 DEF Behind, StoresHeld
    <3> QED  BY <3>1 DEF StoreHeld
  <2>2. <<u, m - 1>> \in StoresOf(u, v)
    BY <2>1 DEF StoresOf, Arriving, Places, At
  <2>3. <<u, 1>> \in {u} \X (1 .. held[u][v])
    BY <2>1 DEF HeapTypeOK
  <2>4. <<"store", <<u, m - 1>>>> \in G /\ <<"count", <<u, 1>>>> \in G
    BY <2>2, <2>3 DEF Backing, Kept
  <2> HIDE DEF G
  <2>5. <<"store", <<u, m - 1>>>>[1] = "store" /\ <<"count", <<u, 1>>>>[1] = "count" /\ "store" # "count"
    OBVIOUS
  <2> QED  BY <2>4, <2>5
<1> HIDE DEF G, C
<1>5. CASE \E i \in C : C = {i}
  <2>1. Cardinality(C) = 1
    BY <1>5, FS_Singleton
  <2>2. \E a, b \in G : a # b
    BY <1>2, <1>3, <1>4, <1>5
  <2>3. Cardinality(G) >= 2
    BY <1>0, <2>2, TwoWithin
  <2> QED  BY <1>0, <2>1, <2>3 DEF C, G
<1>6. CASE ~\E i \in C : C = {i}
  <2>1. 1 \in C /\ m \in C /\ 1 # m /\ C = {1, m} /\ KeyFirst(u, 1) /\ Behind(u, m)
    BY <1>2, <1>6 DEF C
  <2>2. Cardinality(C) <= 2
    <3>1. IsFiniteSet({1}) /\ Cardinality({1}) = 1
      BY FS_Singleton
    <3>2. Cardinality({1} \cup {m}) = IF m \in {1} THEN Cardinality({1}) ELSE Cardinality({1}) + 1
      BY <3>1, FS_AddElement
    <3>3. C = {1} \cup {m}
      BY <2>1
    <3>4. Cardinality({1} \cup {m}) = 1 \/ Cardinality({1} \cup {m}) = 1 + 1
      BY <3>1, <3>2
    <3>5. Cardinality(C) = Cardinality({1} \cup {m})
      BY ONLY <3>3
    <3> PICK k : k = Cardinality({1} \cup {m})
      OBVIOUS
    <3>6. k <= 2
      BY ONLY <3>4, k = Cardinality({1} \cup {m})
    <3> QED  BY ONLY <3>5, <3>6, k = Cardinality({1} \cup {m})
  <2>3. PICK a \in G, b \in G : a # b /\ a[1] = "release" /\ b[1] = "cell"
    BY <1>3, <2>1
  <2>4. PICK c \in G : c[1] = "store"
    BY <1>4, <2>1
  <2>5. Cardinality(G) >= 3
    <3>1. a # c /\ b # c
      BY <2>3, <2>4
    <3> QED  BY <1>0, <2>3, <2>4, <3>1, ThreeWithin
  <2> QED  BY <1>0, <2>2, <2>5 DEF C, G
<1> QED  BY <1>5, <1>6

(* What the threads may rely on in all is no more than there is, but for    *)
(* one step.                                                                *)
Everything(v, x) ==
  ({"count"} \X Owned(v)) \cup ({"cell"} \X References(v)) \cup ({"key"} \X KeyOf(v))
    \cup ({"release"} \X (Remaining("release", v) \ {x})) \cup ({"store"} \X Arriving(v))

(* Marking the members of a set keeps their number, and marked sets add up. *)
LEMMA Tagged ==
  ASSUME NEW S, IsFiniteSet(S), NEW T, IsFiniteSet(T), NEW tag, S \cap ({tag} \X T) = {}
  PROVE  IsFiniteSet(S \cup ({tag} \X T)) /\ Cardinality(S \cup ({tag} \X T)) = Cardinality(S) + Cardinality(T)
<1>1. IsFiniteSet({tag} \X T) /\ Cardinality({tag} \X T) = Cardinality({tag}) * Cardinality(T) /\ Cardinality({tag}) = 1
  BY FS_Singleton, FS_Product
<1>3. Cardinality(S \cap ({tag} \X T)) = 0
  BY FS_EmptySet
<1>4. /\ IsFiniteSet(S \cup ({tag} \X T))
      /\ Cardinality(S \cup ({tag} \X T)) = Cardinality(S) + Cardinality({tag} \X T) - Cardinality(S \cap ({tag} \X T))
  BY <1>1, FS_Union
<1>5. Cardinality({tag} \X T) = Cardinality(T)
  <2>1. Cardinality(T) \in Nat
    BY FS_CardinalityType
  <2> QED  BY <1>1, <2>1
<1>6. Cardinality(S) \in Nat /\ Cardinality(T) \in Nat
  BY FS_CardinalityType
<1>7. Cardinality(S \cup ({tag} \X T)) = Cardinality(S) + Cardinality(T) - 0
  BY <1>3, <1>4, <1>5
<1> QED  BY <1>4, <1>6, <1>7

(* All that an object is counted for but the release x is what exact counts *)
(* add up.                                                                  *)
LEMMA EverythingIs ==
  ASSUME HeapTypeOK, NEW v \in Objects, NEW x \in Remaining("release", v)
  PROVE  /\ IsFiniteSet(Everything(v, x))
         /\ Cardinality(Everything(v, x))
              = Cardinality(Owned(v)) + Cardinality(References(v)) + Cardinality(KeyOf(v))
                  + (Cardinality(Remaining("release", v)) - 1) + Cardinality(Arriving(v))
<1>0. /\ IsFiniteSet(Owned(v)) /\ IsFiniteSet(References(v)) /\ IsFiniteSet(KeyOf(v))
      /\ IsFiniteSet(Remaining("release", v)) /\ IsFiniteSet(Arriving(v))
  <2>1. IsFiniteSet(Remaining("release", v)) /\ IsFiniteSet(Arriving(v))
    BY Marks DEF HeapTypeOK
  <2>2. IsFiniteSet(KeyOf(v))
    BY KeysCounted
  <2> QED  BY <2>1, <2>2, OwnedFinite, ReferencesFinite
<1> PICK R : R = Remaining("release", v)
  OBVIOUS
<1>1. /\ IsFiniteSet(R \ {x})
      /\ Cardinality(R \ {x}) = Cardinality(R) - 1
  BY <1>0, FS_RemoveElement
<1> PICK A : A = {"count"} \X Owned(v)
  OBVIOUS
<1> PICK B : B = A \cup ({"cell"} \X References(v))
  OBVIOUS
<1> PICK C : C = B \cup ({"key"} \X KeyOf(v))
  OBVIOUS
<1> PICK D : D = C \cup ({"release"} \X (R \ {x}))
  OBVIOUS
<1> PICK E : E = D \cup ({"store"} \X Arriving(v))
  OBVIOUS
<1>2. IsFiniteSet(A) /\ Cardinality(A) = Cardinality(Owned(v))
  <2>1. IsFiniteSet({}) /\ Cardinality({}) = 0 /\ {} \cap ({"count"} \X Owned(v)) = {}
    BY FS_EmptySet
  <2>2. IsFiniteSet({} \cup A) /\ Cardinality({} \cup A) = Cardinality({}) + Cardinality(Owned(v))
    <3>1. IsFiniteSet({} \cup ({"count"} \X Owned(v)))
          /\ Cardinality({} \cup ({"count"} \X Owned(v))) = Cardinality({}) + Cardinality(Owned(v))
      BY <1>0, <2>1, Tagged
    <3> QED  BY <3>1
  <2>3. {} \cup A = A /\ Cardinality(Owned(v)) \in Nat
    BY <1>0, FS_CardinalityType
  <2> QED  BY <2>1, <2>2, <2>3
<1>3. IsFiniteSet(B) /\ Cardinality(B) = Cardinality(A) + Cardinality(References(v))
  <2>1. A \cap ({"cell"} \X References(v)) = {}
    OBVIOUS
  <2>2. IsFiniteSet(A \cup ({"cell"} \X References(v))) /\ Cardinality(A \cup ({"cell"} \X References(v))) = Cardinality(A) + Cardinality(References(v))
    BY ONLY <1>0, <1>2, <2>1, Tagged
  <2> QED  BY <2>2
<1>4. IsFiniteSet(C) /\ Cardinality(C) = Cardinality(B) + Cardinality(KeyOf(v))
  <2>1. B \cap ({"key"} \X KeyOf(v)) = {}
    OBVIOUS
  <2>2. IsFiniteSet(B \cup ({"key"} \X KeyOf(v))) /\ Cardinality(B \cup ({"key"} \X KeyOf(v))) = Cardinality(B) + Cardinality(KeyOf(v))
    BY ONLY <1>0, <1>3, <2>1, Tagged
  <2> QED  BY <2>2
<1>5. IsFiniteSet(D) /\ Cardinality(D) = Cardinality(C) + Cardinality(R \ {x})
  <2>1. C \cap ({"release"} \X (R \ {x})) = {}
    OBVIOUS
  <2>2. IsFiniteSet(C \cup ({"release"} \X (R \ {x}))) /\ Cardinality(C \cup ({"release"} \X (R \ {x}))) = Cardinality(C) + Cardinality(R \ {x})
    BY ONLY <1>0, <1>1, <1>4, <2>1, Tagged
  <2> QED  BY <2>2
<1>6. IsFiniteSet(E) /\ Cardinality(E) = Cardinality(D) + Cardinality(Arriving(v))
  <2>1. D \cap ({"store"} \X Arriving(v)) = {}
    OBVIOUS
  <2>2. IsFiniteSet(D \cup ({"store"} \X Arriving(v))) /\ Cardinality(D \cup ({"store"} \X Arriving(v))) = Cardinality(D) + Cardinality(Arriving(v))
    BY ONLY <1>0, <1>5, <2>1, Tagged
  <2> QED  BY <2>2
<1>7. E = Everything(v, x)
  BY DEF Everything
<1>8. /\ Cardinality(Owned(v)) \in Nat /\ Cardinality(References(v)) \in Nat /\ Cardinality(KeyOf(v)) \in Nat
      /\ Cardinality(R) \in Nat /\ Cardinality(Arriving(v)) \in Nat
  BY <1>0, FS_CardinalityType
<1>9. Cardinality(E) = Cardinality(Owned(v)) + Cardinality(References(v)) + Cardinality(KeyOf(v))
                         + (Cardinality(R) - 1) + Cardinality(Arriving(v))
  BY <1>1, <1>2, <1>3, <1>4, <1>5, <1>6
<1> QED  BY <1>6, <1>7, <1>9

(* What backs one thread backs no other. *)
Backed(w) == IF w[1] = "cell" THEN Owner[w[2][1]] ELSE IF w[1] = "key" THEN Owner[node[w[2]].dict] ELSE w[2][1]

(* What backs the claims of one thread backs those of no other.             *)
LEMMA BackedByOne ==
  ASSUME HeapTypeOK, NEW v \in Objects, NEW x
  PROVE  \A u \in Threads : \A w \in Backing(u, v, x) : Backed(w) = u /\ w \in Everything(v, x)
<1> TAKE u \in Threads
<1> TAKE w \in Backing(u, v, x)
<1>1. CASE w \in {"count"} \X ({u} \X (1 .. held[u][v]))
  BY <1>1 DEF Backed, Everything, Owned
<1>2. CASE w \in {"cell"} \X RefsBy(u, v)
  BY <1>2 DEF Backed, Everything, RefsBy
<1>3. CASE w \in {"key"} \X KeysBy(u, v)
  BY <1>3 DEF Backed, Everything, KeysBy
<1>4. CASE w \in {"release"} \X ReleasesOf(u, v, x)
  BY <1>4 DEF Backed, Everything, ReleasesOf
<1>5. CASE w \in {"store"} \X StoresOf(u, v)
  BY <1>5 DEF Backed, Everything, StoresOf
<1> QED  BY <1>1, <1>2, <1>3, <1>4, <1>5 DEF Backing, Kept

(* So all that backs the threads is no more than there is. *)
LEMMA BackingWithin ==
  ASSUME HeapTypeOK, NEW v \in Objects, NEW x \in Remaining("release", v),
         NEW G, DOMAIN G = Threads, \A u \in Threads : G[u] = Backing(u, v, x)
  PROVE  Cardinality(Family(G, Threads)) <= Cardinality(Everything(v, x))
<1> DEFINE S == Family(G, Threads)  T == Everything(v, x)  f == [y \in S |-> y[2]]
<1>1. \A y \in S : y = <<y[1], y[2]>> /\ y[1] \in Threads /\ y[2] \in Backing(y[1], v, x)
  BY DEF Family
<1>2. \A y \in S : y[2] \in T /\ Backed(y[2]) = y[1]
  BY <1>1, BackedByOne
<1> HIDE DEF S, T
<1>3. f \in [S -> T]
  BY <1>2
<1>4. \A y, z \in S : f[y] = f[z] => y = z
  BY <1>1, <1>2
<1>5. f \in Injection(S, T)
  BY <1>3, <1>4 DEF Injection, IsInjective
<1>6. IsFiniteSet(T)
  BY EverythingIs DEF T
<1> HIDE DEF f
<1> QED  BY <1>5, <1>6, FS_Injection DEF S, T

(* The last count of an object that nobody uses without one: nobody has it  *)
(* in hand or in a container, and nobody has yet to retain it.              *)
LEMMA Freed ==
  ASSUME HeapOK, SkewInv, \A u \in Threads : ThreadOK(u), NEW t \in Threads, todo[t] # <<>>,
         NEW v \in Objects \ borrowed, Head(todo[t]) = Releasing(v), mem[v] = "live", rc[v] = 1
  PROVE  /\ Owned(v) = {} /\ References(v) = {} /\ KeyOf(v) = {} /\ Arriving(v) = {}
         /\ Remaining("retain", v) = {} /\ Remaining("release", v) = {<<t, 1>>}
<1>h. HeapTypeOK /\ v \in Objects
  BY DEF HeapOK
<1> PICK x : x = <<t, 1>>
  OBVIOUS
<1>1. x \in Remaining("release", v)
  BY <1>h, FirstStep DEF Remaining, Releasing
<1>2. CountIs(v)
  <2>1. rc[v] < Immortal
    BY DEF HeapAssumption
  <2> QED  BY <2>1 DEF HeapOK, CountsInv
<1>3. PICK o \in Nat, r \in Nat, k \in Nat, l \in Nat, a \in Nat, w \in Nat :
        /\ o = Cardinality(Owned(v)) /\ r = Cardinality(References(v)) /\ k = Cardinality(KeyOf(v))
        /\ l = Cardinality(Remaining("release", v)) /\ a = Cardinality(Arriving(v))
        /\ w = Cardinality(Remaining("retain", v))
  BY <1>h, SizesAre
<1>4. PICK s \in Int : s = skew[v] /\ s <= 0
  BY <1>h DEF SkewInv, HeapTypeOK
<1>5. 1 = o + r + k + l + a - w - s
  BY <1>2, <1>3, <1>4 DEF CountIs
<1>6. IsFiniteSet(Owned(v)) /\ IsFiniteSet(References(v)) /\ IsFiniteSet(KeyOf(v))
      /\ IsFiniteSet(Remaining("release", v)) /\ IsFiniteSet(Arriving(v)) /\ IsFiniteSet(Remaining("retain", v))
  <2>1. IsFiniteSet(Remaining("release", v)) /\ IsFiniteSet(Arriving(v)) /\ IsFiniteSet(Remaining("retain", v))
    BY <1>h, Marks DEF HeapTypeOK
  <2>2. IsFiniteSet(KeyOf(v))
    BY KeysCounted
  <2> QED  BY <1>h, <2>1, <2>2, OwnedFinite, ReferencesFinite
<1>7. PICK e \in Nat : e = Cardinality(Everything(v, x)) /\ e = o + r + k + (l - 1) + a
  <2>1. /\ IsFiniteSet(Everything(v, x))
        /\ Cardinality(Everything(v, x))
              = Cardinality(Owned(v)) + Cardinality(References(v)) + Cardinality(KeyOf(v))
                  + (Cardinality(Remaining("release", v)) - 1) + Cardinality(Arriving(v))
    BY <1>h, <1>1, EverythingIs
  <2> QED  BY <1>3, <2>1, FS_CardinalityType
<1>8. e = w + s
  BY <1>5, <1>7
<1>9. l >= 1
  BY <1>1, <1>3, <1>6, FS_EmptySet
<1>10. CASE w = 0
  <2>1. o = 0 /\ r = 0 /\ k = 0 /\ a = 0 /\ l = 1
    BY <1>10, <1>4, <1>7, <1>8, <1>9
  <2>2. /\ Owned(v) = {} /\ References(v) = {} /\ KeyOf(v) = {} /\ Arriving(v) = {} /\ Remaining("retain", v) = {}
    BY <1>10, <1>3, <1>6, <2>1, FS_EmptySet
  <2>3. PICK y : Remaining("release", v) = {y}
    BY <1>3, <1>6, <2>1, FS_Singleton
  <2>4. Remaining("release", v) = {x}
    BY <1>1, <2>3
  <2> QED  BY <2>2, <2>4
<1>11. CASE w # 0
  <2> DEFINE F == [u \in Threads |-> Claims(u, v)]  G == [u \in Threads |-> Backing(u, v, x)]
  <2>1. Remaining("retain", v) = Family(F, Threads)
    <3>0. \A u \in Threads : \A i \in DOMAIN todo[u] : todo[u][i] \in Operations
      BY <1>h, StepsNumbered
    <3>1. \A y \in Remaining("retain", v) : y \in Family(F, Threads)
      <4> TAKE y \in Remaining("retain", v)
      <4>1. y = <<y[1], y[2]>> /\ y[1] \in Threads /\ y[2] \in DOMAIN todo[y[1]] /\ todo[y[1]][y[2]].op = "retain" /\ todo[y[1]][y[2]].on = v
        BY DEF Remaining, Places, At
      <4>2. y[2] \in F[y[1]]
        BY <3>0, <4>1 DEF Claims, Picked, Waiting
      <4> QED  BY <4>1, <4>2 DEF Family
    <3>2. \A y \in Family(F, Threads) : y \in Remaining("retain", v)
      BY DEF Family, Remaining, Places, At, Claims, Picked, Waiting
    <3> QED  BY <3>1, <3>2
  <2>2. DOMAIN F = Threads /\ DOMAIN G = Threads /\ \A u \in Threads : F[u] = Claims(u, v) /\ G[u] = Backing(u, v, x)
    OBVIOUS
  <2> HIDE DEF F, G
  <2>3. \A u \in Threads : \A i \in DOMAIN todo[u] : 2 \in DOMAIN todo[u] /\ todo[u][1].op = "retain" => x # <<u, 2>>
    OBVIOUS
  <2>4. \A u \in Threads :
          /\ IsFiniteSet(F[u]) /\ IsFiniteSet(G[u]) /\ Cardinality(F[u]) \in Nat /\ Cardinality(G[u]) \in Nat
          /\ Cardinality(F[u]) <= Cardinality(G[u])
          /\ s = 0 /\ F[u] # {} => Cardinality(F[u]) < Cardinality(G[u])
    <3> TAKE u \in Threads
    <3>1. /\ IsFiniteSet(F[u]) /\ IsFiniteSet(G[u]) /\ Cardinality(F[u]) \in Nat /\ Cardinality(G[u]) \in Nat
      BY <1>h, <2>2, KeptFinite, BackingFinite
    <3>2. CASE F[u] = {}
      BY <3>1, <3>2, FS_EmptySet
    <3>3. CASE F[u] # {} /\ Plain(u)
      <4>1. Enough(u, v)
        BY <2>2, <3>3 DEF ThreadOK, Covered
      <4>2. Cardinality(Kept(u, v)) \in Nat /\ Cardinality(Kept(u, v)) <= Cardinality(G[u])
        BY <1>h, <2>2, KeptFinite, BackingFinite
      <4>3. /\ Cardinality(F[u]) <= Cardinality(Kept(u, v))
            /\ s = 0 => Cardinality(F[u]) < Cardinality(Kept(u, v))
        BY <1>4, <2>2, <4>1 DEF Enough
      <4> QED  BY <3>1, <4>2, <4>3
    <3>4. CASE F[u] # {} /\ ~Plain(u)
      <4>1. Secured(u) /\ StoresHeld(u)
        BY DEF ThreadOK
      <4>2. Cardinality(Claims(u, v)) < Cardinality(Backing(u, v, x))
        BY <1>h, <2>2, <2>3, <3>4, <4>1, SecuredBacked
      <4> QED  BY <2>2, <3>1, <4>2
    <3> QED  BY <3>2, <3>3, <3>4
  <2>5. Over(F, G, Threads)
    BY <2>4 DEF Over
  <2>6. Cardinality(Family(G, Threads)) <= e
    BY <1>h, <1>1, <1>7, <2>2, BackingWithin
  <2>7. /\ Cardinality(Family(F, Threads)) = w /\ Cardinality(Family(G, Threads)) \in Nat
        /\ Cardinality(Family(F, Threads)) <= Cardinality(Family(G, Threads))
    BY <1>3, <2>1, <2>2, <2>5, FamilyLess DEF HeapAssumption
  <2>8. CASE s # 0
    BY <1>4, <1>8, <2>6, <2>7, <2>8
  <2>9. CASE s = 0
    <3>1. PICK y : y \in Remaining("retain", v)
      BY <1>3, <1>11, <1>6, FS_EmptySet
    <3>2. PICK u \in Threads : F[u] # {}
      BY <2>1, <3>1 DEF Family
    <3>3. Cardinality(F[u]) < Cardinality(G[u])
      BY <2>4, <2>9, <3>2
    <3>4. Cardinality(Family(F, Threads)) < Cardinality(Family(G, Threads))
      BY <2>2, <2>5, <3>3, FamilySmaller DEF HeapAssumption
    <3> QED  BY <1>3, <1>8, <2>6, <2>7, <2>9, <3>4
  <2> QED  BY <2>8, <2>9
<1> QED  BY <1>10, <1>11

(* What is mentioned is live, if nobody uses it without a count. *)
LEMMA MentionedIsLive ==
  ASSUME HeapTypeOK, BornInv, DeadInv, NEW v \in Objects \ borrowed, Mentioned(v)
  PROVE  mem[v] = "live"
<1>1. v \in Born
  <2>1. v # Null
    BY DEF HeapAssumption
  <2>2. CASE \E t \in Threads : held[t][v] > 0
    BY <2>2 DEF BornInv
  <2>3. CASE \E c \in Objects : RefsIn(c, v) # {}
    <3>1. PICK c \in Objects : \E i \in DOMAIN cells[c] : cells[c][i].to = v
      BY <2>3 DEF RefsIn
    <3>2. PICK i \in DOMAIN cells[c] : cells[c][i].to = v
      BY <3>1
    <3> QED  BY <2>1, <3>2 DEF BornInv
  <2>4. CASE KeyOf(v) # {}
    BY <2>1, <2>4 DEF KeyOf, BornInv
  <2>5. CASE \E x \in Places : About(At(x), v)
    BY <2>1, <2>5 DEF About, BornInv
  <2> QED  BY <2>2, <2>3, <2>4, <2>5 DEF Mentioned
<1> QED  BY <1>1 DEF Born, DeadInv, Dead

(* What a step may do to the objects that nobody uses without a count. *)
Harmless ==
  /\ borrowed \subseteq borrowed'
  /\ \A v \in Objects \ borrowed' :
       /\ skew'[v] \in Int /\ skew'[v] <= skew[v]
       /\ Mentioned(v)' => Mentioned(v) \/ mem'[v] = "live"
       /\ Dead(v)' => Dead(v) \/ ~Mentioned(v)'
       /\ v \in touched' => \E n \in Nodes : node'[n].dict = v

(* A harmless step mentions nothing that is dead, lets nothing new be over- *)
(* counted and leaves the touched what they are.                            *)
LEMMA HarmlessKeeps ==
  ASSUME HeapTypeOK, DeadInv, SkewInv, Harmless, skew' \in [Objects -> Int]
  PROVE  DeadInv' /\ SkewInv' /\ TouchedInv'
<1>1. DeadInv'
  BY DEF Harmless, DeadInv, Dead
<1>2. SkewInv'
  <2> SUFFICES ASSUME NEW v \in Objects \ borrowed', skew'[v] > 0 PROVE FALSE
    BY DEF SkewInv
  <2>1. skew[v] \in Int /\ skew'[v] \in Int /\ skew'[v] <= skew[v]
    BY DEF Harmless, HeapTypeOK
  <2>2. skew[v] > 0
    BY <2>1
  <2> QED  BY <2>2 DEF SkewInv, Harmless
<1> QED  BY <1>1, <1>2 DEF TouchedInv, Harmless

(* The same of the next state: what a thread keeps is finite. *)
LEMMA KeptFiniteAfter ==
  HeapTypeOK' => \A u \in Threads, v \in Objects :
    IsFiniteSet(Kept(u, v)') /\ Cardinality(Kept(u, v)') \in Nat /\ Cardinality(Claims(u, v)') \in Nat
<1>1. HeapTypeOK => \A u \in Threads, v \in Objects :
        IsFiniteSet(Kept(u, v)) /\ Cardinality(Kept(u, v)) \in Nat /\ Cardinality(Claims(u, v)) \in Nat
  BY KeptFinite
<1>2. (HeapTypeOK => \A u \in Threads, v \in Objects :
        IsFiniteSet(Kept(u, v)) /\ Cardinality(Kept(u, v)) \in Nat /\ Cardinality(Claims(u, v)) \in Nat)'
  BY <1>1, PTL
<1> QED  BY <1>2

(* What was enough is enough, if no more is claimed and no less is kept. *)
LEMMA EnoughStays ==
  ASSUME HeapTypeOK, HeapTypeOK', SkewInv, Harmless, NEW u \in Threads, NEW v \in Objects \ borrowed',
         Enough(u, v), Kept(u, v) \subseteq Kept(u, v)', Cardinality(Claims(u, v)') <= Cardinality(Claims(u, v))
  PROVE  Enough(u, v)'
<1>1. PICK k \in Nat, l \in Nat, c \in Nat, d \in Nat :
        /\ k = Cardinality(Kept(u, v)) /\ l = Cardinality(Kept(u, v)') /\ k <= l
        /\ c = Cardinality(Claims(u, v)) /\ d = Cardinality(Claims(u, v)') /\ d <= c
  <2>1. IsFiniteSet(Kept(u, v)') /\ Cardinality(Kept(u, v)') \in Nat /\ Cardinality(Claims(u, v)') \in Nat
    BY KeptFiniteAfter
  <2>2. Cardinality(Kept(u, v)) \in Nat /\ Cardinality(Claims(u, v)) \in Nat
    BY KeptFinite
  <2>3. Cardinality(Kept(u, v)) <= Cardinality(Kept(u, v)')
    BY <2>1, FS_Subset
  <2> QED  BY <2>1, <2>2, <2>3
<1>2. c <= k /\ (skew[v] = 0 => c < k)
  BY <1>1 DEF Enough
<1>3. skew'[v] = 0 => skew[v] = 0
  <2>1. skew[v] \in Int /\ skew'[v] \in Int /\ skew'[v] <= skew[v]
    BY DEF Harmless, HeapTypeOK
  <2>2. ~(skew[v] > 0)
    BY DEF SkewInv, Harmless
  <2> QED  BY <2>1, <2>2
<1>4. d <= l /\ (skew'[v] = 0 => d < l)
  BY <1>1, <1>2, <1>3
<1> QED  BY <1>1, <1>4 DEF Enough

(* Other threads rely on what they did. *)
LEMMA OthersKeep ==
  ASSUME HeapTypeOK, HeapTypeOK', SkewInv, Harmless, NEW t \in Threads, NEW ops \in Seq(Operations), GoesOn(t, ops),
         NEW u \in Threads \ {t}, ThreadOK(u), \A v \in Objects \ borrowed' : Spared(t, ops, u, v),
         \A c \in Objects : held'[u][c] >= held[u][c]
  PROVE  ThreadOK(u)'
<1>1. todo'[u] = todo[u]
  BY DEF GoesOn, Start, Before, HeapTypeOK
<1>2. \A v \in Objects \ borrowed' : RefsBy(u, v) \subseteq RefsBy(u, v)' /\ Kept(u, v) \subseteq Kept(u, v)'
  BY KeptStays DEF HeapTypeOK
<1>3. Covered(u)'
  <2> SUFFICES ASSUME Plain(u)', NEW v \in Objects \ borrowed', Claims(u, v)' # {} PROVE Enough(u, v)'
    BY DEF Covered
  <2>1. Claims(u, v)' = Claims(u, v) /\ Plain(u)
    BY <1>1 DEF Claims, Plain
  <2>2. Enough(u, v)
    BY <2>1 DEF ThreadOK, Covered, Harmless
  <2>3. Cardinality(Claims(u, v)') <= Cardinality(Claims(u, v))
    <3>1. Cardinality(Claims(u, v)) \in Nat
      BY KeptFinite
    <3> QED  BY <2>1, <3>1
  <2> QED  BY <1>2, <2>2, <2>3, EnoughStays
<1>4. Secured(u)'
  <2>1. \A i \in DOMAIN todo[u] : Behind(u, i) => Behind(u, i)'
    BY <1>1 DEF Behind
  <2>2. \A i \in DOMAIN todo[u] : KeyFirst(u, i) => KeyFirst(u, i)'
    <3> TAKE i \in DOMAIN todo[u]
    <3>w. PICK w : w = todo[u][1].on
      OBVIOUS
    <3> SUFFICES ASSUME KeyFirst(u, i), w \notin borrowed' PROVE RefsBy(u, w)' # {}
      BY <1>1, <3>w DEF KeyFirst
    <3>1. RefsBy(u, w) # {}
      BY <3>w DEF KeyFirst, Harmless
    <3>2. PICK c \in Objects : \E j \in DOMAIN cells[c] : cells[c][j].to = w /\ cells[c][j].to # Null
      BY <3>1 DEF RefsBy, References, Counted
    <3>3. PICK j \in DOMAIN cells[c] : cells[c][j].to = w /\ cells[c][j].to # Null
      BY <3>2
    <3>4. w \in Objects
      BY <3>3, CellsNumbered DEF Cell, Values
    <3> QED  BY <1>2, <3>1, <3>4
  <2> QED  BY <1>1, <2>1, <2>2 DEF ThreadOK, Secured, Plain
<1>5. StoresHeld(u)'
  <2> SUFFICES ASSUME NEW i \in DOMAIN todo[u], todo[u][i].op = "store" PROVE StoreHeld(u, i)'
    BY <1>1 DEF StoresHeld
  <2>1. StoreHeld(u, i) /\ todo[u][i] \in Operations
    BY StepsNumbered DEF ThreadOK, StoresHeld
  <2>2. todo[u][i].on \in Objects /\ todo[u][i].value \in Objects
    BY <2>1, OperationsAre
  <2>3. \A c \in Objects : held[u][c] > 0 => held'[u][c] > 0
    <3> TAKE c \in Objects
    <3>1. held[u][c] \in Nat /\ held'[u][c] \in Nat /\ held'[u][c] >= held[u][c]
      BY DEF HeapTypeOK
    <3> QED  BY <3>1
  <2> QED  BY <1>1, <2>1, <2>2, <2>3 DEF StoreHeld, Harmless
<1> QED  BY <1>3, <1>4, <1>5 DEF ThreadOK

(* The places of a list whose first step is replaced by others. *)
Spliced(ops, s, q, a, m) ==
  /\ a = Len(ops) /\ m = Len(s) /\ DOMAIN ops = 1 .. a /\ DOMAIN s = 1 .. m /\ 1 <= m
  /\ Len(q) = a + (m - 1) /\ DOMAIN q = 1 .. a + (m - 1)
  /\ \A j \in 1 .. a : q[j] = ops[j]
  /\ \A j \in DOMAIN q : j \in 1 .. a \/ \E i \in 2 .. m : j = a + (i - 1)
  /\ \A i \in 2 .. m : a + (i - 1) \in DOMAIN q /\ q[a + (i - 1)] = s[i]

(* A list with its first step replaced is the old one spliced.              *)
LEMMA ReplacedPlaces ==
  ASSUME NEW A, NEW s \in Seq(A), s # <<>>, NEW ops \in Seq(A), NEW q, q = ops \o Tail(s)
  PROVE  \E a, m \in Nat : Spliced(ops, s, q, a, m)
<1>1. Tail(s) \in Seq(A) /\ Len(Tail(s)) = Len(s) - 1 /\ \A i \in 1 .. Len(s) - 1 : Tail(s)[i] = s[i + 1]
  BY HeadTailProperties
<1>2. /\ Len(q) = Len(ops) + Len(Tail(s))
      /\ \A i \in 1 .. Len(q) : q[i] = IF i <= Len(ops) THEN ops[i] ELSE Tail(s)[i - Len(ops)]
      /\ q \in Seq(A)
  BY <1>1, ConcatProperties
<1>3. PICK a \in Nat, m \in Nat : a = Len(ops) /\ m = Len(s) /\ DOMAIN ops = 1 .. a /\ DOMAIN s = 1 .. m
  BY LenProperties
<1>4. 1 <= m
  BY <1>3, EmptySeq
<1>5. Len(q) = a + (m - 1) /\ DOMAIN q = 1 .. a + (m - 1)
  BY <1>1, <1>2, <1>3, LenProperties
<1>6. \A j \in 1 .. a : q[j] = ops[j]
  BY <1>2, <1>3, <1>4, <1>5
<1>7. \A j \in DOMAIN q : j \in 1 .. a \/ \E i \in 2 .. m : j = a + (i - 1)
  <2> TAKE j \in DOMAIN q
  <2>1. j \in 1 .. a \/ ((j - a) + 1 \in 2 .. m /\ j = a + (((j - a) + 1) - 1))
    BY <1>5
  <2> QED  BY <2>1
<1>8. \A i \in 2 .. m : a + (i - 1) \in DOMAIN q /\ q[a + (i - 1)] = s[i]
  <2> TAKE i \in 2 .. m
  <2>1. a + (i - 1) \in 1 .. a + (m - 1) /\ ~(a + (i - 1) <= a) /\ (a + (i - 1)) - a = i - 1 /\ i - 1 \in 1 .. m - 1
        /\ (i - 1) + 1 = i
    BY <1>3
  <2>2. q[a + (i - 1)] = Tail(s)[i - 1]
    BY <1>2, <1>3, <1>5, <2>1
  <2>3. Tail(s)[i - 1] = s[(i - 1) + 1]
    BY <1>1, <1>3, <2>1
  <2> QED  BY <1>5, <2>1, <2>2, <2>3
<1> QED  BY <1>3, <1>4, <1>5, <1>6, <1>7, <1>8 DEF Spliced

(* What a thread puts in place of its first step needs no more than it keeps. *)
Ready(t, ops) ==
  /\ Head(todo[t]).op # "store" /\ (Head(todo[t]).op = "retain" => ops = <<>>)
  /\ ops # <<>> => \E i \in DOMAIN ops : ops[i].op # "retain"
  /\ \A i \in DOMAIN ops :
       /\ ops[i].op # "store"
       /\ ops[i].op = "retain" => /\ i = 1 /\ 2 \in DOMAIN ops /\ ops[2] = Releasing(ops[i].on)
                                  /\ ops[i].on \notin borrowed' => \E x : x \in RefsBy(t, ops[i].on)'
  /\ ops = <<>> => \A v \in Objects \ borrowed' : Spared(t, ops, t, v)
  /\ \A c \in Objects : held'[t][c] >= held[t][c]

(* The thread that takes a step stays secured, if what it puts in its place *)
(* is ready.                                                                *)
LEMMA OwnKeeps ==
  ASSUME HeapTypeOK, HeapTypeOK', SkewInv, Harmless, NEW t \in Threads, todo[t] # <<>>, NEW ops \in Seq(Operations),
         Before(t, ops), ThreadOK(t), Ready(t, ops)
  PROVE  ThreadOK(t)'
<1>s. PICK s : s = todo[t]
  OBVIOUS
<1>q. PICK q : q = ops \o Tail(s)
  OBVIOUS
<1>0. todo'[t] = q /\ s \in Seq(Operations) /\ s # <<>> /\ Head(s) = s[1] /\ todo[t] = s
  BY <1>s, <1>q, StepsNumbered DEF Before, HeapTypeOK
<1>p. PICK a \in Nat, m \in Nat : Spliced(ops, s, q, a, m)
  BY <1>0, <1>q, ReplacedPlaces
<1>1. /\ a = Len(ops) /\ m = Len(s) /\ DOMAIN ops = 1 .. a /\ DOMAIN s = 1 .. m /\ 1 <= m
      /\ Len(q) = a + (m - 1) /\ DOMAIN q = 1 .. a + (m - 1)
      /\ \A j \in 1 .. a : q[j] = ops[j]
      /\ \A j \in DOMAIN q : j \in 1 .. a \/ \E i \in 2 .. m : j = a + (i - 1)
      /\ \A i \in 2 .. m : a + (i - 1) \in DOMAIN q /\ q[a + (i - 1)] = s[i]
  BY <1>p DEF Spliced
<1>d. 1 \in DOMAIN s /\ \A i \in 2 .. m : i \in DOMAIN s
  BY <1>1
<1>e. \A j \in DOMAIN q : j \in 1 .. a \/ \E i \in 2 .. m : j = a + (i - 1) /\ q[j] = s[i]
  BY <1>1
<1>2. \A c \in Objects : held[t][c] > 0 => held'[t][c] > 0
  <2> TAKE c \in Objects
  <2>1. held[t][c] \in Nat /\ held'[t][c] \in Nat /\ held'[t][c] >= held[t][c]
    BY DEF HeapTypeOK, Ready
  <2> QED  BY <2>1
<1>3. StoresHeld(t)'
  <2> SUFFICES ASSUME NEW j \in DOMAIN q, q[j].op = "store" PROVE StoreHeld(t, j)'
    BY <1>0 DEF StoresHeld
  <2>1. ~(j \in 1 .. a)
    BY <1>1 DEF Ready
  <2>2. PICK i \in 2 .. m : j = a + (i - 1) /\ q[j] = s[i]
    BY <1>1, <2>1
  <2>3. i \in DOMAIN s /\ StoreHeld(t, i) /\ s[i] \in Operations
    BY <1>0, <1>1, <2>2, ElementOfSeq DEF ThreadOK, StoresHeld
  <2>4. i + 1 = m /\ s[i + 1] = Retaining(s[i].value) /\ held[t][s[i].on] > 0
        /\ (s[i].value \notin borrowed => held[t][s[i].value] > 0) /\ s[i].on \in Objects /\ s[i].value \in Objects
    BY <1>0, <1>1, <2>2, <2>3, OperationsAre DEF StoreHeld
  <2>5. j + 1 = a + ((i + 1) - 1) /\ i + 1 \in 2 .. m
    BY <2>2, <2>4
  <2>6. j + 1 = Len(q) /\ q[j + 1] = s[i + 1]
    BY <1>1, <2>4, <2>5
  <2>7. held'[t][s[i].on] > 0 /\ (s[i].value \notin borrowed' => held'[t][s[i].value] > 0)
    BY <1>2, <2>4 DEF Harmless
  <2> QED  BY <1>0, <2>2, <2>4, <2>6, <2>7 DEF StoreHeld
<1>4. \A i \in 2 .. m : Behind(t, i) => i - 1 \in 2 .. m /\ s[i - 1].op = "store" /\ s[i - 1].value = s[i].on
  <2> TAKE i \in 2 .. m
  <2> HAVE Behind(t, i)
  <2>1. i - 1 # 1
    BY <1>0 DEF Behind, Ready
  <2> QED  BY <1>0, <2>1 DEF Behind
<1>5. Secured(t)'
  <2> SUFFICES ASSUME ~Plain(t)', NEW j \in DOMAIN q, q[j].op = "retain" PROVE KeyFirst(t, j)' \/ Behind(t, j)'
    BY <1>0 DEF Secured
  <2>1. CASE j \in 1 .. a
    <3>1. ops[j].op = "retain" /\ j \in DOMAIN ops /\ q[j] = ops[j]
      BY <1>1, <2>1
    <3>w. PICK w : w = ops[j].on
      OBVIOUS
    <3>2. /\ j = 1 /\ 2 \in DOMAIN ops /\ ops[2] = Releasing(w)
          /\ w \notin borrowed' => \E x : x \in RefsBy(t, w)'
      BY <3>1, <3>w DEF Ready
    <3>3. 2 \in DOMAIN q /\ q[2] = ops[2] /\ q[1] = ops[1]
      BY <1>1, <3>1, <3>2
    <3>4. q[1].on = w /\ (w \notin borrowed' => RefsBy(t, w)' # {})
      BY <3>1, <3>2, <3>3, <3>w
    <3> QED  BY <1>0, <3>2, <3>3, <3>4 DEF KeyFirst
  <2>2. CASE ~(j \in 1 .. a)
    <3>1. PICK i \in 2 .. m : j = a + (i - 1) /\ q[j] = s[i]
      BY <1>1, <2>2
    <3>2. ~Plain(t)
      <4> SUFFICES ASSUME Plain(t) PROVE FALSE
        OBVIOUS
      <4>1. s[1].op = "retain"
        BY <1>0, <1>d DEF Plain
      <4>2. ops = <<>> /\ a = 0
        BY <1>0, <1>1, <4>1 DEF Ready
      <4>3. \A k \in DOMAIN q : q[k].op = "retain"
        <5> TAKE k \in DOMAIN q
        <5>1. PICK l \in 2 .. m : q[k] = s[l]
          BY <1>e, <4>2
        <5> QED  BY <1>0, <1>d, <5>1 DEF Plain
      <4> QED  BY <1>0, <4>3 DEF Plain
    <3>3. KeyFirst(t, i) \/ Behind(t, i)
      BY <1>0, <1>1, <3>1, <3>2 DEF ThreadOK, Secured
    <3>4. Behind(t, i)
      BY <3>3 DEF KeyFirst
    <3>5. i - 1 \in 2 .. m /\ s[i - 1].op = "store" /\ s[i - 1].value = s[i].on
      BY <1>4, <3>4
    <3>6. j - 1 = a + ((i - 1) - 1)
      BY <3>1
    <3>7. j - 1 \in DOMAIN q /\ q[j - 1] = s[i - 1]
      BY <1>1, <3>5, <3>6
    <3> QED  BY <1>0, <3>1, <3>5, <3>7 DEF Behind
  <2> QED  BY <2>1, <2>2
<1>6. Covered(t)'
  <2> SUFFICES ASSUME Plain(t)', NEW v \in Objects \ borrowed', Claims(t, v)' # {} PROVE Enough(t, v)'
    BY DEF Covered
  <2>1. \A j \in DOMAIN q : q[j].op = "retain"
    BY <1>0 DEF Plain
  <2>2. ops = <<>> /\ a = 0 /\ q = Tail(s)
    <3>1. ops = <<>>
      <4> SUFFICES ASSUME ops # <<>> PROVE FALSE
        OBVIOUS
      <4>1. PICK i \in DOMAIN ops : ops[i].op # "retain"
        BY DEF Ready
      <4> QED  BY <1>1, <2>1, <4>1
    <3>2. Tail(s) \in Seq(Operations)
      BY <1>0, HeadTailProperties
    <3> QED  BY <1>1, <1>q, <3>1, <3>2
  <2>3. \A v1 \in Objects \ borrowed' : Spared(t, ops, t, v1)
    BY <2>2 DEF Ready
  <2>4. GoesOn(t, ops)
    BY DEF GoesOn
  <2>5. Kept(t, v) \subseteq Kept(t, v)'
    BY <2>3, <2>4, KeptStays DEF HeapTypeOK
  <2>6. CASE Plain(t)
    <3>1. Cardinality(Picked(s, Waiting("retain", v)))
            = (IF Head(s) \in Waiting("retain", v) THEN 1 ELSE 0) + Cardinality(Picked(q, Waiting("retain", v)))
      BY <1>0, <2>2, PickedTail
    <3>2. Claims(t, v) = Picked(s, Waiting("retain", v)) /\ Claims(t, v)' = Picked(q, Waiting("retain", v))
      BY <1>0 DEF Claims, Waiting
    <3>3. Cardinality(Claims(t, v)) \in Nat /\ Cardinality(Claims(t, v)') \in Nat
      BY KeptFinite, KeptFiniteAfter
    <3>4. Cardinality(Claims(t, v)') <= Cardinality(Claims(t, v))
      BY <3>1, <3>2, <3>3
    <3>5. Claims(t, v) # {}
      <4>1. PICK j : j \in Claims(t, v)'
        OBVIOUS
      <4>2. j \in DOMAIN q /\ q[j] \in Waiting("retain", v)
        BY <3>2, <4>1 DEF Picked
      <4>3. PICK i \in 2 .. m : q[j] = s[i]
        BY <1>e, <2>2, <4>2
      <4>4. i \in Picked(s, Waiting("retain", v))
        BY <1>d, <4>2, <4>3 DEF Picked
      <4> QED  BY <3>2, <4>4
    <3>6. Enough(t, v)
      BY <2>6, <3>5 DEF ThreadOK, Covered, Harmless
    <3> QED  BY <2>5, <3>4, <3>6, EnoughStays
  <2>7. CASE ~Plain(t)
    <3>1. PICK j : j \in Claims(t, v)'
      OBVIOUS
    <3>2. j \in DOMAIN q
      BY <1>0, <3>1 DEF Claims, Picked
    <3>3. PICK i \in 2 .. m : j = a + (i - 1) /\ q[j] = s[i]
      BY <1>e, <2>2, <3>2
    <3>4. KeyFirst(t, i) \/ Behind(t, i)
      <4>1. s[i].op = "retain" /\ i \in DOMAIN s
        BY <1>d, <2>1, <3>2, <3>3
      <4> QED  BY <1>0, <2>7, <4>1 DEF ThreadOK, Secured
    <3>5. i - 1 \in 2 .. m /\ s[i - 1].op = "store"
      BY <1>4, <3>4 DEF KeyFirst
    <3>6. PICK k \in DOMAIN q : q[k] = s[i - 1]
      BY <1>1, <3>5
    <3> QED  BY <2>1, <3>5, <3>6
  <2> QED  BY <2>6, <2>7
<1> QED  BY <1>3, <1>5, <1>6 DEF ThreadOK

(* A call that begins with no retain, or with a store. *)
LEMMA StartedLight ==
  ASSUME HeapTypeOK', NEW t \in Threads, NEW ops \in Seq(Operations), todo'[t] = ops,
         \A i \in DOMAIN ops : ops[i].op \notin {"retain", "store"}
  PROVE  ThreadOK(t)'
<1>1. \A v : Claims(t, v)' = {}
  BY DEF Claims, Picked, Waiting
<1> QED  BY <1>1 DEF ThreadOK, Covered, Secured, StoresHeld

(* A call that stores over a cell begins secured if the thread holds the    *)
(* container and the new value.                                             *)
LEMMA StartedStore ==
  ASSUME HeapTypeOK', NEW t \in Threads, NEW x \in Values, NEW c \in Objects, NEW i \in Nat \ {0}, NEW v \in Objects,
         todo'[t] = <<Releasing(x), Storing(c, i, v), Retaining(v)>>,
         held'[t][c] > 0, v \notin borrowed' => held'[t][v] > 0
  PROVE  ThreadOK(t)'
<1>q. PICK q : q = <<Releasing(x), Storing(c, i, v), Retaining(v)>>
  OBVIOUS
<1>0. todo'[t] = q
  BY <1>q
<1>1. /\ DOMAIN q = 1 .. 3 /\ Len(q) = 3 /\ q[1] = Releasing(x) /\ q[2] = Storing(c, i, v) /\ q[3] = Retaining(v)
      /\ q[1].op = "release" /\ q[2].op = "store" /\ q[2].on = c /\ q[2].value = v /\ q[3].op = "retain" /\ q[3].on = v
  BY <1>q DEF Releasing, Storing, Retaining
<1>2. ~Plain(t)'
  BY <1>0, <1>1 DEF Plain
<1>3. \A j \in 1 .. 3 : q[j].op = "retain" => j = 3
  BY <1>1
<1>4. Behind(t, 3)'
  BY <1>0, <1>1 DEF Behind
<1>5. Secured(t)'
  BY <1>0, <1>1, <1>3, <1>4 DEF Secured
<1>6. StoreHeld(t, 2)'
  BY <1>0, <1>1 DEF StoreHeld
<1>7. \A j \in 1 .. 3 : q[j].op = "store" => j = 2
  BY <1>1
<1>8. StoresHeld(t)'
  BY <1>0, <1>1, <1>6, <1>7 DEF StoresHeld
<1> QED  BY <1>2, <1>5, <1>8 DEF ThreadOK, Covered

(* A call that only retains begins secured if there is enough behind each   *)
(* of its retains.                                                          *)
LEMMA StartedPlain ==
  ASSUME NEW t \in Threads, NEW ops, todo'[t] = ops, \A i \in DOMAIN ops : ops[i].op = "retain",
         \A v \in Objects \ borrowed' : Claims(t, v)' # {} => Enough(t, v)'
  PROVE  ThreadOK(t)'
<1>1. Plain(t)'
  BY DEF Plain
<1> QED  BY <1>1 DEF ThreadOK, Covered, Secured, StoresHeld

(* Where the proof is: the invariant, and what a step is to show. *)
ReachNow == HeapOK /\ Defined /\ DeadInv /\ SkewInv /\ TouchedInv /\ \A t \in Threads : ThreadOK(t)
Reaches == DeadInv' /\ SkewInv' /\ TouchedInv' /\ (Defined' => \A t \in Threads : ThreadOK(t)')

(* A primitive step keeps the invariant if it is harmless, what follows is  *)
(* ready, and others are spared.                                            *)
LEMMA StepReaches ==
  ASSUME ReachNow, Defined' => HeapTypeOK', NEW t \in Threads, todo[t] # <<>>, NEW ops \in Seq(Operations), Before(t, ops),
         held' = held, skew' \in [Objects -> Int], Harmless,
         Defined' => Ready(t, ops) /\ \A u \in Threads \ {t} : \A v \in Objects \ borrowed' : Spared(t, ops, u, v)
  PROVE  Reaches
<1>0. HeapTypeOK /\ DeadInv /\ SkewInv /\ GoesOn(t, ops)
  BY DEF ReachNow, HeapOK, GoesOn
<1>1. DeadInv' /\ SkewInv' /\ TouchedInv'
  BY <1>0, HarmlessKeeps
<1>2. ASSUME Defined', NEW u \in Threads PROVE ThreadOK(u)'
  <2>1. CASE u = t
    BY <1>0, <1>2, <2>1, OwnKeeps DEF ReachNow
  <2>2. CASE u # t
    <3>1. \A c \in Objects : held'[u][c] >= held[u][c]
      BY <1>0 DEF HeapTypeOK
    <3> QED  BY <1>0, <1>2, <2>2, <3>1, OthersKeep DEF ReachNow
  <2> QED  BY <2>1, <2>2
<1> QED  BY <1>1, <1>2 DEF Reaches

(* Steps that change no container and no entry of the weak list. *)
LEMMA PlainSpared ==
  ASSUME HeapTypeOK, NEW t \in Threads, NEW ops \in Seq(Operations), UNCHANGED <<cells, node, held>>,
         \A c \in Objects : mem[c] \in {"live", "dying"} => mem'[c] \in {"live", "dying"},
         \A i \in DOMAIN ops : ops[i].op \notin {"store", "unlink"} /\ (ops[i].op = "empty" => ops[i].at = 1)
  PROVE  \A u \in Threads : \A v \in Objects : Spared(t, ops, u, v)
<1> TAKE u \in Threads
<1> TAKE v \in Objects
<1>1. \A c \in Objects : \A i \in RefsIn(c, v) : \A j \in DOMAIN ops : ops[j] \notin EmptiesPast(c, i) /\ ops[j] \notin StoresAt(c, i)
  <2> TAKE c \in Objects
  <2> TAKE i \in RefsIn(c, v)
  <2>1. i \in Nat /\ ~(1 > i)
    BY CellsNumbered DEF RefsIn
  <2> QED  BY <2>1 DEF EmptiesPast, StoresAt
<1>2. \A n : \A j \in DOMAIN ops : ops[j] \notin UnlinksOf(n)
  BY DEF UnlinksOf
<1>3. \A c \in Objects : held'[u][c] >= held[u][c]
  BY DEF HeapTypeOK
<1> QED  BY <1>1, <1>2, <1>3 DEF Spared, RefsIn, Counted

(* A key is kept no longer than it was, if no entry is new. *)
LEMMA KeysFewer ==
  ASSUME HeapTypeOK, NEW t \in Threads, NEW ops \in Seq(Operations), GoesOn(t, ops), NEW v,
         \A n \in Nodes : node'[n].used = "yes" => node'[n] = node[n] /\ First(t) \cap UnlinksOf(n) = {}
  PROVE  KeyOf(v)' \subseteq KeyOf(v)
<1> SUFFICES ASSUME NEW n \in KeyOf(v)' PROVE n \in KeyOf(v)
  OBVIOUS
<1>1. n \in Nodes /\ node'[n].used = "yes" /\ node'[n] = node[n] /\ node[n].key = v /\ First(t) \cap UnlinksOf(n) = {}
  BY DEF KeyOf
<1>2. Cardinality(Pending(UnlinksOf(n))) \in Nat /\ Cardinality(Picked(ops, UnlinksOf(n))) \in Nat
      /\ Cardinality(Pending(UnlinksOf(n))') = Cardinality(Pending(UnlinksOf(n))) - One(First(t) \cap UnlinksOf(n) # {})
                                                 + Cardinality(Picked(ops, UnlinksOf(n)))
  <2>s. PICK S : S = UnlinksOf(n)
    OBVIOUS
  <2>1. /\ Cardinality(Pending(S)) \in Nat /\ Cardinality(Picked(ops, S)) \in Nat
        /\ Cardinality(Pending(S)') = Cardinality(Pending(S)) - One(First(t) \cap S # {}) + Cardinality(Picked(ops, S))
    BY StepsMove
  <2> QED  BY <2>s, <2>1
<1>3. todo' \in [Threads -> Seq(Operations)]
  BY StepsMove
<1>4. ~(Cardinality(Pending(UnlinksOf(n))') > 0)
  BY <1>3, MarksAfter DEF KeyOf
<1>5. ~(Cardinality(Pending(UnlinksOf(n))) > 0)
  BY <1>1, <1>2, <1>4 DEF One
<1>6. ~UnlinkSoon(n)
  BY <1>5, Marks DEF HeapTypeOK
<1> QED  BY <1>1, <1>6 DEF KeyOf

(* What the step at hand is about is mentioned. *)
LEMMA FirstMentions ==
  ASSUME HeapTypeOK, NEW t \in Threads, todo[t] # <<>>, NEW v, About(Head(todo[t]), v)
  PROVE  Mentioned(v)
BY FirstStep DEF Mentioned

(* Nothing new is mentioned if no more is held, referred to or kept. *)
LEMMA MentionFewer ==
  ASSUME HeapTypeOK, NEW t \in Threads, NEW ops \in Seq(Operations), GoesOn(t, ops), NEW v \in Objects,
         \A u \in Threads : held'[u][v] > 0 => Mentioned(v), \A c \in Objects : RefsIn(c, v)' # {} => Mentioned(v),
         KeyOf(v)' # {} => Mentioned(v), \A j \in DOMAIN ops : About(ops[j], v) => Mentioned(v)
  PROVE  Mentioned(v)' => Mentioned(v)
<1> PICK b \in BOOLEAN : ~b
  OBVIOUS
<1>1. Mentioned(v)' => Mentioned(v) \/ b
  BY MentionMoves
<1> QED  BY <1>1

(* A retain counts what its thread had a claim on.                          *)
LEMMA RetainReaches ==
  ASSUME ReachNow, Defined' => HeapTypeOK', NEW t \in Threads, todo[t] # <<>>, NEW v \in Values, Head(todo[t]) = Retaining(v),
         Retain(t, v)
  PROVE  Reaches
<1>0. /\ HeapTypeOK /\ BornInv /\ DeadInv /\ UNCHANGED <<mem, cells, held, borrowed, skew, node>> /\ Before(t, <<>>)
      /\ <<>> \in Seq(Operations) /\ touched = {}
  BY ShortLists DEF ReachNow, HeapOK, Retain, weak, Defined
<1>1. GoesOn(t, <<>>) /\ First(t) = {Retaining(v)} /\ Retaining(v).op = "retain" /\ Retaining(v).on = v
  BY <1>0 DEF GoesOn, First, Retaining
<1>2. \A c \in Objects, w \in Objects : RefsIn(c, w)' = RefsIn(c, w)
  <2>1. \A c \in Objects : Aside(t, <<>>, c)
    BY <1>0, <1>1 DEF Aside, Marking
  <2> QED  BY <1>0, <1>1, <2>1, AsideIsSame
<1>3. \A w : KeyOf(w)' = KeyOf(w)
  <2>1. NoUnlink(t, <<>>)
    BY <1>1 DEF NoUnlink
  <2> QED  BY <1>0, <1>1, <2>1, KeysSame
<1>4. \A w \in Objects : Mentioned(w)' => Mentioned(w)
  <2> TAKE w \in Objects
  <2>1. /\ \A u \in Threads : held'[u][w] > 0 => Mentioned(w)
        /\ \A c \in Objects : RefsIn(c, w)' # {} => Mentioned(w)
        /\ KeyOf(w)' # {} => Mentioned(w)
        /\ \A j \in DOMAIN <<>> : About(<<>>[j], w) => Mentioned(w)
    BY <1>0, <1>2, <1>3 DEF Mentioned
  <2> QED  BY <1>0, <1>1, <2>1, MentionFewer
<1>5. Harmless
  <2>1. \A w \in Objects \ borrowed' : w \in touched' => \E n \in Nodes : node'[n].dict = w
    <3> SUFFICES ASSUME NEW w \in Objects \ borrowed', w \in touched' PROVE FALSE
      OBVIOUS
    <3>1. w = v /\ mem[v] # "live"
      BY <1>0 DEF Retain, RetainNow, Touch
    <3>2. Mentioned(v)
      BY <1>0, <1>1, <3>1, FirstMentions DEF About
    <3> QED  BY <1>0, <3>1, <3>2, MentionedIsLive
  <2>2. \A w \in Objects : skew'[w] \in Int /\ skew'[w] <= skew[w]
    BY <1>0 DEF HeapTypeOK
  <2> QED  BY <1>0, <1>4, <2>1, <2>2 DEF Harmless, Dead
<1>6. \A u \in Threads : \A w \in Objects : Spared(t, <<>>, u, w)
  <2>1. \A i \in DOMAIN <<>> : <<>>[i].op \notin {"store", "unlink"} /\ (<<>>[i].op = "empty" => <<>>[i].at = 1)
    OBVIOUS
  <2>2. UNCHANGED <<cells, node, held>> /\ \A c \in Objects : mem[c] \in {"live", "dying"} => mem'[c] \in {"live", "dying"}
    BY <1>0
  <2> QED  BY <1>0, <2>1, <2>2, PlainSpared
<1>7. Ready(t, <<>>)
  <2>1. \A c \in Objects : held'[t][c] >= held[t][c]
    BY <1>0 DEF HeapTypeOK
  <2> QED  BY <1>1, <1>6, <2>1 DEF Ready
<1> QED  BY <1>0, <1>5, <1>6, <1>7, StepReaches DEF HeapTypeOK

(* A mark stays if what bears it is replaced by something that bears it. *)
LEMMA MarkStays ==
  ASSUME HeapTypeOK, NEW t \in Threads, NEW ops \in Seq(Operations), GoesOn(t, ops), NEW S,
         First(t) \cap S # {} => \E j \in DOMAIN ops : ops[j] \in S, \E x \in Places : At(x) \in S
  PROVE  Cardinality(Pending(S)') > 0
<1>1. /\ Cardinality(Pending(S)) \in Nat /\ Cardinality(Pending(S)') \in Nat /\ Cardinality(Picked(ops, S)) \in Nat
      /\ Cardinality(Pending(S)') = Cardinality(Pending(S)) - One(First(t) \cap S # {}) + Cardinality(Picked(ops, S))
  BY StepsMove
<1>2. Cardinality(Pending(S)) > 0
  BY Marks DEF HeapTypeOK
<1>3. CASE First(t) \cap S = {}
  BY <1>1, <1>2, <1>3 DEF One
<1>4. CASE First(t) \cap S # {}
  <2>1. IsFiniteSet(Picked(ops, S)) /\ Picked(ops, S) # {}
    <3>1. IsFiniteSet(Picked(ops, S))
      BY PickedAre
    <3>2. PICK j \in DOMAIN ops : ops[j] \in S
      BY <1>4
    <3>3. j \in Picked(ops, S)
      BY <3>2 DEF Picked
    <3> QED  BY <3>1, <3>3
  <2>2. Cardinality(Picked(ops, S)) # 0
    BY <2>1, FS_EmptySet
  <2> QED  BY <1>1, <1>2, <2>2 DEF One
<1> QED  BY <1>3, <1>4

(* A cell that counts after a step counted before, if it is the same and    *)
(* no mark was taken off it.                                                *)
Marked(t, ops, c, i) ==
  /\ First(t) \cap EmptiesPast(c, i) # {} => \E j \in DOMAIN ops : ops[j] \in EmptiesPast(c, i)
  /\ First(t) \cap StoresAt(c, i) # {} => \E j \in DOMAIN ops : ops[j] \in StoresAt(c, i)

(* A cell that counts after a step that leaves it alone counted before it.  *)
LEMMA CellCounted ==
  ASSUME HeapTypeOK, NEW t \in Threads, NEW ops \in Seq(Operations), GoesOn(t, ops), NEW c \in Objects, NEW i \in DOMAIN cells[c],
         cells'[c][i] = cells[c][i], mem'[c] \in {"live", "dying"} => mem[c] \in {"live", "dying"}, Marked(t, ops, c, i),
         NEW v, i \in RefsIn(c, v)'
  PROVE  i \in RefsIn(c, v)
<1>0. todo' \in [Threads -> Seq(Operations)]
  BY StepsMove
<1>1. ~Released(c, i)
  <2> SUFFICES ASSUME Released(c, i) PROVE FALSE
    OBVIOUS
  <2>1. \E x \in Places : At(x) \in EmptiesPast(c, i)
    BY StepsAre DEF Released, EmptiesPast, HeapTypeOK
  <2>2. Cardinality(Pending(EmptiesPast(c, i))') > 0
    BY <2>1, MarkStays DEF Marked
  <2>3. Released(c, i)'
    BY <1>0, <2>2, MarksAfter
  <2> QED  BY <2>3 DEF RefsIn, Counted
<1>2. ~Replaced(c, i)
  <2> SUFFICES ASSUME Replaced(c, i) PROVE FALSE
    OBVIOUS
  <2>1. \E x \in Places : At(x) \in StoresAt(c, i)
    BY StepsAre DEF Replaced, StoresAt, HeapTypeOK
  <2>2. Cardinality(Pending(StoresAt(c, i))') > 0
    BY <2>1, MarkStays DEF Marked
  <2>3. Replaced(c, i)'
    BY <1>0, <2>2, MarksAfter
  <2> QED  BY <2>3 DEF RefsIn, Counted
<1> QED  BY <1>1, <1>2 DEF RefsIn, Counted

(* So a container refers to no more than it did. *)
LEMMA RefsFewer ==
  ASSUME HeapTypeOK, NEW t \in Threads, NEW ops \in Seq(Operations), GoesOn(t, ops), NEW c \in Objects,
         cells'[c] = cells[c], mem'[c] \in {"live", "dying"} => mem[c] \in {"live", "dying"},
         \A i \in DOMAIN cells[c] : Marked(t, ops, c, i), NEW v
  PROVE  RefsIn(c, v)' \subseteq RefsIn(c, v)
<1> SUFFICES ASSUME NEW i \in RefsIn(c, v)' PROVE i \in RefsIn(c, v)
  OBVIOUS
<1>1. i \in DOMAIN cells[c]
  BY DEF RefsIn
<1> QED  BY <1>1, CellCounted

-----------------------------------------------------------------------------
(* A release takes a mention away; the last one finds no other (Freed), and *)
(* emptying or walking follows.                                             *)
LEMMA ReleaseReaches ==
  ASSUME ReachNow, Defined' => HeapTypeOK', NEW t \in Threads, todo[t] # <<>>, NEW v \in Values, Head(todo[t]) = Releasing(v),
         Release(t, v)
  PROVE  Reaches
<1>d. PICK dies \in BOOLEAN : dies <=> v # Null /\ rc[v] = 1 /\ mem[v] = "live"
  OBVIOUS
<1> DEFINE ops == IF dies THEN <<Visiting(v, Null), Emptying(v, 1)>> ELSE <<>>
<1>0. /\ HeapTypeOK /\ BornInv /\ DeadInv /\ UNCHANGED <<cells, held, borrowed, skew, node>> /\ touched = {}
      /\ mem' = IF dies THEN [mem EXCEPT ![v] = "dying"] ELSE mem
      /\ Before(t, ops)
  BY <1>d DEF ReachNow, HeapOK, Release, IsLast, weak, Defined
<1>1. /\ Visiting(v, Null).op = "visit" /\ Emptying(v, 1).op = "empty" /\ Emptying(v, 1).at = 1
      /\ Releasing(v).op = "release" /\ Releasing(v).on = v
  BY DEF Visiting, Emptying, Releasing
<1>2. GoesOn(t, ops) /\ ops \in Seq(Operations) /\ First(t) = {Releasing(v)}
  <2>1. v # Null => Visiting(v, Null) \in Operations /\ Emptying(v, 1) \in Operations
    BY Primitives DEF Links, Values
  <2>2. ops \in Seq(Operations)
    BY <1>d, <2>1, ShortLists
  <2> QED  BY <1>0, <2>2 DEF GoesOn, First
<1>3. \A i \in DOMAIN ops : dies /\ (ops[i] = Visiting(v, Null) \/ ops[i] = Emptying(v, 1))
  OBVIOUS
<1> HIDE DEF ops
<1>4. \A c \in Objects, w \in Objects : RefsIn(c, w)' \subseteq RefsIn(c, w)
  <2> TAKE c \in Objects, w \in Objects
  <2>1. mem'[c] \in {"live", "dying"} => mem[c] \in {"live", "dying"}
    BY <1>d, <1>0 DEF HeapTypeOK
  <2>2. \A i \in DOMAIN cells[c] : Marked(t, ops, c, i)
    BY <1>1, <1>2 DEF Marked, EmptiesPast, StoresAt
  <2> QED  BY <1>0, <1>2, <2>1, <2>2, RefsFewer
<1>5. \A w : KeyOf(w)' \subseteq KeyOf(w)
  <2>1. \A n \in Nodes : First(t) \cap UnlinksOf(n) = {}
    BY <1>1, <1>2 DEF UnlinksOf
  <2> QED  BY <1>0, <1>2, <2>1, KeysFewer
<1>6. \A i \in DOMAIN ops : \A w : ~About(ops[i], w)
  BY <1>1, <1>3 DEF About
<1>7. \A w \in Objects : Mentioned(w)' => Mentioned(w)
  <2> TAKE w \in Objects
  <2>1. /\ \A u \in Threads : held'[u][w] > 0 => Mentioned(w)
        /\ \A c \in Objects : RefsIn(c, w)' # {} => Mentioned(w)
        /\ KeyOf(w)' # {} => Mentioned(w)
        /\ \A j \in DOMAIN ops : About(ops[j], w) => Mentioned(w)
    BY <1>0, <1>4, <1>5, <1>6 DEF Mentioned
  <2> QED  BY <1>0, <1>2, <2>1, MentionFewer
<1>8. ASSUME dies, v \notin borrowed PROVE ~Mentioned(v)'
  <2>0. v \in Objects \ borrowed /\ mem[v] = "live" /\ rc[v] = 1
    BY <1>d, <1>8 DEF Values
  <2>1. /\ Owned(v) = {} /\ References(v) = {} /\ KeyOf(v) = {} /\ Arriving(v) = {}
        /\ Remaining("retain", v) = {} /\ Remaining("release", v) = {<<t, 1>>}
    BY <2>0, Freed DEF ReachNow
  <2>2. \A u \in Threads : ~(held'[u][v] > 0)
    <3> SUFFICES ASSUME NEW u \in Threads, held'[u][v] > 0 PROVE FALSE
      OBVIOUS
    <3>1. held[u][v] \in Nat /\ held[u][v] > 0
      BY <1>0, <2>0 DEF HeapTypeOK
    <3>2. <<u, 1>> \in Owned(v)
      BY <3>1 DEF Owned
    <3> QED  BY <2>1, <3>2
  <2>3. \A c \in Objects : RefsIn(c, v)' = {}
    <3>1. ASSUME NEW c \in Objects, NEW i \in RefsIn(c, v) PROVE FALSE
      <4>1. <<c, i>> \in References(v)
        BY <3>1 DEF References, RefsIn
      <4> QED  BY <2>1, <4>1
    <3> QED  BY <1>4, <2>0, <3>1
  <2>4. KeyOf(v)' = {}
    BY <1>5, <2>1
  <2>5. \A x \in Places' : ~About(At(x)', v)
    <3> SUFFICES ASSUME NEW x \in Places', About(At(x)', v) PROVE FALSE
      OBVIOUS
    <3>0. \A z \in Places' : \/ z[1] = t /\ \E i \in DOMAIN ops : At(z)' = ops[i]
                             \/ \E y \in Places \ {<<t, 1>>} : y[1] = z[1] /\ At(z)' = At(y)
      BY <1>0, <1>2, StepsMove
    <3>1. PICK y \in Places \ {<<t, 1>>} : At(x)' = At(y)
      BY <1>6, <3>0
    <3>2. About(At(y), v) /\ y \in Places
      BY <3>1
    <3>3. y \in Remaining("release", v) \/ y \in Remaining("retain", v) \/ y \in Arriving(v)
      BY <3>2 DEF About, Remaining, Arriving
    <3> QED  BY <2>1, <3>1, <3>3
  <2> QED  BY <2>2, <2>3, <2>4, <2>5 DEF Mentioned, About
<1>9. Harmless
  <2>1. \A w \in Objects \ borrowed' : w \in touched' => \E n \in Nodes : node'[n].dict = w
    <3> SUFFICES ASSUME NEW w \in Objects \ borrowed', w \in touched' PROVE FALSE
      OBVIOUS
    <3>1. w = v /\ mem[v] # "live"
      BY <1>0 DEF Release, Touch
    <3>2. Mentioned(v)
      BY <1>0, <1>1, <3>1, FirstMentions DEF About
    <3> QED  BY <1>0, <3>1, <3>2, MentionedIsLive
  <2>2. \A w \in Objects : skew'[w] \in Int /\ skew'[w] <= skew[w]
    BY <1>0 DEF HeapTypeOK
  <2>3. \A w \in Objects \ borrowed' : Dead(w)' => Dead(w) \/ ~Mentioned(w)'
    <3> SUFFICES ASSUME NEW w \in Objects \ borrowed', Dead(w)', ~Dead(w) PROVE ~Mentioned(w)'
      OBVIOUS
    <3>1. dies /\ w = v
      BY <1>0 DEF Dead, HeapTypeOK
    <3> QED  BY <1>0, <1>8, <3>1
  <2> QED  BY <1>0, <1>7, <2>1, <2>2, <2>3 DEF Harmless
<1>10. \A u \in Threads : \A w \in Objects : Spared(t, ops, u, w)
  <2>1. \A i \in DOMAIN ops : ops[i].op \notin {"store", "unlink"} /\ (ops[i].op = "empty" => ops[i].at = 1)
    BY <1>1, <1>3
  <2>2. UNCHANGED <<cells, node, held>> /\ \A c \in Objects : mem[c] \in {"live", "dying"} => mem'[c] \in {"live", "dying"}
    BY <1>0 DEF HeapTypeOK
  <2> QED  BY <1>0, <1>2, <2>1, <2>2, PlainSpared
<1>11. Ready(t, ops)
  <2>1. \A c \in Objects : held'[t][c] >= held[t][c]
    BY <1>0 DEF HeapTypeOK
  <2>2. ops # <<>> => \E i \in DOMAIN ops : ops[i].op # "retain"
    <3> SUFFICES ASSUME dies PROVE \E i \in DOMAIN ops : ops[i].op # "retain"
      BY DEF ops
    <3>1. 1 \in DOMAIN ops /\ ops[1] = Visiting(v, Null)
      BY DEF ops
    <3> QED  BY <1>1, <3>1
  <2>3. \A i \in DOMAIN ops : ops[i].op \notin {"store", "retain"}
    BY <1>1, <1>3
  <2>4. ops = <<>> => \A w \in Objects \ borrowed' : Spared(t, ops, t, w)
    BY <1>10
  <2> QED  BY <1>1, <2>1, <2>2, <2>3, <2>4 DEF Ready
<1> QED  BY <1>0, <1>2, <1>9, <1>10, <1>11, StepReaches DEF HeapTypeOK

(* A store puts a reference in a cell whose old one was released; its       *)
(* retain is secured by the count the thread owns.                          *)
LEMMA StoreReaches ==
  ASSUME ReachNow, Defined' => HeapTypeOK', NEW t \in Threads, todo[t] # <<>>, NEW c \in Objects, NEW i \in Nat \ {0},
         NEW v \in Objects, Head(todo[t]) = Storing(c, i, v), Store(t, c, i, v)
  PROVE  Reaches
<1>s. PICK s : s = todo[t]
  OBVIOUS
<1>0. /\ HeapTypeOK /\ BornInv /\ StepsInv /\ DeadInv /\ SkewInv /\ UNCHANGED <<mem, node, held, borrowed, skew>>
      /\ touched = {} /\ Before(t, <<>>) /\ cells' = Overwritten(c, i, Strong(v)) /\ Touch(c)
      /\ <<>> \in Seq(Operations) /\ s \in Seq(Operations) /\ s # <<>>
  BY <1>s, ShortLists, StepsNumbered DEF ReachNow, HeapOK, Store, weak, Defined
<1>1. /\ GoesOn(t, <<>>) /\ First(t) = {Storing(c, i, v)} /\ Storing(c, i, v).op = "store" /\ Storing(c, i, v).on = c
      /\ Storing(c, i, v).at = i /\ Storing(c, i, v).value = v
      /\ <<t, 1>> \in Places /\ At(<<t, 1>>) = Storing(c, i, v) /\ s[1] = Storing(c, i, v) /\ 1 \in DOMAIN s
  BY <1>0, <1>s, FirstStep, StepsNumbered DEF GoesOn, First, Storing
<1>2. Owner[c] = t /\ i \in DOMAIN cells[c]
  <2>1. StepOK(<<t, 1>>[1], At(<<t, 1>>))
    BY <1>0, <1>1 DEF StepsInv
  <2> QED  BY <1>1, <2>1 DEF StepOK
<1>3. 1 + 1 = Len(s) /\ s[1 + 1] = Retaining(v) /\ held[t][c] > 0 /\ (v \notin borrowed => held[t][v] > 0)
  <2>1. 1 \in DOMAIN todo[t] /\ todo[t][1] = Storing(c, i, v) /\ todo[t][1].op = "store"
    BY <1>s, <1>1
  <2>2. StoresHeld(t)
    BY DEF ReachNow, ThreadOK
  <2>3. StoreHeld(t, 1)
    BY <2>1, <2>2 DEF StoresHeld
  <2>4. 1 + 1 = Len(todo[t]) /\ todo[t][1 + 1] = Retaining(Storing(c, i, v).value)
        /\ held[t][Storing(c, i, v).on] > 0
        /\ (Storing(c, i, v).value \notin borrowed => held[t][Storing(c, i, v).value] > 0)
    BY <2>1, <2>3 DEF StoreHeld
  <2> QED  BY <1>s, <1>1, <2>4
<1>4. /\ DOMAIN cells'[c] = DOMAIN cells[c] /\ cells'[c][i] = Strong(v)
      /\ \A j \in DOMAIN cells[c] : j # i => cells'[c][j] = cells[c][j]
      /\ \A d \in Objects : d # c => cells'[d] = cells[d]
  BY <1>0, <1>2 DEF Overwritten, HeapTypeOK
<1>5. Strong(v).to = v /\ ~Strong(v).weak /\ v # Null
  BY DEF Strong, HeapAssumption
<1>6. \A d \in Objects, w \in Objects : RefsIn(d, w)' # {} => Mentioned(w)
  <2> SUFFICES ASSUME NEW d \in Objects, NEW w \in Objects, w # v, NEW j \in RefsIn(d, w)' PROVE j \in RefsIn(d, w)
    BY <1>0, <1>1, FirstMentions DEF About, Mentioned
  <2>1. j \in DOMAIN cells[d] /\ cells'[d][j] = cells[d][j] /\ ~(d = c /\ j = i)
    BY <1>4, <1>5 DEF RefsIn
  <2>2. Marked(t, <<>>, d, j)
    BY <1>1, <2>1 DEF Marked, EmptiesPast, StoresAt
  <2> QED  BY <1>0, <1>1, <2>1, <2>2, CellCounted
<1>7. \A w : KeyOf(w)' \subseteq KeyOf(w)
  <2>1. \A n \in Nodes : First(t) \cap UnlinksOf(n) = {}
    BY <1>1 DEF UnlinksOf
  <2> QED  BY <1>0, <1>1, <2>1, KeysFewer
<1>8. \A w \in Objects : Mentioned(w)' => Mentioned(w)
  <2> TAKE w \in Objects
  <2>1. /\ \A u \in Threads : held'[u][w] > 0 => Mentioned(w)
        /\ \A d \in Objects : RefsIn(d, w)' # {} => Mentioned(w)
        /\ KeyOf(w)' # {} => Mentioned(w)
        /\ \A j \in DOMAIN <<>> : About(<<>>[j], w) => Mentioned(w)
    BY <1>0, <1>6, <1>7 DEF Mentioned
  <2> QED  BY <1>0, <1>1, <2>1, MentionFewer
<1>9. Harmless
  <2>1. \A w \in Objects \ borrowed' : w \in touched' => \E n \in Nodes : node'[n].dict = w
    <3> SUFFICES ASSUME NEW w \in Objects \ borrowed', w \in touched' PROVE FALSE
      OBVIOUS
    <3>1. w = c /\ mem[c] # "live"
      BY <1>0 DEF Touch
    <3>2. Mentioned(c)
      BY <1>3 DEF Mentioned
    <3> QED  BY <1>0, <3>1, <3>2, MentionedIsLive
  <2>2. \A w \in Objects : skew'[w] \in Int /\ skew'[w] <= skew[w]
    BY <1>0 DEF HeapTypeOK
  <2> QED  BY <1>0, <1>8, <2>1, <2>2 DEF Harmless, Dead
<1>10. DeadInv' /\ SkewInv' /\ TouchedInv'
  BY <1>0, <1>9, HarmlessKeeps DEF HeapTypeOK
<1>11. ASSUME Defined', NEW u \in Threads \ {t} PROVE ThreadOK(u)'
  <2>2. \A d \in Objects : held'[u][d] >= held[u][d]
    <3> TAKE d \in Objects
    <3>1. held[u][d] \in Nat /\ held' = held
      BY <1>0 DEF HeapTypeOK
    <3> QED  BY <3>1
  <2>1. \A w \in Objects \ borrowed' : Spared(t, <<>>, u, w)
    <3> TAKE w \in Objects \ borrowed'
    <3> QED  BY <1>0, <1>2, <1>4, <2>2 DEF Spared, RefsIn, Counted
  <2> QED  BY <1>0, <1>1, <1>9, <1>11, <2>1, <2>2, OthersKeep DEF ReachNow
<1>12. ASSUME Defined' PROVE ThreadOK(t)'
  <2>q. PICK q : q = Tail(s)
    OBVIOUS
  <2>1. todo'[t] = q
    <3>1. Tail(s) \in Seq(Operations)
      BY <1>0, HeadTailProperties
    <3> QED  BY <1>0, <1>s, <2>q, <3>1 DEF Before, HeapTypeOK
  <2>2. DOMAIN q = {1} /\ q[1] = Retaining(v)
    <3>1. Tail(s) \in Seq(Operations) /\ Len(Tail(s)) = Len(s) - 1 /\ \A k \in 1 .. Len(s) - 1 : Tail(s)[k] = s[k + 1]
      BY <1>0, HeadTailProperties
    <3>2. DOMAIN q = 1 .. Len(q) /\ Len(q) = 1
      BY <1>3, <2>q, <3>1, LenProperties
    <3>3. q[1] = s[1 + 1]
      BY <1>3, <2>q, <3>1
    <3> QED  BY <1>3, <3>2, <3>3
  <2>3. Retaining(v).op = "retain" /\ Retaining(v).on = v
    BY DEF Retaining
  <2>4. mem'[c] = "live" /\ mem[c] = "live"
    BY <1>0, <1>12 DEF Touch, Defined
  <2>5. \A z \in Places' : \E y \in Places \ {<<t, 1>>} : At(z)' = At(y)
    <3>o. PICK ops : ops = <<>>
      OBVIOUS
    <3>1. DOMAIN ops = {} /\ GoesOn(t, ops) /\ ops \in Seq(Operations)
      BY <1>0, <1>1, <3>o
    <3>2. \A z \in Places' : \/ z[1] = t /\ \E k \in DOMAIN ops : At(z)' = ops[k]
                             \/ \E y \in Places \ {<<t, 1>>} : y[1] = z[1] /\ At(z)' = At(y)
      BY <1>0, <3>1, StepsMove
    <3> QED  BY <3>1, <3>2
  <2>6. ~Released(c, i)'
    <3> SUFFICES ASSUME NEW z \in Places', At(z)'.op = "empty", At(z)'.on = c PROVE FALSE
      BY DEF Released
    <3>1. PICK y \in Places : At(z)' = At(y)
      BY <2>5
    <3> QED  BY <1>0, <2>4, <3>1 DEF StepsInv, StepOK
  <2>7. ~Replaced(c, i)'
    <3> SUFFICES ASSUME NEW z \in Places', At(z)'.op = "store", At(z)'.on = c PROVE FALSE
      BY DEF Replaced
    <3>1. PICK y \in Places \ {<<t, 1>>} : At(z)' = At(y)
      BY <2>5
    <3>2. Rivals(At(y), At(<<t, 1>>))
      BY <1>1, <3>1 DEF Rivals
    <3> QED  BY <1>0, <1>1, <3>1, <3>2, OneOfAKind
  <2>8. i \in RefsIn(c, v)'
    BY <1>2, <1>4, <1>5, <2>4, <2>6, <2>7 DEF RefsIn, Counted
  <2>9. <<c, i>> \in RefsBy(t, v)'
    BY <1>0, <1>2, <1>3, <2>8 DEF RefsBy, References, RefsIn
  <2>10. ASSUME NEW w \in Objects \ borrowed', Claims(t, w)' # {} PROVE Enough(t, w)'
    <3>1. w = v /\ Claims(t, v)' = {1}
      BY <2>1, <2>2, <2>3, <2>10, Primitives DEF Claims, Picked, Waiting, Values
    <3>2. <<t, 1>> \in {t} \X (1 .. held'[t][v])
      <4>1. v \notin borrowed
        BY <1>0, <2>10, <3>1
      <4>2. held[t][v] \in Nat /\ held[t][v] > 0
        BY <1>0, <1>3, <4>1 DEF HeapTypeOK
      <4>3. 1 \in 1 .. held'[t][v]
        BY <1>0, <4>2
      <4> QED  BY <4>3
    <3>3. <<"count", <<t, 1>>>> \in Kept(t, v)' /\ <<"cell", <<c, i>>>> \in Kept(t, v)'
      BY <2>9, <3>2 DEF Kept
    <3>k. PICK k : k = Kept(t, v)'
      OBVIOUS
    <3>4. IsFiniteSet(k)
      BY <1>12, <3>k, KeptFiniteAfter
    <3>5. Cardinality(k) \in Nat /\ Cardinality(k) >= 2
      <4>1. <<"count", <<t, 1>>>> # <<"cell", <<c, i>>>>
        OBVIOUS
      <4> QED  BY <3>3, <3>4, <3>k, <4>1, TwoWithin
    <3>6. Cardinality(Claims(t, v)') = 1
      BY <3>1, FS_Singleton
    <3> QED  BY <3>1, <3>5, <3>6, <3>k DEF Enough
  <2>11. \A j \in DOMAIN q : q[j].op = "retain"
    BY <2>2, <2>3
  <2> QED  BY <2>1, <2>10, <2>11, StartedPlain
<1> QED  BY <1>10, <1>11, <1>12 DEF Reaches

(* Taking an entry off the weak list takes a mention of its key away.       *)
LEMMA UnlinkReaches ==
  ASSUME ReachNow, Defined' => HeapTypeOK', NEW t \in Threads, todo[t] # <<>>, NEW o \in Objects, NEW p \in Links, NEW n \in Nodes,
         Head(todo[t]) = Unlinking(o, p, n), Unlink(t, o, p, n)
  PROVE  Reaches
<1> DEFINE ops == <<Visiting(o, p)>>
<1>0. /\ HeapTypeOK /\ touched = {} /\ Before(t, ops) /\ UNCHANGED <<mem, rc, cells, held, borrowed, skew, touched>>
      /\ node' = [node EXCEPT ![n].used = "freed"]
  BY DEF ReachNow, HeapOK, Unlink, counts, Defined
<1>1. /\ Visiting(o, p).op = "visit" /\ Unlinking(o, p, n).op = "unlink" /\ Unlinking(o, p, n).entry = n
      /\ Visiting(o, p) \in Operations /\ \A i \in DOMAIN ops : ops[i] = Visiting(o, p)
  BY Primitives DEF Visiting, Unlinking
<1>2. ops \in Seq(Operations) /\ ops # <<>> /\ 1 \in DOMAIN ops
  BY <1>1, ShortLists
<1> HIDE DEF ops
<1>3. GoesOn(t, ops) /\ First(t) = {Unlinking(o, p, n)} /\ <<t, 1>> \in Places /\ At(<<t, 1>>) = Unlinking(o, p, n)
  BY <1>0, FirstStep DEF GoesOn, First
<1>4. /\ node'[n].used = "freed" /\ \A m \in Nodes \ {n} : node'[m] = node[m]
      /\ \A w : n \notin KeyOf(w)
  <2> PICK e : e = node[n]
    OBVIOUS
  <2> PICK e1 : e1 = [e EXCEPT !.used = "freed"]
    OBVIOUS
  <2>1. node' = [node EXCEPT ![n] = e1] /\ n \in DOMAIN node /\ DOMAIN node = Nodes
    BY <1>0 DEF HeapTypeOK
  <2>2. e1.used = "freed"
    <3>1. e \in [used : {"no", "yes", "freed"}, on : Values, var : WeakVars \cup {Null}, dict : Values, key : Values]
      BY <1>0 DEF HeapTypeOK
    <3> QED  BY <3>1
  <2>3. UnlinkSoon(n)
    BY <1>1, <1>3 DEF UnlinkSoon
  <2> QED  BY <2>1, <2>2, <2>3 DEF KeyOf
<1>5. \A c \in Objects, w \in Objects : RefsIn(c, w)' \subseteq RefsIn(c, w)
  <2> TAKE c \in Objects, w \in Objects
  <2>1. \A i \in DOMAIN cells[c] : Marked(t, ops, c, i)
    BY <1>1, <1>3 DEF Marked, EmptiesPast, StoresAt
  <2> QED  BY <1>0, <1>2, <1>3, <2>1, RefsFewer
<1>6. \A w : KeyOf(w)' \subseteq KeyOf(w)
  <2>1. \A m \in Nodes : node'[m].used = "yes" => node'[m] = node[m] /\ First(t) \cap UnlinksOf(m) = {}
    BY <1>1, <1>3, <1>4 DEF UnlinksOf
  <2> QED  BY <1>0, <1>2, <1>3, <2>1, KeysFewer
<1>7. \A w \in Objects : Mentioned(w)' => Mentioned(w)
  <2> TAKE w \in Objects
  <2>1. /\ \A u \in Threads : held'[u][w] > 0 => Mentioned(w)
        /\ \A c \in Objects : RefsIn(c, w)' # {} => Mentioned(w)
        /\ KeyOf(w)' # {} => Mentioned(w)
        /\ \A j \in DOMAIN ops : About(ops[j], w) => Mentioned(w)
    BY <1>0, <1>1, <1>5, <1>6 DEF Mentioned, About
  <2> QED  BY <1>0, <1>2, <1>3, <2>1, MentionFewer
<1>8. Harmless
  <2>1. \A w \in Objects : skew'[w] \in Int /\ skew'[w] <= skew[w]
    BY <1>0 DEF HeapTypeOK
  <2> QED  BY <1>0, <1>7, <2>1 DEF Harmless, Dead
<1>9. \A u \in Threads : \A c \in Objects : held'[u][c] >= held[u][c]
  BY <1>0 DEF HeapTypeOK
<1>10. \A u \in Threads : \A w \in Objects : Spared(t, ops, u, w)
  <2> SUFFICES ASSUME NEW u \in Threads, NEW w \in Objects PROVE Spared(t, ops, u, w)
    OBVIOUS
  <2>1. \A i \in DOMAIN ops : \A c, k, m : ops[i] \notin EmptiesPast(c, k) /\ ops[i] \notin StoresAt(c, k) /\ ops[i] \notin UnlinksOf(m)
    BY <1>1 DEF EmptiesPast, StoresAt, UnlinksOf
  <2>2. \A m \in KeysBy(u, w) : node'[m] = node[m]
    BY <1>4 DEF KeysBy, KeyOf
  <2> QED  BY <1>0, <1>9, <2>1, <2>2 DEF Spared, RefsIn, Counted
<1>11. Ready(t, ops)
  BY <1>1, <1>2, <1>9 DEF Ready
<1> QED  BY <1>0, <1>2, <1>8, <1>10, <1>11, StepReaches DEF HeapTypeOK

(* The end of an emptying: nothing counted any more in what is given back. *)
LEMMA EmptyEndReaches ==
  ASSUME ReachNow, Defined' => HeapTypeOK', NEW t \in Threads, todo[t] # <<>>, NEW o \in Objects, NEW i \in Nat \ {0},
         Head(todo[t]) = Emptying(o, i), Empty(t, o, i), i > Len(cells[o])
  PROVE  Reaches
<1>p. PICK ops : ops = <<>>
  OBVIOUS
<1>0. /\ HeapTypeOK /\ StepsInv /\ touched = {} /\ UNCHANGED <<rc, cells, node, held, borrowed, skew, touched>>
      /\ mem' = [mem EXCEPT ![o] = "freed"] /\ Before(t, ops)
  BY <1>p DEF ReachNow, HeapOK, Empty, weak, Defined
<1>1. /\ Emptying(o, i).op = "empty" /\ Emptying(o, i).on = o /\ Emptying(o, i).at = i
      /\ ops \in Seq(Operations) /\ DOMAIN ops = {}
  BY <1>p, ShortLists DEF Emptying
<1>2. /\ GoesOn(t, ops) /\ First(t) = {Emptying(o, i)} /\ <<t, 1>> \in Places /\ At(<<t, 1>>) = Emptying(o, i)
  BY <1>0, FirstStep DEF GoesOn, First
<1>3. mem[o] = "dying" /\ mem'[o] = "freed" /\ \A c \in Objects \ {o} : mem'[c] = mem[c]
  <2>1. StepOK(<<t, 1>>[1], At(<<t, 1>>))
    BY <1>0, <1>2 DEF StepsInv
  <2>2. mem[o] = "dying"
    BY <1>1, <1>2, <2>1 DEF StepOK
  <2> QED  BY <1>0, <2>2 DEF HeapTypeOK
<1>4. \A w : RefsIn(o, w) = {}
  <2> SUFFICES ASSUME NEW w, NEW k \in RefsIn(o, w) PROVE FALSE
    OBVIOUS
  <2>1. k \in Nat /\ k < i
    BY <1>0, CellsNumbered DEF RefsIn
  <2>2. Released(o, k)
    BY <1>1, <1>2, <2>1 DEF Released
  <2> QED  BY <2>2 DEF RefsIn, Counted
<1>5. \A c \in Objects, w \in Objects : RefsIn(c, w)' \subseteq RefsIn(c, w)
  <2> TAKE c \in Objects, w \in Objects
  <2>1. CASE c = o
    BY <1>3, <2>1 DEF RefsIn, Counted
  <2>2. CASE c # o
    <3>1. \A k \in DOMAIN cells[c] : Marked(t, ops, c, k)
      BY <1>1, <1>2, <2>2 DEF Marked, EmptiesPast, StoresAt
    <3> QED  BY <1>0, <1>1, <1>2, <1>3, <2>2, <3>1, RefsFewer
  <2> QED  BY <2>1, <2>2
<1>6. \A w : KeyOf(w)' \subseteq KeyOf(w)
  <2>1. \A m \in Nodes : First(t) \cap UnlinksOf(m) = {}
    BY <1>1, <1>2 DEF UnlinksOf
  <2> QED  BY <1>0, <1>1, <1>2, <2>1, KeysFewer
<1>7. \A w \in Objects : Mentioned(w)' => Mentioned(w)
  <2> TAKE w \in Objects
  <2>1. /\ \A u \in Threads : held'[u][w] > 0 => Mentioned(w)
        /\ \A c \in Objects : RefsIn(c, w)' # {} => Mentioned(w)
        /\ KeyOf(w)' # {} => Mentioned(w)
        /\ \A j \in DOMAIN ops : About(ops[j], w) => Mentioned(w)
    BY <1>0, <1>1, <1>5, <1>6 DEF Mentioned, About
  <2> QED  BY <1>0, <1>1, <1>2, <2>1, MentionFewer
<1>8. Harmless
  <2>1. \A w \in Objects : skew'[w] \in Int /\ skew'[w] <= skew[w]
    BY <1>0 DEF HeapTypeOK
  <2>2. \A w \in Objects : Dead(w)' => Dead(w)
    BY <1>3 DEF Dead
  <2> QED  BY <1>0, <1>7, <2>1, <2>2 DEF Harmless
<1>9. \A u \in Threads : \A c \in Objects : held'[u][c] >= held[u][c]
  BY <1>0 DEF HeapTypeOK
<1>10. \A u \in Threads : \A w \in Objects : Spared(t, ops, u, w)
  <2> SUFFICES ASSUME NEW u \in Threads, NEW w \in Objects PROVE Spared(t, ops, u, w)
    OBVIOUS
  <2>1. \A c \in Objects : \A k \in RefsIn(c, w) : c # o /\ mem'[c] \in {"live", "dying"}
    BY <1>3, <1>4 DEF RefsIn, Counted
  <2> QED  BY <1>0, <1>1, <1>9, <2>1 DEF Spared, RefsIn
<1>11. Ready(t, ops)
  BY <1>1, <1>9, <1>10, <1>p DEF Ready
<1> QED  BY <1>0, <1>1, <1>8, <1>10, <1>11, StepReaches DEF HeapTypeOK

(* A round of it: what a cell stood for is now a release to do. *)
LEMMA EmptyReaches ==
  ASSUME ReachNow, Defined' => HeapTypeOK', NEW t \in Threads, todo[t] # <<>>, NEW o \in Objects, NEW i \in Nat \ {0},
         Head(todo[t]) = Emptying(o, i), Empty(t, o, i), i <= Len(cells[o])
  PROVE  Reaches
<1>v. PICK v : v = cells[o][i].to
  OBVIOUS
<1>e. PICK ex \in BOOLEAN : ex <=> cells[o][i].weak \/ Replaced(o, i)
  OBVIOUS
<1> DEFINE ops == <<Releasing(v), Emptying(o, i + 1)>>
<1>0. /\ HeapTypeOK /\ StepsInv /\ touched = {} /\ UNCHANGED <<mem, rc, cells, node, held, touched>>
      /\ Before(t, ops) /\ skew' = (IF ex THEN [skew EXCEPT ![v] = @ + 1] ELSE skew)
      /\ borrowed' = borrowed \cup (IF ex THEN {v} ELSE {}) \cup Orphaned(o, i)
      /\ skew \in [Objects -> Int]
  <2>1. HeapTypeOK /\ StepsInv /\ touched = {} /\ Len(cells[o]) \in Nat
    BY CellsNumbered DEF ReachNow, HeapOK, Defined
  <2>2. ~(i > Len(cells[o]))
    BY <2>1
  <2> QED  BY <1>v, <1>e, <2>1, <2>2 DEF Empty, Excess, Surplus, weak, HeapTypeOK
<1>1. /\ Emptying(o, i).op = "empty" /\ Emptying(o, i).on = o /\ Emptying(o, i).at = i
      /\ Emptying(o, i + 1).op = "empty" /\ Emptying(o, i + 1).on = o /\ Emptying(o, i + 1).at = i + 1
      /\ Releasing(v).op = "release" /\ Releasing(v).on = v
  BY DEF Emptying, Releasing
<1>2. i \in DOMAIN cells[o] /\ v \in Values /\ \A c \in Objects : \A j \in DOMAIN cells[c] : j \in Nat
  BY <1>0, <1>v, CellsNumbered DEF Cell
<1>3. /\ ops \in Seq(Operations) /\ ops # <<>> /\ DOMAIN ops = {1, 2} /\ ops[1] = Releasing(v) /\ ops[2] = Emptying(o, i + 1)
  <2>1. Releasing(v) \in Operations /\ Emptying(o, i + 1) \in Operations
    BY <1>2, Primitives
  <2> QED  BY <2>1, ShortLists
<1> HIDE DEF ops
<1>4. /\ GoesOn(t, ops) /\ First(t) = {Emptying(o, i)} /\ <<t, 1>> \in Places /\ At(<<t, 1>>) = Emptying(o, i)
  BY <1>0, FirstStep DEF GoesOn, First
<1>5. mem[o] = "dying" /\ \A x \in Places \ {<<t, 1>>} : ~(At(x).op = "empty" /\ At(x).on = o)
  <2>1. StepOK(<<t, 1>>[1], At(<<t, 1>>))
    BY <1>0, <1>4 DEF StepsInv
  <2>2. mem[o] = "dying"
    BY <1>1, <1>4, <2>1 DEF StepOK
  <2>3. ASSUME NEW x \in Places \ {<<t, 1>>}, At(x).op = "empty", At(x).on = o PROVE FALSE
    <3>1. Rivals(At(x), At(<<t, 1>>))
      BY <1>1, <1>4, <2>3 DEF Rivals
    <3> QED  BY <1>0, <1>4, <3>1, OneOfAKind
  <2> QED  BY <2>2, <2>3
<1>6. ~Released(o, i)
  BY <1>1, <1>4, <1>5 DEF Released
<1>7. v \in Objects /\ ~ex => i \in RefsIn(o, v)
  BY <1>2, <1>5, <1>6, <1>e, <1>v DEF RefsIn, Counted, HeapAssumption
<1>8. \A c \in Objects, w \in Objects : RefsIn(c, w)' \subseteq RefsIn(c, w)
  <2> TAKE c \in Objects, w \in Objects
  <2>1. \A k \in DOMAIN cells[c] : Marked(t, ops, c, k)
    <3> SUFFICES ASSUME NEW k \in DOMAIN cells[c] PROVE Marked(t, ops, c, k)
      OBVIOUS
    <3>1. First(t) \cap StoresAt(c, k) = {}
      BY <1>1, <1>4 DEF StoresAt
    <3>2. ASSUME First(t) \cap EmptiesPast(c, k) # {} PROVE ops[2] \in EmptiesPast(c, k)
      <4>1. c = o /\ i > k /\ k \in Nat
        BY <1>1, <1>2, <1>4, <3>2 DEF EmptiesPast
      <4>2. Emptying(o, i + 1) \in Operations /\ i + 1 > k
        BY <4>1, Primitives
      <4> QED  BY <1>1, <1>3, <4>1, <4>2 DEF EmptiesPast
    <3> QED  BY <1>3, <3>1, <3>2 DEF Marked
  <2> QED  BY <1>0, <1>3, <1>4, <2>1, RefsFewer
<1>9. \A w : KeyOf(w)' \subseteq KeyOf(w)
  <2>1. \A m \in Nodes : First(t) \cap UnlinksOf(m) = {}
    BY <1>1, <1>4 DEF UnlinksOf
  <2> QED  BY <1>0, <1>3, <1>4, <2>1, KeysFewer
<1>10. \A w \in Objects \ borrowed' : Mentioned(w)' => Mentioned(w)
  <2> TAKE w \in Objects \ borrowed'
  <2>1. \A j \in DOMAIN ops : About(ops[j], w) => Mentioned(w)
    <3> SUFFICES ASSUME NEW j \in DOMAIN ops, About(ops[j], w) PROVE Mentioned(w)
      OBVIOUS
    <3>1. w = v
      BY <1>1, <1>3 DEF About
    <3>2. ~ex
      BY <1>0, <3>1
    <3> QED  BY <1>7, <3>1, <3>2 DEF Mentioned
  <2>2. /\ \A u \in Threads : held'[u][w] > 0 => Mentioned(w)
        /\ \A c \in Objects : RefsIn(c, w)' # {} => Mentioned(w)
        /\ KeyOf(w)' # {} => Mentioned(w)
    BY <1>0, <1>8, <1>9 DEF Mentioned
  <2> QED  BY <1>0, <1>3, <1>4, <2>1, <2>2, MentionFewer
<1>11. skew' \in [Objects -> Int]
  <2>1. CASE v \in Objects
    BY <1>0, <2>1
  <2>2. CASE v \notin Objects
    <3>1. [skew EXCEPT ![v] = @ + 1] = skew
      BY <1>0, <2>2
    <3> QED  BY <1>0, <3>1
  <2> QED  BY <2>1, <2>2
<1>12. Harmless
  <2>1. \A w \in Objects \ borrowed' : skew'[w] \in Int /\ skew'[w] <= skew[w]
    <3> SUFFICES ASSUME NEW w \in Objects \ borrowed' PROVE skew'[w] \in Int /\ skew'[w] <= skew[w]
      OBVIOUS
    <3>1. skew'[w] = skew[w]
      BY <1>0
    <3> QED  BY <1>0, <3>1
  <2> QED  BY <1>0, <1>10, <2>1 DEF Harmless, Dead
<1>13. \A u \in Threads : \A c \in Objects : held'[u][c] >= held[u][c]
  BY <1>0 DEF HeapTypeOK
<1>14. \A u \in Threads : \A w \in Objects \ borrowed' : Spared(t, ops, u, w)
  <2> SUFFICES ASSUME NEW u \in Threads, NEW w \in Objects \ borrowed' PROVE Spared(t, ops, u, w)
    OBVIOUS
  <2>1. ASSUME NEW c \in Objects, NEW k \in RefsIn(c, w), Owner[c] = u, held[u][c] > 0, NEW j \in DOMAIN ops
        PROVE  ops[j] \notin EmptiesPast(c, k) /\ ops[j] \notin StoresAt(c, k)
    <3>1. ops[j] \notin StoresAt(c, k)
      BY <1>1, <1>3 DEF StoresAt
    <3>2. ASSUME ops[j] \in EmptiesPast(c, k) PROVE FALSE
      <4>1. c = o /\ i + 1 > k /\ k \in Nat /\ k \in DOMAIN cells[c]
        BY <1>1, <1>2, <1>3, <3>2 DEF EmptiesPast, RefsIn
      <4>2. ~(i > k)
        BY <1>1, <1>4, <4>1, <2>1 DEF RefsIn, Counted, Released
      <4>3. k = i
        BY <4>1, <4>2
      <4>4. w = v
        BY <1>v, <4>1, <4>3 DEF RefsIn
      <4>5. v \in Orphaned(o, i)
        BY <1>v, <2>1, <4>1 DEF Orphaned
      <4> QED  BY <1>0, <4>4, <4>5
    <3> QED  BY <3>1, <3>2
  <2>2. \A j \in DOMAIN ops : \A m : ops[j] \notin UnlinksOf(m)
    BY <1>1, <1>3 DEF UnlinksOf
  <2> QED  BY <1>0, <1>13, <2>1, <2>2 DEF Spared, RefsIn, Counted
<1>15. Ready(t, ops)
  <2>1. ops # <<>> /\ 1 \in DOMAIN ops /\ ops[1].op # "retain"
    BY <1>1, <1>3
  <2>2. \A j \in DOMAIN ops : ops[j].op \notin {"store", "retain"}
    BY <1>1, <1>3
  <2>3. Head(todo[t]).op \notin {"store", "retain"}
    BY <1>1
  <2> QED  BY <1>13, <2>1, <2>2, <2>3 DEF Ready
<1> QED  BY <1>0, <1>3, <1>11, <1>12, <1>14, <1>15, StepReaches

(* A round of the walk that ends, passes on or clears a variable: nothing   *)
(* that counts is lost.                                                     *)
LEMMA PassReaches ==
  ASSUME ReachNow, Defined' => HeapTypeOK', NEW t \in Threads, todo[t] # <<>>, NEW o \in Objects, NEW p \in Links,
         Head(todo[t]) = Visiting(o, p), Visit(t, o, p),
         broken' \/ (link[p] # Null /\ node[link[p]].on = o => node[link[p]].var # Null)
  PROVE  Reaches
<1>n. PICK n : n = link[p]
  OBVIOUS
<1>f. PICK found \in BOOLEAN : found <=> n # Null /\ node[n].on = o
  OBVIOUS
<1>e. PICK ends \in BOOLEAN : ends <=> n = Null \/ broken'
  OBVIOUS
<1> DEFINE ops == IF ends THEN <<>> ELSE IF found THEN <<Unlinking(o, p, n)>> ELSE <<Visiting(o, n)>>
<1>0. /\ HeapTypeOK /\ NodesInv /\ touched = {} /\ UNCHANGED <<mem, rc, held, node, link>>
  BY DEF ReachNow, HeapOK, Visit, Defined
<1>1. n \in Links /\ (~ends => n \in Nodes /\ node[n].used = "yes")
  BY <1>0, <1>n, <1>e DEF HeapTypeOK, Links, Visit
<1>2. Before(t, ops) /\ UNCHANGED <<cells, skew, borrowed, touched>>
  BY <1>n, <1>f, <1>e DEF Visit, RefersTo, ClearVar
<1>3. /\ Visiting(o, p).op = "visit" /\ Visiting(o, n).op = "visit"
      /\ Unlinking(o, p, n).op = "unlink" /\ Unlinking(o, p, n).entry = n
  BY DEF Visiting, Unlinking
<1>4. ops \in Seq(Operations)
      /\ \A i \in DOMAIN ops : ~ends /\ (ops[i] = Visiting(o, n) \/ (found /\ ops[i] = Unlinking(o, p, n)))
  <2>1. Visiting(o, n) \in Operations /\ (~ends => Unlinking(o, p, n) \in Operations)
    BY <1>1, Primitives
  <2> QED  BY <2>1, ShortLists
<1>r. ops # <<>> => \E i \in DOMAIN ops : ops[i].op # "retain"
  <2>1. CASE ends
    BY <2>1
  <2>2. CASE ~ends
    <3>1. 1 \in DOMAIN ops /\ ops[1] \in {Unlinking(o, p, n), Visiting(o, n)}
      BY <2>2
    <3> HIDE DEF ops
    <3> QED  BY <1>3, <3>1
  <2> QED  BY <2>1, <2>2
<1> HIDE DEF ops
<1>5. GoesOn(t, ops) /\ First(t) = {Visiting(o, p)}
  BY <1>2 DEF GoesOn, First
<1>6. ~ends /\ found => \A w \in Objects : n \notin KeyOf(w)
  BY <1>0, <1>1, <1>n, <1>f, <1>e DEF NodesInv, KeyOf, HeapAssumption
<1>7. \A c \in Objects, w \in Objects : RefsIn(c, w)' \subseteq RefsIn(c, w)
  <2> TAKE c \in Objects, w \in Objects
  <2>1. \A i \in DOMAIN cells[c] : Marked(t, ops, c, i)
    BY <1>3, <1>5 DEF Marked, EmptiesPast, StoresAt
  <2> QED  BY <1>0, <1>2, <1>4, <1>5, <2>1, RefsFewer
<1>8. \A w : KeyOf(w)' \subseteq KeyOf(w)
  <2>1. \A m \in Nodes : First(t) \cap UnlinksOf(m) = {}
    BY <1>3, <1>5 DEF UnlinksOf
  <2> QED  BY <1>0, <1>4, <1>5, <2>1, KeysFewer
<1>9. \A w \in Objects : Mentioned(w)' => Mentioned(w)
  <2> TAKE w \in Objects
  <2>1. /\ \A u \in Threads : held'[u][w] > 0 => Mentioned(w)
        /\ \A c \in Objects : RefsIn(c, w)' # {} => Mentioned(w)
        /\ KeyOf(w)' # {} => Mentioned(w)
        /\ \A j \in DOMAIN ops : About(ops[j], w) => Mentioned(w)
    BY <1>0, <1>3, <1>4, <1>7, <1>8 DEF Mentioned, About
  <2> QED  BY <1>0, <1>4, <1>5, <2>1, MentionFewer
<1>10. Harmless
  <2>1. \A w \in Objects : skew'[w] \in Int /\ skew'[w] <= skew[w]
    BY <1>0, <1>2 DEF HeapTypeOK
  <2> QED  BY <1>0, <1>2, <1>9, <2>1 DEF Harmless, Dead
<1>11. \A u \in Threads : \A c \in Objects : held'[u][c] >= held[u][c]
  BY <1>0 DEF HeapTypeOK
<1>12. \A u \in Threads : \A w \in Objects : Spared(t, ops, u, w)
  <2> SUFFICES ASSUME NEW u \in Threads, NEW w \in Objects PROVE Spared(t, ops, u, w)
    OBVIOUS
  <2>1. \A i \in DOMAIN ops : \A c, k : ops[i] \notin EmptiesPast(c, k) /\ ops[i] \notin StoresAt(c, k)
    BY <1>3, <1>4 DEF EmptiesPast, StoresAt
  <2>2. \A m \in KeysBy(u, w) : \A i \in DOMAIN ops : ops[i] \notin UnlinksOf(m)
    BY <1>3, <1>4, <1>6 DEF KeysBy, UnlinksOf
  <2> QED  BY <1>0, <1>2, <1>11, <2>1, <2>2 DEF Spared, RefsIn, Counted
<1>13. Ready(t, ops)
  <2>1. \A i \in DOMAIN ops : ops[i].op \notin {"store", "retain"}
    BY <1>3, <1>4
  <2> QED  BY <1>3, <1>r, <1>11, <1>12, <2>1 DEF Ready
<1> QED  BY <1>0, <1>2, <1>4, <1>10, <1>12, <1>13, StepReaches DEF HeapTypeOK

(* A round that clears a dictionary's entry: a key kept by the weak list is *)
(* now a release to do, and one retained first is in a cell.                *)
LEMMA EntryReaches ==
  ASSUME ReachNow, Defined' => HeapTypeOK', NEW t \in Threads, todo[t] # <<>>, NEW o \in Objects,
         NEW p \in Links, Head(todo[t]) = Visiting(o, p), Visit(t, o, p), ~broken',
         link[p] # Null, node[link[p]].on = o, node[link[p]].var = Null
  PROVE  Reaches
<1>n. PICK n : n = link[p]
  OBVIOUS
<1>d. PICK d : d = node[n].dict
  OBVIOUS
<1>k. PICK k : k = node[n].key
  OBVIOUS
<1>new. PICK new \in BOOLEAN : new <=> Entry(d, k) = {}
  OBVIOUS
<1>in. PICK in \in BOOLEAN : in <=> InTable(d, k)
  OBVIOUS
<1> DEFINE ops == IF new THEN <<Retaining(k), Releasing(k), Unlinking(o, p, n)>>
                  ELSE <<Releasing(k), Unlinking(o, p, n)>>
<1>0. /\ HeapTypeOK /\ BornInv /\ CellsInv /\ NodesInv /\ StepsInv /\ touched = {}
      /\ UNCHANGED <<mem, rc, held, node, link>>
  BY <1>n DEF ReachNow, HeapOK, Visit, Defined
<1>1. /\ n \in Nodes /\ node[n].used = "yes" /\ node[n].on = o /\ d \in Objects /\ Kind[d] = "dict" /\ k \in Objects
      /\ k \in Values /\ k # Null
  <2>1. n \in Nodes /\ node[n].used = "yes"
    BY <1>0, <1>n DEF HeapTypeOK, Links, Visit
  <2>2. d \in Objects /\ Kind[d] = "dict" /\ k \in Objects
    BY <1>0, <1>n, <1>d, <1>k, <2>1 DEF NodesInv
  <2> QED  BY <1>n, <2>1, <2>2 DEF Values, HeapAssumption
<1>2. /\ IF in THEN SetWeak(d, k, Null) /\ touched' = {} ELSE touched' = {d} /\ UNCHANGED <<cells, skew>>
      /\ Before(t, KeyRetained(d, k) \o <<Releasing(k), Unlinking(o, p, n)>>)
      /\ raced' = (Owner[d] # t) /\ borrowed' = borrowed \cup (IF Written(t, n) THEN {k} ELSE {})
  <2>1. ClearEntry(n) /\ raced' = (Owner[d] # t) /\ borrowed' = borrowed \cup (IF Written(t, n) THEN {k} ELSE {})
        /\ Before(t, KeyRetained(d, k) \o <<Releasing(k), Unlinking(o, p, n)>>)
    BY <1>n, <1>d, <1>k DEF Visit, RefersTo
  <2> QED  BY <1>0, <1>d, <1>k, <1>in, <2>1 DEF ClearEntry
<1>3. Retaining(k) \in Operations /\ Releasing(k) \in Operations /\ Unlinking(o, p, n) \in Operations
  BY <1>1, Primitives
<1>4. GoesOn(t, ops) /\ Before(t, ops) /\ ops \in Seq(Operations)
  <2>1. KeyRetained(d, k) \o <<Releasing(k), Unlinking(o, p, n)>> = ops
    <3>1. CASE new
      <4>1. KeyRetained(d, k) = <<Retaining(k)>>
        BY <1>new, <3>1 DEF KeyRetained
      <4>2. <<Retaining(k)>> \o <<Releasing(k), Unlinking(o, p, n)>> = <<Retaining(k), Releasing(k), Unlinking(o, p, n)>>
        BY Prepended
      <4> QED  BY <3>1, <4>1, <4>2
    <3>2. CASE ~new
      <4>1. KeyRetained(d, k) = <<>>
        BY <1>new, <3>2 DEF KeyRetained
      <4>2. <<>> \o <<Releasing(k), Unlinking(o, p, n)>> = <<Releasing(k), Unlinking(o, p, n)>>
        OBVIOUS
      <4> QED  BY <3>2, <4>1, <4>2
    <3> QED  BY <3>1, <3>2
  <2> QED  BY <1>2, <1>3, <2>1, ShortLists DEF GoesOn
<1>5. /\ \A i \in DOMAIN ops : \/ new /\ i = 1 /\ ops[i] = Retaining(k) /\ 2 \in DOMAIN ops /\ ops[2] = Releasing(k)
                               \/ ops[i] = Releasing(k)
                               \/ ops[i] = Unlinking(o, p, n)
      /\ ops # <<>> /\ \E i \in DOMAIN ops : ops[i] = Releasing(k)
  <2>1. CASE new
    <3>1. ops = <<Retaining(k), Releasing(k), Unlinking(o, p, n)>>
      BY <2>1
    <3> HIDE DEF ops
    <3>2. DOMAIN ops = {1, 2, 3} /\ ops[1] = Retaining(k) /\ ops[2] = Releasing(k) /\ ops[3] = Unlinking(o, p, n) /\ ops # <<>>
      BY <3>1
    <3> QED  BY <2>1, <3>2
  <2>2. CASE ~new
    <3>1. ops = <<Releasing(k), Unlinking(o, p, n)>>
      BY <2>2
    <3> HIDE DEF ops
    <3>2. DOMAIN ops = {1, 2} /\ ops[1] = Releasing(k) /\ ops[2] = Unlinking(o, p, n) /\ ops # <<>>
      BY <3>1
    <3> QED  BY <3>2
  <2> QED  BY <2>1, <2>2
<1> HIDE DEF ops
<1>6. /\ Visiting(o, p).op = "visit" /\ Visiting(o, p).on = o
      /\ Retaining(k).op = "retain" /\ Retaining(k).on = k /\ Releasing(k).op = "release" /\ Releasing(k).on = k
      /\ Unlinking(o, p, n).op = "unlink" /\ Unlinking(o, p, n).on = o /\ Unlinking(o, p, n).entry = n
  BY DEF Visiting, Unlinking, Retaining, Releasing
<1>7. /\ First(t) = {Visiting(o, p)} /\ <<t, 1>> \in Places /\ At(<<t, 1>>) = Visiting(o, p)
  BY <1>0, FirstStep DEF First
<1>8. Unmarked(t, ops)
  BY <1>5, <1>6, <1>7 DEF Unmarked, Marking
<1>9. ~UnlinkSoon(n) /\ n \in KeyOf(k)
  <2>1. ~UnlinkSoon(n)
    <3> SUFFICES ASSUME NEW x \in Places, At(x).op = "unlink", At(x).entry = n PROVE FALSE
      BY DEF UnlinkSoon
    <3>1. StepOK(x[1], At(x))
      BY <1>0 DEF StepsInv
    <3>2. At(x).on = o
      BY <1>1, <3>1 DEF StepOK
    <3>3. Rivals(At(x), At(<<t, 1>>))
      BY <1>6, <1>7, <3>2 DEF Rivals
    <3>4. x = <<t, 1>>
      BY <1>0, <1>7, <3>3, OneOfAKind
    <3> QED  BY <1>6, <1>7, <3>4
  <2> QED  BY <1>1, <1>k, <2>1 DEF KeyOf
<1>10. Mentioned(k)
  BY <1>9 DEF Mentioned
<1>11. in /\ new => /\ mem[d] = "live" /\ cells' = WithEntry(d, k, Weakly(Null)) /\ skew' = skew
  BY <1>2, <1>in, <1>new DEF SetWeak, InTable
<1>12. in /\ ~new => /\ cells' = Overwritten(d, Value(d, k), Weakly(Null)) /\ skew' = Leak(d, Value(d, k))
                     /\ Value(d, k) \in DOMAIN cells[d]
  BY <1>0, <1>1, <1>2, <1>new, ValueIsThere DEF SetWeak
<1>13. ~in => UNCHANGED <<cells, skew>>
  BY <1>2
<1>14. \A c \in Objects \ {d} : cells'[c] = cells[c]
  BY <1>0, <1>11, <1>12, <1>13 DEF WithEntry, Overwritten, HeapTypeOK
<1>15. in /\ new => LET m == Len(cells[d]) IN
         /\ m \in Nat /\ DOMAIN cells[d] = 1 .. m
         /\ DOMAIN cells'[d] = 1 .. m + 2 /\ cells'[d][m + 1] = Strong(k) /\ cells'[d][m + 2] = Weakly(Null)
         /\ \A j \in 1 .. m : cells'[d][j] = cells[d][j]
  <2> SUFFICES ASSUME in, new PROVE LET m == Len(cells[d]) IN
         /\ m \in Nat /\ DOMAIN cells[d] = 1 .. m
         /\ DOMAIN cells'[d] = 1 .. m + 2 /\ cells'[d][m + 1] = Strong(k) /\ cells'[d][m + 2] = Weakly(Null)
         /\ \A j \in 1 .. m : cells'[d][j] = cells[d][j]
    OBVIOUS
  <2>s. PICK s \in Seq(Cell) : s = cells[d] /\ Len(s) \in Nat /\ DOMAIN s = 1 .. Len(s)
    BY <1>0, <1>1, CellsNumbered
  <2>a. PICK a \in Cell : a = Strong(k)
    BY <1>1 DEF Strong, Cell
  <2>b. PICK b \in Cell : b = Weakly(Null)
    BY DEF Weakly, Cell, Values
  <2>1. cells'[d] = s \o <<a, b>>
    BY <1>0, <1>1, <1>11, <2>s, <2>a, <2>b DEF WithEntry, HeapTypeOK
  <2>2. LET q == s \o <<a, b>> IN
          DOMAIN q = 1 .. Len(s) + 2 /\ q[Len(s) + 1] = a /\ q[Len(s) + 2] = b /\ \A j \in 1 .. Len(s) : q[j] = s[j]
    BY <2>s
  <2> QED  BY <2>s, <2>a, <2>b, <2>1, <2>2
<1>16. in /\ ~new => /\ DOMAIN cells'[d] = DOMAIN cells[d]
                     /\ \A j \in DOMAIN cells[d] : cells'[d][j] = IF j = Value(d, k) THEN Weakly(Null) ELSE cells[d][j]
  <2>i. PICK i : i = Value(d, k)
    OBVIOUS
  <2>s. PICK s : s = cells[d]
    OBVIOUS
  <2>1. ASSUME in, ~new PROVE cells'[d] = [s EXCEPT ![i] = Weakly(Null)]
    BY <1>0, <1>1, <1>12, <2>1, <2>i, <2>s DEF Overwritten, HeapTypeOK
  <2>2. s \in Seq(Cell)
    BY <1>0, <1>1, <2>s, CellsNumbered
  <2>3. DOMAIN [s EXCEPT ![i] = Weakly(Null)] = DOMAIN s
        /\ \A j \in DOMAIN s : [s EXCEPT ![i] = Weakly(Null)][j] = IF j = i THEN Weakly(Null) ELSE s[j]
    BY <2>2
  <2> QED  BY <2>1, <2>3, <2>i, <2>s
<1>17. /\ Strong(k).to = k /\ ~Strong(k).weak /\ Weakly(Null).to = Null
  BY DEF Strong, Weakly
<1>18. ASSUME NEW c \in Objects, NEW w \in Objects, NEW j \in RefsIn(c, w)' PROVE Mentioned(w)
  <2>1. CASE j \in DOMAIN cells[c] /\ cells'[c][j] = cells[c][j]
    <3>1. Marked(t, ops, c, j)
      BY <1>6, <1>7 DEF Marked, EmptiesPast, StoresAt
    <3>2. j \in RefsIn(c, w)
      BY <1>0, <1>4, <1>18, <2>1, <3>1, CellCounted
    <3> QED  BY <3>2 DEF Mentioned
  <2>2. CASE ~(j \in DOMAIN cells[c] /\ cells'[c][j] = cells[c][j])
    <3>1. j \in DOMAIN cells'[c] /\ cells'[c][j].to = w /\ w # Null
      BY <1>18 DEF RefsIn, HeapAssumption
    <3>2. c = d /\ in
      BY <1>13, <1>14, <2>2, <3>1
    <3>3. CASE new
      <4>m. PICK m \in Nat : m = Len(cells[d])
        BY <1>15, <3>2, <3>3
      <4>1. j = m + 1 \/ j = m + 2
        <5>1. j \in 1 .. m + 2
          BY <1>15, <3>1, <3>2, <3>3, <4>m
        <5>2. j \notin 1 .. m
          BY <1>15, <2>2, <3>2, <3>3, <4>m
        <5>3. m \in Nat
          BY <4>m
        <5> QED  BY <5>1, <5>2, <5>3, TwoMore
      <4> QED  BY <1>10, <1>15, <1>17, <3>1, <3>2, <3>3, <4>m, <4>1
    <3>4. CASE ~new
      BY <1>16, <1>17, <2>2, <3>1, <3>2, <3>4
    <3> QED  BY <3>3, <3>4
  <2> QED  BY <2>1, <2>2
<1>19. \A w : KeyOf(w)' \subseteq KeyOf(w)
  <2>1. \A m \in Nodes : First(t) \cap UnlinksOf(m) = {}
    BY <1>6, <1>7 DEF UnlinksOf
  <2> QED  BY <1>0, <1>4, <2>1, KeysFewer
<1>20. \A w \in Objects : Mentioned(w)' => Mentioned(w)
  <2> TAKE w \in Objects
  <2>1. \A j \in DOMAIN ops : About(ops[j], w) => Mentioned(w)
    BY <1>5, <1>6, <1>10 DEF About
  <2>2. /\ \A u \in Threads : held'[u][w] > 0 => Mentioned(w)
        /\ \A c \in Objects : RefsIn(c, w)' # {} => Mentioned(w)
        /\ KeyOf(w)' # {} => Mentioned(w)
    BY <1>0, <1>18, <1>19 DEF Mentioned
  <2> QED  BY <1>0, <1>4, <2>1, <2>2, MentionFewer
<1>21. skew' \in [Objects -> Int] /\ \A w \in Objects : skew'[w] \in Int /\ skew'[w] <= skew[w]
  <2>1. skew \in [Objects -> Int] /\ (skew' = skew \/ \E i : skew' = [skew EXCEPT ![cells[d][i].to] = @ - 1])
    BY <1>0, <1>11, <1>12, <1>13 DEF HeapTypeOK, Leak
  <2>2. CASE skew' = skew
    BY <2>1, <2>2
  <2>3. ASSUME NEW i, skew' = [skew EXCEPT ![cells[d][i].to] = @ - 1]
        PROVE  skew' \in [Objects -> Int] /\ \A w \in Objects : skew'[w] \in Int /\ skew'[w] <= skew[w]
    <3>x. PICK x : x = cells[d][i].to
      OBVIOUS
    <3>1. skew' = [skew EXCEPT ![x] = @ - 1]
      BY <2>3, <3>x
    <3>2. skew' \in [Objects -> Int]
      <4>1. CASE x \in Objects
        BY <2>1, <3>1, <4>1
      <4>2. CASE x \notin Objects
        <5>1. [skew EXCEPT ![x] = @ - 1] = skew
          BY <2>1, <4>2
        <5> QED  BY <2>1, <3>1, <5>1
      <4> QED  BY <4>1, <4>2
    <3> QED  BY <2>1, <3>1, <3>2
  <2> QED  BY <2>1, <2>2, <2>3
<1>22. Harmless
  <2>1. \A w \in touched' : \E m \in Nodes : node'[m].dict = w
    BY <1>0, <1>1, <1>2, <1>d
  <2> QED  BY <1>0, <1>2, <1>20, <1>21, <2>1 DEF Harmless, Dead
<1>23. \A u \in Threads : \A c \in Objects : held'[u][c] >= held[u][c]
  BY <1>0 DEF HeapTypeOK
<1>24. ASSUME Defined', NEW u \in Threads \ {t}, NEW w \in Objects PROVE Spared(t, ops, u, w)
  <2>1. Owner[d] = t
    BY <1>2, <1>24 DEF Defined
  <2>2. \A i \in DOMAIN ops : \A c, j : ops[i] \notin EmptiesPast(c, j) /\ ops[i] \notin StoresAt(c, j)
    BY <1>5, <1>6 DEF EmptiesPast, StoresAt
  <2>3. \A m \in KeysBy(u, w) : \A i \in DOMAIN ops : ops[i] \notin UnlinksOf(m)
    BY <1>5, <1>6, <1>d, <2>1 DEF KeysBy, UnlinksOf
  <2>4. \A c \in Objects : Owner[c] = u => cells'[c] = cells[c]
    BY <1>14, <2>1
  <2> QED  BY <1>0, <1>23, <2>2, <2>3, <2>4 DEF Spared, RefsIn, Counted
<1>25. ASSUME Defined', new, k \notin borrowed' PROVE \E x : x \in RefsBy(t, k)'
  <2>1. Owner[d] = t /\ in /\ held[t][d] # 0
    <3>1. Owner[d] = t /\ in
      BY <1>2, <1>25 DEF Defined
    <3> QED  BY <1>2, <1>d, <1>k, <1>in, <1>new, <1>25, <3>1 DEF Written
  <2>m. PICK m \in Nat : m = Len(cells[d])
    BY <1>15, <1>25, <2>1
  <2>2. m + 1 \in DOMAIN cells'[d] /\ cells'[d][m + 1] = Strong(k) /\ m + 1 \notin DOMAIN cells[d] /\ mem'[d] = "live" /\ mem[d] = "live"
    BY <1>0, <1>11, <1>15, <1>25, <2>1, <2>m
  <2>3. ~Released(d, m + 1) /\ ~Replaced(d, m + 1)
    <3>1. \A x \in Places : StepOK(x[1], At(x))
      BY <1>0 DEF StepsInv
    <3> QED  BY <2>2, <3>1 DEF StepOK, Released, Replaced
  <2>4. ~Released(d, m + 1)' /\ ~Replaced(d, m + 1)'
    BY <1>0, <1>4, <1>8, <2>3, UnmarkedStay
  <2>5. m + 1 \in RefsIn(d, k)'
    BY <1>1, <1>17, <2>2, <2>4 DEF RefsIn, Counted
  <2>6. held'[t][d] > 0
    <3>1. held[t][d] \in Nat /\ held' = held
      BY <1>0, <1>1 DEF HeapTypeOK
    <3> QED  BY <2>1, <3>1
  <2>7. <<d, m + 1>> \in RefsBy(t, k)'
    BY <1>1, <2>1, <2>5, <2>6 DEF RefsBy, References, RefsIn
  <2> QED  BY <2>7
<1>26. ASSUME Defined' PROVE Ready(t, ops)
  <2>1. \A i \in DOMAIN ops :
          /\ ops[i].op # "store"
          /\ ops[i].op = "retain" => /\ i = 1 /\ 2 \in DOMAIN ops /\ ops[2] = Releasing(ops[i].on)
                                     /\ ops[i].on \notin borrowed' => \E x : x \in RefsBy(t, ops[i].on)'
    BY <1>5, <1>6, <1>25, <1>26
  <2>2. ops # <<>> /\ (\E i \in DOMAIN ops : ops[i].op # "retain") /\ Head(todo[t]).op = "visit"
    BY <1>5, <1>6
  <2> QED  BY <1>23, <2>1, <2>2 DEF Ready
<1> QED  BY <1>0, <1>4, <1>21, <1>22, <1>24, <1>26, StepReaches

(* Every step that is left to do leads there. *)
LEMMA StepDoes ==
  ASSUME ReachNow, Defined' => HeapTypeOK', NEW t \in Threads, Step(t)
  PROVE  Reaches
<1>s. PICK s : s = Head(todo[t])
  OBVIOUS
<1>0. HeapTypeOK /\ todo[t] # <<>> /\ s \in Operations
  BY <1>s, FirstStep DEF ReachNow, HeapOK, Step
<1>1. CASE s.op = "retain" /\ Retain(t, s.on)
  <2>1. s.on \in Values /\ Head(todo[t]) = Retaining(s.on)
    BY <1>0, <1>1, <1>s, OperationsAre
  <2> QED  BY <1>0, <1>1, <2>1, RetainReaches
<1>2. CASE s.op = "release" /\ Release(t, s.on)
  <2>1. s.on \in Values /\ Head(todo[t]) = Releasing(s.on)
    BY <1>0, <1>2, <1>s, OperationsAre
  <2> QED  BY <1>0, <1>2, <2>1, ReleaseReaches
<1>3. CASE s.op = "store" /\ Store(t, s.on, s.at, s.value)
  <2>1. s.on \in Objects /\ s.at \in Nat \ {0} /\ s.value \in Objects /\ Head(todo[t]) = Storing(s.on, s.at, s.value)
    BY <1>0, <1>3, <1>s, OperationsAre
  <2> QED  BY <1>0, <1>3, <2>1, StoreReaches
<1>4. CASE s.op = "visit" /\ Visit(t, s.on, s.from)
  <2>1. s.on \in Objects /\ s.from \in Links /\ Head(todo[t]) = Visiting(s.on, s.from)
    BY <1>0, <1>4, <1>s, OperationsAre
  <2>p. PICK p \in Links : p = s.from
    BY <2>1
  <2>o. PICK o \in Objects : o = s.on
    BY <2>1
  <2>2. Visit(t, o, p) /\ Head(todo[t]) = Visiting(o, p)
    BY <1>4, <2>1, <2>p, <2>o
  <2>3. CASE broken' \/ (link[p] # Null /\ node[link[p]].on = o => node[link[p]].var # Null)
    BY <1>0, <2>2, <2>3, PassReaches
  <2>4. CASE ~(broken' \/ (link[p] # Null /\ node[link[p]].on = o => node[link[p]].var # Null))
    BY <1>0, <2>2, <2>4, EntryReaches
  <2> QED  BY <2>3, <2>4
<1>5. CASE s.op = "unlink" /\ Unlink(t, s.on, s.from, s.entry)
  <2>1. s.on \in Objects /\ s.from \in Links /\ s.entry \in Nodes /\ Head(todo[t]) = Unlinking(s.on, s.from, s.entry)
    BY <1>0, <1>5, <1>s, OperationsAre
  <2> QED  BY <1>0, <1>5, <2>1, UnlinkReaches
<1>6. CASE s.op = "empty" /\ Empty(t, s.on, s.at)
  <2>1. s.on \in Objects /\ s.at \in Nat \ {0} /\ Head(todo[t]) = Emptying(s.on, s.at)
    BY <1>0, <1>6, <1>s, OperationsAre
  <2>2. Len(cells[s.on]) \in Nat
    BY <1>0, <2>1, CellsNumbered
  <2>3. s.at > Len(cells[s.on]) \/ s.at <= Len(cells[s.on])
    BY <2>1, <2>2
  <2> QED  BY <1>0, <1>6, <2>1, <2>3, EmptyEndReaches, EmptyReaches
<1> QED  BY <1>1, <1>2, <1>3, <1>4, <1>5, <1>6, <1>s DEF Step

(* What a thread has in hand, or in a container of its own, it keeps.       *)
LEMMA OwnCellKept ==
  ASSUME HeapTypeOK, StepsInv, NEW t \in Threads, todo[t] = <<>>, NEW c \in Objects, mem[c] = "live", Owner[c] = t,
         NEW i \in DOMAIN cells[c], ~cells[c][i].weak, cells[c][i].to # Null
  PROVE  /\ cells[c][i].to \in Objects /\ i \in RefsIn(c, cells[c][i].to) /\ Mentioned(cells[c][i].to)
<1>v. PICK v : v = cells[c][i].to
  OBVIOUS
<1>1. v \in Objects
  BY <1>v, CellsNumbered DEF Cell, Values
<1>2. ~Released(c, i) /\ ~Replaced(c, i)
  BY IdleRefs
<1>3. i \in RefsIn(c, v)
  BY <1>2, <1>v DEF RefsIn, Counted
<1> QED  BY <1>1, <1>3, <1>v DEF Mentioned

(* What a thread may safely use is mentioned, by something it keeps.        *)
LEMMA SafeIsKept ==
  ASSUME HeapTypeOK, StepsInv, NEW t \in Threads, todo[t] = <<>>, NEW v \in Safe(t)
  PROVE  v \in Objects /\ Mentioned(v) /\ \E x : x \in Kept(t, v)
<1>0. v # Null
  BY DEF Safe
<1>1. CASE v \in Held(t)
  <2>1. v \in Objects /\ held[t][v] \in Nat /\ held[t][v] > 0
    BY <1>1 DEF Held, HeapTypeOK
  <2>2. <<t, 1>> \in {t} \X (1 .. held[t][v])
    BY <2>1
  <2>3. <<"count", <<t, 1>>>> \in Kept(t, v)
    BY <2>2 DEF Kept
  <2> QED  BY <2>1, <2>3 DEF Mentioned
<1>2. CASE v \in Lent(t, FALSE)
  <2>1. PICK c \in UNION {Mine(t, k) : k \in {"sequence", "pair", "dict"}} :
          v \in {cells[c][i].to : i \in {j \in DOMAIN cells[c] : cells[c][j].weak = FALSE}}
    BY <1>2 DEF Lent
  <2>2. c \in Objects /\ Owner[c] = t /\ mem[c] = "live" /\ held[t][c] > 0
    BY <2>1 DEF Mine
  <2>3. PICK i \in DOMAIN cells[c] : ~cells[c][i].weak /\ v = cells[c][i].to
    BY <2>1
  <2>4. v \in Objects /\ i \in RefsIn(c, v) /\ Mentioned(v)
    BY <1>0, <2>2, <2>3, OwnCellKept
  <2>5. <<c, i>> \in RefsBy(t, v)
    BY <2>2, <2>4 DEF RefsBy, References, RefsIn
  <2>6. <<"cell", <<c, i>>>> \in Kept(t, v)
    BY <2>5 DEF Kept
  <2> QED  BY <2>4, <2>6
<1> QED  BY <1>1, <1>2 DEF Safe

-----------------------------------------------------------------------------
(* What a call may mention: what was mentioned, what it makes, and what it  *)
(* borrows.                                                                 *)
Fine(v) == v \in Objects /\ (v \notin borrowed' => Mentioned(v) \/ mem'[v] = "live")
Known(r) == r.weak \/ r.to = Null \/ Fine(r.to)
KnownCells == {r \in Cell : Known(r)}
CallOK(t, ops) ==
  /\ \A d \in Objects : Owner[d] # t => cells'[d] = cells[d] /\ mem'[d] = mem[d]
  /\ \A d \in Objects : mem'[d] = mem[d] \/ (mem[d] = "new" /\ mem'[d] = "live")
  /\ \A d \in Objects : (cells'[d] = cells[d] /\ mem'[d] = mem[d]) \/ cells'[d] \in Seq(KnownCells)
  /\ \A n \in Nodes : node'[n] = node[n] \/ (node[n].used = "no" /\ (node'[n].key = Null \/ Fine(node'[n].key)))
  /\ \A i \in DOMAIN ops : \/ ops[i].op \in {"retain", "release"} /\ (ops[i].on = Null \/ Fine(ops[i].on))
                           \/ ops[i].op = "store" /\ Owner[ops[i].on] = t /\ Fine(ops[i].value)
  /\ \A u \in Threads, v \in Objects : held'[u][v] > 0 => held[u][v] > 0 \/ Fine(v)
  /\ \A u \in Threads \ {t} : \A v \in Objects : held'[u][v] >= held[u][v]
  /\ borrowed \subseteq borrowed' /\ touched' \subseteq borrowed'
  /\ skew' \in [Objects -> Int] /\ \A v \in Objects \ borrowed' : skew'[v] <= skew[v]

(* The cells of a container that a thread uses are known. *)
LEMMA OwnCellsKnown ==
  ASSUME HeapTypeOK, StepsInv, NEW t \in Threads, todo[t] = <<>>, NEW c \in Objects, mem[c] = "live", Owner[c] = t
  PROVE  cells[c] \in Seq(KnownCells) /\ \A i \in DOMAIN cells[c] : cells[c][i] \in KnownCells
<1>1. cells[c] \in Seq(Cell) /\ Len(cells[c]) \in Nat /\ DOMAIN cells[c] = 1 .. Len(cells[c])
      /\ \A i \in DOMAIN cells[c] : cells[c][i] \in Cell
  BY CellsNumbered
<1>2. \A i \in DOMAIN cells[c] : cells[c][i] \in KnownCells
  <2> SUFFICES ASSUME NEW i \in DOMAIN cells[c] PROVE cells[c][i] \in KnownCells
    OBVIOUS
  <2>1. ~cells[c][i].weak /\ cells[c][i].to # Null => cells[c][i].to \in Objects /\ Mentioned(cells[c][i].to)
    BY OwnCellKept
  <2> QED  BY <1>1, <2>1 DEF KnownCells, Known, Fine
<1> QED  BY <1>1, <1>2

(* Such a call is harmless. *)
LEMMA CallHarmless ==
  ASSUME HeapTypeOK, StepsInv, NEW t \in Threads, todo[t] = <<>>, NEW ops \in Seq(Operations), Start(t, ops), CallOK(t, ops),
         touched' \subseteq borrowed'
  PROVE  Harmless
<1>1. GoesOn(t, ops) /\ First(t) = {} /\ \A i \in DOMAIN ops : ops[i].op # "unlink"
  BY DEF GoesOn, First, CallOK
<1>2. ASSUME NEW w \in Objects \ borrowed' PROVE Mentioned(w)' => Mentioned(w) \/ mem'[w] = "live"
  <2>0. PICK b \in BOOLEAN : b <=> mem'[w] = "live"
    OBVIOUS
  <2>f. Fine(w) => Mentioned(w) \/ b
    BY <1>2, <2>0 DEF Fine
  <2>n. w # Null
    BY DEF HeapAssumption
  <2>1. (\E u \in Threads : held'[u][w] > 0) => Mentioned(w) \/ b
    BY <2>f DEF CallOK, Mentioned
  <2>2. \A c \in Objects : RefsIn(c, w)' # {} => Mentioned(w) \/ b
    <3> SUFFICES ASSUME NEW c \in Objects, NEW j \in RefsIn(c, w)' PROVE Mentioned(w) \/ b
      OBVIOUS
    <3>1. j \in DOMAIN cells'[c] /\ cells'[c][j].to = w /\ ~cells'[c][j].weak
      BY DEF RefsIn, Counted
    <3>2. CASE cells'[c] = cells[c] /\ mem'[c] = mem[c]
      <4>1. \A i \in DOMAIN cells[c] : Marked(t, ops, c, i)
        BY <1>1 DEF Marked
      <4>2. RefsIn(c, w)' \subseteq RefsIn(c, w)
        BY <1>1, <3>2, <4>1, RefsFewer
      <4> QED  BY <4>2 DEF Mentioned
    <3>3. CASE cells'[c] \in Seq(KnownCells)
      <4>1. cells'[c][j] \in KnownCells
        BY <3>1, <3>3, ElementOfSeq, LenProperties
      <4> QED  BY <2>f, <2>n, <3>1, <4>1 DEF KnownCells, Known
    <3> QED  BY <3>2, <3>3 DEF CallOK
  <2>3. KeyOf(w)' # {} => Mentioned(w) \/ b
    <3> SUFFICES ASSUME NEW n \in KeyOf(w)' PROVE Mentioned(w) \/ b
      OBVIOUS
    <3>1. n \in Nodes /\ node'[n].used = "yes" /\ node'[n].key = w /\ ~UnlinkSoon(n)'
      BY DEF KeyOf
    <3>2. CASE node'[n] = node[n]
      <4>1. NoneOf(t, ops, UnlinksOf(n))
        BY <1>1 DEF NoneOf, UnlinksOf
      <4>2. UnlinkSoon(n)' <=> UnlinkSoon(n)
        BY <1>1, <4>1, MarksStay
      <4>3. n \in KeyOf(w)
        BY <3>1, <3>2, <4>2 DEF KeyOf
      <4> QED  BY <4>3 DEF Mentioned
    <3> QED  BY <2>f, <2>n, <3>1, <3>2 DEF CallOK
  <2>4. \A j \in DOMAIN ops : About(ops[j], w) => Mentioned(w) \/ b
    BY <2>f, <2>n DEF CallOK, About
  <2> QED  BY <1>1, <2>0, <2>1, <2>2, <2>3, <2>4, MentionMoves
<1>3. \A v \in Objects \ borrowed' : skew'[v] \in Int /\ skew'[v] <= skew[v]
  BY DEF CallOK
<1>4. \A v \in Objects : Dead(v)' => Dead(v)
  BY DEF Dead, CallOK
<1> QED  BY <1>2, <1>3, <1>4 DEF Harmless, CallOK

(* And it leads there, if the thread that makes it can rely on enough. *)
LEMMA CallReaches ==
  ASSUME ReachNow, Defined' => HeapTypeOK', NEW t \in Threads, todo[t] = <<>>, NEW ops \in Seq(Operations), Start(t, ops),
         CallOK(t, ops), Defined' => ThreadOK(t)'
  PROVE  Reaches
<1>0. HeapTypeOK /\ StepsInv /\ DeadInv /\ SkewInv /\ GoesOn(t, ops)
  BY DEF ReachNow, HeapOK, GoesOn
<1>1. Harmless /\ skew' \in [Objects -> Int]
  BY <1>0, CallHarmless DEF CallOK
<1>2. DeadInv' /\ SkewInv' /\ TouchedInv'
  BY <1>0, <1>1, HarmlessKeeps
<1>3. ASSUME Defined', NEW u \in Threads \ {t} PROVE ThreadOK(u)'
  <2>1. \A v \in Objects : Spared(t, ops, u, v)
    <3> SUFFICES ASSUME NEW v \in Objects PROVE Spared(t, ops, u, v)
      OBVIOUS
    <3>1. ASSUME NEW c \in Objects, NEW i \in RefsIn(c, v), Owner[c] = u
          PROVE  /\ i \in DOMAIN cells'[c] /\ cells'[c][i] = cells[c][i] /\ mem'[c] \in {"live", "dying"}
                 /\ \A j \in DOMAIN ops : ops[j] \notin EmptiesPast(c, i) /\ ops[j] \notin StoresAt(c, i)
      <4>1. cells'[c] = cells[c] /\ mem'[c] = mem[c]
        BY <3>1 DEF CallOK
      <4>2. \A j \in DOMAIN ops : ops[j] \notin EmptiesPast(c, i) /\ ops[j] \notin StoresAt(c, i)
        BY <3>1 DEF CallOK, EmptiesPast, StoresAt
      <4> QED  BY <3>1, <4>1, <4>2 DEF RefsIn, Counted
    <3>2. \A n \in KeysBy(u, v) : node'[n] = node[n] /\ \A j \in DOMAIN ops : ops[j] \notin UnlinksOf(n)
      BY DEF KeysBy, KeyOf, CallOK, UnlinksOf
    <3>3. \A c \in Objects : held'[u][c] >= held[u][c]
      BY DEF CallOK
    <3> QED  BY <3>1, <3>2, <3>3 DEF Spared
  <2>2. \A c \in Objects : held'[u][c] >= held[u][c]
    BY DEF CallOK
  <2> QED  BY <1>0, <1>1, <1>3, <2>1, <2>2, OthersKeep DEF ReachNow
<1> QED  BY <1>2, <1>3 DEF Reaches

(* What a thread has in hand or does not borrow is fine. *)
LEMMA FineIs ==
  ASSUME HeapTypeOK, StepsInv, NEW t \in Threads, todo[t] = <<>>
  PROVE  /\ \A v \in Objects : (v \notin borrowed' => v \in Safe(t)) => Fine(v)
         /\ \A v \in Held(t) : Fine(v) /\ v \in Safe(t) /\ held[t][v] \in Nat /\ held[t][v] > 0
         /\ Null \notin Objects
<1>1. \A v \in Objects : (v \notin borrowed' => v \in Safe(t)) => Fine(v)
  BY SafeIsKept DEF Fine
<1>3. Held(t) \subseteq Objects /\ Null \notin Objects
  BY DEF Held, HeapAssumption
<1>2. \A v \in Held(t) : v \in Safe(t) /\ held[t][v] \in Nat /\ held[t][v] > 0
  <2> TAKE v \in Held(t)
  <2>1. v \in Objects /\ held[t][v] > 0
    BY DEF Held
  <2>2. held[t][v] \in Nat
    BY <2>1 DEF HeapTypeOK
  <2>3. v \in Safe(t)
    BY <1>3, <2>1 DEF Safe
  <2> QED  BY <2>1, <2>2, <2>3
<1> QED  BY <1>1, <1>2, <1>3

(* A call that retains nothing later, and stores nothing. *)
LEMMA LightReaches ==
  ASSUME ReachNow, Defined' => HeapTypeOK', NEW t \in Threads, todo[t] = <<>>, NEW ops \in Seq(Operations), Start(t, ops),
         CallOK(t, ops), \A i \in DOMAIN ops : ops[i].op = "release"
  PROVE  Reaches
<1>1. todo'[t] = ops
  BY DEF Start, ReachNow, HeapOK, HeapTypeOK
<1>2. Defined' => ThreadOK(t)'
  BY <1>1, StartedLight
<1> QED  BY <1>2, CallReaches

(* Lists of no steps, and of releases. *)
LEMMA Releases ==
  /\ <<>> \in Seq(Operations) /\ \A i \in DOMAIN <<>> : FALSE
  /\ \A a \in Values : <<Releasing(a)>> \in Seq(Operations) /\ \A i \in DOMAIN <<Releasing(a)>> : <<Releasing(a)>>[i] = Releasing(a)
  /\ \A a, b \in Values : /\ <<Releasing(a), Releasing(b)>> \in Seq(Operations)
                          /\ \A i \in DOMAIN <<Releasing(a), Releasing(b)>> :
                               <<Releasing(a), Releasing(b)>>[i] \in {Releasing(a), Releasing(b)}
  /\ \A a : Releasing(a).op = "release" /\ Releasing(a).on = a
<1>1. \A a \in Values : Releasing(a) \in Operations
  BY Primitives
<1>2. /\ \A a : \A i \in DOMAIN <<Releasing(a)>> : <<Releasing(a)>>[i] = Releasing(a)
      /\ \A a, b : \A i \in DOMAIN <<Releasing(a), Releasing(b)>> :
                               <<Releasing(a), Releasing(b)>>[i] \in {Releasing(a), Releasing(b)}
      /\ \A a : Releasing(a).op = "release" /\ Releasing(a).on = a
  BY DEF Releasing
<1>3. \A i \in DOMAIN <<>> : FALSE
  OBVIOUS
<1> QED  BY <1>1, <1>2, <1>3, ShortLists

(* An object that is used without a count is borrowed; else it is live. *)
LEMMA TouchesFine ==
  ASSUME HeapTypeOK, BornInv, DeadInv, borrowed \subseteq borrowed', touched = {}, NEW v \in Objects, Touch(v), mem' = mem, Fine(v)
  PROVE  touched' \subseteq borrowed'
<1>1. v \notin borrowed' => Mentioned(v) \/ mem[v] = "live"
  BY DEF Fine
<1>2. v \notin borrowed' => mem[v] = "live"
  BY <1>1, MentionedIsLive
<1> QED  BY <1>2 DEF Touch

(* Keeping an object adds a count to be retained, of something the thread   *)
(* keeps.                                                                   *)
LEMMA KeepReaches ==
  ASSUME ReachNow, Defined' => HeapTypeOK', NEW t \in Threads, todo[t] = <<>>, NEW o \in Usable(t), Keep(t, o)
  PROVE  Reaches
<1>p. PICK ops : ops = <<>>
  OBVIOUS
<1>0. /\ HeapTypeOK /\ BornInv /\ StepsInv /\ DeadInv /\ touched = {} /\ UNCHANGED <<mem, cells, node, skew>>
      /\ Start(t, ops) /\ borrowed' = borrowed \cup ({o} \ Safe(t)) /\ Touch(o) /\ held' = [held EXCEPT ![t][o] = @ + 1]
  BY <1>p DEF ReachNow, HeapOK, Keep, Call, Borrow, RetainNow, weak, Defined
<1>1. ops \in Seq(Operations) /\ \A i \in DOMAIN ops : FALSE
  BY <1>p, Releases
<1>2. o \in Objects /\ Fine(o)
  BY <1>0, UsableIsBorn, FineIs
<1>3. touched' \subseteq borrowed'
  BY <1>0, <1>2, TouchesFine
<1>4. \A u \in Threads, v \in Objects : held[u][v] \in Nat /\ held'[u][v] = IF u = t /\ v = o THEN held[u][v] + 1 ELSE held[u][v]
  <2> SUFFICES ASSUME NEW u \in Threads, NEW v \in Objects
               PROVE  held[u][v] \in Nat /\ held'[u][v] = IF u = t /\ v = o THEN held[u][v] + 1 ELSE held[u][v]
    OBVIOUS
  <2>1. held[u][v] \in Nat /\ DOMAIN held = Threads /\ DOMAIN held[t] = Objects
    BY <1>0 DEF HeapTypeOK
  <2>2. held'[t] = [held[t] EXCEPT ![o] = held[t][o] + 1] /\ (u # t => held'[u] = held[u])
    BY <1>0, <2>1
  <2>3. CASE u = t /\ v = o
    BY <1>2, <2>1, <2>2, <2>3
  <2>4. CASE ~(u = t /\ v = o)
    BY <1>2, <2>1, <2>2, <2>4
  <2> QED  BY <2>3, <2>4
<1>5. skew' \in [Objects -> Int] /\ \A v \in Objects : skew'[v] <= skew[v]
  <2>1. skew \in [Objects -> Int] /\ skew' = skew
    BY <1>0 DEF HeapTypeOK
  <2> QED  BY <2>1
<1>6. /\ \A u \in Threads, v \in Objects : held'[u][v] > 0 => held[u][v] > 0 \/ Fine(v)
      /\ \A u \in Threads \ {t} : \A v \in Objects : held'[u][v] >= held[u][v]
  BY <1>2, <1>4
<1>7. CallOK(t, ops)
  BY <1>0, <1>1, <1>3, <1>5, <1>6 DEF CallOK
<1> QED  BY <1>0, <1>1, <1>7, LightReaches

(* Letting go turns a count into a release still to do.                     *)
LEMMA LetGoReaches ==
  ASSUME ReachNow, Defined' => HeapTypeOK', NEW t \in Threads, todo[t] = <<>>, NEW o \in Held(t), LetGo(t, o)
  PROVE  Reaches
<1>p. PICK ops : ops = <<Releasing(o)>>
  OBVIOUS
<1>0. /\ HeapTypeOK /\ BornInv /\ StepsInv /\ DeadInv /\ touched' = {} /\ UNCHANGED <<mem, cells, node, skew, borrowed>>
      /\ Start(t, ops) /\ held' = [held EXCEPT ![t][o] = @ - 1]
  BY <1>p DEF ReachNow, HeapOK, LetGo, weak, Defined
<1>1. o \in Objects /\ Fine(o) /\ o \in Values
  BY <1>0, FineIs DEF Fine, Values
<1>2. ops \in Seq(Operations) /\ \A i \in DOMAIN ops : ops[i].op = "release" /\ ops[i].on = o
  BY <1>p, <1>1, Releases
<1>3. /\ \A u \in Threads, v \in Objects : held[u][v] \in Nat
      /\ \A u \in Threads, v \in Objects : ~(u = t /\ v = o) => held'[u][v] = held[u][v]
  <2> SUFFICES ASSUME NEW u \in Threads, NEW v \in Objects
               PROVE  held[u][v] \in Nat /\ (~(u = t /\ v = o) => held'[u][v] = held[u][v])
    OBVIOUS
  <2>1. held[u][v] \in Nat /\ DOMAIN held = Threads /\ DOMAIN held[t] = Objects
    BY <1>0 DEF HeapTypeOK
  <2>2. held'[t] = [held[t] EXCEPT ![o] = held[t][o] - 1] /\ (u # t => held'[u] = held[u])
    BY <1>0, <2>1
  <2> QED  BY <1>1, <2>1, <2>2
<1>4. \A u \in Threads, v \in Objects : held'[u][v] > 0 => held[u][v] > 0 \/ Fine(v)
  BY <1>1, <1>3
<1>5. \A u \in Threads \ {t} : \A v \in Objects : held'[u][v] >= held[u][v]
  BY <1>3
<1>6. CallOK(t, ops)
  BY <1>0, <1>1, <1>2, <1>4, <1>5 DEF CallOK, HeapTypeOK
<1> QED  BY <1>0, <1>2, <1>6, LightReaches

(* An object retained for ever is mentioned no more for it; its count only  *)
(* grows.                                                                   *)
LEMMA RetainForeverReaches ==
  ASSUME ReachNow, Defined' => HeapTypeOK', NEW t \in Threads, todo[t] = <<>>, NEW o \in Objects, RetainForever(t, o)
  PROVE  Reaches
<1>p. PICK ops : ops = <<>>
  OBVIOUS
<1>0. /\ HeapTypeOK /\ touched' = {} /\ UNCHANGED <<mem, cells, node, skew, borrowed, held>> /\ Start(t, ops)
  BY <1>p DEF ReachNow, HeapOK, RetainForever, Call, weak, Defined
<1>1. ops \in Seq(Operations) /\ \A i \in DOMAIN ops : FALSE
  BY <1>p, Releases
<1>2. CallOK(t, ops)
  BY <1>0, <1>1 DEF CallOK, HeapTypeOK
<1> QED  BY <1>0, <1>1, <1>2, LightReaches

(* A count handed over is owned by another thread, that can use it as the   *)
(* first did.                                                               *)
LEMMA HandReaches ==
  ASSUME ReachNow, Defined' => HeapTypeOK', NEW t \in Threads, todo[t] = <<>>, NEW o \in Held(t), NEW u \in Threads, Hand(t, u, o)
  PROVE  Reaches
<1>p. PICK ops : ops = <<>>
  OBVIOUS
<1>0. /\ HeapTypeOK /\ StepsInv /\ touched' = {} /\ UNCHANGED <<mem, cells, node, skew, borrowed>> /\ Start(t, ops)
      /\ t # u /\ held[u][o] = 0 /\ held' = [held EXCEPT ![t][o] = @ - 1, ![u][o] = 1]
  BY <1>p DEF ReachNow, HeapOK, Hand, Call, weak, Defined
<1>1. ops \in Seq(Operations) /\ \A i \in DOMAIN ops : FALSE
  BY <1>p, Releases
<1>2. o \in Objects /\ Fine(o)
  BY <1>0, FineIs DEF Fine
<1>f. PICK f : f = [held[t] EXCEPT ![o] = @ - 1]
  OBVIOUS
<1>g. PICK g : g = [held[u] EXCEPT ![o] = 1]
  OBVIOUS
<1>i. held \in [Threads -> [Objects -> Nat]] /\ \A w \in Threads, v \in Objects : held[w][v] \in Nat
  BY <1>0 DEF HeapTypeOK
<1>j. g[o] = 1 /\ \A v \in Objects \ {o} : f[v] = held[t][v] /\ g[v] = held[u][v]
  BY <1>2, <1>i, <1>f, <1>g
<1>k. held' = [[held EXCEPT ![t] = f] EXCEPT ![u] = g]
  BY <1>0, <1>i, <1>f, <1>g
<1>l. held'[t] = f /\ held'[u] = g /\ \A w \in Threads \ {t, u} : held'[w] = held[w]
  <2>k. PICK k : k = [held EXCEPT ![t] = f]
    OBVIOUS
  <2>1. DOMAIN k = Threads /\ k[t] = f /\ \A w \in Threads \ {t} : k[w] = held[w]
    BY <1>i, <2>k
  <2>2. held' = [k EXCEPT ![u] = g]
    BY <1>k, <2>k
  <2> QED  BY <1>0, <2>1, <2>2
<1>3. /\ \A w \in Threads, v \in Objects : ~(v = o /\ w \in {t, u}) => held'[w][v] = held[w][v]
      /\ held'[u][o] = 1
  BY <1>j, <1>l
<1>4. \A w \in Threads, v \in Objects : held'[w][v] > 0 => held[w][v] > 0 \/ Fine(v)
  BY <1>2, <1>3
<1>5. \A w \in Threads \ {t} : \A v \in Objects : held'[w][v] >= held[w][v]
  <2> SUFFICES ASSUME NEW w \in Threads \ {t}, NEW v \in Objects PROVE held'[w][v] >= held[w][v]
    OBVIOUS
  <2>1. CASE w = u /\ v = o
    <3>1. held'[w][v] = 1 /\ held[w][v] = 0
      BY <1>0, <1>3, <2>1
    <3> QED  BY <3>1
  <2>2. CASE ~(w = u /\ v = o)
    <3>1. held'[w][v] = held[w][v] /\ held[w][v] \in Nat
      BY <1>3, <1>i, <2>2
    <3> QED  BY <3>1
  <2> QED  BY <2>1, <2>2
<1>m. /\ UNCHANGED <<mem, cells, node, skew, borrowed>> /\ touched' = {} /\ skew \in [Objects -> Int]
  BY <1>0 DEF HeapTypeOK
<1>6. CallOK(t, ops)
  BY <1>1, <1>4, <1>5, <1>m DEF CallOK
<1> QED  BY <1>0, <1>1, <1>6, LightReaches

(* A weak variable's entry mentions no key.                                 *)
LEMMA WeakInitReaches ==
  ASSUME ReachNow, Defined' => HeapTypeOK', NEW t \in Threads, todo[t] = <<>>, NEW v \in Held(t), NEW w \in WeakVars, NEW n \in Nodes,
         WeakInit(t, w, v, n)
  PROVE  Reaches
<1>p. PICK ops : ops = <<>>
  OBVIOUS
<1>e. PICK e : e = [NewEntry EXCEPT !.used = "yes", !.on = v, !.var = w]
  OBVIOUS
<1>0. /\ HeapTypeOK /\ touched' = {} /\ UNCHANGED <<mem, cells, skew, borrowed, held>> /\ Start(t, ops)
      /\ node[n].used = "no" /\ node' = [node EXCEPT ![n] = e]
  BY <1>p, <1>e DEF ReachNow, HeapOK, WeakInit, Register, Call, counts, Defined
<1>1. ops \in Seq(Operations) /\ \A i \in DOMAIN ops : FALSE
  BY <1>p, Releases
<1>2. e.key = Null
  BY <1>e DEF NewEntry
<1>3. \A m \in Nodes : node'[m] = node[m] \/ (node[m].used = "no" /\ node'[m].key = Null)
  BY <1>0, <1>2 DEF HeapTypeOK
<1>4. CallOK(t, ops)
  BY <1>0, <1>1, <1>3 DEF CallOK, HeapTypeOK
<1> QED  BY <1>0, <1>1, <1>4, LightReaches

(* A release beyond the references, or one less: for whom the skew changes. *)
LEMMA SkewMoves ==
  ASSUME HeapTypeOK, NEW x, NEW B, \/ skew' = skew
                                   \/ skew' = [skew EXCEPT ![x] = @ + 1] /\ x \in B
                                   \/ skew' = [skew EXCEPT ![x] = @ - 1]
  PROVE  skew' \in [Objects -> Int] /\ \A v \in Objects \ B : skew'[v] <= skew[v]
<1>0. skew \in [Objects -> Int]
  BY DEF HeapTypeOK
<1>1. CASE skew' = skew
  BY <1>0, <1>1
<1>2. CASE x \notin Objects /\ skew' # skew
  <2>1. [skew EXCEPT ![x] = @ + 1] = skew /\ [skew EXCEPT ![x] = @ - 1] = skew
    BY <1>0, <1>2
  <2> QED  BY <1>2, <2>1
<1>3. CASE x \in Objects /\ skew' = [skew EXCEPT ![x] = @ + 1] /\ x \in B
  BY <1>0, <1>3
<1>4. CASE x \in Objects /\ skew' = [skew EXCEPT ![x] = @ - 1]
  BY <1>0, <1>4
<1> QED  BY <1>1, <1>2, <1>3, <1>4

(* Counts in excess are the skew of what is borrowed.                       *)
LEMMA ExcessIs ==
  ASSUME HeapTypeOK, NEW c, NEW i, skew' = Excess(c, i), Surplus(c, i) \subseteq borrowed'
  PROVE  skew' \in [Objects -> Int] /\ \A v \in Objects \ borrowed' : skew'[v] <= skew[v]
<1>x. PICK x : x = cells[c][i].to
  OBVIOUS
<1>b. PICK b : b = borrowed'
  OBVIOUS
<1>1. skew' = skew \/ (skew' = [skew EXCEPT ![x] = @ + 1] /\ x \in b)
  BY <1>x, <1>b DEF Excess, Surplus
<1> QED  BY <1>1, <1>b, SkewMoves

(* A leak lowers a skew.                                                    *)
LEMMA LeakIs ==
  ASSUME HeapTypeOK, NEW c, NEW i, skew' = Leak(c, i)
  PROVE  skew' \in [Objects -> Int] /\ \A v \in Objects : skew'[v] <= skew[v]
<1>x. PICK x : x = cells[c][i].to
  OBVIOUS
<1>1. skew' = skew \/ skew' = [skew EXCEPT ![x] = @ - 1]
  BY <1>x DEF Leak
<1>2. skew' \in [Objects -> Int] /\ \A v \in Objects \ {} : skew'[v] <= skew[v]
  BY <1>1, SkewMoves
<1> QED  BY <1>2

(* The container in a thread's hands. *)
LEMMA MineIs ==
  ASSUME HeapTypeOK, StepsInv, NEW t \in Threads, todo[t] = <<>>, NEW kind, NEW a \in Mine(t, kind)
  PROVE  /\ a \in Objects /\ Kind[a] = kind /\ Owner[a] = t /\ mem[a] = "live" /\ held[t][a] \in Nat /\ held[t][a] > 0
         /\ cells[a] \in Seq(Cell) /\ Len(cells[a]) \in Nat /\ DOMAIN cells[a] = 1 .. Len(cells[a])
         /\ cells[a] \in Seq(KnownCells) /\ \A i \in DOMAIN cells[a] : cells[a][i] \in KnownCells
<1>1. a \in Objects /\ Kind[a] = kind /\ Owner[a] = t /\ mem[a] = "live" /\ held[t][a] > 0
  BY DEF Mine
<1>2. held[t][a] \in Nat
  BY <1>1 DEF HeapTypeOK
<1> QED  BY <1>1, <1>2, CellsNumbered, OwnCellsKnown

(* A cell for what is fine is known. *)
LEMMA StrongKnown ==
  /\ \A v \in Objects : Fine(v) => Strong(v) \in KnownCells
  /\ Strong(Null) \in KnownCells /\ \A v \in Values : Weakly(v) \in KnownCells
BY DEF Strong, Weakly, KnownCells, Known, Cell, Values

(* A call that changes one container, in its owner's hands.                 *)
OneChanges(a, q) == cells' = [cells EXCEPT ![a] = q]

(* Only the container that a thread owns changes, and to cells that are     *)
(* known.                                                                   *)
LEMMA OneKnown ==
  ASSUME HeapTypeOK, NEW t \in Threads, NEW a \in Objects, Owner[a] = t, NEW q \in Seq(KnownCells), OneChanges(a, q), mem' = mem
  PROVE  /\ \A d \in Objects : Owner[d] # t => cells'[d] = cells[d] /\ mem'[d] = mem[d]
         /\ \A d \in Objects : mem'[d] = mem[d]
         /\ \A d \in Objects : (cells'[d] = cells[d] /\ mem'[d] = mem[d]) \/ cells'[d] \in Seq(KnownCells)
BY DEF HeapTypeOK, OneChanges

(* An insertion moves cells up and puts a value in that the thread keeps.   *)
LEMMA ArrayInsertReaches ==
  ASSUME ReachNow, Defined' => HeapTypeOK', NEW t \in Threads, todo[t] = <<>>, NEW a \in Mine(t, "sequence"), NEW v \in Usable(t),
         NEW i \in 1 .. Len(cells[a]) + 1, ArrayInsert(t, a, i, v)
  PROVE  Reaches
<1>p. PICK ops : ops = <<>>
  OBVIOUS
<1>q. PICK q : q = InsertAt(cells[a], i, Strong(v))
  OBVIOUS
<1>0. /\ HeapTypeOK /\ BornInv /\ StepsInv /\ DeadInv /\ touched = {} /\ UNCHANGED <<mem, held, node, skew>>
      /\ Start(t, ops) /\ borrowed' = borrowed \cup ({v} \ Safe(t)) /\ Touch(v) /\ cells' = [cells EXCEPT ![a] = q]
  BY <1>p, <1>q DEF ReachNow, HeapOK, ArrayInsert, Call, Borrow, RetainNow, weak, Defined, HeapTypeOK, Mine
<1>1. ops \in Seq(Operations) /\ \A j \in DOMAIN ops : FALSE
  BY <1>p, Releases
<1>2. v \in Objects /\ Fine(v)
  BY <1>0, UsableIsBorn, FineIs
<1>3. touched' \subseteq borrowed'
  BY <1>0, <1>2, TouchesFine
<1>4. a \in Objects /\ Owner[a] = t /\ cells[a] \in Seq(KnownCells)
  BY <1>0, MineIs
<1>5. q \in Seq(KnownCells)
  <2>s. PICK s \in Seq(KnownCells) : s = cells[a]
    BY <1>4
  <2>e. PICK e \in KnownCells : e = Strong(v)
    BY <1>2, StrongKnown
  <2>1. i \in 1 .. Len(s) + 1 /\ q = InsertAt(s, i, e)
    BY <1>q, <2>s, <2>e
  <2> QED  BY <2>1, WithOneMore
<1>6. /\ \A d \in Objects : Owner[d] # t => cells'[d] = cells[d] /\ mem'[d] = mem[d]
      /\ \A d \in Objects : mem'[d] = mem[d]
      /\ \A d \in Objects : (cells'[d] = cells[d] /\ mem'[d] = mem[d]) \/ cells'[d] \in Seq(KnownCells)
  BY <1>0, <1>4, <1>5, OneKnown DEF OneChanges
<1>7. CallOK(t, ops)
  BY <1>0, <1>1, <1>3, <1>6 DEF CallOK, HeapTypeOK
<1> QED  BY <1>0, <1>1, <1>7, LightReaches

(* A removal moves cells down and releases the one that is gone.            *)
LEMMA ArrayRemoveReaches ==
  ASSUME ReachNow, Defined' => HeapTypeOK', NEW t \in Threads, todo[t] = <<>>, NEW a \in Mine(t, "sequence"),
         NEW i \in DOMAIN cells[a], ArrayRemove(t, a, i)
  PROVE  Reaches
<1>v. PICK v : v = cells[a][i].to
  OBVIOUS
<1>p. PICK ops : ops = <<Releasing(v)>>
  OBVIOUS
<1>q. PICK q : q = RemoveAt(cells[a], i)
  OBVIOUS
<1>0. /\ HeapTypeOK /\ StepsInv /\ CellsInv /\ touched' = {} /\ UNCHANGED <<mem, held, node, skew, borrowed>>
      /\ Start(t, ops) /\ cells' = [cells EXCEPT ![a] = q]
  BY <1>v, <1>p, <1>q DEF ReachNow, HeapOK, ArrayRemove, Call, OnlyCells, weak, Defined, HeapTypeOK, Mine
<1>1. a \in Objects /\ Kind[a] = "sequence" /\ Owner[a] = t /\ cells[a] \in Seq(KnownCells) /\ cells[a][i] \in KnownCells
  BY <1>0, MineIs
<1>2. v \in Values /\ (v = Null \/ Fine(v))
  <2>1. ~cells[a][i].weak
    BY <1>0, <1>1 DEF CellsInv, CellsOf
  <2> QED  BY <1>1, <1>v, <2>1 DEF KnownCells, Known, Cell
<1>3. ops \in Seq(Operations) /\ \A j \in DOMAIN ops : ops[j].op = "release" /\ ops[j].on = v
  BY <1>2, <1>p, Releases
<1>4. q \in Seq(KnownCells)
  <2>s. PICK s \in Seq(KnownCells) : s = cells[a]
    BY <1>1
  <2> QED  BY <1>q, <2>s, WithoutOne
<1>5. /\ \A d \in Objects : Owner[d] # t => cells'[d] = cells[d] /\ mem'[d] = mem[d]
      /\ \A d \in Objects : mem'[d] = mem[d]
      /\ \A d \in Objects : (cells'[d] = cells[d] /\ mem'[d] = mem[d]) \/ cells'[d] \in Seq(KnownCells)
  BY <1>0, <1>1, <1>4, OneKnown DEF OneChanges
<1>6. CallOK(t, ops)
  BY <1>0, <1>2, <1>3, <1>5 DEF CallOK, HeapTypeOK
<1> QED  BY <1>0, <1>3, <1>6, LightReaches

(* A pop turns the last cell's reference into the count that the thread is  *)
(* given.                                                                   *)
LEMMA ArrayPopReaches ==
  ASSUME ReachNow, Defined' => HeapTypeOK', NEW t \in Threads, todo[t] = <<>>, NEW a \in Mine(t, "sequence"), ArrayPop(t, a)
  PROVE  Reaches
<1>v. PICK v : v = Last(cells[a]).to
  OBVIOUS
<1>p. PICK ops : ops = <<>>
  OBVIOUS
<1>q. PICK q : q = Front(cells[a])
  OBVIOUS
<1>0. /\ HeapTypeOK /\ StepsInv /\ CellsInv /\ touched' = {} /\ UNCHANGED <<mem, node, skew, borrowed>>
      /\ Start(t, ops) /\ cells' = [cells EXCEPT ![a] = q] /\ cells[a] # <<>> /\ held' = [held EXCEPT ![t][v] = @ + 1]
  BY <1>v, <1>p, <1>q DEF ReachNow, HeapOK, ArrayPop, Call, weak, Defined, HeapTypeOK, Mine
<1>1. a \in Objects /\ Kind[a] = "sequence" /\ Owner[a] = t /\ cells[a] \in Seq(KnownCells)
      /\ DOMAIN cells[a] = 1 .. Len(cells[a]) /\ Len(cells[a]) \in Nat /\ \A i \in DOMAIN cells[a] : cells[a][i] \in KnownCells
  BY <1>0, MineIs
<1>s. PICK s \in Seq(KnownCells) : s = cells[a]
  BY <1>1
<1>2. v = Null \/ Fine(v)
  <2>1. Len(s) # 0
    BY <1>0, <1>s, EmptySeq
  <2>2. Len(s) \in DOMAIN cells[a] /\ Last(s) = cells[a][Len(s)]
    BY <1>1, <1>s, <2>1 DEF Last
  <2>3. ~cells[a][Len(s)].weak
    BY <1>0, <1>1, <2>2 DEF CellsInv, CellsOf
  <2> QED  BY <1>1, <1>s, <1>v, <2>2, <2>3 DEF KnownCells, Known
<1>3. ops \in Seq(Operations) /\ \A j \in DOMAIN ops : FALSE
  BY <1>p, Releases
<1>4. q \in Seq(KnownCells)
  BY <1>0, <1>q, <1>s, WithoutLast
<1>5. /\ \A d \in Objects : Owner[d] # t => cells'[d] = cells[d] /\ mem'[d] = mem[d]
      /\ \A d \in Objects : mem'[d] = mem[d]
      /\ \A d \in Objects : (cells'[d] = cells[d] /\ mem'[d] = mem[d]) \/ cells'[d] \in Seq(KnownCells)
  BY <1>0, <1>1, <1>4, OneKnown DEF OneChanges
<1>6. /\ \A u \in Threads, w \in Objects : held'[u][w] > 0 => held[u][w] > 0 \/ Fine(w)
      /\ \A u \in Threads \ {t} : \A w \in Objects : held'[u][w] >= held[u][w]
  <2>1. \A u \in Threads, w \in Objects : held[u][w] \in Nat /\ (~(u = t /\ w = v) => held'[u][w] = held[u][w])
    BY <1>0 DEF HeapTypeOK
  <2>2. Fine(v) \/ \A w \in Objects : w # v
    BY <1>2 DEF HeapAssumption
  <2> QED  BY <2>1, <2>2
<1>m. /\ UNCHANGED <<mem, node, skew, borrowed>> /\ touched' = {} /\ skew \in [Objects -> Int]
  BY <1>0 DEF HeapTypeOK
<1>7. CallOK(t, ops)
  BY <1>3, <1>5, <1>6, <1>m DEF CallOK
<1> QED  BY <1>0, <1>3, <1>7, LightReaches

(* A call that stores over what a container has: its maker holds both the   *)
(* container and what it stores, or borrows it.                             *)
LEMMA StoreCallReaches ==
  ASSUME ReachNow, Defined' => HeapTypeOK', NEW t \in Threads, todo[t] = <<>>, NEW kind, NEW c \in Mine(t, kind),
         NEW i \in DOMAIN cells[c], NEW v \in Objects,
         Start(t, <<Releasing(cells[c][i].to), Storing(c, i, v), Retaining(v)>>),
         UNCHANGED <<mem, held, node, cells>>, touched' = {}, borrowed \subseteq borrowed', v \notin borrowed' => v \in Held(t),
         skew' \in [Objects -> Int], \A w \in Objects \ borrowed' : skew'[w] <= skew[w],
         cells[c][i].weak => cells[c][i].to \in borrowed'
  PROVE  Reaches
<1>x. PICK x : x = cells[c][i].to
  OBVIOUS
<1>p. PICK ops : ops = <<Releasing(x), Storing(c, i, v), Retaining(v)>>
  OBVIOUS
<1>0. HeapTypeOK /\ StepsInv /\ Start(t, ops)
  BY <1>x, <1>p DEF ReachNow, HeapOK
<1>1. /\ c \in Objects /\ Owner[c] = t /\ held[t][c] \in Nat /\ held[t][c] > 0 /\ cells[c][i] \in KnownCells
      /\ i \in Nat \ {0}
  BY <1>0, MineIs, CellsNumbered
<1>2. Fine(v) /\ (v \notin borrowed' => held'[t][v] > 0)
  BY <1>0, FineIs
<1>3. x \in Values /\ (x = Null \/ Fine(x))
  BY <1>1, <1>x DEF KnownCells, Known, Cell, Fine, Values
<1>4. /\ Releasing(x).op = "release" /\ Releasing(x).on = x /\ Retaining(v).op = "retain" /\ Retaining(v).on = v
      /\ Storing(c, i, v).op = "store" /\ Storing(c, i, v).on = c /\ Storing(c, i, v).value = v
  BY DEF Releasing, Retaining, Storing
<1>5. ops \in Seq(Operations) /\ \A j \in DOMAIN ops : ops[j] \in {Releasing(x), Storing(c, i, v), Retaining(v)}
  <2>1. Releasing(x) \in Operations /\ Storing(c, i, v) \in Operations /\ Retaining(v) \in Operations
    BY <1>1, <1>3, Primitives DEF Values
  <2> QED  BY <1>p, <2>1, ShortLists
<1>6. \A j \in DOMAIN ops : \/ ops[j].op \in {"retain", "release"} /\ (ops[j].on = Null \/ Fine(ops[j].on))
                            \/ ops[j].op = "store" /\ Owner[ops[j].on] = t /\ Fine(ops[j].value)
  BY <1>1, <1>2, <1>3, <1>4, <1>5
<1>h. held \in [Threads -> [Objects -> Nat]]
  BY <1>0 DEF HeapTypeOK
<1>m. /\ \A u \in Threads : \A w \in Objects : held'[u][w] >= held[u][w]
      /\ \A u \in Threads, w \in Objects : held'[u][w] > 0 => held[u][w] > 0
      /\ touched' \subseteq borrowed'
  BY <1>h
<1>7. CallOK(t, ops)
  BY <1>6, <1>m DEF CallOK
<1>8. Defined' => ThreadOK(t)'
  <2>1. todo'[t] = <<Releasing(x), Storing(c, i, v), Retaining(v)>>
    BY <1>0, <1>p DEF Start, HeapTypeOK
  <2>2. held'[t][c] > 0
    BY <1>1
  <2> QED  BY <1>1, <1>2, <1>3, <2>1, <2>2, StartedStore
<1> QED  BY <1>0, <1>5, <1>7, <1>8, CallReaches

(* An array's set releases the old value, stores, and retains the new one.  *)
LEMMA ArraySetReaches ==
  ASSUME ReachNow, Defined' => HeapTypeOK', NEW t \in Threads, todo[t] = <<>>, NEW a \in Mine(t, "sequence"),
         NEW i \in DOMAIN cells[a], NEW v \in Usable(t), ArraySet(t, a, i, v)
  PROVE  Reaches
<1>0. /\ HeapTypeOK /\ BornInv /\ StepsInv /\ CellsInv /\ touched' = {} /\ UNCHANGED <<mem, held, node, cells, skew>>
      /\ Start(t, <<Releasing(cells[a][i].to), Storing(a, i, v), Retaining(v)>>)
      /\ borrowed' = borrowed \cup ({v} \ Held(t))
  BY DEF ReachNow, HeapOK, ArraySet, Call, BorrowOver, OnlyCells, weak, Defined
<1>1. a \in Objects /\ Kind[a] = "sequence"
  BY <1>0, MineIs
<1>2. v \in Objects /\ ~cells[a][i].weak
  BY <1>0, <1>1, UsableIsBorn DEF CellsInv, CellsOf
<1>3. skew' \in [Objects -> Int] /\ \A w \in Objects \ borrowed' : skew'[w] <= skew[w]
  BY <1>0 DEF HeapTypeOK
<1>4. borrowed \subseteq borrowed' /\ (v \notin borrowed' => v \in Held(t))
  BY <1>0
<1> QED  BY <1>0, <1>2, <1>3, <1>4, StoreCallReaches

(* So does a set at a key that the dictionary has.                          *)
LEMMA DictSetOverReaches ==
  ASSUME ReachNow, Defined' => HeapTypeOK', NEW t \in Threads, todo[t] = <<>>, NEW d \in Mine(t, "dict"), NEW k, NEW v \in Usable(t),
         DictSet(t, d, k, v), Entry(d, k) # {}
  PROVE  Reaches
<1>i. PICK i : i = Value(d, k)
  OBVIOUS
<1>0. /\ HeapTypeOK /\ BornInv /\ StepsInv /\ CellsInv /\ touched' = {} /\ UNCHANGED <<mem, held, node, cells>>
      /\ Start(t, <<Releasing(cells[d][i].to), Storing(d, i, v), Retaining(v)>>)
      /\ borrowed' = borrowed \cup ({v} \ Held(t)) \cup Surplus(d, i) /\ skew' = Excess(d, i)
  BY <1>i DEF ReachNow, HeapOK, DictSet, Call, OnlyCells, weak, Defined
<1>1. d \in Objects /\ Kind[d] = "dict"
  BY <1>0, MineIs
<1>2. v \in Objects /\ i \in DOMAIN cells[d]
  BY <1>0, <1>1, <1>i, UsableIsBorn, ValueIsThere
<1>3. skew' \in [Objects -> Int] /\ \A w \in Objects \ borrowed' : skew'[w] <= skew[w]
  BY <1>0, ExcessIs
<1>4. borrowed \subseteq borrowed' /\ (v \notin borrowed' => v \in Held(t)) /\ (cells[d][i].weak => cells[d][i].to \in borrowed')
  BY <1>0 DEF Surplus
<1> QED  BY <1>0, <1>2, <1>3, <1>4, StoreCallReaches

(* A removal takes an entry's cells out and releases the key and the value. *)
LEMMA DictRemoveReaches ==
  ASSUME ReachNow, Defined' => HeapTypeOK', NEW t \in Threads, todo[t] = <<>>, NEW d \in Mine(t, "dict"), NEW k, DictRemove(t, d, k)
  PROVE  Reaches
<1>i. PICK i : i = Value(d, k)
  OBVIOUS
<1>x. PICK x : x = cells[d][i - 1].to
  OBVIOUS
<1>y. PICK y : y = cells[d][i].to
  OBVIOUS
<1>p. PICK ops : ops = <<Releasing(x), Releasing(y)>>
  OBVIOUS
<1>q. PICK q : q = RemoveAt(RemoveAt(cells[d], i), i - 1)
  OBVIOUS
<1>0. /\ HeapTypeOK /\ StepsInv /\ CellsInv /\ touched' = {} /\ UNCHANGED <<mem, held, node>>
      /\ Start(t, ops) /\ cells' = [cells EXCEPT ![d] = q] /\ Entry(d, k) # {}
      /\ borrowed' = borrowed \cup Surplus(d, i) /\ skew' = Excess(d, i)
  BY <1>i, <1>x, <1>y, <1>p, <1>q DEF ReachNow, HeapOK, DictRemove, Call, OnlyCells, weak, Defined, HeapTypeOK, Mine
<1>1. /\ d \in Objects /\ Kind[d] = "dict" /\ Owner[d] = t /\ cells[d] \in Seq(KnownCells)
      /\ \A j \in DOMAIN cells[d] : cells[d][j] \in KnownCells
      /\ Len(cells[d]) \in Nat /\ DOMAIN cells[d] = 1 .. Len(cells[d])
  BY <1>0, MineIs
<1>2. i \in DOMAIN cells[d] /\ i - 1 \in DOMAIN cells[d] /\ (i - 1) % 2 = 1 /\ i \in Nat \ {0}
  BY <1>0, <1>1, <1>i, ValueIsThere
<1>3. x \in Values /\ y \in Values /\ (x = Null \/ Fine(x)) /\ (y = Null \/ Fine(y))
  <2>1. ~cells[d][i - 1].weak
    BY <1>0, <1>1, <1>2 DEF CellsInv, CellsOf
  <2>2. cells[d][i].weak => y \in borrowed'
    BY <1>0, <1>y DEF Surplus
  <2> QED  BY <1>1, <1>2, <1>x, <1>y, <2>1, <2>2 DEF KnownCells, Known, Cell, Fine, Values
<1>4. ops \in Seq(Operations) /\ \A j \in DOMAIN ops : ops[j].op = "release" /\ (ops[j].on = Null \/ Fine(ops[j].on))
  BY <1>3, <1>p, Releases
<1>5. q \in Seq(KnownCells)
  <2>s. PICK s \in Seq(KnownCells) : s = cells[d]
    BY <1>1
  <2>1. RemoveAt(s, i) \in Seq(KnownCells) /\ Len(RemoveAt(s, i)) = Len(s) - 1
    BY <1>2, <2>s, WithoutOne
  <2>r. PICK r \in Seq(KnownCells) : r = RemoveAt(s, i)
    BY <2>1
  <2>2. i - 1 \in DOMAIN r
    <3>1. DOMAIN r = 1 .. Len(r) /\ Len(r) = Len(s) - 1
      BY <2>1, <2>r, LenProperties
    <3>2. i \in 1 .. Len(s) /\ i - 1 \in 1 .. Len(s) /\ Len(s) \in Nat
      BY <1>1, <1>2, <2>s
    <3> QED  BY <3>1, <3>2
  <2>3. RemoveAt(r, i - 1) \in Seq(KnownCells)
    BY <2>2, WithoutOne
  <2> QED  BY <1>q, <2>s, <2>r, <2>3
<1>6. /\ \A e \in Objects : Owner[e] # t => cells'[e] = cells[e] /\ mem'[e] = mem[e]
      /\ \A e \in Objects : mem'[e] = mem[e]
      /\ \A e \in Objects : (cells'[e] = cells[e] /\ mem'[e] = mem[e]) \/ cells'[e] \in Seq(KnownCells)
  BY <1>0, <1>1, <1>5, OneKnown DEF OneChanges
<1>7. skew' \in [Objects -> Int] /\ \A w \in Objects \ borrowed' : skew'[w] <= skew[w]
  BY <1>0, ExcessIs
<1>m. /\ UNCHANGED <<mem, held, node>> /\ touched' \subseteq borrowed' /\ borrowed \subseteq borrowed'
      /\ \A u \in Threads : \A w \in Objects : held'[u][w] >= held[u][w]
      /\ \A u \in Threads, w \in Objects : held'[u][w] > 0 => held[u][w] > 0
  BY <1>0 DEF HeapTypeOK
<1>8. CallOK(t, ops)
  BY <1>4, <1>6, <1>7, <1>m DEF CallOK
<1> QED  BY <1>0, <1>4, <1>8, LightReaches

(* Enough is kept if each claim has a reference of its own, and one is over. *)
LEMMA EnoughIf ==
  ASSUME HeapTypeOK', NEW t \in Threads, NEW v \in Objects, NEW e \in Kept(t, v)', NEW f,
         f \in [Claims(t, v)' -> Kept(t, v)' \ {e}], \A i, j \in Claims(t, v)' : f[i] = f[j] => i = j
  PROVE  Enough(t, v)'
<1>k. PICK K : K = Kept(t, v)'
  OBVIOUS
<1>c. PICK C : C = Claims(t, v)'
  OBVIOUS
<1>1. IsFiniteSet(K) /\ Cardinality(K) \in Nat /\ Cardinality(C) \in Nat /\ e \in K
  BY <1>k, <1>c, KeptFiniteAfter
<1>2. IsFiniteSet(K \ {e}) /\ Cardinality(K \ {e}) = Cardinality(K) - 1
  BY <1>1, FS_RemoveElement
<1>3. f \in Injection(C, K \ {e})
  BY <1>k, <1>c DEF Injection, IsInjective
<1>4. Cardinality(C) <= Cardinality(K \ {e})
  BY <1>2, <1>3, FS_Injection
<1>5. Cardinality(C) <= Cardinality(K) /\ Cardinality(C) < Cardinality(K)
  BY <1>1, <1>2, <1>4
<1> QED  BY <1>k, <1>c, <1>5 DEF Enough

(* The steps of a call that only retains, and those of the others. *)
LEMMA RetainsStarted ==
  ASSUME HeapTypeOK, NEW t \in Threads, todo[t] = <<>>, NEW ops \in Seq(Operations), Start(t, ops),
         \A i \in DOMAIN ops : ops[i].op = "retain"
  PROVE  /\ todo'[t] = ops /\ \A v : Claims(t, v)' = {i \in DOMAIN ops : ops[i].on = v}
         /\ \A y \in Places' : At(y)'.op = "retain" \/ \E x \in Places : At(y)' = At(x) /\ x[1] = y[1] /\ x[1] # t
<1>1. todo'[t] = ops
  BY DEF Start, HeapTypeOK
<1>2. \A i \in DOMAIN ops : ops[i] \in Operations
  BY LenProperties, ElementOfSeq
<1>3. \A v : Claims(t, v)' = {i \in DOMAIN ops : ops[i].on = v}
  BY <1>1, <1>2 DEF Claims, Picked, Waiting
<1>4. todo \in [Threads -> Seq(Operations)]
  BY DEF HeapTypeOK
<1>5. \A y \in Places' : \/ y[1] = t /\ \E i \in DOMAIN ops : At(y)' = ops[i]
                         \/ y \in Places /\ y[1] # t /\ At(y)' = At(y)
  BY <1>4, StepsStarted
<1>6. \A y \in Places' : At(y)'.op = "retain" \/ \E x \in Places : At(y)' = At(x) /\ x[1] = y[1] /\ x[1] # t
  <2> SUFFICES ASSUME NEW y \in Places', ~(At(y)'.op = "retain")
               PROVE  \E x \in Places : At(y)' = At(x) /\ x[1] = y[1] /\ x[1] # t
    OBVIOUS
  <2>1. y \in Places /\ y[1] # t /\ At(y)' = At(y)
    BY <1>5
  <2> QED  BY <2>1
<1> QED  BY <1>1, <1>3, <1>6

(* A cell of a container that no step is about counts, and is kept. *)
LEMMA CellKept ==
  ASSUME HeapTypeOK, NEW t \in Threads, NEW v \in Objects, NEW c \in Objects, NEW i \in DOMAIN cells'[c],
         cells'[c][i] = Strong(v), mem'[c] = "live", Owner[c] = t, held'[t][c] > 0,
         \A y \in Places' : ~(At(y)'.op \in {"store", "empty"} /\ At(y)'.on = c)
  PROVE  <<"cell", <<c, i>>>> \in Kept(t, v)'
<1>1. ~cells'[c][i].weak /\ cells'[c][i].to = v /\ v # Null
  BY DEF Strong, HeapAssumption
<1>2. ~Released(c, i)' /\ ~Replaced(c, i)'
  BY DEF Released, Replaced
<1>3. <<c, i>> \in References(v)'
  BY <1>1, <1>2 DEF References, Counted
<1>4. <<c, i>> \in RefsBy(t, v)'
  BY <1>3 DEF RefsBy
<1> QED  BY <1>4 DEF Kept

(* An object is made, with the references that its maker retains.           *)
LEMMA NewCellsReaches ==
  ASSUME ReachNow, Defined' => HeapTypeOK', NEW t \in Threads, todo[t] = <<>>, NEW o \in Objects,
         NEW vs \in Seq(Born \cup {Null}), NewCells(t, o, vs)
  PROVE  Reaches
<1>p. PICK ops : ops = [i \in DOMAIN vs |-> Retaining(vs[i])]
  OBVIOUS
<1>q. PICK q : q = [i \in DOMAIN vs |-> Strong(vs[i])]
  OBVIOUS
<1>n. PICK n \in Nat : n = Len(vs) /\ DOMAIN vs = 1 .. n
  BY LenProperties
<1>0. /\ HeapTypeOK /\ BornInv /\ StepsInv /\ touched' = {} /\ UNCHANGED <<node, skew>> /\ Start(t, ops)
      /\ mem' = [mem EXCEPT ![o] = "live"] /\ held' = [held EXCEPT ![t][o] = 1] /\ cells' = [cells EXCEPT ![o] = q]
      /\ mem[o] = "new" /\ Owner[o] = t /\ borrowed' = borrowed \cup ((ToSet(vs) \ {Null}) \ Safe(t))
  BY <1>p, <1>q DEF ReachNow, HeapOK, NewCells, Borrow, weak, Defined
<1>1. o \notin Born /\ o # Null /\ Born \subseteq Objects /\ \A i \in 1 .. n : vs[i] \in Born \cup {Null} /\ vs[i] \in Values
  <2>1. o \notin Born /\ o # Null /\ Born \subseteq Objects
    BY <1>0 DEF Born, HeapAssumption
  <2>2. \A i \in 1 .. n : vs[i] \in Born \cup {Null}
    BY <1>n, ElementOfSeq
  <2> QED  BY <2>1, <2>2 DEF Values
<1>2. /\ DOMAIN ops = 1 .. n /\ DOMAIN q = 1 .. n /\ \A i \in 1 .. n : ops[i] = Retaining(vs[i]) /\ q[i] = Strong(vs[i])
  BY <1>n, <1>p, <1>q
<1>3. /\ ops \in Seq(Operations)
      /\ \A i \in 1 .. n : ops[i].op = "retain" /\ ops[i].on = vs[i]
  <2>1. \A v \in Values : Retaining(v) \in Operations
    BY Primitives
  <2>2. \A v : Retaining(v).op = "retain" /\ Retaining(v).on = v
    BY DEF Retaining
  <2>3. ops \in [1 .. n -> Operations]
    BY <1>1, <1>n, <1>p, <2>1
  <2>4. ops \in Seq(Operations)
    BY <2>3, SeqDef
  <2> QED  BY <1>2, <2>2, <2>4
<1>4. \A i \in 1 .. n : vs[i] = Null \/ (Fine(vs[i]) /\ (vs[i] \notin borrowed' => vs[i] \in Safe(t)))
  <2> SUFFICES ASSUME NEW i \in 1 .. n, vs[i] # Null
               PROVE  Fine(vs[i]) /\ (vs[i] \notin borrowed' => vs[i] \in Safe(t))
    OBVIOUS
  <2>1. vs[i] \in ToSet(vs)
    BY <1>n DEF ToSet
  <2>2. vs[i] \notin borrowed' => vs[i] \in Safe(t)
    BY <1>0, <2>1
  <2> QED  BY <1>0, <1>1, <2>2, FineIs
<1>5. q \in Seq(KnownCells)
  <2>1. \A i \in 1 .. n : Strong(vs[i]) \in KnownCells
    BY <1>4, StrongKnown DEF Fine
  <2>2. q \in [1 .. n -> KnownCells]
    BY <1>n, <1>q, <2>1
  <2> QED  BY <2>2, SeqDef
<1>6. /\ mem'[o] = "live" /\ cells'[o] = q /\ \A d \in Objects \ {o} : mem'[d] = mem[d] /\ cells'[d] = cells[d]
  BY <1>0 DEF HeapTypeOK
<1>7. /\ held[t][o] = 0 /\ held'[t][o] = 1 /\ \A u \in Threads, w \in Objects : ~(u = t /\ w = o) => held'[u][w] = held[u][w]
      /\ held \in [Threads -> [Objects -> Nat]] /\ held' \in [Threads -> [Objects -> Nat]]
  <2>1. held \in [Threads -> [Objects -> Nat]]
    BY <1>0 DEF HeapTypeOK
  <2>2. held[t][o] = 0
    BY <1>0, <1>1 DEF BornInv
  <2> QED  BY <1>0, <2>1, <2>2
<1>8. Fine(o)
  BY <1>6 DEF Fine
<1>9. CallOK(t, ops)
  <2>1. /\ \A d \in Objects : Owner[d] # t => cells'[d] = cells[d] /\ mem'[d] = mem[d]
        /\ \A d \in Objects : mem'[d] = mem[d] \/ (mem[d] = "new" /\ mem'[d] = "live")
        /\ \A d \in Objects : (cells'[d] = cells[d] /\ mem'[d] = mem[d]) \/ cells'[d] \in Seq(KnownCells)
    BY <1>0, <1>5, <1>6
  <2>2. \A i \in DOMAIN ops : ops[i].op \in {"retain", "release"} /\ (ops[i].on = Null \/ Fine(ops[i].on))
    BY <1>2, <1>3, <1>4
  <2>3. /\ \A u \in Threads, v \in Objects : held'[u][v] > 0 => held[u][v] > 0 \/ Fine(v)
        /\ \A u \in Threads \ {t} : \A v \in Objects : held'[u][v] >= held[u][v]
    <3>1. \A u \in Threads, v \in Objects : held'[u][v] = held[u][v] \/ (u = t /\ v = o)
      BY <1>7
    <3>2. \A u \in Threads, v \in Objects : held[u][v] \in Nat
      BY <1>7
    <3> QED  BY <1>8, <3>1, <3>2
  <2>4. node' = node /\ touched' = {} /\ borrowed \subseteq borrowed' /\ skew' = skew /\ skew \in [Objects -> Int]
    BY <1>0 DEF HeapTypeOK
  <2> QED  BY <2>1, <2>2, <2>3, <2>4 DEF CallOK
<1>10. /\ todo'[t] = ops /\ \A v : Claims(t, v)' = {i \in DOMAIN ops : ops[i].on = v}
       /\ \A y \in Places' : At(y)'.op = "retain" \/ \E x \in Places : At(y)' = At(x) /\ x[1] = y[1] /\ x[1] # t
  <2>1. \A i \in DOMAIN ops : ops[i].op = "retain"
    BY <1>2, <1>3
  <2> QED  BY <1>0, <1>3, <2>1, RetainsStarted
<1>11. \A y \in Places' : ~(At(y)'.op \in {"store", "empty"} /\ At(y)'.on = o)
  <2> SUFFICES ASSUME NEW y \in Places', At(y)'.op \in {"store", "empty"}, At(y)'.on = o PROVE FALSE
    OBVIOUS
  <2>1. PICK x \in Places : At(y)' = At(x)
    BY <1>10
  <2> QED  BY <1>0, <1>1, <2>1 DEF BornInv
<1>12. ASSUME HeapTypeOK', NEW v \in Objects \ borrowed', Claims(t, v)' # {} PROVE Enough(t, v)'
  <2>c. Claims(t, v)' = {i \in 1 .. n : vs[i] = v}
    BY <1>2, <1>3, <1>10
  <2>1. v \in Safe(t)
    BY <1>4, <1>12, <2>c DEF HeapAssumption
  <2>2. PICK e : e \in Kept(t, v)
    BY <1>0, <2>1, SafeIsKept
  <2>3. Spared(t, ops, t, v)
    <3>1. \A c \in Objects : held'[t][c] >= held[t][c]
      <4>1. \A c \in Objects : held[t][c] \in Nat
        BY <1>7
      <4>2. \A c \in Objects : c = o \/ held'[t][c] = held[t][c]
        BY <1>7
      <4>3. held'[t][o] >= held[t][o]
        BY <1>7
      <4> QED  BY <4>1, <4>2, <4>3
    <3>2. \A j \in DOMAIN ops : ops[j].op = "retain"
      BY <1>2, <1>3
    <3>3. \A c \in Objects : \A i \in RefsIn(c, v) : held[t][c] > 0 => c # o /\ i \in DOMAIN cells[c] /\ mem[c] \in {"live", "dying"}
      BY <1>7 DEF RefsIn, Counted
    <3>4. \A j \in DOMAIN ops : /\ \A c, i : ops[j] \notin EmptiesPast(c, i) /\ ops[j] \notin StoresAt(c, i)
                                /\ \A m : ops[j] \notin UnlinksOf(m)
      BY <3>2 DEF EmptiesPast, StoresAt, UnlinksOf
    <3> QED  BY <1>0, <1>6, <3>1, <3>3, <3>4 DEF Spared
  <2>4. e \in Kept(t, v)'
    <3>1. GoesOn(t, ops)
      BY <1>0 DEF GoesOn
    <3> QED  BY <1>0, <1>3, <1>7, <2>2, <2>3, <3>1, KeptStays
  <2>5. \A i : e # <<"cell", <<o, i>>>>
    BY <1>7, <2>2 DEF Kept, RefsBy
  <2>f. PICK f : f = [i \in Claims(t, v)' |-> <<"cell", <<o, i>>>>]
    OBVIOUS
  <2>6. ASSUME NEW i \in Claims(t, v)' PROVE <<"cell", <<o, i>>>> \in Kept(t, v)'
    <3>1. i \in DOMAIN cells'[o] /\ cells'[o][i] = Strong(v)
      BY <1>2, <1>6, <2>c
    <3> QED  BY <1>0, <1>6, <1>7, <1>11, <3>1, CellKept
  <2>7. f \in [Claims(t, v)' -> Kept(t, v)' \ {e}] /\ \A i, j \in Claims(t, v)' : f[i] = f[j] => i = j
    BY <2>5, <2>6, <2>f
  <2> QED  BY <1>12, <2>4, <2>7, EnoughIf
<1>13. Defined' => ThreadOK(t)'
  BY <1>2, <1>3, <1>10, <1>12, StartedPlain
<1> QED  BY <1>0, <1>3, <1>9, <1>13, CallReaches

(* The constructors. *)
LEMMA NewReaches ==
  ASSUME ReachNow, Defined' => HeapTypeOK', NEW t \in Threads, todo[t] = <<>>, NEW o \in Objects, New(t, o)
  PROVE  Reaches
<1>1. <<>> \in Seq(Born \cup {Null}) /\ NewCells(t, o, <<>>)
  BY DEF New
<1> QED  BY <1>1, NewCellsReaches

(* A result retains its value and its error, which its maker can use.       *)
LEMMA NewResultReaches ==
  ASSUME ReachNow, Defined' => HeapTypeOK', NEW t \in Threads, todo[t] = <<>>, NEW o \in Objects, NEW v \in Usable(t) \cup {Null},
         NEW e \in Usable(t) \cup {Null}, NewResult(t, o, v, e)
  PROVE  Reaches
<1>1. v \in Born \cup {Null} /\ e \in Born \cup {Null}
  BY UsableIsBorn DEF ReachNow, HeapOK
<1>2. <<v, e>> \in Seq(Born \cup {Null}) /\ NewCells(t, o, <<v, e>>)
  BY <1>1 DEF NewResult
<1> QED  BY <1>2, NewCellsReaches

(* A slice retains what its array has, which stays in there.                *)
LEMMA ArraySliceReaches ==
  ASSUME ReachNow, Defined' => HeapTypeOK', NEW t \in Threads, todo[t] = <<>>, NEW o \in Objects, NEW a \in Objects,
         NEW i \in DOMAIN cells[a], ArraySlice(t, a, i, o)
  PROVE  Reaches
<1>1. Tos(a, i, 1) \in Seq(Born \cup {Null})
  BY TosAre DEF ReachNow, HeapOK
<1>2. NewCells(t, o, Tos(a, i, 1))
  BY DEF ArraySlice
<1> QED  BY <1>1, <1>2, NewCellsReaches

(* So does the list of a dictionary's keys or values.                       *)
LEMMA DictListReaches ==
  ASSUME ReachNow, Defined' => HeapTypeOK', NEW t \in Threads, todo[t] = <<>>, NEW o \in Objects, NEW d \in Objects,
         Kind[d] = "dict", NEW first \in 1 .. 2, DictList(t, d, first, o)
  PROVE  Reaches
<1>1. first \in DOMAIN cells[d]
  <2>1. PICK s \in Seq(Cell) : s = cells[d]
    BY DEF ReachNow, HeapOK, HeapTypeOK
  <2>2. PICK m \in Nat : m = Len(s) /\ DOMAIN s = 1 .. m
    BY LenProperties
  <2>3. m # 0 /\ m % 2 = 0
    <3>1. s # <<>>
      BY <2>1 DEF DictList
    <3>2. m % 2 = 0
      BY <2>1, <2>2 DEF ReachNow, HeapOK, CellsInv, CellsOf
    <3> QED  BY <2>2, <3>1, <3>2, EmptySeq
  <2>4. first \in 1 .. m
    BY <2>3
  <2> QED  BY <2>1, <2>2, <2>4
<1>2. Tos(d, first, 2) \in Seq(Born \cup {Null})
  BY <1>1, TosAre DEF ReachNow, HeapOK
<1>3. NewCells(t, o, Tos(d, first, 2))
  BY DEF DictList
<1> QED  BY <1>2, <1>3, NewCellsReaches

-----------------------------------------------------------------------------
(* A list with two members more.                                            *)
LEMMA TwoAppended ==
  ASSUME NEW A, NEW s \in Seq(A), NEW a \in A, NEW e \in A, NEW q, q = s \o <<a, e>>, NEW m, m = Len(s)
  PROVE  /\ m \in Nat /\ DOMAIN s = 1 .. m /\ DOMAIN q = 1 .. m + 2 /\ q \in Seq(A)
         /\ q[m + 1] = a /\ q[m + 2] = e /\ \A i \in 1 .. m : q[i] = s[i]
<1>0. <<a, e>> \in Seq(A)
  OBVIOUS
<1>w. PICK w \in Seq(A) : w = <<a, e>>
  BY <1>0
<1>1. Len(w) = 2 /\ w[1] = a /\ w[2] = e
  BY <1>w
<1>2. q = s \o w /\ m \in Nat /\ DOMAIN s = 1 .. m
  BY <1>w, LenProperties
<1>3. q \in Seq(A) /\ Len(q) = Len(s) + Len(w) /\ \A i \in 1 .. Len(s) + Len(w) : q[i] = IF i <= Len(s) THEN s[i] ELSE w[i - Len(s)]
  BY <1>2, ConcatProperties
<1>4. DOMAIN q = 1 .. m + 2
  BY <1>1, <1>3, LenProperties
<1>5. m + 1 \in 1 .. m + 2 /\ m + 2 \in 1 .. m + 2 /\ ~(m + 1 <= m) /\ ~(m + 2 <= m) /\ (m + 1) - m = 1 /\ (m + 2) - m = 2
  BY <1>2
<1>6. q[m + 1] = a /\ q[m + 2] = e
  BY <1>1, <1>3, <1>5
<1>7. \A i \in 1 .. m : q[i] = s[i]
  BY <1>1, <1>2, <1>3
<1> QED  BY <1>2, <1>3, <1>4, <1>6, <1>7

(* What a call that only retains leaves of what its thread keeps. *)
LEMMA SparedByRetains ==
  ASSUME HeapTypeOK, NEW t \in Threads, NEW ops, \A i \in DOMAIN ops : ops[i].op = "retain", NEW v,
         \A c \in Objects : \A i \in RefsIn(c, v) : i \in DOMAIN cells'[c] /\ cells'[c][i] = cells[c][i],
         UNCHANGED <<mem, held>>, \A n \in Nodes : node[n].used = "yes" => node'[n] = node[n]
  PROVE  Spared(t, ops, t, v)
<1>1. \A j \in DOMAIN ops : /\ \A c, i : ops[j] \notin EmptiesPast(c, i) /\ ops[j] \notin StoresAt(c, i)
                            /\ \A m : ops[j] \notin UnlinksOf(m)
  BY DEF EmptiesPast, StoresAt, UnlinksOf
<1>2. \A c \in Objects : held'[t][c] >= held[t][c]
  BY DEF HeapTypeOK
<1>3. \A c \in Objects : \A i \in RefsIn(c, v) : mem'[c] \in {"live", "dying"}
  BY DEF RefsIn, Counted
<1>4. \A n \in KeysBy(t, v) : node'[n] = node[n]
  BY DEF KeysBy, KeyOf
<1> QED  BY <1>1, <1>2, <1>3, <1>4 DEF Spared

(* While it runs, no step is about a container of its thread's. *)
LEMMA NoStepOn ==
  ASSUME HeapTypeOK, StepsInv, NEW t \in Threads, todo[t] = <<>>, NEW ops \in Seq(Operations), Start(t, ops),
         \A i \in DOMAIN ops : ops[i].op = "retain", NEW d \in Objects, mem[d] = "live", Owner[d] = t
  PROVE  \A y \in Places' : ~(At(y)'.op \in {"store", "empty"} /\ At(y)'.on = d)
<1> SUFFICES ASSUME NEW y \in Places', At(y)'.op \in {"store", "empty"}, At(y)'.on = d PROVE FALSE
  OBVIOUS
<1>1. PICK x \in Places : At(y)' = At(x) /\ x[1] # t
  BY RetainsStarted
<1>2. StepOK(x[1], At(x))
  BY DEF StepsInv
<1> QED  BY <1>1, <1>2 DEF StepOK

(* A set at a new key retains the key and the value in cells of their own.  *)
LEMMA DictSetNewReaches ==
  ASSUME ReachNow, Defined' => HeapTypeOK', NEW t \in Threads, todo[t] = <<>>, NEW d \in Mine(t, "dict"), NEW k \in Usable(t),
         NEW v \in Usable(t), DictSet(t, d, k, v), Entry(d, k) = {}
  PROVE  Reaches
<1>p. PICK ops : ops = <<Retaining(k), Retaining(v)>>
  OBVIOUS
<1>q. PICK q : q = cells[d] \o <<Strong(k), Strong(v)>>
  OBVIOUS
<1>n. PICK m : m = Len(cells[d])
  OBVIOUS
<1>0. /\ HeapTypeOK /\ BornInv /\ StepsInv /\ touched' = {} /\ UNCHANGED <<mem, held, node, skew>>
      /\ Start(t, ops) /\ cells' = [cells EXCEPT ![d] = q] /\ borrowed' = borrowed \cup ({k, v} \ Safe(t))
  BY <1>p, <1>q DEF ReachNow, HeapOK, DictSet, Call, Borrow, WithEntry, OnlyCells, weak, Defined, HeapTypeOK, Mine
<1>1. d \in Objects /\ Owner[d] = t /\ mem[d] = "live" /\ held[t][d] > 0
  BY <1>0, MineIs
<1>2. /\ k \in Objects /\ v \in Objects /\ Fine(k) /\ Fine(v)
      /\ (k \notin borrowed' => k \in Safe(t)) /\ (v \notin borrowed' => v \in Safe(t))
  <2>1. k \in Objects /\ v \in Objects
    BY <1>0, UsableIsBorn
  <2>2. (k \notin borrowed' => k \in Safe(t)) /\ (v \notin borrowed' => v \in Safe(t))
    BY <1>0
  <2> QED  BY <1>0, <2>1, <2>2, FineIs
<1>3. /\ ops \in Seq(Operations) /\ DOMAIN ops = {1, 2} /\ ops[1].on = k /\ ops[2].on = v
      /\ \A i \in DOMAIN ops : ops[i].op = "retain" /\ ops[i].on \in {k, v}
  <2>1. Retaining(k) \in Operations /\ Retaining(v) \in Operations
    BY <1>2, Primitives DEF Values
  <2>2. ops \in Seq(Operations)
    BY <1>p, <2>1, ShortLists
  <2>3. DOMAIN ops = {1, 2} /\ ops[1] = Retaining(k) /\ ops[2] = Retaining(v)
    BY <1>p
  <2> QED  BY <2>2, <2>3 DEF Retaining
<1>4. /\ m \in Nat /\ DOMAIN cells[d] = 1 .. m /\ DOMAIN q = 1 .. m + 2 /\ q \in Seq(KnownCells)
      /\ q[m + 1] = Strong(k) /\ q[m + 2] = Strong(v) /\ \A i \in 1 .. m : q[i] = cells[d][i]
  <2>a. PICK a \in KnownCells : a = Strong(k)
    BY <1>2, StrongKnown
  <2>e. PICK e \in KnownCells : e = Strong(v)
    BY <1>2, StrongKnown
  <2>s. PICK s \in Seq(KnownCells) : s = cells[d]
    BY <1>0, MineIs
  <2>1. m = Len(s) /\ q = s \o <<a, e>>
    BY <1>n, <1>q, <2>a, <2>e, <2>s
  <2> QED  BY <2>a, <2>e, <2>s, <2>1, TwoAppended
<1>5. cells'[d] = q /\ \A c \in Objects \ {d} : cells'[c] = cells[c]
  BY <1>0, <1>1 DEF HeapTypeOK
<1>6. /\ \A e \in Objects : Owner[e] # t => cells'[e] = cells[e] /\ mem'[e] = mem[e]
      /\ \A e \in Objects : mem'[e] = mem[e]
      /\ \A e \in Objects : (cells'[e] = cells[e] /\ mem'[e] = mem[e]) \/ cells'[e] \in Seq(KnownCells)
  BY <1>0, <1>1, <1>4, OneKnown DEF OneChanges
<1>7. CallOK(t, ops)
  <2>1. \A i \in DOMAIN ops : ops[i].op \in {"retain", "release"} /\ (ops[i].on = Null \/ Fine(ops[i].on))
    BY <1>2, <1>3
  <2>2. /\ UNCHANGED <<node, held, skew>> /\ touched' = {} /\ borrowed \subseteq borrowed' /\ skew \in [Objects -> Int]
        /\ \A u \in Threads : \A w \in Objects : held[u][w] \in Nat
    BY <1>0 DEF HeapTypeOK
  <2> QED  BY <1>6, <2>1, <2>2 DEF CallOK
<1>8. ASSUME HeapTypeOK', NEW x \in Objects \ borrowed', Claims(t, x)' # {} PROVE Enough(t, x)'
  <2>r. \A i \in DOMAIN ops : ops[i].op = "retain"
    BY <1>3
  <2>c. Claims(t, x)' = {i \in DOMAIN ops : ops[i].on = x}
    BY <1>0, <1>3, <2>r, RetainsStarted
  <2>1. x \in Safe(t)
    BY <1>2, <1>3, <1>8, <2>c
  <2>2. PICK e : e \in Kept(t, x)
    BY <1>0, <2>1, SafeIsKept
  <2>3. \A c \in Objects : \A i \in RefsIn(c, x) : i \in DOMAIN cells'[c] /\ cells'[c][i] = cells[c][i]
    <3> SUFFICES ASSUME NEW c \in Objects, NEW i \in RefsIn(c, x) PROVE i \in DOMAIN cells'[c] /\ cells'[c][i] = cells[c][i]
      OBVIOUS
    <3>1. i \in DOMAIN cells[c]
      BY DEF RefsIn
    <3>2. 1 .. m \subseteq 1 .. m + 2
      BY <1>4
    <3> QED  BY <1>4, <1>5, <3>1, <3>2
  <2>4. Spared(t, ops, t, x)
    BY <1>0, <2>r, <2>3, SparedByRetains
  <2>5. e \in Kept(t, x)'
    <3>1. GoesOn(t, ops) /\ held' \in [Threads -> [Objects -> Nat]]
      BY <1>0 DEF GoesOn, HeapTypeOK
    <3> QED  BY <1>0, <1>3, <2>2, <2>4, <3>1, KeptStays
  <2>f. PICK f : f = [i \in Claims(t, x)' |-> <<"cell", <<d, m + i>>>>]
    OBVIOUS
  <2>6. ASSUME NEW i \in Claims(t, x)' PROVE f[i] \in Kept(t, x)' \ {e}
    <3>1. i \in {1, 2} /\ ops[i].on = x /\ m + i \in DOMAIN cells'[d] /\ m + i \notin 1 .. m
      BY <1>3, <1>4, <1>5, <2>c
    <3>2. cells'[d][m + i] = Strong(x)
      BY <1>3, <1>4, <1>5, <3>1
    <3>3. \A y \in Places' : ~(At(y)'.op \in {"store", "empty"} /\ At(y)'.on = d)
      BY <1>0, <1>1, <1>3, <2>r, NoStepOn
    <3>4. mem'[d] = "live" /\ held'[t][d] > 0
      BY <1>0, <1>1
    <3>5. <<"cell", <<d, m + i>>>> \in Kept(t, x)'
      BY <1>0, <1>1, <3>1, <3>2, <3>3, <3>4, CellKept
    <3>6. <<"cell", <<d, m + i>>>> \notin Kept(t, x)
      BY <1>4, <3>1 DEF Kept, RefsBy, References
    <3> QED  BY <2>2, <2>f, <3>5, <3>6
  <2>7. f \in [Claims(t, x)' -> Kept(t, x)' \ {e}]
    BY <2>6, <2>f
  <2>8. \A i, j \in Claims(t, x)' : f[i] = f[j] => i = j
    <3> SUFFICES ASSUME NEW i \in Claims(t, x)', NEW j \in Claims(t, x)', f[i] = f[j] PROVE i = j
      OBVIOUS
    <3>1. i \in {1, 2} /\ j \in {1, 2}
      BY <1>3, <2>c
    <3>2. m + i = m + j
      BY <2>f
    <3> QED  BY <1>4, <3>1, <3>2
  <2> QED  BY <1>8, <2>5, <2>7, <2>8, EnoughIf
<1>9. Defined' => ThreadOK(t)'
  <2>r. \A i \in DOMAIN ops : ops[i].op = "retain"
    BY <1>3
  <2>1. todo'[t] = ops
    BY <1>0, <1>3, <2>r, RetainsStarted
  <2> QED  BY <1>8, <2>r, <2>1, StartedPlain
<1> QED  BY <1>0, <1>3, <1>7, <1>9, CallReaches

(* The key that a new entry of the weak list keeps. *)
LEMMA KeyKept ==
  ASSUME HeapTypeOK, NEW t \in Threads, todo[t] = <<>>, NEW ops \in Seq(Operations), Start(t, ops),
         \A i \in DOMAIN ops : ops[i].op = "retain", NEW n \in Nodes, ~UnlinkSoon(n),
         NEW k, node'[n].key = k, node'[n].used = "yes", Owner[node'[n].dict] = t
  PROVE  <<"key", n>> \in Kept(t, k)'
<1>1. ~UnlinkSoon(n)'
  <2> SUFFICES ASSUME NEW y \in Places', At(y)'.op = "unlink", At(y)'.entry = n PROVE FALSE
    BY DEF UnlinkSoon
  <2>1. PICK x \in Places : At(y)' = At(x)
    BY RetainsStarted
  <2> QED  BY <2>1 DEF UnlinkSoon
<1>2. n \in KeysBy(t, k)'
  BY <1>1 DEF KeysBy, KeyOf
<1> QED  BY <1>2 DEF Kept

(* Its maker retains the key for the dictionary, if it is new there, and    *)
(* for the list: each has it then.                                          *)
LEMMA DictSetWeakReaches ==
  ASSUME ReachNow, Defined' => HeapTypeOK', NEW t \in Threads, todo[t] = <<>>, NEW d \in Mine(t, "dict"), NEW k \in Usable(t),
         NEW v \in Held(t), NEW n \in Nodes, DictSetWeak(t, d, k, v, n)
  PROVE  Reaches
<1>new. PICK new \in BOOLEAN : new <=> Entry(d, k) = {}
  OBVIOUS
<1>p. PICK ops : ops = IF new THEN <<Retaining(k), Retaining(k)>> ELSE <<Retaining(k)>>
  OBVIOUS
<1>e. PICK r : r = [NewEntry EXCEPT !.used = "yes", !.on = v, !.dict = d, !.key = k]
  OBVIOUS
<1>n. PICK m : m = Len(cells[d])
  OBVIOUS
<1>i. PICK j : j = Value(d, k)
  OBVIOUS
<1>q. PICK q : q = IF new THEN cells[d] \o <<Strong(k), Weakly(v)>> ELSE [cells[d] EXCEPT ![j] = Weakly(v)]
  OBVIOUS
<1>0. /\ HeapTypeOK /\ BornInv /\ CellsInv /\ NodesInv /\ StepsInv /\ SkewInv /\ touched' = {} /\ UNCHANGED <<mem, held, weakVar>>
      /\ borrowed' = borrowed \cup ({k} \ Safe(t)) /\ Register(t, n, r) /\ SetWeak(d, k, v)
      /\ Start(t, KeyRetained(d, k) \o <<Retaining(k)>>)
  BY <1>e DEF ReachNow, HeapOK, DictSetWeak, Call, Borrow, Defined
<1>1. /\ d \in Objects /\ Kind[d] = "dict" /\ Owner[d] = t /\ mem[d] = "live" /\ held[t][d] > 0
      /\ cells[d] \in Seq(KnownCells)
  BY <1>0, MineIs
<1>2. /\ k \in Objects /\ v \in Objects /\ k # Null /\ v # Null /\ Fine(k) /\ (k \notin borrowed' => k \in Safe(t))
  <2>1. k \in Objects /\ v \in Objects /\ Null \notin Objects
    BY <1>0, UsableIsBorn, FineIs
  <2>2. k \notin borrowed' => k \in Safe(t)
    BY <1>0
  <2> QED  BY <1>0, <2>1, <2>2, FineIs
<1>3. /\ Start(t, ops) /\ ops \in Seq(Operations) /\ DOMAIN ops = (IF new THEN {1, 2} ELSE {1})
      /\ \A i \in DOMAIN ops : ops[i].op = "retain" /\ ops[i].on = k
  <2>0. Retaining(k) \in Operations /\ Retaining(k).op = "retain" /\ Retaining(k).on = k
    BY <1>2, Primitives DEF Retaining, Values
  <2>1. CASE new
    <3>1. KeyRetained(d, k) = <<Retaining(k)>>
      BY <1>new, <2>1 DEF KeyRetained
    <3>2. <<Retaining(k)>> \o <<Retaining(k)>> = <<Retaining(k), Retaining(k)>>
      BY Doubled
    <3>3. ops = <<Retaining(k), Retaining(k)>>
      BY <1>p, <2>1
    <3>4. ops \in Seq(Operations) /\ DOMAIN ops = {1, 2} /\ \A i \in DOMAIN ops : ops[i] = Retaining(k)
      BY <2>0, <3>3, ShortLists
    <3> QED  BY <1>0, <2>0, <2>1, <3>1, <3>2, <3>3, <3>4
  <2>2. CASE ~new
    <3>1. KeyRetained(d, k) = <<>>
      BY <1>new, <2>2 DEF KeyRetained
    <3>2. <<>> \o <<Retaining(k)>> = <<Retaining(k)>>
      OBVIOUS
    <3>3. ops = <<Retaining(k)>>
      BY <1>p, <2>2
    <3>4. ops \in Seq(Operations) /\ DOMAIN ops = {1} /\ \A i \in DOMAIN ops : ops[i] = Retaining(k)
      BY <2>0, <3>3, ShortLists
    <3> QED  BY <1>0, <2>0, <2>2, <3>1, <3>2, <3>3, <3>4
  <2> QED  BY <2>1, <2>2
<1>4. /\ ~new => j \in DOMAIN cells[d]
      /\ cells' = [cells EXCEPT ![d] = q] /\ skew' = (IF new THEN skew ELSE Leak(d, j))
  <2>1. CASE new
    <3>1. cells' = WithEntry(d, k, Weakly(v)) /\ skew' = skew
      BY <1>0, <1>new, <2>1 DEF SetWeak
    <3>2. q = cells[d] \o <<Strong(k), Weakly(v)>>
      BY <1>q, <2>1
    <3>3. cells' = [cells EXCEPT ![d] = q]
      BY <1>0, <1>1, <3>1, <3>2 DEF WithEntry, HeapTypeOK
    <3> QED  BY <2>1, <3>1, <3>3
  <2>2. CASE ~new
    <3>1. cells' = Overwritten(d, j, Weakly(v)) /\ skew' = Leak(d, j)
      BY <1>0, <1>new, <1>i, <2>2 DEF SetWeak
    <3>2. q = [cells[d] EXCEPT ![j] = Weakly(v)]
      BY <1>q, <2>2
    <3>3. cells' = [cells EXCEPT ![d] = q]
      BY <1>0, <1>1, <3>1, <3>2 DEF Overwritten, HeapTypeOK
    <3>4. j \in DOMAIN cells[d]
      BY <1>0, <1>1, <1>i, <1>new, <2>2, ValueIsThere
    <3> QED  BY <2>2, <3>1, <3>3, <3>4
  <2> QED  BY <2>1, <2>2
<1>5. cells'[d] = q /\ \A c \in Objects \ {d} : cells'[c] = cells[c]
  BY <1>0, <1>1, <1>4 DEF HeapTypeOK
<1>6. /\ q \in Seq(KnownCells)
      /\ \A i \in DOMAIN cells[d] : i \in DOMAIN q /\ (q[i] = cells[d][i] \/ (~new /\ i = j))
      /\ new => m \in Nat /\ m + 1 \notin DOMAIN cells[d] /\ m + 1 \in DOMAIN q /\ q[m + 1] = Strong(k)
  <2>a. PICK a \in KnownCells : a = Strong(k)
    BY <1>2, StrongKnown
  <2>w. PICK w \in KnownCells : w = Weakly(v)
    BY <1>2, StrongKnown DEF Values
  <2>s. PICK s \in Seq(KnownCells) : s = cells[d]
    BY <1>1
  <2>1. CASE new
    <3>1. q = s \o <<a, w>> /\ m = Len(s)
      BY <1>n, <1>q, <2>1, <2>a, <2>w, <2>s
    <3>2. /\ m \in Nat /\ DOMAIN s = 1 .. m /\ DOMAIN q = 1 .. m + 2 /\ q \in Seq(KnownCells)
          /\ q[m + 1] = a /\ \A i \in 1 .. m : q[i] = s[i]
      BY <3>1, TwoAppended
    <3>3. 1 .. m \subseteq 1 .. m + 2 /\ m + 1 \notin 1 .. m /\ m + 1 \in 1 .. m + 2
      BY <3>2
    <3> QED  BY <2>1, <2>a, <2>s, <3>2, <3>3
  <2>2. CASE ~new
    <3>1. q = [s EXCEPT ![j] = w] /\ j \in DOMAIN s
      BY <1>q, <1>4, <2>2, <2>w, <2>s
    <3>2. q \in Seq(KnownCells)
      BY <3>1, ExceptSeq
    <3>3. \A i \in DOMAIN s : i \in DOMAIN q /\ (q[i] = s[i] \/ i = j)
      BY <3>1
    <3> QED  BY <2>2, <2>s, <3>2, <3>3
  <2> QED  BY <2>1, <2>2
<1>7. skew' \in [Objects -> Int] /\ \A x \in Objects : skew'[x] <= skew[x]
  <2>1. CASE new
    BY <1>0, <1>4, <2>1 DEF HeapTypeOK
  <2>2. CASE ~new
    <3>1. skew' = Leak(d, j)
      BY <1>4, <2>2
    <3> QED  BY <1>0, <3>1, LeakIs
  <2> QED  BY <2>1, <2>2
<1>8. /\ node'[n] = r /\ \A x \in Nodes \ {n} : node'[x] = node[x]
      /\ r.used = "yes" /\ r.dict = d /\ r.key = k
      /\ ~UnlinkSoon(n) /\ node[n].used = "no" /\ \A x : n \notin KeyOf(x)
      /\ \A x \in Nodes : node[x].used # "no" => node'[x] = node[x]
  <2>1. /\ r \in [used : {"yes"}, on : Values, var : WeakVars \cup {Null}, dict : Values, key : Values]
        /\ r.used = "yes" /\ r.dict = d /\ r.key = k
    BY <1>1, <1>2, <1>e DEF NewEntry, Values
  <2>2. weakVar' \in [WeakVars -> Values]
    BY <1>0 DEF HeapTypeOK
  <2> QED  BY <1>0, <2>1, <2>2, RegisterDoes
<1>9. CallOK(t, ops)
  <2>1. /\ \A e \in Objects : Owner[e] # t => cells'[e] = cells[e] /\ mem'[e] = mem[e]
        /\ \A e \in Objects : mem'[e] = mem[e]
        /\ \A e \in Objects : (cells'[e] = cells[e] /\ mem'[e] = mem[e]) \/ cells'[e] \in Seq(KnownCells)
    BY <1>0, <1>1, <1>4, <1>6, OneKnown DEF OneChanges
  <2>2. \A x \in Nodes : node'[x] = node[x] \/ (node[x].used = "no" /\ Fine(node'[x].key))
    BY <1>2, <1>8
  <2>3. \A i \in DOMAIN ops : ops[i].op \in {"retain", "release"} /\ (ops[i].on = Null \/ Fine(ops[i].on))
    BY <1>2, <1>3
  <2>4. held' = held /\ touched' = {} /\ borrowed \subseteq borrowed' /\ \A u \in Threads : \A w \in Objects : held[u][w] \in Nat
    BY <1>0 DEF HeapTypeOK
  <2> QED  BY <1>7, <2>1, <2>2, <2>3, <2>4 DEF CallOK
<1>r. \A i \in DOMAIN ops : ops[i].op = "retain"
  BY <1>3
<1>c. todo'[t] = ops /\ \A x : Claims(t, x)' = {i \in DOMAIN ops : x = k}
  <2>1. todo'[t] = ops /\ \A x : Claims(t, x)' = {i \in DOMAIN ops : ops[i].on = x}
    BY <1>0, <1>3, <1>r, RetainsStarted
  <2> QED  BY <1>3, <2>1
<1>k. <<"key", n>> \in Kept(t, k)'
  <2>1. node'[n].key = k /\ node'[n].used = "yes" /\ Owner[node'[n].dict] = t
    BY <1>1, <1>8
  <2> QED  BY <1>0, <1>3, <1>8, <1>r, <2>1, KeyKept
<1>10. ASSUME HeapTypeOK', NEW x \in Objects \ borrowed', Claims(t, x)' # {} PROVE Enough(t, x)'
  <2>0. x = k /\ k \in Safe(t) /\ k \notin borrowed
    BY <1>0, <1>2, <1>10, <1>c
  <2> SUFFICES Enough(t, k)'
    BY <2>0
  <2>C. PICK C : C = Claims(t, k)'
    OBVIOUS
  <2>K. PICK K : K = Kept(t, k)'
    OBVIOUS
  <2>1. CASE \A c \in Objects : \A i \in RefsIn(c, k) : i \in DOMAIN cells'[c] /\ cells'[c][i] = cells[c][i]
    <3>2. PICK e : e \in Kept(t, k)
      BY <1>0, <2>0, SafeIsKept
    <3>4. Spared(t, ops, t, k)
      <4>1. \A y \in Nodes : node[y].used = "yes" => node'[y] = node[y]
        BY <1>8
      <4> QED  BY <1>0, <1>r, <2>1, <4>1, SparedByRetains
    <3>5. e \in Kept(t, k)'
      <4>1. GoesOn(t, ops) /\ held' \in [Threads -> [Objects -> Nat]]
        BY <1>0, <1>3 DEF GoesOn, HeapTypeOK
      <4> QED  BY <1>0, <1>2, <1>3, <3>2, <3>4, <4>1, KeptStays
    <3>f. PICK f : f = [i \in C |-> IF i = 1 THEN <<"key", n>> ELSE <<"cell", <<d, m + 1>>>>]
      OBVIOUS
    <3>6. <<"key", n>> # e
      BY <1>8, <3>2 DEF Kept, KeysBy
    <3>7. new => <<"cell", <<d, m + 1>>>> \in K /\ <<"cell", <<d, m + 1>>>> # e
      <4> SUFFICES ASSUME new PROVE <<"cell", <<d, m + 1>>>> \in K /\ <<"cell", <<d, m + 1>>>> # e
        OBVIOUS
      <4>1. m + 1 \in DOMAIN cells'[d] /\ cells'[d][m + 1] = Strong(k) /\ m + 1 \notin DOMAIN cells[d]
        BY <1>5, <1>6
      <4>2. \A y \in Places' : ~(At(y)'.op \in {"store", "empty"} /\ At(y)'.on = d)
        BY <1>0, <1>1, <1>3, <1>r, NoStepOn
      <4>3. mem'[d] = "live" /\ held'[t][d] > 0
        BY <1>0, <1>1
      <4>4. <<"cell", <<d, m + 1>>>> \in Kept(t, k)'
        BY <1>0, <1>1, <1>2, <4>1, <4>2, <4>3, CellKept
      <4>5. <<"cell", <<d, m + 1>>>> \notin Kept(t, k)
        BY <4>1 DEF Kept, RefsBy, References
      <4> QED  BY <2>K, <3>2, <4>4, <4>5
    <3>8. \A i \in C : i \in {1, 2} /\ (i = 2 => new)
      BY <1>3, <1>c, <2>C
    <3>9. f \in [C -> K \ {e}]
      BY <1>k, <2>K, <3>f, <3>6, <3>7, <3>8
    <3>10. \A i, h \in C : f[i] = f[h] => i = h
      BY <3>f, <3>8
    <3> QED  BY <1>2, <1>10, <2>C, <2>K, <3>5, <3>9, <3>10, EnoughIf
  <2>2. CASE new
    <3>1. \A c \in Objects : \A i \in RefsIn(c, k) : i \in DOMAIN cells'[c] /\ cells'[c][i] = cells[c][i]
      BY <1>5, <1>6, <2>2 DEF RefsIn
    <3> QED  BY <2>1, <3>1
  <2>3. CASE ~new /\ j \notin RefsIn(d, k)
    <3>1. \A c \in Objects : \A i \in RefsIn(c, k) : i \in DOMAIN cells'[c] /\ cells'[c][i] = cells[c][i]
      BY <1>5, <1>6, <2>3 DEF RefsIn
    <3> QED  BY <2>1, <3>1
  <2>4. CASE ~new /\ j \in RefsIn(d, k)
    <3>1. skew'[k] < 0
      <4>1. cells[d][j].to = k /\ Counted(d, j)
        BY <2>4 DEF RefsIn
      <4>2. skew' = [skew EXCEPT ![k] = @ - 1]
        BY <1>4, <2>4, <4>1 DEF Leak
      <4>3. skew[k] \in Int /\ skew'[k] = skew[k] - 1
        BY <1>0, <1>2, <4>2 DEF HeapTypeOK
      <4>4. ~(skew[k] > 0)
        BY <1>0, <1>2, <2>0 DEF SkewInv
      <4> QED  BY <4>3, <4>4
    <3>2. C = {1}
      BY <1>3, <1>c, <2>4, <2>C
    <3>3. Cardinality(C) = 1
      BY <3>2, FS_Singleton
    <3>4. IsFiniteSet(K) /\ Cardinality(K) \in Nat
      BY <1>2, <1>10, <2>K, KeptFiniteAfter
    <3>5. Cardinality(K) # 0
      BY <1>k, <2>K, <3>4, FS_EmptySet
    <3>6. Cardinality(C) <= Cardinality(K) /\ skew'[k] # 0
      BY <3>1, <3>3, <3>4, <3>5
    <3> QED  BY <2>C, <2>K, <3>6 DEF Enough
  <2> QED  BY <2>2, <2>3, <2>4
<1>11. Defined' => ThreadOK(t)'
  BY <1>c, <1>r, <1>10, StartedPlain
<1> QED  BY <1>0, <1>3, <1>9, <1>11, CallReaches

(* The calls on an array lead there. *)
LEMMA OnArrayReaches ==
  ASSUME ReachNow, Defined' => HeapTypeOK', NEW t \in Threads, todo[t] = <<>>, NEW a \in Mine(t, "sequence"), OnArray(t, a)
  PROVE  Reaches
<1>0. ReachNow /\ (Defined' => HeapTypeOK') /\ todo[t] = <<>> /\ a \in Objects
  BY DEF Mine
<1>1. CASE ArrayPop(t, a)
  BY <1>0, <1>1, ArrayPopReaches
<1>2. ASSUME NEW v \in Usable(t), NEW i \in 1 .. Len(cells[a]) + 1, ArrayInsert(t, a, i, v) PROVE Reaches
  BY <1>0, <1>2, ArrayInsertReaches
<1>3. ASSUME NEW v \in Usable(t), NEW i \in DOMAIN cells[a], ArraySet(t, a, i, v) PROVE Reaches
  BY <1>0, <1>3, ArraySetReaches
<1>4. ASSUME NEW i \in DOMAIN cells[a], ArrayRemove(t, a, i) PROVE Reaches
  BY <1>0, <1>4, ArrayRemoveReaches
<1>5. ASSUME NEW i \in DOMAIN cells[a], NEW o \in Objects, ArraySlice(t, a, i, o) PROVE Reaches
  BY <1>0, <1>5, ArraySliceReaches
<1> QED  BY <1>1, <1>2, <1>3, <1>4, <1>5 DEF OnArray

(* The calls on a dictionary lead there. *)
LEMMA OnDictReaches ==
  ASSUME ReachNow, Defined' => HeapTypeOK', NEW t \in Threads, todo[t] = <<>>, NEW d \in Mine(t, "dict"), OnDict(t, d)
  PROVE  Reaches
<1>0. ReachNow /\ (Defined' => HeapTypeOK') /\ todo[t] = <<>> /\ d \in Objects /\ Kind[d] = "dict"
  BY DEF Mine
<1>1. ASSUME NEW o \in Objects, NEW first \in 1 .. 2, DictList(t, d, first, o) PROVE Reaches
  BY <1>0, <1>1, DictListReaches
<1>2. ASSUME NEW k \in Usable(t), DictRemove(t, d, k) PROVE Reaches
  BY <1>0, <1>2, DictRemoveReaches
<1>3. ASSUME NEW k \in Usable(t), NEW v \in Usable(t), DictSet(t, d, k, v) PROVE Reaches
  <2>1. CASE Entry(d, k) # {}
    BY <1>0, <1>3, <2>1, DictSetOverReaches
  <2>2. CASE Entry(d, k) = {}
    BY <1>0, <1>3, <2>2, DictSetNewReaches
  <2> QED  BY <2>1, <2>2
<1>4. ASSUME NEW k \in Usable(t), NEW v \in Held(t), NEW n \in Nodes, DictSetWeak(t, d, k, v, n) PROVE Reaches
  BY <1>0, <1>4, DictSetWeakReaches
<1> QED  BY <1>1, <1>2, <1>3, <1>4 DEF OnDict

(* Every call that begins leads there. *)
LEMMA OperationReaches ==
  ASSUME ReachNow, Defined' => HeapTypeOK', NEW t \in Threads, Operation(t)
  PROVE  Reaches
<1>0. ReachNow /\ (Defined' => HeapTypeOK') /\ todo[t] = <<>>
  BY DEF Operation
<1>1. ASSUME NEW o \in Objects, New(t, o) PROVE Reaches
  BY <1>0, <1>1, NewReaches
<1>2. ASSUME NEW o \in Objects, NEW v \in Usable(t) \cup {Null}, NEW e \in Usable(t) \cup {Null}, NewResult(t, o, v, e)
      PROVE  Reaches
  BY <1>0, <1>2, NewResultReaches
<1>3. ASSUME NEW o \in Usable(t), Keep(t, o) PROVE Reaches
  BY <1>0, <1>3, KeepReaches
<1>4. ASSUME NEW o \in Held(t), LetGo(t, o) \/ RetainForever(t, o) \/ \E u \in Threads : Hand(t, u, o) PROVE Reaches
  <2>1. o \in Objects
    BY DEF Held
  <2> QED  BY <1>0, <1>4, <2>1, LetGoReaches, RetainForeverReaches, HandReaches
<1>5. ASSUME NEW o \in Held(t), NEW w \in WeakVars, NEW n \in Nodes, WeakInit(t, w, o, n) PROVE Reaches
  BY <1>0, <1>5, WeakInitReaches
<1>6. ASSUME NEW a \in Mine(t, "sequence"), OnArray(t, a) PROVE Reaches
  BY <1>0, <1>6, OnArrayReaches
<1>7. ASSUME NEW d \in Mine(t, "dict"), OnDict(t, d) PROVE Reaches
  BY <1>0, <1>7, OnDictReaches
<1>8. ASSUME NEW o \in Objects,
             New(t, o) \/ \E v, e \in (Usable(t) \cap Fits[o]) \cup {Null} : NewResult(t, o, v, e)
      PROVE Reaches
  BY <1>1, <1>2, <1>8
<1>9. ASSUME NEW o \in Held(t),
             \/ LetGo(t, o) \/ RetainForever(t, o)
             \/ \E u \in Threads : Hand(t, u, o)
             \/ \E w \in WeakVars, n \in Nodes : WeakInit(t, w, o, n)
      PROVE Reaches
  BY <1>4, <1>5, <1>9
<1> QED  BY <1>3, <1>6, <1>7, <1>8, <1>9 DEF Operation

(* The counts that threads own are numbers, whatever has happened.          *)
HeldOK == held \in [Threads -> [Objects -> Nat]]

(* Changing one number leaves numbers.                                      *)
LEMMA OneNumber ==
  ASSUME NEW h \in [Threads -> [Objects -> Nat]], NEW u \in Threads, NEW o, NEW n, o \in Objects => n \in Nat
  PROVE  [h EXCEPT ![u][o] = n] \in [Threads -> [Objects -> Nat]]
<1>g. PICK g : g = [h[u] EXCEPT ![o] = n]
  OBVIOUS
<1>1. h[u] \in [Objects -> Nat]
  OBVIOUS
<1>2. g \in [Objects -> Nat]
  BY <1>1, <1>g
<1>3. [h EXCEPT ![u][o] = n] = [h EXCEPT ![u] = g]
  BY <1>g
<1> QED  BY <1>2, <1>3

(* Counts owned stay numbers, also where the model says nothing more.       *)
LEMMA HeldStays ==
  ASSUME HeapTypeOK, NEW t \in Threads, Step(t) \/ Operation(t)
  PROVE  HeldOK'
<1>0. held \in [Threads -> [Objects -> Nat]] /\ \A o \in Held(t) : o \in Objects /\ held[t][o] \in Nat \ {0}
  BY DEF HeapTypeOK, Held
<1>1. CASE held' = held
  BY <1>0, <1>1 DEF HeldOK
<1>2. ASSUME NEW o, held' = [held EXCEPT ![t][o] = @ + 1] PROVE HeldOK'
  <2>1. PICK n : n = held[t][o] + 1
    OBVIOUS
  <2>2. o \in Objects => n \in Nat
    BY <1>0, <2>1
  <2>3. held' = [held EXCEPT ![t][o] = n]
    BY <1>2, <2>1
  <2> QED  BY <1>0, <2>2, <2>3, OneNumber DEF HeldOK
<1>3. ASSUME NEW o \in Objects, NEW vs, NewCells(t, o, vs) PROVE HeldOK'
  <2>1. held' = [held EXCEPT ![t][o] = 1]
    BY <1>3 DEF NewCells
  <2>2. PICK n \in Nat : n = 1
    OBVIOUS
  <2> QED  BY <1>0, <2>1, <2>2, OneNumber DEF HeldOK
<1>4. ASSUME NEW o \in Held(t), LetGo(t, o) PROVE HeldOK'
  <2>1. PICK n \in Nat : n = held[t][o] - 1
    BY <1>0
  <2>2. held' = [held EXCEPT ![t][o] = n]
    BY <1>4, <2>1 DEF LetGo
  <2> QED  BY <1>0, <2>2, OneNumber DEF HeldOK
<1>5. ASSUME NEW o \in Held(t), NEW u \in Threads, Hand(t, u, o) PROVE HeldOK'
  <2>1. PICK n \in Nat : n = held[t][o] - 1
    BY <1>0
  <2>2. PICK h \in [Threads -> [Objects -> Nat]] : h = [held EXCEPT ![t][o] = n]
    BY <1>0, OneNumber
  <2>3. held' = [held EXCEPT ![t][o] = @ - 1, ![u][o] = 1]
    BY <1>5 DEF Hand
  <2>4. PICK m \in Nat : m = 1
    OBVIOUS
  <2>5. held' = [h EXCEPT ![u][o] = m]
    BY <2>1, <2>2, <2>3, <2>4
  <2> QED  BY <2>5, OneNumber DEF HeldOK
<1>6. CASE Step(t)
  <2>1. held' = held
    BY <1>6 DEF Step, Retain, Release, Store, Visit, Unlink, Empty, counts
  <2> QED  BY <1>1, <2>1
<1>7. CASE Operation(t)
  <2>1. ASSUME NEW o \in Objects, New(t, o) PROVE HeldOK'
    BY <1>3, <2>1 DEF New
  <2>2. ASSUME NEW o \in Objects, NEW v, NEW e, NewResult(t, o, v, e) PROVE HeldOK'
    BY <1>3, <2>2 DEF NewResult
  <2>3. ASSUME NEW o, Keep(t, o) PROVE HeldOK'
    BY <1>2, <2>3 DEF Keep
  <2>4. ASSUME NEW o \in Held(t),
               \/ LetGo(t, o) \/ RetainForever(t, o)
               \/ \E u \in Threads : Hand(t, u, o)
               \/ \E w \in WeakVars, n \in Nodes : WeakInit(t, w, o, n)
        PROVE HeldOK'
    <3>1. ASSUME RetainForever(t, o) PROVE held' = held
      BY <3>1 DEF RetainForever
    <3>2. ASSUME NEW w, NEW n, WeakInit(t, w, o, n) PROVE held' = held
      BY <3>2 DEF WeakInit, counts
    <3> QED  BY <1>1, <1>4, <1>5, <2>4, <3>1, <3>2
  <2>5. ASSUME NEW a, OnArray(t, a) PROVE HeldOK'
    <3>1. ASSUME ArrayPop(t, a) PROVE HeldOK'
      BY <1>2, <3>1 DEF ArrayPop
    <3>2. ASSUME NEW v, NEW i, ArrayInsert(t, a, i, v) \/ ArraySet(t, a, i, v) PROVE held' = held
      BY <3>2 DEF ArrayInsert, ArraySet, OnlyCells
    <3>3. ASSUME NEW i, ArrayRemove(t, a, i) PROVE held' = held
      BY <3>3 DEF ArrayRemove, OnlyCells
    <3>4. ASSUME NEW i, NEW o \in Objects, ArraySlice(t, a, i, o) PROVE HeldOK'
      BY <1>3, <3>4 DEF ArraySlice
    <3> QED  BY <1>1, <2>5, <3>1, <3>2, <3>3, <3>4 DEF OnArray
  <2>6. ASSUME NEW d, OnDict(t, d) PROVE HeldOK'
    <3>1. ASSUME NEW first, NEW o \in Objects, DictList(t, d, first, o) PROVE HeldOK'
      BY <1>3, <3>1 DEF DictList
    <3>2. ASSUME NEW k, DictRemove(t, d, k) PROVE held' = held
      BY <3>2 DEF DictRemove, OnlyCells
    <3>3. ASSUME NEW k, NEW v, DictSet(t, d, k, v) PROVE held' = held
      BY <3>3 DEF DictSet, OnlyCells
    <3>4. ASSUME NEW k, NEW v, NEW n, DictSetWeak(t, d, k, v, n) PROVE held' = held
      BY <3>4 DEF DictSetWeak
    <3> QED  BY <1>1, <2>6, <3>1, <3>2, <3>3, <3>4 DEF OnDict
  <2> QED  BY <1>7, <2>1, <2>2, <2>3, <2>4, <2>5, <2>6 DEF Operation
<1> QED  BY <1>6, <1>7

(* At the start nothing is mentioned, and no thread has anything to do. *)
LEMMA ReachInit == Init => ReachInv /\ HeldOK
<1> SUFFICES ASSUME Init PROVE ReachInv /\ HeldOK
  OBVIOUS
<1>1. HeapInv
  BY HeapInit DEF HeapInv
<1>2. DeadInv /\ SkewInv /\ TouchedInv
  BY DEF Init, DeadInv, Dead, SkewInv, TouchedInv
<1>3. \A t \in Threads : DOMAIN todo[t] = {}
  BY DEF Init
<1>4. ASSUME NEW t \in Threads PROVE ThreadOK(t)
  <2>1. Covered(t)
    BY <1>3 DEF Covered, Claims, Picked
  <2>2. Secured(t) /\ StoresHeld(t)
    BY <1>3 DEF Secured, Plain, StoresHeld
  <2> QED  BY <2>1, <2>2 DEF ThreadOK
<1>5. HeldOK
  BY DEF Init, HeldOK
<1> QED  BY <1>1, <1>2, <1>4, <1>5 DEF ReachInv

(* Stuttering changes nothing of it. *)
LEMMA ReachUnchanged == ReachInv /\ UNCHANGED vars => ReachInv'
<1> SUFFICES ASSUME ReachInv, UNCHANGED vars PROVE ReachInv'
  OBVIOUS
<1>1. UNCHANGED <<mem, rc, cells, held, skew, weakVar, node, link, todo, borrowed, touched>> /\ (Defined' <=> Defined)
  BY DEF vars, counts, weak, Defined
<1>2. HeapInv'
  BY <1>1, HeapUnchanged DEF ReachInv, HeapInv
<1>3. /\ Places' = Places /\ (\A x : At(x)' = At(x)) /\ (\A c, v : RefsIn(c, v)' = RefsIn(c, v)) /\ (\A v : KeyOf(v)' = KeyOf(v))
      /\ \A v : References(v)' = References(v)
  BY <1>1 DEF Places, At, RefsIn, KeyOf, References, Counted, Released, Replaced, UnlinkSoon
<1>4. DeadInv' /\ SkewInv' /\ TouchedInv'
  <2>1. \A v : (Mentioned(v)' <=> Mentioned(v)) /\ (Dead(v)' <=> Dead(v))
    BY <1>1, <1>3 DEF Mentioned, Dead
  <2> QED  BY <1>1, <2>1 DEF ReachInv, DeadInv, SkewInv, TouchedInv
<1>5. ASSUME NEW t \in Threads PROVE ThreadOK(t)' <=> ThreadOK(t)
  <2>1. \A v : RefsBy(t, v)' = RefsBy(t, v) /\ KeysBy(t, v)' = KeysBy(t, v)
    BY <1>1, <1>3 DEF RefsBy, KeysBy
  <2>2. \A v : Kept(t, v)' = Kept(t, v) /\ Claims(t, v)' = Claims(t, v)
    BY <1>1, <2>1 DEF Kept, Claims
  <2>3. \A v : Enough(t, v)' <=> Enough(t, v)
    BY <1>1, <2>2 DEF Enough
  <2>4. Covered(t)' <=> Covered(t)
    BY <1>1, <2>2, <2>3 DEF Covered, Plain
  <2>5. Secured(t)' <=> Secured(t)
    BY <1>1, <2>1 DEF Secured, Plain, KeyFirst, Behind
  <2>6. StoresHeld(t)' <=> StoresHeld(t)
    BY <1>1 DEF StoresHeld, StoreHeld
  <2> QED  BY <2>4, <2>5, <2>6 DEF ThreadOK
<1> QED  BY <1>1, <1>2, <1>4, <1>5 DEF ReachInv

(* No step breaks it. *)
LEMMA ReachNext == ReachInv /\ HeldOK /\ [Next]_vars => ReachInv' /\ HeldOK'
<1> SUFFICES ASSUME ReachInv, HeldOK, [Next]_vars PROVE ReachInv' /\ HeldOK'
  OBVIOUS
<1>1. ASSUME NEW t \in Threads, Step(t) \/ Operation(t) PROVE ReachInv' /\ HeldOK'
  <2>1. ReachNow
    BY <1>1 DEF ReachInv, ReachNow, HeapInv, Step, Operation
  <2>2. HeapInv'
    BY <1>1, <2>1, StepKeeps, OperationKeeps DEF ReachNow, HeapInv
  <2>3. Defined' => HeapTypeOK'
    BY <2>2 DEF HeapInv, HeapOK
  <2>4. Reaches
    BY <1>1, <2>1, <2>3, StepDoes, OperationReaches
  <2>5. HeldOK'
    BY <1>1, <2>1, HeldStays DEF ReachNow, HeapOK
  <2> QED  BY <2>2, <2>4, <2>5 DEF Reaches, ReachInv
<1>2. CASE UNCHANGED vars
  BY <1>2, ReachUnchanged DEF HeldOK, vars, counts
<1> QED  BY <1>1, <1>2 DEF Next

(* What is freed is owned by nobody and referred to by nothing.             *)
LEMMA ReachEnough == ReachInv /\ HeldOK => NothingFreedIsReached
<1> SUFFICES ASSUME ReachInv, HeldOK, NEW o \in Objects \ borrowed
             PROVE  /\ o \in touched => \E n \in Nodes : node[n].dict = o
                    /\ Dead(o) => Owned(o) = {} /\ References(o) = {}
  BY DEF NothingFreedIsReached
<1>1. o \in touched => \E n \in Nodes : node[n].dict = o
  BY DEF ReachInv, TouchedInv
<1>2. ASSUME Dead(o) PROVE Owned(o) = {} /\ References(o) = {}
  <2>1. ~Mentioned(o)
    BY <1>2 DEF ReachInv, DeadInv
  <2>2. References(o) = {}
    BY <2>1 DEF Mentioned, References, RefsIn
  <2>3. \A t \in Threads : {t} \X (1 .. held[t][o]) = {}
    BY <2>1 DEF Mentioned, HeldOK
  <2> QED  BY <2>2, <2>3 DEF Owned
<1> QED  BY <1>1, <1>2

(* An object that is freed or being freed is owned by no thread and in no   *)
(* cell that counts, and one that was freed is used only as the dictionary  *)
(* of a weak entry, for any number of threads, objects and calls: but for   *)
(* objects that were used without a count to stand for it (borrowed).       *)
THEOREM NothingFreedReached == Spec => []NothingFreedIsReached
BY ReachInit, ReachNext, ReachEnough, PTL DEF Spec
=============================================================================
