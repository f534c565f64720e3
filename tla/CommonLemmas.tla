---------------------------- MODULE CommonLemmas ----------------------------
(***************************************************************************)
(* What several of the proofs rest on.  Remainders by a positive n, for    *)
(* the ring buffers of the runtime: which slot an index falls in, and when *)
(* two indices fall in the same one.  Counting, for its single signals:    *)
(* what one member more or less does to the size of a set.  Lists, for the *)
(* queues that hold everybody once.  The way from each number to the next, *)
(* for what is done along a list.  And how many members of a list are of a *)
(* kind, for the references that containers hold.                          *)
(***************************************************************************)
EXTENDS Integers, FiniteSets, SequencesExt, FiniteSetTheorems, SequenceTheorems,
        WellFoundedInduction, TLAPS

(* A remainder is a slot of a ring of n slots (every index computed modulo the size). *)
LEMMA ModRange ==
  ASSUME NEW n \in Nat \ {0}, NEW a \in Int
  PROVE  a % n \in 0..n-1
  OBVIOUS

(* The defining equation of quotient and remainder. *)
LEMMA DivMod ==
  ASSUME NEW n \in Nat \ {0}, NEW a \in Int
  PROVE  a \div n \in Int /\ a = n * (a \div n) + (a % n)
  OBVIOUS

(* The remainder is unique (an index n*q + r lies in slot r). *)
LEMMA ModOf ==
  ASSUME NEW n \in Nat \ {0}, NEW q \in Int, NEW r \in 0..n-1
  PROVE  (n*q+r) % n = r
  OBVIOUS

(* Going round a ring k times comes back to the same slot. *)
LEMMA ModShift ==
  ASSUME NEW n \in Nat \ {0}, NEW a \in Int, NEW k \in Int
  PROVE  (a+n*k) % n = a % n
  <1> DEFINE q == a \div n r == a % n
  <1>1. q \in Int /\ r \in 0..n-1 /\ a = n*q + r BY ModRange, DivMod
  <1> HIDE DEF q, r
  <1>2. q+k \in Int BY <1>1
  <1>2a. n*(q+k) = n*q + n*k BY <1>1
  <1>3. a + n*k = n*(q+k) + r BY <1>1, <1>2, <1>2a
  <1>4. (n*(q+k) + r) % n = r BY <1>1, <1>2, ModOf
  <1> QED BY <1>3, <1>4 DEF r

(* The special case of one turn. *)
LEMMA ModTurn ==
  ASSUME NEW n \in Nat \ {0}, NEW a \in Int
  PROVE  (a+n) % n = a % n
  <1>1. PICK k \in Int : k = 1 OBVIOUS
  <1>2. (a + n*k) % n = a % n BY ModShift
  <1>3. a + n*k = a + n BY <1>1
  <1> QED BY <1>2, <1>3

(* The slot of head + b when head is itself kept modulo n, as task_head is. *)
LEMMA ModAdd ==
  ASSUME NEW n \in Nat \ {0}, NEW a \in Int, NEW b \in Int
  PROVE  ((a % n) + b) % n = (a+b) % n
  <1> DEFINE q == a \div n r == a % n
  <1>1. q \in Int /\ r \in 0..n-1 /\ a = n*q + r BY ModRange, DivMod
  <1> HIDE DEF q, r
  <1>2. ((r+b) + n*q) % n = (r+b) % n
     <2> r+b \in Int BY <1>1
     <2> QED BY <1>1, ModShift
  <1>3. a + b = (r+b) + n*q BY <1>1
  <1> QED BY <1>2, <1>3 DEF r

(* Two indices in the same slot are at least n apart: among n successive
   ones no two share a slot. *)
LEMMA ModDistinct ==
  ASSUME NEW n \in Nat \ {0}, NEW a \in Int, NEW b \in Int, a % n = b % n, a < b
  PROVE  a + n <= b
  <1> DEFINE p == a \div n q == b \div n r == a % n
  <1>1. p \in Int /\ q \in Int /\ r \in 0..n-1 /\ a = n*p + r /\ b = n*q+r BY ModRange, DivMod
  <1> HIDE DEF p, q, r
  <1>2. q > p
     <2> SUFFICES ASSUME q <= p PROVE FALSE BY <1>1
     <2> PICK k \in Nat : p = q + k BY <1>1
     <2> n*p = n*q + n*k BY <1>1
     <2> n*k >= 0 OBVIOUS
     <2> QED BY <1>1
  <1>3. PICK k \in Nat : q = p + 1 + k 
     <2> q-p-1 \in Nat BY <1>1, <1>2
     <2> q = p + 1 + (q-p-1) BY <1>1
     <2> QED OBVIOUS
  <1>4. n*q = n*p + n + n*k BY <1>1, <1>3
  <1>5. n*k >= 0 OBVIOUS
  <1> QED BY <1>1, <1>4, <1>5

(* The slot at distance s from the head, and the distance of a slot, in a
   ring whose indices are kept below n: one is the inverse of the other. *)
LEMMA SlotAtDistance ==
  ASSUME NEW n \in Nat \ {0}, NEW h \in 0..n-1, NEW s \in 0..n-1, NEW i \in 0..n-1
  PROVE  (IF h <= i THEN i - h ELSE i - h + n) = s
            <=> i = (IF h + s < n THEN h + s ELSE h + s - n)
  <1>1. CASE h <= i /\ h + s < n BY <1>1
  <1>2. CASE h <= i /\ h + s >= n BY <1>2
  <1>3. CASE i < h /\ h + s < n BY <1>3
  <1>4. CASE i < h /\ h + s >= n BY <1>4
  <1> QED BY <1>1, <1>2, <1>3, <1>4

(* One more element moves the slot behind the last one on by one.          *)
LEMMA TailMoves ==
  ASSUME NEW n \in Nat \ {0}, NEW h \in 0..n-1, NEW s \in 0..n-1, NEW t,
         t = IF h + s < n THEN h + s ELSE h + s - n
  PROVE  (IF t + 1 < n THEN t + 1 ELSE t + 1 - n)
            = (IF h + (s + 1) < n THEN h + (s + 1) ELSE h + (s + 1) - n)
  <1>1. CASE h + s < n BY <1>1
  <1>2. CASE h + s >= n BY <1>2
  <1> QED BY <1>1, <1>2

(* One element less at the head leaves that slot where it is.              *)
LEMMA HeadMoves ==
  ASSUME NEW n \in Nat \ {0}, NEW h \in 0..n-1, NEW s \in 1..n, NEW k,
         k = IF h + 1 < n THEN h + 1 ELSE h + 1 - n
  PROVE  (IF h + s < n THEN h + s ELSE h + s - n)
            = (IF k + (s - 1) < n THEN k + (s - 1) ELSE k + (s - 1) - n)
  <1>1. CASE h + 1 < n BY <1>1
  <1>2. CASE h + 1 = n BY <1>2
  <1> QED BY <1>1, <1>2

-----------------------------------------------------------------------------
(* Counting: what a larger set, one more member and one less mean for a    *)
(* number of values that is owed to the members of a set.                  *)
LEMMA MoreMembers ==
  ASSUME NEW S, NEW T, IsFiniteSet(T), S \subseteq T
  PROVE  Cardinality(S) <= Cardinality(T) /\ Cardinality(S) \in Nat /\ Cardinality(T) \in Nat
  BY FS_Subset, FS_CardinalityType

(* One more on the way covers one value more.                              *)
LEMMA OneMoreMember ==
  ASSUME NEW S, NEW T, IsFiniteSet(T), S \subseteq T, NEW b \in T \ S
  PROVE  Cardinality(S) + 1 <= Cardinality(T) /\ Cardinality(S) \in Nat /\ Cardinality(T) \in Nat
  <1>1. IsFiniteSet(S) /\ Cardinality(S \cup {b}) = Cardinality(S) + 1
    BY FS_Subset, FS_AddElement
  <1>2. Cardinality(S \cup {b}) <= Cardinality(T) BY MoreMembers
  <1> QED BY <1>1, <1>2, FS_CardinalityType

(* One less covers one less.                                               *)
LEMMA OneLessMember ==
  ASSUME NEW S, NEW T, IsFiniteSet(S), IsFiniteSet(T), NEW a, S \ {a} \subseteq T
  PROVE  Cardinality(S) - 1 <= Cardinality(T) /\ Cardinality(S) \in Nat /\ Cardinality(T) \in Nat
  <1>1. Cardinality(S \ {a}) \in {Cardinality(S), Cardinality(S) - 1}
    BY FS_RemoveElement
  <1>2. Cardinality(S \ {a}) <= Cardinality(T) BY MoreMembers
  <1> QED BY <1>1, <1>2, FS_CardinalityType

(* At most one: the form in which steps keep it.                           *)
LEMMA AtMostOne ==
  ASSUME NEW S, IsFiniteSet(S)
  PROVE  Cardinality(S) <= 1 <=> \A x, y \in S : x = y
  <1>0. Cardinality(S) \in Nat BY FS_CardinalityType
  <1>1. ASSUME Cardinality(S) <= 1 PROVE \A x, y \in S : x = y
    <2>1. CASE Cardinality(S) = 0 BY <2>1, FS_EmptySet
    <2>2. CASE Cardinality(S) = 1
      <3>1. PICK z : S = {z} BY <2>2, FS_Singleton
      <3> QED BY <3>1
    <2> QED BY <1>0, <1>1, <2>1, <2>2
  <1>2. ASSUME \A x, y \in S : x = y PROVE Cardinality(S) <= 1
    <2>1. CASE S = {} BY <2>1, FS_EmptySet
    <2>2. CASE S # {}
      <3>1. PICK z \in S : TRUE BY <2>2
      <3>2. S = {z} BY <1>2, <3>1
      <3>3. Cardinality({z}) = 1 BY FS_Singleton
      <3> QED BY <3>2, <3>3
    <2> QED BY <2>1, <2>2
  <1> QED BY <1>1, <1>2

-----------------------------------------------------------------------------
(* Lists that hold everybody once: one more at the end, one less at either  *)
(* end, and another such list behind.                                       *)
LEMMA OnceAppended ==
  ASSUME NEW S, NEW s \in Seq(S), NEW x \in S
  PROVE  /\ Append(s, x) \in Seq(S) /\ ToSet(Append(s, x)) = ToSet(s) \cup {x}
         /\ IsInjective(s) /\ x \notin ToSet(s) => IsInjective(Append(s, x))
  <1>1. /\ Append(s, x) \in Seq(S) /\ Len(Append(s, x)) = Len(s) + 1
        /\ \A i \in 1 .. Len(s) : Append(s, x)[i] = s[i]
        /\ Append(s, x)[Len(s) + 1] = x
    BY AppendProperties
  <1>2. DOMAIN s = 1 .. Len(s) /\ Len(s) \in Nat /\ DOMAIN Append(s, x) = 1 .. Len(s) + 1
    BY <1>1, LenProperties
  <1>3. ToSet(Append(s, x)) = ToSet(s) \cup {x}
    <2>1. DOMAIN Append(s, x) = DOMAIN s \cup {Len(s) + 1} BY <1>2
    <2> QED BY <1>1, <1>2, <2>1 DEF ToSet
  <1>4. ASSUME IsInjective(s), x \notin ToSet(s) PROVE IsInjective(Append(s, x))
    <2>1. \A i \in 1 .. Len(s) : s[i] # x BY <1>2, <1>4 DEF ToSet
    <2> QED BY <1>1, <1>2, <1>4, <2>1 DEF IsInjective
  <1> QED BY <1>1, <1>3, <1>4

LEMMA OnceTail ==
  ASSUME NEW S, NEW s \in Seq(S), s # <<>>
  PROVE  /\ Tail(s) \in Seq(S) /\ Head(s) \in S /\ Head(s) \in ToSet(s)
         /\ IsInjective(s) => IsInjective(Tail(s)) /\ ToSet(Tail(s)) = ToSet(s) \ {Head(s)}
  <1>1. /\ Tail(s) \in Seq(S) /\ Len(Tail(s)) = Len(s) - 1 /\ Head(s) \in S
        /\ \A i \in 1 .. Len(Tail(s)) : Tail(s)[i] = s[i + 1]
    BY HeadTailProperties
  <1>2. /\ DOMAIN s = 1 .. Len(s) /\ Len(s) \in Nat \ {0} /\ DOMAIN Tail(s) = 1 .. Len(s) - 1
        /\ Head(s) = s[1]
    BY <1>1, LenProperties, EmptySeq
  <1>3. Head(s) \in ToSet(s) BY <1>2 DEF ToSet
  <1>4. ASSUME IsInjective(s) PROVE IsInjective(Tail(s))
    <2> SUFFICES ASSUME NEW i \in 1 .. Len(s) - 1, NEW j \in 1 .. Len(s) - 1, s[i + 1] = s[j + 1]
                 PROVE  i = j
      BY <1>1, <1>2 DEF IsInjective
    <2>1. i + 1 \in DOMAIN s /\ j + 1 \in DOMAIN s BY <1>2
    <2> QED BY <1>4, <2>1 DEF IsInjective
  <1>5. ASSUME IsInjective(s) PROVE ToSet(Tail(s)) = ToSet(s) \ {Head(s)}
    <2>1. ASSUME NEW i \in 1 .. Len(s) - 1 PROVE s[i + 1] \in ToSet(s) \ {Head(s)}
      <3>1. i + 1 \in DOMAIN s /\ 1 \in DOMAIN s /\ i + 1 # 1 BY <1>2
      <3> QED BY <1>2, <1>5, <3>1 DEF IsInjective, ToSet
    <2>2. ASSUME NEW i \in DOMAIN s, s[i] # Head(s) PROVE s[i] \in ToSet(Tail(s))
      <3>1. i - 1 \in 1 .. Len(s) - 1 /\ (i - 1) + 1 = i BY <1>2, <2>2
      <3>2. Tail(s)[i - 1] = s[i] BY <1>1, <3>1
      <3> QED BY <1>2, <3>1, <3>2 DEF ToSet
    <2>3. \A i \in DOMAIN Tail(s) : Tail(s)[i] = s[i + 1] BY <1>1, <1>2, LenProperties
    <2>4. ToSet(Tail(s)) \subseteq ToSet(s) \ {Head(s)} BY <1>2, <2>1, <2>3 DEF ToSet
    <2>5. ToSet(s) \ {Head(s)} \subseteq ToSet(Tail(s)) BY <2>2 DEF ToSet
    <2> QED BY <2>4, <2>5
  <1> QED BY <1>1, <1>3, <1>4, <1>5

LEMMA OnceFront ==
  ASSUME NEW S, NEW s \in Seq(S), s # <<>>
  PROVE  /\ Front(s) \in Seq(S) /\ Last(s) \in S /\ Last(s) \in ToSet(s)
         /\ IsInjective(s) => IsInjective(Front(s)) /\ ToSet(Front(s)) = ToSet(s) \ {Last(s)}
  <1>1. DOMAIN s = 1 .. Len(s) /\ Len(s) \in Nat \ {0} /\ \A i \in 1 .. Len(s) : s[i] \in S
    BY LenProperties, EmptySeq, ElementOfSeq
  <1>2. /\ Front(s) \in Seq(S) /\ Len(Front(s)) = Len(s) - 1
        /\ \A i \in 1 .. Len(s) - 1 : Front(s)[i] = s[i]
    <2> DEFINE n == Len(s) - 1
    <2>1. n \in Int /\ 1 \in Int /\ \A i \in 1 .. n : s[i] \in S BY <1>1
    <2>2. /\ SubSeq(s, 1, n) \in Seq(S)
          /\ Len(SubSeq(s, 1, n)) = IF 1 <= n THEN n - 1 + 1 ELSE 0
          /\ \A i \in 1 .. n - 1 + 1 : SubSeq(s, 1, n)[i] = s[1 + i - 1]
      <3> HIDE DEF n
      <3> QED BY <2>1, SubSeqProperties
    <2>3. \A i \in 1 .. n : i \in 1 .. n - 1 + 1 /\ 1 + i - 1 = i BY <2>1
    <2>4. \A i \in 1 .. n : SubSeq(s, 1, n)[i] = s[i] BY <2>2, <2>3
    <2>5. Len(SubSeq(s, 1, n)) = n BY <1>1, <2>2
    <2> QED BY <2>2, <2>4, <2>5 DEF Front
  <1>3. DOMAIN Front(s) = 1 .. Len(s) - 1 /\ Last(s) = s[Len(s)] /\ Len(s) \in DOMAIN s
    BY <1>1, <1>2, LenProperties DEF Last
  <1>4. Last(s) \in S /\ Last(s) \in ToSet(s) BY <1>1, <1>3 DEF ToSet
  <1>5. ASSUME IsInjective(s) PROVE IsInjective(Front(s))
    BY <1>1, <1>2, <1>3, <1>5 DEF IsInjective
  <1>6. ASSUME IsInjective(s) PROVE ToSet(Front(s)) = ToSet(s) \ {Last(s)}
    <2> DEFINE m == Len(s)
    <2>0. DOMAIN s = 1 .. m /\ m \in Nat \ {0} BY <1>1
    <2>1. \A i \in 1 .. m - 1 : i \in DOMAIN s /\ i # m
      <3> HIDE DEF m
      <3> QED BY <2>0
    <2>2. \A i \in DOMAIN s : i # m => i \in 1 .. m - 1
      <3> HIDE DEF m
      <3> QED BY <2>0
    <2>3. \A i \in DOMAIN s : s[i] = Last(s) <=> i = Len(s) BY <1>3, <1>6 DEF IsInjective
    <2> QED BY <1>2, <1>3, <2>1, <2>2, <2>3 DEF ToSet
  <1> QED BY <1>2, <1>4, <1>5, <1>6

LEMMA OnceJoined ==
  ASSUME NEW S, NEW s \in Seq(S), NEW q \in Seq(S)
  PROVE  /\ s \o q \in Seq(S) /\ ToSet(s \o q) = ToSet(s) \cup ToSet(q)
         /\ IsInjective(s) /\ IsInjective(q) /\ ToSet(s) \cap ToSet(q) = {} => IsInjective(s \o q)
  <1> DEFINE m == Len(s) n == Len(q)
  <1>1. m \in Nat /\ n \in Nat /\ DOMAIN s = 1 .. m /\ DOMAIN q = 1 .. n
    BY LenProperties
  <1>2. /\ s \o q \in Seq(S) /\ Len(s \o q) = m + n
        /\ \A i \in 1 .. m + n : (s \o q)[i] = IF i <= m THEN s[i] ELSE q[i - m]
    BY ConcatProperties
  <1>3. DOMAIN (s \o q) = 1 .. m + n BY <1>2, LenProperties
  <1> HIDE DEF m, n
  <1>4. /\ \A i \in 1 .. m : i \in 1 .. m + n /\ (s \o q)[i] = s[i]
        /\ \A i \in 1 .. n : m + i \in 1 .. m + n /\ (s \o q)[m + i] = q[i]
    <2>1. \A i \in 1 .. m : i \in 1 .. m + n /\ i <= m BY <1>1
    <2>2. \A i \in 1 .. n : m + i \in 1 .. m + n /\ ~(m + i <= m) /\ (m + i) - m = i BY <1>1
    <2> QED BY <1>2, <2>1, <2>2
  <1>5. \A i \in 1 .. m + n : i \in 1 .. m \/ (i > m /\ i - m \in 1 .. n /\ m + (i - m) = i) BY <1>1
  <1>6. ToSet(s \o q) = ToSet(s) \cup ToSet(q)
    <2>1. ASSUME NEW i \in 1 .. m + n PROVE (s \o q)[i] \in ToSet(s) \cup ToSet(q)
      BY <1>1, <1>4, <1>5 DEF ToSet
    <2>2. ToSet(s \o q) \subseteq ToSet(s) \cup ToSet(q) BY <1>3, <2>1 DEF ToSet
    <2>3. ToSet(s) \subseteq ToSet(s \o q)
      <3>1. \A i \in DOMAIN s : i \in DOMAIN (s \o q) /\ (s \o q)[i] = s[i] BY <1>1, <1>3, <1>4
      <3> QED BY <3>1 DEF ToSet
    <2>4. ToSet(q) \subseteq ToSet(s \o q)
      <3>1. \A i \in DOMAIN q : m + i \in DOMAIN (s \o q) /\ (s \o q)[m + i] = q[i] BY <1>1, <1>3, <1>4
      <3> QED BY <3>1 DEF ToSet
    <2> QED BY <2>2, <2>3, <2>4
  <1>7. ASSUME IsInjective(s), IsInjective(q), ToSet(s) \cap ToSet(q) = {}
        PROVE  IsInjective(s \o q)
    <2>1. \A i \in 1 .. m, j \in 1 .. n : s[i] # q[j] BY <1>1, <1>7 DEF ToSet
    <2>2. ASSUME NEW i \in 1 .. m + n, NEW j \in 1 .. m + n, (s \o q)[i] = (s \o q)[j] PROVE i = j
      <3>1. CASE i \in 1 .. m /\ j \in 1 .. m
        BY <1>1, <1>4, <1>7, <2>2, <3>1 DEF IsInjective
      <3>2. CASE i > m /\ j > m
        <4>1. i - m \in 1 .. n /\ j - m \in 1 .. n /\ q[i - m] = q[j - m]
          BY <1>1, <1>2, <2>2, <3>2
        <4>2. i - m = j - m BY <1>1, <1>7, <4>1 DEF IsInjective
        <4> QED BY <1>1, <4>2
      <3>3. CASE i \in 1 .. m /\ j > m
        <4>1. j - m \in 1 .. n /\ ~(j <= m) BY <1>1, <3>3
        <4>2. (s \o q)[i] = s[i] /\ (s \o q)[j] = q[j - m] BY <1>2, <1>4, <3>3, <4>1
        <4> QED BY <2>1, <2>2, <3>3, <4>1, <4>2
      <3>4. CASE i > m /\ j \in 1 .. m
        <4>1. i - m \in 1 .. n /\ ~(i <= m) BY <1>1, <3>4
        <4>2. (s \o q)[j] = s[j] /\ (s \o q)[i] = q[i - m] BY <1>2, <1>4, <3>4, <4>1
        <4> QED BY <2>1, <2>2, <3>4, <4>1, <4>2
      <3> QED BY <1>1, <1>5, <3>1, <3>2, <3>3, <3>4
    <2> QED BY <1>3, <2>2 DEF IsInjective
  <1> QED BY <1>2, <1>6, <1>7

(* A list of a set's members as long as the set is large has each once.    *)
LEMMA OnceCounted ==
  ASSUME NEW S, IsFiniteSet(S), NEW q \in [1 .. Cardinality(S) -> S], ToSet(q) = S
  PROVE  q \in Seq(S) /\ IsInjective(q)
  <1>1. Cardinality(S) \in Nat BY FS_CardinalityType
  <1>2. q \in Seq(S) BY <1>1
  <1>3. IsFiniteSet(1 .. Cardinality(S)) /\ Cardinality(1 .. Cardinality(S)) = Cardinality(S)
    BY <1>1, FS_Interval
  <1>4. q \in Surjection(1 .. Cardinality(S), S) BY DEF Surjection, ToSet
  <1>5. q \in Injection(1 .. Cardinality(S), S) BY <1>3, <1>4, FS_SurjSameCardinalityImpliesInj
  <1> QED BY <1>2, <1>5 DEF Injection

(* The first members of such a list are one.                               *)
LEMMA OnceCut ==
  ASSUME NEW S, NEW s \in Seq(S), NEW n \in 1 .. Len(s)
  PROVE  /\ SubSeq(s, 1, n) \in Seq(S) /\ ToSet(SubSeq(s, 1, n)) \subseteq ToSet(s)
         /\ IsInjective(s) => IsInjective(SubSeq(s, 1, n))
  <1> DEFINE q == SubSeq(s, 1, n)
  <1>1. Len(s) \in Nat /\ DOMAIN s = 1 .. Len(s) BY LenProperties
  <1>2. q \in Seq(S) /\ Len(q) = n /\ \A i \in 1 .. n : q[i] = s[i]
    BY <1>1, SubSeqProperties
  <1>3. DOMAIN q = 1 .. n /\ 1 .. n \subseteq 1 .. Len(s) BY <1>1, <1>2, LenProperties
  <1> HIDE DEF q
  <1>4. ToSet(q) \subseteq ToSet(s) BY <1>1, <1>2, <1>3 DEF ToSet
  <1>5. IsInjective(s) => IsInjective(q) BY <1>1, <1>2, <1>3 DEF IsInjective
  <1> QED BY <1>2, <1>4, <1>5 DEF q

-----------------------------------------------------------------------------
(* Every set of numbers has a least one.  Hence what holds of 0 and goes   *)
(* over from each number to the next holds of all; "what" is a set here,   *)
(* so that the provers need not look for an operator.                      *)
LEMMA Least ==
  ASSUME NEW T \in SUBSET Nat, T # {}
  PROVE  \E n \in T : \A m \in T : n <= m
  <1> DEFINE Less == {pair \in Nat \X Nat : pair[1] < pair[2]}
  <1>1. IsWellFoundedOn(OpToRel(<, Nat), Nat) BY NatLessThanWellFounded, Zenon
  <1>2. IsWellFoundedOn(Less, Nat) BY <1>1, Zenon DEF OpToRel
  <1>3. PICK n \in T : \A m \in T : <<m, n>> \notin Less BY <1>2, WFMin
  <1>4. ASSUME NEW m \in T, m < n PROVE FALSE
    <2>1. <<m, n>> \in Nat \X Nat /\ <<m, n>>[1] < <<m, n>>[2] BY <1>4
    <2>2. <<m, n>> \in Less BY <2>1
    <2> QED BY <1>3, <2>2
  <1> HIDE DEF Less
  <1> QED BY <1>4

LEMMA Upwards ==
  ASSUME NEW T, 0 \in T, \A n \in Nat : n \in T => n + 1 \in T
  PROVE  Nat \subseteq T
  <1> SUFFICES ASSUME Nat \ T # {} PROVE FALSE
    OBVIOUS
  <1>1. (Nat \ T) \in SUBSET Nat OBVIOUS
  <1>2. PICK n \in Nat \ T : \A m \in Nat \ T : n <= m BY <1>1, Least
  <1>3. n - 1 \in Nat /\ n - 1 < n BY <1>2
  <1>4. n - 1 \in T BY <1>2, <1>3
  <1> QED BY <1>2, <1>3, <1>4

-----------------------------------------------------------------------------
(* Counting over lists, and over a family of sets of which one changes.    *)
Picked(s, S) == {i \in DOMAIN s : s[i] \in S}
Family(F, D) == UNION {{d} \X F[d] : d \in D}

(* The members of a list that are in S are finitely many. *)
LEMMA PickedAre ==
  ASSUME NEW A, NEW s \in Seq(A), NEW S
  PROVE  /\ IsFiniteSet(Picked(s, S)) /\ Cardinality(Picked(s, S)) \in Nat
         /\ Len(s) \in Nat /\ DOMAIN s = 1 .. Len(s)
<1>1. Len(s) \in Nat /\ DOMAIN s = 1 .. Len(s)
  BY LenProperties
<1> DEFINE m == Len(s)
<1>2. m \in Int /\ 1 \in Int
  BY <1>1
<1> HIDE DEF m
<1>3. IsFiniteSet(1 .. m)
  BY <1>2, FS_Interval
<1>4. Picked(s, S) \subseteq 1 .. m
  BY <1>1 DEF m, Picked
<1>5. IsFiniteSet(Picked(s, S))
  BY <1>3, <1>4, FS_Subset
<1> QED  BY <1>1, <1>5, FS_CardinalityType

(* A joined list has those of both. *)
LEMMA PickedJoined ==
  ASSUME NEW A, NEW s \in Seq(A), NEW q \in Seq(A), NEW S
  PROVE  /\ s \o q \in Seq(A)
         /\ Cardinality(Picked(s \o q, S)) = Cardinality(Picked(s, S)) + Cardinality(Picked(q, S))
<1> DEFINE m == Len(s)  n == Len(q)
           Shift == {i \in m + 1 .. m + n : q[i - m] \in S}
           f == [i \in Picked(q, S) |-> m + i]
<1>1. m \in Nat /\ n \in Nat /\ DOMAIN s = 1 .. m /\ DOMAIN q = 1 .. n
  BY LenProperties
<1>2. /\ s \o q \in Seq(A) /\ Len(s \o q) = m + n
      /\ \A i \in 1 .. m + n : (s \o q)[i] = IF i <= m THEN s[i] ELSE q[i - m]
  BY ConcatProperties
<1>3. DOMAIN (s \o q) = 1 .. m + n
  BY <1>2, LenProperties
<1> HIDE DEF m, n
<1>4. Picked(s \o q, S) = Picked(s, S) \cup Shift
  <2>1. ASSUME NEW i \in Picked(s \o q, S) PROVE i \in Picked(s, S) \cup Shift
    BY <1>1, <1>2, <1>3, <2>1 DEF Picked
  <2>2. ASSUME NEW i \in Picked(s, S) PROVE i \in Picked(s \o q, S)
    BY <1>1, <1>2, <1>3, <2>2 DEF Picked
  <2>3. ASSUME NEW i \in Shift PROVE i \in Picked(s \o q, S)
    BY <1>1, <1>2, <1>3, <2>3 DEF Picked
  <2> QED  BY <2>1, <2>2, <2>3
<1>5. Picked(s, S) \cap Shift = {}
  BY <1>1 DEF Picked
<1>6. f \in Bijection(Picked(q, S), Shift)
  <2>1. f \in [Picked(q, S) -> Shift]
    BY <1>1 DEF Picked
  <2>2. \A i, j \in Picked(q, S) : f[i] = f[j] => i = j
    BY <1>1 DEF Picked
  <2>3. \A i \in Shift : \E j \in Picked(q, S) : f[j] = i
    <3> TAKE i \in Shift
    <3>1. i - m \in Picked(q, S) /\ m + (i - m) = i
      BY <1>1 DEF Picked
    <3> QED  BY <3>1
  <2> QED  BY <2>1, <2>2, <2>3 DEF Bijection, Injection, IsInjective, Surjection
<1>7. IsFiniteSet(Picked(q, S)) /\ IsFiniteSet(Picked(s, S))
      /\ Cardinality(Picked(q, S)) \in Nat /\ Cardinality(Picked(s, S)) \in Nat
  BY PickedAre
<1>8. IsFiniteSet(Shift) /\ Cardinality(Shift) = Cardinality(Picked(q, S))
  BY <1>6, <1>7, FS_Bijection DEF ExistsBijection
<1>9. Cardinality(Picked(s, S) \cap Shift) = 0
  BY <1>5, FS_EmptySet
<1> HIDE DEF Shift, f
<1>10. Cardinality(Picked(s \o q, S)) = Cardinality(Picked(s, S)) + Cardinality(Shift) - 0
  BY <1>4, <1>7, <1>8, <1>9, FS_Union
<1> QED  BY <1>2, <1>7, <1>8, <1>10

(* An empty list has none. *)
LEMMA PickedNone == ASSUME NEW S PROVE Cardinality(Picked(<<>>, S)) = 0
<1>1. Picked(<<>>, S) = {}
  BY DEF Picked
<1> QED  BY <1>1, FS_EmptySet

(* A list of one. *)
LEMMA PickedOne ==
  ASSUME NEW S, NEW a PROVE Cardinality(Picked(<<a>>, S)) = IF a \in S THEN 1 ELSE 0
<1>1. Picked(<<a>>, S) = IF a \in S THEN {1} ELSE {}
  BY DEF Picked
<1> QED  BY <1>1, FS_EmptySet, FS_Singleton

(* A list of two. *)
LEMMA PickedTwo ==
  ASSUME NEW S, NEW a, NEW b
  PROVE  Cardinality(Picked(<<a, b>>, S)) = (IF a \in S THEN 1 ELSE 0) + (IF b \in S THEN 1 ELSE 0)
<1> DEFINE one == IF a \in S THEN {1} ELSE {}
<1>1. Picked(<<a, b>>, S) = IF b \in S THEN one \cup {2} ELSE one
  BY DEF Picked
<1>2. IsFiniteSet(one) /\ Cardinality(one) = (IF a \in S THEN 1 ELSE 0) /\ 2 \notin one
  <2>1. CASE a \in S
    <3>1. one = {1}
      BY <2>1
    <3> QED  BY <2>1, <3>1, FS_Singleton
  <2>2. CASE a \notin S
    <3>1. one = {}
      BY <2>2
    <3> QED  BY <2>2, <3>1, FS_EmptySet
  <2> QED  BY <2>1, <2>2
<1> HIDE DEF one
<1>3. Cardinality(one \cup {2}) = Cardinality(one) + 1
  BY <1>2, FS_AddElement
<1> QED  BY <1>1, <1>2, <1>3

(* A list of three. *)
LEMMA PickedThree ==
  ASSUME NEW S, NEW a, NEW b, NEW c
  PROVE  Cardinality(Picked(<<a, b, c>>, S)) =
           (IF a \in S THEN 1 ELSE 0) + (IF b \in S THEN 1 ELSE 0) + (IF c \in S THEN 1 ELSE 0)
<1> DEFINE two == Picked(<<a, b>>, S)
<1>1. Picked(<<a, b, c>>, S) = IF c \in S THEN two \cup {3} ELSE two
  BY DEF Picked
<1>2. two \subseteq {1, 2} /\ 3 \notin two
  BY DEF Picked
<1>3. IsFiniteSet({1, 2})
  <2>1. IsFiniteSet({1} \cup {2})
    BY FS_Singleton, FS_AddElement
  <2> QED  BY <2>1
<1>4. IsFiniteSet(two)
  BY <1>2, <1>3, FS_Subset
<1> HIDE DEF two
<1>5. Cardinality(two \cup {3}) = Cardinality(two) + 1
  BY <1>2, <1>4, FS_AddElement
<1>6. Cardinality(two) = (IF a \in S THEN 1 ELSE 0) + (IF b \in S THEN 1 ELSE 0)
  BY PickedTwo DEF two
<1> QED  BY <1>1, <1>5, <1>6

(* A list has one more than its tail if its head is in S. *)
LEMMA PickedTail ==
  ASSUME NEW A, NEW s \in Seq(A), s # <<>>, NEW S
  PROVE  /\ Tail(s) \in Seq(A) /\ Head(s) \in A
         /\ Cardinality(Picked(s, S)) = (IF Head(s) \in S THEN 1 ELSE 0) + Cardinality(Picked(Tail(s), S))
<1>1. Tail(s) \in Seq(A) /\ Head(s) \in A /\ <<Head(s)>> \in Seq(A) /\ s = <<Head(s)>> \o Tail(s)
  BY HeadTailProperties
<1> DEFINE h == <<Head(s)>>  r == Tail(s)
<1>2. Cardinality(Picked(h, S)) = IF Head(s) \in S THEN 1 ELSE 0
  BY PickedOne
<1>3. h \in Seq(A) /\ r \in Seq(A) /\ s = h \o r
  BY <1>1
<1> HIDE DEF h, r
<1>4. Cardinality(Picked(h \o r, S)) = Cardinality(Picked(h, S)) + Cardinality(Picked(r, S))
  BY <1>3, PickedJoined
<1> QED  BY <1>1, <1>2, <1>3, <1>4 DEF r

(* Two families alike but in one member. *)
Alike(F, G, D, c) == \A d \in D : IsFiniteSet(F[d]) /\ IsFiniteSet(G[d]) /\ (d # c => G[d] = F[d])

(* The sizes of two families that are alike but in one member differ as that*)
(* member's do.                                                             *)
LEMMA OnePart ==
  ASSUME NEW D, IsFiniteSet(D), NEW F, NEW G, NEW c \in D, Alike(F, G, D, c)
  PROVE  /\ IsFiniteSet(Family(F, D)) /\ Cardinality(Family(F, D)) \in Nat
         /\ IsFiniteSet(Family(G, D)) /\ Cardinality(Family(G, D)) \in Nat
         /\ Cardinality(F[c]) \in Nat /\ Cardinality(G[c]) \in Nat
         /\ Cardinality(Family(G, D)) + Cardinality(F[c]) = Cardinality(Family(F, D)) + Cardinality(G[c])
<1> USE DEF Alike
<1> DEFINE E == D \ {c}  R == Family(F, E)
<1>1. R = Family(G, E) /\ Family(F, D) = R \cup ({c} \X F[c]) /\ Family(G, D) = R \cup ({c} \X G[c])
  BY DEF Family
<1>2. R \cap ({c} \X F[c]) = {} /\ R \cap ({c} \X G[c]) = {}
  BY DEF Family
<1>3. IsFiniteSet(R)
  <2> DEFINE f == [d \in E |-> {d} \X F[d]]  Parts == {{d} \X F[d] : d \in E}
  <2>1. IsFiniteSet(E)
    BY FS_RemoveElement
  <2>2. f \in Surjection(E, Parts)
    BY DEF Surjection
  <2>3. IsFiniteSet(Parts)
    BY <2>1, <2>2, FS_Surjection
  <2>4. ASSUME NEW d \in E PROVE IsFiniteSet({d} \X F[d])
    BY FS_Product, FS_Singleton
  <2>5. \A T \in Parts : IsFiniteSet(T)
    BY <2>4
  <2> HIDE DEF Parts
  <2>6. IsFiniteSet(UNION Parts)
    BY <2>3, <2>5, FS_UNION
  <2> QED  BY <2>6 DEF Parts, Family
<1> HIDE DEF R
<1>5. Cardinality(F[c]) \in Nat /\ Cardinality(G[c]) \in Nat /\ Cardinality(R) \in Nat
  BY <1>3, FS_CardinalityType
<1>4. /\ IsFiniteSet({c} \X F[c]) /\ Cardinality({c} \X F[c]) = Cardinality(F[c])
      /\ IsFiniteSet({c} \X G[c]) /\ Cardinality({c} \X G[c]) = Cardinality(G[c])
  <2> DEFINE one == {c}
  <2>1. IsFiniteSet(one) /\ Cardinality(one) = 1
    BY FS_Singleton
  <2> HIDE DEF one
  <2>2. /\ IsFiniteSet(one \X F[c]) /\ Cardinality(one \X F[c]) = Cardinality(one) * Cardinality(F[c])
        /\ IsFiniteSet(one \X G[c]) /\ Cardinality(one \X G[c]) = Cardinality(one) * Cardinality(G[c])
    BY <2>1, FS_Product
  <2> QED  BY <1>5, <2>1, <2>2 DEF one
<1>6. Cardinality(R \cap ({c} \X F[c])) = 0 /\ Cardinality(R \cap ({c} \X G[c])) = 0
  BY <1>2, FS_EmptySet
<1> DEFINE p == {c} \X F[c]  q == {c} \X G[c]
<1> HIDE DEF p, q
<1>7. /\ IsFiniteSet(Family(F, D)) /\ Cardinality(Family(F, D)) = Cardinality(R) + Cardinality(p) - 0
      /\ IsFiniteSet(Family(G, D)) /\ Cardinality(Family(G, D)) = Cardinality(R) + Cardinality(q) - 0
  <2>1. Family(F, D) = R \cup p /\ IsFiniteSet(p) /\ Cardinality(R \cap p) = 0
    BY <1>1, <1>4, <1>6 DEF p
  <2>2. Family(G, D) = R \cup q /\ IsFiniteSet(q) /\ Cardinality(R \cap q) = 0
    BY <1>1, <1>4, <1>6 DEF q
  <2> QED  BY <1>3, <2>1, <2>2, FS_Union
<1> QED  BY <1>4, <1>5, <1>7 DEF p, q
One(b) == IF b THEN 1 ELSE 0
-----------------------------------------------------------------------------
(* Two sets that differ in one member. *)
LEMMA OneDiffers ==
  ASSUME NEW R, NEW Q, IsFiniteSet(R), IsFiniteSet(Q), NEW j, R \ {j} = Q \ {j}
  PROVE  /\ Cardinality(R) \in Nat /\ Cardinality(Q) \in Nat
         /\ Cardinality(Q) - Cardinality(R) = One(j \in Q) - One(j \in R)
<1> DEFINE E == R \ {j}
<1>1. IsFiniteSet(E) /\ j \notin E
  BY FS_Subset
<1>2. Cardinality(E) \in Nat /\ Cardinality(E \cup {j}) = Cardinality(E) + 1
  BY <1>1, FS_AddElement, FS_CardinalityType
<1>3. R = (IF j \in R THEN E \cup {j} ELSE E) /\ Q = (IF j \in Q THEN E \cup {j} ELSE E)
  OBVIOUS
<1> HIDE DEF E
<1>4. Cardinality(R) = Cardinality(E) + One(j \in R)
  <2>1. CASE j \in R
    BY <1>2, <1>3, <2>1 DEF One
  <2>2. CASE j \notin R
    BY <1>2, <1>3, <2>2 DEF One
  <2> QED  BY <2>1, <2>2
<1>5. Cardinality(Q) = Cardinality(E) + One(j \in Q)
  <2>1. CASE j \in Q
    BY <1>2, <1>3, <2>1 DEF One
  <2>2. CASE j \notin Q
    BY <1>2, <1>3, <2>2 DEF One
  <2> QED  BY <2>1, <2>2
<1>6. One(j \in R) \in Nat /\ One(j \in Q) \in Nat
  BY DEF One
<1> QED  BY <1>2, <1>4, <1>5, <1>6

(* Two sets that differ in two members. *)
LEMMA TwoDiffer ==
  ASSUME NEW R, NEW Q, IsFiniteSet(R), IsFiniteSet(Q), NEW j, NEW k, j # k, R \ {j, k} = Q \ {j, k}
  PROVE  /\ Cardinality(R) \in Nat /\ Cardinality(Q) \in Nat
         /\ Cardinality(Q) - Cardinality(R) = One(j \in Q) - One(j \in R) + One(k \in Q) - One(k \in R)
<1> DEFINE M == IF j \in Q THEN R \cup {j} ELSE R \ {j}
<1>1. IsFiniteSet(M)
  BY FS_AddElement, FS_Subset
<1>2. R \ {j} = M \ {j} /\ M \ {k} = Q \ {k} /\ (j \in M <=> j \in Q) /\ (k \in M <=> k \in R)
  OBVIOUS
<1> HIDE DEF M
<1> DEFINE r == Cardinality(R)  m == Cardinality(M)  q == Cardinality(Q)
           jr == One(j \in R)  jq == One(j \in Q)  kr == One(k \in R)  kq == One(k \in Q)
<1>3. r \in Nat /\ m \in Nat /\ m - r = One(j \in M) - jr
  BY <1>1, <1>2, OneDiffers
<1>4. q \in Nat /\ q - m = kq - One(k \in M)
  BY <1>1, <1>2, OneDiffers
<1>5. One(j \in M) = jq /\ One(k \in M) = kr /\ jr \in Nat /\ jq \in Nat /\ kr \in Nat /\ kq \in Nat
  BY <1>2 DEF One
<1> HIDE DEF r, m, q, jr, jq, kr, kq
<1>6. q - r = jq - jr + kq - kr
  BY <1>3, <1>4, <1>5
<1> QED  BY <1>3, <1>4, <1>6 DEF r, q, jr, jq, kr, kq

(* A list of pairs with one pair more: its places, and their parity. *)
LEMMA TwoMore ==
  ASSUME NEW m \in Nat
  PROVE  /\ \A j \in 1 .. m + 2 : j \in 1 .. m \/ j = m + 1 \/ j = m + 2
         /\ m % 2 = 0 => (m + 2) % 2 = 0 /\ ~((m + 2) % 2 = 1)
OBVIOUS
-----------------------------------------------------------------------------
(* An odd place before an even end has its even place before it too. *)
LEMMA OddAndEven ==
  ASSUME NEW x \in Nat, NEW y \in Nat, x % 2 = 1, y % 2 = 0, x <= y
  PROVE  x + 1 <= y /\ (x + 1) % 2 = 0
OBVIOUS

(* One before two is three. *)
LEMMA Prepended ==
  ASSUME NEW a, NEW b, NEW c PROVE <<a>> \o <<b, c>> = <<a, b, c>>
<1> DEFINE A == {a, b, c}  s == <<a>>  q == <<b, c>>  r == <<a, b, c>>
<1>1. s \in Seq(A) /\ q \in Seq(A) /\ r \in Seq(A)
  OBVIOUS
<1>2. Len(s) = 1 /\ Len(q) = 2 /\ Len(r) = 3 /\ s[1] = a /\ q[1] = b /\ q[2] = c /\ r[1] = a /\ r[2] = b /\ r[3] = c
  OBVIOUS
<1> HIDE DEF A, s, q, r
<1>3. /\ s \o q \in Seq(A) /\ Len(s \o q) = Len(s) + Len(q)
      /\ \A i \in 1 .. Len(s) + Len(q) : (s \o q)[i] = IF i <= Len(s) THEN s[i] ELSE q[i - Len(s)]
  BY <1>1, ConcatProperties
<1>4. Len(s \o q) = 3 /\ (s \o q)[1] = a /\ (s \o q)[2] = b /\ (s \o q)[3] = c
  BY <1>2, <1>3
<1>5. \A i \in 1 .. 3 : i = 1 \/ i = 2 \/ i = 3
  OBVIOUS
<1>6. \A i \in 1 .. Len(r) : (s \o q)[i] = r[i]
  BY <1>2, <1>4, <1>5
<1>7. s \o q = r
  BY <1>1, <1>2, <1>3, <1>4, <1>6, SeqEqual
<1> QED  BY <1>7 DEF s, q, r
-----------------------------------------------------------------------------
(* A list is its first members and the others. *)
LEMMA Divided ==
  ASSUME NEW A, NEW s \in Seq(A), NEW i \in 0 .. Len(s)
  PROVE  /\ SubSeq(s, 1, i) \in Seq(A) /\ SubSeq(s, i + 1, Len(s)) \in Seq(A)
         /\ SubSeq(s, 1, i) \o SubSeq(s, i + 1, Len(s)) = s
         /\ \A S : Cardinality(Picked(SubSeq(s, 1, i), S)) + Cardinality(Picked(SubSeq(s, i + 1, Len(s)), S))
                     = Cardinality(Picked(s, S))
<1>m. PICK m \in Nat : m = Len(s) /\ DOMAIN s = 1 .. m
  BY LenProperties
<1>1. \A j \in 1 .. m : s[j] \in A
  BY <1>m, ElementOfSeq
<1>2. i \in Int /\ 0 <= i /\ i <= m /\ i + 1 \in Int
  BY <1>m
<1>a. PICK a : a = SubSeq(s, 1, i)
  OBVIOUS
<1>b. PICK b : b = SubSeq(s, i + 1, m)
  OBVIOUS
<1>3. a \in Seq(A)
  <2>1. \A j \in 1 .. i : s[j] \in A
    BY <1>1, <1>2
  <2> QED  BY <1>2, <1>a, <2>1, SubSeqProperties
<1>4. b \in Seq(A)
  <2>1. \A j \in i + 1 .. m : s[j] \in A
    BY <1>1, <1>2
  <2> QED  BY <1>2, <1>b, <2>1, SubSeqProperties
<1>5. a \o b = s
  <2>1. CASE i = 0
    <3>1. a = <<>>
      BY <1>a, <2>1, SubSeqEmpty
    <3>2. b = s
      BY <1>m, <1>b, <2>1, SubSeqFull
    <3> QED  BY <3>1, <3>2, ConcatEmptySeq
  <2>2. CASE i # 0
    <3>1. SubSeq(s, 1, i) \o SubSeq(s, i + 1, m) = SubSeq(s, 1, m)
      <4>1. 1 \in 1 .. m + 1 /\ i \in 1 - 1 .. m /\ m \in i .. m
        BY <1>2, <2>2
      <4> QED  BY <1>m, <1>2, <2>2, <4>1, ConcatAdjacentSubSeq
    <3> QED  BY <1>m, <1>a, <1>b, <3>1, SubSeqFull
  <2> QED  BY <2>1, <2>2
<1>6. \A S : Cardinality(Picked(a, S)) + Cardinality(Picked(b, S)) = Cardinality(Picked(s, S))
  <2> TAKE S
  <2>1. Cardinality(Picked(a \o b, S)) = Cardinality(Picked(a, S)) + Cardinality(Picked(b, S))
    BY <1>3, <1>4, PickedJoined
  <2> QED  BY <1>5, <2>1
<1> QED  BY <1>m, <1>a, <1>b, <1>3, <1>4, <1>5, <1>6

(* A list without one of its members has one less of the kinds that this one*)
(* is of.                                                                   *)
LEMMA WithoutOne ==
  ASSUME NEW A, NEW s \in Seq(A), NEW i \in DOMAIN s
  PROVE  /\ RemoveAt(s, i) \in Seq(A) /\ s[i] \in A
         /\ \A S : Cardinality(Picked(RemoveAt(s, i), S)) = Cardinality(Picked(s, S)) - One(s[i] \in S)
         /\ Len(RemoveAt(s, i)) = Len(s) - 1
         /\ \A j \in DOMAIN RemoveAt(s, i) : RemoveAt(s, i)[j] = IF j < i THEN s[j] ELSE s[j + 1]
<1>m. PICK m \in Nat : m = Len(s) /\ DOMAIN s = 1 .. m
  BY LenProperties
<1>1. s[i] \in A /\ i \in 1 .. m
  BY <1>m, ElementOfSeq
<1>h. PICK h \in Nat : h = i - 1
  BY <1>1
<1>a. PICK a : a = SubSeq(s, 1, h)
  OBVIOUS
<1>b. PICK b : b = SubSeq(s, h + 1, m)
  OBVIOUS
<1>c. PICK c : c = SubSeq(s, i + 1, m)
  OBVIOUS
<1>2. /\ a \in Seq(A) /\ b \in Seq(A)
      /\ \A S : Cardinality(Picked(a, S)) + Cardinality(Picked(b, S)) = Cardinality(Picked(s, S))
  <2>1. h \in 0 .. m
    BY <1>1, <1>h
  <2> QED  BY <1>m, <1>a, <1>b, <2>1, Divided
<1>3. c \in Seq(A)
  <2>1. i \in 0 .. m
    BY <1>1
  <2> QED  BY <1>m, <1>c, <2>1, Divided
<1>4. b = <<s[i]>> \o c
  <2>1. h + 1 = i /\ i \in Nat
    BY <1>1, <1>h
  <2>2. i \in 1 .. Len(s) /\ m \in i .. Len(s)
    BY <1>m, <1>1
  <2>3. SubSeq(s, i, m) = <<s[i]>> \o SubSeq(s, i + 1, m)
    BY <2>2, SubSeqRecursiveFirst
  <2> QED  BY <1>b, <1>c, <2>1, <2>3
<1>5. <<s[i]>> \in Seq(A)
  BY <1>1
<1>6. ASSUME NEW S PROVE Cardinality(Picked(a \o c, S)) = Cardinality(Picked(s, S)) - One(s[i] \in S)
  <2>1. Cardinality(Picked(a \o c, S)) = Cardinality(Picked(a, S)) + Cardinality(Picked(c, S))
    BY <1>2, <1>3, PickedJoined
  <2>2. Cardinality(Picked(b, S)) = Cardinality(Picked(<<s[i]>>, S)) + Cardinality(Picked(c, S))
    <3>k. PICK k : k = <<s[i]>>
      OBVIOUS
    <3>1. k \in Seq(A) /\ b = k \o c
      BY <1>4, <1>5, <3>k
    <3>2. Cardinality(Picked(k \o c, S)) = Cardinality(Picked(k, S)) + Cardinality(Picked(c, S))
      BY <1>3, <3>1, PickedJoined
    <3> QED  BY <3>k, <3>1, <3>2
  <2>3. Cardinality(Picked(<<s[i]>>, S)) = One(s[i] \in S)
    BY PickedOne DEF One
  <2>4. /\ Cardinality(Picked(a, S)) \in Nat /\ Cardinality(Picked(b, S)) \in Nat /\ Cardinality(Picked(c, S)) \in Nat
        /\ Cardinality(Picked(s, S)) \in Nat /\ One(s[i] \in S) \in Nat
    BY <1>2, <1>3, PickedAre DEF One
  <2> QED  BY <1>2, <2>1, <2>2, <2>3, <2>4
<1>7. RemoveAt(s, i) = a \o c
  BY <1>m, <1>h, <1>a, <1>c DEF RemoveAt
<1>8. a \o c \in Seq(A)
  BY <1>2, <1>3, ConcatProperties
<1>9. Len(a) = h /\ \A j \in 1 .. h : a[j] = s[j]
  <2>1. \A j \in 1 .. h : s[j] \in A
    BY <1>m, <1>1, <1>h, ElementOfSeq
  <2>2. /\ Len(SubSeq(s, 1, h)) = (IF 1 <= h THEN h - 1 + 1 ELSE 0)
        /\ \A j \in 1 .. h - 1 + 1 : SubSeq(s, 1, h)[j] = s[1 + j - 1]
    BY <2>1, SubSeqProperties
  <2>3. (IF 1 <= h THEN h - 1 + 1 ELSE 0) = h /\ h - 1 + 1 = h /\ \A j \in 1 .. h : 1 + j - 1 = j
    OBVIOUS
  <2> QED  BY <1>a, <2>2, <2>3
<1>10. Len(c) = m - i /\ \A j \in 1 .. m - i : c[j] = s[i + j]
  <2>1. \A j \in i + 1 .. m : s[j] \in A
    BY <1>m, <1>1, ElementOfSeq
  <2>2. /\ Len(SubSeq(s, i + 1, m)) = (IF i + 1 <= m THEN m - (i + 1) + 1 ELSE 0)
        /\ \A j \in 1 .. m - (i + 1) + 1 : SubSeq(s, i + 1, m)[j] = s[(i + 1) + j - 1]
    <3>1. i + 1 \in Int /\ m \in Int
      BY <1>1
    <3> QED  BY <2>1, <3>1, SubSeqProperties
  <2>3. (IF i + 1 <= m THEN m - (i + 1) + 1 ELSE 0) = m - i /\ m - (i + 1) + 1 = m - i
        /\ \A j \in 1 .. m - i : (i + 1) + j - 1 = i + j
    BY <1>1
  <2> QED  BY <1>c, <2>2, <2>3
<1>11. Len(a \o c) = m - 1 /\ \A j \in DOMAIN (a \o c) : (a \o c)[j] = IF j < i THEN s[j] ELSE s[j + 1]
  <2>1. /\ Len(a \o c) = Len(a) + Len(c)
        /\ \A j \in 1 .. Len(a) + Len(c) : (a \o c)[j] = IF j <= Len(a) THEN a[j] ELSE c[j - Len(a)]
    BY <1>2, <1>3, ConcatProperties
  <2>2. h + (m - i) = m - 1 /\ i \in Int
    BY <1>1, <1>h
  <2>3. DOMAIN (a \o c) = 1 .. m - 1
    BY <1>8, <1>9, <1>10, <2>1, <2>2, LenProperties
  <2>4. \A j \in 1 .. m - 1 : (a \o c)[j] = IF j <= h THEN a[j] ELSE c[j - h]
    BY <1>9, <1>10, <2>1, <2>2
  <2>5. ASSUME NEW j \in 1 .. m - 1 PROVE (a \o c)[j] = IF j < i THEN s[j] ELSE s[j + 1]
    <3>1. CASE j <= h
      <4>1. j \in 1 .. h /\ j < i
        BY <1>1, <1>h, <3>1
      <4> QED  BY <1>9, <2>4, <3>1, <4>1
    <3>2. CASE ~(j <= h)
      <4>1. j - h \in 1 .. m - i /\ i + (j - h) = j + 1 /\ ~(j < i)
        BY <1>1, <1>h, <3>2
      <4> QED  BY <1>10, <2>4, <3>2, <4>1
    <3> QED  BY <3>1, <3>2
  <2> QED  BY <1>9, <1>10, <2>1, <2>2, <2>3, <2>5
<1> QED  BY <1>m, <1>1, <1>6, <1>7, <1>8, <1>11

(* A list with one more has one more of them. *)
LEMMA WithOneMore ==
  ASSUME NEW A, NEW s \in Seq(A), NEW i \in 1 .. Len(s) + 1, NEW e \in A
  PROVE  /\ InsertAt(s, i, e) \in Seq(A)
         /\ \A S : Cardinality(Picked(InsertAt(s, i, e), S)) = Cardinality(Picked(s, S)) + One(e \in S)
<1>m. PICK m \in Nat : m = Len(s)
  BY LenProperties
<1>h. PICK h \in Nat : h = i - 1 /\ h + 1 = i
  OBVIOUS
<1>a. PICK a : a = SubSeq(s, 1, h)
  OBVIOUS
<1>b. PICK b : b = SubSeq(s, h + 1, m)
  OBVIOUS
<1>1. /\ a \in Seq(A) /\ b \in Seq(A)
      /\ \A S : Cardinality(Picked(a, S)) + Cardinality(Picked(b, S)) = Cardinality(Picked(s, S))
  <2>1. h \in 0 .. m
    BY <1>m, <1>h
  <2> QED  BY <1>m, <1>a, <1>b, <2>1, Divided
<1>2. InsertAt(s, i, e) = (a \o <<e>>) \o b
  BY <1>m, <1>h, <1>a, <1>b DEF InsertAt
<1>3. <<e>> \in Seq(A)
  OBVIOUS
<1>x. PICK x : x = <<e>>
  OBVIOUS
<1>4. a \o x \in Seq(A) /\ \A S : Cardinality(Picked(a \o x, S)) = Cardinality(Picked(a, S)) + Cardinality(Picked(x, S))
  <2>1. x \in Seq(A)
    BY <1>3, <1>x
  <2>2. a \o x \in Seq(A)
    BY <1>1, <2>1, ConcatProperties
  <2>3. ASSUME NEW S PROVE Cardinality(Picked(a \o x, S)) = Cardinality(Picked(a, S)) + Cardinality(Picked(x, S))
    BY <1>1, <2>1, PickedJoined
  <2> QED  BY <2>2, <2>3
<1>k. PICK k : k = a \o x
  OBVIOUS
<1>5. k \o b \in Seq(A) /\ \A S : Cardinality(Picked(k \o b, S)) = Cardinality(Picked(k, S)) + Cardinality(Picked(b, S))
  <2>1. k \in Seq(A) /\ b \in Seq(A)
    BY <1>1, <1>4, <1>k
  <2>2. k \o b \in Seq(A)
    BY <2>1, ConcatProperties
  <2>3. ASSUME NEW S PROVE Cardinality(Picked(k \o b, S)) = Cardinality(Picked(k, S)) + Cardinality(Picked(b, S))
    BY <2>1, PickedJoined
  <2> QED  BY <2>2, <2>3
<1>6. ASSUME NEW S PROVE Cardinality(Picked(k \o b, S)) = Cardinality(Picked(s, S)) + One(e \in S)
  <2>1. Cardinality(Picked(<<e>>, S)) = One(e \in S)
    BY PickedOne DEF One
  <2>2. /\ Cardinality(Picked(a, S)) \in Nat /\ Cardinality(Picked(b, S)) \in Nat
        /\ Cardinality(Picked(s, S)) \in Nat /\ One(e \in S) \in Nat
    BY <1>1, PickedAre DEF One
  <2>3. Cardinality(Picked(k, S)) = Cardinality(Picked(a, S)) + One(e \in S)
    BY <1>4, <1>k, <1>x, <2>1
  <2>4. Cardinality(Picked(k \o b, S)) = Cardinality(Picked(k, S)) + Cardinality(Picked(b, S))
        /\ Cardinality(Picked(a, S)) + Cardinality(Picked(b, S)) = Cardinality(Picked(s, S))
    BY <1>1, <1>5
  <2> QED  BY <2>2, <2>3, <2>4
<1> QED  BY <1>2, <1>5, <1>6, <1>k, <1>x

(* A list without its last member. *)
LEMMA WithoutLast ==
  ASSUME NEW A, NEW s \in Seq(A), s # <<>>
  PROVE  /\ Front(s) \in Seq(A) /\ Last(s) \in A
         /\ \A S : Cardinality(Picked(Front(s), S)) = Cardinality(Picked(s, S)) - One(Last(s) \in S)
<1>m. PICK m \in Nat : m = Len(s) /\ DOMAIN s = 1 .. m
  BY LenProperties
<1>1. m \in DOMAIN s
  BY <1>m, EmptySeq
<1>2. /\ RemoveAt(s, m) \in Seq(A) /\ s[m] \in A
      /\ \A S : Cardinality(Picked(RemoveAt(s, m), S)) = Cardinality(Picked(s, S)) - One(s[m] \in S)
  BY <1>1, WithoutOne
<1>3. RemoveAt(s, m) = Front(s)
  <2>1. SubSeq(s, m + 1, m) = <<>>
    BY SubSeqEmpty
  <2>2. SubSeq(s, 1, m - 1) \in Seq(A)
    <3>1. \A j \in 1 .. m - 1 : s[j] \in A
      BY <1>m, ElementOfSeq
    <3>2. m - 1 \in Int
      OBVIOUS
    <3> QED  BY <3>1, <3>2, SubSeqProperties
  <2>3. SubSeq(s, 1, m - 1) \o <<>> = SubSeq(s, 1, m - 1)
    BY <2>2, ConcatEmptySeq
  <2> QED  BY <1>m, <2>1, <2>3 DEF RemoveAt, Front
<1> QED  BY <1>m, <1>2, <1>3 DEF Last

(* A list of pairs without one of them: its places, and their parity. *)
LEMMA TwoLess ==
  ASSUME NEW m \in Nat, m % 2 = 0, NEW i \in 1 .. m, i % 2 = 0
  PROVE  /\ i - 1 \in 1 .. m - 1 /\ i - 1 \in 1 .. m /\ i - 1 < i /\ (m - 1) - 1 \in Nat /\ ((m - 1) - 1) % 2 = 0
         /\ \A j \in 1 .. (m - 1) - 1 : j \in 1 .. m - 1 /\ j \in 1 .. m /\ j + 1 \in 1 .. m - 1 /\ j + 2 \in 1 .. m
                                       /\ (j + 1) + 1 = j + 2
         /\ \A j \in 1 .. (m - 1) - 1 : (j < i - 1 => j < i) /\ (~(j < i - 1) => ~(j + 1 < i))
         /\ \A j \in 1 .. (m - 1) - 1 : j % 2 = 1 => (j + 2) % 2 = 1
<1>1. i >= 2
  OBVIOUS
<1>2. m >= 2
  BY <1>1
<1>3. ((m - 1) - 1) % 2 = 0
  BY <1>2
<1>4. \A j \in 1 .. (m - 1) - 1 : j % 2 = 1 => (j + 2) % 2 = 1
  OBVIOUS
<1> QED  BY <1>1, <1>2, <1>3, <1>4

(* One before one is two. *)
LEMMA Doubled == ASSUME NEW a, NEW b PROVE <<a>> \o <<b>> = <<a, b>>
<1> DEFINE A == {a, b}  s == <<a>>  q == <<b>>  r == <<a, b>>
<1>1. s \in Seq(A) /\ q \in Seq(A) /\ r \in Seq(A)
  OBVIOUS
<1>2. Len(s) = 1 /\ Len(q) = 1 /\ Len(r) = 2 /\ s[1] = a /\ q[1] = b /\ r[1] = a /\ r[2] = b
  OBVIOUS
<1> HIDE DEF A, s, q, r
<1>3. /\ s \o q \in Seq(A) /\ Len(s \o q) = Len(s) + Len(q)
      /\ \A i \in 1 .. Len(s) + Len(q) : (s \o q)[i] = IF i <= Len(s) THEN s[i] ELSE q[i - Len(s)]
  BY <1>1, ConcatProperties
<1>4. Len(s \o q) = 2 /\ (s \o q)[1] = a /\ (s \o q)[2] = b
  BY <1>2, <1>3
<1>5. \A i \in 1 .. 2 : i = 1 \/ i = 2
  OBVIOUS
<1>6. s \o q = r
  BY <1>1, <1>2, <1>3, <1>4, <1>5, SeqEqual
<1> QED  BY <1>6 DEF s, q, r
=============================================================================
