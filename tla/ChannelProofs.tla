---------------------------- MODULE ChannelProofs ----------------------------
(***************************************************************************)
(* Channel's ring and its wake-ups, for every number of callers, channels  *)
(* and slots.  ChannelInv is inductive; each action is a lemma.            *)
(***************************************************************************)
EXTENDS Channel, CommonLemmas, SequenceTheorems

USE CallersAssumption, SizesAssumption

(* The callers are finitely many, and so are those on their way.           *)
LEMMA FiniteCallers == IsFiniteSet(Callers)
  BY FS_Union DEF Callers

-----------------------------------------------------------------------------
(* Who was coming is still coming, apart from the caller that moved.       *)
LEMMA OthersKeepComing ==
  ASSUME NEW a \in Callers, NEW c \in Chans, NEW ops,
         \A b \in Callers \ {a} : pc'[b] = pc[b] /\ call'[b] = call[b],
         recvCv'[c] \subseteq recvCv[c] \cup {a}, sendCv'[c] \subseteq sendCv[c] \cup {a}
  PROVE  Coming(c, ops) \ {a} \subseteq Coming(c, ops)'
  BY DEF Coming, Chan

(* ... and still fits its call.                                            *)
LEMMA OthersFit ==
  ASSUME CallsInv, NEW a \in Callers, CallOK(a)',
         \A b \in Callers \ {a} : pc'[b] = pc[b] /\ call'[b] = call[b] /\ at'[b] = at[b],
         \A c \in Chans : recvCv'[c] \subseteq recvCv[c] \cup {a} /\ sendCv'[c] \subseteq sendCv[c] \cup {a}
  PROVE  CallsInv'
  <1> SUFFICES ASSUME NEW b \in Callers, b # a PROVE CallOK(b)'
    BY DEF CallsInv
  <1>1. CallOK(b) BY DEF CallsInv
  <1> QED BY <1>1 DEF CallOK, Chan, Listed

(* A step that leaves the ring alone keeps every waiter owed: whoever goes *)
(* to sleep, or stops coming, has found nothing to come for.               *)
LEMMA StillOwed ==
  ASSUME ChannelInv, NEW a \in Callers, UNCHANGED size,
         \A b \in Callers \ {a} : pc'[b] = pc[b] /\ call'[b] = call[b],
         \A c \in Chans :
            /\ recvCv'[c] \subseteq recvCv[c] \cup {a} /\ sendCv'[c] \subseteq sendCv[c] \cup {a}
            /\ a \in recvCv'[c] /\ a \notin recvCv[c] => size[c] = 0 \/ Lists # {}
            /\ a \in sendCv'[c] /\ a \notin sendCv[c] => size[c] = Capacity
            /\ a \in Coming(c, Receiving) => a \in Coming(c, Receiving)' \/ size[c] = 0
            /\ a \in Coming(c, Sending) => a \in Coming(c, Sending)' \/ size[c] = Capacity
  PROVE  SendersAreOwed' /\ (Lists = {} => ReceiversAreOwed')
  <1> DEFINE R(c) == Coming(c, Receiving)
             S(c) == Coming(c, Sending)
  <1>1. ASSUME NEW c \in Chans
        PROVE  /\ R(c) \ {a} \subseteq R(c)' /\ S(c) \ {a} \subseteq S(c)'
               /\ size[c] \in 0 .. Capacity /\ size'[c] = size[c]
               /\ IsFiniteSet(R(c)') /\ IsFiniteSet(S(c)')
               /\ Cardinality(R(c)') \in Nat /\ Cardinality(S(c)') \in Nat
    <2>1. R(c) \ {a} \subseteq R(c)' /\ S(c) \ {a} \subseteq S(c)' BY OthersKeepComing
    <2>2. size[c] \in 0 .. Capacity /\ size'[c] = size[c] BY DEF ChannelInv, TypeOK
    <2>3. IsFiniteSet(R(c)') /\ IsFiniteSet(S(c)')
      BY FiniteCallers, FS_Subset DEF Coming
    <2> QED BY <2>1, <2>2, <2>3, FS_CardinalityType
  <1>2. ASSUME NEW c \in Chans, sendCv'[c] # {}
        PROVE  Capacity - size[c] <= Cardinality(S(c)')
    <2>1. CASE size[c] = Capacity BY <2>1, <1>1
    <2>2. CASE size[c] # Capacity
      <3>1. sendCv[c] # {} BY <1>2, <2>2
      <3>2. S(c) \subseteq S(c)' BY <1>1, <2>2
      <3>3. Capacity - size[c] <= Cardinality(S(c)) BY <3>1 DEF ChannelInv, SendersAreOwed
      <3> QED BY <1>1, <3>2, <3>3, MoreMembers
    <2> QED BY <2>1, <2>2
  <1>3. ASSUME Lists = {}, NEW c \in Chans, recvCv'[c] # {}
        PROVE  size[c] <= Cardinality(R(c)')
    <2>1. CASE size[c] = 0 BY <2>1, <1>1
    <2>2. CASE size[c] # 0
      <3>1. recvCv[c] # {} BY <1>3, <2>2
      <3>2. R(c) \subseteq R(c)' BY <1>1, <2>2
      <3>3. size[c] <= Cardinality(R(c)) BY <1>3, <3>1 DEF ChannelInv, ReceiversAreOwed
      <3> QED BY <1>1, <3>2, <3>3, MoreMembers
    <2> QED BY <2>1, <2>2
  <1>4. SendersAreOwed' BY <1>1, <1>2 DEF SendersAreOwed
  <1>5. Lists = {} => ReceiversAreOwed' BY <1>1, <1>3 DEF ReceiversAreOwed
  <1> QED BY <1>4, <1>5

-----------------------------------------------------------------------------
(* The ring.  Sums and differences of slots need at most one turn.         *)
LEMMA SlotSum ==
  ASSUME NEW h \in Slots, NEW s \in 0 .. Capacity
  PROVE  (h + s) % Capacity = IF h + s < Capacity THEN h + s ELSE h + s - Capacity
  <1>1. CASE h + s < Capacity
    BY <1>1, ModOf, Capacity * 0 + (h + s) = h + s DEF Slots
  <1>2. CASE h + s >= Capacity
    <2>1. h + s - Capacity \in 0 .. Capacity - 1 BY <1>2 DEF Slots
    <2>2. (Capacity * 1 + (h + s - Capacity)) % Capacity = h + s - Capacity BY <2>1, ModOf
    <2> QED BY <1>2, <2>2 DEF Slots
  <1> QED BY <1>1, <1>2 DEF Slots

(* The distance of two slots.                                              *)
LEMMA SlotDifference ==
  ASSUME NEW h \in Slots, NEW i \in Slots
  PROVE  (i - h) % Capacity = IF h <= i THEN i - h ELSE i - h + Capacity
  <1>1. CASE h <= i
    BY <1>1, ModOf, Capacity * 0 + (i - h) = i - h DEF Slots
  <1>2. CASE i < h
    <2>1. i - h + Capacity \in 0 .. Capacity - 1 BY <1>2 DEF Slots
    <2>2. (Capacity * (-1) + (i - h + Capacity)) % Capacity = i - h + Capacity BY <2>1, ModOf
    <2>3. Capacity * (-1) + (i - h + Capacity) = i - h BY DEF Slots
    <2>4. (i - h) % Capacity = i - h + Capacity BY <2>2, <2>3
    <2> QED BY <1>2, <2>4 DEF Slots
  <1> QED BY <1>1, <1>2 DEF Slots

(* A value put at the tail leaves the slots in use the ones from head up.  *)
LEMMA PutRing ==
  ASSUME TypeOK, RingInv, NEW ch \in Chans, NEW v \in Values, Put(ch, v), ~Full(ch)
  PROVE  /\ RingInv'
         /\ buffer' \in [Chans -> [Slots -> Values \cup {Null}]]
         /\ size' \in [Chans -> 0 .. Capacity]
         /\ head' \in [Chans -> Slots] /\ tail' \in [Chans -> Slots]
  <1>1. /\ size[ch] \in 0 .. Capacity - 1 /\ head[ch] \in Slots /\ tail[ch] \in Slots
        /\ size' = [size EXCEPT ![ch] = @ + 1] /\ head' = head
        /\ tail' = [tail EXCEPT ![ch] = (tail[ch] + 1) % Capacity]
        /\ buffer' = [buffer EXCEPT ![ch][tail[ch]] = v]
    BY DEF TypeOK, Put, Full
  <1>2. (tail[ch] + 1) % Capacity = IF tail[ch] + 1 < Capacity THEN tail[ch] + 1 ELSE tail[ch] + 1 - Capacity
    <2>1. 1 \in 0 .. Capacity OBVIOUS
    <2> QED BY <1>1, <2>1, SlotSum, Zenon
  <1>3. tail' \in [Chans -> Slots] /\ size' \in [Chans -> 0 .. Capacity]
    BY <1>1, <1>2 DEF TypeOK, Slots
  <1>4. buffer' \in [Chans -> [Slots -> Values \cup {Null}]] BY <1>1 DEF TypeOK
  <1>5. tail[ch] = IF head[ch] + size[ch] < Capacity THEN head[ch] + size[ch]
                   ELSE head[ch] + size[ch] - Capacity
    BY <1>1, SlotSum DEF RingInv
  <1>6. tail'[ch] = (head'[ch] + size'[ch]) % Capacity
    <2>1. (head[ch] + (size[ch] + 1)) % Capacity =
             IF head[ch] + (size[ch] + 1) < Capacity THEN head[ch] + (size[ch] + 1)
             ELSE head[ch] + (size[ch] + 1) - Capacity
      BY <1>1, SlotSum
    <2>2. /\ head[ch] \in 0 .. Capacity - 1 /\ size[ch] \in 0 .. Capacity - 1 /\ Capacity \in Nat \ {0}
      BY <1>1 DEF Slots
    <2>3. (IF tail[ch] + 1 < Capacity THEN tail[ch] + 1 ELSE tail[ch] + 1 - Capacity)
            = (IF head[ch] + (size[ch] + 1) < Capacity THEN head[ch] + (size[ch] + 1)
               ELSE head[ch] + (size[ch] + 1) - Capacity)
      BY <1>5, <2>2, TailMoves, Zenon
    <2>4. tail'[ch] = (tail[ch] + 1) % Capacity /\ head'[ch] = head[ch] /\ size'[ch] = size[ch] + 1
      BY <1>1 DEF TypeOK
    <2> QED BY <1>2, <2>1, <2>3, <2>4, Zenon
  <1>7. ASSUME NEW i \in Slots
        PROVE  buffer'[ch][i] # Null <=> Offset(ch, i)' < size'[ch]
    <2>1. Offset(ch, i)' = Offset(ch, i) /\ size'[ch] = size[ch] + 1
      BY <1>1 DEF Offset, TypeOK
    <2>2. Offset(ch, i) = IF head[ch] <= i THEN i - head[ch] ELSE i - head[ch] + Capacity
      BY <1>1, SlotDifference DEF Offset
    <2>3. Offset(ch, i) = size[ch] <=> i = tail[ch]
      <3>1. (IF head[ch] <= i THEN i - head[ch] ELSE i - head[ch] + Capacity) = size[ch]
              <=> i = (IF head[ch] + size[ch] < Capacity THEN head[ch] + size[ch]
                       ELSE head[ch] + size[ch] - Capacity)
        <4>1. /\ head[ch] \in 0 .. Capacity - 1 /\ i \in 0 .. Capacity - 1
              /\ size[ch] \in 0 .. Capacity - 1 /\ Capacity \in Nat \ {0}
          BY <1>1 DEF Slots
        <4> QED BY ONLY <4>1, SlotAtDistance, SMT
      <3> QED BY <3>1, <1>5, <2>2
    <2>4. Offset(ch, i) \in Int /\ size[ch] \in Int BY <1>1, <2>2 DEF Slots
    <2>5. CASE i = tail[ch]
      <3>1. buffer'[ch][i] = v /\ v # Null BY <1>1, <2>5 DEF TypeOK, Values, Null
      <3> QED BY <2>1, <2>3, <2>4, <2>5, <3>1
    <2>6. CASE i # tail[ch]
      <3>1. buffer'[ch][i] = buffer[ch][i] BY <1>1, <2>6 DEF TypeOK
      <3>2. buffer[ch][i] # Null <=> Offset(ch, i) < size[ch] BY DEF RingInv
      <3> QED BY <2>1, <2>3, <2>4, <2>6, <3>1, <3>2
    <2> QED BY <2>5, <2>6
  <1>8. ASSUME NEW c \in Chans, c # ch
        PROVE  buffer'[c] = buffer[c] /\ size'[c] = size[c] /\ head'[c] = head[c] /\ tail'[c] = tail[c]
    BY <1>1, <1>8 DEF TypeOK
  <1>9. RingInv' BY <1>6, <1>7, <1>8 DEF RingInv, Offset
  <1> QED BY <1>1, <1>3, <1>4, <1>9 DEF TypeOK

(* A value taken from the head, its slot cleared, leaves the rest.         *)
LEMMA TakeRing ==
  ASSUME TypeOK, RingInv, NEW ch \in Chans, Take(ch), ~Empty(ch)
  PROVE  /\ RingInv'
         /\ buffer' \in [Chans -> [Slots -> Values \cup {Null}]]
         /\ size' \in [Chans -> 0 .. Capacity]
         /\ head' \in [Chans -> Slots] /\ tail' \in [Chans -> Slots]
  <1>1. /\ size[ch] \in 1 .. Capacity /\ head[ch] \in Slots /\ tail[ch] \in Slots
        /\ size' = [size EXCEPT ![ch] = @ - 1] /\ tail' = tail
        /\ head' = [head EXCEPT ![ch] = (head[ch] + 1) % Capacity]
        /\ buffer' = [buffer EXCEPT ![ch][head[ch]] = Null]
    BY DEF TypeOK, Take, Empty, Cleared
  <1>2. (head[ch] + 1) % Capacity = IF head[ch] + 1 < Capacity THEN head[ch] + 1 ELSE head[ch] + 1 - Capacity
    <2>1. 1 \in 0 .. Capacity OBVIOUS
    <2> QED BY <1>1, <2>1, SlotSum, Zenon
  <1>3. head' \in [Chans -> Slots] /\ size' \in [Chans -> 0 .. Capacity]
    BY <1>1, <1>2 DEF TypeOK, Slots
  <1>4. buffer' \in [Chans -> [Slots -> Values \cup {Null}]] BY <1>1 DEF TypeOK
  <1>5. tail[ch] = IF head[ch] + size[ch] < Capacity THEN head[ch] + size[ch]
                   ELSE head[ch] + size[ch] - Capacity
    BY <1>1, SlotSum DEF RingInv
  <1>6. tail'[ch] = (head'[ch] + size'[ch]) % Capacity
    <2>1. head'[ch] \in Slots /\ size'[ch] \in 0 .. Capacity BY <1>3
    <2>2. (head'[ch] + size'[ch]) % Capacity =
             IF head'[ch] + size'[ch] < Capacity THEN head'[ch] + size'[ch]
             ELSE head'[ch] + size'[ch] - Capacity
      BY <2>1, SlotSum, Zenon
    <2>3. /\ size'[ch] = size[ch] - 1 /\ tail'[ch] = tail[ch]
          /\ head'[ch] = IF head[ch] + 1 < Capacity THEN head[ch] + 1 ELSE head[ch] + 1 - Capacity
      BY <1>1, <1>2 DEF TypeOK
    <2>4. /\ head[ch] \in 0 .. Capacity - 1 /\ size[ch] \in 1 .. Capacity /\ Capacity \in Nat \ {0}
      BY <1>1 DEF Slots
    <2>5. (IF head[ch] + size[ch] < Capacity THEN head[ch] + size[ch]
           ELSE head[ch] + size[ch] - Capacity)
            = (IF head'[ch] + (size[ch] - 1) < Capacity THEN head'[ch] + (size[ch] - 1)
               ELSE head'[ch] + (size[ch] - 1) - Capacity)
      BY <2>3, <2>4, HeadMoves, Zenon
    <2> QED BY <1>5, <2>2, <2>3, <2>5, Zenon
  <1>7. ASSUME NEW i \in Slots
        PROVE  buffer'[ch][i] # Null <=> Offset(ch, i)' < size'[ch]
    <2>1. head'[ch] \in Slots /\ size'[ch] = size[ch] - 1 BY <1>1, <1>3 DEF TypeOK
    <2>2. Offset(ch, i) = IF head[ch] <= i THEN i - head[ch] ELSE i - head[ch] + Capacity
      BY <1>1, SlotDifference DEF Offset
    <2>3. Offset(ch, i)' = IF head'[ch] <= i THEN i - head'[ch] ELSE i - head'[ch] + Capacity
      BY <2>1, SlotDifference DEF Offset
    <2>4. head'[ch] = IF head[ch] + 1 < Capacity THEN head[ch] + 1 ELSE 0
      BY <1>1, <1>2 DEF TypeOK, Slots
    <2>5. CASE i = head[ch]
      <3>1. buffer'[ch][i] = Null BY <1>1, <2>5 DEF TypeOK
      <3>2. Offset(ch, i)' = Capacity - 1 BY <1>1, <2>3, <2>4, <2>5 DEF Slots
      <3> QED BY <1>1, <2>1, <3>1, <3>2
    <2>6. CASE i # head[ch]
      <3>1. buffer'[ch][i] = buffer[ch][i] BY <1>1, <2>6 DEF TypeOK
      <3>2. buffer[ch][i] # Null <=> Offset(ch, i) < size[ch] BY DEF RingInv
      <3>3. Offset(ch, i)' = Offset(ch, i) - 1 /\ Offset(ch, i) \in Int
        <4>1. head[ch] \in 0 .. Capacity - 1 /\ i \in 0 .. Capacity - 1 BY <1>1 DEF Slots
        <4>2. CASE head[ch] + 1 < Capacity BY <4>1, <4>2, <2>2, <2>3, <2>4, <2>6
        <4>3. CASE head[ch] + 1 = Capacity BY <4>1, <4>3, <2>2, <2>3, <2>4, <2>6
        <4> QED BY <4>1, <4>2, <4>3
      <3> QED BY <1>1, <2>1, <3>1, <3>2, <3>3
    <2> QED BY <2>5, <2>6
  <1>8. ASSUME NEW c \in Chans, c # ch
        PROVE  buffer'[c] = buffer[c] /\ size'[c] = size[c] /\ head'[c] = head[c] /\ tail'[c] = tail[c]
    BY <1>1, <1>8 DEF TypeOK
  <1>9. RingInv' BY <1>6, <1>7, <1>8 DEF RingInv, Offset
  <1> QED BY <1>1, <1>3, <1>4, <1>9 DEF TypeOK

-----------------------------------------------------------------------------
(* A value that is put wakes one receiver, who is then coming for it; the  *)
(* sender comes no more for the room it used.                              *)
LEMMA PutOwed ==
  ASSUME ChannelInv, NEW a \in Callers, NEW ch \in Chans, NEW v, Put(ch, v), ~Full(ch),
         pc[a] \in {"loop", "rejoin"}, call[a].op \in Sending, call[a].chans = <<ch>>,
         \A b \in Callers \ {a} : pc'[b] = pc[b] /\ call'[b] = call[b]
  PROVE  SendersAreOwed' /\ (Lists = {} => ReceiversAreOwed')
  <1> DEFINE R(c) == Coming(c, Receiving)
             S(c) == Coming(c, Sending)
  <1>1. /\ TypeOK /\ CallsInv /\ sendCv' = sendCv
        /\ size[ch] \in 0 .. Capacity /\ size'[ch] = size[ch] + 1
        /\ \A c \in Chans \ {ch} : size'[c] = size[c] /\ recvCv'[c] = recvCv[c]
    BY DEF ChannelInv, TypeOK, Put, WakeReceiver, Signal
  <1>2. ASSUME recvCv[ch] # {} PROVE \E b \in recvCv[ch] : recvCv'[ch] = recvCv[ch] \ {b}
    <2>1. PICK b \in recvCv[ch] : recvCv' = [recvCv EXCEPT ![ch] = recvCv[ch] \ {b}]
      BY <1>2 DEF Put, WakeReceiver, Signal
    <2> QED BY <1>1, <2>1 DEF TypeOK
  <1>3. recvCv[ch] = {} => recvCv'[ch] = {}
    BY <1>1 DEF TypeOK, Put, WakeReceiver, Signal
  <1>4. ASSUME NEW c \in Chans
        PROVE  /\ recvCv'[c] \subseteq recvCv[c] \cup {a} /\ sendCv'[c] \subseteq sendCv[c] \cup {a}
               /\ R(c) \ {a} \subseteq R(c)' /\ S(c) \ {a} \subseteq S(c)'
               /\ a \notin R(c) /\ (c # ch => a \notin S(c))
               /\ size[c] \in 0 .. Capacity
               /\ IsFiniteSet(R(c)) /\ IsFiniteSet(S(c)) /\ IsFiniteSet(R(c)') /\ IsFiniteSet(S(c)')
    <2>1. recvCv'[c] \subseteq recvCv[c] \cup {a} /\ sendCv'[c] \subseteq sendCv[c] \cup {a}
      BY <1>1, <1>2, <1>3
    <2>2. R(c) \ {a} \subseteq R(c)' /\ S(c) \ {a} \subseteq S(c)' BY <2>1, OthersKeepComing
    <2>3. a \notin R(c) /\ (c # ch => a \notin S(c))
      BY DEF Coming, Chan, Sending, Receiving
    <2>4. IsFiniteSet(R(c)) /\ IsFiniteSet(S(c)) /\ IsFiniteSet(R(c)') /\ IsFiniteSet(S(c)')
      BY FiniteCallers, FS_Subset DEF Coming
    <2> QED BY <1>1, <2>1, <2>2, <2>3, <2>4 DEF TypeOK
  <1>5. ASSUME Lists = {}, NEW c \in Chans, recvCv'[c] # {}
        PROVE  size'[c] <= Cardinality(R(c)')
    <2>1. CASE c # ch
      <3>1. R(c) \subseteq R(c)' BY <1>4
      <3>2. size[c] <= Cardinality(R(c)) BY <1>1, <1>5, <2>1 DEF ChannelInv, ReceiversAreOwed
      <3> QED BY <1>1, <1>4, <2>1, <3>1, <3>2, MoreMembers
    <2>2. CASE c = ch
      <3>1. PICK b \in recvCv[ch] : recvCv'[ch] = recvCv[ch] \ {b} BY <1>2, <1>3, <1>5, <2>2
      <3>2. b \in Callers /\ CallOK(b) BY <1>1, <3>1 DEF TypeOK, CallsInv, Callers
      <3>3. pc[b] = "asleep" /\ call[b].op = "receive_blocking" /\ Chan(b) = ch
        BY <1>5, <3>1, <3>2 DEF CallOK
      <3>4. b # a /\ b \notin sendCv[ch] BY <3>2, <3>3 DEF CallOK
      <3>5. b \in R(ch)' /\ b \notin R(ch)
        BY <1>1, <3>1, <3>2, <3>3, <3>4 DEF Coming, Chan, Receiving
      <3>6. R(ch) \subseteq R(ch)' BY <1>4
      <3>7. Cardinality(R(ch)) + 1 <= Cardinality(R(ch)') /\ Cardinality(R(ch)) \in Nat
            /\ Cardinality(R(ch)') \in Nat
        BY <1>4, <3>5, <3>6, OneMoreMember
      <3>8. size[ch] <= Cardinality(R(ch)) BY <1>5, <3>1 DEF ChannelInv, ReceiversAreOwed
      <3> QED BY <1>1, <2>2, <3>7, <3>8
    <2> QED BY <2>1, <2>2
  <1>6. ASSUME NEW c \in Chans, sendCv'[c] # {}
        PROVE  Capacity - size'[c] <= Cardinality(S(c)')
    <2>1. Capacity - size[c] <= Cardinality(S(c)) BY <1>1, <1>6 DEF ChannelInv, SendersAreOwed
    <2>2. CASE c # ch
      <3>1. S(c) \subseteq S(c)' BY <1>4, <2>2
      <3> QED BY <1>1, <1>4, <2>1, <2>2, <3>1, MoreMembers
    <2>3. CASE c = ch
      <3>1. Cardinality(S(c)) - 1 <= Cardinality(S(c)') /\ Cardinality(S(c)) \in Nat
            /\ Cardinality(S(c)') \in Nat
        BY <1>4, OneLessMember
      <3> QED BY <1>1, <2>1, <2>3, <3>1
    <2> QED BY <2>2, <2>3
  <1>7. Lists = {} => ReceiversAreOwed' BY <1>5 DEF ReceiversAreOwed
  <1>8. SendersAreOwed' BY <1>6 DEF SendersAreOwed
  <1> QED BY <1>7, <1>8

(* And a value that is taken wakes one sender.                             *)
LEMMA TakeOwed ==
  ASSUME ChannelInv, NEW a \in Callers, NEW ch \in Chans, Take(ch), ~Empty(ch),
         pc[a] \in {"loop", "rejoin"}, call[a].op \in Receiving, call[a].chans = <<ch>>,
         \A b \in Callers \ {a} : pc'[b] = pc[b] /\ call'[b] = call[b]
  PROVE  SendersAreOwed' /\ (Lists = {} => ReceiversAreOwed')
  <1> DEFINE R(c) == Coming(c, Receiving)
             S(c) == Coming(c, Sending)
  <1>1. /\ TypeOK /\ CallsInv /\ recvCv' = recvCv
        /\ size[ch] \in 0 .. Capacity /\ size'[ch] = size[ch] - 1
        /\ \A c \in Chans \ {ch} : size'[c] = size[c] /\ sendCv'[c] = sendCv[c]
    BY DEF ChannelInv, TypeOK, Take, WakeSender, Signal
  <1>2. ASSUME sendCv[ch] # {} PROVE \E b \in sendCv[ch] : sendCv'[ch] = sendCv[ch] \ {b}
    <2>1. PICK b \in sendCv[ch] : sendCv' = [sendCv EXCEPT ![ch] = sendCv[ch] \ {b}]
      BY <1>2 DEF Take, WakeSender, Signal
    <2> QED BY <1>1, <2>1 DEF TypeOK
  <1>3. sendCv[ch] = {} => sendCv'[ch] = {}
    BY <1>1 DEF TypeOK, Take, WakeSender, Signal
  <1>4. ASSUME NEW c \in Chans
        PROVE  /\ recvCv'[c] \subseteq recvCv[c] \cup {a} /\ sendCv'[c] \subseteq sendCv[c] \cup {a}
               /\ R(c) \ {a} \subseteq R(c)' /\ S(c) \ {a} \subseteq S(c)'
               /\ a \notin S(c) /\ (c # ch => a \notin R(c))
               /\ size[c] \in 0 .. Capacity
               /\ IsFiniteSet(R(c)) /\ IsFiniteSet(S(c)) /\ IsFiniteSet(R(c)') /\ IsFiniteSet(S(c)')
    <2>1. recvCv'[c] \subseteq recvCv[c] \cup {a} /\ sendCv'[c] \subseteq sendCv[c] \cup {a}
      BY <1>1, <1>2, <1>3
    <2>2. R(c) \ {a} \subseteq R(c)' /\ S(c) \ {a} \subseteq S(c)' BY <2>1, OthersKeepComing
    <2>3. a \notin S(c) /\ (c # ch => a \notin R(c))
      BY DEF Coming, Chan, Sending, Receiving
    <2>4. IsFiniteSet(R(c)) /\ IsFiniteSet(S(c)) /\ IsFiniteSet(R(c)') /\ IsFiniteSet(S(c)')
      BY FiniteCallers, FS_Subset DEF Coming
    <2> QED BY <1>1, <2>1, <2>2, <2>3, <2>4 DEF TypeOK
  <1>5. ASSUME NEW c \in Chans, sendCv'[c] # {}
        PROVE  Capacity - size'[c] <= Cardinality(S(c)')
    <2>1. CASE c # ch
      <3>1. S(c) \subseteq S(c)' BY <1>4
      <3>2. Capacity - size[c] <= Cardinality(S(c)) BY <1>1, <1>5, <2>1 DEF ChannelInv, SendersAreOwed
      <3> QED BY <1>1, <1>4, <2>1, <3>1, <3>2, MoreMembers
    <2>2. CASE c = ch
      <3>1. PICK b \in sendCv[ch] : sendCv'[ch] = sendCv[ch] \ {b} BY <1>2, <1>3, <1>5, <2>2
      <3>2. b \in Callers /\ CallOK(b) BY <1>1, <3>1 DEF TypeOK, CallsInv, Callers
      <3>3. pc[b] = "asleep" /\ call[b].op = "send_blocking" /\ Chan(b) = ch
        BY <3>1, <3>2 DEF CallOK
      <3>4. b # a /\ b \notin recvCv[ch] BY <3>2, <3>3 DEF CallOK
      <3>5. b \in S(ch)' /\ b \notin S(ch)
        BY <1>1, <3>1, <3>2, <3>3, <3>4 DEF Coming, Chan, Sending
      <3>6. S(ch) \subseteq S(ch)' BY <1>4
      <3>7. Cardinality(S(ch)) + 1 <= Cardinality(S(ch)') /\ Cardinality(S(ch)) \in Nat
            /\ Cardinality(S(ch)') \in Nat
        BY <1>4, <3>5, <3>6, OneMoreMember
      <3>8. Capacity - size[ch] <= Cardinality(S(ch)) BY <3>1 DEF ChannelInv, SendersAreOwed
      <3> QED BY <1>1, <2>2, <3>7, <3>8
    <2> QED BY <2>1, <2>2
  <1>6. ASSUME Lists = {}, NEW c \in Chans, recvCv'[c] # {}
        PROVE  size'[c] <= Cardinality(R(c)')
    <2>1. size[c] <= Cardinality(R(c)) BY <1>1, <1>6 DEF ChannelInv, ReceiversAreOwed
    <2>2. CASE c # ch
      <3>1. R(c) \subseteq R(c)' BY <1>4, <2>2
      <3> QED BY <1>1, <1>4, <2>1, <2>2, <3>1, MoreMembers
    <2>3. CASE c = ch
      <3>1. Cardinality(R(c)) - 1 <= Cardinality(R(c)') /\ Cardinality(R(c)) \in Nat
            /\ Cardinality(R(c)') \in Nat
        BY <1>4, OneLessMember
      <3> QED BY <1>1, <2>1, <2>3, <3>1
    <2> QED BY <2>2, <2>3
  <1>7. SendersAreOwed' BY <1>5 DEF SendersAreOwed
  <1>8. Lists = {} => ReceiversAreOwed' BY <1>6 DEF ReceiversAreOwed
  <1> QED BY <1>7, <1>8

-----------------------------------------------------------------------------
(* One caller's step: what it must show for all of ChannelInv.             *)

(* A step that leaves the ring alone.                                      *)
LEMMA QuietStep ==
  ASSUME ChannelInv, NEW a \in Callers, TypeOK', CallOK(a)', UNCHANGED ring,
         \A b \in Callers \ {a} : pc'[b] = pc[b] /\ call'[b] = call[b] /\ at'[b] = at[b],
         \A c \in Chans :
            /\ recvCv'[c] \subseteq recvCv[c] \cup {a} /\ sendCv'[c] \subseteq sendCv[c] \cup {a}
            /\ a \in recvCv'[c] /\ a \notin recvCv[c] => size[c] = 0 \/ Lists # {}
            /\ a \in sendCv'[c] /\ a \notin sendCv[c] => size[c] = Capacity
            /\ a \in Coming(c, Receiving) => a \in Coming(c, Receiving)' \/ size[c] = 0
            /\ a \in Coming(c, Sending) => a \in Coming(c, Sending)' \/ size[c] = Capacity
  PROVE  ChannelInv'
  <1>1. UNCHANGED size BY DEF ring
  <1>2. SendersAreOwed' /\ (Lists = {} => ReceiversAreOwed') BY <1>1, StillOwed
  <1>3. CallsInv' BY OthersFit DEF ChannelInv
  <1>4. RingInv' BY DEF ChannelInv, RingInv, Offset, ring
  <1> QED BY <1>2, <1>3, <1>4 DEF ChannelInv

(* An idle caller that waits nowhere fits; nor does it come for anything.  *)
LEMMA IdleFits ==
  ASSUME NEW a \in Callers, pc'[a] = "idle", call'[a] = Idle, at'[a] = 1,
         \A c \in Chans : a \notin recvCv'[c] /\ a \notin sendCv'[c]
  PROVE  CallOK(a)'
  BY DEF CallOK, Idle, Sending, Receiving

(* A call that returns leaves the caller idle, and the others where they   *)
(* are.                                                                    *)
LEMMA ReturnsTyped ==
  ASSUME TypeOK, NEW a \in Callers, NEW v \in Int, Returns(a, v)
  PROVE  /\ pc' \in [Callers -> Places] /\ call' \in [Callers -> AllCalls \cup {Idle}]
         /\ at' \in [Callers -> Nat \ {0}] /\ reply' \in [Callers -> Int]
         /\ sends' \in 0 .. MaxSends
         /\ pc'[a] = "idle" /\ call'[a] = Idle /\ at'[a] = 1
         /\ \A b \in Callers \ {a} : pc'[b] = pc[b] /\ call'[b] = call[b] /\ at'[b] = at[b]
  BY DEF TypeOK, Returns, Goto, Places

(* A caller in front of the channel waits nowhere.                         *)
LEMMA AwakeWaitsNowhere ==
  ASSUME CallsInv, NEW a \in Callers, pc[a] \notin {"asleep", "doze"}
  PROVE  \A c \in Chans : a \notin recvCv[c] /\ a \notin sendCv[c]
  BY DEF CallsInv, CallOK

(* A step that returns from the call and touches neither ring nor wait     *)
(* sets, when the caller was not coming for anything that is there.        *)
LEMMA ReturnsQuietly ==
  ASSUME ChannelInv, NEW a \in Callers, NEW v \in Int, Returns(a, v), UNCHANGED ring,
         \A c \in Chans :
            /\ recvCv'[c] \subseteq recvCv[c] \ {a} /\ sendCv'[c] \subseteq sendCv[c] \ {a}
            /\ a \in Coming(c, Receiving) => size[c] = 0
            /\ a \in Coming(c, Sending) => size[c] = Capacity,
         recvCv' \in [Chans -> SUBSET Threads], sendCv' \in [Chans -> SUBSET Threads]
  PROVE  ChannelInv'
  <1>1. TypeOK BY DEF ChannelInv
  <1>2. TypeOK' BY <1>1, ReturnsTyped DEF TypeOK, ring
  <1>3. CallOK(a)' BY <1>1, ReturnsTyped, IdleFits
  <1>4. \A b \in Callers \ {a} : pc'[b] = pc[b] /\ call'[b] = call[b] /\ at'[b] = at[b]
    BY <1>1, ReturnsTyped
  <1> QED BY <1>2, <1>3, <1>4, QuietStep

(* ... with nothing done at all.                                           *)
LEMMA ReturnsInVain ==
  ASSUME ChannelInv, NEW a \in Callers, NEW v \in Int, Returns(a, v), UNCHANGED <<ring, cvs>>,
         pc[a] \notin {"asleep", "doze"},
         \A c \in Chans :
            /\ a \in Coming(c, Receiving) => size[c] = 0
            /\ a \in Coming(c, Sending) => size[c] = Capacity
  PROVE  ChannelInv'
  <1>1. UNCHANGED ring /\ recvCv' = recvCv /\ sendCv' = sendCv BY DEF cvs
  <1>2. \A c \in Chans : a \notin recvCv[c] /\ a \notin sendCv[c]
    BY AwakeWaitsNowhere DEF ChannelInv
  <1>3. recvCv' \in [Chans -> SUBSET Threads] /\ sendCv' \in [Chans -> SUBSET Threads]
    BY <1>1 DEF ChannelInv, TypeOK
  <1>4. \A c \in Chans : recvCv'[c] \subseteq recvCv[c] \ {a} /\ sendCv'[c] \subseteq sendCv[c] \ {a}
    BY <1>1, <1>2
  <1> QED BY <1>1, <1>3, <1>4, ReturnsQuietly

(* A call that puts its value and returns.                                 *)
LEMMA PutAndReturn ==
  ASSUME ChannelInv, NEW a \in Callers, NEW v \in Int, Returns(a, v),
         pc[a] \in {"loop", "rejoin"}, call[a].op \in Sending,
         ~Full(Chan(a)), Put(Chan(a), call[a].val)
  PROVE  ChannelInv'
  <1> DEFINE ch == Chan(a)
  <1>1. TypeOK /\ CallsInv /\ RingInv /\ CallOK(a) BY DEF ChannelInv, CallsInv
  <1>2. ch \in Chans /\ call[a].chans = <<ch>> /\ call[a].val \in Values
    BY <1>1 DEF CallOK, Chan
  <1>3. /\ \A b \in Callers \ {a} : pc'[b] = pc[b] /\ call'[b] = call[b] /\ at'[b] = at[b]
        /\ pc'[a] = "idle" /\ call'[a] = Idle /\ at'[a] = 1
    BY <1>1, ReturnsTyped
  <1>4. \A c \in Chans : recvCv'[c] \subseteq recvCv[c] /\ sendCv'[c] = sendCv[c]
    <2>1. sendCv' = sendCv BY DEF Put
    <2>2. recvCv' = recvCv \/ \E b \in recvCv[ch] : recvCv' = [recvCv EXCEPT ![ch] = recvCv[ch] \ {b}]
      BY DEF Put, WakeReceiver, Signal
    <2> QED BY <1>1, <1>2, <2>1, <2>2 DEF TypeOK
  <1>5. recvCv' \in [Chans -> SUBSET Threads] /\ sendCv' = sendCv
    <2>2. recvCv' = recvCv \/ \E b \in recvCv[ch] : recvCv' = [recvCv EXCEPT ![ch] = recvCv[ch] \ {b}]
      BY DEF Put, WakeReceiver, Signal
    <2> QED BY <1>1, <1>2, <2>2 DEF TypeOK, Put
  <1>6. SendersAreOwed' /\ (Lists = {} => ReceiversAreOwed') BY <1>2, <1>3, PutOwed
  <1>7. RingInv' /\ TypeOK'
    BY <1>1, <1>2, <1>5, PutRing, ReturnsTyped DEF TypeOK
  <1>8. CallOK(a)' BY <1>1, <1>3, <1>4, AwakeWaitsNowhere, IdleFits
  <1>9. CallsInv' BY <1>1, <1>3, <1>4, <1>8, OthersFit
  <1> QED BY <1>6, <1>7, <1>9 DEF ChannelInv

(* A call that returns the value it takes.                                 *)
LEMMA TakeAndReturn ==
  ASSUME ChannelInv, NEW a \in Callers, NEW v \in Int, Returns(a, v),
         pc[a] \in {"loop", "rejoin"}, call[a].op \in Receiving,
         ~Empty(Chan(a)), Take(Chan(a))
  PROVE  ChannelInv'
  <1> DEFINE ch == Chan(a)
  <1>1. TypeOK /\ CallsInv /\ RingInv /\ CallOK(a) BY DEF ChannelInv, CallsInv
  <1>2. ch \in Chans /\ call[a].chans = <<ch>> 
    BY <1>1 DEF CallOK, Chan
  <1>3. /\ \A b \in Callers \ {a} : pc'[b] = pc[b] /\ call'[b] = call[b] /\ at'[b] = at[b]
        /\ pc'[a] = "idle" /\ call'[a] = Idle /\ at'[a] = 1
    BY <1>1, ReturnsTyped
  <1>4. \A c \in Chans : sendCv'[c] \subseteq sendCv[c] /\ recvCv'[c] = recvCv[c]
    <2>1. recvCv' = recvCv BY DEF Take
    <2>2. sendCv' = sendCv \/ \E b \in sendCv[ch] : sendCv' = [sendCv EXCEPT ![ch] = sendCv[ch] \ {b}]
      BY DEF Take, WakeSender, Signal
    <2> QED BY <1>1, <1>2, <2>1, <2>2 DEF TypeOK
  <1>5. sendCv' \in [Chans -> SUBSET Threads] /\ recvCv' = recvCv
    <2>2. sendCv' = sendCv \/ \E b \in sendCv[ch] : sendCv' = [sendCv EXCEPT ![ch] = sendCv[ch] \ {b}]
      BY DEF Take, WakeSender, Signal
    <2> QED BY <1>1, <1>2, <2>2 DEF TypeOK, Take
  <1>6. SendersAreOwed' /\ (Lists = {} => ReceiversAreOwed') BY <1>2, <1>3, TakeOwed
  <1>7. RingInv' /\ TypeOK'
    BY <1>1, <1>2, <1>5, TakeRing, ReturnsTyped DEF TypeOK
  <1>8. CallOK(a)' BY <1>1, <1>3, <1>4, AwakeWaitsNowhere, IdleFits
  <1>9. CallsInv' BY <1>1, <1>3, <1>4, <1>8, OthersFit
  <1> QED BY <1>6, <1>7, <1>9 DEF ChannelInv

-----------------------------------------------------------------------------
(* The actions, one by one.  First the calls that do not wait.             *)
LEMMA BeginInv ==
  ASSUME ChannelInv, NEW a \in Callers, Begin(a)
  PROVE  ChannelInv'
  <1>1. TypeOK /\ CallsInv /\ CallOK(a) BY DEF ChannelInv, CallsInv
  <1>2. PICK new \in CallsOf(a) :
           /\ call' = [call EXCEPT ![a] = new]
           /\ Goto(a, IF new.op = "select" THEN "scan" ELSE "loop")
           /\ sends' = IF new.op \in Sending THEN sends + 1 ELSE sends
    BY DEF Begin
  <1>3. pc[a] = "idle" /\ UNCHANGED <<ring, cvs, at, reply>> BY DEF Begin
  <1>4. /\ new \in AllCalls
        /\ new.op = "select" => new.chans \in Lists /\ a \notin Fibers
        /\ new.op # "select" => \E c \in Chans : new.chans = <<c>>
        /\ new.op \in Sending => sends < MaxSends /\ new.val = sends + 1
        /\ a \in Fibers => new.op \in {"send", "receive"}
        /\ new.op \in {"send", "receive"} => new.timeout = 0
    <2>1. new \in SendCalls({"send"}, {0}) \cup SendCalls({"send_blocking"}, Timeouts)
             \cup ReceiveCalls({"receive"}, {0}) \cup ReceiveCalls({"receive_blocking"}, Timeouts)
             \cup SelectCalls
          /\ (a \in Fibers => new \in SendCalls({"send"}, {0}) \cup ReceiveCalls({"receive"}, {0}))
      BY DEF CallsOf, CallsNow
    <2>2. sends \in 0 .. MaxSends BY <1>1 DEF TypeOK
    <2>3. CASE new \in SendCalls({"send"}, {0}) \cup SendCalls({"send_blocking"}, Timeouts)
      BY <2>1, <2>2, <2>3 DEF SendCalls, ReceiveCalls, AllCalls, Sending, Receiving, Values, Timed
    <2>4. CASE new \in ReceiveCalls({"receive"}, {0}) \cup ReceiveCalls({"receive_blocking"}, Timeouts)
      BY <2>1, <2>4 DEF SendCalls, ReceiveCalls, AllCalls, Sending, Receiving, Null, Timed
    <2>5. CASE new \in SelectCalls
      <3>1. PICK l \in Lists, t \in Timeouts :
               new = [op |-> "select", chans |-> l, val |-> Null, timeout |-> t]
        BY <2>5 DEF SelectCalls
      <3>2. \A n \in SendCalls({"send"}, {0}) \cup ReceiveCalls({"receive"}, {0}) : n.op # "select"
        BY DEF SendCalls, ReceiveCalls
      <3>3. a \notin Fibers BY <2>1, <3>1, <3>2
      <3> QED BY <3>1, <3>3 DEF AllCalls, Sending, Timed
    <2> QED BY <2>1, <2>3, <2>4, <2>5
  <1>5. /\ new.op \in Sending \cup Receiving \cup {"select"} /\ new # Idle
        /\ new.op # "none" /\ new.val \in Values \cup {Null}
    BY <1>4 DEF AllCalls, Idle, Sending, Receiving
  <1>6. /\ call'[a] = new /\ pc'[a] = IF new.op = "select" THEN "scan" ELSE "loop"
        /\ \A b \in Callers \ {a} : pc'[b] = pc[b] /\ call'[b] = call[b] /\ at'[b] = at[b]
    BY <1>1, <1>2, <1>3 DEF TypeOK, Goto
  <1>7. TypeOK'
    <2>1. sends' \in 0 .. MaxSends BY <1>1, <1>2, <1>4 DEF TypeOK
    <2>2. pc' \in [Callers -> Places] /\ call' \in [Callers -> AllCalls \cup {Idle}]
      BY <1>1, <1>2, <1>4 DEF TypeOK, Goto, Places
    <2> QED BY <1>1, <1>3, <2>1, <2>2 DEF TypeOK, ring, cvs
  <1>8. CallOK(a)'
    <2>1. \A c \in Chans : a \notin recvCv'[c] /\ a \notin sendCv'[c]
      BY <1>1, <1>3, AwakeWaitsNowhere DEF cvs
    <2>2. new.op \in Sending => new.val \in Values
      BY <1>1, <1>4 DEF TypeOK, Values
    <2>3. CASE new.op = "select"
      <3>1. at'[a] = 1 BY <1>1, <1>3 DEF CallOK
      <3>2. Len(new.chans) \in Nat /\ Len(new.chans) # 0
        BY <1>4, <2>3
      <3> QED BY <1>4, <1>5, <1>6, <2>1, <2>2, <2>3, <3>1, <3>2 DEF CallOK
    <2>4. CASE new.op # "select"
      <3>1. at'[a] = 1 BY <1>1, <1>3 DEF CallOK
      <3> QED BY <3>1, <1>4, <1>5, <1>6, <2>1, <2>2, <2>4 DEF CallOK
    <2> QED BY <2>3, <2>4
  <1>9. \A c \in Chans : \A ops : a \notin Coming(c, ops) BY <1>3 DEF Coming
  <1> QED BY <1>3, <1>6, <1>7, <1>8, <1>9, QuietStep DEF cvs

(* A caller that has not been put back to wait comes for its channel.      *)
LEMMA InLoop ==
  ASSUME CallsInv, NEW a \in Callers, pc[a] \in {"loop", "asleep", "sched", "rejoin"}
  PROVE  /\ Chan(a) \in Chans /\ call[a].chans = <<Chan(a)>>
         /\ \A c \in Chans : \A ops : a \in Coming(c, ops) => c = Chan(a) /\ call[a].op \in ops
  BY DEF CallsInv, CallOK, Chan, Coming

(* xt_channel_send: the value enters, or the channel is full.              *)
LEMMA SendNowInv ==
  ASSUME ChannelInv, NEW a \in Callers, SendNow(a)
  PROVE  ChannelInv'
  <1>1. TypeOK /\ CallsInv BY DEF ChannelInv
  <1>2. /\ pc[a] = "loop" /\ call[a].op = "send" /\ Returns(a, Null)
        /\ IF Full(Chan(a)) THEN UNCHANGED <<ring, cvs>> ELSE Put(Chan(a), call[a].val)
    BY DEF SendNow
  <1>3. CASE ~Full(Chan(a)) BY <1>2, <1>3, PutAndReturn DEF Sending, Null
  <1>4. CASE Full(Chan(a))
    <2>3. size[Chan(a)] = Capacity BY <1>1, <1>2, <1>4, InLoop DEF TypeOK, Full
    <2>4. \A c \in Chans :
             /\ a \in Coming(c, Receiving) => size[c] = 0
             /\ a \in Coming(c, Sending) => size[c] = Capacity
      BY <1>1, <1>2, <2>3, InLoop DEF Receiving
    <2> QED BY <1>2, <1>4, <2>4, ReturnsInVain DEF Null
  <1> QED BY <1>3, <1>4

(* What a receiver returns is in the ring.                                 *)
LEMMA HeadIsInt ==
  ASSUME TypeOK, NEW c \in Chans
  PROVE  buffer[c][head[c]] \in Int
  BY DEF TypeOK, Values, Null

(* xt_channel_receive: a value leaves, or the channel is empty.            *)
LEMMA ReceiveNowInv ==
  ASSUME ChannelInv, NEW a \in Callers, ReceiveNow(a)
  PROVE  ChannelInv'
  <1>1. TypeOK /\ CallsInv BY DEF ChannelInv
  <1>2. /\ pc[a] = "loop" /\ call[a].op = "receive"
        /\ IF Empty(Chan(a)) THEN Returns(a, Null) /\ UNCHANGED <<ring, cvs>>
           ELSE Returns(a, buffer[Chan(a)][head[Chan(a)]]) /\ Take(Chan(a))
    BY DEF ReceiveNow
  <1>3. CASE ~Empty(Chan(a))
    BY <1>1, <1>2, <1>3, InLoop, HeadIsInt, TakeAndReturn DEF Receiving
  <1>4. CASE Empty(Chan(a))
    <2>3. size[Chan(a)] = 0 BY <1>4 DEF Empty
    <2>4. \A c \in Chans :
             /\ a \in Coming(c, Receiving) => size[c] = 0
             /\ a \in Coming(c, Sending) => size[c] = Capacity
      BY <1>1, <1>2, <2>3, InLoop DEF Sending
    <2> QED BY <1>2, <1>4, <2>4, ReturnsInVain DEF Null
  <1> QED BY <1>3, <1>4

-----------------------------------------------------------------------------
(* The blocking calls.                                                     *)
LEMMA SendBlockingInv ==
  ASSUME ChannelInv, NEW a \in Callers, SendBlocking(a)
  PROVE  ChannelInv'
  BY PutAndReturn DEF SendBlocking, Sending

(* xt_channel_receive_blocking that finds a value.                         *)
LEMMA ReceiveBlockingInv ==
  ASSUME ChannelInv, NEW a \in Callers, ReceiveBlocking(a)
  PROVE  ChannelInv'
  <1>1. TypeOK /\ CallsInv BY DEF ChannelInv
  <1>2. buffer[Chan(a)][head[Chan(a)]] \in Int
    BY <1>1, InLoop, HeadIsInt DEF ReceiveBlocking
  <1> QED BY <1>2, TakeAndReturn DEF ReceiveBlocking, Receiving

(* A caller that must wait has come for nothing that is there.             *)
LEMMA NothingToComeFor ==
  ASSUME TypeOK, CallsInv, NEW a \in Callers, pc[a] \in {"loop", "rejoin"}, MustWait(a)
  PROVE  /\ \A c \in Chans :
               /\ a \in Coming(c, Receiving) => size[c] = 0
               /\ a \in Coming(c, Sending) => size[c] = Capacity
         /\ call[a].op = "send_blocking" => size[Chan(a)] = Capacity
         /\ call[a].op # "send_blocking" => call[a].op = "receive_blocking" /\ size[Chan(a)] = 0
  <1>1. /\ call[a].op = "send_blocking" => size[Chan(a)] = Capacity
        /\ call[a].op # "send_blocking" => call[a].op = "receive_blocking" /\ size[Chan(a)] = 0
    BY InLoop DEF MustWait, Blocked, Full, Empty, TypeOK
  <1> QED BY <1>1, InLoop DEF Sending, Receiving

(* A blocking call that has no time left.                                  *)
LEMMA GiveUpInv ==
  ASSUME ChannelInv, NEW a \in Callers, GiveUp(a)
  PROVE  ChannelInv'
  <1>1. TypeOK /\ CallsInv BY DEF ChannelInv
  <1>2. pc[a] = "loop" /\ MustWait(a) /\ Returns(a, Null) /\ UNCHANGED <<ring, cvs>>
    BY DEF GiveUp
  <1> QED BY <1>1, <1>2, NothingToComeFor, ReturnsInVain DEF Null

(* A step within a call, that changes the caller's place at most.          *)
LEMMA MovesTyped ==
  ASSUME TypeOK, NEW a \in Callers, NEW p \in Places, Goto(a, p), UNCHANGED <<call, at, reply, sends>>
  PROVE  /\ pc' \in [Callers -> Places] /\ pc'[a] = p
         /\ call'[a] = call[a] /\ at'[a] = at[a]
         /\ \A b \in Callers \ {a} : pc'[b] = pc[b] /\ call'[b] = call[b] /\ at'[b] = at[b]
  BY DEF TypeOK, Goto

(* The main thread goes to run the fibers.                                 *)
LEMMA RunFibersInv ==
  ASSUME ChannelInv, NEW a \in Callers, RunFibers(a)
  PROVE  ChannelInv'
  <1>1. TypeOK /\ CallsInv /\ CallOK(a) BY DEF ChannelInv, CallsInv
  <1>2. /\ pc[a] = "loop" /\ MustWait(a) /\ a = Main /\ Goto(a, "sched")
        /\ UNCHANGED <<ring, recvCv, sendCv, call, at, reply, sends>>
    BY DEF RunFibers, cvs, Stays
  <1>3. /\ pc' \in [Callers -> Places] /\ pc'[a] = "sched"
        /\ \A b \in Callers \ {a} : pc'[b] = pc[b] /\ call'[b] = call[b] /\ at'[b] = at[b]
    BY <1>1, <1>2, MovesTyped DEF Places
  <1>4. TypeOK' BY <1>1, <1>2, <1>3 DEF TypeOK, ring
  <1>5. CallOK(a)'
    <2>1. \A c \in Chans : a \notin recvCv'[c] /\ a \notin sendCv'[c]
      BY <1>1, <1>2, AwakeWaitsNowhere
    <2>2. call[a].op \in {"send_blocking", "receive_blocking"} /\ a \notin Fibers
      BY <1>1, <1>2, NothingToComeFor
    <2> QED BY <1>1, <1>2, <1>3, <2>1, <2>2 DEF CallOK, Idle
  <1> QED BY <1>1, <1>2, <1>3, <1>4, <1>5, NothingToComeFor, QuietStep

(* ... and comes back to look at the channel once more.                    *)
LEMMA BackFromFibersInv ==
  ASSUME ChannelInv, NEW a \in Callers, BackFromFibers(a)
  PROVE  ChannelInv'
  <1>1. TypeOK /\ CallsInv /\ CallOK(a) BY DEF ChannelInv, CallsInv
  <1>2. /\ pc[a] = "sched" /\ Goto(a, "rejoin")
        /\ UNCHANGED <<ring, recvCv, sendCv, call, at, reply, sends>>
    BY DEF BackFromFibers, cvs, Stays
  <1>3. /\ pc' \in [Callers -> Places] /\ pc'[a] = "rejoin"
        /\ \A b \in Callers \ {a} : pc'[b] = pc[b] /\ call'[b] = call[b] /\ at'[b] = at[b]
    BY <1>1, <1>2, MovesTyped DEF Places
  <1>4. TypeOK' BY <1>1, <1>2, <1>3 DEF TypeOK, ring
  <1>5. CallOK(a)' BY <1>1, <1>2, <1>3 DEF CallOK, Idle, Chan, Listed
  <1>6. \A c \in Chans : \A ops : a \notin Coming(c, ops) BY <1>2 DEF Coming
  <1> QED BY <1>2, <1>3, <1>4, <1>5, <1>6, QuietStep

(* A condition wait begins: on the right one, for what is not there.       *)
LEMMA SleepInv ==
  ASSUME ChannelInv, NEW a \in Callers, Sleep(a)
  PROVE  ChannelInv'
  <1> DEFINE ch == Chan(a)
  <1>1. TypeOK /\ CallsInv /\ CallOK(a) BY DEF ChannelInv, CallsInv
  <1>2. /\ pc[a] \in {"loop", "rejoin"} /\ MustWait(a) /\ Goto(a, "asleep")
        /\ UNCHANGED <<ring, call, at, reply, sends>>
        /\ IF call[a].op = "send_blocking"
           THEN sendCv' = [sendCv EXCEPT ![ch] = @ \cup {a}] /\ recvCv' = recvCv
           ELSE recvCv' = [recvCv EXCEPT ![ch] = @ \cup {a}] /\ sendCv' = sendCv
    BY DEF Sleep, Stays, Join
  <1>3. /\ pc' \in [Callers -> Places] /\ pc'[a] = "asleep"
        /\ call'[a] = call[a] /\ at'[a] = at[a]
        /\ \A b \in Callers \ {a} : pc'[b] = pc[b] /\ call'[b] = call[b] /\ at'[b] = at[b]
    BY <1>1, <1>2, MovesTyped DEF Places
  <1>4. /\ call[a].op \in {"send_blocking", "receive_blocking"}
        /\ call[a].op = "send_blocking" => size[ch] = Capacity
        /\ call[a].op # "send_blocking" => size[ch] = 0
    BY <1>1, <1>2, NothingToComeFor
  <1>5. a \in Threads BY <1>1, <1>4 DEF CallOK, Callers
  <1>6. ch \in Chans /\ call[a].chans = <<ch>> BY <1>1, <1>2, InLoop
  <1>7. \A c \in Chans :
           /\ recvCv'[c] \subseteq recvCv[c] \cup {a} /\ sendCv'[c] \subseteq sendCv[c] \cup {a}
           /\ a \notin recvCv[c] /\ a \notin sendCv[c]
           /\ a \in recvCv'[c] => c = ch /\ call[a].op = "receive_blocking"
           /\ a \in sendCv'[c] => c = ch /\ call[a].op = "send_blocking"
    <2>1. \A c \in Chans : a \notin recvCv[c] /\ a \notin sendCv[c]
      BY <1>1, <1>2, AwakeWaitsNowhere
    <2> QED BY <1>1, <1>2, <1>4, <1>6, <2>1 DEF TypeOK
  <1>8. recvCv' \in [Chans -> SUBSET Threads] /\ sendCv' \in [Chans -> SUBSET Threads]
    <2>1. recvCv[ch] \cup {a} \in SUBSET Threads /\ sendCv[ch] \cup {a} \in SUBSET Threads
      BY <1>1, <1>5, <1>6 DEF TypeOK
    <2>2. recvCv \in [Chans -> SUBSET Threads] /\ sendCv \in [Chans -> SUBSET Threads]
      BY <1>1 DEF TypeOK
    <2> QED BY <1>2, <2>1, <2>2
  <1>9. TypeOK' BY <1>1, <1>2, <1>3, <1>8 DEF TypeOK, ring
  <1>10. CallOK(a)'
    BY <1>1, <1>2, <1>3, <1>4, <1>5, <1>6, <1>7 DEF CallOK, Idle, Chan, Callers
  <1> QED BY <1>1, <1>2, <1>3, <1>4, <1>7, <1>9, <1>10, NothingToComeFor, QuietStep

(* A caller that leaves every wait set.                                    *)
LEMMA LeftTyped ==
  ASSUME TypeOK, NEW a \in Callers
  PROVE  /\ Left(recvCv, a) \in [Chans -> SUBSET Threads] /\ Left(sendCv, a) \in [Chans -> SUBSET Threads]
         /\ \A c \in Chans : Left(recvCv, a)[c] = recvCv[c] \ {a} /\ Left(sendCv, a)[c] = sendCv[c] \ {a}
  BY DEF TypeOK, Left

(* A bounded wait is over: the caller was asleep, so nobody counted on it. *)
LEMMA TimeOutInv ==
  ASSUME ChannelInv, NEW a \in Callers, TimeOut(a)
  PROVE  ChannelInv'
  <1>1. TypeOK /\ CallsInv /\ CallOK(a) BY DEF ChannelInv, CallsInv
  <1>2. /\ pc[a] = "asleep" /\ Waits(a) /\ Returns(a, Null) /\ UNCHANGED ring
        /\ recvCv' = Left(recvCv, a) /\ sendCv' = Left(sendCv, a)
    BY DEF TimeOut
  <1>3. a \in recvCv[Chan(a)] \cup sendCv[Chan(a)] BY <1>1, <1>2 DEF Waits, CallOK
  <1>4. \A c \in Chans : \A ops : a \notin Coming(c, ops) BY <1>2, <1>3 DEF Coming
  <1> QED BY <1>1, <1>2, <1>4, LeftTyped, ReturnsQuietly DEF Null

(* A wait that ends for no reason adds one who comes.                      *)
LEMMA SpuriousInv ==
  ASSUME ChannelInv, NEW a \in Callers, Spurious(a)
  PROVE  ChannelInv'
  <1>1. TypeOK /\ CallsInv /\ CallOK(a) BY DEF ChannelInv, CallsInv
  <1>2. /\ pc[a] = "asleep" /\ Waits(a) /\ UNCHANGED <<ring, pc, call, at, reply, sends>>
        /\ recvCv' = Left(recvCv, a) /\ sendCv' = Left(sendCv, a)
    BY DEF Spurious, Stays
  <1>3. \A c \in Chans : recvCv'[c] = recvCv[c] \ {a} /\ sendCv'[c] = sendCv[c] \ {a}
    BY <1>1, <1>2, LeftTyped
  <1>4. TypeOK' BY <1>1, <1>2, LeftTyped DEF TypeOK, ring
  <1>5. CallOK(a)' BY <1>1, <1>2, <1>3 DEF CallOK, Idle, Chan, Listed
  <1>6. \A c \in Chans : \A ops : a \in Coming(c, ops) => a \in Coming(c, ops)'
    BY <1>2, <1>3 DEF Coming, Chan
  <1> QED BY <1>2, <1>3, <1>4, <1>5, <1>6, QuietStep

(* Timeouts that calls are left with.                                      *)
LEMMA TimedSteps ==
  ASSUME NEW t \in Timed
  PROVE  t \in Int /\ AfterWake(t) \in Timed /\ RoundsLeft(t) \in Timed
  <1>1. t \in Int /\ 0 \in Timed BY DEF Timed
  <1>2. CASE t <= 0 BY <1>1, <1>2 DEF AfterWake, RoundsLeft
  <1>3. CASE t > 0
    <2>1. PICK u \in Timeouts : t \in 0 .. u BY <1>3 DEF Timed
    <2>2. t - 1 \in 0 .. u BY <1>3, <2>1
    <2>3. t - 1 \in Timed BY <2>2 DEF Timed
    <2> QED BY <1>1, <1>3, <2>3 DEF AfterWake, RoundsLeft
  <1> QED BY <1>1, <1>2, <1>3

(* A woken caller is back at the mutex, and still comes.                   *)
LEMMA AwakeInv ==
  ASSUME ChannelInv, NEW a \in Callers, Awake(a)
  PROVE  ChannelInv'
  <1>1. TypeOK /\ CallsInv /\ CallOK(a) BY DEF ChannelInv, CallsInv
  <1>2. /\ pc[a] = "asleep" /\ ~Waits(a) /\ Goto(a, "loop")
        /\ call' = [call EXCEPT ![a].timeout = AfterWake(call[a].timeout)]
        /\ UNCHANGED <<ring, recvCv, sendCv, at, reply, sends>>
    BY DEF Awake, cvs
  <1>3. call[a] \in AllCalls BY <1>1, <1>2 DEF CallOK, TypeOK
  <1>4. call[a].timeout \in Timed BY <1>3 DEF AllCalls
  <1>5. /\ call'[a] = [call[a] EXCEPT !.timeout = AfterWake(call[a].timeout)]
        /\ pc'[a] = "loop"
        /\ \A b \in Callers \ {a} : pc'[b] = pc[b] /\ call'[b] = call[b] /\ at'[b] = at[b]
    BY <1>1, <1>2 DEF TypeOK, Goto
  <1>6. call'[a] \in AllCalls /\ call'[a].op = call[a].op /\ call'[a].chans = call[a].chans
        /\ call'[a].val = call[a].val
    BY <1>3, <1>4, <1>5, TimedSteps DEF AllCalls
  <1>7. TypeOK'
    <2>1. call' \in [Callers -> AllCalls \cup {Idle}] BY <1>1, <1>2, <1>5, <1>6 DEF TypeOK
    <2>2. pc' \in [Callers -> Places] BY <1>1, <1>2 DEF TypeOK, Goto, Places
    <2> QED BY <1>1, <1>2, <2>1, <2>2 DEF TypeOK, ring
  <1>8. \A c \in Chans : a \notin recvCv[c] /\ a \notin sendCv[c] BY <1>2 DEF Waits
  <1>9. CallOK(a)'
    <2>1. call'[a].op \in {"send_blocking", "receive_blocking"} BY <1>1, <1>2, <1>6 DEF CallOK
    <2>2. call'[a] # Idle BY <2>1 DEF Idle
    <2> QED BY <1>1, <1>2, <1>5, <1>6, <1>8, <2>1, <2>2 DEF CallOK, Sending, Receiving
  <1>10. \A c \in Chans : \A ops : a \in Coming(c, ops) => a \in Coming(c, ops)'
    BY <1>5, <1>6 DEF Coming, Chan
  <1> QED BY <1>2, <1>5, <1>7, <1>8, <1>9, <1>10, QuietStep

-----------------------------------------------------------------------------
(* Selections.  They come for nothing, and wait only where nobody relies   *)
(* on being told.                                                          *)
LEMMA InSelection ==
  ASSUME TypeOK, CallsInv, NEW a \in Callers, pc[a] \in {"scan", "linger", "doze"}
  PROVE  /\ call[a].op = "select" /\ call[a].chans \in Lists /\ call[a] \in AllCalls
         /\ call[a].timeout \in Timed
         /\ Len(call[a].chans) \in Nat \ {0} /\ at[a] \in 1 .. Len(call[a].chans)
         /\ Listed(a) \in Chans /\ a \in Threads
         /\ \A c \in Chans : \A ops : a \notin Coming(c, ops)
         /\ \A c \in Chans : a \notin sendCv[c]
  <1>1. /\ call[a].op = "select" /\ call[a].chans \in Lists /\ at[a] \in 1 .. Len(call[a].chans)
        /\ a \notin Fibers /\ \A c \in Chans : a \notin sendCv[c]
    BY DEF CallsInv, CallOK
  <1>2. call[a] \in AllCalls BY <1>1 DEF TypeOK, Idle
  <1>3. call[a].timeout \in Timed BY <1>2 DEF AllCalls
  <1>4. call[a].chans \in Seq(Chans) /\ call[a].chans # <<>> BY <1>1
  <1>5. Len(call[a].chans) \in Nat \ {0} /\ call[a].chans[at[a]] \in Chans BY <1>1, <1>4
  <1>6. \A c \in Chans : \A ops : a \notin Coming(c, ops) BY DEF Coming
  <1> QED BY <1>1, <1>2, <1>3, <1>5, <1>6 DEF Listed, Callers

(* The end of a round, with the caller out of every wait set.              *)
LEMMA EndRoundInv ==
  ASSUME ChannelInv, NEW a \in Callers, pc[a] \in {"linger", "doze"}, EndRound(a),
         UNCHANGED <<ring, recvCv, sendCv>>, \A c \in Chans : a \notin recvCv[c]
  PROVE  ChannelInv'
  <1>1. TypeOK /\ CallsInv BY DEF ChannelInv
  <1>2. /\ call[a].op = "select" /\ call[a].chans \in Lists /\ call[a] \in AllCalls
        /\ call[a].timeout \in Timed /\ Len(call[a].chans) \in Nat \ {0} /\ a \in Threads
        /\ \A c \in Chans : \A ops : a \notin Coming(c, ops)
        /\ \A c \in Chans : a \notin sendCv[c]
    BY <1>1, InSelection
  <1>3. CASE LastRound(call[a].timeout)
    <2>1. Returns(a, -1) BY <1>3 DEF EndRound
    <2>2. recvCv' \in [Chans -> SUBSET Threads] /\ sendCv' \in [Chans -> SUBSET Threads]
      BY <1>1 DEF TypeOK
    <2>3. \A c \in Chans : recvCv'[c] \subseteq recvCv[c] \ {a} /\ sendCv'[c] \subseteq sendCv[c] \ {a}
      BY <1>2
    <2> QED BY <1>2, <2>1, <2>2, <2>3, ReturnsQuietly
  <1>4. CASE ~LastRound(call[a].timeout)
    <2>1. /\ call' = [call EXCEPT ![a].timeout = RoundsLeft(call[a].timeout)]
          /\ at' = [at EXCEPT ![a] = 1] /\ Goto(a, "scan") /\ UNCHANGED <<reply, sends>>
      BY <1>4 DEF EndRound, NextRound
    <2>2. /\ call'[a] = [call[a] EXCEPT !.timeout = RoundsLeft(call[a].timeout)]
          /\ pc'[a] = "scan" /\ at'[a] = 1
          /\ \A b \in Callers \ {a} : pc'[b] = pc[b] /\ call'[b] = call[b] /\ at'[b] = at[b]
      BY <1>1, <2>1 DEF TypeOK, Goto
    <2>3. call'[a] \in AllCalls /\ call'[a].op = "select" /\ call'[a].chans = call[a].chans
      BY <1>2, <2>2, TimedSteps DEF AllCalls
    <2>4. TypeOK'
      <3>1. call' \in [Callers -> AllCalls \cup {Idle}] BY <1>1, <2>1, <2>2, <2>3 DEF TypeOK
      <3>2. pc' \in [Callers -> Places] /\ at' \in [Callers -> Nat \ {0}]
        BY <1>1, <2>1 DEF TypeOK, Goto, Places
      <3> QED BY <1>1, <2>1, <3>1, <3>2 DEF TypeOK, ring
    <2>5. CallOK(a)'
      <3>1. call'[a] # Idle /\ a \notin Fibers BY <1>2, <2>3 DEF Idle
      <3> QED BY <1>2, <2>2, <2>3, <3>1 DEF CallOK, Sending
    <2> QED BY <1>2, <2>2, <2>4, <2>5, QuietStep
  <1> QED BY <1>3, <1>4

(* The first loop of a selection looks and leaves everything alone.        *)
LEMMA ScanInv ==
  ASSUME ChannelInv, NEW a \in Callers, Scan(a)
  PROVE  ChannelInv'
  <1>1. TypeOK /\ CallsInv /\ CallOK(a) BY DEF ChannelInv, CallsInv
  <1>2. /\ pc[a] = "scan" /\ UNCHANGED <<ring, recvCv, sendCv>> /\ UNCHANGED <<ring, cvs>>
        /\ \/ Returns(a, at[a]) \/ Returns(a, -1)
           \/ /\ at' = [at EXCEPT ![a] = IF LastListed(a) THEN 1 ELSE @ + 1]
              /\ Goto(a, IF LastListed(a) THEN "linger" ELSE "scan")
              /\ UNCHANGED <<call, reply, sends>>
    BY DEF Scan, cvs
  <1>3. /\ call[a].op = "select" /\ call[a].chans \in Lists /\ call[a] \in AllCalls
        /\ Len(call[a].chans) \in Nat \ {0} /\ at[a] \in 1 .. Len(call[a].chans)
        /\ \A c \in Chans : \A ops : a \notin Coming(c, ops)
    BY <1>1, <1>2, InSelection
  <1>4. CASE Returns(a, at[a]) \/ Returns(a, -1)
    BY <1>2, <1>3, <1>4, ReturnsInVain
  <1>5. CASE /\ at' = [at EXCEPT ![a] = IF LastListed(a) THEN 1 ELSE @ + 1]
             /\ Goto(a, IF LastListed(a) THEN "linger" ELSE "scan")
             /\ UNCHANGED <<call, reply, sends>>
    <2>1. /\ pc'[a] \in {"linger", "scan"} /\ call' = call
          /\ at'[a] = IF at[a] = Len(call[a].chans) THEN 1 ELSE at[a] + 1
          /\ \A b \in Callers \ {a} : pc'[b] = pc[b] /\ call'[b] = call[b] /\ at'[b] = at[b]
      BY <1>1, <1>5 DEF TypeOK, Goto, LastListed
    <2>2. at'[a] \in 1 .. Len(call[a].chans) BY <1>3, <2>1
    <2>3. TypeOK'
      <3>1. pc' \in [Callers -> Places] /\ at' \in [Callers -> Nat \ {0}]
        BY <1>1, <1>3, <1>5 DEF TypeOK, Goto, Places
      <3> QED BY <1>1, <1>2, <1>5, <3>1 DEF TypeOK, ring
    <2>4. CallOK(a)'
      <3>1. \A c \in Chans : a \notin recvCv'[c] /\ a \notin sendCv'[c]
        BY <1>1, <1>2, AwakeWaitsNowhere
      <3>2. a \notin Fibers /\ call[a] # Idle BY <1>1, <1>2 DEF CallOK
      <3> QED BY <1>3, <2>1, <2>2, <3>1, <3>2 DEF CallOK, Sending
    <2> QED BY <1>2, <1>3, <2>1, <2>3, <2>4, QuietStep
  <1> QED BY <1>2, <1>4, <1>5

(* The second one waits at a channel that it has seen empty.               *)
LEMMA LingerInv ==
  ASSUME ChannelInv, NEW a \in Callers, Linger(a)
  PROVE  ChannelInv'
  <1> DEFINE ch == Listed(a)
  <1>1. TypeOK /\ CallsInv /\ CallOK(a) BY DEF ChannelInv, CallsInv
  <1>2. /\ pc[a] = "linger" /\ UNCHANGED <<ring, sendCv>>
        /\ IF Empty(ch) THEN recvCv' = Join(recvCv, a, ch) /\ Goto(a, "doze") /\ Stays(a)
           ELSE EndRound(a) /\ UNCHANGED recvCv
    BY DEF Linger
  <1>3. \A c \in Chans : a \notin recvCv[c] /\ a \notin sendCv[c]
    BY <1>1, <1>2, AwakeWaitsNowhere
  <1>4. CASE ~Empty(ch) BY <1>2, <1>3, <1>4, EndRoundInv
  <1>5. CASE Empty(ch)
    <2>1. /\ call[a].op = "select" /\ call[a].chans \in Lists
          /\ at[a] \in 1 .. Len(call[a].chans) /\ ch \in Chans /\ a \in Threads
          /\ \A c \in Chans : \A ops : a \notin Coming(c, ops)
      BY <1>1, <1>2, InSelection
    <2>2. /\ pc' \in [Callers -> Places] /\ pc'[a] = "doze"
          /\ call'[a] = call[a] /\ at'[a] = at[a]
          /\ \A b \in Callers \ {a} : pc'[b] = pc[b] /\ call'[b] = call[b] /\ at'[b] = at[b]
          /\ UNCHANGED <<call, at, reply, sends>>
      BY <1>1, <1>2, <1>5, MovesTyped DEF Places, Stays
    <2>3. recvCv' = [recvCv EXCEPT ![ch] = @ \cup {a}] /\ sendCv' = sendCv
      BY <1>2, <1>5 DEF Join
    <2>4. \A c \in Chans :
             /\ recvCv'[c] \subseteq recvCv[c] \cup {a} /\ sendCv'[c] = sendCv[c]
             /\ a \in recvCv'[c] => c = ch
      BY <1>1, <1>3, <2>1, <2>3 DEF TypeOK
    <2>5. recvCv' \in [Chans -> SUBSET Threads]
      <3>1. recvCv[ch] \cup {a} \in SUBSET Threads BY <1>1, <2>1 DEF TypeOK
      <3>2. recvCv \in [Chans -> SUBSET Threads] BY <1>1 DEF TypeOK
      <3> QED BY <2>3, <3>1, <3>2
    <2>6. TypeOK' BY <1>1, <1>2, <2>2, <2>3, <2>5 DEF TypeOK, ring
    <2>7. CallOK(a)'
      BY <1>1, <1>2, <1>3, <2>1, <2>2, <2>4 DEF CallOK, Idle, Listed
    <2> QED BY <1>2, <1>3, <2>1, <2>2, <2>4, <2>6, <2>7, QuietStep
  <1> QED BY <1>4, <1>5

(* 100 ms are over.                                                        *)
LEMMA DozeEndsInv ==
  ASSUME ChannelInv, NEW a \in Callers, DozeEnds(a)
  PROVE  ChannelInv'
  <1>1. TypeOK /\ CallsInv /\ CallOK(a) BY DEF ChannelInv, CallsInv
  <1>2. /\ pc[a] = "doze" /\ recvCv' = Left(recvCv, a)
        /\ UNCHANGED <<ring, sendCv, pc, call, at, reply, sends>>
    BY DEF DozeEnds, Stays
  <1>3. \A c \in Chans : recvCv'[c] = recvCv[c] \ {a} /\ sendCv'[c] = sendCv[c]
    BY <1>1, <1>2, LeftTyped
  <1>4. TypeOK' BY <1>1, <1>2, LeftTyped DEF TypeOK, ring
  <1>5. CallOK(a)' BY <1>1, <1>2, <1>3 DEF CallOK, Idle, Chan, Listed
  <1>6. \A c \in Chans : \A ops : a \notin Coming(c, ops) BY <1>2 DEF Coming
  <1> QED BY <1>2, <1>3, <1>4, <1>5, <1>6, QuietStep

(* A selection looks after its wait, goes on or ends the round.            *)
LEMMA LookAgainInv ==
  ASSUME ChannelInv, NEW a \in Callers, LookAgain(a)
  PROVE  ChannelInv'
  <1>1. TypeOK /\ CallsInv /\ CallOK(a) BY DEF ChannelInv, CallsInv
  <1>2. /\ pc[a] = "doze" /\ ~Waits(a) /\ UNCHANGED <<ring, recvCv, sendCv>>
        /\ IF Empty(Listed(a)) /\ ~LastListed(a)
           THEN /\ at' = [at EXCEPT ![a] = @ + 1] /\ Goto(a, "linger")
                /\ UNCHANGED <<call, reply, sends>>
           ELSE EndRound(a)
    BY DEF LookAgain, cvs
  <1>3. \A c \in Chans : a \notin recvCv[c] /\ a \notin sendCv[c] BY <1>2 DEF Waits
  <1>4. CASE ~(Empty(Listed(a)) /\ ~LastListed(a)) BY <1>2, <1>3, <1>4, EndRoundInv
  <1>5. CASE Empty(Listed(a)) /\ ~LastListed(a)
    <2>1. /\ call[a].op = "select" /\ call[a].chans \in Lists /\ at[a] \in 1 .. Len(call[a].chans)
          /\ Len(call[a].chans) \in Nat \ {0}
          /\ \A c \in Chans : \A ops : a \notin Coming(c, ops)
      BY <1>1, <1>2, InSelection
    <2>2. /\ pc'[a] = "linger" /\ call' = call /\ at'[a] = at[a] + 1 /\ UNCHANGED <<reply, sends>>
          /\ \A b \in Callers \ {a} : pc'[b] = pc[b] /\ call'[b] = call[b] /\ at'[b] = at[b]
      BY <1>1, <1>2, <1>5 DEF TypeOK, Goto
    <2>3. at'[a] \in 1 .. Len(call[a].chans) BY <1>5, <2>1, <2>2 DEF LastListed
    <2>4. TypeOK'
      <3>1. pc' \in [Callers -> Places] BY <1>1, <1>2, <1>5 DEF TypeOK, Goto, Places
      <3>2. at[a] + 1 \in Nat \ {0} BY <2>1
      <3>3. at' \in [Callers -> Nat \ {0}] BY <1>1, <1>2, <1>5, <3>2 DEF TypeOK
      <3> QED BY <1>1, <1>2, <2>2, <3>1, <3>3 DEF TypeOK, ring
    <2>5. CallOK(a)'
      <3>1. a \notin Fibers /\ call[a] # Idle BY <1>1, <1>2 DEF CallOK
      <3> QED BY <1>2, <1>3, <2>1, <2>2, <2>3, <3>1 DEF CallOK, Sending
    <2> QED BY <1>2, <1>3, <2>1, <2>2, <2>4, <2>5, QuietStep
  <1> QED BY <1>4, <1>5

-----------------------------------------------------------------------------
(* An empty channel that nobody waits for.                                 *)
LEMMA InitInv == Init => ChannelInv
  <1> SUFFICES ASSUME Init PROVE ChannelInv OBVIOUS
  <1>1. TypeOK
    <2>1. 0 \in Slots /\ 0 \in 0 .. Capacity /\ sends \in 0 .. MaxSends BY DEF Slots, Init
    <2> QED BY <2>1 DEF Init, TypeOK, Null, Places
  <1>2. CallsInv BY DEF Init, CallsInv, CallOK, Idle, Sending, Receiving
  <1>3. RingInv
    <2> SUFFICES ASSUME NEW c \in Chans
                 PROVE  /\ tail[c] = (head[c] + size[c]) % Capacity
                        /\ \A i \in Slots : buffer[c][i] # Null <=> Offset(c, i) < size[c]
      BY DEF RingInv
    <2>1. head[c] = 0 /\ tail[c] = 0 /\ size[c] = 0 /\ 0 \in Slots BY DEF Init, Slots
    <2>2. (0 + 0) % Capacity = 0 BY <2>1, SlotSum
    <2>3. ASSUME NEW i \in Slots PROVE buffer[c][i] = Null /\ ~(Offset(c, i) < size[c])
      <3>1. Offset(c, i) = i BY <2>1, SlotDifference DEF Offset, Slots
      <3> QED BY <2>1, <3>1 DEF Init, Slots
    <2> QED BY <2>1, <2>2, <2>3
  <1>4. SendersAreOwed /\ ReceiversAreOwed BY DEF Init, SendersAreOwed, ReceiversAreOwed
  <1> QED BY <1>1, <1>2, <1>3, <1>4 DEF ChannelInv

(* Every step keeps the invariant.                                         *)
LEMMA NextInv == ChannelInv /\ [Next]_vars => ChannelInv'
  <1> SUFFICES ASSUME ChannelInv, [Next]_vars PROVE ChannelInv' OBVIOUS
  <1>1. CASE Next
    <2>1. PICK a \in Callers :
             \/ Begin(a) \/ Step(a)
             \/ BackFromFibers(a) \/ TimeOut(a) \/ DozeEnds(a) \/ Spurious(a)
      BY <1>1 DEF Next
    <2>2. CASE Begin(a) BY <2>2, BeginInv
    <2>3. CASE SendNow(a) BY <2>3, SendNowInv
    <2>4. CASE ReceiveNow(a) BY <2>4, ReceiveNowInv
    <2>5. CASE BlockingStep(a)
      BY <2>5, SendBlockingInv, ReceiveBlockingInv, GiveUpInv, RunFibersInv, SleepInv, AwakeInv
         DEF BlockingStep
    <2>6. CASE SelectStep(a) BY <2>6, ScanInv, LingerInv, LookAgainInv DEF SelectStep
    <2>7. CASE BackFromFibers(a) BY <2>7, BackFromFibersInv
    <2>8. CASE TimeOut(a) BY <2>8, TimeOutInv
    <2>9. CASE DozeEnds(a) BY <2>9, DozeEndsInv
    <2>10. CASE Spurious(a) BY <2>10, SpuriousInv
    <2> QED BY <2>1, <2>2, <2>3, <2>4, <2>5, <2>6, <2>7, <2>8, <2>9, <2>10 DEF Step
  <1>2. CASE UNCHANGED vars
    <2>1. UNCHANGED <<buffer, size, head, tail, recvCv, sendCv, pc, call, at, reply, sends>>
      BY <1>2 DEF vars, ring, cvs
    <2>2. TypeOK' /\ RingInv' BY <2>1 DEF ChannelInv, TypeOK, RingInv, Offset
    <2>3. CallsInv' BY <2>1 DEF ChannelInv, CallsInv, CallOK, Chan, Listed
    <2>4. SendersAreOwed' /\ (Lists = {} => ReceiversAreOwed')
      BY <2>1 DEF ChannelInv, SendersAreOwed, ReceiversAreOwed, Coming, Chan
    <2> QED BY <2>2, <2>3, <2>4 DEF ChannelInv
  <1> QED BY <1>1, <1>2

(* xt_channel_* keep the ring and the wait sets of every channel in order, *)
(* for any number of threads, fibers, channels, slots and timeouts.        *)
THEOREM ChannelInvariant == Spec => []ChannelInv
  BY InitInv, NextInv, PTL DEF Spec

(* The fields of XTChannel and the callers' places stay in their ranges.   *)
THEOREM TypeCorrect == Spec => []TypeOK
  <1>1. ChannelInv => TypeOK BY DEF ChannelInv
  <1> QED BY <1>1, ChannelInvariant, PTL

(* Exactly the slots from head up to tail hold a value: a slot that was    *)
(* emptied is cleared, and no send releases a value a receiver has.        *)
THEOREM RingCorrect == Spec => []RingInv
  <1>1. ChannelInv => RingInv BY DEF ChannelInv
  <1> QED BY <1>1, ChannelInvariant, PTL

(* One signal for each value taken is enough: no sender sleeps beside room *)
(* that nobody is on his way to fill, also with bounded waits that end,    *)
(* waits that end for no reason, and calls that do not wait.               *)
THEOREM SendersNotForgotten == Spec => []SendersAreOwed
  <1>1. ChannelInv => SendersAreOwed BY DEF ChannelInv
  <1> QED BY <1>1, ChannelInvariant, PTL

(* One signal for each value sent is enough for the receivers, as long as  *)
(* nobody selects; where somebody does it is not (OnlySelectionsLoseAWakeUp *)
(* says how it is lost).                                                   *)
THEOREM ReceiversNotForgotten ==
  ASSUME Lists = {}
  PROVE  Spec => []ReceiversAreOwed
  <1>1. ChannelInv => ReceiversAreOwed BY DEF ChannelInv
  <1> QED BY <1>1, ChannelInvariant, PTL

-----------------------------------------------------------------------------
(* The channels implement FifoChannel.  The queue of a channel is its ring *)
(* read from the head.                                                     *)
Queues == [c \in Chans |-> Queue(c)]

ReadFrom(h, n, b) == [i \in 1 .. n |-> b[(h + i - 1) % Capacity]]

LEMMA RingRead ==
  ASSUME NEW b \in [Slots -> Values \cup {Null}], NEW n \in 0 .. Capacity, NEW h \in Slots
  PROVE  /\ ReadFrom(h, n, b) \in Seq(Values \cup {Null})
         /\ Len(ReadFrom(h, n, b)) = n
         /\ ReadFrom(h, n, b) = <<>> <=> n = 0
  <1> DEFINE q == ReadFrom(h, n, b)
  <1>1. ASSUME NEW i \in 1 .. n PROVE b[(h + i - 1) % Capacity] \in Values \cup {Null}
    <2>1. h + i - 1 \in Int BY DEF Slots
    <2>2. (h + i - 1) % Capacity \in Slots BY <2>1, ModRange DEF Slots
    <2> QED BY <2>2
  <1>2. q \in [1 .. n -> Values \cup {Null}] BY <1>1 DEF ReadFrom
  <1> HIDE DEF q
  <1>3. q \in Seq(Values \cup {Null}) BY <1>2, SeqDef
  <1>4. Len(q) = n BY <1>2, <1>3, LenProperties
  <1>5. q = <<>> <=> n = 0 BY <1>3, <1>4, EmptySeq
  <1> QED BY <1>3, <1>4, <1>5 DEF q

LEMMA QueueIsSeq ==
  ASSUME TypeOK, NEW c \in Chans
  PROVE  /\ Queue(c) \in Seq(Values \cup {Null}) /\ Len(Queue(c)) = size[c]
         /\ size[c] \in 0 .. Capacity /\ head[c] \in Slots
         /\ Queue(c) = <<>> <=> Empty(c)
  <1>1. /\ size[c] \in 0 .. Capacity /\ head[c] \in Slots
        /\ buffer[c] \in [Slots -> Values \cup {Null}]
    BY DEF TypeOK
  <1>2. Queue(c) = ReadFrom(head[c], size[c], buffer[c]) BY DEF Queue, ReadFrom
  <1> QED BY <1>1, <1>2, RingRead DEF Empty

LEMMA NextQueueIsSeq ==
  ASSUME TypeOK', NEW c \in Chans
  PROVE  /\ Queue(c)' \in Seq(Values \cup {Null}) /\ Len(Queue(c)') = size'[c]
  <1>1. /\ size'[c] \in 0 .. Capacity /\ head'[c] \in Slots
        /\ buffer'[c] \in [Slots -> Values \cup {Null}]
    BY DEF TypeOK
  <1>2. Queue(c)' = ReadFrom(head'[c], size'[c], buffer'[c]) BY DEF Queue, ReadFrom
  <1> QED BY <1>1, <1>2, RingRead

LEMMA SlotItself == \A h \in Slots : h % Capacity = h
  <1> SUFFICES ASSUME NEW h \in Slots PROVE h % Capacity = h OBVIOUS
  <1>1. (h + 0) % Capacity = IF h + 0 < Capacity THEN h + 0 ELSE h + 0 - Capacity
    BY SlotSum
  <1>2. h + 0 = h /\ h < Capacity BY DEF Slots
  <1> QED BY <1>1, <1>2

(* A value put into the ring enters at the end.                            *)
LEMMA PutAppends ==
  ASSUME TypeOK, RingInv, TypeOK', RingInv', NEW ch \in Chans, NEW v \in Values, Put(ch, v), ~Full(ch)
  PROVE  Queues' = [Queues EXCEPT ![ch] = Append(@, v)]
  <1>1. /\ size[ch] \in 0 .. Capacity - 1 /\ head[ch] \in Slots /\ tail[ch] \in Slots
        /\ size' = [size EXCEPT ![ch] = @ + 1] /\ head' = head
        /\ buffer' = [buffer EXCEPT ![ch][tail[ch]] = v]
        /\ tail[ch] = (head[ch] + size[ch]) % Capacity
    BY DEF TypeOK, Put, Full, RingInv
  <1>2. /\ Queue(ch) \in Seq(Values \cup {Null}) /\ Len(Queue(ch)) = size[ch]
        /\ Queue(ch)' \in Seq(Values \cup {Null}) /\ Len(Queue(ch)') = size[ch] + 1
        /\ size'[ch] = size[ch] + 1
    <2>1. size'[ch] = size[ch] + 1 BY <1>1 DEF TypeOK
    <2>2. Queue(ch)' \in Seq(Values \cup {Null}) /\ Len(Queue(ch)') = size'[ch]
      BY NextQueueIsSeq
    <2> QED BY <2>1, <2>2, QueueIsSeq
  <1>3. /\ Append(Queue(ch), v) \in Seq(Values \cup {Null})
        /\ Len(Append(Queue(ch), v)) = size[ch] + 1
        /\ \A i \in 1 .. size[ch] : Append(Queue(ch), v)[i] = Queue(ch)[i]
        /\ Append(Queue(ch), v)[size[ch] + 1] = v
    BY <1>2, AppendProperties
  <1>4. ASSUME NEW i \in 1 .. size[ch] + 1 PROVE Queue(ch)'[i] = Append(Queue(ch), v)[i]
    <2>1. /\ head[ch] \in 0 .. Capacity - 1 /\ i \in Int /\ head[ch] + i - 1 \in Int
          /\ head[ch] + size[ch] \in Int /\ Capacity \in Nat \ {0}
      <3>1. size[ch] \in Int /\ head[ch] \in 0 .. Capacity - 1 BY <1>1 DEF Slots
      <3>2. i \in Int BY <3>1
      <3> QED BY <3>1, <3>2
    <2> DEFINE s == (head[ch] + i - 1) % Capacity
    <2>2. s \in Slots BY <2>1, ModRange DEF Slots
    <2>3. Queue(ch)'[i] = buffer'[ch][s] BY <1>1, <1>2 DEF Queue
    <2>4. CASE i = size[ch] + 1
      <3>1. head[ch] + i - 1 = head[ch] + size[ch] BY <1>1, <2>1, <2>4
      <3>2. s = tail[ch] BY <1>1, <3>1
      <3>3. buffer'[ch][tail[ch]] = v BY <1>1 DEF TypeOK
      <3> QED BY <1>3, <2>3, <2>4, <3>2, <3>3
    <2>5. CASE i # size[ch] + 1
      <3>1. i \in 1 .. size[ch] BY <1>1, <2>5
      <3>2. head[ch] + i - 1 < head[ch] + size[ch] BY <1>1, <2>1, <3>1
      <3>3. ~(head[ch] + i - 1 + Capacity <= head[ch] + size[ch]) BY <1>1, <2>1, <3>1
      <3>4. s # tail[ch] BY <1>1, <2>1, <3>2, <3>3, ModDistinct
      <3>5. buffer'[ch][s] = buffer[ch][s] BY <1>1, <2>2, <3>4 DEF TypeOK
      <3>6. Queue(ch)[i] = buffer[ch][s] BY <3>1 DEF Queue
      <3> QED BY <1>3, <2>3, <3>1, <3>5, <3>6
    <2> QED BY <2>4, <2>5
  <1>5. Queue(ch)' = Append(Queue(ch), v) BY <1>2, <1>3, <1>4, SeqEqual
  <1>6. ASSUME NEW c \in Chans, c # ch PROVE Queue(c)' = Queue(c)
    BY <1>1, <1>6 DEF Queue, TypeOK
  <1> QED BY <1>5, <1>6 DEF Queues

(* The value taken is the one in front.                                    *)
LEMMA TakeRemoves ==
  ASSUME TypeOK, RingInv, TypeOK', RingInv', NEW ch \in Chans, Take(ch), ~Empty(ch)
  PROVE  /\ Queues' = [Queues EXCEPT ![ch] = Tail(@)]
         /\ Head(Queue(ch)) = buffer[ch][head[ch]]
  <1>1. /\ size[ch] \in 1 .. Capacity /\ head[ch] \in Slots
        /\ size' = [size EXCEPT ![ch] = @ - 1]
        /\ head' = [head EXCEPT ![ch] = (head[ch] + 1) % Capacity]
        /\ buffer' = [buffer EXCEPT ![ch][head[ch]] = Null]
    BY DEF TypeOK, Take, Empty, Cleared
  <1>2. /\ Queue(ch) \in Seq(Values \cup {Null}) /\ Len(Queue(ch)) = size[ch]
        /\ Queue(ch) # <<>>
        /\ Queue(ch)' \in Seq(Values \cup {Null}) /\ Len(Queue(ch)') = size[ch] - 1
        /\ size'[ch] = size[ch] - 1 /\ head'[ch] = (head[ch] + 1) % Capacity
    <2>1. size'[ch] = size[ch] - 1 /\ head'[ch] = (head[ch] + 1) % Capacity BY <1>1 DEF TypeOK
    <2>2. Queue(ch)' \in Seq(Values \cup {Null}) /\ Len(Queue(ch)') = size'[ch]
      BY NextQueueIsSeq
    <2> QED BY <2>1, <2>2, QueueIsSeq
  <1>2a. head'[ch] \in Slots BY DEF TypeOK
  <1>3. /\ Tail(Queue(ch)) \in Seq(Values \cup {Null})
        /\ Len(Tail(Queue(ch))) = size[ch] - 1
        /\ \A i \in 1 .. size[ch] - 1 : Tail(Queue(ch))[i] = Queue(ch)[i + 1]
    BY <1>2, HeadTailProperties
  <1>4. ASSUME NEW i \in 1 .. size[ch] - 1 PROVE Queue(ch)'[i] = Tail(Queue(ch))[i]
    <2> DEFINE s == (head[ch] + (i + 1) - 1) % Capacity
    <2>1. /\ head[ch] \in 0 .. Capacity - 1 /\ i \in Int /\ head[ch] + (i + 1) - 1 \in Int
          /\ Capacity \in Nat \ {0}
      BY <1>1 DEF Slots
    <2>2. s \in Slots BY <2>1, ModRange DEF Slots
    <2>3. Queue(ch)'[i] = buffer'[ch][(head'[ch] + i - 1) % Capacity] BY <1>2 DEF Queue
    <2>4. (head'[ch] + i - 1) % Capacity = s
      <3>1. (((head[ch] + 1) % Capacity) + (i - 1)) % Capacity = ((head[ch] + 1) + (i - 1)) % Capacity
        BY <2>1, head[ch] + 1 \in Int, i - 1 \in Int, ModAdd
      <3>2. head'[ch] \in Int BY <1>2a DEF Slots
      <3>3. /\ (head[ch] + 1) + (i - 1) = head[ch] + (i + 1) - 1
            /\ head'[ch] + (i - 1) = head'[ch] + i - 1
        BY <2>1, <3>2
      <3> QED BY <1>2, <3>1, <3>3
    <2>5. s # head[ch]
      <3>1. head[ch] % Capacity = head[ch] BY <1>1, SlotItself
      <3>2. head[ch] < head[ch] + (i + 1) - 1 BY <1>1, <2>1
      <3>3. ~(head[ch] + Capacity <= head[ch] + (i + 1) - 1) BY <1>1, <2>1
      <3>4. head[ch] \in Int BY <2>1
      <3> QED BY ONLY Capacity \in Nat \ {0}, <2>1, <3>1, <3>2, <3>3, <3>4, ModDistinct
    <2>6. buffer'[ch][s] = buffer[ch][s] BY <1>1, <2>2, <2>5 DEF TypeOK
    <2>7. Queue(ch)[i + 1] = buffer[ch][s] BY <1>1 DEF Queue
    <2> QED BY <1>3, <2>3, <2>4, <2>6, <2>7
  <1>5. Queue(ch)' = Tail(Queue(ch)) BY <1>2, <1>3, <1>4, SeqEqual
  <1>6. ASSUME NEW c \in Chans, c # ch PROVE Queue(c)' = Queue(c)
    BY <1>1, <1>6 DEF Queue, TypeOK
  <1>7. Head(Queue(ch)) = buffer[ch][head[ch]]
    <2>1. Head(Queue(ch)) = Queue(ch)[1] BY <1>2
    <2>2. Queue(ch)[1] = buffer[ch][(head[ch] + 1 - 1) % Capacity] BY <1>1 DEF Queue
    <2>3. head[ch] + 1 - 1 = head[ch] /\ head[ch] % Capacity = head[ch]
      BY <1>1, SlotItself DEF Slots
    <2> QED BY <2>1, <2>2, <2>3
  <1> QED BY <1>5, <1>6, <1>7 DEF Queues
(* A call in progress is one for the specification too, and its answer is  *)
(* the answer there.                                                       *)
AbstractCalls == [a \in Callers |-> AbstractCall(a)]
InNoCall == [op |-> "none", chans |-> <<>>, val |-> Null, forever |-> FALSE]

LEMMA InCall ==
  ASSUME TypeOK, CallsInv, NEW a \in Callers, pc[a] # "idle"
  PROVE  /\ AbstractCall(a) # InNoCall /\ AbstractCalls[a] = AbstractCall(a)
         /\ AbstractCall(a).op = call[a].op /\ AbstractCall(a).chans = call[a].chans
         /\ AbstractCall(a).val = call[a].val
         /\ AbstractCall(a).forever = (call[a].timeout < 0)
         /\ call[a] \in AllCalls
  <1>1. call[a] \in AllCalls BY DEF TypeOK, CallsInv, CallOK
  <1>2. call[a].op # "none" BY <1>1 DEF AllCalls, Sending, Receiving
  <1> QED BY <1>1, <1>2 DEF AbstractCall, AbstractCalls, InNoCall

LEMMA IdleIsNoCall ==
  ASSUME NEW k, k = Idle
  PROVE  [op |-> k.op, chans |-> k.chans, val |-> k.val, forever |-> k.timeout < 0] = InNoCall
  <1>1. k.op = "none" /\ k.chans = <<>> /\ k.val = Null /\ k.timeout = 0 BY DEF Idle
  <1>2. (0 < 0) = FALSE OBVIOUS
  <1> QED BY <1>1, <1>2, Zenon DEF InNoCall

LEMMA AnswerGiven ==
  ASSUME TypeOK, NEW a \in Callers, NEW v, Returns(a, v)
  PROVE  Fifo!Answer(a, v)
  <1>1. call' = [call EXCEPT ![a] = Idle] /\ reply' = [reply EXCEPT ![a] = v]
        /\ call \in [Callers -> AllCalls \cup {Idle}]
    BY DEF Returns, TypeOK
  <1>2. ASSUME NEW b \in Callers
        PROVE  AbstractCall(b)' = IF b = a THEN InNoCall ELSE AbstractCall(b)
    <2>1. CASE b = a
      <3>1. call'[b] = Idle BY <1>1, <2>1
      <3> QED BY <2>1, <3>1, IdleIsNoCall DEF AbstractCall
    <2>2. CASE b # a
      <3>1. call'[b] = call[b] BY <1>1, <2>2
      <3> QED BY <2>2, <3>1 DEF AbstractCall
    <2> QED BY <2>1, <2>2
  <1>3. AbstractCalls' = [AbstractCalls EXCEPT ![a] = InNoCall]
    BY <1>2 DEF AbstractCalls
  <1> QED BY <1>1, <1>3 DEF Fifo!Answer, AbstractCalls, InNoCall

LEMMA SameQueues == UNCHANGED ring => UNCHANGED Queues
  BY DEF ring, Queues, Queue

(* What a step does for itself only.                                       *)
LEMMA Unseen ==
  ASSUME UNCHANGED ring, UNCHANGED reply, \A b \in Callers : AbstractCall(b)' = AbstractCall(b)
  PROVE  UNCHANGED Fifo!vars
  BY SameQueues DEF Fifo!vars, Queues

LEMMA BeginAsks ==
  ASSUME ChannelInv, NEW a \in Callers, Begin(a)
  PROVE  Fifo!Ask(a)
  <1>1. TypeOK /\ ChannelInv' BY BeginInv DEF ChannelInv
  <1>2. pc[a] = "idle" /\ call[a] = Idle BY DEF ChannelInv, CallsInv, CallOK, Begin
  <1>3. PICK new \in CallsOf(a) :
          /\ call' = [call EXCEPT ![a] = new]
          /\ Goto(a, IF new.op = "select" THEN "scan" ELSE "loop")
    BY DEF Begin
  <1>4. call'[a] = new /\ pc'[a] # "idle" BY <1>1, <1>3 DEF TypeOK, Goto
  <1>5. call'[a] \in AllCalls
    BY <1>1, <1>4 DEF ChannelInv, TypeOK, CallsInv, CallOK
  <1>6. \A b \in Callers \ {a} : AbstractCall(b)' = AbstractCall(b)
    BY <1>1, <1>3 DEF TypeOK, AbstractCall
  <1>7. AbstractCall(a) = InNoCall BY <1>2, IdleIsNoCall DEF AbstractCall
  <1>8. AbstractCall(a)' \in [op : Sending \cup Receiving \cup {"select"},
               chans : {<<c>> : c \in Chans} \cup Lists,
               val : Values \cup {Null}, forever : BOOLEAN]
    BY <1>5 DEF AllCalls, AbstractCall
  <1>9. AbstractCalls' = [AbstractCalls EXCEPT ![a] = AbstractCall(a)']
    BY <1>6 DEF AbstractCalls
  <1>10. UNCHANGED Queues /\ reply' = reply BY SameQueues DEF Begin, ring
  <1> QED BY <1>7, <1>8, <1>9, <1>10 DEF Fifo!Ask, AbstractCalls, InNoCall, Queues

(* A call whose channel is ready does its work there.                      *)
LEMMA PutPuts ==
  ASSUME ChannelInv, NEW a \in Callers, pc[a] \in {"loop", "rejoin"}, call[a].op \in Sending,
         Put(Chan(a), call[a].val), ~Full(Chan(a)), ChannelInv',
         Returns(a, IF call[a].op = "send" THEN Null ELSE 1)
  PROVE  Fifo!Put(a)
  <1>1. /\ TypeOK /\ RingInv /\ CallsInv /\ TypeOK' /\ RingInv' /\ Chan(a) \in Chans
        /\ call[a].val \in Values /\ call[a].chans = <<Chan(a)>>
    BY InLoop DEF ChannelInv, CallsInv, CallOK
  <1>2. Queues' = [Queues EXCEPT ![Chan(a)] = Append(@, call[a].val)] BY <1>1, PutAppends
  <1>3. Len(Queue(Chan(a))) < Capacity BY <1>1, QueueIsSeq DEF Full
  <1>4. Fifo!Answer(a, IF call[a].op = "send" THEN Null ELSE 1) BY <1>1, AnswerGiven
  <1>5. /\ AbstractCall(a) # InNoCall /\ AbstractCalls[a] = AbstractCall(a)
        /\ AbstractCall(a).op = call[a].op /\ AbstractCall(a).chans[1] = Chan(a)
        /\ AbstractCall(a).val = call[a].val
    BY <1>1, InCall DEF Chan
  <1> QED BY <1>1, <1>2, <1>3, <1>4, <1>5
          DEF Fifo!Put, Fifo!Sends, Fifo!Chan, AbstractCalls, InNoCall, Queues, Sending

LEMMA TakeTakes ==
  ASSUME ChannelInv, NEW a \in Callers, pc[a] \in {"loop", "rejoin"}, call[a].op \in Receiving,
         Take(Chan(a)), ~Empty(Chan(a)), ChannelInv',
         Returns(a, buffer[Chan(a)][head[Chan(a)]])
  PROVE  Fifo!Take(a)
  <1>1. /\ TypeOK /\ RingInv /\ CallsInv /\ TypeOK' /\ RingInv' /\ Chan(a) \in Chans
        /\ call[a].chans = <<Chan(a)>>
    BY InLoop DEF ChannelInv
  <1>2. /\ Queues' = [Queues EXCEPT ![Chan(a)] = Tail(@)]
        /\ Head(Queue(Chan(a))) = buffer[Chan(a)][head[Chan(a)]]
    BY <1>1, TakeRemoves
  <1>3. Queue(Chan(a)) # <<>> BY <1>1, QueueIsSeq
  <1>4. Fifo!Answer(a, Head(Queue(Chan(a)))) BY <1>1, <1>2, AnswerGiven
  <1>5. /\ AbstractCall(a) # InNoCall /\ AbstractCalls[a] = AbstractCall(a)
        /\ AbstractCall(a).op = call[a].op /\ AbstractCall(a).chans[1] = Chan(a)
    BY <1>1, InCall DEF Chan
  <1> QED BY <1>1, <1>2, <1>3, <1>4, <1>5
          DEF Fifo!Take, Fifo!Receives, Fifo!Chan, AbstractCalls, InNoCall, Queues, Receiving

(* A call that gives up has a bound, and has found nothing to do.          *)
LEMMA RefusesRightly ==
  ASSUME ChannelInv, NEW a \in Callers, pc[a] # "idle", UNCHANGED ring,
         call[a].timeout >= 0,
         call[a].op = "send" => Chan(a) \in Chans /\ Full(Chan(a)),
         call[a].op = "receive" => Chan(a) \in Chans /\ Empty(Chan(a)),
         Returns(a, IF call[a].op = "select" THEN -1 ELSE Null)
  PROVE  Fifo!Refuse(a)
  <1>1. TypeOK /\ CallsInv BY DEF ChannelInv
  <1>2. Fifo!Answer(a, IF call[a].op = "select" THEN -1 ELSE Null) BY <1>1, AnswerGiven
  <1>3. /\ AbstractCall(a) # InNoCall /\ AbstractCalls[a] = AbstractCall(a)
        /\ AbstractCall(a).op = call[a].op /\ AbstractCall(a).chans[1] = Chan(a)
        /\ AbstractCall(a).forever = (call[a].timeout < 0) /\ call[a] \in AllCalls
    BY <1>1, InCall DEF Chan
  <1>4. call[a].timeout \in Int
    BY <1>3, TimedSteps DEF AllCalls
  <1>5. /\ call[a].op = "send" => Len(Queue(Chan(a))) = Capacity
        /\ call[a].op = "receive" => Queue(Chan(a)) = <<>>
    BY <1>1, QueueIsSeq DEF Full
  <1>6. UNCHANGED Queues BY SameQueues
  <1>7. ~AbstractCall(a).forever
    <2>1. ~(call[a].timeout < 0) BY <1>4
    <2> QED BY <1>3, <2>1, Zenon
  <1>8. /\ AbstractCalls[a] # InNoCall /\ ~AbstractCalls[a].forever
        /\ AbstractCalls[a].op = "send" => Len(Queues[AbstractCalls[a].chans[1]]) = Capacity
        /\ AbstractCalls[a].op = "receive" => Queues[AbstractCalls[a].chans[1]] = <<>>
    BY <1>3, <1>5, <1>7 DEF Queues
  <1> QED BY <1>2, <1>3, <1>6, <1>8
          DEF Fifo!Refuse, Fifo!Chan, AbstractCalls, InNoCall, Queues
(* What a selection does: it names a channel that has a value.             *)
LEMMA ChoosesRightly ==
  ASSUME ChannelInv, NEW a \in Callers, pc[a] = "scan", ~Empty(Listed(a)), UNCHANGED ring,
         Returns(a, at[a])
  PROVE  Fifo!Choose(a)
  <1>1. TypeOK /\ CallsInv BY DEF ChannelInv
  <1>2. /\ call[a].op = "select" /\ at[a] \in DOMAIN call[a].chans /\ Listed(a) \in Chans
    <2>1. /\ call[a].op = "select" /\ call[a].chans \in Lists /\ at[a] \in 1 .. Len(call[a].chans)
      BY <1>1, InSelection
    <2>2. call[a].chans \in Seq(Chans) BY <2>1
    <2>3. DOMAIN call[a].chans = 1 .. Len(call[a].chans) BY <2>2, LenProperties
    <2>4. call[a].chans[at[a]] \in Chans BY <2>1, <2>2, ElementOfSeq
    <2> QED BY <2>1, <2>3, <2>4 DEF Listed
  <1>3. /\ AbstractCall(a) # InNoCall /\ AbstractCalls[a] = AbstractCall(a)
        /\ AbstractCall(a).op = call[a].op /\ AbstractCall(a).chans = call[a].chans
    BY <1>1, InCall
  <1>4. Queue(Listed(a)) # <<>> BY <1>1, <1>2, QueueIsSeq
  <1>5. Fifo!Answer(a, at[a]) BY <1>1, AnswerGiven
  <1>6. UNCHANGED Queues BY SameQueues
  <1>7. /\ AbstractCalls[a] # InNoCall /\ AbstractCalls[a].op = "select"
        /\ at[a] \in DOMAIN AbstractCalls[a].chans
        /\ Queues[AbstractCalls[a].chans[at[a]]] # <<>>
    BY <1>2, <1>3, <1>4 DEF Queues, Listed
  <1> QED BY <1>5, <1>6, <1>7 DEF Fifo!Choose, AbstractCalls, InNoCall, Queues

(* A call that only waits less long from now on is the same call.          *)
LEMMA SameCall ==
  ASSUME TypeOK, NEW a \in Callers, call[a] \in AllCalls, UNCHANGED ring, UNCHANGED reply,
         \/ UNCHANGED call
         \/ call' = [call EXCEPT ![a].timeout = AfterWake(@)]
         \/ call' = [call EXCEPT ![a].timeout = RoundsLeft(@)]
  PROVE  UNCHANGED Fifo!vars
  <1>1. CASE UNCHANGED call BY <1>1, Unseen DEF AbstractCall
  <1>2. ASSUME NEW t, t < 0 <=> call[a].timeout < 0, call' = [call EXCEPT ![a].timeout = t]
        PROVE  UNCHANGED Fifo!vars
    <2>1. /\ call'[a].op = call[a].op /\ call'[a].chans = call[a].chans
          /\ call'[a].val = call[a].val /\ call'[a].timeout = t
          /\ \A b \in Callers \ {a} : call'[b] = call[b]
      BY <1>2 DEF TypeOK, AllCalls
    <2>2. (call'[a].timeout < 0) = (call[a].timeout < 0) BY <1>2, <2>1
    <2>3. AbstractCall(a)' = AbstractCall(a) BY <2>1, <2>2, Zenon DEF AbstractCall
    <2>4. \A b \in Callers : AbstractCall(b)' = AbstractCall(b)
      BY <2>1, <2>3 DEF AbstractCall
    <2> QED BY <2>4, Unseen
  <1>3. call[a].timeout \in Int BY TimedSteps DEF AllCalls
  <1>4. /\ AfterWake(call[a].timeout) < 0 <=> call[a].timeout < 0
        /\ RoundsLeft(call[a].timeout) < 0 <=> call[a].timeout < 0
    BY <1>3 DEF AfterWake, RoundsLeft
  <1>5. CASE call' = [call EXCEPT ![a].timeout = AfterWake(@)]
    <2>1. call' = [call EXCEPT ![a].timeout = AfterWake(call[a].timeout)] BY <1>5 DEF TypeOK
    <2> QED BY <1>2, <1>4, <2>1
  <1>6. CASE call' = [call EXCEPT ![a].timeout = RoundsLeft(@)]
    <2>1. call' = [call EXCEPT ![a].timeout = RoundsLeft(call[a].timeout)] BY <1>6 DEF TypeOK
    <2> QED BY <1>2, <1>4, <2>1
  <1> QED BY <1>1, <1>5, <1>6

LEMMA EndRoundImplements ==
  ASSUME ChannelInv, NEW a \in Callers, pc[a] \in {"linger", "doze"}, EndRound(a), UNCHANGED ring
  PROVE  Fifo!Refuse(a) \/ UNCHANGED Fifo!vars
  <1>1. TypeOK /\ CallsInv /\ call[a].op = "select" /\ call[a] \in AllCalls
    BY InSelection DEF ChannelInv
  <1>2. CASE LastRound(call[a].timeout)
    BY <1>1, <1>2, RefusesRightly DEF EndRound, LastRound
  <1>3. CASE ~LastRound(call[a].timeout)
    BY <1>1, <1>3, SameCall DEF EndRound
  <1> QED BY <1>2, <1>3

LEMMA SelectImplements ==
  ASSUME ChannelInv, NEW a \in Callers, SelectStep(a)
  PROVE  Fifo!Choose(a) \/ Fifo!Refuse(a) \/ UNCHANGED Fifo!vars
  <1>1. TypeOK /\ CallsInv BY DEF ChannelInv
  <1>2. /\ pc[a] \in {"scan", "linger", "doze"} /\ UNCHANGED ring
    BY DEF SelectStep, Scan, Linger, LookAgain
  <1>3. call[a].op = "select" /\ call[a] \in AllCalls BY <1>1, <1>2, InSelection
  <1>4. CASE Scan(a)
    <2>1. pc[a] = "scan" BY <1>4 DEF Scan
    <2>2. CASE ~Empty(Listed(a)) BY <1>2, <1>4, <2>1, <2>2, ChoosesRightly DEF Scan
    <2>3. CASE Empty(Listed(a)) /\ LastListed(a) /\ call[a].timeout = 0
      BY <1>2, <1>3, <1>4, <2>1, <2>3, RefusesRightly DEF Scan
    <2>4. CASE Empty(Listed(a)) /\ ~(LastListed(a) /\ call[a].timeout = 0)
      BY <1>1, <1>2, <1>3, <1>4, <2>4, SameCall DEF Scan
    <2> QED BY <2>2, <2>3, <2>4
  <1>5. CASE Linger(a)
    <2>1. CASE Empty(Listed(a))
      BY <1>1, <1>2, <1>3, <1>5, <2>1, SameCall DEF Linger, Stays
    <2>2. CASE ~Empty(Listed(a))
      BY <1>2, <1>5, <2>2, EndRoundImplements DEF Linger
    <2> QED BY <2>1, <2>2
  <1>6. CASE LookAgain(a)
    <2>1. CASE Empty(Listed(a)) /\ ~LastListed(a)
      BY <1>1, <1>2, <1>3, <1>6, <2>1, SameCall DEF LookAgain
    <2>2. CASE ~(Empty(Listed(a)) /\ ~LastListed(a))
      BY <1>2, <1>6, <2>2, EndRoundImplements DEF LookAgain
    <2> QED BY <2>1, <2>2
  <1> QED BY <1>4, <1>5, <1>6 DEF SelectStep

LEMMA NowImplements ==
  ASSUME ChannelInv, NEW a \in Callers, SendNow(a) \/ ReceiveNow(a)
  PROVE  Fifo!Put(a) \/ Fifo!Take(a) \/ Fifo!Refuse(a)
  <1>1. /\ TypeOK /\ CallsInv /\ CallOK(a) /\ ChannelInv' /\ pc[a] = "loop"
        /\ Chan(a) \in Chans
    BY SendNowInv, ReceiveNowInv, InLoop DEF ChannelInv, CallsInv, SendNow, ReceiveNow
  <1>2. CASE SendNow(a)
    <2>1. call[a].op = "send" /\ call[a].timeout = 0 /\ Returns(a, Null)
      BY <1>1, <1>2 DEF CallOK, SendNow
    <2>2. CASE Full(Chan(a))
      BY <1>1, <1>2, <2>1, <2>2, RefusesRightly DEF SendNow
    <2>3. CASE ~Full(Chan(a))
      BY <1>1, <1>2, <2>1, <2>3, PutPuts DEF SendNow, Sending
    <2> QED BY <2>2, <2>3
  <1>3. CASE ReceiveNow(a)
    <2>1. call[a].op = "receive" /\ call[a].timeout = 0
      BY <1>1, <1>3 DEF CallOK, ReceiveNow
    <2>2. CASE Empty(Chan(a))
      BY <1>1, <1>3, <2>1, <2>2, RefusesRightly DEF ReceiveNow
    <2>3. CASE ~Empty(Chan(a))
      BY <1>1, <1>3, <2>1, <2>3, TakeTakes DEF ReceiveNow, Receiving
    <2> QED BY <2>2, <2>3
  <1> QED BY <1>2, <1>3

LEMMA BlockingImplements ==
  ASSUME ChannelInv, NEW a \in Callers, BlockingStep(a)
  PROVE  Fifo!Put(a) \/ Fifo!Take(a) \/ Fifo!Refuse(a) \/ UNCHANGED Fifo!vars
  <1>1. /\ TypeOK /\ CallsInv /\ ChannelInv'
        /\ pc[a] \in {"loop", "asleep", "sched", "rejoin"} /\ Chan(a) \in Chans
        /\ call[a] \in AllCalls
    <2>1. ChannelInv'
      BY SendBlockingInv, ReceiveBlockingInv, GiveUpInv, RunFibersInv, SleepInv, AwakeInv
         DEF BlockingStep
    <2>2. pc[a] \in {"loop", "asleep", "sched", "rejoin"}
      BY DEF BlockingStep, SendBlocking, ReceiveBlocking, GiveUp, RunFibers, Sleep, Awake
    <2> QED BY <2>1, <2>2, InLoop, InCall DEF ChannelInv
  <1>2. CASE SendBlocking(a)
    BY <1>1, <1>2, PutPuts DEF SendBlocking, Sending
  <1>3. CASE ReceiveBlocking(a)
    BY <1>1, <1>3, TakeTakes DEF ReceiveBlocking, Receiving
  <1>4. CASE GiveUp(a)
    <2>1. call[a].op \in {"send_blocking", "receive_blocking"} /\ call[a].timeout = 0
      BY <1>4 DEF GiveUp, MustWait, Blocked
    <2> QED BY <1>1, <1>4, <2>1, RefusesRightly DEF GiveUp
  <1>5. CASE RunFibers(a) \/ Sleep(a) \/ Awake(a)
    BY <1>1, <1>5, SameCall DEF RunFibers, Sleep, Awake, Stays
  <1> QED BY <1>2, <1>3, <1>4, <1>5 DEF BlockingStep

LEMMA OthersImplement ==
  ASSUME ChannelInv, NEW a \in Callers,
         BackFromFibers(a) \/ TimeOut(a) \/ DozeEnds(a) \/ Spurious(a)
  PROVE  Fifo!Refuse(a) \/ UNCHANGED Fifo!vars
  <1>1. /\ TypeOK /\ CallsInv /\ CallOK(a) /\ pc[a] # "idle" /\ UNCHANGED ring
    BY DEF ChannelInv, CallsInv, BackFromFibers, TimeOut, DozeEnds, Spurious
  <1>2. call[a] \in AllCalls BY <1>1, InCall
  <1>3. CASE TimeOut(a)
    <2>1. call[a].op \in {"send_blocking", "receive_blocking"} /\ call[a].timeout > 0
      BY <1>1, <1>3 DEF CallOK, TimeOut
    <2>2. call[a].timeout \in Int BY <1>2, TimedSteps DEF AllCalls
    <2> QED BY <1>1, <1>3, <2>1, <2>2, RefusesRightly DEF TimeOut
  <1>4. CASE BackFromFibers(a) \/ DozeEnds(a) \/ Spurious(a)
    BY <1>1, <1>2, <1>4, SameCall DEF BackFromFibers, DozeEnds, Spurious, Stays
  <1> QED BY <1>3, <1>4

(* Every step of the channels maps to a step of FifoChannel or to none.    *)
LEMMA StepImplements == ChannelInv /\ [Next]_vars => [Fifo!Next]_(Fifo!vars)
  <1> SUFFICES ASSUME ChannelInv, [Next]_vars PROVE [Fifo!Next]_(Fifo!vars) OBVIOUS
  <1>1. CASE Next
    <2>1. PICK a \in Callers :
             \/ Begin(a) \/ Step(a)
             \/ BackFromFibers(a) \/ TimeOut(a) \/ DozeEnds(a) \/ Spurious(a)
      BY <1>1 DEF Next
    <2>2. \/ Fifo!Ask(a) \/ Fifo!Put(a) \/ Fifo!Take(a) \/ Fifo!Choose(a) \/ Fifo!Refuse(a)
          \/ UNCHANGED Fifo!vars
      BY <2>1, BeginAsks, NowImplements, BlockingImplements, SelectImplements, OthersImplement
         DEF Step
    <2> QED BY <2>2 DEF Fifo!Next
  <1>2. CASE UNCHANGED vars
    <2>1. UNCHANGED Fifo!vars BY <1>2, Unseen DEF vars, AbstractCall
    <2> QED BY <2>1
  <1> QED BY <1>1, <1>2

(* An empty ring is an empty queue.                                        *)
LEMMA InitImplements == Init => Fifo!Init
  <1> SUFFICES ASSUME Init PROVE Fifo!Init OBVIOUS
  <1>1. Queues = [c \in Chans |-> <<>>]
    <2>1. \A c \in Chans : Queue(c) = <<>>
      BY InitInv, QueueIsSeq DEF ChannelInv, Init, Empty
    <2> QED BY <2>1 DEF Queues
  <1>2. AbstractCalls = [a \in Callers |-> InNoCall]
    <2>1. \A a \in Callers : AbstractCall(a) = InNoCall
      BY IdleIsNoCall DEF Init, AbstractCall
    <2> QED BY <2>1 DEF AbstractCalls
  <1> QED BY <1>1, <1>2 DEF Init, Fifo!Init, AbstractCalls, Queues, InNoCall

(* The channels implement FifoChannel: values leave in the order in which  *)
(* they entered, each to one receiver; a call answers by what it found;    *)
(* one that may wait for ever never gives up (the calls of XTChannel).     *)
THEOREM ChannelsAreQueues == Spec => ImplementsFifo
  <1> QED BY InitImplements, StepImplements, ChannelInvariant, PTL
       DEF Spec, ImplementsFifo, Fifo!Spec

-----------------------------------------------------------------------------
(* Where selections wait too, a wake-up is lost only by a selection that   *)
(* was woken and goes off.  Those that will look: the receivers on their   *)
(* way, and the selections that were woken.                                *)
Lookers(c) == Coming(c, Receiving) \cup WokenSelections(c)

LEMMA LookersCounted ==
  ASSUME NEW c \in Chans
  PROVE  /\ IsFiniteSet(Lookers(c)) /\ IsFiniteSet(Lookers(c)')
         /\ Cardinality(Lookers(c))
              = Cardinality(Coming(c, Receiving)) + Cardinality(WokenSelections(c))
         /\ Cardinality(Lookers(c)')
              = Cardinality(Coming(c, Receiving)') + Cardinality(WokenSelections(c)')
  <1>1. /\ IsFiniteSet(Coming(c, Receiving)) /\ IsFiniteSet(WokenSelections(c))
        /\ IsFiniteSet(Coming(c, Receiving)') /\ IsFiniteSet(WokenSelections(c)')
    BY FiniteCallers, FS_Subset DEF Coming, WokenSelections
  <1>2. /\ Coming(c, Receiving) \cap WokenSelections(c) = {}
        /\ Coming(c, Receiving)' \cap WokenSelections(c)' = {}
    BY DEF Coming, WokenSelections
  <1>3. ASSUME NEW S, NEW T, IsFiniteSet(S), IsFiniteSet(T), S \cap T = {}
        PROVE  IsFiniteSet(S \cup T) /\ Cardinality(S \cup T) = Cardinality(S) + Cardinality(T)
    <2>1. Cardinality(S \cap T) = 0 BY <1>3, FS_EmptySet
    <2>2. Cardinality(S) \in Nat /\ Cardinality(T) \in Nat BY <1>3, FS_CardinalityType
    <2>3. /\ IsFiniteSet(S \cup T)
          /\ Cardinality(S \cup T) = Cardinality(S) + Cardinality(T) - Cardinality(S \cap T)
      BY ONLY <1>3, FS_Union
    <2> QED BY ONLY <2>1, <2>2, <2>3
  <1> QED BY <1>1, <1>2, <1>3 DEF Lookers

(* What one caller's step does to the others: nothing, but for a wake-up.  *)
Alone(a) ==
  /\ \A b \in Callers \ {a} : pc'[b] = pc[b] /\ call'[b] = call[b] /\ at'[b] = at[b]
  /\ \A c \in Chans : recvCv'[c] \subseteq recvCv[c] \cup {a} /\ sendCv'[c] \subseteq sendCv[c] \cup {a}

(* A step that puts nothing into c, and in which nobody goes to sleep or   *)
(* turns away beside a value, unless it is a woken selection ...           *)
QuietAt(a, c) ==
  /\ size'[c] = size[c]
  /\ a \in recvCv'[c] /\ a \notin recvCv[c] => size[c] = 0
  /\ a \in Lookers(c) =>
        a \in Lookers(c)' \/ size[c] = 0 \/ (a \in WokenSelections(c) /\ pc'[a] # "doze")

(* ... one that puts a value in and wakes a sleeper, who will look ...     *)
PutAt(a, c) ==
  /\ size'[c] = size[c] + 1 /\ a \notin Lookers(c) /\ a \notin recvCv[c] /\ sendCv' = sendCv
  /\ recvCv[c] = {} => recvCv'[c] = {}
  /\ recvCv[c] # {} => \E b \in recvCv[c] : recvCv'[c] = recvCv[c] \ {b}

(* ... and one that takes one out, by somebody who was to look.            *)
TakenAt(a, c) == size'[c] = size[c] - 1 /\ recvCv'[c] = recvCv[c]

LEMMA OwedKept ==
  ASSUME ChannelInv, NEW a \in Callers, Alone(a), NEW c \in Chans,
         QuietAt(a, c) \/ PutAt(a, c) \/ TakenAt(a, c),
         OwedBySomeone(c), \A b \in WokenSelections(c) : pc'[b] = "doze"
  PROVE  OwedBySomeone(c)'
  <1>1. /\ TypeOK /\ CallsInv /\ size[c] \in 0 .. Capacity
        /\ IsFiniteSet(Lookers(c)) /\ IsFiniteSet(Lookers(c)')
        /\ Cardinality(Lookers(c)) \in Nat /\ Cardinality(Lookers(c)') \in Nat
        /\ recvCv[c] # {} => size[c] <= Cardinality(Lookers(c))
    BY LookersCounted, FS_CardinalityType DEF ChannelInv, TypeOK, OwedBySomeone
  <1>2. Lookers(c) \ {a} \subseteq Lookers(c)'
    BY DEF Alone, Lookers, Coming, WokenSelections, Chan, Listed
  <1>3. SUFFICES ASSUME recvCv'[c] # {} PROVE size'[c] <= Cardinality(Lookers(c)')
    BY LookersCounted DEF OwedBySomeone
  <1>4. CASE QuietAt(a, c)
    <2>1. CASE size[c] = 0 BY <1>1, <1>4, <2>1 DEF QuietAt
    <2>2. CASE size[c] # 0
      <3>1. recvCv[c] # {} BY <1>3, <1>4, <2>2 DEF QuietAt, Alone
      <3>2. Lookers(c) \subseteq Lookers(c)' BY <1>2, <1>4, <2>2 DEF QuietAt
      <3>3. Cardinality(Lookers(c)) <= Cardinality(Lookers(c)') BY <1>1, <3>2, MoreMembers
      <3> QED BY <1>1, <1>4, <3>1, <3>3 DEF QuietAt
    <2> QED BY <2>1, <2>2
  <1>5. CASE PutAt(a, c)
    <2>1. PICK b \in recvCv[c] : recvCv'[c] = recvCv[c] \ {b} BY <1>3, <1>5 DEF PutAt
    <2>2. b \in Callers /\ CallOK(b) BY <1>1, <2>1 DEF TypeOK, CallsInv, Callers
    <2>3. b \notin Lookers(c) BY <2>1, <2>2 DEF Lookers, Coming, WokenSelections, CallOK
    <2>4. b \in Lookers(c)'
      <3>1. b # a BY <1>5, <2>1 DEF PutAt
      <3>2. CASE b # a
        <4>1. /\ pc'[b] = pc[b] /\ call'[b] = call[b] /\ at'[b] = at[b] /\ b \notin recvCv'[c]
              /\ sendCv'[c] = sendCv[c]
          BY <1>5, <2>1, <2>2, <3>2 DEF Alone, PutAt
        <4>2. CASE pc[b] = "asleep" /\ call[b].op = "receive_blocking" /\ Chan(b) = c
          <5>1. b \notin sendCv'[c] BY <2>2, <4>1, <4>2 DEF CallOK
          <5> QED BY <2>2, <4>1, <4>2, <5>1 DEF Lookers, Coming, Chan, Receiving
        <4>3. CASE pc[b] = "doze" /\ Listed(b) = c
          BY <2>2, <4>1, <4>3 DEF Lookers, WokenSelections, Listed
        <4> QED BY <2>1, <2>2, <4>2, <4>3 DEF CallOK
      <3> QED BY <3>1, <3>2
    <2>5. Lookers(c) \subseteq Lookers(c)' BY <1>2, <1>5 DEF PutAt
    <2>6. Cardinality(Lookers(c)) + 1 <= Cardinality(Lookers(c)')
      BY <1>1, <2>3, <2>4, <2>5, OneMoreMember
    <2> QED BY <1>1, <1>5, <2>1, <2>6 DEF PutAt
  <1>6. CASE TakenAt(a, c)
    <2>1. Cardinality(Lookers(c)) - 1 <= Cardinality(Lookers(c)')
      BY <1>1, <1>2, OneLessMember
    <2> QED BY <1>1, <1>3, <1>6, <2>1 DEF TakenAt
  <1> QED BY <1>4, <1>5, <1>6

Seen(a) == Alone(a) /\ \A c \in Chans : QuietAt(a, c) \/ PutAt(a, c) \/ TakenAt(a, c)

(* Nobody is about to look who is neither at the mutex nor on his way out  *)
(* of a wait.                                                              *)
LEMMA LooksFrom ==
  ASSUME NEW a \in Callers, NEW c \in Chans, a \in Lookers(c)
  PROVE  \/ pc[a] = "loop" /\ a \in Coming(c, Receiving)
         \/ pc[a] = "asleep" /\ a \in Coming(c, Receiving) /\ a \notin recvCv[c] \cup sendCv[c]
         \/ pc[a] = "doze" /\ a \in WokenSelections(c)
  BY DEF Lookers, Coming, WokenSelections

(* A step that touches neither the channels nor their wait sets.           *)
LEMMA StaysQuiet ==
  ASSUME NEW a \in Callers, UNCHANGED <<ring, cvs>>,
         \A b \in Callers \ {a} : pc'[b] = pc[b] /\ call'[b] = call[b] /\ at'[b] = at[b],
         \A c \in Chans : a \in Lookers(c) =>
            a \in Lookers(c)' \/ size[c] = 0 \/ (a \in WokenSelections(c) /\ pc'[a] # "doze")
  PROVE  Seen(a)
  BY DEF Seen, Alone, QuietAt, ring, cvs

(* The same, of a call that returns.                                       *)
LEMMA ReturnsSeen ==
  ASSUME ChannelInv, NEW a \in Callers, NEW v \in Int, Returns(a, v), UNCHANGED <<ring, cvs>>,
         \A c \in Chans : a \in Coming(c, Receiving) => size[c] = 0
  PROVE  Seen(a)
  <1>1. /\ pc'[a] = "idle"
        /\ \A b \in Callers \ {a} : pc'[b] = pc[b] /\ call'[b] = call[b] /\ at'[b] = at[b]
    BY ReturnsTyped DEF ChannelInv
  <1>2. ASSUME NEW c \in Chans, a \in Lookers(c)
        PROVE  size[c] = 0 \/ (a \in WokenSelections(c) /\ pc'[a] # "doze")
    BY <1>1, <1>2 DEF Lookers
  <1> QED BY <1>1, <1>2, StaysQuiet

(* A value is put by a caller that waits nowhere and looks for none.       *)
LEMMA PutSeen ==
  ASSUME ChannelInv, NEW a \in Callers, NEW v \in Int, Returns(a, v),
         pc[a] \in {"loop", "rejoin"}, call[a].op \in Sending, NEW w,
         Chan(a) \in Chans, Put(Chan(a), w)
  PROVE  Seen(a)
  <1> DEFINE ch == Chan(a)
  <1>1. TypeOK /\ CallsInv BY DEF ChannelInv
  <1>2. \A b \in Callers \ {a} : pc'[b] = pc[b] /\ call'[b] = call[b] /\ at'[b] = at[b]
    BY <1>1, ReturnsTyped
  <1>3. /\ size'[ch] = size[ch] + 1 /\ sendCv' = sendCv
        /\ \A c \in Chans \ {ch} : size'[c] = size[c]
    BY <1>1 DEF TypeOK, Put
  <1>4. \/ recvCv' = recvCv /\ recvCv[ch] = {}
        \/ \E b \in recvCv[ch] : recvCv' = [recvCv EXCEPT ![ch] = recvCv[ch] \ {b}]
    BY DEF Put, WakeReceiver, Signal
  <1>5. /\ recvCv[ch] = {} => recvCv'[ch] = {}
        /\ recvCv[ch] # {} => \E b \in recvCv[ch] : recvCv'[ch] = recvCv[ch] \ {b}
        /\ \A c \in Chans \ {ch} : recvCv'[c] = recvCv[c]
        /\ \A c \in Chans : recvCv'[c] \subseteq recvCv[c]
    BY <1>1, <1>4 DEF TypeOK
  <1>6. \A c \in Chans : a \notin recvCv[c] BY <1>1, AwakeWaitsNowhere
  <1>7. \A c \in Chans : a \notin Lookers(c)
    BY DEF Lookers, Coming, WokenSelections, Sending, Receiving
  <1>8. Alone(a) BY <1>2, <1>3, <1>5 DEF Alone
  <1>9. PutAt(a, ch) BY <1>3, <1>5, <1>6, <1>7 DEF PutAt
  <1>10. \A c \in Chans \ {ch} : QuietAt(a, c) BY <1>3, <1>5, <1>7 DEF QuietAt
  <1> QED BY <1>8, <1>9, <1>10 DEF Seen

(* And taken by one that was to look into that channel alone.              *)
LEMMA TakeSeen ==
  ASSUME ChannelInv, NEW a \in Callers, NEW v \in Int, Returns(a, v),
         pc[a] \in {"loop", "rejoin"}, Chan(a) \in Chans, Take(Chan(a))
  PROVE  Seen(a)
  <1> DEFINE ch == Chan(a)
  <1>1. TypeOK /\ CallsInv BY DEF ChannelInv
  <1>2. \A b \in Callers \ {a} : pc'[b] = pc[b] /\ call'[b] = call[b] /\ at'[b] = at[b]
    BY <1>1, ReturnsTyped
  <1>3. /\ size'[ch] = size[ch] - 1 /\ recvCv' = recvCv
        /\ \A c \in Chans \ {ch} : size'[c] = size[c]
    BY <1>1 DEF TypeOK, Take
  <1>4. \A c \in Chans : sendCv'[c] \subseteq sendCv[c]
    <2>1. sendCv' = sendCv \/ \E b \in sendCv[ch] : sendCv' = [sendCv EXCEPT ![ch] = sendCv[ch] \ {b}]
      BY DEF Take, WakeSender, Signal
    <2> QED BY <1>1, <2>1 DEF TypeOK
  <1>5. \A c \in Chans \ {ch} : a \notin Lookers(c)
    BY DEF Lookers, Coming, WokenSelections
  <1>6. Alone(a) BY <1>2, <1>3, <1>4 DEF Alone
  <1>7. TakenAt(a, ch) BY <1>3 DEF TakenAt
  <1>8. \A c \in Chans \ {ch} : QuietAt(a, c) BY <1>3, <1>5 DEF QuietAt
  <1> QED BY <1>6, <1>7, <1>8 DEF Seen

(* The calls that do not wait, and those that have what they came for.     *)
LEMMA NowSeen ==
  ASSUME ChannelInv, NEW a \in Callers,
         SendNow(a) \/ ReceiveNow(a) \/ SendBlocking(a) \/ ReceiveBlocking(a)
  PROVE  Seen(a)
  <1>1. /\ TypeOK /\ CallsInv /\ pc[a] \in {"loop", "rejoin"} /\ Null \in Int /\ 1 \in Int
    BY DEF ChannelInv, SendNow, ReceiveNow, SendBlocking, ReceiveBlocking, Null
  <1>2. /\ Chan(a) \in Chans /\ buffer[Chan(a)][head[Chan(a)]] \in Int
        /\ \A c \in Chans : \A ops : a \in Coming(c, ops) => c = Chan(a) /\ call[a].op \in ops
    BY <1>1, InLoop, HeadIsInt
  <1>3. CASE SendNow(a)
    <2>1. CASE Full(Chan(a))
      BY <1>1, <1>2, <1>3, <2>1, ReturnsSeen DEF SendNow, Receiving
    <2>2. CASE ~Full(Chan(a)) BY <1>1, <1>2, <1>3, <2>2, PutSeen DEF SendNow, Sending
    <2> QED BY <2>1, <2>2
  <1>4. CASE ReceiveNow(a)
    <2>1. CASE Empty(Chan(a)) BY <1>1, <1>2, <1>4, <2>1, ReturnsSeen DEF ReceiveNow, Empty
    <2>2. CASE ~Empty(Chan(a)) BY <1>1, <1>2, <1>4, <2>2, TakeSeen DEF ReceiveNow
    <2> QED BY <2>1, <2>2
  <1>5. CASE SendBlocking(a) BY <1>1, <1>2, <1>5, PutSeen DEF SendBlocking, Sending
  <1>6. CASE ReceiveBlocking(a) BY <1>1, <1>2, <1>6, TakeSeen DEF ReceiveBlocking
  <1> QED BY <1>3, <1>4, <1>5, <1>6

(* The steps of a blocking call that go for the mutex, the fibers or home. *)
LEMMA MovesSeen ==
  ASSUME ChannelInv, NEW a \in Callers,
         GiveUp(a) \/ RunFibers(a) \/ BackFromFibers(a) \/ Begin(a) \/ Awake(a)
  PROVE  Seen(a)
  <1>1. TypeOK /\ CallsInv /\ Null \in Int BY DEF ChannelInv, Null
  <1>2. CASE GiveUp(a)
    BY <1>1, <1>2, NothingToComeFor, ReturnsSeen DEF GiveUp
  <1>3. CASE RunFibers(a)
    <2>1. \A c \in Chans : a \in Lookers(c) => size[c] = 0
      BY <1>1, <1>3, NothingToComeFor, LooksFrom DEF RunFibers
    <2> QED BY <1>1, <1>3, <2>1, MovesTyped, StaysQuiet DEF RunFibers, Stays, Places
  <1>4. CASE BackFromFibers(a)
    <2>1. \A c \in Chans : a \notin Lookers(c) BY <1>4, LooksFrom DEF BackFromFibers
    <2> QED BY <1>1, <1>4, <2>1, MovesTyped, StaysQuiet DEF BackFromFibers, Stays, Places
  <1>5. CASE Begin(a)
    <2>1. \A c \in Chans : a \notin Lookers(c) BY <1>5, LooksFrom DEF Begin
    <2>2. \A b \in Callers \ {a} : pc'[b] = pc[b] /\ call'[b] = call[b] /\ at'[b] = at[b]
      BY <1>1, <1>5 DEF TypeOK, Begin, Goto
    <2> QED BY <1>5, <2>1, <2>2, StaysQuiet DEF Begin
  <1>6. CASE Awake(a)
    <2>1. /\ pc[a] = "asleep" /\ UNCHANGED <<ring, cvs>> /\ pc'[a] = "loop"
          /\ call'[a].op = call[a].op /\ call'[a].chans = call[a].chans
          /\ \A b \in Callers \ {a} : pc'[b] = pc[b] /\ call'[b] = call[b] /\ at'[b] = at[b]
      BY <1>1, <1>6 DEF TypeOK, CallsInv, CallOK, Awake, Goto, AllCalls, Idle
    <2>2. ASSUME NEW c \in Chans, a \in Lookers(c) PROVE a \in Lookers(c)'
      <3>1. a \in Coming(c, Receiving) BY <2>1, <2>2, LooksFrom
      <3> QED BY <2>1, <3>1 DEF Lookers, Coming, Chan
    <2> QED BY <2>1, <2>2, StaysQuiet
  <1> QED BY <1>2, <1>3, <1>4, <1>5, <1>6

(* Waits begin where there is nothing, and end by adding one who looks.    *)
LEMMA WaitsSeen ==
  ASSUME ChannelInv, NEW a \in Callers,
         Sleep(a) \/ TimeOut(a) \/ Spurious(a) \/ DozeEnds(a)
  PROVE  Seen(a)
  <1>1. TypeOK /\ CallsInv /\ CallOK(a) /\ UNCHANGED size /\ Null \in Int
    BY DEF ChannelInv, CallsInv, ring, Null, Sleep, TimeOut, Spurious, DozeEnds
  <1>2. CASE Sleep(a)
    <2> DEFINE ch == Chan(a)
    <2>1. /\ pc[a] \in {"loop", "rejoin"} /\ MustWait(a) /\ Goto(a, "asleep")
          /\ UNCHANGED <<ring, call, at, reply, sends>>
          /\ IF call[a].op = "send_blocking"
             THEN sendCv' = [sendCv EXCEPT ![ch] = @ \cup {a}] /\ recvCv' = recvCv
             ELSE recvCv' = [recvCv EXCEPT ![ch] = @ \cup {a}] /\ sendCv' = sendCv
      BY <1>2 DEF Sleep, Stays, Join
    <2>2. \A b \in Callers \ {a} : pc'[b] = pc[b] /\ call'[b] = call[b] /\ at'[b] = at[b]
      BY <1>1, <2>1, MovesTyped DEF Places
    <2>3. \A c \in Chans : a \in Lookers(c) => size[c] = 0
      BY <1>1, <2>1, NothingToComeFor, LooksFrom
    <2>4. call[a].op # "send_blocking" => size[ch] = 0 BY <1>1, <2>1, NothingToComeFor
    <2>5. ch \in Chans BY <1>1, <2>1, InLoop
    <2>6. \A c \in Chans :
             /\ recvCv'[c] \subseteq recvCv[c] \cup {a} /\ sendCv'[c] \subseteq sendCv[c] \cup {a}
             /\ a \in recvCv'[c] /\ a \notin recvCv[c] => size[c] = 0
      BY <1>1, <2>1, <2>4, <2>5 DEF TypeOK
    <2> QED BY <1>1, <2>2, <2>3, <2>6 DEF Seen, Alone, QuietAt
  <1>3. CASE TimeOut(a)
    <2>1. /\ pc[a] = "asleep" /\ Waits(a) /\ Returns(a, Null)
          /\ recvCv' = Left(recvCv, a) /\ sendCv' = Left(sendCv, a)
      BY <1>3 DEF TimeOut
    <2>2. a \in recvCv[Chan(a)] \cup sendCv[Chan(a)] BY <1>1, <2>1 DEF Waits, CallOK
    <2>3. \A c \in Chans : a \notin Lookers(c)
      BY <2>1, <2>2 DEF Lookers, Coming, WokenSelections
    <2>4. \A c \in Chans : recvCv'[c] = recvCv[c] \ {a} /\ sendCv'[c] = sendCv[c] \ {a}
      BY <1>1, <2>1, LeftTyped
    <2> QED BY <1>1, <2>1, <2>3, <2>4, ReturnsTyped DEF Seen, Alone, QuietAt
  <1>4. CASE Spurious(a) \/ DozeEnds(a)
    <2>1. UNCHANGED <<pc, call, at>> BY <1>4 DEF Spurious, DozeEnds, Stays
    <2>2. \A c \in Chans : recvCv'[c] = recvCv[c] \ {a} /\ sendCv'[c] \subseteq sendCv[c]
      BY <1>1, <1>4, LeftTyped DEF Spurious, DozeEnds
    <2>3. \A c \in Chans : a \in Lookers(c) => a \in Lookers(c)'
      BY <2>1, <2>2 DEF Lookers, Coming, WokenSelections, Chan, Listed
    <2> QED BY <1>1, <2>1, <2>2, <2>3 DEF Seen, Alone, QuietAt
  <1> QED BY <1>2, <1>3, <1>4

(* A selection goes off only out of its wait.                              *)
LEMMA EndRoundSeen ==
  ASSUME ChannelInv, NEW a \in Callers, pc[a] \in {"linger", "doze"}, EndRound(a),
         UNCHANGED <<ring, cvs>>
  PROVE  Seen(a)
  <1>1. TypeOK /\ CallsInv BY DEF ChannelInv
  <1>2. \A c \in Chans : \A ops : a \notin Coming(c, ops) BY DEF Coming
  <1>3. /\ pc'[a] # "doze"
        /\ \A b \in Callers \ {a} : pc'[b] = pc[b] /\ call'[b] = call[b] /\ at'[b] = at[b]
    BY <1>1 DEF TypeOK, EndRound, Returns, Goto, NextRound
  <1> QED BY <1>2, <1>3, StaysQuiet DEF Lookers

LEMMA SelectSeen ==
  ASSUME ChannelInv, NEW a \in Callers, SelectStep(a)
  PROVE  Seen(a)
  <1>1. TypeOK /\ CallsInv BY DEF ChannelInv
  <1>2. CASE Scan(a)
    <2>1. \A c \in Chans : a \notin Lookers(c) BY <1>2, LooksFrom DEF Scan
    <2>2. \A b \in Callers \ {a} : pc'[b] = pc[b] /\ call'[b] = call[b] /\ at'[b] = at[b]
      BY <1>1, <1>2 DEF TypeOK, Scan, Returns, Goto
    <2> QED BY <1>2, <2>1, <2>2, StaysQuiet DEF Scan
  <1>3. CASE Linger(a)
    <2> DEFINE ch == Listed(a)
    <2>1. pc[a] = "linger" BY <1>3 DEF Linger
    <2>2. CASE ~Empty(ch) BY <1>3, <2>1, <2>2, EndRoundSeen DEF Linger, cvs
    <2>3. CASE Empty(ch)
      <3>1. /\ Goto(a, "doze") /\ UNCHANGED <<call, at, reply, sends>> /\ size' = size
            /\ recvCv' = [recvCv EXCEPT ![ch] = @ \cup {a}] /\ sendCv' = sendCv
        BY <1>3, <2>3 DEF Linger, Join, Stays, ring
      <3>2. \A b \in Callers \ {a} : pc'[b] = pc[b] /\ call'[b] = call[b] /\ at'[b] = at[b]
        BY <1>1, <3>1, MovesTyped DEF Places
      <3>3. \A c \in Chans : a \notin Lookers(c) BY <2>1, LooksFrom
      <3>4. \A c \in Chans :
               /\ recvCv'[c] \subseteq recvCv[c] \cup {a}
               /\ a \in recvCv'[c] /\ a \notin recvCv[c] => size[c] = 0
        BY <1>1, <2>3, <3>1 DEF TypeOK, Empty
      <3> QED BY <3>1, <3>2, <3>3, <3>4 DEF Seen, Alone, QuietAt
    <2> QED BY <2>2, <2>3
  <1>4. CASE LookAgain(a)
    <2>1. pc[a] = "doze" /\ UNCHANGED <<ring, cvs>> BY <1>4 DEF LookAgain
    <2>2. CASE ~(Empty(Listed(a)) /\ ~LastListed(a))
      BY <1>4, <2>1, <2>2, EndRoundSeen DEF LookAgain
    <2>3. CASE Empty(Listed(a)) /\ ~LastListed(a)
      <3>1. /\ pc'[a] = "linger"
            /\ \A b \in Callers \ {a} : pc'[b] = pc[b] /\ call'[b] = call[b] /\ at'[b] = at[b]
        BY <1>1, <1>4, <2>3 DEF TypeOK, LookAgain, Goto
      <3> QED BY <2>1, <3>1, LooksFrom, StaysQuiet
    <2> QED BY <2>2, <2>3
  <1> QED BY <1>2, <1>3, <1>4 DEF SelectStep

(* Every step keeps the count, or a woken selection goes off.              *)
LEMMA StepKeepsOwed ==
  ASSUME ChannelInv, [Next]_vars, NEW c \in Chans, OwedBySomeone(c), ~OwedBySomeone(c)'
  PROVE  \E b \in WokenSelections(c) : pc'[b] # "doze"
  <1>1. CASE Next
    <2>1. PICK a \in Callers :
             \/ Begin(a) \/ Step(a)
             \/ BackFromFibers(a) \/ TimeOut(a) \/ DozeEnds(a) \/ Spurious(a)
      BY <1>1 DEF Next
    <2>2. Seen(a)
      BY <2>1, NowSeen, MovesSeen, WaitsSeen, SelectSeen DEF Step, BlockingStep
    <2> QED BY <2>2, OwedKept DEF Seen
  <1>2. CASE UNCHANGED vars
    BY <1>2 DEF vars, ring, cvs, OwedBySomeone, Coming, WokenSelections, Chan, Listed
  <1> QED BY <1>1, <1>2

(* The signals of xt_channel_send reach a receiver that sleeps, or one on  *)
(* his way has the value: it is only a selection that was woken and goes   *)
(* off without taking anything that leaves a receiver asleep beside it.    *)
THEOREM WakeUpsLostOnlyToSelections == Spec => OnlySelectionsLoseAWakeUp
  <1>1. ChannelInv /\ [Next]_vars =>
           [\A c \in Chans : OwedBySomeone(c) /\ ~OwedBySomeone(c)' =>
               \E a \in WokenSelections(c) : pc'[a] # "doze"]_vars
    BY StepKeepsOwed
  <1> QED BY <1>1, ChannelInvariant, PTL DEF Spec, OnlySelectionsLoseAWakeUp

=============================================================================
