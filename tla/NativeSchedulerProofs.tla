------------------------ MODULE NativeSchedulerProofs ------------------------
(***************************************************************************)
(* The native scheduler, for any number of workers, tasks and channels.    *)
(*                                                                         *)
(* A run loses cards only by what channel operations do to the ready list  *)
(* without its section.  So the theorems on the cards are about a run as   *)
(* long as no two threads have been in the middle of a change of the list  *)
(* (~overlapped), which no run without channels ever leaves.  What is said *)
(* of waiting at channels, and of who owns which section, holds in every   *)
(* run.                                                                    *)
(***************************************************************************)
EXTENDS NativeScheduler, CommonLemmas

USE ConstantsAssumption

-----------------------------------------------------------------------------
(* The links from the head make the sequence r.                            *)
CardLists == [head : Cards \cup {Nil}, tail : Cards \cup {Nil}, next : [Cards -> Cards \cup {Nil}]]

Chain(r, q) ==
  /\ r = <<>> => q.head = Nil
  /\ r # <<>> => /\ q.head = r[1] /\ q.next[r[Len(r)]] = Nil
                 /\ \A i \in 1 .. Len(r) - 1 : q.next[r[i]] = r[i + 1]
EndOf(r) == IF r = <<>> THEN Nil ELSE r[Len(r)]

LEMMA ListItems ==
  ASSUME NEW S, NEW s \in Seq(S)
  PROVE  /\ Len(s) \in Nat /\ DOMAIN s = 1 .. Len(s) /\ \A i \in 1 .. Len(s) : s[i] \in S /\ s[i] \in ToSet(s)
         /\ s = <<>> <=> Len(s) = 0
         /\ s = <<>> => ToSet(s) = {}
<1>1. Len(s) \in Nat /\ DOMAIN s = 1 .. Len(s) /\ \A i \in 1 .. Len(s) : s[i] \in S
  BY LenProperties, ElementOfSeq
<1>2. s = <<>> <=> Len(s) = 0
  BY EmptySeq
<1> QED  BY <1>1, <1>2 DEF ToSet


(* The second store of rt_push_ready: at the tail that was read, or at the *)
(* head.                                                                   *)
LEMMA LinkedChain ==
  ASSUME NEW r \in Seq(Cards), NEW q \in CardLists, NEW c \in Cards,
         Chain(r, q), IsInjective(r), c \notin ToSet(r), q.next[c] = Nil, NEW p,
         p = IF EndOf(r) = Nil THEN [q EXCEPT !.head = c] ELSE [q EXCEPT !.next[EndOf(r)] = c]
  PROVE  p \in CardLists /\ Chain(Append(r, c), p) /\ EndOf(Append(r, c)) = c
<1> DEFINE rr == Append(r, c)  m == Len(r)
<1>1. /\ m \in Nat /\ \A i \in 1 .. m : r[i] \in Cards /\ r[i] # c
      /\ r = <<>> <=> m = 0
  BY ListItems
<1>2. rr # <<>> /\ Len(rr) = m + 1 /\ rr[m + 1] = c /\ \A i \in 1 .. m : rr[i] = r[i]
  BY AppendProperties
<1>3. q.tail \in Cards \cup {Nil} /\ q.head \in Cards \cup {Nil} /\ q.next \in [Cards -> Cards \cup {Nil}]
  BY DEF CardLists
<1>4. EndOf(rr) = c
  BY <1>2 DEF EndOf
<1>5. CASE m = 0
  <2>1. p = [q EXCEPT !.head = c]
    BY <1>1, <1>5 DEF EndOf
  <2>2. p \in CardLists /\ p.head = c /\ p.next[c] = Nil
    BY <1>3, <2>1 DEF CardLists
  <2> HIDE DEF rr
  <2>3. Chain(rr, p)
    BY <1>2, <1>5, <2>2 DEF Chain
  <2> QED  BY <1>4, <2>2, <2>3 DEF rr
<1>6. CASE m > 0
  <2>0. r # <<>> /\ q.head = r[1] /\ m \in 1 .. m /\ 1 \in 1 .. m /\ EndOf(r) = r[m] /\ r[m] \in Cards
    BY <1>1, <1>6 DEF Chain, EndOf
  <2>1. p = [q EXCEPT !.next[r[m]] = c]
    BY <2>0
  <2>3. /\ p \in CardLists /\ p.head = q.head /\ p.next[c] = Nil /\ p.next[r[m]] = c
        /\ \A d \in Cards : d # r[m] => p.next[d] = q.next[d]
    BY <1>1, <1>3, <2>0, <2>1 DEF CardLists
  <2> HIDE DEF rr
  <2>4. ASSUME NEW i \in 1 .. m PROVE p.next[rr[i]] = rr[i + 1]
    <3>1. CASE i = m
      BY <1>1, <1>2, <2>0, <2>3, <3>1
    <3>2. CASE i # m
      <4>1. i \in 1 .. m - 1 /\ i + 1 \in 1 .. m
        BY <1>1, <3>2
      <4>2. q.next[r[i]] = r[i + 1]
        BY <2>0, <4>1 DEF Chain
      <4>3. r[i] # r[m] /\ r[i] \in Cards
        BY <1>1, <2>0, <3>2, ListItems DEF IsInjective
      <4> QED  BY <1>2, <2>3, <4>1, <4>2, <4>3
    <3> QED  BY <3>1, <3>2
  <2>5. Chain(rr, p)
    BY <1>1, <1>2, <2>0, <2>3, <2>4 DEF Chain
  <2> QED  BY <1>4, <2>3, <2>5 DEF rr
<1> QED  BY <1>1, <1>5, <1>6

(* The pop of worker_loop sets the head to the link of the first card.     *)
LEMMA CutChain ==
  ASSUME NEW r \in Seq(Cards), NEW q \in CardLists, Chain(r, q), r # <<>>, NEW p,
         p = [q EXCEPT !.head = q.next[q.head]]
  PROVE  /\ q.head = Head(r) /\ q.head \in Cards
         /\ p \in CardLists /\ Chain(Tail(r), p)
         /\ q.next[q.head] = Nil <=> Tail(r) = <<>>
         /\ Tail(r) # <<>> => EndOf(Tail(r)) = EndOf(r)
<1> DEFINE rr == Tail(r)  m == Len(r)
<1>1. m \in Nat /\ m > 0 /\ \A i \in 1 .. m : r[i] \in Cards
  BY ListItems
<1>2. /\ Len(rr) = m - 1 /\ rr \in Seq(Cards) /\ Head(r) = r[1]
      /\ \A i \in 1 .. m - 1 : rr[i] = r[i + 1]
  BY HeadTailProperties
<1>3. rr = <<>> <=> m - 1 = 0
  BY <1>2, ListItems
<1>4. q.head \in Cards \cup {Nil} /\ q.next \in [Cards -> Cards \cup {Nil}]
  BY DEF CardLists
<1>5. q.head = r[1] /\ q.next[r[m]] = Nil /\ \A i \in 1 .. m - 1 : q.next[r[i]] = r[i + 1]
  BY DEF Chain
<1>6. q.head \in Cards
  <2>1. 1 \in 1 .. m
    BY <1>1
  <2> QED  BY <1>1, <1>5, <2>1
<1>7. p \in CardLists /\ p.head = q.next[q.head] /\ p.next = q.next
  BY <1>4, <1>6 DEF CardLists
<1> HIDE DEF rr
<1>8. CASE m = 1
  <2>1. rr = <<>> /\ q.next[q.head] = Nil
    BY <1>3, <1>5, <1>8
  <2>2. Chain(rr, p)
    BY <1>7, <2>1 DEF Chain
  <2> QED  BY <1>2, <1>5, <1>6, <1>7, <2>1, <2>2 DEF rr
<1>9. CASE m > 1
  <2>1. 1 \in 1 .. m - 1 /\ m - 1 \in 1 .. m - 1 /\ 1 + 1 \in 1 .. m /\ (m - 1) + 1 = m
    BY <1>1, <1>9
  <2>2. rr # <<>> /\ rr[1] = r[2] /\ rr[m - 1] = r[m] /\ r[2] # Nil /\ q.next[r[1]] = r[2]
    BY <1>1, <1>2, <1>3, <1>5, <1>9, <2>1
  <2>3. p.head = rr[1] /\ p.next[rr[m - 1]] = Nil
    BY <1>5, <1>7, <2>2
  <2>4. ASSUME NEW i \in 1 .. (m - 1) - 1 PROVE p.next[rr[i]] = rr[i + 1]
    <3>1. i \in 1 .. m - 1 /\ i + 1 \in 1 .. m - 1
      BY <1>1
    <3> QED  BY <1>2, <1>5, <1>7, <3>1
  <2>5. Chain(rr, p)
    BY <1>2, <2>2, <2>3, <2>4 DEF Chain
  <2>6. EndOf(rr) = EndOf(r)
    BY <1>2, <2>2 DEF EndOf
  <2> QED  BY <1>2, <1>5, <1>6, <1>7, <2>2, <2>5, <2>6 DEF rr
<1> HIDE DEF m
<1>10. m = 1 \/ m > 1
  BY <1>1
<1> QED  BY <1>8, <1>9, <1>10, Zenon

(* The link of a card that is in no list means nothing.                    *)
LEMMA UnlinkedChain ==
  ASSUME NEW r \in Seq(Cards), NEW q \in CardLists, NEW c \in Cards, Chain(r, q), c \notin ToSet(r),
         NEW p, p = [q EXCEPT !.next[c] = Nil]
  PROVE  /\ p \in CardLists /\ Chain(r, p) /\ p.head = q.head /\ p.tail = q.tail /\ p.next[c] = Nil
         /\ \A d \in Cards : d # c => p.next[d] = q.next[d]
<1>1. q.tail \in Cards \cup {Nil} /\ q.head \in Cards \cup {Nil} /\ q.next \in [Cards -> Cards \cup {Nil}]
  BY DEF CardLists
<1>2. /\ p \in CardLists /\ p.head = q.head /\ p.tail = q.tail /\ p.next[c] = Nil
      /\ \A d \in Cards : d # c => p.next[d] = q.next[d]
  BY <1>1 DEF CardLists
<1>3. Len(r) \in Nat /\ (r # <<>> => Len(r) \in 1 .. Len(r)) /\ \A i \in 1 .. Len(r) : r[i] \in Cards /\ r[i] # c
  BY ListItems
<1>4. \A i \in 1 .. Len(r) - 1 : i \in 1 .. Len(r)
  BY <1>3
<1>5. Chain(r, p)
  BY <1>2, <1>3, <1>4 DEF Chain
<1> QED  BY <1>2, <1>5

(* A walk from the head meets the cards of the sequence.                   *)
LEMMA QueuedIs ==
  ASSUME NEW r \in Seq(Cards), ready \in CardLists, Chain(r, ready)
  PROVE  Queued = ToSet(r)
<1> DEFINE m == Len(r)
<1>1. /\ m \in Nat /\ DOMAIN r = 1 .. m /\ \A i \in 1 .. m : r[i] \in Cards /\ r[i] \in ToSet(r)
      /\ (r = <<>> <=> m = 0) /\ (r = <<>> => ToSet(r) = {})
  BY ListItems
<1>2. ToSet(r) \in SUBSET Cards /\ ToSet(r) = {r[i] : i \in 1 .. m}
  BY <1>1 DEF ToSet
<1>3. Walked(ToSet(r))
  <2>1. CASE r = <<>>
    BY <1>1, <2>1 DEF Walked, Chain
  <2>2. CASE r # <<>>
    <3>1. ready.head = r[1] /\ 1 \in 1 .. m
      BY <1>1, <2>2 DEF Chain
    <3>2. ASSUME NEW i \in 1 .. m PROVE ready.next[r[i]] \in ToSet(r) \cup {Nil}
      <4>1. CASE i = m
        BY <2>2, <4>1 DEF Chain
      <4>2. CASE i # m
        <5>1. i \in 1 .. m - 1 /\ i + 1 \in 1 .. m
          <6> HIDE DEF m
          <6> QED  BY <1>1, <4>2
        <5> QED  BY <1>1, <2>2, <5>1 DEF Chain
      <4> QED  BY <4>1, <4>2
    <3> HIDE DEF m
    <3> QED  BY <1>1, <1>2, <3>1, <3>2 DEF Walked
  <2> QED  BY <2>1, <2>2
<1>4. ASSUME NEW S \in SUBSET Cards, Walked(S) PROVE ToSet(r) \subseteq S
  <2> DEFINE T == {k \in Nat : k + 1 \in 1 .. m => r[k + 1] \in S}
  <2>1. 0 \in T
    <3> SUFFICES ASSUME 1 \in 1 .. m PROVE r[1] \in S
      OBVIOUS
    <3>1. ready.head = r[1] /\ r[1] \in Cards
      BY <1>1 DEF Chain
    <3> QED  BY <1>4, <3>1 DEF Walked
  <2>2. ASSUME NEW k \in Nat, k \in T PROVE k + 1 \in T
    <3> SUFFICES ASSUME (k + 1) + 1 \in 1 .. m PROVE r[(k + 1) + 1] \in S
      OBVIOUS
    <3>1. k + 1 \in 1 .. m - 1 /\ k + 1 \in 1 .. m /\ r # <<>>
      BY <1>1
    <3>2. r[k + 1] \in S /\ ready.next[r[k + 1]] = r[(k + 1) + 1] /\ r[(k + 1) + 1] \in Cards
      BY <1>1, <2>2, <3>1 DEF Chain
    <3> QED  BY <1>4, <3>2 DEF Walked
  <2>3. Nat \subseteq T
    <3> HIDE DEF T
    <3> QED  BY <2>1, <2>2, Upwards
  <2>4. ASSUME NEW i \in 1 .. m PROVE r[i] \in S
    <3>1. i - 1 \in Nat /\ (i - 1) + 1 = i
      BY <1>1
    <3>2. i - 1 \in T
      BY <2>3, <3>1
    <3> QED  BY <3>1, <3>2
  <2> HIDE DEF m, T
  <2> QED  BY <1>2, <2>4
<1> QED  BY <1>2, <1>3, <1>4 DEF Queued

(* rt_waiters_append, of a card that is in the list or is not.             *)
LEMMA AppendedOnce ==
  ASSUME NEW S, NEW s \in Seq(S), NEW a \in S
  PROVE  /\ Appended(s, a) \in Seq(S) /\ ToSet(Appended(s, a)) \subseteq ToSet(s) \cup {a}
         /\ IsInjective(s) => IsInjective(Appended(s, a))
         /\ a \notin ToSet(s) => ToSet(Appended(s, a)) = ToSet(s) \cup {a}
<1>1. CASE a \notin ToSet(s)
  <2>1. Appended(s, a) = Append(s, a)
    BY <1>1, Zenon DEF Appended
  <2> QED  BY <1>1, <2>1, OnceAppended
<1>2. CASE a \in ToSet(s)
  <2> DEFINE n == CHOOSE i \in DOMAIN s : s[i] = a
  <2>1. \E i \in DOMAIN s : s[i] = a
    BY <1>2 DEF ToSet
  <2>2. n \in DOMAIN s
    BY <2>1, Zenon
  <2>3. Appended(s, a) = SubSeq(s, 1, n)
    BY <1>2, Zenon DEF Appended
  <2> HIDE DEF n
  <2>4. n \in 1 .. Len(s)
    BY <2>2, ListItems
  <2> QED  BY <1>2, <2>3, <2>4, OnceCut
<1> QED  BY <1>1, <1>2
-----------------------------------------------------------------------------
(* What holds in every run: types, sections and channels.                  *)
AtWakeUps == {"wake", "link", "tail"}
Critical  == {"drowsy", "next", "head", "clear"}
ChanLists == Chans \X {"recv", "send"}

InChannel(a) == a \in Callers /\ at[a] \in AtWakeUps /\ doing[a] # Nil
InSection(a) == at[a] \in AtWakeUps /\ ~InChannel(a)

Places == {"code", "saved", "leaving", "retry", "asleep", "ending", "over"} \cup AtWakeUps
Steps  == Critical \cup {"loop", "asleep", "popped", "run", "back", "free"}

TypesOK ==
  /\ at \in [Pushers -> Places] /\ pc \in [Workers -> Steps]
  /\ state \in [Cards -> {"unborn", "ready", "running", "blocked", "done"}]
  /\ stack \in [Cards -> {"none", "mapped", "freed"}]
  /\ doing \in [Callers -> Lists \cup {Nil}]
  /\ waiters \in [Lists -> Seq(Callers)] /\ todo \in [Pushers -> Seq(Callers)]
  /\ owner \in [Chans -> Callers \cup {Nil}] /\ card \in [Workers -> Cards \cup {Nil}]
  /\ timers \in SUBSET Cards
  /\ ready \in CardLists /\ seen \in [Pushers \cup Workers -> Cards \cup {Nil}]

PlacesOK ==
  /\ \A a \in Pushers : at[a] \in {"link", "tail"} => todo[a] # <<>> /\ Head(todo[a]) \in Cards
  /\ \A a \in Callers : at[a] = "code" => doing[a] = Nil
  /\ \A w \in Workers : pc[w] \notin {"loop", "drowsy", "asleep"} => card[w] \in Cards

(* Who owns g_sched_cs.                                                    *)
SectionsInv ==
  /\ \A a \in Pushers : InSection(a) <=> cs = a
  /\ \A w \in Workers : pc[w] \in Critical <=> cs = w

(* The section of a channel is owned between the change of the channel and *)
(* the end of the wake-ups.  Nobody waits on the side of the change, and   *)
(* the lists are empty.                                                    *)
OwnersInv ==
  /\ \A a \in Callers : InChannel(a) => doing[a] \in ChanLists /\ owner[doing[a][1]] = a
  /\ \A ch \in Chans, a \in Callers : owner[ch] = a =>
       /\ InChannel(a) /\ doing[a][1] = ch
       /\ \A side \in {"recv", "send"} : waiters[<<ch, side>>] = <<>>
       /\ ~(at[Main] = "asleep" /\ doing[Main] = doing[a])

LEMMA ListsAre ==
  /\ Nil \notin Callers /\ Main \in Callers /\ Cards \subseteq Callers
  /\ ChanLists \subseteq Lists /\ \A l \in Lists : l[2] # "done" <=> l \in ChanLists
  /\ \A l \in ChanLists : l = <<l[1], l[2]>> /\ l[1] \in Chans /\ l[2] \in {"recv", "send"}
  /\ \A ch \in Chans, side \in {"recv", "send"} : <<ch, side>> \in ChanLists
  /\ \A l \in Lists : l[2] = "done" => l[1] \in Cards /\ l = <<l[1], "done">>
  /\ \A c \in Cards : <<c, "done">> \in Lists
BY DEF Lists, ChanLists, Callers

LEMMA ThreadsAre ==
  /\ Callers \subseteq Pushers /\ Timer \in Pushers /\ Timer \notin Callers /\ Main \in Pushers /\ Cards \subseteq Pushers
  /\ Nil \notin Pushers \cup Workers /\ Pushers \cap Workers = {}
  /\ \A a \in Callers : ~IsCard(a) <=> a = Main
BY DEF Callers, Pushers, IsCard

LEMMA WaitTypes ==
  ASSUME TypesOK, NEW a \in Callers, NEW l \in Lists, Wait(a, l)
  PROVE  /\ waiters' \in [Lists -> Seq(Callers)] /\ \A k \in Lists : k # l => waiters'[k] = waiters[k]
         /\ at' = [at EXCEPT ![a] = IF IsCard(a) THEN "leaving" ELSE "asleep"]
         /\ state' = IF IsCard(a) THEN [state EXCEPT ![a] = "blocked"] ELSE state
         /\ UNCHANGED <<ready, timers, doing, count, owner, todo, seen, stack, cs, pc, card, crash>>
<1>1. /\ at' = [at EXCEPT ![a] = IF IsCard(a) THEN "leaving" ELSE "asleep"]
      /\ state' = IF IsCard(a) THEN [state EXCEPT ![a] = "blocked"] ELSE state
      /\ UNCHANGED <<ready, timers, doing, count, owner, todo, seen, stack, cs, pc, card, crash>>
  BY DEF Wait, Goto, chans
<1>2. waiters' = waiters \/ waiters' = [waiters EXCEPT ![l] = Appended(waiters[l], a)]
  BY DEF Wait
<1>3. waiters \in [Lists -> Seq(Callers)] /\ Appended(waiters[l], a) \in Seq(Callers)
  BY AppendedOnce DEF TypesOK
<1>4. waiters' \in [Lists -> Seq(Callers)] /\ \A k \in Lists : k # l => waiters'[k] = waiters[k]
  BY <1>2, <1>3
<1> QED  BY <1>1, <1>4

(* Types, step by step.                                                    *)
LEMMA WorkerTypes ==
  ASSUME TypesOK, PlacesOK, NEW w \in Workers, WorkerStep(w)
  PROVE  TypesOK' /\ PlacesOK'
<1>1. CASE Look(w)
  <2>1. /\ UNCHANGED <<at, state, stack, doing, waiters, todo, owner, timers, ready, seen>>
        /\ \/ pc' = [pc EXCEPT ![w] = "drowsy"] /\ card' = card
           \/ /\ ready.head # Nil
              /\ pc' = [pc EXCEPT ![w] = "next"] /\ card' = [card EXCEPT ![w] = ready.head]
    BY <1>1 DEF Look, GoOn, queues, tasks, chans
  <2>2. ready.head \in Cards \cup {Nil}
    BY DEF TypesOK, CardLists
  <2>3. TypesOK'
    BY <2>1, <2>2 DEF TypesOK, Steps, Critical
  <2>4. \A v \in Workers : pc'[v] \notin {"loop", "drowsy", "asleep"} => card'[v] \in Cards
    BY <2>1, <2>2 DEF TypesOK, PlacesOK
  <2> QED  BY <2>1, <2>3, <2>4 DEF PlacesOK
<1>2. CASE FallAsleep(w) \/ WakeUp(w) \/ Back(w)
  <2>1. /\ UNCHANGED <<at, state, stack, doing, waiters, todo, owner, timers, ready, seen, card>>
        /\ \E p \in {"asleep", "loop", "free"} :
              pc' = [pc EXCEPT ![w] = p] /\ (p = "free" => pc[w] = "back")
    BY <1>2 DEF FallAsleep, WakeUp, Back, GoOn, queues, tasks, chans
  <2>2. TypesOK'
    BY <2>1 DEF TypesOK, Steps
  <2>3. \A v \in Workers : pc'[v] \notin {"loop", "drowsy", "asleep"} => card'[v] \in Cards
    BY <2>1 DEF TypesOK, PlacesOK
  <2> QED  BY <2>1, <2>2, <2>3 DEF PlacesOK
<1>3. CASE ReadNext(w)
  <2>1. /\ UNCHANGED <<at, state, stack, doing, waiters, todo, owner, timers, ready, card>>
        /\ pc' = [pc EXCEPT ![w] = "head"] /\ seen' = [seen EXCEPT ![w] = ready.next[card[w]]] /\ pc[w] = "next"
    BY <1>3 DEF ReadNext, GoOn, queues, tasks
  <2>2. card[w] \in Cards /\ ready.next[card[w]] \in Cards \cup {Nil}
    BY <2>1 DEF TypesOK, PlacesOK, CardLists
  <2>3. TypesOK'
    BY <2>1, <2>2 DEF TypesOK, Steps, Critical
  <2>4. \A v \in Workers : pc'[v] \notin {"loop", "drowsy", "asleep"} => card'[v] \in Cards
    BY <2>1, <2>2 DEF TypesOK, PlacesOK
  <2> QED  BY <2>1, <2>3, <2>4 DEF PlacesOK
<1>4. CASE SetHead(w) \/ ClearTail(w)
  <2>1. /\ UNCHANGED <<at, state, stack, doing, waiters, todo, owner, timers, card, seen>>
        /\ pc[w] \in {"head", "clear"} /\ \E p \in {"clear", "popped"} : pc' = [pc EXCEPT ![w] = p]
        /\ ready' = [ready EXCEPT !.head = seen[w]] \/ ready' = [ready EXCEPT !.tail = Nil]
    BY <1>4 DEF SetHead, ClearTail, GoOn, tasks, chans
  <2>2. ready' \in CardLists
    BY <2>1 DEF TypesOK, CardLists
  <2>3. TypesOK'
    BY <2>1, <2>2 DEF TypesOK, Steps, Critical
  <2>4. \A v \in Workers : pc'[v] \notin {"loop", "drowsy", "asleep"} => card'[v] \in Cards
    BY <2>1 DEF TypesOK, PlacesOK
  <2> QED  BY <2>1, <2>3, <2>4 DEF PlacesOK
<1>5. CASE SwitchTo(w)
  <2>1. /\ UNCHANGED <<stack, doing, waiters, todo, owner, timers, card, seen>> /\ pc[w] = "popped"
        /\ ready' = [ready EXCEPT !.next[card[w]] = Nil]
        /\ \/ UNCHANGED <<state, at, pc>>
           \/ /\ state' = [state EXCEPT ![card[w]] = "running"] /\ pc' = [pc EXCEPT ![w] = "run"]
              /\ at' = [at EXCEPT ![card[w]] = IF doing[card[w]] = Nil THEN "code" ELSE "retry"]
    BY <1>5 DEF SwitchTo, GoOn, chans
  <2>2. card[w] \in Cards /\ card[w] \in Pushers
    BY <2>1, ThreadsAre DEF PlacesOK
  <2>3. ready' \in CardLists
    BY <2>1, <2>2 DEF TypesOK, CardLists
  <2>4. TypesOK'
    <3>1. at' \in [Pushers -> Places]
      BY <2>1, <2>2 DEF TypesOK, Places
    <3>2. pc' \in [Workers -> Steps] /\ state' \in [Cards -> {"unborn", "ready", "running", "blocked", "done"}]
      BY <2>1, <2>2 DEF TypesOK, Steps
    <3> QED  BY <2>1, <2>3, <3>1, <3>2 DEF TypesOK
  <2>5. \A a \in Pushers : at'[a] = at[a] \/ at'[a] = "retry" \/ (at'[a] = "code" /\ doing[a] = Nil)
    BY <2>1 DEF TypesOK
  <2>6. \A v \in Workers : pc'[v] \notin {"loop", "drowsy", "asleep"} => card'[v] \in Cards
    BY <2>1, <2>2 DEF TypesOK, PlacesOK
  <2> QED  BY <2>1, <2>4, <2>5, <2>6, ThreadsAre DEF PlacesOK
<1>6. CASE Save(w) \/ TaskDone(w)
  <2>1. /\ UNCHANGED <<state, stack, doing, waiters, todo, owner, timers, ready, card, seen>> /\ pc[w] = "run"
        /\ \E p \in {"saved", "over"} : at' = [at EXCEPT ![card[w]] = p] /\ pc' = [pc EXCEPT ![w] = "back"]
    BY <1>6 DEF Save, TaskDone, Goto, GoOn, queues, chans
  <2>2. TypesOK'
    BY <2>1 DEF TypesOK, Places, Steps
  <2>3. \A a \in Pushers : at'[a] = at[a] \/ at'[a] \in {"saved", "over"}
    BY <2>1 DEF TypesOK
  <2>4. \A v \in Workers : pc'[v] \notin {"loop", "drowsy", "asleep"} => card'[v] \in Cards
    BY <2>1 DEF TypesOK, PlacesOK
  <2> QED  BY <2>1, <2>2, <2>3, <2>4, ThreadsAre DEF PlacesOK
<1>7. CASE Free(w)
  <2>1. /\ UNCHANGED <<at, state, doing, waiters, todo, owner, timers, ready, card, seen>>
        /\ pc' = [pc EXCEPT ![w] = "loop"] /\ stack' = [stack EXCEPT ![card[w]] = "freed"]
    BY <1>7 DEF Free, GoOn, queues, chans
  <2>2. TypesOK'
    BY <2>1 DEF TypesOK, Steps
  <2>3. \A v \in Workers : pc'[v] \notin {"loop", "drowsy", "asleep"} => card'[v] \in Cards
    BY <2>1 DEF TypesOK, PlacesOK
  <2> QED  BY <2>1, <2>2, <2>3 DEF PlacesOK
<1> QED  BY <1>1, <1>2, <1>3, <1>4, <1>5, <1>6, <1>7 DEF WorkerStep

(* A step at one place of a pusher, with the main thread's perhaps.        *)
LEMMA PlacesKept ==
  ASSUME TypesOK, TypesOK', PlacesOK, NEW a \in Pushers, UNCHANGED <<pc, card>>,
         \A b \in Pushers : \/ at'[b] = at[b] \/ at'[b] \notin {"link", "tail", "code"}
                            \/ b = a,
         at'[a] \in {"link", "tail"} => todo'[a] # <<>> /\ Head(todo'[a]) \in Cards,
         a \in Callers /\ at'[a] = "code" => doing'[a] = Nil,
         \A b \in Pushers : b # a /\ at[b] \in {"link", "tail"} => todo'[b] = todo[b],
         \A b \in Callers : b # a => doing'[b] = doing[b]
  PROVE  PlacesOK'
<1>1. \A b \in Pushers : at'[b] \in {"link", "tail"} => todo'[b] # <<>> /\ Head(todo'[b]) \in Cards
  BY DEF PlacesOK
<1>2. \A b \in Callers : at'[b] = "code" => doing'[b] = Nil
  BY ThreadsAre DEF PlacesOK
<1> QED  BY <1>1, <1>2 DEF PlacesOK

LEMMA CallTypes ==
  ASSUME TypesOK, PlacesOK, NEW a \in Callers,
         (\E l \in Lists : Call(a, l)) \/ CallStep(a)
  PROVE  TypesOK' /\ PlacesOK'
<1>0. a \in Pushers
  BY ThreadsAre
<1>1. ASSUME NEW l \in Lists, Call(a, l) PROVE TypesOK' /\ PlacesOK'
  <2>1. /\ UNCHANGED <<state, stack, waiters, todo, owner, timers, ready, card, seen, pc>>
        /\ at' = [at EXCEPT ![a] = "retry"] /\ doing' = [doing EXCEPT ![a] = l]
    BY <1>1 DEF Call, Goto, queues, chans
  <2>2. TypesOK'
    BY <2>1 DEF TypesOK, Places
  <2>3. /\ at'[a] = "retry" /\ \A b \in Pushers : b # a => at'[b] = at[b]
        /\ \A b \in Callers : b # a => doing'[b] = doing[b]
    BY <1>0, <2>1 DEF TypesOK
  <2> QED  BY <1>0, <2>1, <2>2, <2>3, PlacesKept
<1>2. CASE WaitForTask(a) \/ ChannelWait(a)
  <2>1. CASE Wait(a, doing[a]) /\ doing[a] \in Lists
    <3>1. /\ waiters' \in [Lists -> Seq(Callers)]
          /\ at' = [at EXCEPT ![a] = IF IsCard(a) THEN "leaving" ELSE "asleep"]
          /\ state' = IF IsCard(a) THEN [state EXCEPT ![a] = "blocked"] ELSE state
          /\ UNCHANGED <<ready, timers, doing, owner, todo, seen, stack, pc, card>>
      BY <2>1, WaitTypes
    <3>2. TypesOK'
      BY <1>0, <3>1 DEF TypesOK, Places
    <3>3. at'[a] \in {"leaving", "asleep"} /\ \A b \in Pushers : b # a => at'[b] = at[b]
      BY <1>0, <3>1 DEF TypesOK
    <3> QED  BY <1>0, <3>1, <3>2, <3>3, PlacesKept
  <2>2. CASE Returns(a) /\ UNCHANGED <<queues, state, stack, chans, pc, card>>
    <3>1. /\ UNCHANGED <<state, stack, waiters, todo, owner, timers, ready, card, seen, pc>>
          /\ at' = [at EXCEPT ![a] = "code"] /\ doing' = [doing EXCEPT ![a] = Nil]
      BY <2>2 DEF Returns, Goto, queues, chans
    <3>2. TypesOK'
      BY <3>1 DEF TypesOK, Places
    <3>3. /\ \A b \in Pushers : b # a => at'[b] = at[b] /\ at'[a] = "code"
          /\ doing'[a] = Nil /\ \A b \in Callers : b # a => doing'[b] = doing[b]
      BY <1>0, <3>1 DEF TypesOK
    <3>4. at'[a] = "code"
      BY <1>0, <3>1 DEF TypesOK
    <3> QED  BY <1>0, <3>1, <3>2, <3>3, <3>4, PlacesKept
  <2>3. doing[a] # Nil => doing[a] \in Lists
    BY DEF TypesOK
  <2> QED  BY <1>2, <2>1, <2>2, <2>3 DEF WaitForTask, ChannelWait
<1>3. CASE Transfer(a)
  <2>1. /\ UNCHANGED <<state, stack, doing, timers, ready, card, seen, pc>> /\ doing[a] # Nil
        /\ at' = [at EXCEPT ![a] = "wake"]
        /\ LET there == <<doing[a][1], Other(doing[a][2])>> IN
             /\ owner' = [owner EXCEPT ![doing[a][1]] = a]
             /\ todo' = [todo EXCEPT ![a] = waiters[there]]
             /\ waiters' = [waiters EXCEPT ![there] = <<>>]
        /\ doing[a][2] # "done"
    BY <1>3 DEF Transfer, Goto
  <2>2. doing[a] \in ChanLists /\ <<doing[a][1], Other(doing[a][2])>> \in Lists
    BY <2>1, ListsAre DEF TypesOK, Other
  <2>3. PICK l \in Lists : /\ owner' = [owner EXCEPT ![doing[a][1]] = a]
             /\ todo' = [todo EXCEPT ![a] = waiters[l]]
             /\ waiters' = [waiters EXCEPT ![l] = <<>>]
    BY <2>1, <2>2
  <2>4. waiters[l] \in Seq(Callers) /\ <<>> \in Seq(Callers)
    BY EmptySeq DEF TypesOK
  <2>5. /\ at' \in [Pushers -> Places] /\ owner' \in [Chans -> Callers \cup {Nil}]
        /\ todo' \in [Pushers -> Seq(Callers)] /\ waiters' \in [Lists -> Seq(Callers)]
    <3>1. at' \in [Pushers -> Places]
      BY <2>1 DEF TypesOK, Places, AtWakeUps
    <3>2. owner' \in [Chans -> Callers \cup {Nil}]
      BY <2>3 DEF TypesOK
    <3>3. todo' \in [Pushers -> Seq(Callers)] /\ waiters' \in [Lists -> Seq(Callers)]
      BY <2>3, <2>4 DEF TypesOK
    <3> QED  BY <3>1, <3>2, <3>3
  <2>6. TypesOK'
    BY <2>1, <2>5 DEF TypesOK
  <2>7. /\ at'[a] = "wake" /\ \A b \in Pushers : b # a => at'[b] = at[b] /\ todo'[b] = todo[b]
    BY <1>0, <2>1, <2>3 DEF TypesOK
  <2> QED  BY <1>0, <2>1, <2>6, <2>7, PlacesKept
<1>4. CASE LeaveChannel(a)
  <2>1. /\ UNCHANGED <<state, stack, waiters, todo, timers, ready, card, seen, pc>>
        /\ \E p \in {at[Main], "retry"} : at' = [at EXCEPT ![Main] = p, ![a] = "code"]
        /\ owner' = [owner EXCEPT ![doing[a][1]] = Nil] /\ doing' = [doing EXCEPT ![a] = Nil]
    BY <1>4 DEF LeaveChannel, queues
  <2>2. PICK p \in {at[Main], "retry"} : at' = [at EXCEPT ![Main] = p, ![a] = "code"]
    BY <2>1
  <2>3. at' \in [Pushers -> Places] /\ owner' \in [Chans -> Callers \cup {Nil}] /\ doing' \in [Callers -> Lists \cup {Nil}]
    <3>1. at[Main] \in Places /\ "retry" \in Places /\ "code" \in Places
      <4>1. at[Main] \in Places
        BY ThreadsAre DEF TypesOK
      <4> QED  BY <4>1 DEF Places
    <3>2. at' \in [Pushers -> Places]
      BY <2>2, <3>1 DEF TypesOK
    <3> QED  BY <2>1, <3>2 DEF TypesOK
  <2>4. TypesOK'
    BY <2>1, <2>3 DEF TypesOK
  <2>5. /\ at'[a] = "code" /\ \A b \in Pushers : b # a => at'[b] = at[b] \/ at'[b] = "retry"
        /\ doing'[a] = Nil /\ \A b \in Callers : b # a => doing'[b] = doing[b]
    BY <1>0, <2>1, <2>2, ThreadsAre DEF TypesOK
  <2> QED  BY <1>0, <2>1, <2>4, <2>5, PlacesKept
<1> QED  BY <1>1, <1>2, <1>3, <1>4 DEF CallStep

(* The other entries into a section, and the sleeps.                       *)
LEMMA EntryTypes ==
  ASSUME TypesOK, PlacesOK,
         \/ \E a \in Callers, c \in Cards : SpawnTask(a, c)
         \/ \E c \in Cards : GoToSleep(c) \/ TimerFires(c) \/ Complete(c)
         \/ MainWakesEarly
  PROVE  TypesOK' /\ PlacesOK'
<1>1. ASSUME NEW a \in Pushers, NEW s \in Seq(Callers), Enter(a, s), UNCHANGED <<doing, owner, ready, card, seen, pc>>,
             waiters' \in [Lists -> Seq(Callers)], timers' \in SUBSET Cards,
             state' \in [Cards -> {"unborn", "ready", "running", "blocked", "done"}],
             stack' \in [Cards -> {"none", "mapped", "freed"}]
      PROVE  TypesOK' /\ PlacesOK'
  <2>1. at' = [at EXCEPT ![a] = "wake"] /\ todo' = [todo EXCEPT ![a] = s]
    BY <1>1 DEF Enter, Goto
  <2>2. at' \in [Pushers -> Places] /\ todo' \in [Pushers -> Seq(Callers)]
    BY <2>1 DEF TypesOK, Places, AtWakeUps
  <2>3. TypesOK'
    BY <1>1, <2>2 DEF TypesOK
  <2>4. /\ at'[a] = "wake" /\ \A b \in Pushers : b # a => at'[b] = at[b] /\ todo'[b] = todo[b]
    BY <2>1 DEF TypesOK
  <2> QED  BY <1>1, <2>3, <2>4, PlacesKept
<1>2. \A c \in Cards : <<c>> \in Seq(Callers)
  BY ListsAre
<1>3. ASSUME NEW a \in Callers, NEW c \in Cards, SpawnTask(a, c) PROVE TypesOK' /\ PlacesOK'
  <2>1. /\ Enter(a, <<c>>) /\ UNCHANGED <<doing, owner, ready, card, seen, pc, waiters, timers>>
        /\ state' = [state EXCEPT ![c] = "ready"] /\ stack' = [stack EXCEPT ![c] = "mapped"]
    BY <1>3 DEF SpawnTask, queues
  <2>2. /\ waiters' \in [Lists -> Seq(Callers)] /\ timers' \in SUBSET Cards
        /\ state' \in [Cards -> {"unborn", "ready", "running", "blocked", "done"}]
        /\ stack' \in [Cards -> {"none", "mapped", "freed"}]
    BY <2>1 DEF TypesOK
  <2> QED  BY <1>1, <1>2, <2>1, <2>2, ThreadsAre
<1>4. ASSUME NEW c \in Cards, TimerFires(c) PROVE TypesOK' /\ PlacesOK'
  <2>1. Enter(Timer, <<c>>) /\ UNCHANGED <<doing, owner, ready, card, seen, pc, waiters, state, stack>> /\ timers' = timers \ {c}
    BY <1>4 DEF TimerFires, Fired
  <2>2. /\ waiters' \in [Lists -> Seq(Callers)] /\ timers' \in SUBSET Cards
        /\ state' \in [Cards -> {"unborn", "ready", "running", "blocked", "done"}]
        /\ stack' \in [Cards -> {"none", "mapped", "freed"}]
    BY <2>1 DEF TypesOK
  <2> QED  BY <1>1, <1>2, <2>1, <2>2, ThreadsAre
<1>5. ASSUME NEW c \in Cards, Complete(c) PROVE TypesOK' /\ PlacesOK'
  <2>1. /\ Enter(c, waiters[<<c, "done">>]) /\ UNCHANGED <<doing, owner, ready, card, seen, pc, timers, stack>>
        /\ waiters' = [waiters EXCEPT ![<<c, "done">>] = <<>>] /\ state' = [state EXCEPT ![c] = "done"]
    BY <1>5 DEF Complete, Released
  <2>2. waiters[<<c, "done">>] \in Seq(Callers) /\ <<>> \in Seq(Callers)
    BY ListsAre, EmptySeq DEF TypesOK
  <2>3. /\ waiters' \in [Lists -> Seq(Callers)] /\ timers' \in SUBSET Cards
        /\ state' \in [Cards -> {"unborn", "ready", "running", "blocked", "done"}]
        /\ stack' \in [Cards -> {"none", "mapped", "freed"}]
    BY <2>1, <2>2 DEF TypesOK
  <2> QED  BY <1>1, <2>1, <2>2, <2>3, ThreadsAre
<1>6. ASSUME NEW c \in Cards, GoToSleep(c) PROVE TypesOK' /\ PlacesOK'
  <2>1. /\ UNCHANGED <<stack, waiters, todo, owner, doing, ready, card, seen, pc>>
        /\ at' = [at EXCEPT ![c] = "leaving"] /\ state' = [state EXCEPT ![c] = "blocked"] /\ timers' = timers \cup {c}
    BY <1>6 DEF GoToSleep, Goto, chans
  <2>2. TypesOK'
    BY <2>1 DEF TypesOK, Places
  <2>3. at'[c] = "leaving" /\ \A b \in Pushers : b # c => at'[b] = at[b]
    BY <2>1, ThreadsAre DEF TypesOK
  <2> QED  BY <2>1, <2>2, <2>3, PlacesKept, ThreadsAre
<1>7. CASE MainWakesEarly
  <2>1. /\ UNCHANGED <<state, stack, waiters, todo, owner, doing, timers, ready, card, seen, pc>>
        /\ at' = [at EXCEPT ![Main] = "retry"]
    BY <1>7 DEF MainWakesEarly, Goto, queues, chans
  <2>2. TypesOK'
    BY <2>1 DEF TypesOK, Places
  <2>3. at'[Main] = "retry" /\ \A b \in Pushers : b # Main => at'[b] = at[b]
    BY <2>1, ThreadsAre DEF TypesOK
  <2> QED  BY <2>1, <2>2, <2>3, PlacesKept, ThreadsAre
<1> QED  BY <1>3, <1>4, <1>5, <1>6, <1>7

LEMMA PushTypes ==
  ASSUME TypesOK, PlacesOK, SectionsInv, NEW a \in Pushers, PushStep(a)
  PROVE  TypesOK' /\ PlacesOK'
<1>1. CASE ReadTail(a)
  <2>1. /\ UNCHANGED <<stack, waiters, todo, owner, doing, timers, card, pc>> /\ todo[a] # <<>> /\ Head(todo[a]) \in Cards
        /\ ready' = [ready EXCEPT !.next[Head(todo[a])] = Nil]
        /\ state' = [state EXCEPT ![Head(todo[a])] = "ready"]
        /\ seen' = [seen EXCEPT ![a] = ready.tail] /\ at' = [at EXCEPT ![a] = "link"]
    BY <1>1 DEF ReadTail, Goto, IsCard
  <2>2. ready' \in CardLists /\ ready.tail \in Cards \cup {Nil}
    BY <2>1 DEF TypesOK, CardLists
  <2>3. TypesOK'
    BY <2>1, <2>2 DEF TypesOK, Places, AtWakeUps
  <2>4. at'[a] = "link" /\ \A b \in Pushers : b # a => at'[b] = at[b]
    BY <2>1 DEF TypesOK
  <2> QED  BY <2>1, <2>3, <2>4, PlacesKept
<1>2. CASE Link(a)
  <2>1. /\ UNCHANGED <<state, stack, waiters, todo, owner, doing, timers, card, seen, pc>> /\ at[a] = "link"
        /\ at' = [at EXCEPT ![a] = "tail"]
        /\ \/ ready' = [ready EXCEPT !.head = Head(todo[a])]
           \/ seen[a] # Nil /\ ready' = [ready EXCEPT !.next[seen[a]] = Head(todo[a])]
    BY <1>2 DEF Link, Goto, chans
  <2>2. todo[a] # <<>> /\ Head(todo[a]) \in Cards
    BY <2>1 DEF PlacesOK
  <2>3. ready' \in CardLists
    <3>1. seen[a] \in Cards \cup {Nil} /\ ready \in CardLists
      BY DEF TypesOK
    <3>2. PICK h \in Cards : h = Head(todo[a])
      BY <2>2
    <3>3. \/ ready' = [ready EXCEPT !.head = h]
          \/ seen[a] \in Cards /\ ready' = [ready EXCEPT !.next[seen[a]] = h]
      BY <2>1, <3>1, <3>2
    <3> QED  BY <3>1, <3>3 DEF CardLists
  <2>4. TypesOK'
    BY <2>1, <2>3 DEF TypesOK, Places, AtWakeUps
  <2>5. at'[a] = "tail" /\ \A b \in Pushers : b # a => at'[b] = at[b]
    BY <2>1 DEF TypesOK
  <2> QED  BY <2>1, <2>2, <2>4, <2>5, PlacesKept
<1>3. CASE SetTail(a) \/ WakeMain(a)
  <2>1. /\ UNCHANGED <<state, stack, waiters, owner, doing, timers, card, seen, pc>> /\ todo[a] # <<>>
        /\ todo' = [todo EXCEPT ![a] = Tail(todo[a])]
        /\ \/ ready' = ready /\ at[a] = "wake" /\ \E p \in {at[Main], "retry"} : at' = [at EXCEPT ![Main] = p]
           \/ ready' = [ready EXCEPT !.tail = Head(todo[a])] /\ Head(todo[a]) \in Cards /\ at' = [at EXCEPT ![a] = "wake"]
    BY <1>3 DEF SetTail, WakeMain, Goto, queues, PlacesOK
  <2>2. Tail(todo[a]) \in Seq(Callers)
    BY <2>1, HeadTailProperties DEF TypesOK
  <2>3. ready' \in CardLists
    BY <2>1 DEF TypesOK, CardLists
  <2>4. at' \in [Pushers -> Places]
    BY <2>1, ThreadsAre DEF TypesOK, Places, AtWakeUps
  <2>5. TypesOK'
    BY <2>1, <2>2, <2>3, <2>4 DEF TypesOK
  <2>6. /\ at'[a] \in {"wake", "retry"} /\ \A b \in Pushers : b # a => at'[b] \in {at[b], "retry"} /\ todo'[b] = todo[b]
    BY <2>1, ThreadsAre DEF TypesOK
  <2> QED  BY <2>1, <2>5, <2>6, PlacesKept
<1>4. CASE LeaveSection(a)
  <2>1. /\ UNCHANGED <<state, stack, waiters, todo, owner, doing, timers, ready, card, seen, pc>>
        /\ \E p \in {"ending", "code"} : at' = [at EXCEPT ![a] = p]
        /\ cs = a
    BY <1>4 DEF LeaveSection, Goto, queues, chans
  <2>2. TypesOK'
    BY <2>1 DEF TypesOK, Places
  <2>3. at'[a] \in {"ending", "code"} /\ \A b \in Pushers : b # a => at'[b] = at[b]
    BY <2>1 DEF TypesOK
  <2>4. a \in Callers => doing[a] = Nil
    BY <2>1 DEF SectionsInv, InSection, InChannel
  <2> QED  BY <2>1, <2>2, <2>3, <2>4, PlacesKept
<1> QED  BY <1>1, <1>2, <1>3, <1>4 DEF PushStep

ChannelsInv == TypesOK /\ PlacesOK /\ SectionsInv /\ OwnersInv /\ NoWaiterBesideValue

(* Most steps concern no channel.                                          *)
LEMMA CallersMove ==
  ASSUME ChannelsInv, UNCHANGED <<owner, count>>, TypesOK', PlacesOK', SectionsInv',
         \A l \in ChanLists : waiters'[l] = waiters[l],
         \A a \in Callers :
           \/ at'[a] = at[a] /\ doing'[a] = doing[a]
           \/ at[a] \in AtWakeUps /\ at'[a] \in AtWakeUps /\ doing'[a] = doing[a]
           \/ ~InChannel(a) /\ ~InChannel(a)' /\ (at'[a] # "asleep" \/ doing'[a] \notin ChanLists)
  PROVE  ChannelsInv'
<1>1. TypesOK /\ OwnersInv /\ NoWaiterBesideValue
  BY DEF ChannelsInv
<1>2. \A a \in Callers : /\ InChannel(a)' <=> InChannel(a)
                         /\ InChannel(a) => doing'[a] = doing[a]
  BY DEF InChannel
<1>3. at'[Main] = "asleep" /\ doing'[Main] \in ChanLists => at[Main] = "asleep" /\ doing'[Main] = doing[Main]
  BY ListsAre DEF AtWakeUps
<1>4. OwnersInv'
  <2>1. \A a \in Callers : InChannel(a)' => doing'[a] \in ChanLists /\ owner'[doing'[a][1]] = a
    BY <1>1, <1>2 DEF OwnersInv
  <2>2. ASSUME NEW ch \in Chans, NEW b \in Callers, owner[ch] = b
        PROVE  /\ InChannel(b)' /\ doing'[b][1] = ch
               /\ \A side \in {"recv", "send"} : waiters'[<<ch, side>>] = <<>>
               /\ ~(at'[Main] = "asleep" /\ doing'[Main] = doing'[b])
    <3>1. /\ InChannel(b) /\ doing[b][1] = ch /\ doing[b] \in ChanLists
          /\ ~(at[Main] = "asleep" /\ doing[Main] = doing[b])
          /\ \A side \in {"recv", "send"} : waiters[<<ch, side>>] = <<>> /\ <<ch, side>> \in ChanLists
      BY <1>1, <2>2, ListsAre DEF OwnersInv
    <3>2. \A side \in {"recv", "send"} : waiters'[<<ch, side>>] = <<>>
      BY <3>1
    <3>3. InChannel(b)' /\ doing'[b] = doing[b]
      BY <1>2, <3>1
    <3> QED  BY <1>3, <3>1, <3>2, <3>3
  <2>3. owner' = owner
    OBVIOUS
  <2> QED  BY <2>1, <2>2, <2>3 DEF OwnersInv
<1>5. NoWaiterBesideValue'
  <2> SUFFICES ASSUME NEW ch \in Chans, NEW side \in {"recv", "send"}, owner[ch] = Nil, ~Blocks(<<ch, side>>)'
               PROVE  waiters'[<<ch, side>>] = <<>> /\ ~(at'[Main] = "asleep" /\ doing'[Main] = <<ch, side>>)
    BY DEF NoWaiterBesideValue
  <2>1. ~Blocks(<<ch, side>>)
    BY DEF Blocks
  <2>2. waiters[<<ch, side>>] = <<>> /\ ~(at[Main] = "asleep" /\ doing[Main] = <<ch, side>>)
    BY <1>1, <2>1 DEF NoWaiterBesideValue
  <2> QED  BY <1>3, <2>2, ListsAre
<1> QED  BY <1>4, <1>5 DEF ChannelsInv

LEMMA WorkersBeside ==
  ASSUME ChannelsInv, NEW w \in Workers, WorkerStep(w)
  PROVE  ChannelsInv'
<1>0. TypesOK /\ PlacesOK /\ SectionsInv
  BY DEF ChannelsInv
<1>1. TypesOK' /\ PlacesOK'
  BY <1>0, WorkerTypes
<1>2. /\ UNCHANGED <<doing, waiters, owner, count>>
      /\ \/ at' = at
         \/ \E p \in {"code", "retry", "saved", "over"} :
               at[card[w]] \in {"saved", "leaving", "ending"} /\ at' = [at EXCEPT ![card[w]] = p]
      /\ \/ cs' = cs /\ \E p \in Steps \ Critical : pc' = [pc EXCEPT ![w] = p] /\ pc[w] \notin Critical
         \/ cs' = cs /\ pc' = pc
         \/ cs' = cs /\ \E p \in Critical : pc' = [pc EXCEPT ![w] = p] /\ pc[w] \in Critical
         \/ cs = Nil /\ cs' = w /\ \E p \in Critical : pc' = [pc EXCEPT ![w] = p]
         \/ pc[w] \in Critical /\ cs' = Nil /\ \E p \in Steps \ Critical : pc' = [pc EXCEPT ![w] = p]
  <2>1. CASE Look(w) \/ ReadNext(w) \/ FallAsleep(w) \/ WakeUp(w)
    BY <2>1 DEF Look, ReadNext, FallAsleep, WakeUp, tasks, chans, queues, GoOn, Steps, Critical
  <2>2. CASE SetHead(w) \/ ClearTail(w)
    BY <2>2 DEF SetHead, ClearTail, tasks, chans, GoOn, Steps, Critical
  <2>3. CASE SwitchTo(w)
    BY <2>3 DEF SwitchTo, chans, GoOn, Steps, Critical
  <2>4. CASE Save(w) \/ TaskDone(w) \/ Back(w) \/ Free(w)
    BY <2>4 DEF Save, TaskDone, Back, Free, Goto, chans, queues, tasks, GoOn, Steps, Critical
  <2> QED  BY <2>1, <2>2, <2>3, <2>4 DEF WorkerStep
<1>3. \A a \in Pushers : \/ at'[a] = at[a]
                         \/ at[a] \in {"saved", "leaving", "ending"} /\ at'[a] \in {"code", "retry", "saved", "over"}
  BY <1>0, <1>2 DEF TypesOK
<1>4. \A a \in Pushers : (InSection(a)' <=> InSection(a)) /\ (InChannel(a)' <=> InChannel(a))
  BY <1>2, <1>3 DEF InSection, InChannel, AtWakeUps
<1>5. SectionsInv'
  <2>1. w \notin Pushers /\ w # Nil /\ Nil \notin Pushers
    BY ThreadsAre
  <2>2. \A a \in Pushers : InSection(a)' <=> cs' = a
    BY <1>0, <1>2, <1>4, <2>1 DEF SectionsInv
  <2>3. \A v \in Workers : v # w => pc'[v] = pc[v]
    BY <1>0, <1>2 DEF TypesOK
  <2>4. pc'[w] \in Critical <=> cs' = w
    BY <1>0, <1>2, <2>1 DEF TypesOK, SectionsInv
  <2>5. ASSUME NEW v \in Workers, v # w PROVE pc'[v] \in Critical <=> cs' = v
    BY <1>0, <1>2, <2>1, <2>3, <2>5, ThreadsAre DEF SectionsInv
  <2> QED  BY <2>2, <2>4, <2>5 DEF SectionsInv
<1>6. \A a \in Callers : \/ at'[a] = at[a] /\ doing'[a] = doing[a]
                         \/ ~InChannel(a) /\ ~InChannel(a)' /\ at'[a] # "asleep"
  BY <1>2, <1>3, ThreadsAre DEF InChannel, AtWakeUps
<1> QED  BY <1>1, <1>2, <1>5, <1>6, CallersMove

(* Steps of pushers.                                                       *)
LEMMA SectionsStay ==
  ASSUME SectionsInv, UNCHANGED <<cs, pc>>, \A a \in Pushers : InSection(a)' <=> InSection(a)
  PROVE  SectionsInv'
BY DEF SectionsInv

LEMMA SectionEntered ==
  ASSUME SectionsInv, NEW a \in Pushers, cs = Nil, cs' = a, pc' = pc, InSection(a)',
         \A b \in Pushers : b # a => (InSection(b)' <=> InSection(b))
  PROVE  SectionsInv'
<1>1. \A b \in Pushers : InSection(b)' <=> cs' = b
  BY ThreadsAre DEF SectionsInv
<1>2. \A w \in Workers : pc'[w] \in Critical <=> cs' = w
  BY ThreadsAre DEF SectionsInv
<1> QED  BY <1>1, <1>2 DEF SectionsInv

LEMMA CallsBeside ==
  ASSUME ChannelsInv, NEW a \in Callers,
         (\E l \in Lists : Call(a, l)) \/ WaitForTask(a)
  PROVE  ChannelsInv'
<1>0. TypesOK /\ PlacesOK /\ SectionsInv
  BY DEF ChannelsInv
<1>1. TypesOK' /\ PlacesOK'
  BY <1>0, CallTypes DEF CallStep
<1>2. ASSUME NEW l \in Lists, Call(a, l) PROVE ChannelsInv'
  <2>1. /\ UNCHANGED <<waiters, todo, owner, count, cs, pc>> /\ at[a] = "code"
        /\ at' = [at EXCEPT ![a] = "retry"] /\ doing' = [doing EXCEPT ![a] = l]
    BY <1>2 DEF Call, InCode, Goto, chans, queues
  <2>2. /\ \A b \in Pushers : b # a => at'[b] = at[b] /\ (b \in Callers => doing'[b] = doing[b])
        /\ at'[a] = "retry" /\ a \in Pushers
    BY <1>0, <2>1, ThreadsAre DEF TypesOK
  <2>3. SectionsInv'
    BY <1>0, <2>1, <2>2, SectionsStay DEF InSection, InChannel, AtWakeUps
  <2> QED  BY <1>1, <2>1, <2>2, <2>3, CallersMove, ThreadsAre DEF InChannel, AtWakeUps
<1>3. CASE WaitForTask(a)
  <2>1. at[a] = "retry" /\ doing[a] # Nil /\ doing[a][2] = "done"
    BY <1>3 DEF WaitForTask
  <2>2. doing[a] \in Lists /\ doing[a] \notin ChanLists
    BY <1>0, <2>1, ListsAre DEF TypesOK
  <2>3. CASE Returns(a) /\ UNCHANGED <<waiters, todo, owner, count, cs, pc>>
    <3>1. at' = [at EXCEPT ![a] = "code"] /\ doing' = [doing EXCEPT ![a] = Nil]
      BY <2>3 DEF Returns, Goto
    <3>2. /\ \A b \in Pushers : b # a => at'[b] = at[b] /\ (b \in Callers => doing'[b] = doing[b])
          /\ at'[a] = "code" /\ a \in Pushers
      BY <1>0, <3>1, ThreadsAre DEF TypesOK
    <3>3. SectionsInv'
      BY <1>0, <2>1, <2>3, <3>2, SectionsStay DEF InSection, InChannel, AtWakeUps
    <3> QED  BY <1>1, <2>1, <2>3, <3>2, <3>3, CallersMove, ThreadsAre DEF InChannel, AtWakeUps
  <2>4. CASE Wait(a, doing[a])
    <3>1. /\ waiters' \in [Lists -> Seq(Callers)] /\ \A k \in Lists : k # doing[a] => waiters'[k] = waiters[k]
          /\ at' = [at EXCEPT ![a] = IF IsCard(a) THEN "leaving" ELSE "asleep"]
          /\ UNCHANGED <<doing, count, owner, todo, cs, pc>>
      BY <1>0, <2>2, <2>4, WaitTypes
    <3>2. /\ \A b \in Pushers : b # a => at'[b] = at[b]
          /\ at'[a] \in {"leaving", "asleep"} /\ a \in Pushers
      BY <1>0, <3>1, ThreadsAre DEF TypesOK
    <3>3. \A l \in ChanLists : waiters'[l] = waiters[l]
      BY <2>2, <3>1, ListsAre
    <3>4. SectionsInv'
      BY <1>0, <2>1, <3>1, <3>2, SectionsStay DEF InSection, InChannel, AtWakeUps
    <3>5. UNCHANGED <<owner, count>>
      BY <3>1
    <3>6. \A b \in Callers :
             \/ at'[b] = at[b] /\ doing'[b] = doing[b]
             \/ ~InChannel(b) /\ ~InChannel(b)' /\ doing'[b] \notin ChanLists
      BY <2>1, <2>2, <3>1, <3>2, ThreadsAre DEF InChannel, AtWakeUps
    <3> QED  BY <1>1, <3>3, <3>4, <3>5, <3>6, CallersMove
  <2> QED  BY <1>3, <2>3, <2>4 DEF WaitForTask, queues, chans
<1> QED  BY <1>2, <1>3

LEMMA EntriesBeside ==
  ASSUME ChannelsInv,
         \/ \E a \in Callers, c \in Cards : SpawnTask(a, c)
         \/ \E c \in Cards : GoToSleep(c) \/ TimerFires(c) \/ Complete(c)
         \/ MainWakesEarly
  PROVE  ChannelsInv'
<1>0. TypesOK /\ PlacesOK /\ SectionsInv
  BY DEF ChannelsInv
<1>1. TypesOK' /\ PlacesOK'
  BY <1>0, EntryTypes
<1>2. ASSUME NEW a \in Pushers, NEW s, Enter(a, s), UNCHANGED <<doing, owner, count, pc>>,
             a \in Callers => at[a] = "code", \A l \in ChanLists : waiters'[l] = waiters[l]
      PROVE  ChannelsInv'
  <2>1. cs = Nil /\ cs' = a /\ at' = [at EXCEPT ![a] = "wake"]
    BY <1>2 DEF Enter, Goto
  <2>2. at'[a] = "wake" /\ \A b \in Pushers : b # a => at'[b] = at[b]
    BY <1>0, <2>1 DEF TypesOK
  <2>3. a \in Callers => doing[a] = Nil
    BY <1>0, <1>2 DEF PlacesOK
  <2>4. InSection(a)' /\ \A b \in Pushers : b # a => (InSection(b)' <=> InSection(b))
    BY <1>2, <2>2, <2>3 DEF InSection, InChannel, AtWakeUps
  <2>5. SectionsInv'
    BY <1>0, <1>2, <2>1, <2>4, SectionEntered
  <2>6. \A b \in Callers : \/ at'[b] = at[b] /\ doing'[b] = doing[b]
                           \/ ~InChannel(b) /\ ~InChannel(b)' /\ at'[b] # "asleep"
    BY <1>2, <2>2, <2>3, ThreadsAre DEF InChannel
  <2> QED  BY <1>1, <1>2, <2>5, <2>6, CallersMove
<1>3. ASSUME NEW a \in Callers, NEW c \in Cards, SpawnTask(a, c) PROVE ChannelsInv'
  <2>1. Enter(a, <<c>>) /\ UNCHANGED <<doing, owner, count, pc, waiters>> /\ at[a] = "code" /\ a \in Pushers
    BY <1>3, ThreadsAre DEF SpawnTask, InCode, queues
  <2> QED  BY <1>2, <2>1
<1>4. ASSUME NEW c \in Cards, TimerFires(c) PROVE ChannelsInv'
  <2>1. Enter(Timer, <<c>>) /\ UNCHANGED <<doing, owner, count, pc, waiters>> /\ Timer \in Pushers /\ Timer \notin Callers
    BY <1>4, ThreadsAre DEF TimerFires
  <2> QED  BY <1>2, <2>1
<1>5. ASSUME NEW c \in Cards, Complete(c) PROVE ChannelsInv'
  <2>1. /\ Enter(c, Released(c)) /\ UNCHANGED <<doing, owner, count, pc>> /\ at[c] = "code" /\ c \in Pushers
        /\ waiters' = [waiters EXCEPT ![<<c, "done">>] = <<>>]
    BY <1>5, ThreadsAre DEF Complete, InCode
  <2>2. \A l \in ChanLists : l # <<c, "done">> /\ l \in Lists
    BY ListsAre
  <2>3. \A l \in ChanLists : waiters'[l] = waiters[l]
    BY <1>0, <2>1, <2>2 DEF TypesOK
  <2> QED  BY <1>2, <2>1, <2>3
<1>6. ASSUME NEW c \in Cards, GoToSleep(c) PROVE ChannelsInv'
  <2>1. UNCHANGED <<doing, waiters, owner, count, cs, pc>> /\ at[c] = "code" /\ at' = [at EXCEPT ![c] = "leaving"]
    BY <1>6 DEF GoToSleep, InCode, Goto, chans
  <2>2. at'[c] = "leaving" /\ c \in Pushers /\ \A b \in Pushers : b # c => at'[b] = at[b]
    BY <1>0, <2>1, ThreadsAre DEF TypesOK
  <2>3. SectionsInv'
    BY <1>0, <2>1, <2>2, SectionsStay DEF InSection, InChannel, AtWakeUps
  <2> QED  BY <1>1, <2>1, <2>2, <2>3, CallersMove, ThreadsAre DEF InChannel, AtWakeUps
<1>7. CASE MainWakesEarly
  <2>1. UNCHANGED <<doing, waiters, owner, count, cs, pc>> /\ at[Main] = "asleep" /\ at' = [at EXCEPT ![Main] = "retry"]
    BY <1>7 DEF MainWakesEarly, Goto, chans, queues
  <2>2. at'[Main] = "retry" /\ \A b \in Pushers : b # Main => at'[b] = at[b]
    BY <1>0, <2>1, ThreadsAre DEF TypesOK
  <2>3. SectionsInv'
    BY <1>0, <2>1, <2>2, SectionsStay DEF InSection, InChannel, AtWakeUps
  <2> QED  BY <1>1, <2>1, <2>2, <2>3, CallersMove, ThreadsAre DEF InChannel, AtWakeUps
<1> QED  BY <1>3, <1>4, <1>5, <1>6, <1>7

LEMMA PushesBeside ==
  ASSUME ChannelsInv, NEW a \in Pushers, PushStep(a)
  PROVE  ChannelsInv'
<1>0. TypesOK /\ PlacesOK /\ SectionsInv
  BY DEF ChannelsInv
<1>1. TypesOK' /\ PlacesOK'
  BY <1>0, PushTypes
<1>2. CASE ReadTail(a) \/ Link(a) \/ SetTail(a)
  <2>1. /\ UNCHANGED <<doing, waiters, owner, count, cs, pc>> /\ at[a] \in AtWakeUps
        /\ \E p \in AtWakeUps : at' = [at EXCEPT ![a] = p]
    BY <1>2 DEF ReadTail, Link, SetTail, Goto, AtWakeUps, chans
  <2>2. \A b \in Pushers : at'[b] = at[b] \/ (at[b] \in AtWakeUps /\ at'[b] \in AtWakeUps)
    BY <1>0, <2>1 DEF TypesOK
  <2>3. SectionsInv'
    BY <1>0, <2>1, <2>2, SectionsStay DEF InSection, InChannel
  <2> QED  BY <1>1, <2>1, <2>2, <2>3, CallersMove, ThreadsAre
<1>3. CASE WakeMain(a)
  <2>1. /\ UNCHANGED <<doing, waiters, owner, count, cs, pc>>
        /\ at' = at \/ (at[Main] = "asleep" /\ at' = [at EXCEPT ![Main] = "retry"])
    <3>1. UNCHANGED <<doing, waiters, owner, count, cs, pc>>
      BY <1>3 DEF WakeMain, queues
    <3>2. \/ at[Main] = "asleep" /\ at' = [at EXCEPT ![Main] = "retry"]
          \/ at' = [at EXCEPT ![Main] = at[Main]]
      BY <1>3 DEF WakeMain
    <3> QED  BY <1>0, <3>1, <3>2 DEF TypesOK
  <2>2. \A b \in Pushers : at'[b] = at[b] \/ (at[b] = "asleep" /\ at'[b] = "retry")
    BY <1>0, <2>1 DEF TypesOK
  <2>3. SectionsInv'
    BY <1>0, <2>1, <2>2, SectionsStay DEF InSection, InChannel, AtWakeUps
  <2> QED  BY <1>1, <2>1, <2>2, <2>3, CallersMove, ThreadsAre DEF InChannel, AtWakeUps
<1>4. CASE LeaveSection(a)
  <2>1. /\ UNCHANGED <<doing, waiters, owner, count, pc>> /\ cs = a /\ cs' = Nil
        /\ \E p \in {"ending", "code"} : at' = [at EXCEPT ![a] = p]
    BY <1>4 DEF LeaveSection, Goto, chans, queues
  <2>2. at'[a] \in {"ending", "code"} /\ \A b \in Pushers : b # a => at'[b] = at[b]
    BY <1>0, <2>1 DEF TypesOK
  <2>3. InSection(a)
    BY <1>0, <2>1 DEF SectionsInv
  <2>4. SectionsInv'
    <3>1. \A b \in Pushers : InSection(b)' <=> cs' = b
      <4>1. \A b \in Pushers : ~InSection(b)'
        BY <1>0, <2>1, <2>2 DEF SectionsInv, InSection, InChannel, AtWakeUps
      <4> QED  BY <2>1, <4>1, ThreadsAre
    <3>2. \A w \in Workers : pc'[w] \in Critical <=> cs' = w
      BY <1>0, <2>1, ThreadsAre DEF SectionsInv
    <3> QED  BY <3>1, <3>2 DEF SectionsInv
  <2> QED  BY <1>1, <2>1, <2>2, <2>3, <2>4, CallersMove, ThreadsAre DEF InSection, InChannel, AtWakeUps
<1> QED  BY <1>2, <1>3, <1>4 DEF PushStep

(* atl_chan_send and atl_chan_recv.                                        *)
LEMMA ChannelWaitKeeps ==
  ASSUME ChannelsInv, NEW a \in Callers, ChannelWait(a)
  PROVE  ChannelsInv'
<1>0. TypesOK /\ PlacesOK /\ SectionsInv /\ OwnersInv /\ NoWaiterBesideValue
  BY DEF ChannelsInv
<1> DEFINE l == doing[a]
<1>1. at[a] = "retry" /\ l \in ChanLists /\ owner[l[1]] = Nil /\ Blocks(l) /\ Wait(a, l)
  BY <1>0, ListsAre DEF ChannelWait, TypesOK
<1>2. /\ waiters' \in [Lists -> Seq(Callers)] /\ \A k \in Lists : k # l => waiters'[k] = waiters[k]
      /\ at' = [at EXCEPT ![a] = IF IsCard(a) THEN "leaving" ELSE "asleep"]
      /\ UNCHANGED <<doing, count, owner, todo, cs, pc>>
  BY <1>0, <1>1, WaitTypes, ListsAre
<1>3. /\ \A b \in Pushers : b # a => at'[b] = at[b]
      /\ at'[a] \in {"leaving", "asleep"} /\ a \in Pushers
  BY <1>0, <1>2, ThreadsAre DEF TypesOK
<1>4. TypesOK' /\ PlacesOK' /\ SectionsInv'
  <2>1. SectionsInv'
    BY <1>0, <1>1, <1>2, <1>3, SectionsStay DEF InSection, InChannel, AtWakeUps
  <2> QED  BY <1>0, <2>1, CallTypes DEF CallStep
<1>5. \A b \in Callers : (InChannel(b) \/ InChannel(b)') => b # a /\ (InChannel(b) <=> InChannel(b)')
  BY <1>1, <1>2, <1>3, ThreadsAre DEF InChannel, AtWakeUps
<1>6. at'[Main] = "asleep" => at[Main] = "asleep" \/ doing[Main] = l
  BY <1>3, ListsAre, ThreadsAre
<1> HIDE DEF l
<1>7. OwnersInv'
  <2>1. \A b \in Callers : InChannel(b)' => doing'[b] \in ChanLists /\ owner'[doing'[b][1]] = b
    BY <1>0, <1>2, <1>5 DEF OwnersInv
  <2>2. ASSUME NEW ch \in Chans, NEW b \in Callers, owner[ch] = b
        PROVE  /\ InChannel(b)' /\ doing[b][1] = ch
               /\ \A side \in {"recv", "send"} : waiters'[<<ch, side>>] = <<>>
               /\ ~(at'[Main] = "asleep" /\ doing[Main] = doing[b])
    <3>1. /\ InChannel(b) /\ doing[b][1] = ch /\ ~(at[Main] = "asleep" /\ doing[Main] = doing[b])
          /\ \A side \in {"recv", "send"} : waiters[<<ch, side>>] = <<>>
      BY <1>0, <2>2 DEF OwnersInv
    <3>2. l[1] # ch
      BY <1>1, <2>2, ListsAre
    <3>3. \A side \in {"recv", "send"} : <<ch, side>> # l /\ <<ch, side>> \in Lists
      BY <3>2, ListsAre
    <3>4. \A side \in {"recv", "send"} : waiters'[<<ch, side>>] = <<>>
      BY <1>2, <3>1, <3>3
    <3>5. ~(at'[Main] = "asleep" /\ doing[Main] = doing[b])
      BY <1>6, <3>1, <3>2
    <3> QED  BY <1>5, <3>1, <3>4, <3>5
  <2> QED  BY <1>2, <2>1, <2>2 DEF OwnersInv
<1>8. NoWaiterBesideValue'
  <2> SUFFICES ASSUME NEW ch \in Chans, NEW side \in {"recv", "send"}, owner[ch] = Nil, ~Blocks(<<ch, side>>)'
               PROVE  waiters'[<<ch, side>>] = <<>> /\ ~(at'[Main] = "asleep" /\ doing'[Main] = <<ch, side>>)
    BY <1>2 DEF NoWaiterBesideValue
  <2>1. ~Blocks(<<ch, side>>)
    BY <1>2 DEF Blocks
  <2>2. waiters[<<ch, side>>] = <<>> /\ ~(at[Main] = "asleep" /\ doing[Main] = <<ch, side>>)
    BY <1>0, <2>1 DEF NoWaiterBesideValue
  <2>3. <<ch, side>> # l /\ <<ch, side>> \in Lists
    BY <1>1, <2>1, ListsAre
  <2> QED  BY <1>2, <1>6, <2>2, <2>3
<1> QED  BY <1>4, <1>7, <1>8 DEF ChannelsInv

LEMMA TransferKeeps ==
  ASSUME ChannelsInv, NEW a \in Callers, Transfer(a)
  PROVE  ChannelsInv'
<1>0. TypesOK /\ PlacesOK /\ SectionsInv /\ OwnersInv /\ NoWaiterBesideValue
  BY DEF ChannelsInv
<1> DEFINE l == doing[a]  ch == l[1]  there == <<ch, Other(l[2])>>
<1>1. at[a] = "retry" /\ l \in ChanLists /\ owner[ch] = Nil /\ ~Blocks(l)
  BY <1>0, ListsAre DEF Transfer, TypesOK
<1>2. /\ owner' = [owner EXCEPT ![ch] = a] /\ todo' = [todo EXCEPT ![a] = waiters[there]]
      /\ waiters' = [waiters EXCEPT ![there] = <<>>] /\ at' = [at EXCEPT ![a] = "wake"] /\ UNCHANGED <<doing, cs, pc>>
      /\ \A k \in Chans : k # ch => count'[k] = count[k]
  <2>1. owner' = [owner EXCEPT ![ch] = a] /\ todo' = [todo EXCEPT ![a] = waiters[there]]
    BY DEF Transfer
  <2>2. waiters' = [waiters EXCEPT ![there] = <<>>] /\ at' = [at EXCEPT ![a] = "wake"] /\ UNCHANGED <<doing, cs, pc>>
    BY DEF Transfer, Goto
  <2>3. \E n : count' = [count EXCEPT ![ch] = n]
    BY DEF Transfer
  <2> HIDE DEF l, ch, there
  <2> QED  BY <2>1, <2>2, <2>3
<1>3. /\ ch \in Chans /\ there \in ChanLists /\ there \in Lists /\ there # l /\ l = <<ch, l[2]>>
      /\ \A side \in {"recv", "send"} : <<ch, side>> \in {there, l}
  BY <1>1, ListsAre DEF Other
<1>4. waiters[l] = <<>> /\ ~(at[Main] = "asleep" /\ doing[Main] = l)
  BY <1>0, <1>1, <1>3 DEF NoWaiterBesideValue
<1>5. /\ \A b \in Pushers \ {a} : at'[b] = at[b]
      /\ at'[a] = "wake" /\ owner'[ch] = a /\ \A k \in Chans \ {ch} : owner'[k] = owner[k]
      /\ waiters'[there] = <<>> /\ \A k \in Lists \ {there} : waiters'[k] = waiters[k]
      /\ a \in Pushers /\ l # Nil
  BY <1>0, <1>1, <1>2, <1>3, ThreadsAre, ListsAre DEF TypesOK, Transfer
<1>6. TypesOK' /\ PlacesOK' /\ SectionsInv'
  <2> HIDE DEF l, ch, there
  <2>0. doing[a] # Nil
    BY <1>5 DEF l
  <2>1. \A b \in Pushers : InSection(b)' <=> InSection(b)
    BY <1>1, <1>2, <1>5, <2>0 DEF InSection, InChannel, AtWakeUps
  <2>2. SectionsInv'
    BY <1>0, <1>2, <2>1, SectionsStay
  <2> QED  BY <1>0, <2>2, CallTypes DEF CallStep
<1>10. InChannel(a)' /\ ~InChannel(a) /\ \A b \in Callers \ {a} : InChannel(b)' <=> InChannel(b)
  <2> HIDE DEF l, ch, there
  <2>0. doing[a] # Nil
    BY <1>5 DEF l
  <2> QED  BY <1>1, <1>2, <1>5, <2>0, ThreadsAre DEF InChannel, AtWakeUps
<1> HIDE DEF l, ch, there
<1>7. l = doing[a] /\ l[1] = ch
  BY DEF l, ch
<1>8. OwnersInv'
  <2>1. ASSUME NEW b \in Callers, InChannel(b)' PROVE doing[b] \in ChanLists /\ owner'[doing[b][1]] = b
    <3>1. CASE b = a
      BY <1>1, <1>5, <1>7, <3>1
    <3>2. CASE b # a
      <4>1. doing[b] \in ChanLists /\ owner[doing[b][1]] = b /\ b # Nil
        BY <1>0, <1>10, <2>1, <3>2, ListsAre DEF OwnersInv
      <4>2. doing[b][1] \in Chans \ {ch}
        BY <1>1, <4>1, ListsAre
      <4> QED  BY <1>5, <4>1, <4>2
    <3> QED  BY <3>1, <3>2
  <2>2. ASSUME NEW k \in Chans, NEW b \in Callers, owner'[k] = b
        PROVE  /\ InChannel(b)' /\ doing[b][1] = k
               /\ \A side \in {"recv", "send"} : waiters'[<<k, side>>] = <<>>
               /\ ~(at'[Main] = "asleep" /\ doing[Main] = doing[b])
    <3>1. CASE k = ch
      <4>1. \A side \in {"recv", "send"} : waiters'[<<k, side>>] = <<>>
        <5>1. l \in Lists /\ l # there /\ waiters'[l] = <<>>
          BY <1>1, <1>3, <1>4, <1>5, ListsAre
        <5> QED  BY <1>3, <1>5, <3>1, <5>1
      <4>2. ~(at'[Main] = "asleep" /\ doing[Main] = l)
        BY <1>4, <1>5, ListsAre, ThreadsAre
      <4>3. b = a
        BY <1>5, <2>2, <3>1
      <4> QED  BY <1>7, <1>10, <3>1, <4>1, <4>2, <4>3
    <3>2. CASE k # ch
      <4>1. owner[k] = b
        BY <1>5, <2>2, <3>2
      <4>2. /\ InChannel(b) /\ doing[b][1] = k
            /\ \A side \in {"recv", "send"} : waiters[<<k, side>>] = <<>>
            /\ ~(at[Main] = "asleep" /\ doing[Main] = doing[b])
        BY <1>0, <4>1 DEF OwnersInv
      <4>3. b # a
        BY <1>10, <4>2
      <4>4. \A side \in {"recv", "send"} : waiters'[<<k, side>>] = <<>>
        BY <1>5, <4>2, ListsAre
      <4>5. at'[Main] = "asleep" => at[Main] = "asleep"
        BY <1>5, ListsAre, ThreadsAre
      <4> QED  BY <1>10, <4>2, <4>3, <4>4, <4>5
    <3> QED  BY <3>1, <3>2
  <2> QED  BY <1>2, <2>1, <2>2 DEF OwnersInv
<1>9. NoWaiterBesideValue'
  <2> SUFFICES ASSUME NEW k \in Chans, NEW side \in {"recv", "send"}, owner'[k] = Nil, ~Blocks(<<k, side>>)'
               PROVE  waiters'[<<k, side>>] = <<>> /\ ~(at'[Main] = "asleep" /\ doing[Main] = <<k, side>>)
    BY <1>2 DEF NoWaiterBesideValue
  <2>1. k # ch /\ owner[k] = Nil
    BY <1>5, ListsAre, ThreadsAre
  <2>2. ~Blocks(<<k, side>>)
    BY <1>2, <2>1 DEF Blocks
  <2>3. waiters[<<k, side>>] = <<>> /\ ~(at[Main] = "asleep" /\ doing[Main] = <<k, side>>)
    BY <1>0, <2>1, <2>2 DEF NoWaiterBesideValue
  <2>4. waiters'[<<k, side>>] = waiters[<<k, side>>]
    BY <1>3, <1>5, <2>1, <2>3, ListsAre
  <2>5. at'[Main] = "asleep" => at[Main] = "asleep"
    BY <1>5, ListsAre, ThreadsAre
  <2> QED  BY <2>3, <2>4, <2>5
<1> QED  BY <1>6, <1>8, <1>9 DEF ChannelsInv

LEMMA LeaveKeeps ==
  ASSUME ChannelsInv, NEW a \in Callers, LeaveChannel(a)
  PROVE  ChannelsInv'
<1>0. TypesOK /\ PlacesOK /\ SectionsInv /\ OwnersInv /\ NoWaiterBesideValue
  BY DEF ChannelsInv
<1> DEFINE l == doing[a]  ch == l[1]
<1>1. at[a] = "wake" /\ l \in ChanLists /\ owner[ch] = a /\ ch \in Chans /\ l = <<ch, l[2]>> /\ l[2] \in {"recv", "send"}
  BY <1>0, ListsAre DEF LeaveChannel, OwnersInv, InChannel, AtWakeUps
<1>2. /\ owner' = [owner EXCEPT ![ch] = Nil] /\ UNCHANGED <<waiters, count, todo, cs, pc>>
      /\ at' = [at EXCEPT ![Main] = IF WakesMain(a) THEN "retry" ELSE at[Main], ![a] = "code"]
      /\ doing' = [doing EXCEPT ![a] = Nil]
  BY DEF LeaveChannel, queues
<1>3. /\ \A b \in Pushers : \/ b = a /\ at'[b] = "code"
                            \/ b # a /\ at'[b] = at[b]
                            \/ b = Main /\ at[b] = "asleep" /\ at'[b] = "retry"
      /\ Main # a /\ WakesMain(a) => at'[Main] = "retry"
      /\ \A b \in Callers \ {a} : doing'[b] = doing[b]
      /\ owner'[ch] = Nil /\ \A k \in Chans \ {ch} : owner'[k] = owner[k]
  <2>1. \E p \in {at[Main], "retry"} : /\ at' = [at EXCEPT ![Main] = p, ![a] = "code"]
                                       /\ p # at[Main] => at[Main] = "asleep"
                                       /\ WakesMain(a) => p = "retry"
    BY <1>2 DEF WakesMain
  <2> HIDE DEF l, ch
  <2> QED  BY <1>0, <1>1, <1>2, <2>1, ListsAre, ThreadsAre DEF TypesOK
<1>10. /\ InChannel(a) /\ ~InChannel(a)'
       /\ \A b \in Callers \ {a} : InChannel(b)' <=> InChannel(b)
  <2>1. InChannel(a)
    BY <1>1, ListsAre DEF InChannel, AtWakeUps, LeaveChannel
  <2>2. at'[a] = "code"
    <3>1. a \in Pushers
      BY ThreadsAre
    <3>2. \E p \in {at[Main], "retry"} : at' = [at EXCEPT ![Main] = p, ![a] = "code"]
      BY <1>2
    <3> QED  BY <1>0, <3>1, <3>2 DEF TypesOK
  <2> HIDE DEF l, ch
  <2> QED  BY <1>3, <2>1, <2>2, ThreadsAre DEF InChannel, AtWakeUps
<1>4. TypesOK' /\ PlacesOK' /\ SectionsInv'
  <2> HIDE DEF l, ch
  <2>1. \A b \in Pushers : InSection(b)' <=> InSection(b)
    BY <1>3, <1>10 DEF InSection, InChannel, AtWakeUps
  <2>2. SectionsInv'
    BY <1>0, <1>2, <2>1, SectionsStay
  <2> QED  BY <1>0, <2>2, CallTypes DEF CallStep
<1>5. l = doing[a] /\ l[1] = ch /\ (WakesMain(a) <=> at[Main] = "asleep" /\ doing[Main] = <<ch, Other(l[2])>>)
  BY DEF WakesMain
<1>6. /\ \A side \in {"recv", "send"} : waiters[<<ch, side>>] = <<>>
      /\ ~(at[Main] = "asleep" /\ doing[Main] = l)
  BY <1>0, <1>1, ListsAre DEF OwnersInv
<1> HIDE DEF l, ch
<1>7. at'[Main] = "asleep" => Main # a /\ at[Main] = "asleep" /\ doing'[Main] = doing[Main] /\ doing[Main] # <<ch, Other(l[2])>>
  BY <1>3, <1>5, ListsAre, ThreadsAre
<1>8. OwnersInv'
  <2>1. ASSUME NEW b \in Callers, InChannel(b)' PROVE doing'[b] \in ChanLists /\ owner'[doing'[b][1]] = b
    <3>1. b # a /\ InChannel(b) /\ doing'[b] = doing[b]
      BY <1>3, <1>10, <2>1
    <3>2. doing[b] \in ChanLists /\ owner[doing[b][1]] = b
      BY <1>0, <3>1 DEF OwnersInv
    <3>3. doing[b][1] \in Chans \ {ch}
      BY <1>1, <3>1, <3>2, ListsAre
    <3> QED  BY <1>3, <3>1, <3>2, <3>3
  <2>2. ASSUME NEW k \in Chans, NEW b \in Callers, owner'[k] = b
        PROVE  /\ InChannel(b)' /\ doing'[b][1] = k
               /\ \A side \in {"recv", "send"} : waiters[<<k, side>>] = <<>>
               /\ ~(at'[Main] = "asleep" /\ doing'[Main] = doing'[b])
    <3>1. k # ch /\ owner[k] = b
      BY <1>3, <2>2, ListsAre
    <3>2. /\ InChannel(b) /\ doing[b][1] = k
          /\ \A side \in {"recv", "send"} : waiters[<<k, side>>] = <<>>
          /\ ~(at[Main] = "asleep" /\ doing[Main] = doing[b])
      BY <1>0, <3>1 DEF OwnersInv
    <3>3. b # a
      BY <1>5, <3>1, <3>2
    <3>4. InChannel(b)' /\ doing'[b] = doing[b]
      BY <1>3, <1>10, <3>2, <3>3
    <3> QED  BY <1>7, <3>2, <3>4
  <2>3. waiters' = waiters
    BY <1>2
  <2> QED  BY <2>1, <2>2, <2>3 DEF OwnersInv
<1>9. NoWaiterBesideValue'
  <2> SUFFICES ASSUME NEW k \in Chans, NEW side \in {"recv", "send"}, owner'[k] = Nil, ~Blocks(<<k, side>>)'
               PROVE  waiters[<<k, side>>] = <<>> /\ ~(at'[Main] = "asleep" /\ doing'[Main] = <<k, side>>)
    BY <1>2 DEF NoWaiterBesideValue
  <2>1. CASE k = ch
    <3>1. <<k, side>> \in {l, <<ch, Other(l[2])>>}
      BY <1>1, <2>1 DEF Other
    <3> QED  BY <1>6, <1>7, <2>1, <3>1
  <2>2. CASE k # ch
    <3>1. owner[k] = Nil /\ ~Blocks(<<k, side>>)
      BY <1>2, <1>3, <2>2 DEF Blocks
    <3>2. waiters[<<k, side>>] = <<>> /\ ~(at[Main] = "asleep" /\ doing[Main] = <<k, side>>)
      BY <1>0, <3>1 DEF NoWaiterBesideValue
    <3> QED  BY <1>7, <3>2
  <2> QED  BY <2>1, <2>2
<1> QED  BY <1>4, <1>8, <1>9 DEF ChannelsInv

LEMMA ChannelsInit == Init => ChannelsInv
<1> SUFFICES ASSUME Init PROVE ChannelsInv
  OBVIOUS
<1>0. <<>> \in Seq(Callers)
  BY EmptySeq
<1>1. TypesOK
  BY <1>0, ThreadsAre DEF Init, TypesOK, CardLists, Places, Steps
<1>2. PlacesOK /\ SectionsInv
  BY ThreadsAre DEF Init, PlacesOK, SectionsInv, InSection, AtWakeUps, Critical
<1>3. OwnersInv
  BY ListsAre, ThreadsAre DEF Init, OwnersInv, InChannel, AtWakeUps
<1>4. NoWaiterBesideValue
  BY ListsAre, ThreadsAre DEF Init, NoWaiterBesideValue
<1> QED  BY <1>1, <1>2, <1>3, <1>4 DEF ChannelsInv

LEMMA ChannelsStep == ChannelsInv /\ [Next]_vars => ChannelsInv'
<1>1. ASSUME ChannelsInv, UNCHANGED vars PROVE ChannelsInv'
  <2>1. UNCHANGED <<at, pc, state, stack, doing, waiters, todo, owner, card, timers, ready, seen, cs, count>>
    BY <1>1 DEF vars, queues, tasks, chans
  <2>2. TypesOK' /\ PlacesOK' /\ SectionsInv'
    BY <1>1, <2>1 DEF ChannelsInv, TypesOK, PlacesOK, SectionsInv, InSection, InChannel
  <2>3. OwnersInv' /\ NoWaiterBesideValue'
    BY <1>1, <2>1 DEF ChannelsInv, OwnersInv, InChannel, NoWaiterBesideValue, Blocks
  <2> QED  BY <2>2, <2>3 DEF ChannelsInv
<1>2. ASSUME ChannelsInv, Next PROVE ChannelsInv'
  BY <1>2, WorkersBeside, CallsBeside, EntriesBeside, PushesBeside, ChannelWaitKeeps, TransferKeeps, LeaveKeeps
     DEF Next, Step, CallStep
<1> QED  BY <1>1, <1>2

(* Nobody stays asleep at a channel that has what they wait for: between   *)
(* two channel operations, when there is a value (or room), no card is in  *)
(* the list of receivers (or senders) and the main thread does not sleep   *)
(* there, although tasks are woken from a list and the main thread from a  *)
(* condition variable, whose waits may end early.                          *)
THEOREM NobodySleepsBesideValue == Spec => []NoWaiterBesideValue
<1>1. ChannelsInv => NoWaiterBesideValue
  BY DEF ChannelsInv
<1> QED  BY <1>1, ChannelsInit, ChannelsStep, PTL DEF Spec

(* Two threads are in the middle of a change of the ready list only if one *)
(* of them is a channel operation: g_sched_cs keeps the others apart.      *)
Apart ==
  \A s, t \in AtTheList : s # t => \E a \in {s, t} \cap Callers : doing[a] # Nil /\ InChannel(a)

LEMMA SectionsApart == ChannelsInv => Apart
<1> SUFFICES ASSUME ChannelsInv, NEW s \in AtTheList, NEW t \in AtTheList, s # t
             PROVE  \E a \in {s, t} \cap Callers : doing[a] # Nil /\ InChannel(a)
  BY DEF Apart
<1>1. ASSUME NEW u \in AtTheList PROVE InChannel(u) \/ cs = u
  <2>1. CASE u \in Workers /\ pc[u] \in {"next", "head", "clear"}
    BY <2>1 DEF ChannelsInv, SectionsInv, Critical
  <2>2. CASE u \in Pushers /\ at[u] \in {"link", "tail"}
    BY <2>2 DEF ChannelsInv, SectionsInv, InSection, AtWakeUps
  <2> QED  BY <2>1, <2>2 DEF AtTheList
<1> QED  BY <1>1 DEF InChannel

OverlapInv == overlapped => Chans # {}

LEMMA OverlapStep == OverlapInv /\ ChannelsInv' /\ [Next]_vars => OverlapInv'
<1> SUFFICES ASSUME OverlapInv, ChannelsInv', [Next]_vars, overlapped'
             PROVE  Chans # {}
  BY DEF OverlapInv
<1>1. overlapped \/ \E s, t \in AtTheList' : s # t
  BY DEF Next, Step, vars
<1>2. CASE overlapped
  BY <1>2 DEF OverlapInv
<1>3. ASSUME NEW s \in AtTheList', NEW t \in AtTheList', s # t PROVE Chans # {}
  <2>1. (ChannelsInv => Apart)'
    BY SectionsApart, PTL
  <2>2. PICK a \in Callers : InChannel(a)'
    BY <1>3, <2>1 DEF Apart
  <2>3. doing'[a] \in ChanLists
    BY <2>2 DEF ChannelsInv, OwnersInv
  <2> QED  BY <2>3 DEF ChanLists
<1> QED  BY <1>1, <1>2, <1>3

(* In a program without channels they never are.                           *)
THEOREM OnlyChannelsOverlap == Spec => [](overlapped => Chans # {})
<1>1. Init => OverlapInv
  BY DEF Init, OverlapInv
<1>2. Spec => []OverlapInv
  BY <1>1, OverlapStep, ChannelsInit, ChannelsStep, PTL DEF Spec
<1> QED  BY <1>2, PTL DEF OverlapInv

-----------------------------------------------------------------------------
(* The tasks, as long as no two threads have been in the middle of a       *)
(* change of the ready list at once.                                       *)
RunsOn(w, c) == pc[w] = "run" /\ card[w] = c
Holds(w, c)  == pc[w] \in Taken /\ card[w] = c

(* Where the code of a card is, who runs it and what its state says.       *)
CardOK(c) ==
  /\ at[c] \in {"saved", "over"} <=> \A w \in Workers : ~RunsOn(w, c)
  /\ at[c] # "asleep"
  /\ at[c] \in {"code", "retry"} => state[c] = "running"
  /\ at[c] \in AtWakeUps => state[c] = "running" \/ (state[c] = "done" /\ doing[c] = Nil)
  /\ at[c] = "leaving" => state[c] \in {"ready", "blocked"}
  /\ at[c] = "saved" => state[c] \in {"unborn", "ready", "blocked"}
  /\ at[c] \in {"ending", "over"} => state[c] = "done"
  /\ state[c] \in {"ready", "running", "blocked"} => stack[c] = "mapped"
CardsInv == \A c \in Cards : CardOK(c)

WorkersInv ==
  /\ \A w \in Workers : /\ pc[w] \in Taken => state[card[w]] = "ready"
                        /\ pc[w] = "free" => state[card[w]] = "done"
  /\ \A v, w \in Workers : v # w /\ card[v] = card[w] =>
        ~(pc[v] \in Taken /\ pc[w] \in Taken) /\ ~(pc[v] = "run" /\ pc[w] = "run")

(* Who waits, waits in one list or sleeps.                                 *)
WaitsIn(l, c) == c \in ToSet(waiters[l])
WaitingInv ==
  /\ \A l \in Lists : IsInjective(waiters[l])
  /\ \A l \in Lists : \A c \in Cards : WaitsIn(l, c) =>
        /\ state[c] = "blocked" /\ c \notin timers
        /\ \A k \in Lists : k # l => ~WaitsIn(k, c)
  /\ \A c \in timers : state[c] = "blocked"

(* A card that is to be put into the ready list is there for one pusher,   *)
(* and has left where it waited.                                           *)
IsFor(a, c) == c \in ToSet(todo[a])
TodoInv ==
  /\ \A a \in Pushers : IsInjective(todo[a]) /\ (at[a] \notin AtWakeUps => todo[a] = <<>>)
  /\ \A a \in Pushers : \A c \in Cards : IsFor(a, c) =>
       /\ state[c] \in {"blocked", "ready"}
       /\ c \notin timers /\ \A l \in Lists : ~WaitsIn(l, c)
       /\ \A b \in Pushers : b # a => ~IsFor(b, c)
       /\ \A w \in Workers : ~Holds(w, c)
       /\ at[a] \in {"link", "tail"} /\ c = Head(todo[a]) => state[c] = "ready"

StatesInv == CardsInv /\ WorkersInv /\ WaitingInv /\ TodoInv

(* The links hold the ready cards nobody has taken or still has to link.   *)
Pending(a, c) == IsFor(a, c) /\ ~(at[a] = "tail" /\ c = Head(todo[a]))
InLine(c) == state[c] = "ready" /\ (\A w \in Workers : ~Holds(w, c)) /\ (\A a \in Pushers : ~Pending(a, c))

ReadyIs(r) ==
  /\ IsInjective(r) /\ Chain(r, ready)
  /\ \A c \in Cards : c \in ToSet(r) <=> InLine(c)

(* The tail is the end of the links, but between two stores of one thread; *)
(* and what a thread has read is still so.                                 *)
TailIs(r) ==
  /\ (\A a \in Pushers : at[a] # "tail") /\ (\A w \in Workers : pc[w] # "clear") => ready.tail = EndOf(r)
  /\ \A a \in Pushers : at[a] = "link" => seen[a] = EndOf(r) /\ ready.next[Head(todo[a])] = Nil
  /\ \A a \in Pushers : at[a] = "tail" => EndOf(r) = Head(todo[a])
  /\ \A w \in Workers : pc[w] \in {"next", "head"} => r # <<>> /\ card[w] = ready.head
  /\ \A w \in Workers : pc[w] = "head" => seen[w] = ready.next[card[w]]
  /\ \A w \in Workers : pc[w] = "clear" => r = <<>>
ReadyInv == \E r \in Seq(Cards) : ReadyIs(r) /\ TailIs(r)

Alone == \A s, t \in AtTheList : s = t

TaskInv == StatesInv /\ ReadyInv /\ Alone /\ TornOnlyBeforeSave

(* A card that runs code or waits to save its context is on a worker.      *)
LEMMA WhoRuns ==
  ASSUME TypesOK, StatesInv, NEW c \in Cards
  PROVE  /\ at[c] \in {"code", "retry"} => state[c] = "running"
         /\ state[c] = "unborn" => at[c] = "saved"
         /\ state[c] \in {"ready", "blocked"} => at[c] \in {"leaving", "saved"}
         /\ state[c] # "blocked" => c \notin timers /\ \A l \in Lists : ~WaitsIn(l, c)
         /\ state[c] \notin {"blocked", "ready"} => \A a \in Pushers : ~IsFor(a, c)
         /\ state[c] # "ready" => \A w \in Workers : ~Holds(w, c)
<1>1. at[c] \in Places
  BY ThreadsAre DEF TypesOK
<1>2. state[c] # "blocked" => c \notin timers /\ \A l \in Lists : ~WaitsIn(l, c)
  BY DEF StatesInv, WaitingInv
<1>3. state[c] # "ready" => \A w \in Workers : ~Holds(w, c)
  BY DEF StatesInv, WorkersInv, Holds
<1>4. state[c] \notin {"blocked", "ready"} => \A a \in Pushers : ~IsFor(a, c)
  BY DEF StatesInv, TodoInv
<1>5. CardOK(c)
  BY DEF StatesInv, CardsInv
<1> QED  BY <1>1, <1>2, <1>3, <1>4, <1>5 DEF CardOK, AtWakeUps, Places

(* Steps that touch no link.                                               *)
LEMMA ReadyStays ==
  ASSUME ReadyInv, ready' = ready,
         \A c \in Cards : InLine(c)' <=> InLine(c),
         \A a \in Pushers : \/ {at[a], at'[a]} \cap {"link", "tail"} = {}
                            \/ at'[a] = at[a] /\ todo'[a] = todo[a] /\ seen'[a] = seen[a],
         \A w \in Workers : \/ {pc[w], pc'[w]} \cap {"next", "head", "clear"} = {}
                            \/ pc'[w] = pc[w] /\ card'[w] = card[w] /\ seen'[w] = seen[w]
  PROVE  ReadyInv'
<1>1. PICK r \in Seq(Cards) : ReadyIs(r) /\ TailIs(r)
  BY DEF ReadyInv
<1>2. ReadyIs(r)'
  BY <1>1 DEF ReadyIs
<1>3. TailIs(r)'
  <2>1. (\A a \in Pushers : at'[a] # "tail") /\ (\A w \in Workers : pc'[w] # "clear") => ready'.tail = EndOf(r)
    BY <1>1 DEF TailIs
  <2>2. \A a \in Pushers : /\ at'[a] = "link" => seen'[a] = EndOf(r) /\ ready'.next[Head(todo'[a])] = Nil
                           /\ at'[a] = "tail" => EndOf(r) = Head(todo'[a])
    BY <1>1 DEF TailIs
  <2>3. \A w \in Workers : /\ pc'[w] \in {"next", "head"} => r # <<>> /\ card'[w] = ready'.head
                           /\ pc'[w] = "head" => seen'[w] = ready'.next[card'[w]]
                           /\ pc'[w] = "clear" => r = <<>>
    BY <1>1 DEF TailIs
  <2> QED  BY <2>1, <2>2, <2>3 DEF TailIs
<1> QED  BY <1>2, <1>3 DEF ReadyInv

(* Who is in line, by what they hold and have to put in.                   *)
LEMMA LineStays ==
  ASSUME UNCHANGED <<pc, card>>, NEW c \in Cards, state'[c] = "ready" <=> state[c] = "ready",
         \A a \in Pushers : /\ IsFor(a, c)' <=> IsFor(a, c)
                            /\ "tail" \notin {at[a], at'[a]} \/ (at'[a] = at[a] /\ todo'[a] = todo[a])
  PROVE  InLine(c)' <=> InLine(c)
<1>1. \A a \in Pushers : Pending(a, c)' <=> Pending(a, c)
  BY DEF Pending
<1>2. \A w \in Workers : Holds(w, c)' <=> Holds(w, c)
  BY DEF Holds
<1> QED  BY <1>1, <1>2 DEF InLine

(* Steps of a worker beside the cards.                                     *)
LEMMA WorkerMoves ==
  ASSUME TypesOK, StatesInv, UNCHANGED <<at, doing, state, timers, waiters, todo>>,
         \A w \in Workers : /\ pc'[w] = "run" <=> pc[w] = "run"
                            /\ pc'[w] \in Taken <=> pc[w] \in Taken
                            /\ pc[w] \in Taken \cup {"run"} => card'[w] = card[w]
                            /\ pc'[w] = "free" => state[card'[w]] = "done",
         \A c \in Cards : state[c] # "done" => stack'[c] = stack[c]
  PROVE  StatesInv' /\ \A c \in Cards : InLine(c)' <=> InLine(c)
<1>1. \A w \in Workers, c \in Cards : (RunsOn(w, c)' <=> RunsOn(w, c)) /\ (Holds(w, c)' <=> Holds(w, c))
  BY DEF RunsOn, Holds
<1>2. CardsInv'
  <2>1. ASSUME NEW c \in Cards PROVE CardOK(c)'
    <3>1. CardOK(c)
      BY DEF StatesInv, CardsInv
    <3> QED  BY <1>1, <3>1 DEF CardOK
  <2> QED  BY <2>1 DEF CardsInv
<1>3. WorkersInv'
  <2>1. \A w \in Workers : /\ pc'[w] \in Taken => state[card'[w]] = "ready"
                           /\ pc'[w] = "free" => state[card'[w]] = "done"
    BY DEF StatesInv, WorkersInv
  <2>2. ASSUME NEW v \in Workers, NEW w \in Workers, v # w, card'[v] = card'[w]
        PROVE  ~(pc'[v] \in Taken /\ pc'[w] \in Taken) /\ ~(pc'[v] = "run" /\ pc'[w] = "run")
    BY <2>2 DEF StatesInv, WorkersInv
  <2> QED  BY <2>1, <2>2 DEF WorkersInv
<1>4. WaitingInv'
  BY DEF StatesInv, WaitingInv, WaitsIn
<1>5. TodoInv'
  BY <1>1 DEF StatesInv, TodoInv, IsFor, WaitsIn
<1>6. \A c \in Cards : InLine(c)' <=> InLine(c)
  BY <1>1 DEF InLine, Pending, IsFor
<1> QED  BY <1>2, <1>3, <1>4, <1>5, <1>6 DEF StatesInv

(* Steps of code that leave the cards' states alone.                       *)
LEMMA CallMoves ==
  ASSUME TypesOK, StatesInv, UNCHANGED <<state, timers, pc, card, stack>>,
         \A c \in Cards : \/ at'[c] = at[c] /\ doing'[c] = doing[c]
                          \/ state[c] = "running" /\ {at[c], at'[c]} \subseteq {"code", "retry"} \cup AtWakeUps
                          \/ {at[c], at'[c]} \subseteq AtWakeUps /\ doing'[c] = doing[c]
                          \/ at[c] \in AtWakeUps /\ at'[c] = "ending" /\ state[c] = "done",
         \A l \in Lists : IsInjective(waiters'[l]) /\ ToSet(waiters'[l]) \subseteq ToSet(waiters[l]) \cup {Main},
         \A a \in Pushers : \/ todo'[a] = todo[a]
                            \/ todo[a] # <<>> /\ todo'[a] = Tail(todo[a]) /\ at'[a] \notin {"link", "tail"},
         \A a \in Pushers : /\ at'[a] \in {"link", "tail"} => at[a] \in {"link", "tail"}
                            /\ at'[a] \notin AtWakeUps => todo'[a] = <<>>
  PROVE  StatesInv'
<1>1. CardsInv'
  <2>1. ASSUME NEW c \in Cards PROVE CardOK(c)'
    <3>1. CardOK(c) /\ \A w \in Workers : RunsOn(w, c)' <=> RunsOn(w, c)
      BY DEF StatesInv, CardsInv, RunsOn
    <3> QED  BY <3>1 DEF CardOK, AtWakeUps
  <2> QED  BY <2>1 DEF CardsInv
<1>2. WorkersInv'
  BY DEF StatesInv, WorkersInv
<1>3. \A l \in Lists, c \in Cards : WaitsIn(l, c)' => WaitsIn(l, c)
  BY DEF WaitsIn
<1>4. WaitingInv'
  BY <1>3 DEF StatesInv, WaitingInv
<1>5. ASSUME NEW a \in Pushers
      PROVE  /\ IsInjective(todo'[a]) /\ \A c \in Cards : IsFor(a, c)' => IsFor(a, c)
             /\ at'[a] \in {"link", "tail"} => todo'[a] = todo[a]
  <2>1. todo[a] \in Seq(Callers) /\ IsInjective(todo[a])
    BY DEF TypesOK, StatesInv, TodoInv
  <2>2. CASE todo'[a] = todo[a]
    BY <2>1, <2>2 DEF IsFor
  <2>3. CASE todo[a] # <<>> /\ todo'[a] = Tail(todo[a]) /\ at'[a] \notin {"link", "tail"}
    <3>1. IsInjective(Tail(todo[a])) /\ ToSet(Tail(todo[a])) = ToSet(todo[a]) \ {Head(todo[a])}
      BY <2>1, <2>3, OnceTail
    <3> QED  BY <2>3, <3>1 DEF IsFor
  <2> QED  BY <2>2, <2>3
<1>6. TodoInv'
  <2>1. ASSUME NEW a \in Pushers, NEW c \in Cards, IsFor(a, c)'
        PROVE  /\ state[c] \in {"blocked", "ready"}
               /\ c \notin timers /\ \A l \in Lists : ~WaitsIn(l, c)'
               /\ \A b \in Pushers : b # a => ~IsFor(b, c)'
               /\ \A w \in Workers : ~Holds(w, c)'
               /\ at'[a] \in {"link", "tail"} /\ c = Head(todo'[a]) => state[c] = "ready"
    <3>1. /\ state[c] \in {"blocked", "ready"}
          /\ c \notin timers /\ \A l \in Lists : ~WaitsIn(l, c)
          /\ \A b \in Pushers : b # a => ~IsFor(b, c)
          /\ \A w \in Workers : ~Holds(w, c)
          /\ at[a] \in {"link", "tail"} /\ c = Head(todo[a]) => state[c] = "ready"
      BY <1>5, <2>1 DEF StatesInv, TodoInv
    <3>2. \A w \in Workers : ~Holds(w, c)'
      BY <3>1 DEF Holds
    <3> QED  BY <1>3, <1>5, <3>1, <3>2
  <2> QED  BY <1>5, <2>1 DEF TodoInv
<1> QED  BY <1>1, <1>2, <1>4, <1>6 DEF StatesInv


(* A card that runs waits: in a list, or in the timer's.                   *)
LEMMA CardWaits ==
  ASSUME TypesOK, StatesInv, ReadyInv, NEW a \in Cards, at[a] \in {"code", "retry"},
         state' = [state EXCEPT ![a] = "blocked"], at' = [at EXCEPT ![a] = "leaving"],
         UNCHANGED <<ready, pc, card, stack, todo, seen, doing>>,
         \/ timers' = timers \cup {a} /\ waiters' = waiters
         \/ /\ timers' = timers
            /\ \E l \in Lists : waiters' = [waiters EXCEPT ![l] = Appended(waiters[l], a)]
  PROVE  StatesInv' /\ ReadyInv'
<1>0. a \in Pushers /\ a \in Callers
  BY ThreadsAre, ListsAre
<1>1. /\ state[a] = "running" /\ a \notin timers /\ \A l \in Lists : ~WaitsIn(l, a)
      /\ \A b \in Pushers : ~IsFor(b, a)
      /\ \A w \in Workers : ~Holds(w, a)
  BY WhoRuns
<1>2. /\ state'[a] = "blocked" /\ \A c \in Cards \ {a} : state'[c] = state[c]
      /\ at'[a] = "leaving" /\ \A b \in Pushers \ {a} : at'[b] = at[b]
  BY <1>0 DEF TypesOK
<1>3. CardsInv'
  <2>1. ASSUME NEW c \in Cards PROVE CardOK(c)'
    <3>1. CardOK(c) /\ \A w \in Workers : RunsOn(w, c)' <=> RunsOn(w, c)
      BY DEF StatesInv, CardsInv, RunsOn
    <3>2. CASE c = a
      BY <1>1, <1>2, <3>1, <3>2 DEF CardOK, AtWakeUps
    <3>3. CASE c # a
      BY <1>2, <3>1, <3>3, ThreadsAre DEF CardOK
    <3> QED  BY <3>2, <3>3
  <2> QED  BY <2>1 DEF CardsInv
<1>4. WorkersInv'
  <2>1. ASSUME NEW w \in Workers
        PROVE  /\ pc[w] \in Taken => state'[card[w]] = "ready"
               /\ pc[w] = "free" => state'[card[w]] = "done"
    <3>1. /\ pc[w] \in Taken => state[card[w]] = "ready"
          /\ pc[w] = "free" => state[card[w]] = "done"
      BY DEF StatesInv, WorkersInv
    <3> QED  BY <1>1, <3>1 DEF TypesOK
  <2> QED  BY <2>1 DEF StatesInv, WorkersInv
<1>5. /\ \A k \in Lists : IsInjective(waiters'[k])
      /\ \A k \in Lists, c \in Cards : c # a => (WaitsIn(k, c)' <=> WaitsIn(k, c))
      /\ \A c \in Cards : c # a => (c \in timers' <=> c \in timers)
      /\ timers' \subseteq Cards
      /\ \A k, l \in Lists : WaitsIn(k, a)' => a \notin timers' /\ (WaitsIn(l, a)' => k = l)
  <2>0. \A k \in Lists : IsInjective(waiters[k])
    BY DEF StatesInv, WaitingInv
  <2>1. CASE timers' = timers \cup {a} /\ waiters' = waiters
    BY <1>1, <2>0, <2>1 DEF WaitsIn, TypesOK
  <2>2. ASSUME NEW l \in Lists, timers' = timers, waiters' = [waiters EXCEPT ![l] = Appended(waiters[l], a)]
        PROVE  /\ \A k \in Lists : IsInjective(waiters'[k])
               /\ \A k \in Lists, c \in Cards : WaitsIn(k, c)' <=> WaitsIn(k, c) \/ (c = a /\ k = l)
    <3>1. waiters \in [Lists -> Seq(Callers)]
      BY DEF TypesOK
    <3>2. IsInjective(Appended(waiters[l], a)) /\ ToSet(Appended(waiters[l], a)) = ToSet(waiters[l]) \cup {a}
      BY <1>0, <1>1, <2>0, <3>1, AppendedOnce DEF WaitsIn
    <3>3. waiters'[l] = Appended(waiters[l], a) /\ \A k \in Lists \ {l} : waiters'[k] = waiters[k]
      BY <2>2, <3>1
    <3> QED  BY <2>0, <3>2, <3>3 DEF WaitsIn
  <2>3. CASE timers' = timers /\ \E l \in Lists : waiters' = [waiters EXCEPT ![l] = Appended(waiters[l], a)]
    <3>1. PICK l \in Lists : /\ \A k \in Lists : IsInjective(waiters'[k])
                             /\ \A k \in Lists, c \in Cards : WaitsIn(k, c)' <=> WaitsIn(k, c) \/ (c = a /\ k = l)
      BY <2>2, <2>3
    <3> QED  BY <1>1, <2>3, <3>1 DEF TypesOK
  <2> QED  BY <2>1, <2>3
<1>6. WaitingInv'
  <2>1. ASSUME NEW l \in Lists, NEW c \in Cards, WaitsIn(l, c)'
        PROVE  state'[c] = "blocked" /\ c \notin timers' /\ \A k \in Lists : k # l => ~WaitsIn(k, c)'
    <3>1. CASE c = a
      BY <1>2, <1>5, <2>1, <3>1
    <3>2. CASE c # a
      BY <1>2, <1>5, <2>1, <3>2 DEF StatesInv, WaitingInv
    <3> QED  BY <3>1, <3>2
  <2>2. \A c \in timers' : state'[c] = "blocked"
    BY <1>2, <1>5 DEF StatesInv, WaitingInv
  <2> QED  BY <1>5, <2>1, <2>2 DEF WaitingInv
<1>7. TodoInv'
  <2>1. \A b \in Pushers : at'[b] \in AtWakeUps <=> at[b] \in AtWakeUps
    BY <1>2 DEF AtWakeUps
  <2>2. \A b \in Pushers : at'[b] \in {"link", "tail"} <=> at[b] \in {"link", "tail"}
    BY <1>2
  <2>3. \A b \in Pushers, c \in Cards : (IsFor(b, c)' <=> IsFor(b, c)) /\ (IsFor(b, c) => c # a)
    BY <1>1 DEF IsFor
  <2>4. \A w \in Workers, c \in Cards : Holds(w, c)' <=> Holds(w, c)
    BY DEF Holds
  <2>5. ASSUME NEW b \in Pushers, NEW c \in Cards, IsFor(b, c)'
        PROVE  /\ state'[c] \in {"blocked", "ready"}
               /\ c \notin timers' /\ \A l \in Lists : ~WaitsIn(l, c)'
               /\ \A d \in Pushers : d # b => ~IsFor(d, c)'
               /\ \A w \in Workers : ~Holds(w, c)'
               /\ at'[b] \in {"link", "tail"} /\ c = Head(todo'[b]) => state'[c] = "ready"
    <3>1. /\ state[c] \in {"blocked", "ready"}
          /\ c \notin timers /\ \A l \in Lists : ~WaitsIn(l, c)
          /\ \A d \in Pushers : d # b => ~IsFor(d, c)
          /\ \A w \in Workers : ~Holds(w, c)
          /\ at[b] \in {"link", "tail"} /\ c = Head(todo[b]) => state[c] = "ready"
      BY <2>3, <2>5 DEF StatesInv, TodoInv
    <3>2. c # a
      BY <2>3, <2>5
    <3> QED  BY <1>2, <1>5, <2>2, <2>3, <2>4, <3>1, <3>2
  <2> QED  BY <2>1, <2>5 DEF StatesInv, TodoInv
<1>8. ReadyInv'
  <2>1. ASSUME NEW c \in Cards PROVE InLine(c)' <=> InLine(c)
    <3>1. state'[c] = "ready" <=> state[c] = "ready"
      BY <1>1, <1>2
    <3>2. \A b \in Pushers : IsFor(b, c)' <=> IsFor(b, c)
      BY DEF IsFor
    <3>3. \A b \in Pushers : "tail" \notin {at[b], at'[b]} \/ (at'[b] = at[b] /\ todo'[b] = todo[b])
      BY <1>2
    <3> QED  BY <3>1, <3>2, <3>3, LineStays
  <2>2. \A b \in Pushers : \/ {at[b], at'[b]} \cap {"link", "tail"} = {}
                           \/ at'[b] = at[b] /\ todo'[b] = todo[b] /\ seen'[b] = seen[b]
    BY <1>2
  <2> QED  BY <2>1, <2>2, ReadyStays
<1> QED  BY <1>3, <1>4, <1>6, <1>7, <1>8 DEF StatesInv

(* A thread takes cards from where they waited, to put them into the ready *)
(* list; it may be a task that has come to its end.                        *)
LEMMA TakenUp ==
  ASSUME TypesOK, PlacesOK, StatesInv, ReadyInv, NEW b \in Pushers, NEW s \in Seq(Callers), IsInjective(s),
         at[b] \notin AtWakeUps, b \in Cards => state[b] = "running",
         at' = [at EXCEPT ![b] = "wake"], todo' = [todo EXCEPT ![b] = s],
         UNCHANGED <<ready, pc, card, seen, doing>>,
         timers' \subseteq timers,
         \A l \in Lists : IsInjective(waiters'[l]) /\ ToSet(waiters'[l]) \subseteq ToSet(waiters[l]),
         \A c \in Cards : c \in ToSet(s) =>
           /\ state[c] \in {"unborn", "blocked"} /\ state'[c] \in {"blocked", "ready"} /\ stack'[c] = "mapped"
           /\ c \notin timers' /\ (\A l \in Lists : ~WaitsIn(l, c)') /\ \A a \in Pushers : ~IsFor(a, c),
         \A c \in Cards : c \notin ToSet(s) =>
           /\ stack'[c] = stack[c]
           /\ state'[c] = state[c] \/ (c = b /\ state'[c] = "done" /\ doing[c] = Nil)
  PROVE  StatesInv' /\ ReadyInv'
<1>0. /\ todo[b] = <<>> /\ ToSet(todo[b]) = {}
      /\ todo'[b] = s /\ \A a \in Pushers \ {b} : todo'[a] = todo[a]
      /\ at'[b] = "wake" /\ \A a \in Pushers \ {b} : at'[a] = at[a]
  BY DEF TypesOK, StatesInv, TodoInv, ToSet
<1>1. /\ \A c \in Cards, a \in Pushers : IsFor(a, c)' <=> IF a = b THEN c \in ToSet(s) ELSE IsFor(a, c)
      /\ \A c \in Cards : ~IsFor(b, c)
  BY <1>0 DEF IsFor
<1>2. \A c \in Cards, w \in Workers : (Holds(w, c)' <=> Holds(w, c)) /\ (RunsOn(w, c)' <=> RunsOn(w, c))
  BY DEF Holds, RunsOn
<1>3. \A c \in Cards : c \in ToSet(s) => /\ c # b /\ at[c] \in {"leaving", "saved"} /\ \A w \in Workers : ~Holds(w, c)
                                         /\ state[c] = "unborn" => at[c] = "saved"
  BY WhoRuns
<1>5. CardsInv'
  <2>1. ASSUME NEW c \in Cards PROVE CardOK(c)'
    <3>1. CardOK(c) /\ c \in Pushers
      BY ThreadsAre DEF StatesInv, CardsInv
    <3>2. CASE c = b
      <4>1. state[c] = "running" /\ at'[c] = "wake" /\ doing'[c] = doing[c] /\ c \notin ToSet(s)
        BY <1>0, <1>3, <3>2
      <4>2. at[c] \notin {"saved", "over"}
        BY <3>1, <4>1 DEF CardOK
      <4> QED  BY <1>2, <3>1, <3>2, <4>1, <4>2 DEF CardOK, AtWakeUps
    <3>3. CASE c # b /\ c \in ToSet(s)
      <4>1. at'[c] = at[c] /\ at[c] \in {"leaving", "saved"}
        BY <1>0, <1>3, <3>1, <3>3
      <4> QED  BY <1>2, <3>1, <3>3, <4>1 DEF CardOK, AtWakeUps
    <3>4. CASE c # b /\ c \notin ToSet(s)
      <4>1. at'[c] = at[c] /\ state'[c] = state[c] /\ stack'[c] = stack[c]
        BY <1>0, <3>1, <3>4
      <4> QED  BY <1>2, <3>1, <4>1 DEF CardOK
    <3> QED  BY <3>2, <3>3, <3>4
  <2> QED  BY <2>1 DEF CardsInv
<1>6. WorkersInv'
  <2>1. ASSUME NEW w \in Workers
        PROVE  /\ pc[w] \in Taken => state'[card[w]] = "ready"
               /\ pc[w] = "free" => state'[card[w]] = "done"
    <3>1. /\ pc[w] \in Taken => state[card[w]] = "ready"
          /\ pc[w] = "free" => state[card[w]] = "done"
          /\ pc[w] \in Taken \cup {"free"} => card[w] \in Cards
      BY DEF StatesInv, WorkersInv, PlacesOK, Taken
    <3> QED  BY <3>1
  <2> QED  BY <2>1 DEF StatesInv, WorkersInv
<1>7. WaitingInv'
  <2>1. \A l \in Lists, c \in Cards : WaitsIn(l, c)' => WaitsIn(l, c) /\ c \notin ToSet(s)
    BY DEF WaitsIn
  <2>2. ASSUME NEW l \in Lists, NEW c \in Cards, WaitsIn(l, c)'
        PROVE  state'[c] = "blocked" /\ c \notin timers' /\ \A k \in Lists : k # l => ~WaitsIn(k, c)'
    <3>1. state[c] = "blocked" /\ c \notin timers /\ \A k \in Lists : k # l => ~WaitsIn(k, c)
      BY <2>1, <2>2 DEF StatesInv, WaitingInv
    <3> QED  BY <2>1, <2>2, <3>1
  <2>3. ASSUME NEW c \in timers' PROVE state'[c] = "blocked"
    <3>1. c \in Cards /\ state[c] = "blocked" /\ c \notin ToSet(s)
      BY <2>3 DEF StatesInv, WaitingInv, TypesOK
    <3> QED  BY <3>1
  <2> QED  BY <2>2, <2>3 DEF WaitingInv
<1>8. TodoInv'
  <2>1. ASSUME NEW a \in Pushers PROVE IsInjective(todo'[a]) /\ (at'[a] \notin AtWakeUps => todo'[a] = <<>>)
    BY <1>0 DEF StatesInv, TodoInv, AtWakeUps
  <2>2. ASSUME NEW a \in Pushers, NEW c \in Cards, IsFor(a, c)'
        PROVE  /\ state'[c] \in {"blocked", "ready"}
               /\ c \notin timers' /\ \A l \in Lists : ~WaitsIn(l, c)'
               /\ \A d \in Pushers : d # a => ~IsFor(d, c)'
               /\ \A w \in Workers : ~Holds(w, c)'
               /\ at'[a] \in {"link", "tail"} /\ c = Head(todo'[a]) => state'[c] = "ready"
    <3>1. CASE a = b
      BY <1>0, <1>1, <1>2, <1>3, <2>2, <3>1
    <3>2. CASE a # b
      <4>1. /\ IsFor(a, c) /\ c \notin ToSet(s)
        BY <1>1, <2>2, <3>2
      <4>2. /\ state[c] \in {"blocked", "ready"}
            /\ c \notin timers /\ \A l \in Lists : ~WaitsIn(l, c)
            /\ \A d \in Pushers : d # a => ~IsFor(d, c)
            /\ \A w \in Workers : ~Holds(w, c)
            /\ at[a] \in {"link", "tail"} /\ c = Head(todo[a]) => state[c] = "ready"
        BY <4>1 DEF StatesInv, TodoInv
      <4>3. state'[c] = state[c] /\ \A l \in Lists : ~WaitsIn(l, c)'
        BY <4>1, <4>2 DEF WaitsIn
      <4> QED  BY <1>0, <1>1, <1>2, <3>2, <4>1, <4>2, <4>3
    <3> QED  BY <3>1, <3>2
  <2> QED  BY <2>1, <2>2 DEF TodoInv
<1>9. ReadyInv'
  <2>1. ASSUME NEW c \in Cards PROVE InLine(c)' <=> InLine(c)
    <3>1. CASE c \in ToSet(s)
      <4>1. Pending(b, c)'
        BY <1>0, <1>1, <3>1 DEF Pending
      <4> QED  BY <3>1, <4>1 DEF InLine
    <3>2. CASE c \notin ToSet(s)
      <4>1. state'[c] = "ready" <=> state[c] = "ready"
        BY <3>2
      <4>2. \A a \in Pushers : /\ IsFor(a, c)' <=> IsFor(a, c)
                               /\ "tail" \notin {at[a], at'[a]} \/ (at'[a] = at[a] /\ todo'[a] = todo[a])
        BY <1>0, <1>1, <3>2 DEF AtWakeUps
      <4> QED  BY <4>1, <4>2, LineStays
    <3> QED  BY <3>1, <3>2
  <2>2. \A a \in Pushers : \/ {at[a], at'[a]} \cap {"link", "tail"} = {}
                           \/ at'[a] = at[a] /\ todo'[a] = todo[a] /\ seen'[a] = seen[a]
    BY <1>0 DEF AtWakeUps
  <2> QED  BY <2>1, <2>2, ReadyStays
<1> QED  BY <1>5, <1>6, <1>7, <1>8, <1>9 DEF StatesInv

LEMMA OneCard ==
  ASSUME NEW c \in Cards
  PROVE  <<c>> \in Seq(Callers) /\ IsInjective(<<c>>) /\ ToSet(<<c>>) = {c}
<1>1. c \in Callers
  BY DEF Callers
<1>2. <<c>> \in Seq(Callers) /\ Len(<<c>>) = 1 /\ DOMAIN <<c>> = {1} /\ <<c>>[1] = c
  BY <1>1
<1> QED  BY <1>2 DEF IsInjective, ToSet

LEMMA EntriesKeep ==
  ASSUME ChannelsInv, StatesInv, ReadyInv,
         \/ \E a \in Callers, c \in Cards : SpawnTask(a, c)
         \/ \E c \in Cards : TimerFires(c) \/ Complete(c)
  PROVE  StatesInv' /\ ReadyInv'
<1>0. TypesOK /\ PlacesOK
  BY DEF ChannelsInv
<1>1. ASSUME NEW a \in Callers, NEW c \in Cards, SpawnTask(a, c) PROVE StatesInv' /\ ReadyInv'
  <2>1. /\ state[c] = "unborn" /\ at[a] = "code" /\ a \in Pushers
        /\ at' = [at EXCEPT ![a] = "wake"] /\ todo' = [todo EXCEPT ![a] = <<c>>]
        /\ state' = [state EXCEPT ![c] = "ready"] /\ stack' = [stack EXCEPT ![c] = "mapped"]
        /\ UNCHANGED <<ready, waiters, timers, pc, card, seen, doing>>
    BY <1>1, ThreadsAre DEF SpawnTask, InCode, Enter, Goto, queues
  <2>2. c \notin timers /\ (\A l \in Lists : ~WaitsIn(l, c)) /\ \A b \in Pushers : ~IsFor(b, c)
    BY <1>0, <2>1, WhoRuns
  <2>3. a \in Cards => state[a] = "running"
    BY <1>0, <2>1, WhoRuns
  <2>4. \A d \in Cards : d \in ToSet(<<c>>) =>
           /\ state[d] \in {"unborn", "blocked"} /\ state'[d] \in {"blocked", "ready"} /\ stack'[d] = "mapped"
           /\ d \notin timers' /\ (\A l \in Lists : ~WaitsIn(l, d)') /\ \A b \in Pushers : ~IsFor(b, d)
    BY <1>0, <2>1, <2>2, OneCard DEF TypesOK, WaitsIn
  <2>5. \A d \in Cards : d \notin ToSet(<<c>>) => stack'[d] = stack[d] /\ state'[d] = state[d]
    BY <1>0, <2>1, OneCard DEF TypesOK
  <2>6. at[a] \notin AtWakeUps
    BY <2>1 DEF AtWakeUps
  <2>7. \A l \in Lists : IsInjective(waiters'[l]) /\ ToSet(waiters'[l]) \subseteq ToSet(waiters[l])
    BY <2>1 DEF StatesInv, WaitingInv
  <2>8. UNCHANGED <<ready, pc, card, seen, doing>> /\ timers' \subseteq timers
    BY <2>1
  <2> QED  BY <1>0, <2>1, <2>3, <2>4, <2>5, <2>6, <2>7, <2>8, OneCard, TakenUp
<1>2. ASSUME NEW c \in Cards, TimerFires(c) PROVE StatesInv' /\ ReadyInv'
  <2>1. /\ c \in timers /\ cs = Nil /\ timers' = timers \ {c}
        /\ at' = [at EXCEPT ![Timer] = "wake"] /\ todo' = [todo EXCEPT ![Timer] = <<c>>]
        /\ UNCHANGED <<ready, waiters, state, stack, pc, card, seen, doing>>
    BY <1>2 DEF TimerFires, Fired, Enter, Goto
  <2>2. /\ state[c] = "blocked" /\ stack[c] = "mapped" /\ (\A l \in Lists : ~WaitsIn(l, c))
        /\ \A b \in Pushers : ~IsFor(b, c)
    <3>1. state[c] = "blocked" /\ \A l \in Lists : ~WaitsIn(l, c)
      BY <2>1 DEF StatesInv, WaitingInv
    <3> QED  BY <2>1, <3>1 DEF StatesInv, TodoInv, CardsInv, CardOK
  <2>3. \A d \in Cards : d \in ToSet(<<c>>) =>
           /\ state[d] \in {"unborn", "blocked"} /\ state'[d] \in {"blocked", "ready"} /\ stack'[d] = "mapped"
           /\ d \notin timers' /\ (\A l \in Lists : ~WaitsIn(l, d)') /\ \A b \in Pushers : ~IsFor(b, d)
    BY <2>1, <2>2, OneCard DEF WaitsIn
  <2>4. at[Timer] \notin AtWakeUps /\ Timer \in Pushers /\ Timer \notin Cards
    BY <2>1, ThreadsAre, ListsAre DEF ChannelsInv, SectionsInv, InSection, InChannel
  <2>5. \A l \in Lists : IsInjective(waiters'[l]) /\ ToSet(waiters'[l]) \subseteq ToSet(waiters[l])
    BY <2>1 DEF StatesInv, WaitingInv
  <2>6. \A d \in Cards : d \notin ToSet(<<c>>) => stack'[d] = stack[d] /\ state'[d] = state[d]
    BY <2>1
  <2>7. UNCHANGED <<ready, pc, card, seen, doing>> /\ timers' \subseteq timers
    BY <2>1
  <2> QED  BY <1>0, <2>1, <2>3, <2>4, <2>5, <2>6, <2>7, OneCard, TakenUp
<1>3. ASSUME NEW c \in Cards, Complete(c) PROVE StatesInv' /\ ReadyInv'
  <2> DEFINE l == <<c, "done">>  s == waiters[l]
  <2>1. /\ at[c] = "code" /\ c \in Pushers /\ c \in Callers /\ waiters' = [waiters EXCEPT ![l] = <<>>]
        /\ at' = [at EXCEPT ![c] = "wake"] /\ todo' = [todo EXCEPT ![c] = s]
        /\ state' = [state EXCEPT ![c] = "done"]
        /\ UNCHANGED <<ready, timers, stack, pc, card, seen, doing>>
    BY <1>3, ThreadsAre, ListsAre DEF Complete, Released, InCode, Enter, Goto
  <2>2. l \in Lists /\ s \in Seq(Callers) /\ IsInjective(s) /\ ToSet(<<>>) = {} /\ IsInjective(<<>>)
    <3>1. ToSet(<<>>) = {} /\ IsInjective(<<>>)
      BY DEF ToSet, IsInjective
    <3> QED  BY <1>0, <3>1, ListsAre DEF TypesOK, StatesInv, WaitingInv
  <2>3. waiters'[l] = <<>> /\ \A k \in Lists \ {l} : waiters'[k] = waiters[k]
    <3>1. waiters \in [Lists -> Seq(Callers)]
      BY <1>0 DEF TypesOK
    <3> HIDE DEF l, s
    <3> QED  BY <2>1, <2>2, <3>1
  <2>4. state[c] = "running" /\ doing[c] = Nil /\ at[c] \notin AtWakeUps
    BY <1>0, <2>1, WhoRuns DEF PlacesOK, AtWakeUps
  <2>5. s = waiters[l]
    OBVIOUS
  <2> HIDE DEF l, s
  <2>6. \A d \in Cards : d \in ToSet(s) => WaitsIn(l, d)
    BY <2>5 DEF WaitsIn
  <2>7. \A d \in Cards : d \in ToSet(s) =>
           /\ state[d] = "blocked" /\ d \notin timers /\ (\A k \in Lists : k # l => ~WaitsIn(k, d))
           /\ \A b \in Pushers : ~IsFor(b, d)
           /\ stack[d] = "mapped"
    BY <2>2, <2>6 DEF StatesInv, WaitingInv, TodoInv, CardsInv, CardOK
  <2>8. ASSUME NEW d \in Cards, d \in ToSet(s)
        PROVE  /\ state[d] \in {"unborn", "blocked"} /\ state'[d] \in {"blocked", "ready"} /\ stack'[d] = "mapped"
               /\ d \notin timers' /\ (\A k \in Lists : ~WaitsIn(k, d)') /\ \A b \in Pushers : ~IsFor(b, d)
    <3>1. \A k \in Lists : ~WaitsIn(k, d)'
      BY <2>2, <2>3, <2>7, <2>8 DEF WaitsIn
    <3>2. state'[d] = state[d]
      BY <1>0, <2>1, <2>4, <2>7, <2>8 DEF TypesOK
    <3> QED  BY <2>1, <2>7, <2>8, <3>1, <3>2
  <2>9. \A d \in Cards : d \notin ToSet(s) =>
           /\ stack'[d] = stack[d]
           /\ state'[d] = state[d] \/ (d = c /\ state'[d] = "done" /\ doing[d] = Nil)
    BY <1>0, <2>1, <2>4 DEF TypesOK
  <2>10. \A k \in Lists : IsInjective(waiters'[k]) /\ ToSet(waiters'[k]) \subseteq ToSet(waiters[k])
    BY <2>2, <2>3 DEF StatesInv, WaitingInv
  <2>11. UNCHANGED <<ready, pc, card, seen, doing>> /\ timers' \subseteq timers
    BY <2>1
  <2> QED  BY <1>0, <2>1, <2>2, <2>4, <2>8, <2>9, <2>10, <2>11, TakenUp
<1> QED  BY <1>1, <1>2, <1>3

LEMMA TransferTakes ==
  ASSUME ChannelsInv, StatesInv, ReadyInv, NEW a \in Callers, Transfer(a)
  PROVE  StatesInv' /\ ReadyInv'
<1>0. TypesOK /\ PlacesOK
  BY DEF ChannelsInv
<1>1. /\ at[a] = "retry" /\ a \in Pushers /\ at[a] \notin AtWakeUps
      /\ at' = [at EXCEPT ![a] = "wake"]
      /\ UNCHANGED <<state, stack, ready, timers, pc, card, seen, doing>>
  BY ThreadsAre DEF Transfer, Goto, AtWakeUps
<1>2. PICK l \in Lists : /\ todo' = [todo EXCEPT ![a] = waiters[l]]
                         /\ waiters' = [waiters EXCEPT ![l] = <<>>]
  <2>1. <<doing[a][1], Other(doing[a][2])>> \in Lists
    BY <1>0, ListsAre DEF Transfer, TypesOK, Other
  <2> QED  BY <2>1 DEF Transfer
<1>3. /\ waiters[l] \in Seq(Callers) /\ IsInjective(waiters[l]) /\ ToSet(<<>>) = {} /\ IsInjective(<<>>)
      /\ waiters'[l] = <<>> /\ \A k \in Lists \ {l} : waiters'[k] = waiters[k]
  <2>1. waiters \in [Lists -> Seq(Callers)]
    BY <1>0 DEF TypesOK
  <2> QED  BY <1>2, <2>1 DEF StatesInv, WaitingInv, ToSet, IsInjective
<1>4. a \in Cards => state[a] = "running"
  BY <1>0, <1>1, WhoRuns
<1>5. \A d \in Cards : d \in ToSet(waiters[l]) =>
         /\ state[d] = "blocked" /\ d \notin timers /\ (\A k \in Lists : k # l => ~WaitsIn(k, d))
         /\ \A b \in Pushers : ~IsFor(b, d)
         /\ stack[d] = "mapped"
  <2>1. \A d \in Cards : d \in ToSet(waiters[l]) => WaitsIn(l, d)
    BY DEF WaitsIn
  <2> QED  BY <2>1 DEF StatesInv, WaitingInv, TodoInv, CardsInv, CardOK
<1>6. ASSUME NEW d \in Cards, d \in ToSet(waiters[l])
      PROVE  /\ state[d] \in {"unborn", "blocked"} /\ state'[d] \in {"blocked", "ready"} /\ stack'[d] = "mapped"
             /\ d \notin timers' /\ (\A k \in Lists : ~WaitsIn(k, d)') /\ \A b \in Pushers : ~IsFor(b, d)
  <2>1. \A k \in Lists : ~WaitsIn(k, d)'
    BY <1>3, <1>5, <1>6 DEF WaitsIn
  <2> QED  BY <1>1, <1>5, <1>6, <2>1
<1>7. \A k \in Lists : IsInjective(waiters'[k]) /\ ToSet(waiters'[k]) \subseteq ToSet(waiters[k])
  BY <1>3 DEF StatesInv, WaitingInv
<1>8. \A d \in Cards : stack'[d] = stack[d] /\ state'[d] = state[d]
  BY <1>1
<1>9. UNCHANGED <<ready, pc, card, seen, doing>> /\ timers' \subseteq timers
  BY <1>1
<1> QED  BY <1>0, <1>1, <1>2, <1>3, <1>4, <1>6, <1>7, <1>8, <1>9, TakenUp

(* A worker's own context is back: its card is saved, or over.             *)
LEMMA CardLeaves ==
  ASSUME TypesOK, PlacesOK, StatesInv, ReadyInv, NEW w \in Workers, pc[w] = "run", NEW p \in {"saved", "over"},
         at[card[w]] = IF p = "saved" THEN "leaving" ELSE "ending",
         at' = [at EXCEPT ![card[w]] = p], pc' = [pc EXCEPT ![w] = "back"],
         UNCHANGED <<state, ready, waiters, timers, card, stack, todo, seen, doing>>
  PROVE  StatesInv' /\ ReadyInv'
<1>1. PICK c \in Cards : c = card[w]
  BY DEF PlacesOK
<1>2. /\ pc'[w] = "back" /\ \A v \in Workers \ {w} : pc'[v] = pc[v]
      /\ at'[c] = p /\ \A b \in Pushers \ {c} : at'[b] = at[b]
      /\ at[c] \in {"leaving", "ending"} /\ c \in Pushers
  BY <1>1, ThreadsAre DEF TypesOK
<1>3. \A v \in Workers : ~RunsOn(v, c)'
  <2>1. \A v \in Workers \ {w} : ~RunsOn(v, c)
    BY <1>1 DEF StatesInv, WorkersInv, RunsOn
  <2> QED  BY <1>2, <2>1 DEF RunsOn
<1>4. /\ \A v \in Workers, d \in Cards : d # c => (RunsOn(v, d)' <=> RunsOn(v, d))
      /\ \A v \in Workers, d \in Cards : Holds(v, d)' <=> Holds(v, d)
  BY <1>1, <1>2 DEF RunsOn, Holds, Taken
<1>5. CardsInv'
  <2>1. ASSUME NEW d \in Cards PROVE CardOK(d)'
    <3>1. CardOK(d) /\ d \in Pushers
      BY ThreadsAre DEF StatesInv, CardsInv
    <3>2. CASE d = c
      BY <1>1, <1>2, <1>3, <3>1, <3>2 DEF CardOK, AtWakeUps
    <3>3. CASE d # c
      <4>1. at'[d] = at[d] /\ \A v \in Workers : RunsOn(v, d)' <=> RunsOn(v, d)
        BY <1>2, <1>4, <3>1, <3>3
      <4> QED  BY <3>1, <4>1 DEF CardOK
    <3> QED  BY <3>2, <3>3
  <2> QED  BY <2>1 DEF CardsInv
<1>6. WorkersInv'
  <2>1. \A v \in Workers : /\ pc'[v] \in Taken => pc[v] \in Taken
                           /\ pc'[v] = "free" => pc[v] = "free"
                           /\ pc'[v] = "run" => pc[v] = "run"
    BY <1>2 DEF Taken
  <2> QED  BY <2>1 DEF StatesInv, WorkersInv
<1>7. WaitingInv'
  BY DEF StatesInv, WaitingInv, WaitsIn
<1>8. \A b \in Pushers : /\ at'[b] \in AtWakeUps <=> at[b] \in AtWakeUps
                         /\ {at[b], at'[b]} \cap {"link", "tail"} # {} => at'[b] = at[b]
  BY <1>2 DEF AtWakeUps
<1>9. TodoInv'
  <2>1. \A b \in Pushers, d \in Cards : IsFor(b, d)' <=> IsFor(b, d)
    BY DEF IsFor
  <2>2. \A l \in Lists, d \in Cards : WaitsIn(l, d)' <=> WaitsIn(l, d)
    BY DEF WaitsIn
  <2> QED  BY <1>4, <1>8, <2>1, <2>2 DEF StatesInv, TodoInv
<1>10. ReadyInv'
  <2>1. ASSUME NEW d \in Cards PROVE InLine(d)' <=> InLine(d)
    <3>1. \A b \in Pushers : Pending(b, d)' <=> Pending(b, d)
      BY <1>8 DEF Pending, IsFor
    <3> QED  BY <1>4, <3>1 DEF InLine
  <2>2. \A v \in Workers : \/ {pc[v], pc'[v]} \cap {"next", "head", "clear"} = {}
                           \/ pc'[v] = pc[v] /\ card'[v] = card[v] /\ seen'[v] = seen[v]
    BY <1>2
  <2>3. \A b \in Pushers : \/ {at[b], at'[b]} \cap {"link", "tail"} = {}
                           \/ at'[b] = at[b] /\ todo'[b] = todo[b] /\ seen'[b] = seen[b]
    BY <1>8
  <2> QED  BY <2>1, <2>2, <2>3, ReadyStays
<1> QED  BY <1>5, <1>6, <1>7, <1>9, <1>10 DEF StatesInv

(* The switch: the card goes on, or its context is not saved yet and then  *)
(* another worker is still on it.                                          *)
LEMMA SwitchKeeps ==
  ASSUME TypesOK, PlacesOK, StatesInv, ReadyInv, TornOnlyBeforeSave, crash = "none", NEW w \in Workers, SwitchTo(w)
  PROVE  StatesInv' /\ ReadyInv' /\ TornOnlyBeforeSave'
<1>1. PICK r \in Seq(Cards) : ReadyIs(r) /\ TailIs(r)
  BY DEF ReadyInv
<1>2. PICK c \in Cards : c = card[w]
  BY DEF PlacesOK, SwitchTo
<1>3. /\ pc[w] = "popped" /\ ready' = [ready EXCEPT !.next[c] = Nil]
      /\ UNCHANGED <<waiters, timers, doing, stack, card, todo, seen>>
  BY <1>2 DEF SwitchTo, chans
<1>4. state[c] = "ready" /\ stack[c] = "mapped" /\ Holds(w, c) /\ c \in Pushers
  BY <1>2, <1>3, ThreadsAre DEF StatesInv, WorkersInv, CardsInv, CardOK, Holds, Taken
<1>5. c \notin ToSet(r)
  BY <1>1, <1>4 DEF ReadyIs, InLine
<1>6. /\ ready' \in CardLists /\ Chain(r, ready') /\ ready'.head = ready.head /\ ready'.tail = ready.tail
      /\ \A d \in Cards : ready'.next[d] \in {ready.next[d], Nil} /\ (d # c => ready'.next[d] = ready.next[d])
  <2>1. ready \in CardLists /\ Chain(r, ready)
    BY <1>1 DEF TypesOK, ReadyIs
  <2> QED  BY <1>3, <1>5, <2>1, UnlinkedChain
<1>7. \A b \in Pushers : ~IsFor(b, c)
  BY <1>4 DEF StatesInv, TodoInv
<1>8. ASSUME \A b \in Pushers : b # c => at'[b] = at[b], at'[c] \notin {"link", "tail"}, at[c] \notin {"link", "tail"},
             \A v \in Workers : v # w => pc'[v] = pc[v], pc'[w] \in {"popped", "run"},
             \A d \in Cards : InLine(d)' <=> InLine(d)
      PROVE  ReadyInv'
  <2>1. ReadyIs(r)'
    BY <1>1, <1>6, <1>8 DEF ReadyIs
  <2>2. /\ \A b \in Pushers : at'[b] \in {"link", "tail"} <=> at[b] \in {"link", "tail"}
        /\ \A b \in Pushers : at'[b] \in {"link", "tail"} => at'[b] = at[b]
        /\ \A v \in Workers : {pc[v], pc'[v]} \cap {"next", "head", "clear"} # {} => v # w /\ pc'[v] = pc[v]
    BY <1>3, <1>8
  <2>3. (\A b \in Pushers : at'[b] # "tail") /\ (\A v \in Workers : pc'[v] # "clear") => ready'.tail = EndOf(r)
    BY <1>1, <1>6, <2>2 DEF TailIs
  <2>4. \A b \in Pushers : at'[b] = "link" => seen'[b] = EndOf(r) /\ ready'.next[Head(todo'[b])] = Nil
    <3>1. \A b \in Pushers : at[b] = "link" => Head(todo[b]) \in Cards
      BY DEF PlacesOK
    <3> QED  BY <1>1, <1>3, <1>6, <2>2, <3>1 DEF TailIs
  <2>5. \A b \in Pushers : at'[b] = "tail" => EndOf(r) = Head(todo'[b])
    BY <1>1, <1>3, <2>2 DEF TailIs
  <2>6. ASSUME NEW v \in Workers
        PROVE  /\ pc'[v] \in {"next", "head"} => r # <<>> /\ card'[v] = ready'.head
               /\ pc'[v] = "head" => seen'[v] = ready'.next[card'[v]]
               /\ pc'[v] = "clear" => r = <<>>
    <3>1. pc[v] = "head" => card[v] \in Cards /\ card[v] # c
      <4>1. pc[v] = "head" => r # <<>> /\ card[v] = ready.head
        BY <1>1 DEF TailIs
      <4>2. r # <<>> => ready.head \in ToSet(r) /\ ready.head \in Cards
        <5>1. r # <<>> => ready.head = r[1] /\ 1 \in 1 .. Len(r)
          BY <1>1, ListItems DEF ReadyIs, Chain
        <5> QED  BY <5>1, ListItems
      <4> QED  BY <1>5, <4>1, <4>2
    <3> QED  BY <1>1, <1>3, <1>6, <2>2, <3>1 DEF TailIs
  <2>7. TailIs(r)'
    BY <2>3, <2>4, <2>5, <2>6 DEF TailIs
  <2> QED  BY <2>1, <2>7 DEF ReadyInv
<1>9. CASE at[c] = "saved"
  <2>1. /\ state' = [state EXCEPT ![c] = "running"] /\ pc' = [pc EXCEPT ![w] = "run"] /\ crash' = crash
        /\ \E p \in {"code", "retry"} : at' = [at EXCEPT ![c] = p]
    BY <1>2, <1>4, <1>9 DEF SwitchTo, GoOn
  <2>3. /\ pc'[w] = "run" /\ \A v \in Workers \ {w} : pc'[v] = pc[v]
        /\ at'[c] \in {"code", "retry"} /\ \A b \in Pushers \ {c} : at'[b] = at[b]
        /\ state'[c] = "running" /\ \A d \in Cards \ {c} : state'[d] = state[d]
    <3>1. PICK p \in {"code", "retry"} : at' = [at EXCEPT ![c] = p]
      BY <2>1
    <3> QED  BY <1>4, <2>1, <3>1 DEF TypesOK
  <2>4. /\ \A v \in Workers : ~RunsOn(v, c) /\ (v # w => ~Holds(v, c))
        /\ RunsOn(w, c)'
    BY <1>2, <1>3, <1>9, <2>3 DEF StatesInv, CardsInv, CardOK, WorkersInv, RunsOn, Holds, Taken
  <2>5. \A v \in Workers, d \in Cards : d # c => (RunsOn(v, d)' <=> RunsOn(v, d)) /\ (Holds(v, d)' <=> Holds(v, d))
    BY <1>2, <1>3, <2>3 DEF RunsOn, Holds, Taken
  <2>6. \A v \in Workers : ~Holds(v, c)'
    BY <1>2, <1>3, <2>3, <2>4 DEF Holds, Taken
  <2>7. CardsInv'
    <3>1. ASSUME NEW d \in Cards PROVE CardOK(d)'
      <4>0. CardOK(d) /\ d \in Pushers
        BY ThreadsAre DEF StatesInv, CardsInv
      <4>1. CASE d = c
        BY <1>3, <1>4, <2>3, <2>4, <4>0, <4>1 DEF CardOK, AtWakeUps
      <4>2. CASE d # c
        <5>1. at'[d] = at[d] /\ state'[d] = state[d] /\ \A v \in Workers : RunsOn(v, d)' <=> RunsOn(v, d)
          BY <2>3, <2>5, <4>0, <4>2
        <5> QED  BY <1>3, <4>0, <5>1 DEF CardOK
      <4> QED  BY <4>1, <4>2
    <3> QED  BY <3>1 DEF CardsInv
  <2>8. WorkersInv'
    <3>1. ASSUME NEW v \in Workers
          PROVE  /\ pc'[v] \in Taken => state'[card'[v]] = "ready"
                 /\ pc'[v] = "free" => state'[card'[v]] = "done"
      <4>1. CASE v = w
        BY <2>3, <4>1 DEF Taken
      <4>2. CASE v # w
        <5>1. /\ pc'[v] = pc[v] /\ card'[v] = card[v]
              /\ pc[v] \in Taken \cup {"free"} => card[v] # c /\ card[v] \in Cards
          BY <1>3, <1>4, <2>3, <2>4, <4>2 DEF StatesInv, WorkersInv, Holds, PlacesOK, Taken
        <5> QED  BY <2>3, <5>1 DEF StatesInv, WorkersInv
      <4> QED  BY <4>1, <4>2
    <3>2. ASSUME NEW u \in Workers, NEW v \in Workers, u # v, card'[u] = card'[v]
          PROVE  ~(pc'[u] \in Taken /\ pc'[v] \in Taken) /\ ~(pc'[u] = "run" /\ pc'[v] = "run")
      <4>1. CASE u = w
        BY <1>2, <1>3, <2>3, <2>4, <3>2, <4>1 DEF RunsOn, Taken
      <4>2. CASE v = w
        BY <1>2, <1>3, <2>3, <2>4, <3>2, <4>2 DEF RunsOn, Taken
      <4>3. CASE u # w /\ v # w
        BY <1>3, <2>3, <3>2, <4>3 DEF StatesInv, WorkersInv
      <4> QED  BY <4>1, <4>2, <4>3
    <3> QED  BY <3>1, <3>2 DEF WorkersInv
  <2>9. WaitingInv'
    <3>1. \A l \in Lists, d \in Cards : WaitsIn(l, d)' <=> WaitsIn(l, d)
      BY <1>3 DEF WaitsIn
    <3>2. c \notin timers /\ \A l \in Lists : ~WaitsIn(l, c)
      BY <1>4, WhoRuns
    <3>3. \A d \in Cards : state[d] = "blocked" => state'[d] = "blocked"
      BY <1>4, <2>3
    <3> QED  BY <1>3, <3>1, <3>3 DEF StatesInv, WaitingInv, TypesOK
  <2>10. TodoInv'
    <3>1. \A b \in Pushers, d \in Cards : (IsFor(b, d)' <=> IsFor(b, d)) /\ (IsFor(b, d) => d # c)
      BY <1>3, <1>7 DEF IsFor
    <3>2. \A l \in Lists, d \in Cards : WaitsIn(l, d)' <=> WaitsIn(l, d)
      BY <1>3 DEF WaitsIn
    <3>3. \A b \in Pushers : /\ IsInjective(todo'[b]) /\ (at'[b] \notin AtWakeUps => todo'[b] = <<>>)
                             /\ at'[b] \in {"link", "tail"} => at'[b] = at[b]
      <4>1. at[c] \notin AtWakeUps
        BY <1>9 DEF AtWakeUps
      <4> QED  BY <1>3, <2>3, <4>1 DEF StatesInv, TodoInv
    <3>4. \A v \in Workers, d \in Cards : d # c => (Holds(v, d)' <=> Holds(v, d))
      BY <2>5
    <3>5. timers' = timers /\ todo' = todo
      BY <1>3
    <3>6. ASSUME NEW b \in Pushers, NEW d \in Cards, IsFor(b, d)'
          PROVE  /\ state'[d] \in {"blocked", "ready"}
                 /\ d \notin timers' /\ \A l \in Lists : ~WaitsIn(l, d)'
                 /\ \A e \in Pushers : e # b => ~IsFor(e, d)'
                 /\ \A v \in Workers : ~Holds(v, d)'
                 /\ at'[b] \in {"link", "tail"} /\ d = Head(todo'[b]) => state'[d] = "ready"
      <4>1. IsFor(b, d) /\ d # c /\ state'[d] = state[d]
        BY <2>3, <3>1, <3>6
      <4>2. /\ state[d] \in {"blocked", "ready"}
            /\ d \notin timers /\ \A l \in Lists : ~WaitsIn(l, d)
            /\ \A e \in Pushers : e # b => ~IsFor(e, d)
            /\ \A v \in Workers : ~Holds(v, d)
            /\ at[b] \in {"link", "tail"} /\ d = Head(todo[b]) => state[d] = "ready"
        BY <4>1 DEF StatesInv, TodoInv
      <4> QED  BY <3>1, <3>2, <3>3, <3>4, <3>5, <4>1, <4>2
    <3> QED  BY <3>3, <3>6 DEF TodoInv
  <2>11. ASSUME NEW d \in Cards PROVE InLine(d)' <=> InLine(d)
    <3>1. CASE d = c
      BY <1>4, <2>3, <3>1 DEF InLine
    <3>2. CASE d # c
      <4>1. \A b \in Pushers : Pending(b, d)' <=> Pending(b, d)
        <5>1. \A b \in Pushers : at'[b] = "tail" <=> at[b] = "tail"
          BY <1>9, <2>3
        <5> QED  BY <1>3, <5>1 DEF Pending, IsFor
      <4> QED  BY <2>3, <2>5, <3>2, <4>1 DEF InLine
    <3> QED  BY <3>1, <3>2
  <2>12. ReadyInv'
    BY <1>8, <1>9, <2>3, <2>11
  <2>13. TornOnlyBeforeSave'
    BY <2>1 DEF TornOnlyBeforeSave
  <2> QED  BY <2>7, <2>8, <2>9, <2>10, <2>12, <2>13 DEF StatesInv
<1>10. CASE at[c] # "saved"
  <2>1. UNCHANGED <<state, at, pc>>
    BY <1>2, <1>10 DEF SwitchTo
  <2>2. at[c] = "leaving"
    BY <1>4, <1>10, WhoRuns
  <2>3. /\ \A v \in Workers : /\ pc'[v] = "run" <=> pc[v] = "run"
                              /\ pc'[v] \in Taken <=> pc[v] \in Taken
                              /\ pc[v] \in Taken \cup {"run"} => card'[v] = card[v]
                              /\ pc'[v] = "free" => state[card'[v]] = "done"
        /\ \A d \in Cards : state[d] # "done" => stack'[d] = stack[d]
    BY <1>3, <2>1 DEF StatesInv, WorkersInv
  <2>4. StatesInv' /\ \A d \in Cards : InLine(d)' <=> InLine(d)
    <3>1. UNCHANGED <<at, doing, state, timers, waiters, todo>>
      BY <1>3, <2>1
    <3> QED  BY <2>3, <3>1, WorkerMoves
  <2>5. ReadyInv'
    BY <1>3, <1>8, <2>1, <2>2, <2>4
  <2>6. TornOnlyBeforeSave'
    <3>1. PICK v \in Workers : RunsOn(v, c)
      BY <2>2 DEF StatesInv, CardsInv, CardOK
    <3>2. /\ v # w /\ card'[v] = card'[w] /\ pc'[v] = "run" /\ at'[card'[v]] = "leaving" /\ pc'[w] = "popped"
      BY <1>2, <1>3, <2>1, <2>2, <3>1 DEF RunsOn
    <3> QED  BY <3>2 DEF TornOnlyBeforeSave
  <2> QED  BY <2>4, <2>5, <2>6
<1> QED  BY <1>9, <1>10

(* Who is in the middle of a change of the list is there alone.            *)
LEMMA OthersAway ==
  ASSUME Alone
  PROVE  /\ \A w \in Workers : pc[w] \in {"next", "head", "clear"} =>
              /\ \A v \in Workers \ {w} : pc[v] \notin {"next", "head", "clear"}
              /\ \A b \in Pushers : at[b] \notin {"link", "tail"}
         /\ \A a \in Pushers : at[a] \in {"link", "tail"} =>
              /\ \A v \in Workers : pc[v] \notin {"next", "head", "clear"}
              /\ \A b \in Pushers \ {a} : at[b] \notin {"link", "tail"}
<1>1. /\ \A w \in Workers : pc[w] \in {"next", "head", "clear"} => w \in AtTheList
      /\ \A a \in Pushers : at[a] \in {"link", "tail"} => a \in AtTheList
  BY DEF AtTheList
<1>2. \A w \in Workers, a \in Pushers : w # a
  BY ThreadsAre
<1> QED  BY <1>1, <1>2 DEF Alone

(* The pop, until the head is in the worker's hands, and after.            *)
LEMMA LookKeeps ==
  ASSUME TypesOK, StatesInv, ReadyInv, NEW w \in Workers, Look(w) \/ ReadNext(w)
  PROVE  StatesInv' /\ ReadyInv'
<1>1. /\ UNCHANGED <<ready, at, doing, state, timers, waiters, todo, stack>>
      /\ pc[w] \in {"loop", "next"}
      /\ \/ pc[w] = "loop" /\ pc' = [pc EXCEPT ![w] = "drowsy"] /\ UNCHANGED <<card, seen>>
         \/ /\ pc[w] = "loop" /\ pc' = [pc EXCEPT ![w] = "next"] /\ card' = [card EXCEPT ![w] = ready.head]
            /\ ready.head # Nil /\ seen' = seen
         \/ /\ pc[w] = "next" /\ pc' = [pc EXCEPT ![w] = "head"] /\ card' = card
            /\ seen' = [seen EXCEPT ![w] = ready.next[card[w]]]
  BY DEF Look, ReadNext, GoOn, queues, tasks, chans
<1>2. /\ \A v \in Workers \ {w} : pc'[v] = pc[v] /\ card'[v] = card[v] /\ seen'[v] = seen[v]
      /\ \A b \in Pushers : seen'[b] = seen[b]
      /\ pc'[w] \in {"drowsy", "next", "head"}
      /\ pc'[w] \in {"next", "head"} => card'[w] = ready.head \/ (pc[w] = "next" /\ card'[w] = card[w])
      /\ pc'[w] = "head" => seen'[w] = ready.next[card'[w]]
      /\ pc'[w] = "next" => ready.head # Nil
      /\ pc'[w] = "head" => pc[w] = "next"
  BY <1>1, ThreadsAre DEF TypesOK
<1>3. /\ \A v \in Workers : /\ pc'[v] = "run" <=> pc[v] = "run"
                            /\ pc'[v] \in Taken <=> pc[v] \in Taken
                            /\ pc[v] \in Taken \cup {"run"} => card'[v] = card[v]
                            /\ pc'[v] = "free" => state[card'[v]] = "done"
      /\ \A c \in Cards : state[c] # "done" => stack'[c] = stack[c]
  BY <1>1, <1>2 DEF Taken, StatesInv, WorkersInv
<1>4. StatesInv' /\ \A c \in Cards : InLine(c)' <=> InLine(c)
  BY <1>1, <1>3, WorkerMoves
<1>5. PICK r \in Seq(Cards) : ReadyIs(r) /\ TailIs(r)
  BY DEF ReadyInv
<1>6. ReadyIs(r)'
  BY <1>1, <1>4, <1>5 DEF ReadyIs
<1>7. TailIs(r)'
  <2>1. (\A v \in Workers : pc'[v] # "clear") => \A v \in Workers : pc[v] # "clear"
    BY <1>1, <1>2
  <2>2. ASSUME NEW v \in Workers
        PROVE  /\ pc'[v] \in {"next", "head"} => r # <<>> /\ card'[v] = ready.head
               /\ pc'[v] = "head" => seen'[v] = ready.next[card'[v]]
               /\ pc'[v] = "clear" => r = <<>>
    <3>1. CASE v = w
      <4>1. pc'[w] = "next" => r # <<>>
        BY <1>2, <1>5 DEF ReadyIs, Chain
      <4>2. pc[w] = "next" => r # <<>> /\ card[w] = ready.head
        BY <1>5 DEF TailIs
      <4> QED  BY <1>1, <1>2, <3>1, <4>1, <4>2
    <3>2. CASE v # w
      BY <1>2, <1>5, <3>2 DEF TailIs
    <3> QED  BY <3>1, <3>2
  <2> QED  BY <1>1, <1>2, <1>5, <2>1, <2>2 DEF TailIs
<1> QED  BY <1>4, <1>6, <1>7 DEF ReadyInv

LEMMA SetHeadKeeps ==
  ASSUME TypesOK, StatesInv, ReadyInv, Alone, NEW w \in Workers, SetHead(w)
  PROVE  StatesInv' /\ ReadyInv'
<1>1. /\ UNCHANGED <<at, doing, state, timers, waiters, todo, stack, card, seen>>
      /\ pc[w] = "head" /\ ready' = [ready EXCEPT !.head = seen[w]]
      /\ pc' = [pc EXCEPT ![w] = IF seen[w] = Nil THEN "clear" ELSE "popped"]
  BY DEF SetHead, WasLast, GoOn, tasks, chans
<1>2. PICK r \in Seq(Cards) : ReadyIs(r) /\ TailIs(r)
  BY DEF ReadyInv
<1>3. ready \in CardLists /\ Chain(r, ready) /\ IsInjective(r)
  BY <1>2 DEF TypesOK, ReadyIs
<1>4. r # <<>> /\ card[w] = ready.head /\ seen[w] = ready.next[ready.head]
  BY <1>1, <1>2 DEF TailIs
<1>5. /\ ready.head = Head(r) /\ ready.head \in Cards
      /\ ready' \in CardLists /\ Chain(Tail(r), ready')
      /\ seen[w] = Nil <=> Tail(r) = <<>>
      /\ Tail(r) # <<>> => EndOf(Tail(r)) = EndOf(r)
  BY <1>1, <1>3, <1>4, CutChain
<1>6. PICK c \in Cards : c = ready.head
  BY <1>5
<1>7. Tail(r) \in Seq(Cards) /\ IsInjective(Tail(r)) /\ ToSet(Tail(r)) = ToSet(r) \ {c} /\ c \in ToSet(r)
  BY <1>3, <1>4, <1>5, <1>6, OnceTail
<1>8. InLine(c) /\ card[w] = c
  BY <1>2, <1>4, <1>6, <1>7 DEF ReadyIs
<1>9. /\ pc'[w] \in Taken /\ \A v \in Workers \ {w} : pc'[v] = pc[v]
      /\ pc'[w] # "run" /\ pc'[w] # "free"
  BY <1>1 DEF TypesOK, Taken
<1>10. /\ \A v \in Workers : ~Holds(v, c)
       /\ \A v \in Workers, d \in Cards : Holds(v, d)' <=> Holds(v, d) \/ (v = w /\ d = c)
       /\ \A v \in Workers, d \in Cards : RunsOn(v, d)' <=> RunsOn(v, d)
  BY <1>1, <1>8, <1>9 DEF InLine, Holds, RunsOn, Taken
<1>11. CardsInv'
  <2>1. ASSUME NEW d \in Cards PROVE CardOK(d)'
    <3>1. CardOK(d)
      BY DEF StatesInv, CardsInv
    <3> QED  BY <1>1, <1>10, <3>1 DEF CardOK
  <2> QED  BY <2>1 DEF CardsInv
<1>12. WorkersInv'
  <2>1. ASSUME NEW v \in Workers
        PROVE  /\ pc'[v] \in Taken => state'[card'[v]] = "ready"
               /\ pc'[v] = "free" => state'[card'[v]] = "done"
    BY <1>1, <1>8, <1>9 DEF StatesInv, WorkersInv, InLine
  <2>2. ASSUME NEW u \in Workers, NEW v \in Workers, u # v, card'[u] = card'[v]
        PROVE  ~(pc'[u] \in Taken /\ pc'[v] \in Taken) /\ ~(pc'[u] = "run" /\ pc'[v] = "run")
    <3>1. CASE u = w
      BY <1>1, <1>8, <1>9, <1>10, <2>2, <3>1 DEF Holds
    <3>2. CASE v = w
      BY <1>1, <1>8, <1>9, <1>10, <2>2, <3>2 DEF Holds
    <3>3. CASE u # w /\ v # w
      BY <1>1, <1>9, <2>2, <3>3 DEF StatesInv, WorkersInv
    <3> QED  BY <3>1, <3>2, <3>3
  <2> QED  BY <2>1, <2>2 DEF WorkersInv
<1>13. WaitingInv'
  BY <1>1 DEF StatesInv, WaitingInv, WaitsIn
<1>14. \A b \in Pushers : at[b] \notin {"link", "tail"}
  BY <1>1, OthersAway
<1>15. TodoInv'
  <2>1. \A b \in Pushers, d \in Cards : (IsFor(b, d)' <=> IsFor(b, d)) /\ (IsFor(b, d) => d # c)
    BY <1>1, <1>8, <1>14 DEF IsFor, InLine, Pending
  <2>2. \A l \in Lists, d \in Cards : WaitsIn(l, d)' <=> WaitsIn(l, d)
    BY <1>1 DEF WaitsIn
  <2> QED  BY <1>1, <1>10, <2>1, <2>2 DEF StatesInv, TodoInv
<1>16. ReadyInv'
  <2>1. ASSUME NEW d \in Cards PROVE d \in ToSet(Tail(r)) <=> InLine(d)'
    <3>1. d \in ToSet(r) <=> InLine(d)
      BY <1>2 DEF ReadyIs
    <3>2. \A b \in Pushers : Pending(b, d)' <=> Pending(b, d)
      BY <1>1 DEF Pending, IsFor
    <3> QED  BY <1>1, <1>7, <1>10, <3>1, <3>2 DEF InLine
  <2>2. ReadyIs(Tail(r))'
    BY <1>5, <1>7, <2>1 DEF ReadyIs
  <2>3. \A v \in Workers : /\ pc'[v] \notin {"next", "head"}
                           /\ pc'[v] = "clear" => Tail(r) = <<>>
    BY <1>1, <1>5, <1>9, OthersAway DEF Taken, TypesOK
  <2>4. (\A v \in Workers : pc'[v] # "clear") => ready'.tail = EndOf(Tail(r))
    <3>1. ready.tail = EndOf(r)
      BY <1>1, <1>2, <1>14, OthersAway DEF TailIs
    <3>2. ready'.tail = ready.tail
      BY <1>1, <1>3 DEF CardLists
    <3>3. (\A v \in Workers : pc'[v] # "clear") => Tail(r) # <<>>
      BY <1>1, <1>5 DEF TypesOK
    <3> QED  BY <1>5, <3>1, <3>2, <3>3
  <2>5. TailIs(Tail(r))'
    BY <1>1, <1>14, <2>3, <2>4 DEF TailIs
  <2> QED  BY <1>7, <2>2, <2>5 DEF ReadyInv
<1> QED  BY <1>11, <1>12, <1>13, <1>15, <1>16 DEF StatesInv

LEMMA ClearTailKeeps ==
  ASSUME TypesOK, StatesInv, ReadyInv, Alone, NEW w \in Workers, ClearTail(w)
  PROVE  StatesInv' /\ ReadyInv'
<1>1. /\ UNCHANGED <<at, doing, state, timers, waiters, todo, stack, card, seen>>
      /\ pc[w] = "clear" /\ ready' = [ready EXCEPT !.tail = Nil] /\ pc' = [pc EXCEPT ![w] = "popped"]
  BY DEF ClearTail, GoOn, tasks, chans
<1>2. PICK r \in Seq(Cards) : ReadyIs(r) /\ TailIs(r)
  BY DEF ReadyInv
<1>3. r = <<>>
  BY <1>1, <1>2 DEF TailIs
<1>4. pc'[w] = "popped" /\ \A v \in Workers \ {w} : pc'[v] = pc[v]
  BY <1>1 DEF TypesOK
<1>5. ready'.tail = Nil /\ ready'.head = ready.head /\ ready'.next = ready.next
  BY <1>1 DEF TypesOK, CardLists
<1>6. /\ \A v \in Workers : /\ pc'[v] = "run" <=> pc[v] = "run"
                            /\ pc'[v] \in Taken <=> pc[v] \in Taken
                            /\ pc[v] \in Taken \cup {"run"} => card'[v] = card[v]
                            /\ pc'[v] = "free" => state[card'[v]] = "done"
      /\ \A c \in Cards : state[c] # "done" => stack'[c] = stack[c]
  BY <1>1, <1>4 DEF Taken, StatesInv, WorkersInv
<1>7. StatesInv' /\ \A c \in Cards : InLine(c)' <=> InLine(c)
  <2>1. UNCHANGED <<at, doing, state, timers, waiters, todo>>
    BY <1>1
  <2> QED  BY <1>6, <2>1, WorkerMoves
<1>8. ReadyIs(r)'
  BY <1>2, <1>5, <1>7 DEF ReadyIs, Chain
<1>9. /\ \A v \in Workers : pc'[v] \notin {"next", "head", "clear"}
      /\ \A b \in Pushers : at'[b] \notin {"link", "tail"}
  BY <1>1, <1>4, OthersAway
<1>10. TailIs(r)'
  BY <1>3, <1>5, <1>9 DEF TailIs, EndOf
<1> QED  BY <1>7, <1>8, <1>10 DEF ReadyInv

LEMMA WorkersKeep ==
  ASSUME TypesOK, PlacesOK, StatesInv, ReadyInv, Alone, TornOnlyBeforeSave, crash = "none", NEW w \in Workers, WorkerStep(w)
  PROVE  StatesInv' /\ ReadyInv' /\ TornOnlyBeforeSave'
<1>1. ASSUME NEW p \in {"loop", "asleep", "free"}, pc[w] \in {"drowsy", "asleep", "back", "free"}, pc' = [pc EXCEPT ![w] = p],
             UNCHANGED <<ready, at, doing, state, timers, waiters, todo, seen, card>>,
             p = "free" => state[card[w]] = "done", \A c \in Cards : state[c] # "done" => stack'[c] = stack[c]
      PROVE  StatesInv' /\ ReadyInv'
  <2>1. pc'[w] = p /\ \A v \in Workers \ {w} : pc'[v] = pc[v]
    BY <1>1 DEF TypesOK
  <2>2. \A v \in Workers : /\ pc'[v] = "run" <=> pc[v] = "run"
                           /\ pc'[v] \in Taken <=> pc[v] \in Taken
                           /\ pc[v] \in Taken \cup {"run"} => card'[v] = card[v]
                           /\ pc'[v] = "free" => state[card'[v]] = "done"
    BY <1>1, <2>1 DEF Taken, StatesInv, WorkersInv
  <2>3. StatesInv' /\ \A c \in Cards : InLine(c)' <=> InLine(c)
    BY <1>1, <2>2, WorkerMoves
  <2>4. \A v \in Workers : \/ {pc[v], pc'[v]} \cap {"next", "head", "clear"} = {}
                           \/ pc'[v] = pc[v] /\ card'[v] = card[v] /\ seen'[v] = seen[v]
    BY <1>1, <2>1
  <2> QED  BY <1>1, <2>3, <2>4, ReadyStays
<1>2. CASE Look(w) \/ ReadNext(w)
  <2>1. crash' = crash
    BY <1>2 DEF Look, ReadNext
  <2> QED  BY <1>2, <2>1, LookKeeps DEF TornOnlyBeforeSave
<1>3. CASE SetHead(w)
  <2>1. crash' = crash
    BY <1>3 DEF SetHead
  <2> QED  BY <1>3, <2>1, SetHeadKeeps DEF TornOnlyBeforeSave
<1>4. CASE ClearTail(w)
  <2>1. crash' = crash
    BY <1>4 DEF ClearTail
  <2> QED  BY <1>4, <2>1, ClearTailKeeps DEF TornOnlyBeforeSave
<1>5. CASE SwitchTo(w)
  BY <1>5, SwitchKeeps
<1>6. CASE FallAsleep(w) \/ WakeUp(w)
  <2>1. /\ pc[w] \in {"drowsy", "asleep"} /\ \E p \in {"loop", "asleep"} : pc' = [pc EXCEPT ![w] = p]
        /\ UNCHANGED <<ready, at, doing, state, timers, waiters, todo, seen, card, stack, crash>>
    BY <1>6 DEF FallAsleep, WakeUp, GoOn, queues, tasks, chans
  <2>2. PICK p \in {"loop", "asleep"} : pc' = [pc EXCEPT ![w] = p]
    BY <2>1
  <2> QED  BY <1>1, <2>1, <2>2 DEF TornOnlyBeforeSave
<1>7. CASE Back(w)
  <2>1. /\ pc[w] = "back" /\ UNCHANGED <<ready, at, doing, state, timers, waiters, todo, seen, card, stack, crash>>
        /\ \E p \in {"loop", "free"} : pc' = [pc EXCEPT ![w] = p] /\ (p = "free" => state[card[w]] = "done")
    BY <1>7 DEF Back, Over, GoOn, queues, tasks, chans
  <2>2. PICK p \in {"loop", "free"} : pc' = [pc EXCEPT ![w] = p] /\ (p = "free" => state[card[w]] = "done")
    BY <2>1
  <2> QED  BY <1>1, <2>1, <2>2 DEF TornOnlyBeforeSave
<1>8. CASE Free(w)
  <2>1. /\ pc[w] = "free" /\ UNCHANGED <<ready, at, doing, state, timers, waiters, todo, seen, card>>
        /\ crash' # "torn" /\ stack' = [stack EXCEPT ![card[w]] = "freed"] /\ pc' = [pc EXCEPT ![w] = "loop"]
    BY <1>8 DEF Free, GoOn, queues, chans
  <2>2. state[card[w]] = "done"
    BY <2>1 DEF StatesInv, WorkersInv
  <2>3. \A c \in Cards : state[c] # "done" => stack'[c] = stack[c]
    BY <2>1, <2>2 DEF TypesOK
  <2> QED  BY <1>1, <2>1, <2>3 DEF TornOnlyBeforeSave
<1>9. CASE Save(w) \/ TaskDone(w)
  <2>1. /\ pc[w] = "run" /\ UNCHANGED <<state, ready, waiters, timers, card, stack, todo, seen, doing, crash>>
        /\ \E p \in {"saved", "over"} : /\ at[card[w]] = IF p = "saved" THEN "leaving" ELSE "ending"
                                        /\ at' = [at EXCEPT ![card[w]] = p] /\ pc' = [pc EXCEPT ![w] = "back"]
    BY <1>9 DEF Save, TaskDone, Goto, GoOn, queues, chans
  <2>2. PICK p \in {"saved", "over"} : /\ at[card[w]] = IF p = "saved" THEN "leaving" ELSE "ending"
                                       /\ at' = [at EXCEPT ![card[w]] = p] /\ pc' = [pc EXCEPT ![w] = "back"]
    BY <2>1
  <2>3. UNCHANGED <<state, ready, waiters, timers, card, stack, todo, seen, doing>>
    BY <2>1
  <2>4. StatesInv' /\ ReadyInv'
    BY <2>1, <2>2, <2>3, CardLeaves
  <2> QED  BY <2>1, <2>4 DEF TornOnlyBeforeSave
<1> QED  BY <1>2, <1>3, <1>4, <1>5, <1>6, <1>7, <1>8, <1>9 DEF WorkerStep

(* Steps of code beside the list.                                          *)
LEMMA CodeMoves ==
  ASSUME TypesOK, StatesInv, ReadyInv, UNCHANGED <<ready, state, timers, pc, card, stack, seen>>,
         \A c \in Cards : \/ at'[c] = at[c] /\ doing'[c] = doing[c]
                          \/ state[c] = "running" /\ {at[c], at'[c]} \subseteq {"code", "retry"} \cup AtWakeUps
                          \/ at[c] \in AtWakeUps /\ at'[c] = "ending" /\ state[c] = "done",
         \A l \in Lists : \/ waiters'[l] = waiters[l]
                          \/ waiters'[l] = Appended(waiters[l], Main),
         \A a \in Pushers : \/ todo'[a] = todo[a]
                            \/ todo[a] # <<>> /\ Head(todo[a]) = Main /\ todo'[a] = Tail(todo[a]) /\ at[a] = "wake",
         \A a \in Pushers : /\ at'[a] = at[a] \/ {at[a], at'[a]} \cap {"link", "tail"} = {}
                            /\ at'[a] \notin AtWakeUps => todo'[a] = <<>>
  PROVE  StatesInv' /\ ReadyInv'
<1>1. \A l \in Lists : IsInjective(waiters'[l]) /\ ToSet(waiters'[l]) \subseteq ToSet(waiters[l]) \cup {Main}
  <2>1. \A l \in Lists : waiters[l] \in Seq(Callers) /\ IsInjective(waiters[l])
    BY DEF TypesOK, StatesInv, WaitingInv
  <2>2. \A l \in Lists : IsInjective(Appended(waiters[l], Main)) /\ ToSet(Appended(waiters[l], Main)) \subseteq ToSet(waiters[l]) \cup {Main}
    BY <2>1, ListsAre, AppendedOnce
  <2> QED  BY <2>1, <2>2
<1>2. \A a \in Pushers : todo'[a] # todo[a] => at'[a] \notin {"link", "tail"}
  OBVIOUS
<1>3. StatesInv'
  BY <1>1, <1>2, CallMoves
<1>4. ASSUME NEW a \in Pushers, NEW c \in Cards PROVE IsFor(a, c)' <=> IsFor(a, c)
  <2>1. CASE todo'[a] = todo[a]
    BY <2>1 DEF IsFor
  <2>2. CASE todo[a] # <<>> /\ Head(todo[a]) = Main /\ todo'[a] = Tail(todo[a])
    <3>1. todo[a] \in Seq(Callers) /\ IsInjective(todo[a])
      BY DEF TypesOK, StatesInv, TodoInv
    <3>2. ToSet(Tail(todo[a])) = ToSet(todo[a]) \ {Main}
      BY <2>2, <3>1, OnceTail
    <3> QED  BY <2>2, <3>2 DEF IsFor
  <2> QED  BY <2>1, <2>2
<1>5. ASSUME NEW c \in Cards PROVE InLine(c)' <=> InLine(c)
  <2>1. \A a \in Pushers : "tail" \notin {at[a], at'[a]} \/ (at'[a] = at[a] /\ todo'[a] = todo[a])
    BY DEF AtWakeUps
  <2>2. state'[c] = "ready" <=> state[c] = "ready"
    OBVIOUS
  <2> QED  BY <1>4, <2>1, <2>2, LineStays
<1>6. \A a \in Pushers : \/ {at[a], at'[a]} \cap {"link", "tail"} = {}
                         \/ at'[a] = at[a] /\ todo'[a] = todo[a] /\ seen'[a] = seen[a]
  OBVIOUS
<1>7. \A w \in Workers : pc'[w] = pc[w] /\ card'[w] = card[w] /\ seen'[w] = seen[w]
  OBVIOUS
<1> QED  BY <1>3, <1>5, <1>6, <1>7, ReadyStays

(* The wait of an operation, at the list of a task or of a channel.        *)
LEMMA WaitKeeps ==
  ASSUME TypesOK, StatesInv, ReadyInv, NEW a \in Callers, at[a] = "retry", NEW l \in Lists, Wait(a, l)
  PROVE  StatesInv' /\ ReadyInv'
<1>1. /\ at' = [at EXCEPT ![a] = IF IsCard(a) THEN "leaving" ELSE "asleep"]
      /\ state' = IF IsCard(a) THEN [state EXCEPT ![a] = "blocked"] ELSE state
      /\ UNCHANGED <<ready, timers, doing, todo, seen, stack, pc, card>>
  BY WaitTypes
<1>2. CASE a \in Cards
  <2>1. state' = [state EXCEPT ![a] = "blocked"] /\ at' = [at EXCEPT ![a] = "leaving"]
    BY <1>1, <1>2 DEF IsCard
  <2>2. waiters' = [waiters EXCEPT ![l] = Appended(waiters[l], a)]
    BY <1>2, Zenon DEF Wait, IsCard
  <2>3. UNCHANGED <<ready, pc, card, stack, todo, seen, doing>> /\ timers' = timers
    BY <1>1
  <2> QED  BY <1>2, <2>1, <2>2, <2>3, CardWaits
<1>3. CASE a \notin Cards
  <2>1. a = Main /\ a \in Pushers /\ Main \notin Cards
    BY <1>3, ThreadsAre DEF IsCard
  <2>2. state' = state /\ at' = [at EXCEPT ![Main] = "asleep"]
    BY <1>1, <1>3, <2>1 DEF IsCard
  <2>3. waiters' = waiters \/ waiters' = [waiters EXCEPT ![l] = Appended(waiters[l], Main)]
    BY <2>1, Zenon DEF Wait, IsCard
  <2>4. \A k \in Lists : waiters'[k] = waiters[k] \/ waiters'[k] = Appended(waiters[k], Main)
    <3>1. waiters \in [Lists -> Seq(Callers)]
      BY DEF TypesOK
    <3> QED  BY <2>3, <3>1
  <2>5. \A c \in Cards : at'[c] = at[c] /\ doing'[c] = doing[c]
    BY <1>1, <2>1, <2>2, ThreadsAre DEF TypesOK
  <2>6. \A b \in Pushers : /\ todo'[b] = todo[b]
                           /\ at'[b] = at[b] \/ {at[b], at'[b]} \cap {"link", "tail"} = {}
                           /\ at'[b] \notin AtWakeUps => todo'[b] = <<>>
    BY <1>1, <2>1, <2>2 DEF TypesOK, StatesInv, TodoInv, AtWakeUps
  <2>7. UNCHANGED <<ready, state, timers, pc, card, stack, seen>>
    BY <1>1, <2>2
  <2> QED  BY <2>4, <2>5, <2>6, <2>7, CodeMoves
<1> QED  BY <1>2, <1>3

(* A step from one place of one pusher's code to another.                  *)
LEMMA OneMoves ==
  ASSUME TypesOK, StatesInv, ReadyInv, UNCHANGED <<ready, state, timers, waiters, pc, card, stack, seen>>,
         NEW a \in Pushers, NEW p, NEW q \in {at[Main], "retry"},
         at' = [at EXCEPT ![Main] = q, ![a] = p], q # at[Main] => at[Main] = "asleep",
         \A c \in Cards : c # a => doing'[c] = doing[c],
         a \in Cards => \/ p = at[a] /\ doing'[a] = doing[a]
                        \/ state[a] = "running" /\ {at[a], p} \subseteq {"code", "retry", "wake"}
                        \/ at[a] = "wake" /\ p = "ending" /\ state[a] = "done",
         {at[a], p} \cap {"link", "tail"} = {}, p # "wake" => todo[a] = <<>>,
         \/ todo' = todo
         \/ todo[a] # <<>> /\ Head(todo[a]) = Main /\ todo' = [todo EXCEPT ![a] = Tail(@)] /\ at[a] = "wake" /\ p = "wake"
  PROVE  StatesInv' /\ ReadyInv'
<1>1. /\ at'[a] = p /\ \A b \in Pushers \ {a} : at'[b] = at[b] \/ (at[b] = "asleep" /\ at'[b] = "retry" /\ b = Main)
      /\ \A b \in Pushers \ {a} : todo'[b] = todo[b]
      /\ Main \notin Cards /\ Cards \subseteq Pushers
  BY ThreadsAre DEF TypesOK
<1>2. \A c \in Cards : \/ at'[c] = at[c] /\ doing'[c] = doing[c]
                       \/ state[c] = "running" /\ {at[c], at'[c]} \subseteq {"code", "retry"} \cup AtWakeUps
                       \/ at[c] \in AtWakeUps /\ at'[c] = "ending" /\ state[c] = "done"
  BY <1>1 DEF AtWakeUps
<1>3. \A b \in Pushers : \/ todo'[b] = todo[b]
                         \/ todo[b] # <<>> /\ Head(todo[b]) = Main /\ todo'[b] = Tail(todo[b]) /\ at[b] = "wake"
  BY <1>1 DEF TypesOK
<1>4. ASSUME NEW b \in Pushers
      PROVE  /\ at'[b] = at[b] \/ {at[b], at'[b]} \cap {"link", "tail"} = {}
             /\ at'[b] \notin AtWakeUps => todo'[b] = <<>>
  <2>1. at[b] \notin AtWakeUps => todo[b] = <<>>
    BY DEF StatesInv, TodoInv
  <2> QED  BY <1>1, <2>1 DEF AtWakeUps
<1>5. \A l \in Lists : waiters'[l] = waiters[l]
  OBVIOUS
<1> QED  BY <1>2, <1>3, <1>4, <1>5, CodeMoves

LEMMA CallsKeep ==
  ASSUME ChannelsInv, StatesInv, ReadyInv, NEW a \in Callers, (\E l \in Lists : Call(a, l)) \/ CallStep(a)
  PROVE  StatesInv' /\ ReadyInv'
<1>0. TypesOK /\ PlacesOK /\ a \in Pushers
  BY ThreadsAre DEF ChannelsInv
<1>1. /\ a \in Cards /\ at[a] \in {"code", "retry"} => state[a] = "running"
      /\ at[a] \notin AtWakeUps => todo[a] = <<>>
  BY <1>0, WhoRuns DEF StatesInv, TodoInv
<1>2. ASSUME NEW p \in {"code", "retry"}, at[a] \in {"code", "retry"}, at' = [at EXCEPT ![a] = p],
             \A c \in Cards : c # a => doing'[c] = doing[c],
             UNCHANGED <<ready, state, timers, waiters, pc, card, stack, seen, todo>>
      PROVE  StatesInv' /\ ReadyInv'
  <2>1. at' = [at EXCEPT ![Main] = at[Main], ![a] = p]
    BY <1>0, <1>2 DEF TypesOK
  <2>2. at[a] \notin AtWakeUps
    BY <1>2 DEF AtWakeUps
  <2> QED  BY <1>0, <1>1, <1>2, <2>1, <2>2, OneMoves
<1>3. ASSUME NEW l \in Lists, Call(a, l) PROVE StatesInv' /\ ReadyInv'
  <2>1. /\ at[a] = "code" /\ at' = [at EXCEPT ![a] = "retry"] /\ doing' = [doing EXCEPT ![a] = l]
        /\ UNCHANGED <<ready, state, timers, waiters, pc, card, stack, seen, todo>>
    BY <1>3 DEF Call, InCode, Goto, queues, chans
  <2>2. \A c \in Cards : c # a => doing'[c] = doing[c]
    BY <1>0, <2>1, ListsAre DEF TypesOK
  <2> QED  BY <1>2, <2>1, <2>2
<1>4. CASE WaitForTask(a) \/ ChannelWait(a)
  <2>1. at[a] = "retry" /\ doing[a] \in Lists
    BY <1>0, <1>4 DEF WaitForTask, ChannelWait, TypesOK
  <2>2. CASE Wait(a, doing[a])
    BY <1>0, <2>1, <2>2, WaitKeeps
  <2>3. CASE Returns(a) /\ UNCHANGED <<queues, state, stack, chans, pc, card>>
    <3>1. /\ at' = [at EXCEPT ![a] = "code"] /\ doing' = [doing EXCEPT ![a] = Nil]
          /\ UNCHANGED <<ready, state, timers, waiters, pc, card, stack, seen, todo>>
      BY <2>3 DEF Returns, Goto, queues, chans
    <3>2. \A c \in Cards : c # a => doing'[c] = doing[c]
      BY <1>0, <3>1, ListsAre DEF TypesOK
    <3> QED  BY <1>2, <2>1, <3>1, <3>2
  <2> QED  BY <1>4, <2>2, <2>3 DEF WaitForTask, ChannelWait
<1>5. CASE Transfer(a)
  BY <1>5, TransferTakes
<1>6. CASE LeaveChannel(a)
  <2>1. /\ at[a] = "wake" /\ todo[a] = <<>> /\ doing[a] # Nil /\ doing' = [doing EXCEPT ![a] = Nil]
        /\ UNCHANGED <<ready, state, timers, waiters, pc, card, stack, seen, todo>>
        /\ \E q \in {at[Main], "retry"} : /\ at' = [at EXCEPT ![Main] = q, ![a] = "code"]
                                          /\ q # at[Main] => at[Main] = "asleep"
    BY <1>6 DEF LeaveChannel, WakesMain, queues
  <2>2. \A c \in Cards : c # a => doing'[c] = doing[c]
    BY <1>0, <2>1, ListsAre DEF TypesOK
  <2>3. a \in Cards => state[a] = "running"
    BY <2>1 DEF StatesInv, CardsInv, CardOK, AtWakeUps
  <2>4. PICK q \in {at[Main], "retry"} : /\ at' = [at EXCEPT ![Main] = q, ![a] = "code"]
                                         /\ q # at[Main] => at[Main] = "asleep"
    BY <2>1
  <2>5. UNCHANGED <<ready, state, timers, waiters, pc, card, stack, seen>>
    BY <2>1
  <2> QED  BY <1>0, <2>1, <2>2, <2>3, <2>4, <2>5, OneMoves
<1> QED  BY <1>3, <1>4, <1>5, <1>6 DEF CallStep

(* rt_push_ready, store by store.                                          *)
LEMMA ReadTailKeeps ==
  ASSUME TypesOK, PlacesOK, StatesInv, ReadyInv, NEW a \in Pushers, ReadTail(a),
         \A w \in Workers : pc[w] \notin {"next", "head", "clear"},
         \A b \in Pushers \ {a} : at[b] \notin {"link", "tail"}
  PROVE  StatesInv' /\ ReadyInv'
<1>1. PICK r \in Seq(Cards) : ReadyIs(r) /\ TailIs(r)
  BY DEF ReadyInv
<1>2. PICK c \in Cards : c = Head(todo[a])
  BY DEF ReadTail, IsCard
<1>3. /\ at[a] = "wake" /\ todo[a] # <<>>
      /\ ready' = [ready EXCEPT !.next[c] = Nil] /\ state' = [state EXCEPT ![c] = "ready"]
      /\ seen' = [seen EXCEPT ![a] = ready.tail] /\ at' = [at EXCEPT ![a] = "link"]
      /\ UNCHANGED <<waiters, timers, doing, stack, todo, pc, card>>
  BY <1>2 DEF ReadTail, Goto
<1>4. /\ at'[a] = "link" /\ \A b \in Pushers \ {a} : at'[b] = at[b]
      /\ seen'[a] = ready.tail
      /\ state'[c] = "ready" /\ \A d \in Cards \ {c} : state'[d] = state[d]
  BY <1>3 DEF TypesOK
<1>5. IsFor(a, c)
  <2>1. todo[a] \in Seq(Callers) /\ IsInjective(todo[a])
    BY DEF TypesOK, StatesInv, TodoInv
  <2> QED  BY <1>2, <1>3, <2>1, OnceTail DEF IsFor
<1>6. /\ state[c] \in {"blocked", "ready"} /\ c \notin timers /\ \A l \in Lists : ~WaitsIn(l, c)
      /\ \A b \in Pushers \ {a} : ~IsFor(b, c)
      /\ \A w \in Workers : ~Holds(w, c)
      /\ stack[c] = "mapped"
  BY <1>5 DEF StatesInv, TodoInv, CardsInv, CardOK
<1>7. \A w \in Workers, d \in Cards : (Holds(w, d)' <=> Holds(w, d)) /\ (RunsOn(w, d)' <=> RunsOn(w, d))
  BY <1>3 DEF Holds, RunsOn
<1>8. CardsInv'
  <2>1. ASSUME NEW d \in Cards PROVE CardOK(d)'
    <3>1. CardOK(d) /\ d \in Pushers
      BY ThreadsAre DEF StatesInv, CardsInv
    <3>2. CASE d = c
      <4>1. at[c] \in {"leaving", "saved"}
        BY <1>6, WhoRuns
      <4>2. at'[c] = at[c]
        BY <1>3, <1>4, <3>1, <3>2, <4>1
      <4> QED  BY <1>3, <1>4, <1>6, <1>7, <3>1, <3>2, <4>1, <4>2 DEF CardOK, AtWakeUps
    <3>3. CASE d # c
      <4>1. state'[d] = state[d] /\ (at'[d] = at[d] \/ (at[d] = "wake" /\ at'[d] = "link"))
        BY <1>3, <1>4, <3>1, <3>3
      <4> QED  BY <1>3, <1>7, <3>1, <4>1 DEF CardOK, AtWakeUps
    <3> QED  BY <3>2, <3>3
  <2> QED  BY <2>1 DEF CardsInv
<1>9. WorkersInv'
  <2>1. ASSUME NEW w \in Workers
        PROVE  /\ pc[w] \in Taken => state'[card[w]] = "ready"
               /\ pc[w] = "free" => state'[card[w]] = "done"
    <3>1. /\ pc[w] \in Taken => state[card[w]] = "ready"
          /\ pc[w] = "free" => state[card[w]] = "done"
          /\ pc[w] \in Taken \cup {"free"} => card[w] \in Cards
      BY DEF StatesInv, WorkersInv, PlacesOK, Taken
    <3> QED  BY <1>4, <1>6, <3>1
  <2> QED  BY <1>3, <2>1 DEF StatesInv, WorkersInv
<1>10. WaitingInv'
  <2>1. \A l \in Lists, d \in Cards : WaitsIn(l, d)' <=> WaitsIn(l, d)
    BY <1>3 DEF WaitsIn
  <2>2. \A d \in Cards : d # c => state'[d] = state[d]
    BY <1>4
  <2> QED  BY <1>3, <1>6, <2>1, <2>2 DEF StatesInv, WaitingInv, TypesOK
<1>11. TodoInv'
  <2>1. ASSUME NEW b \in Pushers, NEW d \in Cards, IsFor(b, d)'
        PROVE  /\ state'[d] \in {"blocked", "ready"}
               /\ d \notin timers' /\ (\A l \in Lists : ~WaitsIn(l, d)')
               /\ (\A e \in Pushers : e # b => ~IsFor(e, d)')
               /\ (\A w \in Workers : ~Holds(w, d)')
               /\ at'[b] \in {"link", "tail"} /\ d = Head(todo'[b]) => state'[d] = "ready"
    <3>1. IsFor(b, d)
      BY <1>3, <2>1 DEF IsFor
    <3>2. /\ state[d] \in {"blocked", "ready"}
          /\ d \notin timers /\ \A l \in Lists : ~WaitsIn(l, d)
          /\ \A e \in Pushers : e # b => ~IsFor(e, d)
          /\ \A w \in Workers : ~Holds(w, d)
          /\ at[b] \in {"link", "tail"} /\ d = Head(todo[b]) => state[d] = "ready"
      BY <3>1 DEF StatesInv, TodoInv
    <3>3. at'[b] \in {"link", "tail"} /\ d = Head(todo'[b]) => state'[d] = "ready"
      BY <1>2, <1>3, <1>4, <3>2
    <3>4. (\A l \in Lists : ~WaitsIn(l, d)') /\ (\A e \in Pushers : e # b => ~IsFor(e, d)')
      BY <1>3, <3>2 DEF WaitsIn, IsFor
    <3>5. state'[d] \in {"blocked", "ready"}
      BY <1>4, <3>2
    <3> QED  BY <1>3, <1>7, <3>2, <3>3, <3>4, <3>5
  <2>2. \A b \in Pushers : IsInjective(todo'[b]) /\ (at'[b] \notin AtWakeUps => todo'[b] = <<>>)
    BY <1>3, <1>4 DEF StatesInv, TodoInv, AtWakeUps
  <2> QED  BY <2>1, <2>2 DEF TodoInv
<1>12. Pending(a, c) /\ Pending(a, c)'
  BY <1>3, <1>4, <1>5 DEF Pending, IsFor
<1>13. c \notin ToSet(r)
  BY <1>1, <1>12 DEF ReadyIs, InLine
<1>14. /\ ready' \in CardLists /\ Chain(r, ready') /\ ready'.head = ready.head /\ ready'.tail = ready.tail
       /\ ready'.next[c] = Nil
  <2>1. ready \in CardLists /\ Chain(r, ready)
    BY <1>1 DEF TypesOK, ReadyIs
  <2>2. ready' = [ready EXCEPT !.next[c] = Nil]
    BY <1>3
  <2>3. /\ ready' \in CardLists /\ Chain(r, ready') /\ ready'.head = ready.head /\ ready'.tail = ready.tail
        /\ \A d \in Cards : ready'.next[d] \in {ready.next[d], Nil} /\ (d # c => ready'.next[d] = ready.next[d])
    BY <1>13, <2>1, <2>2, UnlinkedChain
  <2>4. ready'.next[c] = Nil
    BY <2>1, <2>2 DEF CardLists
  <2> QED  BY <2>3, <2>4
<1>15. ReadyIs(r)'
  <2>1. ASSUME NEW d \in Cards PROVE InLine(d)' <=> InLine(d)
    <3>1. \A b \in Pushers : Pending(b, d)' <=> Pending(b, d)
      BY <1>3, <1>4 DEF Pending, IsFor
    <3> QED  BY <1>4, <1>7, <1>12, <3>1 DEF InLine
  <2> QED  BY <1>1, <1>14, <2>1 DEF ReadyIs
<1>16. TailIs(r)'
  <2>1. ready.tail = EndOf(r)
    BY <1>1, <1>3 DEF TailIs
  <2>2. \A b \in Pushers : /\ at'[b] # "tail"
                           /\ at'[b] = "link" => b = a
    BY <1>4
  <2> QED  BY <1>2, <1>3, <1>4, <1>14, <2>1, <2>2 DEF TailIs
<1> QED  BY <1>8, <1>9, <1>10, <1>11, <1>15, <1>16 DEF StatesInv, ReadyInv

LEMMA LinkKeeps ==
  ASSUME TypesOK, PlacesOK, StatesInv, ReadyInv, Alone, NEW a \in Pushers, Link(a)
  PROVE  StatesInv' /\ ReadyInv'
<1>1. PICK r \in Seq(Cards) : ReadyIs(r) /\ TailIs(r)
  BY DEF ReadyInv
<1>2. PICK c \in Cards : c = Head(todo[a])
  BY DEF Link, PlacesOK
<1>3. /\ at[a] = "link" /\ todo[a] # <<>>
      /\ ready' = IF seen[a] = Nil THEN [ready EXCEPT !.head = c] ELSE [ready EXCEPT !.next[seen[a]] = c]
      /\ at' = [at EXCEPT ![a] = "tail"]
      /\ UNCHANGED <<state, waiters, timers, doing, stack, todo, seen, pc, card>>
  BY <1>2 DEF Link, Goto, PlacesOK, chans
<1>4. at'[a] = "tail" /\ \A b \in Pushers \ {a} : at'[b] = at[b]
  BY <1>3 DEF TypesOK
<1>5. seen[a] = EndOf(r) /\ ready.next[c] = Nil
  BY <1>1, <1>2, <1>3 DEF TailIs
<1>6. IsFor(a, c) /\ Pending(a, c)
  <2>1. todo[a] \in Seq(Callers) /\ IsInjective(todo[a])
    BY DEF TypesOK, StatesInv, TodoInv
  <2>2. IsFor(a, c)
    BY <1>2, <1>3, <2>1, OnceTail DEF IsFor
  <2> QED  BY <1>3, <2>2 DEF Pending
<1>7. c \notin ToSet(r)
  BY <1>1, <1>6 DEF ReadyIs, InLine
<1> DEFINE rr == Append(r, c)
<1>8. rr \in Seq(Cards) /\ IsInjective(rr) /\ ToSet(rr) = ToSet(r) \cup {c}
  BY <1>1, <1>7, OnceAppended DEF ReadyIs
<1>9. Chain(rr, ready') /\ EndOf(rr) = c
  <2>1. ready \in CardLists /\ Chain(r, ready) /\ IsInjective(r)
    BY <1>1 DEF TypesOK, ReadyIs
  <2> QED  BY <1>3, <1>5, <1>7, <2>1, LinkedChain
<1> HIDE DEF rr
<1>10. /\ state[c] = "ready" /\ (\A w \in Workers : ~Holds(w, c))
       /\ \A b \in Pushers : b # a => ~IsFor(b, c)
  BY <1>2, <1>3, <1>6 DEF StatesInv, TodoInv
<1>11. \A w \in Workers, d \in Cards : Holds(w, d)' <=> Holds(w, d)
  BY <1>3 DEF Holds
<1>12. ReadyIs(rr)'
  <2>1. ASSUME NEW d \in Cards PROVE d \in ToSet(rr) <=> InLine(d)'
    <3>1. CASE d = c
      <4>1. \A b \in Pushers : ~Pending(b, c)'
        BY <1>2, <1>3, <1>4, <1>10 DEF Pending, IsFor
      <4> QED  BY <1>3, <1>8, <1>10, <1>11, <3>1, <4>1 DEF InLine
    <3>2. CASE d # c
      <4>1. \A b \in Pushers : Pending(b, d)' <=> Pending(b, d)
        BY <1>2, <1>3, <1>4, <3>2 DEF Pending, IsFor
      <4>2. InLine(d)' <=> InLine(d)
        BY <1>3, <1>11, <4>1 DEF InLine
      <4> QED  BY <1>1, <1>8, <3>2, <4>2 DEF ReadyIs
    <3> QED  BY <3>1, <3>2
  <2> QED  BY <1>8, <1>9, <2>1 DEF ReadyIs
<1>13. TailIs(rr)'
  <2>1. /\ \A w \in Workers : pc'[w] \notin {"next", "head", "clear"}
        /\ \A b \in Pushers \ {a} : at'[b] \notin {"link", "tail"}
    BY <1>3, <1>4, OthersAway
  <2> QED  BY <1>2, <1>3, <1>4, <1>9, <2>1 DEF TailIs
<1>14. StatesInv'
  <2>1. \A d \in Cards : \/ at'[d] = at[d] /\ doing'[d] = doing[d]
                         \/ {at[d], at'[d]} \subseteq AtWakeUps /\ doing'[d] = doing[d]
    BY <1>3, <1>4, ThreadsAre DEF AtWakeUps
  <2>2. \A l \in Lists : IsInjective(waiters'[l]) /\ ToSet(waiters'[l]) \subseteq ToSet(waiters[l]) \cup {Main}
    BY <1>3 DEF StatesInv, WaitingInv
  <2>3. \A b \in Pushers : /\ todo'[b] = todo[b]
                           /\ at'[b] \in {"link", "tail"} => at[b] \in {"link", "tail"}
                           /\ at'[b] \notin AtWakeUps => todo'[b] = <<>>
    BY <1>3, <1>4 DEF StatesInv, TodoInv, AtWakeUps
  <2>4. UNCHANGED <<state, timers, pc, card, stack>>
    BY <1>3
  <2> QED  BY <2>1, <2>2, <2>3, <2>4, CallMoves
<1> QED  BY <1>8, <1>12, <1>13, <1>14 DEF ReadyInv

LEMMA SetTailKeeps ==
  ASSUME TypesOK, PlacesOK, StatesInv, ReadyInv, Alone, NEW a \in Pushers, SetTail(a)
  PROVE  StatesInv' /\ ReadyInv'
<1>1. PICK r \in Seq(Cards) : ReadyIs(r) /\ TailIs(r)
  BY DEF ReadyInv
<1>2. PICK c \in Cards : c = Head(todo[a])
  BY DEF SetTail, PlacesOK
<1>3. /\ at[a] = "tail" /\ todo[a] # <<>>
      /\ ready' = [ready EXCEPT !.tail = c]
      /\ at' = [at EXCEPT ![a] = "wake"] /\ todo' = [todo EXCEPT ![a] = Tail(todo[a])]
      /\ UNCHANGED <<state, waiters, timers, doing, stack, seen, pc, card>>
  BY <1>2 DEF SetTail, Goto, PlacesOK
<1>4. /\ at'[a] = "wake" /\ \A b \in Pushers \ {a} : at'[b] = at[b]
      /\ todo'[a] = Tail(todo[a]) /\ \A b \in Pushers \ {a} : todo'[b] = todo[b]
  BY <1>3 DEF TypesOK
<1>5. EndOf(r) = c
  BY <1>1, <1>2, <1>3 DEF TailIs
<1>6. ToSet(todo'[a]) = ToSet(todo[a]) \ {c}
  <2>1. todo[a] \in Seq(Callers) /\ IsInjective(todo[a])
    BY DEF TypesOK, StatesInv, TodoInv
  <2> QED  BY <1>2, <1>3, <1>4, <2>1, OnceTail
<1>7. ready'.tail = c /\ ready'.head = ready.head /\ ready'.next = ready.next
  BY <1>3 DEF TypesOK, CardLists
<1>8. ReadyIs(r)'
  <2>1. ASSUME NEW d \in Cards PROVE InLine(d)' <=> InLine(d)
    <3>1. \A w \in Workers : Holds(w, d)' <=> Holds(w, d)
      BY <1>3 DEF Holds
    <3>2. \A b \in Pushers : Pending(b, d)' <=> Pending(b, d)
      BY <1>2, <1>3, <1>4, <1>6 DEF Pending, IsFor
    <3> QED  BY <1>3, <3>1, <3>2 DEF InLine
  <2> QED  BY <1>1, <1>7, <2>1 DEF ReadyIs, Chain
<1>9. TailIs(r)'
  <2>1. /\ \A w \in Workers : pc'[w] \notin {"next", "head", "clear"}
        /\ \A b \in Pushers : at'[b] \notin {"link", "tail"}
    BY <1>3, <1>4, OthersAway
  <2> QED  BY <1>5, <1>7, <2>1 DEF TailIs
<1>10. StatesInv'
  <2>1. \A d \in Cards : \/ at'[d] = at[d] /\ doing'[d] = doing[d]
                         \/ {at[d], at'[d]} \subseteq AtWakeUps /\ doing'[d] = doing[d]
    BY <1>3, <1>4, ThreadsAre DEF AtWakeUps
  <2>2. \A l \in Lists : IsInjective(waiters'[l]) /\ ToSet(waiters'[l]) \subseteq ToSet(waiters[l]) \cup {Main}
    BY <1>3 DEF StatesInv, WaitingInv
  <2>3. \A b \in Pushers : /\ todo'[b] = todo[b] \/ (todo[b] # <<>> /\ todo'[b] = Tail(todo[b]) /\ at'[b] \notin {"link", "tail"})
                           /\ at'[b] \in {"link", "tail"} => at[b] \in {"link", "tail"}
                           /\ at'[b] \notin AtWakeUps => todo'[b] = <<>>
    BY <1>3, <1>4 DEF StatesInv, TodoInv, AtWakeUps
  <2>4. UNCHANGED <<state, timers, pc, card, stack>>
    BY <1>3
  <2> QED  BY <2>1, <2>2, <2>3, <2>4, CallMoves
<1> QED  BY <1>8, <1>9, <1>10 DEF ReadyInv

LEMMA PushesKeep ==
  ASSUME ChannelsInv, StatesInv, ReadyInv, Alone, Alone', NEW a \in Pushers, PushStep(a)
  PROVE  StatesInv' /\ ReadyInv'
<1>0. TypesOK /\ PlacesOK /\ SectionsInv
  BY DEF ChannelsInv
<1>1. CASE ReadTail(a)
  <2>1. at' = [at EXCEPT ![a] = "link"] /\ pc' = pc
    BY <1>1 DEF ReadTail, Goto
  <2>2. at'[a] = "link" /\ \A b \in Pushers \ {a} : at'[b] = at[b]
    BY <1>0, <2>1 DEF TypesOK
  <2>3. /\ a \in AtTheList'
        /\ \A w \in Workers : pc'[w] \in {"next", "head", "clear"} => w \in AtTheList'
        /\ \A b \in Pushers : at'[b] \in {"link", "tail"} => b \in AtTheList'
    BY <2>2 DEF AtTheList
  <2>4. \A s, t \in AtTheList' : s = t
    BY DEF Alone
  <2>5. (\A w \in Workers : pc[w] \notin {"next", "head", "clear"}) /\ (\A b \in Pushers \ {a} : at[b] \notin {"link", "tail"})
    BY <2>1, <2>2, <2>3, <2>4, ThreadsAre
  <2> QED  BY <1>0, <1>1, <2>5, ReadTailKeeps
<1>2. CASE Link(a)
  BY <1>0, <1>2, LinkKeeps
<1>3. CASE SetTail(a)
  BY <1>0, <1>3, SetTailKeeps
<1>4. CASE WakeMain(a)
  <2>1. /\ UNCHANGED <<ready, state, timers, waiters, pc, card, stack, seen, doing>>
        /\ at[a] = "wake" /\ todo[a] # <<>> /\ Head(todo[a]) = Main /\ todo' = [todo EXCEPT ![a] = Tail(@)]
        /\ \E q \in {at[Main], "retry"} : at' = [at EXCEPT ![Main] = q] /\ (q # at[Main] => at[Main] = "asleep")
    BY <1>4 DEF WakeMain, queues
  <2>2. PICK q \in {at[Main], "retry"} : at' = [at EXCEPT ![Main] = q] /\ (q # at[Main] => at[Main] = "asleep")
    BY <2>1
  <2>3. at' = [at EXCEPT ![Main] = q, ![a] = "wake"]
    BY <1>0, <2>1, <2>2, ThreadsAre DEF TypesOK
  <2>4. UNCHANGED <<ready, state, timers, waiters, pc, card, stack, seen>> /\ doing' = doing
    BY <2>1
  <2>5. {at[a], "wake"} \cap {"link", "tail"} = {} /\ "wake" = at[a]
    BY <2>1
  <2>6. \/ todo' = todo
        \/ todo[a] # <<>> /\ Head(todo[a]) = Main /\ todo' = [todo EXCEPT ![a] = Tail(@)] /\ at[a] = "wake" /\ "wake" = "wake"
    BY <2>1
  <2> QED  BY <1>0, <2>2, <2>3, <2>4, <2>5, <2>6, OneMoves
<1>5. CASE LeaveSection(a)
  <2>1. /\ UNCHANGED <<ready, state, timers, waiters, pc, card, stack, seen, doing, todo>>
        /\ at[a] = "wake" /\ todo[a] = <<>> /\ cs = a
        /\ at' = [at EXCEPT ![a] = IF IsCard(a) /\ state[a] = "done" THEN "ending" ELSE "code"]
    BY <1>5 DEF LeaveSection, Goto, queues, chans
  <2>2. PICK p \in {"ending", "code"} : /\ at' = [at EXCEPT ![a] = p]
                                        /\ p = IF IsCard(a) /\ state[a] = "done" THEN "ending" ELSE "code"
    BY <2>1
  <2>3. at' = [at EXCEPT ![Main] = at[Main], ![a] = p]
    BY <1>0, <2>2, ThreadsAre DEF TypesOK
  <2>4. a \in Cards => state[a] = "running" \/ (state[a] = "done" /\ p = "ending")
    BY <2>1, <2>2 DEF StatesInv, CardsInv, CardOK, AtWakeUps, IsCard
  <2>5. a \in Cards /\ state[a] = "running" => p = "code"
    BY <2>2
  <2>6. UNCHANGED <<ready, state, timers, waiters, pc, card, stack, seen>> /\ doing' = doing /\ todo' = todo
    BY <2>1
  <2>7. at[Main] \in {at[Main], "retry"} /\ todo[a] = <<>>
    BY <2>1
  <2>8. {at[a], p} \cap {"link", "tail"} = {} /\ at[a] = "wake"
    BY <2>1
  <2>9. a \in Cards => \/ state[a] = "running" /\ {at[a], p} \subseteq {"code", "retry", "wake"}
                       \/ at[a] = "wake" /\ p = "ending" /\ state[a] = "done"
    BY <2>1, <2>4, <2>5
  <2> QED  BY <1>0, <2>3, <2>6, <2>7, <2>8, <2>9, OneMoves
<1> QED  BY <1>1, <1>2, <1>3, <1>4, <1>5 DEF PushStep

LEMMA SleepsKeep ==
  ASSUME TypesOK, StatesInv, ReadyInv, (\E c \in Cards : GoToSleep(c)) \/ MainWakesEarly
  PROVE  StatesInv' /\ ReadyInv'
<1>1. ASSUME NEW c \in Cards, GoToSleep(c) PROVE StatesInv' /\ ReadyInv'
  <2>1. /\ at[c] = "code" /\ state' = [state EXCEPT ![c] = "blocked"] /\ at' = [at EXCEPT ![c] = "leaving"]
        /\ timers' = timers \cup {c} /\ waiters' = waiters
        /\ UNCHANGED <<ready, pc, card, stack, todo, seen, doing>>
    BY <1>1 DEF GoToSleep, InCode, Goto, chans
  <2> QED  BY <2>1, CardWaits
<1>2. CASE MainWakesEarly
  <2>1. /\ at[Main] = "asleep" /\ at' = [at EXCEPT ![Main] = "retry"]
        /\ UNCHANGED <<ready, state, timers, waiters, pc, card, stack, seen, doing, todo>>
    BY <1>2 DEF MainWakesEarly, Goto, queues, chans
  <2>2. at' = [at EXCEPT ![Main] = "retry", ![Main] = "retry"]
    BY <2>1
  <2>3. Main \in Pushers /\ Main \notin Cards
    BY ThreadsAre
  <2>4. todo[Main] = <<>>
    BY <2>1, <2>3 DEF StatesInv, TodoInv, AtWakeUps
  <2>5. UNCHANGED <<ready, state, timers, waiters, pc, card, stack, seen>>
    BY <2>1
  <2> QED  BY <2>1, <2>2, <2>3, <2>4, <2>5, OneMoves
<1> QED  BY <1>1, <1>2

-----------------------------------------------------------------------------
KeptInv == ~overlapped => TaskInv

LEMMA TasksInit == Init => KeptInv
<1> SUFFICES ASSUME Init PROVE TaskInv
  BY DEF KeptInv
<1>0. IsInjective(<<>>) /\ ToSet(<<>>) = {} /\ <<>> \in Seq(Cards)
  BY EmptySeq DEF IsInjective, ToSet
<1>1. CardsInv
  <2>1. \A c \in Cards : /\ at[c] = "saved" /\ state[c] = "unborn" /\ \A w \in Workers : ~RunsOn(w, c)
    BY ThreadsAre DEF Init, RunsOn
  <2> QED  BY <2>1 DEF CardsInv, CardOK, AtWakeUps
<1>2. WorkersInv /\ WaitingInv
  BY <1>0 DEF Init, WorkersInv, WaitingInv, WaitsIn, Taken
<1>3. TodoInv
  <2>1. \A a \in Pushers : todo[a] = <<>>
    BY DEF Init
  <2> QED  BY <1>0, <2>1 DEF TodoInv, IsFor
<1>4. ReadyInv
  <2>1. \A c \in Cards : ~InLine(c)
    BY DEF Init, InLine
  <2>2. ReadyIs(<<>>)
    BY <1>0, <2>1 DEF Init, ReadyIs, Chain
  <2>3. TailIs(<<>>)
    BY DEF Init, TailIs, EndOf
  <2> QED  BY <1>0, <2>2, <2>3 DEF ReadyInv
<1>5. Alone
  BY DEF Init, Alone, AtTheList
<1>6. TornOnlyBeforeSave
  BY DEF Init, TornOnlyBeforeSave
<1> QED  BY <1>1, <1>2, <1>3, <1>4, <1>5, <1>6 DEF StatesInv, TaskInv

LEMMA TasksStep == ChannelsInv /\ KeptInv /\ [Next]_vars => KeptInv'
<1> SUFFICES ASSUME ChannelsInv, KeptInv, [Next]_vars, ~overlapped' PROVE TaskInv'
  BY DEF KeptInv
<1>1. CASE UNCHANGED vars
  <2>1. UNCHANGED <<state, ready, timers, pc, card, stack, waiters, at, crash, doing, todo, seen, overlapped>>
    BY <1>1 DEF vars, queues, tasks, chans
  <2>2. TaskInv
    BY <2>1 DEF KeptInv
  <2>3. StatesInv'
    BY <2>1, <2>2 DEF TaskInv, StatesInv, CardsInv, CardOK, WorkersInv, WaitingInv, TodoInv, RunsOn, Holds, WaitsIn, IsFor
  <2>4. ReadyInv'
    <3>1. (\A c \in Cards : InLine(c)' <=> InLine(c)) /\ ReadyInv
      BY <2>1, <2>2 DEF InLine, Pending, Holds, IsFor, TaskInv
    <3>2. \A a \in Pushers : at'[a] = at[a] /\ todo'[a] = todo[a] /\ seen'[a] = seen[a]
      BY <2>1
    <3>3. \A w \in Workers : pc'[w] = pc[w] /\ card'[w] = card[w] /\ seen'[w] = seen[w]
      BY <2>1
    <3> QED  BY <2>1, <3>1, <3>2, <3>3, ReadyStays
  <2>5. Alone' /\ TornOnlyBeforeSave'
    BY <2>1, <2>2 DEF TaskInv, Alone, AtTheList, TornOnlyBeforeSave
  <2> QED  BY <2>3, <2>4, <2>5 DEF TaskInv
<1>2. CASE Next
  <2>0. crash = "none" /\ ~overlapped /\ \A s, t \in AtTheList' : s = t
    BY <1>2 DEF Next, Step
  <2>1. Alone' /\ TypesOK /\ PlacesOK /\ StatesInv /\ ReadyInv /\ Alone /\ TornOnlyBeforeSave
    BY <2>0 DEF Alone, KeptInv, TaskInv, ChannelsInv
  <2>2. ASSUME NEW w \in Workers, WorkerStep(w) PROVE StatesInv' /\ ReadyInv' /\ TornOnlyBeforeSave'
    BY <2>0, <2>1, <2>2, WorkersKeep
  <2>3. ASSUME NEW a \in Callers, NEW c \in Cards, SpawnTask(a, c) PROVE StatesInv' /\ ReadyInv' /\ crash' = crash
    BY <2>1, <2>3, EntriesKeep DEF SpawnTask
  <2>4. ASSUME NEW a \in Callers, (\E l \in Lists : Call(a, l)) \/ CallStep(a) PROVE StatesInv' /\ ReadyInv' /\ crash' = crash
    <3>1. crash' = crash
      BY <2>4 DEF Call, CallStep, WaitForTask, ChannelWait, Wait, Transfer, LeaveChannel
    <3> QED  BY <2>1, <2>4, <3>1, CallsKeep
  <2>5. ASSUME NEW a \in Pushers, PushStep(a) PROVE StatesInv' /\ ReadyInv' /\ crash' = crash
    <3>1. crash' = crash
      BY <2>5 DEF PushStep, ReadTail, Link, SetTail, WakeMain, LeaveSection
    <3> QED  BY <2>1, <2>5, <3>1, PushesKeep
  <2>6. ASSUME NEW c \in Cards, TimerFires(c) \/ Complete(c) PROVE StatesInv' /\ ReadyInv' /\ crash' = crash
    BY <2>1, <2>6, EntriesKeep DEF TimerFires, Complete
  <2>7. ASSUME (\E c \in Cards : GoToSleep(c)) \/ MainWakesEarly PROVE StatesInv' /\ ReadyInv' /\ crash' = crash
    BY <2>1, <2>7, SleepsKeep DEF GoToSleep, MainWakesEarly
  <2>8. StatesInv' /\ ReadyInv' /\ (TornOnlyBeforeSave' \/ crash' = crash)
    BY <1>2, <2>2, <2>3, <2>4, <2>5, <2>6, <2>7 DEF Next, Step
  <2> QED  BY <2>0, <2>1, <2>8 DEF TaskInv, TornOnlyBeforeSave
<1> QED  BY <1>1, <1>2

(* What the invariant says of a state, in terms of a walk along the list.  *)
LEMMA TasksAreRight ==
  ASSUME ChannelsInv, TaskInv
  PROVE  NoCardLost /\ OnePlace /\ TornOnlyBeforeSave
<1>0. TypesOK /\ PlacesOK /\ CardsInv /\ WorkersInv /\ WaitingInv /\ StatesInv
  BY DEF ChannelsInv, TaskInv, StatesInv
<1>1. PICK r \in Seq(Cards) : ReadyIs(r)
  BY DEF TaskInv, ReadyInv
<1>2. Queued = ToSet(r) /\ Queued \subseteq Cards
  <2>1. Queued = ToSet(r)
    BY <1>0, <1>1, QueuedIs DEF ReadyIs, TypesOK
  <2> QED  BY <2>1 DEF Queued
<1>3. \A c \in Cards : c \in InHands <=> \E w \in Workers : Holds(w, c)
  BY DEF InHands, Holds
<1>4. InHands \subseteq Cards
  BY <1>0 DEF InHands, PlacesOK, Taken
<1>5. \A c \in Cards : c \in Queued <=> InLine(c)
  BY <1>1, <1>2 DEF ReadyIs
<1>6. \A c \in Cards : c \in BeingPushed <=> \E a \in Pushers : IsFor(a, c)
  BY DEF BeingPushed, IsFor
<1>7. \A c \in InHands : state[c] = "ready"
  BY <1>0, <1>3, <1>4 DEF WorkersInv, Holds
<1>8. NoCardLost
  BY <1>3, <1>5, <1>6 DEF NoCardLost, InLine, Pending
<1>9. OnePlace
  <2>0. \A c \in Queued : state[c] = "ready" /\ c \notin InHands
    BY <1>2, <1>3, <1>5 DEF InLine
  <2>1. \A c \in Queued \cup InHands :
          state[c] = "ready" /\ c \notin timers /\ \A l \in Lists : c \notin ToSet(waiters[l])
    BY <1>0, <1>2, <1>4, <1>7, <2>0 DEF WaitingInv, WaitsIn
  <2>2. Queued \cap InHands = {}
    BY <2>0
  <2>3. \A c \in timers : c \in Cards /\ state[c] = "blocked" /\ \A l \in Lists : c \notin ToSet(waiters[l])
    BY <1>0 DEF WaitingInv, WaitsIn, TypesOK
  <2>4. ASSUME NEW c \in Cards, \E w \in Workers : RunsOn(w, c), state[c] \in {"ready", "blocked"}
        PROVE  at[c] = "leaving"
    BY <1>0, <2>4, WhoRuns DEF CardsInv, CardOK
  <2>5. ASSUME NEW v \in Workers, NEW w \in Workers, v # w, card[v] = card[w], {pc[v], pc[w]} \subseteq Taken \cup {"run"}
        PROVE  at[card[w]] = "leaving"
    <3>1. card[w] \in Cards /\ state[card[w]] = "ready" /\ \E u \in Workers : RunsOn(u, card[w])
      BY <1>0, <2>5 DEF WorkersInv, RunsOn, PlacesOK, Taken
    <3> QED  BY <2>4, <3>1
  <2>6. \A c \in Running \cap (Queued \cup InHands \cup timers) : at[c] = "leaving"
    <3>1. \A c \in Running : c \in Cards /\ \E w \in Workers : RunsOn(w, c)
      BY DEF Running, OnStack, RunsOn
    <3> QED  BY <2>1, <2>3, <2>4, <3>1
  <2> QED  BY <2>1, <2>2, <2>3, <2>5, <2>6 DEF OnePlace
<1> QED  BY <1>8, <1>9 DEF TaskInv

(* A card that was woken is not lost: as long as no two threads have been  *)
(* in the middle of a change of the ready list at once, it is in the list  *)
(* that workers pop from, or in the hands of one, or about to be put in.   *)
THEOREM CardsAreNotLost == Spec => [](overlapped \/ NoCardLost)
<1>1. ChannelsInv /\ KeptInv => overlapped \/ NoCardLost
  BY TasksAreRight DEF KeptInv
<1> QED  BY <1>1, ChannelsInit, ChannelsStep, TasksInit, TasksStep, PTL DEF Spec

(* So long a card is in one place: in the ready list, with one worker, or  *)
(* in one list of those who wait; and only a card that has not saved its   *)
(* context yet is with its worker and in a list at once.                   *)
THEOREM CardsInOnePlace == Spec => [](overlapped \/ OnePlace)
<1>1. ChannelsInv /\ KeptInv => overlapped \/ OnePlace
  BY TasksAreRight DEF KeptInv
<1> QED  BY <1>1, ChannelsInit, ChannelsStep, TasksInit, TasksStep, PTL DEF Spec

(* So long the only way to a torn context is the one named: a worker takes *)
(* a card while another is between the end of its section and the save.    *)
THEOREM OnlyUnsavedIsTorn == Spec => [](overlapped \/ TornOnlyBeforeSave)
<1>1. KeptInv => overlapped \/ TornOnlyBeforeSave
  BY DEF KeptInv, TaskInv
<1> QED  BY <1>1, ChannelsInit, ChannelsStep, TasksInit, TasksStep, PTL DEF Spec

(* The list the fields make is whole when nobody changes it.               *)
LEMMA ListIsRight ==
  ASSUME ChannelsInv, TaskInv, AtTheList = {}
  PROVE  ListIsWhole
<1>0. TypesOK /\ StatesInv
  BY DEF ChannelsInv, TaskInv
<1>1. PICK r \in Seq(Cards) : ReadyIs(r) /\ TailIs(r)
  BY DEF TaskInv, ReadyInv
<1>2. /\ Chain(r, ready) /\ IsInjective(r) /\ ready \in CardLists /\ Queued = ToSet(r)
  BY <1>0, <1>1, QueuedIs DEF ReadyIs, TypesOK
<1>6. /\ \A a \in Pushers : at[a] \notin {"link", "tail"}
      /\ \A w \in Workers : pc[w] # "clear"
  BY DEF AtTheList
<1>7. ready.tail = EndOf(r)
  BY <1>1, <1>6 DEF TailIs
<1> DEFINE m == Len(r)
<1>3. /\ m \in Nat /\ DOMAIN r = 1 .. m /\ \A i \in 1 .. m : r[i] \in Cards
      /\ (r = <<>> <=> m = 0) /\ (r = <<>> => ToSet(r) = {}) /\ ToSet(r) = {r[i] : i \in 1 .. m}
  BY ListItems DEF ToSet
<1>4. ready.head = Nil <=> ready.tail = Nil
  <2>1. CASE r = <<>>
    BY <1>2, <1>7, <2>1 DEF Chain, EndOf
  <2>2. CASE r # <<>>
    <3>1. 1 \in 1 .. m /\ m \in 1 .. m
      BY <1>3, <2>2
    <3>2. ready.head = r[1] /\ ready.tail = r[m]
      BY <1>2, <1>7, <2>2 DEF Chain, EndOf
    <3> HIDE DEF m
    <3>3. r[1] # Nil /\ r[m] # Nil
      BY <1>3, <3>1
    <3> QED  BY <3>2, <3>3
  <2> QED  BY <2>1, <2>2
<1>5. ASSUME NEW c \in Queued PROVE ready.next[c] = Nil <=> c = ready.tail
  <2>1. PICK i \in 1 .. m : c = r[i]
    BY <1>2, <1>3
  <2>2. r # <<>> /\ m \in 1 .. m
    <3> HIDE DEF m
    <3> QED  BY <1>3, <2>1
  <2>3. ready.tail = r[m] /\ ready.next[r[m]] = Nil /\ \A k \in 1 .. m - 1 : ready.next[r[k]] = r[k + 1]
    BY <1>2, <1>7, <2>2 DEF Chain, EndOf
  <2> HIDE DEF m
  <2>4. CASE i = m
    BY <2>1, <2>3, <2>4
  <2>5. CASE i # m
    <3>1. i \in 1 .. m - 1 /\ i + 1 \in 1 .. m
      BY <1>3, <2>1, <2>5
    <3>2. ready.next[c] = r[i + 1] /\ r[i + 1] # Nil
      BY <1>3, <2>1, <2>3, <3>1
    <3>3. r[i] # r[m]
      BY <1>2, <1>3, <2>2, <2>5 DEF IsInjective
    <3> QED  BY <2>1, <2>3, <3>2, <3>3
  <2> QED  BY <2>4, <2>5
<1> HIDE DEF m
<1>8. \A c \in Cards : c \in Queued <=> state[c] = "ready" /\ c \notin InHands \cup BeingPushed
  <2>1. \A c \in Cards : c \in Queued <=> InLine(c)
    BY <1>1, <1>2 DEF ReadyIs
  <2>2. \A c \in Cards : c \in InHands <=> \E w \in Workers : Holds(w, c)
    BY DEF InHands, Holds
  <2>3. \A c \in Cards : c \in BeingPushed <=> \E a \in Pushers : Pending(a, c)
    BY <1>6 DEF BeingPushed, Pending, IsFor
  <2> QED  BY <2>1, <2>2, <2>3 DEF InLine
<1> QED  BY <1>4, <1>5, <1>8 DEF ListIsWhole

(* Whenever nobody is in the middle of a change of the ready list, a walk  *)
(* from its head meets exactly the ready cards that nobody has taken or    *)
(* will put in, and ends in its tail, unless two threads have been in the  *)
(* middle of a change at once; and that takes a channel operation.         *)
THEOREM ListStaysWhole == Spec => []ListIsKept
<1>1. ChannelsInv /\ KeptInv => ListIsKept
  BY ListIsRight, SectionsApart DEF KeptInv, ListIsKept, Apart
<1> QED  BY <1>1, ChannelsInit, ChannelsStep, TasksInit, TasksStep, PTL DEF Spec

(* How a card gets off a list it waits in.                                 *)
LEMMA WaitDrops ==
  ASSUME TypesOK, StatesInv, NEW a \in Callers, at[a] = "retry", doing[a] \in Lists, Wait(a, doing[a]),
         NEW l \in Lists, NEW c \in Cards, c \in ToSet(waiters[l]), c \notin ToSet(waiters'[l])
  PROVE  at[Main] = "retry" /\ at'[Main] = "asleep" /\ doing[Main] = l
<1>1. waiters \in [Lists -> Seq(Callers)]
  BY DEF TypesOK
<1>2. waiters' = waiters \/ waiters' = [waiters EXCEPT ![doing[a]] = Appended(waiters[doing[a]], a)]
  BY Zenon DEF Wait
<1>3. waiters' # waiters
  OBVIOUS
<1>4. l = doing[a] /\ waiters'[l] = Appended(waiters[l], a)
  BY <1>1, <1>2, <1>3
<1>5. a = Main
  <2> SUFFICES ASSUME a \in Cards PROVE FALSE
    BY DEF Callers
  <2>1. a \notin ToSet(waiters[l])
    BY WhoRuns DEF WaitsIn
  <2>2. ToSet(waiters'[l]) = ToSet(waiters[l]) \cup {a}
    BY <1>1, <1>4, <2>1, AppendedOnce
  <2> QED  BY <2>2
<1>6. at' = [at EXCEPT ![Main] = "asleep"]
  BY <1>5, ThreadsAre DEF Wait, Goto
<1>7. at'[Main] = "asleep"
  BY <1>6, ThreadsAre DEF TypesOK
<1> QED  BY <1>4, <1>5, <1>7

LEMMA CardsDrop ==
  ASSUME TypesOK, StatesInv, Next,
         NEW l \in Lists, NEW c \in Cards, c \in ToSet(waiters[l]), c \notin ToSet(waiters'[l])
  PROVE  \/ state'[c] = "ready" \/ c \in BeingPushed'
         \/ at[Main] = "retry" /\ at'[Main] = "asleep" /\ doing[Main] = l
<1>1. /\ waiters \in [Lists -> Seq(Callers)] /\ todo \in [Pushers -> Seq(Callers)] /\ waiters' # waiters
  BY DEF TypesOK
<1>2. ASSUME NEW w \in Workers, WorkerStep(w) PROVE FALSE
  <2>1. CASE Look(w) \/ SetHead(w) \/ ClearTail(w) \/ FallAsleep(w) \/ SwitchTo(w)
    BY <1>1, <2>1 DEF Look, SetHead, ClearTail, FallAsleep, SwitchTo, queues
  <2>2. CASE ReadNext(w) \/ WakeUp(w) \/ Back(w) \/ Free(w) \/ Save(w) \/ TaskDone(w)
    BY <1>1, <2>2 DEF ReadNext, WakeUp, Back, Free, Save, TaskDone, queues
  <2> QED  BY <1>2, <2>1, <2>2 DEF WorkerStep
<1>3. ASSUME NEW a \in Callers, (\E d \in Cards : SpawnTask(a, d)) \/ (\E k \in Lists : Call(a, k)) \/ LeaveChannel(a)
      PROVE  FALSE
  BY <1>1, <1>3 DEF SpawnTask, Call, LeaveChannel, queues
<1>4. ASSUME NEW a \in Pushers, PushStep(a) PROVE FALSE
  BY <1>1, <1>4 DEF PushStep, ReadTail, Link, SetTail, WakeMain, LeaveSection, queues
<1>5. ASSUME NEW a \in Callers, WaitForTask(a) \/ ChannelWait(a)
      PROVE  at[Main] = "retry" /\ at'[Main] = "asleep" /\ doing[Main] = l
  <2>1. at[a] = "retry" /\ doing[a] \in Lists
    BY <1>5 DEF WaitForTask, ChannelWait, TypesOK
  <2>2. Wait(a, doing[a])
    BY <1>1, <1>5 DEF WaitForTask, ChannelWait, queues
  <2> QED  BY <2>1, <2>2, WaitDrops
<1>6. ASSUME NEW a \in Pushers, NEW k \in Lists, todo' = [todo EXCEPT ![a] = waiters[k]],
             waiters' = [waiters EXCEPT ![k] = <<>>]
      PROVE  c \in BeingPushed'
  <2>1. l = k /\ todo'[a] = waiters[l]
    BY <1>1, <1>6
  <2>2. ToSet(todo'[a]) \in {ToSet(todo'[b]) : b \in Pushers}
    OBVIOUS
  <2>3. c \in ToSet(todo'[a])
    BY <2>1
  <2> QED  BY <2>2, <2>3 DEF BeingPushed
<1>7. ASSUME NEW a \in Callers, Transfer(a) PROVE c \in BeingPushed'
  <2>1. PICK k : todo' = [todo EXCEPT ![a] = waiters[k]] /\ waiters' = [waiters EXCEPT ![k] = <<>>]
    BY <1>7 DEF Transfer
  <2>2. k \in Lists
    BY <1>1, <2>1
  <2> QED  BY <1>6, <2>1, <2>2, ThreadsAre
<1>8. ASSUME NEW d \in Cards, GoToSleep(d) \/ TimerFires(d) PROVE FALSE
  BY <1>1, <1>8 DEF GoToSleep, TimerFires
<1>9. ASSUME NEW d \in Cards, Complete(d) PROVE c \in BeingPushed'
  <2>1. /\ waiters' = [waiters EXCEPT ![<<d, "done">>] = <<>>]
        /\ todo' = [todo EXCEPT ![d] = waiters[<<d, "done">>]]
    BY <1>9 DEF Complete, Released, Enter
  <2> QED  BY <1>6, <2>1, ListsAre, ThreadsAre
<1>10. ASSUME MainWakesEarly PROVE FALSE
  BY <1>1, <1>10 DEF MainWakesEarly, queues
<1> QED  BY <1>2, <1>3, <1>4, <1>5, <1>7, <1>8, <1>9, <1>10 DEF Next, Step, CallStep

(* As long as no two threads have been in the middle of a change of the    *)
(* ready list at once, a card that waits gets off its list by being woken, *)
(* or is dropped from it by the main thread, when its wait ended early and *)
(* it enters its own card once more.                                       *)
THEOREM DroppedCardsAreNamed == Spec /\ [](~overlapped) => DroppedOnlyByMain
<1> DEFINE Named ==
      \A l \in Lists : \A a \in Cards :
        a \in ToSet(waiters[l]) /\ a \notin ToSet(waiters'[l]) =>
           \/ state'[a] = "ready" \/ a \in BeingPushed'
           \/ at[Main] = "retry" /\ at'[Main] = "asleep" /\ doing[Main] = l
<1>1. ChannelsInv /\ KeptInv /\ ~overlapped /\ [Next]_vars => [Named]_vars
  <2> SUFFICES ASSUME ChannelsInv, KeptInv, ~overlapped, Next,
                      NEW l \in Lists, NEW c \in Cards,
                      c \in ToSet(waiters[l]) /\ c \notin ToSet(waiters'[l])
               PROVE  \/ state'[c] = "ready" \/ c \in BeingPushed'
                      \/ at[Main] = "retry" /\ at'[Main] = "asleep" /\ doing[Main] = l
    OBVIOUS
  <2>1. TypesOK /\ StatesInv
    BY DEF ChannelsInv, KeptInv, TaskInv
  <2> QED  BY <2>1, CardsDrop
<1>2. Spec /\ [](~overlapped) => [][Named]_vars
  BY <1>1, ChannelsInit, ChannelsStep, TasksInit, TasksStep, PTL DEF Spec
<1> QED  BY <1>2 DEF DroppedOnlyByMain
=============================================================================
