------------------------------- MODULE Channel -------------------------------
(***************************************************************************)
(* The channels of runtime/xt_runtime.c: bounded rings of values that      *)
(* threads send to and receive from, waiting or not, and select among.     *)
(*                                                                         *)
(* A channel has a mutex and two condition variables; everything between   *)
(* a lock and the next unlock or condition wait is one step.  A wait is    *)
(* membership of a wait set, a signal takes at most one waiter out of it,  *)
(* and a waiter may also come out for no reason.  The main thread, before  *)
(* it waits without a bound, runs the fiber scheduler: fibers then make    *)
(* their calls, which never wait, on its stack.                            *)
(***************************************************************************)
EXTENDS Integers, Sequences, FiniteSets

CONSTANTS
    Threads,     \* the threads that call
    Main,        \* the one that ran xt_init, if it is among them
    Fibers,      \* fibers that call, while the main thread runs them
    Chans,       \* the channels
    Capacity,    \* capacity of each
    Timeouts,    \* timeouts given: -1 for ever, 0 not at all, else in units of
                 \*   the 100 ms for which a selection waits at a time
    Lists,       \* the lists of channels given to a selection
    MaxSends     \* bound of the model: calls that send

ASSUME CallersAssumption ==
    /\ IsFiniteSet(Threads) /\ IsFiniteSet(Fibers)
    /\ Threads \cap Fibers = {}
    /\ Main \notin Fibers
ASSUME SizesAssumption ==
    /\ Capacity \in Nat \ {0}
    /\ MaxSends \in Nat
    /\ Timeouts \subseteq Int
    /\ Lists \subseteq Seq(Chans) \ {<<>>}

Callers == Threads \cup Fibers
Slots   == 0 .. Capacity - 1

(* Values are numbered by the call that sends them.                        *)
Null   == 0
Values == 1 .. MaxSends

VARIABLES
    buffer, size, head, tail,  \* per channel, the fields of XTChannel
    recvCv, sendCv,            \* per channel, who waits on recv_cv and send_cv
    pc,                        \* per caller, where it is in its call
    call,                      \* per caller, its call
    at,                        \* per caller, the index i of a selection's loops
    reply,                     \* per caller, what its last call returned
    sends                      \* number of calls that send

ring == <<buffer, size, head, tail>>
cvs  == <<recvCv, sendCv>>
vars == <<ring, cvs, pc, call, at, reply, sends>>

(* "loop": about to lock the mutex and look.  "asleep": in a condition     *)
(* wait, or on its way out of it.  "sched": main, in xt_scheduler_run, and *)
(* "rejoin": back from it.  Of a selection: "scan", in the first loop;     *)
(* "linger", in the second; "doze", in the condition wait of that.         *)
Places == {"idle", "loop", "asleep", "sched", "rejoin", "scan", "linger", "doze"}

Sending   == {"send", "send_blocking"}
Receiving == {"receive", "receive_blocking"}

Idle == [op |-> "none", chans |-> <<>>, val |-> Null, timeout |-> 0]

SendCalls(ops, timeouts) ==
    IF sends = MaxSends THEN {}
    ELSE {[op |-> o, chans |-> <<c>>, val |-> sends + 1, timeout |-> t] :
             o \in ops, c \in Chans, t \in timeouts}
ReceiveCalls(ops, timeouts) ==
    {[op |-> o, chans |-> <<c>>, val |-> Null, timeout |-> t] :
        o \in ops, c \in Chans, t \in timeouts}
SelectCalls ==
    {[op |-> "select", chans |-> l, val |-> Null, timeout |-> t] :
        l \in Lists, t \in Timeouts}

CallsNow == SendCalls({"send"}, {0}) \cup ReceiveCalls({"receive"}, {0})
CallsOf(a) ==
    IF a \in Fibers THEN CallsNow
    ELSE CallsNow \cup SelectCalls
         \cup SendCalls({"send_blocking"}, Timeouts)
         \cup ReceiveCalls({"receive_blocking"}, Timeouts)

Init ==
    /\ buffer = [c \in Chans |-> [i \in Slots |-> Null]]
    /\ size = [c \in Chans |-> 0]
    /\ head = [c \in Chans |-> 0]
    /\ tail = [c \in Chans |-> 0]
    /\ recvCv = [c \in Chans |-> {}]
    /\ sendCv = [c \in Chans |-> {}]
    /\ pc = [a \in Callers |-> "idle"]
    /\ call = [a \in Callers |-> Idle]
    /\ at = [a \in Callers |-> 1]
    /\ reply = [a \in Callers |-> Null]
    /\ sends = 0

Goto(a, place) == pc' = [pc EXCEPT ![a] = place]
Chan(a)        == call[a].chans[1]
BadFull(c)     == size[c] > Capacity
Full(c)        == size[c] >= Capacity
Empty(c)       == size[c] = 0

(* A fiber runs only on the main thread's stack.                           *)
MayRun(a) == a \in Threads \/ (Main \in Threads /\ pc[Main] = "sched")

-----------------------------------------------------------------------------
(* The ring.  (The Bad operators here and below are the mistakes the       *)
(* properties are shown to catch; no action uses them.)                    *)

(* XT_CHAN_COND_SIGNAL: the outcomes of waking at most one waiter.         *)
Signal(cv, c) ==
    IF cv[c] = {} THEN {cv} ELSE {[cv EXCEPT ![c] = @ \ {a}] : a \in cv[c]}

(* The signal for receivers, and the one for senders.                      *)
BadWakeReceiver(c) == IF Empty(c) THEN Signal(recvCv, c) ELSE {recvCv}
WakeReceiver(c)    == Signal(recvCv, c)
WakeSender(c)      == Signal(sendCv, c)

Put(c, v) ==
    /\ buffer' = [buffer EXCEPT ![c][tail[c]] = v]
    /\ tail' = [tail EXCEPT ![c] = (@ + 1) % Capacity]
    /\ size' = [size EXCEPT ![c] = @ + 1]
    /\ recvCv' \in WakeReceiver(c)
    /\ UNCHANGED <<head, sendCv>>

(* A received value is cleared from its slot, else the next value put      *)
(* there would release it once more.                                       *)
Cleared(c)    == [buffer EXCEPT ![c][head[c]] = Null]

Take(c) ==
    /\ buffer' = Cleared(c)
    /\ head' = [head EXCEPT ![c] = (@ + 1) % Capacity]
    /\ size' = [size EXCEPT ![c] = @ - 1]
    /\ sendCv' \in WakeSender(c)
    /\ UNCHANGED <<tail, recvCv>>

Returns(a, value) ==
    /\ reply' = [reply EXCEPT ![a] = value]
    /\ call' = [call EXCEPT ![a] = Idle]
    /\ at' = [at EXCEPT ![a] = 1]
    /\ Goto(a, "idle")
    /\ UNCHANGED sends

Stays(a) == UNCHANGED <<call, at, reply, sends>>

Begin(a) ==
    /\ pc[a] = "idle"
    /\ \E new \in CallsOf(a) :
          /\ call' = [call EXCEPT ![a] = new]
          /\ Goto(a, IF new.op = "select" THEN "scan" ELSE "loop")
          /\ sends' = IF new.op \in Sending THEN sends + 1 ELSE sends
    /\ UNCHANGED <<ring, cvs, at, reply>>

-----------------------------------------------------------------------------
(* xt_channel_send: a full channel drops the value, and the caller is not  *)
(* told.                                                                   *)
SendNow(a) ==
    /\ pc[a] = "loop" /\ call[a].op = "send"
    /\ IF Full(Chan(a)) THEN UNCHANGED <<ring, cvs>> ELSE Put(Chan(a), call[a].val)
    /\ Returns(a, Null)

(* xt_channel_receive                                                      *)
ReceiveNow(a) ==
    /\ pc[a] = "loop" /\ call[a].op = "receive"
    /\ IF Empty(Chan(a))
       THEN Returns(a, Null) /\ UNCHANGED <<ring, cvs>>
       ELSE Returns(a, buffer[Chan(a)][head[Chan(a)]]) /\ Take(Chan(a))

-----------------------------------------------------------------------------
(* The two blocking calls.  The loop ends when there is room, or a value:  *)
(* at its head, and when the main thread is back from the scheduler.       *)
SendBlocking(a) ==
    /\ pc[a] \in {"loop", "rejoin"} /\ call[a].op = "send_blocking"
    /\ ~Full(Chan(a))
    /\ Put(Chan(a), call[a].val)
    /\ Returns(a, 1)

ReceiveBlocking(a) ==
    /\ pc[a] \in {"loop", "rejoin"} /\ call[a].op = "receive_blocking"
    /\ ~Empty(Chan(a))
    /\ Returns(a, buffer[Chan(a)][head[Chan(a)]])
    /\ Take(Chan(a))

(* The call can not do its work yet; looked at in both of those places.    *)
Blocked(a) ==
    \/ call[a].op = "send_blocking" /\ Full(Chan(a))
    \/ call[a].op = "receive_blocking" /\ Empty(Chan(a))
BadMustWait(a) == pc[a] = "rejoin" \/ Blocked(a)
MustWait(a)    == Blocked(a)

GiveUp(a) ==
    /\ pc[a] = "loop" /\ MustWait(a)
    /\ call[a].timeout = 0
    /\ Returns(a, Null)
    /\ UNCHANGED <<ring, cvs>>

(* The main thread runs the fibers, unless another thread is running them. *)
(* It comes back when it pleases: the scheduler has its own module.        *)
RunFibers(a) ==
    /\ pc[a] = "loop" /\ MustWait(a)
    /\ call[a].timeout < 0 /\ a = Main
    /\ Goto(a, "sched")
    /\ Stays(a) /\ UNCHANGED <<ring, cvs>>

BackFromFibers(a) ==
    /\ pc[a] = "sched"
    /\ \A f \in Fibers : pc[f] = "idle"
    /\ Goto(a, "rejoin")
    /\ Stays(a) /\ UNCHANGED <<ring, cvs>>

Join(cv, a, c) == [cv EXCEPT ![c] = @ \cup {a}]

Sleep(a) ==
    /\ \/ pc[a] = "loop" /\ call[a].timeout # 0
       \/ pc[a] = "rejoin"
    /\ MustWait(a)
    /\ IF call[a].op = "send_blocking"
       THEN sendCv' = Join(sendCv, a, Chan(a)) /\ UNCHANGED recvCv
       ELSE recvCv' = Join(recvCv, a, Chan(a)) /\ UNCHANGED sendCv
    /\ Goto(a, "asleep")
    /\ Stays(a) /\ UNCHANGED ring

Waits(a)   == \E c \in Chans : a \in recvCv[c] \cup sendCv[c]
Left(cv, a) == [c \in Chans |-> cv[c] \ {a}]

(* A bounded wait that is over returns without looking at the channel.     *)
TimeOut(a) ==
    /\ pc[a] = "asleep" /\ Waits(a)
    /\ call[a].timeout > 0
    /\ recvCv' = Left(recvCv, a) /\ sendCv' = Left(sendCv, a)
    /\ Returns(a, Null)
    /\ UNCHANGED ring

(* After a wake-up a bounded wait may look once more and does not wait     *)
(* again.                                                                  *)
BadAfterWake(timeout) == 0
AfterWake(timeout)    == IF timeout > 0 THEN 0 ELSE timeout

Awake(a) ==
    /\ pc[a] = "asleep" /\ ~Waits(a)
    /\ Goto(a, "loop")
    /\ call' = [call EXCEPT ![a].timeout = AfterWake(@)]
    /\ UNCHANGED <<ring, cvs, at, reply, sends>>

-----------------------------------------------------------------------------
(* xt_channel_select: look at each channel in turn; then wait, on one      *)
(* after the other, 100 ms for each, until one that is looked at has a     *)
(* value; then start again, or give up.                                    *)
Listed(a)     == call[a].chans[at[a]]
LastListed(a) == at[a] = Len(call[a].chans)

Scan(a) ==
    /\ pc[a] = "scan"
    /\ IF ~Empty(Listed(a)) THEN Returns(a, at[a])
       ELSE IF LastListed(a) /\ call[a].timeout = 0 THEN Returns(a, -1)
       ELSE /\ at' = [at EXCEPT ![a] = IF LastListed(a) THEN 1 ELSE @ + 1]
            /\ Goto(a, IF LastListed(a) THEN "linger" ELSE "scan")
            /\ UNCHANGED <<call, reply, sends>>
    /\ UNCHANGED <<ring, cvs>>

(* The end of a round of waiting, also of one that saw a value: the last   *)
(* round's caller is told that there was nothing.                          *)
LastRound(timeout)     == timeout = 1
BadRoundsLeft(timeout) == timeout
RoundsLeft(timeout)    == IF timeout > 0 THEN timeout - 1 ELSE timeout
NextRound    == "scan"

EndRound(a) ==
    IF LastRound(call[a].timeout) THEN Returns(a, -1)
    ELSE /\ call' = [call EXCEPT ![a].timeout = RoundsLeft(@)]
         /\ at' = [at EXCEPT ![a] = 1]
         /\ Goto(a, NextRound)
         /\ UNCHANGED <<reply, sends>>

Linger(a) ==
    /\ pc[a] = "linger"
    /\ IF Empty(Listed(a))
       THEN /\ recvCv' = Join(recvCv, a, Listed(a))
            /\ Goto(a, "doze")
            /\ Stays(a)
       ELSE EndRound(a) /\ UNCHANGED recvCv
    /\ UNCHANGED <<ring, sendCv>>

DozeEnds(a) ==
    /\ pc[a] = "doze" /\ Waits(a)
    /\ recvCv' = Left(recvCv, a)
    /\ Stays(a) /\ UNCHANGED <<ring, sendCv, pc>>

LookAgain(a) ==
    /\ pc[a] = "doze" /\ ~Waits(a)
    /\ IF Empty(Listed(a)) /\ ~LastListed(a)
       THEN /\ at' = [at EXCEPT ![a] = @ + 1]
            /\ Goto(a, "linger")
            /\ UNCHANGED <<call, reply, sends>>
       ELSE EndRound(a)
    /\ UNCHANGED <<ring, cvs>>

-----------------------------------------------------------------------------
(* A condition wait may end for no reason.                                 *)
Spurious(a) ==
    /\ pc[a] = "asleep" /\ Waits(a)
    /\ recvCv' = Left(recvCv, a) /\ sendCv' = Left(sendCv, a)
    /\ Stays(a) /\ UNCHANGED <<ring, pc>>

BlockingStep(a) ==
    \/ SendBlocking(a) \/ ReceiveBlocking(a)
    \/ GiveUp(a) \/ RunFibers(a) \/ Sleep(a) \/ Awake(a)
SelectStep(a) == Scan(a) \/ Linger(a) \/ LookAgain(a)
Step(a) == SendNow(a) \/ ReceiveNow(a) \/ BlockingStep(a) \/ SelectStep(a)

Next ==
    \E a \in Callers :
       /\ MayRun(a)
       /\ \/ Begin(a) \/ Step(a)
          \/ BackFromFibers(a) \/ TimeOut(a) \/ DozeEnds(a) \/ Spurious(a)

(* A caller in a call goes on, and a bounded wait comes to its end.        *)
Fairness ==
    \A a \in Threads : WF_vars(Step(a)) /\ WF_vars(TimeOut(a)) /\ WF_vars(DozeEnds(a))

Spec     == Init /\ [][Next]_vars
FairSpec == Spec /\ Fairness

-----------------------------------------------------------------------------
(* Properties                                                              *)

Timed == Timeouts \cup {0} \cup UNION {0 .. t : t \in Timeouts}
AllCalls ==
    [op : Sending \cup Receiving \cup {"select"},
     chans : {<<c>> : c \in Chans} \cup Lists,
     val : Values \cup {Null}, timeout : Timed]

TypeOK ==
    /\ buffer \in [Chans -> [Slots -> Values \cup {Null}]]
    /\ size \in [Chans -> 0 .. Capacity]
    /\ head \in [Chans -> Slots] /\ tail \in [Chans -> Slots]
    /\ recvCv \in [Chans -> SUBSET Threads] /\ sendCv \in [Chans -> SUBSET Threads]
    /\ pc \in [Callers -> Places]
    /\ call \in [Callers -> AllCalls \cup {Idle}]
    /\ at \in [Callers -> Nat \ {0}]
    /\ reply \in [Callers -> Int]
    /\ sends \in 0 .. MaxSends

(* The slots in use are the `size' ones from head up to tail, and exactly  *)
(* they hold a value: a value left in a slot outside would be released by  *)
(* the next send although a receiver has it.                               *)
Offset(c, i) == (i - head[c]) % Capacity
RingInv ==
    \A c \in Chans :
       /\ tail[c] = (head[c] + size[c]) % Capacity
       /\ \A i \in Slots : buffer[c][i] # Null <=> Offset(c, i) < size[c]

(* Those that will lock the channel and look before they sleep.            *)
Coming(c, ops) ==
    {a \in Callers :
        /\ call[a].op \in ops /\ Chan(a) = c
        /\ pc[a] = "loop" \/ (pc[a] = "asleep" /\ a \notin recvCv[c] \cup sendCv[c])}

(* No wake-up is lost: while a receiver waits, there are no more values    *)
(* than receivers on their way to take them; while a sender waits, no more *)
(* room than senders on their way to fill it.                              *)
ReceiversAreOwed ==
    \A c \in Chans : recvCv[c] # {} =>
        size[c] <= Cardinality(Coming(c, Receiving))
SendersAreOwed ==
    \A c \in Chans : sendCv[c] # {} =>
        Capacity - size[c] <= Cardinality(Coming(c, Sending))

(* What a caller's place says of its call, and what the wait sets say of   *)
(* their members: a thread waits where its call must, for its own channel. *)
CallOK(a) ==
    /\ pc[a] = "idle" <=> call[a] = Idle
    /\ call[a].op \in Sending => call[a].val \in Values
    /\ call[a].op \in {"send", "receive"} => call[a].timeout = 0
    /\ pc[a] \in {"loop", "asleep", "sched", "rejoin"} =>
          /\ call[a].op \in Sending \cup Receiving
          /\ \E c \in Chans : call[a].chans = <<c>>
    /\ pc[a] \in {"asleep", "sched", "rejoin"} =>
          call[a].op \in {"send_blocking", "receive_blocking"}
    /\ IF pc[a] \in {"scan", "linger", "doze"}
       THEN call[a].op = "select" /\ call[a].chans \in Lists /\ at[a] \in 1 .. Len(call[a].chans)
       ELSE at[a] = 1
    /\ a \in Fibers => pc[a] \in {"idle", "loop"} /\ call[a].op \in {"none", "send", "receive"}
    /\ \A c \in Chans :
          /\ a \in sendCv[c] =>
                pc[a] = "asleep" /\ call[a].op = "send_blocking" /\ Chan(a) = c
          /\ a \in recvCv[c] =>
                \/ pc[a] = "asleep" /\ call[a].op = "receive_blocking" /\ Chan(a) = c
                \/ pc[a] = "doze" /\ Listed(a) = c

CallsInv == \A a \in Callers : CallOK(a)

(* The inductive invariant: with it every step keeps the ring in order and *)
(* owes every waiter its wake-up.  Receivers can count on theirs only      *)
(* where nobody selects.                                                   *)
ChannelInv ==
    /\ TypeOK /\ CallsInv /\ RingInv
    /\ SendersAreOwed /\ (Lists = {} => ReceiversAreOwed)

(* Selections wait on recv_cv as well, are woken for a value and do not    *)
(* take it.  Counting the woken ones, the above still holds, and it is     *)
(* lost only when one of them goes off: then a receiver may sleep on       *)
(* beside a value.                                                         *)
WokenSelections(c) ==
    {a \in Callers : pc[a] = "doze" /\ a \notin recvCv[c] /\ Listed(a) = c}
OwedBySomeone(c) ==
    recvCv[c] # {} =>
        size[c] <= Cardinality(Coming(c, Receiving)) + Cardinality(WokenSelections(c))
OnlySelectionsLoseAWakeUp ==
    [][\A c \in Chans : OwedBySomeone(c) /\ ~OwedBySomeone(c)' =>
          \E a \in WokenSelections(c) : pc'[a] # "doze"]_vars

(* Every call ends that has a bound, whatever the others do.               *)
BoundedCallsEnd ==
    \A a \in Threads :
        (pc[a] # "idle" /\ call[a].timeout >= 0) ~> (pc[a] = "idle")

(* A selection does not go on for ever while one of its channels has a     *)
(* value.                                                                  *)
SelectionsSee ==
    \A a \in Threads, c \in Chans :
       []<>~(call[a].op = "select" /\ c \in {call[a].chans[i] : i \in DOMAIN call[a].chans}
             /\ ~Empty(c))

(* Both together: no call goes on for ever that has a bound or something to *)
(* take.                                                                   *)
CallsEnd == BoundedCallsEnd /\ SelectionsSee

(* The channels are queues: values leave in the order in which they        *)
(* entered, each to one receiver; a call answers by what it found; one     *)
(* that may wait for ever never gives up.                                  *)
AbstractCall(a) ==
    [op |-> call[a].op, chans |-> call[a].chans, val |-> call[a].val,
     forever |-> call[a].timeout < 0]
Queue(c) == [i \in 1 .. size[c] |-> buffer[c][(head[c] + i - 1) % Capacity]]
Fifo == INSTANCE FifoChannel WITH
    queue  <- [c \in Chans |-> Queue(c)],
    call   <- [a \in Callers |-> AbstractCall(a)],
    NoCall <- [op |-> "none", chans |-> <<>>, val |-> Null, forever |-> FALSE],
    Calls  <- [op : Sending \cup Receiving \cup {"select"},
               chans : {<<c>> : c \in Chans} \cup Lists,
               val : Values \cup {Null}, forever : BOOLEAN]
ImplementsFifo == Fifo!Spec

=============================================================================
