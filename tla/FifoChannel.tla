----------------------------- MODULE FifoChannel -----------------------------
(***************************************************************************)
(* What a channel promises (the functions xt_channel_* of                  *)
(* runtime/xt_runtime.c), without ring, mutex, condition variables or      *)
(* wake-ups: a bounded queue of values for each channel, and per caller    *)
(* the call it is in and the answer to its last one.                       *)
(***************************************************************************)
EXTENDS Integers, Sequences

CONSTANTS
    Callers,    \* who calls
    Chans,      \* the channels
    Capacity,   \* values a channel holds
    Calls,      \* the calls there are: op, chans, val, forever
    NoCall,     \* what stands for a call when the caller is in none
    Null        \* the answer "no value"

VARIABLES
    queue,      \* per channel, the values in it
    call,       \* per caller, the call it is in
    reply       \* per caller, the answer to its last call

vars == <<queue, call, reply>>

Init ==
    /\ queue = [c \in Chans |-> <<>>]
    /\ call = [a \in Callers |-> NoCall]
    /\ reply = [a \in Callers |-> Null]

Ask(a) ==
    /\ call[a] = NoCall
    /\ UNCHANGED <<queue, reply>>
    /\ call'[a] \in Calls /\ call' = [call EXCEPT ![a] = call'[a]]

Answer(a, value) ==
    /\ call' = [call EXCEPT ![a] = NoCall]
    /\ reply' = [reply EXCEPT ![a] = value]

Sends(a)    == call[a].op \in {"send", "send_blocking"}
Receives(a) == call[a].op \in {"receive", "receive_blocking"}
Chan(a)     == call[a].chans[1]

(* A value enters at the end, and at most Capacity are in.                 *)
Put(a) ==
    /\ call[a] # NoCall /\ Sends(a)
    /\ Len(queue[Chan(a)]) < Capacity
    /\ queue' = [queue EXCEPT ![Chan(a)] = Append(@, call[a].val)]
    /\ Answer(a, IF call[a].op = "send" THEN Null ELSE 1)

(* The value in front leaves, to one receiver.                             *)
Take(a) ==
    /\ call[a] # NoCall /\ Receives(a)
    /\ queue[Chan(a)] # <<>>
    /\ queue' = [queue EXCEPT ![Chan(a)] = Tail(@)]
    /\ Answer(a, Head(queue[Chan(a)]))

(* A selection names a channel that has a value, and leaves it there.      *)
Choose(a) ==
    /\ call[a] # NoCall /\ call[a].op = "select"
    /\ \E i \in DOMAIN call[a].chans :
          /\ queue[call[a].chans[i]] # <<>>
          /\ Answer(a, i)
    /\ UNCHANGED queue

(* Nothing was done: because the channel is full or empty, where the call  *)
(* does not wait, or because a bounded wait is over.  A call that may wait *)
(* for ever never says so.                                                 *)
Refuse(a) ==
    /\ call[a] # NoCall /\ ~call[a].forever
    /\ call[a].op = "send" => Len(queue[Chan(a)]) = Capacity
    /\ call[a].op = "receive" => queue[Chan(a)] = <<>>
    /\ Answer(a, IF call[a].op = "select" THEN -1 ELSE Null)
    /\ UNCHANGED queue

Next == \E a \in Callers : Ask(a) \/ Put(a) \/ Take(a) \/ Choose(a) \/ Refuse(a)

Spec == Init /\ [][Next]_vars

=============================================================================
