------------------------------ MODULE TaskPool ------------------------------
(***************************************************************************)
(* What the thread pool promises its callers (runtime/xt_threadpool.h and  *)
(* the asynchronous layer of xt_runtime.c that is built on it), without    *)
(* ring, slots, locks or condition variables: tasks start in the order in  *)
(* which they were submitted, each once; closing the pool starts no more;  *)
(* an answer about a task is its result, after it has finished, until as   *)
(* many tasks as the pool remembers were submitted after it.               *)
(***************************************************************************)
EXTENDS Integers

CONSTANTS
    Threads,    \* the threads that ask
    Capacity,   \* tasks that may be queued, and finished tasks remembered
    Null,       \* the answer "no result (yet)"
    Gone        \* the other answer for a forgotten task

VARIABLES
    submitted,  \* number of tasks submitted; a task is named by its turn
    started,    \* number of tasks started: those below it
    finished,   \* the tasks that have finished
    closed,     \* no task is started or accepted any more
    answer      \* per thread, the last answer it was given

vars == <<submitted, started, finished, closed, answer>>

Init ==
    /\ submitted = 0
    /\ started = 0
    /\ finished = {}
    /\ closed = FALSE
    /\ answer = [t \in Threads |-> [id |-> Null, val |-> Null, op |-> "none"]]

Submit ==
    /\ ~closed
    /\ submitted - started < Capacity
    /\ submitted' = submitted + 1
    /\ UNCHANGED <<started, finished, closed, answer>>

Start ==
    /\ ~closed
    /\ started < submitted
    /\ started' = started + 1
    /\ UNCHANGED <<submitted, finished, closed, answer>>

Finish ==
    /\ \E id \in (0 .. started - 1) \ finished : finished' = finished \cup {id}
    /\ UNCHANGED <<submitted, started, closed, answer>>

Close ==
    /\ ~closed
    /\ closed' = TRUE
    /\ UNCHANGED <<submitted, started, finished, answer>>

Forgotten(id) == id + Capacity < submitted

(* The answers a wait may give, and those an enquiry that does not wait.   *)
WaitAnswers(id) ==
    (IF id \in finished THEN {id} ELSE {}) \cup (IF Forgotten(id) THEN {Null} ELSE {})
TryAnswers(id) ==
    (IF id \in finished THEN {id} ELSE {Null}) \cup (IF Forgotten(id) THEN {Gone} ELSE {})

Answer ==
    /\ \E t \in Threads, id \in 0 .. submitted - 1 :
          \/ \E v \in WaitAnswers(id) :
                answer' = [answer EXCEPT ![t] = [id |-> id, val |-> v, op |-> "wait"]]
          \/ \E v \in TryAnswers(id) :
                answer' = [answer EXCEPT ![t] = [id |-> id, val |-> v, op |-> "try_wait"]]
    /\ UNCHANGED <<submitted, started, finished, closed>>

Next == Submit \/ Start \/ Finish \/ Close \/ Answer

Spec == Init /\ [][Next]_vars

=============================================================================
