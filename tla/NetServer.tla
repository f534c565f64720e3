----------------------------- MODULE NetServer ------------------------------
(* Sockets and the TCP server of the C runtime (xt_net.c), over the arenas.

   xt_net_listen starts a thread that accepts connections.  For each it makes
   a socket object, in whatever arena is current at the time, and a thread that
   runs conn_handler: put the current arena aside, clear it, run the program's
   callback, make the arena current again and release the socket.  The callback
   may hand its socket to the program, which holds it then; whoever releases it
   last closes the connection.  Both may close it before: closing looks at
   is_closed, closes the descriptor, and only then sets is_closed.  A socket
   from xt_connect is counted once for itself and once by the result around it,
   and nothing gives up the first.

   Whether a peer connects, whether a system call fails and how long a callback
   takes is nondeterministic. *)
EXTENDS Arena

CONSTANTS Conns, Acceptor

ASSUME NetAssumption == Threads = Conns \cup {Main, Acceptor} /\ Main # Acceptor /\ {Main, Acceptor} \cap Conns = {}

VARIABLES
  listener,   \* the listening socket: "no", "failed", "open"
  conn,       \* per connection: its descriptor, its object, its handler's stage
  closing     \* <<t, c>>: thread t has found c open and is about to close it

\* What happened on the way
VARIABLES
  reclosed,   \* a descriptor was closed twice
  raced,      \* two threads closed one socket at once
  wanted,     \* the arena the program last made current
  crossed     \* the current arena changed while a handler had it put aside

netVars == <<listener, conn, closing, reclosed, raced, wanted, crossed>>
vars == <<arenaVars, netVars>>

NoConn == [fd |-> "none", isClosed |-> FALSE, rc |-> 0, immortal |-> FALSE, shared |-> FALSE, stage |-> "none"]

Init ==
  /\ ArenaInit /\ listener = "no" /\ conn = [c \in Conns |-> NoConn]
  /\ closing = {} /\ reclosed = FALSE /\ raced = FALSE /\ wanted = None /\ crossed = FALSE

Stage(c, from, to) == conn[c].stage = from /\ conn' = [conn EXCEPT ![c].stage = to]
Inside(c) == conn[c].stage \in {"entered", "callback"}
OnlyConnAndUses == UNCHANGED <<alloc, memory, listener, closing, reclosed, raced, wanted, crossed>>
OnlyConn == UNCHANGED <<arenaVars, listener, closing, reclosed, raced, wanted, crossed>>

(* The program's calls, one at a time.                                       *)
Calling == Resting /\ \A c \in Conns : conn[c].stage # "connecting"

(* The program's calls about arenas, some of which set the current one       *)
ArenaStep ==
  /\ Calling /\ ArenaCall
  /\ IF ArenaSwitch THEN wanted' = current' /\ crossed' = (crossed \/ \E c \in Conns : Inside(c))
     ELSE UNCHANGED <<wanted, crossed>>
  /\ UNCHANGED <<listener, conn, closing, reclosed, raced>>

(* xt_net_listen: on any failure the socket it had opened is closed.         *)
Listen ==
  /\ listener = "no" /\ Calling /\ listener' \in {"open", "failed"}
  /\ UNCHANGED <<arenaVars, conn, closing, reclosed, raced, wanted, crossed>>

(* xt_net_new_socket makes the object, counted once unless it is an arena's. *)
Opened(c, to) ==
  /\ Uses /\ conn[c].stage = "none" /\ conn' = [conn EXCEPT ![c].fd = "open", ![c].stage = to]
  /\ OnlyConnAndUses
MadeBy(t, c, made) ==
  /\ alloc[t].at = "done" /\ conn' = [conn EXCEPT ![c] = made] /\ alloc' = [alloc EXCEPT ![t] = Idle]
  /\ UNCHANGED <<memory, uses, listener, closing, reclosed, raced, wanted, crossed>>

Accept(c) ==
  /\ listener = "open" /\ \A d \in Conns : conn[d].stage \notin {"accepted", "made"}
  /\ Opened(c, "accepted")
NewSocket(c) ==
  /\ conn[c].stage = "accepted"
  /\ MadeBy(Acceptor, c, [conn[c] EXCEPT !.stage = "made", !.immortal = alloc[Acceptor].immortal, !.rc = 1])
(* The thread may not start (pthread_create's answer is not looked at).      *)
StartHandler(c) == (Stage(c, "made", "started") \/ Stage(c, "made", "lost")) /\ OnlyConn

(* xt_connect: the socket, and a result around it, which the program holds.  *)
Connect(c) ==
  /\ Calling /\ Opened(c, "connecting")
Connected(c) ==
  /\ conn[c].stage = "connecting" /\ ~InArray
  /\ MadeBy(Main, c, [conn[c] EXCEPT !.stage = "connected", !.immortal = alloc[Main].immortal,
                                     !.rc = 2, !.shared = TRUE])

(* conn_handler around the program's callback                                *)
PutArenaAside(c) ==
  /\ Stage(c, "started", "entered") /\ saved' = [saved EXCEPT ![c] = current]
  /\ crossed' = (crossed \/ \E d \in Conns : Inside(d))
  /\ UNCHANGED <<current, arena, blocks, alloc, array, uses, objects, history, faults,
                 listener, closing, reclosed, raced, wanted>>
ClearArena(c) ==
  /\ Stage(c, "entered", "callback") /\ Switch(c, None)
  /\ UNCHANGED <<arena, blocks, alloc, saved, array, uses, objects, stale, mixed, faults,
                 listener, closing, reclosed, raced, wanted, crossed>>
BadRestored(c) == None
Restored(c) == saved[c]
CallbackReturns(c) ==
  /\ Stage(c, "callback", "releasing") /\ ~Busy(c) /\ <<c, c>> \notin closing
  /\ Switch(c, Restored(c)) /\ saved' = [saved EXCEPT ![c] = None]
  /\ UNCHANGED <<arena, blocks, alloc, array, uses, objects, stale, mixed, faults,
                 listener, closing, reclosed, raced, wanted, crossed>>

(* xt_net_close_obj, by the callback or by the program                       *)
Shut(c) == [conn EXCEPT ![c].fd = "closed", ![c].isClosed = TRUE]
Holds(t, c) == (t = c /\ conn[c].stage = "callback") \/ (t = Main /\ conn[c].shared)
Close(t, c) ==
  /\ Holds(t, c) /\ ~conn[c].isClosed /\ <<t, c>> \notin closing
  /\ closing' = closing \cup {<<t, c>>}
  /\ raced' = (raced \/ \E u \in Threads : <<u, c>> \in closing)
  /\ UNCHANGED <<arenaVars, listener, conn, reclosed, wanted, crossed>>
EndClose(t, c) ==
  /\ <<t, c>> \in closing /\ closing' = closing \ {<<t, c>>} /\ conn' = Shut(c)
  /\ reclosed' = (reclosed \/ conn[c].fd = "closed")
  /\ UNCHANGED <<arenaVars, listener, raced, wanted, crossed>>

(* The program keeps the socket (xt_retain), and gives it up.                *)
Share(c) ==
  /\ Uses /\ conn[c].stage = "callback" /\ ~conn[c].shared
  /\ conn' = [conn EXCEPT ![c].shared = TRUE, ![c].rc = @ + 1]
  /\ OnlyConnAndUses

(* xt_release: the last one closes what is not closed yet.                   *)
BadLastCount(c) == conn[c].rc = 0
LastCount(c) == conn[c].rc = 1 /\ ~conn[c].immortal
Released(c) == IF LastCount(c) /\ ~conn[c].isClosed THEN Shut(c) ELSE conn
Release(c) ==
  /\ reclosed' = (reclosed \/ (conn[c].fd = "closed" /\ LastCount(c) /\ ~conn[c].isClosed))
  /\ UNCHANGED <<arenaVars, listener, closing, raced, wanted, crossed>>
ReleaseSocket(c) ==
  /\ conn[c].stage = "releasing" /\ Release(c)
  /\ conn' = [Released(c) EXCEPT ![c].stage = "ended", ![c].rc = conn[c].rc - 1]
Unshare(c) ==
  /\ conn[c].shared /\ <<Main, c>> \notin closing /\ Release(c)
  /\ conn' = [Released(c) EXCEPT ![c].shared = FALSE, ![c].rc = conn[c].rc - 1]

Allocates(t) ==
  \/ t = Main /\ (Busy(t) \/ Resting)
  \/ t = Acceptor /\ \E c \in Conns : conn[c].stage = "accepted"
  \/ t \in Conns /\ conn[t].stage = "callback"

Next ==
  /\ Sound
  /\ \/ ArenaStep
     \/ \E t \in Threads : Allocates(t) /\ Allocate(t) /\ UNCHANGED netVars
     \/ (\A c \in Conns : conn[c].stage # "connecting") /\ Keep /\ UNCHANGED netVars
     \/ (ArrayElements \/ ArrayHas) /\ UNCHANGED netVars
     \/ Listen
     \/ \E c \in Conns :
          \/ Accept(c) \/ NewSocket(c) \/ StartHandler(c) \/ Connect(c) \/ Connected(c)
          \/ PutArenaAside(c) \/ ClearArena(c) \/ CallbackReturns(c)
          \/ Share(c) \/ Unshare(c) \/ ReleaseSocket(c)
          \/ \E t \in Threads : Close(t, c) \/ EndClose(t, c)
Spec == Init /\ [][Next]_vars

-----------------------------------------------------------------------------
(* A served connection is closed once its handler has returned and the program
   has given up its socket, in whichever order; one whose object came from an
   arena is not, for then nothing counts it.  No descriptor is closed
   twice (its number may by then be another connection's), unless two threads
   closed the socket at the same time.                                       *)
ConnectionsAreClosedOnce ==
  /\ \A c \in Conns : conn[c].stage = "ended" /\ ~conn[c].shared => conn[c].fd = "closed" \/ conn[c].immortal
  /\ reclosed => raced

(* Handlers leave the current arena as the program set it, unless one ran while
   another did or the program changed it meanwhile: conn_handler saves and
   restores a global of all threads.                                         *)
HandlersKeepTheArena == crossed \/ (\E c \in Conns : Inside(c)) \/ current = wanted
=============================================================================
