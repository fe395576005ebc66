------------------------------ MODULE Acceptor ------------------------------
(***************************************************************************)
(* The main reactor: the listening socket is registered edge triggered,    *)
(* server::handle_new_conn accepts until accept fails, and every           *)
(* connection goes to the next IO loop of the pool.                        *)
(*                                                                         *)
(* Descriptors are numbers; the kernel gives out the lowest free one.  The *)
(* descriptors of the program itself are not counted, so number 0 is the   *)
(* first that accept can return.  What an IO loop does with a connection   *)
(* is Reactor's; here it closes it at some time.                           *)
(***************************************************************************)
EXTENDS PoolSize, FiniteSets

CONSTANTS
  MAXFD,         \* the server's own limit
  FdLimit,       \* the process's limit: accept fails with EMFILE beyond it
  MaxClients     \* bound on the clients that ever connect

ASSUME LimitsAssumption == MAXFD \in Nat /\ FdLimit \in Nat /\ MaxClients \in Nat

VARIABLES
  pc,         \* where the main thread is in its loop
  backlog,    \* kernel: connections established and not accepted
  ready,      \* kernel: the listening socket is on epoll's ready list
  interest,   \* kernel: it is registered for EPOLLIN
  events_,    \* accept_channel_: its events_ is EPOLLIN | EPOLLET, else 0
  last_events_,
  open,       \* descriptors of connections
  next_,      \* event_loop_thread_pool's round robin position
  assigned,   \* history: connections handed to each loop
  clients,    \* history: clients that have connected
  rejected,   \* history: connections closed because of MAXFD
  aborted,    \* history: connections that accept found broken
  accept_error \* history: the last round of accepts ended while somebody waited

vars == <<pc, backlog, ready, interest, events_, last_events_, open, next_,
          assigned, clients, rejected, aborted, accept_error>>

channelVars == <<events_, last_events_>>
counts == <<rejected, aborted, accept_error>>

Loops == 0 .. ThreadNum - 1
Descriptors == 0 .. FdLimit - 1

TypeOK ==
  /\ pc \in {"start", "poll", "accept", "conn"}
  /\ backlog \in Nat
  /\ {ready, interest, events_, last_events_} \subseteq BOOLEAN
  /\ open \subseteq Descriptors
  /\ next_ \in Loops
  /\ assigned \in [Loops -> Nat]
  /\ {clients, rejected, aborted} \subseteq Nat /\ accept_error \in BOOLEAN

(* After server's constructor: the socket listens, nobody watches it. *)
Init ==
  /\ pc = "start"
  /\ backlog = 0 /\ ready = FALSE /\ interest = FALSE
  /\ events_ = FALSE /\ last_events_ = FALSE
  /\ open = {}
  /\ next_ = 0
  /\ assigned = [l \in Loops |-> 0]
  /\ clients = 0 /\ rejected = 0 /\ aborted = 0 /\ accept_error = FALSE
-----------------------------------------------------------------------------
client_connects ==
  /\ clients < MaxClients
  /\ clients' = clients + 1
  /\ backlog' = backlog + 1
  /\ ready' = (ready \/ interest)
  /\ UNCHANGED <<pc, interest, channelVars, open, next_, assigned, counts>>

(* An IO loop closes a connection. *)
connection_closed(f) ==
  /\ f \in open
  /\ open' = open \ {f}
  /\ UNCHANGED <<pc, backlog, ready, interest, channelVars, next_, assigned, clients, counts>>

(* The rest of server::start: EPOLL_CTL_ADD sees who is already waiting. *)
start ==
  /\ pc = "start"
  /\ events_' = TRUE /\ last_events_' = TRUE
  /\ interest' = TRUE
  /\ ready' = (backlog > 0)
  /\ pc' = "poll"
  /\ UNCHANGED <<backlog, open, next_, assigned, clients, counts>>

(* poll() returns the accept channel; get_events_request and handle_events
   clear events_. *)
poll ==
  /\ pc = "poll" /\ ready /\ interest /\ backlog > 0
  /\ ready' = FALSE
  /\ events_' = FALSE
  /\ accept_error' = FALSE
  /\ pc' = "accept"
  /\ UNCHANGED <<backlog, interest, last_events_, open, next_, assigned, clients, rejected, aborted>>

free == Descriptors \ open

lowest(s) == CHOOSE f \in s : \A g \in s : f <= g

(* Mutant: the position is not advanced. *)
get_next_loop_stuck == UNCHANGED next_

(* event_loop_thread_pool::get_next_loop; the loop chosen is next_. *)
get_next_loop == next_' = (next_ + 1) % ThreadNum

accepting == pc = "accept" /\ backlog > 0 /\ free # {}

(* Mutant: handle_new_conn accepts one connection per event. *)
after_accept_once == "conn"

(* accept is called again after every connection. *)
after_accept == "accept"

(* A connection is accepted, its descriptor is within the limit and is made
   non-blocking: an IO loop gets it. *)
hand_over ==
  /\ accepting
  /\ lowest(free) < MAXFD
  /\ get_next_loop
  /\ backlog' = backlog - 1
  /\ open' = open \cup {lowest(free)}
  /\ assigned' = [assigned EXCEPT ![next_] = @ + 1]
  /\ pc' = after_accept
  /\ events_' = (after_accept = "conn")
  /\ UNCHANGED <<ready, interest, last_events_, clients, counts>>

(* The descriptor number is beyond the limit: closed at once, but the loop's
   turn in the round is spent. *)
reject ==
  /\ accepting
  /\ lowest(free) >= MAXFD
  /\ get_next_loop
  /\ backlog' = backlog - 1
  /\ rejected' = rejected + 1
  /\ UNCHANGED <<pc, ready, interest, channelVars, open, assigned, clients, aborted, accept_error>>

(* Mutant: the failure is answered with `continue`. *)
set_nonblocking_fails_continues ==
  /\ accepting
  /\ lowest(free) < MAXFD
  /\ get_next_loop
  /\ backlog' = backlog - 1
  /\ open' = open \cup {lowest(free)}
  /\ UNCHANGED <<pc, ready, interest, channelVars, assigned, clients, counts>>

(* setSocketNonBlocking fails: handle_new_conn returns without closing the
   descriptor and without restoring events_. *)
set_nonblocking_fails ==
  /\ accepting
  /\ lowest(free) < MAXFD
  /\ get_next_loop
  /\ backlog' = backlog - 1
  /\ open' = open \cup {lowest(free)}
  /\ pc' = "conn"
  /\ UNCHANGED <<ready, interest, channelVars, assigned, clients, counts>>

(* accept returns -1: nobody waits, no descriptor is left (EMFILE), or it finds
   another error: ENFILE, ENOBUFS, ENOMEM, or ECONNABORTED for the client in
   front, who is gone then.  handle_new_conn takes each for the end of the
   queue. *)
accept_fails ==
  /\ pc = "accept"
  /\ \E gone \in {0, 1} : gone <= backlog /\ backlog' = backlog - gone /\ aborted' = aborted + gone
  /\ accept_error' = (backlog > 0)
  /\ events_' = TRUE
  /\ pc' = "conn"
  /\ UNCHANGED <<ready, interest, last_events_, open, next_, assigned, clients, rejected>>

(* handle_this_conn: EPOLL_CTL_MOD only if events_ has changed; it looks at
   the socket. *)
handle_this_conn ==
  /\ pc = "conn"
  /\ last_events_' = events_
  /\ IF events_ # last_events_
     THEN interest' = events_ /\ ready' = (events_ /\ backlog > 0)
     ELSE UNCHANGED <<interest, ready>>
  /\ pc' = "poll"
  /\ UNCHANGED <<backlog, events_, open, next_, assigned, clients, counts>>
-----------------------------------------------------------------------------
MainStep == start \/ poll \/ hand_over \/ reject \/ set_nonblocking_fails \/ accept_fails \/ handle_this_conn

Next == MainStep \/ client_connects \/ \E f \in Descriptors : connection_closed(f)

SafeSpec == Init /\ [][Next]_vars

-----------------------------------------------------------------------------
(* The edge trigger strands nobody: a connection that waits when the main
   thread sleeps will wake it, unless the last accept failed while somebody
   waited.  (Then the edge is spent and only a further client wakes it.) *)
NoStrandedBacklog ==
  pc = "poll" /\ interest /\ backlog > 0 /\ ~accept_error => ready

(* The turns the loops have had, numbered per loop: a[l] of loop l. *)
turns(a) == UNION {{l} \X (1 .. a[l]) : l \in Loops}

handed_over == Cardinality(turns(assigned))

(* Nobody is dropped on the way: every client is waiting, was handed to one
   loop, was rejected, gave up before accept, or is the one whose descriptor could not be made
   non-blocking, and that one takes the listener down with it. *)
EveryClientAccounted ==
  clients = backlog + handed_over + rejected + aborted
              + (IF pc # "start" /\ (~interest \/ (pc = "conn" /\ ~events_)) THEN 1 ELSE 0)

(* README.md:34: connections are distributed round robin: no loop is ever two
   connections ahead of another, but for the turns spent on connections that
   no loop was given (server.cpp:46 takes the turn before lines 60 and 65). *)
RoundRobin ==
  LET given_to_none == clients - backlog - handed_over - aborted
  IN  \A k, l \in Loops : assigned[k] <= assigned[l] + 1 + given_to_none
=============================================================================
