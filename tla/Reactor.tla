------------------------------- MODULE Reactor -------------------------------
(***************************************************************************)
(* One IO loop and its connections: uepoll, channel, http_data and the     *)
(* timer_manager, with the main thread that hands connections over, the    *)
(* peers, and the kernel's edge triggered epoll.                           *)
(*                                                                         *)
(* Abstractions.  Bytes: a socket has unread input or not, outBuffer_ has  *)
(* something to send or not, and what the parser makes of the input is a   *)
(* choice (HttpParser takes it apart); Transfers has the loops that move   *)
(* the bytes.  Time: a timer_node expires at some point after it is        *)
(* created; the three timeouts, and keepAlive_ which only selects among    *)
(* them, are not told apart.  Deleted timer nodes have no data left and    *)
(* are not kept.  EPOLLET is in every interest and is not written.  The    *)
(* eventfd is replaced by what EventLoop proves of it: poll() does not     *)
(* sleep while a functor is queued.                                        *)
(***************************************************************************)
EXTENDS Naturals, Sequences, Functions, Transfers

CONSTANTS
  Conns,     \* http_data objects; each is accepted at most once
  Fds,       \* descriptor numbers, reused by the kernel
  MaxSends,  \* bound on the writes of each peer
  None       \* a null pointer

ASSUME NoneAssumption == None \notin Conns /\ None \notin Fds
ASSUME MaxSendsAssumption == MaxSends \in Nat

VARIABLES
  pc,                  \* where the IO thread is in event_loop::loop
  cur,                 \* the channel whose handle_events is running
  batch,               \* channels poll() returned, not yet handled
  revents,             \* revents_ of each channel
  m_pending_functors,  \* connections queued by the main thread
  functors,            \* the swapped vector, what is left of it
  fd,                  \* fd_ of each connection, None before accept
  fd_channel_,         \* uepoll: descriptor -> channel of a connection
  fd_http_,            \* uepoll: descriptor -> http_data
  nodes,               \* live timer nodes that hold each connection
  http,                \* fields of http_data and of its channel
  sock,                \* kernel: the socket
  interest,            \* kernel: events epoll watches; empty if unregistered or muted by ONESHOT
  ready                \* kernel: sockets on epoll's ready list

vars == <<pc, cur, batch, revents, m_pending_functors, functors, fd, fd_channel_,
          fd_http_, nodes, http, sock, interest, ready>>

loopVars   == <<pc, cur, batch, revents, functors>>
tableVars  == <<fd_channel_, fd_http_>>
kernelVars == <<sock, interest, ready>>

Events == {"IN", "OUT", "ONESHOT"}
LoopPc == {"poll", "handle", "read", "write", "conn", "functors", "expire"}

HttpData == [error : BOOLEAN, state : {"CONNECTED", "DISCONNECTING", "DISCONNECTED"},
             out : BOOLEAN, events : SUBSET Events, last : SUBSET Events]
Socket == [in : BOOLEAN, eof : BOOLEAN, rst : BOOLEAN, writable : BOOLEAN, sent : Nat]

(* linked: timer_ of the connection points to the node. *)
TimerNode == [linked : BOOLEAN, expired : BOOLEAN]

TypeOK ==
  /\ pc \in LoopPc
  /\ cur \in Conns \cup {None}
  /\ batch \subseteq Conns
  /\ revents \in [Conns -> SUBSET {"IN", "OUT", "ERR"}]
  /\ m_pending_functors \in Seq(Conns)
  /\ functors \in Seq(Conns)
  /\ fd \in [Conns -> Fds \cup {None}]
  /\ fd_channel_ \in [Fds -> Conns \cup {None}]
  /\ fd_http_ \in [Fds -> Conns \cup {None}]
  /\ nodes \in [Conns -> SUBSET TimerNode]
  /\ http \in [Conns -> HttpData]
  /\ sock \in [Conns -> Socket]
  /\ interest \in [Conns -> SUBSET Events]
  /\ ready \subseteq Conns

(* http_data's constructor. *)
NewHttpData == [error |-> FALSE, state |-> "CONNECTED", out |-> FALSE,
                events |-> {}, last |-> {}]
NewSocket == [in |-> FALSE, eof |-> FALSE, rst |-> FALSE, writable |-> TRUE, sent |-> 0]

Init ==
  /\ pc = "poll" /\ cur = None /\ batch = {}
  /\ revents = [c \in Conns |-> {}]
  /\ m_pending_functors = <<>> /\ functors = <<>>
  /\ fd = [c \in Conns |-> None]
  /\ fd_channel_ = [f \in Fds |-> None] /\ fd_http_ = [f \in Fds |-> None]
  /\ nodes = [c \in Conns |-> {}]
  /\ http = [c \in Conns |-> NewHttpData]
  /\ sock = [c \in Conns |-> NewSocket]
  /\ interest = [c \in Conns |-> {}] /\ ready = {}
-----------------------------------------------------------------------------
(* Mutant: the descriptor table does not own its connections. *)
owned_without_table(c) ==
  c \in Range(m_pending_functors) \cup Range(functors) \/ nodes[c] # {}

(* The owners of the shared_ptr<http_data>: the functor that carries it, the
   descriptor table, a live timer node.  The last one to go runs ~http_data,
   which closes the descriptor. *)
owned(c) ==
  \/ c \in Range(m_pending_functors) \cup Range(functors)
  \/ \E f \in Fds : fd_http_[f] = c
  \/ nodes[c] # {}

alive(c) == fd[c] # None /\ owned(c)

(* Kernel: readiness of a socket, and what epoll reports of it. *)
status(s) ==
  (IF s.in \/ s.eof \/ s.rst THEN {"IN"} ELSE {}) \cup
  (IF s.writable \/ s.rst THEN {"OUT"} ELSE {}) \cup
  (IF s.rst THEN {"ERR"} ELSE {})

reported(s, i) == IF i # {} THEN status(s) \cap (i \cup {"ERR"}) ELSE {}

(* A change of the socket's state puts it on the ready list if the
   registration asks for what changed (errors always count). *)
edge(c, changed) ==
  IF interest[c] # {} /\ changed \cap (interest[c] \cup {"ERR"}) # {}
  THEN ready \cup {c} ELSE ready
-----------------------------------------------------------------------------
(* Main thread: accept, http_data's construction, queue_in_loop(new_event). *)
handle_new_conn(c, f) ==
  /\ fd[c] = None
  /\ \A d \in Conns : alive(d) => fd[d] # f
  /\ fd' = [fd EXCEPT ![c] = f]
  /\ m_pending_functors' = Append(m_pending_functors, c)
  /\ UNCHANGED <<loopVars, tableVars, nodes, http, kernelVars>>

(* Peers and time *)
peer_sends(c) ==
  /\ alive(c) /\ ~sock[c].eof /\ ~sock[c].rst /\ sock[c].sent < MaxSends
  /\ sock' = [sock EXCEPT ![c].in = TRUE, ![c].sent = @ + 1]
  /\ ready' = edge(c, {"IN"})
  /\ UNCHANGED <<loopVars, m_pending_functors, fd, tableVars, nodes, http, interest>>

peer_shuts_down(c) ==
  /\ alive(c) /\ ~sock[c].eof /\ ~sock[c].rst
  /\ sock' = [sock EXCEPT ![c].eof = TRUE]
  /\ ready' = edge(c, {"IN"})
  /\ UNCHANGED <<loopVars, m_pending_functors, fd, tableVars, nodes, http, interest>>

peer_resets(c) ==
  /\ alive(c) /\ ~sock[c].rst
  /\ sock' = [sock EXCEPT ![c].rst = TRUE]
  /\ ready' = edge(c, {"IN", "OUT", "ERR"})
  /\ UNCHANGED <<loopVars, m_pending_functors, fd, tableVars, nodes, http, interest>>

peer_drains(c) ==
  /\ alive(c) /\ ~sock[c].writable
  /\ sock' = [sock EXCEPT ![c].writable = TRUE]
  /\ ready' = edge(c, {"OUT"})
  /\ UNCHANGED <<loopVars, m_pending_functors, fd, tableVars, nodes, http, interest>>

(* A node's expire_time_ passes. *)
time_passes(c) ==
  /\ \E n \in nodes[c] :
       /\ ~n.expired
       /\ nodes' = [nodes EXCEPT ![c] = (@ \ {n}) \cup {[n EXCEPT !.expired = TRUE]}]
  /\ UNCHANGED <<loopVars, m_pending_functors, fd, tableVars, http, kernelVars>>
-----------------------------------------------------------------------------
(* http_data *)

(* Mutant: one write per event, although more would fit. *)
writes_once(h, s) ==
  IF h.error \/ h.state = "DISCONNECTED" \/ ~h.out THEN {<<h, s.writable>>}
  ELSE IF s.rst
       THEN {<<[h EXCEPT !.error = TRUE, !.events = {"OUT"}], s.writable>>}
       ELSE {<<[h EXCEPT !.events = @ \cup {"OUT"}], s.writable>>} \cup
            {r \in {<<[h EXCEPT !.out = FALSE], TRUE>>} : s.writable}

(* writen(fd_, outBuffer_) and what handle_write makes of it, as the possible
   pairs of http_data's fields and the socket's writability. *)
writes(h, s) ==
  IF h.error \/ h.state = "DISCONNECTED" \/ ~h.out THEN {<<h, s.writable>>}
  ELSE IF s.rst
       THEN {<<[h EXCEPT !.error = TRUE, !.events = {"OUT"}], s.writable>>}
       ELSE {<<[h EXCEPT !.events = @ \cup {"OUT"}], FALSE>>} \cup
            {r \in {<<[h EXCEPT !.out = FALSE], TRUE>>} : s.writable}

failed(h)     == [h EXCEPT !.error = TRUE]
answered(h)   == [h EXCEPT !.out = TRUE]
incomplete(h) == [h EXCEPT !.events = @ \cup {"IN"}]

(* The parser's verdicts on a read: pairs of the fields and "a request was
   finished".  A leftover of the input is parsed again only while CONNECTED. *)
parses(h, s) ==
  LET seen == [h EXCEPT !.state = IF s.eof THEN "DISCONNECTING" ELSE @]
  IN  IF h.state = "DISCONNECTING" THEN {<<h, FALSE>>}
      ELSE IF s.rst THEN {<<failed(h), FALSE>>}
      ELSE IF ~s.in /\ s.eof THEN {<<seen, FALSE>>}
      ELSE {<<failed(seen), FALSE>>, <<seen, FALSE>>, <<answered(seen), TRUE>>} \cup
           {r \in {<<incomplete(answered(seen)), TRUE>>} : ~s.eof}

unlinked(ns) == {n \in ns : ~n.linked}

(* seperate_timer(): the node timer_ points to loses its data and is deleted. *)
seperate_timer(c) == nodes' = [nodes EXCEPT ![c] = unlinked(@)]

(* Mutant: one read per event. *)
leaves_unread_once(s) == {FALSE, s.in}

(* readn reads until EAGAIN or end of file: nothing is left unread. *)
leaves_unread(s) == {FALSE}

(* handle_read: read to EAGAIN or end of file, parse, answer, send. *)
handle_read ==
  /\ pc = "read"
  /\ \E p \in parses(http[cur], sock[cur]), left \in leaves_unread(sock[cur]) :
       \E w \in writes(p[1], sock[cur]) :
         LET finished == p[2] /\ ~w[1].error
             h == IF ~finished /\ ~w[1].error THEN incomplete(w[1]) ELSE w[1]
         IN  /\ http' = [http EXCEPT ![cur] = h]
             /\ sock' = [sock EXCEPT ![cur].in = left, ![cur].writable = w[2]]
             /\ IF finished THEN seperate_timer(cur) ELSE UNCHANGED nodes
  /\ pc' = IF "OUT" \in revents[cur] THEN "write" ELSE "conn"
  /\ UNCHANGED <<cur, batch, revents, functors, m_pending_functors, fd, tableVars, interest, ready>>

handle_write ==
  /\ pc = "write"
  /\ \E w \in writes(http[cur], sock[cur]) :
       /\ http' = [http EXCEPT ![cur] = w[1]]
       /\ sock' = [sock EXCEPT ![cur].writable = w[2]]
  /\ pc' = "conn"
  /\ UNCHANGED <<cur, batch, revents, functors, m_pending_functors, fd, tableVars, nodes, interest, ready>>

(* timer_manager::add_timer and link_timer: a node timer_ pointed to before
   lives on in the queue. *)
linked_to_new(ns) ==
  {[n EXCEPT !.linked = FALSE] : n \in ns} \cup {[linked |-> TRUE, expired |-> FALSE]}

add_timer(c) == nodes' = [nodes EXCEPT ![c] = linked_to_new(@)]

(* Mutant: the old node is not separated. *)
rearm_timer_unseparated(c) == add_timer(c)

(* Mutant: the timeout passed on is 0, so no node is made. *)
rearm_timer_zero_timeout(c) == seperate_timer(c)

(* seperate_timer() and then add_timer: the old node dies, a new one is linked. *)
rearm_timer(c) == nodes' = [nodes EXCEPT ![c] = linked_to_new(unlinked(@))]

(* EPOLL_CTL_ADD and EPOLL_CTL_MOD look at the socket and report what is
   already there. *)
epoll_ctl(c, events) ==
  /\ interest' = [interest EXCEPT ![c] = events]
  /\ ready' = IF reported(sock[c], events) # {} THEN ready \cup {c} ELSE ready \ {c}

(* Mutant: uepoll_del leaves the channel's entry behind. *)
uepoll_del_keeps_channel(c) ==
  /\ interest' = [interest EXCEPT ![c] = {}]
  /\ ready' = ready \ {c}
  /\ fd_http_' = [fd_http_ EXCEPT ![fd[c]] = None]
  /\ UNCHANGED fd_channel_

(* uepoll_del: the registration and both table entries of the descriptor. *)
uepoll_del(c) ==
  /\ interest' = [interest EXCEPT ![c] = {}]
  /\ ready' = ready \ {c}
  /\ fd_channel_' = [fd_channel_ EXCEPT ![fd[c]] = None]
  /\ fd_http_' = [fd_http_ EXCEPT ![fd[c]] = None]

(* Mutant: EPOLL_CTL_MOD is skipped when ONESHOT is the only difference. *)
uepoll_mod_ignores_oneshot(c, h, events) ==
  /\ http' = [http EXCEPT ![c] = [h EXCEPT !.events = events, !.last = events]]
  /\ IF events # h.last \ {"ONESHOT"} THEN epoll_ctl(c, events) ELSE UNCHANGED <<interest, ready>>

(* uepoll_mod: the kernel is told only of a change of events_. *)
uepoll_mod(c, h, events) ==
  /\ http' = [http EXCEPT ![c] = [h EXCEPT !.events = events, !.last = events]]
  /\ IF events # h.last THEN epoll_ctl(c, events) ELSE UNCHANGED <<interest, ready>>

handle_close(c) ==
  /\ http' = [http EXCEPT ![c].state = "DISCONNECTED"]
  /\ uepoll_del(c)

rearm_events(events) ==
  IF events = {} THEN {"IN"}
  ELSE IF "IN" \in events /\ "OUT" \in events THEN {"OUT"} ELSE events

(* handle_conn: what to wait for next, or the end of the connection. *)
handle_conn ==
  LET c == cur
      h == http[cur]
  IN  /\ pc = "conn"
      /\ \/ /\ ~h.error /\ h.state = "CONNECTED"
            /\ uepoll_mod(c, h, rearm_events(h.events))
            /\ rearm_timer(c)
            /\ UNCHANGED tableVars
         \/ /\ ~h.error /\ h.state = "DISCONNECTING" /\ "OUT" \in h.events
            /\ http' = [http EXCEPT ![c].events = {"OUT"}]
            /\ seperate_timer(c)
            /\ UNCHANGED <<interest, ready, tableVars>>
         \/ /\ h.error \/ (h.state # "CONNECTED" /\ ~(h.state = "DISCONNECTING" /\ "OUT" \in h.events))
            /\ handle_close(c)
            /\ seperate_timer(c)
      /\ pc' = "handle"
      /\ cur' = None
      /\ UNCHANGED <<batch, revents, functors, m_pending_functors, fd, sock>>

(* new_event, the functor the main thread queued: uepoll_add with the first
   timer; if EPOLL_CTL_ADD fails the channel's entry is taken back. *)
new_event(c, added) ==
  /\ add_timer(c)
  /\ fd_http_' = [fd_http_ EXCEPT ![fd[c]] = c]
  /\ http' = [http EXCEPT ![c].events = {"IN", "ONESHOT"}, ![c].last = {"IN", "ONESHOT"}]
  /\ IF added
     THEN /\ fd_channel_' = [fd_channel_ EXCEPT ![fd[c]] = c]
          /\ epoll_ctl(c, {"IN", "ONESHOT"})
     ELSE /\ fd_channel_' = [fd_channel_ EXCEPT ![fd[c]] = None]
          /\ UNCHANGED <<interest, ready>>
-----------------------------------------------------------------------------
(* The IO thread: event_loop::loop *)

(* epoll_wait and get_events_request.  What is reported leaves the ready list,
   a ONESHOT registration is muted, and each event goes to the channel the
   descriptor table names.  poll() goes on waiting if no channel results. *)
poll ==
  LET fired == {c \in ready : alive(c) /\ reported(sock[c], interest[c]) # {}}
      named == {c \in fired : fd_channel_[fd[c]] # None}
  IN  /\ pc = "poll"
      /\ named # {} \/ m_pending_functors # <<>>
      /\ batch' = {fd_channel_[fd[c]] : c \in named}
      /\ revents' = [d \in Conns |->
           UNION {reported(sock[c], interest[c]) : c \in {e \in named : fd_channel_[fd[e]] = d}}]
      /\ interest' = [c \in Conns |->
           IF c \in fired /\ "ONESHOT" \in interest[c] THEN {} ELSE interest[c]]
      /\ ready' = {}
      /\ pc' = "handle"
      /\ UNCHANGED <<cur, functors, m_pending_functors, fd, tableVars, nodes, http, sock>>

(* channel::handle_events: an error or a hang-up ends it at once, with no
   handler called. *)
handle_events(c) ==
  /\ pc = "handle" /\ c \in batch
  /\ batch' = batch \ {c}
  /\ http' = [http EXCEPT ![c].events = {}]
  /\ IF "ERR" \in revents[c]
     THEN UNCHANGED <<pc, cur>>
     ELSE /\ cur' = c
          /\ pc' = IF "IN" \in revents[c] THEN "read" ELSE "write"
  /\ UNCHANGED <<revents, functors, m_pending_functors, fd, tableVars, nodes, kernelVars>>

(* All channels are handled: doPendingFunctors swaps the queue. *)
doPendingFunctors ==
  /\ pc = "handle" /\ batch = {}
  /\ functors' = m_pending_functors
  /\ m_pending_functors' = <<>>
  /\ pc' = "functors"
  /\ UNCHANGED <<cur, batch, revents, fd, tableVars, nodes, http, kernelVars>>

call_functor ==
  /\ pc = "functors" /\ functors # <<>>
  /\ \E added \in BOOLEAN : new_event(Head(functors), added)
  /\ functors' = Tail(functors)
  /\ UNCHANGED <<pc, cur, batch, revents, m_pending_functors, fd, sock>>

functors_done ==
  /\ pc = "functors" /\ functors = <<>>
  /\ pc' = "expire"
  /\ UNCHANGED <<cur, batch, revents, functors, m_pending_functors, fd, tableVars,
                 nodes, http, kernelVars>>

(* handle_expire_event pops an expired node; ~timer_node closes the
   connection the node holds. *)
handle_expired(c) ==
  /\ pc = "expire"
  /\ \E n \in nodes[c] : n.expired /\ nodes' = [nodes EXCEPT ![c] = @ \ {n}]
  /\ handle_close(c)
  /\ UNCHANGED <<loopVars, m_pending_functors, fd, sock>>

expired_done ==
  /\ pc = "expire"
  /\ \A c \in Conns : \A n \in nodes[c] : ~n.expired
  /\ pc' = "poll"
  /\ UNCHANGED <<cur, batch, revents, functors, m_pending_functors, fd, tableVars,
                 nodes, http, kernelVars>>
-----------------------------------------------------------------------------
LoopStep ==
  \/ poll \/ handle_read \/ handle_write \/ handle_conn
  \/ doPendingFunctors \/ call_functor \/ functors_done \/ expired_done
  \/ \E c \in Conns : handle_events(c) \/ handle_expired(c)

Environment ==
  \E c \in Conns :
    \/ \E f \in Fds : handle_new_conn(c, f)
    \/ peer_sends(c) \/ peer_shuts_down(c) \/ peer_resets(c) \/ peer_drains(c)
    \/ time_passes(c)

Next == LoopStep \/ Environment

SafeSpec == Init /\ [][Next]_vars

(* The IO thread is scheduled, and time passes.  Peers owe nothing. *)
Spec == SafeSpec /\ WF_vars(LoopStep) /\ \A c \in Conns : WF_vars(time_passes(c))
-----------------------------------------------------------------------------
(* No two live timer nodes hold one connection: every path that arms a timer
   has separated the one before (http_data.cpp:152-158, 298-334; timer.cpp). *)
OneLiveTimer == \A c \in Conns : \A n \in nodes[c] : n.linked

(* A channel that poll() can hand out, has handed out or is running names a
   connection that still exists and owns that descriptor: the callbacks bound
   to a raw `this` (http_data.cpp:131-133) never run on a destroyed object,
   although descriptors are reused as soon as they are closed. *)
DispatchTargetAlive ==
  /\ \A f \in Fds : fd_channel_[f] # None =>
       alive(fd_channel_[f]) /\ fd[fd_channel_[f]] = f
  /\ \A c \in batch : alive(c) /\ fd_channel_[fd[c]] = c
  /\ cur # None => alive(cur)

(* Unread input is never stranded behind the edge trigger: whenever nobody is
   handling the connection and it waits for input, the kernel will report it.
   (An aborted connection is left to its timer: channel.h:58-66 returns before
   any handler, so what had arrived before the abort is dropped.) *)
NoLostInput ==
  \A c \in Conns :
    /\ c # cur /\ c \notin batch /\ alive(c)
    /\ "IN" \in interest[c]
    /\ sock[c].in /\ ~sock[c].rst
    => c \in ready

(* The same for output: a connection that waits to send and could send is
   reported. *)
NoLostOutput ==
  \A c \in Conns :
    /\ c # cur /\ c \notin batch /\ alive(c)
    /\ "OUT" \in interest[c]
    /\ sock[c].writable /\ ~sock[c].rst
    => c \in ready

(* While the loop sleeps, every connected connection in the table waits for
   what it needs: none is muted by a ONESHOT that was not renewed, an unsent answer
   waits for room, and without one the connection waits for input. *)
WaitsForWhatItNeeds ==
  pc = "poll" =>
    \A f \in Fds : LET c == fd_channel_[f] IN
      c # None /\ http[c].state = "CONNECTED" /\ ~sock[c].rst =>
        /\ http[c].out => "OUT" \in interest[c]
        /\ ~http[c].out => "IN" \in interest[c]

(* While the loop sleeps, a connection without a timer is one whose peer has
   shut down with an answer still unsent, and no other (compare
   EveryConnectionHasTimer). *)
OnlyBlockedCloseHasNoTimer ==
  pc = "poll" =>
    \A c \in Conns :
      alive(c) /\ nodes[c] = {} =>
        \/ c \in Range(m_pending_functors)
        \/ http[c].state = "DISCONNECTING" /\ http[c].out

(* What concurrency_frame.md:26 says: an http_data always has its timeout. *)
EveryConnectionHasTimer ==
  pc = "poll" =>
    \A c \in Conns :
      alive(c) => nodes[c] # {} \/ c \in Range(m_pending_functors)

(* The timeout closes a connection only when the timer armed by its last
   activity has expired, never through an older node. *)
NoPrematureTimeout ==
  [][\A c \in Conns :
       pc = "expire" /\ http[c].state # http'[c].state =>
         \E n \in nodes[c] : n.linked /\ n.expired]_vars

(* A table entry goes only with the connection it names: closing one never
   evicts the connection that reuses its descriptor. *)
EntryRemovedByItsOwner ==
  [][\A f \in Fds :
       fd_channel_[f] # None /\ fd_channel_'[f] # fd_channel_[f] =>
         http'[fd_channel_[f]].state = "DISCONNECTED"]_vars

(* Descriptors as the loop uses them: a connection holds its descriptor from
   accept until the last shared_ptr to it goes. *)
Abstract == INSTANCE Descriptors WITH
  held  <- [c \in Conns |-> IF alive(c) THEN fd[c] ELSE None],
  known <- {c \in Conns : fd[c] # None}

(* The handlers, the tables and the timers, which all hold and drop shared_ptrs,
   together keep Descriptors' promise: no step gives a descriptor to two
   connections, closes one that is not its own, or revives a connection whose
   destructor has run. *)
ImplementsDescriptors == Abstract!Spec

waits_for_input(c) == alive(c) /\ "IN" \in interest[c]

(* A connection that listens and has input is read, unless it is closed or
   its peer aborts it. *)
InputIsHandled ==
  \A c \in Conns : (waits_for_input(c) /\ sock[c].in) ~>
                     (~sock[c].in \/ ~alive(c) \/ sock[c].rst)

(* README.md:33: timers close the connections that have timed out. *)
ExpiredIsClosed ==
  \A c \in Conns : (\E n \in nodes[c] : n.expired) ~> ~\E n \in nodes[c] : n.expired

(* readn and writen lose, repeat and reorder nothing whatever the calls return
   and stop short only for EAGAIN, end of file or an error: what handle_read,
   handle_write and the eventfd's callbacks take from them (http_data.cpp:175, 289;
   event_loop.cpp:94, 102).  Every list of up to four results is looked at, before
   the first connection. *)
TransfersKeepBytes ==
  (\A c \in Conns : fd[c] = None) =>
    \A results \in Results(2, 4) :
      /\ ReadKeepsBytes(<<"p">>, <<1, 2, 3, 4, 5, 6, 7, 8>>, results)
      /\ ReadTakesNoMore(3, <<1, 2, 3, 4, 5, 6, 7, 8>>, results)
      /\ WriteKeepsBytes(<<1, 2, 3>>, results)
      /\ AppendKeepsBytes(3, results)
=============================================================================
