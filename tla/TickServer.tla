----------------------------- MODULE TickServer -----------------------------
(***************************************************************************)
(* The predecessor (old_version/webserver_tick): the main thread reads,    *)
(* writes, accepts and times connections out; worker threads of a pool     *)
(* parse requests and prepare answers.  users[] is indexed by descriptor   *)
(* and reused, and only EPOLLONESHOT keeps the two kinds of thread apart.  *)
(*                                                                         *)
(* Abstractions.  bytes_to_send is zero or not.  What the parser makes of  *)
(* the input is a choice, HTTP_CODE being NO_REQUEST, FILE_REQUEST or one  *)
(* of the errors.  process_write never fails: an answer's head is shorter  *)
(* than the empty write buffer, so conn_close in process is not reached.   *)
(* Time passes in slots of TIMESLOT seconds; expire is kept relative to    *)
(* the present and not below zero, which decides every comparison alike    *)
(* because a renewed timer is always the latest.  tick takes no time.      *)
(* Descriptors do not run out (accept's result is not looked at).          *)
(***************************************************************************)
EXTENDS Integers, SequencesExt

CONSTANTS
  Workers,         \* the threads of the pool
  Clients,         \* peers; each connects at most once, and its timer has its name
  Fds,             \* descriptor numbers for connections
  listen_fd,
  pipefd,          \* the end of the pipe that is read
  MAX_FD,          \* limit on m_user_cnt
  m_max_requests,  \* of the pool
  RD_BUF_SIZE,     \* in units of input
  Timeout,         \* slots until a timer expires: 3
  MaxUnread,       \* bound on the units of input a client has sent ahead
  Null             \* a null pointer, a closed descriptor

INSTANCE TimerList WITH Timers <- Clients

ASSUME FdsAssumption ==
  /\ Fds \cup {listen_fd, pipefd} \subseteq Nat
  /\ IsFiniteSet(Fds) /\ MAX_FD \in Nat /\ Cardinality(Fds) > MAX_FD
  /\ listen_fd \notin Fds /\ pipefd \notin Fds /\ listen_fd # pipefd
ASSUME WorkersAssumption == IsFiniteSet(Workers)
ASSUME BoundsAssumption == {m_max_requests, RD_BUF_SIZE, Timeout, MaxUnread} \subseteq Nat
ASSUME NullAssumption == Null \notin Clients \cup Fds \cup Workers

VARIABLES
  main,         \* where the main thread is
  batch,        \* events[] of epoll_wait, not yet handled
  timeout,      \* a tick is due at the end of the round
  users,        \* http_conn objects by descriptor
  m_user_cnt,
  m_timer_lst,
  m_workqueue,  \* the pool's queue: indices of users
  m_queue_stat, \* its semaphore
  worker,       \* where each worker is, with its request and its HTTP_CODE
  refused,      \* history: connections whose request append refused
  conn,         \* kernel: the client at the other end of a descriptor
  armed,        \* kernel: the event a registration waits for, or "off"
  peer,         \* kernel: what each client has done
  unread,       \* kernel: units of input not yet read
  pipe,         \* kernel: SIGALRM is in the pipe
  alarm         \* kernel: a SIGALRM is due when the slot ends

mainVars   == <<main, batch, timeout>>
poolVars   == <<m_workqueue, m_queue_stat, worker, refused>>
connVars   == <<users, m_user_cnt, m_timer_lst, conn, armed>>
clientVars == <<peer, unread>>
clockVars  == <<pipe, alarm>>
vars == <<mainVars, poolVars, connVars, clientVars, clockVars>>

HttpConn == [m_sock_fd : Fds \cup {Null}, timer : Clients \cup {Null},
             m_rd_idx : 0..RD_BUF_SIZE, bytes_to_send : BOOLEAN, m_linger : BOOLEAN]
Codes == {"NO_REQUEST", "error", "FILE_REQUEST"}
Event == [fd : Fds \cup {listen_fd, pipefd}, ev : {"HUP", "IN", "OUT"}]

TypeOK ==
  /\ main \in {"epoll_wait", "events", "post", "tick", "exit"}
  /\ batch \subseteq Event
  /\ timeout \in BOOLEAN
  /\ users \in [Fds -> HttpConn]
  /\ m_user_cnt \in 0..MAX_FD
  /\ m_timer_lst.head \in Clients \cup {Null} /\ m_timer_lst.tail \in Clients \cup {Null}
  /\ m_timer_lst.prev \in [Clients -> Clients \cup {Null}]
  /\ m_timer_lst.next \in [Clients -> Clients \cup {Null}]
  /\ m_timer_lst.user_data \in [Clients -> Fds \cup {Null}]
  /\ m_timer_lst.expire \in [Clients -> 0..Timeout]
  /\ m_workqueue \in Seq(Fds) /\ Len(m_workqueue) <= m_max_requests + 1
  /\ m_queue_stat \in Nat
  /\ worker \in [Workers -> [pc : {"wait", "lock", "read", "write", "modfd"},
                             request : Fds \cup {Null}, code : Codes]]
  /\ refused \subseteq Clients
  /\ conn \in [Fds -> Clients \cup {Null}]
  /\ armed \in [Fds -> {"off", "IN", "OUT"}]
  /\ peer \in [Clients -> {"new", "backlog", "open", "shut", "closed"}]
  /\ unread \in [Clients -> 0..MaxUnread]
  /\ pipe \in BOOLEAN /\ alarm \in BOOLEAN

NoConnection ==
  [m_sock_fd |-> Null, timer |-> Null, m_rd_idx |-> 0, bytes_to_send |-> FALSE, m_linger |-> FALSE]

(* main() up to its loop. *)
Init ==
  /\ main = "epoll_wait" /\ batch = {} /\ timeout = FALSE
  /\ users = [fd \in Fds |-> NoConnection] /\ m_user_cnt = 0 /\ m_timer_lst = EmptyList
  /\ m_workqueue = <<>> /\ m_queue_stat = 0
  /\ worker = [w \in Workers |-> [pc |-> "wait", request |-> Null, code |-> "NO_REQUEST"]]
  /\ refused = {}
  /\ conn = [fd \in Fds |-> Null] /\ armed = [fd \in Fds |-> "off"]
  /\ peer = [c \in Clients |-> "new"]
  /\ unread = [c \in Clients |-> 0]
  /\ pipe = FALSE /\ alarm = TRUE
-----------------------------------------------------------------------------
(* The members of http_conn that the threads call. *)

(* init(): everything but the socket and the timer. *)
cleared(u) == [u EXCEPT !.m_rd_idx = 0, !.bytes_to_send = FALSE, !.m_linger = FALSE]

(* EPOLL_CTL_MOD on m_sock_fd; without effect if that is -1. *)
modfd(u, ev) == IF u.m_sock_fd = Null THEN armed ELSE [armed EXCEPT ![u.m_sock_fd] = ev]

(* The timer of users[fd] is renewed by read() and write(). *)
renewed(fd) ==
  LET t == users[fd].timer
  IN adjust_timer([m_timer_lst EXCEPT !.expire[t] = Timeout], t)

(* Mutant: the timer of a closed connection is left to expire. *)
timers_without_none(fd, lst) == lst

timers_without(fd, lst) == del_timer(lst, users[fd].timer)

(* conn_close(), then del_timer. *)
close_connection(fd, lst) ==
  /\ m_timer_lst' = timers_without(fd, lst)
  /\ IF users[fd].m_sock_fd = Null
     THEN UNCHANGED <<users, m_user_cnt, conn, armed, peer, unread, refused>>
     ELSE /\ m_user_cnt' = m_user_cnt - 1
          /\ users' = [users EXCEPT ![fd].m_sock_fd = Null]
          /\ conn' = [conn EXCEPT ![fd] = Null]
          /\ armed' = [armed EXCEPT ![fd] = "off"]
          /\ peer' = [peer EXCEPT ![conn[fd]] = "closed"]
          /\ unread' = [unread EXCEPT ![conn[fd]] = 0]
          /\ refused' = refused \ {conn[fd]}
-----------------------------------------------------------------------------
(* The main thread. *)

backlog == {c \in Clients : peer[c] = "backlog"}

(* What epoll reports of a connection's socket; a peer that does not read
   keeps its socket from being writable. *)
ready(fd, writable) ==
  LET c == conn[fd] IN
  /\ armed[fd] # "off"
  /\ \/ peer[c] = "shut"
     \/ armed[fd] = "IN" /\ unread[c] > 0
     \/ armed[fd] = "OUT" /\ fd \in writable

event(fd) == [fd |-> fd, ev |-> IF peer[conn[fd]] = "shut" THEN "HUP" ELSE armed[fd]]

(* Everything that is ready is reported; ONESHOT mutes what is. *)
epoll_wait ==
  /\ main = "epoll_wait"
  /\ \E writable \in SUBSET Fds :
       LET reported == {fd \in Fds : ready(fd, writable)} IN
       /\ batch' = {event(fd) : fd \in reported}
            \cup (IF backlog # {} THEN {[fd |-> listen_fd, ev |-> "IN"]} ELSE {})
            \cup (IF pipe THEN {[fd |-> pipefd, ev |-> "IN"]} ELSE {})
       /\ batch' # {}
       /\ armed' = [fd \in Fds |-> IF fd \in reported THEN "off" ELSE armed[fd]]
  /\ main' = "events"
  /\ UNCHANGED <<timeout, poolVars, users, m_user_cnt, m_timer_lst, conn,
                 clientVars, clockVars>>

handle(fd, ev) ==
  /\ main = "events" /\ [fd |-> fd, ev |-> ev] \in batch
  /\ batch' = batch \ {[fd |-> fd, ev |-> ev]}
  /\ UNCHANGED timeout

(* The descriptor accept returns is the lowest that is free. *)
conn_fd == Min({fd \in Fds : conn[fd] = Null})

(* accept, and http_conn::init with its new timer. *)
accept ==
  /\ handle(listen_fd, "IN") /\ main' = main
  /\ m_user_cnt < MAX_FD
  /\ \E c \in backlog :
       /\ conn' = [conn EXCEPT ![conn_fd] = c]
       /\ armed' = [armed EXCEPT ![conn_fd] = "IN"]
       /\ peer' = [peer EXCEPT ![c] = "open"]
       /\ users' = [users EXCEPT ![conn_fd] =
                      [cleared(@) EXCEPT !.m_sock_fd = conn_fd, !.timer = c]]
       /\ m_timer_lst' = add_timer([m_timer_lst EXCEPT !.user_data[c] = conn_fd,
                                                       !.expire[c] = Timeout], c)
  /\ m_user_cnt' = m_user_cnt + 1
  /\ UNCHANGED <<poolVars, unread, clockVars>>

accept_too_many ==
  /\ handle(listen_fd, "IN") /\ main' = main
  /\ m_user_cnt >= MAX_FD
  /\ \E c \in backlog : peer' = [peer EXCEPT ![c] = "closed"]
  /\ UNCHANGED <<poolVars, connVars, unread, clockVars>>

(* recv on the pipe: a signal is noted, not acted upon. *)
recv_signals ==
  /\ main = "events" /\ main' = main
  /\ [fd |-> pipefd, ev |-> "IN"] \in batch
  /\ batch' = batch \ {[fd |-> pipefd, ev |-> "IN"]}
  /\ timeout' = TRUE
  /\ pipe' = FALSE
  /\ UNCHANGED <<poolVars, connVars, clientVars, alarm>>

hang_up(fd) ==
  /\ handle(fd, "HUP") /\ main' = main
  /\ close_connection(fd, m_timer_lst)
  /\ UNCHANGED <<m_workqueue, m_queue_stat, worker, clockVars>>

(* read(): false if the buffer is or becomes full, or the peer has gone. *)
read_succeeds(fd) ==
  LET c == conn[fd] IN users[fd].m_rd_idx + unread[c] < RD_BUF_SIZE /\ peer[c] # "shut"

queue_full == Len(m_workqueue) > m_max_requests

read_and_append(fd) ==
  LET c == conn[fd] IN
  /\ handle(fd, "IN")
  /\ read_succeeds(fd)
  /\ users' = [users EXCEPT ![fd].m_rd_idx = @ + unread[c]]
  /\ unread' = [unread EXCEPT ![c] = 0]
  /\ m_timer_lst' = renewed(fd)
  /\ IF queue_full
     THEN main' = main /\ refused' = refused \cup {c} /\ UNCHANGED m_workqueue
     ELSE main' = "post" /\ m_workqueue' = Append(m_workqueue, fd) /\ UNCHANGED refused
  /\ UNCHANGED <<m_queue_stat, worker, m_user_cnt, conn, armed, peer, clockVars>>

(* append, after its critical section. *)
post ==
  /\ main = "post" /\ main' = "events"
  /\ m_queue_stat' = m_queue_stat + 1
  /\ UNCHANGED <<batch, timeout, m_workqueue, worker, refused, connVars,
                 clientVars, clockVars>>

read_fails(fd) ==
  /\ handle(fd, "IN") /\ main' = main
  /\ ~read_succeeds(fd)
  /\ close_connection(fd, renewed(fd))
  /\ UNCHANGED <<m_workqueue, m_queue_stat, worker, clockVars>>

(* Mutant: write() ends an answer without arming EPOLLIN. *)
after_answer_muted(fd) ==
  /\ users' = [users EXCEPT ![fd] = cleared(@)]
  /\ UNCHANGED armed

(* The response is over: wait for the next request. *)
after_answer(fd) ==
  /\ users' = [users EXCEPT ![fd] = cleared(@)]
  /\ armed' = modfd(users[fd], "IN")

(* write() returns true: there was nothing to send, all is sent and the
   connection stays, or the socket is full. *)
write_continues(fd) ==
  /\ handle(fd, "OUT") /\ main' = main
  /\ \/ (~users[fd].bytes_to_send \/ users[fd].m_linger) /\ after_answer(fd)
     \/ users[fd].bytes_to_send /\ armed' = modfd(users[fd], "OUT") /\ UNCHANGED users
  /\ m_timer_lst' = renewed(fd)
  /\ refused' = refused \ {conn[fd]}
  /\ UNCHANGED <<m_workqueue, m_queue_stat, worker, m_user_cnt, conn, clientVars, clockVars>>

(* write() returns false: all is sent and the connection ends, or an error. *)
write_ends(fd) ==
  /\ handle(fd, "OUT") /\ main' = main
  /\ users[fd].bytes_to_send
  /\ ~users[fd].m_linger \/ peer[conn[fd]] = "shut"
  /\ close_connection(fd, renewed(fd))
  /\ UNCHANGED <<m_workqueue, m_queue_stat, worker, clockVars>>

end_of_events ==
  /\ main = "events" /\ batch = {}
  /\ main' = IF timeout THEN "tick" ELSE "epoll_wait"
  /\ UNCHANGED <<batch, timeout, poolVars, connVars, clientVars, clockVars>>

(* One round of tick()'s loop. *)
tick ==
  /\ main = "tick" /\ main' = main
  /\ m_timer_lst.head # Null
  /\ m_timer_lst.expire[m_timer_lst.head] = 0
  /\ close_connection(m_timer_lst.user_data[m_timer_lst.head], m_timer_lst)
  /\ UNCHANGED <<batch, timeout, m_workqueue, m_queue_stat, worker, clockVars>>

(* Mutant: the alarm is not set again. *)
set_alarm_once == UNCHANGED alarm

set_alarm == alarm' = TRUE

end_of_tick ==
  /\ main = "tick" /\ main' = "epoll_wait"
  /\ m_timer_lst.head # Null => m_timer_lst.expire[m_timer_lst.head] > 0
  /\ set_alarm
  /\ timeout' = FALSE
  /\ UNCHANGED <<batch, poolVars, connVars, clientVars, pipe>>

(* SIGTERM was read from the pipe in the round that is over: stop_server is only
   looked at here, so that its coming is a choice.  The process ends. *)
leave_main ==
  /\ main = "epoll_wait" /\ main' = "exit"
  /\ UNCHANGED <<batch, timeout, poolVars, connVars, clientVars, clockVars>>

Main ==
  \/ epoll_wait \/ accept \/ accept_too_many \/ recv_signals \/ post
  \/ end_of_events \/ tick \/ end_of_tick \/ leave_main
  \/ \E fd \in Fds : \/ hang_up(fd) \/ read_and_append(fd) \/ read_fails(fd)
                     \/ write_continues(fd) \/ write_ends(fd)
-----------------------------------------------------------------------------
(* A worker: threadpool::run and http_conn::process.  process_write, which fills
   an empty buffer, does not fail. *)

(* Mutant: one waiter takes all that was posted. *)
sem_wait_takes_all(w) ==
  /\ worker[w].pc = "wait" /\ m_queue_stat > 0
  /\ m_queue_stat' = 0
  /\ worker' = [worker EXCEPT ![w].pc = "lock"]
  /\ UNCHANGED <<m_workqueue, refused, users, armed>>

sem_wait(w) ==
  /\ worker[w].pc = "wait" /\ m_queue_stat > 0
  /\ m_queue_stat' = m_queue_stat - 1
  /\ worker' = [worker EXCEPT ![w].pc = "lock"]
  /\ UNCHANGED <<m_workqueue, refused, users, armed>>

next_request(w) ==
  /\ worker[w].pc = "lock" /\ m_workqueue # <<>>
  /\ m_workqueue' = Tail(m_workqueue)
  /\ worker' = [worker EXCEPT ![w].pc = "read", ![w].request = Head(m_workqueue)]
  /\ UNCHANGED <<m_queue_stat, refused, users, armed>>

queue_empty(w) ==
  /\ worker[w].pc = "lock" /\ m_workqueue = <<>>
  /\ worker' = [worker EXCEPT ![w].pc = "wait"]
  /\ UNCHANGED <<m_workqueue, m_queue_stat, refused, users, armed>>

(* What is parsed may be another connection's input by the time the answer is
   prepared: the slot is shared with the main thread. *)
process_read(w) ==
  LET fd == worker[w].request IN
  /\ worker[w].pc = "read"
  /\ \E code \in IF users[fd].m_rd_idx = 0 THEN {"NO_REQUEST"} ELSE Codes :
       /\ worker' = [worker EXCEPT ![w].code = code,
                        ![w].pc = IF code = "NO_REQUEST" THEN "modfd" ELSE "write"]
       /\ IF code # "FILE_REQUEST" THEN UNCHANGED users
          ELSE \E keep_alive \in BOOLEAN : users' = [users EXCEPT ![fd].m_linger = keep_alive]
  /\ UNCHANGED <<m_workqueue, m_queue_stat, refused, armed>>

(* An error's answer is written to the buffer, but bytes_to_send is only set for
   a file. *)
process_write(w) ==
  LET fd == worker[w].request IN
  /\ worker[w].pc = "write"
  /\ users' = [users EXCEPT ![fd].bytes_to_send = @ \/ worker[w].code = "FILE_REQUEST"]
  /\ worker' = [worker EXCEPT ![w].pc = "modfd"]
  /\ UNCHANGED <<m_workqueue, m_queue_stat, refused, armed>>

(* The end of process(), and back to the semaphore. *)
rearm(w) ==
  /\ worker[w].pc = "modfd"
  /\ armed' = modfd(users[worker[w].request],
                    IF worker[w].code = "NO_REQUEST" THEN "IN" ELSE "OUT")
  /\ refused' = refused \ {conn[worker[w].request]}
  /\ worker' = [worker EXCEPT ![w] = [pc |-> "wait", request |-> Null, code |-> "NO_REQUEST"]]
  /\ UNCHANGED <<m_workqueue, m_queue_stat, users>>

Worker(w) ==
  /\ main # "exit"
  /\ sem_wait(w) \/ next_request(w) \/ queue_empty(w)
     \/ process_read(w) \/ process_write(w) \/ rearm(w)
  /\ UNCHANGED <<mainVars, m_user_cnt, m_timer_lst, conn, clientVars, clockVars>>
-----------------------------------------------------------------------------
(* Clients, signals and time. *)

client_acts(c) ==
  /\ \/ peer[c] = "new" /\ peer' = [peer EXCEPT ![c] = "backlog"] /\ UNCHANGED unread
     \/ /\ peer[c] = "open" /\ unread[c] < MaxUnread
        /\ unread' = [unread EXCEPT ![c] = @ + 1]
        /\ UNCHANGED peer
     \/ peer[c] = "open" /\ peer' = [peer EXCEPT ![c] = "shut"] /\ UNCHANGED unread
  /\ UNCHANGED <<mainVars, poolVars, connVars, clockVars>>

(* sig_to_pipe runs in any thread; a worker's blocked sem_wait then fails with
   EINTR, which run() takes for a request. *)
handler_runs ==
  \/ UNCHANGED worker
  \/ \E w \in Workers : worker[w].pc = "wait" /\ m_queue_stat = 0 /\ worker' = [worker EXCEPT ![w].pc = "lock"]

time_passes ==
  /\ main \notin {"tick", "exit"}
  /\ m_timer_lst' = [m_timer_lst EXCEPT !.expire = [t \in Clients |-> IF @[t] = 0 THEN 0 ELSE @[t] - 1]]
  /\ IF alarm THEN pipe' = TRUE /\ handler_runs ELSE UNCHANGED <<pipe, worker>>
  /\ alarm' = FALSE
  /\ UNCHANGED <<mainVars, m_workqueue, m_queue_stat, refused, users, m_user_cnt, conn, armed,
                 clientVars>>

Next ==
  \/ Main
  \/ \E w \in Workers : Worker(w)
  \/ \E c \in Clients : client_acts(c)
  \/ time_passes

Spec == Init /\ [][Next]_vars
-----------------------------------------------------------------------------
Open == {fd \in Fds : conn[fd] # Null}

(* Although a slot of users[] may be in a worker's hands when its connection is
   closed, and be reused: the timers in the list are those of the open
   connections, one each, the list is sorted and can be walked both ways, and
   the connections are counted (http_conn.cpp:70-94, 120-127, lst_timer.cpp). *)
TimersFollowConnections ==
  /\ \E s \in SetToSeqs({conn[fd] : fd \in Open}) : IsList(m_timer_lst, s)
  /\ \A fd \in Open :
       /\ users[fd].m_sock_fd = fd /\ users[fd].timer = conn[fd]
       /\ m_timer_lst.user_data[conn[fd]] = fd
  /\ m_user_cnt = Cardinality(Open)

(* No request waits in the queue while all workers sleep: for each there is a
   unit of the semaphore, a worker about to look, or a post to come, whatever
   signals interrupt (threadpool.h:70-108). *)
NoTaskIsStranded ==
  Len(m_workqueue) <= m_queue_stat
                      + Cardinality({w \in Workers : worker[w].pc = "lock"})
                      + (IF main = "post" THEN 1 ELSE 0)

(* A connection muted by EPOLLONESHOT is in somebody's hands, who will arm or
   close it: its event is being handled, or it is in the queue or with a
   worker; or the full queue refused it. *)
MutedIsInHand ==
  \A fd \in Open : armed[fd] = "off" =>
    \/ \E e \in batch : e.fd = fd
    \/ \E i \in DOMAIN m_workqueue : m_workqueue[i] = fd
    \/ \E w \in Workers : worker[w].request = fd
    \/ conn[fd] \in refused

(* Whatever is done to a sorted list of timers leaves one, here with three timers
   and any times; and a list that has become empty is as a new one
   (lst_timer.cpp:4-121). *)
TimerListIsSorted ==
  m_timer_lst.head = Null => m_timer_lst = EmptyList /\ ListIsSortedSequence

(* Ticks go on for as long as the server does, on which every timeout rests: the
   next alarm is due, or its signal is on its way to a tick (main.cpp:153-207). *)
TicksGoOn == alarm \/ pipe \/ timeout \/ main = "exit"

(* http_conn.cpp:44: EPOLLONESHOT keeps one connection from being handled by
   different threads.  It does not once a slot is reused. *)
OneThreadPerConnection ==
  \A v, w \in Workers : v # w /\ worker[v].request # Null => worker[v].request # worker[w].request
=============================================================================
