------------------------------ MODULE WebServer ------------------------------
(***************************************************************************)
(* The server as a whole (main.cpp, server.cpp): the main thread starts    *)
(* the IO threads, registers the listening socket, accepts, and at the end *)
(* destroys the pool.  Clients connect from the moment the socket listens, *)
(* which is before any of this.                                            *)
(***************************************************************************)
EXTENDS Acceptor, Sequences

VARIABLES owner, current, m_loops, thread_pc, m_count, loop_, loop_exists, quited_

poolVars == <<owner, current, m_loops, thread_pc, m_count, loop_, loop_exists, quited_>>

Pool == INSTANCE LoopThreads WITH pc <- thread_pc

(* server's constructor: the socket listens, the pool has no thread. *)
ServerInit == Init /\ Pool!Init

(* Mutant: the listening socket is served before the pool has started. *)
pool_started_or_not == TRUE

(* m_pool->start() has returned and ~server has not begun. *)
pool_started == owner = "serve"

(* The end of server::start, and main_loop.loop(). *)
serve ==
  /\ pool_started
  /\ MainStep
  /\ UNCHANGED poolVars

(* m_pool->start() in server::start; the destructors of the event_loop_threads. *)
start_and_join_threads == Pool!OwnerStep /\ UNCHANGED vars

(* main_loop.loop() has returned between two rounds: ~server. *)
destroy_server ==
  /\ pc = "poll"
  /\ Pool!destroy_pool
  /\ UNCHANGED vars

io_thread(t) == Pool!ThreadStep(t) /\ UNCHANGED vars

(* A client, or an IO loop closing a connection. *)
others ==
  /\ client_connects \/ \E f \in Descriptors : connection_closed(f)
  /\ UNCHANGED poolVars

ServerNext ==
  \/ serve \/ start_and_join_threads \/ destroy_server \/ others
  \/ \E t \in Pool!Threads : io_thread(t)

serverVars == <<vars, poolVars>>

(* The main thread and the IO threads are scheduled; clients owe nothing and
   nothing makes main_loop end. *)
ServerSpec ==
  /\ ServerInit /\ [][ServerNext]_serverVars
  /\ WF_serverVars(serve \/ start_and_join_threads)
  /\ \A t \in Pool!Threads : WF_serverVars(io_thread(t))
-----------------------------------------------------------------------------
ServerTypeOK == TypeOK /\ Pool!TypeOK

(* Every loop the pool hands out exists until the pool is destroyed
   (event_loop_thread.cpp:21-40). *)
LoopsExist == Pool!LoopsExist

(* get_next_loop and queue_in_loop: a connection is only given to a loop that
   exists and that no destructor has told to quit. *)
GivenToLivingLoop ==
  [][\A l \in Loops :
       assigned'[l] # assigned[l] =>
         /\ l + 1 \in DOMAIN m_loops
         /\ loop_exists[m_loops[l + 1]] /\ ~quited_[m_loops[l + 1]]]_serverVars

(* The pool gets all its threads, whoever connects meanwhile. *)
PoolStarts == Pool!PoolStarts

(* A thread that is inside loop() when its destructor runs is ended and joined
   (event_loop_thread.cpp:13-19). *)
DestructorEnds == Pool!DestructorEnds

(* Who waits is accepted, also who was there before the socket was registered,
   unless accept fails while somebody waits, the listener is lost or the server
   ends. *)
BacklogIsServed ==
  (backlog > 0 /\ owner \in {"start", "latch", "cond", "serve"}) ~>
    \/ backlog = 0
    \/ accept_error
    \/ pc # "start" /\ ~interest
    \/ owner \notin {"start", "latch", "cond", "serve"}
=============================================================================
