----------------------------- MODULE LoopThreads -----------------------------
(***************************************************************************)
(* Starting and ending the IO threads: event_loop_thread_pool::start,      *)
(* event_loop_thread, uthread and its countdown_latch.  The owner (the     *)
(* main thread) starts the threads one after the other, each through two   *)
(* handshakes, uses the loops, and destroys the threads in order.  Inside  *)
(* loop() a thread is EventLoop's; here it only leaves loop() when quited_ *)
(* is set.                                                                 *)
(***************************************************************************)
EXTENDS PoolSize, Sequences

VARIABLES
  owner,      \* where the owner is
  current,    \* the event_loop_thread it is starting or destroying
  m_loops,    \* threads whose loop pointer start_loop has returned
  pc,         \* where each IO thread is
  m_count,    \* uthread's latch
  loop_,      \* event_loop_thread's pointer is not null
  loop_exists,\* the event_loop on the thread's stack exists
  quited_     \* its flag

vars == <<owner, current, m_loops, pc, m_count, loop_, loop_exists, quited_>>

Threads == 1 .. ThreadNum

OwnerPc == {"start", "latch", "cond", "serve", "destroy", "quit", "wakeup", "join", "done"}
ThreadPc == {"none", "count_down", "call", "construct", "publish", "enter", "looping",
             "clear", "leave", "finished"}

TypeOK ==
  /\ owner \in OwnerPc
  /\ current \in Threads
  /\ m_loops \in Seq(Threads)
  /\ pc \in [Threads -> ThreadPc]
  /\ m_count \in [Threads -> {0, 1}]
  /\ loop_ \in [Threads -> BOOLEAN]
  /\ loop_exists \in [Threads -> BOOLEAN]
  /\ quited_ \in [Threads -> BOOLEAN]

Init ==
  /\ owner = "start" /\ current = 1 /\ m_loops = <<>>
  /\ pc = [t \in Threads |-> "none"]
  /\ m_count = [t \in Threads |-> 1]
  /\ loop_ = [t \in Threads |-> FALSE]
  /\ loop_exists = [t \in Threads |-> FALSE]
  /\ quited_ = [t \in Threads |-> FALSE]

threadVars == <<pc, m_count, loop_, loop_exists, quited_>>
-----------------------------------------------------------------------------
(* The owner *)

(* uthread::start creates the thread. *)
start ==
  /\ owner = "start"
  /\ pc' = [pc EXCEPT ![current] = "count_down"]
  /\ owner' = "latch"
  /\ UNCHANGED <<current, m_loops, m_count, loop_, loop_exists, quited_>>

(* uthread::start's m_latch.wait() returns. *)
latch_wait ==
  /\ owner = "latch" /\ m_count[current] = 0
  /\ owner' = "cond"
  /\ UNCHANGED <<current, m_loops, threadVars>>

(* Mutant: start_loop does not wait for the thread to publish its loop. *)
published_not_awaited(t) == TRUE

(* start_loop waits under m_mut for loop_. *)
published(t) == loop_[t]

start_loop_returns ==
  /\ owner = "cond" /\ published(current)
  /\ m_loops' = Append(m_loops, current)
  /\ IF current < ThreadNum
     THEN owner' = "start" /\ current' = current + 1
     ELSE owner' = "serve" /\ UNCHANGED current
  /\ UNCHANGED threadVars

(* The pool is destroyed, its threads in the order of m_threads. *)
destroy_pool ==
  /\ owner = "serve"
  /\ owner' = "destroy" /\ current' = 1
  /\ UNCHANGED <<m_loops, threadVars>>

next_thread ==
  IF current < ThreadNum
  THEN owner' = "destroy" /\ current' = current + 1
  ELSE owner' = "done" /\ UNCHANGED current

(* ~event_loop_thread: only a thread that has a loop is told and joined. *)
destroy ==
  /\ owner = "destroy" /\ loop_[current]
  /\ owner' = "quit"
  /\ UNCHANGED <<current, m_loops, threadVars>>

(* Mutant: quit() forgets the flag. *)
quit_without_flag ==
  /\ owner = "quit"
  /\ owner' = "wakeup"
  /\ UNCHANGED <<current, m_loops, threadVars>>

quit ==
  /\ owner = "quit"
  /\ quited_' = [quited_ EXCEPT ![current] = TRUE]
  /\ owner' = "wakeup"
  /\ UNCHANGED <<current, m_loops, pc, m_count, loop_, loop_exists>>

(* The second half of quit(): the write to the loop's eventfd. *)
wakeup ==
  /\ owner = "wakeup"
  /\ owner' = "join"
  /\ UNCHANGED <<current, m_loops, threadVars>>

join ==
  /\ owner = "join" /\ pc[current] = "finished"
  /\ next_thread
  /\ UNCHANGED <<m_loops, threadVars>>
-----------------------------------------------------------------------------
(* The IO threads: uthread::start_thread, then event_loop_thread::thread_func *)

at(t, here, there) == pc[t] = here /\ pc' = [pc EXCEPT ![t] = there]

ownerVars == <<owner, current, m_loops>>

(* Mutant: the latch is not counted down. *)
count_down_missing(t) ==
  /\ at(t, "count_down", "call")
  /\ UNCHANGED <<ownerVars, m_count, loop_, loop_exists, quited_>>

(* start_thread: the latch first, then the thread's function. *)
count_down(t) ==
  /\ at(t, "count_down", "call")
  /\ m_count' = [m_count EXCEPT ![t] = 0]
  /\ UNCHANGED <<ownerVars, loop_, loop_exists, quited_>>

call_thread_func(t) ==
  /\ at(t, "call", "construct")
  /\ UNCHANGED <<ownerVars, m_count, loop_, loop_exists, quited_>>

construct_loop(t) ==
  /\ at(t, "construct", "publish")
  /\ loop_exists' = [loop_exists EXCEPT ![t] = TRUE]
  /\ UNCHANGED <<ownerVars, m_count, loop_, quited_>>

publish(t) ==
  /\ at(t, "publish", "enter")
  /\ loop_' = [loop_ EXCEPT ![t] = TRUE]
  /\ UNCHANGED <<ownerVars, m_count, loop_exists, quited_>>

(* Entry of loop(): it clears the flag. *)
enter_loop(t) ==
  /\ at(t, "enter", "looping")
  /\ quited_' = [quited_ EXCEPT ![t] = FALSE]
  /\ UNCHANGED <<ownerVars, m_count, loop_, loop_exists>>

(* loop() returns. *)
leave_loop(t) ==
  /\ quited_[t]
  /\ at(t, "looping", "clear")
  /\ UNCHANGED <<ownerVars, m_count, loop_, loop_exists, quited_>>

clear_pointer(t) ==
  /\ at(t, "clear", "leave")
  /\ loop_' = [loop_ EXCEPT ![t] = FALSE]
  /\ UNCHANGED <<ownerVars, m_count, loop_exists, quited_>>

(* The event_loop on the stack is destroyed and the thread ends. *)
destroy_loop(t) ==
  /\ at(t, "leave", "finished")
  /\ loop_exists' = [loop_exists EXCEPT ![t] = FALSE]
  /\ UNCHANGED <<ownerVars, m_count, loop_, quited_>>
-----------------------------------------------------------------------------
OwnerStep ==
  \/ start \/ latch_wait \/ start_loop_returns
  \/ destroy \/ quit \/ wakeup \/ join

ThreadStep(t) ==
  \/ count_down(t) \/ call_thread_func(t) \/ construct_loop(t) \/ publish(t) \/ enter_loop(t)
  \/ leave_loop(t) \/ clear_pointer(t) \/ destroy_loop(t)

Next == OwnerStep \/ destroy_pool \/ \E t \in Threads : ThreadStep(t)

SafeSpec == Init /\ [][Next]_vars

(* Every thread is scheduled.  Nothing makes the owner destroy the pool. *)
Spec == SafeSpec /\ WF_vars(OwnerStep) /\ \A t \in Threads : WF_vars(ThreadStep(t))
-----------------------------------------------------------------------------
(* Every loop the pool hands out exists, until the pool itself is destroyed:
   start_loop's handshake hands over no pointer too early
   (event_loop_thread.cpp:21-40). *)
LoopsExist ==
  owner \notin {"destroy", "quit", "wakeup", "join", "done"} =>
    \A i \in DOMAIN m_loops : loop_[m_loops[i]] /\ loop_exists[m_loops[i]]

(* The pool gets all its threads. *)
PoolStarts == <>(owner = "serve")

(* A thread that is inside loop() when its destructor runs is ended and joined
   (event_loop_thread.cpp:13-19). *)
DestructorEnds ==
  \A t \in Threads :
    (owner = "destroy" /\ current = t /\ pc[t] = "looping") ~> (current # t \/ owner = "done")
=============================================================================
