----------------------------- MODULE EventLoop -----------------------------
(***************************************************************************)
(* event_loop (src/src/event_loop.cpp): one IO thread runs loop(); foreign *)
(* threads (the main reactor) hand it functors with queue_in_loop and stop *)
(* it with quit.  The loop sleeps in epoll_wait and is woken through an    *)
(* eventfd registered edge triggered, so a functor is only as good as the  *)
(* wakeup that follows it.                                                 *)
(*                                                                         *)
(* A critical section under m_mut is one step; the eventfd write that      *)
(* follows it is another.  The eventfd counter is kept as "is it non-zero",*)
(* which is all a read that resets it can tell.                            *)
(***************************************************************************)
EXTENDS Naturals, Sequences

CONSTANTS
  Threads,      \* foreign threads that call queue_in_loop and quit
  Loop,         \* the IO thread itself
  MaxFunctors   \* bound on the functors ever queued

ASSUME LoopAssumption == Loop \notin Threads
ASSUME MaxFunctorsAssumption == MaxFunctors \in Nat

VARIABLES
  pc,                       \* where the IO thread is in loop()
  quited,                   \* quited_
  calling_pending_functors, \* calling_pending_functors_
  m_pending_functors,       \* functors queued, guarded by m_mut
  functors,                 \* doPendingFunctors' local vector, what is left of it
  executed,                 \* history: functors begun, in order
  submitted,                \* history: number of functors ever queued
  signalled,                \* the eventfd counter is non-zero
  armed,                    \* the eventfd is on epoll's ready list (an edge was seen)
  wake_in_batch,            \* the wakeup channel is among the channels poll() returned
  waking                    \* threads past their critical section, before wakeup()'s write

vars == <<pc, quited, calling_pending_functors, m_pending_functors, functors,
          executed, submitted, signalled, armed, wake_in_batch, waking>>

queueVars  == <<calling_pending_functors, m_pending_functors, functors, executed, submitted>>
eventVars  == <<signalled, armed, wake_in_batch, waking>>

LoopPc == {"start", "check", "poll", "handle", "swap", "run", "functor", "done"}

TypeOK ==
  /\ pc \in LoopPc
  /\ quited \in BOOLEAN
  /\ calling_pending_functors \in BOOLEAN
  /\ m_pending_functors \in Seq(Nat)
  /\ functors \in Seq(Nat)
  /\ executed \in Seq(Nat)
  /\ submitted \in Nat
  /\ signalled \in BOOLEAN
  /\ armed \in BOOLEAN
  /\ wake_in_batch \in BOOLEAN
  /\ waking \subseteq Threads \cup {Loop}

(* The constructor has registered the wakeup channel and the object has been
   handed to other threads; loop() has not been entered. *)
Init ==
  /\ pc = "start"
  /\ quited = FALSE
  /\ calling_pending_functors = FALSE
  /\ m_pending_functors = <<>>
  /\ functors = <<>>
  /\ executed = <<>>
  /\ submitted = 0
  /\ signalled = FALSE
  /\ armed = FALSE
  /\ wake_in_batch = FALSE
  /\ waking = {}
-----------------------------------------------------------------------------
(* Callers *)

(* Mutant: a functor queued by a functor counts on the iteration in progress. *)
must_wake_foreign_only(self) == self # Loop

(* queue_in_loop's condition for calling wakeup(). *)
must_wake(self) == self # Loop \/ calling_pending_functors

(* The IO thread calls queue_in_loop only from code it runs: an event handler
   or a functor.  A foreign thread may call it whenever the loop object exists. *)
may_call(self) ==
  /\ self \notin waking
  /\ pc # "done"
  /\ self = Loop => pc \in {"handle", "functor"}

queue_in_loop(self) ==
  /\ may_call(self)
  /\ submitted < MaxFunctors
  /\ submitted' = submitted + 1
  /\ m_pending_functors' = Append(m_pending_functors, submitted + 1)
  /\ waking' = IF must_wake(self) THEN waking \cup {self} ELSE waking
  /\ UNCHANGED <<pc, quited, calling_pending_functors, functors, executed,
                 signalled, armed, wake_in_batch>>

(* Mutant: quit() only sets the flag. *)
quit_no_wakeup(self) ==
  /\ may_call(self)
  /\ quited' = TRUE
  /\ UNCHANGED <<pc, queueVars, eventVars>>

(* quit(): the flag first; a foreign thread still has to write the eventfd. *)
quit(self) ==
  /\ may_call(self)
  /\ quited' = TRUE
  /\ waking' = IF self # Loop THEN waking \cup {self} ELSE waking
  /\ UNCHANGED <<pc, queueVars, signalled, armed, wake_in_batch>>

(* wakeup(): the write makes the eventfd readable and raises an edge. *)
wakeup(self) ==
  /\ self \in waking
  /\ waking' = waking \ {self}
  /\ signalled' = TRUE
  /\ armed' = TRUE
  /\ UNCHANGED <<pc, quited, queueVars, wake_in_batch>>
-----------------------------------------------------------------------------
(* The IO thread *)

loop_running == Loop \notin waking

(* Entry of loop(): it clears quited_, whatever was stored there before. *)
loop ==
  /\ pc = "start"
  /\ pc' = "check"
  /\ quited' = FALSE
  /\ UNCHANGED <<queueVars, eventVars>>

check_quited ==
  /\ pc = "check"
  /\ pc' = IF quited THEN "done" ELSE "poll"
  /\ UNCHANGED <<quited, queueVars, eventVars>>

(* epoll_wait returns and the wakeup channel is in the batch: the edge is
   consumed.  Other channels may be in the batch with it. *)
poll_wakeup ==
  /\ pc = "poll"
  /\ armed /\ signalled
  /\ armed' = FALSE
  /\ wake_in_batch' = TRUE
  /\ pc' = "handle"
  /\ UNCHANGED <<quited, queueVars, signalled, waking>>

(* epoll_wait returns because of other descriptors only. *)
poll_io ==
  /\ pc = "poll"
  /\ ~(armed /\ signalled)
  /\ wake_in_batch' = FALSE
  /\ pc' = "handle"
  /\ UNCHANGED <<quited, queueVars, signalled, armed, waking>>

(* handle_events of every channel returned; the wakeup channel's handler,
   handleRead, reads the eventfd back to zero. *)
handle_events ==
  /\ pc = "handle"
  /\ loop_running
  /\ signalled' = (signalled /\ ~wake_in_batch)
  /\ wake_in_batch' = FALSE
  /\ pc' = "swap"
  /\ UNCHANGED <<quited, queueVars, armed, waking>>

(* Mutant: the vector is copied and not swapped. *)
doPendingFunctors_no_clear ==
  /\ pc = "swap"
  /\ functors' = m_pending_functors
  /\ calling_pending_functors' = TRUE
  /\ pc' = "run"
  /\ UNCHANGED <<quited, m_pending_functors, executed, submitted, eventVars>>

(* doPendingFunctors up to the end of its critical section. *)
doPendingFunctors ==
  /\ pc = "swap"
  /\ calling_pending_functors' = TRUE
  /\ functors' = m_pending_functors
  /\ m_pending_functors' = <<>>
  /\ pc' = "run"
  /\ UNCHANGED <<quited, executed, submitted, eventVars>>

call_functor ==
  /\ pc = "run"
  /\ functors # <<>>
  /\ executed' = Append(executed, Head(functors))
  /\ functors' = Tail(functors)
  /\ pc' = "functor"
  /\ UNCHANGED <<quited, calling_pending_functors, m_pending_functors, submitted, eventVars>>

functor_returns ==
  /\ pc = "functor"
  /\ loop_running
  /\ pc' = "run"
  /\ UNCHANGED <<quited, queueVars, eventVars>>

(* The vector is exhausted; handle_expired follows and touches none of this. *)
functors_done ==
  /\ pc = "run"
  /\ functors = <<>>
  /\ calling_pending_functors' = FALSE
  /\ pc' = "check"
  /\ UNCHANGED <<quited, m_pending_functors, functors, executed, submitted, eventVars>>
-----------------------------------------------------------------------------
LoopStep ==
  \/ loop
  \/ check_quited
  \/ poll_wakeup
  \/ handle_events
  \/ doPendingFunctors
  \/ call_functor
  \/ functor_returns
  \/ functors_done

Next ==
  \/ \E self \in Threads \cup {Loop} : queue_in_loop(self)
  \/ \E self \in Threads \cup {Loop} : quit(self)
  \/ \E self \in Threads \cup {Loop} : wakeup(self)
  \/ LoopStep
  \/ poll_io

SafeSpec == Init /\ [][Next]_vars

(* The operating system schedules every thread, so a thread inside the code
   keeps moving.  Nothing makes callers call or descriptors become ready. *)
Fairness ==
  /\ WF_vars(LoopStep)
  /\ \A self \in Threads \cup {Loop} : WF_vars(wakeup(self))

Spec == SafeSpec /\ Fairness
-----------------------------------------------------------------------------
(* No lost wakeup.  A functor in the queue is either about to be fetched by
   the iteration in progress, or an unconsumed edge on a readable eventfd
   will end epoll_wait, or somebody is about to write that eventfd.  The loop
   never sleeps on a functor (event_loop.cpp:84-90 against 52-69). *)
NoLostWakeup ==
  m_pending_functors # <<>> =>
    \/ pc \in {"handle", "swap"}
    \/ armed /\ signalled
    \/ waking # {}

(* The same for quit(): once the flag is set the loop cannot be asleep without
   an edge coming (event_loop.cpp:72-77). *)
QuitIsSeen ==
  pc = "poll" /\ quited => (armed /\ signalled) \/ waking # {}

(* Every functor queued is run, unless the loop stops first. *)
EveryFunctorRuns ==
  \A n \in 1 .. MaxFunctors : (submitted >= n) ~> (Len(executed) >= n \/ pc = "done")

(* A quit that comes after loop() was entered stops the loop. *)
QuitStops == (quited /\ pc # "start") ~> (pc = "done")

(* The loop implements the queue of TaskQueue: functors run exactly once, in
   the order of queueing, whichever thread queued them. *)
Tasks == INSTANCE TaskQueue WITH
  waiting <- functors \o m_pending_functors,
  done    <- executed,
  stopped <- pc = "done"

ImplementsTaskQueue == Tasks!SafeSpec
=============================================================================
