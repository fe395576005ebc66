----------------------------- MODULE TaskQueue -----------------------------
(***************************************************************************)
(* What event_loop::queue_in_loop promises its callers, without threads,   *)
(* eventfd or epoll: a functor that was queued is run by the loop exactly  *)
(* once, in the order of queueing, until the loop has stopped.             *)
(*                                                                         *)
(* A functor is named by its position in the order of queueing.            *)
(***************************************************************************)
EXTENDS Naturals, Sequences

VARIABLES
  waiting,  \* functors queued and not yet run, oldest first
  done,     \* functors run, in the order they were run
  stopped   \* the loop has left loop()

vars == <<waiting, done, stopped>>

Init ==
  /\ waiting = <<>>
  /\ done = <<>>
  /\ stopped = FALSE

Submit ==
  /\ ~stopped
  /\ waiting' = Append(waiting, Len(done) + Len(waiting) + 1)
  /\ UNCHANGED <<done, stopped>>

Run ==
  /\ ~stopped
  /\ waiting # <<>>
  /\ done' = Append(done, Head(waiting))
  /\ waiting' = Tail(waiting)
  /\ UNCHANGED stopped

Stop ==
  /\ ~stopped
  /\ stopped' = TRUE
  /\ UNCHANGED <<waiting, done>>

Next == Submit \/ Run \/ Stop

SafeSpec == Init /\ [][Next]_vars

Spec == SafeSpec /\ WF_vars(Run)
=============================================================================
