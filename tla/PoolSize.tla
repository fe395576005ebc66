------------------------------ MODULE PoolSize ------------------------------
(* The number of IO threads, fixed when the server is made:
   event_loop_thread_pool's constructor aborts if it is not positive. *)
EXTENDS Naturals

CONSTANT ThreadNum  \* thread_num_

ASSUME ThreadNumAssumption == ThreadNum \in Nat \ {0}
=============================================================================
