---------------------------- MODULE MCEventLoop ----------------------------
(* EventLoop with two foreign threads. *)
EXTENDS EventLoop

CONSTANTS t1, t2, loop_thread

=============================================================================
