----------------------------- MODULE Descriptors -----------------------------
(***************************************************************************)
(* What an IO loop and the shared_ptrs of its connections promise about    *)
(* descriptors: each is held by one connection at a time, which is given   *)
(* it once, keeps it until it is closed, and never comes back.             *)
(***************************************************************************)
CONSTANTS Conns, Fds, None

VARIABLES
  held,  \* the descriptor each connection has, or None
  known  \* the connections that have ever had one

vars == <<held, known>>

Init == held = [c \in Conns |-> None] /\ known = {}

accept(c, f) ==
  /\ c \notin known
  /\ \A d \in Conns : held[d] # f
  /\ held' = [held EXCEPT ![c] = f]
  /\ known' = known \cup {c}

close(c) ==
  /\ held[c] # None
  /\ held' = [held EXCEPT ![c] = None]
  /\ UNCHANGED known

Next == \E c \in Conns : close(c) \/ \E f \in Fds : accept(c, f)

Spec == Init /\ [][Next]_vars
=============================================================================
