----------------------------- MODULE MCReactor -----------------------------
(* Reactor with two connections on two descriptors. *)
EXTENDS Reactor, TLC

CONSTANTS
  c1, c2,        \* the connections; c1 is accepted first
  f1, f2,        \* the descriptors; c1 gets f1, and f2 is used only beside it
  MaxAllSends    \* bound on the writes of all peers together

(* The connections have the same code and the descriptors no meaning, so that
   one order stands for all. *)
accept_order ==
  /\ fd'[c2] # None => fd[c1] # None
  /\ fd'[c1] # f2
  /\ fd'[c2] = f2 => fd[c2] = f2 \/ alive(c1)

few_sends == sock'[c1].sent + sock'[c2].sent <= MaxAllSends

MCSpec ==
  /\ Init
  /\ [][Next /\ accept_order /\ few_sends]_vars
  /\ WF_vars(LoopStep)
  /\ \A c \in Conns : WF_vars(time_passes(c))
=============================================================================
