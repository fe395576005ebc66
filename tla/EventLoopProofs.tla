-------------------------- MODULE EventLoopProofs --------------------------
(***************************************************************************)
(* EventLoop's safety for any set of foreign threads and any number of     *)
(* functors: its type, no lost wakeup, quit is seen, and the refinement of *)
(* TaskQueue.                                                              *)
(***************************************************************************)
EXTENDS EventLoop, SequenceTheorems, TLAPS

(* What the pc says about the other variables. *)
PcInv ==
  /\ calling_pending_functors <=> pc \in {"run", "functor"}
  /\ pc \notin {"run", "functor"} => functors = <<>>

(* Every functor queued is accounted for exactly once. *)
CountInv ==
  submitted = Len(executed) + Len(functors) + Len(m_pending_functors)

IInv == TypeOK /\ PcInv /\ CountInv /\ NoLostWakeup /\ QuitIsSeen

(* The types are preserved by every step of the loop and of its callers. *)
LEMMA TypeStep == TypeOK /\ [Next]_vars => TypeOK'
<1> SUFFICES ASSUME TypeOK, [Next]_vars PROVE TypeOK'
  OBVIOUS
<1> USE DEF TypeOK, LoopPc
<1>1. ASSUME NEW self \in Threads \cup {Loop}, queue_in_loop(self) PROVE TypeOK'
  <2>1. submitted + 1 \in Nat /\ Append(m_pending_functors, submitted + 1) \in Seq(Nat)
    OBVIOUS
  <2> QED BY <1>1, <2>1 DEF queue_in_loop
<1>2. ASSUME NEW self \in Threads \cup {Loop}, quit(self) PROVE TypeOK'
  BY <1>2 DEF quit, queueVars
<1>3. ASSUME NEW self \in Threads \cup {Loop}, wakeup(self) PROVE TypeOK'
  BY <1>3 DEF wakeup, queueVars
<1>4. CASE loop
  BY <1>4 DEF loop, queueVars, eventVars
<1>5. CASE check_quited
  BY <1>5 DEF check_quited, queueVars, eventVars
<1>6. CASE poll_wakeup
  BY <1>6 DEF poll_wakeup, queueVars
<1>7. CASE poll_io
  BY <1>7 DEF poll_io, queueVars
<1>8. CASE handle_events
  BY <1>8 DEF handle_events, queueVars
<1>9. CASE doPendingFunctors
  BY <1>9 DEF doPendingFunctors, eventVars
<1>10. CASE call_functor
  <2>1. Head(functors) \in Nat /\ Tail(functors) \in Seq(Nat)
    BY <1>10 DEF call_functor
  <2>2. Append(executed, Head(functors)) \in Seq(Nat)
    BY <2>1
  <2> QED BY <1>10, <2>1, <2>2 DEF call_functor, eventVars
<1>11. CASE functor_returns
  BY <1>11 DEF functor_returns, queueVars, eventVars
<1>12. CASE functors_done
  BY <1>12 DEF functors_done, eventVars
<1>13. CASE UNCHANGED vars
  BY <1>13 DEF vars
<1> QED BY <1>1, <1>2, <1>3, <1>4, <1>5, <1>6, <1>7, <1>8, <1>9, <1>10, <1>11,
           <1>12, <1>13 DEF Next, LoopStep

(* The program counter tells whether functors are being called. *)
LEMMA PcStep == TypeOK /\ PcInv /\ [Next]_vars => PcInv'
<1> SUFFICES ASSUME TypeOK, PcInv, [Next]_vars PROVE PcInv'
  OBVIOUS
<1> USE DEF TypeOK, PcInv
<1>1. ASSUME NEW self \in Threads \cup {Loop},
             queue_in_loop(self) \/ quit(self) \/ wakeup(self)
      PROVE  PcInv'
  BY <1>1 DEF queue_in_loop, quit, wakeup, queueVars
<1>2. CASE loop \/ check_quited \/ functor_returns
  BY <1>2 DEF loop, check_quited, functor_returns, queueVars, eventVars
<1>3. CASE poll_wakeup \/ poll_io \/ handle_events
  BY <1>3 DEF poll_wakeup, poll_io, handle_events, queueVars
<1>4. CASE doPendingFunctors
  BY <1>4 DEF doPendingFunctors
<1>5. CASE call_functor
  BY <1>5 DEF call_functor
<1>6. CASE functors_done
  BY <1>6 DEF functors_done
<1>7. CASE UNCHANGED vars
  BY <1>7 DEF vars
<1> QED BY <1>1, <1>2, <1>3, <1>4, <1>5, <1>6, <1>7 DEF Next, LoopStep

(* No step creates, loses or repeats a functor. *)
LEMMA CountStep == TypeOK /\ PcInv /\ CountInv /\ [Next]_vars => CountInv'
<1> SUFFICES ASSUME TypeOK, PcInv, CountInv, [Next]_vars PROVE CountInv'
  OBVIOUS
<1> USE DEF TypeOK, CountInv
<1>1. ASSUME NEW self \in Threads \cup {Loop}, queue_in_loop(self) PROVE CountInv'
  <2>1. Len(Append(m_pending_functors, submitted + 1)) = Len(m_pending_functors) + 1
    OBVIOUS
  <2> QED BY <1>1, <2>1 DEF queue_in_loop
<1>2. ASSUME NEW self \in Threads \cup {Loop}, quit(self) \/ wakeup(self) PROVE CountInv'
  BY <1>2 DEF quit, wakeup, queueVars
<1>3. CASE loop \/ check_quited \/ functor_returns \/ poll_wakeup \/ poll_io \/ handle_events
  BY <1>3 DEF loop, check_quited, functor_returns, poll_wakeup, poll_io, handle_events, queueVars
<1>4. CASE doPendingFunctors
  <2>1. Len(functors) = 0
    BY <1>4 DEF doPendingFunctors, PcInv
  <2> QED BY <1>4, <2>1 DEF doPendingFunctors
<1>5. CASE call_functor
  <2>1. Len(Tail(functors)) = Len(functors) - 1
    BY <1>5 DEF call_functor
  <2>2. Len(Append(executed, Head(functors))) = Len(executed) + 1
    BY <1>5, Head(functors) \in Nat DEF call_functor
  <2> QED BY <1>5, <2>1, <2>2 DEF call_functor
<1>6. CASE functors_done \/ UNCHANGED vars
  BY <1>6 DEF functors_done, vars
<1> QED BY <1>1, <1>2, <1>3, <1>4, <1>5, <1>6 DEF Next, LoopStep

(* A step that queues a functor either leaves a wakeup to come or is made
   before the swap of the iteration in progress. *)
LEMMA WakeupStep == TypeOK /\ PcInv /\ NoLostWakeup /\ [Next]_vars => NoLostWakeup'
<1> SUFFICES ASSUME TypeOK, PcInv, NoLostWakeup, [Next]_vars PROVE NoLostWakeup'
  OBVIOUS
<1> USE DEF TypeOK, NoLostWakeup
<1>1. ASSUME NEW self \in Threads \cup {Loop}, queue_in_loop(self) PROVE NoLostWakeup'
  <2>1. CASE must_wake(self)
    BY <1>1, <2>1 DEF queue_in_loop
  <2>2. CASE ~must_wake(self)
    <3>1. pc = "handle"
      BY <1>1, <2>2 DEF queue_in_loop, must_wake, may_call, PcInv
    <3> QED BY <1>1, <3>1 DEF queue_in_loop
  <2> QED BY <2>1, <2>2
<1>2. ASSUME NEW self \in Threads \cup {Loop}, quit(self) PROVE NoLostWakeup'
  BY <1>2 DEF quit, queueVars
<1>3. ASSUME NEW self \in Threads \cup {Loop}, wakeup(self) PROVE NoLostWakeup'
  BY <1>3 DEF wakeup
<1>4. CASE loop \/ check_quited \/ functor_returns
  BY <1>4 DEF loop, check_quited, functor_returns, queueVars, eventVars
<1>5. CASE poll_wakeup \/ poll_io \/ handle_events
  BY <1>5 DEF poll_wakeup, poll_io, handle_events
<1>6. CASE doPendingFunctors
  BY <1>6 DEF doPendingFunctors
<1>7. CASE call_functor
  BY <1>7 DEF call_functor, eventVars
<1>8. CASE functors_done
  BY <1>8 DEF functors_done, eventVars
<1>9. CASE UNCHANGED vars
  BY <1>9 DEF vars
<1> QED BY <1>1, <1>2, <1>3, <1>4, <1>5, <1>6, <1>7, <1>8, <1>9 DEF Next, LoopStep

(* The loop goes to sleep only with quited_ false, and a foreign thread that
   sets it afterwards owes a write to the eventfd. *)
LEMMA QuitStep == TypeOK /\ QuitIsSeen /\ [Next]_vars => QuitIsSeen'
<1> SUFFICES ASSUME TypeOK, QuitIsSeen, [Next]_vars PROVE QuitIsSeen'
  OBVIOUS
<1> USE DEF TypeOK, QuitIsSeen
<1>1. ASSUME NEW self \in Threads \cup {Loop}, queue_in_loop(self) PROVE QuitIsSeen'
  BY <1>1 DEF queue_in_loop
<1>2. ASSUME NEW self \in Threads \cup {Loop}, quit(self) PROVE QuitIsSeen'
  BY <1>2 DEF quit, may_call
<1>3. ASSUME NEW self \in Threads \cup {Loop}, wakeup(self) PROVE QuitIsSeen'
  BY <1>3 DEF wakeup
<1>4. CASE loop
  BY <1>4 DEF loop
<1>5. CASE check_quited
  BY <1>5 DEF check_quited
<1>6. CASE poll_wakeup \/ poll_io \/ handle_events
  BY <1>6 DEF poll_wakeup, poll_io, handle_events
<1>7. CASE doPendingFunctors \/ call_functor
  BY <1>7 DEF doPendingFunctors, call_functor
<1>8. CASE functor_returns \/ functors_done
  BY <1>8 DEF functor_returns, functors_done
<1>9. CASE UNCHANGED vars
  BY <1>9 DEF vars
<1> QED BY <1>1, <1>2, <1>3, <1>4, <1>5, <1>6, <1>7, <1>8, <1>9 DEF Next, LoopStep

(* The constructor establishes the invariant. *)
LEMMA InitInv == Init => IInv
<1> SUFFICES ASSUME Init PROVE IInv
  OBVIOUS
<1> USE DEF Init
<1>1. TypeOK
  <2>1. m_pending_functors \in Seq(Nat) /\ functors \in Seq(Nat) /\ executed \in Seq(Nat)
    OBVIOUS
  <2>2. /\ quited \in BOOLEAN /\ calling_pending_functors \in BOOLEAN
        /\ signalled \in BOOLEAN /\ armed \in BOOLEAN /\ wake_in_batch \in BOOLEAN
    BY Zenon
  <2>3. pc \in LoopPc /\ submitted \in Nat /\ waking \subseteq Threads \cup {Loop}
    BY DEF LoopPc
  <2> QED BY <2>1, <2>2, <2>3, Zenon DEF TypeOK
<1>2. PcInv /\ NoLostWakeup /\ QuitIsSeen
  BY DEF PcInv, NoLostWakeup, QuitIsSeen
<1>3. CountInv
  BY DEF CountInv
<1> QED BY <1>1, <1>2, <1>3 DEF IInv

(* The inductive invariant. *)
THEOREM Invariance == SafeSpec => []IInv
<1>1. IInv /\ [Next]_vars => IInv'
  BY TypeStep, PcStep, CountStep, WakeupStep, QuitStep DEF IInv
<1> QED BY InitInv, <1>1, PTL DEF SafeSpec

(* The types hold whatever the callers do. *)
THEOREM TypeCorrect == SafeSpec => []TypeOK
<1>1. IInv => TypeOK
  BY DEF IInv
<1> QED BY Invariance, <1>1, PTL

(* The loop never sleeps on a queued functor (event_loop.cpp:84-90, 52-69). *)
THEOREM WakeupIsNeverLost == SafeSpec => []NoLostWakeup
<1>1. IInv => NoLostWakeup
  BY DEF IInv
<1> QED BY Invariance, <1>1, PTL

(* The loop never sleeps on quit() (event_loop.cpp:72-77). *)
THEOREM QuitIsAlwaysSeen == SafeSpec => []QuitIsSeen
<1>1. IInv => QuitIsSeen
  BY DEF IInv
<1> QED BY Invariance, <1>1, PTL
-----------------------------------------------------------------------------
(* The functors not yet run, fetched ones first. *)
LEMMA PushIsAppend ==
  ASSUME TypeOK, CountInv
  PROVE  functors \o Append(m_pending_functors, submitted + 1)
           = Append(functors \o m_pending_functors,
                    Len(executed) + Len(functors \o m_pending_functors) + 1)
<1> USE DEF TypeOK
<1>1. Len(functors \o m_pending_functors) = Len(functors) + Len(m_pending_functors)
  OBVIOUS
<1>2. submitted + 1 = Len(executed) + Len(functors \o m_pending_functors) + 1
  BY <1>1 DEF CountInv
<1>3. functors \o Append(m_pending_functors, submitted + 1)
        = Append(functors \o m_pending_functors, submitted + 1)
  OBVIOUS
<1> QED BY <1>2, <1>3

(* Taking the oldest functor of the local vector takes the oldest of all. *)
LEMMA PopIsOldest ==
  ASSUME TypeOK, functors # <<>>
  PROVE  /\ functors \o m_pending_functors # <<>>
         /\ Head(functors \o m_pending_functors) = Head(functors)
         /\ Tail(functors \o m_pending_functors) = Tail(functors) \o m_pending_functors
BY DEF TypeOK

(* Every step of the loop is a step of the queue or leaves it alone. *)
LEMMA StepRefinement ==
  TypeOK /\ PcInv /\ CountInv /\ [Next]_vars => [Tasks!Next]_Tasks!vars
<1> SUFFICES ASSUME TypeOK, PcInv, CountInv, [Next]_vars
             PROVE  [Tasks!Next]_Tasks!vars
  OBVIOUS
<1> USE DEF Tasks!vars
<1>1. ASSUME NEW self \in Threads \cup {Loop}, queue_in_loop(self)
      PROVE  Tasks!Submit
  BY <1>1, PushIsAppend DEF queue_in_loop, may_call, Tasks!Submit
<1>2. ASSUME NEW self \in Threads \cup {Loop}, quit(self) \/ wakeup(self)
      PROVE  UNCHANGED Tasks!vars
  BY <1>2 DEF quit, wakeup, queueVars
<1>3. CASE loop \/ functor_returns
  BY <1>3 DEF loop, functor_returns, queueVars
<1>4. CASE check_quited
  <2>1. CASE quited
    BY <1>4, <2>1 DEF check_quited, queueVars, Tasks!Stop, Tasks!Next
  <2>2. CASE ~quited
    BY <1>4, <2>2 DEF check_quited, queueVars
  <2> QED BY <2>1, <2>2
<1>5. CASE poll_wakeup \/ poll_io \/ handle_events
  BY <1>5 DEF poll_wakeup, poll_io, handle_events, queueVars
<1>6. CASE doPendingFunctors
  <2>1. functors = <<>>
    BY <1>6 DEF doPendingFunctors, PcInv
  <2>2. functors' \o m_pending_functors' = functors \o m_pending_functors
    BY <1>6, <2>1 DEF doPendingFunctors, TypeOK
  <2> QED BY <1>6, <2>2 DEF doPendingFunctors
<1>7. CASE call_functor
  BY <1>7, PopIsOldest DEF call_functor, Tasks!Run, Tasks!Next
<1>8. CASE functors_done
  BY <1>8 DEF functors_done
<1>9. CASE UNCHANGED vars
  BY <1>9 DEF vars
<1> QED BY <1>1, <1>2, <1>3, <1>4, <1>5, <1>6, <1>7, <1>8, <1>9
        DEF Next, LoopStep, Tasks!Next

(* The loop implements TaskQueue: for any callers, functors run once each and
   in the order of queueing (event_loop.cpp:84-90, 110-122). *)
THEOREM Refinement == SafeSpec => ImplementsTaskQueue
<1>1. Init => Tasks!Init
  BY DEF Init, Tasks!Init
<1>2. IInv /\ [Next]_vars => [Tasks!Next]_Tasks!vars
  BY StepRefinement DEF IInv
<1> QED BY Invariance, <1>1, <1>2, PTL DEF SafeSpec, Tasks!SafeSpec, ImplementsTaskQueue
=============================================================================
