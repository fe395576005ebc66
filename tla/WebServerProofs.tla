--------------------------- MODULE WebServerProofs ---------------------------
(***************************************************************************)
(* The server while its pool exists, for any number of IO threads and any  *)
(* limits: loops are handed out and used only while they live, and the     *)
(* edge trigger strands no client.                                         *)
(***************************************************************************)
EXTENDS WebServer, Induction, SequenceTheorems, FiniteSetTheorems, TLAPS

Starting == owner \in {"start", "latch", "cond"}
Running  == Starting \/ owner = "serve"

(* The threads got their loops in order, and one that was started is not left
   before somebody sets its flag, which only ~event_loop_thread does. *)
PoolInv ==
  /\ Starting =>
       /\ Len(m_loops) = current - 1
       /\ \A t \in Pool!Threads :
            t > current \/ (t = current /\ owner = "start") => thread_pc[t] = "none"
  /\ owner = "serve" => Len(m_loops) = ThreadNum
  /\ \A i \in DOMAIN m_loops : m_loops[i] = i
  /\ Running =>
       \A t \in Pool!Threads :
         /\ ~quited_[t]
         /\ thread_pc[t] \in {"none", "count_down", "call", "construct", "publish", "enter", "looping"}
         /\ loop_[t] <=> thread_pc[t] \in {"enter", "looping"}
         /\ thread_pc[t] \in {"publish", "enter", "looping"} => loop_exists[t]
         /\ t <= Len(m_loops) => loop_[t]

(* The registration follows events_, except while it is being handled, and a
   client who comes meanwhile makes an edge. *)
EdgeInv ==
  /\ pc = "start" => ~interest
  /\ pc = "poll" => events_ = last_events_ /\ interest = last_events_
  /\ pc \in {"accept", "conn"} => last_events_ /\ interest
  /\ pc = "accept" => ~events_
  /\ (pc = "poll" /\ interest) \/ (pc = "conn" /\ events_) =>
       (backlog > 0 /\ ~accept_error => ready)

(* No client is lost, and those handed over can be counted. *)
CountInv == IsFiniteSet(turns(assigned)) /\ EveryClientAccounted

(* The round robin: every loop has had q turns, those before next_ one more; a
   turn it has had brought it a connection or was spent on one that no loop
   got. *)
Rounds(skipped, q) ==
  /\ \A l \in Loops : assigned[l] + skipped[l] = q + (IF l < next_ THEN 1 ELSE 0)
  /\ IsFiniteSet(turns(skipped))
  /\ clients = backlog + handed_over + Cardinality(turns(skipped)) + aborted

RoundInv == \E skipped \in [Loops -> Nat], q \in Nat : Rounds(skipped, q)

AcceptInv == TypeOK /\ EdgeInv /\ CountInv /\ RoundInv
IInv == ServerTypeOK /\ PoolInv /\ AcceptInv
-----------------------------------------------------------------------------
(* `lowest` finds one. *)
LEMMA LowestFree ==
  ASSUME TypeOK, free # {}
  PROVE  lowest(free) \in free
<1>1. free \subseteq Nat
  BY LimitsAssumption DEF free, Descriptors
<1> QED BY <1>1, Least DEF lowest

LEMMA NextLoop == ASSUME TypeOK PROVE (next_ + 1) % ThreadNum \in Loops /\ Loops \subseteq Nat
<1>1. ThreadNum \in Nat /\ ThreadNum > 0
  BY ThreadNumAssumption
<1>2. next_ + 1 \in Nat
  BY <1>1 DEF TypeOK, Loops
<1>3. (next_ + 1) % ThreadNum \in 0 .. ThreadNum - 1
  BY <1>1, <1>2
<1> QED BY <1>1, <1>3 DEF Loops
(* A turn more makes one pair more. *)
LEMMA OneMoreTurn ==
  ASSUME NEW a \in [Loops -> Nat], IsFiniteSet(turns(a)), NEW k \in Loops,
         NEW b, b = [a EXCEPT ![k] = @ + 1]
  PROVE  /\ b \in [Loops -> Nat]
         /\ IsFiniteSet(turns(b))
         /\ Cardinality(turns(a)) \in Nat
         /\ Cardinality(turns(b)) = Cardinality(turns(a)) + 1
<1> DEFINE turn == <<k, a[k] + 1>>
<1>1. \A p : p \in turns(a) <=> \E l \in Loops : \E i \in 1 .. a[l] : p = <<l, i>>
  BY DEF turns
<1>2. \A p : p \in turns(b) <=> \E l \in Loops : \E i \in 1 .. b[l] : p = <<l, i>>
  BY DEF turns
<1>3. b[k] = a[k] + 1 /\ a[k] \in Nat /\ \A l \in Loops : l # k => b[l] = a[l]
  OBVIOUS
<1>4. \A i : i \in 1 .. b[k] <=> i \in 1 .. a[k] \/ i = a[k] + 1
  BY <1>3
<1>5. turn \notin turns(a)
  <2> SUFFICES ASSUME NEW l \in Loops, NEW i \in 1 .. a[l], turn = <<l, i>> PROVE FALSE
    BY <1>1
  <2>1. l = k /\ i = a[k] + 1
    OBVIOUS
  <2> QED BY <1>3, <2>1
<1>6. turns(b) = turns(a) \cup {turn}
  <2>1. ASSUME NEW p \in turns(b) PROVE p \in turns(a) \/ p = turn
    <3>1. PICK l \in Loops : \E i \in 1 .. b[l] : p = <<l, i>>
      BY <1>2, <2>1
    <3>2. PICK i \in 1 .. b[l] : p = <<l, i>>
      BY <3>1
    <3>3. CASE l = k BY <1>1, <1>4, <3>2, <3>3
    <3>4. CASE l # k BY <1>1, <1>3, <3>2, <3>4
    <3> QED BY <3>3, <3>4
  <2>2. ASSUME NEW p \in turns(a) PROVE p \in turns(b)
    <3>1. PICK l \in Loops : \E i \in 1 .. a[l] : p = <<l, i>>
      BY <1>1, <2>2
    <3>2. PICK i \in 1 .. a[l] : p = <<l, i>>
      BY <3>1
    <3>3. CASE l = k BY <1>2, <1>4, <3>2, <3>3
    <3>4. CASE l # k BY <1>2, <1>3, <3>2, <3>4
    <3> QED BY <3>3, <3>4
  <2>3. turn \in turns(b)
    <3>1. a[k] + 1 \in 1 .. b[k]
      BY <1>3
    <3> QED BY <1>2, <3>1
  <2> QED BY <2>1, <2>2, <2>3
<1>7. IsFiniteSet(turns(b)) /\ Cardinality(turns(b)) = Cardinality(turns(a)) + 1
  <2> HIDE DEF turn
  <2>1. /\ IsFiniteSet(turns(a) \cup {turn})
        /\ Cardinality(turns(a) \cup {turn}) = Cardinality(turns(a)) + 1
    BY <1>5, FS_AddElement
  <2> QED BY <1>6, <2>1
<1>8. b \in [Loops -> Nat]
  OBVIOUS
<1> QED BY <1>7, <1>8, FS_CardinalityType

(* A loop has not had more turns than all loops together. *)
LEMMA TurnsOfOne ==
  ASSUME NEW a \in [Loops -> Nat], IsFiniteSet(turns(a)), NEW k \in Loops
  PROVE  a[k] <= Cardinality(turns(a))
<1> DEFINE f == [i \in 1 .. a[k] |-> <<k, i>>]
<1>1. {k} \X (1 .. a[k]) \in SUBSET turns(a)
  BY DEF turns
<1>2. IsFiniteSet(1 .. a[k]) /\ Cardinality(1 .. a[k]) = a[k]
  BY FS_Interval
<1>3. f \in Injection(1 .. a[k], turns(a))
  BY <1>1 DEF Injection, IsInjective
<1>4. Cardinality(1 .. a[k]) <= Cardinality(turns(a))
  BY <1>2, <1>3, FS_Injection DEF ExistsInjection
<1> QED BY <1>2, <1>4

(* Before anybody connects, nobody has had a turn. *)
LEMMA NoTurns ==
  LET none == [l \in Loops |-> 0]
  IN  none \in [Loops -> Nat] /\ IsFiniteSet(turns(none)) /\ Cardinality(turns(none)) = 0
<1>1. turns([l \in Loops |-> 0]) = {}
  BY DEF turns
<1> QED BY <1>1, FS_EmptySet
-----------------------------------------------------------------------------
(* The main reactor *)
LEMMA AcceptInit == Init => AcceptInv
<1> SUFFICES ASSUME Init PROVE AcceptInv
  OBVIOUS
<1>1. 0 \in Loops
  BY ThreadNumAssumption DEF Loops
<1>2. TypeOK
  <2>1. clients = 0 /\ rejected = 0 /\ aborted = 0 /\ accept_error = FALSE /\ 0 \in Nat
    BY DEF Init
  <2> QED BY <1>1, <2>1 DEF Init, TypeOK
<1>4. CountInv
  BY NoTurns DEF Init, CountInv, EveryClientAccounted, handed_over
<1>5. RoundInv
  <2> DEFINE none == [l \in Loops |-> 0]
  <2>1. next_ = 0 /\ clients = 0 /\ backlog = 0 /\ aborted = 0 /\ assigned = none
    BY DEF Init
  <2>2. none \in [Loops -> Nat] /\ \A l \in Loops : none[l] = 0 /\ ~(l < 0)
    BY ThreadNumAssumption DEF Loops
  <2>3. IsFiniteSet(turns(none)) /\ Cardinality(turns(none)) = 0
    BY NoTurns
  <2>4. Rounds(none, 0)
    <3> HIDE DEF none
    <3> QED BY <2>1, <2>2, <2>3 DEF Rounds, handed_over
  <2> QED BY <2>2, <2>4 DEF RoundInv
<1> QED BY <1>2, <1>4, <1>5 DEF Init, AcceptInv, EdgeInv

LEMMA AcceptTypeStep == AcceptInv /\ [Next]_vars => TypeOK'
<1> SUFFICES ASSUME AcceptInv, [Next]_vars PROVE TypeOK'
  OBVIOUS
<1> USE DEF AcceptInv, TypeOK, channelVars, counts
<1>1. CASE client_connects BY <1>1 DEF client_connects
<1>2. ASSUME NEW f \in Descriptors, connection_closed(f) PROVE TypeOK'
  BY <1>2 DEF connection_closed
<1>3. CASE start BY <1>3 DEF start
<1>4. CASE poll BY <1>4 DEF poll
<1>5. CASE hand_over
  <2>1. lowest(free) \in Descriptors /\ next_' \in Loops /\ backlog' \in Nat
    BY <1>5, LowestFree, NextLoop DEF hand_over, accepting, get_next_loop, free
  <2>2. assigned' \in [Loops -> Nat]
    BY <1>5 DEF hand_over
  <2> QED BY <1>5, <2>1, <2>2 DEF hand_over, after_accept
<1>6. CASE reject
  <2>1. next_' \in Loops /\ backlog' \in Nat
    BY <1>6, NextLoop DEF reject, accepting, get_next_loop
  <2> QED BY <1>6, <2>1 DEF reject, accepting
<1>7. CASE set_nonblocking_fails
  <2>1. lowest(free) \in Descriptors /\ next_' \in Loops /\ backlog' \in Nat
    BY <1>7, LowestFree, NextLoop DEF set_nonblocking_fails, accepting, get_next_loop, free
  <2> QED BY <1>7, <2>1 DEF set_nonblocking_fails
<1>8. CASE accept_fails BY <1>8 DEF accept_fails
<1>9. CASE handle_this_conn BY <1>9 DEF handle_this_conn
<1>10. CASE UNCHANGED vars BY <1>10 DEF vars
<1> QED BY <1>1, <1>2, <1>3, <1>4, <1>5, <1>6, <1>7, <1>8, <1>9, <1>10 DEF Next, MainStep

LEMMA EdgeStep == AcceptInv /\ [Next]_vars => EdgeInv'
<1> SUFFICES ASSUME AcceptInv, [Next]_vars PROVE EdgeInv'
  OBVIOUS
<1> USE DEF AcceptInv, EdgeInv, channelVars, counts
<1>0. backlog \in Nat /\ clients \in Nat /\ ready \in BOOLEAN /\ interest \in BOOLEAN
      /\ events_ \in BOOLEAN /\ last_events_ \in BOOLEAN
  BY DEF TypeOK
<1>1. CASE client_connects BY <1>0, <1>1 DEF client_connects
<1>2. ASSUME NEW f \in Descriptors, connection_closed(f) PROVE EdgeInv'
  BY <1>2 DEF connection_closed
<1>3. CASE start BY <1>3 DEF start
<1>4. CASE poll BY <1>4 DEF poll
<1>5. CASE hand_over BY <1>5 DEF hand_over, accepting, after_accept
<1>6. CASE reject BY <1>6 DEF reject, accepting
<1>7. CASE set_nonblocking_fails BY <1>7 DEF set_nonblocking_fails, accepting
<1>8. CASE accept_fails
  <2>1. backlog' \in Nat /\ backlog' <= backlog
    BY <1>0, <1>8 DEF accept_fails
  <2>2. CASE backlog > 0
    <3>1. accept_error' = TRUE
      BY <1>8, <2>2 DEF accept_fails
    <3> QED BY <1>0, <1>8, <3>1 DEF accept_fails
  <2>3. CASE ~(backlog > 0)
    <3>1. ~(backlog' > 0)
      BY <1>0, <2>1, <2>3
    <3> QED BY <1>0, <1>8, <3>1 DEF accept_fails
  <2> QED BY <2>2, <2>3
<1>9. CASE handle_this_conn BY <1>0, <1>9 DEF handle_this_conn
<1>10. CASE UNCHANGED vars BY <1>10 DEF vars
<1> QED BY <1>1, <1>2, <1>3, <1>4, <1>5, <1>6, <1>7, <1>8, <1>9, <1>10 DEF Next, MainStep

LEMMA CountStep == AcceptInv /\ [Next]_vars => CountInv'
<1> SUFFICES ASSUME AcceptInv, [Next]_vars PROVE CountInv'
  OBVIOUS
<1> USE DEF EveryClientAccounted, channelVars, counts
<1>0. /\ backlog \in Nat /\ clients \in Nat /\ rejected \in Nat /\ aborted \in Nat
      /\ assigned \in [Loops -> Nat] /\ next_ \in Loops
      /\ IsFiniteSet(turns(assigned)) /\ handed_over \in Nat
      /\ EveryClientAccounted /\ EdgeInv
  BY FS_CardinalityType DEF AcceptInv, TypeOK, CountInv, handed_over
<1>1. ASSUME UNCHANGED assigned PROVE IsFiniteSet(turns(assigned))' /\ handed_over' = handed_over
  BY <1>0, <1>1 DEF handed_over
<1> USE DEF CountInv, EdgeInv
<1>2. CASE client_connects BY <1>0, <1>1, <1>2 DEF client_connects
<1>3. ASSUME NEW f \in Descriptors, connection_closed(f) PROVE CountInv'
  BY <1>0, <1>1, <1>3 DEF connection_closed
<1>4. CASE start BY <1>0, <1>1, <1>4 DEF start
<1>5. CASE poll BY <1>0, <1>1, <1>5 DEF poll
<1>6. CASE hand_over
  <2>1. IsFiniteSet(turns(assigned))' /\ handed_over' = handed_over + 1
    BY <1>0, <1>6, OneMoreTurn DEF hand_over, handed_over
  <2> QED BY <1>0, <1>6, <2>1 DEF hand_over, accepting, after_accept
<1>7. CASE reject BY <1>0, <1>1, <1>7 DEF reject, accepting
<1>8. CASE set_nonblocking_fails BY <1>0, <1>1, <1>8 DEF set_nonblocking_fails, accepting
<1>9. CASE accept_fails BY <1>0, <1>1, <1>9 DEF accept_fails
<1>10. CASE handle_this_conn BY <1>0, <1>1, <1>10 DEF handle_this_conn
<1>11. CASE UNCHANGED vars BY <1>0, <1>1, <1>11 DEF vars
<1> QED BY <1>2, <1>3, <1>4, <1>5, <1>6, <1>7, <1>8, <1>9, <1>10, <1>11 DEF Next, MainStep

(* The turn of the loop at next_ is over: the loops before the next position
   have had one turn more than the others, or all have had as many. *)
LEMMA TurnTaken ==
  ASSUME TypeOK, get_next_loop, NEW taken \in [Loops -> Nat], NEW q \in Nat,
         \A l \in Loops : taken[l] = q + (IF l < next_ THEN 1 ELSE 0)
  PROVE  \E r \in Nat : \A l \in Loops :
           taken[l] + (IF l = next_ THEN 1 ELSE 0) = r + (IF l < next_' THEN 1 ELSE 0)
<1>1. ThreadNum \in Nat /\ ThreadNum > 0 /\ next_ \in 0 .. ThreadNum - 1 /\ Loops = 0 .. ThreadNum - 1
  BY ThreadNumAssumption DEF TypeOK, Loops
<1>2. CASE next_ + 1 < ThreadNum
  <2>1. next_' = next_ + 1
    BY <1>1, <1>2 DEF get_next_loop
  <2>2. \A l \in Loops : taken[l] + (IF l = next_ THEN 1 ELSE 0) = q + (IF l < next_' THEN 1 ELSE 0)
    BY <1>1, <2>1
  <2> QED BY <2>2
<1>3. CASE next_ + 1 = ThreadNum
  <2>1. next_' = 0
    BY <1>1, <1>3 DEF get_next_loop
  <2>2. \A l \in Loops : taken[l] + (IF l = next_ THEN 1 ELSE 0) = q + 1 + (IF l < next_' THEN 1 ELSE 0)
    BY <1>1, <1>3, <2>1
  <2>3. q + 1 \in Nat
    OBVIOUS
  <2> QED BY <2>2, <2>3
<1> QED BY <1>1, <1>2, <1>3

(* The turn goes to a connection, or to one that no loop gets. *)
LEMMA RoundStep == AcceptInv /\ [Next]_vars => RoundInv'
<1> SUFFICES ASSUME AcceptInv, [Next]_vars PROVE RoundInv'
  OBVIOUS
<1>0. /\ backlog \in Nat /\ clients \in Nat /\ aborted \in Nat /\ TypeOK
      /\ assigned \in [Loops -> Nat] /\ next_ \in Loops
      /\ IsFiniteSet(turns(assigned)) /\ handed_over \in Nat
  BY FS_CardinalityType DEF AcceptInv, TypeOK, CountInv, handed_over
<1>1. PICK skipped \in [Loops -> Nat], q \in Nat : Rounds(skipped, q)
  BY DEF AcceptInv, RoundInv
<1> DEFINE taken == [l \in Loops |-> assigned[l] + skipped[l]]
<1>2. taken \in [Loops -> Nat] /\ \A l \in Loops : taken[l] = q + (IF l < next_ THEN 1 ELSE 0)
  BY <1>0, <1>1 DEF Rounds
<1>3. /\ IsFiniteSet(turns(skipped)) /\ Cardinality(turns(skipped)) \in Nat
      /\ clients = backlog + handed_over + Cardinality(turns(skipped)) + aborted
  BY <1>1, FS_CardinalityType DEF Rounds
<1>4. ASSUME get_next_loop
      PROVE  \E r \in Nat : \A l \in Loops :
               taken[l] + (IF l = next_ THEN 1 ELSE 0) = r + (IF l < next_' THEN 1 ELSE 0)
  <2> HIDE DEF taken
  <2> QED BY <1>0, <1>2, <1>4, TurnTaken
<1>5. CASE hand_over
  <2>1. PICK r \in Nat : \A l \in Loops :
          taken[l] + (IF l = next_ THEN 1 ELSE 0) = r + (IF l < next_' THEN 1 ELSE 0)
    BY <1>4, <1>5 DEF hand_over
  <2>2. handed_over' = handed_over + 1
    BY <1>0, <1>5, OneMoreTurn DEF hand_over, handed_over
  <2>3. \A l \in Loops : assigned'[l] = assigned[l] + (IF l = next_ THEN 1 ELSE 0)
    BY <1>0, <1>5 DEF hand_over
  <2>4. \A l \in Loops : assigned'[l] + skipped[l] = r + (IF l < next_' THEN 1 ELSE 0)
    BY <1>0, <2>1, <2>3
  <2>5. clients' = backlog' + handed_over' + Cardinality(turns(skipped)) + aborted'
    BY <1>0, <1>3, <1>5, <2>2 DEF hand_over, accepting, counts
  <2>6. Rounds(skipped, r)'
    BY <1>3, <2>4, <2>5 DEF Rounds
  <2> QED BY <2>6 DEF RoundInv
<1>6. ASSUME accepting, get_next_loop, backlog' = backlog - 1, UNCHANGED <<assigned, clients, aborted>>
      PROVE  RoundInv'
  <2>1. PICK r \in Nat : \A l \in Loops :
          taken[l] + (IF l = next_ THEN 1 ELSE 0) = r + (IF l < next_' THEN 1 ELSE 0)
    BY <1>4, <1>6
  <2>2. PICK more \in [Loops -> Nat] : more = [skipped EXCEPT ![next_] = @ + 1]
    <3>1. [skipped EXCEPT ![next_] = @ + 1] \in [Loops -> Nat]
      BY <1>0, <1>3, OneMoreTurn
    <3> QED BY <3>1
  <2>3. /\ IsFiniteSet(turns(more)) /\ Cardinality(turns(more)) = Cardinality(turns(skipped)) + 1
        /\ \A l \in Loops : more[l] = skipped[l] + (IF l = next_ THEN 1 ELSE 0)
    <3>1. IsFiniteSet(turns(more)) /\ Cardinality(turns(more)) = Cardinality(turns(skipped)) + 1
      BY <1>0, <1>3, <2>2, OneMoreTurn
    <3>2. \A l \in Loops : more[l] = skipped[l] + (IF l = next_ THEN 1 ELSE 0)
      <4>1. \A l \in Loops : skipped[l] \in Nat
        OBVIOUS
      <4> QED BY <1>0, <2>2, <4>1
    <3> QED BY <3>1, <3>2
  <2>4. \A l \in Loops : assigned[l] + more[l] = r + (IF l < next_' THEN 1 ELSE 0)
    BY <1>0, <2>1, <2>3
  <2>5. clients = backlog - 1 + handed_over + Cardinality(turns(more)) + aborted
    BY <1>0, <1>3, <2>3
  <2>6. Rounds(more, r)'
    BY <1>6, <2>3, <2>4, <2>5 DEF Rounds, handed_over
  <2> QED BY <2>6 DEF RoundInv
<1>7. CASE reject BY <1>6, <1>7 DEF reject
<1>8. CASE set_nonblocking_fails BY <1>6, <1>8 DEF set_nonblocking_fails, counts
<1>9. CASE client_connects
  <2>1. Rounds(skipped, q)'
    BY <1>0, <1>1, <1>3, <1>9 DEF Rounds, client_connects, handed_over, counts
  <2> QED BY <2>1 DEF RoundInv
<1>10. ASSUME UNCHANGED <<assigned, clients, backlog, next_, aborted>> PROVE RoundInv'
  <2>1. Rounds(skipped, q)'
    BY <1>1, <1>10 DEF Rounds, handed_over
  <2> QED BY <2>1 DEF RoundInv
<1>11. ASSUME NEW f \in Descriptors, connection_closed(f) PROVE RoundInv'
  BY <1>10, <1>11 DEF connection_closed, counts
<1>12. CASE start \/ poll \/ handle_this_conn \/ UNCHANGED vars
  BY <1>10, <1>12 DEF start, poll, handle_this_conn, counts, vars
<1>13. CASE accept_fails
  <2>1. PICK gone \in {0, 1} : backlog' = backlog - gone /\ aborted' = aborted + gone
    BY <1>13 DEF accept_fails
  <2>2. UNCHANGED <<assigned, clients, next_>>
    BY <1>13 DEF accept_fails
  <2>3. clients' = backlog' + handed_over' + Cardinality(turns(skipped)) + aborted'
    BY <1>0, <1>3, <2>1, <2>2 DEF handed_over
  <2>4. Rounds(skipped, q)'
    BY <1>1, <2>2, <2>3 DEF Rounds
  <2> QED BY <2>4 DEF RoundInv
<1> QED BY <1>5, <1>7, <1>8, <1>9, <1>11, <1>12, <1>13 DEF Next, MainStep

LEMMA AcceptStep == AcceptInv /\ [Next]_vars => AcceptInv'
BY AcceptTypeStep, EdgeStep, CountStep, RoundStep DEF AcceptInv

(* Two loops have had as many turns but for one, and a loop's turns without a
   connection are not more than the clients nobody got. *)
LEMMA TurnsAreEven == AcceptInv => RoundRobin
<1> SUFFICES ASSUME AcceptInv, NEW k \in Loops, NEW l \in Loops
             PROVE  assigned[k] <= assigned[l] + 1 + (clients - backlog - handed_over - aborted)
  BY DEF RoundRobin
<1>1. PICK skipped \in [Loops -> Nat], q \in Nat : Rounds(skipped, q)
  BY DEF AcceptInv, RoundInv
<1>2. assigned[k] + skipped[k] <= q + 1 /\ assigned[l] + skipped[l] >= q
  BY <1>1 DEF Rounds
<1>3. skipped[l] <= Cardinality(turns(skipped))
  BY <1>1, TurnsOfOne DEF Rounds
<1>4. /\ backlog \in Nat /\ clients \in Nat /\ aborted \in Nat /\ handed_over \in Nat /\ Cardinality(turns(skipped)) \in Nat
      /\ assigned[k] \in Nat /\ assigned[l] \in Nat /\ skipped[k] \in Nat /\ skipped[l] \in Nat
  BY <1>1, FS_CardinalityType DEF AcceptInv, TypeOK, CountInv, handed_over, Rounds
<1>5. clients = backlog + handed_over + Cardinality(turns(skipped)) + aborted
  BY <1>1 DEF Rounds
<1> QED BY <1>2, <1>3, <1>4, <1>5

LEMMA BacklogHasEdge == AcceptInv => NoStrandedBacklog
BY DEF AcceptInv, EdgeInv, NoStrandedBacklog
-----------------------------------------------------------------------------
(* The pool *)
LEMMA PoolInitial == Pool!Init => Pool!TypeOK /\ PoolInv
<1> SUFFICES ASSUME Pool!Init PROVE Pool!TypeOK /\ PoolInv
  OBVIOUS
<1>1. 1 \in Pool!Threads /\ ThreadNum \in Nat
  BY ThreadNumAssumption DEF Pool!Threads
<1>2. Pool!TypeOK
  BY <1>1 DEF Pool!Init, Pool!TypeOK, Pool!OwnerPc, Pool!ThreadPc
<1>3. PoolInv
  BY <1>1 DEF Pool!Init, PoolInv, Starting, Running
<1> QED BY <1>2, <1>3

PoolNext == Pool!OwnerStep \/ Pool!destroy_pool \/ \E t \in Pool!Threads : Pool!ThreadStep(t)

LEMMA PoolTypeStep == Pool!TypeOK /\ PoolInv /\ PoolNext => Pool!TypeOK'
<1> SUFFICES ASSUME Pool!TypeOK, PoolInv, PoolNext PROVE Pool!TypeOK'
  OBVIOUS
<1> USE DEF Pool!TypeOK, Pool!OwnerPc, Pool!ThreadPc, Pool!threadVars, Pool!ownerVars
<1>0. /\ 1 \in Pool!Threads
      /\ current < ThreadNum => current + 1 \in Pool!Threads
  BY ThreadNumAssumption DEF Pool!Threads
<1>1. CASE Pool!start BY <1>1 DEF Pool!start
<1>2. CASE Pool!latch_wait BY <1>2 DEF Pool!latch_wait
<1>3. CASE Pool!start_loop_returns BY <1>0, <1>3 DEF Pool!start_loop_returns
<1>4. CASE Pool!destroy BY <1>4 DEF Pool!destroy
<1>5. CASE Pool!quit BY <1>5 DEF Pool!quit
<1>6. CASE Pool!wakeup BY <1>6 DEF Pool!wakeup
<1>7. CASE Pool!join BY <1>0, <1>7 DEF Pool!join, Pool!next_thread
<1>8. CASE Pool!destroy_pool BY <1>0, <1>8 DEF Pool!destroy_pool
<1>9. ASSUME NEW t \in Pool!Threads, Pool!ThreadStep(t) PROVE Pool!TypeOK'
  BY <1>9 DEF Pool!ThreadStep, Pool!count_down, Pool!call_thread_func, Pool!construct_loop,
     Pool!publish, Pool!enter_loop, Pool!leave_loop, Pool!clear_pointer, Pool!destroy_loop, Pool!at
<1> QED BY <1>1, <1>2, <1>3, <1>4, <1>5, <1>6, <1>7, <1>8, <1>9 DEF PoolNext, Pool!OwnerStep

LEMMA PoolStep == Pool!TypeOK /\ PoolInv /\ PoolNext => PoolInv'
<1> SUFFICES ASSUME Pool!TypeOK, PoolInv, PoolNext PROVE PoolInv'
  OBVIOUS
<1> USE DEF Pool!TypeOK, Pool!OwnerPc, Pool!ThreadPc, Pool!threadVars, Pool!ownerVars, PoolInv, Starting, Running
<1>0. ThreadNum \in Nat /\ Pool!Threads = 1 .. ThreadNum /\ Len(m_loops) \in Nat
      /\ DOMAIN m_loops = 1 .. Len(m_loops)
  BY ThreadNumAssumption DEF Pool!Threads
<1>1. CASE Pool!start BY <1>0, <1>1 DEF Pool!start
<1>2. CASE Pool!latch_wait BY <1>0, <1>2 DEF Pool!latch_wait
<1>3. CASE Pool!start_loop_returns
  <2>1. loop_[current] /\ m_loops' = Append(m_loops, current) /\ Len(m_loops) = current - 1
    BY <1>3 DEF Pool!start_loop_returns, Pool!published
  <2>2. /\ Len(m_loops') = current /\ DOMAIN m_loops' = 1 .. current
        /\ \A i \in 1 .. current : m_loops'[i] = i
    <3>1. /\ Len(m_loops') = Len(m_loops) + 1 /\ m_loops'[Len(m_loops) + 1] = current
          /\ DOMAIN m_loops' = 1 .. Len(m_loops) + 1
          /\ \A i \in 1 .. Len(m_loops) : m_loops'[i] = m_loops[i]
      BY <1>0, <2>1
    <3>2. Len(m_loops) + 1 = current
      BY <1>0, <2>1 DEF Pool!Threads
    <3>3. \A i \in 1 .. Len(m_loops) : m_loops[i] = i
      BY <1>0
    <3>4. \A n \in Nat : \A i \in 1 .. n + 1 : i \in 1 .. n \/ i = n + 1
      OBVIOUS
    <3> QED BY <1>0, <3>1, <3>2, <3>3, <3>4
  <2>3. \A t \in Pool!Threads : t <= Len(m_loops') => loop_[t]
    BY <1>0, <1>3, <2>1, <2>2 DEF Pool!start_loop_returns
  <2> QED BY <1>0, <1>3, <2>2, <2>3 DEF Pool!start_loop_returns
<1>4. CASE Pool!destroy BY <1>4 DEF Pool!destroy
<1>5. CASE Pool!quit BY <1>5 DEF Pool!quit
<1>6. CASE Pool!wakeup BY <1>6 DEF Pool!wakeup
<1>7. CASE Pool!join BY <1>7 DEF Pool!join, Pool!next_thread
<1>8. CASE Pool!destroy_pool BY <1>8 DEF Pool!destroy_pool
<1>9. ASSUME NEW t \in Pool!Threads, Pool!ThreadStep(t) PROVE PoolInv'
  BY <1>9 DEF Pool!ThreadStep, Pool!count_down, Pool!call_thread_func, Pool!construct_loop,
     Pool!publish, Pool!enter_loop, Pool!leave_loop, Pool!clear_pointer, Pool!destroy_loop, Pool!at
<1> QED BY <1>1, <1>2, <1>3, <1>4, <1>5, <1>6, <1>7, <1>8, <1>9 DEF PoolNext, Pool!OwnerStep
-----------------------------------------------------------------------------
(* The server *)
LEMMA ServerInitial == ServerInit => IInv
BY AcceptInit, PoolInitial DEF ServerInit, IInv, ServerTypeOK, AcceptInv

(* A step is the main reactor's or the pool's. *)
LEMMA ServerStep ==
  ASSUME [ServerNext]_serverVars
  PROVE  \/ Next /\ UNCHANGED poolVars
         \/ PoolNext /\ UNCHANGED vars
         \/ UNCHANGED serverVars
<1>1. ASSUME NEW t \in Pool!Threads, io_thread(t) PROVE PoolNext /\ UNCHANGED vars
  BY <1>1 DEF io_thread, PoolNext
<1> QED BY <1>1 DEF ServerNext, serve, start_and_join_threads, destroy_server, others, Next, PoolNext

LEMMA ServerInductive == IInv /\ [ServerNext]_serverVars => IInv'
<1> SUFFICES ASSUME IInv, [ServerNext]_serverVars PROVE IInv'
  OBVIOUS
<1> USE DEF IInv, ServerTypeOK
<1>1. ASSUME UNCHANGED poolVars PROVE Pool!TypeOK' /\ PoolInv'
  BY <1>1 DEF poolVars, Pool!TypeOK, PoolInv, Starting, Running
<1>2. ASSUME [Next]_vars PROVE TypeOK' /\ AcceptInv'
  BY <1>2, AcceptStep DEF AcceptInv
<1>3. CASE Next /\ UNCHANGED poolVars
  BY <1>1, <1>2, <1>3
<1>4. CASE PoolNext /\ UNCHANGED vars
  BY <1>2, <1>4, PoolTypeStep, PoolStep
<1>5. CASE UNCHANGED serverVars
  BY <1>1, <1>2, <1>5 DEF serverVars
<1> QED BY <1>3, <1>4, <1>5, ServerStep

(* m_pool->get_next_loop() finds a loop that was handed out and not told to
   quit, since the pool is not destroyed while main_loop runs. *)
LEMMA HandsToLiving ==
  ASSUME IInv, serve, NEW l \in Loops, assigned'[l] # assigned[l]
  PROVE  l + 1 \in DOMAIN m_loops /\ loop_exists[m_loops[l + 1]] /\ ~quited_[m_loops[l + 1]]
<1>1. owner = "serve" /\ Len(m_loops) = ThreadNum
  BY DEF serve, pool_started, IInv, PoolInv
<1>2. m_loops \in Seq(Pool!Threads) /\ ThreadNum \in Nat
  BY ThreadNumAssumption DEF IInv, ServerTypeOK, Pool!TypeOK
<1>3. l + 1 \in Pool!Threads /\ l + 1 \in DOMAIN m_loops
  BY <1>1, <1>2 DEF Loops, Pool!Threads
<1>4. m_loops[l + 1] = l + 1
  BY <1>3 DEF IInv, PoolInv
<1>5. loop_exists[l + 1] /\ ~quited_[l + 1]
  BY <1>1, <1>2, <1>3 DEF IInv, PoolInv, Running, Pool!Threads
<1> QED BY <1>3, <1>4, <1>5

LEMMA LoopsAreThere == IInv => LoopsExist
<1> SUFFICES ASSUME IInv, owner \notin {"destroy", "quit", "wakeup", "join", "done"},
                    NEW i \in DOMAIN m_loops
             PROVE  loop_[m_loops[i]] /\ loop_exists[m_loops[i]]
  BY DEF LoopsExist, Pool!LoopsExist
<1>1. Running
  BY DEF IInv, ServerTypeOK, Pool!TypeOK, Pool!OwnerPc, Running, Starting
<1>2. m_loops[i] = i /\ i \in Pool!Threads /\ i <= Len(m_loops)
  BY ElementOfSeq DEF IInv, ServerTypeOK, Pool!TypeOK, PoolInv
<1> QED BY <1>1, <1>2 DEF IInv, PoolInv
-----------------------------------------------------------------------------
(* The variables of the main thread and of the pool keep their types, for any
   number of threads and any limits. *)
THEOREM TypeCorrect == ServerSpec => []ServerTypeOK
<1>1. IInv => ServerTypeOK
  BY DEF IInv
<1> QED BY <1>1, ServerInitial, ServerInductive, PTL DEF ServerSpec

(* start_loop hands over no pointer before the loop exists, and no thread leaves
   its loop before the pool is destroyed (event_loop_thread.cpp:21-40). *)
THEOREM LoopsExistAlways == ServerSpec => []LoopsExist
BY LoopsAreThere, ServerInitial, ServerInductive, PTL DEF ServerSpec

(* While descriptors last, nobody who waits is forgotten by the edge trigger
   (server.cpp:38-75). *)
THEOREM NobodyStranded == ServerSpec => []NoStrandedBacklog
<1>1. IInv => NoStrandedBacklog
  BY BacklogHasEdge DEF IInv
<1> QED BY <1>1, ServerInitial, ServerInductive, PTL DEF ServerSpec

(* Nobody is dropped between the kernel's queue and a loop: every client that
   connected waits, was handed to exactly one loop, was rejected, or is the one
   whose failure took the listener down (server.cpp:38-75). *)
THEOREM NobodyIsDropped == ServerSpec => []EveryClientAccounted
<1>1. IInv => EveryClientAccounted
  BY DEF IInv, AcceptInv, CountInv
<1> QED BY <1>1, ServerInitial, ServerInductive, PTL DEF ServerSpec

(* The loops take turns, and a turn is lost only with a connection nobody got
   (event_loop_thread_pool.cpp:45-56, server.cpp:46). *)
THEOREM LoopsTakeTurns == ServerSpec => []RoundRobin
<1>1. IInv => RoundRobin
  BY TurnsAreEven DEF IInv
<1> QED BY <1>1, ServerInitial, ServerInductive, PTL DEF ServerSpec

(* queue_in_loop is only called on a loop that lives and was not told to quit
   (server.cpp:46, event_loop_thread_pool.cpp:45-56). *)
THEOREM ConnectionsGoToLivingLoops == ServerSpec => GivenToLivingLoop
<1>1. IInv /\ [ServerNext]_serverVars =>
        [\A l \in Loops :
           assigned'[l] # assigned[l] =>
             /\ l + 1 \in DOMAIN m_loops
             /\ loop_exists[m_loops[l + 1]] /\ ~quited_[m_loops[l + 1]]]_serverVars
  <2> SUFFICES ASSUME IInv, ServerNext, NEW l \in Loops, assigned'[l] # assigned[l]
               PROVE  /\ l + 1 \in DOMAIN m_loops
                      /\ loop_exists[m_loops[l + 1]] /\ ~quited_[m_loops[l + 1]]
    OBVIOUS
  <2>1. CASE serve BY <2>1, HandsToLiving
  <2>2. assigned' = assigned \/ serve
    BY DEF ServerNext, start_and_join_threads, destroy_server, io_thread, others,
       client_connects, connection_closed, vars
  <2> QED BY <2>1, <2>2
<1> QED BY <1>1, ServerInitial, ServerInductive, PTL DEF ServerSpec, GivenToLivingLoop
=============================================================================
