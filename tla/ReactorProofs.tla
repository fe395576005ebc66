---------------------------- MODULE ReactorProofs ----------------------------
(***************************************************************************)
(* One IO loop, for any sets of connections and descriptors.  First the    *)
(* lifetime of connections: callbacks reach living objects only, one timer *)
(* node lives per connection, a table entry goes with its owner, and all   *)
(* handlers together implement Descriptors.  Then what connections wait    *)
(* for: whoever sleeps will be woken, by epoll or by its timer.            *)
(***************************************************************************)
EXTENDS Reactor, Induction, SequenceTheorems, TLAPS

queued(c) == c \in Range(m_pending_functors) \cup Range(functors)

(* A connection is queued once, and then the functor is its only owner. *)
QueueInv ==
  /\ IsInjective(m_pending_functors) /\ IsInjective(functors)
  /\ Range(m_pending_functors) \cap Range(functors) = {}
  /\ functors # <<>> => pc = "functors"
  /\ \A c \in Conns : queued(c) =>
       fd[c] # None /\ nodes[c] = {} /\ \A f \in Fds : fd_http_[f] # c

(* Channel and connection of a table entry belong together, and no two living
   connections share a descriptor. *)
TableInv ==
  /\ \A f \in Fds : fd_channel_[f] # None => fd_http_[f] = fd_channel_[f]
  /\ \A f \in Fds : fd_http_[f] # None => fd[fd_http_[f]] = f
  /\ \A c \in Conns : nodes[c] # {} => fd[c] # None
  /\ \A c, d \in Conns : alive(c) /\ alive(d) /\ fd[c] = fd[d] => c = d

in_table(c) == fd[c] # None /\ fd_channel_[fd[c]] = c

(* A channel that is handled or waits for it is in the table. *)
ControlInv ==
  /\ \A c \in batch : in_table(c)
  /\ cur # None => in_table(cur)
  /\ cur \notin batch
  /\ batch # {} => pc \in {"handle", "read", "write", "conn"}
  /\ cur # None <=> pc \in {"read", "write", "conn"}

IInv == TypeOK /\ OneLiveTimer /\ QueueInv /\ TableInv /\ ControlInv
-----------------------------------------------------------------------------
(* Appending to a queue without x keeps it free of repetitions. *)
LEMMA AppendRange ==
  ASSUME NEW S, NEW s \in Seq(S), NEW x \in S
  PROVE  /\ Range(Append(s, x)) = Range(s) \cup {x}
         /\ IsInjective(s) /\ x \notin Range(s) => IsInjective(Append(s, x))
<1>1. /\ Append(s, x) \in Seq(S) /\ Len(Append(s, x)) = Len(s) + 1
      /\ \A i \in 1 .. Len(s) : Append(s, x)[i] = s[i]
      /\ Append(s, x)[Len(s) + 1] = x
  OBVIOUS
<1>2. DOMAIN s = 1 .. Len(s) /\ DOMAIN Append(s, x) = 1 .. Len(s) + 1 /\ Len(s) \in Nat
  BY <1>1
<1>3. 1 .. Len(s) + 1 = (1 .. Len(s)) \cup {Len(s) + 1}
  BY <1>2
<1>4. Range(Append(s, x)) = Range(s) \cup {x}
  BY <1>1, <1>2, <1>3 DEF Range
<1>5. ASSUME IsInjective(s), x \notin Range(s) PROVE IsInjective(Append(s, x))
  BY <1>1, <1>2, <1>3, <1>5 DEF IsInjective, Range
<1> QED BY <1>4, <1>5

(* The head of a queue without repetitions is not in its tail. *)
LEMMA TailRange ==
  ASSUME NEW S, NEW s \in Seq(S), s # <<>>
  PROVE  /\ Head(s) \in S /\ Tail(s) \in Seq(S)
         /\ Range(s) = {Head(s)} \cup Range(Tail(s))
         /\ IsInjective(s) => IsInjective(Tail(s)) /\ Head(s) \notin Range(Tail(s))
<1>1. /\ Len(s) \in Nat \ {0} /\ Head(s) = s[1] /\ Head(s) \in S
      /\ Tail(s) \in Seq(S) /\ Len(Tail(s)) = Len(s) - 1
      /\ \A i \in 1 .. Len(s) - 1 : Tail(s)[i] = s[i + 1]
  OBVIOUS
<1>2. DOMAIN s = 1 .. Len(s) /\ DOMAIN Tail(s) = 1 .. Len(s) - 1
  BY <1>1
<1>3. \A i \in 2 .. Len(s) : i - 1 \in 1 .. Len(s) - 1 /\ (i - 1) + 1 = i
  BY <1>1
<1>4. \A i \in 1 .. Len(s) : i = 1 \/ i \in 2 .. Len(s)
  BY <1>1
<1>5. Range(s) = {Head(s)} \cup Range(Tail(s))
  <2>1. Range(s) \subseteq {Head(s)} \cup Range(Tail(s))
    <3>1. \A i \in 2 .. Len(s) : s[i] = Tail(s)[i - 1]
      BY <1>1, <1>3
    <3>2. \A i \in 2 .. Len(s) : s[i] \in Range(Tail(s))
      BY <3>1, <1>2, <1>3 DEF Range
    <3> QED BY <3>2, <1>1, <1>2, <1>4 DEF Range
  <2>2. {Head(s)} \cup Range(Tail(s)) \subseteq Range(s)
    BY <1>1, <1>2 DEF Range
  <2> QED BY <2>1, <2>2
<1>6. ASSUME IsInjective(s) PROVE IsInjective(Tail(s)) /\ Head(s) \notin Range(Tail(s))
  BY <1>1, <1>2, <1>6 DEF IsInjective, Range
<1> QED BY <1>1, <1>5, <1>6

(* writen leaves well formed fields. *)
LEMMA WritesType ==
  ASSUME NEW h \in HttpData, NEW s \in Socket
  PROVE  writes(h, s) \subseteq HttpData \X BOOLEAN
<1> DEFINE broken == [h EXCEPT !.error = TRUE, !.events = {"OUT"}]
           blocked == [h EXCEPT !.events = @ \cup {"OUT"}]
           sent == [h EXCEPT !.out = FALSE]
<1>1. broken \in HttpData /\ blocked \in HttpData /\ sent \in HttpData
  BY DEF HttpData, Events
<1>2. s.writable \in BOOLEAN
  BY DEF Socket
<1> HIDE DEF broken, blocked, sent
<1>3. writes(h, s) \subseteq
        {<<h, s.writable>>, <<broken, s.writable>>, <<blocked, FALSE>>, <<sent, TRUE>>}
  BY DEF writes, broken, blocked, sent
<1>4. /\ <<h, s.writable>> \in HttpData \X BOOLEAN
      /\ <<broken, s.writable>> \in HttpData \X BOOLEAN
      /\ <<blocked, FALSE>> \in HttpData \X BOOLEAN
      /\ <<sent, TRUE>> \in HttpData \X BOOLEAN
  BY <1>1, <1>2
<1> QED BY <1>3, <1>4

(* The parser's verdicts are well formed fields. *)
LEMMA ParsesType ==
  ASSUME NEW h \in HttpData, NEW s \in Socket
  PROVE  parses(h, s) \subseteq HttpData \X BOOLEAN
<1> DEFINE seen == [h EXCEPT !.state = IF s.eof THEN "DISCONNECTING" ELSE @]
<1>1. seen \in HttpData
  BY DEF HttpData, Socket
<1>2. \A g \in HttpData : failed(g) \in HttpData /\ answered(g) \in HttpData /\ incomplete(g) \in HttpData
  BY DEF failed, answered, incomplete, HttpData, Events
<1>3. answered(seen) \in HttpData /\ incomplete(answered(seen)) \in HttpData
      /\ failed(h) \in HttpData /\ failed(seen) \in HttpData
  BY <1>1, <1>2
<1> HIDE DEF seen
<1>4. parses(h, s) \subseteq
        {<<h, FALSE>>, <<failed(h), FALSE>>, <<seen, FALSE>>, <<failed(seen), FALSE>>,
         <<answered(seen), TRUE>>, <<incomplete(answered(seen)), TRUE>>}
  BY DEF parses, seen
<1>5. /\ <<h, FALSE>> \in HttpData \X BOOLEAN
      /\ <<failed(h), FALSE>> \in HttpData \X BOOLEAN
      /\ <<seen, FALSE>> \in HttpData \X BOOLEAN
      /\ <<failed(seen), FALSE>> \in HttpData \X BOOLEAN
      /\ <<answered(seen), TRUE>> \in HttpData \X BOOLEAN
      /\ <<incomplete(answered(seen)), TRUE>> \in HttpData \X BOOLEAN
  BY <1>1, <1>3
<1> QED BY <1>4, <1>5
-----------------------------------------------------------------------------
(* The fields that handlers write keep their types. *)
LEMMA FieldTypes ==
  ASSUME NEW h \in HttpData
  PROVE  /\ incomplete(h) \in HttpData
         /\ \A e \in SUBSET Events : /\ [h EXCEPT !.events = e] \in HttpData
                                     /\ [h EXCEPT !.events = e, !.last = e] \in HttpData
         /\ [h EXCEPT !.state = "DISCONNECTED"] \in HttpData
         /\ rearm_events(h.events) \in SUBSET Events
BY DEF incomplete, rearm_events, HttpData, Events

(* So do the timer nodes. *)
LEMMA NodeTypes ==
  ASSUME NEW ns \in SUBSET TimerNode
  PROVE  linked_to_new(ns) \in SUBSET TimerNode /\ unlinked(ns) \in SUBSET TimerNode
<1>1. \A n \in TimerNode : [n EXCEPT !.linked = FALSE] \in TimerNode
  BY DEF TimerNode
<1>2. [linked |-> TRUE, expired |-> FALSE] \in TimerNode
  BY DEF TimerNode
<1> QED BY <1>1, <1>2 DEF linked_to_new, unlinked

(* What peers do to a socket leaves a socket. *)
LEMMA SocketTypes ==
  ASSUME NEW s \in Socket
  PROVE  /\ [s EXCEPT !.in = TRUE, !.sent = @ + 1] \in Socket
         /\ [s EXCEPT !.eof = TRUE] \in Socket
         /\ [s EXCEPT !.rst = TRUE] \in Socket
         /\ [s EXCEPT !.writable = TRUE] \in Socket
<1>1. s.sent + 1 \in Nat
  BY DEF Socket
<1>2. [s EXCEPT !.in = TRUE, !.sent = @ + 1] \in Socket
  BY <1>1 DEF Socket
<1>3. [s EXCEPT !.eof = TRUE] \in Socket
  BY DEF Socket
<1>4. [s EXCEPT !.rst = TRUE] \in Socket
  BY DEF Socket
<1>5. [s EXCEPT !.writable = TRUE] \in Socket
  BY DEF Socket
<1> QED BY <1>2, <1>3, <1>4, <1>5

(* Registering, modifying and deleting keep the kernel's types. *)
LEMMA KernelTypes ==
  ASSUME TypeOK, NEW c \in Conns, NEW e \in SUBSET Events, epoll_ctl(c, e) \/ uepoll_del(c)
  PROVE  interest' \in [Conns -> SUBSET Events] /\ ready' \subseteq Conns
BY DEF TypeOK, epoll_ctl, uepoll_del

(* Every step keeps the types. *)
LEMMA TypeStep == TypeOK /\ ControlInv /\ [Next]_vars => TypeOK'
<1> SUFFICES ASSUME TypeOK, ControlInv, [Next]_vars PROVE TypeOK'
  OBVIOUS
<1> USE DEF TypeOK, loopVars, tableVars, kernelVars
<1>0. \A c \in Conns : http[c] \in HttpData /\ sock[c] \in Socket /\ nodes[c] \subseteq TimerNode
  OBVIOUS
<1>1. ASSUME NEW c \in Conns, NEW f \in Fds, handle_new_conn(c, f) PROVE TypeOK'
  BY <1>1 DEF handle_new_conn
<1>2. ASSUME NEW c \in Conns,
             peer_sends(c) \/ peer_shuts_down(c) \/ peer_resets(c) \/ peer_drains(c)
      PROVE  TypeOK'
  <2>1. \A e \in SUBSET {"IN", "OUT", "ERR"} : edge(c, e) \subseteq Conns
    BY DEF edge
  <2>2. /\ [sock[c] EXCEPT !.in = TRUE, !.sent = @ + 1] \in Socket
        /\ [sock[c] EXCEPT !.eof = TRUE] \in Socket
        /\ [sock[c] EXCEPT !.rst = TRUE] \in Socket
        /\ [sock[c] EXCEPT !.writable = TRUE] \in Socket
    BY <1>0, SocketTypes
  <2>3. sock' \in [Conns -> Socket] /\ ready' \subseteq Conns
    BY <1>2, <2>1, <2>2 DEF peer_sends, peer_shuts_down, peer_resets, peer_drains
  <2> QED BY <1>2, <2>3 DEF peer_sends, peer_shuts_down, peer_resets, peer_drains
<1>3. ASSUME NEW c \in Conns, time_passes(c) PROVE TypeOK'
  <2>1. \A n \in nodes[c] : [n EXCEPT !.expired = TRUE] \in TimerNode
    BY <1>0, ZenonT(40) DEF TimerNode
  <2> QED BY <1>3, <2>1, <1>0 DEF time_passes
<1>4. CASE poll
  <2>1. revents' \in [Conns -> SUBSET {"IN", "OUT", "ERR"}]
    <3>1. \A c \in Conns : reported(sock[c], interest[c]) \subseteq {"IN", "OUT", "ERR"}
      BY DEF reported, status
    <3> QED BY <1>4, <3>1 DEF poll
  <2>2. batch' \subseteq Conns
    BY <1>4 DEF poll, alive
  <2>3. interest' \in [Conns -> SUBSET Events]
    BY <1>4 DEF poll
  <2> QED BY <1>4, <2>1, <2>2, <2>3 DEF poll, LoopPc
<1>5. CASE handle_read
  <2>1. cur \in Conns
    BY <1>5 DEF handle_read, ControlInv
  <2>2. PICK p \in parses(http[cur], sock[cur]) : \E w \in writes(p[1], sock[cur]) :
          LET finished == p[2] /\ ~w[1].error
              h == IF ~finished /\ ~w[1].error THEN incomplete(w[1]) ELSE w[1]
          IN  /\ http' = [http EXCEPT ![cur] = h]
              /\ sock' = [sock EXCEPT ![cur].in = FALSE, ![cur].writable = w[2]]
              /\ IF finished THEN seperate_timer(cur) ELSE UNCHANGED nodes
    BY <1>5 DEF handle_read, leaves_unread
  <2>3. PICK w \in writes(p[1], sock[cur]) :
          LET finished == p[2] /\ ~w[1].error
              h == IF ~finished /\ ~w[1].error THEN incomplete(w[1]) ELSE w[1]
          IN  /\ http' = [http EXCEPT ![cur] = h]
              /\ sock' = [sock EXCEPT ![cur].in = FALSE, ![cur].writable = w[2]]
              /\ IF finished THEN seperate_timer(cur) ELSE UNCHANGED nodes
    BY <2>2
  <2>4. p \in HttpData \X BOOLEAN
    BY <1>0, <2>1, ParsesType
  <2>5. w \in HttpData \X BOOLEAN
    <3>1. p[1] \in HttpData
      BY <2>4
    <3> QED BY <1>0, <2>1, <3>1, WritesType
  <2>6. w[1] \in HttpData /\ incomplete(w[1]) \in HttpData /\ w[2] \in BOOLEAN
    BY <2>5, FieldTypes
  <2>7. [sock[cur] EXCEPT !.in = FALSE, !.writable = w[2]] \in Socket
    BY <1>0, <2>1, <2>6 DEF Socket
  <2>8. http' \in [Conns -> HttpData]
    BY <2>1, <2>3, <2>6
  <2>9. sock' \in [Conns -> Socket]
    BY <2>1, <2>3, <2>7
  <2>10. nodes' \in [Conns -> SUBSET TimerNode]
    <3>1. unlinked(nodes[cur]) \in SUBSET TimerNode
      BY <1>0, <2>1, NodeTypes
    <3> QED BY <2>1, <2>3, <3>1 DEF seperate_timer
  <2> QED BY <1>5, <2>8, <2>9, <2>10 DEF handle_read, LoopPc
<1>6. CASE handle_write
  <2>1. cur \in Conns
    BY <1>6 DEF handle_write, ControlInv
  <2>2. PICK w \in writes(http[cur], sock[cur]) :
          /\ http' = [http EXCEPT ![cur] = w[1]]
          /\ sock' = [sock EXCEPT ![cur].writable = w[2]]
    BY <1>6 DEF handle_write
  <2>3. w \in HttpData \X BOOLEAN
    BY <1>0, <2>1, WritesType
  <2>4. w[1] \in HttpData /\ w[2] \in BOOLEAN
    BY <2>3
  <2>5. [sock[cur] EXCEPT !.writable = w[2]] \in Socket
    BY <1>0, <2>1, <2>4 DEF Socket
  <2>6. http' \in [Conns -> HttpData] /\ sock' \in [Conns -> Socket]
    BY <2>1, <2>2, <2>4, <2>5
  <2> QED BY <1>6, <2>6 DEF handle_write, LoopPc
<1>7. CASE handle_conn
  <2>1. cur \in Conns
    BY <1>7 DEF handle_conn, ControlInv
  <2>2. nodes' \in [Conns -> SUBSET TimerNode]
    <3>1. /\ linked_to_new(unlinked(nodes[cur])) \in SUBSET TimerNode
          /\ unlinked(nodes[cur]) \in SUBSET TimerNode
      BY <1>0, <2>1, NodeTypes
    <3> QED BY <1>7, <2>1, <3>1 DEF handle_conn, rearm_timer, seperate_timer
  <2>3. /\ \A e \in SUBSET Events : /\ [http[cur] EXCEPT !.events = e] \in HttpData
                                    /\ [http[cur] EXCEPT !.events = e, !.last = e] \in HttpData
        /\ [http[cur] EXCEPT !.state = "DISCONNECTED"] \in HttpData
        /\ rearm_events(http[cur].events) \in SUBSET Events
        /\ {"OUT"} \in SUBSET Events
    BY <1>0, <2>1, FieldTypes DEF Events
  <2>4. ASSUME NEW e \in SUBSET Events, uepoll_mod(cur, http[cur], e), UNCHANGED tableVars
        PROVE  TypeOK'
    <3>1. http' \in [Conns -> HttpData]
      BY <2>1, <2>3, <2>4 DEF uepoll_mod
    <3>2. interest' \in [Conns -> SUBSET Events] /\ ready' \subseteq Conns
      <4>1. CASE e # http[cur].last
        BY <2>1, <2>4, <4>1, KernelTypes DEF uepoll_mod
      <4>2. CASE e = http[cur].last
        BY <2>4, <4>2 DEF uepoll_mod
      <4> QED BY <4>1, <4>2
    <3> QED BY <1>7, <2>2, <2>4, <3>1, <3>2 DEF handle_conn, LoopPc
  <2>5. ASSUME http' = [http EXCEPT ![cur].events = {"OUT"}],
               UNCHANGED <<interest, ready, tableVars>>
        PROVE  TypeOK'
    <3>1. http' \in [Conns -> HttpData]
      BY <2>1, <2>3, <2>5
    <3> QED BY <1>7, <2>2, <2>5, <3>1 DEF handle_conn, LoopPc
  <2>6. ASSUME handle_close(cur) PROVE TypeOK'
    <3>1. http' \in [Conns -> HttpData]
      BY <2>1, <2>3, <2>6 DEF handle_close
    <3>2. interest' \in [Conns -> SUBSET Events] /\ ready' \subseteq Conns
      BY <2>1, <2>6, KernelTypes DEF handle_close
    <3>3. fd_channel_' \in [Fds -> Conns \cup {None}] /\ fd_http_' \in [Fds -> Conns \cup {None}]
      BY <2>6 DEF handle_close, uepoll_del
    <3> QED BY <1>7, <2>2, <3>1, <3>2, <3>3 DEF handle_conn, LoopPc
  <2> QED BY <1>7, <2>3, <2>4, <2>5, <2>6 DEF handle_conn
<1>8. CASE doPendingFunctors
  BY <1>8 DEF doPendingFunctors, LoopPc
<1>9. CASE call_functor
  <2> DEFINE c == Head(functors)
  <2>1. c \in Conns /\ Tail(functors) \in Seq(Conns)
    BY <1>9 DEF call_functor
  <2>2. PICK added \in BOOLEAN : new_event(c, added)
    BY <1>9 DEF call_functor
  <2> HIDE DEF c
  <2>3. nodes' \in [Conns -> SUBSET TimerNode]
    BY <1>0, <2>1, <2>2, NodeTypes DEF new_event, add_timer
  <2>4. [http[c] EXCEPT !.events = {"IN", "ONESHOT"}, !.last = {"IN", "ONESHOT"}] \in HttpData
    BY <1>0, <2>1, FieldTypes DEF Events
  <2>5. http' \in [Conns -> HttpData]
    BY <2>1, <2>2, <2>4 DEF new_event
  <2>6. interest' \in [Conns -> SUBSET Events] /\ ready' \subseteq Conns
    <3>1. CASE added
      BY <2>1, <2>2, <3>1, KernelTypes DEF new_event, Events
    <3>2. CASE ~added
      BY <2>2, <3>2 DEF new_event
    <3> QED BY <3>1, <3>2
  <2>7. fd_channel_' \in [Fds -> Conns \cup {None}] /\ fd_http_' \in [Fds -> Conns \cup {None}]
    BY <2>1, <2>2 DEF new_event
  <2> QED BY <1>9, <2>1, <2>3, <2>5, <2>6, <2>7 DEF call_functor
<1>10. CASE functors_done
  BY <1>10 DEF functors_done, LoopPc
<1>11. CASE expired_done
  BY <1>11 DEF expired_done, LoopPc
<1>12. ASSUME NEW c \in Conns, handle_events(c) PROVE TypeOK'
  <2>1. [http[c] EXCEPT !.events = {}] \in HttpData
    BY <1>0 DEF HttpData
  <2> QED BY <1>12, <2>1 DEF handle_events, LoopPc
<1>13. ASSUME NEW c \in Conns, handle_expired(c) PROVE TypeOK'
  <2>1. [http[c] EXCEPT !.state = "DISCONNECTED"] \in HttpData
    BY <1>0 DEF HttpData
  <2> QED BY <1>13, <2>1, <1>0 DEF handle_expired, handle_close, uepoll_del
<1>14. CASE UNCHANGED vars
  BY <1>14 DEF vars
<1> QED BY <1>1, <1>2, <1>3, <1>4, <1>5, <1>6, <1>7, <1>8, <1>9, <1>10, <1>11, <1>12,
           <1>13, <1>14 DEF Next, LoopStep, Environment
-----------------------------------------------------------------------------
(* Connections in the table or with a timer are alive; those in the table or
   just accepted are not in the queue. *)
LEMMA Living ==
  ASSUME IInv
  PROVE  /\ \A f \in Fds : fd_http_[f] # None => alive(fd_http_[f])
         /\ \A c \in Conns : in_table(c) => alive(c) /\ ~queued(c) /\ fd_http_[fd[c]] = c
         /\ \A c \in Conns : nodes[c] # {} => alive(c) /\ ~queued(c)
         /\ \A c \in Conns : queued(c) => alive(c)
<1> USE DEF IInv, TypeOK, TableInv, QueueInv
<1>1. \A f \in Fds : fd_http_[f] # None => fd_http_[f] \in Conns /\ fd[fd_http_[f]] = f
  OBVIOUS
<1>2. \A f \in Fds : fd_http_[f] # None => alive(fd_http_[f])
  BY <1>1, NoneAssumption DEF alive, owned
<1>3. ASSUME NEW c \in Conns, in_table(c)
      PROVE  alive(c) /\ ~queued(c) /\ fd_http_[fd[c]] = c
  <2>1. fd[c] \in Fds /\ fd_channel_[fd[c]] = c /\ c # None
    BY <1>3, NoneAssumption DEF in_table
  <2>2. fd_http_[fd[c]] = c
    BY <2>1
  <2> QED BY <2>1, <2>2, <1>2
<1>4. ASSUME NEW c \in Conns, nodes[c] # {} PROVE alive(c) /\ ~queued(c)
  BY <1>4 DEF alive, owned
<1>5. \A c \in Conns : queued(c) => alive(c)
  BY DEF alive, owned, queued
<1> QED BY <1>2, <1>3, <1>4, <1>5

(* A step that leaves the queue, the descriptors and the table alone, and gives
   timers only to connections in the table or that had one. *)
LEMMA QuietStep ==
  ASSUME IInv, UNCHANGED <<m_pending_functors, functors, fd, fd_channel_, fd_http_>>,
         \A c \in Conns : nodes'[c] # {} => nodes[c] # {} \/ in_table(c),
         functors # <<>> => pc' = "functors"
  PROVE  QueueInv' /\ TableInv'
<1> USE DEF IInv
<1>1. \A c \in Conns : nodes'[c] # {} => alive(c) /\ ~queued(c) /\ fd[c] # None
  BY Living DEF alive
<1>2. \A c \in Conns : alive(c)' => alive(c)
  BY <1>1 DEF alive, owned
<1>3. QueueInv'
  BY <1>1 DEF QueueInv, queued
<1>4. \A c \in Conns : nodes'[c] # {} => fd'[c] # None
  BY <1>1
<1>5. TableInv'
  BY <1>2, <1>4 DEF TableInv
<1> QED BY <1>3, <1>5

(* Closing a living connection. *)
LEMMA CloseStep ==
  ASSUME IInv, NEW c \in Conns, alive(c), uepoll_del(c),
         UNCHANGED <<m_pending_functors, functors, fd>>,
         \A d \in Conns : nodes'[d] # {} => nodes[d] # {},
         functors # <<>> => pc' = "functors"
  PROVE  QueueInv' /\ TableInv'
<1> USE DEF IInv
<1>1. /\ \A f \in Fds : fd_http_'[f] # None => fd_http_'[f] = fd_http_[f]
      /\ \A f \in Fds : fd_channel_'[f] # None => fd_channel_'[f] = fd_channel_[f] /\ f # fd[c]
      /\ \A f \in Fds : f # fd[c] => fd_http_'[f] = fd_http_[f]
  BY DEF uepoll_del, TypeOK
<1>2. \A d \in Conns : alive(d)' => alive(d)
  BY <1>1, NoneAssumption DEF alive, owned
<1>3. QueueInv'
  BY <1>1, NoneAssumption DEF QueueInv, queued
<1>4. TableInv'
  BY <1>1, <1>2 DEF TableInv
<1> QED BY <1>3, <1>4

(* Timer nodes: separating leaves none, arming leaves one. *)
LEMMA OneNode ==
  ASSUME IInv, NEW c \in Conns
  PROVE  /\ unlinked(nodes[c]) = {}
         /\ linked_to_new(unlinked(nodes[c])) = {[linked |-> TRUE, expired |-> FALSE]}
         /\ nodes[c] = {} => linked_to_new(nodes[c]) = {[linked |-> TRUE, expired |-> FALSE]}
<1>1. unlinked(nodes[c]) = {}
  BY DEF IInv, OneLiveTimer, unlinked
<1>2. linked_to_new({}) = {[linked |-> TRUE, expired |-> FALSE]}
  BY DEF linked_to_new
<1> QED BY <1>1, <1>2

(* Every step keeps at most the linked node of a connection. *)
LEMMA TimerStep == IInv /\ [Next]_vars => OneLiveTimer'
<1> SUFFICES ASSUME IInv, [Next]_vars PROVE OneLiveTimer'
  OBVIOUS
<1> USE DEF loopVars, tableVars, kernelVars
<1>1. \A c \in Conns : \A n \in nodes[c] : n.linked
  BY DEF IInv, OneLiveTimer
<1>2. nodes \in [Conns -> SUBSET TimerNode]
  BY DEF IInv, TypeOK
<1>3. CASE UNCHANGED nodes
  BY <1>1, <1>3 DEF OneLiveTimer
<1>4. ASSUME NEW c \in Conns, time_passes(c) PROVE OneLiveTimer'
  <2>1. PICK n \in nodes[c] :
          nodes' = [nodes EXCEPT ![c] = (@ \ {n}) \cup {[n EXCEPT !.expired = TRUE]}]
    BY <1>4 DEF time_passes
  <2>2. [n EXCEPT !.expired = TRUE].linked
    BY <1>1, <1>2 DEF TimerNode
  <2> QED BY <1>1, <1>2, <2>1, <2>2 DEF OneLiveTimer
<1>5. ASSUME NEW c \in Conns, seperate_timer(c) PROVE OneLiveTimer'
  BY <1>1, <1>2, <1>5, OneNode DEF seperate_timer, OneLiveTimer
<1>6. ASSUME NEW c \in Conns, rearm_timer(c) PROVE OneLiveTimer'
  BY <1>1, <1>2, <1>6, OneNode DEF rearm_timer, OneLiveTimer
<1>7. CASE call_functor
  <2>1. Head(functors) \in Conns /\ queued(Head(functors))
    BY <1>7, TailRange DEF call_functor, IInv, TypeOK, queued
  <2>2. nodes[Head(functors)] = {}
    BY <2>1 DEF IInv, QueueInv
  <2>3. add_timer(Head(functors))
    BY <1>7 DEF call_functor, new_event
  <2>4. nodes' = [nodes EXCEPT ![Head(functors)] = {[linked |-> TRUE, expired |-> FALSE]}]
    <3>1. linked_to_new(nodes[Head(functors)]) = {[linked |-> TRUE, expired |-> FALSE]}
      BY <2>1, <2>2, OneNode
    <3> QED BY <2>3, <3>1 DEF add_timer
  <2>5. \A n \in {[linked |-> TRUE, expired |-> FALSE]} : n.linked
    OBVIOUS
  <2> QED BY <1>1, <1>2, <2>4, <2>5 DEF OneLiveTimer
<1>8. ASSUME NEW c \in Conns, handle_expired(c) PROVE OneLiveTimer'
  BY <1>1, <1>2, <1>8 DEF handle_expired, OneLiveTimer
<1>9. CASE handle_read \/ handle_conn
  <2>1. cur \in Conns
    BY <1>9 DEF handle_read, handle_conn, IInv, TypeOK, ControlInv
  <2>2. UNCHANGED nodes \/ seperate_timer(cur) \/ rearm_timer(cur)
    <3>1. CASE handle_read
      BY <3>1 DEF handle_read
    <3>2. CASE handle_conn
      BY <3>2 DEF handle_conn
    <3> QED BY <1>9, <3>1, <3>2
  <2> QED BY <1>3, <1>5, <1>6, <2>1, <2>2
<1>10. ASSUME NEW c \in Conns,
              \/ \E f \in Fds : handle_new_conn(c, f)
              \/ peer_sends(c) \/ peer_shuts_down(c) \/ peer_resets(c) \/ peer_drains(c)
              \/ handle_events(c)
       PROVE  UNCHANGED nodes
  BY <1>10 DEF handle_new_conn, peer_sends, peer_shuts_down, peer_resets, peer_drains,
               handle_events
<1>11. CASE poll \/ handle_write \/ doPendingFunctors \/ functors_done \/ expired_done
  BY <1>3, <1>11 DEF poll, handle_write, doPendingFunctors, functors_done, expired_done
<1>12. CASE UNCHANGED vars
  BY <1>3, <1>12 DEF vars
<1> QED BY <1>3, <1>4, <1>7, <1>8, <1>9, <1>10, <1>11, <1>12
        DEF Next, LoopStep, Environment

(* The loop hands out channels that are in the table. *)
LEMMA ControlStep == IInv /\ [Next]_vars => ControlInv'
<1> SUFFICES ASSUME IInv, [Next]_vars PROVE ControlInv'
  OBVIOUS
<1> USE DEF IInv, TypeOK, ControlInv, loopVars, tableVars, kernelVars
<1>1. ASSUME NEW c \in Conns, NEW f \in Fds, handle_new_conn(c, f) PROVE ControlInv'
  BY <1>1 DEF handle_new_conn, in_table
<1>2. CASE UNCHANGED <<pc, cur, batch, fd, fd_channel_>>
  BY <1>2 DEF in_table
<1>3. CASE poll
  <2>1. ASSUME NEW c \in Conns, alive(c), fd_channel_[fd[c]] # None
        PROVE  in_table(fd_channel_[fd[c]])
    BY <2>1, NoneAssumption DEF alive, in_table, TableInv
  <2>2. \A d \in batch' : in_table(d) /\ d \in Conns
    BY <1>3, <2>1 DEF poll, alive
  <2>3. UNCHANGED <<cur, fd, fd_channel_>> /\ cur = None /\ pc' = "handle"
    BY <1>3 DEF poll
  <2> QED BY <2>2, <2>3, NoneAssumption DEF in_table
<1>4. CASE handle_read \/ handle_write
  BY <1>4 DEF handle_read, handle_write, in_table
<1>5. CASE handle_conn
  <2>1. cur \in Conns /\ in_table(cur) /\ cur \notin batch
    BY <1>5 DEF handle_conn
  <2>2. cur' = None /\ pc' = "handle" /\ UNCHANGED <<batch, fd>>
    BY <1>5 DEF handle_conn
  <2>3. UNCHANGED fd_channel_ \/ uepoll_del(cur)
    BY <1>5 DEF handle_conn, handle_close
  <2>4. \A d \in batch : in_table(d)'
    <3>1. \A d \in batch : in_table(d) /\ fd[d] # fd[cur]
      BY <2>1 DEF in_table
    <3> QED BY <2>2, <2>3, <3>1 DEF in_table, uepoll_del
  <2> QED BY <2>2, <2>4, NoneAssumption
<1>6. CASE doPendingFunctors \/ functors_done \/ expired_done
  BY <1>6 DEF doPendingFunctors, functors_done, expired_done
<1>7. CASE call_functor
  BY <1>7 DEF call_functor
<1>8. ASSUME NEW c \in Conns, handle_events(c) PROVE ControlInv'
  BY <1>8, NoneAssumption DEF handle_events, in_table
<1>9. ASSUME NEW c \in Conns, handle_expired(c) PROVE ControlInv'
  BY <1>9 DEF handle_expired
<1>10. ASSUME NEW c \in Conns,
              \/ peer_sends(c) \/ peer_shuts_down(c) \/ peer_resets(c) \/ peer_drains(c)
              \/ time_passes(c)
       PROVE  UNCHANGED <<pc, cur, batch, fd, fd_channel_>>
  BY <1>10 DEF peer_sends, peer_shuts_down, peer_resets, peer_drains, time_passes
<1>11. CASE UNCHANGED vars
  BY <1>2, <1>11 DEF vars
<1> QED BY <1>1, <1>2, <1>3, <1>4, <1>5, <1>6, <1>7, <1>8, <1>9, <1>10, <1>11
        DEF Next, LoopStep, Environment

(* Queue and table stay consistent. *)
LEMMA OwnerStep == IInv /\ [Next]_vars => QueueInv' /\ TableInv'
<1> SUFFICES ASSUME IInv, [Next]_vars PROVE QueueInv' /\ TableInv'
  OBVIOUS
<1> USE DEF loopVars, tableVars, kernelVars
<1>1. functors # <<>> => pc = "functors"
  BY DEF IInv, QueueInv
<1>2. ASSUME NEW c \in Conns, NEW f \in Fds, handle_new_conn(c, f)
      PROVE  QueueInv' /\ TableInv'
  <2> USE <1>2 DEF handle_new_conn
  <2>1. ~queued(c) /\ nodes[c] = {} /\ \A g \in Fds : fd_http_[g] # c
    BY NoneAssumption DEF IInv, TypeOK, QueueInv, TableInv
  <2>2. /\ Range(m_pending_functors') = Range(m_pending_functors) \cup {c}
        /\ IsInjective(m_pending_functors')
    BY <2>1, AppendRange DEF IInv, TypeOK, QueueInv, queued
  <2>3. \A d \in Conns : fd'[d] = IF d = c THEN f ELSE fd[d]
    BY DEF IInv, TypeOK
  <2>4. QueueInv'
    BY <1>1, <2>1, <2>2, <2>3, NoneAssumption DEF IInv, QueueInv, queued
  <2>5. \A d \in Conns : alive(d)' => d = c \/ (alive(d) /\ fd[d] # f)
    BY <2>2, <2>3 DEF alive, owned
  <2>6. TableInv'
    BY <2>1, <2>3, <2>5, NoneAssumption DEF IInv, TypeOK, TableInv
  <2> QED BY <2>4, <2>6
<1>3. ASSUME NEW c \in Conns,
             \/ peer_sends(c) \/ peer_shuts_down(c) \/ peer_resets(c) \/ peer_drains(c)
             \/ handle_events(c)
      PROVE  QueueInv' /\ TableInv'
  <2>1. UNCHANGED <<m_pending_functors, functors, fd, fd_channel_, fd_http_, nodes>>
    BY <1>3 DEF peer_sends, peer_shuts_down, peer_resets, peer_drains, handle_events
  <2>2. functors # <<>> => pc' = "functors"
    BY <1>1, <1>3 DEF peer_sends, peer_shuts_down, peer_resets, peer_drains, handle_events
  <2> QED BY <2>1, <2>2, QuietStep
<1>4. ASSUME NEW c \in Conns, time_passes(c) PROVE QueueInv' /\ TableInv'
  <2>1. \A d \in Conns : nodes'[d] # {} => nodes[d] # {}
    BY <1>4 DEF time_passes, IInv, TypeOK
  <2> QED BY <1>1, <1>4, <2>1, QuietStep DEF time_passes
<1>5. CASE poll \/ handle_write \/ functors_done \/ expired_done \/ UNCHANGED vars
  <2>1. UNCHANGED <<m_pending_functors, functors, fd, fd_channel_, fd_http_, nodes>>
    BY <1>5 DEF poll, handle_write, functors_done, expired_done, vars
  <2>2. functors # <<>> => pc' = "functors"
    BY <1>1, <1>5 DEF poll, handle_write, functors_done, expired_done, vars
  <2> QED BY <2>1, <2>2, QuietStep
<1>6. CASE handle_read
  <2>1. UNCHANGED nodes \/ seperate_timer(cur)
    BY <1>6 DEF handle_read
  <2>2. \A d \in Conns : nodes'[d] # {} => nodes[d] # {}
    BY <2>1 DEF seperate_timer, unlinked, IInv, TypeOK
  <2> QED BY <1>1, <1>6, <2>2, QuietStep DEF handle_read
<1>7. CASE handle_conn
  <2>1. cur \in Conns /\ in_table(cur)
    BY <1>7 DEF handle_conn, IInv, TypeOK, ControlInv
  <2>2. functors = <<>> /\ UNCHANGED <<m_pending_functors, functors, fd>>
    BY <1>1, <1>7 DEF handle_conn
  <2>3. CASE UNCHANGED tableVars
    <3>1. seperate_timer(cur) \/ rearm_timer(cur)
      BY <1>7 DEF handle_conn
    <3>2. \A d \in Conns : d # cur => nodes'[d] = nodes[d]
      BY <3>1 DEF seperate_timer, rearm_timer, IInv, TypeOK
    <3> QED BY <2>1, <2>2, <2>3, <3>2, QuietStep
  <2>4. CASE handle_close(cur) /\ seperate_timer(cur)
    <3>1. \A d \in Conns : nodes'[d] # {} => nodes[d] # {}
      BY <2>4 DEF seperate_timer, unlinked, IInv, TypeOK
    <3> QED BY <2>1, <2>2, <2>4, <3>1, Living, CloseStep DEF handle_close
  <2> QED BY <1>7, <2>3, <2>4 DEF handle_conn
<1>8. CASE doPendingFunctors
  <2>1. functors = <<>> /\ Range(functors) = {} /\ Range(<<>>) = {} /\ IsInjective(<<>>)
    BY <1>1, <1>8 DEF doPendingFunctors, Range, IsInjective
  <2>2. \A d \in Conns : (queued(d)' <=> queued(d)) /\ (alive(d)' <=> alive(d))
    BY <1>8, <2>1 DEF doPendingFunctors, queued, alive, owned
  <2>3. QueueInv'
    BY <1>8, <2>1, <2>2 DEF doPendingFunctors, QueueInv, IInv
  <2>4. TableInv'
    BY <1>8, <2>2 DEF doPendingFunctors, TableInv, IInv
  <2> QED BY <2>3, <2>4
<1>9. CASE call_functor
  <2> DEFINE c == Head(functors)
  <2>1. /\ c \in Conns /\ Range(functors) = {c} \cup Range(Tail(functors))
        /\ IsInjective(Tail(functors)) /\ c \notin Range(Tail(functors))
    BY <1>9, TailRange DEF call_functor, IInv, TypeOK, QueueInv
  <2>2. PICK added \in BOOLEAN : new_event(c, added)
    BY <1>9 DEF call_functor
  <2>3. /\ functors' = Tail(functors)
        /\ UNCHANGED <<pc, m_pending_functors, fd>> /\ pc = "functors"
    BY <1>9 DEF call_functor
  <2> HIDE DEF c
  <2>4. queued(c) /\ c \notin Range(m_pending_functors) /\ alive(c)
    BY <2>1, Living DEF IInv, QueueInv, queued
  <2>5. fd[c] \in Fds
    BY <2>1, <2>4 DEF IInv, TypeOK, alive
  <2>6. /\ \A d \in Conns : d # c => nodes'[d] = nodes[d]
        /\ \A f \in Fds : fd_http_'[f] = IF f = fd[c] THEN c ELSE fd_http_[f]
        /\ \A f \in Fds : f # fd[c] => fd_channel_'[f] = fd_channel_[f]
        /\ fd_channel_'[fd[c]] \in {c, None}
    BY <2>1, <2>2, <2>5 DEF new_event, add_timer, IInv, TypeOK
  <2>7. \A d \in Conns : queued(d)' => queued(d) /\ d # c
    BY <2>1, <2>3, <2>4 DEF queued
  <2>8. QueueInv'
    BY <2>1, <2>3, <2>6, <2>7 DEF IInv, QueueInv
  <2>9. \A d \in Conns : alive(d)' => alive(d)
    BY <2>1, <2>3, <2>4, <2>6, <2>7 DEF alive, owned, queued
  <2>10. TableInv'
    BY <2>3, <2>5, <2>6, <2>9, NoneAssumption DEF IInv, TableInv
  <2> QED BY <2>8, <2>10
<1>10. ASSUME NEW c \in Conns, handle_expired(c) PROVE QueueInv' /\ TableInv'
  <2>1. alive(c)
    BY <1>10, Living DEF handle_expired
  <2>2. \A d \in Conns : nodes'[d] # {} => nodes[d] # {}
    BY <1>10 DEF handle_expired, IInv, TypeOK
  <2> QED BY <1>1, <1>10, <2>1, <2>2, CloseStep DEF handle_expired, handle_close
<1> QED BY <1>2, <1>3, <1>4, <1>5, <1>6, <1>7, <1>8, <1>9, <1>10
        DEF Next, LoopStep, Environment
-----------------------------------------------------------------------------
(* A connection's state or a table entry changes only where the property
   allows it. *)
TimeoutAct ==
  \A c \in Conns :
    pc = "expire" /\ http[c].state # http'[c].state =>
      \E n \in nodes[c] : n.linked /\ n.expired

EntryAct ==
  \A f \in Fds :
    fd_channel_[f] # None /\ fd_channel_'[f] # fd_channel_[f] =>
      http'[fd_channel_[f]].state = "DISCONNECTED"

(* Only handle_expired changes a connection while nodes expire, the one whose
   node it pops. *)
LEMMA TimeoutStep == IInv /\ [Next]_vars => TimeoutAct
<1> SUFFICES ASSUME IInv, [Next]_vars, NEW c \in Conns, pc = "expire",
                    http[c].state # http'[c].state
             PROVE  \E n \in nodes[c] : n.linked /\ n.expired
  BY DEF TimeoutAct
<1>1. \A d \in Conns : ~handle_events(d)
  BY DEF handle_events
<1>2. ~poll /\ ~handle_read /\ ~handle_write /\ ~handle_conn /\ ~doPendingFunctors
      /\ ~call_functor /\ ~functors_done
  BY DEF poll, handle_read, handle_write, handle_conn, doPendingFunctors, call_functor,
         functors_done
<1>3. ~expired_done /\ ~UNCHANGED vars /\ ~Environment
  BY DEF expired_done, vars, Environment, handle_new_conn, peer_sends, peer_shuts_down,
         peer_resets, peer_drains, time_passes
<1>4. PICK d \in Conns : handle_expired(d)
  BY <1>1, <1>2, <1>3 DEF Next, LoopStep
<1>5. d = c
  BY <1>4 DEF handle_expired, handle_close, IInv, TypeOK
<1> QED BY <1>4, <1>5 DEF handle_expired, IInv, OneLiveTimer

(* Closing a connection removes no entry but its own. *)
LEMMA OwnEntry ==
  ASSUME IInv, NEW c \in Conns, alive(c), handle_close(c)
  PROVE  EntryAct
<1> SUFFICES ASSUME NEW f \in Fds, fd_channel_[f] # None, fd_channel_'[f] # fd_channel_[f]
             PROVE  http'[fd_channel_[f]].state = "DISCONNECTED"
  BY DEF EntryAct
<1>1. f = fd[c]
  BY DEF handle_close, uepoll_del, IInv, TypeOK
<1>2. fd_channel_[f] \in Conns /\ alive(fd_channel_[f]) /\ fd[fd_channel_[f]] = f
  BY Living DEF IInv, TypeOK, TableInv
<1>3. fd_channel_[f] = c
  BY <1>1, <1>2 DEF IInv, TableInv
<1>4. http[c] \in HttpData
  BY DEF IInv, TypeOK
<1> QED BY <1>3, <1>4 DEF handle_close, IInv, TypeOK, HttpData

(* No step takes the entry of a connection that goes on. *)
LEMMA EntryStep == IInv /\ [Next]_vars => EntryAct
<1> SUFFICES ASSUME IInv, [Next]_vars PROVE EntryAct
  OBVIOUS
<1> USE DEF loopVars, tableVars, kernelVars
<1>1. CASE UNCHANGED fd_channel_
  BY <1>1 DEF EntryAct
<1>2. CASE handle_conn
  <2>1. cur \in Conns /\ in_table(cur)
    BY <1>2 DEF handle_conn, IInv, TypeOK, ControlInv
  <2>2. CASE handle_close(cur)
    BY <2>1, <2>2, Living, OwnEntry
  <2> QED BY <1>1, <1>2, <2>2 DEF handle_conn
<1>3. ASSUME NEW c \in Conns, handle_expired(c) PROVE EntryAct
  BY <1>3, Living, OwnEntry DEF handle_expired
<1>4. CASE call_functor
  <2> DEFINE c == Head(functors)
  <2>1. c \in Conns /\ queued(c)
    BY <1>4, TailRange DEF call_functor, IInv, TypeOK, queued
  <2>2. PICK added \in BOOLEAN : new_event(c, added)
    BY <1>4 DEF call_functor
  <2> HIDE DEF c
  <2>3. ASSUME NEW f \in Fds, fd_channel_'[f] # fd_channel_[f] PROVE fd_channel_[f] = None
    <3>1. f = fd[c]
      BY <2>2, <2>3 DEF new_event, IInv, TypeOK
    <3>2. fd_http_[f] # None => fd_http_[f] \in Conns /\ fd[fd_http_[f]] = f /\ alive(fd_http_[f])
      BY Living DEF IInv, TypeOK, TableInv
    <3>3. fd_http_[f] # None => fd_http_[f] = c
      BY <2>1, <3>1, <3>2, Living DEF IInv, TableInv
    <3>4. fd_http_[f] = None
      BY <2>1, <3>3 DEF IInv, QueueInv
    <3> QED BY <3>4 DEF IInv, TableInv
  <2> QED BY <2>3 DEF EntryAct
<1>5. CASE poll \/ handle_read \/ handle_write \/ doPendingFunctors \/ functors_done
           \/ expired_done \/ UNCHANGED vars
  BY <1>1, <1>5 DEF poll, handle_read, handle_write, doPendingFunctors, functors_done,
                    expired_done, vars
<1>6. ASSUME NEW c \in Conns,
             \/ \E f \in Fds : handle_new_conn(c, f)
             \/ peer_sends(c) \/ peer_shuts_down(c) \/ peer_resets(c) \/ peer_drains(c)
             \/ time_passes(c) \/ handle_events(c)
      PROVE  UNCHANGED fd_channel_
  BY <1>6 DEF handle_new_conn, peer_sends, peer_shuts_down, peer_resets, peer_drains,
              time_passes, handle_events
<1> QED BY <1>1, <1>2, <1>3, <1>4, <1>5, <1>6 DEF Next, LoopStep, Environment

(* The initial states. *)
LEMMA InitInv == Init => IInv
<1> SUFFICES ASSUME Init PROVE IInv
  OBVIOUS
<1> USE DEF Init
<1>1. NewHttpData \in HttpData /\ NewSocket \in Socket
  BY DEF NewHttpData, HttpData, NewSocket, Socket
<1>2. <<>> \in Seq(Conns) /\ Range(<<>>) = {} /\ IsInjective(<<>>)
  BY DEF Range, IsInjective
<1>3. TypeOK
  BY <1>1, <1>2 DEF TypeOK, LoopPc
<1>4. OneLiveTimer /\ QueueInv
  BY <1>2 DEF OneLiveTimer, QueueInv, queued
<1>5. \A c \in Conns : ~alive(c)
  BY DEF alive
<1>6. TableInv /\ ControlInv
  BY <1>5 DEF TableInv, ControlInv
<1> QED BY <1>3, <1>4, <1>6 DEF IInv
-----------------------------------------------------------------------------
(* The inductive invariant holds in every reachable state. *)
THEOREM Invariant == SafeSpec => []IInv
<1>1. IInv /\ [Next]_vars => IInv'
  BY TypeStep, TimerStep, OwnerStep, ControlStep DEF IInv
<1> QED BY InitInv, <1>1, PTL DEF SafeSpec

(* The variables keep their types. *)
THEOREM TypeCorrect == SafeSpec => []TypeOK
<1>1. IInv => TypeOK
  BY DEF IInv
<1> QED BY Invariant, <1>1, PTL

(* No connection ever has two live timer nodes. *)
THEOREM TimersAreUnique == SafeSpec => []OneLiveTimer
<1>1. IInv => OneLiveTimer
  BY DEF IInv
<1> QED BY Invariant, <1>1, PTL

(* Callbacks run on living objects that own their descriptor. *)
THEOREM TargetsAreAlive == SafeSpec => []DispatchTargetAlive
<1>1. IInv => DispatchTargetAlive
  <2> SUFFICES ASSUME IInv PROVE DispatchTargetAlive
    OBVIOUS
  <2> USE DEF IInv, TypeOK
  <2>1. \A f \in Fds : fd_channel_[f] # None =>
          alive(fd_channel_[f]) /\ fd[fd_channel_[f]] = f
    BY Living DEF TableInv
  <2>2. \A c \in batch : alive(c) /\ fd_channel_[fd[c]] = c
    BY Living DEF ControlInv, in_table
  <2>3. cur # None => alive(cur)
    BY Living DEF ControlInv
  <2> QED BY <2>1, <2>2, <2>3 DEF DispatchTargetAlive
<1> QED BY Invariant, <1>1, PTL

(* A connection is timed out by the node of its last activity only. *)
THEOREM TimeoutsAreDue == SafeSpec => NoPrematureTimeout
<1>1. IInv /\ [Next]_vars => [TimeoutAct]_vars
  BY TimeoutStep
<1> QED BY Invariant, <1>1, PTL DEF SafeSpec, NoPrematureTimeout, TimeoutAct

(* An entry of the table goes with the connection it names. *)
THEOREM EntriesGoWithTheirOwner == SafeSpec => EntryRemovedByItsOwner
<1>1. IInv /\ [Next]_vars => [EntryAct]_vars
  BY EntryStep
<1> QED BY Invariant, <1>1, PTL DEF SafeSpec, EntryRemovedByItsOwner, EntryAct
-----------------------------------------------------------------------------
(* The loop, its handlers and its timers implement Descriptors, for any sets of
   connections and descriptors. *)

held  == [c \in Conns |-> IF alive(c) THEN fd[c] ELSE None]
known == {c \in Conns : fd[c] # None}

Maps == Abstract!Next \/ UNCHANGED <<held, known>>

(* A step that ends at most one connection, and revives none, is a close or
   nothing at all. *)
LEMMA OneDies ==
  ASSUME TypeOK, UNCHANGED fd, NEW x \in Conns, alive(x)' => alive(x),
         \A d \in Conns : d # x => (alive(d)' <=> alive(d))
  PROVE  Abstract!close(x) \/ UNCHANGED <<held, known>>
<1>1. known' = known
  BY DEF known
<1>2. CASE alive(x)' <=> alive(x)
  <2>1. \A d \in Conns : alive(d)' <=> alive(d)
    BY <1>2
  <2>2. held' = held
    BY <2>1 DEF held
  <2> QED BY <1>1, <2>2
<1>3. CASE alive(x) /\ ~alive(x)'
  <2>1. held[x] # None
    BY <1>3 DEF held, alive
  <2>2. held' = [held EXCEPT ![x] = None]
    BY <1>3 DEF held
  <2> QED BY <1>1, <2>1, <2>2 DEF Abstract!close, held, known
<1> QED BY <1>2, <1>3

(* The main thread gives a connection a descriptor that nobody alive has. *)
LEMMA AcceptMaps ==
  ASSUME IInv, NEW c \in Conns, NEW f \in Fds, handle_new_conn(c, f)
  PROVE  Abstract!accept(c, f)
<1> USE DEF handle_new_conn, tableVars, loopVars
<1>1. /\ c \notin known /\ ~alive(c) /\ f # None
      /\ \A d \in Conns : held[d] # f
  BY NoneAssumption DEF known, held, alive
<1>2. /\ Range(m_pending_functors') = Range(m_pending_functors) \cup {c}
      /\ fd' = [fd EXCEPT ![c] = f] /\ fd \in [Conns -> Fds \cup {None}]
  BY AppendRange DEF IInv, TypeOK
<1>3. alive(c)'
  BY <1>1, <1>2 DEF alive, owned
<1>4. \A d \in Conns : d # c => (alive(d)' <=> alive(d)) /\ fd'[d] = fd[d]
  BY <1>2 DEF alive, owned
<1>5. held' = [held EXCEPT ![c] = f]
  BY <1>2, <1>3, <1>4 DEF held
<1>6. known' = known \cup {c}
  BY <1>1, <1>2, <1>4 DEF known
<1> QED BY <1>1, <1>5, <1>6 DEF Abstract!accept, held, known

(* Whose owners a step leaves alone lives on, or stays dead. *)
LEMMA SameOwners ==
  ASSUME NEW d \in Conns, UNCHANGED fd, queued(d)' <=> queued(d),
         nodes'[d] = {} <=> nodes[d] = {},
         \A f \in Fds : fd_http_'[f] = d <=> fd_http_[f] = d
  PROVE  alive(d)' <=> alive(d)
BY DEF alive, owned, queued

(* Closing one connection leaves the entries of the others. *)
LEMMA CloseKeeps ==
  ASSUME IInv, NEW c \in Conns, alive(c), handle_close(c), UNCHANGED fd,
         NEW d \in Conns, d # c, NEW f \in Fds
  PROVE  fd_http_'[f] = d <=> fd_http_[f] = d
<1>1. fd_http_' = [fd_http_ EXCEPT ![fd[c]] = None] /\ fd_http_ \in [Fds -> Conns \cup {None}]
      /\ d # None
  BY NoneAssumption DEF handle_close, uepoll_del, IInv, TypeOK
<1>2. fd_http_[f] = d => f # fd[c]
  BY <1>1, Living DEF IInv, TableInv
<1> QED BY <1>1, <1>2

LEMMA MapStep == IInv /\ [Next]_vars => [Abstract!Next]_<<held, known>>
<1> SUFFICES ASSUME IInv, [Next]_vars PROVE Maps
  BY DEF Maps
<1>0. TypeOK
  BY DEF IInv
<1>1. ASSUME UNCHANGED fd, NEW x \in Conns, alive(x)' => alive(x),
             \A d \in Conns : d # x => (alive(d)' <=> alive(d))
      PROVE  Maps
  <2>1. Abstract!close(x) \/ UNCHANGED <<held, known>>
    BY <1>0, <1>1, OneDies
  <2> QED BY <2>1 DEF Abstract!Next, Maps
<1>2. ASSUME UNCHANGED fd, \A d \in Conns : alive(d)' <=> alive(d)
      PROVE  Maps
  BY <1>2 DEF held, known, Maps
<1>3. ASSUME NEW c \in Conns, NEW f \in Fds, handle_new_conn(c, f) PROVE Maps
  <2>1. Abstract!accept(c, f)
    BY <1>3, AcceptMaps
  <2> QED BY <2>1 DEF Abstract!Next, Maps
<1> USE DEF loopVars, tableVars, kernelVars
<1>4. CASE UNCHANGED <<fd, fd_http_, m_pending_functors, functors, nodes>>
  <2>1. \A d \in Conns : alive(d)' <=> alive(d)
    BY <1>4 DEF alive, owned
  <2> QED BY <1>2, <1>4, <2>1
<1>5. ASSUME NEW c \in Conns, time_passes(c) PROVE Maps
  <2>1. \A d \in Conns : nodes'[d] = {} <=> nodes[d] = {}
    BY <1>5 DEF time_passes, IInv, TypeOK
  <2>2. UNCHANGED <<fd, fd_http_, m_pending_functors, functors>>
    BY <1>5 DEF time_passes
  <2>3. \A d \in Conns : alive(d)' <=> alive(d)
    BY <2>1, <2>2 DEF alive, owned
  <2> QED BY <1>2, <2>2, <2>3
<1>6. CASE doPendingFunctors
  <2>1. /\ functors = <<>> /\ functors' = m_pending_functors /\ m_pending_functors' = <<>>
        /\ UNCHANGED <<fd, fd_http_, nodes>>
    BY <1>6 DEF doPendingFunctors, IInv, QueueInv
  <2>2. Range(<<>>) = {}
    BY DEF Range
  <2>3. \A d \in Conns : queued(d)' <=> queued(d)
    BY <2>1, <2>2 DEF queued
  <2>4. \A d \in Conns : alive(d)' <=> alive(d)
    BY <2>1, <2>3 DEF alive, owned, queued
  <2> QED BY <1>2, <2>1, <2>4
<1>7. CASE handle_read \/ handle_conn
  <2>1. cur \in Conns /\ in_table(cur) /\ alive(cur)
    BY <1>7, Living DEF handle_read, handle_conn, IInv, TypeOK, ControlInv
  <2>2. UNCHANGED <<fd, m_pending_functors, functors>>
    BY <1>7 DEF handle_read, handle_conn
  <2>3. \A d \in Conns : d # cur => nodes'[d] = nodes[d]
    BY <1>7, <2>1 DEF handle_read, handle_conn, seperate_timer, rearm_timer, IInv, TypeOK
  <2>4. ASSUME NEW d \in Conns, d # cur, NEW f \in Fds
        PROVE  fd_http_'[f] = d <=> fd_http_[f] = d
    <3>1. UNCHANGED fd_http_ \/ handle_close(cur)
      BY <1>7 DEF handle_read, handle_conn
    <3> QED BY <2>1, <2>2, <2>4, <3>1, CloseKeeps
  <2>5. \A d \in Conns : d # cur => (alive(d)' <=> alive(d))
    BY <2>2, <2>3, <2>4 DEF alive, owned
  <2> QED BY <1>1, <2>1, <2>2, <2>5
<1>8. ASSUME NEW c \in Conns, handle_expired(c) PROVE Maps
  <2>1. nodes[c] # {} /\ alive(c) /\ handle_close(c)
    BY <1>8, Living DEF handle_expired
  <2>2. UNCHANGED <<fd, m_pending_functors, functors>>
    BY <1>8 DEF handle_expired
  <2>3. \A d \in Conns : d # c => nodes'[d] = nodes[d]
    BY <1>8 DEF handle_expired, IInv, TypeOK
  <2>4. \A d \in Conns : d # c => (alive(d)' <=> alive(d))
    BY <2>1, <2>2, <2>3, CloseKeeps DEF alive, owned
  <2> QED BY <1>1, <2>1, <2>2, <2>4
<1>9. CASE call_functor
  <2>1. PICK c \in Conns :
          /\ c = Head(functors)
          /\ Range(functors) = {c} \cup Range(Tail(functors))
    BY <1>9, TailRange DEF call_functor, IInv, TypeOK
  <2>2. /\ UNCHANGED <<fd, m_pending_functors>> /\ functors' = Tail(functors)
        /\ queued(c) /\ alive(c) /\ fd[c] \in Fds
    BY <1>9, <2>1, Living DEF call_functor, queued, IInv, TypeOK, alive
  <2>3. /\ fd_http_' = [fd_http_ EXCEPT ![fd[c]] = c]
        /\ nodes' = [nodes EXCEPT ![c] = linked_to_new(@)]
    BY <1>9, <2>1 DEF call_functor, new_event, add_timer
  <2>4. fd_http_[fd[c]] = None
    <3>1. fd_http_[fd[c]] # None => fd_http_[fd[c]] \in Conns
            /\ fd[fd_http_[fd[c]]] = fd[c] /\ alive(fd_http_[fd[c]])
      BY <2>2, Living DEF IInv, TypeOK, TableInv
    <3>2. fd_http_[fd[c]] # None => fd_http_[fd[c]] = c
      BY <2>2, <3>1 DEF IInv, TableInv
    <3> QED BY <2>2, <3>2 DEF IInv, QueueInv
  <2>5. ASSUME NEW d \in Conns, d # c PROVE alive(d)' <=> alive(d)
    <3>1. nodes'[d] = nodes[d] /\ (queued(d)' <=> queued(d))
      BY <2>1, <2>2, <2>3, <2>5 DEF queued, IInv, TypeOK
    <3>2. \A f \in Fds : fd_http_'[f] = d <=> fd_http_[f] = d
      BY <2>2, <2>3, <2>4, <2>5, NoneAssumption DEF IInv, TypeOK
    <3> QED BY <2>2, <3>1, <3>2, SameOwners
  <2> QED BY <1>1, <2>2, <2>5
<1>10. CASE poll \/ handle_write \/ functors_done \/ expired_done \/ UNCHANGED vars
  BY <1>4, <1>10 DEF poll, handle_write, functors_done, expired_done, vars
<1>11. ASSUME NEW c \in Conns,
              \/ peer_sends(c) \/ peer_shuts_down(c) \/ peer_resets(c) \/ peer_drains(c)
              \/ handle_events(c)
       PROVE  Maps
  BY <1>4, <1>11 DEF peer_sends, peer_shuts_down, peer_resets, peer_drains, handle_events
<1> QED
  BY <1>3, <1>5, <1>6, <1>7, <1>8, <1>9, <1>10, <1>11 DEF Next, LoopStep, Environment

(* Handlers, tables, timers and shared_ptrs together give each descriptor to
   one connection at a time, once. *)
THEOREM DescriptorsAreImplemented == SafeSpec => ImplementsDescriptors
<1>1. Init => Abstract!Init
  BY DEF Init, Abstract!Init, alive
<1>2. IInv /\ [Next]_vars => [Abstract!Next]_Abstract!vars
  BY MapStep DEF Abstract!vars, held, known
<1> QED BY Invariant, <1>1, <1>2, PTL DEF SafeSpec, ImplementsDescriptors, Abstract!Spec
-----------------------------------------------------------------------------

(* Who is registered is in the table, and epoll has what uepoll_mod remembers;
   input and output are never waited for together, and only ONESHOT mutes. *)
Registered(c) ==
  /\ interest[c] # {} => in_table(c) /\ interest[c] = http[c].last
  /\ ~({"IN", "OUT"} \subseteq http[c].last)
  /\ in_table(c) =>
       /\ http[c].state # "DISCONNECTED"
       /\ interest[c] = {} => "ONESHOT" \in http[c].last

(* A connection that the loop has not seen has nothing to send. *)
Fresh(c) ==
  fd[c] = None \/ queued(c) => http[c].state = "CONNECTED" /\ ~http[c].out

(* An event is for input or for output, unless it is an abort, and no handler
   runs after an abort. *)
Reported(c) ==
  /\ "ERR" \in revents[c] => sock[c].rst
  /\ {"IN", "OUT"} \subseteq revents[c] => "ERR" \in revents[c]
  /\ c = cur => "ERR" \notin revents[c]

(* events_ while the handlers of c run: what handle_conn will register. *)
Handled(c) ==
  c = cur =>
    /\ pc = "read" => "IN" \in revents[c]
    /\ pc \in {"read", "write"} => http[c].events = {}
    /\ pc = "conn" =>
         /\ "ONESHOT" \notin http[c].events
         /\ ~http[c].error => ("OUT" \in http[c].events <=> http[c].out)

(* Input is going to be reported, or was and will be read. *)
InputSeen(c) ==
  "IN" \in interest[c] /\ sock[c].in /\ ~sock[c].rst =>
    \/ c \in ready
    \/ "IN" \in revents[c] /\ (c \in batch \/ (c = cur /\ pc = "read"))

(* So is room for output, or it was and handle_conn will not wait for it. *)
RoomSeen(c) ==
  "OUT" \in interest[c] /\ sock[c].writable /\ ~sock[c].rst =>
    c \in ready \/ c \in batch \/ (c = cur /\ "OUT" \notin http[c].events)

Waits(c) ==
  in_table(c) /\ http[c].state = "CONNECTED" /\ ~sock[c].rst /\ c # cur /\ c \notin batch =>
    IF http[c].out THEN "OUT" \in interest[c] ELSE "IN" \in interest[c]

(* A connection without a timer has yet to get one, or has no use for it. *)
Timed(c) ==
  alive(c) /\ nodes[c] = {} =>
    queued(c) \/ c = cur \/ (http[c].state = "DISCONNECTING" /\ http[c].out)

ConnInv(c) ==
  /\ Registered(c) /\ Fresh(c) /\ Reported(c) /\ Handled(c)
  /\ InputSeen(c) /\ RoomSeen(c) /\ Waits(c) /\ Timed(c)

WaitInv == IInv /\ \A c \in Conns : ConnInv(c)
-----------------------------------------------------------------------------
(* A connection that a step does not touch keeps its part of the invariant. *)
LEMMA Untouched ==
  ASSUME NEW c \in Conns, ConnInv(c),
         http'[c] = http[c], sock'[c] = sock[c], interest'[c] = interest[c],
         revents'[c] = revents[c], fd'[c] = fd[c],
         c \in batch' <=> c \in batch, c = cur' <=> c = cur, c = cur => pc' = pc,
         c \in ready => c \in ready',
         in_table(c)' <=> in_table(c), queued(c)' <=> queued(c), alive(c)' => alive(c),
         nodes'[c] = {} => nodes[c] = {}
  PROVE  ConnInv(c)'
<1>1. Registered(c)' /\ Fresh(c)'
  BY DEF ConnInv, Registered, Fresh
<1>2. Reported(c)' /\ Handled(c)'
  BY DEF ConnInv, Reported, Handled
<1>3. InputSeen(c)' /\ RoomSeen(c)'
  BY DEF ConnInv, InputSeen, RoomSeen
<1>4. Waits(c)' /\ Timed(c)'
  BY DEF ConnInv, Waits, Timed
<1> QED BY <1>1, <1>2, <1>3, <1>4 DEF ConnInv

(* Closing one connection touches no other. *)
LEMMA CloseFrame ==
  ASSUME IInv, NEW c \in Conns, alive(c), handle_close(c), UNCHANGED fd,
         NEW d \in Conns, d # c
  PROVE  /\ http'[d] = http[d] /\ interest'[d] = interest[d]
         /\ d \in ready <=> d \in ready'
         /\ in_table(d)' <=> in_table(d)
         /\ \A f \in Fds : fd_http_'[f] = d => fd_http_[f] = d
<1> USE DEF handle_close, uepoll_del, IInv, TypeOK
<1>1. http'[d] = http[d] /\ interest'[d] = interest[d] /\ (d \in ready <=> d \in ready')
  OBVIOUS
<1>2. \A f \in Fds : f # fd[c] => fd_channel_'[f] = fd_channel_[f]
  OBVIOUS
<1>3. \A f \in Fds : fd_channel_'[f] \in {fd_channel_[f], None}
                     /\ fd_http_'[f] \in {fd_http_[f], None}
  OBVIOUS
<1>4. in_table(d) => fd[d] # fd[c]
  BY Living DEF TableInv, in_table
<1>5. fd[d] # None => fd[d] \in Fds
  OBVIOUS
<1>6. in_table(d)' <=> in_table(d)
  BY <1>2, <1>3, <1>4, <1>5, NoneAssumption DEF in_table
<1> QED BY <1>1, <1>3, <1>6, NoneAssumption

(* A closed connection is neither registered nor queued; without a timer nobody
   owns it. *)
LEMMA ClosedConn ==
  ASSUME IInv, NEW c \in Conns, in_table(c) \/ nodes[c] # {}, handle_close(c),
         UNCHANGED <<fd, m_pending_functors, functors, sock, revents, batch>>,
         ConnInv(c), c # cur', c \notin batch
  PROVE  ConnInv(c)'
<1> USE DEF handle_close, uepoll_del, IInv, TypeOK
<1>1. fd[c] \in Fds /\ ~queued(c) /\ alive(c)
  BY Living DEF in_table, alive
<1>2. interest'[c] = {} /\ http'[c].last = http[c].last /\ fd_channel_'[fd[c]] = None
      /\ http[c].last \subseteq Events
  BY <1>1 DEF HttpData
<1>3. ~in_table(c)'
  BY <1>2, NoneAssumption DEF in_table
<1>4. \A f \in Fds : fd_http_'[f] # c
  <2>1. \A f \in Fds : fd_http_[f] = c => f = fd[c]
    BY NoneAssumption DEF TableInv
  <2> QED BY <2>1, NoneAssumption
<1>5. ~queued(c)' /\ (nodes'[c] = {} => ~alive(c)')
  BY <1>1, <1>4 DEF queued, alive, owned
<1>6. Registered(c)' /\ Fresh(c)'
  BY <1>1, <1>2, <1>3, <1>5, NoneAssumption DEF ConnInv, Registered, Fresh
<1>7. Reported(c)' /\ Handled(c)'
  BY DEF ConnInv, Reported, Handled
<1>8. InputSeen(c)' /\ RoomSeen(c)'
  BY <1>2 DEF InputSeen, RoomSeen
<1>9. Waits(c)' /\ Timed(c)'
  BY <1>3, <1>5 DEF Waits, Timed
<1> QED BY <1>6, <1>7, <1>8, <1>9 DEF ConnInv
-----------------------------------------------------------------------------
(* A connection that is queued, or that the loop has never seen, is not
   registered and not handled. *)
LEMMA Unregistered ==
  ASSUME WaitInv, NEW c \in Conns, ~in_table(c)
  PROVE  interest[c] = {} /\ c # cur /\ c \notin batch
BY NoneAssumption DEF WaitInv, ConnInv, Registered, IInv, ControlInv

LEMMA AcceptConn ==
  ASSUME WaitInv, NEW c \in Conns, NEW f \in Fds, handle_new_conn(c, f), NEW d \in Conns
  PROVE  ConnInv(d)'
<1> USE DEF handle_new_conn, loopVars, tableVars, kernelVars, WaitInv
<1>1. fd[c] = None /\ ~queued(c) /\ ~in_table(c)
  BY DEF IInv, QueueInv, in_table
<1>2. Range(m_pending_functors') = Range(m_pending_functors) \cup {c}
  BY AppendRange DEF IInv, TypeOK
<1>3. \A e \in Conns : fd'[e] = IF e = c THEN f ELSE fd[e]
  BY DEF IInv, TypeOK
<1>4. CASE d # c
  <2>1. (queued(d)' <=> queued(d)) /\ (in_table(d)' <=> in_table(d)) /\ (alive(d)' => alive(d))
    BY <1>2, <1>3, <1>4 DEF queued, in_table, alive, owned
  <2> QED BY <1>3, <1>4, <2>1, Untouched
<1>5. CASE d = c
  <2>1. ~in_table(c)'
    <3>1. fd_channel_[f] # c
      BY <1>1, NoneAssumption DEF IInv, TableInv
    <3> QED BY <1>3, <3>1 DEF in_table
  <2>2. queued(c)' /\ interest'[c] = {} /\ c # cur'
    BY <1>1, <1>2, Unregistered DEF queued
  <2>3. ConnInv(c)
    OBVIOUS
  <2>4. Registered(c)' /\ Fresh(c)'
    BY <1>1, <2>1, <2>2, <2>3 DEF ConnInv, Registered, Fresh
  <2>5. Reported(c)' /\ Handled(c)'
    BY <2>2, <2>3 DEF ConnInv, Reported, Handled
  <2>6. InputSeen(c)' /\ RoomSeen(c)' /\ Waits(c)' /\ Timed(c)'
    BY <2>1, <2>2 DEF InputSeen, RoomSeen, Waits, Timed
  <2> QED BY <1>5, <2>4, <2>5, <2>6 DEF ConnInv
<1> QED BY <1>4, <1>5

(* What peers do is reported, if it is waited for. *)
LEMMA PeerConn ==
  ASSUME WaitInv, NEW c \in Conns,
         peer_sends(c) \/ peer_shuts_down(c) \/ peer_resets(c) \/ peer_drains(c),
         NEW d \in Conns
  PROVE  ConnInv(d)'
<1> USE DEF loopVars, tableVars, kernelVars, WaitInv,
            peer_sends, peer_shuts_down, peer_resets, peer_drains
<1>1. UNCHANGED <<pc, cur, batch, revents, functors, m_pending_functors, fd, fd_channel_, fd_http_,
                  nodes, http, interest>>
  OBVIOUS
<1>2. ready \subseteq ready' /\ sock \in [Conns -> Socket]
  BY DEF edge, IInv, TypeOK
<1>3. (queued(d)' <=> queued(d)) /\ (in_table(d)' <=> in_table(d)) /\ (alive(d)' <=> alive(d))
  BY <1>1 DEF queued, in_table, alive, owned
<1>4. CASE d # c
  <2>1. sock'[d] = sock[d]
    BY <1>2, <1>4
  <2> QED BY <1>1, <1>2, <1>3, <2>1, Untouched
<1>5. CASE d = c
  <2>1. ConnInv(c)
    OBVIOUS
  <2>2. sock[c] \in Socket
    BY <1>2
  <2>3. /\ sock[c].rst => sock'[c].rst
        /\ sock'[c].in /\ ~sock'[c].rst /\ "IN" \in interest[c] => sock[c].in \/ c \in ready'
        /\ sock'[c].writable /\ ~sock'[c].rst /\ "OUT" \in interest[c] =>
             sock[c].writable \/ c \in ready'
    <3>1. CASE peer_sends(c) BY <1>2, <2>2, <3>1 DEF edge, Socket
    <3>2. CASE peer_shuts_down(c) BY <1>2, <2>2, <3>2 DEF edge, Socket
    <3>3. CASE peer_resets(c) BY <1>2, <2>2, <3>3 DEF edge, Socket
    <3>4. CASE peer_drains(c) BY <1>2, <2>2, <3>4 DEF edge, Socket
    <3> QED BY <3>1, <3>2, <3>3, <3>4
  <2>4. Registered(c)' /\ Fresh(c)'
    BY <1>1, <1>3, <1>5, <2>1 DEF ConnInv, Registered, Fresh
  <2>5. Reported(c)' /\ Handled(c)'
    BY <1>1, <2>1, <2>3 DEF ConnInv, Reported, Handled
  <2>6. InputSeen(c)' /\ RoomSeen(c)'
    BY <1>1, <1>2, <2>1, <2>3 DEF ConnInv, InputSeen, RoomSeen
  <2>7. Waits(c)' /\ Timed(c)'
    BY <1>1, <1>3, <1>5, <2>1, <2>3 DEF ConnInv, Waits, Timed
  <2> QED BY <1>5, <2>4, <2>5, <2>6, <2>7 DEF ConnInv
<1> QED BY <1>4, <1>5

(* poll() hands out what was reported, each event to its own channel. *)
LEMMA PollConn ==
  ASSUME WaitInv, poll, NEW c \in Conns
  PROVE  ConnInv(c)'
<1> USE DEF poll, tableVars, WaitInv
<1> DEFINE fired == {d \in ready : alive(d) /\ reported(sock[d], interest[d]) # {}}
<1>0. /\ UNCHANGED <<cur, functors, m_pending_functors, fd, fd_channel_, fd_http_, nodes, http, sock>>
      /\ cur = None /\ batch = {} /\ pc' = "handle" /\ c # cur
  BY NoneAssumption DEF IInv, ControlInv
<1>1. \A d \in fired : d \in Conns /\ in_table(d) /\ fd_channel_[fd[d]] = d /\ d # None
  BY NoneAssumption DEF IInv, TypeOK, ConnInv, Registered, reported, in_table
<1>2. {d \in fired : fd_channel_[fd[d]] # None} = fired
  BY <1>1
<1>3. batch' = fired
  BY <1>1, <1>2, ZenonT(40)
<1>5. revents'[c] = IF c \in fired THEN reported(sock[c], interest[c]) ELSE {}
  <2>1. revents'[c] = UNION {reported(sock[d], interest[d]) : d \in {e \in fired : fd_channel_[fd[e]] = c}}
    BY <1>2
  <2>2. \A x : x \in revents'[c] <=> \E d \in {e \in fired : fd_channel_[fd[e]] = c} :
                                        x \in reported(sock[d], interest[d])
    BY <2>1
  <2>3. \A x : x \in revents'[c] <=> c \in fired /\ x \in reported(sock[c], interest[c])
    <3>1. \A d : d \in {e \in fired : fd_channel_[fd[e]] = c} <=> d = c /\ c \in fired
      BY <1>1
    <3> HIDE DEF fired
    <3> QED BY <2>2, <3>1
  <2> QED BY <2>3
<1>6. interest'[c] = IF c \in fired /\ "ONESHOT" \in interest[c] THEN {} ELSE interest[c]
  OBVIOUS
<1>7. (queued(c)' <=> queued(c)) /\ (in_table(c)' <=> in_table(c)) /\ (alive(c)' <=> alive(c))
  BY <1>0 DEF queued, in_table, alive, owned
<1>8. c \in ready /\ interest[c] # {} => alive(c)
  BY Living DEF ConnInv, Registered
<1>9. ready' = {} /\ sock[c] \in Socket
  BY DEF IInv, TypeOK
<1> HIDE DEF fired
<1>10. /\ c \in ready /\ "IN" \in interest[c] /\ sock[c].in => c \in fired
       /\ c \in ready /\ "OUT" \in interest[c] /\ sock[c].writable => c \in fired
  BY <1>8 DEF fired, reported, status
<1>11. ConnInv(c)
  OBVIOUS
<1>12. Registered(c)' /\ Fresh(c)'
  BY <1>0, <1>6, <1>7, <1>11 DEF ConnInv, Registered, Fresh
<1>13. Reported(c)' /\ Handled(c)'
  <2>1. /\ "ERR" \in reported(sock[c], interest[c]) => sock[c].rst
        /\ {"IN", "OUT"} \subseteq reported(sock[c], interest[c]) =>
             interest[c] # {} /\ {"IN", "OUT"} \subseteq interest[c]
    BY DEF reported, status
  <2> QED BY <1>0, <1>5, <1>11, <2>1 DEF ConnInv, Registered, Reported, Handled
<1>14. InputSeen(c)'
  <2>1. "IN" \in interest[c] /\ sock[c].in => "IN" \in reported(sock[c], interest[c])
    BY DEF reported, status
  <2> QED BY <1>0, <1>3, <1>5, <1>6, <1>10, <1>11, <2>1 DEF ConnInv, InputSeen
<1>15. RoomSeen(c)'
  BY <1>0, <1>3, <1>6, <1>10, <1>11 DEF ConnInv, RoomSeen
<1>16. Waits(c)' /\ Timed(c)'
  BY <1>0, <1>3, <1>6, <1>7, <1>11 DEF ConnInv, Waits, Timed
<1> QED BY <1>12, <1>13, <1>14, <1>15, <1>16 DEF ConnInv
-----------------------------------------------------------------------------
(* handle_events clears events_ and chooses the handler by what was reported. *)
LEMMA EventsConn ==
  ASSUME WaitInv, NEW c \in Conns, handle_events(c), NEW d \in Conns
  PROVE  ConnInv(d)'
<1> USE DEF handle_events, tableVars, kernelVars, WaitInv
<1>1. UNCHANGED <<revents, functors, m_pending_functors, fd, fd_channel_, fd_http_, nodes, sock,
                  interest, ready>>
      /\ cur = None /\ c # None /\ d # None /\ http[c] \in HttpData
  BY NoneAssumption DEF IInv, ControlInv, TypeOK
<1>2. (queued(d)' <=> queued(d)) /\ (in_table(d)' <=> in_table(d)) /\ (alive(d)' <=> alive(d))
  BY <1>1 DEF queued, in_table, alive, owned
<1>3. \A e \in Conns : http'[e] = IF e = c THEN [http[c] EXCEPT !.events = {}] ELSE http[e]
  BY DEF IInv, TypeOK
<1>4. cur' \in {None, c}
  BY <1>1
<1>5. CASE d # c
  <2>1. http'[d] = http[d] /\ (d \in batch' <=> d \in batch) /\ (d = cur' <=> d = cur)
    BY <1>1, <1>3, <1>4, <1>5
  <2>2. d # cur
    BY <1>1
  <2> QED BY <1>1, <1>2, <2>1, <2>2, Untouched
<1>6. CASE d = c
  <2>1. /\ http'[c].events = {} /\ http'[c].state = http[c].state /\ http'[c].out = http[c].out
        /\ http'[c].last = http[c].last
    BY <1>1, <1>3 DEF HttpData
  <2>2. ConnInv(c) /\ in_table(c)
    BY DEF IInv, ControlInv
  <2>3. Registered(c)' /\ Fresh(c)'
    BY <1>1, <1>2, <1>6, <2>1, <2>2 DEF ConnInv, Registered, Fresh
  <2>4. Reported(c)' /\ Handled(c)'
    BY <1>1, <2>1, <2>2 DEF ConnInv, Reported, Handled
  <2>5. InputSeen(c)' /\ RoomSeen(c)'
    BY <1>1, <2>1, <2>2 DEF ConnInv, InputSeen, RoomSeen, Reported
  <2>6. Waits(c)' /\ Timed(c)'
    BY <1>1, <1>2, <1>6, <2>1, <2>2 DEF ConnInv, Waits, Timed, Reported
  <2> QED BY <1>6, <2>3, <2>4, <2>5, <2>6 DEF ConnInv
<1> QED BY <1>5, <1>6

(* What writen leaves behind: events_ ask for room only for an answer that did
   not fit, when there is none. *)
LEMMA WritesFacts ==
  ASSUME NEW h \in HttpData, NEW s \in Socket, NEW w \in writes(h, s)
  PROVE  /\ w \in HttpData \X BOOLEAN
         /\ w[1].last = h.last /\ w[1].state = h.state
         /\ w[2] => s.writable
         /\ "ONESHOT" \in w[1].events => "ONESHOT" \in h.events
         /\ "OUT" \in w[1].events => "OUT" \in h.events \/ ~w[2] \/ s.rst
         /\ ~w[1].error /\ h.state # "DISCONNECTED" /\ "OUT" \notin h.events =>
              ("OUT" \in w[1].events <=> w[1].out)
<1>1. w \in HttpData \X BOOLEAN
  BY WritesType
<1> DEFINE broken == [h EXCEPT !.error = TRUE, !.events = {"OUT"}]
           blocked == [h EXCEPT !.events = @ \cup {"OUT"}]
           sent == [h EXCEPT !.out = FALSE]
<1>2. /\ broken.last = h.last /\ broken.state = h.state /\ broken.error = TRUE
      /\ broken.events = {"OUT"}
      /\ blocked.last = h.last /\ blocked.state = h.state /\ blocked.out = h.out
      /\ blocked.events = h.events \cup {"OUT"}
      /\ sent.last = h.last /\ sent.state = h.state /\ sent.out = FALSE
      /\ sent.events = h.events
  BY DEF HttpData
<1> HIDE DEF broken, blocked, sent
<1>3. CASE h.error \/ h.state = "DISCONNECTED" \/ ~h.out
  <2>1. w = <<h, s.writable>>
    BY <1>3 DEF writes
  <2>2. w[1] = h /\ w[2] = s.writable
    BY <2>1
  <2> QED BY <1>1, <1>3, <2>2
<1>4. CASE ~(h.error \/ h.state = "DISCONNECTED" \/ ~h.out) /\ s.rst
  <2>1. w = <<broken, s.writable>>
    BY <1>4 DEF writes, broken
  <2>2. w[1] = broken /\ w[2] = s.writable
    BY <2>1
  <2> QED BY <1>1, <1>2, <1>4, <2>2
<1>5. CASE ~(h.error \/ h.state = "DISCONNECTED" \/ ~h.out) /\ ~s.rst
  <2>1. w = <<blocked, FALSE>> \/ (w = <<sent, TRUE>> /\ s.writable)
    BY <1>5 DEF writes, blocked, sent
  <2>2. CASE w = <<blocked, FALSE>>
    <3>1. w[1] = blocked /\ w[2] = FALSE
      BY <2>2
    <3> QED BY <1>1, <1>2, <1>5, <3>1
  <2>3. CASE w = <<sent, TRUE>> /\ s.writable
    <3>1. w[1] = sent /\ w[2] = TRUE
      BY <2>3
    <3> QED BY <1>1, <1>2, <1>5, <2>3, <3>1
  <2> QED BY <2>1, <2>2, <2>3
<1> QED BY <1>3, <1>4, <1>5

(* What the parser leaves: it asks for no room, and never forgets output. *)
LEMMA ParsesFacts ==
  ASSUME NEW h \in HttpData, NEW s \in Socket, NEW p \in parses(h, s)
  PROVE  /\ p \in HttpData \X BOOLEAN
         /\ p[1].last = h.last
         /\ p[1].events \subseteq h.events \cup {"IN"}
         /\ p[1].state = "DISCONNECTED" => h.state = "DISCONNECTED"
<1>1. p \in HttpData \X BOOLEAN
  BY ParsesType
<1> DEFINE seen == [h EXCEPT !.state = IF s.eof THEN "DISCONNECTING" ELSE @]
<1>2. /\ seen \in HttpData /\ seen.last = h.last /\ seen.events = h.events
      /\ seen.state = "DISCONNECTED" => h.state = "DISCONNECTED"
  BY DEF HttpData, Socket
<1> HIDE DEF seen
<1>3. \A g \in HttpData :
        /\ failed(g).last = g.last /\ failed(g).events = g.events /\ failed(g).state = g.state
        /\ answered(g) \in HttpData
        /\ answered(g).last = g.last /\ answered(g).events = g.events /\ answered(g).state = g.state
        /\ incomplete(g).last = g.last /\ incomplete(g).events = g.events \cup {"IN"}
        /\ incomplete(g).state = g.state
  BY DEF failed, answered, incomplete, HttpData
<1>4. p \in {<<h, FALSE>>, <<failed(h), FALSE>>, <<seen, FALSE>>, <<failed(seen), FALSE>>,
             <<answered(seen), TRUE>>, <<incomplete(answered(seen)), TRUE>>}
  BY DEF parses, seen
<1> DEFINE verdicts == {h, failed(h), seen, failed(seen), answered(seen), incomplete(answered(seen))}
<1>5. p[1] \in verdicts
  <2>1. \A a : <<a, FALSE>>[1] = a /\ <<a, TRUE>>[1] = a
    OBVIOUS
  <2> QED BY <1>4, <2>1
<1>6. \A g \in verdicts :
        /\ g.last = h.last /\ g.events \subseteq h.events \cup {"IN"}
        /\ g.state = "DISCONNECTED" => h.state = "DISCONNECTED"
  <2>1. answered(seen) \in HttpData
    BY <1>2, <1>3
  <2> QED BY <1>2, <1>3, <2>1
<1> HIDE DEF verdicts
<1> QED BY <1>1, <1>5, <1>6
-----------------------------------------------------------------------------
(* The connection whose handler has run, when handle_conn is next. *)
LEMMA HandlerDone ==
  ASSUME WaitInv, cur \in Conns, pc \in {"read", "write"}, pc' = "conn",
         UNCHANGED <<cur, batch, revents, functors, m_pending_functors, fd, fd_channel_, fd_http_,
                     interest, ready>>,
         NEW h \in HttpData, NEW s \in Socket,
         http' = [http EXCEPT ![cur] = h], sock' = [sock EXCEPT ![cur] = s],
         \A d \in Conns : d # cur => nodes'[d] = nodes[d],
         nodes'[cur] = {} \/ nodes'[cur] = nodes[cur],
         h.last = http[cur].last, h.state # "DISCONNECTED", "ONESHOT" \notin h.events,
         ~h.error => ("OUT" \in h.events <=> h.out),
         s.rst = sock[cur].rst, s.in => sock[cur].in /\ pc = "write",
         s.writable => sock[cur].writable,
         s.writable /\ "OUT" \in h.events => s.rst,
         NEW d \in Conns
  PROVE  ConnInv(d)'
<1> USE DEF WaitInv
<1>1. /\ \A e \in Conns : http'[e] = IF e = cur THEN h ELSE http[e]
      /\ \A e \in Conns : sock'[e] = IF e = cur THEN s ELSE sock[e]
  BY DEF IInv, TypeOK
<1>2. in_table(d)' <=> in_table(d)
  BY DEF in_table
<1>3. queued(d)' <=> queued(d)
  BY DEF queued
<1>4. alive(d)' => alive(d)
  BY DEF alive, owned
<1>5. CASE d # cur
  BY <1>1, <1>2, <1>3, <1>4, <1>5, Untouched
<1>6. CASE d = cur
  <2>1. http'[d] = h /\ sock'[d] = s /\ in_table(d) /\ ~queued(d) /\ fd[d] # None /\ d \notin batch
    BY <1>1, <1>6, Living DEF IInv, ControlInv, in_table
  <2>2. ConnInv(d)
    OBVIOUS
  <2>3. Registered(d)' /\ Fresh(d)'
    BY <1>2, <1>3, <1>6, <2>1, <2>2 DEF ConnInv, Registered, Fresh
  <2>4. Reported(d)' /\ Handled(d)'
    BY <1>6, <2>1, <2>2 DEF ConnInv, Reported, Handled
  <2>5. InputSeen(d)' /\ RoomSeen(d)'
    BY <1>6, <2>1, <2>2 DEF ConnInv, InputSeen, RoomSeen
  <2>6. Waits(d)' /\ Timed(d)'
    BY <1>6 DEF Waits, Timed
  <2> QED BY <2>2, <2>3, <2>4, <2>5, <2>6 DEF ConnInv
<1> QED BY <1>5, <1>6

LEMMA WriteConn ==
  ASSUME WaitInv, handle_write, NEW d \in Conns
  PROVE  ConnInv(d)'
<1> USE DEF handle_write, tableVars
<1>1. cur \in Conns /\ in_table(cur)
  BY DEF WaitInv, IInv, TypeOK, ControlInv
<1>2. /\ http[cur] \in HttpData /\ sock[cur] \in Socket
      /\ http \in [Conns -> HttpData] /\ sock \in [Conns -> Socket]
  BY <1>1 DEF WaitInv, IInv, TypeOK
<1>3. PICK w \in writes(http[cur], sock[cur]) :
        /\ http' = [http EXCEPT ![cur] = w[1]]
        /\ sock' = [sock EXCEPT ![cur].writable = w[2]]
  OBVIOUS
<1> DEFINE s == [sock[cur] EXCEPT !.writable = w[2]]
<1>4. w[1] \in HttpData /\ w[2] \in BOOLEAN
  BY <1>2, WritesFacts
<1>5. /\ s \in Socket /\ s.rst = sock[cur].rst /\ s.in = sock[cur].in /\ s.writable = w[2]
      /\ sock' = [sock EXCEPT ![cur] = s]
  BY <1>2, <1>3, <1>4 DEF Socket
<1>6. http[cur].state # "DISCONNECTED" /\ http[cur].events = {}
  BY <1>1 DEF WaitInv, ConnInv, Registered, Handled
<1>7. /\ w[1].last = http[cur].last /\ w[1].state # "DISCONNECTED"
      /\ "ONESHOT" \notin w[1].events
      /\ ~w[1].error => ("OUT" \in w[1].events <=> w[1].out)
      /\ w[2] => sock[cur].writable
      /\ "OUT" \in w[1].events => ~w[2] \/ sock[cur].rst
  BY <1>2, <1>6, WritesFacts
<1> HIDE DEF s
<1> QED BY <1>1, <1>3, <1>4, <1>5, <1>7, HandlerDone

LEMMA ReadConn ==
  ASSUME WaitInv, handle_read, NEW d \in Conns
  PROVE  ConnInv(d)'
<1> USE DEF tableVars
<1>1. cur \in Conns /\ in_table(cur) /\ pc = "read"
  BY DEF handle_read, WaitInv, IInv, TypeOK, ControlInv
<1>2. /\ http[cur] \in HttpData /\ sock[cur] \in Socket
      /\ http \in [Conns -> HttpData] /\ sock \in [Conns -> Socket]
  BY <1>1 DEF WaitInv, IInv, TypeOK
<1>3. PICK p \in parses(http[cur], sock[cur]) : \E w \in writes(p[1], sock[cur]) :
        LET finished == p[2] /\ ~w[1].error
            h == IF ~finished /\ ~w[1].error THEN incomplete(w[1]) ELSE w[1]
        IN  /\ http' = [http EXCEPT ![cur] = h]
            /\ sock' = [sock EXCEPT ![cur].in = FALSE, ![cur].writable = w[2]]
            /\ IF finished THEN seperate_timer(cur) ELSE UNCHANGED nodes
  BY DEF handle_read, leaves_unread
<1>4. PICK w \in writes(p[1], sock[cur]) :
        LET finished == p[2] /\ ~w[1].error
            h == IF ~finished /\ ~w[1].error THEN incomplete(w[1]) ELSE w[1]
        IN  /\ http' = [http EXCEPT ![cur] = h]
            /\ sock' = [sock EXCEPT ![cur].in = FALSE, ![cur].writable = w[2]]
            /\ IF finished THEN seperate_timer(cur) ELSE UNCHANGED nodes
  BY <1>3
<1> DEFINE h == IF ~(p[2] /\ ~w[1].error) /\ ~w[1].error THEN incomplete(w[1]) ELSE w[1]
           s == [sock[cur] EXCEPT !.in = FALSE, !.writable = w[2]]
<1>5. http[cur].state # "DISCONNECTED" /\ http[cur].events = {} /\ "OUT" \notin revents[cur]
  BY <1>1 DEF WaitInv, ConnInv, Registered, Reported, Handled
<1>6. /\ p[1] \in HttpData /\ p[1].last = http[cur].last /\ p[1].events \subseteq {"IN"}
      /\ p[1].state # "DISCONNECTED"
  BY <1>2, <1>5, ParsesFacts
<1>7. /\ w[1] \in HttpData /\ w[2] \in BOOLEAN
      /\ w[1].last = http[cur].last /\ w[1].state # "DISCONNECTED"
      /\ "ONESHOT" \notin w[1].events
      /\ ~w[1].error => ("OUT" \in w[1].events <=> w[1].out)
      /\ w[2] => sock[cur].writable
      /\ "OUT" \in w[1].events => ~w[2] \/ sock[cur].rst
  BY <1>2, <1>6, WritesFacts
<1>8. /\ incomplete(w[1]) \in HttpData /\ incomplete(w[1]).events = w[1].events \cup {"IN"}
      /\ incomplete(w[1]).last = w[1].last /\ incomplete(w[1]).state = w[1].state
      /\ incomplete(w[1]).error = w[1].error /\ incomplete(w[1]).out = w[1].out
  BY <1>7, FieldTypes DEF incomplete, HttpData
<1>9. /\ h \in HttpData /\ h.last = http[cur].last /\ h.state # "DISCONNECTED"
      /\ "ONESHOT" \notin h.events
      /\ ~h.error => ("OUT" \in h.events <=> h.out)
      /\ "OUT" \in h.events => ~w[2] \/ sock[cur].rst
  BY <1>7, <1>8
<1>10. /\ s \in Socket /\ s.rst = sock[cur].rst /\ s.in = FALSE /\ s.writable = w[2]
       /\ sock' = [sock EXCEPT ![cur] = s]
  BY <1>2, <1>4, <1>7 DEF Socket
<1>11. http' = [http EXCEPT ![cur] = h]
  BY <1>4
<1>12. /\ \A e \in Conns : e # cur => nodes'[e] = nodes[e]
       /\ nodes'[cur] = {} \/ nodes'[cur] = nodes[cur]
  <2>1. UNCHANGED nodes \/ seperate_timer(cur)
    BY <1>4
  <2> QED BY <1>1, <2>1, OneNode DEF seperate_timer, WaitInv, IInv, TypeOK
<1>13. /\ pc' = "conn"
       /\ UNCHANGED <<cur, batch, revents, functors, m_pending_functors, fd, fd_channel_, fd_http_,
                      interest, ready>>
  BY <1>5 DEF handle_read
<1> HIDE DEF h, s
<1> QED BY <1>1, <1>7, <1>9, <1>10, <1>11, <1>12, <1>13, HandlerDone

(* What handle_conn registers is waited for, and all that the connection needs. *)
LEMMA RearmFacts ==
  ASSUME NEW e \in SUBSET Events, "ONESHOT" \notin e
  PROVE  /\ rearm_events(e) \in SUBSET Events /\ rearm_events(e) # {}
         /\ "ONESHOT" \notin rearm_events(e) /\ ~({"IN", "OUT"} \subseteq rearm_events(e))
         /\ "OUT" \in rearm_events(e) <=> "OUT" \in e
         /\ "OUT" \notin e => "IN" \in rearm_events(e)
BY DEF rearm_events, Events

LEMMA HandleConn ==
  ASSUME WaitInv, handle_conn, NEW d \in Conns
  PROVE  ConnInv(d)'
<1> USE DEF tableVars
<1>1. /\ cur \in Conns /\ in_table(cur) /\ pc = "conn" /\ cur \notin batch
      /\ alive(cur) /\ ~queued(cur) /\ fd[cur] # None
  BY Living DEF handle_conn, WaitInv, IInv, TypeOK, ControlInv, in_table
<1>2. /\ UNCHANGED <<batch, revents, functors, m_pending_functors, fd, sock>>
      /\ cur' = None /\ d # None /\ cur # None
  BY NoneAssumption, <1>1 DEF handle_conn
<1>3. /\ http[cur] \in HttpData /\ sock[cur] \in Socket
      /\ http \in [Conns -> HttpData] /\ nodes \in [Conns -> SUBSET TimerNode]
      /\ interest \in [Conns -> SUBSET Events]
  BY <1>1 DEF WaitInv, IInv, TypeOK
<1>4. ConnInv(cur) /\ ConnInv(d)
  BY <1>1 DEF WaitInv
<1>5. /\ http[cur].events \in SUBSET Events /\ "ONESHOT" \notin http[cur].events
      /\ ~http[cur].error => ("OUT" \in http[cur].events <=> http[cur].out)
      /\ http[cur].state # "DISCONNECTED"
  BY <1>1, <1>3, <1>4 DEF ConnInv, Handled, Registered, HttpData
<1>6. \A e \in Conns : e # cur => nodes'[e] = nodes[e]
  BY <1>1, <1>3 DEF handle_conn, rearm_timer, seperate_timer
<1>7. queued(d)' <=> queued(d)
  BY <1>2 DEF queued
<1>8. ASSUME UNCHANGED tableVars, d # cur, http'[d] = http[d], interest'[d] = interest[d],
             d \in ready => d \in ready'
      PROVE  ConnInv(d)'
  <2>1. (in_table(d)' <=> in_table(d)) /\ (alive(d)' => alive(d)) /\ nodes'[d] = nodes[d]
    BY <1>2, <1>6, <1>7, <1>8 DEF in_table, alive, owned, queued
  <2>2. d # cur'
    BY <1>2
  <2> QED BY <1>2, <1>4, <1>7, <1>8, <2>1, <2>2, Untouched
<1>9. CASE /\ ~http[cur].error /\ http[cur].state = "CONNECTED"
           /\ uepoll_mod(cur, http[cur], rearm_events(http[cur].events))
           /\ rearm_timer(cur) /\ UNCHANGED tableVars
  <2> DEFINE e == rearm_events(http[cur].events)
  <2>1. /\ e \in SUBSET Events /\ e # {} /\ "ONESHOT" \notin e /\ ~({"IN", "OUT"} \subseteq e)
        /\ "OUT" \in e <=> "OUT" \in http[cur].events
        /\ "OUT" \notin http[cur].events => "IN" \in e
    BY <1>5, RearmFacts
  <2> HIDE DEF e
  <2>2. /\ http' = [http EXCEPT ![cur] = [http[cur] EXCEPT !.events = e, !.last = e]]
        /\ IF e # http[cur].last THEN epoll_ctl(cur, e) ELSE UNCHANGED <<interest, ready>>
    BY <1>9 DEF uepoll_mod, e
  <2>3. CASE d # cur
    <3>1. http'[d] = http[d] /\ interest'[d] = interest[d] /\ (d \in ready => d \in ready')
      BY <1>3, <2>2, <2>3 DEF epoll_ctl
    <3> QED BY <1>8, <1>9, <2>3, <3>1
  <2>4. CASE d = cur
    <3>1. /\ http'[cur].last = e /\ http'[cur].state = "CONNECTED"
          /\ http'[cur].out = http[cur].out
      BY <1>1, <1>3, <1>9, <2>2 DEF HttpData
    <3>2. interest'[cur] = e
      <4>1. CASE e # http[cur].last
        BY <1>1, <1>3, <2>2, <4>1 DEF epoll_ctl
      <4>2. CASE e = http[cur].last
        BY <1>1, <1>4, <2>1, <2>2, <4>2 DEF ConnInv, Registered
      <4> QED BY <4>1, <4>2
    <3>3. in_table(d)' /\ nodes'[cur] # {}
      BY <1>1, <1>2, <1>3, <1>9, <2>4 DEF in_table, rearm_timer, linked_to_new
    <3>4. "IN" \in e /\ sock[cur].in /\ ~sock[cur].rst => cur \in ready'
      <4>1. CASE e # http[cur].last
        BY <1>3, <2>1, <2>2, <4>1 DEF epoll_ctl, reported, status
      <4>2. CASE e = http[cur].last
        BY <1>1, <1>4, <2>2, <3>2, <4>2 DEF ConnInv, InputSeen
      <4> QED BY <4>1, <4>2
    <3>5. "OUT" \in e /\ sock[cur].writable /\ ~sock[cur].rst => cur \in ready'
      <4>1. CASE e # http[cur].last
        BY <1>3, <2>1, <2>2, <4>1 DEF epoll_ctl, reported, status
      <4>2. CASE e = http[cur].last
        BY <1>1, <1>4, <2>1, <2>2, <3>2, <4>2 DEF ConnInv, RoomSeen
      <4> QED BY <4>1, <4>2
    <3>6. Registered(d)' /\ Fresh(d)'
      BY <1>1, <1>2, <1>7, <2>1, <2>4, <3>1, <3>2, <3>3 DEF Registered, Fresh
    <3>7. Reported(d)' /\ Handled(d)'
      BY <1>2, <1>4, <2>4 DEF ConnInv, Reported, Handled
    <3>8. InputSeen(d)' /\ RoomSeen(d)'
      BY <1>2, <2>4, <3>2, <3>4, <3>5 DEF InputSeen, RoomSeen
    <3>9. Waits(d)' /\ Timed(d)'
      BY <1>5, <1>9, <2>1, <2>4, <3>1, <3>2, <3>3 DEF Waits, Timed
    <3> QED BY <2>4, <3>6, <3>7, <3>8, <3>9 DEF ConnInv
  <2> QED BY <2>3, <2>4
<1>10. CASE /\ ~http[cur].error /\ http[cur].state = "DISCONNECTING" /\ "OUT" \in http[cur].events
            /\ http' = [http EXCEPT ![cur].events = {"OUT"}]
            /\ seperate_timer(cur)
            /\ UNCHANGED <<interest, ready, tableVars>>
  <2>1. CASE d # cur
    <3>1. http'[d] = http[d]
      BY <1>3, <1>10, <2>1
    <3> QED BY <1>8, <1>10, <2>1, <3>1
  <2>2. CASE d = cur
    <3>1. /\ http'[cur].last = http[cur].last /\ http'[cur].state = "DISCONNECTING"
          /\ http'[cur].out = http[cur].out /\ http[cur].out
      BY <1>1, <1>3, <1>5, <1>10 DEF HttpData
    <3>2. in_table(d)'
      BY <1>1, <1>2, <1>10, <2>2 DEF in_table
    <3>3. Registered(d)' /\ Fresh(d)'
      BY <1>1, <1>2, <1>4, <1>7, <1>10, <2>2, <3>1, <3>2 DEF ConnInv, Registered, Fresh
    <3>4. Reported(d)' /\ Handled(d)'
      BY <1>2, <1>4, <2>2 DEF ConnInv, Reported, Handled
    <3>5. InputSeen(d)' /\ RoomSeen(d)'
      BY <1>1, <1>2, <1>4, <1>10, <2>2 DEF ConnInv, InputSeen, RoomSeen
    <3>6. Waits(d)' /\ Timed(d)'
      BY <2>2, <3>1 DEF Waits, Timed
    <3> QED BY <2>2, <3>3, <3>4, <3>5, <3>6 DEF ConnInv
  <2> QED BY <2>1, <2>2
<1>11. CASE handle_close(cur) /\ seperate_timer(cur)
  <2>1. CASE d # cur
    <3>1. /\ http'[d] = http[d] /\ interest'[d] = interest[d]
          /\ d \in ready => d \in ready'
          /\ in_table(d)' <=> in_table(d)
          /\ \A f \in Fds : fd_http_'[f] = d => fd_http_[f] = d
      BY <1>1, <1>2, <1>11, <2>1, CloseFrame DEF WaitInv
    <3>2. alive(d)' => alive(d)
      BY <1>2, <1>6, <2>1, <3>1 DEF alive, owned
    <3>3. d # cur' /\ nodes'[d] = nodes[d]
      BY <1>2, <1>6, <2>1
    <3> QED BY <1>2, <1>4, <1>7, <2>1, <3>1, <3>2, <3>3, Untouched
  <2>2. CASE d = cur
    <3>1. d # cur' /\ handle_close(d)
      BY <1>2, <1>11, <2>2
    <3>2. ConnInv(d)'
      BY <1>1, <1>2, <1>4, <1>11, <2>2, <3>1, ClosedConn DEF WaitInv
    <3> QED BY <2>2, <3>2
  <2> QED BY <2>1, <2>2
<1> QED BY <1>9, <1>10, <1>11 DEF handle_conn
-----------------------------------------------------------------------------
(* new_event registers a connection that asks for input, muted after the first
   event, and touches no other. *)
LEMMA FunctorConn ==
  ASSUME WaitInv, call_functor, NEW d \in Conns
  PROVE  ConnInv(d)'
<1>1. PICK c \in Conns :
        /\ c = Head(functors)
        /\ Range(functors) = {c} \cup Range(Tail(functors)) /\ c \notin Range(Tail(functors))
  BY TailRange DEF call_functor, WaitInv, IInv, TypeOK, QueueInv
<1>2. /\ UNCHANGED <<pc, cur, batch, revents, m_pending_functors, fd, sock>>
      /\ functors' = Tail(functors)
      /\ pc = "functors" /\ cur = None /\ batch = {}
  BY DEF call_functor, WaitInv, IInv, ControlInv
<1>3. PICK added \in BOOLEAN : new_event(c, added)
  BY <1>1 DEF call_functor
<1>4. /\ queued(c) /\ c \notin Range(m_pending_functors) /\ ~queued(c)'
      /\ alive(c) /\ \A f \in Fds : fd_http_[f] # c
  BY <1>1, <1>2, Living DEF queued, WaitInv, IInv, QueueInv
<1>5. /\ ~in_table(c) /\ interest[c] = {} /\ ConnInv(c) /\ ConnInv(d)
      /\ d # None /\ fd[c] \in Fds
      /\ in_table(d) /\ d # c => fd[d] # fd[c]
  BY <1>4, Living, Unregistered, NoneAssumption DEF WaitInv, IInv, TableInv, TypeOK, alive
<1> USE DEF new_event, WaitInv, IInv, TypeOK
<1>6. CASE d # c
  <2>1. /\ http'[d] = http[d] /\ nodes'[d] = nodes[d] /\ interest'[d] = interest[d]
        /\ d \in ready => d \in ready'
    BY <1>3, <1>6 DEF epoll_ctl, add_timer
  <2>2. queued(d)' <=> queued(d)
    BY <1>1, <1>2, <1>6 DEF queued
  <2>3. \A f \in Fds : fd_http_'[f] = d => fd_http_[f] = d
    BY <1>3, <1>6
  <2>4. alive(d)' => alive(d)
    BY <1>2, <2>1, <2>2, <2>3 DEF alive, owned, queued
  <2>5. in_table(d)' <=> in_table(d)
    <3>1. \A f \in Fds : f # fd[c] => fd_channel_'[f] = fd_channel_[f]
      BY <1>3
    <3>2. fd_channel_'[fd[c]] \in {c, None}
      BY <1>3, <1>5
    <3> QED BY <1>2, <1>5, <1>6, <3>1, <3>2 DEF in_table
  <2> QED BY <1>2, <1>5, <2>1, <2>2, <2>4, <2>5, Untouched
<1>7. CASE d = c
  <2>1. /\ http'[d].last = {"IN", "ONESHOT"} /\ http'[d].state = http[d].state
        /\ http'[d].out = http[d].out
    BY <1>3, <1>7 DEF HttpData
  <2>2. http[d].state = "CONNECTED" /\ ~http[d].out
    BY <1>4, <1>5, <1>7 DEF ConnInv, Fresh
  <2>3. nodes'[d] # {}
    BY <1>3, <1>7 DEF add_timer, linked_to_new
  <2>4. \/ added /\ in_table(d)' /\ interest'[d] = {"IN", "ONESHOT"}
        \/ ~added /\ ~in_table(d)' /\ interest'[d] = {}
    <3>1. CASE added
      <4>1. fd_channel_'[fd[d]] = d /\ interest'[d] = {"IN", "ONESHOT"}
        BY <1>3, <1>5, <1>7, <3>1 DEF epoll_ctl
      <4> QED BY <1>2, <1>5, <1>7, <3>1, <4>1, NoneAssumption DEF in_table
    <3>2. CASE ~added
      <4>1. fd_channel_'[fd[d]] = None /\ interest'[d] = {}
        BY <1>3, <1>5, <1>7, <3>2
      <4> QED BY <1>2, <1>5, <1>7, <3>2, <4>1 DEF in_table
    <3> QED BY <3>1, <3>2
  <2>5. added /\ sock[d].in => d \in ready'
    BY <1>3, <1>7 DEF epoll_ctl, reported, status
  <2>6. d # cur' /\ d \notin batch' /\ ~queued(d)' /\ fd'[d] # None
    BY <1>2, <1>4, <1>5, <1>7, NoneAssumption
  <2>7. Registered(d)' /\ Fresh(d)'
    BY <2>1, <2>2, <2>4, <2>6 DEF Registered, Fresh
  <2>8. Reported(d)' /\ Handled(d)'
    BY <1>2, <1>5, <2>6 DEF ConnInv, Reported, Handled
  <2>9. InputSeen(d)' /\ RoomSeen(d)'
    BY <1>2, <2>4, <2>5 DEF InputSeen, RoomSeen
  <2>10. Waits(d)' /\ Timed(d)'
    BY <2>1, <2>2, <2>3, <2>4 DEF Waits, Timed
  <2> QED BY <2>7, <2>8, <2>9, <2>10 DEF ConnInv
<1> QED BY <1>6, <1>7

(* ~timer_node closes the connection, and no other. *)
LEMMA ExpiredConn ==
  ASSUME WaitInv, NEW c \in Conns, handle_expired(c), NEW d \in Conns
  PROVE  ConnInv(d)'
<1> USE DEF handle_expired, loopVars, WaitInv
<1>1. /\ cur = None /\ batch = {} /\ c # None /\ d # None
      /\ UNCHANGED <<pc, cur, batch, revents, functors, m_pending_functors, fd, sock>>
  BY NoneAssumption DEF IInv, ControlInv
<1>2. nodes[c] # {} /\ handle_close(c) /\ alive(c)
  BY Living
<1>3. CASE d # c
  <2>1. nodes'[d] = nodes[d]
    BY <1>3 DEF IInv, TypeOK
  <2>2. queued(d)' <=> queued(d)
    BY <1>1 DEF queued
  <2>3. /\ http'[d] = http[d] /\ interest'[d] = interest[d] /\ (d \in ready => d \in ready')
        /\ in_table(d)' <=> in_table(d)
        /\ \A f \in Fds : fd_http_'[f] = d => fd_http_[f] = d
    BY <1>1, <1>2, <1>3, CloseFrame
  <2>4. alive(d)' => alive(d)
    BY <1>1, <2>1, <2>2, <2>3 DEF alive, owned, queued
  <2>5. ConnInv(d)
    OBVIOUS
  <2> QED BY <1>1, <2>1, <2>2, <2>3, <2>4, <2>5, Untouched
<1>4. CASE d = c
  <2>1. ConnInv(d) /\ d # cur' /\ d \notin batch /\ nodes[d] # {} /\ handle_close(d)
    BY <1>1, <1>2, <1>4
  <2> QED BY <1>1, <2>1, ClosedConn
<1> QED BY <1>3, <1>4

(* Steps that only move the loop, and the passing of time. *)
LEMMA QuietConn ==
  ASSUME WaitInv,
         \/ doPendingFunctors \/ functors_done \/ expired_done \/ UNCHANGED vars
         \/ \E c \in Conns : time_passes(c),
         NEW d \in Conns
  PROVE  ConnInv(d)'
<1> USE DEF doPendingFunctors, functors_done, expired_done, vars, time_passes, loopVars, tableVars,
            kernelVars, WaitInv
<1>1. /\ UNCHANGED <<cur, batch, revents, fd, fd_channel_, fd_http_, http, sock, interest, ready>>
      /\ cur # None => pc' = pc
  BY DEF IInv, ControlInv
<1>2. Range(<<>>) = {}
  BY DEF Range
<1>3. queued(d)' <=> queued(d)
  <2>1. CASE doPendingFunctors
    <3>1. functors = <<>> /\ Range(functors') = Range(m_pending_functors) /\ Range(m_pending_functors') = {}
      BY <1>2, <2>1 DEF IInv, QueueInv
    <3> QED BY <1>2, <3>1 DEF queued
  <2>2. CASE UNCHANGED <<functors, m_pending_functors>>
    BY <2>2 DEF queued
  <2> QED BY <2>1, <2>2
<1>4. nodes'[d] = {} <=> nodes[d] = {}
  BY ZenonT(40) DEF IInv, TypeOK
<1>5. (in_table(d)' <=> in_table(d)) /\ (alive(d)' => alive(d))
  BY <1>1, <1>3, <1>4 DEF in_table, alive, owned, queued
<1>6. ConnInv(d) /\ d # None
  BY NoneAssumption
<1> QED BY <1>1, <1>3, <1>4, <1>5, <1>6, Untouched

LEMMA WaitInit == Init => WaitInv
<1> SUFFICES ASSUME Init PROVE WaitInv
  OBVIOUS
<1>1. IInv
  BY InitInv
<1>2. ASSUME NEW c \in Conns PROVE ConnInv(c)
  <2> USE DEF Init, NewHttpData, NewSocket
  <2>1. c # cur /\ ~in_table(c) /\ ~alive(c) /\ revents[c] = {} /\ interest[c] = {}
    BY NoneAssumption DEF in_table, alive
  <2>2. Registered(c) /\ Fresh(c) /\ Reported(c) /\ Handled(c)
    BY <2>1 DEF Registered, Fresh, Reported, Handled
  <2>3. InputSeen(c) /\ RoomSeen(c) /\ Waits(c) /\ Timed(c)
    BY <2>1 DEF InputSeen, RoomSeen, Waits, Timed
  <2> QED BY <2>2, <2>3 DEF ConnInv
<1> QED BY <1>1, <1>2 DEF WaitInv

LEMMA WaitStep == WaitInv /\ [Next]_vars => WaitInv'
<1> SUFFICES ASSUME WaitInv, [Next]_vars PROVE WaitInv'
  OBVIOUS
<1>1. IInv'
  BY TypeStep, TimerStep, OwnerStep, ControlStep DEF IInv, WaitInv
<1>2. ASSUME NEW d \in Conns PROVE ConnInv(d)'
  <2>1. CASE poll BY <2>1, PollConn
  <2>2. CASE handle_read BY <2>2, ReadConn
  <2>3. CASE handle_write BY <2>3, WriteConn
  <2>4. CASE handle_conn BY <2>4, HandleConn
  <2>5. CASE call_functor BY <2>5, FunctorConn
  <2>6. ASSUME NEW c \in Conns, handle_events(c) PROVE ConnInv(d)'
    BY <2>6, EventsConn
  <2>7. ASSUME NEW c \in Conns, handle_expired(c) PROVE ConnInv(d)'
    BY <2>7, ExpiredConn
  <2>8. ASSUME NEW c \in Conns, NEW f \in Fds, handle_new_conn(c, f) PROVE ConnInv(d)'
    BY <2>8, AcceptConn
  <2>9. ASSUME NEW c \in Conns,
               peer_sends(c) \/ peer_shuts_down(c) \/ peer_resets(c) \/ peer_drains(c)
        PROVE  ConnInv(d)'
    BY <2>9, PeerConn
  <2>10. CASE \/ doPendingFunctors \/ functors_done \/ expired_done \/ UNCHANGED vars
              \/ \E c \in Conns : time_passes(c)
    BY <2>10, QuietConn
  <2> QED BY <2>1, <2>2, <2>3, <2>4, <2>5, <2>6, <2>7, <2>8, <2>9, <2>10
          DEF Next, LoopStep, Environment
<1> QED BY <1>1, <1>2 DEF WaitInv

(* The inductive invariant of what connections wait for. *)
THEOREM WaitInvariant == SafeSpec => []WaitInv
BY WaitInit, WaitStep, PTL DEF SafeSpec

(* Input that has arrived is never stranded behind the edge trigger. *)
THEOREM InputIsNeverLost == SafeSpec => []NoLostInput
<1>1. WaitInv => NoLostInput
  BY DEF WaitInv, ConnInv, InputSeen, NoLostInput
<1> QED BY WaitInvariant, <1>1, PTL

(* Nor is an answer that there is room for. *)
THEOREM OutputIsNeverLost == SafeSpec => []NoLostOutput
<1>1. WaitInv => NoLostOutput
  BY DEF WaitInv, ConnInv, RoomSeen, NoLostOutput
<1> QED BY WaitInvariant, <1>1, PTL

(* While the loop sleeps, connected connections wait for what they need. *)
THEOREM SleepersWaitForTheirNeeds == SafeSpec => []WaitsForWhatItNeeds
<1>1. ASSUME WaitInv, pc = "poll", NEW f \in Fds, fd_channel_[f] # None,
             http[fd_channel_[f]].state = "CONNECTED", ~sock[fd_channel_[f]].rst
      PROVE  /\ http[fd_channel_[f]].out => "OUT" \in interest[fd_channel_[f]]
             /\ ~http[fd_channel_[f]].out => "IN" \in interest[fd_channel_[f]]
  <2>1. PICK c \in Conns : c = fd_channel_[f]
    BY <1>1 DEF WaitInv, IInv, TypeOK
  <2>2. in_table(c) /\ c # cur /\ c \notin batch
    BY <1>1, <2>1, NoneAssumption DEF WaitInv, IInv, TableInv, ControlInv, in_table
  <2>3. IF http[c].out THEN "OUT" \in interest[c] ELSE "IN" \in interest[c]
    BY <1>1, <2>1, <2>2 DEF WaitInv, ConnInv, Waits
  <2> QED BY <2>1, <2>3
<1>2. WaitInv => WaitsForWhatItNeeds
  BY <1>1 DEF WaitsForWhatItNeeds
<1> QED BY WaitInvariant, <1>2, PTL

(* Only a connection that its peer has shut down lives without a timer. *)
THEOREM TimersAreMissingOnlyThere == SafeSpec => []OnlyBlockedCloseHasNoTimer
<1>1. ASSUME WaitInv, pc = "poll", NEW c \in Conns, alive(c), nodes[c] = {}
      PROVE  c \in Range(m_pending_functors) \/ (http[c].state = "DISCONNECTING" /\ http[c].out)
  <2>1. functors = <<>> /\ c # cur
    BY <1>1, NoneAssumption DEF WaitInv, IInv, QueueInv, ControlInv
  <2>2. Range(functors) = {}
    BY <2>1 DEF Range
  <2> QED BY <1>1, <2>1, <2>2 DEF WaitInv, ConnInv, Timed, queued
<1>2. WaitInv => OnlyBlockedCloseHasNoTimer
  BY <1>1 DEF OnlyBlockedCloseHasNoTimer
<1> QED BY WaitInvariant, <1>2, PTL
-----------------------------------------------------------------------------
(* readn, writen and append_file::append, for any bytes and whatever any number
   of calls return: after each call the loop is in a state that the bytes moved
   so far and the cause that ended it determine. *)

(* What the k-th result adds, the sums of the first k, whether one of the first k
   has ended the loop, and whether it was e. *)
gain(results, ends, k) == IF k \in calls(results, ends) /\ results[k] > 0 THEN results[k] ELSE 0
sums(results, ends) ==
  CHOOSE f : f = [k \in 0 .. Len(results) |-> IF k = 0 THEN 0 ELSE f[k - 1] + gain(results, ends, k)]
stopped(results, ends, k) == \E j \in 1 .. k : results[j] \in ends
stopped_by(results, ends, k, e) == \E j \in 1 .. k : j \in calls(results, ends) /\ results[j] = e

LEMMA Sums ==
  ASSUME NEW results \in Seq(Int), NEW ends
  PROVE  LET m == Len(results)
             f == sums(results, ends)
         IN  /\ m \in Nat /\ moved(results, ends) = f[m]
             /\ f \in [0 .. m -> Nat] /\ f[0] = 0
             /\ \A k \in 1 .. m : f[k] = f[k - 1] + gain(results, ends, k)
             /\ \A k \in 0 .. m : f[k] <= f[m]
<1> DEFINE m == Len(results)
           F(g) == [k \in 0 .. m |-> IF k = 0 THEN 0 ELSE g[k - 1] + gain(results, ends, k)]
           f == sums(results, ends)
           step == [k \in 1 .. m |-> [x \in Nat |-> x + gain(results, ends, k)]]
<1>1. m \in Nat /\ \A k \in 1 .. m : gain(results, ends, k) \in Nat
  BY DEF gain
<1>2. moved(results, ends) = f[m]
  BY Zenon DEF moved, sums, gain
<1>3. f = CHOOSE g : g = F(g)
  BY DEF sums
<1> HIDE DEF m, f
<1>4. step \in [1 .. m -> [Nat -> Nat]]
  BY <1>1
<1>5. PICK g \in [0 .. m -> Nat] : g[0] = 0 /\ \A k \in 1 .. m : g[k] = step[k][g[k - 1]]
  <2> HIDE DEF step, F
  <2>1. m \in Nat /\ 0 \in Nat
    BY <1>1
  <2>2. Runs(m, Nat, 0, step) # {}
    BY <1>4, <2>1, LoopRuns
  <2> QED BY <2>2 DEF Runs
<1>6. \A k \in 0 .. m : g[k] = IF k = 0 THEN 0 ELSE g[k - 1] + gain(results, ends, k)
  <2> SUFFICES ASSUME NEW k \in 1 .. m PROVE g[k] = g[k - 1] + gain(results, ends, k)
    BY <1>1, <1>5
  <2>1. k - 1 \in 0 .. m /\ g[k - 1] \in Nat
    BY <1>1
  <2> QED BY <1>5, <2>1
<1>7. g = F(g)
  <2>1. g = [k \in 0 .. m |-> g[k]]
    OBVIOUS
  <2> QED BY <1>6, <2>1
<1>8. f = F(f)
  <2> HIDE DEF F
  <2> QED BY <1>3, <1>7
<1>9. f[0] = 0 /\ \A k \in 1 .. m : f[k] = f[k - 1] + gain(results, ends, k)
  BY <1>1, <1>8
<1>10. \A k \in 0 .. m : f[k] \in Nat
  <2> DEFINE S == {k \in 0 .. m : f[k] \in Nat}
  <2>1. 0 \in S
    BY <1>1, <1>9
  <2>2. ASSUME NEW k \in 0 .. m - 1, k \in S PROVE k + 1 \in S
    <3>1. k + 1 \in 1 .. m /\ k + 1 - 1 = k /\ f[k] \in Nat
      BY <1>1, <2>2
    <3> QED BY <1>1, <1>9, <3>1
  <2>3. \A k \in 0 .. m : k \in S
    <3> HIDE DEF S
    <3> QED BY <1>1, <2>1, <2>2, AllNumbersUpTo
  <2> QED BY <2>3
<1>11. f \in [0 .. m -> Nat]
  BY <1>8, <1>10
<1>12. \A k \in 0 .. m : f[k] <= f[m]
  <2> DEFINE S == {k \in 0 .. m : f[k] <= f[m]}
  <2>1. m \in S
    BY <1>1, <1>10
  <2>2. ASSUME NEW k \in 0 .. m - 1, k + 1 \in S PROVE k \in S
    <3>1. k + 1 \in 1 .. m /\ (k + 1) - 1 = k /\ k \in 0 .. m /\ m \in 0 .. m
      BY <1>1
    <3>2. f[k + 1] = f[(k + 1) - 1] + gain(results, ends, k + 1)
      BY <1>9, <3>1
    <3>3. f[k] \in Nat /\ f[k + 1] \in Nat /\ f[m] \in Nat /\ gain(results, ends, k + 1) \in Nat
      BY <1>1, <1>10, <3>1
    <3>4. f[k + 1] <= f[m]
      BY <2>2
    <3> HIDE DEF S
    <3>5. f[k] <= f[m]
      BY <3>1, <3>2, <3>3, <3>4
    <3> QED BY <3>1, <3>5 DEF S
  <2>3. \A k \in 0 .. m : k \in S
    <3> HIDE DEF S
    <3> QED BY <1>1, <2>1, <2>2, AllNumbersDownFrom
  <2> QED BY <2>3
<1> QED BY <1>1, <1>2, <1>9, <1>11, <1>12 DEF m, f

(* A result is that of a call as long as nothing has ended the loop. *)
LEMMA Calls ==
  ASSUME NEW results \in Seq(Int), NEW ends, NEW k \in 1 .. Len(results)
  PROVE  /\ k \in calls(results, ends) <=> ~stopped(results, ends, k - 1)
         /\ stopped(results, ends, k) <=> stopped(results, ends, k - 1) \/ results[k] \in ends
         /\ \A e : stopped_by(results, ends, k, e) <=>
              \/ stopped_by(results, ends, k - 1, e)
              \/ ~stopped(results, ends, k - 1) /\ results[k] = e
         /\ \A e : stopped_by(results, ends, Len(results), e) <=> ended_by(results, ends, e)
<1>1. k \in calls(results, ends) <=> ~stopped(results, ends, k - 1)
  BY DEF calls, stopped
<1>2. 1 .. k = 1 .. (k - 1) \cup {k}
  OBVIOUS
<1>3. stopped(results, ends, k) <=> stopped(results, ends, k - 1) \/ results[k] \in ends
  BY <1>2, Zenon DEF stopped
<1>4. ASSUME NEW e
      PROVE stopped_by(results, ends, k, e) <=> stopped_by(results, ends, k - 1, e)
                                                \/ (~stopped(results, ends, k - 1) /\ results[k] = e)
  <2> DEFINE by(j) == j \in calls(results, ends) /\ results[j] = e
  <2>1. by(k) <=> ~stopped(results, ends, k - 1) /\ results[k] = e
    BY <1>1, Zenon
  <2>2. /\ stopped_by(results, ends, k, e) <=> \E j \in 1 .. k : by(j)
        /\ stopped_by(results, ends, k - 1, e) <=> \E j \in 1 .. (k - 1) : by(j)
    BY Zenon DEF stopped_by
  <2> HIDE DEF by
  <2>3. (\E j \in 1 .. k : by(j)) <=> (\E j \in 1 .. (k - 1) : by(j)) \/ by(k)
    BY <1>2, Zenon
  <2> QED BY <2>1, <2>2, <2>3, Zenon
<1>5. ASSUME NEW e
      PROVE stopped_by(results, ends, Len(results), e) <=> ended_by(results, ends, e)
  <2>1. \A j : j \in calls(results, ends) => j \in 1 .. Len(results)
    BY DEF calls
  <2> QED BY <2>1, Zenon DEF stopped_by, ended_by
<1> QED BY <1>1, <1>3, <1>4, <1>5, Zenon

(* What the end of a loop is called, and that of a loop after its first k
   results. *)
kind(n) == IF n = 0 THEN "zero" ELSE IF n = EIO THEN "error" ELSE "again"
cause(results, ends, k) ==
  IF ~stopped(results, ends, k) THEN "no"
  ELSE IF 0 \in ends /\ stopped_by(results, ends, k, 0) THEN "zero"
  ELSE IF EIO \in ends /\ stopped_by(results, ends, k, EIO) THEN "error"
  ELSE "again"

LEMMA Causes ==
  ASSUME NEW results \in Seq(Int), NEW ends
  PROVE  /\ cause(results, ends, 0) = "no"
         /\ \A k \in 1 .. Len(results) :
              /\ k \in calls(results, ends) <=> cause(results, ends, k - 1) = "no"
              /\ cause(results, ends, k) = IF cause(results, ends, k - 1) = "no" /\ results[k] \in ends
                                           THEN kind(results[k]) ELSE cause(results, ends, k - 1)
         /\ EIO \in ends => (ended_by(results, ends, EIO) <=> cause(results, ends, Len(results)) = "error")
         /\ 0 \in ends => (ended_by(results, ends, 0) <=> cause(results, ends, Len(results)) = "zero")
<1> DEFINE m == Len(results)
           by(k, e) == stopped_by(results, ends, k, e)
           stop(k) == stopped(results, ends, k)
<1>0. EIO = -3 /\ m \in Nat
  BY DEF EIO
<1>1. ~stop(0)
  BY DEF stopped
<1>2. ASSUME NEW k, NEW e \in ends, by(k, e)
      PROVE  stop(k)
  BY <1>2, Zenon DEF stopped, stopped_by
<1>3. ASSUME NEW k \in 1 .. m
      PROVE  /\ k \in calls(results, ends) <=> cause(results, ends, k - 1) = "no"
             /\ cause(results, ends, k) = IF cause(results, ends, k - 1) = "no" /\ results[k] \in ends
                                          THEN kind(results[k]) ELSE cause(results, ends, k - 1)
  <2>1. /\ k \in calls(results, ends) <=> ~stop(k - 1)
        /\ stop(k) <=> stop(k - 1) \/ results[k] \in ends
        /\ by(k, 0) <=> by(k - 1, 0) \/ (~stop(k - 1) /\ results[k] = 0)
        /\ by(k, EIO) <=> by(k - 1, EIO) \/ (~stop(k - 1) /\ results[k] = EIO)
    BY Calls
  <2>2. (0 \in ends /\ by(k - 1, 0) => stop(k - 1)) /\ (EIO \in ends /\ by(k - 1, EIO) => stop(k - 1))
    BY <1>2
  <2> DEFINE j == k - 1
  <2> HIDE DEF by, stop, j
  <2>3. /\ cause(results, ends, j) = IF ~stop(j) THEN "no" ELSE IF 0 \in ends /\ by(j, 0) THEN "zero"
                                     ELSE IF EIO \in ends /\ by(j, EIO) THEN "error" ELSE "again"
        /\ cause(results, ends, k) = IF ~stop(k) THEN "no" ELSE IF 0 \in ends /\ by(k, 0) THEN "zero"
                                     ELSE IF EIO \in ends /\ by(k, EIO) THEN "error" ELSE "again"
    BY Zenon DEF cause, by, stop
  <2>4. cause(results, ends, j) = "no" <=> ~stop(j)
    BY <2>3
  <2>5. cause(results, ends, k) = IF ~stop(j) /\ results[k] \in ends
                                 THEN kind(results[k]) ELSE cause(results, ends, j)
    BY <1>0, <2>1, <2>2, <2>3 DEF kind, j
  <2> QED BY <2>1, <2>4, <2>5 DEF j
<1>4. ASSUME NEW e \in ends, NEW d \in ends, by(m, e), by(m, d)
      PROVE  e = d
  <2>1. PICK i \in 1 .. m : i \in calls(results, ends) /\ results[i] = e
    BY <1>4 DEF stopped_by
  <2>2. PICK l \in 1 .. m : l \in calls(results, ends) /\ results[l] = d
    BY <1>4 DEF stopped_by
  <2>3. ~(i < l) /\ ~(l < i)
    BY <1>0, <2>1, <2>2 DEF calls
  <2> QED BY <1>0, <2>1, <2>2, <2>3
<1>5. ASSUME NEW e PROVE by(m, e) <=> ended_by(results, ends, e)
  <2>1. \A j : j \in calls(results, ends) => j \in 1 .. m
    BY DEF calls
  <2> QED BY <2>1, Zenon DEF stopped_by, ended_by
<1>6. /\ EIO \in ends => (ended_by(results, ends, EIO) <=> cause(results, ends, m) = "error")
      /\ 0 \in ends => (ended_by(results, ends, 0) <=> cause(results, ends, m) = "zero")
  <2>1. (0 \in ends /\ by(m, 0) => stop(m)) /\ (EIO \in ends /\ by(m, EIO) => stop(m))
    BY <1>2
  <2>2. ~(0 \in ends /\ EIO \in ends /\ by(m, 0) /\ by(m, EIO))
    BY <1>0, <1>4
  <2>3. (by(m, 0) <=> ended_by(results, ends, 0)) /\ (by(m, EIO) <=> ended_by(results, ends, EIO))
    BY <1>5
  <2> HIDE DEF by, stop, m
  <2>4. cause(results, ends, m) = IF ~stop(m) THEN "no" ELSE IF 0 \in ends /\ by(m, 0) THEN "zero"
                                 ELSE IF EIO \in ends /\ by(m, EIO) THEN "error" ELSE "again"
    BY Zenon DEF cause, by, stop
  <2> QED BY <2>1, <2>2, <2>3, <2>4
<1>7. cause(results, ends, 0) = "no"
  BY <1>1 DEF cause
<1> QED BY <1>3, <1>6, <1>7

(* Two loops that begin and go on alike end alike. *)
LEMMA SameRun ==
  ASSUME NEW m \in Nat, NEW f, NEW g, f[0] = g[0],
         \A k \in 1 .. m : f[k - 1] = g[k - 1] => f[k] = g[k]
  PROVE  f[m] = g[m]
<1> DEFINE S == {k \in 0 .. m : f[k] = g[k]}
<1>1. 0 \in S
  OBVIOUS
<1>2. ASSUME NEW k \in 0 .. m - 1, k \in S PROVE k + 1 \in S
  <2>1. k + 1 \in 1 .. m /\ (k + 1) - 1 = k /\ f[k] = g[k]
    BY <1>2
  <2> QED BY <2>1
<1>3. \A k \in 0 .. m : k \in S
  <2> HIDE DEF S
  <2> QED BY <1>1, <1>2, AllNumbersUpTo
<1> QED BY <1>3

(* What is in the buffer when t bytes have been read, and when more up to the
   u-th have. *)
Read(old, stream, t) == old \o SubSeq(stream, 1, t)
ReadMore(b, stream, t, u) == b \o SubSeq(stream, t + 1, u)

LEMMA ReadOn ==
  ASSUME NEW B, NEW old \in Seq(B), NEW s \in Seq(B), NEW a \in Nat, NEW b \in Nat, a <= b, b <= Len(s)
  PROVE  Read(old, s, b) = ReadMore(Read(old, s, a), s, a, b)
<1> DEFINE x == SubSeq(s, 1, a)
           y == SubSeq(s, a + 1, b)
           z == SubSeq(s, 1, b)
<1>1. x \o y = z
  <2>1. 1 \in 1 .. Len(s) + 1 /\ a \in 1 - 1 .. Len(s) /\ b \in a .. Len(s)
    OBVIOUS
  <2> QED BY <2>1, ConcatAdjacentSubSeq
<1>2. x \in Seq(B) /\ y \in Seq(B)
  <2>1. (\A i \in 1 .. a : s[i] \in B) /\ \A i \in a + 1 .. b : s[i] \in B
    OBVIOUS
  <2> QED BY <2>1, SubSeqProperties
<1> HIDE DEF x, y, z
<1>3. joined(joined(old, x), y) = joined(old, joined(x, y))
  BY <1>2, Associative
<1>4. old \o z = (old \o x) \o y
  BY <1>1, <1>3 DEF joined
<1> QED BY <1>4 DEF x, y, z, Read, ReadMore

(* The loop of reads after calls that have moved s bytes, the last of which has
   ended it for the cause c. *)
ReadState(old, stream, enough, s, c) ==
  [buf |-> Read(old, stream, s), ret |-> IF c = "error" /\ s \notin enough THEN -1 ELSE s,
   end |-> IF s \in enough THEN "enough" ELSE c]

(* The loop goes on from one such state to the next. *)
LEMMA ReadStep ==
  ASSUME NEW B, NEW old \in Seq(B), NEW stream \in Seq(B), NEW enough \in SUBSET Nat,
         NEW s \in Nat, NEW s1 \in Nat, NEW n \in Int, NEW c,
         n >= EIO, s1 <= Len(stream), s \in enough => s1 = s,
         c = "no" /\ n > 0 => s1 = s + n, c # "no" \/ n <= 0 => s1 = s
  PROVE  after_read(ReadState(old, stream, enough, s, c), n, stream, enough)
           = ReadState(old, stream, enough, s1, IF c = "no" /\ n \in {0, EAGAIN, EIO} THEN kind(n) ELSE c)
<1> DEFINE b == Read(old, stream, s)
           t == IF c = "error" /\ s \notin enough THEN -1 ELSE s
           e == IF s \in enough THEN "enough" ELSE c
           r == [buf |-> b, ret |-> t, end |-> e]
           c1 == IF c = "no" /\ n \in {0, EAGAIN, EIO} THEN kind(n) ELSE c
           b1 == Read(old, stream, s1)
           t1 == IF c1 = "error" /\ s1 \notin enough THEN -1 ELSE s1
           e1 == IF s1 \in enough THEN "enough" ELSE c1
           new == after_read(r, n, stream, enough)
<1>0. EINTR = -1 /\ EAGAIN = -2 /\ EIO = -3 /\ (n \in transient <=> n = -1)
  BY DEF EINTR, EIO, EAGAIN, transient
<1>1. SUFFICES new = [buf |-> b1, ret |-> t1, end |-> e1]
  BY Zenon DEF ReadState
<1>2. r.buf = b /\ r.ret = t /\ r.end = e
  OBVIOUS
<1>3. CASE e # "no" \/ n = EINTR
  <2>1. b1 = b /\ t1 = t /\ e1 = e
    BY <1>0, <1>3 DEF kind
  <2>2. new = r
    <3> HIDE DEF r, e
    <3> QED BY <1>0, <1>2, <1>3 DEF after_read
  <2> HIDE DEF b, t, e, b1, t1, e1, new
  <2> QED BY <2>1, <2>2
<1>4. CASE e = "no" /\ n > 0
  <2>1. s1 = s + n /\ t1 = s1 /\ t = s /\ n \in Nat
    BY <1>0, <1>4
  <2>2. e1 = (IF t + n \in enough THEN "enough" ELSE "no") /\ t1 = t + n
    BY <1>0, <1>4, <2>1
  <2>3. b1 = ReadMore(b, stream, t, t + n)
    <3>1. s <= s1
      BY <1>4, <2>1
    <3>2. b1 = ReadMore(b, stream, s, s1)
      <4> HIDE DEF t1, e1, t, e
      <4> QED BY <3>1, ReadOn
    <3> HIDE DEF b1, b, t, t1
    <3> QED BY <2>1, <2>2, <3>2
  <2>4. new = [r EXCEPT !.buf = ReadMore(r.buf, stream, r.ret, r.ret + n), !.ret = r.ret + n,
                        !.end = IF r.ret + n \in enough THEN "enough" ELSE "no"]
    <3>1. ~(n = 0) /\ ~(n = EIO) /\ n \notin transient
      BY <1>0, <1>4
    <3> HIDE DEF r, e
    <3> QED BY <1>2, <1>4, <3>1 DEF after_read, ReadMore
  <2> HIDE DEF b, t, e, b1, t1, e1, new
  <2> QED BY <2>2, <2>3, <2>4
<1>5. CASE e = "no" /\ n \in {0, EIO, EAGAIN}
  <2>1. /\ s1 = s /\ b1 = b /\ e1 = kind(n) /\ t1 = (IF n = EIO THEN -1 ELSE t)
        /\ n \notin transient /\ ~(n > 0)
    BY <1>0, <1>5 DEF kind
  <2>2. new = IF n = EIO THEN [r EXCEPT !.ret = -1, !.end = "error"] ELSE [r EXCEPT !.end = kind(n)]
    <3> HIDE DEF r, e
    <3>1. CASE n = 0
      <4>1. ~(n > 0) /\ n # EIO /\ kind(n) = "zero"
        BY <1>0, <3>1 DEF kind
      <4> QED BY <1>2, <1>5, <2>1, <3>1, <4>1 DEF after_read
    <3>2. CASE n = EIO
      <4>1. ~(n > 0) /\ ~(n = 0)
        BY <1>0, <3>2
      <4> QED BY <1>2, <1>5, <2>1, <3>2, <4>1 DEF after_read
    <3>3. CASE n = EAGAIN
      <4>1. ~(n > 0) /\ ~(n = 0) /\ n # EIO /\ kind(n) = "again"
        BY <1>0, <3>3 DEF kind
      <4> QED BY <1>2, <1>5, <2>1, <4>1 DEF after_read
    <3> QED BY <1>5, <3>1, <3>2, <3>3
  <2>3. new = [buf |-> b, ret |-> IF n = EIO THEN -1 ELSE t, end |-> kind(n)]
    <3>1. n = EIO => kind(n) = "error"
      BY <1>0 DEF kind
    <3> HIDE DEF b, t, e, new
    <3> QED BY <2>2, <3>1
  <2> HIDE DEF b, t, e, b1, t1, e1, new
  <2> QED BY <2>1, <2>3
<1>6. n = EINTR \/ n > 0 \/ n \in {0, EIO, EAGAIN}
  BY <1>0
<1> QED BY <1>3, <1>4, <1>5, <1>6

(* The loop of reads as a whole. *)
LEMMA ReadRun ==
  ASSUME NEW B, NEW old \in Seq(B), NEW stream \in Seq(B), NEW enough \in SUBSET Nat,
         NEW results \in Seq(Int), NEW ends, ends = {0, EAGAIN, EIO},
         \A k \in 1 .. Len(results) : results[k] >= EIO,
         moved(results, ends) <= Len(stream),
         \A k \in 0 .. Len(results) : sums(results, ends)[k] \in enough =>
           sums(results, ends)[k] = moved(results, ends)
  PROVE  reads(old, stream, results, enough)
           = ReadState(old, stream, enough, moved(results, ends), cause(results, ends, Len(results)))
<1> DEFINE m == Len(results)
           sum == sums(results, ends)
           c(k) == cause(results, ends, k)
           state(k) == ReadState(old, stream, enough, sum[k], c(k))
           start == [buf |-> old, ret |-> 0, end |-> IF 0 \in enough THEN "enough" ELSE "no"]
           F(h) == [k \in 0 .. m |->
                      IF k = 0 THEN start ELSE after_read(h[k - 1], results[k], stream, enough)]
           g == [k \in 0 .. m |-> state(k)]
           f == CHOOSE h : h = F(h)
<1>1. /\ m \in Nat /\ moved(results, ends) = sum[m]
      /\ sum \in [0 .. m -> Nat] /\ sum[0] = 0
      /\ \A k \in 1 .. m : sum[k] = sum[k - 1] + gain(results, ends, k)
      /\ \A k \in 0 .. m : sum[k] <= sum[m]
  BY Sums
<1>2. reads(old, stream, results, enough) = f[m]
  BY Zenon DEF reads
<1>3. \A k \in 0 .. m : sum[k] \in enough => sum[k] = sum[m]
  BY <1>1
<1>4. sum[m] <= Len(stream) /\ \A k \in 1 .. m : results[k] \in Int /\ results[k] >= EIO
  BY <1>1
<1>5. /\ c(0) = "no"
      /\ \A k \in 1 .. m :
           /\ k \in calls(results, ends) <=> c(k - 1) = "no"
           /\ c(k) = IF c(k - 1) = "no" /\ results[k] \in ends THEN kind(results[k]) ELSE c(k - 1)
  BY Causes
<1> HIDE DEF f, sum, c, m
<1>6. state(0) = start
  <2>1. Read(old, stream, 0) = old
    BY SubSeqEmpty DEF Read
  <2> QED BY <1>1, <1>5, <2>1 DEF ReadState
<1>7. ASSUME NEW k \in 1 .. m PROVE state(k) = after_read(state(k - 1), results[k], stream, enough)
  <2> DEFINE s == sum[k - 1]
             s1 == sum[k]
             n == results[k]
             c0 == c(k - 1)
  <2>1. /\ k - 1 \in 0 .. m /\ k \in 0 .. m /\ m \in 0 .. m
        /\ n \in Int /\ n >= EIO
    BY <1>1, <1>4
  <2>2. s \in Nat /\ s1 \in Nat /\ s1 <= sum[m] /\ s1 = s + gain(results, ends, k) /\ sum[m] \in Nat
    BY <1>1, <2>1
  <2>0. /\ k \in calls(results, ends) <=> c(k - 1) = "no"
        /\ c(k) = IF c(k - 1) = "no" /\ results[k] \in ends THEN kind(results[k]) ELSE c(k - 1)
    BY <1>5
  <2>3. gain(results, ends, k) = IF c0 = "no" /\ n > 0 THEN n ELSE 0
    BY <2>0 DEF gain
  <2>4. (c0 = "no" /\ n > 0 => s1 = s + n) /\ (c0 # "no" \/ n <= 0 => s1 = s)
    BY <2>1, <2>2, <2>3
  <2>5. s \in enough => s1 = s
    <3>1. s \in enough => s = sum[m]
      BY <1>3, <2>1
    <3> HIDE DEF s, s1, n, c0
    <3> QED BY <2>1, <2>2, <2>4, <3>1
  <2>6. s1 <= Len(stream)
    <3>1. Len(stream) \in Nat
      OBVIOUS
    <3> HIDE DEF s1
    <3> QED BY <1>4, <2>2, <3>1
  <2>7. c(k) = IF c0 = "no" /\ n \in {0, EAGAIN, EIO} THEN kind(n) ELSE c0
    BY <2>0
  <2> HIDE DEF s, s1, n, c0
  <2>8. after_read(ReadState(old, stream, enough, s, c0), n, stream, enough)
          = ReadState(old, stream, enough, s1, IF c0 = "no" /\ n \in {0, EAGAIN, EIO} THEN kind(n) ELSE c0)
    BY <2>1, <2>2, <2>4, <2>5, <2>6, ReadStep
  <2> QED BY <2>7, <2>8 DEF s, s1, n, c0
<1>8. g[0] = start /\ \A k \in 1 .. m : g[k] = after_read(g[k - 1], results[k], stream, enough)
  <2>1. \A k \in 0 .. m : g[k] = state(k)
    OBVIOUS
  <2>2. 0 \in 0 .. m /\ \A k \in 1 .. m : k \in 0 .. m /\ k - 1 \in 0 .. m
    BY <1>1
  <2> HIDE DEF g, state, start
  <2> QED BY <1>6, <1>7, <2>1, <2>2
<1>9. g = F(g)
  <2>1. g = [k \in 0 .. m |-> g[k]]
    OBVIOUS
  <2>2. \A k \in 0 .. m : g[k] = IF k = 0 THEN start ELSE after_read(g[k - 1], results[k], stream, enough)
    <3>1. \A k \in 0 .. m : k = 0 \/ k \in 1 .. m
      BY <1>1
    <3> HIDE DEF g, start
    <3> QED BY <1>8, <3>1
  <2> HIDE DEF g, start
  <2> QED BY <2>1, <2>2
<1>10. f = F(f)
  <2> HIDE DEF F, g
  <2> QED BY <1>9 DEF f
<1>11. f[0] = start /\ \A k \in 1 .. m : f[k] = after_read(f[k - 1], results[k], stream, enough)
  <2>1. 0 \in 0 .. m /\ \A k \in 1 .. m : k \in 0 .. m /\ k # 0
    BY <1>1
  <2> HIDE DEF start
  <2> QED BY <1>10, <2>1
<1>12. f[m] = g[m]
  <2> HIDE DEF g, F, start
  <2>1. f[0] = g[0] /\ \A k \in 1 .. m : f[k - 1] = g[k - 1] => f[k] = g[k]
    BY <1>8, <1>11
  <2> QED BY <1>1, <2>1, SameRun
<1>13. g[m] = state(m)
  BY <1>1
<1> QED BY <1>1, <1>2, <1>12, <1>13 DEF c, m

(* The loop of writes after calls that have moved s bytes, the last of which has
   ended it for the cause c. *)
Sent(buff, t) == SubSeq(buff, 1, t)
WriteState(buff, s, c) ==
  [taken |-> Sent(buff, s), ret |-> IF c = "error" /\ s < Len(buff) THEN -1 ELSE s,
   end |-> IF s < Len(buff) THEN c ELSE "enough"]

(* The loop goes on from one such state to the next; a call that takes nothing
   leaves it where it is. *)
LEMMA WriteStep ==
  ASSUME NEW B, NEW buff \in Seq(B), NEW s \in Nat, NEW s1 \in Nat, NEW n \in Int, NEW c,
         n >= EIO, s1 <= Len(buff),
         c = "no" /\ n > 0 => s1 = s + n, c # "no" \/ n <= 0 => s1 = s
  PROVE  after_write(WriteState(buff, s, c), n, buff)
           = WriteState(buff, s1, IF c = "no" /\ n \in {EAGAIN, EIO} THEN kind(n) ELSE c)
<1> DEFINE b == Sent(buff, s)
           len == Len(buff)
           t == IF c = "error" /\ s < len THEN -1 ELSE s
           e == IF s < len THEN c ELSE "enough"
           r == [taken |-> b, ret |-> t, end |-> e]
           c1 == IF c = "no" /\ n \in {EAGAIN, EIO} THEN kind(n) ELSE c
           b1 == Sent(buff, s1)
           t1 == IF c1 = "error" /\ s1 < len THEN -1 ELSE s1
           e1 == IF s1 < len THEN c1 ELSE "enough"
           new == after_write(r, n, buff)
<1>0. EINTR = -1 /\ EAGAIN = -2 /\ EIO = -3 /\ (n \in transient <=> n = -1) /\ len \in Nat
  BY DEF EINTR, EIO, EAGAIN, transient
<1>1. SUFFICES new = [taken |-> b1, ret |-> t1, end |-> e1]
  BY Zenon DEF WriteState
<1>2. r.taken = b /\ r.ret = t /\ r.end = e
  OBVIOUS
<1>a. s <= len
  BY <1>0
<1>3. CASE e # "no" \/ n = EINTR
  <2>1. b1 = b /\ t1 = t /\ e1 = e
    BY <1>0, <1>a, <1>3 DEF kind
  <2>2. new = r
    <3> HIDE DEF r, e
    <3> QED BY <1>0, <1>2, <1>3 DEF after_write
  <2> HIDE DEF b, t, e, b1, t1, e1, new
  <2> QED BY <2>1, <2>2
<1>4. CASE e = "no" /\ n >= 0
  <2>1. s1 = s + n /\ t1 = s1 /\ t = s /\ n \in Nat /\ c1 = "no" /\ s < len
    BY <1>0, <1>a, <1>4
  <2>2. e1 = (IF t + n < len THEN "no" ELSE "enough") /\ t1 = t + n
    BY <1>0, <2>1
  <2>3. b1 = Sent(buff, t + n)
    BY <2>1
  <2>4. new = [taken |-> SubSeq(buff, 1, r.ret + n), ret |-> r.ret + n,
               end |-> IF r.ret + n < Len(buff) THEN "no" ELSE "enough"]
    <3>1. ~(n = EIO) /\ n \notin transient
      BY <1>0, <1>4
    <3> HIDE DEF r, e
    <3> QED BY <1>2, <1>4, <3>1 DEF after_write
  <2>5. SubSeq(buff, 1, t + n) = Sent(buff, t + n)
    BY Zenon DEF Sent
  <2> HIDE DEF b, t, e, b1, t1, e1, new
  <2> QED BY <1>2, <2>2, <2>3, <2>4, <2>5
<1>5. CASE e = "no" /\ n \in {EIO, EAGAIN}
  <2>1. /\ s1 = s /\ b1 = b /\ e1 = kind(n) /\ t1 = (IF n = EIO THEN -1 ELSE t)
        /\ n \notin transient /\ ~(n >= 0)
    BY <1>0, <1>5 DEF kind
  <2>2. new = IF n = EIO THEN [r EXCEPT !.ret = -1, !.end = "error"] ELSE [r EXCEPT !.end = kind(n)]
    <3> HIDE DEF r, e
    <3>1. CASE n = EIO
      BY <1>2, <1>5, <2>1, <3>1 DEF after_write
    <3>2. CASE n = EAGAIN
      <4>1. n # EIO /\ kind(n) = "again"
        BY <1>0, <3>2 DEF kind
      <4> QED BY <1>2, <1>5, <2>1, <4>1 DEF after_write
    <3> QED BY <1>5, <3>1, <3>2
  <2>3. new = [taken |-> b, ret |-> IF n = EIO THEN -1 ELSE t, end |-> kind(n)]
    <3>1. n = EIO => kind(n) = "error"
      BY <1>0 DEF kind
    <3> HIDE DEF b, t, e, new
    <3> QED BY <2>2, <3>1
  <2> HIDE DEF b, t, e, b1, t1, e1, new
  <2> QED BY <2>1, <2>3
<1>6. n = EINTR \/ n >= 0 \/ n \in {EIO, EAGAIN}
  BY <1>0
<1> QED BY <1>3, <1>4, <1>5, <1>6

(* The loop of writes as a whole. *)
LEMMA WriteRun ==
  ASSUME NEW B, NEW buff \in Seq(B), NEW results \in Seq(Int), NEW ends, ends = {EAGAIN, EIO},
         \A k \in 1 .. Len(results) : results[k] >= EIO,
         moved(results, ends) <= Len(buff)
  PROVE  writen_bytes(buff, results)
           = WriteState(buff, moved(results, ends), cause(results, ends, Len(results)))
<1> DEFINE m == Len(results)
           sum == sums(results, ends)
           c(k) == cause(results, ends, k)
           state(k) == WriteState(buff, sum[k], c(k))
           start == [taken |-> <<>>, ret |-> 0, end |-> IF buff = <<>> THEN "enough" ELSE "no"]
           F(h) == [k \in 0 .. m |-> IF k = 0 THEN start ELSE after_write(h[k - 1], results[k], buff)]
           g == [k \in 0 .. m |-> state(k)]
           f == CHOOSE h : h = F(h)
<1>1. /\ m \in Nat /\ moved(results, ends) = sum[m]
      /\ sum \in [0 .. m -> Nat] /\ sum[0] = 0
      /\ \A k \in 1 .. m : sum[k] = sum[k - 1] + gain(results, ends, k)
      /\ \A k \in 0 .. m : sum[k] <= sum[m]
  BY Sums
<1>2. writen_bytes(buff, results) = f[m]
  BY Zenon DEF writen_bytes
<1>3. sum[m] <= Len(buff) /\ \A k \in 1 .. m : results[k] \in Int /\ results[k] >= EIO
  BY <1>1
<1>4. /\ c(0) = "no"
      /\ \A k \in 1 .. m :
           /\ k \in calls(results, ends) <=> c(k - 1) = "no"
           /\ c(k) = IF c(k - 1) = "no" /\ results[k] \in ends THEN kind(results[k]) ELSE c(k - 1)
  BY Causes
<1> HIDE DEF f, sum, c, m
<1>5. state(0) = start
  <2>1. Sent(buff, 0) = <<>>
    BY SubSeqEmpty DEF Sent
  <2>2. buff = <<>> <=> ~(0 < Len(buff))
    BY EmptySeq
  <2> QED BY <1>1, <1>4, <2>1, <2>2 DEF WriteState
<1>6. ASSUME NEW k \in 1 .. m PROVE state(k) = after_write(state(k - 1), results[k], buff)
  <2> DEFINE s == sum[k - 1]
             s1 == sum[k]
             n == results[k]
             c0 == c(k - 1)
  <2>1. /\ k - 1 \in 0 .. m /\ k \in 0 .. m /\ m \in 0 .. m
        /\ n \in Int /\ n >= EIO
    BY <1>1, <1>3
  <2>2. s \in Nat /\ s1 \in Nat /\ s1 <= sum[m] /\ s1 = s + gain(results, ends, k) /\ sum[m] \in Nat
    BY <1>1, <2>1
  <2>3. /\ k \in calls(results, ends) <=> c(k - 1) = "no"
        /\ c(k) = IF c(k - 1) = "no" /\ results[k] \in ends THEN kind(results[k]) ELSE c(k - 1)
    BY <1>4
  <2>4. gain(results, ends, k) = IF c0 = "no" /\ n > 0 THEN n ELSE 0
    BY <2>3 DEF gain
  <2>5. (c0 = "no" /\ n > 0 => s1 = s + n) /\ (c0 # "no" \/ n <= 0 => s1 = s)
    BY <2>1, <2>2, <2>4
  <2>6. s1 <= Len(buff)
    <3>1. Len(buff) \in Nat
      OBVIOUS
    <3> HIDE DEF s1
    <3> QED BY <1>3, <2>2, <3>1
  <2>7. c(k) = IF c0 = "no" /\ n \in {EAGAIN, EIO} THEN kind(n) ELSE c0
    BY <2>3
  <2> HIDE DEF s, s1, n, c0
  <2>8. after_write(WriteState(buff, s, c0), n, buff)
          = WriteState(buff, s1, IF c0 = "no" /\ n \in {EAGAIN, EIO} THEN kind(n) ELSE c0)
    BY <2>1, <2>2, <2>5, <2>6, WriteStep
  <2> QED BY <2>7, <2>8 DEF s, s1, n, c0
<1>7. g[0] = start /\ \A k \in 1 .. m : g[k] = after_write(g[k - 1], results[k], buff)
  <2>1. \A k \in 0 .. m : g[k] = state(k)
    OBVIOUS
  <2>2. 0 \in 0 .. m /\ \A k \in 1 .. m : k \in 0 .. m /\ k - 1 \in 0 .. m
    BY <1>1
  <2> HIDE DEF g, state, start
  <2> QED BY <1>5, <1>6, <2>1, <2>2
<1>8. g = F(g)
  <2>1. g = [k \in 0 .. m |-> g[k]]
    OBVIOUS
  <2>2. \A k \in 0 .. m : g[k] = IF k = 0 THEN start ELSE after_write(g[k - 1], results[k], buff)
    <3>1. \A k \in 0 .. m : k = 0 \/ k \in 1 .. m
      BY <1>1
    <3> HIDE DEF g, start
    <3> QED BY <1>7, <3>1
  <2> HIDE DEF g, start
  <2> QED BY <2>1, <2>2
<1>9. f = F(f)
  <2> HIDE DEF F, g
  <2> QED BY <1>8 DEF f
<1>10. f[0] = start /\ \A k \in 1 .. m : f[k] = after_write(f[k - 1], results[k], buff)
  <2>1. 0 \in 0 .. m /\ \A k \in 1 .. m : k \in 0 .. m /\ k # 0
    BY <1>1
  <2> HIDE DEF start
  <2> QED BY <1>9, <2>1
<1>11. f[m] = g[m]
  <2> HIDE DEF g, F, start
  <2>1. f[0] = g[0] /\ \A k \in 1 .. m : f[k - 1] = g[k - 1] => f[k] = g[k]
    BY <1>7, <1>10
  <2> QED BY <1>1, <2>1, SameRun
<1>12. g[m] = state(m)
  BY <1>1
<1> QED BY <1>1, <1>2, <1>11, <1>12 DEF c, m

(* An append after k calls that have moved s bytes, the last of which has ended it
   for the cause c. *)
AppendState(k, s, c, length) ==
  [n |-> s, end |-> IF k = 0 \/ (c = "no" /\ s < length) THEN "no" ELSE "enough"]

(* An append as a whole: it takes what its calls up to the first that takes
   nothing have taken. *)
LEMMA AppendRun ==
  ASSUME NEW length \in Nat, NEW results \in Seq(Int),
         \A k \in 1 .. Len(results) : results[k] >= 0,
         moved(results, {0}) <= length
  PROVE  append_file(length, results) = moved(results, {0})
<1> DEFINE m == Len(results)
           ends == {0}
           sum == sums(results, ends)
           c(k) == cause(results, ends, k)
           state(k) == AppendState(k, sum[k], c(k), length)
           start == [n |-> 0, end |-> "no"]
           F(h) == [k \in 0 .. m |-> IF k = 0 THEN start ELSE after_fwrite(h[k - 1], results[k], length)]
           g == [k \in 0 .. m |-> state(k)]
           f == CHOOSE h : h = F(h)
<1>1. /\ m \in Nat /\ moved(results, ends) = sum[m]
      /\ sum \in [0 .. m -> Nat] /\ sum[0] = 0
      /\ \A k \in 1 .. m : sum[k] = sum[k - 1] + gain(results, ends, k)
      /\ \A k \in 0 .. m : sum[k] <= sum[m]
  BY Sums
<1>2. append_file(length, results) = f[m].n
  BY Zenon DEF append_file
<1>3. sum[m] <= length /\ \A k \in 1 .. m : results[k] \in Int /\ results[k] >= 0
  BY <1>1
<1>4. /\ c(0) = "no"
      /\ \A k \in 1 .. m :
           /\ k \in calls(results, ends) <=> c(k - 1) = "no"
           /\ c(k) = IF c(k - 1) = "no" /\ results[k] \in ends THEN kind(results[k]) ELSE c(k - 1)
  BY Causes
<1> HIDE DEF f, sum, c, m
<1>5. state(0) = start
  BY <1>1 DEF AppendState
<1>6. ASSUME NEW k \in 1 .. m PROVE state(k) = after_fwrite(state(k - 1), results[k], length)
  <2> DEFINE s == sum[k - 1]
             s1 == sum[k]
             n == results[k]
             c0 == c(k - 1)
             c1 == c(k)
             j == k - 1
  <2>1. /\ k - 1 \in 0 .. m /\ k \in 0 .. m /\ m \in 0 .. m
        /\ n \in Int /\ n >= 0 /\ j \in Nat /\ k # 0
    BY <1>1, <1>3
  <2>2. s \in Nat /\ s1 \in Nat /\ s1 <= sum[m] /\ s1 = s + gain(results, ends, k) /\ sum[m] \in Nat
    BY <1>1, <2>1
  <2>3. /\ k \in calls(results, ends) <=> c0 = "no"
        /\ c1 = IF c0 = "no" /\ n = 0 THEN kind(n) ELSE c0
    BY <1>4
  <2>4. gain(results, ends, k) = IF c0 = "no" /\ n > 0 THEN n ELSE 0
    BY <2>3 DEF gain
  <2>5. s1 = IF c0 = "no" THEN s + n ELSE s
    BY <2>1, <2>2, <2>4
  <2>6. s1 <= length /\ s <= s1
    BY <1>3, <2>1, <2>2, <2>5
  <2>7. j = 0 => c0 = "no"
    BY <1>4, <2>1
  <2>8. c1 = "no" <=> c0 = "no" /\ n > 0
    BY <2>1, <2>3 DEF kind
  <2> DEFINE e == IF j = 0 \/ (c0 = "no" /\ s < length) THEN "no" ELSE "enough"
             r == [n |-> s, end |-> e]
             e1 == IF c1 = "no" /\ s1 < length THEN "no" ELSE "enough"
  <2> HIDE DEF s, s1, n, c0, c1, j
  <2>9. r.n = s /\ r.end = e
    OBVIOUS
  <2>10. after_fwrite(r, n, length) = [n |-> s1, end |-> e1]
    <3>1. CASE e # "no"
      <4>1. s1 = s /\ e1 = e
        BY <2>1, <2>2, <2>5, <2>6, <2>8, <3>1
      <4>2. after_fwrite(r, n, length) = r
        <5> HIDE DEF r, e
        <5> QED BY <2>9, <3>1 DEF after_fwrite
      <4> QED BY <4>1, <4>2
    <3>2. CASE e = "no"
      <4>1. c0 = "no"
        BY <2>7, <3>2
      <4>2. s1 = s + n /\ e1 = IF n > 0 /\ s + n < length THEN "no" ELSE "enough"
        BY <2>5, <2>8, <4>1
      <4>3. after_fwrite(r, n, length)
              = [n |-> s + n, end |-> IF n > 0 /\ s + n < length THEN "no" ELSE "enough"]
        <5> HIDE DEF r, e
        <5> QED BY <2>9, <3>2 DEF after_fwrite
      <4> HIDE DEF e1, r, e
      <4> QED BY <4>2, <4>3
    <3> QED BY <3>1, <3>2
  <2>11. state(k) = [n |-> s1, end |-> e1]
    BY <2>1 DEF AppendState, s1, c1
  <2>12. state(k - 1) = r
    BY Zenon DEF AppendState, s, c0, j
  <2> QED BY <2>10, <2>11, <2>12, Zenon DEF n
<1>7. g[0] = start /\ \A k \in 1 .. m : g[k] = after_fwrite(g[k - 1], results[k], length)
  <2>1. \A k \in 0 .. m : g[k] = state(k)
    OBVIOUS
  <2>2. 0 \in 0 .. m /\ \A k \in 1 .. m : k \in 0 .. m /\ k - 1 \in 0 .. m
    BY <1>1
  <2> HIDE DEF g, state, start
  <2> QED BY <1>5, <1>6, <2>1, <2>2
<1>8. g = F(g)
  <2>1. g = [k \in 0 .. m |-> g[k]]
    OBVIOUS
  <2>2. \A k \in 0 .. m : g[k] = IF k = 0 THEN start ELSE after_fwrite(g[k - 1], results[k], length)
    <3>1. \A k \in 0 .. m : k = 0 \/ k \in 1 .. m
      BY <1>1
    <3> HIDE DEF g, start
    <3> QED BY <1>7, <3>1
  <2> HIDE DEF g, start
  <2> QED BY <2>1, <2>2
<1>9. f = F(f)
  <2> HIDE DEF F, g
  <2> QED BY <1>8 DEF f
<1>10. f[0] = start /\ \A k \in 1 .. m : f[k] = after_fwrite(f[k - 1], results[k], length)
  <2>1. 0 \in 0 .. m /\ \A k \in 1 .. m : k \in 0 .. m /\ k # 0
    BY <1>1
  <2> HIDE DEF start
  <2> QED BY <1>9, <2>1
<1>11. f[m] = g[m]
  <2> HIDE DEF g, F, start
  <2>1. f[0] = g[0] /\ \A k \in 1 .. m : f[k - 1] = g[k - 1] => f[k] = g[k]
    BY <1>7, <1>10
  <2> QED BY <1>1, <2>1, SameRun
<1>12. g[m].n = sum[m]
  BY <1>1 DEF AppendState
<1> QED BY <1>1, <1>2, <1>11, <1>12

(* What the four properties of the loops ask of the results of their calls. *)
LEMMA ResultsAreCalls ==
  ASSUME NEW i \in Nat, NEW j \in Nat, NEW results \in Results(i, j)
  PROVE  results \in Seq(Int) /\ \A k \in 1 .. Len(results) : results[k] >= EIO
<1>1. PICK k \in 0 .. j : results \in [1 .. k -> returns(i)]
  BY DEF Results
<1>2. \A n \in returns(i) : n \in Int /\ n >= EIO
  BY DEF returns, EINTR, EAGAIN, EIO
<1>3. results \in Seq(Int) /\ Len(results) = k
  <2>1. results \in [1 .. k -> Int]
    BY <1>1, <1>2
  <2> QED BY <2>1
<1> QED BY <1>1, <1>2, <1>3

LEMMA ReadKeepsBytesAlways ==
  ASSUME NEW B, NEW old \in Seq(B), NEW stream \in Seq(B),
         NEW i \in Nat, NEW j \in Nat, NEW results \in Results(i, j)
  PROVE  ReadKeepsBytes(old, stream, results)
<1> DEFINE ends == {0, EAGAIN, EIO}
           n == moved(results, ends)
           c == cause(results, ends, Len(results))
           r == readn(old, stream, results)
<1>1. results \in Seq(Int) /\ \A k \in 1 .. Len(results) : results[k] >= EIO
  BY ResultsAreCalls
<1>2. SUFFICES ASSUME n <= Len(stream)
               PROVE  /\ r.buf = old \o SubSeq(stream, 1, n)
                      /\ r.end = "zero" <=> ended_by(results, ends, 0)
                      /\ r.ret = IF ended_by(results, ends, EIO) THEN -1 ELSE n
  BY Zenon DEF ReadKeepsBytes
<1>3. (ended_by(results, ends, EIO) <=> c = "error") /\ (ended_by(results, ends, 0) <=> c = "zero")
  BY <1>1, Causes
<1>4. r = ReadState(old, stream, {}, n, c)
  <2>1. {} \in SUBSET Nat /\ \A k \in 0 .. Len(results) : sums(results, ends)[k] \in {} => sums(results, ends)[k] = n
    OBVIOUS
  <2>2. reads(old, stream, results, {}) = ReadState(old, stream, {}, n, c)
    BY <1>1, <1>2, <2>1, ReadRun
  <2> QED BY <2>2 DEF readn
<1> HIDE DEF n, c, r
<1>5. r = [buf |-> Read(old, stream, n), ret |-> IF c = "error" THEN -1 ELSE n, end |-> c]
  BY <1>4 DEF ReadState
<1> QED BY <1>3, <1>5 DEF Read

LEMMA ReadTakesNoMoreAlways ==
  ASSUME NEW B, NEW stream \in Seq(B), NEW n \in Nat,
         NEW i \in Nat, NEW j \in Nat, NEW results \in Results(i, j)
  PROVE  ReadTakesNoMore(n, stream, results)
<1> DEFINE ends == {0, EAGAIN, EIO}
           read == moved(results, ends)
           c == cause(results, ends, Len(results))
           r == readn_bytes(n, stream, results)
<1>1. results \in Seq(Int) /\ \A k \in 1 .. Len(results) : results[k] >= EIO
  BY ResultsAreCalls
<1>2. SUFFICES ASSUME read <= n, read <= Len(stream)
               PROVE  /\ r.buf = SubSeq(stream, 1, read)
                      /\ r.ret = IF read < n /\ ended_by(results, ends, EIO) THEN -1 ELSE read
  BY Zenon DEF ReadTakesNoMore
<1>3. ended_by(results, ends, EIO) <=> c = "error"
  BY <1>1, Causes
<1>4. read \in Nat /\ \A k \in 0 .. Len(results) : sums(results, ends)[k] \in {n} => sums(results, ends)[k] = read
  <2> DEFINE sum == sums(results, ends)
             m == Len(results)
  <2>1. m \in Nat /\ sum \in [0 .. m -> Nat] /\ read = sum[m] /\ \A k \in 0 .. m : sum[k] <= sum[m]
    BY <1>1, Sums
  <2> HIDE DEF sum, m, read
  <2>2. read \in Nat /\ \A k \in 0 .. m : sum[k] \in {n} => sum[k] = read
    BY <1>2, <2>1
  <2> QED BY <2>2 DEF sum, m
<1>5. r = ReadState(<<>>, stream, {n}, read, c)
  <2>1. {n} \in SUBSET Nat /\ <<>> \in Seq(B)
    OBVIOUS
  <2>2. reads(<<>>, stream, results, {n}) = ReadState(<<>>, stream, {n}, read, c)
    BY <1>1, <1>2, <1>4, <2>1, ReadRun, ZenonT(40)
  <2> QED BY <2>2 DEF readn_bytes
<1>6. Read(<<>>, stream, read) = SubSeq(stream, 1, read)
  <2>1. \A k \in 1 .. read : stream[k] \in B
    BY <1>2, <1>4
  <2>2. SubSeq(stream, 1, read) \in Seq(B)
    <3> HIDE DEF read
    <3> QED BY <1>4, <2>1, SubSeqProperties
  <2> QED BY <2>2, ConcatEmptySeq DEF Read
<1> HIDE DEF read, c, r
<1>7. r = [buf |-> Read(<<>>, stream, read), ret |-> IF c = "error" /\ read # n THEN -1 ELSE read,
           end |-> IF read = n THEN "enough" ELSE c]
  BY <1>5 DEF ReadState
<1>8. read < n <=> read # n
  BY <1>2, <1>4
<1> QED BY <1>3, <1>6, <1>7, <1>8

LEMMA WriteKeepsBytesAlways ==
  ASSUME NEW B, NEW buf \in Seq(B), NEW i \in Nat, NEW j \in Nat, NEW results \in Results(i, j)
  PROVE  WriteKeepsBytes(buf, results)
<1> DEFINE ends == {EAGAIN, EIO}
           n == moved(results, ends)
           c == cause(results, ends, Len(results))
           w == writen(buf, results)
           v == writen_bytes(buf, results)
<1>1. results \in Seq(Int) /\ \A k \in 1 .. Len(results) : results[k] >= EIO
  BY ResultsAreCalls
<1>2. n \in Nat
  <2> DEFINE sum == sums(results, ends)
             m == Len(results)
  <2>1. m \in Nat /\ sum \in [0 .. m -> Nat] /\ n = sum[m]
    BY <1>1, Sums
  <2> HIDE DEF sum, m, n
  <2> QED BY <2>1
<1>3. SUFFICES ASSUME n <= Len(buf), w.ret # -1
               PROVE  w.taken \o w.left = buf /\ w.ret = Len(w.taken) /\ w.ret = n
  BY Zenon DEF WriteKeepsBytes
<1>4. v = WriteState(buf, n, c)
  BY <1>1, <1>3, WriteRun
<1>5. w = [taken |-> v.taken, ret |-> v.ret,
           left |-> SubSeq(buf, (IF v.ret = -1 THEN 0 ELSE v.ret) + 1, Len(buf))]
  BY Zenon DEF writen
<1> HIDE DEF n, c, w, v
<1>6. v.taken = Sent(buf, n) /\ (v.ret = -1 \/ v.ret = n)
  BY <1>4 DEF WriteState
<1>7. w.taken = Sent(buf, n) /\ w.ret = v.ret
  BY <1>5, <1>6
<1>8. w.ret = n /\ v.ret = n
  BY <1>3, <1>6, <1>7
<1>9. w.left = SubSeq(buf, n + 1, Len(buf))
  <2>1. (IF v.ret = -1 THEN 0 ELSE v.ret) = n
    BY <1>2, <1>8
  <2> QED BY <1>5, <2>1
<1>10. Sent(buf, n) \o SubSeq(buf, n + 1, Len(buf)) = buf /\ Len(Sent(buf, n)) = n
  <2>1. 1 \in 1 .. Len(buf) + 1 /\ n \in 1 - 1 .. Len(buf) /\ Len(buf) \in n .. Len(buf)
    BY <1>2, <1>3
  <2>2. SubSeq(buf, 1, n) \o SubSeq(buf, n + 1, Len(buf)) = SubSeq(buf, 1, Len(buf))
    BY <2>1, ConcatAdjacentSubSeq
  <2>3. SubSeq(buf, 1, Len(buf)) = buf
    BY SubSeqFull
  <2>4. \A k \in 1 .. n : buf[k] \in B
    BY <1>2, <1>3
  <2>5. Len(SubSeq(buf, 1, n)) = n
    BY <1>2, <2>4, SubSeqProperties
  <2> QED BY <2>2, <2>3, <2>5 DEF Sent
<1> QED BY <1>7, <1>8, <1>9, <1>10

LEMMA AppendKeepsBytesAlways ==
  ASSUME NEW length \in Nat, NEW i \in Nat, NEW j \in Nat, NEW results \in Results(i, j)
  PROVE  AppendKeepsBytes(length, results)
<1>1. results \in Seq(Int)
  BY ResultsAreCalls
<1>2. SUFFICES ASSUME \A k \in DOMAIN results : results[k] >= 0, moved(results, {0}) = length
               PROVE  append_file(length, results) = length
  BY Zenon DEF AppendKeepsBytes
<1>3. \A k \in 1 .. Len(results) : results[k] >= 0
  BY <1>1, <1>2
<1>4. moved(results, {0}) <= length
  BY <1>2
<1>5. append_file(length, results) = moved(results, {0})
  BY <1>1, <1>3, <1>4, AppendRun
<1> QED BY <1>2, <1>5

(* The four together, for the bytes of any stream and of any buffers. *)
THEOREM LoopsKeepBytes ==
  ASSUME NEW B, NEW old \in Seq(B), NEW stream \in Seq(B), NEW buf \in Seq(B),
         NEW n \in Nat, NEW length \in Nat,
         NEW i \in Nat, NEW j \in Nat, NEW results \in Results(i, j)
  PROVE  /\ ReadKeepsBytes(old, stream, results)
         /\ ReadTakesNoMore(n, stream, results)
         /\ WriteKeepsBytes(buf, results)
         /\ AppendKeepsBytes(length, results)
BY ReadKeepsBytesAlways, ReadTakesNoMoreAlways, WriteKeepsBytesAlways, AppendKeepsBytesAlways

(* The transfers of an IO loop lose, repeat and reorder nothing. *)
THEOREM TransfersAreKept == SafeSpec => []TransfersKeepBytes
<1> DEFINE stream == <<1, 2, 3, 4, 5, 6, 7, 8>>
           old == <<"p">>
           buf == <<1, 2, 3>>
           B == 1 .. 8 \cup {"p"}
<1>1. old \in Seq(B) /\ stream \in Seq(B) /\ buf \in Seq(B)
  <2>1. old \in [1 .. 1 -> B] /\ stream \in [1 .. 8 -> B] /\ buf \in [1 .. 3 -> B]
    OBVIOUS
  <2> QED BY <2>1
<1> HIDE DEF stream, old, buf, B
<1>2. 2 \in Nat /\ 3 \in Nat /\ 4 \in Nat
  OBVIOUS
<1>3. \A results \in Results(2, 4) :
        /\ ReadKeepsBytes(old, stream, results)
        /\ ReadTakesNoMore(3, stream, results)
        /\ WriteKeepsBytes(buf, results)
        /\ AppendKeepsBytes(3, results)
  BY <1>1, <1>2, LoopsKeepBytes
<1>4. TransfersKeepBytes
  BY <1>3, Zenon DEF TransfersKeepBytes, stream, old, buf
<1> QED BY <1>4, PTL
=============================================================================
