--------------------------- MODULE AsyncLogProofs ---------------------------
(***************************************************************************)
(* For every buffer size, every set of line lengths and every limit of at  *)
(* least two buffers: thread_func's assertions hold, and lines reach the   *)
(* file in the order in which they were logged.  For every alphabet, every *)
(* size of a line's buffer and all numbers that are logged: a line shows   *)
(* its numbers as they are, and is cut only for want of room.              *)
(***************************************************************************)
EXTENDS MCAsyncLog, Induction, SequenceTheorems, TLAPS

Outside == {"none", "started", "top", "lock", "waiting", "final", "exited"}
Inside  == {"trim", "write", "refill"}

(* The spares of the logging thread, and why two suffice: the next buffer of
   the front end is missing only if a full one is waiting to be taken, so
   whenever the swap spends both spares it gains two buffers. *)
SpareInv ==
  /\ pc \in Outside => buffer1 = EmptyBuffer /\ buffer2 = EmptyBuffer /\ buffers_need_write = <<>>
  /\ pc \in Inside =>
       /\ buffer1 = Null
       /\ buffer2 \in {Null, EmptyBuffer}
       /\ Len(buffers_need_write) >= 1
       /\ buffer2 = Null => Len(buffers_need_write) >= 2
  /\ next_buffer_ptr_ = Null => Len(m_buffers) >= 1

(* start() sets running_ before it makes the thread, and stop() waits for the
   end of call_once. *)
StartInv ==
  /\ once_flag_ \in {"unset", "constructed", "running"} => pc = "none" /\ m_latch = 1
  /\ once_flag_ \in {"running", "waiting"} => running_
  /\ pc = "started" => once_flag_ = "waiting" /\ m_latch = 1
  /\ m_latch = 1 => pc \in {"none", "started"}
  /\ once_flag_ = "set" => m_latch = 0

IInv == TypeOK /\ SpareInv /\ StartInv

LEMMA EmptyIsBuffer == EmptyBuffer \in Buffer /\ EmptyBuffer # Null
<1>1. <<>> \in Seq(Nat)
  OBVIOUS
<1>2. EmptyBuffer \in Buffer
  BY <1>1 DEF EmptyBuffer, Buffer
<1> QED BY <1>2, NullAssumption

(* A line put into a buffer leaves a buffer. *)
LEMMA WithLine ==
  ASSUME NEW b \in Buffer, NEW length \in Lengths, appended \in Nat
  PROVE  with_line(b, length) \in Buffer
<1>1. length \in Nat
  BY LengthsAssumption
<1>2. b.lines \in Seq(Nat) /\ b.used \in Nat
  BY DEF Buffer
<1>3. Append(b.lines, appended + 1) \in Seq(Nat) /\ b.used + length \in Nat
  BY <1>1, <1>2
<1> QED BY <1>3 DEF with_line, Buffer

(* The lines dropped from a list of buffers are numbers. *)
LEMMA LinesAreNumbers ==
  ASSUME NEW bs \in Seq(Buffer)
  PROVE  lines_in(bs) \in SUBSET Nat
<1>1. ASSUME NEW i \in DOMAIN bs PROVE Range(bs[i].lines) \subseteq Nat
  <2>1. bs[i] \in Buffer
    BY ElementOfSeq
  <2> QED BY <2>1, ElementOfSeq DEF Buffer, Range
<1> QED BY <1>1 DEF lines_in

(* The types, and with them the spares, survive every step. *)
LEMMA TypeStep == IInv /\ [Next]_vars => TypeOK'
<1> SUFFICES ASSUME IInv, [Next]_vars PROVE TypeOK'
  OBVIOUS
<1> USE DEF IInv, TypeOK, ThreadPc, OnceFlag, startVars
<1>1. ASSUME NEW length \in Lengths, append(length) PROVE TypeOK'
  <2>1. appended' \in Nat
    BY <1>1 DEF append
  <2>2. CASE fits(current_buffer_ptr_, length)
    <3>1. current_buffer_ptr_' \in Buffer
      BY <1>1, <2>2, WithLine DEF append
    <3> QED BY <1>1, <2>1, <2>2, <3>1 DEF append, backVars, fileVars
  <2>3. CASE ~fits(current_buffer_ptr_, length)
    <3> DEFINE fresh == IF next_buffer_ptr_ # Null THEN next_buffer_ptr_ ELSE EmptyBuffer
    <3>1. current_buffer_ptr_' \in Buffer
      <4>1. fresh \in Buffer
        BY EmptyIsBuffer
      <4>2. current_buffer_ptr_' = with_line(fresh, length)
        BY <1>1, <2>3 DEF append
      <4>3. with_line(fresh, length) \in Buffer
        BY <4>1, WithLine
      <4> QED BY <4>2, <4>3
    <3> HIDE DEF fresh
    <3>2. m_buffers' = Append(m_buffers, current_buffer_ptr_) /\ next_buffer_ptr_' = Null
      BY <1>1, <2>3 DEF append
    <3>3. m_buffers' \in Seq(Buffer)
      BY <3>2
    <3>4. UNCHANGED <<startVars, running_, pc, backVars, fileVars>>
      BY <1>1 DEF append
    <3> QED BY <2>1, <3>1, <3>2, <3>3, <3>4 DEF backVars, fileVars
  <2> QED BY <2>2, <2>3
<1>2. CASE stop
  BY <1>2 DEF stop, frontVars, backVars, fileVars
<1>3. CASE check_running
  BY <1>3 DEF check_running, frontVars, backVars, fileVars
<1>4. CASE wait_for
  BY <1>4 DEF wait_for, frontVars, backVars, fileVars
<1>5. CASE swap
  <2>1. current_buffer_ptr_' \in Buffer /\ next_buffer_ptr_' \in Buffer \cup {Null}
    BY <1>5, EmptyIsBuffer DEF swap, SpareInv, Outside
  <2>2. buffers_need_write' \in Seq(Buffer) /\ m_buffers' \in Seq(Buffer)
    BY <1>5 DEF swap
  <2> QED BY <1>5, <2>1, <2>2 DEF swap, fileVars
<1>6. CASE trim
  <2>1. CASE Len(buffers_need_write) > DropLimit
    <3>1. kept(buffers_need_write) \in Seq(Buffer)
      BY <2>1, DropLimitAssumption DEF kept
    <3>2. dropped' \in SUBSET Nat
      BY <1>6, <2>1, LinesAreNumbers DEF trim
    <3> QED BY <1>6, <2>1, <3>1, <3>2 DEF trim, frontVars, fileVars
  <2>2. CASE ~(Len(buffers_need_write) > DropLimit)
    <3>1. UNCHANGED <<buffers_need_write, dropped>>
      BY <1>6, <2>2 DEF trim
    <3> QED BY <1>6, <3>1 DEF trim, frontVars, fileVars
  <2> QED BY <2>1, <2>2
<1>7. CASE write_buffer
  <2>1. buffers_need_write[next_write] \in Buffer
    BY <1>7, ElementOfSeq DEF write_buffer
  <2>2. file' \in Seq(Nat) /\ flushed' \in Nat /\ m_count' \in Nat
    <3>1. buffers_need_write[next_write].lines \in Seq(Nat)
      BY <2>1 DEF Buffer
    <3>2. file' \in Seq(Nat)
      BY <1>7, <3>1 DEF write_buffer, append_unlocked
    <3> QED BY <1>7, <3>2 DEF write_buffer, append_unlocked
  <2> QED BY <1>7, <2>2 DEF write_buffer, frontVars
<1>8. CASE all_written
  BY <1>8 DEF all_written, frontVars, backVars, fileVars
<1>9. CASE refill
  <2>1. buffer1' \in Buffer \cup {Null} /\ buffer2' \in Buffer \cup {Null}
    BY <1>9, EmptyIsBuffer DEF refill, reset_cur
  <2>2. buffers_need_write' \in Seq(Buffer) /\ flushed' \in Nat
    BY <1>9 DEF refill, flush
  <2> QED BY <1>9, <2>1, <2>2 DEF refill, frontVars
<1>10. CASE final_flush
  BY <1>10 DEF final_flush, flush, frontVars, backVars
<1>11. CASE UNCHANGED vars
  BY <1>11 DEF vars
<1>12. CASE Starter
  BY <1>12 DEF Starter, call_once, set_running, start_thread, latch_wait, frontVars, backVars, fileVars
<1>13. CASE count_down
  BY <1>13 DEF count_down, StartInv, frontVars, backVars, fileVars
<1> QED BY <1>1, <1>2, <1>3, <1>4, <1>5, <1>6, <1>7, <1>8, <1>9, <1>10, <1>11, <1>12, <1>13 DEF Next, ThreadStep

(* Every step keeps the spares. *)
LEMMA SpareStep == IInv /\ [Next]_vars => SpareInv'
<1> SUFFICES ASSUME IInv, [Next]_vars PROVE SpareInv'
  OBVIOUS
<1> USE DEF IInv, SpareInv, Outside, Inside
<1>1. ASSUME NEW length \in Lengths, append(length) PROVE SpareInv'
  <2>1. CASE fits(current_buffer_ptr_, length)
    BY <1>1, <2>1 DEF append, backVars
  <2>2. CASE ~fits(current_buffer_ptr_, length)
    <3>1. Len(m_buffers') >= 1
      BY <1>1, <2>2 DEF append, TypeOK
    <3> QED BY <1>1, <3>1 DEF append, backVars
  <2> QED BY <2>1, <2>2
<1>2. CASE stop
  BY <1>2 DEF stop, frontVars, backVars
<1>3. CASE check_running
  BY <1>3 DEF check_running, frontVars, backVars
<1>4. CASE wait_for
  BY <1>4 DEF wait_for, frontVars, backVars
<1>5. CASE swap
  <2>1. pc \in Outside /\ pc' = "trim" /\ buffer1' = Null
    BY <1>5 DEF swap
  <2>2. Len(buffers_need_write') = Len(m_buffers) + 1
    BY <1>5 DEF swap, TypeOK
  <2>3. next_buffer_ptr_' # Null
    BY <1>5, <2>1, EmptyIsBuffer DEF swap
  <2>4. buffer2' \in {Null, EmptyBuffer} /\ (buffer2' = Null => Len(m_buffers) >= 1)
    BY <1>5, <2>1, EmptyIsBuffer DEF swap
  <2>5. Len(m_buffers) \in Nat
    BY DEF TypeOK
  <2> QED BY <2>1, <2>2, <2>3, <2>4, <2>5
<1>6. CASE trim
  <2>1. Len(buffers_need_write') >= 2 \/ UNCHANGED buffers_need_write
    BY <1>6, DropLimitAssumption DEF trim, kept, TypeOK
  <2> QED BY <1>6, <2>1 DEF trim, frontVars
<1>7. CASE write_buffer
  BY <1>7 DEF write_buffer, frontVars
<1>8. CASE all_written
  BY <1>8 DEF all_written, frontVars, backVars
<1>9. CASE refill
  <2>1. buffer1' = EmptyBuffer
    BY <1>9 DEF refill, reset_cur
  <2>2. buffer2' = EmptyBuffer
    BY <1>9 DEF refill, reset_cur
  <2> QED BY <1>9, <2>1, <2>2 DEF refill, frontVars
<1>10. CASE final_flush
  BY <1>10 DEF final_flush, frontVars, backVars
<1>11. CASE UNCHANGED vars
  BY <1>11 DEF vars
<1>12. CASE Starter
  BY <1>12 DEF StartInv, Starter, call_once, set_running, start_thread, latch_wait, frontVars, backVars, fileVars
<1>13. CASE count_down
  BY <1>13 DEF count_down, StartInv, frontVars, backVars, fileVars
<1> QED BY <1>1, <1>2, <1>3, <1>4, <1>5, <1>6, <1>7, <1>8, <1>9, <1>10, <1>11, <1>12, <1>13 DEF Next, ThreadStep

(* The handshake of start() and the thread. *)
LEMMA StartStep == IInv /\ [Next]_vars => StartInv'
<1> SUFFICES ASSUME IInv, [Next]_vars PROVE StartInv'
  OBVIOUS
<1> USE DEF IInv, StartInv
<1>1. CASE call_once \/ set_running \/ start_thread
  BY <1>1 DEF call_once, set_running, start_thread
<1>2. CASE latch_wait
  BY <1>2 DEF latch_wait
<1>3. CASE count_down
  BY <1>3 DEF count_down
<1>4. CASE stop \/ \E length \in Lengths : append(length)
  BY <1>4 DEF stop, append, startVars
<1>5. CASE check_running \/ wait_for \/ swap \/ trim \/ write_buffer \/ all_written \/ refill \/ final_flush
  BY <1>5, Zenon DEF check_running, wait_for, swap, trim, write_buffer, all_written, refill, final_flush, startVars
<1>6. CASE UNCHANGED vars
  BY <1>6 DEF vars
<1> QED BY <1>1, <1>2, <1>3, <1>4, <1>5, <1>6 DEF Next, Starter, ThreadStep

(* The constructor and thread_func's set-up establish the invariant. *)
LEMMA InitInv == Init => IInv
<1> SUFFICES ASSUME Init PROVE IInv
  OBVIOUS
<1> USE DEF Init
<1>1. TypeOK
  <2>0. once_flag_ \in OnceFlag /\ m_latch \in {0, 1}
    BY DEF OnceFlag
  <2>1. m_buffers \in Seq(Buffer) /\ buffers_need_write \in Seq(Buffer) /\ file \in Seq(Nat)
    OBVIOUS
  <2>2. running_ \in BOOLEAN
    BY Zenon
  <2> QED BY <2>0, <2>1, <2>2, EmptyIsBuffer DEF TypeOK, ThreadPc
<1>2. SpareInv
  BY EmptyIsBuffer DEF SpareInv, Outside, Inside
<1>3. StartInv
  BY DEF StartInv
<1> QED BY <1>1, <1>2, <1>3 DEF IInv

(* The inductive invariant. *)
THEOREM Invariance == SafeSpec => []IInv
<1>1. IInv /\ [Next]_vars => IInv'
  BY TypeStep, SpareStep, StartStep DEF IInv
<1> QED BY InitInv, <1>1, PTL DEF SafeSpec

(* The types hold whatever is appended and whenever the logger is stopped. *)
THEOREM TypeCorrect == SafeSpec => []TypeOK
<1>1. IInv => TypeOK
  BY DEF IInv
<1> QED BY Invariance, <1>1, PTL

(* No assertion of thread_func fails (async_log.cpp:60-62, 80, 95, 102). *)
THEOREM AssertionsHold == SafeSpec => []AssertsHold
<1>1. IInv => AssertsHold
  BY DEF IInv, TypeOK, SpareInv, StartInv, AssertsHold, Outside, Inside
<1> QED BY Invariance, <1>1, PTL
-----------------------------------------------------------------------------
(* The order of the log: for every buffer size, every set of line lengths and
   every limit of at least two buffers, what is appended goes to the file whole
   and in order, or is dropped with the buffers cut off. *)

(* The next buffer is empty while it waits, and next_write stays in the list. *)
NextInv ==
  /\ next_buffer_ptr_ \in {Null, EmptyBuffer}
  /\ pc = "write" => next_write <= Len(buffers_need_write) + 1

OrderInv == IInv /\ NextInv /\ LinesKeepTheirOrder
-----------------------------------------------------------------------------
(* Where the elements of two sequences put together come from. *)
LEMMA ConcatFacts ==
  ASSUME NEW S, NEW s \in Seq(S), NEW t \in Seq(S)
  PROVE  /\ s \o t \in Seq(S) /\ Len(s \o t) = Len(s) + Len(t)
         /\ Len(s) \in Nat /\ Len(t) \in Nat
         /\ DOMAIN s = 1 .. Len(s) /\ DOMAIN t = 1 .. Len(t) /\ DOMAIN (s \o t) = 1 .. Len(s) + Len(t)
         /\ \A i \in 1 .. Len(s) : (s \o t)[i] = s[i]
         /\ \A i \in 1 .. Len(t) : (s \o t)[Len(s) + i] = t[i]
         /\ \A i \in 1 .. Len(s) + Len(t) : i > Len(s) => i - Len(s) \in 1 .. Len(t)
<1>1. /\ s \o t \in Seq(S) /\ Len(s \o t) = Len(s) + Len(t)
      /\ Len(s) \in Nat /\ Len(t) \in Nat
      /\ DOMAIN s = 1 .. Len(s) /\ DOMAIN t = 1 .. Len(t)
  OBVIOUS
<1>2. \A i \in 1 .. Len(s) : (s \o t)[i] = s[i]
  OBVIOUS
<1>3. \A i \in 1 .. Len(t) : (s \o t)[Len(s) + i] = t[i]
  OBVIOUS
<1> QED BY <1>1, <1>2, <1>3

(* A line has its place in a buffer, and the buffer its place in a list. *)
LEMMA LinesIn ==
  ASSUME NEW bs \in Seq(Buffer), NEW x
  PROVE  x \in lines_in(bs) <=> \E k \in 1 .. Len(bs) : x \in Range(bs[k].lines)
BY DEF lines_in

LEMMA LinesOfConcat ==
  ASSUME NEW s \in Seq(Buffer), NEW t \in Seq(Buffer)
  PROVE  lines_in(s \o t) = lines_in(s) \cup lines_in(t)
<1> DEFINE u == s \o t
<1>1. /\ u \in Seq(Buffer) /\ Len(u) = Len(s) + Len(t) /\ Len(s) \in Nat /\ Len(t) \in Nat
      /\ \A i \in 1 .. Len(s) : u[i] = s[i]
      /\ \A i \in 1 .. Len(t) : u[Len(s) + i] = t[i]
  BY ConcatFacts
<1> HIDE DEF u
<1>2. ASSUME NEW x, x \in lines_in(u) PROVE x \in lines_in(s) \cup lines_in(t)
  <2>1. PICK k \in 1 .. Len(u) : x \in Range(u[k].lines)
    BY <1>1, <1>2, LinesIn
  <2>2. CASE k \in 1 .. Len(s)
    BY <1>1, <2>1, <2>2, LinesIn
  <2>3. CASE k > Len(s)
    <3>1. k - Len(s) \in 1 .. Len(t) /\ Len(s) + (k - Len(s)) = k
      BY <1>1, <2>3
    <3>2. u[k] = t[k - Len(s)]
      BY <1>1, <3>1
    <3> QED BY <2>1, <3>1, <3>2, LinesIn
  <2> QED BY <1>1, <2>2, <2>3
<1>3. ASSUME NEW x, x \in lines_in(s) PROVE x \in lines_in(u)
  <2>1. PICK k \in 1 .. Len(s) : x \in Range(s[k].lines)
    BY <1>3, LinesIn
  <2>2. k \in 1 .. Len(u) /\ u[k] = s[k]
    BY <1>1
  <2> QED BY <1>1, <2>1, <2>2, LinesIn
<1>4. ASSUME NEW x, x \in lines_in(t) PROVE x \in lines_in(u)
  <2>1. PICK k \in 1 .. Len(t) : x \in Range(t[k].lines)
    BY <1>4, LinesIn
  <2>2. Len(s) + k \in 1 .. Len(u) /\ u[Len(s) + k] = t[k]
    BY <1>1
  <2> QED BY <1>1, <2>1, <2>2, LinesIn
<1> QED BY <1>2, <1>3, <1>4 DEF u
-----------------------------------------------------------------------------
(* One more buffer behind the list: it is empty, or all its lines are newer. *)
LEMMA BufferAdded ==
  ASSUME NEW q \in Seq(Buffer), NEW f \in Seq(Nat), NEW b \in Buffer, in_order(f, q),
         increasing(b.lines), precede(Range(f) \cup lines_in(q), Range(b.lines))
  PROVE  /\ in_order(f, Append(q, b))
         /\ lines_in(Append(q, b)) = lines_in(q) \cup Range(b.lines)
<1> DEFINE p == Append(q, b)
<1>1. /\ p \in Seq(Buffer) /\ Len(p) = Len(q) + 1 /\ DOMAIN p = 1 .. Len(q) + 1
      /\ DOMAIN q = 1 .. Len(q) /\ p[Len(q) + 1] = b /\ Len(q) \in Nat
      /\ \A k \in 1 .. Len(q) : p[k] = q[k]
  OBVIOUS
<1>2. \A k \in 1 .. Len(q) + 1 : k \in 1 .. Len(q) \/ k = Len(q) + 1
  BY <1>1
<1> HIDE DEF p
<1>3. lines_in(p) = lines_in(q) \cup Range(b.lines)
  <2>1. \A x : x \in lines_in(p) <=> \E k \in 1 .. Len(q) + 1 : x \in Range(p[k].lines)
    BY <1>1, LinesIn
  <2>2. \A x : x \in lines_in(q) <=> \E k \in 1 .. Len(q) : x \in Range(q[k].lines)
    BY LinesIn
  <2>3. Len(q) + 1 \in 1 .. Len(q) + 1 /\ 1 .. Len(q) \subseteq 1 .. Len(q) + 1
    BY <1>1
  <2> QED BY <1>1, <1>2, <2>1, <2>2, <2>3
<1>4. increasing(f) /\ precede(Range(f), lines_in(p))
  BY <1>3 DEF in_order, precede
<1>5. \A k \in DOMAIN p : increasing(p[k].lines)
  BY <1>1, <1>2 DEF in_order
<1>6. ASSUME NEW k \in DOMAIN p, NEW l \in DOMAIN p, k < l
      PROVE  precede(Range(p[k].lines), Range(p[l].lines))
  <2>1. k \in 1 .. Len(q)
    BY <1>1, <1>6
  <2>2. CASE l \in 1 .. Len(q)
    BY <1>1, <1>6, <2>1, <2>2 DEF in_order
  <2>3. CASE l = Len(q) + 1
    <3>1. Range(q[k].lines) \subseteq lines_in(q)
      BY <2>1, LinesIn
    <3> QED BY <1>1, <2>1, <2>3, <3>1 DEF precede
  <2> QED BY <1>1, <1>2, <2>2, <2>3
<1> QED BY <1>3, <1>4, <1>5, <1>6 DEF in_order, p

(* A list whose buffers are some of those of another, in the same order. *)
LEMMA BuffersKept ==
  ASSUME NEW q \in Seq(Buffer), NEW p \in Seq(Buffer), NEW f \in Seq(Nat), in_order(f, q),
         NEW m \in [1 .. Len(p) -> 1 .. Len(q)],
         \A k \in 1 .. Len(p) : p[k] = q[m[k]],
         \A k, l \in 1 .. Len(p) : k < l => m[k] < m[l]
  PROVE  in_order(f, p) /\ lines_in(p) \subseteq lines_in(q)
<1>1. DOMAIN p = 1 .. Len(p) /\ DOMAIN q = 1 .. Len(q)
  OBVIOUS
<1>2. lines_in(p) \subseteq lines_in(q)
  <2>1. ASSUME NEW x \in lines_in(p) PROVE x \in lines_in(q)
    <3>1. PICK k \in 1 .. Len(p) : x \in Range(p[k].lines)
      BY LinesIn
    <3>2. m[k] \in 1 .. Len(q) /\ x \in Range(q[m[k]].lines)
      BY <3>1
    <3> QED BY <3>2, LinesIn
  <2> QED BY <2>1
<1>3. increasing(f) /\ precede(Range(f), lines_in(p))
  BY <1>2 DEF in_order, precede
<1>4. \A k \in DOMAIN p : increasing(p[k].lines)
  BY <1>1 DEF in_order
<1>5. \A k, l \in DOMAIN p : k < l => precede(Range(p[k].lines), Range(p[l].lines))
  BY <1>1 DEF in_order
<1> QED BY <1>2, <1>3, <1>4, <1>5 DEF in_order

(* One more line behind those of a buffer or of the file. *)
LEMMA LineBehind ==
  ASSUME NEW s \in Seq(Nat), NEW n \in Nat, increasing(s), precede(Range(s), {n})
  PROVE  /\ Append(s, n) \in Seq(Nat) /\ increasing(Append(s, n))
         /\ Range(Append(s, n)) = Range(s) \cup {n}
<1> DEFINE u == Append(s, n)
<1>1. /\ u \in Seq(Nat) /\ DOMAIN u = 1 .. Len(s) + 1 /\ DOMAIN s = 1 .. Len(s)
      /\ u[Len(s) + 1] = n /\ Len(s) \in Nat
      /\ \A k \in 1 .. Len(s) : u[k] = s[k]
  OBVIOUS
<1>2. 1 .. Len(s) + 1 = (1 .. Len(s)) \cup {Len(s) + 1}
  BY <1>1
<1> HIDE DEF u
<1>3. Range(u) = Range(s) \cup {n}
  BY <1>1, <1>2, SMTT(30) DEF Range
<1>4. ASSUME NEW i \in DOMAIN u, NEW j \in DOMAIN u, i < j PROVE u[i] < u[j]
  <2>1. i \in 1 .. Len(s)
    BY <1>1, <1>4
  <2>2. CASE j \in 1 .. Len(s)
    BY <1>1, <1>4, <2>1, <2>2 DEF increasing
  <2>3. CASE j = Len(s) + 1
    BY <1>1, <2>1, <2>3 DEF precede, Range
  <2> QED BY <1>1, <1>2, <2>2, <2>3
<1> QED BY <1>1, <1>3, <1>4 DEF increasing, u

(* The lines of a buffer written behind those of the file. *)
LEMMA LinesBehind ==
  ASSUME NEW s \in Seq(Nat), NEW t \in Seq(Nat), increasing(s), increasing(t),
         precede(Range(s), Range(t))
  PROVE  increasing(s \o t) /\ Range(s \o t) = Range(s) \cup Range(t)
<1> DEFINE u == s \o t
<1>1. /\ Len(s) \in Nat /\ Len(t) \in Nat
      /\ DOMAIN u = 1 .. Len(s) + Len(t) /\ DOMAIN s = 1 .. Len(s) /\ DOMAIN t = 1 .. Len(t)
      /\ \A i \in 1 .. Len(s) : u[i] = s[i]
      /\ \A i \in 1 .. Len(t) : u[Len(s) + i] = t[i]
  BY ConcatFacts
<1> HIDE DEF u
<1>2. \A i \in 1 .. Len(s) + Len(t) :
        i \in 1 .. Len(s) \/ (i - Len(s) \in 1 .. Len(t) /\ u[i] = t[i - Len(s)])
  <2> TAKE i \in 1 .. Len(s) + Len(t)
  <2>1. i > Len(s) => i - Len(s) \in 1 .. Len(t) /\ Len(s) + (i - Len(s)) = i
    BY <1>1
  <2> QED BY <1>1, <2>1
<1>3. Range(u) = Range(s) \cup Range(t)
  <2>1. ASSUME NEW i \in DOMAIN u PROVE u[i] \in Range(s) \cup Range(t)
    <3>1. CASE i \in 1 .. Len(s) BY <1>1, <3>1 DEF Range
    <3>2. CASE i \notin 1 .. Len(s) BY <1>1, <1>2, <3>2 DEF Range
    <3> QED BY <3>1, <3>2
  <2>2. ASSUME NEW i \in DOMAIN s PROVE s[i] \in Range(u)
    <3>1. i \in DOMAIN u /\ u[i] = s[i]
      BY <1>1
    <3> QED BY <3>1 DEF Range
  <2>3. ASSUME NEW i \in DOMAIN t PROVE t[i] \in Range(u)
    <3>1. Len(s) + i \in DOMAIN u /\ u[Len(s) + i] = t[i]
      BY <1>1
    <3> QED BY <3>1 DEF Range
  <2> QED BY <2>1, <2>2, <2>3 DEF Range
<1>4. ASSUME NEW i \in DOMAIN u, NEW j \in DOMAIN u, i < j PROVE u[i] < u[j]
  <2>1. CASE i \in 1 .. Len(s) /\ j \in 1 .. Len(s)
    BY <1>1, <1>4, <2>1 DEF increasing
  <2>2. CASE i \in 1 .. Len(s) /\ j \notin 1 .. Len(s)
    <3>1. u[i] \in Range(s) /\ u[j] \in Range(t)
      BY <1>1, <1>2, <2>2 DEF Range
    <3> QED BY <3>1 DEF precede
  <2>3. CASE i \notin 1 .. Len(s)
    <3>1. j \notin 1 .. Len(s)
      BY <1>1, <1>4, <2>3
    <3>2. /\ i - Len(s) \in DOMAIN t /\ j - Len(s) \in DOMAIN t /\ i - Len(s) < j - Len(s)
          /\ u[i] = t[i - Len(s)] /\ u[j] = t[j - Len(s)]
      BY <1>1, <1>2, <1>4, <2>3, <3>1
    <3> QED BY <3>2 DEF increasing
  <2> QED BY <2>1, <2>2, <2>3
<1> QED BY <1>3, <1>4 DEF increasing, u

(* A newer line in the last buffer of a list. *)
LEMMA LineAdded ==
  ASSUME NEW q \in Seq(Buffer), NEW p \in Seq(Buffer), NEW f \in Seq(Nat), in_order(f, q),
         NEW n \in Nat, precede(Range(f) \cup lines_in(q), {n}),
         q # <<>>, Len(p) = Len(q), \A k \in 1 .. Len(q) : k < Len(q) => p[k] = q[k],
         p[Len(q)].lines = Append(q[Len(q)].lines, n)
  PROVE  in_order(f, p) /\ lines_in(p) = lines_in(q) \cup {n}
<1> DEFINE z == Len(q)
<1>1. /\ DOMAIN p = 1 .. z /\ DOMAIN q = 1 .. z /\ z \in Nat /\ z \in 1 .. z
      /\ q[z] \in Buffer /\ q[z].lines \in Seq(Nat)
  <2>1. DOMAIN p = 1 .. z /\ DOMAIN q = 1 .. z /\ z \in Nat
    OBVIOUS
  <2>2. z # 0
    OBVIOUS
  <2>3. z \in 1 .. z
    BY <2>1, <2>2
  <2>4. q[z] \in Buffer
    BY <2>3, ElementOfSeq
  <2> QED BY <2>1, <2>3, <2>4 DEF Buffer
<1>2. \A k \in 1 .. z : k = z \/ (k < z /\ p[k] = q[k])
  <2> TAKE k \in 1 .. z
  <2>1. \A x \in Nat : \A y \in 1 .. x : y = x \/ y < x
    OBVIOUS
  <2> QED BY <1>1, <2>1
<1>3. \A k \in 1 .. z : Range(q[k].lines) \subseteq lines_in(q)
  BY LinesIn
<1>4. increasing(q[z].lines) /\ precede(Range(q[z].lines), {n})
  BY <1>1, <1>3 DEF in_order, precede
<1>5. increasing(p[z].lines) /\ Range(p[z].lines) = Range(q[z].lines) \cup {n}
  BY <1>1, <1>4, LineBehind
<1> HIDE DEF z
<1>6. lines_in(p) = lines_in(q) \cup {n}
  <2>1. \A x : x \in lines_in(p) <=> \E k \in 1 .. z : x \in Range(p[k].lines)
    BY LinesIn DEF z
  <2>2. \A x : x \in lines_in(q) <=> \E k \in 1 .. z : x \in Range(q[k].lines)
    BY LinesIn DEF z
  <2> QED BY <1>1, <1>2, <1>5, <2>1, <2>2
<1>7. increasing(f) /\ precede(Range(f), lines_in(p))
  BY <1>6 DEF in_order, precede
<1>8. \A k \in DOMAIN p : increasing(p[k].lines)
  BY <1>1, <1>2, <1>5 DEF in_order
<1>9. ASSUME NEW k \in DOMAIN p, NEW l \in DOMAIN p, k < l
      PROVE  precede(Range(p[k].lines), Range(p[l].lines))
  <2>1. p[k] = q[k] /\ precede(Range(q[k].lines), Range(q[l].lines))
    BY <1>1, <1>2, <1>9 DEF in_order
  <2>2. precede(Range(q[k].lines), {n})
    BY <1>1, <1>3 DEF precede
  <2>3. CASE l = z
    BY <1>5, <2>1, <2>2, <2>3 DEF precede
  <2> QED BY <1>1, <1>2, <2>1, <2>3
<1> QED BY <1>6, <1>7, <1>8, <1>9 DEF in_order

(* The first buffer of a list goes to the file. *)
LEMMA HeadWritten ==
  ASSUME NEW q \in Seq(Buffer), NEW r \in Seq(Buffer), NEW f \in Seq(Nat), in_order(f, q),
         Len(q) = Len(r) + 1, \A k \in 1 .. Len(r) : r[k] = q[k + 1]
  PROVE  /\ in_order(f \o q[1].lines, r)
         /\ Range(f \o q[1].lines) \cup lines_in(r) = Range(f) \cup lines_in(q)
<1> DEFINE b == q[1]
<1>1. /\ DOMAIN r = 1 .. Len(r) /\ DOMAIN q = 1 .. Len(r) + 1 /\ Len(r) \in Nat /\ 1 \in DOMAIN q
      /\ b \in Buffer /\ b.lines \in Seq(Nat)
      /\ \A k \in 1 .. Len(r) : k + 1 \in 1 .. Len(r) + 1 /\ 1 < k + 1
      /\ \A k \in 1 .. Len(r) + 1 : k = 1 \/ (k - 1 \in 1 .. Len(r) /\ r[k - 1] = q[k])
  <2>1. DOMAIN r = 1 .. Len(r) /\ DOMAIN q = 1 .. Len(r) + 1 /\ Len(r) \in Nat
    OBVIOUS
  <2>2. \A k \in 1 .. Len(r) + 1 : k = 1 \/ (k - 1 \in 1 .. Len(r) /\ (k - 1) + 1 = k)
    BY <2>1
  <2>3. 1 \in DOMAIN q /\ \A k \in 1 .. Len(r) : k + 1 \in 1 .. Len(r) + 1 /\ 1 < k + 1
    BY <2>1
  <2>4. q[1] \in Buffer
    BY <2>1, <2>3, ElementOfSeq
  <2>5. b \in Buffer /\ b.lines \in Seq(Nat)
    BY <2>4 DEF Buffer
  <2> QED BY <2>1, <2>2, <2>3, <2>5
<1>2. Range(b.lines) \subseteq lines_in(q)
  BY <1>1, LinesIn
<1>3. /\ increasing(f \o b.lines) /\ Range(f \o b.lines) = Range(f) \cup Range(b.lines)
  <2>1. increasing(f) /\ increasing(b.lines) /\ precede(Range(f), Range(b.lines))
    BY <1>1, <1>2 DEF in_order, precede
  <2> QED BY <1>1, <2>1, LinesBehind
<1> HIDE DEF b
<1>4. \A x : x \in lines_in(q) <=> x \in Range(b.lines) \/ x \in lines_in(r)
  <2>1. \A x : x \in lines_in(r) <=> \E k \in 1 .. Len(r) : x \in Range(r[k].lines)
    BY LinesIn
  <2>2. \A x : x \in lines_in(q) <=> \E k \in 1 .. Len(r) + 1 : x \in Range(q[k].lines)
    BY LinesIn
  <2> QED BY <1>1, <2>1, <2>2, ZenonT(40) DEF b
<1>5. precede(Range(f \o b.lines), lines_in(r))
  <2>1. ASSUME NEW y \in lines_in(r) PROVE precede(Range(b.lines), {y})
    <3>1. PICK k \in 1 .. Len(r) : y \in Range(r[k].lines)
      BY LinesIn
    <3>2. precede(Range(q[1].lines), Range(q[k + 1].lines))
      BY <1>1 DEF in_order
    <3> QED BY <3>1, <3>2 DEF precede, b
  <2> QED BY <1>3, <1>4, <2>1 DEF precede, in_order
<1>6. \A k \in DOMAIN r : increasing(r[k].lines)
  BY <1>1 DEF in_order
<1>7. ASSUME NEW k \in DOMAIN r, NEW l \in DOMAIN r, k < l
      PROVE  precede(Range(r[k].lines), Range(r[l].lines))
  <2>1. k + 1 \in DOMAIN q /\ l + 1 \in DOMAIN q /\ k + 1 < l + 1
    BY <1>1, <1>7
  <2> QED BY <1>1, <2>1 DEF in_order
<1>8. in_order(f \o b.lines, r)
  BY <1>3, <1>5, <1>6, <1>7 DEF in_order
<1> QED BY <1>3, <1>4, <1>8 DEF b
-----------------------------------------------------------------------------
LEMMA QueueType ==
  ASSUME IInv
  PROVE  /\ unwritten \in Seq(Buffer)
         /\ Append(m_buffers, current_buffer_ptr_) \in Seq(Buffer)
         /\ queue \in Seq(Buffer)
<1>1. unwritten \in Seq(Buffer)
  <2>1. pc = "write" => unwritten \in Seq(Buffer)
    <3>1. next_write \in Int /\ Len(buffers_need_write) \in Int /\ next_write >= 1
      BY DEF IInv, TypeOK
    <3> QED BY <3>1 DEF IInv, TypeOK, unwritten
  <2>2. pc # "write" => unwritten \in Seq(Buffer)
    BY DEF IInv, TypeOK, unwritten
  <2> QED BY <2>1, <2>2
<1>2. Append(m_buffers, current_buffer_ptr_) \in Seq(Buffer)
  BY DEF IInv, TypeOK
<1> QED BY <1>1, <1>2 DEF queue

(* The line that is appended is newer than all others. *)
LEMMA NewestLine ==
  ASSUME OrderInv
  PROVE  /\ appended + 1 \in Nat
         /\ precede(Range(file) \cup lines_in(queue), {appended + 1})
         /\ appended + 1 \notin dropped
         /\ 1 .. appended + 1 = (1 .. appended) \cup {appended + 1}
<1>1. appended \in Nat
  BY DEF OrderInv, IInv, TypeOK
<1>2. \A x \in 1 .. appended : x < appended + 1
  BY <1>1
<1> QED BY <1>1, <1>2 DEF OrderInv, LinesKeepTheirOrder, precede

(* append() with room in the current buffer. *)
LEMMA AppendFits ==
  ASSUME OrderInv, NEW length \in Lengths, append(length), fits(current_buffer_ptr_, length)
  PROVE  LinesKeepTheirOrder'
<1> DEFINE n == appended + 1
           back == Append(m_buffers, current_buffer_ptr_)
           newback == Append(m_buffers, with_line(current_buffer_ptr_, length))
<1>1. /\ m_buffers \in Seq(Buffer) /\ current_buffer_ptr_ \in Buffer /\ file \in Seq(Nat)
      /\ appended \in Nat /\ unwritten \in Seq(Buffer) /\ back \in Seq(Buffer)
      /\ queue = unwritten \o back
  BY QueueType DEF OrderInv, IInv, TypeOK, queue
<1>2. with_line(current_buffer_ptr_, length) \in Buffer
  BY <1>1, WithLine
<1>3. with_line(current_buffer_ptr_, length).lines = Append(current_buffer_ptr_.lines, n)
  BY DEF with_line, fits
<1>4. /\ appended' = n /\ UNCHANGED <<file, dropped, pc, buffers_need_write, next_write>>
      /\ m_buffers' = m_buffers /\ current_buffer_ptr_' = with_line(current_buffer_ptr_, length)
  BY DEF append, backVars, fileVars
<1>5. queue' = unwritten \o newback
  BY <1>4 DEF queue, unwritten
<1>6. /\ newback \in Seq(Buffer) /\ Len(newback) = Len(back) /\ Len(back) = Len(m_buffers) + 1
      /\ Len(m_buffers) \in Nat
      /\ \A k \in 1 .. Len(m_buffers) : newback[k] = back[k]
      /\ newback[Len(back)] = with_line(current_buffer_ptr_, length)
      /\ back[Len(back)] = current_buffer_ptr_
  <2>1. ASSUME NEW b \in Buffer
        PROVE  /\ Append(m_buffers, b) \in Seq(Buffer)
               /\ Len(Append(m_buffers, b)) = Len(m_buffers) + 1
               /\ \A k \in 1 .. Len(m_buffers) : Append(m_buffers, b)[k] = m_buffers[k]
               /\ Append(m_buffers, b)[Len(m_buffers) + 1] = b
    BY <1>1
  <2>2. Len(m_buffers) \in Nat
    BY <1>1
  <2> QED BY <1>1, <1>2, <2>1, <2>2
<1> HIDE DEF back, newback
<1> DEFINE q == unwritten \o back
           p == unwritten \o newback
<1>7. /\ q \in Seq(Buffer) /\ p \in Seq(Buffer) /\ Len(q) = Len(unwritten) + Len(back)
      /\ Len(p) = Len(q) /\ Len(unwritten) \in Nat
      /\ \A k \in 1 .. Len(unwritten) : q[k] = unwritten[k] /\ p[k] = unwritten[k]
      /\ \A k \in 1 .. Len(back) : /\ q[Len(unwritten) + k] = back[k]
                                   /\ p[Len(unwritten) + k] = newback[k]
  <2>1. /\ q \in Seq(Buffer) /\ Len(q) = Len(unwritten) + Len(back) /\ Len(unwritten) \in Nat
        /\ \A k \in 1 .. Len(unwritten) : q[k] = unwritten[k]
        /\ \A k \in 1 .. Len(back) : q[Len(unwritten) + k] = back[k]
    BY <1>1, ConcatFacts
  <2>2. /\ p \in Seq(Buffer) /\ Len(p) = Len(unwritten) + Len(newback)
        /\ \A k \in 1 .. Len(unwritten) : p[k] = unwritten[k]
        /\ \A k \in 1 .. Len(newback) : p[Len(unwritten) + k] = newback[k]
    <3>1. unwritten \in Seq(Buffer) /\ newback \in Seq(Buffer)
      BY <1>1, <1>6
    <3> QED BY <3>1, ConcatFacts
  <2> HIDE DEF q, p
  <2> QED BY <1>6, <2>1, <2>2
<1> HIDE DEF q, p
<1>8. q # <<>> /\ q[Len(q)] = current_buffer_ptr_
      /\ p[Len(q)] = with_line(current_buffer_ptr_, length)
  <2>1. Len(back) \in 1 .. Len(back) /\ Len(q) # 0
    BY <1>6, <1>7
  <2> QED BY <1>6, <1>7, <2>1
<1>9. ASSUME NEW k \in 1 .. Len(q), k < Len(q) PROVE p[k] = q[k]
  <2>1. CASE k \in 1 .. Len(unwritten) BY <1>7, <2>1
  <2>2. CASE k > Len(unwritten)
    <3>1. /\ k - Len(unwritten) \in 1 .. Len(m_buffers) /\ k - Len(unwritten) \in 1 .. Len(back)
          /\ Len(unwritten) + (k - Len(unwritten)) = k
      BY <1>6, <1>7, <1>9, <2>2
    <3> QED BY <1>6, <1>7, <3>1
  <2> QED BY <1>7, <2>1, <2>2
<1>10. in_order(file, q) /\ precede(Range(file) \cup lines_in(q), {n}) /\ n \in Nat
  BY <1>1, NewestLine DEF OrderInv, LinesKeepTheirOrder, q
<1>11. in_order(file, p) /\ lines_in(p) = lines_in(q) \cup {n}
  <2>1. p[Len(q)].lines = Append(q[Len(q)].lines, n)
    BY <1>3, <1>8
  <2>2. file \in Seq(Nat) /\ q \in Seq(Buffer) /\ p \in Seq(Buffer) /\ Len(p) = Len(q) /\ q # <<>>
    BY <1>1, <1>7, <1>8
  <2>3. \A k \in 1 .. Len(q) : k < Len(q) => p[k] = q[k]
    BY <1>9
  <2> HIDE DEF n
  <2> QED BY <1>10, <2>1, <2>2, <2>3, LineAdded
<1>12. queue = q /\ queue' = p
  BY <1>1, <1>5 DEF q, p
<1> QED BY <1>4, <1>11, <1>12, NewestLine DEF OrderInv, LinesKeepTheirOrder

(* A buffer put behind the queue, in which there is nothing or the newest line. *)
LEMMA BufferBehind ==
  ASSUME OrderInv, NEW b \in Buffer, queue' = Append(queue, b), UNCHANGED <<file, dropped>>,
         \/ b.lines = <<>> /\ appended' = appended
         \/ b.lines = <<appended + 1>> /\ appended' = appended + 1
  PROVE  LinesKeepTheirOrder'
<1>1. queue \in Seq(Buffer) /\ file \in Seq(Nat) /\ in_order(file, queue)
  BY QueueType DEF OrderInv, IInv, TypeOK, LinesKeepTheirOrder
<1>2. /\ Range(<<>>) = {} /\ increasing(<<>>)
      /\ Range(<<appended + 1>>) = {appended + 1} /\ increasing(<<appended + 1>>)
  BY DEF Range, increasing
<1>3. increasing(b.lines) /\ precede(Range(file) \cup lines_in(queue), Range(b.lines))
  BY <1>2, NewestLine DEF precede
<1>4. /\ in_order(file, queue')
      /\ lines_in(queue') = lines_in(queue) \cup Range(b.lines)
  BY <1>1, <1>3, BufferAdded
<1> QED BY <1>2, <1>4, NewestLine DEF OrderInv, LinesKeepTheirOrder

(* A buffer behind the last one is behind the whole queue. *)
LEMMA AppendBehind ==
  ASSUME NEW u \in Seq(Buffer), NEW ms \in Seq(Buffer), NEW b \in Buffer
  PROVE  u \o Append(ms, b) = Append(u \o ms, b)
OBVIOUS

(* append() with a full current buffer: the next one, or a new one, takes the line. *)
LEMMA AppendFull ==
  ASSUME OrderInv, NEW length \in Lengths, append(length), ~fits(current_buffer_ptr_, length)
  PROVE  LinesKeepTheirOrder'
<1> DEFINE b == with_line(EmptyBuffer, length)
<1>1. length \in Nat /\ length < BufferSize /\ BufferSize \in Nat
  BY LengthsAssumption
<1>2. b.lines = <<appended + 1>>
  <2>1. available_size(EmptyBuffer) > length
    BY <1>1 DEF available_size, EmptyBuffer
  <2>2. b.lines = Append(<<>>, appended + 1)
    BY <2>1 DEF with_line, EmptyBuffer
  <2> QED BY <2>2
<1>3. b \in Buffer
  BY EmptyIsBuffer, WithLine DEF OrderInv, IInv, TypeOK
<1>4. /\ appended' = appended + 1 /\ UNCHANGED <<file, dropped, pc, buffers_need_write, next_write>>
      /\ m_buffers' = Append(m_buffers, current_buffer_ptr_)
  BY DEF append, backVars, fileVars
<1>5. current_buffer_ptr_' = b
  <2>1. current_buffer_ptr_' =
          with_line(IF next_buffer_ptr_ # Null THEN next_buffer_ptr_ ELSE EmptyBuffer, length)
    BY DEF append
  <2> QED BY <2>1 DEF OrderInv, NextInv
<1> HIDE DEF b
<1>6. /\ unwritten \in Seq(Buffer) /\ Append(m_buffers, current_buffer_ptr_) \in Seq(Buffer)
      /\ unwritten' = unwritten
  BY <1>4, QueueType DEF OrderInv, unwritten
<1>7. queue' = Append(queue, b)
  BY <1>3, <1>4, <1>5, <1>6, AppendBehind DEF queue
<1> QED BY <1>2, <1>3, <1>4, <1>7, BufferBehind

(* The swap puts an empty buffer behind the queue, all of which is in hand. *)
LEMMA SwapKeeps ==
  ASSUME OrderInv, swap
  PROVE  LinesKeepTheirOrder'
<1>1. /\ unwritten = <<>> /\ unwritten' = Append(m_buffers, current_buffer_ptr_)
      /\ m_buffers' = <<>> /\ current_buffer_ptr_' = EmptyBuffer
      /\ UNCHANGED <<file, dropped, appended>>
  BY DEF swap, unwritten, OrderInv, IInv, SpareInv, Outside, fileVars
<1>2. Append(m_buffers, current_buffer_ptr_) \in Seq(Buffer)
  BY QueueType DEF OrderInv
<1>3. queue' = Append(queue, EmptyBuffer)
  BY <1>1, <1>2, EmptyIsBuffer DEF queue
<1>4. EmptyBuffer.lines = <<>>
  BY DEF EmptyBuffer
<1> QED BY <1>1, <1>3, <1>4, EmptyIsBuffer, BufferBehind

(* No line is in two places of an ordered list. *)
LEMMA PartsDiffer ==
  ASSUME NEW s \in Seq(Buffer), NEW t \in Seq(Buffer), NEW f, in_order(f, s \o t)
  PROVE  lines_in(s) \cap lines_in(t) = {}
<1> SUFFICES ASSUME NEW x \in lines_in(s), x \in lines_in(t) PROVE FALSE
  OBVIOUS
<1>1. PICK k \in 1 .. Len(s) : x \in Range(s[k].lines)
  BY LinesIn
<1>2. PICK l \in 1 .. Len(t) : x \in Range(t[l].lines)
  BY LinesIn
<1>3. /\ k \in DOMAIN (s \o t) /\ Len(s) + l \in DOMAIN (s \o t) /\ k < Len(s) + l
      /\ (s \o t)[k] = s[k] /\ (s \o t)[Len(s) + l] = t[l]
  <2>1. /\ Len(s) \in Nat /\ Len(t) \in Nat /\ DOMAIN (s \o t) = 1 .. Len(s) + Len(t)
        /\ (s \o t)[k] = s[k] /\ (s \o t)[Len(s) + l] = t[l]
    BY ConcatFacts
  <2> QED BY <2>1
<1>4. precede(Range(s[k].lines), Range(t[l].lines))
  <2>1. precede(Range((s \o t)[k].lines), Range((s \o t)[Len(s) + l].lines))
    BY <1>3 DEF in_order
  <2> QED BY <1>3, <2>1
<1>5. x < x /\ x \in Nat
  BY <1>1, <1>2, <1>4, LinesAreNumbers DEF precede
<1> QED BY <1>5

(* Nor in the file and in the queue. *)
LEMMA FileDiffers ==
  ASSUME NEW f \in Seq(Nat), NEW s \in Seq(Buffer), in_order(f, s)
  PROVE  Range(f) \cap lines_in(s) = {}
<1> SUFFICES ASSUME NEW x \in Range(f), x \in lines_in(s) PROVE FALSE
  OBVIOUS
<1>1. x < x /\ x \in Nat
  BY LinesAreNumbers DEF in_order, precede
<1> QED BY <1>1

(* Cutting a list down to two buffers keeps the rest of the queue in order. *)
LEMMA CutKeeps ==
  ASSUME NEW bs \in Seq(Buffer), NEW rest \in Seq(Buffer), Len(bs) > 2,
         NEW f \in Seq(Nat), in_order(f, bs \o rest)
  PROVE  /\ kept(bs) \in Seq(Buffer) /\ in_order(f, kept(bs) \o rest)
         /\ lines_in(kept(bs)) \subseteq lines_in(bs)
<1> DEFINE two == kept(bs)
           q == bs \o rest
           p == two \o rest
<1>1. /\ two \in Seq(Buffer) /\ Len(two) = 2 /\ Len(bs) \in Nat /\ Len(rest) \in Nat
      /\ \A k \in 1 .. 2 : two[k] = bs[k] /\ k \in 1 .. Len(bs)
  BY DEF kept
<1> HIDE DEF two
<1>2. /\ q \in Seq(Buffer) /\ Len(q) = Len(bs) + Len(rest)
      /\ \A k \in 1 .. Len(bs) : q[k] = bs[k]
      /\ \A k \in 1 .. Len(rest) : q[Len(bs) + k] = rest[k]
  BY ConcatFacts
<1>3. /\ p \in Seq(Buffer) /\ Len(p) = 2 + Len(rest)
      /\ \A k \in 1 .. 2 : p[k] = two[k]
      /\ \A k \in 1 .. Len(rest) : p[2 + k] = rest[k]
  <2>1. /\ p \in Seq(Buffer) /\ Len(p) = Len(two) + Len(rest)
        /\ \A k \in 1 .. Len(two) : p[k] = two[k]
        /\ \A k \in 1 .. Len(rest) : p[Len(two) + k] = rest[k]
    <3>1. two \in Seq(Buffer) /\ rest \in Seq(Buffer)
      BY <1>1
    <3> QED BY <3>1, ConcatFacts
  <2> QED BY <1>1, <2>1
<1> HIDE DEF p, q
<1> DEFINE m == [k \in 1 .. Len(p) |-> IF k <= 2 THEN k ELSE Len(bs) + (k - 2)]
<1>4. m \in [1 .. Len(p) -> 1 .. Len(q)]
  BY <1>1, <1>2, <1>3
<1>5. ASSUME NEW k \in 1 .. Len(p) PROVE p[k] = q[m[k]]
  <2>1. CASE k \in 1 .. 2
    BY <1>1, <1>2, <1>3, <2>1
  <2>2. CASE k > 2
    <3>1. k - 2 \in 1 .. Len(rest) /\ 2 + (k - 2) = k /\ m[k] = Len(bs) + (k - 2)
      BY <1>1, <1>3, <2>2
    <3>2. p[k] = rest[k - 2] /\ q[m[k]] = rest[k - 2]
      BY <1>2, <1>3, <3>1
    <3> QED BY <3>2
  <2> QED BY <1>1, <1>3, <2>1, <2>2
<1>6. \A k, l \in 1 .. Len(p) : k < l => m[k] < m[l]
  BY <1>1, <1>3
<1> HIDE DEF m
<1>7. in_order(f, q)
  BY DEF q
<1>8. in_order(f, p)
  BY <1>2, <1>3, <1>4, <1>5, <1>6, <1>7, BuffersKept
<1>9. lines_in(two) \subseteq lines_in(bs)
  <2>1. ASSUME NEW x \in lines_in(two) PROVE x \in lines_in(bs)
    <3>1. PICK k \in 1 .. 2 : x \in Range(two[k].lines)
      BY <1>1, LinesIn
    <3>2. k \in 1 .. Len(bs) /\ x \in Range(bs[k].lines)
      BY <1>1, <3>1
    <3> QED BY <3>2, LinesIn
  <2> QED BY <2>1
<1> QED BY <1>1, <1>8, <1>9 DEF two, p

LEMMA TrimKeeps ==
  ASSUME OrderInv, trim
  PROVE  LinesKeepTheirOrder'
<1> DEFINE bs == buffers_need_write
           rest == Append(m_buffers, current_buffer_ptr_)
<1>1. /\ bs \in Seq(Buffer) /\ rest \in Seq(Buffer) /\ file \in Seq(Nat)
      /\ queue = bs \o rest /\ in_order(file, queue)
  BY QueueType DEF OrderInv, LinesKeepTheirOrder, IInv, TypeOK, trim, queue, unwritten
<1>2. /\ pc' = "write" /\ next_write' = 1 /\ UNCHANGED <<file, appended, m_buffers, current_buffer_ptr_>>
  BY DEF trim, frontVars, fileVars
<1>3. \A s \in Seq(Buffer) : SubSeq(s, 1, Len(s)) = s
  OBVIOUS
<1>4. buffers_need_write' \in Seq(Buffer) => queue' = buffers_need_write' \o rest
  BY <1>2, <1>3 DEF queue, unwritten
<1>5. CASE UNCHANGED <<buffers_need_write, dropped>>
  BY <1>1, <1>2, <1>4, <1>5 DEF OrderInv, LinesKeepTheirOrder
<1>6. CASE /\ Len(bs) > DropLimit
           /\ buffers_need_write' = kept(bs)
           /\ dropped' = dropped \cup (lines_in(bs) \ lines_in(kept(bs)))
  <2>1. Len(bs) > 2
    BY <1>1, <1>6, DropLimitAssumption
  <2>2. /\ kept(bs) \in Seq(Buffer) /\ in_order(file, kept(bs) \o rest)
        /\ lines_in(kept(bs)) \subseteq lines_in(bs)
    BY <1>1, <2>1, CutKeeps
  <2>3. /\ lines_in(queue) = lines_in(bs) \cup lines_in(rest)
        /\ lines_in(bs) \cap lines_in(rest) = {}
        /\ Range(file) \cap lines_in(queue) = {}
    BY <1>1, LinesOfConcat, PartsDiffer, FileDiffers, QueueType DEF OrderInv
  <2>4. queue' = kept(bs) \o rest /\ lines_in(queue') = lines_in(kept(bs)) \cup lines_in(rest)
    BY <1>1, <1>4, <1>6, <2>2, LinesOfConcat
  <2> HIDE DEF bs, rest
  <2>5. in_order(file, queue')
    BY <2>2, <2>4
  <2>6. (Range(file) \cup lines_in(queue')) \cap dropped' = {}
    BY <1>6, <2>2, <2>3, <2>4 DEF OrderInv, LinesKeepTheirOrder
  <2>7. Range(file) \cup lines_in(queue') \cup dropped' = 1 .. appended
    BY <1>6, <2>2, <2>3, <2>4 DEF OrderInv, LinesKeepTheirOrder
  <2> QED BY <1>2, <2>5, <2>6, <2>7 DEF LinesKeepTheirOrder
<1> QED BY <1>5, <1>6 DEF trim

(* A list without its first buffer, with what is behind it. *)
LEMMA TailConcat ==
  ASSUME NEW u \in Seq(Buffer), NEW v \in Seq(Buffer), NEW t \in Seq(Buffer),
         Len(u) = Len(v) + 1, \A k \in 1 .. Len(v) : v[k] = u[k + 1]
  PROVE  /\ Len(u \o t) = Len(v \o t) + 1 /\ (u \o t)[1] = u[1]
         /\ \A k \in 1 .. Len(v \o t) : (v \o t)[k] = (u \o t)[k + 1]
<1> DEFINE q == u \o t
           r == v \o t
<1>0. ASSUME NEW s \in Seq(Buffer)
      PROVE  /\ Len(s) \in Nat /\ Len(t) \in Nat /\ Len(s \o t) = Len(s) + Len(t)
             /\ \A k \in 1 .. Len(s) : (s \o t)[k] = s[k]
             /\ \A k \in 1 .. Len(t) : (s \o t)[Len(s) + k] = t[k]
  BY ConcatFacts
<1>1. /\ Len(u) \in Nat /\ Len(t) \in Nat /\ Len(q) = Len(u) + Len(t)
      /\ \A k \in 1 .. Len(u) : q[k] = u[k]
      /\ \A k \in 1 .. Len(t) : q[Len(u) + k] = t[k]
  BY <1>0, Zenon
<1>2. /\ Len(v) \in Nat /\ Len(r) = Len(v) + Len(t)
      /\ \A k \in 1 .. Len(v) : r[k] = v[k]
      /\ \A k \in 1 .. Len(t) : r[Len(v) + k] = t[k]
  BY <1>0, Zenon
<1> HIDE DEF q, r
<1>3. ASSUME NEW k \in 1 .. Len(r) PROVE r[k] = q[k + 1]
  <2>1. CASE k \in 1 .. Len(v)
    BY <1>1, <1>2, <2>1
  <2>2. CASE k > Len(v)
    <3>1. /\ k - Len(v) \in 1 .. Len(t) /\ Len(v) + (k - Len(v)) = k
          /\ Len(u) + (k - Len(v)) = k + 1
      <4>1. k \in 1 .. Len(v) + Len(t) /\ Len(v) \in Nat /\ Len(t) \in Nat /\ Len(u) = Len(v) + 1
        BY <1>1, <1>2
      <4> QED BY <2>2, <4>1
    <3>2. r[k] = t[k - Len(v)]
      BY <1>2, <3>1
    <3>3. q[Len(u) + (k - Len(v))] = t[k - Len(v)]
      BY <1>1, <3>1, Zenon
    <3> QED BY <3>1, <3>2, <3>3
  <2> QED BY <1>2, <2>1, <2>2
<1>4. Len(q) = Len(r) + 1 /\ q[1] = u[1]
  <2>1. 1 \in 1 .. Len(u)
    BY <1>2
  <2> QED BY <1>1, <1>2, <2>1
<1> QED BY <1>3, <1>4 DEF q, r

LEMMA WriteKeeps ==
  ASSUME OrderInv, write_buffer
  PROVE  LinesKeepTheirOrder'
<1> DEFINE bs == buffers_need_write
           i == next_write
           u == SubSeq(bs, i, Len(bs))
           v == SubSeq(bs, i + 1, Len(bs))
           rest == Append(m_buffers, current_buffer_ptr_)
<1>1. /\ bs \in Seq(Buffer) /\ rest \in Seq(Buffer) /\ file \in Seq(Nat) /\ i \in 1 .. Len(bs)
      /\ Len(bs) \in Nat
  BY QueueType DEF OrderInv, IInv, TypeOK, write_buffer
<1>2. /\ file' = file \o bs[i].lines /\ next_write' = i + 1 /\ pc = "write"
      /\ UNCHANGED <<pc, appended, dropped, m_buffers, current_buffer_ptr_, buffers_need_write>>
  BY DEF write_buffer, append_unlocked, frontVars
<1>3. queue = u \o rest /\ queue' = v \o rest
  BY <1>2 DEF queue, unwritten
<1>4. /\ u \in Seq(Buffer) /\ v \in Seq(Buffer) /\ Len(u) = Len(v) + 1
      /\ u[1] = bs[i] /\ \A k \in 1 .. Len(v) : v[k] = u[k + 1]
  <2>1. /\ u \in Seq(Buffer) /\ Len(u) = Len(bs) - i + 1
        /\ \A k \in 1 .. Len(bs) - i + 1 : u[k] = bs[i + k - 1]
    BY <1>1
  <2>2. /\ v \in Seq(Buffer) /\ Len(v) = Len(bs) - i
        /\ \A k \in 1 .. Len(bs) - i : v[k] = bs[i + k]
    BY <1>1
  <2> HIDE DEF u, v
  <2>3. /\ \A k \in 1 .. Len(bs) - i : k + 1 \in 1 .. Len(bs) - i + 1 /\ i + (k + 1) - 1 = i + k
        /\ 1 \in 1 .. Len(bs) - i + 1 /\ i + 1 - 1 = i
    BY <1>1
  <2> QED BY <1>1, <2>1, <2>2, <2>3
<1> HIDE DEF u, v, rest
<1>5. /\ Len(queue) = Len(queue') + 1 /\ queue[1] = bs[i]
      /\ \A k \in 1 .. Len(queue') : (queue')[k] = queue[k + 1]
      /\ queue \in Seq(Buffer) /\ queue' \in Seq(Buffer)
  <2>1. /\ Len(u \o rest) = Len(v \o rest) + 1 /\ (u \o rest)[1] = u[1]
        /\ \A k \in 1 .. Len(v \o rest) : (v \o rest)[k] = (u \o rest)[k + 1]
    BY <1>1, <1>4, TailConcat
  <2>2. u \o rest \in Seq(Buffer) /\ v \o rest \in Seq(Buffer)
    BY <1>1, <1>4
  <2> QED BY <1>3, <1>4, <2>1, <2>2
<1>6. in_order(file, queue)
  BY DEF OrderInv, LinesKeepTheirOrder
<1>7. /\ in_order(file', queue')
      /\ Range(file') \cup lines_in(queue') = Range(file) \cup lines_in(queue)
  <2>1. ASSUME NEW q \in Seq(Buffer), NEW r \in Seq(Buffer), q = queue, r = queue'
        PROVE  /\ in_order(file \o q[1].lines, r)
               /\ Range(file \o q[1].lines) \cup lines_in(r) = Range(file) \cup lines_in(q)
    BY <1>1, <1>5, <1>6, <2>1, HeadWritten, ZenonT(40)
  <2>2. file' = file \o queue[1].lines
    BY <1>2, <1>5
  <2> QED BY <1>5, <2>1, <2>2
<1> QED BY <1>2, <1>7 DEF OrderInv, LinesKeepTheirOrder
-----------------------------------------------------------------------------
(* Every step keeps the order. *)
LEMMA OrderStep == OrderInv /\ [Next]_vars => LinesKeepTheirOrder'
<1> SUFFICES ASSUME OrderInv, [Next]_vars PROVE LinesKeepTheirOrder'
  OBVIOUS
<1>1. CASE swap BY <1>1, SwapKeeps
<1>2. CASE trim BY <1>2, TrimKeeps
<1>3. CASE write_buffer BY <1>3, WriteKeeps
<1>4. CASE \E length \in Lengths : append(length) BY <1>4, AppendFits, AppendFull
<1>5. CASE \/ Starter \/ count_down \/ check_running \/ wait_for \/ all_written \/ refill
           \/ final_flush \/ stop \/ UNCHANGED vars
  <2> USE DEF Starter, call_once, set_running, start_thread, latch_wait, count_down, check_running,
              wait_for, all_written, refill, final_flush, stop, vars, frontVars, backVars, fileVars
  <2>1. UNCHANGED <<file, dropped, appended, m_buffers, current_buffer_ptr_>>
    BY <1>5
  <2>2. unwritten' = unwritten
    <3>1. CASE all_written
      <4>1. SubSeq(buffers_need_write, next_write, Len(buffers_need_write)) = <<>>
        BY <3>1 DEF OrderInv, IInv, TypeOK
      <4> QED BY <3>1, <4>1 DEF unwritten
    <3>2. CASE ~all_written
      BY <1>5, <3>2 DEF unwritten, OrderInv, IInv, StartInv
    <3> QED BY <3>1, <3>2
  <2> QED BY <2>1, <2>2 DEF OrderInv, LinesKeepTheirOrder, queue
<1> QED BY <1>1, <1>2, <1>3, <1>4, <1>5 DEF Next, ThreadStep

LEMMA NextStep == OrderInv /\ [Next]_vars => NextInv'
<1> SUFFICES ASSUME OrderInv, [Next]_vars PROVE NextInv'
  OBVIOUS
<1> USE DEF OrderInv, NextInv
<1>1. CASE swap
  BY <1>1, EmptyIsBuffer DEF swap, IInv, SpareInv, Outside
<1>2. CASE trim
  <2>1. buffers_need_write' \in Seq(Buffer)
    BY <1>2, TypeStep DEF OrderInv, IInv, TypeOK
  <2> QED BY <1>2, <2>1 DEF trim, frontVars
<1>3. CASE write_buffer
  BY <1>3 DEF write_buffer, frontVars, IInv, TypeOK
<1>4. CASE \E length \in Lengths : append(length)
  BY <1>4 DEF append, backVars
<1>5. CASE \/ Starter \/ count_down \/ check_running \/ wait_for \/ all_written \/ refill
           \/ final_flush \/ stop \/ UNCHANGED vars
  BY <1>5 DEF Starter, call_once, set_running, start_thread, latch_wait, count_down, check_running,
              wait_for, all_written, refill, final_flush, stop, vars, frontVars, backVars,
              IInv, StartInv
<1> QED BY <1>1, <1>2, <1>3, <1>4, <1>5 DEF Next, ThreadStep

LEMMA OrderInit == Init => OrderInv
<1> SUFFICES ASSUME Init PROVE OrderInv
  OBVIOUS
<1>1. IInv /\ NextInv
  BY InitInv DEF NextInv, Init
<1>2. queue = <<EmptyBuffer>> /\ file = <<>> /\ dropped = {} /\ appended = 0
  BY EmptyIsBuffer DEF Init, queue, unwritten
<1>3. /\ Range(<<>>) = {} /\ increasing(<<>>) /\ EmptyBuffer.lines = <<>>
      /\ DOMAIN <<EmptyBuffer>> = {1} /\ <<EmptyBuffer>>[1] = EmptyBuffer
  BY DEF Range, increasing, EmptyBuffer
<1>4. lines_in(queue) = {}
  BY <1>2, <1>3 DEF lines_in
<1>5. in_order(file, queue)
  BY <1>2, <1>3, <1>4 DEF in_order, precede
<1>6. 1 .. 0 = {}
  OBVIOUS
<1> QED BY <1>1, <1>2, <1>3, <1>4, <1>5, <1>6 DEF OrderInv, LinesKeepTheirOrder

(* Whatever is appended, no line is lost, repeated or overtaken on its way to
   the file, but those dropped with the buffers that are cut off. *)
THEOREM OrderIsKept == SafeSpec => []LinesKeepTheirOrder
<1>1. OrderInv /\ [Next]_vars => OrderInv'
  BY TypeStep, SpareStep, StartStep, OrderStep, NextStep DEF OrderInv, IInv
<1>2. OrderInv => LinesKeepTheirOrder
  BY DEF OrderInv
<1> QED BY OrderInit, <1>1, <1>2, PTL DEF SafeSpec
-----------------------------------------------------------------------------
(* The digits of a number, and its value. *)
Digits == {"0", "1", "2", "3", "4", "5", "6", "7", "8", "9"}
abs(i) == IF i < 0 THEN -i ELSE i

(* C's division: the quotient is nearer to zero, and the remainder, with the sign
   of the number, has a digit. *)
LEMMA Division ==
  ASSUME NEW i \in Int
  PROVE  /\ quotient(i) \in Int /\ remainder(i) \in -9 .. 9
         /\ abs(i) = 10 * abs(quotient(i)) + abs(remainder(i))
         /\ abs(quotient(i)) \in Nat /\ abs(i) \in Nat
         /\ quotient(i) # 0 => abs(quotient(i)) < abs(i)
<1>1. \A n \in Nat : n \div 10 \in Nat /\ n % 10 \in 0 .. 9 /\ n = 10 * (n \div 10) + (n % 10)
  OBVIOUS
<1>2. CASE i < 0
  <2> DEFINE n == -i
  <2>1. n \in Nat
    BY <1>2
  <2>2. n \div 10 \in Nat /\ n % 10 \in 0 .. 9 /\ n = 10 * (n \div 10) + (n % 10)
    BY <1>1, <2>1
  <2>3. quotient(i) = -(n \div 10) /\ remainder(i) = -(n % 10)
    BY <1>2 DEF quotient, remainder
  <2> DEFINE q == n \div 10
             r == n % 10
  <2> HIDE DEF q, r
  <2> QED BY <1>2, <2>1, <2>2, <2>3 DEF abs, q, r
<1>3. CASE ~(i < 0)
  <2>1. i \in Nat
    BY <1>3
  <2>2. i \div 10 \in Nat /\ i % 10 \in 0 .. 9 /\ i = 10 * (i \div 10) + (i % 10)
    BY <1>1, <2>1
  <2>3. quotient(i) = i \div 10 /\ remainder(i) = i % 10
    BY <1>3 DEF quotient, remainder
  <2> DEFINE q == i \div 10
             r == i % 10
  <2> HIDE DEF q, r
  <2> QED BY <1>3, <2>1, <2>2, <2>3 DEF abs, q, r
<1> QED BY <1>2, <1>3

(* A digit is written for every remainder, and read for what it is. *)
LEMMA DigitsAreRead ==
  /\ \A r \in -9 .. 9 : zero(r) \in Digits /\ digit_value(zero(r)) = abs(r)
  /\ \A d \in Digits : digit_value(d) \in 0 .. 9 /\ d # "-"
<1>1. /\ zero(0) = "0" /\ zero(1) = "1" /\ zero(2) = "2" /\ zero(3) = "3" /\ zero(4) = "4"
      /\ zero(5) = "5" /\ zero(6) = "6" /\ zero(7) = "7" /\ zero(8) = "8" /\ zero(9) = "9"
      /\ zero(-1) = "1" /\ zero(-2) = "2" /\ zero(-3) = "3" /\ zero(-4) = "4"
      /\ zero(-5) = "5" /\ zero(-6) = "6" /\ zero(-7) = "7" /\ zero(-8) = "8" /\ zero(-9) = "9"
  BY DEF zero, digits
<1>2. \A n \in 0 .. 9 : \A k \in 0 .. 9 : zero(n) = zero(k) => n = k
  BY <1>1
<1>3. ASSUME NEW n \in 0 .. 9 PROVE digit_value(zero(n)) = n
  BY <1>2 DEF digit_value
<1>4. ASSUME NEW r \in -9 .. 9 PROVE zero(r) = zero(abs(r)) /\ abs(r) \in 0 .. 9 /\ zero(r) \in Digits
  BY <1>1 DEF abs, Digits
<1>5. \A d \in Digits : \E n \in 0 .. 9 : zero(n) = d
  BY <1>1 DEF Digits
<1>6. \A d \in Digits : d # "-"
  BY DEF Digits
<1> QED BY <1>3, <1>4, <1>5, <1>6

(* The digits of a number, the last first. *)
last_digit(f, i) == <<zero(remainder(i))>> \o (IF no_digits_left(quotient(i)) THEN <<>> ELSE f[quotient(i)])
Backwards == CHOOSE f : f = [i \in Int |-> last_digit(f, i)]
BackwardsTo(n) == {f \in [-n .. n -> Seq(Digits)] : \A i \in -n .. n : f[i] = last_digit(f, i)}

LEMMA LastDigits ==
  ASSUME NEW n \in Nat, NEW f \in BackwardsTo(n), NEW i \in Int, i = n + 1 \/ i = -(n + 1) \/ i = 0
  PROVE  last_digit(f, i) \in Seq(Digits)
<1>1. zero(remainder(i)) \in Digits
  BY Division, DigitsAreRead
<1>2. quotient(i) # 0 => quotient(i) \in -n .. n
  <2>1. quotient(i) # 0 => abs(quotient(i)) < abs(i)
    BY Division
  <2>2. quotient(i) \in Int /\ abs(i) <= n + 1
    BY Division DEF abs
  <2> QED BY <2>1, <2>2 DEF abs
<1>3. quotient(i) # 0 => f[quotient(i)] \in Seq(Digits)
  BY <1>2 DEF BackwardsTo
<1> QED BY <1>1, <1>3 DEF last_digit, no_digits_left

LEMMA BackwardsFar == \A n \in Nat : BackwardsTo(n) # {}
<1> DEFINE S == {n \in Nat : BackwardsTo(n) # {}}
<1>1. 0 \in S
  <2>1. quotient(0) = 0
    BY Division DEF abs
  <2> DEFINE f == [i \in 0 .. 0 |-> <<zero(remainder(0))>>]
  <2>2. zero(remainder(0)) \in Digits
    <3>1. 0 \in Int
      OBVIOUS
    <3>2. remainder(0) \in -9 .. 9
      BY <3>1, Division
    <3> QED BY <3>2, DigitsAreRead
  <2>3. f \in [0 .. 0 -> Seq(Digits)] /\ f[0] = <<zero(remainder(0))>>
    BY <2>2
  <2>4. f[0] = last_digit(f, 0)
    BY <2>1, <2>2, <2>3 DEF last_digit, no_digits_left
  <2>5. -0 .. 0 = 0 .. 0 /\ \A i \in 0 .. 0 : i = 0
    OBVIOUS
  <2> HIDE DEF f
  <2>6. f \in BackwardsTo(0)
    BY <2>3, <2>4, <2>5 DEF BackwardsTo
  <2> QED BY <2>6
<1>2. ASSUME NEW n \in S PROVE n + 1 \in S
  <2>1. PICK f \in BackwardsTo(n) : TRUE
    OBVIOUS
  <2> DEFINE g == [i \in -(n + 1) .. n + 1 |-> IF i \in -n .. n THEN f[i] ELSE last_digit(f, i)]
  <2>2. /\ n \in Nat /\ f \in [-n .. n -> Seq(Digits)] /\ \A i \in -n .. n : f[i] = last_digit(f, i)
    BY DEF BackwardsTo
  <2>3. ASSUME NEW i \in -(n + 1) .. n + 1, i \notin -n .. n PROVE last_digit(f, i) \in Seq(Digits)
    <3>1. i = n + 1 \/ i = -(n + 1)
      BY <2>2, <2>3
    <3> QED BY <3>1, LastDigits
  <2>4. g \in [-(n + 1) .. n + 1 -> Seq(Digits)]
    <3>1. \A i \in -(n + 1) .. n + 1 : (IF i \in -n .. n THEN f[i] ELSE last_digit(f, i)) \in Seq(Digits)
      BY <2>2, <2>3
    <3> QED BY <3>1
  <2>5. \A i \in -(n + 1) .. n + 1 : g[i] = last_digit(f, i)
    BY <2>2
  <2>6. \A i \in -n .. n : g[i] = f[i]
    BY <2>2
  <2> HIDE DEF g
  <2>7. ASSUME NEW i \in -(n + 1) .. n + 1 PROVE g[i] = last_digit(g, i)
    <3>1. quotient(i) # 0 => quotient(i) \in -n .. n
      <4>1. quotient(i) # 0 => abs(quotient(i)) < abs(i)
        BY Division
      <4>2. quotient(i) \in Int
        BY Division
      <4>3. abs(i) <= n + 1
        BY <2>2 DEF abs
      <4> QED BY <2>2, <4>1, <4>2, <4>3 DEF abs
    <3>2. quotient(i) # 0 => g[quotient(i)] = f[quotient(i)]
      BY <2>6, <3>1
    <3>3. last_digit(g, i) = last_digit(f, i)
      BY <3>2 DEF last_digit, no_digits_left
    <3> QED BY <2>5, <3>3
  <2>8. g \in BackwardsTo(n + 1)
    BY <2>4, <2>7 DEF BackwardsTo
  <2> QED BY <2>8
<1>3. \A n \in Nat : n \in S
  <2>1. S \in SUBSET Nat
    OBVIOUS
  <2> HIDE DEF S
  <2> QED BY <1>1, <1>2, <2>1, AllNumbers
<1> QED BY <1>3

(* However far two of them go, they agree. *)
LEMMA BackwardsAgree ==
  ASSUME NEW n \in Nat, NEW m \in Nat, NEW f \in BackwardsTo(n), NEW g \in BackwardsTo(m),
         NEW i \in Int, abs(i) <= n, abs(i) <= m
  PROVE  f[i] = g[i]
<1> DEFINE S == {k \in Nat : \E j \in Int : abs(j) = k /\ abs(j) <= n /\ abs(j) <= m /\ f[j] # g[j]}
<1> SUFFICES ASSUME f[i] # g[i] PROVE FALSE
  OBVIOUS
<1>1. abs(i) \in S
  BY Division
<1>2. PICK k \in S : \A l \in S : k <= l
  <2>1. S \in SUBSET Nat /\ S # {}
    BY <1>1
  <2> HIDE DEF S
  <2> QED BY <2>1, Least
<1>3. PICK j \in Int : abs(j) = k /\ abs(j) <= n /\ abs(j) <= m /\ f[j] # g[j]
  OBVIOUS
<1>4. j \in -n .. n /\ j \in -m .. m
  BY <1>3 DEF abs
<1>5. f[j] = last_digit(f, j) /\ g[j] = last_digit(g, j)
  BY <1>4 DEF BackwardsTo
<1>6. ASSUME quotient(j) # 0 PROVE f[quotient(j)] = g[quotient(j)]
  <2> DEFINE q == quotient(j)
  <2>1. q \in Int /\ abs(q) \in Nat /\ abs(q) < abs(j)
    BY <1>6, Division
  <2>2. abs(q) \notin S
    BY <1>2, <1>3, <2>1
  <2>3. abs(q) <= n /\ abs(q) <= m
    BY <1>3, <2>1
  <2> HIDE DEF q
  <2>4. f[q] = g[q]
    BY <2>1, <2>2, <2>3
  <2> QED BY <2>4 DEF q
<1>7. last_digit(f, j) = last_digit(g, j)
  BY <1>6 DEF last_digit, no_digits_left
<1> QED BY <1>3, <1>5, <1>7

LEMMA BackwardsIs ==
  ASSUME NEW i \in Int
  PROVE  Backwards[i] \in Seq(Digits) /\ Backwards[i] = last_digit(Backwards, i)
<1> DEFINE F(n) == CHOOSE f : f \in BackwardsTo(n)
           g == [k \in Int |-> F(abs(k))[k]]
<1>1. \A n \in Nat : F(n) \in BackwardsTo(n)
  BY BackwardsFar
<1> HIDE DEF F
<1>2. ASSUME NEW k \in Int PROVE g[k] \in Seq(Digits) /\ g[k] = last_digit(g, k)
  <2> DEFINE n == abs(k)
             q == quotient(k)
             f == F(n)
  <2>1. n \in Nat /\ k \in -n .. n /\ f \in BackwardsTo(n)
    BY <1>1, Division DEF abs
  <2>2. g[k] = f[k]
    OBVIOUS
  <2>3. f[k] \in Seq(Digits) /\ f[k] = last_digit(f, k)
    BY <2>1 DEF BackwardsTo
  <2>4. q # 0 => g[q] = f[q]
    <3> SUFFICES ASSUME q # 0 PROVE g[q] = f[q]
      OBVIOUS
    <3>1. q \in Int /\ abs(q) \in Nat /\ abs(q) <= n /\ abs(q) <= abs(q)
      BY <2>1, Division
    <3>2. F(abs(q)) \in BackwardsTo(abs(q)) /\ g[q] = F(abs(q))[q]
      BY <1>1, <3>1
    <3> HIDE DEF q, f, n, g
    <3> QED BY <2>1, <3>1, <3>2, BackwardsAgree
  <2>5. last_digit(g, k) = last_digit(f, k)
    <3> HIDE DEF g, f
    <3> QED BY <2>4 DEF last_digit, no_digits_left
  <2> QED BY <2>2, <2>3, <2>5
<1>3. g = [k \in Int |-> last_digit(g, k)]
  <2>1. \A k \in Int : g[k] = last_digit(g, k)
    BY <1>2
  <2>2. g = [k \in Int |-> g[k]]
    OBVIOUS
  <2> HIDE DEF g
  <2> QED BY <2>1, <2>2
<1>4. Backwards = [k \in Int |-> last_digit(Backwards, k)]
  <2> HIDE DEF g
  <2> QED BY <1>3 DEF Backwards
<1>5. Backwards[i] = last_digit(Backwards, i)
  BY <1>4
<1>6. \A k \in Int : Backwards[k] = g[k]
  <2>1. \A k \in Int : Backwards[k] = last_digit(Backwards, k) /\ g[k] = last_digit(g, k)
    BY <1>2, <1>4
  <2> DEFINE S == {n \in Nat : \E k \in Int : abs(k) = n /\ Backwards[k] # g[k]}
  <2> SUFFICES ASSUME NEW k \in Int, Backwards[k] # g[k] PROVE FALSE
    OBVIOUS
  <2> HIDE DEF g
  <2>2. abs(k) \in S
    BY Division
  <2>3. PICK n \in S : \A l \in S : n <= l
    <3>1. S \in SUBSET Nat /\ S # {}
      BY <2>2
    <3> HIDE DEF S
    <3> QED BY <3>1, Least
  <2>4. PICK j \in Int : abs(j) = n /\ Backwards[j] # g[j]
    OBVIOUS
  <2>5. ASSUME quotient(j) # 0 PROVE Backwards[quotient(j)] = g[quotient(j)]
    <3> DEFINE q == quotient(j)
    <3>1. q \in Int /\ abs(q) \in Nat /\ abs(q) < n
      BY <2>4, <2>5, Division
    <3>2. abs(q) \notin S
      BY <2>3, <3>1
    <3> HIDE DEF q
    <3>3. Backwards[q] = g[q]
      BY <3>1, <3>2
    <3> QED BY <3>3 DEF q
  <2>6. last_digit(Backwards, j) = last_digit(g, j)
    BY <2>5 DEF last_digit, no_digits_left
  <2> QED BY <2>1, <2>4, <2>6
<1> HIDE DEF g
<1> QED BY <1>2, <1>5, <1>6

(* The values of the first digits of s. *)
values(s) ==
  CHOOSE f : f = [k \in 0 .. Len(s) |-> IF k = 0 THEN 0 ELSE 10 * f[k - 1] + digit_value(s[k])]

LEMMA Values ==
  ASSUME NEW s \in Seq(Digits)
  PROVE  /\ number(s) = values(s)[Len(s)]
         /\ values(s) \in [0 .. Len(s) -> Nat] /\ values(s)[0] = 0
         /\ \A k \in 1 .. Len(s) : values(s)[k] = 10 * values(s)[k - 1] + digit_value(s[k])
<1> DEFINE m == Len(s)
           F(h) == [k \in 0 .. m |-> IF k = 0 THEN 0 ELSE 10 * h[k - 1] + digit_value(s[k])]
           f == values(s)
           step == [k \in 1 .. m |-> [n \in Nat |-> 10 * n + digit_value(s[k])]]
<1>1. number(s) = f[m]
  BY Zenon DEF number, values
<1>2. f = CHOOSE h : h = F(h)
  BY DEF values
<1>3. m \in Nat /\ \A k \in 1 .. m : digit_value(s[k]) \in 0 .. 9
  BY DigitsAreRead
<1> HIDE DEF m, f
<1>4. step \in [1 .. m -> [Nat -> Nat]]
  BY <1>3
<1>5. PICK g \in [0 .. m -> Nat] : g[0] = 0 /\ \A k \in 1 .. m : g[k] = step[k][g[k - 1]]
  <2> HIDE DEF step, F
  <2>1. m \in Nat /\ 0 \in Nat
    BY <1>3
  <2>2. Runs(m, Nat, 0, step) # {}
    BY <1>4, <2>1, LoopRuns
  <2> QED BY <2>2 DEF Runs
<1>6. \A k \in 0 .. m : g[k] = IF k = 0 THEN 0 ELSE 10 * g[k - 1] + digit_value(s[k])
  <2> SUFFICES ASSUME NEW k \in 1 .. m PROVE g[k] = 10 * g[k - 1] + digit_value(s[k])
    BY <1>3, <1>5
  <2>1. k - 1 \in 0 .. m /\ g[k - 1] \in Nat
    BY <1>3
  <2> QED BY <1>5, <2>1
<1>7. g = F(g)
  <2>1. g = [k \in 0 .. m |-> g[k]]
    OBVIOUS
  <2> QED BY <1>6, <2>1
<1>8. f = F(f)
  <2> HIDE DEF F
  <2> QED BY <1>2, <1>7
<1>9. f[0] = 0 /\ \A k \in 1 .. m : f[k] = 10 * f[k - 1] + digit_value(s[k])
  BY <1>3, <1>8
<1>10. \A k \in 0 .. m : f[k] \in Nat
  <2> DEFINE S == {k \in 0 .. m : f[k] \in Nat}
  <2>1. 0 \in S
    BY <1>3, <1>9
  <2>2. ASSUME NEW k \in 0 .. m - 1, k \in S PROVE k + 1 \in S
    <3>1. k + 1 \in 0 .. m /\ k + 1 \in 1 .. m /\ k + 1 - 1 = k /\ f[k] \in Nat
      BY <1>3, <2>2
    <3>2. f[k + 1] = 10 * f[k] + digit_value(s[k + 1]) /\ digit_value(s[k + 1]) \in 0 .. 9
      BY <1>3, <1>9, <3>1
    <3>3. f[k + 1] \in Nat
      BY <3>1, <3>2, SMTT(30)
    <3> QED BY <3>1, <3>3
  <2>3. \A k \in 0 .. m : k \in S
    <3> HIDE DEF S
    <3> QED BY <1>3, <2>1, <2>2, AllNumbersUpTo
  <2> QED BY <2>3
<1>11. f \in [0 .. m -> Nat]
  BY <1>8, <1>10
<1> QED BY <1>1, <1>9, <1>11 DEF m, f

(* A digit more. *)
LEMMA NumberOfAppended ==
  ASSUME NEW s \in Seq(Digits), NEW d \in Digits
  PROVE  /\ number(s) \in Nat /\ number(<<>>) = 0
         /\ number(s \o <<d>>) = 10 * number(s) + digit_value(d)
<1> DEFINE t == s \o <<d>>
           m == Len(s)
           f == values(s)
           g == values(t)
<1>1. t \in Seq(Digits) /\ Len(t) = m + 1 /\ m \in Nat /\ t[m + 1] = d /\ \A k \in 1 .. m : t[k] = s[k]
  OBVIOUS
<1> HIDE DEF t
<1>2. /\ number(s) = f[m] /\ f[0] = 0 /\ f \in [0 .. m -> Nat]
      /\ \A k \in 1 .. m : f[k] = 10 * f[k - 1] + digit_value(s[k])
  BY Values
<1>3. /\ number(t) = g[m + 1] /\ g[0] = 0
      /\ \A k \in 1 .. m + 1 : g[k] = 10 * g[k - 1] + digit_value(t[k])
  BY <1>1, Values
<1> HIDE DEF f, g, m
<1>4. g[m] = f[m]
  <2> DEFINE S == {k \in 0 .. m : g[k] = f[k]}
  <2>1. 0 \in S
    BY <1>1, <1>2, <1>3
  <2>2. ASSUME NEW k \in 0 .. m - 1, k \in S PROVE k + 1 \in S
    <3>1. k + 1 \in 1 .. m /\ k + 1 \in 1 .. m + 1 /\ k + 1 - 1 = k
      BY <1>1
    <3>2. g[k + 1] = 10 * g[k] + digit_value(t[k + 1]) /\ f[k + 1] = 10 * f[k] + digit_value(s[k + 1])
      BY <1>2, <1>3, <3>1
    <3> QED BY <1>1, <2>2, <3>1, <3>2
  <2>3. \A k \in 0 .. m : k \in S
    <3> HIDE DEF S
    <3> QED BY <1>1, <2>1, <2>2, AllNumbersUpTo
  <2> QED BY <1>1, <2>3
<1>5. g[m + 1] = 10 * g[m] + digit_value(d)
  <2>1. m + 1 \in 1 .. m + 1 /\ m + 1 - 1 = m
    BY <1>1
  <2> QED BY <1>1, <1>3, <2>1
<1>6. number(s) \in Nat
  BY <1>1, <1>2
<1>7. number(<<>>) = 0
  <2>1. <<>> \in Seq(Digits) /\ Len(<<>>) = 0
    OBVIOUS
  <2> QED BY <2>1, Values
<1> QED BY <1>2, <1>3, <1>4, <1>5, <1>6, <1>7 DEF t

(* Reversing puts the last digit in front. *)
LEMMA Reversed ==
  ASSUME NEW S, NEW s \in Seq(S), NEW d \in S
  PROVE  /\ Reverse(s) \in Seq(S) /\ Len(Reverse(s)) = Len(s)
         /\ \A i \in 1 .. Len(s) : Reverse(s)[i] = s[Len(s) - i + 1]
         /\ Reverse(<<d>> \o s) = Reverse(s) \o <<d>>
         /\ Reverse(s \o <<d>>) = <<d>> \o Reverse(s)
<1>1. /\ Reverse(s) \in Seq(S) /\ Len(Reverse(s)) = Len(s)
      /\ \A i \in 1 .. Len(s) : Reverse(s)[i] = s[Len(s) - i + 1]
  BY DEF Reverse
<1>2. Reverse(<<d>> \o s) = Reverse(s) \o <<d>>
  <2> DEFINE a == Reverse(<<d>> \o s)
             b == Reverse(s) \o <<d>>
             t == <<d>> \o s
  <2>1. t \in Seq(S) /\ Len(t) = Len(s) + 1 /\ t[1] = d /\ \A i \in 1 .. Len(s) : t[i + 1] = s[i]
    OBVIOUS
  <2>2. /\ b \in Seq(S) /\ Len(b) = Len(s) + 1 /\ b[Len(s) + 1] = d
        /\ \A i \in 1 .. Len(s) : b[i] = Reverse(s)[i]
    BY <1>1
  <2> HIDE DEF t
  <2>3. /\ a \in Seq(S) /\ Len(a) = Len(s) + 1
        /\ \A i \in 1 .. Len(s) + 1 : a[i] = t[Len(s) + 1 - i + 1]
    BY <2>1 DEF Reverse, t
  <2> HIDE DEF a, b
  <2>4. ASSUME NEW i \in 1 .. Len(s) + 1 PROVE a[i] = b[i]
    <3>1. CASE i = Len(s) + 1
      BY <2>1, <2>2, <2>3, <3>1
    <3>2. CASE i \in 1 .. Len(s)
      <4>1. Len(s) - i + 1 \in 1 .. Len(s) /\ Len(s) + 1 - i + 1 = (Len(s) - i + 1) + 1
        BY <3>2
      <4>2. t[(Len(s) - i + 1) + 1] = s[Len(s) - i + 1]
        BY <2>1, <4>1
      <4> QED BY <1>1, <2>2, <2>3, <3>2, <4>1, <4>2
    <3> QED BY <3>1, <3>2
  <2>5. a = b
    BY <2>2, <2>3, <2>4, SeqEqual
  <2> QED BY <2>5 DEF a, b
<1>3. Reverse(s \o <<d>>) = <<d>> \o Reverse(s)
  <2> DEFINE a == Reverse(s \o <<d>>)
             b == <<d>> \o Reverse(s)
             t == s \o <<d>>
  <2>1. t \in Seq(S) /\ Len(t) = Len(s) + 1 /\ t[Len(s) + 1] = d /\ \A i \in 1 .. Len(s) : t[i] = s[i]
    OBVIOUS
  <2>2. /\ b \in Seq(S) /\ Len(b) = Len(s) + 1 /\ b[1] = d
        /\ \A i \in 1 .. Len(s) : b[i + 1] = Reverse(s)[i]
    BY <1>1
  <2> HIDE DEF t
  <2>3. /\ a \in Seq(S) /\ Len(a) = Len(s) + 1
        /\ \A i \in 1 .. Len(s) + 1 : a[i] = t[Len(s) + 1 - i + 1]
    BY <2>1 DEF Reverse, t
  <2> HIDE DEF a, b
  <2>4. ASSUME NEW i \in 1 .. Len(s) + 1 PROVE a[i] = b[i]
    <3>1. CASE i = 1
      BY <2>1, <2>2, <2>3, <3>1
    <3>2. CASE i \in 2 .. Len(s) + 1
      <4>1. /\ i - 1 \in 1 .. Len(s) /\ i - 1 + 1 = i
            /\ Len(s) + 1 - i + 1 = Len(s) - (i - 1) + 1 /\ Len(s) + 1 - i + 1 \in 1 .. Len(s)
        BY <3>2
      <4>2. b[i] = Reverse(s)[i - 1] /\ Reverse(s)[i - 1] = s[Len(s) - (i - 1) + 1]
        BY <1>1, <2>2, <4>1
      <4>3. a[i] = s[Len(s) + 1 - i + 1]
        BY <2>1, <2>3, <4>1
      <4> QED BY <4>1, <4>2, <4>3
    <3> QED BY <3>1, <3>2
  <2>5. a = b
    BY <2>2, <2>3, <2>4, SeqEqual
  <2> QED BY <2>5 DEF a, b
<1> QED BY <1>1, <1>2, <1>3

(* What the loop of convert has written, read backwards, is the number without
   its sign. *)
LEMMA DigitsOfNumber ==
  ASSUME NEW i \in Int
  PROVE  Len(Backwards[i]) >= 1 /\ number(Reverse(Backwards[i])) = abs(i)
<1> DEFINE wrong(j) == ~(Len(Backwards[j]) >= 1 /\ number(Reverse(Backwards[j])) = abs(j))
           S == {n \in Nat : \E j \in Int : abs(j) = n /\ wrong(j)}
<1> SUFFICES ASSUME wrong(i) PROVE FALSE
  OBVIOUS
<1>1. abs(i) \in S
  BY Division
<1>2. PICK n \in S : \A l \in S : n <= l
  <2>1. S \in SUBSET Nat /\ S # {}
    BY <1>1
  <2> HIDE DEF S
  <2> QED BY <2>1, Least
<1>3. PICK j \in Int : abs(j) = n /\ wrong(j)
  OBVIOUS
<1> DEFINE q == quotient(j)
           r == remainder(j)
           d == zero(r)
           rest == IF q = 0 THEN <<>> ELSE Backwards[q]
<1>4. /\ q \in Int /\ r \in -9 .. 9 /\ abs(j) = 10 * abs(q) + abs(r)
      /\ abs(q) \in Nat /\ (q # 0 => abs(q) < abs(j))
  BY Division
<1>5. d \in Digits /\ digit_value(d) = abs(r)
  BY <1>4, DigitsAreRead
<1>6. rest \in Seq(Digits)
  <2>1. q # 0 => Backwards[q] \in Seq(Digits)
    BY <1>4, BackwardsIs
  <2> HIDE DEF q
  <2> QED BY <2>1
<1>7. Backwards[j] = <<d>> \o rest
  BY BackwardsIs DEF last_digit, no_digits_left
<1>8. number(Reverse(rest)) = abs(q)
  <2>1. CASE q = 0
    <3>1. rest = <<>> /\ abs(q) = 0
      BY <2>1 DEF abs
    <3>2. Reverse(<<>>) = <<>>
      BY DEF Reverse
    <3>3. number(<<>>) = 0
      BY <1>5, <1>6, NumberOfAppended
    <3> QED BY <3>1, <3>2, <3>3
  <2>2. CASE q # 0
    <3>1. abs(q) \notin S
      BY <1>2, <1>3, <1>4, <2>2
    <3>2. ~wrong(q)
      <4> HIDE DEF wrong, q
      <4> QED BY <1>4, <3>1
    <3> QED BY <2>2, <3>2
  <2> QED BY <2>1, <2>2
<1> HIDE DEF rest, q, r, d
<1>9. Reverse(Backwards[j]) = Reverse(rest) \o <<d>> /\ Reverse(rest) \in Seq(Digits)
  <2>1. Reverse(<<d>> \o rest) = Reverse(rest) \o <<d>> /\ Reverse(rest) \in Seq(Digits)
    BY <1>5, <1>6, Reversed
  <2> QED BY <1>7, <2>1
<1>10. number(Reverse(Backwards[j])) = 10 * number(Reverse(rest)) + digit_value(d)
  BY <1>5, <1>9, NumberOfAppended
<1>11. Len(Backwards[j]) >= 1
  BY <1>5, <1>6, <1>7
<1> QED BY <1>3, <1>4, <1>5, <1>8, <1>10, <1>11

(* The powers of ten. *)
LEMMA Powers ==
  /\ power_of_ten[0] = 1 /\ \A d \in 0 .. max_remain_size : power_of_ten[d] \in Nat
  /\ \A d \in 1 .. max_remain_size : power_of_ten[d] = 10 * power_of_ten[d - 1]
<1> DEFINE m == max_remain_size
           F(h) == [k \in 0 .. m |-> IF k = 0 THEN 1 ELSE 10 * h[k - 1]]
           f == power_of_ten
           step == [k \in 1 .. m |-> [n \in Nat |-> 10 * n]]
<1>1. f = CHOOSE h : h = F(h)
  BY DEF power_of_ten
<1>2. m \in Nat
  BY SizesAssumption
<1> HIDE DEF m, f
<1>3. step \in [1 .. m -> [Nat -> Nat]]
  OBVIOUS
<1>4. PICK g \in [0 .. m -> Nat] : g[0] = 1 /\ \A k \in 1 .. m : g[k] = step[k][g[k - 1]]
  <2> HIDE DEF step, F
  <2>1. 1 \in Nat
    OBVIOUS
  <2>2. Runs(m, Nat, 1, step) # {}
    BY <1>2, <1>3, <2>1, LoopRuns
  <2> QED BY <2>2 DEF Runs
<1>5. \A k \in 0 .. m : g[k] = IF k = 0 THEN 1 ELSE 10 * g[k - 1]
  <2> SUFFICES ASSUME NEW k \in 1 .. m PROVE g[k] = 10 * g[k - 1]
    BY <1>2, <1>4
  <2>1. k - 1 \in 0 .. m /\ g[k - 1] \in Nat
    BY <1>2
  <2> QED BY <1>4, <2>1
<1>6. g = F(g)
  <2>1. g = [k \in 0 .. m |-> g[k]]
    OBVIOUS
  <2> QED BY <1>5, <2>1
<1>7. f = F(f)
  <2> HIDE DEF F
  <2> QED BY <1>1, <1>6
<1>8. f[0] = 1 /\ \A k \in 1 .. m : f[k] = 10 * f[k - 1]
  BY <1>2, <1>7
<1>9. \A k \in 0 .. m : f[k] \in Nat
  <2> DEFINE S == {k \in 0 .. m : f[k] \in Nat}
  <2>1. 0 \in S
    BY <1>2, <1>8
  <2>2. ASSUME NEW k \in 0 .. m - 1, k \in S PROVE k + 1 \in S
    <3>1. k + 1 \in 0 .. m /\ k + 1 \in 1 .. m /\ k + 1 - 1 = k /\ f[k] \in Nat
      BY <1>2, <2>2
    <3>2. f[k + 1] = 10 * f[k]
      BY <1>8, <3>1
    <3>3. f[k + 1] \in Nat
      BY <3>1, <3>2
    <3> QED BY <3>1, <3>3
  <2>3. \A k \in 0 .. m : k \in S
    <3> HIDE DEF S
    <3> QED BY <1>2, <2>1, <2>2, AllNumbersUpTo
  <2> QED BY <2>3
<1> QED BY <1>8, <1>9 DEF m, f

(* A number below 10^d has at most d digits. *)
LEMMA DigitsAreFew ==
  ASSUME NEW d \in 1 .. max_remain_size, NEW i \in Int, abs(i) < power_of_ten[d]
  PROVE  Len(Backwards[i]) <= d
<1> DEFINE m == max_remain_size
           S == {k \in 0 .. m : k > 0 =>
                   \A j \in Int : abs(j) < power_of_ten[k] => Len(Backwards[j]) <= k}
<1>1. 0 \in S /\ m \in Nat
  BY SizesAssumption
<1>2. ASSUME NEW k \in 0 .. m - 1, k \in S PROVE k + 1 \in S
  <2>1. k + 1 \in 0 .. m /\ k + 1 \in 1 .. m /\ k + 1 - 1 = k /\ k \in 0 .. m
    BY <1>1
  <2>2. power_of_ten[k + 1] = 10 * power_of_ten[k] /\ power_of_ten[k] \in Nat
    BY <2>1, Powers
  <2>3. ASSUME NEW j \in Int, abs(j) < power_of_ten[k + 1] PROVE Len(Backwards[j]) <= k + 1
    <3> DEFINE q == quotient(j)
               z == zero(remainder(j))
    <3> DEFINE r == remainder(j)
    <3>1. q \in Int /\ abs(q) \in Nat /\ abs(r) \in Nat /\ abs(j) = 10 * abs(q) + abs(r)
      <4>1. /\ q \in Int /\ r \in -9 .. 9
            /\ abs(q) \in Nat /\ abs(j) = 10 * abs(q) + abs(r)
        BY Division
      <4> HIDE DEF q, r
      <4>2. abs(r) \in Nat
        BY <4>1 DEF abs
      <4> QED BY <4>1, <4>2
    <3>2. z \in Digits
      BY Division, DigitsAreRead
    <3>3. Backwards[j] = <<z>> \o (IF q = 0 THEN <<>> ELSE Backwards[q])
      BY BackwardsIs DEF last_digit, no_digits_left
    <3> HIDE DEF q, z, r
    <3>4. CASE q = 0
      BY <2>1, <3>2, <3>3, <3>4
    <3>5. CASE q # 0
      <4>1. abs(q) < power_of_ten[k] /\ abs(q) > 0
        BY <2>2, <2>3, <3>1, <3>5 DEF abs
      <4>2. k # 0
        BY <2>2, <4>1, <3>1, Powers
      <4>3. Len(Backwards[q]) <= k
        BY <1>2, <2>1, <3>1, <4>1, <4>2
      <4>4. Backwards[q] \in Seq(Digits)
        BY <3>1, BackwardsIs
      <4>5. Len(Backwards[j]) = 1 + Len(Backwards[q])
        BY <3>2, <3>3, <3>5, <4>4
      <4> QED BY <2>1, <4>3, <4>4, <4>5
    <3> QED BY <3>4, <3>5
  <2> QED BY <2>1, <2>3
<1>3. \A k \in 0 .. m : k \in S
  <2> HIDE DEF S
  <2> QED BY <1>1, <1>2, AllNumbersUpTo
<1>4. d \in S /\ d > 0
  BY <1>1, <1>3
<1> QED BY <1>4

(* convert writes any integer as it is read. *)
Characters == Digits \cup {"-"}

LEMMA Converted ==
  ASSUME NEW v \in Int
  PROVE  /\ convert(v) \in Seq(Characters) /\ read_back(convert(v)) = v
         /\ Len(convert(v)) = Len(Backwards[v]) + (IF v < 0 THEN 1 ELSE 0)
<1> DEFINE b == Backwards[v]
           r == Reverse(b)
<1>1. convert(v) = Reverse(b \o (IF v < 0 THEN <<"-">> ELSE <<>>))
  BY Zenon DEF convert, Backwards, last_digit
<1>2. b \in Seq(Digits) /\ Len(b) >= 1 /\ number(r) = abs(v)
  BY BackwardsIs, DigitsOfNumber
<1>3. r \in Seq(Digits) /\ Len(r) = Len(b)
  <2>1. "0" \in Digits
    BY DEF Digits
  <2> HIDE DEF b
  <2> QED BY <1>2, <2>1, Reversed
<1>4. r \in Seq(Characters) /\ Characters = Digits \cup {"-"}
  BY <1>3 DEF Characters
<1> HIDE DEF b, r
<1>5. CASE v < 0
  <2>1. convert(v) = Reverse(b \o <<"-">>)
    BY <1>1, <1>5
  <2>2. b \in Seq(Characters) /\ "-" \in Characters
    BY <1>2, <1>4
  <2>3. convert(v) = <<"-">> \o r
    BY <2>1, <2>2, Reversed DEF r
  <2>4. convert(v) \in Seq(Characters) /\ Len(convert(v)) = Len(b) + 1 /\ convert(v)[1] = "-"
    BY <1>3, <1>4, <2>2, <2>3
  <2>5. Tail(convert(v)) = r
    BY <1>4, <2>2, <2>3
  <2>6. read_back(convert(v)) = -number(r)
    BY <2>4, <2>5 DEF read_back
  <2> QED BY <1>2, <1>5, <2>4, <2>6 DEF abs, b
<1>6. CASE ~(v < 0)
  <2>1. convert(v) = r
    <3>1. b \o <<>> = b
      BY <1>2
    <3> QED BY <1>1, <1>6, <3>1 DEF r
  <2>2. r[1] # "-"
    <3>1. r[1] \in Digits
      BY <1>2, <1>3
    <3> QED BY <3>1, DigitsAreRead
  <2>3. read_back(convert(v)) = number(r)
    BY <2>1, <2>2 DEF read_back
  <2> QED BY <1>2, <1>3, <1>4, <1>6, <2>1, <2>3 DEF abs, b
<1> QED BY <1>5, <1>6

(* In the room that format_int looks for. *)
LEMMA NumbersAreShort ==
  ASSUME NEW v \in Numbers
  PROVE  v \in Int /\ Len(convert(v)) < max_remain_size
<1>1. v \in Int /\ -v < power_of_ten[max_remain_size - 2] /\ v < power_of_ten[max_remain_size - 2]
  BY NumbersAssumption
<1>2. max_remain_size \in Nat /\ max_remain_size - 2 \in 1 .. max_remain_size
  BY SizesAssumption
<1>3. abs(v) < power_of_ten[max_remain_size - 2]
  BY <1>1 DEF abs
<1>4. Len(Backwards[v]) <= max_remain_size - 2
  BY <1>1, <1>2, <1>3, DigitsAreFew
<1>5. Len(Backwards[v]) \in Nat
  BY <1>1, BackwardsIs
<1>6. Len(convert(v)) = Len(Backwards[v]) + (IF v < 0 THEN 1 ELSE 0)
  BY <1>1, Converted
<1> DEFINE n == Len(Backwards[v])
           l == Len(convert(v))
<1>7. l = n + (IF v < 0 THEN 1 ELSE 0) /\ n \in Nat /\ n <= max_remain_size - 2
  BY <1>4, <1>5, <1>6
<1> HIDE DEF n, l
<1>8. l < max_remain_size
  BY <1>2, <1>7
<1> QED BY <1>1, <1>8 DEF l

(* Every number of the types that are logged is written as it is, the least of each
   type too, and leaves room for the NUL that convert puts behind it
   (log_stream.cpp:10-41). *)
THEOREM NumbersAreLogged == NumbersAreRight(Numbers)
BY Converted, NumbersAreShort DEF NumbersAreRight

(* What a line is made of: texts, null pointers and numbers of the types that are logged. *)
Alphabet == Characters \cup {"(", "n", "u", "l", ")", "T", ":", "\n"}
LineItems(A) ==
  [type : {"text"}, value : Seq(A)] \cup {[type |-> "null"]} \cup [type : {"int"}, value : Numbers]
Lines(A) == {b \in Seq(A) : Len(b) < small_buffer_size}
followed(b, item) == b \o in_full(item)

(* What an item asks for, and what it makes of the line, are texts. *)
LEMMA InFull ==
  ASSUME NEW A, Alphabet \subseteq A, NEW item \in LineItems(A)
  PROVE  in_full(item) \in Seq(A)
<1>1. ASSUME item.type = "text" PROVE in_full(item) \in Seq(A)
  BY <1>1 DEF LineItems, in_full
<1>2. ASSUME item.type = "null" PROVE in_full(item) \in Seq(A)
  <2>1. "(" \in A /\ "n" \in A /\ "u" \in A /\ "l" \in A /\ ")" \in A
    BY DEF Alphabet
  <2>2. <<"(", "n", "u", "l", "l", ")">> \in Seq(A)
    BY <2>1
  <2>3. in_full(item) = <<"(", "n", "u", "l", "l", ")">>
    BY <1>2 DEF in_full
  <2> QED BY <2>2, <2>3
<1>3. ASSUME item.type = "int" PROVE in_full(item) \in Seq(A)
  <2>1. item.value \in Numbers /\ in_full(item) = convert(item.value)
    BY <1>3 DEF LineItems, in_full
  <2>2. convert(item.value) \in Seq(Characters)
    BY <2>1, NumbersAreShort, Converted
  <2>3. Characters \subseteq A
    BY DEF Alphabet
  <2> QED BY <2>1, <2>2, <2>3
<1> QED BY <1>1, <1>2, <1>3 DEF LineItems

LEMMA Followed ==
  ASSUME NEW A, Alphabet \subseteq A, NEW b \in Seq(A), NEW item \in LineItems(A)
  PROVE  /\ followed(b, item) \in Seq(A) /\ Len(b) \in Nat /\ Len(in_full(item)) \in Nat
         /\ Len(followed(b, item)) = Len(b) + Len(in_full(item))
<1>1. in_full(item) \in Seq(A)
  BY InFull
<1> QED BY <1>1 DEF followed

(* A line stays shorter than its buffer; an item for which there is room, and for a
   number behind it, is written in full. *)
LEMMA Put ==
  ASSUME NEW A, Alphabet \subseteq A, NEW b \in Lines(A), NEW item \in LineItems(A)
  PROVE  /\ put(b, item) \in Lines(A)
         /\ Len(b) + Len(in_full(item)) + max_remain_size <= small_buffer_size =>
              put(b, item) = followed(b, item)
<1> DEFINE t == in_full(item)
           bt == followed(b, item)
           s == small_buffer_size
           r == max_remain_size
<1>1. b \in Seq(A) /\ Len(b) < s
  BY DEF Lines
<1>2. s \in Nat /\ r \in Nat /\ r > 0
  BY SizesAssumption
<1>3. bt \in Seq(A) /\ Len(bt) = Len(b) + Len(t) /\ Len(b) \in Nat /\ Len(t) \in Nat
  BY <1>1, Followed
<1>4. ASSUME item.type # "int" PROVE put(b, item) = IF s - Len(b) > Len(t) THEN bt ELSE b
  BY <1>4 DEF LineItems, put, in_full, append_text, room, followed
<1>5. ASSUME item.type = "int"
      PROVE  put(b, item) = (IF s - Len(b) >= r THEN bt ELSE b) /\ Len(t) < r
  <2>1. item.value \in Numbers /\ t = convert(item.value)
    BY <1>5 DEF LineItems, in_full
  <2>2. put(b, item) = format_int(b, item.value)
    BY <1>5 DEF put
  <2> QED BY <2>1, <2>2, NumbersAreShort DEF format_int, room, followed
<1> HIDE DEF t, bt, s, r
<1>6. \A c : c \in Lines(A) <=> c \in Seq(A) /\ Len(c) < s
  BY DEF Lines, s
<1>7. CASE item.type = "int"
  <2>1. put(b, item) \in Lines(A) /\ (Len(b) + Len(t) + r <= s => put(b, item) = bt)
    BY <1>1, <1>2, <1>3, <1>5, <1>6, <1>7
  <2> QED BY <2>1 DEF t, bt, s, r
<1>8. CASE item.type # "int"
  <2>1. put(b, item) \in Lines(A) /\ (Len(b) + Len(t) + r <= s => put(b, item) = bt)
    BY <1>1, <1>2, <1>3, <1>4, <1>6, <1>8
  <2> QED BY <2>1 DEF t, bt, s, r
<1> QED BY <1>7, <1>8

(* Only a full line lacks its '\n'. *)
LEMMA PutEnd ==
  ASSUME NEW A, Alphabet \subseteq A, NEW b \in Lines(A), NEW line, line = put(b, text(<<"\n">>))
  PROVE  Last(line) = "\n" \/ Len(line) = small_buffer_size - 1
<1>1. line = IF small_buffer_size - Len(b) > 1 THEN b \o <<"\n">> ELSE b
  BY DEF put, text, append_text, room
<1>2. b \in Seq(A) /\ Len(b) \in Nat /\ Len(b) < small_buffer_size /\ small_buffer_size \in Nat
  BY SizesAssumption DEF Lines
<1>3. CASE small_buffer_size - Len(b) > 1
  <2>1. line = b \o <<"\n">> /\ "\n" \in A
    BY <1>1, <1>3 DEF Alphabet
  <2>2. Len(line) = Len(b) + 1 /\ line[Len(b) + 1] = "\n"
    BY <1>2, <2>1
  <2> QED BY <2>2 DEF Last
<1>4. CASE ~(small_buffer_size - Len(b) > 1)
  <2>1. line = b /\ Len(b) = small_buffer_size - 1
    BY <1>1, <1>2, <1>4
  <2> QED BY <2>1
<1> QED BY <1>3, <1>4

(* The line after each of its pieces. *)
lines(ps) == CHOOSE f : f = [k \in 0 .. Len(ps) |-> IF k = 0 THEN <<>> ELSE put(f[k - 1], ps[k])]

LEMMA LinesPieceByPiece ==
  ASSUME NEW A, Alphabet \subseteq A, NEW ps \in Seq(LineItems(A))
  PROVE  /\ after_pieces(ps) = lines(ps)[Len(ps)] /\ lines(ps)[0] = <<>>
         /\ lines(ps) \in [0 .. Len(ps) -> Lines(A)]
         /\ \A k \in 1 .. Len(ps) : lines(ps)[k] = put(lines(ps)[k - 1], ps[k])
<1> DEFINE m == Len(ps)
           F(h) == [k \in 0 .. m |-> IF k = 0 THEN <<>> ELSE put(h[k - 1], ps[k])]
           f == lines(ps)
           step == [k \in 1 .. m |-> [b \in Lines(A) |-> put(b, ps[k])]]
<1>1. after_pieces(ps) = f[m]
  BY Zenon DEF after_pieces, lines
<1>2. f = CHOOSE h : h = F(h)
  BY DEF lines
<1>3. m \in Nat /\ \A k \in 1 .. m : ps[k] \in LineItems(A)
  OBVIOUS
<1> HIDE DEF m, f
<1>4. step \in [1 .. m -> [Lines(A) -> Lines(A)]]
  BY <1>3, Put
<1>5. <<>> \in Lines(A)
  BY SizesAssumption DEF Lines
<1>6. PICK g \in [0 .. m -> Lines(A)] : g[0] = <<>> /\ \A k \in 1 .. m : g[k] = step[k][g[k - 1]]
  <2> HIDE DEF step, F
  <2>1. Runs(m, Lines(A), <<>>, step) # {}
    BY <1>3, <1>4, <1>5, LoopRuns
  <2> QED BY <2>1 DEF Runs
<1>7. \A k \in 0 .. m : g[k] = IF k = 0 THEN <<>> ELSE put(g[k - 1], ps[k])
  <2> SUFFICES ASSUME NEW k \in 1 .. m PROVE g[k] = put(g[k - 1], ps[k])
    BY <1>3, <1>6
  <2>1. k - 1 \in 0 .. m /\ g[k - 1] \in Lines(A)
    BY <1>3
  <2> QED BY <1>6, <2>1
<1>8. g = F(g)
  <2>1. g = [k \in 0 .. m |-> g[k]]
    OBVIOUS
  <2> QED BY <1>7, <2>1
<1>9. f = F(f)
  <2> HIDE DEF F
  <2> QED BY <1>2, <1>8
<1>10. f[0] = <<>> /\ \A k \in 1 .. m : f[k] = put(f[k - 1], ps[k])
  BY <1>3, <1>9
<1>11. \A k \in 0 .. m : f[k] \in Lines(A)
  <2> DEFINE S == {k \in 0 .. m : f[k] \in Lines(A)}
  <2>1. 0 \in S
    BY <1>3, <1>5, <1>10
  <2>2. ASSUME NEW k \in 0 .. m - 1, k \in S PROVE k + 1 \in S
    <3>1. k + 1 \in 0 .. m /\ k + 1 \in 1 .. m /\ k + 1 - 1 = k /\ f[k] \in Lines(A)
      BY <1>3, <2>2
    <3>2. f[k + 1] = put(f[k], ps[k + 1])
      BY <1>10, <3>1
    <3>3. f[k + 1] \in Lines(A)
      BY <1>3, <3>1, <3>2, Put
    <3> QED BY <3>1, <3>3
  <2>3. \A k \in 0 .. m : k \in S
    <3> HIDE DEF S
    <3> QED BY <1>3, <2>1, <2>2, AllNumbersUpTo
  <2> QED BY <2>3
<1>12. f \in [0 .. m -> Lines(A)]
  BY <1>9, <1>11
<1> QED BY <1>1, <1>10, <1>12 DEF m, f

(* And what was asked for. *)
texts(ps) ==
  CHOOSE f : f = [k \in 0 .. Len(ps) |-> IF k = 0 THEN <<>> ELSE followed(f[k - 1], ps[k])]

LEMMA TextsPieceByPiece ==
  ASSUME NEW A, Alphabet \subseteq A, NEW ps \in Seq(LineItems(A))
  PROVE  /\ all_in_full(ps) = texts(ps)[Len(ps)] /\ texts(ps)[0] = <<>>
         /\ texts(ps) \in [0 .. Len(ps) -> Seq(A)]
         /\ \A k \in 1 .. Len(ps) : texts(ps)[k] = followed(texts(ps)[k - 1], ps[k])
<1> DEFINE m == Len(ps)
           F(h) == [k \in 0 .. m |-> IF k = 0 THEN <<>> ELSE followed(h[k - 1], ps[k])]
           f == texts(ps)
           step == [k \in 1 .. m |-> [b \in Seq(A) |-> followed(b, ps[k])]]
<1>1. all_in_full(ps) = f[m]
  BY Zenon DEF all_in_full, texts, followed
<1>2. f = CHOOSE h : h = F(h)
  BY DEF texts
<1>3. m \in Nat /\ \A k \in 1 .. m : ps[k] \in LineItems(A)
  OBVIOUS
<1> HIDE DEF m, f
<1>4. \A b \in Seq(A), item \in LineItems(A) : followed(b, item) \in Seq(A)
  BY Followed
<1>5. <<>> \in Seq(A)
  OBVIOUS
<1>6. step \in [1 .. m -> [Seq(A) -> Seq(A)]]
  BY <1>3, <1>4
<1>7. PICK g \in [0 .. m -> Seq(A)] : g[0] = <<>> /\ \A k \in 1 .. m : g[k] = step[k][g[k - 1]]
  <2> HIDE DEF step, F
  <2>1. Runs(m, Seq(A), <<>>, step) # {}
    BY <1>3, <1>5, <1>6, LoopRuns
  <2> QED BY <2>1 DEF Runs
<1>8. \A k \in 0 .. m : g[k] = IF k = 0 THEN <<>> ELSE followed(g[k - 1], ps[k])
  <2> SUFFICES ASSUME NEW k \in 1 .. m PROVE g[k] = followed(g[k - 1], ps[k])
    BY <1>3, <1>7
  <2>1. k - 1 \in 0 .. m /\ g[k - 1] \in Seq(A)
    BY <1>3
  <2> QED BY <1>7, <2>1
<1>9. g = F(g)
  <2>1. g = [k \in 0 .. m |-> g[k]]
    OBVIOUS
  <2> QED BY <1>8, <2>1
<1>10. f = F(f)
  <2> HIDE DEF F
  <2> QED BY <1>2, <1>9
<1>11. f[0] = <<>> /\ \A k \in 1 .. m : f[k] = followed(f[k - 1], ps[k])
  BY <1>3, <1>10
<1>12. \A k \in 0 .. m : f[k] \in Seq(A)
  <2> DEFINE S == {k \in 0 .. m : f[k] \in Seq(A)}
  <2>1. 0 \in S
    <3>1. f[0] \in Seq(A)
      BY <1>5, <1>11
    <3> QED BY <1>3, <3>1
  <2>2. ASSUME NEW k \in 0 .. m - 1, k \in S PROVE k + 1 \in S
    <3>1. k + 1 \in 0 .. m /\ k + 1 \in 1 .. m /\ k + 1 - 1 = k /\ f[k] \in Seq(A)
      BY <1>3, <2>2
    <3>2. f[k + 1] = followed(f[k], ps[k + 1])
      BY <1>11, <3>1
    <3> QED BY <1>3, <1>4, <3>1, <3>2
  <2>3. \A k \in 0 .. m : k \in S
    <3> HIDE DEF S
    <3> QED BY <1>3, <2>1, <2>2, AllNumbersUpTo
  <2> QED BY <2>3
<1>13. f \in [0 .. m -> Seq(A)]
  BY <1>10, <1>12
<1> QED BY <1>1, <1>11, <1>13 DEF m, f

(* With room for all that was asked for and a number, nothing is cut. *)
LEMMA NothingCut ==
  ASSUME NEW A, Alphabet \subseteq A, NEW ps \in Seq(LineItems(A)),
         Len(all_in_full(ps)) + max_remain_size <= small_buffer_size
  PROVE  after_pieces(ps) = all_in_full(ps)
<1> DEFINE m == Len(ps)
           f == lines(ps)
           g == texts(ps)
<1>1. /\ after_pieces(ps) = f[m] /\ f[0] = <<>> /\ f \in [0 .. m -> Lines(A)]
      /\ \A k \in 1 .. m : f[k] = put(f[k - 1], ps[k])
  BY LinesPieceByPiece
<1>2. /\ all_in_full(ps) = g[m] /\ g[0] = <<>> /\ g \in [0 .. m -> Seq(A)]
      /\ \A k \in 1 .. m : g[k] = followed(g[k - 1], ps[k])
  BY TextsPieceByPiece
<1>3. m \in Nat /\ \A k \in 1 .. m : ps[k] \in LineItems(A)
  OBVIOUS
<1>4. small_buffer_size \in Nat /\ max_remain_size \in Nat
  BY SizesAssumption
<1> HIDE DEF m, f, g
<1>5. ASSUME NEW k \in 0 .. m - 1
      PROVE  /\ k \in 0 .. m /\ k + 1 \in 0 .. m /\ ps[k + 1] \in LineItems(A)
             /\ f[k] \in Lines(A) /\ f[k + 1] = put(f[k], ps[k + 1])
             /\ g[k] \in Seq(A) /\ g[k + 1] = followed(g[k], ps[k + 1])
             /\ Len(in_full(ps[k + 1])) \in Nat
             /\ Len(g[k + 1]) = Len(g[k]) + Len(in_full(ps[k + 1]))
  <2>1. k \in 0 .. m /\ k + 1 \in 0 .. m /\ k + 1 \in 1 .. m /\ k + 1 - 1 = k
    BY <1>3
  <2>2. f[k] \in Lines(A) /\ f[k + 1] = put(f[k], ps[k + 1])
    BY <1>1, <2>1
  <2>3. g[k] \in Seq(A) /\ g[k + 1] = followed(g[k], ps[k + 1])
    BY <1>2, <2>1
  <2>4. ps[k + 1] \in LineItems(A)
    BY <1>3, <2>1
  <2> DEFINE item == ps[k + 1]
             h == g[k]
             h2 == g[k + 1]
  <2> HIDE DEF item, h, h2
  <2>5. /\ Len(in_full(item)) \in Nat
        /\ Len(h2) = Len(h) + Len(in_full(item))
    <3>1. item \in LineItems(A) /\ h \in Seq(A) /\ h2 = followed(h, item)
      BY <2>3, <2>4 DEF item, h, h2
    <3> QED BY <3>1, Followed
  <2> QED BY <2>1, <2>2, <2>3, <2>4, <2>5 DEF item, h, h2
<1> DEFINE L == [k \in 0 .. m |-> Len(g[k])]
           I == [k \in 0 .. m - 1 |-> Len(in_full(ps[k + 1]))]
<1>6. /\ L \in [0 .. m -> Nat] /\ I \in [0 .. m - 1 -> Nat]
      /\ \A k \in 0 .. m - 1 : L[k + 1] = L[k] + I[k]
  <2>1. \A k \in 0 .. m : Len(g[k]) \in Nat
    BY <1>2
  <2> QED BY <1>5, <2>1
<1>7. \A k \in 0 .. m : L[k] <= L[m]
  <2> DEFINE S == {k \in 0 .. m : L[k] <= L[m]}
  <2>1. m \in 0 .. m /\ L[m] \in Nat
    BY <1>3, <1>6
  <2> HIDE DEF L, I
  <2>2. m \in S
    BY <2>1
  <2>3. ASSUME NEW k \in 0 .. m - 1, k + 1 \in S PROVE k \in S
    <3>1. k \in 0 .. m /\ k + 1 \in 0 .. m
      BY <1>3
    <3>2. L[k + 1] = L[k] + I[k] /\ L[k] \in Nat /\ I[k] \in Nat /\ L[k + 1] <= L[m]
      BY <1>6, <2>3, <3>1
    <3> QED BY <2>1, <3>1, <3>2
  <2>4. \A k \in 0 .. m : k \in S
    <3> HIDE DEF S
    <3> QED BY <1>3, <2>2, <2>3, AllNumbersDownFrom
  <2> QED BY <2>4
<1>8. L[m] + max_remain_size <= small_buffer_size
  <2>1. Len(g[m]) + max_remain_size <= small_buffer_size
    BY <1>2
  <2>2. L[m] = Len(g[m])
    BY <1>3
  <2> QED BY <2>1, <2>2
<1>9. ASSUME NEW k \in 0 .. m - 1, f[k] = g[k] PROVE f[k + 1] = g[k + 1]
  <2>1. Len(f[k]) + Len(in_full(ps[k + 1])) + max_remain_size <= small_buffer_size
    <3>1. L[k + 1] = L[k] + I[k] /\ L[k + 1] <= L[m] /\ L[k] \in Nat /\ L[k + 1] \in Nat /\ I[k] \in Nat /\ L[m] \in Nat
      <4>1. m \in 0 .. m
        BY <1>3
      <4> HIDE DEF L, I
      <4> QED BY <1>5, <1>6, <1>7, <4>1
    <3>2. L[k] + I[k] + max_remain_size <= small_buffer_size
      <4> HIDE DEF L, I
      <4> QED BY <1>4, <1>8, <3>1
    <3>3. L[k] = Len(f[k]) /\ I[k] = Len(in_full(ps[k + 1]))
      BY <1>5, <1>9
    <3> QED BY <3>2, <3>3
  <2>2. put(f[k], ps[k + 1]) = followed(f[k], ps[k + 1])
    BY <1>5, <2>1, Put
  <2> QED BY <1>5, <1>9, <2>2
<1>10. \A k \in 0 .. m : f[k] = g[k]
  <2> DEFINE S == {k \in 0 .. m : f[k] = g[k]}
  <2>1. 0 \in S
    BY <1>1, <1>2, <1>3
  <2>2. ASSUME NEW k \in 0 .. m - 1, k \in S PROVE k + 1 \in S
    BY <1>5, <1>9, <2>2
  <2>3. \A k \in 0 .. m : k \in S
    <3> HIDE DEF S
    <3> QED BY <1>3, <2>1, <2>2, AllNumbersUpTo
  <2> QED BY <2>3
<1> QED BY <1>1, <1>2, <1>3, <1>10

(* The last of two sequences. *)
LEMMA LastOfBoth ==
  ASSUME NEW S, NEW s \in Seq(S), NEW t \in Seq(S), Len(t) \in Nat, Len(t) >= 1
  PROVE  /\ s \o t \in Seq(S) /\ Len(s \o t) \in Nat /\ Len(s \o t) >= 1
         /\ (s \o t)[Len(s \o t)] = t[Len(t)]
<1>1. s \o t \in Seq(S) /\ Len(s \o t) = Len(s) + Len(t) /\ Len(s) \in Nat
  BY ConcatProperties
<1>2. (s \o t)[Len(s) + Len(t)] = t[Len(s) + Len(t) - Len(s)]
  BY <1>1, ConcatProperties
<1> QED BY <1>1, <1>2

(* Whatever items a line is given, in whatever alphabet: it is shorter than the
   buffer, in full if that leaves room for a number, and without its '\n' only if it
   fills the buffer (log_stream.h:35-40, log_stream.cpp:10-41, ulog.cpp:33-57). *)
THEOREM LinesAreLoggedWhole ==
  ASSUME NEW A, Alphabet \subseteq A,
         NEW items \in Seq(LineItems(A)), NEW base_name_ \in Seq(A), NEW line_ \in Numbers
  PROVE  LineIsWhole(items, base_name_, line_)
<1> DEFINE ps == pieces(items, base_name_, line_)
           m == Len(ps)
           f == lines(ps)
<1>1. /\ text(<<"T">>) \in LineItems(A) /\ text(<<"-">>) \in LineItems(A) /\ text(<<":">>) \in LineItems(A)
      /\ text(<<"\n">>) \in LineItems(A) /\ text(base_name_) \in LineItems(A) /\ int(line_) \in LineItems(A)
  <2>1. "T" \in A /\ "-" \in A /\ ":" \in A /\ "\n" \in A
    BY DEF Alphabet, Characters
  <2>2. <<"T">> \in Seq(A) /\ <<"-">> \in Seq(A) /\ <<":">> \in Seq(A) /\ <<"\n">> \in Seq(A)
    BY <2>1
  <2>3. \A c \in Seq(A) : text(c) \in LineItems(A)
    BY DEF LineItems, text
  <2>4. int(line_) \in LineItems(A)
    BY DEF LineItems, int
  <2> QED BY <2>2, <2>3, <2>4
<1>2. ps \in Seq(LineItems(A)) /\ m >= 1 /\ m \in Nat /\ ps[m] = text(<<"\n">>)
  <2> DEFINE front == <<current_time>> \o items
             back == <<text(<<"-">>), text(base_name_), text(<<":">>), int(line_), text(<<"\n">>)>>
  <2>1. front \in Seq(LineItems(A))
    BY <1>1 DEF current_time
  <2>2. back \in Seq(LineItems(A)) /\ Len(back) = 5 /\ back[5] = text(<<"\n">>)
    BY <1>1
  <2>3. ps = front \o back
    <3>1. ps = <<current_time>> \o items \o back
      BY DEF pieces
    <3> QED BY <3>1
  <2> HIDE DEF front, back, ps
  <2>4. ps \in Seq(LineItems(A)) /\ Len(ps) \in Nat /\ Len(ps) >= 1 /\ ps[Len(ps)] = back[5]
    <3>1. Len(back) = 5 /\ back \in Seq(LineItems(A)) /\ Len(back) \in Nat /\ Len(back) >= 1
      BY <2>2
    <3>2. /\ front \o back \in Seq(LineItems(A)) /\ Len(front \o back) \in Nat
          /\ Len(front \o back) >= 1 /\ (front \o back)[Len(front \o back)] = back[Len(back)]
      BY <2>1, <3>1, LastOfBoth, Zenon
    <3> QED BY <2>3, <3>1, <3>2
  <2> QED BY <2>2, <2>4
<1> HIDE DEF ps
<1>3. /\ after_pieces(ps) = f[m] /\ f \in [0 .. m -> Lines(A)]
      /\ \A k \in 1 .. m : f[k] = put(f[k - 1], ps[k])
  BY <1>2, LinesPieceByPiece
<1> HIDE DEF m, f
<1>4. f[m] \in Lines(A) /\ f[m - 1] \in Lines(A) /\ f[m] = put(f[m - 1], text(<<"\n">>))
  BY <1>2, <1>3
<1>5. Last(f[m]) = "\n" \/ Len(f[m]) = small_buffer_size - 1
  BY <1>4, PutEnd
<1>6. Len(f[m]) < small_buffer_size
  BY <1>4 DEF Lines
<1>7. logged(items, base_name_, line_) = f[m]
  BY <1>3 DEF logged, ps
<1>8. Len(all_in_full(ps)) + max_remain_size <= small_buffer_size => f[m] = all_in_full(ps)
  BY <1>2, <1>3, NothingCut
<1> QED BY <1>5, <1>6, <1>7, <1>8 DEF LineIsWhole, ps

(* The lines of the run are such lines. *)
LEMMA LinesAreWholeNow == LinesAreWhole
<1> DEFINE A == Alphabet \cup {"x", "f", "g"}
<1>0. Alphabet \subseteq A /\ "x" \in A /\ "f" \in A /\ "g" \in A
  OBVIOUS
<1> HIDE DEF A
<1>1. \A i \in Items : i \in LineItems(A)
  <2>1. \A n \in Nat : [k \in 1 .. n |-> "x"] \in Seq(A)
    BY <1>0
  <2>2. \A n \in 0 .. 16 : chars(n) \in LineItems(A)
    BY <2>1 DEF chars, text, LineItems
  <2>3. \A v \in Numbers : int(v) \in LineItems(A)
    BY DEF int, LineItems
  <2>4. [type |-> "null"] \in LineItems(A)
    BY DEF LineItems
  <2> QED BY <2>2, <2>3, <2>4 DEF Items
<1>2. \A n \in 0 .. 2 : SubSeq(<<"f", "g">>, 1, n) \in Seq(A)
  <2>1. <<"f", "g">> \in Seq(A) /\ Len(<<"f", "g">>) = 2
    BY <1>0
  <2> QED BY <2>1
<1>3. ASSUME NEW i \in Items, NEW j \in Items, NEW n \in 0 .. 2, NEW line_ \in {1, 120} \cap Numbers
      PROVE  LineIsWhole(<<i, j>>, SubSeq(<<"f", "g">>, 1, n), line_)
  <2>1. <<i, j>> \in Seq(LineItems(A))
    BY <1>1
  <2> QED BY <1>0, <1>2, <2>1, LinesAreLoggedWhole
<1> QED BY <1>3, NumbersAreLogged DEF LinesAreWhole

(* What the run looks at before the first line holds whatever the logger does: it is
   about the numbers and the lines alone. *)
THEOREM EveryLineIsWhole == SafeSpec => []LinesAreWhole
BY LinesAreWholeNow, PTL
=============================================================================
