------------------------------ MODULE AsyncLog ------------------------------
(***************************************************************************)
(* async_log: the first line starts the logger (ulog.cpp); callers append  *)
(* lines to a front end of buffers under m_mut; the logging thread swaps   *)
(* the front end against its own empty buffers and writes what it took to  *)
(* the file.                                                               *)
(*                                                                         *)
(* A line is its number in the order of append, with a length.  A buffer   *)
(* is the lines in it and the room they use; its bytes are left out, and a *)
(* buffer that nobody refers to is not kept.  wait_for ends at a notify,   *)
(* spuriously or at its timeout, so notify_one adds nothing to when it may *)
(* end.  The file is what fwrite has been given and how much of it fflush  *)
(* has passed on.                                                          *)
(***************************************************************************)
EXTENDS Naturals, Sequences, FiniteSets, Functions

CONSTANTS
  BufferSize,  \* large_buffer_size
  Lengths,     \* lengths of lines; a log_stream's buffer is far smaller than BufferSize
  DropLimit,   \* 25: with more buffers than this all but two are dropped
  FlushPerN,   \* log_file's flush_per_N
  MaxLines,    \* bound on the lines appended
  Null         \* an empty shared_ptr

ASSUME LengthsAssumption ==
  BufferSize \in Nat /\ Lengths \subseteq {n \in Nat : n < BufferSize}
ASSUME DropLimitAssumption == DropLimit \in Nat /\ DropLimit >= 2
ASSUME FlushPerNAssumption == FlushPerN \in Nat \ {0}
ASSUME MaxLinesAssumption == MaxLines \in Nat

VARIABLES
  once_flag_,          \* how far the call_once of ulog.cpp is
  m_latch,             \* start()'s latch
  running_,            \* set by start(), cleared by stop()
  pc,                  \* where the logging thread is in thread_func
  current_buffer_ptr_, \* front end, guarded by m_mut
  next_buffer_ptr_,
  m_buffers,
  buffer1, buffer2,    \* thread_func's spare buffers
  buffers_need_write,  \* thread_func's list
  next_write,          \* index of the buffer to be written next
  appended,            \* history: lines appended so far
  dropped,             \* history: lines dropped with their buffers
  file,                \* lines fwrite has been given, in order
  flushed,             \* how many of them fflush has passed on
  m_count              \* log_file's count of appends since a flush

vars == <<once_flag_, m_latch, running_, pc, current_buffer_ptr_, next_buffer_ptr_, m_buffers, buffer1,
          buffer2, buffers_need_write, next_write, appended, dropped, file, flushed, m_count>>

startVars == <<once_flag_, m_latch>>
frontVars == <<current_buffer_ptr_, next_buffer_ptr_, m_buffers, appended>>
backVars  == <<buffer1, buffer2, buffers_need_write, next_write, dropped>>
fileVars  == <<file, flushed, m_count>>

Buffer == [lines : Seq(Nat), used : Nat]
EmptyBuffer == [lines |-> <<>>, used |-> 0]

ASSUME NullAssumption == Null \notin Buffer

OnceFlag == {"unset", "constructed", "running", "waiting", "set"}
ThreadPc == {"none", "started", "top", "lock", "waiting", "trim", "write", "refill", "final", "exited"}

TypeOK ==
  /\ once_flag_ \in OnceFlag
  /\ m_latch \in {0, 1}
  /\ running_ \in BOOLEAN
  /\ pc \in ThreadPc
  /\ current_buffer_ptr_ \in Buffer
  /\ next_buffer_ptr_ \in Buffer \cup {Null}
  /\ m_buffers \in Seq(Buffer)
  /\ buffer1 \in Buffer \cup {Null} /\ buffer2 \in Buffer \cup {Null}
  /\ buffers_need_write \in Seq(Buffer)
  /\ next_write \in Nat \ {0}
  /\ appended \in Nat
  /\ dropped \in SUBSET Nat
  /\ file \in Seq(Nat)
  /\ flushed \in Nat
  /\ m_count \in Nat

(* No line has been logged.  The buffers are as the constructor and
   thread_func make them; nobody sees them earlier. *)
Init ==
  /\ once_flag_ = "unset" /\ m_latch = 1
  /\ running_ = FALSE
  /\ pc = "none"
  /\ current_buffer_ptr_ = EmptyBuffer
  /\ next_buffer_ptr_ = EmptyBuffer
  /\ m_buffers = <<>>
  /\ buffer1 = EmptyBuffer /\ buffer2 = EmptyBuffer
  /\ buffers_need_write = <<>>
  /\ next_write = 1
  /\ appended = 0
  /\ dropped = {}
  /\ file = <<>>
  /\ flushed = 0
  /\ m_count = 0
-----------------------------------------------------------------------------
(* Callers.  The first goes through call_once, ulog_init_once and start();
   others wait in call_once until it is done. *)

(* ulog_init_once makes the logger. *)
call_once ==
  /\ once_flag_ = "unset"
  /\ once_flag_' = "constructed"
  /\ UNCHANGED <<m_latch, running_, pc, frontVars, backVars, fileVars>>

set_running ==
  /\ once_flag_ = "constructed"
  /\ running_' = TRUE
  /\ once_flag_' = "running"
  /\ UNCHANGED <<m_latch, pc, frontVars, backVars, fileVars>>

start_thread ==
  /\ once_flag_ = "running"
  /\ pc' = "started"
  /\ once_flag_' = "waiting"
  /\ UNCHANGED <<m_latch, running_, frontVars, backVars, fileVars>>

latch_wait ==
  /\ once_flag_ = "waiting" /\ m_latch = 0
  /\ once_flag_' = "set"
  /\ UNCHANGED <<m_latch, running_, pc, frontVars, backVars, fileVars>>

available_size(b) == BufferSize - b.used

(* fixed_buffer::append: a line that would fill the buffer to the brim is
   silently dropped. *)
with_line(b, length) ==
  IF available_size(b) > length
  THEN [lines |-> Append(b.lines, appended + 1), used |-> b.used + length]
  ELSE b

(* Mutant: a line that exactly fills the buffer is let through. *)
fits_exactly(b, length) == available_size(b) >= length

fits(b, length) == available_size(b) > length

append(length) ==
  /\ once_flag_ = "set" /\ appended < MaxLines
  /\ appended' = appended + 1
  /\ \/ /\ fits(current_buffer_ptr_, length)
        /\ current_buffer_ptr_' = with_line(current_buffer_ptr_, length)
        /\ UNCHANGED <<next_buffer_ptr_, m_buffers>>
     \/ /\ ~fits(current_buffer_ptr_, length)
        /\ m_buffers' = Append(m_buffers, current_buffer_ptr_)
        /\ current_buffer_ptr_' =
             with_line(IF next_buffer_ptr_ # Null THEN next_buffer_ptr_ ELSE EmptyBuffer, length)
        /\ next_buffer_ptr_' = Null
  /\ UNCHANGED <<startVars, running_, pc, backVars, fileVars>>

stop ==
  /\ once_flag_ = "set" /\ running_
  /\ running_' = FALSE
  /\ UNCHANGED <<startVars, pc, frontVars, backVars, fileVars>>
-----------------------------------------------------------------------------
(* thread_func *)

count_down ==
  /\ pc = "started"
  /\ m_latch' = m_latch - 1
  /\ pc' = "top"
  /\ UNCHANGED <<once_flag_, running_, frontVars, backVars, fileVars>>

(* Mutant: the loop does not look at running_. *)
check_running_never ==
  /\ pc = "top"
  /\ pc' = "lock"
  /\ UNCHANGED <<startVars, running_, frontVars, backVars, fileVars>>

check_running ==
  /\ pc = "top"
  /\ pc' = IF running_ THEN "lock" ELSE "final"
  /\ UNCHANGED <<startVars, running_, frontVars, backVars, fileVars>>

wait_for ==
  /\ pc = "lock"
  /\ m_buffers = <<>>
  /\ pc' = "waiting"
  /\ UNCHANGED <<startVars, running_, frontVars, backVars, fileVars>>

(* Mutant: a wait() without the timeout. *)
swap_when_notified ==
  /\ pc \in {"waiting", "lock"} /\ m_buffers # <<>>
  /\ buffers_need_write' = Append(m_buffers, current_buffer_ptr_)
  /\ m_buffers' = <<>>
  /\ current_buffer_ptr_' = buffer1
  /\ buffer1' = Null
  /\ next_buffer_ptr_' = IF next_buffer_ptr_ = Null THEN buffer2 ELSE next_buffer_ptr_
  /\ buffer2' = IF next_buffer_ptr_ = Null THEN Null ELSE buffer2
  /\ pc' = "trim"
  /\ UNCHANGED <<startVars, running_, appended, next_write, dropped, fileVars>>

(* The rest of the critical section: the current buffer joins the full ones,
   buffer1 takes its place, buffer2 replaces the next buffer if it is used. *)
swap ==
  /\ pc = "waiting" \/ (pc = "lock" /\ m_buffers # <<>>)
  /\ buffers_need_write' = Append(m_buffers, current_buffer_ptr_)
  /\ m_buffers' = <<>>
  /\ current_buffer_ptr_' = buffer1
  /\ buffer1' = Null
  /\ next_buffer_ptr_' = IF next_buffer_ptr_ = Null THEN buffer2 ELSE next_buffer_ptr_
  /\ buffer2' = IF next_buffer_ptr_ = Null THEN Null ELSE buffer2
  /\ pc' = "trim"
  /\ UNCHANGED <<startVars, running_, appended, next_write, dropped, fileVars>>

lines_in(bs) == UNION {Range(bs[i].lines) : i \in DOMAIN bs}

(* What is left of a list that is too long. *)
kept(bs) == SubSeq(bs, 1, 2)

trim ==
  /\ pc = "trim"
  /\ \/ /\ Len(buffers_need_write) > DropLimit
        /\ buffers_need_write' = kept(buffers_need_write)
        /\ dropped' = dropped \cup
             (lines_in(buffers_need_write) \ lines_in(kept(buffers_need_write)))
     \/ /\ Len(buffers_need_write) <= DropLimit
        /\ UNCHANGED <<buffers_need_write, dropped>>
  /\ next_write' = 1
  /\ pc' = "write"
  /\ UNCHANGED <<startVars, running_, frontVars, buffer1, buffer2, fileVars>>

(* log_file::append_unlocked of one buffer. *)
append_unlocked(b) ==
  /\ file' = file \o b.lines
  /\ m_count' = IF m_count + 1 >= FlushPerN THEN 0 ELSE m_count + 1
  /\ flushed' = IF m_count + 1 >= FlushPerN THEN Len(file') ELSE flushed

write_buffer ==
  /\ pc = "write"
  /\ next_write <= Len(buffers_need_write)
  /\ append_unlocked(buffers_need_write[next_write])
  /\ next_write' = next_write + 1
  /\ UNCHANGED <<startVars, running_, pc, frontVars, buffer1, buffer2, buffers_need_write, dropped>>

all_written ==
  /\ pc = "write"
  /\ next_write > Len(buffers_need_write)
  /\ pc' = "refill"
  /\ UNCHANGED <<startVars, running_, frontVars, backVars, fileVars>>

(* Mutant: reset_cur is not called on a buffer that is used again. *)
reset_cur_missing(b) == b

reset_cur(b) == EmptyBuffer

flush == flushed' = Len(file)

(* The spares are refilled from the back of the list cut to two; the list is
   cleared, the file flushed. *)
refill ==
  LET two == SubSeq(buffers_need_write, 1, IF Len(buffers_need_write) > 2
                                           THEN 2 ELSE Len(buffers_need_write))
      back == Len(two)
      back2 == IF buffer1 = Null THEN back - 1 ELSE back
  IN  /\ pc = "refill"
      /\ buffer1' = IF buffer1 = Null THEN reset_cur(two[back]) ELSE buffer1
      /\ buffer2' = IF buffer2 = Null THEN reset_cur(two[back2]) ELSE buffer2
      /\ buffers_need_write' = <<>>
      /\ flush
      /\ pc' = "top"
      /\ UNCHANGED <<startVars, running_, frontVars, next_write, dropped, file, m_count>>

final_flush ==
  /\ pc = "final"
  /\ flush
  /\ pc' = "exited"
  /\ UNCHANGED <<startVars, running_, frontVars, backVars, file, m_count>>
-----------------------------------------------------------------------------
Starter == call_once \/ set_running \/ start_thread \/ latch_wait

ThreadStep ==
  \/ count_down \/ check_running \/ wait_for \/ swap \/ trim \/ write_buffer
  \/ all_written \/ refill \/ final_flush

Next == Starter \/ (\E length \in Lengths : append(length)) \/ stop \/ ThreadStep

SafeSpec == Init /\ [][Next]_vars

(* The logging thread is scheduled and wait_for has a timeout. *)
Spec == SafeSpec /\ WF_vars(ThreadStep)
-----------------------------------------------------------------------------
(* The assertions of thread_func, each where it stands: 49 at its start, 60-62
   at the top of the loop, 80 after the swap, 95 and 102 where the spares are refilled.  The last
   is the delicate one: both spares can be missing only if two buffers were
   taken. *)
AssertsHold ==
  /\ pc = "started" => running_
  /\ pc = "top" =>
       buffer1 = EmptyBuffer /\ buffer2 = EmptyBuffer /\ buffers_need_write = <<>>
  /\ pc = "trim" => buffers_need_write # <<>>
  /\ pc = "refill" =>
       (IF buffer1 = Null THEN 1 ELSE 0) + (IF buffer2 = Null THEN 1 ELSE 0)
         <= Len(buffers_need_write)

(* What is still to be written of the list in hand, and with what is behind it. *)
unwritten ==
  CASE pc = "trim" -> buffers_need_write
    [] pc = "write" -> SubSeq(buffers_need_write, next_write, Len(buffers_need_write))
    [] OTHER -> <<>>

queue == unwritten \o Append(m_buffers, current_buffer_ptr_)

increasing(s) == \A i, j \in DOMAIN s : i < j => s[i] < s[j]
precede(S, T) == \A x \in S, y \in T : x < y

(* The lines of a file and of the buffers behind it, read in that order. *)
in_order(f, bs) ==
  /\ increasing(f) /\ precede(Range(f), lines_in(bs))
  /\ \A k \in DOMAIN bs : increasing(bs[k].lines)
  /\ \A k, l \in DOMAIN bs : k < l => precede(Range(bs[k].lines), Range(bs[l].lines))

(* From append to the file no line is lost, repeated or overtaken by another,
   whichever buffers it passes through; only a list longer than DropLimit
   loses lines, and exactly those of the buffers cut off. *)
LinesKeepTheirOrder ==
  /\ in_order(file, queue)
  /\ (Range(file) \cup lines_in(queue)) \cap dropped = {}
  /\ Range(file) \cup lines_in(queue) \cup dropped = 1 .. appended

(* A line that is appended reaches the file, flushed, unless it is dropped or
   the logger is stopped. *)
EveryLineIsFlushed ==
  \A n \in 1 .. MaxLines :
    (appended >= n) ~>
      \/ n \in Range(SubSeq(file, 1, flushed))
      \/ n \in dropped
      \/ ~running_

(* stop() ends the thread, whatever it was doing when the flag was cleared. *)
StopEndsThread == (once_flag_ = "set" /\ ~running_) ~> pc = "exited"
=============================================================================
