------------------------------- MODULE Transfers -------------------------------
(***************************************************************************)
(* The loops around calls that may move fewer bytes than they are asked    *)
(* for: readn and writen of util.cpp on a non-blocking descriptor, and     *)
(* append_file::append on a stdio stream.  Each is a function of what its  *)
(* successive calls return: a positive number of bytes, 0, or one of the   *)
(* errors below.                                                           *)
(***************************************************************************)
EXTENDS Integers, Sequences

EINTR  == -1
EAGAIN == -2
EIO    == -3  \* any other error

(* Mutant: an interrupted call ends the loop as EAGAIN does. *)
transient_none == {}

(* The results after which a loop just calls again. *)
transient == {EINTR}

(* A loop of reads from a socket that holds stream, after one more call; with one
   of the sums in enough it makes no further call. *)
after_read(r, n, stream, enough) ==
  CASE r.end # "no" \/ n \in transient -> r
    [] r.end = "no" /\ n > 0 ->
         [r EXCEPT !.buf = @ \o SubSeq(stream, r.ret + 1, r.ret + n), !.ret = @ + n,
                   !.end = IF r.ret + n \in enough THEN "enough" ELSE "no"]
    [] r.end = "no" /\ n = 0 -> [r EXCEPT !.end = "zero"]
    [] r.end = "no" /\ n = EIO -> [r EXCEPT !.ret = -1, !.end = "error"]
    [] OTHER -> [r EXCEPT !.end = "again"]

reads(buf, stream, results, enough) ==
  LET after[k \in 0 .. Len(results)] ==
        IF k = 0 THEN [buf |-> buf, ret |-> 0, end |-> IF 0 \in enough THEN "enough" ELSE "no"]
        ELSE after_read(after[k - 1], results[k], stream, enough)
  IN  after[Len(results)]

(* readn(fd, buff, n), which the eventfd is read with: it makes no call once it
   has n bytes. *)
readn_bytes(n, stream, results) == reads(<<>>, stream, results, {n})

(* readn(fd, inBuffer, zero) reads until a call tells it to stop; zero is set when
   the end is "zero". *)
readn(inBuffer, stream, results) == reads(inBuffer, stream, results, {})

(* writen(fd, buff, n): taken is what the socket has been given.  A call that
   returns 0 is repeated. *)
after_write(r, n, buff) ==
  CASE r.end # "no" \/ n \in transient -> r
    [] r.end = "no" /\ n >= 0 ->
         [taken |-> SubSeq(buff, 1, r.ret + n), ret |-> r.ret + n,
          end |-> IF r.ret + n < Len(buff) THEN "no" ELSE "enough"]
    [] r.end = "no" /\ n = EIO -> [r EXCEPT !.ret = -1, !.end = "error"]
    [] OTHER -> [r EXCEPT !.end = "again"]

writen_bytes(buff, results) ==
  LET after[k \in 0 .. Len(results)] ==
        IF k = 0 THEN [taken |-> <<>>, ret |-> 0, end |-> IF buff = <<>> THEN "enough" ELSE "no"]
        ELSE after_write(after[k - 1], results[k], buff)
  IN  after[Len(results)]

(* writen(fd, sbuff) also keeps in sbuff what is left, all of it after an error. *)
writen(sbuff, results) ==
  LET w == writen_bytes(sbuff, results)
  IN  [taken |-> w.taken, ret |-> w.ret,
       left |-> SubSeq(sbuff, (IF w.ret = -1 THEN 0 ELSE w.ret) + 1, Len(sbuff))]

(* append_file::append: n of length bytes are given to the stream.  A first
   fwrite that takes nothing, or any later one, ends it. *)
after_fwrite(r, n, length) ==
  IF r.end # "no" THEN r
  ELSE [n |-> r.n + n, end |-> IF n > 0 /\ r.n + n < length THEN "no" ELSE "enough"]

append_file(length, results) ==
  LET after[k \in 0 .. Len(results)] ==
        IF k = 0 THEN [n |-> 0, end |-> "no"] ELSE after_fwrite(after[k - 1], results[k], length)
  IN  after[Len(results)].n
-----------------------------------------------------------------------------
(* What a system call may return when it is asked for at most n bytes, and the
   lists of k such results. *)
returns(n) == 1 .. n \cup {0, EINTR, EAGAIN, EIO}
Results(n, k) == UNION {[1 .. i -> returns(n)] : i \in 0 .. k}

(* The calls of a loop that are made: up to the first that ends it. *)
calls(results, ends) ==
  {k \in DOMAIN results : \A j \in 1 .. k - 1 : results[j] \notin ends}

moved(results, ends) ==
  LET sum[k \in 0 .. Len(results)] ==
        IF k = 0 THEN 0
        ELSE sum[k - 1] + (IF k \in calls(results, ends) /\ results[k] > 0 THEN results[k] ELSE 0)
  IN  sum[Len(results)]

ended_by(results, ends, e) == \E k \in calls(results, ends) : results[k] = e

(* Whatever the calls return: inBuffer gains exactly the bytes that were read,
   in order and before any error, and zero says that the peer has shut down. *)
ReadKeepsBytes(old, stream, results) ==
  LET ends == {0, EAGAIN, EIO}
      r == readn(old, stream, results)
      n == moved(results, ends)
  IN  n <= Len(stream) =>
        /\ r.buf = old \o SubSeq(stream, 1, n)
        /\ r.end = "zero" <=> ended_by(results, ends, 0)
        /\ r.ret = IF ended_by(results, ends, EIO) THEN -1 ELSE n

(* A read of n bytes returns them even if a further call would have failed, and
   otherwise what there was. *)
ReadTakesNoMore(n, stream, results) ==
  LET ends == {0, EAGAIN, EIO}
      r == readn_bytes(n, stream, results)
      read == moved(results, ends)
  IN  read <= n /\ read <= Len(stream) =>
        /\ r.buf = SubSeq(stream, 1, read)
        /\ r.ret = IF read < n /\ ended_by(results, ends, EIO) THEN -1 ELSE read

(* Unless there is an error, what is sent and what is left are the buffer, and
   everything that the calls up to an EAGAIN could take has been sent. *)
WriteKeepsBytes(buf, results) ==
  LET ends == {EAGAIN, EIO}
      w == writen(buf, results)
  IN  moved(results, ends) <= Len(buf) /\ w.ret # -1 =>
        /\ w.taken \o w.left = buf
        /\ w.ret = Len(w.taken) /\ w.ret = moved(results, ends)

(* A line is cut only by a call that takes nothing. *)
AppendKeepsBytes(length, results) ==
  (\A k \in DOMAIN results : results[k] >= 0) /\ moved(results, {0}) = length =>
    append_file(length, results) = length
=============================================================================
