----------------------------- MODULE MCAsyncLog -----------------------------
(* AsyncLog with buffers that hold one to three lines, and the lines it is
   given, over all numbers of eight bits and all lines of up to two items in a
   buffer of 16 characters. *)
EXTENDS AsyncLog, LogLine

EightBits == -128 .. 255

chars(n) == text([i \in 1 .. n |-> "x"])
Items == {chars(n) : n \in 0 .. 16} \cup {int(v) : v \in {-128, 0, 7, 255} \cap Numbers} \cup {[type |-> "null"]}

(* A line of the log shows the numbers it was given, is whole whenever there is
   room, and is cut at its pieces otherwise (log_stream.h:35-40,
   log_stream.cpp:10-41, ulog.cpp:33-57).  It says nothing of the logger's state
   and is looked at before the first line. *)
LinesAreWhole ==
  once_flag_ = "unset" =>
    /\ NumbersAreRight(Numbers)
    /\ \A i, j \in Items, n \in 0 .. 2, line_ \in {1, 120} \cap Numbers :
         LineIsWhole(<<i, j>>, SubSeq(<<"f", "g">>, 1, n), line_)
=============================================================================
