------------------------------- MODULE LogLine -------------------------------
(***************************************************************************)
(* One line of the log: the fixed_buffer of a log_stream, its operators << *)
(* with convert's digits, and what ulog's constructor and destructor put   *)
(* around the caller's items.  A buffer is the characters in it.           *)
(***************************************************************************)
EXTENDS Integers, SequencesExt

CONSTANTS
  small_buffer_size,
  max_remain_size,   \* room a number must find
  Numbers            \* the values of the types that are logged

power_of_ten[n \in 0 .. max_remain_size] == IF n = 0 THEN 1 ELSE 10 * power_of_ten[n - 1]

ASSUME SizesAssumption ==
  small_buffer_size \in Nat /\ max_remain_size \in 3 .. small_buffer_size
\* The widest number, with its sign and a NUL: 21 characters for 64 bits, of 32.
ASSUME NumbersAssumption ==
  \A v \in Numbers :
    v \in Int /\ -v < power_of_ten[max_remain_size - 2] /\ v < power_of_ten[max_remain_size - 2]

room(b) == small_buffer_size - Len(b)

(* fixed_buffer::append: all of chars, or nothing. *)
append_text(b, chars) == IF room(b) > Len(chars) THEN b \o chars ELSE b

(* `zero` points into the middle, so that negative remainders have digits too. *)
digits == <<"9", "8", "7", "6", "5", "4", "3", "2", "1", "0",
            "1", "2", "3", "4", "5", "6", "7", "8", "9">>
zero(lsd) == digits[10 + lsd]

(* C's % and /, which round towards 0. *)
remainder(i) == IF i < 0 THEN -((-i) % 10) ELSE i % 10
quotient(i)  == IF i < 0 THEN -((-i) \div 10) ELSE i \div 10

(* Mutant: the loop ends with the value below ten, its digit unwritten. *)
no_digits_left_below_ten(i) == i \in -9 .. 9

no_digits_left(i) == i = 0

(* convert: the digits from the last to the first, the sign, and all reversed. *)
convert(value) ==
  LET backwards[i \in Int] ==
        <<zero(remainder(i))>> \o
        (IF no_digits_left(quotient(i)) THEN <<>> ELSE backwards[quotient(i)])
  IN  Reverse(backwards[value] \o (IF value < 0 THEN <<"-">> ELSE <<>>))

format_int(b, v) == IF room(b) >= max_remain_size THEN b \o convert(v) ELSE b

(* operator<<: an item is a text, a null pointer or a number. *)
put(b, item) ==
  CASE item.type = "text" -> append_text(b, item.value)
    [] item.type = "null" -> append_text(b, <<"(", "n", "u", "l", "l", ")">>)
    [] item.type = "int" -> format_int(b, item.value)

text(chars) == [type |-> "text", value |-> chars]
int(v) == [type |-> "int", value |-> v]

current_time == text(<<"T">>)

(* ulog's constructor, the caller's items, ulog's destructor. *)
pieces(items, base_name_, line_) ==
  <<current_time>> \o items \o
  <<text(<<"-">>), text(base_name_), text(<<":">>), int(line_), text(<<"\n">>)>>

after_pieces(ps) ==
  LET line[k \in 0 .. Len(ps)] == IF k = 0 THEN <<>> ELSE put(line[k - 1], ps[k])
  IN  line[Len(ps)]

logged(items, base_name_, line_) == after_pieces(pieces(items, base_name_, line_))
-----------------------------------------------------------------------------
(* The number that a reader of the log sees. *)
digit_value(d) == CHOOSE n \in 0 .. 9 : zero(n) = d

number(ds) ==
  LET n[k \in 0 .. Len(ds)] == IF k = 0 THEN 0 ELSE 10 * n[k - 1] + digit_value(ds[k])
  IN  n[Len(ds)]

read_back(chars) == IF chars[1] = "-" THEN -number(Tail(chars)) ELSE number(chars)

(* Every number is logged as it is, the least of its type too, which has no
   negative, and leaves room for convert's final NUL. *)
NumbersAreRight(numbers) ==
  \A v \in numbers :
    read_back(convert(v)) = v /\ Len(convert(v)) < max_remain_size

(* What is asked for, without regard to the room there is. *)
in_full(item) ==
  CASE item.type = "text" -> item.value
    [] item.type = "null" -> <<"(", "n", "u", "l", "l", ")">>
    [] item.type = "int" -> convert(item.value)

all_in_full(ps) ==
  LET chars[k \in 0 .. Len(ps)] == IF k = 0 THEN <<>> ELSE chars[k - 1] \o in_full(ps[k])
  IN  chars[Len(ps)]

(* A line is shorter than the buffer, so that async_log always finds room for
   it; it is logged in full if that leaves room for a number; and it lacks its
   '\n', and so runs into the next one, only if it fills the buffer. *)
LineIsWhole(items, base_name_, line_) ==
  LET line == logged(items, base_name_, line_)
      all  == all_in_full(pieces(items, base_name_, line_))
  IN  /\ Len(line) < small_buffer_size
      /\ Len(all) + max_remain_size <= small_buffer_size => line = all
      /\ Last(line) = "\n" \/ Len(line) = small_buffer_size - 1
=============================================================================
