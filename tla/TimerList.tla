------------------------------ MODULE TimerList ------------------------------
(***************************************************************************)
(* sort_timer_lst of the predecessor (old_version/webserver_tick): a       *)
(* doubly linked list of timers in the order of their expiry, pointer by   *)
(* pointer.  A list is a record of head, tail and of the fields of every   *)
(* timer; the fields of a timer that is not allocated are Null and 0.      *)
(***************************************************************************)
EXTENDS Integers, FiniteSets, SequencesExt

CONSTANTS
  Timers,  \* util_timer objects
  Null     \* a null pointer

EmptyList ==
  [head |-> Null, tail |-> Null,
   prev |-> [t \in Timers |-> Null], next |-> [t \in Timers |-> Null],
   user_data |-> [t \in Timers |-> Null], expire |-> [t \in Timers |-> 0]]

(* Where the walk from each timer stops: before the first that expires later than t. *)
last_before(l, t) ==
  LET last[p \in Timers] ==
        IF l.next[p] = Null \/ l.expire[t] < l.expire[l.next[p]] THEN p ELSE last[l.next[p]]
  IN  last

(* The private overload: insert t somewhere behind lst_head. *)
add_timer_behind(l, t, lst_head) ==
  LET prev == last_before(l, t)[lst_head]
      tmp  == l.next[prev]
      linked == [l EXCEPT !.next[prev] = t, !.next[t] = tmp, !.prev[t] = prev]
  IN IF tmp = Null THEN [linked EXCEPT !.tail = t] ELSE [linked EXCEPT !.prev[tmp] = t]

add_timer(l, t) ==
  IF l.head = Null THEN [l EXCEPT !.head = t, !.tail = t]
  ELSE IF l.expire[t] < l.expire[l.head]
       THEN [l EXCEPT !.next[t] = l.head, !.prev[l.head] = t, !.head = t]
       ELSE add_timer_behind(l, t, l.head)

(* t's expiry has been moved to later: move t towards the tail. *)
adjust_timer(l, t) ==
  LET tmp  == l.next[t]
      prev == l.prev[t]
  IN IF tmp = Null \/ l.expire[t] < l.expire[tmp] THEN l
     ELSE IF t = l.head
          THEN add_timer_behind([l EXCEPT !.head = tmp, !.prev[tmp] = Null, !.next[t] = Null], t, tmp)
          ELSE add_timer_behind([l EXCEPT !.next[prev] = tmp, !.prev[tmp] = prev], t, tmp)

freed(l, t) ==
  [l EXCEPT !.prev[t] = Null, !.next[t] = Null, !.user_data[t] = Null, !.expire[t] = 0]

(* Mutant: the timer before a deleted tail still points to it. *)
del_timer_keeps_next(l, t) ==
  freed(IF t = l.head /\ t = l.tail THEN [l EXCEPT !.head = Null, !.tail = Null]
        ELSE IF t = l.head THEN [l EXCEPT !.head = l.next[t], !.prev[l.next[t]] = Null]
        ELSE IF t = l.tail THEN [l EXCEPT !.tail = l.prev[t]]
        ELSE [l EXCEPT !.next[l.prev[t]] = l.next[t], !.prev[l.next[t]] = l.prev[t]], t)

del_timer(l, t) ==
  freed(IF t = l.head /\ t = l.tail THEN [l EXCEPT !.head = Null, !.tail = Null]
        ELSE IF t = l.head THEN [l EXCEPT !.head = l.next[t], !.prev[l.next[t]] = Null]
        ELSE IF t = l.tail THEN [l EXCEPT !.tail = l.prev[t], !.next[l.prev[t]] = Null]
        ELSE [l EXCEPT !.next[l.prev[t]] = l.next[t], !.prev[l.next[t]] = l.prev[t]], t)

(* The list as a sequence: t goes behind everything that expires no later. *)
Inserted(s, expire, t) ==
  InsertAt(s, Cardinality({i \in DOMAIN s : expire[s[i]] <= expire[t]}) + 1, t)

at(s, i) == IF i \in DOMAIN s THEN s[i] ELSE Null

Sorted(s, expire) == \A i, j \in DOMAIN s : i <= j => expire[s[i]] <= expire[s[j]]

(* The pointers of l are those of the list s, walked either way; timers that are
   not in it point nowhere. *)
IsList(l, s) ==
  /\ l.head = at(s, 1) /\ l.tail = at(s, Len(s))
  /\ \A i \in DOMAIN s : l.prev[s[i]] = at(s, i - 1) /\ l.next[s[i]] = at(s, i + 1)
  /\ \A t \in Timers \ ToSet(s) : l.prev[t] = Null /\ l.next[t] = Null
  /\ Sorted(s, l.expire)

ListOf(s, expire) ==
  LET index(t) == CHOOSE i \in DOMAIN s : s[i] = t
      beside(t, d) == IF t \in ToSet(s) THEN at(s, index(t) + d) ELSE Null
  IN [EmptyList EXCEPT
        !.head = at(s, 1), !.tail = at(s, Len(s)), !.expire = expire,
        !.prev = [t \in Timers |-> beside(t, -1)], !.next = [t \in Timers |-> beside(t, 1)]]

(* Of any sorted list, add_timer makes that with a timer more at its place,
   del_timer that with one less, and adjust_timer that with one moved which has
   been put off. *)
OperationsKeepOrder(times) ==
  \A expire \in [Timers -> times],
     s \in UNION {SetToSeqs(S) : S \in {T \in SUBSET Timers : IsFiniteSet(T)}} :
    LET l == ListOf(s, expire) IN
    Sorted(s, expire) =>
      /\ IsList(l, s)
      /\ \A t \in Timers \ ToSet(s) : IsList(add_timer(l, t), Inserted(s, expire, t))
      /\ \A i \in DOMAIN s :
           /\ IsList(del_timer(l, s[i]), RemoveAt(s, i))
           /\ \A later \in {e \in times : e >= expire[s[i]]} :
                LET m == [l EXCEPT !.expire[s[i]] = later]
                IN IsList(adjust_timer(m, s[i]), Inserted(RemoveAt(s, i), m.expire, s[i]))

ListIsSortedSequence == OperationsKeepOrder(0..2)
=============================================================================
