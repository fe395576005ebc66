--------------------------- MODULE TickServerProofs ---------------------------
(***************************************************************************)
(* The predecessor's pool, its clock and its connections: for any number   *)
(* of workers, any queue limit, any clients and whatever signals           *)
(* interrupt, no request is left behind by its semaphore, ticks go on, and *)
(* timers, connections and who has them in hand stay together.             *)
(***************************************************************************)
EXTENDS TickServer, Induction, FiniteSetTheorems, SequenceTheorems, TLAPS

-----------------------------------------------------------------------------
(***************************************************************************)
(* The timer list, for any timers, any times and any length: its pointer   *)
(* operations are the operations of a sorted sequence.                     *)
(***************************************************************************)

Links == [Clients -> Clients \cup {Null}]
List  == [head : Clients \cup {Null}, tail : Clients \cup {Null}, prev : Links, next : Links,
          user_data : [Clients -> Fds \cup {Null}], expire : [Clients -> Nat]]

Distinct(s) == \A i, j \in DOMAIN s : s[i] = s[j] => i = j

(* The position behind m timers of s. *)
LEMMA InsertedShape ==
  ASSUME NEW s \in Seq(Clients), NEW m \in 0 .. Len(s), NEW t \in Clients
  PROVE  LET r == InsertAt(s, m + 1, t)
         IN  /\ r \in Seq(Clients) /\ Len(r) = Len(s) + 1
             /\ \A i \in 1 .. m : r[i] = s[i]
             /\ r[m + 1] = t
             /\ \A i \in m + 2 .. Len(s) + 1 : r[i] = s[i - 1]
<1> DEFINE a == SubSeq(s, 1, m)
           b == SubSeq(s, m + 1, Len(s))
<1>1. a \in Seq(Clients) /\ Len(a) = m /\ \A i \in 1 .. m : a[i] = s[i]
  <2>1. \A i \in 1 .. m : s[i] \in Clients
    OBVIOUS
  <2> QED BY <2>1, SubSeqProperties
<1>2. b \in Seq(Clients) /\ Len(b) = Len(s) - m /\ \A i \in 1 .. Len(s) - m : b[i] = s[m + i]
  <2>1. \A i \in m + 1 .. Len(s) : s[i] \in Clients
    OBVIOUS
  <2>2. /\ b \in Seq(Clients)
        /\ Len(b) = IF m + 1 <= Len(s) THEN Len(s) - (m + 1) + 1 ELSE 0
        /\ \A i \in 1 .. Len(s) - (m + 1) + 1 : b[i] = s[(m + 1) + i - 1]
    BY <2>1, SubSeqProperties
  <2> QED BY <2>2
<1>0. (m + 1) - 1 = m
  OBVIOUS
<1>3. InsertAt(s, m + 1, t) = a \o <<t>> \o b
  <2>1. InsertAt(s, m + 1, t) = SubSeq(s, 1, (m + 1) - 1) \o <<t>> \o b
    BY DEF InsertAt
  <2> QED BY <1>0, <2>1
<1> HIDE DEF a, b
<1>4. a \o <<t>> \in Seq(Clients) /\ Len(a \o <<t>>) = m + 1
      /\ (\A i \in 1 .. m : (a \o <<t>>)[i] = s[i]) /\ (a \o <<t>>)[m + 1] = t
  BY <1>1
<1> DEFINE c == a \o <<t>>
<1> HIDE DEF c
<1>5. c \in Seq(Clients) /\ Len(c) = m + 1 /\ (\A i \in 1 .. m : c[i] = s[i]) /\ c[m + 1] = t
  BY <1>4 DEF c
<1>6. /\ c \o b \in Seq(Clients) /\ Len(c \o b) = Len(s) + 1
      /\ \A i \in 1 .. m + 1 : (c \o b)[i] = c[i]
      /\ \A i \in m + 2 .. Len(s) + 1 : (c \o b)[i] = b[i - (m + 1)]
  BY <1>2, <1>5
<1>7. \A i \in m + 2 .. Len(s) + 1 : b[i - (m + 1)] = s[i - 1]
  BY <1>2
<1>8. InsertAt(s, m + 1, t) = c \o b
  BY <1>3 DEF c
<1>9. /\ \A i \in 1 .. m : (c \o b)[i] = s[i]
      /\ (c \o b)[m + 1] = t
      /\ \A i \in m + 2 .. Len(s) + 1 : (c \o b)[i] = s[i - 1]
  <2>1. \A i \in 1 .. m : i \in 1 .. m + 1
    OBVIOUS
  <2>2. m + 1 \in 1 .. m + 1
    OBVIOUS
  <2> QED BY <1>5, <1>6, <1>7, <2>1, <2>2
<1> QED BY <1>6, <1>8, <1>9

LEMMA RemovedShape ==
  ASSUME NEW s \in Seq(Clients), NEW k \in 1 .. Len(s)
  PROVE  LET r == RemoveAt(s, k)
         IN  /\ r \in Seq(Clients) /\ Len(r) = Len(s) - 1
             /\ \A i \in 1 .. k - 1 : r[i] = s[i]
             /\ \A i \in k .. Len(s) - 1 : r[i] = s[i + 1]
<1> DEFINE a == SubSeq(s, 1, k - 1)
           b == SubSeq(s, k + 1, Len(s))
<1>1. a \in Seq(Clients) /\ Len(a) = k - 1 /\ \A i \in 1 .. k - 1 : a[i] = s[i]
  <2>1. \A i \in 1 .. k - 1 : s[i] \in Clients
    OBVIOUS
  <2> QED BY <2>1, SubSeqProperties
<1>2. b \in Seq(Clients) /\ Len(b) = Len(s) - k /\ \A i \in 1 .. Len(s) - k : b[i] = s[k + i]
  <2>1. \A i \in k + 1 .. Len(s) : s[i] \in Clients
    OBVIOUS
  <2>2. /\ b \in Seq(Clients)
        /\ Len(b) = IF k + 1 <= Len(s) THEN Len(s) - (k + 1) + 1 ELSE 0
        /\ \A i \in 1 .. Len(s) - (k + 1) + 1 : b[i] = s[(k + 1) + i - 1]
    BY <2>1, SubSeqProperties
  <2> QED BY <2>2
<1>3. RemoveAt(s, k) = a \o b
  BY DEF RemoveAt
<1> HIDE DEF a, b
<1>4. /\ a \o b \in Seq(Clients) /\ Len(a \o b) = Len(s) - 1
      /\ \A i \in 1 .. k - 1 : (a \o b)[i] = a[i]
      /\ \A i \in k .. Len(s) - 1 : (a \o b)[i] = b[i - (k - 1)]
  <2>1. /\ a \o b \in Seq(Clients) /\ Len(a \o b) = Len(a) + Len(b)
        /\ \A i \in 1 .. Len(a) + Len(b) :
             (a \o b)[i] = IF i <= Len(a) THEN a[i] ELSE b[i - Len(a)]
    BY <1>1, <1>2, ConcatProperties
  <2> QED BY <1>1, <1>2, <2>1
<1>5. \A i \in k .. Len(s) - 1 : b[i - (k - 1)] = s[i + 1]
  BY <1>2
<1> QED BY <1>1, <1>3, <1>4, <1>5

(* In a sorted list those that expire by e are a prefix. *)
LEMMA Prefix ==
  ASSUME NEW s \in Seq(Clients), NEW expire \in [Clients -> Nat], Sorted(s, expire), NEW e \in Nat
  PROVE  \E m \in 0 .. Len(s) :
           /\ \A i \in 1 .. Len(s) : i <= m <=> expire[s[i]] <= e
           /\ Cardinality({i \in DOMAIN s : expire[s[i]] <= e}) = m
<1> DEFINE S == {n \in 0 .. Len(s) : \A i \in 1 .. Len(s) : i > n => expire[s[i]] > e}
<1>1. Len(s) \in S /\ S \in SUBSET Nat
  OBVIOUS
<1>2. PICK m \in S : \A k \in S : m <= k
  <2> HIDE DEF S
  <2> QED BY <1>1, Least
<1>3. m > 0 => expire[s[m]] <= e
  <2> SUFFICES ASSUME m > 0, ~(expire[s[m]] <= e) PROVE FALSE
    OBVIOUS
  <2>1. m - 1 \in S
    <3>1. m \in 1 .. Len(s) /\ s[m] \in Clients /\ expire[s[m]] \in Nat
      OBVIOUS
    <3>2. expire[s[m]] > e
      BY <3>1
    <3>3. ASSUME NEW i \in 1 .. Len(s), i > m - 1 PROVE expire[s[i]] > e
      <4>1. i = m \/ i > m
        BY <3>1, <3>3
      <4> QED BY <3>2, <4>1
    <3>4. m - 1 \in 0 .. Len(s)
      BY <3>1
    <3> QED BY <3>3, <3>4
  <2>2. m - 1 < m /\ m \in Nat
    OBVIOUS
  <2> HIDE DEF S
  <2> QED BY <1>2, <2>1, <2>2
<1>4. ASSUME NEW i \in 1 .. Len(s) PROVE i <= m <=> expire[s[i]] <= e
  <2>1. CASE i > m
    <3>1. expire[s[i]] > e /\ s[i] \in Clients /\ expire[s[i]] \in Nat
      BY <2>1
    <3> QED BY <2>1, <3>1
  <2>2. CASE i <= m
    <3>1. expire[s[i]] <= expire[s[m]] /\ expire[s[m]] <= e
      BY <1>3, <2>2 DEF Sorted
    <3>2. s[i] \in Clients /\ s[m] \in Clients /\ expire[s[i]] \in Nat /\ expire[s[m]] \in Nat
      BY <2>2
    <3> QED BY <2>2, <3>1, <3>2
  <2> QED BY <2>1, <2>2
<1>5. {i \in DOMAIN s : expire[s[i]] <= e} = 1 .. m
  BY <1>4
<1>6. m \in 0 .. Len(s) /\ Cardinality(1 .. m) = m
  BY FS_Interval
<1> HIDE DEF S
<1> QED BY <1>4, <1>5, <1>6

(* r is s, of n timers, with t behind the first m. *)
Longer(r, s, n, m, t) ==
  /\ n \in Nat /\ m \in 0 .. n /\ t \in Clients
  /\ s \in [1 .. n -> Clients] /\ r \in [1 .. n + 1 -> Clients]
  /\ \A i \in 1 .. n + 1 : r[i] = IF i <= m THEN s[i] ELSE IF i = m + 1 THEN t ELSE s[i - 1]

LEMMA LongerIsDistinct ==
  ASSUME NEW r, NEW s, NEW n, NEW m, NEW t, Longer(r, s, n, m, t), Distinct(s), t \notin ToSet(s)
  PROVE  Distinct(r) /\ ToSet(r) = ToSet(s) \cup {t}
<1>1. n \in Nat /\ m \in 0 .. n /\ DOMAIN s = 1 .. n /\ DOMAIN r = 1 .. n + 1
  BY DEF Longer
<1>2. \A i \in 1 .. n : t # s[i]
  BY <1>1 DEF ToSet
<1>3. \A i, j \in 1 .. n : s[i] = s[j] => i = j
  BY <1>1 DEF Distinct
<1>4. \A i \in 1 .. n + 1 : r[i] = IF i <= m THEN s[i] ELSE IF i = m + 1 THEN t ELSE s[i - 1]
  BY DEF Longer
<1>5. ASSUME NEW i \in 1 .. n + 1, NEW j \in 1 .. n + 1, r[i] = r[j] PROVE i = j
  <2>1. \A k \in 1 .. n + 1 :
          \/ k <= m /\ k \in 1 .. n
          \/ k = m + 1
          \/ k > m + 1 /\ k - 1 \in 1 .. n
    BY <1>1
  <2> QED BY <1>1, <1>2, <1>3, <1>4, <1>5, <2>1
<1>6. \A i \in 1 .. n + 1 : r[i] \in ToSet(s) \cup {t}
  <2>1. \A i \in 1 .. n : s[i] \in ToSet(s)
    BY <1>1 DEF ToSet
  <2> QED BY <1>1, <1>4, <2>1
<1>7. \A i \in 1 .. n + 1 : r[i] \in ToSet(r)
  BY <1>1 DEF ToSet
<1>8. ASSUME NEW i \in 1 .. n PROVE s[i] \in ToSet(r)
  <2>1. CASE i <= m
    <3>1. i \in 1 .. n + 1 /\ r[i] = s[i]
      BY <1>1, <1>4, <2>1
    <3> QED BY <1>7, <3>1
  <2>2. CASE i > m
    <3>1. i + 1 \in 1 .. n + 1 /\ (i + 1) - 1 = i /\ i + 1 > m + 1
      BY <1>1, <2>2
    <3>2. r[i + 1] = s[i]
      BY <1>1, <1>4, <3>1
    <3> QED BY <1>7, <3>1, <3>2
  <2> QED BY <1>1, <2>1, <2>2
<1>9. m + 1 \in 1 .. n + 1 /\ r[m + 1] = t
  BY <1>1, <1>4
<1>10. Distinct(r)
  BY <1>1, <1>5 DEF Distinct
<1>11. \A u \in ToSet(r) : u \in ToSet(s) \cup {t}
  BY <1>1, <1>6 DEF ToSet
<1>12. \A u \in ToSet(s) : u \in ToSet(r)
  BY <1>1, <1>8 DEF ToSet
<1> QED BY <1>7, <1>9, <1>10, <1>11, <1>12

LEMMA LongerIsSorted ==
  ASSUME NEW r, NEW s, NEW n, NEW m, NEW t, Longer(r, s, n, m, t),
         NEW expire \in [Clients -> Nat], Sorted(s, expire),
         \A i \in 1 .. n : i <= m <=> expire[s[i]] <= expire[t]
  PROVE  Sorted(r, expire)
<1>1. n \in Nat /\ m \in 0 .. n /\ DOMAIN s = 1 .. n /\ DOMAIN r = 1 .. n + 1 /\ expire[t] \in Nat
      /\ \A i \in 1 .. n : expire[s[i]] \in Nat
  BY DEF Longer
<1>2. \A i, j \in 1 .. n : i <= j => expire[s[i]] <= expire[s[j]]
  BY <1>1 DEF Sorted
<1>3. \A i \in 1 .. n + 1 : r[i] = IF i <= m THEN s[i] ELSE IF i = m + 1 THEN t ELSE s[i - 1]
  BY DEF Longer
<1>4. ASSUME NEW i \in 1 .. n + 1, NEW j \in 1 .. n + 1, i <= j PROVE expire[r[i]] <= expire[r[j]]
  <2>1. CASE j <= m
    <3>1. i \in 1 .. n /\ j \in 1 .. n /\ i <= m
      BY <1>1, <1>4, <2>1
    <3> QED BY <1>2, <1>3, <1>4, <2>1, <3>1
  <2>2. CASE j = m + 1 /\ i <= m
    <3>1. i \in 1 .. n /\ r[i] = s[i] /\ r[j] = t
      BY <1>1, <1>3, <2>2
    <3> QED BY <2>2, <3>1
  <2>3. CASE j = m + 1 /\ i = m + 1
    BY <1>1, <1>3, <2>3
  <2>4. CASE j > m + 1
    <3>1. j - 1 \in 1 .. n /\ ~(j - 1 <= m) /\ r[j] = s[j - 1]
      BY <1>1, <1>3, <2>4
    <3>2. CASE i <= m
      <4>1. i \in 1 .. n /\ r[i] = s[i] /\ i <= j - 1
        BY <1>1, <1>3, <2>4, <3>2
      <4> QED BY <1>2, <3>1, <4>1
    <3>3. CASE i = m + 1
      <4>1. r[i] = t
        BY <1>1, <1>3, <3>3
      <4>2. expire[s[j - 1]] \in Nat /\ ~(expire[s[j - 1]] <= expire[t])
        BY <1>1, <3>1
      <4> QED BY <1>1, <3>1, <4>1, <4>2
    <3>4. CASE i > m + 1
      <4>1. i - 1 \in 1 .. n /\ r[i] = s[i - 1] /\ i - 1 <= j - 1
        BY <1>1, <1>3, <1>4, <3>4
      <4> QED BY <1>2, <3>1, <4>1
    <3> QED BY <1>1, <3>2, <3>3, <3>4
  <2> QED BY <1>1, <1>4, <2>1, <2>2, <2>3, <2>4
<1> QED BY <1>1, <1>4 DEF Sorted

LEMMA LongerAt ==
  ASSUME NEW r, NEW s, NEW n, NEW m, NEW t, Longer(r, s, n, m, t), NEW i \in 0 .. n + 2
  PROVE  at(r, i) = IF i <= m THEN at(s, i) ELSE IF i = m + 1 THEN t ELSE at(s, i - 1)
<1>1. n \in Nat /\ m \in 0 .. n /\ DOMAIN s = 1 .. n /\ DOMAIN r = 1 .. n + 1
  BY DEF Longer
<1>2. \A k \in 1 .. n + 1 : r[k] = IF k <= m THEN s[k] ELSE IF k = m + 1 THEN t ELSE s[k - 1]
  BY DEF Longer
<1> QED BY <1>1, <1>2 DEF at

(* t is linked in behind the m-th of the n timers of s. *)
Spliced(l, s, n, m, t) ==
  /\ l \in List
  /\ l.head = (IF m = 0 THEN t ELSE at(s, 1))
  /\ l.tail = (IF m = n THEN t ELSE at(s, n))
  /\ l.prev[t] = at(s, m) /\ l.next[t] = at(s, m + 1)
  /\ \A i \in 1 .. n : /\ l.prev[s[i]] = IF i = m + 1 THEN t ELSE at(s, i - 1)
                       /\ l.next[s[i]] = IF i = m THEN t ELSE at(s, i + 1)
  /\ \A u \in Clients \ (ToSet(s) \cup {t}) : l.prev[u] = Null /\ l.next[u] = Null
  /\ Sorted(s, l.expire)
  /\ \A i \in 1 .. n : i <= m <=> l.expire[s[i]] <= l.expire[t]

LEMMA SplicedIsList ==
  ASSUME NEW r, NEW s, NEW n, NEW m, NEW t, Longer(r, s, n, m, t), Len(r) = n + 1,
         NEW l, Spliced(l, s, n, m, t), Distinct(s), t \notin ToSet(s)
  PROVE  Distinct(r) /\ ToSet(r) = ToSet(s) \cup {t} /\ IsList(l, r)
<1>1. /\ n \in Nat /\ m \in 0 .. n /\ DOMAIN r = 1 .. n + 1
      /\ \A i \in 1 .. n + 1 : r[i] = IF i <= m THEN s[i] ELSE IF i = m + 1 THEN t ELSE s[i - 1]
  BY DEF Longer
<1>2. Distinct(r) /\ ToSet(r) = ToSet(s) \cup {t}
  BY LongerIsDistinct
<1>3. Sorted(r, l.expire)
  <2>1. /\ l.expire \in [Clients -> Nat] /\ Sorted(s, l.expire)
        /\ \A i \in 1 .. n : i <= m <=> l.expire[s[i]] <= l.expire[t]
    BY DEF Spliced, List
  <2> QED BY <2>1, LongerIsSorted
<1>4. \A i \in 0 .. n + 2 :
        at(r, i) = IF i <= m THEN at(s, i) ELSE IF i = m + 1 THEN t ELSE at(s, i - 1)
  BY LongerAt
<1>5. l.head = at(r, 1) /\ l.tail = at(r, n + 1)
  <2>1. l.head = (IF m = 0 THEN t ELSE at(s, 1)) /\ l.tail = (IF m = n THEN t ELSE at(s, n))
    BY DEF Spliced
  <2>2. 1 \in 0 .. n + 2 /\ n + 1 \in 0 .. n + 2 /\ (n + 1) - 1 = n
    BY <1>1
  <2>3. at(r, 1) = IF m = 0 THEN t ELSE at(s, 1)
    <3>1. m # 0 => 1 <= m
      BY <1>1
    <3> QED BY <1>1, <1>4, <2>2, <3>1
  <2>4. at(r, n + 1) = IF m = n THEN t ELSE at(s, n)
    <3>1. ~(n + 1 <= m) /\ (n + 1 = m + 1 <=> m = n)
      BY <1>1
    <3> QED BY <1>1, <1>4, <2>2, <3>1
  <2> QED BY <2>1, <2>3, <2>4
<1>6. ASSUME NEW i \in 1 .. n + 1 PROVE l.prev[r[i]] = at(r, i - 1) /\ l.next[r[i]] = at(r, i + 1)
  <2>1. \A k \in 1 .. n : /\ l.prev[s[k]] = IF k = m + 1 THEN t ELSE at(s, k - 1)
                          /\ l.next[s[k]] = IF k = m THEN t ELSE at(s, k + 1)
    BY DEF Spliced
  <2>2. l.prev[t] = at(s, m) /\ l.next[t] = at(s, m + 1)
    BY DEF Spliced
  <2>3. i - 1 \in 0 .. n + 2 /\ i + 1 \in 0 .. n + 2 /\ (i + 1) - 1 = i
    BY <1>1
  <2>4. /\ at(r, i - 1) = IF i - 1 <= m THEN at(s, i - 1) ELSE IF i - 1 = m + 1 THEN t ELSE at(s, (i - 1) - 1)
        /\ at(r, i + 1) = IF i + 1 <= m THEN at(s, i + 1) ELSE IF i + 1 = m + 1 THEN t ELSE at(s, i)
    BY <1>4, <2>3
  <2>5. CASE i <= m
    <3>1. r[i] = s[i] /\ i \in 1 .. n /\ i # m + 1 /\ i - 1 <= m /\ (i + 1 = m + 1 <=> i = m)
          /\ (i # m => i + 1 <= m) /\ (i = m => ~(i + 1 <= m))
      BY <1>1, <2>5
    <3>2. /\ l.prev[s[i]] = at(s, i - 1)
          /\ l.next[s[i]] = IF i = m THEN t ELSE at(s, i + 1)
      BY <2>1, <3>1
    <3> QED BY <2>4, <3>1, <3>2
  <2>6. CASE i = m + 1
    <3>1. r[i] = t /\ i - 1 = m /\ m <= m /\ ~(i + 1 <= m) /\ i + 1 # m + 1
      BY <1>1, <2>6
    <3> QED BY <2>2, <2>4, <2>6, <3>1
  <2>7. CASE i > m + 1
    <3>1. r[i] = s[i - 1] /\ i - 1 \in 1 .. n /\ ~(i - 1 <= m) /\ i - 1 # m
          /\ ~(i + 1 <= m) /\ i + 1 # m + 1 /\ (i - 1) + 1 = i
      BY <1>1, <2>7
    <3>2. /\ l.prev[s[i - 1]] = IF i - 1 = m + 1 THEN t ELSE at(s, (i - 1) - 1)
          /\ l.next[s[i - 1]] = at(s, i)
      BY <2>1, <3>1
    <3> QED BY <2>4, <3>1, <3>2
  <2> QED BY <1>1, <2>5, <2>6, <2>7
<1>7. \A u \in Clients \ ToSet(r) : l.prev[u] = Null /\ l.next[u] = Null
  BY <1>2 DEF Spliced
<1> QED BY <1>1, <1>2, <1>3, <1>5, <1>6, <1>7 DEF IsList

(* s, of n timers, is the list but for t's own pointers. *)
ListBut(l, s, n, t) ==
  /\ l \in List /\ n \in Nat /\ s \in [1 .. n -> Clients] /\ Distinct(s) /\ t \in Clients \ ToSet(s)
  /\ l.head = at(s, 1) /\ l.tail = at(s, n)
  /\ \A i \in 1 .. n : l.prev[s[i]] = at(s, i - 1) /\ l.next[s[i]] = at(s, i + 1)
  /\ \A u \in Clients \ (ToSet(s) \cup {t}) : l.prev[u] = Null /\ l.next[u] = Null
  /\ l.next[t] \in ToSet(s) \cup {Null}
  /\ Sorted(s, l.expire)

(* The first m timers of s expire no later than e. *)
NotLater(l, s, n, m, e) == m \in 0 .. n /\ \A i \in 1 .. n : i <= m <=> l.expire[s[i]] <= e

(* The walk along the list ends at the last timer that expires no later. *)
LEMMA Walk ==
  ASSUME NEW l, NEW s, NEW n, NEW t, ListBut(l, s, n, t), NEW m, NotLater(l, s, n, m, l.expire[t]),
         NEW k \in 1 .. m
  PROVE  last_before(l, t)[s[k]] = s[m]
<1>1. /\ n \in Nat /\ m \in 0 .. n /\ DOMAIN s = 1 .. n /\ l.next \in Links
      /\ l.expire \in [Clients -> Nat] /\ t \in Clients /\ Null \notin Clients
      /\ \A i \in 1 .. n : s[i] \in Clients
  BY NullAssumption DEF ListBut, NotLater, List
<1> DEFINE stop(p) == l.next[p] = Null \/ l.expire[t] < l.expire[l.next[p]]
           F(g) == [p \in Clients |-> IF stop(p) THEN p ELSE g[l.next[p]]]
           pos(p) == CHOOSE i \in 1 .. n : s[i] = p
           end(p) == s[IF pos(p) < m THEN m ELSE pos(p)]
           g0 == [p \in Clients |-> IF p \in ToSet(s) THEN end(p)
                                   ELSE IF stop(p) THEN p ELSE end(l.next[p])]
<1>2. last_before(l, t) = CHOOSE g : g = F(g)
  BY DEF last_before
<1>3. \A i \in 1 .. n : l.next[s[i]] = IF i < n THEN s[i + 1] ELSE Null
  <2>1. \A i \in 1 .. n : l.next[s[i]] = at(s, i + 1)
    BY DEF ListBut
  <2> QED BY <1>1, <2>1 DEF at
<1>4. \A i \in 1 .. n : stop(s[i]) <=> i >= m
  <2> SUFFICES ASSUME NEW i \in 1 .. n PROVE stop(s[i]) <=> i >= m
    OBVIOUS
  <2>1. CASE i = n
    BY <1>1, <1>3, <2>1
  <2>2. CASE i < n
    <3>1. i + 1 \in 1 .. n /\ s[i + 1] \in Clients /\ s[i + 1] # Null /\ l.next[s[i]] = s[i + 1]
      BY <1>1, <1>3, <2>2
    <3>2. i + 1 <= m <=> l.expire[s[i + 1]] <= l.expire[t]
      BY <3>1 DEF NotLater
    <3>3. l.expire[t] < l.expire[s[i + 1]] <=> ~(i + 1 <= m)
      BY <1>1, <3>1, <3>2
    <3> QED BY <1>1, <3>1, <3>3
  <2> QED BY <1>1, <2>1, <2>2
<1>5. \A p : p \in ToSet(s) <=> \E i \in 1 .. n : p = s[i]
  BY <1>1 DEF ToSet
<1>6. \A i \in 1 .. n : pos(s[i]) = i
  BY <1>1 DEF ListBut, Distinct
<1>7. \A i \in 1 .. n : end(s[i]) = s[IF i < m THEN m ELSE i]
  BY <1>6
<1>8. ASSUME NEW p \in Clients PROVE g0[p] = IF stop(p) THEN p ELSE g0[l.next[p]]
  <2>1. ASSUME NEW i \in 1 .. n, p = s[i] PROVE g0[p] = IF stop(p) THEN p ELSE g0[l.next[p]]
    <3>1. g0[p] = s[IF i < m THEN m ELSE i]
      <4>1. p \in ToSet(s)
        BY <1>5, <2>1
      <4> HIDE DEF end
      <4> QED BY <1>7, <2>1, <4>1
    <3>2. CASE i >= m
      <4>1. stop(p) /\ ~(i < m)
        BY <1>1, <1>4, <2>1, <3>2
      <4> QED BY <2>1, <3>1, <4>1
    <3>3. CASE i < m
      <4>1. ~stop(p) /\ i + 1 \in 1 .. n /\ l.next[p] = s[i + 1] /\ s[i + 1] \in Clients
        BY <1>1, <1>3, <1>4, <2>1, <3>3
      <4>2. g0[s[i + 1]] = s[IF i + 1 < m THEN m ELSE i + 1]
        <5>1. s[i + 1] \in ToSet(s)
          BY <1>5, <4>1
        <5> HIDE DEF end
        <5> QED BY <1>7, <4>1, <5>1
      <4>3. ~(i + 1 < m) => i + 1 = m
        BY <1>1, <3>3
      <4> HIDE DEF g0, stop
      <4> QED BY <3>1, <3>3, <4>1, <4>2, <4>3
    <3> QED BY <1>1, <3>2, <3>3
  <2>2. CASE p \notin ToSet(s) /\ stop(p)
    BY <2>2
  <2>3. CASE p \notin ToSet(s) /\ ~stop(p)
    <3>1. l.next[p] # Null
      BY <2>3
    <3>2. p = t /\ l.next[t] \in ToSet(s)
      BY <2>3, <3>1 DEF ListBut
    <3>3. l.next[p] \in Clients
      BY <1>1, <1>5, <3>2
    <3>4. g0[l.next[p]] = end(l.next[p])
      <4> HIDE DEF end
      <4> QED BY <3>2, <3>3
    <3>5. g0[p] = end(l.next[p])
      <4> HIDE DEF end
      <4> QED BY <2>3
    <3> QED BY <2>3, <3>4, <3>5
  <2> QED BY <1>5, <2>1, <2>2, <2>3
<1> DEFINE h == last_before(l, t)
<1>9. h = F(h)
  <2>1. g0 = [p \in Clients |-> g0[p]]
    OBVIOUS
  <2>2. [p \in Clients |-> g0[p]] = [p \in Clients |-> IF stop(p) THEN p ELSE g0[l.next[p]]]
    <3> HIDE DEF stop, g0
    <3> QED BY <1>8
  <2>3. g0 = F(g0)
    <3> HIDE DEF stop, g0
    <3> QED BY <2>1, <2>2
  <2> HIDE DEF F, g0
  <2> QED BY <1>2, <2>3
<1>10. \A i \in 1 .. n : h[s[i]] = IF i >= m THEN s[i] ELSE h[s[i + 1]]
  <2> SUFFICES ASSUME NEW i \in 1 .. n PROVE h[s[i]] = IF i >= m THEN s[i] ELSE h[s[i + 1]]
    OBVIOUS
  <2>1. h[s[i]] = IF stop(s[i]) THEN s[i] ELSE h[l.next[s[i]]]
    <3> HIDE DEF stop, h
    <3> QED BY <1>1, <1>9
  <2>2. i < m => l.next[s[i]] = s[i + 1]
    BY <1>1, <1>3
  <2>3. i < m <=> ~(i >= m)
    BY <1>1
  <2> HIDE DEF stop, h
  <2> QED BY <1>4, <2>1, <2>2, <2>3
<1> DEFINE S == {i \in 0 .. m : i > 0 => h[s[i]] = s[m]}
<1>11. m \in Nat /\ m \in S
  <2>1. m > 0 => m \in 1 .. n /\ m >= m
    BY <1>1
  <2> HIDE DEF h
  <2> QED BY <1>1, <1>10, <2>1
<1>12. ASSUME NEW i \in 0 .. m - 1, i + 1 \in S PROVE i \in S
  <2>1. i > 0 => i \in 1 .. n /\ ~(i >= m)
    BY <1>1
  <2>2. i + 1 > 0 /\ i \in 0 .. m
    BY <1>1
  <2> HIDE DEF h
  <2> QED BY <1>10, <1>12, <2>1, <2>2
<1>13. \A i \in 0 .. m : i \in S
  <2> HIDE DEF S
  <2> QED BY <1>11, <1>12, AllNumbersDownFrom
<1>14. k \in 0 .. m /\ k > 0
  BY <1>1
<1> HIDE DEF h
<1>15. h[s[k]] = s[m]
  BY <1>13, <1>14
<1> QED BY <1>15 DEF h

(* The private overload links t in there. *)
LEMMA AddBehind ==
  ASSUME NEW l, NEW s, NEW n, NEW t, ListBut(l, s, n, t), NEW m, NotLater(l, s, n, m, l.expire[t]),
         NEW k \in 1 .. m
  PROVE  Spliced(add_timer_behind(l, t, s[k]), s, n, m, t)
<1> DEFINE tmp == l.next[s[m]]
           l1 == [l EXCEPT !.next[s[m]] = t, !.next[t] = tmp, !.prev[t] = s[m]]
           l2 == IF tmp = Null THEN [l1 EXCEPT !.tail = t] ELSE [l1 EXCEPT !.prev[tmp] = t]
<1>1. /\ n \in Nat /\ m \in 1 .. n /\ DOMAIN s = 1 .. n /\ t \in Clients /\ Null \notin Clients
      /\ \A i \in 1 .. n : s[i] \in Clients /\ s[i] # t /\ s[i] \in ToSet(s)
      /\ \A i, j \in 1 .. n : s[i] = s[j] => i = j
  BY NullAssumption DEF ListBut, NotLater, Distinct, ToSet
<1>2. last_before(l, t)[s[k]] = s[m]
  BY Walk
<1>3. add_timer_behind(l, t, s[k]) = l2
  BY <1>2, Zenon DEF add_timer_behind
<1>4. l \in List /\ l.next \in Links /\ l.prev \in Links /\ l.expire \in [Clients -> Nat]
  BY DEF ListBut, List
<1>5. tmp = at(s, m + 1) /\ (m < n => tmp = s[m + 1] /\ tmp \in Clients /\ tmp # t) /\ (m = n <=> tmp = Null)
  <2>1. tmp = at(s, m + 1)
    BY <1>1 DEF ListBut
  <2> HIDE DEF tmp
  <2> QED BY <1>1, <2>1 DEF at
<1> HIDE DEF tmp
<1>6. /\ l1 \in List /\ l1.head = l.head /\ l1.tail = l.tail /\ l1.expire = l.expire
      /\ l1.next = [l.next EXCEPT ![s[m]] = t, ![t] = tmp] /\ l1.prev = [l.prev EXCEPT ![t] = s[m]]
  <2>1. s[m] \in Clients /\ tmp \in Clients \cup {Null}
    BY <1>1, <1>5
  <2> QED BY <1>1, <1>4, <2>1 DEF List, Links
<1> HIDE DEF l1
<1>7. /\ l2 \in List /\ l2.head = l.head /\ l2.expire = l.expire /\ l2.next = l1.next
      /\ l2.tail = (IF m = n THEN t ELSE l.tail)
      /\ l2.prev = IF m = n THEN l1.prev ELSE [l1.prev EXCEPT ![tmp] = t]
  BY <1>1, <1>5, <1>6 DEF List, Links
<1> HIDE DEF l2
<1>8. /\ l2.next[t] = tmp /\ l2.next[s[m]] = t
      /\ \A u \in Clients : u # t /\ u # s[m] => l2.next[u] = l.next[u]
  BY <1>1, <1>4, <1>6, <1>7 DEF Links
<1>9. /\ l2.prev[t] = s[m] /\ (m < n => l2.prev[tmp] = t)
      /\ \A u \in Clients : u # t /\ u # tmp => l2.prev[u] = l.prev[u]
  BY <1>1, <1>4, <1>5, <1>6, <1>7 DEF Links
<1>10. ASSUME NEW i \in 1 .. n
       PROVE  /\ l2.prev[s[i]] = IF i = m + 1 THEN t ELSE at(s, i - 1)
              /\ l2.next[s[i]] = IF i = m THEN t ELSE at(s, i + 1)
  <2>1. l.prev[s[i]] = at(s, i - 1) /\ l.next[s[i]] = at(s, i + 1)
    BY DEF ListBut
  <2>2. i = m + 1 <=> s[i] = tmp
    BY <1>1, <1>5
  <2>3. i = m + 1 => m < n
    BY <1>1
  <2>4. i = m <=> s[i] = s[m]
    BY <1>1
  <2> QED BY <1>1, <1>8, <1>9, <2>1, <2>2, <2>3, <2>4
<1>11. ASSUME NEW u \in Clients \ (ToSet(s) \cup {t}) PROVE l2.prev[u] = Null /\ l2.next[u] = Null
  <2>1. u # t /\ u # s[m] /\ u # tmp
    BY <1>1, <1>5
  <2>2. l.prev[u] = Null /\ l.next[u] = Null
    BY DEF ListBut
  <2> QED BY <1>8, <1>9, <2>1, <2>2
<1>12. l2.head = at(s, 1) /\ l2.tail = (IF m = n THEN t ELSE at(s, n)) /\ m # 0
  BY <1>1, <1>7 DEF ListBut
<1>13. l2.prev[t] = at(s, m) /\ l2.next[t] = at(s, m + 1)
  BY <1>1, <1>5, <1>8, <1>9 DEF at
<1>14. Sorted(s, l2.expire) /\ \A i \in 1 .. n : i <= m <=> l2.expire[s[i]] <= l2.expire[t]
  BY <1>7 DEF ListBut, NotLater
<1> QED BY <1>3, <1>7, <1>10, <1>11, <1>12, <1>13, <1>14 DEF Spliced

LEMMA InsertedIsLonger ==
  ASSUME NEW s \in Seq(Clients), NEW expire \in [Clients -> Nat], Sorted(s, expire), NEW t \in Clients
  PROVE  \E m \in 0 .. Len(s) :
           /\ Longer(Inserted(s, expire, t), s, Len(s), m, t)
           /\ Inserted(s, expire, t) \in Seq(Clients) /\ Len(Inserted(s, expire, t)) = Len(s) + 1
           /\ \A i \in 1 .. Len(s) : i <= m <=> expire[s[i]] <= expire[t]
<1>1. expire[t] \in Nat
  OBVIOUS
<1>2. PICK m \in 0 .. Len(s) :
        /\ \A i \in 1 .. Len(s) : i <= m <=> expire[s[i]] <= expire[t]
        /\ Cardinality({i \in DOMAIN s : expire[s[i]] <= expire[t]}) = m
  BY <1>1, Prefix
<1>3. Inserted(s, expire, t) = InsertAt(s, m + 1, t)
  BY <1>2 DEF Inserted
<1> DEFINE r == Inserted(s, expire, t)
<1>4. /\ r \in Seq(Clients) /\ Len(r) = Len(s) + 1
      /\ \A i \in 1 .. m : r[i] = s[i]
      /\ r[m + 1] = t
      /\ \A i \in m + 2 .. Len(s) + 1 : r[i] = s[i - 1]
  <2>1. LET q == InsertAt(s, m + 1, t)
        IN  /\ q \in Seq(Clients) /\ Len(q) = Len(s) + 1
            /\ \A i \in 1 .. m : q[i] = s[i]
            /\ q[m + 1] = t
            /\ \A i \in m + 2 .. Len(s) + 1 : q[i] = s[i - 1]
    BY InsertedShape
  <2> QED BY <1>3, <2>1, Zenon
<1> HIDE DEF r
<1>5. Len(s) \in Nat /\ s \in [1 .. Len(s) -> Clients] /\ r \in [1 .. Len(s) + 1 -> Clients]
  BY <1>4
<1>6. ASSUME NEW i \in 1 .. Len(s) + 1
      PROVE  r[i] = IF i <= m THEN s[i] ELSE IF i = m + 1 THEN t ELSE s[i - 1]
  <2>1. /\ i <= m => i \in 1 .. m
        /\ ~(i <= m) /\ i # m + 1 => i \in m + 2 .. Len(s) + 1
    BY <1>5
  <2> QED BY <1>4, <2>1
<1>7. Longer(r, s, Len(s), m, t)
  BY <1>5, <1>6 DEF Longer
<1> QED BY <1>2, <1>4, <1>7 DEF r

(* l is the sorted list s of different timers. *)
Represents(l, s) == l \in List /\ s \in Seq(Clients) /\ Distinct(s) /\ IsList(l, s)

(* A timer that is not in the list may be put into it. *)
LEMMA ListIsListBut ==
  ASSUME NEW l, NEW s, Represents(l, s), NEW t \in Clients \ ToSet(s)
  PROVE  ListBut(l, s, Len(s), t) /\ l.prev[t] = Null /\ l.next[t] = Null
<1>1. Len(s) \in Nat /\ s \in [1 .. Len(s) -> Clients] /\ DOMAIN s = 1 .. Len(s)
  BY DEF Represents
<1> QED BY <1>1 DEF Represents, ListBut, IsList

LEMMA SplicedIsInserted ==
  ASSUME NEW l, NEW s \in Seq(Clients), NEW t \in Clients, NEW m, Distinct(s), t \notin ToSet(s),
         Spliced(l, s, Len(s), m, t), NEW r \in Seq(Clients), Longer(r, s, Len(s), m, t),
         Len(r) = Len(s) + 1
  PROVE  Represents(l, r) /\ ToSet(r) = ToSet(s) \cup {t}
BY SplicedIsList DEF Represents, Spliced

(* add_timer puts t at its place, and touches no timer's time or data. *)
LEMMA AddTimer ==
  ASSUME NEW l, NEW s, Represents(l, s), NEW t \in Clients \ ToSet(s)
  PROVE  LET l1 == add_timer(l, t)
             r  == Inserted(s, l.expire, t)
         IN  /\ Represents(l1, r) /\ ToSet(r) = ToSet(s) \cup {t}
<1> DEFINE n == Len(s)
           r == Inserted(s, l.expire, t)
<1>1. /\ l \in List /\ s \in Seq(Clients) /\ n \in Nat /\ DOMAIN s = 1 .. n /\ Distinct(s)
      /\ l.expire \in [Clients -> Nat] /\ l.next \in Links /\ l.prev \in Links
      /\ Sorted(s, l.expire) /\ l.head = at(s, 1) /\ l.tail = at(s, n)
      /\ Null \notin Clients /\ \A i \in 1 .. n : s[i] \in Clients
  BY NullAssumption DEF Represents, IsList, List
<1>2. ListBut(l, s, n, t) /\ l.prev[t] = Null /\ l.next[t] = Null
  BY ListIsListBut
<1>3. PICK m \in 0 .. n :
        /\ Longer(r, s, n, m, t) /\ r \in Seq(Clients) /\ Len(r) = n + 1
        /\ \A i \in 1 .. n : i <= m <=> l.expire[s[i]] <= l.expire[t]
  BY <1>1, InsertedIsLonger
<1> HIDE DEF r
<1>4. ASSUME Spliced(add_timer(l, t), s, n, m, t)
      PROVE  Represents(add_timer(l, t), r) /\ ToSet(r) = ToSet(s) \cup {t}
  <2>1. s \in Seq(Clients) /\ Distinct(s) /\ t \in Clients /\ t \notin ToSet(s)
    BY <1>1
  <2>2. r \in Seq(Clients) /\ Longer(r, s, Len(s), m, t) /\ Len(r) = Len(s) + 1
    BY <1>3
  <2>3. Spliced(add_timer(l, t), s, Len(s), m, t)
    BY <1>4
  <2> QED BY <2>1, <2>2, <2>3, SplicedIsInserted
<1>5. NotLater(l, s, n, m, l.expire[t])
  BY <1>3 DEF NotLater
<1>6. ASSUME n = 0 PROVE Spliced(add_timer(l, t), s, n, m, t)
  <2>1. l.head = Null /\ l.tail = Null /\ m = 0
    BY <1>1, <1>6 DEF at
  <2>2. add_timer(l, t) = [l EXCEPT !.head = t, !.tail = t]
    BY <2>1, Zenon DEF add_timer
  <2> DEFINE l1 == [l EXCEPT !.head = t, !.tail = t]
  <2>3. l1 \in List /\ l1.head = t /\ l1.tail = t /\ l1.next = l.next /\ l1.prev = l.prev /\ l1.expire = l.expire
    BY <1>1 DEF List
  <2> HIDE DEF l1
  <2>4. Spliced(l1, s, n, m, t)
    BY <1>1, <1>2, <1>3, <1>6, <2>1, <2>3 DEF Spliced, ListBut, at
  <2> QED BY <2>2, <2>4 DEF l1
<1>7. ASSUME n > 0, m = 0 PROVE Spliced(add_timer(l, t), s, n, m, t)
  <2>1. l.head = s[1] /\ s[1] \in Clients /\ s[1] # Null /\ 1 \in 1 .. n /\ s[1] \in ToSet(s)
    BY <1>1, <1>7 DEF at, ToSet
  <2>2. l.expire[t] < l.expire[s[1]]
    <3>1. ~(l.expire[s[1]] <= l.expire[t])
      BY <1>3, <1>7, <2>1
    <3> QED BY <1>1, <2>1, <3>1
  <2> DEFINE l1 == [l EXCEPT !.next[t] = s[1], !.prev[s[1]] = t, !.head = t]
  <2>3. add_timer(l, t) = l1
    BY <2>1, <2>2, Zenon DEF add_timer
  <2>4. /\ l1 \in List /\ l1.head = t /\ l1.tail = l.tail /\ l1.expire = l.expire
        /\ l1.next = [l.next EXCEPT ![t] = s[1]] /\ l1.prev = [l.prev EXCEPT ![s[1]] = t]
    BY <1>1, <2>1 DEF List, Links
  <2> HIDE DEF l1
  <2>5. /\ l1.next[t] = s[1] /\ \A u \in Clients : u # t => l1.next[u] = l.next[u]
        /\ l1.prev[s[1]] = t /\ \A u \in Clients : u # s[1] => l1.prev[u] = l.prev[u]
    BY <1>1, <2>1, <2>4 DEF Links
  <2>6. /\ \A i \in 1 .. n : s[i] # t /\ s[i] \in ToSet(s) /\ (s[i] = s[1] <=> i = 1)
        /\ t # s[1] /\ at(s, 0) = Null /\ at(s, 1) = s[1]
    BY <1>1, <2>1 DEF ToSet, Distinct, at
  <2>7. ASSUME NEW i \in 1 .. n
        PROVE  /\ l1.prev[s[i]] = IF i = m + 1 THEN t ELSE at(s, i - 1)
               /\ l1.next[s[i]] = IF i = m THEN t ELSE at(s, i + 1)
    <3>1. l.prev[s[i]] = at(s, i - 1) /\ l.next[s[i]] = at(s, i + 1)
      BY <1>2 DEF ListBut
    <3> QED BY <1>1, <1>7, <2>5, <2>6, <3>1
  <2>8. \A u \in Clients \ (ToSet(s) \cup {t}) : l1.prev[u] = Null /\ l1.next[u] = Null
    <3>1. \A u \in Clients \ (ToSet(s) \cup {t}) : l.prev[u] = Null /\ l.next[u] = Null
      BY <1>2 DEF ListBut
    <3> QED BY <2>1, <2>5, <3>1
  <2>9. l1.prev[t] = at(s, m) /\ l1.next[t] = at(s, m + 1)
    BY <1>2, <1>7, <2>5, <2>6
  <2>10. Spliced(l1, s, n, m, t)
    BY <1>1, <1>3, <1>7, <2>4, <2>7, <2>8, <2>9 DEF Spliced
  <2> QED BY <2>3, <2>10
<1>8. ASSUME n > 0, m > 0 PROVE Spliced(add_timer(l, t), s, n, m, t)
  <2>1. l.head = s[1] /\ s[1] \in Clients /\ s[1] # Null /\ 1 \in 1 .. n /\ 1 \in 1 .. m
    BY <1>1, <1>8 DEF at
  <2>2. ~(l.expire[t] < l.expire[s[1]])
    <3>1. l.expire[s[1]] <= l.expire[t]
      BY <1>3, <1>8, <2>1
    <3> QED BY <1>1, <2>1, <3>1
  <2>3. add_timer(l, t) = add_timer_behind(l, t, s[1])
    BY <2>1, <2>2, Zenon DEF add_timer
  <2> QED BY <1>2, <1>5, <2>1, <2>3, AddBehind
<1>9. Spliced(add_timer(l, t), s, n, m, t)
  BY <1>1, <1>3, <1>6, <1>7, <1>8
<1> QED BY <1>4, <1>9 DEF r

(* The list without the timer at position k. *)
LEMMA RemovedIsShorter ==
  ASSUME NEW r \in Seq(Clients), NEW k \in 1 .. Len(r)
  PROVE  /\ RemoveAt(r, k) \in Seq(Clients) /\ Len(RemoveAt(r, k)) = Len(r) - 1
         /\ Longer(r, RemoveAt(r, k), Len(r) - 1, k - 1, r[k])
<1> DEFINE s == RemoveAt(r, k)
<1>1. /\ s \in Seq(Clients) /\ Len(s) = Len(r) - 1
      /\ \A i \in 1 .. k - 1 : s[i] = r[i]
      /\ \A i \in k .. Len(r) - 1 : s[i] = r[i + 1]
  <2>1. LET q == RemoveAt(r, k)
        IN  /\ q \in Seq(Clients) /\ Len(q) = Len(r) - 1
            /\ \A i \in 1 .. k - 1 : q[i] = r[i]
            /\ \A i \in k .. Len(r) - 1 : q[i] = r[i + 1]
    BY RemovedShape
  <2> QED BY <2>1, Zenon
<1> HIDE DEF s
<1>2. /\ Len(r) \in Nat /\ Len(r) >= 1 /\ (Len(r) - 1) + 1 = Len(r) /\ Len(r) - 1 \in Nat
      /\ k - 1 \in 0 .. Len(r) - 1 /\ r[k] \in Clients
      /\ s \in [1 .. Len(r) - 1 -> Clients] /\ r \in [1 .. Len(r) -> Clients]
  BY <1>1
<1>3. ASSUME NEW i \in 1 .. Len(r)
      PROVE  r[i] = IF i <= k - 1 THEN s[i] ELSE IF i = (k - 1) + 1 THEN r[k] ELSE s[i - 1]
  <2>1. CASE i <= k - 1
    <3>1. i \in 1 .. k - 1
      BY <1>2, <2>1
    <3> QED BY <1>1, <2>1, <3>1
  <2>2. CASE i = k
    BY <1>2, <2>2
  <2>3. CASE i > k
    <3>1. i - 1 \in k .. Len(r) - 1 /\ (i - 1) + 1 = i /\ ~(i <= k - 1) /\ i # (k - 1) + 1
      BY <1>2, <2>3
    <3> QED BY <1>1, <3>1
  <2> QED BY <1>2, <2>1, <2>2, <2>3
<1>4. Longer(r, s, Len(r) - 1, k - 1, r[k])
  BY <1>2, <1>3 DEF Longer
<1> QED BY <1>1, <1>4 DEF s

LEMMA ShorterAt ==
  ASSUME NEW r, NEW s, NEW n, NEW m, NEW t, Longer(r, s, n, m, t)
  PROVE  /\ \A i \in 0 .. n + 1 : at(s, i) = IF i <= m THEN at(r, i) ELSE at(r, i + 1)
         /\ at(r, m + 1) = t /\ r[m + 1] = t
         /\ \A i \in 1 .. n : s[i] = IF i <= m THEN r[i] ELSE r[i + 1]
<1>1. n \in Nat /\ m \in 0 .. n /\ DOMAIN s = 1 .. n /\ DOMAIN r = 1 .. n + 1
  BY DEF Longer
<1>2. \A k \in 1 .. n + 1 : r[k] = IF k <= m THEN s[k] ELSE IF k = m + 1 THEN t ELSE s[k - 1]
  BY DEF Longer
<1>3. ASSUME NEW i \in 1 .. n PROVE s[i] = IF i <= m THEN r[i] ELSE r[i + 1]
  <2>1. i \in 1 .. n + 1 /\ i + 1 \in 1 .. n + 1 /\ (i + 1) - 1 = i /\ (~(i <= m) => ~(i + 1 <= m) /\ i + 1 # m + 1)
    BY <1>1
  <2> QED BY <1>1, <1>2, <2>1
<1>4. m + 1 \in 1 .. n + 1 /\ ~(m + 1 <= m)
  BY <1>1
<1>5. ASSUME NEW i \in 0 .. n + 1 PROVE at(s, i) = IF i <= m THEN at(r, i) ELSE at(r, i + 1)
  <2>1. CASE i \in 1 .. n
    <3>1. i \in 1 .. n + 1 /\ i + 1 \in 1 .. n + 1
      BY <1>1, <2>1
    <3> QED BY <1>1, <1>3, <2>1, <3>1 DEF at
  <2>2. CASE i = 0
    <3>1. 0 <= m /\ 0 \notin 1 .. n /\ 0 \notin 1 .. n + 1
      BY <1>1
    <3> QED BY <1>1, <2>2, <3>1 DEF at
  <2>3. CASE i = n + 1
    <3>1. ~(n + 1 <= m) /\ n + 1 \notin 1 .. n /\ (n + 1) + 1 \notin 1 .. n + 1
      BY <1>1
    <3> QED BY <1>1, <2>3, <3>1 DEF at
  <2> QED BY <1>1, <2>1, <2>2, <2>3
<1> QED BY <1>1, <1>2, <1>3, <1>4, <1>5 DEF at

LEMMA ShorterIsDistinct ==
  ASSUME NEW r, NEW s, NEW n, NEW m, NEW t, Longer(r, s, n, m, t), Distinct(r)
  PROVE  Distinct(s) /\ t \notin ToSet(s) /\ ToSet(r) = ToSet(s) \cup {t}
<1>1. n \in Nat /\ m \in 0 .. n /\ DOMAIN s = 1 .. n /\ DOMAIN r = 1 .. n + 1
  BY DEF Longer
<1>2. r[m + 1] = t /\ \A i \in 1 .. n : s[i] = IF i <= m THEN r[i] ELSE r[i + 1]
  BY ShorterAt
<1>3. \A i, j \in 1 .. n + 1 : r[i] = r[j] => i = j
  BY <1>1 DEF Distinct
<1>4. \A i \in 1 .. n : i \in 1 .. n + 1 /\ i + 1 \in 1 .. n + 1 /\ (i <= m => i # m + 1) /\ (~(i <= m) => i + 1 # m + 1)
  BY <1>1
<1>5. Distinct(s)
  <2> SUFFICES ASSUME NEW i \in 1 .. n, NEW j \in 1 .. n, s[i] = s[j] PROVE i = j
    BY <1>1 DEF Distinct
  <2> QED BY <1>1, <1>2, <1>3, <1>4
<1>6. \A i \in 1 .. n : s[i] # t
  <2>1. m + 1 \in 1 .. n + 1
    BY <1>1
  <2> QED BY <1>2, <1>3, <1>4, <2>1
<1>7. t \notin ToSet(s)
  BY <1>1, <1>6 DEF ToSet
<1> QED BY <1>5, <1>7, LongerIsDistinct

(* The first m timers of s expire no later than t, and the others no earlier. *)
Around(s, n, m, expire, t) ==
  \A i \in 1 .. n : /\ i <= m => expire[s[i]] <= expire[t]
                    /\ i > m => expire[t] <= expire[s[i]]

LEMMA ShorterIsSorted ==
  ASSUME NEW r, NEW s, NEW n, NEW m, NEW t, Longer(r, s, n, m, t), NEW expire, Sorted(r, expire)
  PROVE  Sorted(s, expire) /\ Around(s, n, m, expire, t)
<1>1. n \in Nat /\ m \in 0 .. n /\ DOMAIN s = 1 .. n /\ DOMAIN r = 1 .. n + 1
  BY DEF Longer
<1>2. r[m + 1] = t /\ \A i \in 1 .. n : s[i] = IF i <= m THEN r[i] ELSE r[i + 1]
  BY ShorterAt
<1>3. \A i, j \in 1 .. n + 1 : i <= j => expire[r[i]] <= expire[r[j]]
  BY <1>1 DEF Sorted
<1>4. \A i \in 1 .. n : i \in 1 .. n + 1 /\ i + 1 \in 1 .. n + 1 /\ m + 1 \in 1 .. n + 1
  BY <1>1
<1>5. ASSUME NEW i \in 1 .. n, NEW j \in 1 .. n, i <= j PROVE expire[s[i]] <= expire[s[j]]
  <2>1. CASE j <= m
    <3>1. i <= m
      BY <1>1, <1>5, <2>1
    <3> QED BY <1>2, <1>3, <1>4, <1>5, <2>1, <3>1
  <2>2. CASE i <= m /\ ~(j <= m)
    <3>1. i <= j + 1
      BY <1>5
    <3> QED BY <1>2, <1>3, <1>4, <2>2, <3>1
  <2>3. CASE ~(i <= m) /\ ~(j <= m)
    <3>1. i + 1 <= j + 1
      BY <1>5
    <3> QED BY <1>2, <1>3, <1>4, <2>3, <3>1
  <2> QED BY <1>5, <2>1, <2>2, <2>3, <1>1
<1>6. ASSUME NEW i \in 1 .. n
      PROVE  /\ i <= m => expire[s[i]] <= expire[t]
             /\ i > m => expire[t] <= expire[s[i]]
  <2>1. CASE i <= m
    <3>1. i <= m + 1 /\ ~(i > m)
      BY <1>1, <2>1
    <3> QED BY <1>2, <1>3, <1>4, <2>1, <3>1
  <2>2. CASE i > m
    <3>1. m + 1 <= i + 1 /\ ~(i <= m)
      BY <1>1, <2>2
    <3> QED BY <1>2, <1>3, <1>4, <2>2, <3>1
  <2> QED BY <1>1, <2>1, <2>2
<1> QED BY <1>1, <1>5, <1>6 DEF Sorted, Around

(* l1 is l with the neighbours of t linked to each other; t itself may point
   anywhere, but onwards only where it did. *)
Cut(l1, l, m, n, t) ==
  /\ l1 \in List
  /\ l1.head = (IF m = 0 THEN l.next[t] ELSE l.head)
  /\ l1.tail = (IF m = n THEN l.prev[t] ELSE l.tail)
  /\ \A u \in Clients \ {t} :
       /\ l1.next[u] = IF u = l.prev[t] THEN l.next[t] ELSE l.next[u]
       /\ l1.prev[u] = IF u = l.next[t] THEN l.prev[t] ELSE l.prev[u]
       /\ l1.expire[u] = l.expire[u]
  /\ l1.next[t] \in {Null, l.next[t]}

LEMMA CutIsListBut ==
  ASSUME NEW l, NEW r, Represents(l, r), NEW s, NEW n, NEW m, NEW t, Longer(r, s, n, m, t),
         Len(r) = n + 1, NEW l1, Cut(l1, l, m, n, t)
  PROVE  ListBut(l1, s, n, t)
<1>1. /\ n \in Nat /\ m \in 0 .. n /\ DOMAIN s = 1 .. n /\ DOMAIN r = 1 .. n + 1 /\ t \in Clients
      /\ s \in [1 .. n -> Clients] /\ Null \notin Clients
  BY NullAssumption DEF Longer
<1>2. Distinct(s) /\ t \notin ToSet(s) /\ ToSet(r) = ToSet(s) \cup {t}
  BY ShorterIsDistinct DEF Represents
<1>3. /\ \A i \in 0 .. n + 1 : at(s, i) = IF i <= m THEN at(r, i) ELSE at(r, i + 1)
      /\ at(r, m + 1) = t /\ r[m + 1] = t
      /\ \A i \in 1 .. n : s[i] = IF i <= m THEN r[i] ELSE r[i + 1]
  BY ShorterAt
<1>4. /\ l.head = at(r, 1) /\ l.tail = at(r, n + 1)
      /\ \A i \in 1 .. n + 1 : l.prev[r[i]] = at(r, i - 1) /\ l.next[r[i]] = at(r, i + 1)
      /\ \A u \in Clients \ ToSet(r) : l.prev[u] = Null /\ l.next[u] = Null
      /\ Sorted(r, l.expire)
  BY <1>1 DEF Represents, IsList
<1>5. l.prev[t] = at(r, m) /\ l.next[t] = at(r, m + 2)
  <2>1. m + 1 \in 1 .. n + 1 /\ (m + 1) - 1 = m /\ (m + 1) + 1 = m + 2
    BY <1>1
  <2> QED BY <1>3, <1>4, <2>1
<1>6. at(s, m) = at(r, m) /\ at(s, m + 1) = at(r, m + 2)
  <2>1. m \in 0 .. n + 1 /\ m + 1 \in 0 .. n + 1 /\ m <= m /\ ~(m + 1 <= m) /\ (m + 1) + 1 = m + 2
    BY <1>1
  <2> QED BY <1>3, <2>1
<1>7. l1.head = at(s, 1)
  <2>1. 1 \in 0 .. n + 1 /\ (1 <= m <=> m # 0)
    BY <1>1
  <2>2. at(s, 1) = IF m # 0 THEN at(r, 1) ELSE at(r, 2)
    BY <1>3, <2>1
  <2> QED BY <1>4, <1>5, <2>2 DEF Cut
<1>8. l1.tail = at(s, n)
  <2>1. n \in 0 .. n + 1 /\ (n <= m <=> m = n)
    BY <1>1
  <2>2. at(s, n) = IF m = n THEN at(r, n) ELSE at(r, n + 1)
    BY <1>3, <2>1
  <2> QED BY <1>4, <1>5, <2>2 DEF Cut
<1>9. \A i \in 1 .. n : s[i] \in Clients \ {t} /\ s[i] \in ToSet(s)
  BY <1>1, <1>2 DEF ToSet
<1>10. \A i, j \in 1 .. n : s[i] = s[j] => i = j
  BY <1>1, <1>2 DEF Distinct
<1>11. ASSUME NEW i \in 1 .. n PROVE l1.prev[s[i]] = at(s, i - 1) /\ l1.next[s[i]] = at(s, i + 1)
  <2>1. /\ l1.next[s[i]] = IF s[i] = at(s, m) THEN at(s, m + 1) ELSE l.next[s[i]]
        /\ l1.prev[s[i]] = IF s[i] = at(s, m + 1) THEN at(s, m) ELSE l.prev[s[i]]
    BY <1>5, <1>6, <1>9 DEF Cut
  <2>2. (s[i] = at(s, m) <=> i = m) /\ (s[i] = at(s, m + 1) <=> i = m + 1)
    BY <1>1, <1>9, <1>10 DEF at
  <2>3. i - 1 \in 0 .. n + 1 /\ i + 1 \in 0 .. n + 1 /\ i \in 1 .. n + 1 /\ i + 1 \in 1 .. n + 1
        /\ (i + 1) - 1 = i /\ (i - 1) + 1 = i
    BY <1>1
  <2>4. /\ l.prev[s[i]] = IF i <= m THEN at(r, i - 1) ELSE at(r, i)
        /\ l.next[s[i]] = IF i <= m THEN at(r, i + 1) ELSE at(r, (i + 1) + 1)
    BY <1>3, <1>4, <2>3
  <2>5. l1.next[s[i]] = at(s, i + 1)
    <3>1. CASE i = m
      BY <2>1, <2>2, <3>1
    <3>2. CASE i # m
      <4>1. i + 1 <= m <=> i <= m
        BY <1>1, <3>2
      <4> QED BY <1>3, <2>1, <2>2, <2>3, <2>4, <3>2, <4>1
    <3> QED BY <3>1, <3>2
  <2>6. l1.prev[s[i]] = at(s, i - 1)
    <3>1. CASE i = m + 1
      <4>1. i - 1 = m
        BY <1>1, <3>1
      <4> QED BY <2>1, <2>2, <3>1, <4>1
    <3>2. CASE i # m + 1
      <4>1. i - 1 <= m <=> i <= m
        BY <1>1, <3>2
      <4> QED BY <1>3, <2>1, <2>2, <2>3, <2>4, <3>2, <4>1
    <3> QED BY <3>1, <3>2
  <2> QED BY <2>5, <2>6
<1>12. ASSUME NEW u \in Clients \ (ToSet(s) \cup {t}) PROVE l1.prev[u] = Null /\ l1.next[u] = Null
  <2>1. \A i \in 0 .. n + 1 : at(s, i) = Null \/ at(s, i) \in ToSet(s)
    BY <1>1, <1>9 DEF at
  <2>2. m \in 0 .. n + 1 /\ m + 1 \in 0 .. n + 1
    BY <1>1
  <2>3. u # at(s, m) /\ u # at(s, m + 1)
    BY <1>1, <2>1, <2>2
  <2> QED BY <1>2, <1>4, <1>5, <1>6, <2>3 DEF Cut
<1>13. l1.next[t] \in ToSet(s) \cup {Null}
  <2>1. at(s, m + 1) = Null \/ at(s, m + 1) \in ToSet(s)
    BY <1>1, <1>9 DEF at
  <2> QED BY <1>5, <1>6, <2>1 DEF Cut
<1>14. Sorted(s, l1.expire)
  <2>1. Sorted(s, l.expire)
    BY <1>4, ShorterIsSorted
  <2>2. \A i \in 1 .. n : l1.expire[s[i]] = l.expire[s[i]]
    BY <1>9 DEF Cut
  <2> QED BY <1>1, <2>1, <2>2 DEF Sorted
<1>15. l1 \in List
  BY DEF Cut
<1> QED BY <1>1, <1>2, <1>7, <1>8, <1>11, <1>12, <1>13, <1>14, <1>15 DEF ListBut

(* The pointers of the timer at position k, and what they say of k. *)
LEMMA Neighbours ==
  ASSUME NEW l, NEW r, Represents(l, r), NEW k \in 1 .. Len(r)
  PROVE  LET t == r[k]
         IN  /\ t \in Clients /\ t \in ToSet(r)
             /\ l.prev[t] = at(r, k - 1) /\ l.next[t] = at(r, k + 1)
             /\ t = l.head <=> k = 1
             /\ t = l.tail <=> k = Len(r)
             /\ k > 1 => l.prev[t] \in Clients \ {t}
             /\ k < Len(r) => l.next[t] \in Clients \ {t}
             /\ k = 1 => l.prev[t] = Null
             /\ k = Len(r) => l.next[t] = Null
<1> DEFINE n == Len(r)
           t == r[k]
<1>1. /\ r \in Seq(Clients) /\ n \in Nat /\ DOMAIN r = 1 .. n
      /\ \A i \in 1 .. n : r[i] \in Clients /\ r[i] \in ToSet(r)
      /\ \A i, j \in 1 .. n : r[i] = r[j] => i = j
  BY DEF Represents, Distinct, ToSet
<1>2. /\ l.head = at(r, 1) /\ l.tail = at(r, n)
      /\ l.prev[t] = at(r, k - 1) /\ l.next[t] = at(r, k + 1)
  BY <1>1 DEF Represents, IsList
<1>3. k \in Int /\ 1 \in 1 .. n /\ n \in 1 .. n
  BY <1>1
<1>4. at(r, 1) = r[1] /\ at(r, n) = r[n]
  BY <1>1, <1>3 DEF at
<1>5. k > 1 => at(r, k - 1) = r[k - 1] /\ k - 1 \in 1 .. n /\ k - 1 # k
  BY <1>1, <1>3 DEF at
<1>6. k < n => at(r, k + 1) = r[k + 1] /\ k + 1 \in 1 .. n /\ k + 1 # k
  BY <1>1, <1>3 DEF at
<1>7. (k = 1 => at(r, k - 1) = Null) /\ (k = n => at(r, k + 1) = Null)
  <2>1. (k = 1 => k - 1 \notin 1 .. n) /\ (k = n => k + 1 \notin 1 .. n)
    <3>1. n \in Nat /\ k \in Int
      BY <1>1, <1>3
    <3> HIDE DEF n
    <3>2. (1 - 1 \notin 1 .. n) /\ (n + 1 \notin 1 .. n)
      BY <3>1
    <3> QED BY <3>2
  <2> QED BY <1>1, <2>1 DEF at
<1>8. t \in Clients /\ t \in ToSet(r)
  BY <1>1
<1>9. (t = l.head <=> k = 1) /\ (t = l.tail <=> k = n)
  <2>1. k \in 1 .. n
    OBVIOUS
  <2> HIDE DEF n
  <2> QED BY <1>1, <1>2, <1>3, <1>4, <2>1
<1>10. k > 1 => l.prev[t] \in Clients \ {t}
  <2>1. k > 1 => l.prev[t] = r[k - 1] /\ k - 1 \in 1 .. n /\ k - 1 # k
    BY <1>2, <1>5
  <2> QED BY <1>1, <2>1
<1>11. k < n => l.next[t] \in Clients \ {t}
  <2>1. k < n => l.next[t] = r[k + 1] /\ k + 1 \in 1 .. n /\ k + 1 # k
    BY <1>2, <1>6
  <2> QED BY <1>1, <2>1
<1> HIDE DEF n, t
<1> QED BY <1>2, <1>7, <1>8, <1>9, <1>10, <1>11 DEF n, t

(* del_timer takes the timer at position k out, and nothing points to it or from
   it afterwards. *)
LEMMA DelTimer ==
  ASSUME NEW l, NEW r, Represents(l, r), NEW k \in 1 .. Len(r)
  PROVE  LET s == RemoveAt(r, k)
         IN  Represents(del_timer(l, r[k]), s) /\ r[k] \notin ToSet(s) /\ ToSet(r) = ToSet(s) \cup {r[k]}
<1> DEFINE t == r[k]
           s == RemoveAt(r, k)
           n == Len(r) - 1
           m == k - 1
           p == l.prev[t]
           q == l.next[t]
           l1 == IF t = l.head /\ t = l.tail THEN [l EXCEPT !.head = Null, !.tail = Null]
                 ELSE IF t = l.head THEN [l EXCEPT !.head = q, !.prev[q] = Null]
                 ELSE IF t = l.tail THEN [l EXCEPT !.tail = p, !.next[p] = Null]
                 ELSE [l EXCEPT !.next[p] = q, !.prev[q] = p]
           l2 == [l1 EXCEPT !.prev[t] = Null, !.next[t] = Null, !.user_data[t] = Null, !.expire[t] = 0]
<1>1. del_timer(l, t) = l2
  BY Zenon DEF del_timer, freed
<1>2. s \in Seq(Clients) /\ Len(s) = n /\ Longer(r, s, n, m, t) /\ Len(r) = n + 1
  BY RemovedIsShorter DEF Represents
<1>3. Distinct(s) /\ t \notin ToSet(s) /\ ToSet(r) = ToSet(s) \cup {t}
  BY <1>2, ShorterIsDistinct DEF Represents
<1> HIDE DEF s
<1>4. /\ t \in Clients /\ l \in List /\ l.next \in Links /\ l.prev \in Links
      /\ l.expire \in [Clients -> Nat] /\ l.user_data \in [Clients -> Fds \cup {Null}]
      /\ Null \notin Clients /\ Len(r) \in Nat
  BY NullAssumption, Neighbours DEF Represents, List
<1>5. /\ t = l.head <=> m = 0
      /\ t = l.tail <=> m = n
      /\ m > 0 => p \in Clients \ {t}
      /\ m < n => q \in Clients \ {t}
      /\ m = 0 => p = Null
      /\ m = n => q = Null
      /\ m \in 0 .. n /\ n \in Nat
  <2>1. /\ t = l.head <=> k = 1
        /\ t = l.tail <=> k = Len(r)
        /\ k > 1 => l.prev[t] \in Clients \ {t}
        /\ k < Len(r) => l.next[t] \in Clients \ {t}
        /\ k = 1 => l.prev[t] = Null
        /\ k = Len(r) => l.next[t] = Null
    BY Neighbours
  <2>2. /\ k = 1 <=> m = 0
        /\ k = Len(r) <=> m = n
        /\ k > 1 <=> m > 0
        /\ k < Len(r) <=> m < n
        /\ m \in 0 .. n /\ n \in Nat
    BY <1>4
  <2> HIDE DEF m, n, t
  <2> QED BY <2>1, <2>2
<1> HIDE DEF t, m, n, p, q
<1>6. /\ l1 \in List /\ l1.expire = l.expire /\ l1.user_data = l.user_data
      /\ l1.head = (IF m = 0 THEN q ELSE l.head)
      /\ l1.tail = (IF m = n THEN p ELSE l.tail)
      /\ l1.next = (IF m = 0 THEN l.next ELSE [l.next EXCEPT ![p] = q])
      /\ l1.prev = (IF m = n THEN l.prev ELSE [l.prev EXCEPT ![q] = p])
  <2>1. (m # 0 <=> m > 0) /\ (m # n <=> m < n)
    BY <1>5
  <2> USE <1>4, <1>5, <2>1 DEF List, Links
  <2>2. CASE m = 0 /\ m = n BY <2>2
  <2>3. CASE m = 0 /\ m # n BY <2>3
  <2>4. CASE m # 0 /\ m = n BY <2>4
  <2>5. CASE m # 0 /\ m # n BY <2>5
  <2> QED BY <2>2, <2>3, <2>4, <2>5
<1> HIDE DEF l1
<1>7. /\ l2 \in List /\ l2.head = l1.head /\ l2.tail = l1.tail
      /\ l2.next = [l1.next EXCEPT ![t] = Null] /\ l2.prev = [l1.prev EXCEPT ![t] = Null]
      /\ l2.expire = [l1.expire EXCEPT ![t] = 0]
  BY <1>4, <1>6 DEF List, Links
<1> HIDE DEF l2
<1>8. /\ l1.next \in Links /\ l1.prev \in Links /\ l1.expire \in [Clients -> Nat]
  BY <1>6 DEF List
<1>9. l2.next[t] = Null /\ l2.prev[t] = Null
  BY <1>4, <1>7, <1>8 DEF Links
<1>10. ASSUME NEW u \in Clients \ {t}
       PROVE  /\ l2.next[u] = IF u = p THEN q ELSE l.next[u]
              /\ l2.prev[u] = IF u = q THEN p ELSE l.prev[u]
              /\ l2.expire[u] = l.expire[u]
  <2>1. l2.next[u] = l1.next[u] /\ l2.prev[u] = l1.prev[u] /\ l2.expire[u] = l1.expire[u]
    BY <1>7, <1>8 DEF Links
  <2>2. l1.next[u] = IF u = p THEN q ELSE l.next[u]
    <3>1. CASE m = 0 BY <1>4, <1>5, <1>6, <3>1
    <3>2. CASE m # 0 BY <1>4, <1>6, <3>2 DEF Links
    <3> QED BY <3>1, <3>2
  <2>3. l1.prev[u] = IF u = q THEN p ELSE l.prev[u]
    <3>1. CASE m = n BY <1>4, <1>5, <1>6, <3>1
    <3>2. CASE m # n BY <1>4, <1>6, <3>2 DEF Links
    <3> QED BY <3>1, <3>2
  <2> QED BY <1>6, <2>1, <2>2, <2>3
<1>11. Cut(l2, l, m, n, t)
  BY <1>6, <1>7, <1>9, <1>10 DEF Cut, p, q
<1>12. ListBut(l2, s, n, t)
  BY <1>2, <1>11, CutIsListBut
<1>13. IsList(l2, s)
  <2>1. \A u \in Clients \ ToSet(s) : l2.prev[u] = Null /\ l2.next[u] = Null
    BY <1>9, <1>12 DEF ListBut
  <2>2. DOMAIN s = 1 .. n
    BY <1>12 DEF ListBut
  <2> QED BY <1>2, <1>12, <2>1, <2>2 DEF ListBut, IsList
<1>14. Represents(l2, s)
  BY <1>2, <1>3, <1>7, <1>13 DEF Represents
<1> QED BY <1>1, <1>3, <1>14 DEF s, t

(* The expiry of t is set. *)
PutOff(l, t, later) == [l EXCEPT !.expire[t] = later]

(* adjust_timer moves the timer at position k, which has been put off, to its
   new place. *)
LEMMA AdjustTimer ==
  ASSUME NEW l0, NEW r, Represents(l0, r), NEW k \in 1 .. Len(r),
         NEW later \in Nat, l0.expire[r[k]] <= later
  PROVE  LET l  == PutOff(l0, r[k], later)
             r1 == Inserted(RemoveAt(r, k), l.expire, r[k])
         IN  Represents(adjust_timer(l, r[k]), r1) /\ ToSet(r1) = ToSet(r)
<1> DEFINE t == r[k]
           s == RemoveAt(r, k)
           n == Len(r) - 1
           m == k - 1
           l == PutOff(l0, t, later)
           p == l.prev[t]
           q == l.next[t]
           r1 == Inserted(s, l.expire, t)
           l1 == IF t = l.head THEN [l EXCEPT !.head = q, !.prev[q] = Null, !.next[t] = Null]
                 ELSE [l EXCEPT !.next[p] = q, !.prev[q] = p]
<1>1. adjust_timer(l, t) = IF q = Null \/ l.expire[t] < l.expire[q] THEN l ELSE add_timer_behind(l1, t, q)
  <2>1. adjust_timer(l, t) =
          IF q = Null \/ l.expire[t] < l.expire[q] THEN l
          ELSE IF t = l.head
               THEN add_timer_behind([l EXCEPT !.head = q, !.prev[q] = Null, !.next[t] = Null], t, q)
               ELSE add_timer_behind([l EXCEPT !.next[p] = q, !.prev[q] = p], t, q)
    BY Zenon DEF adjust_timer
  <2> HIDE DEF t, l, p, q
  <2>2. CASE t = l.head BY <2>1, <2>2
  <2>3. CASE t # l.head BY <2>1, <2>3
  <2> QED BY <2>2, <2>3
<1>2. s \in Seq(Clients) /\ Len(s) = n /\ Longer(r, s, n, m, t) /\ Len(r) = n + 1
  BY RemovedIsShorter DEF Represents
<1>3. Distinct(s) /\ t \notin ToSet(s) /\ ToSet(r) = ToSet(s) \cup {t}
  BY <1>2, ShorterIsDistinct DEF Represents
<1>20. Sorted(r, l0.expire)
  BY DEF Represents, IsList
<1>21. \A i \in 0 .. n + 1 : at(s, i) = IF i <= m THEN at(r, i) ELSE at(r, i + 1)
  BY <1>2, ShorterAt
<1>22. Around(s, n, m, l0.expire, t)
  BY <1>2, <1>20, ShorterIsSorted
<1> HIDE DEF s
<1>4. /\ t \in Clients /\ l0 \in List /\ l0.next \in Links /\ l0.prev \in Links
      /\ l0.expire \in [Clients -> Nat] /\ Null \notin Clients /\ Len(r) \in Nat
  BY NullAssumption, Neighbours DEF Represents, List
<1>5. /\ t = l0.head <=> m = 0
      /\ m > 0 => l0.prev[t] \in Clients \ {t}
      /\ m < n => l0.next[t] \in Clients \ {t}
      /\ m = 0 => l0.prev[t] = Null
      /\ m = n => l0.next[t] = Null
      /\ l0.next[t] = at(r, m + 2)
      /\ m \in 0 .. n /\ n \in Nat
  <2>1. /\ t = l0.head <=> k = 1
        /\ k > 1 => l0.prev[t] \in Clients \ {t}
        /\ k < Len(r) => l0.next[t] \in Clients \ {t}
        /\ k = 1 => l0.prev[t] = Null
        /\ k = Len(r) => l0.next[t] = Null
        /\ l0.next[t] = at(r, k + 1)
    BY Neighbours
  <2>2. /\ k = 1 <=> m = 0
        /\ k = Len(r) <=> m = n
        /\ k > 1 <=> m > 0
        /\ k < Len(r) <=> m < n
        /\ m \in 0 .. n /\ n \in Nat /\ m + 2 = k + 1
    BY <1>4
  <2> HIDE DEF m, n, t
  <2> QED BY <2>1, <2>2
<1>6. l0.expire[t] <= later
  OBVIOUS
<1> HIDE DEF t, m, n, l, p, q
<1>7. /\ l \in List /\ l.head = l0.head /\ l.tail = l0.tail /\ l.next = l0.next /\ l.prev = l0.prev
      /\ l.expire = [l0.expire EXCEPT ![t] = later]
  BY <1>4 DEF List, l, PutOff
<1>8. l.expire \in [Clients -> Nat] /\ l.expire[t] = later /\ \A u \in Clients \ {t} : l.expire[u] = l0.expire[u]
  BY <1>4, <1>7
<1>10. \A i \in 1 .. n : s[i] \in Clients \ {t}
  <2>1. DOMAIN s = 1 .. n
    BY <1>2 DEF Longer
  <2> QED BY <1>2, <1>3, <2>1 DEF ToSet, Longer
<1>11. Sorted(s, l0.expire) /\ Sorted(s, l.expire)
  <2>1. Sorted(s, l0.expire)
    BY <1>2, <1>20, ShorterIsSorted
  <2>2. DOMAIN s = 1 .. n
    BY <1>2 DEF Longer
  <2> QED BY <1>8, <1>10, <2>1, <2>2 DEF Sorted
<1>12. PICK j \in 0 .. n :
         /\ Longer(r1, s, n, j, t) /\ r1 \in Seq(Clients) /\ Len(r1) = n + 1
         /\ \A i \in 1 .. n : i <= j <=> l.expire[s[i]] <= l.expire[t]
  BY <1>2, <1>4, <1>8, <1>11, InsertedIsLonger
<1> HIDE DEF r1
<1>13. q = at(s, m + 1) /\ (m < n => q = s[m + 1] /\ m + 1 \in 1 .. n)
  <2>2. m + 1 \in 0 .. n + 1 /\ ~(m + 1 <= m) /\ (m + 1) + 1 = m + 2 /\ (m < n => m + 1 \in 1 .. n)
    BY <1>5
  <2>3. q = at(s, m + 1)
    BY <1>5, <1>7, <1>21, <2>2 DEF q
  <2>4. DOMAIN s = 1 .. n
    BY <1>2 DEF Longer
  <2> QED BY <2>2, <2>3, <2>4 DEF at
<1>14. CASE q = Null \/ l.expire[t] < l.expire[q]
  <2>1. \A i \in 1 .. n : i <= m <=> l.expire[s[i]] <= l.expire[t]
    <3>2. ASSUME NEW i \in 1 .. n, i <= m PROVE l.expire[s[i]] <= l.expire[t]
      <4>1. l.expire[s[i]] = l0.expire[s[i]] /\ l0.expire[s[i]] \in Nat /\ l0.expire[t] \in Nat
        BY <1>4, <1>8, <1>10
      <4> QED BY <1>6, <1>8, <1>22, <3>2, <4>1 DEF Around
    <3>3. ASSUME NEW i \in 1 .. n, i > m PROVE ~(l.expire[s[i]] <= l.expire[t])
      <4>1. m < n /\ m + 1 <= i
        BY <1>5, <3>3
      <4>2. q = s[m + 1] /\ m + 1 \in 1 .. n /\ q # Null
        BY <1>4, <1>10, <1>13, <4>1
      <4>3. l.expire[s[m + 1]] <= l.expire[s[i]]
        <5>1. DOMAIN s = 1 .. n
          BY <1>2 DEF Longer
        <5> QED BY <1>11, <4>1, <4>2, <5>1 DEF Sorted
      <4>4. l.expire[t] \in Nat /\ l.expire[s[i]] \in Nat /\ l.expire[s[m + 1]] \in Nat
        BY <1>4, <1>8, <1>10, <4>2
      <4> QED BY <1>14, <4>2, <4>3, <4>4
    <3> QED BY <1>5, <3>2, <3>3
  <2>2. j = m
    <3>1. \A i \in 1 .. n : i <= j <=> i <= m
      BY <1>12, <2>1
    <3> QED BY <1>5, <3>1
  <2>3. r1 = r
    BY <1>2, <1>12, <2>2 DEF Longer
  <2>4. Sorted(r, l.expire)
    <3> DEFINE e == l.expire
    <3>1. Longer(r1, s, n, m, t) /\ \A i \in 1 .. n : i <= m <=> e[s[i]] <= e[t]
      BY <1>12, <2>1, <2>2
    <3>2. e \in [Clients -> Nat] /\ Sorted(s, e)
      BY <1>8, <1>11
    <3> HIDE DEF e
    <3>3. Sorted(r1, e)
      BY <3>1, <3>2, LongerIsSorted
    <3> QED BY <2>3, <3>3 DEF e
  <2>5. Represents(l, r)
    <3>1. IsList(l, r)
      BY <1>7, <2>4 DEF Represents, IsList
    <3> QED BY <1>7, <3>1 DEF Represents
  <2> QED BY <1>1, <1>14, <2>3, <2>5 DEF t, l, r1, s
<1>15. CASE ~(q = Null \/ l.expire[t] < l.expire[q])
  <2>1. m < n
    BY <1>5, <1>7, <1>15 DEF q
  <2>2. q \in Clients \ {t} /\ (m # 0 => p \in Clients \ {t}) /\ (m = 0 => p = Null) /\ (t = l.head <=> m = 0)
    <3>1. m # 0 => m > 0
      BY <1>5
    <3> QED BY <1>5, <1>7, <2>1, <3>1 DEF p, q
  <2>3. l.next \in Links /\ l.prev \in Links
    BY <1>7 DEF List
  <2>4. /\ l1 \in List /\ l1.expire = l.expire
        /\ l1.head = (IF m = 0 THEN q ELSE l.head) /\ l1.tail = l.tail
        /\ l1.next = (IF m = 0 THEN [l.next EXCEPT ![t] = Null] ELSE [l.next EXCEPT ![p] = q])
        /\ l1.prev = [l.prev EXCEPT ![q] = p]
    <3> USE <1>4, <1>7, <2>2, <2>3 DEF List, Links
    <3>1. CASE m = 0 BY <3>1
    <3>2. CASE m # 0 BY <3>2
    <3> QED BY <3>1, <3>2
  <2> HIDE DEF l1
  <2>5. ASSUME NEW u \in Clients \ {t}
        PROVE  /\ l1.next[u] = IF u = p THEN q ELSE l.next[u]
               /\ l1.prev[u] = IF u = q THEN p ELSE l.prev[u]
               /\ l1.expire[u] = l.expire[u]
    <3>1. CASE m = 0 BY <1>4, <2>2, <2>3, <2>4, <3>1 DEF Links
    <3>2. CASE m # 0 BY <1>4, <2>2, <2>3, <2>4, <3>2 DEF Links
    <3> QED BY <3>1, <3>2
  <2>6. l1.next[t] \in {Null, l.next[t]}
    <3>1. CASE m = 0 BY <1>4, <2>2, <2>3, <2>4, <3>1 DEF Links
    <3>2. CASE m # 0 BY <1>4, <2>2, <2>3, <2>4, <3>2 DEF Links
    <3> QED BY <3>1, <3>2
  <2>7. Cut(l1, l0, m, n, t)
    <3>1. l.next[t] = l0.next[t] /\ l.prev[t] = l0.prev[t] /\ p = l0.prev[t] /\ q = l0.next[t] /\ m # n
      BY <1>5, <1>7, <2>1 DEF p, q
    <3>2. \A u \in Clients \ {t} : l.expire[u] = l0.expire[u]
      BY <1>8
    <3> QED BY <1>7, <2>4, <2>5, <2>6, <3>1, <3>2 DEF Cut
  <2>8. ListBut(l1, s, n, t)
    BY <1>2, <2>7, CutIsListBut
  <2>9. NotLater(l1, s, n, j, l1.expire[t])
    BY <1>12, <2>4 DEF NotLater
  <2>10. q = s[m + 1] /\ m + 1 \in 1 .. j
    <3>1. q = s[m + 1] /\ m + 1 \in 1 .. n
      BY <1>13, <2>1
    <3>2. l.expire[q] \in Nat /\ l.expire[t] \in Nat
      BY <1>4, <1>8, <2>2
    <3>3. l.expire[s[m + 1]] <= l.expire[t]
      BY <1>15, <3>1, <3>2
    <3> QED BY <1>5, <1>12, <3>1, <3>3
  <2>11. Spliced(add_timer_behind(l1, t, q), s, n, j, t)
    BY <2>8, <2>9, <2>10, AddBehind
  <2>12. Represents(add_timer_behind(l1, t, q), r1) /\ ToSet(r1) = ToSet(s) \cup {t}
    BY <1>2, <1>3, <1>4, <1>12, <2>11, SplicedIsInserted
  <2> QED BY <1>1, <1>3, <1>15, <2>12 DEF t, l, r1, s
<1> QED BY <1>14, <1>15

(* Moving timers about leaves their times and their data alone. *)
LEMMA AddBehindKeepsData ==
  ASSUME NEW l \in List, NEW t, NEW p
  PROVE  add_timer_behind(l, t, p).expire = l.expire /\ add_timer_behind(l, t, p).user_data = l.user_data
<1> DEFINE prev == last_before(l, t)[p]
           tmp  == l.next[prev]
           l1   == [l EXCEPT !.next[prev] = t, !.next[t] = tmp, !.prev[t] = prev]
<1>1. add_timer_behind(l, t, p) = IF tmp = Null THEN [l1 EXCEPT !.tail = t] ELSE [l1 EXCEPT !.prev[tmp] = t]
  BY Zenon DEF add_timer_behind
<1> HIDE DEF prev, tmp
<1> QED BY <1>1 DEF List

LEMMA AddTimerKeepsData ==
  ASSUME NEW l \in List, NEW t
  PROVE  add_timer(l, t).expire = l.expire /\ add_timer(l, t).user_data = l.user_data
<1>1. CASE l.head # Null /\ ~(l.expire[t] < l.expire[l.head])
  <2>1. add_timer(l, t) = add_timer_behind(l, t, l.head)
    BY <1>1, Zenon DEF add_timer
  <2> QED BY <2>1, AddBehindKeepsData
<1>2. CASE l.head = Null
  BY <1>2 DEF add_timer, List
<1>3. CASE l.head # Null /\ l.expire[t] < l.expire[l.head]
  BY <1>3 DEF add_timer, List
<1> QED BY <1>1, <1>2, <1>3

LEMMA AdjustTimerKeepsData ==
  ASSUME NEW l0, NEW r, Represents(l0, r), NEW k \in 1 .. Len(r), NEW later \in Nat
  PROVE  LET l == PutOff(l0, r[k], later)
         IN  /\ adjust_timer(l, r[k]).expire = [l0.expire EXCEPT ![r[k]] = later]
             /\ adjust_timer(l, r[k]).user_data = l0.user_data
<1> DEFINE t == r[k]
           l == PutOff(l0, t, later)
           p == l.prev[t]
           q == l.next[t]
           l1 == [l EXCEPT !.head = q, !.prev[q] = Null, !.next[t] = Null]
           l2 == [l EXCEPT !.next[p] = q, !.prev[q] = p]
<1>1. adjust_timer(l, t) =
        IF q = Null \/ l.expire[t] < l.expire[q] THEN l
        ELSE IF t = l.head THEN add_timer_behind(l1, t, q) ELSE add_timer_behind(l2, t, q)
  BY Zenon DEF adjust_timer
<1>2. t \in Clients /\ l0 \in List /\ Null \notin Clients /\ Len(r) \in Nat
      /\ (t = l0.head <=> k = 1) /\ (k > 1 => l0.prev[t] \in Clients)
  BY NullAssumption, Neighbours DEF Represents
<1> HIDE DEF t
<1>3. l \in List /\ l.expire = [l0.expire EXCEPT ![t] = later] /\ l.user_data = l0.user_data
      /\ l.head = l0.head /\ l.prev = l0.prev
  BY <1>2 DEF List, PutOff
<1> HIDE DEF l
<1>4. l.prev \in Links /\ l.next \in Links /\ q \in Clients \cup {Null}
  BY <1>2, <1>3 DEF List, Links
<1>5. CASE q = Null
  BY <1>1, <1>3, <1>5 DEF t, l
<1>6. CASE q # Null /\ l.expire[t] < l.expire[q]
  BY <1>1, <1>3, <1>6 DEF t, l
<1>7. CASE q # Null /\ ~(l.expire[t] < l.expire[q]) /\ t = l.head
  <2>1. l1 \in List /\ l1.expire = l.expire /\ l1.user_data = l.user_data
    BY <1>2, <1>3, <1>4, <1>7 DEF List, Links
  <2>2. adjust_timer(l, t) = add_timer_behind(l1, t, q)
    BY <1>1, <1>7
  <2> HIDE DEF l1
  <2> QED BY <1>3, <2>1, <2>2, AddBehindKeepsData DEF t, l
<1>8. CASE q # Null /\ ~(l.expire[t] < l.expire[q]) /\ t # l.head
  <2>1. p \in Clients
    <3>1. k > 1
      BY <1>2, <1>3, <1>8
    <3> QED BY <1>2, <1>3, <3>1
  <2>2. l2 \in List /\ l2.expire = l.expire /\ l2.user_data = l.user_data
    <3> HIDE DEF p, q
    <3> QED BY <1>2, <1>3, <1>4, <1>8, <2>1 DEF List, Links
  <2>3. adjust_timer(l, t) = add_timer_behind(l2, t, q)
    BY <1>1, <1>8
  <2> HIDE DEF l2
  <2> QED BY <1>3, <2>2, <2>3, AddBehindKeepsData DEF t, l
<1> QED BY <1>5, <1>6, <1>7, <1>8

(* A deleted timer has neither. *)
LEMMA DelTimerData ==
  ASSUME NEW l \in List, NEW t \in Clients
  PROVE  /\ del_timer(l, t).expire = [l.expire EXCEPT ![t] = 0]
         /\ del_timer(l, t).user_data = [l.user_data EXCEPT ![t] = Null]
<1> DEFINE p == l.prev[t]
           q == l.next[t]
           l1 == IF t = l.head /\ t = l.tail THEN [l EXCEPT !.head = Null, !.tail = Null]
                 ELSE IF t = l.head THEN [l EXCEPT !.head = q, !.prev[q] = Null]
                 ELSE IF t = l.tail THEN [l EXCEPT !.tail = p, !.next[p] = Null]
                 ELSE [l EXCEPT !.next[p] = q, !.prev[q] = p]
<1>1. del_timer(l, t) =
        [l1 EXCEPT !.prev[t] = Null, !.next[t] = Null, !.user_data[t] = Null, !.expire[t] = 0]
  BY Zenon DEF del_timer, freed
<1> HIDE DEF p, q
<1>2. /\ l1.expire = l.expire /\ l1.user_data = l.user_data
      /\ l1 = [head |-> l1.head, tail |-> l1.tail, prev |-> l1.prev, next |-> l1.next,
               user_data |-> l1.user_data, expire |-> l1.expire]
  BY DEF List
<1> HIDE DEF l1
<1> QED BY <1>1, <1>2

(* Sequences without repetition are the orders of their elements. *)
LEMMA OrderIsDistinct ==
  ASSUME NEW S \in SUBSET Clients, IsFiniteSet(S), NEW s \in SetToSeqs(S)
  PROVE  s \in Seq(Clients) /\ Distinct(s) /\ ToSet(s) = S
<1> DEFINE n == Cardinality(S)
<1>1. n \in Nat
  BY FS_CardinalityType
<1>2. s \in [1 .. n -> S] /\ \A i, j \in 1 .. n : i # j => s[i] # s[j]
  BY DEF SetToSeqs
<1>3. s \in Seq(Clients) /\ DOMAIN s = 1 .. n /\ Distinct(s)
  BY <1>1, <1>2 DEF Distinct
<1>4. s \in Injection(1 .. n, S)
  BY <1>2 DEF Injection, IsInjective
<1>5. Cardinality(1 .. n) = n
  BY <1>1, FS_Interval
<1>6. s \in Surjection(1 .. n, S)
  BY <1>4, <1>5, FS_Injection
<1> QED BY <1>2, <1>3, <1>6 DEF Surjection, ToSet

LEMMA DistinctIsOrder ==
  ASSUME NEW S \in SUBSET Clients, NEW s \in Seq(Clients), Distinct(s), ToSet(s) = S
  PROVE  IsFiniteSet(S) /\ Cardinality(S) = Len(s) /\ s \in SetToSeqs(S)
<1> DEFINE n == Len(s)
<1>1. n \in Nat /\ DOMAIN s = 1 .. n /\ \A i \in 1 .. n : s[i] \in S
  BY DEF ToSet
<1>2. s \in [1 .. n -> S] /\ \A i, j \in 1 .. n : s[i] = s[j] => i = j
  BY <1>1 DEF Distinct
<1>3. s \in Injection(1 .. n, S) /\ s \in Surjection(1 .. n, S)
  BY <1>1, <1>2 DEF Injection, IsInjective, Surjection, ToSet
<1>4. IsFiniteSet(1 .. n) /\ Cardinality(1 .. n) = n
  BY <1>1, FS_Interval
<1>5. IsFiniteSet(S) /\ Cardinality(S) = n
  BY <1>3, <1>4, FS_Surjection
<1> QED BY <1>2, <1>5 DEF SetToSeqs

(* The pointers made from a sequence are those of the list. *)
LEMMA ListOfRepresents ==
  ASSUME NEW s \in Seq(Clients), Distinct(s), NEW expire \in [Clients -> Nat], Sorted(s, expire)
  PROVE  Represents(ListOf(s, expire), s) /\ ListOf(s, expire).expire = expire
<1> DEFINE n == Len(s)
           index(t) == CHOOSE i \in DOMAIN s : s[i] = t
           beside(t, d) == IF t \in ToSet(s) THEN at(s, index(t) + d) ELSE Null
           prev == [t \in Clients |-> beside(t, -1)]
           next == [t \in Clients |-> beside(t, 1)]
           l == [head |-> at(s, 1), tail |-> at(s, n), prev |-> prev, next |-> next,
                 user_data |-> [t \in Clients |-> Null], expire |-> expire]
<1>1. n \in Nat /\ DOMAIN s = 1 .. n /\ \A i, j \in 1 .. n : s[i] = s[j] => i = j
  BY DEF Distinct
<1>2. ListOf(s, expire) = l
  <2>1. ListOf(s, expire) = [EmptyList EXCEPT !.head = at(s, 1), !.tail = at(s, n), !.expire = expire,
                                              !.prev = prev, !.next = next]
    BY Zenon DEF ListOf
  <2> HIDE DEF prev, next
  <2> QED BY <2>1 DEF EmptyList
<1>3. \A i \in Int : at(s, i) \in Clients \cup {Null}
  BY <1>1 DEF at
<1>4. ASSUME NEW i \in 1 .. n PROVE s[i] \in ToSet(s) /\ s[i] \in Clients /\ index(s[i]) = i
  <2>1. index(s[i]) \in DOMAIN s /\ s[index(s[i])] = s[i]
    BY <1>1
  <2> HIDE DEF index
  <2> QED BY <1>1, <2>1 DEF ToSet
<1>5. \A t \in ToSet(s) : index(t) \in Int
  <2>1. \A t \in ToSet(s) : \E i \in 1 .. n : s[i] = t
    BY <1>1 DEF ToSet
  <2> HIDE DEF index
  <2> QED BY <1>4, <2>1
<1> HIDE DEF index
<1>6. prev \in Links /\ next \in Links
  <2>1. \A t \in Clients : beside(t, -1) \in Clients \cup {Null} /\ beside(t, 1) \in Clients \cup {Null}
    BY <1>3, <1>5
  <2> HIDE DEF beside
  <2> QED BY <2>1 DEF Links
<1>7. \A i \in 1 .. n : prev[s[i]] = at(s, i - 1) /\ next[s[i]] = at(s, i + 1)
  BY <1>1, <1>4
<1>8. \A t \in Clients \ ToSet(s) : prev[t] = Null /\ next[t] = Null
  OBVIOUS
<1> HIDE DEF prev, next
<1>9. l \in List
  BY <1>1, <1>3, <1>6 DEF List
<1>10. IsList(l, s)
  BY <1>1, <1>7, <1>8 DEF IsList
<1> QED BY <1>2, <1>9, <1>10 DEF Represents

(* Over whatever times, and however many timers: of any sorted list, add_timer,
   del_timer and adjust_timer make the list that they should
   (lst_timer.cpp:23-121). *)
THEOREM OperationsKeepAnyOrder ==
  ASSUME NEW times \in SUBSET Nat
  PROVE  OperationsKeepOrder(times)
<1> SUFFICES ASSUME NEW expire \in [Clients -> times], NEW S \in SUBSET Clients, IsFiniteSet(S),
                    NEW s \in SetToSeqs(S), Sorted(s, expire)
             PROVE  LET l == ListOf(s, expire) IN
                    /\ IsList(l, s)
                    /\ \A t \in Clients \ ToSet(s) : IsList(add_timer(l, t), Inserted(s, expire, t))
                    /\ \A i \in DOMAIN s :
                         /\ IsList(del_timer(l, s[i]), RemoveAt(s, i))
                         /\ \A later \in {e \in times : e >= expire[s[i]]} :
                              LET m == [l EXCEPT !.expire[s[i]] = later]
                              IN  IsList(adjust_timer(m, s[i]), Inserted(RemoveAt(s, i), m.expire, s[i]))
  BY Zenon DEF OperationsKeepOrder
<1> DEFINE l == ListOf(s, expire)
<1>1. s \in Seq(Clients) /\ Distinct(s) /\ expire \in [Clients -> Nat] /\ DOMAIN s = 1 .. Len(s)
  <2>1. s \in Seq(Clients) /\ Distinct(s)
    BY OrderIsDistinct
  <2>2. expire \in [Clients -> Nat]
    OBVIOUS
  <2> QED BY <2>1, <2>2
<1>2. Represents(l, s) /\ l.expire = expire
  BY <1>1, ListOfRepresents
<1> HIDE DEF l
<1>3. IsList(l, s)
  BY <1>2 DEF Represents
<1>4. ASSUME NEW t \in Clients \ ToSet(s) PROVE IsList(add_timer(l, t), Inserted(s, expire, t))
  BY <1>2, AddTimer DEF Represents
<1>5. ASSUME NEW i \in DOMAIN s PROVE IsList(del_timer(l, s[i]), RemoveAt(s, i))
  BY <1>1, <1>2, DelTimer DEF Represents
<1>6. ASSUME NEW i \in DOMAIN s, NEW later \in {e \in times : e >= expire[s[i]]}
      PROVE  LET m == [l EXCEPT !.expire[s[i]] = later]
             IN  IsList(adjust_timer(m, s[i]), Inserted(RemoveAt(s, i), m.expire, s[i]))
  <2>1. i \in 1 .. Len(s) /\ later \in Nat /\ l.expire[s[i]] <= later
    BY <1>1, <1>2
  <2> DEFINE m == PutOff(l, s[i], later)
  <2>2. IsList(adjust_timer(m, s[i]), Inserted(RemoveAt(s, i), m.expire, s[i]))
    BY <1>2, <2>1, AdjustTimer DEF Represents
  <2> QED BY <2>2, Zenon DEF PutOff
<1> QED BY <1>3, <1>4, <1>5, <1>6, Zenon DEF l
-----------------------------------------------------------------------------
(***************************************************************************)
(* The pool: what is queued and who waits on the semaphore.                *)
(***************************************************************************)

WorkerState == [pc : {"wait", "lock", "read", "write", "modfd"},
                request : Fds \cup {Null}, code : Codes]

PoolTypeOK ==
  /\ m_workqueue \in Seq(Fds)
  /\ m_queue_stat \in Nat
  /\ worker \in [Workers -> WorkerState]

lockers == {w \in Workers : worker[w].pc = "lock"}

PoolInv == PoolTypeOK /\ NoTaskIsStranded

(* The workers that are about to look are counted. *)
LEMMA Lockers == IsFiniteSet(lockers) /\ Cardinality(lockers) \in Nat
<1>1. IsFiniteSet(lockers)
  BY WorkersAssumption, FS_Subset DEF lockers
<1> QED BY <1>1, FS_CardinalityType

(* One more is about to look, or one fewer, or they are the same. *)
LEMMA OneMoreLocks ==
  ASSUME PoolTypeOK, NEW w \in Workers, worker[w].pc # "lock",
         worker' = [worker EXCEPT ![w].pc = "lock"]
  PROVE  Cardinality(lockers') = Cardinality(lockers) + 1
<1>1. lockers' = lockers \cup {w} /\ w \notin lockers
  BY DEF PoolTypeOK, WorkerState, lockers
<1> QED BY <1>1, Lockers, FS_AddElement

LEMMA OneLessLocks ==
  ASSUME NEW w \in lockers, lockers' = lockers \ {w}
  PROVE  Cardinality(lockers') = Cardinality(lockers) - 1
BY Lockers, FS_RemoveElement

(* The main thread appends one request, and posts for it before it does
   anything else. *)
LEMMA MainStep ==
  ASSUME PoolInv, Main
  PROVE  PoolInv'
<1> USE DEF poolVars, PoolInv, PoolTypeOK
<1>1. NoTaskIsStranded <=>
        Len(m_workqueue) <= m_queue_stat + Cardinality(lockers) + (IF main = "post" THEN 1 ELSE 0)
  BY DEF NoTaskIsStranded, lockers
<1>2. NoTaskIsStranded' <=>
        Len(m_workqueue') <= m_queue_stat' + Cardinality(lockers') + (IF main' = "post" THEN 1 ELSE 0)
  BY DEF NoTaskIsStranded, lockers
<1>3. worker' = worker => lockers' = lockers
  BY DEF lockers
<1>4. Cardinality(lockers) \in Nat /\ Len(m_workqueue) \in Nat
  BY Lockers
<1>5. CASE post
  BY <1>1, <1>2, <1>3, <1>4, <1>5 DEF post
<1>6. ASSUME NEW fd \in Fds, read_and_append(fd)
      PROVE  PoolInv'
  <2>1. /\ main = "events" /\ UNCHANGED <<m_queue_stat, worker>>
        /\ \/ main' = main /\ m_workqueue' = m_workqueue
           \/ main' = "post" /\ m_workqueue' = Append(m_workqueue, fd)
    BY <1>6 DEF read_and_append, handle
  <2>2. CASE main' = main /\ m_workqueue' = m_workqueue
    BY <1>1, <1>2, <1>3, <2>1, <2>2
  <2>3. CASE main' = "post" /\ m_workqueue' = Append(m_workqueue, fd)
    <3>1. m_workqueue' \in Seq(Fds) /\ Len(m_workqueue') = Len(m_workqueue) + 1
      BY <2>3
    <3> QED BY <1>1, <1>2, <1>3, <1>4, <2>1, <2>3, <3>1
  <2> QED BY <2>1, <2>2, <2>3
<1>7. ASSUME UNCHANGED <<m_workqueue, m_queue_stat, worker>>, main # "post"
      PROVE  PoolInv'
  BY <1>1, <1>2, <1>3, <1>4, <1>7
<1>8. CASE epoll_wait \/ accept \/ accept_too_many \/ recv_signals \/ end_of_events \/ tick
           \/ end_of_tick \/ leave_main
  BY <1>7, <1>8 DEF epoll_wait, accept, accept_too_many, recv_signals, end_of_events, tick,
                    end_of_tick, leave_main, handle
<1>9. ASSUME NEW fd \in Fds,
             hang_up(fd) \/ read_fails(fd) \/ write_continues(fd) \/ write_ends(fd)
      PROVE  PoolInv'
  BY <1>7, <1>9 DEF hang_up, read_fails, write_continues, write_ends, handle
<1> QED BY <1>5, <1>6, <1>8, <1>9 DEF Main

(* A worker takes a unit, then a request, and sleeps again only on an empty
   queue or when it is done. *)
LEMMA WorkerStep ==
  ASSUME PoolInv, NEW w \in Workers, Worker(w)
  PROVE  PoolInv'
<1> USE DEF PoolInv, PoolTypeOK
<1>1. NoTaskIsStranded <=>
        Len(m_workqueue) <= m_queue_stat + Cardinality(lockers) + (IF main = "post" THEN 1 ELSE 0)
  BY DEF NoTaskIsStranded, lockers
<1>2. NoTaskIsStranded' <=>
        Len(m_workqueue') <= m_queue_stat' + Cardinality(lockers') + (IF main' = "post" THEN 1 ELSE 0)
  BY DEF NoTaskIsStranded, lockers
<1>3. /\ main' = main /\ Cardinality(lockers) \in Nat /\ Len(m_workqueue) \in Nat
      /\ worker[w] \in WorkerState
  BY Lockers DEF Worker, mainVars
<1>4. CASE sem_wait(w)
  <2>1. worker' \in [Workers -> WorkerState]
    BY <1>4 DEF sem_wait, WorkerState
  <2>2. Cardinality(lockers') = Cardinality(lockers) + 1
    BY <1>4, OneMoreLocks DEF sem_wait
  <2> QED BY <1>1, <1>2, <1>3, <1>4, <2>1, <2>2 DEF sem_wait
<1>5. CASE next_request(w)
  <2>1. m_workqueue' \in Seq(Fds) /\ Len(m_workqueue') = Len(m_workqueue) - 1
        /\ Head(m_workqueue) \in Fds
    BY <1>5 DEF next_request
  <2>2. worker' \in [Workers -> WorkerState] /\ lockers' = lockers \ {w} /\ w \in lockers
    BY <1>5, <2>1 DEF next_request, WorkerState, lockers
  <2>3. Cardinality(lockers') = Cardinality(lockers) - 1
    BY <2>2, OneLessLocks
  <2> QED BY <1>1, <1>2, <1>3, <1>5, <2>1, <2>2, <2>3 DEF next_request
<1>6. CASE queue_empty(w)
  <2>1. worker' \in [Workers -> WorkerState]
    BY <1>6 DEF queue_empty, WorkerState
  <2>2. Len(m_workqueue') = 0 /\ m_queue_stat' \in Nat
    BY <1>6 DEF queue_empty
  <2>3. Cardinality(lockers') \in Nat
    <3>1. lockers' \subseteq Workers
      BY DEF lockers
    <3> QED BY <3>1, WorkersAssumption, FS_Subset, FS_CardinalityType
  <2> QED BY <1>2, <1>6, <2>1, <2>2, <2>3 DEF queue_empty
<1>7. CASE process_read(w) \/ process_write(w) \/ rearm(w)
  <2>1. UNCHANGED <<m_workqueue, m_queue_stat>>
    BY <1>7 DEF process_read, process_write, rearm
  <2>2. worker' \in [Workers -> WorkerState]
    <3>1. CASE process_read(w)
      <4>1. PICK code \in Codes :
              worker' = [worker EXCEPT ![w].code = code,
                                       ![w].pc = IF code = "NO_REQUEST" THEN "modfd" ELSE "write"]
        BY <3>1 DEF process_read, Codes
      <4> QED BY <4>1 DEF WorkerState
    <3>2. CASE process_write(w)
      BY <1>3, <3>2 DEF process_write, WorkerState
    <3>3. CASE rearm(w)
      BY <3>3 DEF rearm, WorkerState, Codes
    <3> QED BY <1>7, <3>1, <3>2, <3>3
  <2>3. lockers' = lockers
    <3>1. /\ worker[w].pc # "lock" /\ worker'[w].pc # "lock"
          /\ \A v \in Workers \ {w} : worker'[v] = worker[v]
      <4>1. CASE process_read(w)
        <5>1. PICK code \in Codes :
                worker' = [worker EXCEPT ![w].code = code,
                                         ![w].pc = IF code = "NO_REQUEST" THEN "modfd" ELSE "write"]
          BY <4>1 DEF process_read, Codes
        <5>2. worker[w].pc = "read"
          BY <4>1 DEF process_read
        <5> QED BY <5>1, <5>2 DEF WorkerState
      <4>2. CASE process_write(w)
        BY <1>3, <4>2 DEF process_write, WorkerState
      <4>3. CASE rearm(w)
        BY <1>3, <4>3 DEF rearm, WorkerState
      <4> QED BY <1>7, <4>1, <4>2, <4>3
    <3> QED BY <3>1 DEF lockers
  <2> QED BY <1>1, <1>2, <1>3, <2>1, <2>2, <2>3
<1> QED BY <1>4, <1>5, <1>6, <1>7 DEF Worker

(* A signal may wake a worker for nothing, which does no harm. *)
LEMMA TimeStep ==
  ASSUME PoolInv, time_passes
  PROVE  PoolInv'
<1> USE DEF PoolInv, PoolTypeOK
<1>1. UNCHANGED <<m_workqueue, m_queue_stat, main>> /\ (worker' = worker \/ handler_runs)
  BY DEF time_passes, mainVars
<1>2. CASE worker' = worker
  BY <1>1, <1>2 DEF NoTaskIsStranded
<1>3. ASSUME NEW w \in Workers, worker[w].pc = "wait", worker' = [worker EXCEPT ![w].pc = "lock"]
      PROVE  PoolInv'
  <2>1. Cardinality(lockers') = Cardinality(lockers) + 1 /\ Cardinality(lockers) \in Nat
    BY <1>3, OneMoreLocks, Lockers
  <2>2. worker' \in [Workers -> WorkerState]
    BY <1>3 DEF WorkerState
  <2>3. Len(m_workqueue) \in Nat
    OBVIOUS
  <2> QED BY <1>1, <2>1, <2>2, <2>3 DEF NoTaskIsStranded, lockers
<1> QED BY <1>1, <1>2, <1>3 DEF handler_runs

LEMMA PoolInit == Init => PoolInv
<1> SUFFICES ASSUME Init PROVE PoolInv
  OBVIOUS
<1>1. PoolTypeOK
  BY DEF Init, PoolTypeOK, WorkerState, Codes
<1>2. lockers = {}
  BY DEF Init, lockers
<1>3. Cardinality({}) = 0
  BY FS_EmptySet
<1>4. m_workqueue = <<>> /\ m_queue_stat = 0 /\ main = "epoll_wait"
  BY DEF Init
<1>5. Len(m_workqueue) = 0
  BY <1>4
<1>6. NoTaskIsStranded <=>
        Len(m_workqueue) <= m_queue_stat + Cardinality(lockers) + (IF main = "post" THEN 1 ELSE 0)
  BY DEF NoTaskIsStranded, lockers
<1>7. NoTaskIsStranded
  BY <1>2, <1>3, <1>4, <1>5, <1>6
<1> QED BY <1>1, <1>7 DEF PoolInv

LEMMA PoolStep == PoolInv /\ [Next]_vars => PoolInv'
<1> SUFFICES ASSUME PoolInv, [Next]_vars PROVE PoolInv'
  OBVIOUS
<1>1. CASE UNCHANGED <<main, m_workqueue, m_queue_stat, worker>>
  BY <1>1 DEF PoolInv, PoolTypeOK, NoTaskIsStranded
<1>2. ASSUME NEW c \in Clients, client_acts(c) PROVE PoolInv'
  BY <1>1, <1>2 DEF client_acts, mainVars, poolVars
<1>3. CASE UNCHANGED vars
  BY <1>1, <1>3 DEF vars, mainVars, poolVars
<1> QED BY <1>2, <1>3, MainStep, WorkerStep, TimeStep DEF Next

(* As long as a request is queued, there is a unit of the semaphore for it, a
   worker about to look, or a post to come. *)
THEOREM NoTaskStranded == Spec => []NoTaskIsStranded
<1>1. PoolInv => NoTaskIsStranded
  BY DEF PoolInv
<1> QED BY PoolInit, PoolStep, <1>1, PTL DEF Spec

(* The next alarm is due, or its signal is on its way to a tick. *)
THEOREM TicksGoOnForever == Spec => []TicksGoOn
<1>1. Init => TicksGoOn
  BY DEF Init, TicksGoOn
<1>2. TicksGoOn /\ [Next]_vars => TicksGoOn'
  <2> SUFFICES ASSUME TicksGoOn, [Next]_vars PROVE TicksGoOn'
    OBVIOUS
  <2> USE DEF TicksGoOn, mainVars, clockVars
  <2>1. CASE Main
    <3>1. CASE epoll_wait \/ accept \/ accept_too_many \/ recv_signals \/ post \/ end_of_events
      BY <3>1 DEF epoll_wait, accept, accept_too_many, recv_signals, post, end_of_events, handle
    <3>2. CASE tick \/ end_of_tick \/ leave_main
      BY <3>2 DEF tick, end_of_tick, leave_main, set_alarm
    <3>3. ASSUME NEW fd \in Fds,
                 \/ hang_up(fd) \/ read_and_append(fd) \/ read_fails(fd)
                 \/ write_continues(fd) \/ write_ends(fd)
          PROVE  TicksGoOn'
      BY <3>3 DEF hang_up, read_and_append, read_fails, write_continues, write_ends, handle
    <3> QED BY <2>1, <3>1, <3>2, <3>3 DEF Main
  <2>2. ASSUME NEW w \in Workers, Worker(w) PROVE TicksGoOn'
    BY <2>2 DEF Worker
  <2>3. ASSUME NEW c \in Clients, client_acts(c) PROVE TicksGoOn'
    BY <2>3 DEF client_acts
  <2>4. CASE time_passes
    BY <2>4 DEF time_passes
  <2>5. CASE UNCHANGED vars
    BY <2>5 DEF vars
  <2> QED BY <2>1, <2>2, <2>3, <2>4, <2>5 DEF Next
<1> QED BY <1>1, <1>2, PTL DEF Spec
-----------------------------------------------------------------------------
(* The timers and the connections, whatever becomes of either. *)

(* The clients at the other ends of the descriptors. *)
served(cn) == {c \in Clients : \E fd \in Fds : cn[fd] = c}

(* The list lst is s, and has a timer for each connection of cn, which leads
   back to its descriptor; a timer that is free has no time and no data. *)
Serves(lst, s, cn) ==
  /\ Represents(lst, s) /\ ToSet(s) = served(cn)
  /\ lst.expire \in [Clients -> 0 .. Timeout]
  /\ \A c \in Clients, fd \in Fds : lst.user_data[c] = fd <=> cn[fd] = c
  /\ \A c \in Clients \ served(cn) : lst.expire[c] = 0

Conns == [Fds -> Clients \cup {Null}]

LEMMA NullIsNobody == Null \notin Clients /\ Null \notin Fds /\ Fds \subseteq Nat /\ Timeout \in Nat
BY NullAssumption, FdsAssumption, BoundsAssumption

LEMMA Limits == m_max_requests \in Nat /\ RD_BUF_SIZE \in Nat /\ MaxUnread \in Nat /\ MAX_FD \in Nat
BY FdsAssumption, BoundsAssumption

(* A timer in the list has a position. *)
LEMMA ServedAt ==
  ASSUME NEW lst, NEW s, NEW cn, Serves(lst, s, cn), NEW c \in served(cn)
  PROVE  \E k \in 1 .. Len(s) : s[k] = c
<1>1. s \in Seq(Clients) /\ c \in ToSet(s)
  BY DEF Serves, Represents
<1> QED BY <1>1 DEF ToSet

(* A renewed timer goes to the end of its time. *)
LEMMA RenewedServes ==
  ASSUME NEW lst, NEW s, NEW cn, Serves(lst, s, cn), NEW c \in served(cn)
  PROVE  \E r : Serves(adjust_timer(PutOff(lst, c, Timeout), c), r, cn)
<1>1. PICK k \in 1 .. Len(s) : s[k] = c
  BY ServedAt
<1>2. /\ Represents(lst, s) /\ lst \in List /\ ToSet(s) = served(cn) /\ c \in Clients
      /\ lst.expire \in [Clients -> 0 .. Timeout] /\ Timeout \in Nat
  BY NullIsNobody DEF Serves, Represents, served
<1>3. lst.expire[s[k]] <= Timeout
  BY <1>1, <1>2
<1> DEFINE l == PutOff(lst, c, Timeout)
           l1 == adjust_timer(l, c)
           r  == Inserted(RemoveAt(s, k), l.expire, c)
<1>4. Represents(l1, r) /\ ToSet(r) = ToSet(s)
  BY <1>1, <1>2, <1>3, AdjustTimer
<1>5. l1.expire = [lst.expire EXCEPT ![c] = Timeout] /\ l1.user_data = lst.user_data
  BY <1>1, <1>2, AdjustTimerKeepsData
<1> HIDE DEF l1, r
<1>6. l1.expire \in [Clients -> 0 .. Timeout]
      /\ \A u \in Clients \ served(cn) : l1.expire[u] = lst.expire[u]
  BY <1>2, <1>5
<1>7. Serves(l1, r, cn)
  BY <1>2, <1>4, <1>5, <1>6 DEF Serves
<1> QED BY <1>7 DEF l1

(* A closed connection takes its timer with it. *)
LEMMA ClosedServes ==
  ASSUME NEW lst, NEW s, NEW cn \in Conns, Serves(lst, s, cn), NEW fd \in Fds, cn[fd] # Null
  PROVE  \E r : Serves(del_timer(lst, cn[fd]), r, [cn EXCEPT ![fd] = Null])
<1> DEFINE c   == cn[fd]
           cn1 == [cn EXCEPT ![fd] = Null]
           l1  == del_timer(lst, c)
<1>1. c \in Clients /\ c \in served(cn)
  BY DEF Conns, served
<1> HIDE DEF c
<1>2. PICK k \in 1 .. Len(s) : s[k] = c
  BY <1>1, ServedAt
<1> DEFINE r == RemoveAt(s, k)
<1>3. /\ Represents(lst, s) /\ lst \in List /\ ToSet(s) = served(cn)
      /\ lst.expire \in [Clients -> 0 .. Timeout] /\ lst.user_data \in [Clients -> Fds \cup {Null}]
      /\ \A u \in Clients, f \in Fds : lst.user_data[u] = f <=> cn[f] = u
      /\ \A u \in Clients \ served(cn) : lst.expire[u] = 0
  BY DEF Serves, Represents, List
<1>4. Represents(l1, r) /\ c \notin ToSet(r) /\ ToSet(s) = ToSet(r) \cup {c}
  BY <1>2, <1>3, DelTimer
<1>5. l1.expire = [lst.expire EXCEPT ![c] = 0] /\ l1.user_data = [lst.user_data EXCEPT ![c] = Null]
  BY <1>1, <1>3, DelTimerData
<1> HIDE DEF l1, r
<1>6. cn1[fd] = Null /\ \A f \in Fds \ {fd} : cn1[f] = cn[f] /\ cn[f] # c
  BY <1>1, <1>3 DEF Conns, c
<1> HIDE DEF cn1
<1>7. served(cn1) = served(cn) \ {c}
  <2>1. cn[fd] = c
    BY DEF c
  <2> QED BY <1>1, <1>6, <2>1, NullIsNobody DEF served
<1>8. ToSet(r) = served(cn1)
  <2>1. \A u : u \in ToSet(r) <=> u \in ToSet(s) /\ u # c
    BY <1>4, Zenon
  <2>2. \A u : u \in served(cn1) <=> u \in served(cn) /\ u # c
    BY <1>7, Zenon
  <2>3. \A u : u \in ToSet(r) <=> u \in served(cn1)
    <3>1. \A u : u \in ToSet(s) <=> u \in served(cn)
      BY <1>3
    <3> QED BY <2>1, <2>2, <3>1, Zenon
  <2> QED BY <2>3, Zenon
<1>9. l1.expire \in [Clients -> 0 .. Timeout]
  BY <1>1, <1>3, <1>5, NullIsNobody
<1>10. ASSUME NEW u \in Clients, NEW f \in Fds PROVE l1.user_data[u] = f <=> cn1[f] = u
  <2>1. cn[fd] = c
    BY DEF c
  <2> QED BY <1>1, <1>3, <1>5, <1>6, <2>1, NullIsNobody
<1>11. \A u \in Clients \ served(cn1) : l1.expire[u] = 0
  BY <1>1, <1>3, <1>5, <1>7
<1> QED BY <1>4, <1>8, <1>9, <1>10, <1>11 DEF Serves, l1, cn1, c

(* The list with the time and the data of a new timer. *)
Allotted(l, t, fd, e) == [l EXCEPT !.user_data[t] = fd, !.expire[t] = e]

(* A new connection brings a timer. *)
LEMMA AcceptedServes ==
  ASSUME NEW lst, NEW s, NEW cn \in Conns, Serves(lst, s, cn), NEW fd \in Fds, cn[fd] = Null,
         NEW c \in Clients \ served(cn)
  PROVE  \E r : Serves(add_timer(Allotted(lst, c, fd, Timeout), c), r, [cn EXCEPT ![fd] = c])
<1> DEFINE cn1 == [cn EXCEPT ![fd] = c]
           l   == Allotted(lst, c, fd, Timeout)
           l1  == add_timer(l, c)
           r   == Inserted(s, l.expire, c)
<1>1. /\ Represents(lst, s) /\ lst \in List /\ ToSet(s) = served(cn) /\ s \in Seq(Clients)
      /\ lst.expire \in [Clients -> 0 .. Timeout] /\ lst.user_data \in [Clients -> Fds \cup {Null}]
      /\ \A u \in Clients, f \in Fds : lst.user_data[u] = f <=> cn[f] = u
      /\ \A u \in Clients \ served(cn) : lst.expire[u] = 0
  BY DEF Serves, Represents, List
<1>2. /\ l \in List /\ l.head = lst.head /\ l.tail = lst.tail /\ l.next = lst.next /\ l.prev = lst.prev
      /\ l.expire = [lst.expire EXCEPT ![c] = Timeout] /\ l.user_data = [lst.user_data EXCEPT ![c] = fd]
  BY <1>1, NullIsNobody DEF Allotted, List
<1> HIDE DEF l
<1>3. \A i \in DOMAIN s : s[i] # c /\ s[i] \in Clients
  BY <1>1 DEF ToSet
<1>4. Represents(l, s)
  <2>1. \A i \in DOMAIN s : l.expire[s[i]] = lst.expire[s[i]]
    BY <1>1, <1>2, <1>3
  <2>2. Sorted(s, l.expire)
    BY <1>1, <2>1 DEF Represents, IsList, Sorted
  <2> QED BY <1>1, <1>2, <2>2 DEF Represents, IsList
<1>5. Represents(l1, r) /\ ToSet(r) = ToSet(s) \cup {c}
  BY <1>1, <1>4, AddTimer
<1>6. l1.expire = l.expire /\ l1.user_data = l.user_data
  BY <1>2, AddTimerKeepsData
<1> HIDE DEF l1, r
<1>7. cn1[fd] = c /\ \A f \in Fds \ {fd} : cn1[f] = cn[f] /\ cn[f] # c
  BY DEF Conns, served
<1> HIDE DEF cn1
<1>8. served(cn1) = served(cn) \cup {c}
  BY <1>7, NullIsNobody DEF served
<1>9. l1.expire \in [Clients -> 0 .. Timeout]
  BY <1>1, <1>2, <1>6, NullIsNobody
<1>10. ASSUME NEW u \in Clients, NEW f \in Fds PROVE l1.user_data[u] = f <=> cn1[f] = u
  <2>1. cn[fd] # u
    BY NullIsNobody
  <2> QED BY <1>1, <1>2, <1>6, <1>7, <2>1
<1>11. \A u \in Clients \ served(cn1) : l1.expire[u] = 0
  BY <1>1, <1>2, <1>6, <1>8
<1>12. Serves(l1, r, cn1)
  BY <1>1, <1>5, <1>8, <1>9, <1>10, <1>11 DEF Serves
<1> QED BY <1>12 DEF l1, l, cn1

(* Time brings all timers nearer by the same, but not past the present. *)
LEMMA ElapsedServes ==
  ASSUME NEW lst, NEW s, NEW cn, Serves(lst, s, cn)
  PROVE  Serves([lst EXCEPT !.expire = [t \in Clients |-> IF @[t] = 0 THEN 0 ELSE @[t] - 1]], s, cn)
<1> DEFINE later == [t \in Clients |-> IF lst.expire[t] = 0 THEN 0 ELSE lst.expire[t] - 1]
           l == [lst EXCEPT !.expire = later]
<1>1. /\ Represents(lst, s) /\ lst \in List /\ s \in Seq(Clients)
      /\ lst.expire \in [Clients -> 0 .. Timeout] /\ Timeout \in Nat
  BY NullIsNobody DEF Serves, Represents
<1>2. /\ later \in [Clients -> 0 .. Timeout]
      /\ \A t, u \in Clients : lst.expire[t] <= lst.expire[u] => later[t] <= later[u]
      /\ \A t \in Clients : lst.expire[t] = 0 => later[t] = 0
  <2>1. \A t \in Clients : lst.expire[t] \in 0 .. Timeout
    BY <1>1
  <2> QED BY <1>1, <2>1
<1> HIDE DEF later
<1>3. /\ l \in List /\ l.head = lst.head /\ l.tail = lst.tail /\ l.next = lst.next /\ l.prev = lst.prev
      /\ l.expire = later /\ l.user_data = lst.user_data
  <2>1. later \in [Clients -> Nat]
    BY <1>1, <1>2
  <2> QED BY <1>1, <2>1 DEF List
<1> HIDE DEF l
<1>4. \A i \in DOMAIN s : s[i] \in Clients
  BY <1>1
<1>5. Sorted(s, later)
  BY <1>1, <1>2, <1>4 DEF Represents, IsList, Sorted
<1>6. Represents(l, s)
  BY <1>1, <1>3, <1>5 DEF Represents, IsList
<1>7. Serves(l, s, cn)
  BY <1>2, <1>3, <1>6 DEF Serves
<1> QED BY <1>7 DEF l, later

(* The first timer leads to a connection; without one there is none, and the
   list is as it was at the start. *)
LEMMA HeadIsServed ==
  ASSUME NEW lst, NEW s, NEW cn \in Conns, Serves(lst, s, cn)
  PROVE  /\ lst.head # Null => lst.user_data[lst.head] \in Fds /\ cn[lst.user_data[lst.head]] = lst.head
         /\ lst.head = Null => lst = EmptyList
<1>1. /\ lst \in List /\ s \in Seq(Clients) /\ IsList(lst, s) /\ ToSet(s) = served(cn)
      /\ \A u \in Clients, f \in Fds : lst.user_data[u] = f <=> cn[f] = u
      /\ \A u \in Clients \ served(cn) : lst.expire[u] = 0
  BY DEF Serves, Represents
<1>2. lst.head = at(s, 1) /\ DOMAIN s = 1 .. Len(s) /\ Len(s) \in Nat
  BY <1>1 DEF IsList
<1>3. CASE Len(s) > 0
  <2>1. lst.head = s[1] /\ s[1] \in Clients /\ s[1] \in ToSet(s)
    BY <1>1, <1>2, <1>3 DEF at, ToSet
  <2>2. PICK fd \in Fds : cn[fd] = s[1]
    BY <1>1, <2>1 DEF served
  <2> QED BY <1>1, <2>1, <2>2, NullIsNobody
<1>4. CASE Len(s) = 0
  <2>1. lst.head = Null /\ lst.tail = Null
    BY <1>1, <1>2, <1>4 DEF at, IsList
  <2>2. ToSet(s) = {}
    BY <1>2, <1>4 DEF ToSet
  <2>3. \A t \in Clients : lst.prev[t] = Null /\ lst.next[t] = Null /\ lst.expire[t] = 0
    BY <1>1, <2>2 DEF IsList
  <2>4. \A t \in Clients : lst.user_data[t] = Null
    BY <1>1, <2>2 DEF List, served
  <2>5. lst.prev \in Links /\ lst.next \in Links /\ lst.expire \in [Clients -> Nat]
        /\ lst.user_data \in [Clients -> Fds \cup {Null}]
    BY <1>1 DEF List
  <2>6. lst.prev = [t \in Clients |-> Null] /\ lst.next = [t \in Clients |-> Null]
        /\ lst.user_data = [t \in Clients |-> Null] /\ lst.expire = [t \in Clients |-> 0]
    BY <2>3, <2>4, <2>5 DEF Links
  <2> QED BY <1>1, <2>1, <2>6 DEF List, EmptyList
<1> QED BY <1>2, <1>3, <1>4
-----------------------------------------------------------------------------
(* The server's invariant. *)

StateOK ==
  /\ main \in {"epoll_wait", "events", "post", "tick", "exit"}
  /\ batch \subseteq Event
  /\ timeout \in BOOLEAN
  /\ users \in [Fds -> HttpConn]
  /\ m_workqueue \in Seq(Fds) /\ Len(m_workqueue) <= m_max_requests + 1
  /\ worker \in [Workers -> WorkerState]
  /\ refused \subseteq Clients
  /\ conn \in Conns
  /\ armed \in [Fds -> {"off", "IN", "OUT"}]
  /\ peer \in [Clients -> {"new", "backlog", "open", "shut", "closed"}]
  /\ unread \in [Clients -> 0..MaxUnread]
  /\ pipe \in BOOLEAN /\ alarm \in BOOLEAN

TimersInv == \E s : Serves(m_timer_lst, s, conn)

(* A slot of users[] is that of the connection, or free and mute. *)
SlotsInv ==
  \A fd \in Fds :
    IF conn[fd] = Null THEN users[fd].m_sock_fd = Null /\ armed[fd] = "off"
    ELSE /\ users[fd].m_sock_fd = fd /\ users[fd].timer = conn[fd]
         /\ peer[conn[fd]] \in {"open", "shut"}

UserCntInv == m_user_cnt = Cardinality(Open) /\ m_user_cnt \in 0 .. MAX_FD

(* A batch reports each descriptor once, and only open ones. *)
BatchInv ==
  /\ \A e \in batch : e.fd \in Fds => conn[e.fd] # Null
  /\ \A d, e \in batch : d.fd = e.fd => d = e
  /\ main \notin {"events", "post"} => batch = {}

(* A worker has a request exactly while it is at one. *)
WorkersInv == \A w \in Workers : worker[w].request \in Fds <=> worker[w].pc \in {"read", "write", "modfd"}

ServerInv == StateOK /\ TimersInv /\ SlotsInv /\ UserCntInv /\ BatchInv /\ WorkersInv /\ MutedIsInHand

(* Different descriptors have different clients. *)
LEMMA ClientsDiffer ==
  ASSUME StateOK, TimersInv
  PROVE  \A f, g \in Fds : conn[f] = conn[g] /\ conn[f] # Null => f = g
<1>1. PICK s : Serves(m_timer_lst, s, conn)
  BY DEF TimersInv
<1>2. \A c \in Clients, fd \in Fds : m_timer_lst.user_data[c] = fd <=> conn[fd] = c
  BY <1>1 DEF Serves
<1>3. \A fd \in Fds : conn[fd] # Null => conn[fd] \in Clients
  BY DEF StateOK, Conns
<1> QED BY <1>2, <1>3

LEMMA OpenIsFinite == IsFiniteSet(Open) /\ Cardinality(Open) \in Nat
<1>1. Open \subseteq Fds /\ IsFiniteSet(Fds)
  BY FdsAssumption DEF Open
<1> QED BY <1>1, FS_Subset, FS_CardinalityType

(* What conn_close and del_timer do to an open connection. *)
LEMMA Closed ==
  ASSUME StateOK, SlotsInv, NEW fd \in Fds, conn[fd] # Null, NEW lst, close_connection(fd, lst)
  PROVE  /\ m_timer_lst' = del_timer(lst, conn[fd])
         /\ m_user_cnt' = m_user_cnt - 1
         /\ users' = [users EXCEPT ![fd].m_sock_fd = Null]
         /\ conn' = [conn EXCEPT ![fd] = Null]
         /\ armed' = [armed EXCEPT ![fd] = "off"]
         /\ peer' = [peer EXCEPT ![conn[fd]] = "closed"]
         /\ unread' = [unread EXCEPT ![conn[fd]] = 0]
         /\ refused' = refused \ {conn[fd]}
         /\ conn[fd] \in Clients
<1>1. users[fd].m_sock_fd # Null /\ users[fd].timer = conn[fd]
  BY NullIsNobody DEF SlotsInv
<1> QED BY <1>1 DEF close_connection, timers_without, StateOK, Conns

(* Whatever list a connection is closed with, if only it has the timers: the
   invariant holds of what is left. *)
LEMMA CloseKeepsInv ==
  ASSUME ServerInv, NEW fd \in Fds, conn[fd] # Null, NEW lst, NEW s, Serves(lst, s, conn),
         close_connection(fd, lst), batch' \subseteq batch, \A e \in batch' : e.fd # fd,
         batch \ batch' \subseteq {e \in batch : e.fd = fd},
         UNCHANGED <<main, timeout, m_workqueue, worker, pipe, alarm>>
  PROVE  ServerInv'
<1> DEFINE c == conn[fd]
<1>1. /\ m_timer_lst' = del_timer(lst, c)
      /\ m_user_cnt' = m_user_cnt - 1
      /\ users' = [users EXCEPT ![fd].m_sock_fd = Null]
      /\ conn' = [conn EXCEPT ![fd] = Null]
      /\ armed' = [armed EXCEPT ![fd] = "off"]
      /\ peer' = [peer EXCEPT ![c] = "closed"]
      /\ unread' = [unread EXCEPT ![c] = 0]
      /\ refused' = refused \ {c}
      /\ c \in Clients
  BY Closed DEF ServerInv
<1>2. StateOK'
  <2>1. users' \in [Fds -> HttpConn]
    <3>1. users \in [Fds -> HttpConn] /\ users' = [users EXCEPT ![fd].m_sock_fd = Null]
      BY <1>1 DEF ServerInv, StateOK
    <3>2. [users[fd] EXCEPT !.m_sock_fd = Null] \in HttpConn
      BY <3>1 DEF HttpConn
    <3> QED BY <3>1, <3>2
  <2>2. conn' \in Conns /\ armed' \in [Fds -> {"off", "IN", "OUT"}] /\ refused' \subseteq Clients
    BY <1>1 DEF ServerInv, StateOK, Conns
  <2>3. /\ peer' \in [Clients -> {"new", "backlog", "open", "shut", "closed"}]
        /\ unread' \in [Clients -> 0..MaxUnread]
    BY <1>1, Limits DEF ServerInv, StateOK
  <2> QED BY <2>1, <2>2, <2>3 DEF ServerInv, StateOK
<1>3. conn'[fd] = Null /\ \A f \in Fds \ {fd} : conn'[f] = conn[f] /\ conn[f] # c
  BY <1>1, ClientsDiffer DEF ServerInv, StateOK, Conns
<1>4. TimersInv'
  BY <1>1, ClosedServes DEF ServerInv, StateOK, TimersInv
<1>5. SlotsInv'
  <2> SUFFICES ASSUME NEW f \in Fds
               PROVE  IF conn'[f] = Null THEN users'[f].m_sock_fd = Null /\ armed'[f] = "off"
                      ELSE /\ users'[f].m_sock_fd = f /\ users'[f].timer = conn'[f]
                           /\ peer'[conn'[f]] \in {"open", "shut"}
    BY DEF SlotsInv
  <2>1. users \in [Fds -> HttpConn] /\ armed \in [Fds -> {"off", "IN", "OUT"}]
    BY DEF ServerInv, StateOK
  <2>2. CASE f = fd
    BY <1>1, <1>3, <2>1, <2>2 DEF HttpConn
  <2>3. CASE f # fd
    <3>1. users'[f] = users[f] /\ armed'[f] = armed[f] /\ conn'[f] = conn[f]
      BY <1>1, <1>3, <2>1, <2>3
    <3>2. conn[f] # Null => peer'[conn[f]] = peer[conn[f]]
      BY <1>1, <1>3, <2>3 DEF ServerInv, StateOK, Conns
    <3> QED BY <3>1, <3>2 DEF ServerInv, SlotsInv
  <2> QED BY <2>2, <2>3
<1>6. UserCntInv'
  <2>1. Open' = Open \ {fd} /\ fd \in Open
    BY <1>3 DEF Open
  <2>2. Cardinality(Open') = Cardinality(Open) - 1
    BY <2>1, OpenIsFinite, FS_RemoveElement
  <2>3. Cardinality(Open') \in Nat
    BY <2>1, OpenIsFinite, FS_Subset, FS_CardinalityType
  <2>4. MAX_FD \in Nat
    BY FdsAssumption
  <2> QED BY <1>1, <2>2, <2>3, <2>4 DEF ServerInv, UserCntInv
<1>7. BatchInv'
  BY <1>3 DEF ServerInv, BatchInv
<1>8. WorkersInv'
  BY DEF ServerInv, WorkersInv
<1>9. MutedIsInHand'
  <2> SUFFICES ASSUME NEW f \in Open', armed'[f] = "off"
               PROVE  \/ \E e \in batch' : e.fd = f
                      \/ \E i \in DOMAIN m_workqueue : m_workqueue[i] = f
                      \/ \E w \in Workers : worker[w].request = f
                      \/ conn'[f] \in refused'
    BY DEF MutedIsInHand
  <2>1. f \in Fds \ {fd} /\ f \in Open /\ conn'[f] = conn[f] /\ conn[f] # c
    BY <1>3 DEF Open
  <2>2. armed[f] = "off"
    BY <1>1, <2>1 DEF ServerInv, StateOK
  <2>3. \A e \in batch : e.fd = f => e \in batch'
    BY <2>1
  <2>4. conn[f] \in refused => conn'[f] \in refused'
    BY <1>1, <2>1
  <2>5. \/ \E e \in batch : e.fd = f
        \/ \E i \in DOMAIN m_workqueue : m_workqueue[i] = f
        \/ \E w \in Workers : worker[w].request = f
        \/ conn[f] \in refused
    BY <2>1, <2>2 DEF ServerInv, MutedIsInHand
  <2> QED BY <2>3, <2>4, <2>5
<1> QED BY <1>2, <1>4, <1>5, <1>6, <1>7, <1>8, <1>9 DEF ServerInv

LEMMA RenewedTimer ==
  ASSUME ServerInv, NEW fd \in Fds, conn[fd] # Null
  PROVE  \E r : Serves(renewed(fd), r, conn)
<1>1. users[fd].timer = conn[fd] /\ conn[fd] \in Clients /\ conn[fd] \in served(conn)
  BY DEF ServerInv, SlotsInv, StateOK, Conns, served
<1>2. renewed(fd) = adjust_timer(PutOff(m_timer_lst, conn[fd], Timeout), conn[fd])
  BY <1>1, Zenon DEF renewed, PutOff
<1> QED BY <1>1, <1>2, RenewedServes DEF ServerInv, TimersInv

(* An event that is handled is of an open connection, and the only one of it. *)
LEMMA Handled ==
  ASSUME ServerInv, NEW fd \in Fds, NEW ev, handle(fd, ev)
  PROVE  /\ conn[fd] # Null /\ main = "events" /\ timeout' = timeout
         /\ batch' \subseteq batch /\ \A e \in batch' : e.fd # fd
         /\ batch \ batch' \subseteq {e \in batch : e.fd = fd}
         /\ \A e \in batch : e.fd # fd => e \in batch'
<1> DEFINE d == [fd |-> fd, ev |-> ev]
<1>1. d \in batch /\ d.fd = fd /\ batch' = batch \ {d} /\ main = "events" /\ timeout' = timeout
  BY DEF handle
<1> HIDE DEF d
<1> QED BY <1>1 DEF ServerInv, BatchInv

(* The four ways in which a connection is closed. *)
LEMMA ClosingStep ==
  ASSUME ServerInv, tick \/ \E fd \in Fds : hang_up(fd) \/ read_fails(fd) \/ write_ends(fd)
  PROVE  ServerInv'
<1>1. ASSUME NEW fd \in Fds, hang_up(fd) PROVE ServerInv'
  <2>1. handle(fd, "HUP") /\ main' = main /\ close_connection(fd, m_timer_lst)
        /\ UNCHANGED <<m_workqueue, worker, pipe, alarm>>
    BY <1>1 DEF hang_up, clockVars
  <2>2. PICK s : Serves(m_timer_lst, s, conn)
    BY DEF ServerInv, TimersInv
  <2>3. /\ conn[fd] # Null /\ timeout' = timeout /\ batch' \subseteq batch
        /\ (\A e \in batch' : e.fd # fd) /\ batch \ batch' \subseteq {e \in batch : e.fd = fd}
    BY <2>1, Handled
  <2> QED BY <2>1, <2>2, <2>3, CloseKeepsInv
<1>2. ASSUME NEW fd \in Fds, read_fails(fd) \/ write_ends(fd) PROVE ServerInv'
  <2>1. (handle(fd, "IN") \/ handle(fd, "OUT")) /\ main' = main /\ close_connection(fd, renewed(fd))
        /\ UNCHANGED <<m_workqueue, worker, pipe, alarm>>
    BY <1>2 DEF read_fails, write_ends, clockVars
  <2>2. /\ conn[fd] # Null /\ timeout' = timeout /\ batch' \subseteq batch
        /\ (\A e \in batch' : e.fd # fd) /\ batch \ batch' \subseteq {e \in batch : e.fd = fd}
    BY <2>1, Handled
  <2>3. PICK s : Serves(renewed(fd), s, conn)
    BY <2>2, RenewedTimer
  <2> QED BY <2>1, <2>2, <2>3, CloseKeepsInv
<1>3. ASSUME tick PROVE ServerInv'
  <2> DEFINE fd == m_timer_lst.user_data[m_timer_lst.head]
  <2>1. /\ main = "tick" /\ main' = main /\ m_timer_lst.head # Null /\ close_connection(fd, m_timer_lst)
        /\ UNCHANGED <<batch, timeout, m_workqueue, worker, pipe, alarm>>
    BY <1>3 DEF tick, clockVars
  <2>2. PICK s : Serves(m_timer_lst, s, conn)
    BY DEF ServerInv, TimersInv
  <2>3. fd \in Fds /\ conn[fd] # Null
    <3>1. conn \in Conns
      BY DEF ServerInv, StateOK
    <3> QED BY <2>1, <2>2, <3>1, HeadIsServed
  <2>4. batch = {}
    BY <2>1 DEF ServerInv, BatchInv
  <2> HIDE DEF fd
  <2> QED BY <2>1, <2>2, <2>3, <2>4, CloseKeepsInv
<1> QED BY <1>1, <1>2, <1>3

(* What epoll_wait reports, it mutes. *)
LEMMA ReportStep ==
  ASSUME ServerInv, epoll_wait
  PROVE  ServerInv'
<1>1. PICK writable \in SUBSET Fds :
        /\ batch' = {event(fd) : fd \in {fd \in Fds : ready(fd, writable)}}
             \cup (IF backlog # {} THEN {[fd |-> listen_fd, ev |-> "IN"]} ELSE {})
             \cup (IF pipe THEN {[fd |-> pipefd, ev |-> "IN"]} ELSE {})
        /\ armed' = [fd \in Fds |-> IF fd \in {f \in Fds : ready(f, writable)} THEN "off" ELSE armed[fd]]
  BY DEF epoll_wait
<1>2. /\ main = "epoll_wait" /\ main' = "events"
      /\ UNCHANGED <<timeout, m_workqueue, worker, refused, users, m_user_cnt, m_timer_lst, conn,
                     peer, unread, pipe, alarm>>
  BY DEF epoll_wait, poolVars, clientVars, clockVars
<1> DEFINE reported == {fd \in Fds : ready(fd, writable)}
<1>3. \A fd \in reported : conn[fd] # Null /\ armed[fd] \in {"IN", "OUT"}
  BY DEF ready, ServerInv, SlotsInv, StateOK
<1>4. \A fd \in reported : event(fd) \in Event /\ event(fd).fd = fd
  BY <1>3 DEF event, Event
<1> HIDE DEF reported
<1>5. \A e \in batch' : \/ \E fd \in reported : e = event(fd)
                        \/ e = [fd |-> listen_fd, ev |-> "IN"]
                        \/ e = [fd |-> pipefd, ev |-> "IN"]
  BY <1>1 DEF reported
<1>6. reported \subseteq Fds /\ listen_fd \notin Fds /\ pipefd \notin Fds /\ listen_fd # pipefd
  BY FdsAssumption DEF reported
<1>7. StateOK'
  <2>1. batch' \subseteq Event
    <3>1. [fd |-> listen_fd, ev |-> "IN"] \in Event /\ [fd |-> pipefd, ev |-> "IN"] \in Event
      BY DEF Event
    <3> QED BY <1>4, <1>5, <3>1
  <2>2. armed' \in [Fds -> {"off", "IN", "OUT"}]
    BY <1>1 DEF ServerInv, StateOK
  <2> QED BY <1>2, <2>1, <2>2 DEF ServerInv, StateOK
<1>8. TimersInv' /\ UserCntInv' /\ WorkersInv'
  BY <1>2 DEF ServerInv, TimersInv, UserCntInv, WorkersInv, Open
<1>9. SlotsInv'
  BY <1>1, <1>2 DEF ServerInv, SlotsInv
<1>10. BatchInv'
  <2>1. \A e \in batch' : e.fd \in Fds => conn'[e.fd] # Null
    BY <1>2, <1>3, <1>4, <1>5, <1>6
  <2>2. ASSUME NEW d \in batch', NEW e \in batch', d.fd = e.fd PROVE d = e
    BY <1>4, <1>5, <1>6, <2>2
  <2> QED BY <1>2, <2>1, <2>2 DEF BatchInv
<1>11. MutedIsInHand'
  <2> SUFFICES ASSUME NEW f \in Open, armed'[f] = "off"
               PROVE  \/ \E e \in batch' : e.fd = f
                      \/ \E i \in DOMAIN m_workqueue : m_workqueue[i] = f
                      \/ \E w \in Workers : worker[w].request = f
                      \/ conn[f] \in refused
    BY <1>2 DEF MutedIsInHand, Open
  <2>1. CASE f \in reported
    <3>1. event(f) \in batch'
      BY <1>1, <2>1 DEF reported
    <3> QED BY <1>4, <2>1, <3>1
  <2>2. CASE f \notin reported
    <3>1. armed[f] = "off"
      BY <1>1, <2>2 DEF reported, Open
    <3>2. batch = {}
      BY <1>2 DEF ServerInv, BatchInv
    <3> QED BY <3>1, <3>2 DEF ServerInv, MutedIsInHand
  <2> QED BY <2>1, <2>2
<1> QED BY <1>7, <1>8, <1>9, <1>10, <1>11 DEF ServerInv

(* While the server takes connections there is a descriptor for the next. *)
LEMMA FreeDescriptor ==
  ASSUME ServerInv, m_user_cnt < MAX_FD
  PROVE  conn_fd \in Fds /\ conn[conn_fd] = Null
<1> DEFINE free == {fd \in Fds : conn[fd] = Null}
<1>1. Open # Fds
  BY Limits, OpenIsFinite, FdsAssumption DEF ServerInv, UserCntInv
<1>2. free # {} /\ free \in SUBSET Nat
  BY <1>1, NullIsNobody DEF Open
<1> HIDE DEF free
<1>3. \E x \in free : \A y \in free : x <= y
  BY <1>2, Least
<1>4. Min(free) \in free
  BY <1>3 DEF Min
<1> QED BY <1>4 DEF conn_fd, free

LEMMA ClearedIsConn ==
  ASSUME NEW u \in HttpConn
  PROVE  cleared(u) \in HttpConn /\ cleared(u).m_sock_fd = u.m_sock_fd /\ cleared(u).timer = u.timer
<1> DEFINE B == BOOLEAN
           no == FALSE
<1>1. HttpConn = [m_sock_fd : Fds \cup {Null}, timer : Clients \cup {Null},
                  m_rd_idx : 0..RD_BUF_SIZE, bytes_to_send : B, m_linger : B]
  BY DEF HttpConn
<1>2. no \in B
  OBVIOUS
<1>3. cleared(u) = [u EXCEPT !.m_rd_idx = 0, !.bytes_to_send = no, !.m_linger = no]
  BY Zenon DEF cleared
<1> HIDE DEF B, no
<1>4. 0 \in 0..RD_BUF_SIZE
  BY Limits
<1> QED BY <1>1, <1>2, <1>3, <1>4

LEMMA AcceptStep ==
  ASSUME ServerInv, accept
  PROVE  ServerInv'
<1> DEFINE fd == conn_fd
<1>1. PICK c \in backlog :
        /\ conn' = [conn EXCEPT ![fd] = c]
        /\ armed' = [armed EXCEPT ![fd] = "IN"]
        /\ peer' = [peer EXCEPT ![c] = "open"]
        /\ users' = [users EXCEPT ![fd] = [cleared(@) EXCEPT !.m_sock_fd = fd, !.timer = c]]
        /\ m_timer_lst' = add_timer(Allotted(m_timer_lst, c, fd, Timeout), c)
  BY Zenon DEF accept, Allotted
<1>2. /\ m_user_cnt < MAX_FD /\ m_user_cnt' = m_user_cnt + 1 /\ main = "events" /\ main' = main
      /\ batch' = batch \ {[fd |-> listen_fd, ev |-> "IN"]}
      /\ UNCHANGED <<timeout, m_workqueue, worker, refused, unread, pipe, alarm>>
  BY DEF accept, handle, poolVars, clockVars
<1>3. fd \in Fds /\ conn[fd] = Null
  BY <1>2, FreeDescriptor
<1> HIDE DEF fd
<1>4. c \in Clients /\ peer[c] = "backlog" /\ c # Null
  BY <1>1, NullIsNobody DEF backlog
<1>5. c \notin served(conn)
  BY <1>4, NullIsNobody DEF served, ServerInv, SlotsInv
<1>6. conn'[fd] = c /\ \A f \in Fds \ {fd} : conn'[f] = conn[f] /\ conn[f] # c
  BY <1>1, <1>3, <1>4, <1>5 DEF served, ServerInv, StateOK, Conns
<1>7. StateOK'
  <2>1. users' \in [Fds -> HttpConn]
    <3>1. [cleared(users[fd]) EXCEPT !.m_sock_fd = fd, !.timer = c] \in HttpConn
      <4>1. cleared(users[fd]) \in HttpConn
        BY <1>3, ClearedIsConn DEF ServerInv, StateOK
      <4> HIDE DEF cleared
      <4> QED BY <1>3, <1>4, <4>1 DEF HttpConn
    <3> QED BY <1>1, <1>3, <3>1 DEF ServerInv, StateOK
  <2>2. conn' \in Conns /\ armed' \in [Fds -> {"off", "IN", "OUT"}]
    BY <1>1, <1>3, <1>4 DEF ServerInv, StateOK, Conns
  <2>3. peer' \in [Clients -> {"new", "backlog", "open", "shut", "closed"}]
    BY <1>1, <1>4 DEF ServerInv, StateOK
  <2>4. batch' \subseteq Event
    BY <1>2 DEF ServerInv, StateOK
  <2> QED BY <1>2, <2>1, <2>2, <2>3, <2>4 DEF ServerInv, StateOK
<1>8. TimersInv'
  <2>1. conn \in Conns
    BY DEF ServerInv, StateOK
  <2> QED BY <1>1, <1>3, <1>4, <1>5, <2>1, AcceptedServes DEF ServerInv, TimersInv
<1>9. SlotsInv'
  <2> SUFFICES ASSUME NEW f \in Fds
               PROVE  IF conn'[f] = Null THEN users'[f].m_sock_fd = Null /\ armed'[f] = "off"
                      ELSE /\ users'[f].m_sock_fd = f /\ users'[f].timer = conn'[f]
                           /\ peer'[conn'[f]] \in {"open", "shut"}
    BY DEF SlotsInv
  <2>1. users \in [Fds -> HttpConn] /\ armed \in [Fds -> {"off", "IN", "OUT"}]
        /\ peer \in [Clients -> {"new", "backlog", "open", "shut", "closed"}]
    BY DEF ServerInv, StateOK
  <2>2. CASE f = fd
    <3>1. users'[fd] = [cleared(users[fd]) EXCEPT !.m_sock_fd = fd, !.timer = c]
      BY <1>1, <1>3, <2>1
    <3>2. users'[fd].m_sock_fd = fd /\ users'[fd].timer = c
      BY <1>3, <2>1, <3>1 DEF cleared, HttpConn
    <3>3. peer'[c] = "open"
      BY <1>1, <1>4, <2>1
    <3> QED BY <1>4, <1>6, <2>2, <3>2, <3>3
  <2>3. CASE f # fd
    <3>1. users'[f] = users[f] /\ armed'[f] = armed[f] /\ conn'[f] = conn[f]
      BY <1>1, <1>6, <2>1, <2>3
    <3>2. conn[f] # Null => peer'[conn[f]] = peer[conn[f]]
      BY <1>1, <1>6, <2>1, <2>3 DEF ServerInv, StateOK, Conns
    <3> QED BY <3>1, <3>2 DEF ServerInv, SlotsInv
  <2> QED BY <2>2, <2>3
<1>10. UserCntInv'
  <2>1. Open' = Open \cup {fd} /\ fd \notin Open
    BY <1>3, <1>4, <1>6 DEF Open
  <2>2. Cardinality(Open') = Cardinality(Open) + 1
    BY <2>1, OpenIsFinite, FS_AddElement
  <2> QED BY <1>2, <2>2, Limits DEF ServerInv, UserCntInv
<1>11. BatchInv'
  <2>1. \A e \in batch' : e \in batch
    BY <1>2
  <2>2. \A e \in batch' : e.fd \in Fds => conn'[e.fd] # Null
    BY <1>4, <1>6, <2>1 DEF ServerInv, BatchInv
  <2> QED BY <1>2, <2>1, <2>2 DEF ServerInv, BatchInv
<1>12. WorkersInv'
  BY <1>2 DEF ServerInv, WorkersInv
<1>13. MutedIsInHand'
  <2> SUFFICES ASSUME NEW f \in Open', armed'[f] = "off"
               PROVE  \/ \E e \in batch' : e.fd = f
                      \/ \E i \in DOMAIN m_workqueue : m_workqueue[i] = f
                      \/ \E w \in Workers : worker[w].request = f
                      \/ conn'[f] \in refused
    BY <1>2 DEF MutedIsInHand
  <2>1. f \in Fds \ {fd} /\ armed[f] = "off" /\ conn'[f] = conn[f] /\ f \in Open
    BY <1>1, <1>3, <1>6 DEF Open, ServerInv, StateOK
  <2>2. ASSUME NEW e \in batch, e.fd = f PROVE e \in batch'
    <3>1. e # [fd |-> listen_fd, ev |-> "IN"]
      BY <2>1, <2>2, FdsAssumption
    <3> QED BY <1>2, <3>1
  <2> QED BY <2>1, <2>2 DEF ServerInv, MutedIsInHand
<1> QED BY <1>7, <1>8, <1>9, <1>10, <1>11, <1>12, <1>13 DEF ServerInv

(* A step that lets the connections alone, and takes from the batch at most what
   is not theirs. *)
LEMMA QuietKeepsInv ==
  ASSUME ServerInv, StateOK',
         UNCHANGED <<users, m_user_cnt, m_timer_lst, conn, armed, m_workqueue, worker, refused>>,
         \A c \in Clients : peer[c] \in {"open", "shut"} => peer'[c] \in {"open", "shut"},
         batch' \subseteq batch, \A e \in batch : e.fd \in Fds => e \in batch',
         main' \notin {"events", "post"} => batch' = {}
  PROVE  ServerInv'
<1>1. TimersInv' /\ UserCntInv' /\ WorkersInv'
  BY DEF ServerInv, TimersInv, UserCntInv, WorkersInv, Open
<1>2. SlotsInv'
  BY DEF ServerInv, SlotsInv, StateOK, Conns
<1>3. BatchInv'
  BY DEF ServerInv, BatchInv
<1>4. MutedIsInHand'
  <2> SUFFICES ASSUME NEW f \in Open, armed[f] = "off"
               PROVE  \/ \E e \in batch' : e.fd = f
                      \/ \E i \in DOMAIN m_workqueue : m_workqueue[i] = f
                      \/ \E w \in Workers : worker[w].request = f
                      \/ conn[f] \in refused
    BY DEF MutedIsInHand, Open
  <2>1. f \in Fds
    BY DEF Open
  <2> QED BY <2>1 DEF ServerInv, MutedIsInHand
<1> QED BY <1>1, <1>2, <1>3, <1>4 DEF ServerInv

LEMMA QuietStep ==
  ASSUME ServerInv, \/ accept_too_many \/ recv_signals \/ post \/ end_of_events \/ end_of_tick \/ leave_main
                    \/ \E c \in Clients : client_acts(c)
  PROVE  ServerInv'
<1> USE DEF poolVars, connVars, clientVars, clockVars, mainVars
<1>1. CASE accept_too_many
  <2>1. PICK c \in backlog : peer' = [peer EXCEPT ![c] = "closed"]
    BY <1>1 DEF accept_too_many
  <2>2. /\ main' = main /\ main = "events" /\ batch' = batch \ {[fd |-> listen_fd, ev |-> "IN"]}
        /\ UNCHANGED <<timeout, m_workqueue, worker, refused, users, m_user_cnt, m_timer_lst, conn, armed,
                       unread, pipe, alarm>>
    BY <1>1 DEF accept_too_many, handle
  <2>3. \A d \in Clients : peer[d] \in {"open", "shut"} => peer'[d] \in {"open", "shut"}
    BY <2>1 DEF backlog, ServerInv, StateOK
  <2>4. StateOK'
    BY <2>1, <2>2 DEF ServerInv, StateOK, backlog
  <2>5. \A e \in batch : e.fd \in Fds => e \in batch'
    BY <2>2, FdsAssumption
  <2> QED BY <2>2, <2>3, <2>4, <2>5, QuietKeepsInv
<1>2. CASE recv_signals
  <2>1. /\ main' = main /\ main = "events" /\ batch' = batch \ {[fd |-> pipefd, ev |-> "IN"]}
        /\ timeout' = TRUE /\ pipe' = FALSE
        /\ UNCHANGED <<m_workqueue, worker, refused, users, m_user_cnt, m_timer_lst, conn, armed,
                       peer, unread, alarm>>
    BY <1>2 DEF recv_signals
  <2>2. StateOK'
    BY <2>1 DEF ServerInv, StateOK
  <2>3. \A e \in batch : e.fd \in Fds => e \in batch'
    BY <2>1, FdsAssumption
  <2> QED BY <2>1, <2>2, <2>3, QuietKeepsInv
<1>3. CASE post \/ end_of_events \/ end_of_tick \/ leave_main
  <2>1. /\ UNCHANGED <<batch, m_workqueue, worker, refused, users, m_user_cnt, m_timer_lst, conn, armed,
                       peer, unread, pipe>>
        /\ main' \in {"epoll_wait", "events", "tick", "exit"}
    BY <1>3 DEF post, end_of_events, end_of_tick, leave_main
  <2>2. timeout' \in BOOLEAN /\ alarm' \in BOOLEAN
    BY <1>3 DEF post, end_of_events, end_of_tick, leave_main, set_alarm, ServerInv, StateOK
  <2>3. StateOK'
    BY <2>1, <2>2 DEF ServerInv, StateOK
  <2>4. main' \notin {"events", "post"} => batch' = {}
    BY <1>3 DEF post, end_of_events, end_of_tick, leave_main, ServerInv, BatchInv
  <2> QED BY <2>1, <2>3, <2>4, QuietKeepsInv
<1>4. ASSUME NEW c \in Clients, client_acts(c) PROVE ServerInv'
  <2>1. UNCHANGED <<main, batch, timeout, m_workqueue, worker, refused, users, m_user_cnt, m_timer_lst,
                    conn, armed, pipe, alarm>>
    BY <1>4 DEF client_acts
  <2>2. /\ peer' \in [Clients -> {"new", "backlog", "open", "shut", "closed"}]
        /\ unread' \in [Clients -> 0..MaxUnread]
        /\ \A d \in Clients : peer[d] \in {"open", "shut"} => peer'[d] \in {"open", "shut"}
    <3>1. /\ peer \in [Clients -> {"new", "backlog", "open", "shut", "closed"}]
          /\ unread \in [Clients -> 0..MaxUnread]
      BY DEF ServerInv, StateOK
    <3>2. CASE peer[c] = "new" /\ peer' = [peer EXCEPT ![c] = "backlog"] /\ UNCHANGED unread
      BY <3>1, <3>2
    <3>3. CASE peer[c] = "open" /\ peer' = [peer EXCEPT ![c] = "shut"] /\ UNCHANGED unread
      BY <3>1, <3>3
    <3>4. CASE /\ unread[c] < MaxUnread /\ unread' = [unread EXCEPT ![c] = @ + 1]
               /\ UNCHANGED peer
      <4>1. unread[c] + 1 \in 0..MaxUnread
        BY <3>1, <3>4, Limits
      <4> QED BY <3>1, <3>4, <4>1
    <3> QED BY <1>4, <3>2, <3>3, <3>4 DEF client_acts
  <2>3. StateOK'
    BY <2>1, <2>2 DEF ServerInv, StateOK
  <2> QED BY <2>1, <2>2, <2>3, QuietKeepsInv DEF ServerInv, BatchInv
<1> QED BY <1>1, <1>2, <1>3, <1>4

(* A connection whose event has been handled well: it is armed, queued or
   refused, and its slot remains its own. *)
LEMMA ServeKeepsInv ==
  ASSUME ServerInv, StateOK', NEW fd \in Fds, conn[fd] # Null, m_timer_lst' = renewed(fd),
         UNCHANGED <<m_user_cnt, conn, peer, worker>>,
         \A f \in Fds : users'[f].m_sock_fd = users[f].m_sock_fd /\ users'[f].timer = users[f].timer,
         main = "events", main' \in {"events", "post"},
         batch' \subseteq batch, \A e \in batch : e.fd # fd => e \in batch',
         \A f \in Fds \ {fd} : armed'[f] = armed[f],
         \A f \in Fds : \A i \in DOMAIN m_workqueue :
           m_workqueue[i] = f => \E j \in DOMAIN m_workqueue' : m_workqueue'[j] = f,
         refused \ {conn[fd]} \subseteq refused',
         \/ armed'[fd] # "off"
         \/ \E i \in DOMAIN m_workqueue' : m_workqueue'[i] = fd
         \/ conn[fd] \in refused'
  PROVE  ServerInv'
<1>1. TimersInv'
  BY RenewedTimer DEF TimersInv
<1>2. SlotsInv'
  <2> SUFFICES ASSUME NEW f \in Fds
               PROVE  IF conn[f] = Null THEN users'[f].m_sock_fd = Null /\ armed'[f] = "off"
                      ELSE /\ users'[f].m_sock_fd = f /\ users'[f].timer = conn[f]
                           /\ peer[conn[f]] \in {"open", "shut"}
    BY DEF SlotsInv
  <2> QED BY DEF ServerInv, SlotsInv
<1>3. UserCntInv' /\ WorkersInv'
  BY DEF ServerInv, UserCntInv, WorkersInv, Open
<1>4. BatchInv'
  BY DEF ServerInv, BatchInv
<1>5. MutedIsInHand'
  <2> SUFFICES ASSUME NEW f \in Open, armed'[f] = "off"
               PROVE  \/ \E e \in batch' : e.fd = f
                      \/ \E i \in DOMAIN m_workqueue' : m_workqueue'[i] = f
                      \/ \E w \in Workers : worker[w].request = f
                      \/ conn[f] \in refused'
    BY DEF MutedIsInHand, Open
  <2>1. f \in Fds /\ conn[f] # Null
    BY DEF Open
  <2>2. CASE f = fd
    BY <2>2
  <2>3. CASE f # fd
    <3>1. conn[f] # conn[fd] /\ armed[f] = "off"
      BY <2>1, <2>3, ClientsDiffer DEF ServerInv
    <3>2. \/ \E e \in batch : e.fd = f
          \/ \E i \in DOMAIN m_workqueue : m_workqueue[i] = f
          \/ \E w \in Workers : worker[w].request = f
          \/ conn[f] \in refused
      BY <3>1 DEF ServerInv, MutedIsInHand
    <3> QED BY <2>1, <2>3, <3>1, <3>2
  <2> QED BY <2>2, <2>3
<1> QED BY <1>1, <1>2, <1>3, <1>4, <1>5 DEF ServerInv

LEMMA ReadStep ==
  ASSUME ServerInv, NEW fd \in Fds, read_and_append(fd)
  PROVE  ServerInv'
<1> DEFINE c == conn[fd]
<1>1. /\ conn[fd] # Null /\ main = "events" /\ timeout' = timeout
      /\ batch' \subseteq batch /\ \A e \in batch : e.fd # fd => e \in batch'
  BY Handled DEF read_and_append
<1>2. /\ users[fd].m_rd_idx + unread[c] < RD_BUF_SIZE
      /\ users' = [users EXCEPT ![fd].m_rd_idx = @ + unread[c]]
      /\ unread' = [unread EXCEPT ![c] = 0]
      /\ m_timer_lst' = renewed(fd)
      /\ UNCHANGED <<worker, m_user_cnt, conn, armed, peer, pipe, alarm>>
  BY DEF read_and_append, read_succeeds, clockVars
<1>3. \/ /\ Len(m_workqueue) > m_max_requests /\ main' = main
         /\ refused' = refused \cup {c} /\ m_workqueue' = m_workqueue
      \/ /\ ~(Len(m_workqueue) > m_max_requests) /\ main' = "post"
         /\ m_workqueue' = Append(m_workqueue, fd) /\ refused' = refused
  BY DEF read_and_append, queue_full
<1>4. /\ users \in [Fds -> HttpConn] /\ unread \in [Clients -> 0..MaxUnread] /\ c \in Clients
      /\ m_workqueue \in Seq(Fds) /\ Len(m_workqueue) <= m_max_requests + 1
  BY <1>1 DEF ServerInv, StateOK, Conns
<1> HIDE DEF c
<1>5. users' \in [Fds -> HttpConn]
      /\ \A f \in Fds : users'[f].m_sock_fd = users[f].m_sock_fd /\ users'[f].timer = users[f].timer
  <2>1. users[fd].m_rd_idx + unread[c] \in 0..RD_BUF_SIZE
    <3>1. users[fd].m_rd_idx \in 0..RD_BUF_SIZE /\ unread[c] \in 0..MaxUnread
      BY <1>4 DEF HttpConn
    <3> QED BY <1>2, <3>1, Limits
  <2> QED BY <1>2, <1>4, <2>1 DEF HttpConn
<1>6. /\ m_workqueue' \in Seq(Fds) /\ Len(m_workqueue') <= m_max_requests + 1
      /\ \A f \in Fds : \A i \in DOMAIN m_workqueue :
           m_workqueue[i] = f => \E j \in DOMAIN m_workqueue' : m_workqueue'[j] = f
      /\ c \in refused' \/ \E i \in DOMAIN m_workqueue' : m_workqueue'[i] = fd
  <2>1. CASE m_workqueue' = m_workqueue /\ refused' = refused \cup {c}
    BY <1>4, <2>1
  <2>2. CASE m_workqueue' = Append(m_workqueue, fd) /\ ~(Len(m_workqueue) > m_max_requests)
    <3>1. /\ m_workqueue' \in Seq(Fds) /\ Len(m_workqueue') = Len(m_workqueue) + 1
          /\ \A i \in 1 .. Len(m_workqueue) : m_workqueue'[i] = m_workqueue[i]
          /\ m_workqueue'[Len(m_workqueue) + 1] = fd
      BY <1>4, <2>2
    <3>2. /\ DOMAIN m_workqueue = 1 .. Len(m_workqueue)
          /\ DOMAIN m_workqueue' = 1 .. Len(m_workqueue) + 1
          /\ Len(m_workqueue) \in Nat
      BY <1>4, <3>1
    <3>3. Len(m_workqueue') <= m_max_requests + 1
      BY <2>2, <3>1, <3>2, Limits
    <3>4. \A i \in DOMAIN m_workqueue : i \in DOMAIN m_workqueue' /\ m_workqueue'[i] = m_workqueue[i]
      BY <3>1, <3>2
    <3>5. Len(m_workqueue) + 1 \in DOMAIN m_workqueue'
      BY <3>2
    <3> QED BY <3>1, <3>3, <3>4, <3>5
  <2> QED BY <1>3, <2>1, <2>2
<1>7. StateOK'
  <2>1. unread' \in [Clients -> 0..MaxUnread] /\ refused' \subseteq Clients
    BY <1>2, <1>3, <1>4, Limits DEF ServerInv, StateOK
  <2> QED BY <1>1, <1>2, <1>3, <1>5, <1>6, <2>1 DEF ServerInv, StateOK
<1>8. refused \ {conn[fd]} \subseteq refused'
  BY <1>3
<1> QED BY <1>1, <1>2, <1>3, <1>5, <1>6, <1>7, <1>8, ServeKeepsInv DEF c

LEMMA WriteStep ==
  ASSUME ServerInv, NEW fd \in Fds, write_continues(fd)
  PROVE  ServerInv'
<1>1. /\ conn[fd] # Null /\ main = "events" /\ main' = main /\ timeout' = timeout
      /\ batch' \subseteq batch /\ \A e \in batch : e.fd # fd => e \in batch'
  BY Handled DEF write_continues
<1>2. /\ m_timer_lst' = renewed(fd) /\ refused' = refused \ {conn[fd]}
      /\ UNCHANGED <<m_workqueue, worker, m_user_cnt, conn, peer, unread, pipe, alarm>>
  BY DEF write_continues, clientVars, clockVars
<1>3. users \in [Fds -> HttpConn] /\ armed \in [Fds -> {"off", "IN", "OUT"}]
      /\ users[fd].m_sock_fd = fd /\ fd # Null
  BY <1>1, NullIsNobody DEF ServerInv, StateOK, SlotsInv
<1>4. PICK ev \in {"IN", "OUT"} : armed' = [armed EXCEPT ![fd] = ev]
  BY <1>3 DEF write_continues, after_answer, modfd
<1>5. users' \in [Fds -> HttpConn]
      /\ \A f \in Fds : users'[f].m_sock_fd = users[f].m_sock_fd /\ users'[f].timer = users[f].timer
  <2>1. users' = users \/ users' = [users EXCEPT ![fd] = cleared(users[fd])]
    BY DEF write_continues, after_answer
  <2>2. CASE users' = [users EXCEPT ![fd] = cleared(users[fd])]
    BY <1>3, <2>2, ClearedIsConn
  <2> QED BY <1>3, <2>1, <2>2
<1>6. StateOK'
  <2>1. armed' \in [Fds -> {"off", "IN", "OUT"}] /\ batch' \subseteq Event /\ refused' \subseteq Clients
    BY <1>1, <1>2, <1>3, <1>4 DEF ServerInv, StateOK
  <2> QED BY <1>1, <1>2, <1>5, <2>1 DEF ServerInv, StateOK
<1>7. armed'[fd] # "off" /\ \A f \in Fds \ {fd} : armed'[f] = armed[f]
  BY <1>3, <1>4
<1> QED BY <1>1, <1>2, <1>5, <1>6, <1>7, ServeKeepsInv

(* A worker's steps: of the connection, it changes what to send and, at the end,
   what the registration waits for. *)
LEMMA WorkerKeepsInv ==
  ASSUME ServerInv, StateOK', WorkersInv', MutedIsInHand',
         UNCHANGED <<main, batch, m_user_cnt, m_timer_lst, conn, peer>>,
         \A f \in Fds : users'[f].m_sock_fd = users[f].m_sock_fd /\ users'[f].timer = users[f].timer,
         \A f \in Fds : conn[f] = Null => armed'[f] = armed[f]
  PROVE  ServerInv'
<1>1. TimersInv' /\ UserCntInv' /\ BatchInv'
  BY DEF ServerInv, TimersInv, UserCntInv, BatchInv, Open
<1>2. SlotsInv'
  BY DEF ServerInv, SlotsInv
<1> QED BY <1>1, <1>2 DEF ServerInv

LEMMA WorkersStep ==
  ASSUME ServerInv, NEW w \in Workers, Worker(w)
  PROVE  ServerInv'
<1>1. UNCHANGED <<main, batch, timeout, m_user_cnt, m_timer_lst, conn, peer, unread, pipe, alarm>>
  BY DEF Worker, mainVars, clientVars, clockVars
<1>2. /\ worker \in [Workers -> WorkerState] /\ worker[w] \in WorkerState
      /\ users \in [Fds -> HttpConn] /\ m_workqueue \in Seq(Fds)
      /\ Len(m_workqueue) <= m_max_requests + 1 /\ Len(m_workqueue) \in Nat
      /\ armed \in [Fds -> {"off", "IN", "OUT"}]
  BY DEF ServerInv, StateOK
<1>3. CASE sem_wait(w) \/ queue_empty(w)
  <2>1. UNCHANGED <<m_workqueue, refused, users, armed>>
    BY <1>3 DEF sem_wait, queue_empty
  <2>2. PICK pc \in {"wait", "lock"} : worker' = [worker EXCEPT ![w].pc = pc] /\ worker[w].pc \in {"wait", "lock"}
    BY <1>3 DEF sem_wait, queue_empty
  <2>3. worker' \in [Workers -> WorkerState]
    BY <1>2, <2>2 DEF WorkerState
  <2>4. \A v \in Workers : worker'[v].request = worker[v].request
                           /\ (worker'[v].pc = worker[v].pc \/ {worker'[v].pc, worker[v].pc} \subseteq {"wait", "lock"})
    BY <1>2, <2>2 DEF WorkerState
  <2>5. StateOK'
    BY <1>1, <2>1, <2>3 DEF ServerInv, StateOK
  <2>6. WorkersInv'
    BY <2>4 DEF ServerInv, WorkersInv
  <2>7. MutedIsInHand'
    BY <1>1, <2>1, <2>4 DEF ServerInv, MutedIsInHand, Open
  <2> QED BY <1>1, <2>1, <2>5, <2>6, <2>7, WorkerKeepsInv
<1>4. CASE next_request(w)
  <2>1. /\ worker[w].pc = "lock" /\ m_workqueue # <<>> /\ m_workqueue' = Tail(m_workqueue)
        /\ worker' = [worker EXCEPT ![w].pc = "read", ![w].request = Head(m_workqueue)]
        /\ UNCHANGED <<refused, users, armed>>
    BY <1>4 DEF next_request
  <2>2. /\ Head(m_workqueue) \in Fds /\ Head(m_workqueue) = m_workqueue[1]
        /\ m_workqueue' \in Seq(Fds) /\ Len(m_workqueue') = Len(m_workqueue) - 1
        /\ \A i \in 1 .. Len(m_workqueue') : m_workqueue'[i] = m_workqueue[i + 1]
    BY <1>2, <2>1
  <2>3. worker' \in [Workers -> WorkerState]
    BY <1>2, <2>1, <2>2 DEF WorkerState
  <2>4. /\ worker'[w].request = m_workqueue[1] /\ worker'[w].pc = "read"
        /\ \A v \in Workers \ {w} : worker'[v] = worker[v]
    BY <1>2, <2>1, <2>2 DEF WorkerState
  <2>5. StateOK'
    <3>1. Len(m_workqueue') <= m_max_requests + 1
      BY <1>2, <2>2, Limits
    <3> QED BY <1>1, <2>1, <2>2, <2>3, <3>1 DEF ServerInv, StateOK
  <2>6. WorkersInv'
    BY <2>2, <2>4 DEF ServerInv, WorkersInv
  <2>7. MutedIsInHand'
    <3> SUFFICES ASSUME NEW f \in Open, armed[f] = "off"
                 PROVE  \/ \E e \in batch : e.fd = f
                        \/ \E i \in DOMAIN m_workqueue' : m_workqueue'[i] = f
                        \/ \E v \in Workers : worker'[v].request = f
                        \/ conn[f] \in refused
      BY <1>1, <2>1 DEF MutedIsInHand, Open
    <3>1. \/ \E e \in batch : e.fd = f
          \/ \E i \in DOMAIN m_workqueue : m_workqueue[i] = f
          \/ \E v \in Workers : worker[v].request = f
          \/ conn[f] \in refused
      BY DEF ServerInv, MutedIsInHand
    <3>2. ASSUME NEW i \in DOMAIN m_workqueue, m_workqueue[i] = f
          PROVE  \/ \E j \in DOMAIN m_workqueue' : m_workqueue'[j] = f
                 \/ \E v \in Workers : worker'[v].request = f
      <4>1. CASE i = 1
        BY <2>4, <3>2, <4>1
      <4>2. CASE i # 1
        <5>1. i - 1 \in 1 .. Len(m_workqueue') /\ (i - 1) + 1 = i
          BY <1>2, <2>2, <4>2
        <5>2. m_workqueue'[i - 1] = f /\ DOMAIN m_workqueue' = 1 .. Len(m_workqueue')
          BY <2>2, <3>2, <5>1
        <5> QED BY <5>1, <5>2
      <4> QED BY <4>1, <4>2
    <3>3. ASSUME NEW v \in Workers, worker[v].request = f PROVE v # w
      <4>1. f \in Fds
        BY DEF Open
      <4> QED BY <2>1, <3>3, <4>1 DEF ServerInv, WorkersInv
    <3> QED BY <2>4, <3>1, <3>2, <3>3
  <2> QED BY <1>1, <2>1, <2>5, <2>6, <2>7, WorkerKeepsInv
<1>5. ASSUME process_read(w) \/ process_write(w) PROVE ServerInv'
  <2> DEFINE fd == worker[w].request
  <2>1. worker[w].pc \in {"read", "write"} /\ UNCHANGED <<m_workqueue, refused, armed>>
    BY <1>5 DEF process_read, process_write
  <2>2. fd \in Fds
    BY <2>1 DEF ServerInv, WorkersInv
  <2>3. PICK pc \in {"write", "modfd"}, code \in Codes :
          worker' = [worker EXCEPT ![w].code = code, ![w].pc = pc]
    <3>1. CASE process_read(w)
      <4>1. PICK code \in Codes : worker' = [worker EXCEPT ![w].code = code,
                                    ![w].pc = IF code = "NO_REQUEST" THEN "modfd" ELSE "write"]
        BY <3>1 DEF process_read, Codes
      <4> QED BY <4>1
    <3>2. CASE process_write(w)
      <4>1. worker' = [worker EXCEPT ![w].pc = "modfd"] /\ worker[w].code \in Codes
        BY <1>2, <3>2 DEF process_write, WorkerState
      <4>2. worker' = [worker EXCEPT ![w].code = worker[w].code, ![w].pc = "modfd"]
        BY <1>2, <4>1 DEF WorkerState
      <4> QED BY <4>1, <4>2
    <3> QED BY <1>5, <3>1, <3>2
  <2>4. worker' \in [Workers -> WorkerState]
    BY <1>2, <2>3 DEF WorkerState
  <2>5. /\ \A v \in Workers : worker'[v].request = worker[v].request
        /\ worker'[w].pc \in {"write", "modfd"} /\ \A v \in Workers \ {w} : worker'[v].pc = worker[v].pc
    BY <1>2, <2>3 DEF WorkerState
  <2>6. users' \in [Fds -> HttpConn]
        /\ \A f \in Fds : users'[f].m_sock_fd = users[f].m_sock_fd /\ users'[f].timer = users[f].timer
    <3> HIDE DEF fd
    <3>1. CASE users' = users
      BY <1>2, <3>1
    <3>2. ASSUME NEW keep_alive \in BOOLEAN, users' = [users EXCEPT ![fd].m_linger = keep_alive]
          PROVE  <2>6
      BY <1>2, <2>2, <3>2 DEF HttpConn
    <3>3. ASSUME NEW b \in BOOLEAN, users' = [users EXCEPT ![fd].bytes_to_send = b]
          PROVE  <2>6
      BY <1>2, <2>2, <3>3 DEF HttpConn
    <3>4. process_read(w) => users' = users \/ \E keep_alive \in BOOLEAN :
                                                 users' = [users EXCEPT ![fd].m_linger = keep_alive]
      BY DEF process_read, fd
    <3>5. process_write(w) => \E b \in BOOLEAN : users' = [users EXCEPT ![fd].bytes_to_send = b]
      <4> SUFFICES ASSUME process_write(w) PROVE \E b \in BOOLEAN : users' = [users EXCEPT ![fd].bytes_to_send = b]
        OBVIOUS
      <4> DEFINE b == users[fd].bytes_to_send \/ worker[w].code = "FILE_REQUEST"
      <4>1. users' = [users EXCEPT ![fd].bytes_to_send = b]
        BY Zenon DEF process_write, fd
      <4>2. b \in BOOLEAN
        BY Zenon
      <4> HIDE DEF b
      <4> QED BY <4>1, <4>2
    <3> QED BY <1>5, <3>1, <3>2, <3>3, <3>4, <3>5
  <2>7. StateOK'
    BY <1>1, <2>1, <2>4, <2>6 DEF ServerInv, StateOK
  <2>8. WorkersInv'
    BY <2>1, <2>5 DEF ServerInv, WorkersInv
  <2>9. MutedIsInHand'
    BY <1>1, <2>1, <2>5 DEF ServerInv, MutedIsInHand, Open
  <2> QED BY <1>1, <2>1, <2>6, <2>7, <2>8, <2>9, WorkerKeepsInv
<1>6. CASE rearm(w)
  <2> DEFINE fd == worker[w].request
  <2>1. worker[w].pc = "modfd" /\ UNCHANGED <<m_workqueue, users>> /\ refused' = refused \ {conn[fd]}
        /\ worker' = [worker EXCEPT ![w] = [pc |-> "wait", request |-> Null, code |-> "NO_REQUEST"]]
    BY <1>6 DEF rearm
  <2>2. fd \in Fds
    BY <2>1 DEF ServerInv, WorkersInv
  <2>3. \/ conn[fd] = Null /\ armed' = armed
        \/ conn[fd] # Null /\ \E ev \in {"IN", "OUT"} : armed' = [armed EXCEPT ![fd] = ev]
    <3>1. \E ev \in {"IN", "OUT"} : armed' = modfd(users[fd], ev)
      BY <1>6 DEF rearm
    <3> HIDE DEF fd
    <3>2. users[fd].m_sock_fd = IF conn[fd] = Null THEN Null ELSE fd
      BY <2>2 DEF ServerInv, SlotsInv
    <3> QED BY <2>2, <3>1, <3>2, NullIsNobody DEF modfd
  <2>4. worker' \in [Workers -> WorkerState]
    BY <1>2, <2>1 DEF WorkerState, Codes
  <2>5. worker'[w].request = Null /\ worker'[w].pc = "wait" /\ \A v \in Workers \ {w} : worker'[v] = worker[v]
    BY <1>2, <2>1
  <2> HIDE DEF fd
  <2>6. StateOK'
    <3>1. armed' \in [Fds -> {"off", "IN", "OUT"}] /\ refused' \subseteq Clients
      BY <1>2, <2>1, <2>3 DEF ServerInv, StateOK
    <3> QED BY <1>1, <2>1, <2>4, <3>1 DEF ServerInv, StateOK
  <2>7. WorkersInv'
    BY <2>5, NullIsNobody DEF ServerInv, WorkersInv
  <2>8. \A f \in Fds : f # fd => armed'[f] = armed[f]
    BY <1>2, <2>2, <2>3
  <2>9. MutedIsInHand'
    <3> SUFFICES ASSUME NEW f \in Open, armed'[f] = "off"
                 PROVE  \/ \E e \in batch : e.fd = f
                        \/ \E i \in DOMAIN m_workqueue : m_workqueue[i] = f
                        \/ \E v \in Workers : worker'[v].request = f
                        \/ conn[f] \in refused'
      BY <1>1, <2>1 DEF MutedIsInHand, Open
    <3>1. f \in Fds /\ conn[f] # Null
      BY DEF Open
    <3>2. f # fd
      BY <1>2, <2>2, <2>3, <3>1
    <3>3. conn[f] # conn[fd] /\ armed[f] = "off"
      BY <2>2, <2>8, <3>1, <3>2, ClientsDiffer DEF ServerInv
    <3>4. \A v \in Workers : worker[v].request = f => v # w
      BY <3>2 DEF fd
    <3>5. \/ \E e \in batch : e.fd = f
          \/ \E i \in DOMAIN m_workqueue : m_workqueue[i] = f
          \/ \E v \in Workers : worker[v].request = f
          \/ conn[f] \in refused
      BY <3>3 DEF ServerInv, MutedIsInHand
    <3> QED BY <2>1, <2>5, <3>3, <3>4, <3>5
  <2> QED BY <1>1, <2>1, <2>2, <2>3, <2>6, <2>7, <2>8, <2>9, WorkerKeepsInv
<1> QED BY <1>3, <1>4, <1>5, <1>6 DEF Worker

(* Time passes: all timers come nearer, and a signal may wake a worker. *)
LEMMA ElapseStep ==
  ASSUME ServerInv, time_passes
  PROVE  ServerInv'
<1>1. /\ m_timer_lst' = [m_timer_lst EXCEPT !.expire = [t \in Clients |-> IF @[t] = 0 THEN 0 ELSE @[t] - 1]]
      /\ UNCHANGED <<main, batch, timeout, m_workqueue, refused, users, m_user_cnt, conn, armed, peer, unread>>
      /\ alarm' = FALSE /\ (pipe' = TRUE \/ pipe' = pipe) /\ (worker' = worker \/ handler_runs)
  BY DEF time_passes, mainVars, clientVars
<1>2. worker \in [Workers -> WorkerState]
  BY DEF ServerInv, StateOK
<1>3. /\ worker' \in [Workers -> WorkerState]
      /\ \A v \in Workers : worker'[v].request = worker[v].request
                            /\ (worker'[v].pc = worker[v].pc \/ {worker'[v].pc, worker[v].pc} \subseteq {"wait", "lock"})
  <2>1. CASE worker' = worker
    BY <1>2, <2>1
  <2>2. ASSUME NEW w \in Workers, worker[w].pc = "wait", worker' = [worker EXCEPT ![w].pc = "lock"]
        PROVE  <1>3
    BY <1>2, <2>2 DEF WorkerState
  <2> QED BY <1>1, <2>1, <2>2 DEF handler_runs
<1>4. StateOK'
  BY <1>1, <1>3 DEF ServerInv, StateOK
<1>5. TimersInv'
  BY <1>1, ElapsedServes DEF ServerInv, TimersInv
<1>6. SlotsInv' /\ UserCntInv' /\ BatchInv'
  BY <1>1 DEF ServerInv, SlotsInv, UserCntInv, BatchInv, Open
<1>7. WorkersInv'
  BY <1>3 DEF ServerInv, WorkersInv
<1>8. MutedIsInHand'
  BY <1>1, <1>3 DEF ServerInv, MutedIsInHand, Open
<1> QED BY <1>4, <1>5, <1>6, <1>7, <1>8 DEF ServerInv

LEMMA ServerInit == Init => ServerInv
<1> SUFFICES ASSUME Init PROVE ServerInv
  OBVIOUS
<1> USE DEF Init
<1>1. StateOK
  <2>1. [fd \in Fds |-> NoConnection] \in [Fds -> HttpConn]
    <3> DEFINE B == BOOLEAN
               no == FALSE
    <3>1. no \in B /\ HttpConn = [m_sock_fd : Fds \cup {Null}, timer : Clients \cup {Null},
                                  m_rd_idx : 0..RD_BUF_SIZE, bytes_to_send : B, m_linger : B]
      BY DEF HttpConn
    <3>2. NoConnection = [m_sock_fd |-> Null, timer |-> Null, m_rd_idx |-> 0,
                          bytes_to_send |-> no, m_linger |-> no]
      BY Zenon DEF NoConnection
    <3> HIDE DEF B, no
    <3>3. 0 \in 0..RD_BUF_SIZE
      BY Limits
    <3> QED BY <3>1, <3>2, <3>3
  <2>2. <<>> \in Seq(Fds) /\ Len(<<>>) <= m_max_requests + 1
    BY Limits
  <2>3. [w \in Workers |-> [pc |-> "wait", request |-> Null, code |-> "NO_REQUEST"]] \in [Workers -> WorkerState]
    BY DEF WorkerState, Codes
  <2>4. conn \in Conns /\ armed \in [Fds -> {"off", "IN", "OUT"}]
    BY DEF Conns
  <2>5. peer \in [Clients -> {"new", "backlog", "open", "shut", "closed"}] /\ unread \in [Clients -> 0..MaxUnread]
    BY Limits
  <2> QED BY <2>1, <2>2, <2>3, <2>4, <2>5 DEF StateOK
<1>2. served(conn) = {} /\ Open = {}
  BY NullIsNobody DEF served, Open
<1>3. TimersInv
  <2>1. EmptyList \in List
    BY DEF EmptyList, List, Links
  <2>2. <<>> \in Seq(Clients) /\ Distinct(<<>>) /\ ToSet(<<>>) = {}
    BY DEF Distinct, ToSet
  <2>3. IsList(EmptyList, <<>>)
    BY <2>2 DEF IsList, EmptyList, at, Sorted
  <2>4. Serves(EmptyList, <<>>, conn)
    <3>1. EmptyList.expire \in [Clients -> 0..Timeout] /\ \A c \in Clients : EmptyList.expire[c] = 0
      BY NullIsNobody DEF EmptyList
    <3>2. \A c \in Clients, fd \in Fds : EmptyList.user_data[c] = fd <=> conn[fd] = c
      BY NullIsNobody DEF EmptyList
    <3> HIDE DEF Init
    <3> QED BY <1>2, <2>1, <2>2, <2>3, <3>1, <3>2 DEF Serves, Represents
  <2> QED BY <2>4 DEF TimersInv
<1>4. SlotsInv
  BY DEF SlotsInv, NoConnection
<1>5. UserCntInv
  BY <1>2, FS_EmptySet, Limits DEF UserCntInv
<1>6. BatchInv /\ MutedIsInHand
  BY <1>2 DEF BatchInv, MutedIsInHand
<1>7. WorkersInv
  BY NullIsNobody DEF WorkersInv
<1> QED BY <1>1, <1>3, <1>4, <1>5, <1>6, <1>7 DEF ServerInv

LEMMA ServerStep == ServerInv /\ [Next]_vars => ServerInv'
<1> SUFFICES ASSUME ServerInv, [Next]_vars PROVE ServerInv'
  OBVIOUS
<1>1. CASE Main
  BY <1>1, ReportStep, AcceptStep, QuietStep, ClosingStep, ReadStep, WriteStep DEF Main
<1>2. CASE UNCHANGED vars
  BY <1>2 DEF vars, mainVars, poolVars, connVars, clientVars, clockVars, ServerInv, StateOK, TimersInv,
              SlotsInv, UserCntInv, BatchInv, WorkersInv, MutedIsInHand, Open
<1> QED BY <1>1, <1>2, WorkersStep, QuietStep, ElapseStep DEF Next

LEMMA ServerInvariant == Spec => []ServerInv
BY ServerInit, ServerStep, PTL DEF Spec

(* Every variable keeps its type: in particular no counter, buffer or queue of
   the server exceeds its limit. *)
THEOREM TypeCorrect == Spec => []TypeOK
<1>1. ServerInv /\ PoolInv => TypeOK
  <2> SUFFICES ASSUME ServerInv, PoolInv PROVE TypeOK
    OBVIOUS
  <2>1. PICK s : Serves(m_timer_lst, s, conn)
    BY DEF ServerInv, TimersInv
  <2>2. /\ m_timer_lst.head \in Clients \cup {Null} /\ m_timer_lst.tail \in Clients \cup {Null}
        /\ m_timer_lst.prev \in [Clients -> Clients \cup {Null}]
        /\ m_timer_lst.next \in [Clients -> Clients \cup {Null}]
        /\ m_timer_lst.user_data \in [Clients -> Fds \cup {Null}]
        /\ m_timer_lst.expire \in [Clients -> 0..Timeout]
    BY <2>1 DEF Serves, Represents, List, Links
  <2> QED BY <2>2 DEF ServerInv, PoolInv, PoolTypeOK, StateOK, Conns, UserCntInv, WorkerState, TypeOK
<1> QED BY <1>1, ServerInvariant, PoolInit, PoolStep, PTL DEF Spec

(* However slots of users[] are reused while workers hold them: the timers are
   those of the open connections, one each, in order, and the connections are
   counted (http_conn.cpp:70-94, 120-127). *)
THEOREM TimersAreOfConnections == Spec => []TimersFollowConnections
<1>1. ServerInv => TimersFollowConnections
  <2> SUFFICES ASSUME ServerInv PROVE TimersFollowConnections
    OBVIOUS
  <2>1. PICK s : Serves(m_timer_lst, s, conn)
    BY DEF ServerInv, TimersInv
  <2>2. /\ s \in Seq(Clients) /\ Distinct(s) /\ IsList(m_timer_lst, s) /\ ToSet(s) = served(conn)
        /\ \A c \in Clients, fd \in Fds : m_timer_lst.user_data[c] = fd <=> conn[fd] = c
    BY <2>1 DEF Serves, Represents
  <2>3. \A fd \in Open : fd \in Fds /\ conn[fd] \in Clients
    BY DEF Open, ServerInv, StateOK, Conns
  <2>4. {conn[fd] : fd \in Open} = served(conn)
    BY <2>3, NullIsNobody DEF served, Open
  <2>5. s \in SetToSeqs({conn[fd] : fd \in Open})
    <3>1. served(conn) \in SUBSET Clients
      BY DEF served
    <3> QED BY <2>2, <2>4, <3>1, DistinctIsOrder
  <2>6. \A fd \in Open : /\ users[fd].m_sock_fd = fd /\ users[fd].timer = conn[fd]
                         /\ m_timer_lst.user_data[conn[fd]] = fd
    BY <2>2, <2>3 DEF Open, ServerInv, SlotsInv
  <2> QED BY <2>2, <2>5, <2>6 DEF ServerInv, UserCntInv, TimersFollowConnections
<1> QED BY <1>1, ServerInvariant, PTL

(* A muted connection is in somebody's hands (http_conn.cpp:44-62). *)
THEOREM NoConnectionIsForgotten == Spec => []MutedIsInHand
<1>1. ServerInv => MutedIsInHand
  BY DEF ServerInv
<1> QED BY <1>1, ServerInvariant, PTL

(* An emptied list is as a new one; and the operations keep lists sorted. *)
THEOREM ListStaysSorted == Spec => []TimerListIsSorted
<1>1. ServerInv => TimerListIsSorted
  <2> SUFFICES ASSUME ServerInv, m_timer_lst.head = Null
               PROVE  m_timer_lst = EmptyList /\ ListIsSortedSequence
    BY DEF TimerListIsSorted
  <2>1. m_timer_lst = EmptyList
    BY HeadIsServed DEF ServerInv, TimersInv, StateOK
  <2>2. 0..2 \in SUBSET Nat
    OBVIOUS
  <2> QED BY <2>1, <2>2, OperationsKeepAnyOrder DEF ListIsSortedSequence
<1> QED BY <1>1, ServerInvariant, PTL
=============================================================================
