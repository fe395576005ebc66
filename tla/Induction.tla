------------------------------ MODULE Induction ------------------------------
(***************************************************************************)
(* Induction over the natural numbers, stated with sets: the proofs take   *)
(* for the set the numbers that have the property in question.  And what   *)
(* it gives for sequences that are put together from others.               *)
(***************************************************************************)
EXTENDS Integers, SequencesExt, WellFoundedInduction, SequenceTheorems, TLAPS

(* Every set of numbers has a least element. *)
LEMMA Least ==
  ASSUME NEW S \in SUBSET Nat, S # {}
  PROVE  \E n \in S : \A k \in S : n <= k
<1> DEFINE Less == {p \in Nat \X Nat : p[1] < p[2]}
<1>1. IsWellFoundedOn(Less, Nat)
  BY NatLessThanWellFounded DEF OpToRel
<1>2. \E n \in S : \A k \in S : <<k, n>> \notin Less
  <2> HIDE DEF Less
  <2> QED BY <1>1, WFMin
<1>3. ASSUME NEW n \in S, NEW k \in S, <<k, n>> \notin Less PROVE n <= k
  <2>1. ~(k < n)
    BY <1>3
  <2> QED BY <2>1
<1> QED BY <1>2, <1>3

(* A set of numbers that has 0, and with every number the next, has them all. *)
LEMMA AllNumbers ==
  ASSUME NEW S \in SUBSET Nat, 0 \in S, \A n \in S : n + 1 \in S
  PROVE  \A n \in Nat : n \in S
<1> SUFFICES ASSUME Nat \ S # {} PROVE FALSE
  OBVIOUS
<1>1. PICK n \in Nat \ S : \A k \in Nat \ S : n <= k
  BY Least
<1>2. n - 1 \in Nat /\ n - 1 \in S
  BY <1>1
<1>3. n - 1 + 1 \in S /\ n - 1 + 1 = n
  BY <1>1, <1>2
<1> QED BY <1>1, <1>3

(* The same up to a bound. *)
LEMMA AllNumbersUpTo ==
  ASSUME NEW m \in Nat, NEW S, 0 \in S, \A n \in 0 .. m - 1 : n \in S => n + 1 \in S
  PROVE  \A n \in 0 .. m : n \in S
<1> DEFINE T == {n \in Nat : n <= m => n \in S}
<1>1. \A n \in T : n + 1 \in T
  OBVIOUS
<1>2. \A n \in Nat : n \in T
  <2>1. T \in SUBSET Nat /\ 0 \in T
    OBVIOUS
  <2> HIDE DEF T
  <2> QED BY <1>1, <2>1, AllNumbers
<1> QED BY <1>2

(* And downwards. *)
LEMMA AllNumbersDownFrom ==
  ASSUME NEW m \in Nat, NEW S, m \in S, \A n \in 0 .. m - 1 : n + 1 \in S => n \in S
  PROVE  \A n \in 0 .. m : n \in S
<1> DEFINE T == {k \in 0 .. m : m - k \in S}
<1>1. \A k \in 0 .. m : k \in T
  <2>1. 0 \in T
    OBVIOUS
  <2>2. ASSUME NEW k \in 0 .. m - 1, k \in T PROVE k + 1 \in T
    <3>1. m - k \in S /\ m - (k + 1) \in 0 .. m - 1 /\ m - (k + 1) + 1 = m - k
      BY <2>2
    <3> QED BY <3>1
  <2> HIDE DEF T
  <2> QED BY <2>1, <2>2, AllNumbersUpTo
<1>2. ASSUME NEW n \in 0 .. m PROVE n \in S
  <2>1. m - n \in T /\ m - (m - n) = n
    BY <1>1
  <2> QED BY <2>1
<1> QED BY <1>2

(* The runs from a of a loop of m steps. *)
Runs(m, A, a, step) ==
  {f \in [0 .. m -> A] : f[0] = a /\ \A k \in 1 .. m : f[k] = step[k][f[k - 1]]}

(* There is one, which a recursive function that goes through 0 .. m needs to be
   one. *)
LEMMA LoopRuns ==
  ASSUME NEW m \in Nat, NEW A, NEW a \in A, NEW step \in [1 .. m -> [A -> A]]
  PROVE  Runs(m, A, a, step) # {}
<1> DEFINE Run(n, f) == f[0] = a /\ \A k \in 1 .. n : f[k] = step[k][f[k - 1]]
           S == {n \in 0 .. m : \E f \in [0 .. n -> A] : Run(n, f)}
<1>1. 0 \in S
  <2>1. [k \in 0 .. 0 |-> a] \in [0 .. 0 -> A] /\ Run(0, [k \in 0 .. 0 |-> a])
    OBVIOUS
  <2>2. 0 \in 0 .. m
    OBVIOUS
  <2> HIDE DEF Run
  <2> QED BY <2>1, <2>2
<1>2. ASSUME NEW n \in 0 .. m - 1, n \in S PROVE n + 1 \in S
  <2>1. PICK f \in [0 .. n -> A] : Run(n, f)
    BY <1>2
  <2> DEFINE g == [k \in 0 .. n + 1 |-> IF k = n + 1 THEN step[n + 1][f[n]] ELSE f[k]]
  <2>2. step[n + 1][f[n]] \in A
    <3>1. f[n] \in A /\ n + 1 \in 1 .. m
      OBVIOUS
    <3> QED BY <3>1
  <2>3. g \in [0 .. n + 1 -> A] /\ g[n + 1] = step[n + 1][f[n]] /\ \A k \in 0 .. n : g[k] = f[k]
    BY <2>2
  <2> HIDE DEF g
  <2>4. ASSUME NEW k \in 1 .. n + 1 PROVE g[k] = step[k][g[k - 1]]
    <3>1. k - 1 \in 0 .. n /\ g[k - 1] = f[k - 1]
      BY <2>3
    <3>2. CASE k = n + 1
      BY <2>3, <3>1, <3>2
    <3>3. CASE k \in 1 .. n
      BY <2>1, <2>3, <3>1, <3>3
    <3> QED BY <3>2, <3>3
  <2>5. Run(n + 1, g) /\ n + 1 \in 0 .. m
    BY <2>1, <2>3, <2>4
  <2> QED BY <2>3, <2>5
<1>3. m \in S
  <2> HIDE DEF S
  <2>1. \A n \in 0 .. m : n \in S
    BY <1>1, <1>2, AllNumbersUpTo
  <2> QED BY <2>1
<1> QED BY <1>3 DEF Runs
-----------------------------------------------------------------------------
(* Concatenation, kept as an operator of its own so that a step about the order
   of the parts does not look into them. *)
joined(s, t) == s \o t

(* What it is made of. *)
LEMMA Joined ==
  ASSUME NEW A, NEW s \in Seq(A), NEW t \in Seq(A)
  PROVE  /\ joined(s, t) \in Seq(A) /\ Len(joined(s, t)) = Len(s) + Len(t)
         /\ \A i \in 1 .. Len(s) : joined(s, t)[i] = s[i]
         /\ \A i \in 1 .. Len(t) : joined(s, t)[Len(s) + i] = t[i]
<1>1. joined(s, t) \in Seq(A) /\ Len(joined(s, t)) = Len(s) + Len(t)
  BY ConcatProperties DEF joined
<1>2. ASSUME NEW i \in 1 .. Len(s) PROVE joined(s, t)[i] = s[i]
  BY ConcatProperties DEF joined
<1>3. ASSUME NEW i \in 1 .. Len(t) PROVE joined(s, t)[Len(s) + i] = t[i]
  BY ConcatProperties DEF joined
<1> QED BY <1>1, <1>2, <1>3

(* The order of putting together does not matter. *)
LEMMA Associative ==
  ASSUME NEW A, NEW x \in Seq(A), NEW y \in Seq(A), NEW z \in Seq(A)
  PROVE  joined(joined(x, y), z) = joined(x, joined(y, z))
BY ConcatAssociative DEF joined

IsJoined(A, c, s, t) ==
  /\ c \in Seq(A) /\ Len(c) = Len(s) + Len(t) /\ Len(s) \in Nat /\ Len(t) \in Nat
  /\ \A i \in 1 .. Len(s) : c[i] = s[i]
  /\ \A i \in 1 .. Len(t) : c[Len(s) + i] = t[i]

(* c is s with t after it: Joined again, as one predicate. *)
LEMMA JoinedText ==
  ASSUME NEW A, NEW s \in Seq(A), NEW t \in Seq(A)
  PROVE  IsJoined(A, joined(s, t), s, t)
<1>1. Len(s) \in Nat /\ Len(t) \in Nat
  OBVIOUS
<1>2. joined(s, t) \in Seq(A) /\ Len(joined(s, t)) = Len(s) + Len(t)
  BY Joined
<1>3. \A i \in 1 .. Len(s) : joined(s, t)[i] = s[i]
  BY Joined
<1>4. \A i \in 1 .. Len(t) : joined(s, t)[Len(s) + i] = t[i]
  BY Joined
<1> QED BY <1>1, <1>2, <1>3, <1>4 DEF IsJoined

(* Nothing before or after s is s. *)
LEMMA JoinedEmpty ==
  ASSUME NEW A, NEW s \in Seq(A)
  PROVE  joined(s, <<>>) = s /\ joined(<<>>, s) = s
BY DEF joined

(* FlattenSeq's loop. *)
flats(seqs) ==
  CHOOSE f : f = [i \in 1 .. Len(seqs) |-> IF i = 1 THEN seqs[i] ELSE f[i - 1] \o seqs[i]]

(* The loop ends with FlattenSeq, and each turn adds one sequence. *)
LEMMA Flats ==
  ASSUME NEW A, NEW seqs \in Seq(Seq(A)), Len(seqs) >= 1
  PROVE  /\ FlattenSeq(seqs) = flats(seqs)[Len(seqs)]
         /\ flats(seqs) \in [1 .. Len(seqs) -> Seq(A)] /\ flats(seqs)[1] = seqs[1]
         /\ \A i \in 1 .. Len(seqs) - 1 : flats(seqs)[i + 1] = joined(flats(seqs)[i], seqs[i + 1])
<1> DEFINE m == Len(seqs)
           F(h) == [i \in 1 .. m |-> IF i = 1 THEN seqs[i] ELSE joined(h[i - 1], seqs[i])]
           f == flats(seqs)
           step == [k \in 1 .. m - 1 |-> [s \in Seq(A) |-> joined(s, seqs[k + 1])]]
<1>1. FlattenSeq(seqs) = f[m]
  <2>1. ~(Len(seqs) = 0)
    OBVIOUS
  <2> QED BY <2>1, Zenon DEF FlattenSeq, flats
<1>2. f = CHOOSE h : h = F(h)
  BY DEF flats, joined
<1>3. m \in Nat /\ m >= 1 /\ m - 1 \in Nat /\ \A k \in 1 .. m : seqs[k] \in Seq(A)
  OBVIOUS
<1> HIDE DEF m, f
<1>4. step \in [1 .. m - 1 -> [Seq(A) -> Seq(A)]]
  <2>1. \A k \in 1 .. m - 1 : seqs[k + 1] \in Seq(A)
    BY <1>3
  <2>2. \A s, t \in Seq(A) : joined(s, t) \in Seq(A)
    BY Joined
  <2> QED BY <2>1, <2>2
<1>5. PICK g \in [0 .. m - 1 -> Seq(A)] : g[0] = seqs[1] /\ \A k \in 1 .. m - 1 : g[k] = step[k][g[k - 1]]
  <2> HIDE DEF step, F
  <2>1. seqs[1] \in Seq(A)
    BY <1>3
  <2>2. Runs(m - 1, Seq(A), seqs[1], step) # {}
    BY <1>3, <1>4, <2>1, LoopRuns
  <2> QED BY <2>2 DEF Runs
<1>6. \A k \in 1 .. m - 1 : g[k] = joined(g[k - 1], seqs[k + 1])
  <2> SUFFICES ASSUME NEW k \in 1 .. m - 1 PROVE g[k] = joined(g[k - 1], seqs[k + 1])
    OBVIOUS
  <2>1. k - 1 \in 0 .. m - 1 /\ g[k - 1] \in Seq(A)
    BY <1>3
  <2> QED BY <1>5, <2>1
<1> DEFINE h == [i \in 1 .. m |-> g[i - 1]]
<1>7. h = F(h)
  <2>1. ASSUME NEW i \in 1 .. m PROVE h[i] = IF i = 1 THEN seqs[i] ELSE joined(h[i - 1], seqs[i])
    <3>1. CASE i = 1
      BY <1>3, <1>5, <3>1
    <3>2. CASE i # 1
      <4>1. i - 1 \in 1 .. m - 1 /\ i - 1 \in 1 .. m /\ i - 1 + 1 = i
        BY <1>3, <3>2
      <4>2. h[i] = g[i - 1] /\ h[i - 1] = g[i - 1 - 1]
        BY <4>1
      <4>3. g[i - 1] = joined(g[i - 1 - 1], seqs[i - 1 + 1])
        BY <1>6, <4>1
      <4> HIDE DEF h
      <4> QED BY <3>2, <4>1, <4>2, <4>3
    <3> QED BY <3>1, <3>2
  <2>2. h = [i \in 1 .. m |-> h[i]]
    OBVIOUS
  <2> HIDE DEF h
  <2> QED BY <2>1, <2>2
<1>8. f = F(f)
  <2> HIDE DEF F, h
  <2> QED BY <1>2, <1>7
<1> HIDE DEF h
<1>9. f[1] = seqs[1] /\ \A i \in 1 .. m - 1 : f[i + 1] = joined(f[i], seqs[i + 1])
  <2>1. \A i \in 1 .. m : f[i] = IF i = 1 THEN seqs[i] ELSE joined(f[i - 1], seqs[i])
    BY <1>8
  <2> HIDE DEF F
  <2>2. f[1] = seqs[1]
    <3>1. 1 \in 1 .. m
      BY <1>3
    <3> QED BY <2>1, <3>1, Zenon
  <2>3. ASSUME NEW i \in 1 .. m - 1 PROVE f[i + 1] = joined(f[i], seqs[i + 1])
    <3>1. i + 1 \in 1 .. m /\ i + 1 # 1 /\ i + 1 - 1 = i
      BY <1>3
    <3> QED BY <2>1, <3>1
  <2> QED BY <2>2, <2>3
<1>10. \A i \in 1 .. m : f[i] \in Seq(A)
  <2> DEFINE T == {k \in 0 .. m - 1 : f[k + 1] \in Seq(A)}
  <2>1. 0 \in T
    BY <1>3, <1>9
  <2>2. ASSUME NEW k \in 0 .. m - 1 - 1, k \in T PROVE k + 1 \in T
    <3>1. k + 1 \in 1 .. m - 1 /\ k + 1 \in 0 .. m - 1 /\ k + 1 + 1 \in 1 .. m /\ f[k + 1] \in Seq(A)
      BY <1>3, <2>2
    <3>2. f[k + 1 + 1] = joined(f[k + 1], seqs[k + 1 + 1]) /\ seqs[k + 1 + 1] \in Seq(A)
      BY <1>3, <1>9, <3>1
    <3>3. f[k + 1 + 1] \in Seq(A)
      <4> DEFINE a == f[k + 1]
                 b == seqs[k + 1 + 1]
      <4>1. a \in Seq(A) /\ b \in Seq(A) /\ f[k + 1 + 1] = joined(a, b)
        BY <3>1, <3>2
      <4> HIDE DEF a, b
      <4>2. joined(a, b) \in Seq(A)
        BY <4>1, Joined
      <4> QED BY <4>1, <4>2
    <3> QED BY <3>1, <3>3
  <2>3. \A k \in 0 .. m - 1 : k \in T
    <3> HIDE DEF T
    <3> QED BY <1>3, <2>1, <2>2, AllNumbersUpTo
  <2>4. ASSUME NEW i \in 1 .. m PROVE f[i] \in Seq(A)
    <3>1. i - 1 \in 0 .. m - 1 /\ i - 1 + 1 = i
      BY <1>3
    <3>2. f[i - 1 + 1] \in Seq(A)
      BY <2>3, <3>1
    <3> QED BY <3>1, <3>2
  <2> QED BY <2>4
<1>11. f \in [1 .. m -> Seq(A)]
  BY <1>8, <1>10
<1> QED BY <1>1, <1>9, <1>11 DEF m, f

(* The first comes first. *)
LEMMA FlattenCons ==
  ASSUME NEW A, NEW seqs \in Seq(Seq(A)), Len(seqs) >= 1
  PROVE  /\ FlattenSeq(Tail(seqs)) \in Seq(A)
         /\ FlattenSeq(seqs) = joined(seqs[1], FlattenSeq(Tail(seqs)))
<1> DEFINE m == Len(seqs)
           t == Tail(seqs)
           f == flats(seqs)
           g == flats(t)
<1>1. /\ m \in Nat /\ t \in Seq(Seq(A)) /\ Len(t) = m - 1 /\ seqs[1] \in Seq(A)
      /\ \A i \in 1 .. m - 1 : t[i] = seqs[i + 1]
  OBVIOUS
<1>2. /\ FlattenSeq(seqs) = f[m] /\ f \in [1 .. m -> Seq(A)] /\ f[1] = seqs[1]
      /\ \A i \in 1 .. m - 1 : f[i + 1] = joined(f[i], seqs[i + 1])
  BY Flats
<1>3. CASE m = 1
  <2>1. Len(t) = 0
    BY <1>1, <1>3
  <2>2. t = <<>>
    <3> HIDE DEF t
    <3> QED BY <1>1, <2>1, EmptySeq
  <2>3. FlattenSeq(t) = <<>>
    BY <2>1, <2>2 DEF FlattenSeq
  <2>4. joined(seqs[1], <<>>) = seqs[1]
    BY <1>1, JoinedEmpty
  <2> HIDE DEF t, f
  <2>5. FlattenSeq(t) \in Seq(A)
    BY <2>3
  <2> QED BY <1>2, <1>3, <2>3, <2>4, <2>5 DEF t
<1>4. CASE m > 1
  <2>1. /\ FlattenSeq(t) = g[m - 1] /\ g \in [1 .. m - 1 -> Seq(A)] /\ g[1] = t[1]
        /\ \A i \in 1 .. m - 1 - 1 : g[i + 1] = joined(g[i], t[i + 1])
    <3>1. Len(t) >= 1 /\ Len(t) = m - 1 /\ t \in Seq(Seq(A))
      BY <1>1, <1>4
    <3> HIDE DEF m, t
    <3>2. /\ FlattenSeq(t) = g[Len(t)] /\ g \in [1 .. Len(t) -> Seq(A)] /\ g[1] = t[1]
          /\ \A i \in 1 .. Len(t) - 1 : g[i + 1] = joined(g[i], t[i + 1])
      BY <3>1, Flats
    <3> QED BY <3>1, <3>2
  <2> HIDE DEF m, t, f, g
  <2> DEFINE T == {k \in 0 .. m - 2 : f[k + 2] = joined(seqs[1], g[k + 1])}
  <2>2. 0 \in T
    <3>0. 1 \in 1 .. m - 1 /\ 1 + 1 = 2 /\ 0 + 1 = 1 /\ 0 + 2 = 2 /\ 0 \in 0 .. m - 2
      BY <1>1, <1>4
    <3>1. f[1 + 1] = joined(f[1], seqs[1 + 1])
      BY <1>2, <3>0
    <3>2. t[1] = seqs[1 + 1]
      BY <1>1, <3>0
    <3> QED BY <1>2, <2>1, <3>0, <3>1, <3>2
  <2>3. ASSUME NEW k \in 0 .. m - 2 - 1, k \in T PROVE k + 1 \in T
    <3>1. /\ k + 1 \in 0 .. m - 2 /\ k + 2 \in 1 .. m - 1 /\ k + 1 \in 1 .. m - 1 - 1 /\ k + 1 \in 1 .. m - 1
          /\ k + 2 + 1 = k + 1 + 2 /\ k + 1 + 1 = k + 2
      BY <1>1, <1>4, <2>3
    <3>2. f[k + 2 + 1] = joined(f[k + 2], seqs[k + 2 + 1]) /\ g[k + 1 + 1] = joined(g[k + 1], t[k + 1 + 1])
      BY <1>2, <2>1, <3>1
    <3>3. k + 1 + 1 \in 1 .. m - 1 /\ k + 1 + 1 \in 1 .. Len(t) /\ k + 1 + 1 + 1 = k + 2 + 1
      <4>1. m \in Nat /\ Len(t) = m - 1
        BY <1>1
      <4> HIDE DEF T
      <4> QED BY <1>4, <4>1
    <3>4. t[k + 1 + 1] = seqs[k + 1 + 1 + 1]
      BY <1>1, <3>3
    <3>5. t[k + 1 + 1] \in Seq(A)
      BY <1>1, <3>3
    <3>6. g[k + 1] \in Seq(A)
      BY <2>1, <3>1
    <3>7. joined(joined(seqs[1], g[k + 1]), t[k + 1 + 1]) = joined(seqs[1], joined(g[k + 1], t[k + 1 + 1]))
      <4>1. seqs[1] \in Seq(A)
        BY <1>1
      <4> DEFINE a == seqs[1]
                 b == g[k + 1]
                 c == t[k + 1 + 1]
      <4>2. a \in Seq(A) /\ b \in Seq(A) /\ c \in Seq(A)
        BY <3>5, <3>6, <4>1
      <4> HIDE DEF a, b, c
      <4>3. joined(joined(a, b), c) = joined(a, joined(b, c))
        BY <4>2, Associative
      <4> QED BY <4>3 DEF a, b, c
    <3>8. f[k + 2] = joined(seqs[1], g[k + 1])
      BY <2>3
    <3>9. f[k + 1 + 2] = joined(seqs[1], g[k + 1 + 1])
      BY <3>1, <3>2, <3>3, <3>4, <3>7, <3>8
    <3> QED BY <3>1, <3>9
  <2>4. \A k \in 0 .. m - 2 : k \in T
    <3>1. m - 2 \in Nat
      BY <1>1, <1>4
    <3> HIDE DEF T
    <3> QED BY <3>1, <2>2, <2>3, AllNumbersUpTo
  <2>5. f[m] = joined(seqs[1], g[m - 1]) /\ g[m - 1] \in Seq(A)
    <3>1. m - 2 \in 0 .. m - 2 /\ m - 2 + 2 = m /\ m - 2 + 1 = m - 1 /\ m - 1 \in 1 .. m - 1
      BY <1>1, <1>4
    <3>2. f[m - 2 + 2] = joined(seqs[1], g[m - 2 + 1])
      BY <2>4, <3>1
    <3> QED BY <2>1, <3>1, <3>2
  <2> QED BY <1>2, <2>1, <2>5 DEF t
<1> QED BY <1>1, <1>3, <1>4

(* A sequence of one element. *)
LEMMA OneChar ==
  ASSUME NEW A, NEW s \in Seq(A), NEW k \in 1 .. Len(s)
  PROVE  SubSeq(s, k, k) = <<s[k]>>
<1> DEFINE a == SubSeq(s, k, k)
           b == <<s[k]>>
<1>1. Len(a) = 1 /\ a[1] = s[k] /\ a \in Seq(A)
  OBVIOUS
<1>2. b \in Seq(A) /\ Len(b) = 1 /\ b[1] = s[k]
  OBVIOUS
<1> HIDE DEF a, b
<1>3. \A i \in 1 .. 1 : a[i] = b[i]
  BY <1>1, <1>2
<1>4. a = b
  BY <1>1, <1>2, <1>3, SeqEqual
<1> QED BY <1>4 DEF a, b

(* Cutting where two sequences were joined gives the two. *)
LEMMA CutPrefix ==
  ASSUME NEW A, NEW x \in Seq(A), NEW y \in Seq(A)
  PROVE  /\ SubSeq(joined(x, y), 1, Len(x)) = x
         /\ SubSeq(joined(x, y), Len(x) + 1, Len(joined(x, y))) = y
<1> DEFINE c == joined(x, y)
           a == SubSeq(c, 1, Len(x))
           b == SubSeq(c, Len(x) + 1, Len(c))
<1>1. IsJoined(A, c, x, y)
  BY JoinedText
<1> HIDE DEF c
<1>2. a \in Seq(A) /\ Len(a) = Len(x) /\ \A i \in 1 .. Len(a) : a[i] = x[i]
  BY <1>1 DEF IsJoined
<1>3. b \in Seq(A) /\ Len(b) = Len(y) /\ \A i \in 1 .. Len(b) : b[i] = y[i]
  BY <1>1 DEF IsJoined
<1> HIDE DEF a, b
<1>4. a = x
  BY <1>2, SeqEqual
<1>5. b = y
  BY <1>3, SeqEqual
<1> QED BY <1>4, <1>5 DEF a, b, c
=============================================================================
