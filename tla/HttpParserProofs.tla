--------------------------- MODULE HttpParserProofs ---------------------------
(***************************************************************************)
(* http_data's reading side, for any requests of any length with any headers: *)
(* the text of a request is put together from what a client writes, then the *)
(* lemmas follow one call of handle_read through parseURI, parse_headers and *)
(* analysis_request, and the invariant says where it can stand between two *)
(* calls: first for reads that end between requests, then for reads that   *)
(* end anywhere but inside a header or a request line.                     *)
(***************************************************************************)
EXTENDS HttpParser, Induction, TLAPS

(* The tokens. *)
Alphabet == STRING \cup Separators \cup Methods \cup Versions \cup Targets \cup {"BODY", Garbage}

(* What find returns. *)
First(s, chars, from, p) ==
  /\ Len(s) \in Nat /\ from \in Int /\ p \in Int /\ from <= p /\ p < Len(s)
  /\ s[p + 1] \in chars /\ \A j \in from .. p - 1 : s[j + 1] \notin chars

(* find returns the index that First describes. *)
LEMMA FindAt ==
  ASSUME NEW s, NEW chars, NEW from, NEW p, First(s, chars, from, p)
  PROVE  find(s, chars, from) = p
<1> DEFINE hits == {i \in from .. Len(s) - 1 : s[i + 1] \in chars}
<1> USE DEF First
<1>1. p \in hits
  OBVIOUS
<1>2. \A j \in hits : p <= j
  OBVIOUS
<1>3. \A j \in hits : j \in Int
  OBVIOUS
<1> HIDE DEF hits
<1>4. \A i \in hits : (\A j \in hits : i <= j) => i = p
  BY <1>1, <1>2, <1>3
<1>5. (CHOOSE i \in hits : \A j \in hits : i <= j) = p
  BY <1>1, <1>2, <1>4
<1> QED BY <1>1, <1>5 DEF find, hits

(* find returns npos when there is none. *)
LEMMA FindNone ==
  ASSUME NEW s, NEW chars, NEW from \in Int, Len(s) \in Nat,
         \A j \in from .. Len(s) - 1 : s[j + 1] \notin chars
  PROVE  find(s, chars, from) = npos
BY DEF find

(* A text that begins with a request line, and one that begins like the rest of
   a request line whose method was lost. *)
Line(s, m, t, v) ==
  /\ s \in Seq(Alphabet) /\ Len(s) >= 6
  /\ s[1] = m /\ s[2] = "SP" /\ s[3] = t /\ s[4] = "SP" /\ s[5] = v /\ s[6] = "CR"

Beheaded(s) ==
  /\ s \in Seq(Alphabet) /\ Len(s) >= 5
  /\ s[1] = "SP" /\ s[2] \in Targets /\ s[3] = "SP" /\ s[4] \in Versions /\ s[5] = "CR"

(* parseURI takes a request line apart. *)
LEMMA ParseLine ==
  ASSUME NEW s, NEW m \in Methods, NEW t \in Targets, NEW v \in Versions, Line(s, m, t, v)
  PROVE  parseURI(s) = IF v \in known_versions THEN Verdict("SUCCESS", m, t, substr(s, 6))
                       ELSE Verdict("ERROR", m, fileName_, substr(s, 6))
<1> DEFINE line == SubSeq(s, 1, 5)
<1>1. Len(s) \in Nat /\ Len(s) >= 6
  BY DEF Line
<1>2. find(s, {"CR"}, 0) = 5
  <2>1. s[5 + 1] \in {"CR"} /\ \A j \in 0 .. 5 - 1 : s[j + 1] \notin {"CR"}
    <3>1. \A j \in 0 .. 5 - 1 : j + 1 \in {1, 2, 3, 4, 5}
      OBVIOUS
    <3>2. \A j \in {1, 2, 3, 4, 5} : s[j] # "CR"
      BY DEF Line, Methods, Targets, Versions
    <3> QED BY <3>1, <3>2 DEF Line
  <2>9. First(s, {"CR"}, 0, 5)
    BY <1>1, <2>1 DEF First
  <2> QED BY <2>9, FindAt
<1>3. /\ Len(line) = 5
      /\ line[1] = m /\ line[2] = "SP" /\ line[3] = t /\ line[4] = "SP" /\ line[5] = v
  BY <1>1 DEF Line
<1> HIDE DEF line
<1>4. /\ find(line, {m}, 0) = 0
      /\ find(line, Targets \cup Versions, 0) = 2
      /\ find(line, {"SP"}, 2) = 3
      /\ find(line, Targets \cup Versions, 3) = 4
  <2>1. find(line, {m}, 0) = 0
    <3>1. line[0 + 1] \in {m} /\ \A j \in 0 .. 0 - 1 : line[j + 1] \notin {m}
      BY <1>3
    <3>9. First(line, {m}, 0, 0)
      BY <1>3, <3>1 DEF First
    <3> QED BY <3>9, FindAt
  <2>2. find(line, Targets \cup Versions, 0) = 2
    <3>1. line[2 + 1] \in Targets \cup Versions
      BY <1>3
    <3>2. \A j \in 0 .. 2 - 1 : line[j + 1] \notin Targets \cup Versions
      <4>1. \A j \in 0 .. 2 - 1 : j + 1 \in {1, 2}
        OBVIOUS
      <4>2. \A j \in {1, 2} : line[j] \notin Targets \cup Versions
        BY <1>3 DEF Methods, Targets, Versions
      <4> QED BY <4>1, <4>2
    <3>9. First(line, Targets \cup Versions, 0, 2)
      BY <1>3, <3>1, <3>2 DEF First
    <3> QED BY <3>9, FindAt
  <2>3. find(line, {"SP"}, 2) = 3
    <3>1. line[3 + 1] \in {"SP"}
      BY <1>3
    <3>2. \A j \in 2 .. 3 - 1 : line[j + 1] \notin {"SP"}
      <4>1. \A j \in 2 .. 3 - 1 : j + 1 = 3
        OBVIOUS
      <4> QED BY <4>1, <1>3 DEF Targets
    <3>9. First(line, {"SP"}, 2, 3)
      BY <1>3, <3>1, <3>2 DEF First
    <3> QED BY <3>9, FindAt
  <2>4. find(line, Targets \cup Versions, 3) = 4
    <3>1. line[4 + 1] \in Targets \cup Versions
      BY <1>3
    <3>2. \A j \in 3 .. 4 - 1 : line[j + 1] \notin Targets \cup Versions
      <4>1. \A j \in 3 .. 4 - 1 : j + 1 = 4
        OBVIOUS
      <4> QED BY <4>1, <1>3 DEF Targets, Versions
    <3>9. First(line, Targets \cup Versions, 3, 4)
      BY <1>3, <3>1, <3>2 DEF First
    <3> QED BY <3>9, FindAt
  <2> QED BY <2>1, <2>2, <2>3, <2>4
<1>5. {n \in Methods : find(line, {n}, 0) # npos} = {m}
  <2>1. ASSUME NEW n \in Methods, n # m PROVE find(line, {n}, 0) = npos
    <3>1. \A j \in 0 .. Len(line) - 1 : j + 1 \in {1, 2, 3, 4, 5}
      BY <1>3
    <3>2. \A j \in {1, 2, 3, 4, 5} : line[j] \notin {n}
      BY <1>3, <2>1 DEF Methods, Targets, Versions
    <3>3. \A j \in 0 .. Len(line) - 1 : line[j + 1] \notin {n}
      BY <3>1, <3>2
    <3> QED BY <1>3, <3>3, FindNone
  <2> QED BY <1>4, <2>1 DEF npos
<1>6. (IF "GET" \in {m} THEN "GET" ELSE IF "POST" \in {m} THEN "POST" ELSE "HEAD") = m
  BY DEF Methods
<1>7. line[2 + 1] = t /\ line[4 + 1] = v /\ 5 # npos /\ 2 # npos /\ 3 # npos /\ 4 # npos /\ {m} # {} /\ 5 + 1 = 6 /\ 5 # 0
  BY <1>3 DEF npos
<1>8. /\ (IF 5 = npos THEN s ELSE SubSeq(s, 1, 5)) = line
      /\ (IF 5 = npos THEN s ELSE substr(s, 5 + 1)) = substr(s, 6)
  BY <1>7 DEF line
<1> HIDE DEF find, Verdict, substr
<1> DEFINE pos == find(s, {"CR"}, 0)
           text == IF pos = npos THEN s ELSE SubSeq(s, 1, pos)
           rest == IF pos = npos THEN s ELSE substr(s, pos + 1)
           named == {n \in Methods : find(text, {n}, 0) # npos}
           got == IF "GET" \in named THEN "GET" ELSE IF "POST" \in named THEN "POST" ELSE "HEAD"
           slash == find(text, Targets \cup Versions, find(text, {got}, 0))
           space == find(text, {"SP"}, slash)
           proto == find(text, Targets \cup Versions, space)
<1>9. parseURI(s) =
        IF pos = 0 THEN Verdict("AGAIN", method_, fileName_, s)
        ELSE IF named = {} THEN Verdict("ERROR", method_, fileName_, rest)
        ELSE IF slash = npos THEN Verdict("SUCCESS", got, "/", rest)
        ELSE IF space = npos \/ proto = npos \/ text[proto + 1] \notin known_versions
             THEN Verdict("ERROR", got, fileName_, rest)
             ELSE Verdict("SUCCESS", got, text[slash + 1], rest)
  BY Zenon DEF parseURI
<1>10. text = line /\ rest = substr(s, 6)
  BY <1>2, <1>8
<1>11. named = {m} /\ got = m
  BY <1>5, <1>6, <1>10
<1>12. slash = 2 /\ space = 3 /\ proto = 4
  BY <1>4, <1>10, <1>11
<1> HIDE DEF pos, text, rest, named, got, slash, space, proto
<1>13. pos # 0
  BY <1>2, <1>7 DEF pos
<1> QED BY <1>7, <1>9, <1>10, <1>11, <1>12, <1>13

(* Without its method it is no request line. *)
LEMMA ParseBeheaded ==
  ASSUME NEW s, Beheaded(s)
  PROVE  parseURI(s).verdict = "ERROR"
<1> DEFINE line == SubSeq(s, 1, 4)
<1>1. Len(s) \in Nat /\ Len(s) >= 5
  BY DEF Beheaded
<1>2. find(s, {"CR"}, 0) = 4
  <2>1. s[4 + 1] \in {"CR"} /\ \A j \in 0 .. 4 - 1 : s[j + 1] \notin {"CR"}
    <3>1. \A j \in 0 .. 4 - 1 : j + 1 \in {1, 2, 3, 4}
      OBVIOUS
    <3>2. \A j \in {1, 2, 3, 4} : s[j] # "CR"
      BY DEF Beheaded, Targets, Versions
    <3> QED BY <3>1, <3>2 DEF Beheaded
  <2>9. First(s, {"CR"}, 0, 4)
    BY <1>1, <2>1 DEF First
  <2> QED BY <2>9, FindAt
<1>3. Len(line) = 4 /\ line[1] = "SP" /\ line[2] \in Targets /\ line[3] = "SP" /\ line[4] \in Versions
  BY <1>1 DEF Beheaded
<1> HIDE DEF line
<1>4. {n \in Methods : find(line, {n}, 0) # npos} = {}
  <2>1. ASSUME NEW n \in Methods PROVE find(line, {n}, 0) = npos
    <3>1. \A j \in 0 .. Len(line) - 1 : j + 1 \in {1, 2, 3, 4}
      BY <1>3
    <3>2. \A j \in {1, 2, 3, 4} : line[j] \notin {n}
      BY <1>3 DEF Methods, Targets, Versions
    <3>3. \A j \in 0 .. Len(line) - 1 : line[j + 1] \notin {n}
      BY <3>1, <3>2
    <3> QED BY <1>3, <3>3, FindNone
  <2> QED BY <2>1
<1>5. (IF 4 = npos THEN s ELSE SubSeq(s, 1, 4)) = line /\ 4 # 0
  BY DEF line, npos
<1>6. parseURI(s).verdict = Verdict("ERROR", method_, fileName_, IF 4 = npos THEN s ELSE substr(s, 4 + 1)).verdict
  <2> HIDE DEF find, Verdict, substr
  <2> QED BY <1>2, <1>4, <1>5 DEF parseURI
<1> QED BY <1>6 DEF Verdict

(* scan's loop: what it starts from, one turn of it, and its run. *)
Marks(h, ks, ke, vs, ve, line, found, i, halt) ==
  [h |-> h, ks |-> ks, ke |-> ke, vs |-> vs, ve |-> ve, line |-> line,
   found |-> found, i |-> i, halt |-> halt]

start == Marks(hState_, -1, -1, -1, -1, 0, headers_, 0, "no")

turned(r, s) == IF r.halt # "no" THEN r ELSE scan_char(r, s)

upto(s) == CHOOSE f : f = [n \in 0 .. Len(s) |-> IF n = 0 THEN start ELSE turned(f[n - 1], s)]

(* The loop of parse_headers: it begins with start, takes one turn a character
   and ends with scan's result. *)
LEMMA Upto ==
  ASSUME NEW s, Len(s) \in Nat
  PROVE  /\ scan(s) = upto(s)[Len(s)] /\ upto(s)[0] = start
         /\ \A n \in 1 .. Len(s) : upto(s)[n] = turned(upto(s)[n - 1], s)
<1> DEFINE u == upto(s)
           F(m, f) == [n \in 0 .. m |-> IF n = 0 THEN start ELSE turned(f[n - 1], s)]
           T == {m \in 0 .. Len(s) : \E f : f = F(m, f)}
<1>1. scan(s) = u[Len(s)]
  BY Zenon DEF scan, upto, turned, start, Marks
<1>2. u = CHOOSE f : f = F(Len(s), f)
  BY DEF upto
<1> HIDE DEF start, turned, u
<1>3. 0 \in T
  <2>1. [n \in 0 .. 0 |-> start] = F(0, [n \in 0 .. 0 |-> start])
    OBVIOUS
  <2>2. 0 \in 0 .. Len(s)
    OBVIOUS
  <2> HIDE DEF F
  <2> QED BY <2>1, <2>2
<1>4. ASSUME NEW m \in 0 .. Len(s) - 1, m \in T PROVE m + 1 \in T
  <2>1. PICK f : f = F(m, f)
    BY <1>4
  <2> DEFINE g == [n \in 0 .. m + 1 |-> IF n = m + 1 THEN turned(f[m], s) ELSE f[n]]
  <2>2. g[m + 1] = turned(f[m], s) /\ (\A n \in 0 .. m : g[n] = f[n]) /\ g = [n \in 0 .. m + 1 |-> g[n]]
    OBVIOUS
  <2>3. ASSUME NEW n \in 0 .. m PROVE f[n] = IF n = 0 THEN start ELSE turned(f[n - 1], s)
    BY <2>1
  <2> HIDE DEF g, F
  <2>4. ASSUME NEW n \in 0 .. m + 1 PROVE g[n] = IF n = 0 THEN start ELSE turned(g[n - 1], s)
    <3>1. CASE n = m + 1
      <4>1. n # 0 /\ n - 1 = m /\ m \in 0 .. m
        BY <3>1
      <4> QED BY <2>2, <3>1, <4>1
    <3>2. CASE n \in 1 .. m
      <4>1. n - 1 \in 0 .. m /\ n \in 0 .. m /\ n # 0
        BY <3>2
      <4> QED BY <2>2, <2>3, <4>1
    <3>3. CASE n = 0
      BY <2>2, <2>3, <3>3
    <3>4. n = m + 1 \/ n \in 1 .. m \/ n = 0
      OBVIOUS
    <3> QED BY <3>1, <3>2, <3>3, <3>4
  <2>5. g = F(m + 1, g)
    BY <2>2, <2>4 DEF F
  <2>6. m + 1 \in 0 .. Len(s)
    OBVIOUS
  <2> QED BY <2>5, <2>6
<1>5. Len(s) \in T
  <2> HIDE DEF T
  <2>1. \A m \in 0 .. Len(s) : m \in T
    BY <1>3, <1>4, AllNumbersUpTo
  <2> QED BY <2>1
<1>6. u = F(Len(s), u)
  <2>1. \E f : f = F(Len(s), f)
    BY <1>5
  <2> HIDE DEF F
  <2> QED BY <1>2, <2>1
<1>7. \A n \in 0 .. Len(s) : u[n] = IF n = 0 THEN start ELSE turned(u[n - 1], s)
  BY <1>6
<1> HIDE DEF F, T
<1>8. u[0] = start
  <2>1. 0 \in 0 .. Len(s)
    OBVIOUS
  <2> QED BY <1>7, <2>1, Zenon
<1>9. ASSUME NEW n \in 1 .. Len(s) PROVE u[n] = turned(u[n - 1], s)
  <2>1. n \in 0 .. Len(s) /\ n # 0
    OBVIOUS
  <2> QED BY <1>7, <2>1, Zenon
<1> QED BY <1>1, <1>8, <1>9 DEF u

(* The turn from n to n + 1. *)
LEMMA Turn ==
  ASSUME NEW s, Len(s) \in Nat, NEW n \in 0 .. Len(s) - 1
  PROVE  upto(s)[n + 1] = turned(upto(s)[n], s)
<1>1. n + 1 \in 1 .. Len(s) /\ n + 1 - 1 = n
  OBVIOUS
<1>2. upto(s)[n + 1] = turned(upto(s)[n + 1 - 1], s)
  BY <1>1, Upto
<1> QED BY <1>1, <1>2

(* After n characters of s the loop goes on, in state h. *)
At(s, n, h, found, line) ==
  \E ks, ke, vs, ve : upto(s)[n] = Marks(h, ks, ke, vs, ve, line, found, n, "no")

(* The headers found so far, with one more. *)
with(found, name, value) == {p \in found : p[1] # <<name>>} \cup {<< <<name>>, <<value>> >>}

HeaderAt(s, n, h) ==
  /\ s[n + 1] = h[1] /\ s[n + 2] = "COLON" /\ s[n + 3] = "SP" /\ s[n + 4] = h[2]
  /\ s[n + 5] = "CR" /\ s[n + 6] = "LF"

(* One header line is read, whole. *)
LEMMA HeaderRead ==
  ASSUME NEW s \in Seq(Alphabet), NEW n \in Nat, n + 6 <= Len(s), NEW h, HeaderAt(s, n, h), h[1] \notin Separators,
         NEW state \in {"START", "LF"}, NEW found, NEW line, At(s, n, state, found, line)
  PROVE  \E l : At(s, n + 6, "LF", with(found, h[1], h[2]), l)
<1> DEFINE u == upto(s)
<1>1. PICK ks, ke, vs, ve : u[n] = Marks(state, ks, ke, vs, ve, line, found, n, "no")
  BY DEF At
<1>2. Len(s) \in Nat
  OBVIOUS
<1> HIDE DEF u
<1>3. PICK l : u[n + 1] = Marks("KEY", n, ke, vs, ve, l, found, n + 1, "no")
  <2>1. u[n + 1] = turned(u[n], s)
    <3>1. n \in 0 .. Len(s) - 1
      BY <1>2
    <3> QED BY <1>2, <3>1, Turn DEF u
  <2>2. s[n + 1] \notin {"LF", "CR", "COLON"}
    BY DEF HeaderAt, Separators
  <2>3. CASE state = "START"
    <3>1. turned(Marks("START", ks, ke, vs, ve, line, found, n, "no"), s) = Marks("KEY", n, ke, vs, ve, n, found, n + 1, "no")
      BY <2>2 DEF turned, scan_char, Marks
    <3> QED BY <1>1, <2>1, <2>3, <3>1
  <2>4. CASE state = "LF"
    <3>1. turned(Marks("LF", ks, ke, vs, ve, line, found, n, "no"), s) = Marks("KEY", n, ke, vs, ve, line, found, n + 1, "no")
      BY <2>2 DEF turned, scan_char, Marks
    <3> QED BY <1>1, <2>1, <2>4, <3>1
  <2> QED BY <2>3, <2>4
<1>4. /\ n + 1 \in 0 .. Len(s) - 1 /\ n + 1 \in Nat /\ n + 1 + 1 = n + 2 /\ n + 1 - n > 0
      /\ n + 2 \in 0 .. Len(s) - 1 /\ n + 2 \in Nat /\ n + 2 + 1 = n + 3
      /\ n + 3 \in 0 .. Len(s) - 1 /\ n + 3 \in Nat /\ n + 3 + 1 = n + 4
      /\ n + 4 \in 0 .. Len(s) - 1 /\ n + 4 \in Nat /\ n + 4 + 1 = n + 5 /\ n + 4 - (n + 3) > 0
      /\ n + 5 \in 0 .. Len(s) - 1 /\ n + 5 \in Nat /\ n + 5 + 1 = n + 6
      /\ n \in Int /\ n + 3 \in Int
  BY <1>2
<1>5. u[n + 2] = Marks("COLON", n, n + 1, vs, ve, l, found, n + 2, "no")
  <2>1. u[n + 1 + 1] = turned(u[n + 1], s)
    BY <1>2, <1>4, Turn DEF u
  <2>2. s[n + 1 + 1] = "COLON" /\ ~(n + 1 - n <= 0)
    BY <1>4 DEF HeaderAt
  <2>3. turned(Marks("KEY", n, ke, vs, ve, l, found, n + 1, "no"), s) = Marks("COLON", n, n + 1, vs, ve, l, found, n + 1 + 1, "no")
    <3> DEFINE i == n + 1
    <3>1. ~(i - n <= 0) /\ s[i + 1] = "COLON"
      BY <2>2
    <3> HIDE DEF i
    <3>2. turned(Marks("KEY", n, ke, vs, ve, l, found, i, "no"), s) = Marks("COLON", n, i, vs, ve, l, found, i + 1, "no")
      BY <3>1 DEF turned, scan_char, Marks
    <3> QED BY <3>2 DEF i
  <2> QED BY <1>3, <1>4, <2>1, <2>3
<1>6. u[n + 3] = Marks("SPACES_AFTER_COLON", n, n + 1, vs, ve, l, found, n + 3, "no")
  <2>1. u[n + 2 + 1] = turned(u[n + 2], s)
    BY <1>2, <1>4, Turn DEF u
  <2>2. s[n + 2 + 1] = "SP"
    BY <1>4 DEF HeaderAt
  <2>3. turned(Marks("COLON", n, n + 1, vs, ve, l, found, n + 2, "no"), s) = Marks("SPACES_AFTER_COLON", n, n + 1, vs, ve, l, found, n + 2 + 1, "no")
    BY <2>2 DEF turned, scan_char, Marks
  <2> QED BY <1>4, <1>5, <2>1, <2>3
<1>7. u[n + 4] = Marks("VALUE", n, n + 1, n + 3, ve, l, found, n + 4, "no")
  <2>1. u[n + 3 + 1] = turned(u[n + 3], s)
    BY <1>2, <1>4, Turn DEF u
  <2>3. turned(Marks("SPACES_AFTER_COLON", n, n + 1, vs, ve, l, found, n + 3, "no"), s) = Marks("VALUE", n, n + 1, n + 3, ve, l, found, n + 3 + 1, "no")
    BY DEF turned, scan_char, Marks
  <2> QED BY <1>4, <1>6, <2>1, <2>3
<1>8. u[n + 5] = Marks("CR", n, n + 1, n + 3, n + 4, l, found, n + 5, "no")
  <2>1. u[n + 4 + 1] = turned(u[n + 4], s)
    BY <1>2, <1>4, Turn DEF u
  <2>2. s[n + 4 + 1] = "CR" /\ ~(n + 4 - (n + 3) <= 0)
    BY <1>4 DEF HeaderAt
  <2>3. turned(Marks("VALUE", n, n + 1, n + 3, ve, l, found, n + 4, "no"), s) = Marks("CR", n, n + 1, n + 3, n + 4, l, found, n + 4 + 1, "no")
    <3> DEFINE i == n + 4
               a == n + 3
    <3>1. ~(i - a <= 0) /\ s[i + 1] = "CR"
      BY <2>2
    <3> HIDE DEF i, a
    <3>2. turned(Marks("VALUE", n, n + 1, a, ve, l, found, i, "no"), s) = Marks("CR", n, n + 1, a, i, l, found, i + 1, "no")
      BY <3>1 DEF turned, scan_char, Marks
    <3> QED BY <3>2 DEF i, a
  <2> QED BY <1>4, <1>7, <2>1, <2>3
<1>9. range(s, n, n + 1) = <<h[1]>> /\ range(s, n + 3, n + 4) = <<h[2]>>
  <2>1. SubSeq(s, n + 1, n + 1) = <<s[n + 1]>> /\ SubSeq(s, n + 4, n + 4) = <<s[n + 4]>>
    <3>1. \A k \in 1 .. Len(s) : SubSeq(s, k, k) = <<s[k]>>
      BY OneChar
    <3>2. n + 1 \in 1 .. Len(s) /\ n + 4 \in 1 .. Len(s)
      BY <1>2
    <3> QED BY <3>1, <3>2
  <2>2. range(s, n, n + 1) = SubSeq(s, n + 1, n + 1) /\ range(s, n + 3, n + 4) = SubSeq(s, n + 3 + 1, n + 4)
    BY DEF range
  <2> QED BY <1>4, <2>1, <2>2 DEF HeaderAt
<1>10. u[n + 6] = Marks("LF", n, n + 1, n + 3, n + 4, n + 5, with(found, h[1], h[2]), n + 6, "no")
  <2>1. u[n + 5 + 1] = turned(u[n + 5], s)
    BY <1>2, <1>4, Turn DEF u
  <2>2. s[n + 5 + 1] = "LF"
    BY <1>4 DEF HeaderAt
  <2>3. turned(Marks("CR", n, n + 1, n + 3, n + 4, l, found, n + 5, "no"), s)
          = Marks("LF", n, n + 1, n + 3, n + 4, n + 5,
              {p \in found : p[1] # range(s, n, n + 1)} \cup {<<range(s, n, n + 1), range(s, n + 3, n + 4)>>},
              n + 5 + 1, "no")
    BY <2>2, ZenonT(40) DEF turned, scan_char, Marks
  <2>4. with(found, h[1], h[2])
          = {p \in found : p[1] # range(s, n, n + 1)} \cup {<<range(s, n, n + 1), range(s, n + 3, n + 4)>>}
    BY <1>9 DEF with
  <2> HIDE DEF with
  <2> QED BY <1>4, <1>8, <2>1, <2>3, <2>4
<1> QED BY <1>10 DEF At, u

(* The headers a program keeps of the first n: of those with one name the last. *)
kept(hs, n) ==
  {<< <<hs[i][1]>>, <<hs[i][2]>> >> : i \in {i \in 1 .. n : \A j \in 1 .. n : j > i => hs[j][1] # hs[i][1]}}

(* Reading one more header keeps one more, in the place of one with its name. *)
LEMMA KeptNext ==
  ASSUME NEW hs, NEW n \in Nat
  PROVE  kept(hs, n + 1) = with(kept(hs, n), hs[n + 1][1], hs[n + 1][2])
<1> DEFINE pair(i) == << <<hs[i][1]>>, <<hs[i][2]>> >>
           last(k) == {i \in 1 .. k : \A j \in 1 .. k : j > i => hs[j][1] # hs[i][1]}
<1>1. \A k : kept(hs, k) = {pair(i) : i \in last(k)}
  BY DEF kept
<1>2. last(n + 1) = {i \in last(n) : hs[i][1] # hs[n + 1][1]} \cup {n + 1}
  OBVIOUS
<1>3. \A i : pair(i)[1] = <<hs[i][1]>>
  OBVIOUS
<1>4. \A i : pair(i)[1] = <<hs[n + 1][1]>> <=> hs[i][1] = hs[n + 1][1]
  BY <1>3
<1>5. pair(n + 1) = << <<hs[n + 1][1]>>, <<hs[n + 1][2]>> >>
  OBVIOUS
<1> HIDE DEF pair, last
<1> QED BY <1>1, <1>2, <1>4, <1>5 DEF with

(* The text of the headers hs, from the LF of the request line to the blank
   line. *)
HeaderText(s, hs) ==
  /\ s \in Seq(Alphabet) /\ hs \in Seq(STRING \X STRING)
  /\ 6 * Len(hs) + 3 <= Len(s) /\ s[1] = "LF"
  /\ \A i \in 0 .. Len(hs) - 1 : HeaderAt(s, 6 * i + 1, hs[i + 1]) /\ hs[i + 1][1] \notin Separators
  /\ s[6 * Len(hs) + 2] = "CR" /\ s[6 * Len(hs) + 3] = "LF"

Ready == hState_ = "START" /\ headers_ = {}

(* The LF of the request line is passed over in H_START. *)
LEMMA HeadersStart ==
  ASSUME NEW s, NEW hs, HeaderText(s, hs), Ready
  PROVE  At(s, 1, "START", {}, 0)
<1>1. Len(s) \in Nat /\ 0 \in 0 .. Len(s) - 1 /\ 0 + 1 = 1 /\ s[1] = "LF" /\ 0 \in Nat
  BY DEF HeaderText
<1>2. upto(s)[0] = Marks("START", -1, -1, -1, -1, 0, {}, 0, "no")
  BY <1>1, Upto DEF start, Ready
<1>3. upto(s)[0 + 1] = turned(upto(s)[0], s)
  BY <1>1, Turn
<1>4. turned(Marks("START", -1, -1, -1, -1, 0, {}, 0, "no"), s) = Marks("START", -1, -1, -1, -1, 0, {}, 0 + 1, "no")
  <2>1. s[0 + 1] \in {"LF", "CR"}
    BY <1>1
  <2> QED BY <2>1 DEF turned, scan_char, Marks
<1>5. upto(s)[1] = Marks("START", -1, -1, -1, -1, 0, {}, 1, "no")
  BY <1>1, <1>2, <1>3, <1>4
<1> QED BY <1>5 DEF At

(* Whole headers are read up to the LF of their blank line: all of them are
   kept, with of several with one name the last. *)
LEMMA HeadersRead ==
  ASSUME NEW s, NEW hs, HeaderText(s, hs), Ready, hs # <<>>
  PROVE  \E l : At(s, 6 * Len(hs) + 3, "END_LF", kept(hs, Len(hs)), l)
<1> DEFINE m == Len(hs)
           Good(i) == \E l, h : h \in {"START", "LF"} /\ (i > 0 => h = "LF") /\ At(s, 6 * i + 1, h, kept(hs, i), l)
           T == {i \in 0 .. m : Good(i)}
<1>1. m \in Nat /\ m > 0 /\ Len(s) \in Nat /\ 6 * m + 3 <= Len(s) /\ s \in Seq(Alphabet)
  BY DEF HeaderText
<1>1a. \A i \in 0 .. m - 1 : HeaderAt(s, 6 * i + 1, hs[i + 1]) /\ hs[i + 1][1] \notin Separators
  BY DEF HeaderText
<1>1b. s[6 * m + 2] = "CR" /\ s[6 * m + 3] = "LF"
  BY DEF HeaderText
<1> HIDE DEF m
<1>2. 0 \in T
  <2>1. At(s, 1, "START", {}, 0)
    BY HeadersStart
  <2>2. kept(hs, 0) = {}
    BY DEF kept
  <2>3. 6 * 0 + 1 = 1 /\ ~(0 > 0) /\ 0 \in 0 .. m
    BY <1>1
  <2> QED BY <2>1, <2>2, <2>3
<1>3. ASSUME NEW i \in 0 .. m - 1, i \in T PROVE i + 1 \in T
  <2>1. PICK l, h : h \in {"START", "LF"} /\ At(s, 6 * i + 1, h, kept(hs, i), l)
    BY <1>3
  <2>2. 6 * i + 1 \in Nat /\ 6 * i + 1 + 6 <= Len(s) /\ 6 * i + 1 + 6 = 6 * (i + 1) + 1 /\ i \in Nat /\ i + 1 \in 0 .. m
    BY <1>1
  <2>3. HeaderAt(s, 6 * i + 1, hs[i + 1]) /\ hs[i + 1][1] \notin Separators
    BY <1>1a
  <2> HIDE DEF T, Good
  <2>4. \E l2 : At(s, 6 * i + 1 + 6, "LF", with(kept(hs, i), hs[i + 1][1], hs[i + 1][2]), l2)
    <3> DEFINE n == 6 * i + 1
               g == hs[i + 1]
               f == kept(hs, i)
    <3>1. /\ n \in Nat /\ n + 6 <= Len(s) /\ HeaderAt(s, n, g) /\ g[1] \notin Separators
          /\ h \in {"START", "LF"} /\ At(s, n, h, f, l)
      BY <2>1, <2>2, <2>3
    <3> HIDE DEF n, g, f
    <3>2. \E l2 : At(s, n + 6, "LF", with(f, g[1], g[2]), l2)
      BY <1>1, <3>1, HeaderRead
    <3> QED BY <3>2 DEF n, g, f
  <2>5. \E l2 : At(s, 6 * (i + 1) + 1, "LF", kept(hs, i + 1), l2)
    BY <2>2, <2>4, KeptNext
  <2> QED BY <2>2, <2>5 DEF T, Good
<1>4. m \in T
  <2> HIDE DEF T
  <2>1. \A i \in 0 .. m : i \in T
    BY <1>1, <1>2, <1>3, AllNumbersUpTo
  <2>2. m \in 0 .. m
    BY <1>1
  <2> QED BY <2>1, <2>2
<1>5. PICK l : At(s, 6 * m + 1, "LF", kept(hs, m), l)
  BY <1>1, <1>4
<1> DEFINE n == 6 * m + 1
<1>6. /\ n \in Nat /\ n \in 0 .. Len(s) - 1 /\ n + 1 = 6 * m + 2
      /\ n + 1 \in Nat /\ n + 1 \in 0 .. Len(s) - 1 /\ n + 1 + 1 = 6 * m + 3
  BY <1>1
<1> HIDE DEF n
<1>7. PICK ks, ke, vs, ve : upto(s)[n] = Marks("LF", ks, ke, vs, ve, l, kept(hs, m), n, "no")
  BY <1>5 DEF At, n
<1>8. upto(s)[n + 1] = Marks("END_CR", ks, ke, vs, ve, l, kept(hs, m), n + 1, "no")
  <2>1. upto(s)[n + 1] = turned(upto(s)[n], s)
    BY <1>1, <1>6, Turn
  <2>2. s[n + 1] = "CR"
    BY <1>1b, <1>6
  <2>3. turned(Marks("LF", ks, ke, vs, ve, l, kept(hs, m), n, "no"), s) = Marks("END_CR", ks, ke, vs, ve, l, kept(hs, m), n + 1, "no")
    BY <2>2 DEF turned, scan_char, Marks
  <2> QED BY <1>7, <2>1, <2>3
<1>9. upto(s)[n + 1 + 1] = Marks("END_LF", ks, ke, vs, ve, l, kept(hs, m), n + 1 + 1, "no")
  <2>1. upto(s)[n + 1 + 1] = turned(upto(s)[n + 1], s)
    BY <1>1, <1>6, Turn
  <2>2. s[n + 1 + 1] = "LF"
    BY <1>1b, <1>6
  <2>3. turned(Marks("END_CR", ks, ke, vs, ve, l, kept(hs, m), n + 1, "no"), s) = Marks("END_LF", ks, ke, vs, ve, l, kept(hs, m), n + 1 + 1, "no")
    BY <2>2 DEF turned, scan_char, Marks
  <2> QED BY <1>8, <2>1, <2>3
<1> QED BY <1>6, <1>9 DEF At, m

(* A loop that stopped has its result. *)
LEMMA Halted ==
  ASSUME NEW s, Len(s) \in Nat, NEW n \in 0 .. Len(s), upto(s)[n].halt # "no"
  PROVE  scan(s) = upto(s)[n]
<1> DEFINE u == upto(s)
           d == Len(s) - n
           T == {k \in 0 .. d : u[n + k] = u[n]}
<1>1. 0 \in T /\ d \in Nat
  OBVIOUS
<1>2. ASSUME NEW k \in 0 .. d - 1, k \in T PROVE k + 1 \in T
  <2>1. n + k \in 0 .. Len(s) - 1 /\ n + k + 1 = n + (k + 1) /\ k + 1 \in 0 .. d
    OBVIOUS
  <2>2. u[n + k] = u[n]
    BY <1>2
  <2>3. u[n + k + 1] = turned(u[n + k], s)
    BY <2>1, Turn
  <2>4. turned(u[n], s) = u[n]
    BY DEF turned
  <2> HIDE DEF u, d
  <2> QED BY <2>1, <2>2, <2>3, <2>4
<1>3. d \in T
  <2> HIDE DEF T, d
  <2>1. \A k \in 0 .. d : k \in T
    BY <1>1, <1>2, AllNumbersUpTo
  <2>2. d \in 0 .. d
    BY <1>1
  <2> QED BY <2>1, <2>2
<1>4. n + d = Len(s)
  OBVIOUS
<1>5. u[n + d] = u[n]
  BY <1>3
<1>6. u[Len(s)] = u[n]
  <2> HIDE DEF u, d
  <2> QED BY <1>4, <1>5
<1> QED BY <1>6, Upto

(* In the state KEY a text without a separator is passed over. *)
Plain(s, a, b) == \A k \in a .. b - 1 : s[k + 1] \notin {"COLON", "LF", "CR"}

(* In the state KEY a text without a separator is passed over. *)
LEMMA KeyRuns ==
  ASSUME NEW s, Len(s) \in Nat, NEW a \in Nat, NEW b \in a .. Len(s), NEW found, NEW line,
         At(s, a, "KEY", found, line), Plain(s, a, b)
  PROVE  At(s, b, "KEY", found, line)
<1> DEFINE d == b - a
           T == {k \in 0 .. d : At(s, a + k, "KEY", found, line)}
<1>1. 0 \in T /\ d \in Nat
  <2>1. d \in Nat /\ a + 0 = a /\ 0 \in 0 .. d
    OBVIOUS
  <2> HIDE DEF d
  <2> QED BY <2>1
<1>2. ASSUME NEW k \in 0 .. d - 1, k \in T PROVE k + 1 \in T
  <2> DEFINE n == a + k
  <2>1. n \in 0 .. Len(s) - 1 /\ n + 1 = a + (k + 1) /\ k + 1 \in 0 .. d /\ n \in a .. b - 1
    OBVIOUS
  <2>2. At(s, n, "KEY", found, line)
    BY <1>2
  <2> HIDE DEF n, d, T
  <2>3. PICK ks, ke, vs, ve : upto(s)[n] = Marks("KEY", ks, ke, vs, ve, line, found, n, "no")
    BY <2>2 DEF At
  <2>4. s[n + 1] \notin {"COLON", "LF", "CR"}
    BY <2>1 DEF Plain
  <2>5. turned(Marks("KEY", ks, ke, vs, ve, line, found, n, "no"), s) = Marks("KEY", ks, ke, vs, ve, line, found, n + 1, "no")
    BY <2>4 DEF turned, scan_char, Marks
  <2>6. upto(s)[n + 1] = turned(upto(s)[n], s)
    BY <2>1, Turn
  <2>7. At(s, n + 1, "KEY", found, line)
    BY <2>3, <2>5, <2>6 DEF At
  <2> QED BY <2>1, <2>7 DEF T
<1>3. d \in T
  <2> HIDE DEF T, d
  <2>1. \A k \in 0 .. d : k \in T
    BY <1>1, <1>2, AllNumbersUpTo
  <2>2. d \in 0 .. d
    BY <1>1
  <2> QED BY <2>1, <2>2
<1>4. a + d = b
  OBVIOUS
<1>5. At(s, a + d, "KEY", found, line)
  BY <1>3
<1> HIDE DEF d
<1> QED BY <1>4, <1>5

(* A CR that ends it is an error: no header has such a name. *)
LEMMA KeyFails ==
  ASSUME NEW s, Len(s) \in Nat, NEW a \in Nat, NEW b \in a .. Len(s) - 1, NEW found, NEW line,
         At(s, a, "KEY", found, line), Plain(s, a, b), s[b + 1] = "CR"
  PROVE  parse_headers(s).verdict = "ERROR"
<1>1. b \in a .. Len(s) /\ b \in 0 .. Len(s) - 1 /\ b + 1 \in 0 .. Len(s)
  OBVIOUS
<1>2. At(s, b, "KEY", found, line)
  BY <1>1, KeyRuns
<1>3. PICK ks, ke, vs, ve : upto(s)[b] = Marks("KEY", ks, ke, vs, ve, line, found, b, "no")
  BY <1>2 DEF At
<1>4. turned(Marks("KEY", ks, ke, vs, ve, line, found, b, "no"), s) = Marks("KEY", ks, ke, vs, ve, line, found, b + 1, "error")
  BY DEF turned, scan_char, Marks
<1>5. upto(s)[b + 1] = Marks("KEY", ks, ke, vs, ve, line, found, b + 1, "error")
  BY <1>1, <1>3, <1>4, Turn
<1>6. upto(s)[b + 1].halt = "error"
  BY <1>5 DEF Marks
<1>7. scan(s) = upto(s)[b + 1]
  <2>1. upto(s)[b + 1].halt # "no"
    BY <1>6
  <2> QED BY <1>1, <2>1, Halted
<1>8. scan(s).halt = "error"
  BY <1>6, <1>7
<1> HIDE DEF scan
<1> QED BY <1>8 DEF parse_headers

(* What parse_headers makes of a text that the loop went through. *)
LEMMA AllRead ==
  ASSUME NEW s \in Seq(Alphabet), NEW h \in {"START", "KEY"}, NEW found, NEW line, At(s, Len(s), h, found, line)
  PROVE  parse_headers(s) = [verdict |-> "AGAIN", h |-> h, headers |-> found, rest |-> substr(s, line)]
<1>1. PICK ks, ke, vs, ve : upto(s)[Len(s)] = Marks(h, ks, ke, vs, ve, line, found, Len(s), "no")
  BY DEF At
<1>2. scan(s) = Marks(h, ks, ke, vs, ve, line, found, Len(s), "no")
  <2>1. Len(s) \in Nat
    OBVIOUS
  <2> QED BY <1>1, <2>1, Upto
<1>3. /\ scan(s).h = h /\ scan(s).found = found /\ scan(s).halt = "no" /\ scan(s).line = line
  BY <1>2 DEF Marks
<1> HIDE DEF scan, substr
<1> QED BY <1>3 DEF parse_headers, headers_end

(* Headers are complete with their blank line; one more character is passed
   over. *)
LEMMA HeadersParsed ==
  ASSUME NEW s, NEW hs, HeaderText(s, hs), Ready, hs # <<>>
  PROVE  parse_headers(s) =
           [verdict |-> "SUCCESS", h |-> "END_LF", headers |-> kept(hs, Len(hs)),
            rest |-> substr(s, IF Len(s) = 6 * Len(hs) + 3 THEN 6 * Len(hs) + 3 ELSE 6 * Len(hs) + 4)]
<1> DEFINE m == 6 * Len(hs) + 3
           f == kept(hs, Len(hs))
<1>1. m \in Nat /\ Len(s) \in Nat /\ m <= Len(s) /\ m + 1 = 6 * Len(hs) + 4
  BY DEF HeaderText
<1>2. PICK l : At(s, m, "END_LF", f, l)
  BY HeadersRead
<1> HIDE DEF m, f
<1>3. PICK ks, ke, vs, ve : upto(s)[m] = Marks("END_LF", ks, ke, vs, ve, l, f, m, "no")
  BY <1>2 DEF At
<1>4. /\ scan(s).h = "END_LF" /\ scan(s).found = f /\ scan(s).halt # "error"
      /\ scan(s).i = IF Len(s) = m THEN m ELSE m + 1
  <2>1. CASE Len(s) = m
    <3>1. scan(s) = Marks("END_LF", ks, ke, vs, ve, l, f, m, "no")
      BY <1>1, <1>3, <2>1, Upto
    <3> QED BY <2>1, <3>1 DEF Marks
  <2>2. CASE Len(s) # m
    <3>1. m \in 0 .. Len(s) - 1 /\ m + 1 \in 0 .. Len(s)
      BY <1>1, <2>2
    <3>2. turned(Marks("END_LF", ks, ke, vs, ve, l, f, m, "no"), s) = Marks("END_LF", m, ke, vs, ve, m, f, m + 1, "end")
      BY DEF turned, scan_char, Marks
    <3>3. upto(s)[m + 1] = Marks("END_LF", m, ke, vs, ve, m, f, m + 1, "end")
      BY <1>1, <1>3, <3>1, <3>2, Turn
    <3>4. upto(s)[m + 1].halt # "no"
      BY <3>3 DEF Marks
    <3>5. scan(s) = upto(s)[m + 1]
      BY <1>1, <3>1, <3>4, Halted
    <3> QED BY <2>2, <3>3, <3>5 DEF Marks
  <2> QED BY <2>1, <2>2
<1>5. substr(s, IF Len(s) = m THEN m ELSE m + 1) = substr(s, IF Len(s) = 6 * Len(hs) + 3 THEN 6 * Len(hs) + 3 ELSE 6 * Len(hs) + 4)
  BY <1>1 DEF m
<1>6. parse_headers(s) = [verdict |-> "SUCCESS", h |-> "END_LF", headers |-> f, rest |-> substr(s, IF Len(s) = m THEN m ELSE m + 1)]
  <2> HIDE DEF scan, substr
  <2> QED BY <1>4 DEF parse_headers, headers_end
<1> QED BY <1>5, <1>6 DEF f

(* The blank line of a request without headers is passed over in the state
   START. *)
LEMMA BlankPassed ==
  ASSUME NEW s, HeaderText(s, <<>>), Ready
  PROVE  At(s, 3, "START", {}, 0)
<1>1. /\ Len(s) \in Nat /\ Len(s) >= 3 /\ s[2] = "CR" /\ s[3] = "LF"
      /\ 1 \in 0 .. Len(s) - 1 /\ 2 \in 0 .. Len(s) - 1 /\ 1 + 1 = 2 /\ 2 + 1 = 3
  <2>1. Len(<<>>) = 0 /\ 6 * 0 + 2 = 2 /\ 6 * 0 + 3 = 3
    OBVIOUS
  <2>2. Len(s) \in Nat /\ Len(s) >= 3 /\ s[2] = "CR" /\ s[3] = "LF"
    BY <2>1 DEF HeaderText
  <2> QED BY <2>2
<1>2. At(s, 1, "START", {}, 0)
  BY HeadersStart
<1>3. PICK ks, ke, vs, ve : upto(s)[1] = Marks("START", ks, ke, vs, ve, 0, {}, 1, "no")
  BY <1>2 DEF At
<1>4. upto(s)[2] = Marks("START", ks, ke, vs, ve, 0, {}, 2, "no")
  <2>1. turned(Marks("START", ks, ke, vs, ve, 0, {}, 1, "no"), s) = Marks("START", ks, ke, vs, ve, 0, {}, 1 + 1, "no")
    <3>1. s[1 + 1] = "CR"
      BY <1>1
    <3> QED BY <3>1 DEF turned, scan_char, Marks
  <2>2. upto(s)[1 + 1] = turned(upto(s)[1], s)
    BY <1>1, Turn
  <2> QED BY <1>1, <1>3, <2>1, <2>2
<1>5. upto(s)[3] = Marks("START", ks, ke, vs, ve, 0, {}, 3, "no")
  <2>1. turned(Marks("START", ks, ke, vs, ve, 0, {}, 2, "no"), s) = Marks("START", ks, ke, vs, ve, 0, {}, 2 + 1, "no")
    <3>1. s[2 + 1] = "LF"
      BY <1>1
    <3> QED BY <3>1 DEF turned, scan_char, Marks
  <2>2. upto(s)[2 + 1] = turned(upto(s)[2], s)
    BY <1>1, Turn
  <2> QED BY <1>1, <1>4, <2>1, <2>2
<1> QED BY <1>5 DEF At

(* What follows it is taken for the name of a header. *)
LEMMA BlankKey ==
  ASSUME NEW s, HeaderText(s, <<>>), Ready, Len(s) >= 4, s[4] \notin {"LF", "CR"}
  PROVE  At(s, 4, "KEY", {}, 3)
<1>1. Len(s) \in Nat /\ 3 \in 0 .. Len(s) - 1 /\ 3 + 1 = 4
  BY DEF HeaderText
<1>2. At(s, 3, "START", {}, 0)
  BY BlankPassed
<1>3. PICK ks, ke, vs, ve : upto(s)[3] = Marks("START", ks, ke, vs, ve, 0, {}, 3, "no")
  BY <1>2 DEF At
<1>4. turned(Marks("START", ks, ke, vs, ve, 0, {}, 3, "no"), s) = Marks("KEY", 3, ke, vs, ve, 3, {}, 3 + 1, "no")
  <2>1. s[3 + 1] \notin {"LF", "CR"}
    BY <1>1
  <2> QED BY <2>1 DEF turned, scan_char, Marks
<1>5. upto(s)[3 + 1] = turned(upto(s)[3], s)
  BY <1>1, Turn
<1> QED BY <1>1, <1>3, <1>4, <1>5 DEF At

(* The texts a client writes, character by character. *)
lines(hs) == [i \in DOMAIN hs |-> header_line(hs[i])]

(* One header line as it is written. *)
LEMMA HeaderLine ==
  ASSUME NEW h \in STRING \X STRING
  PROVE  /\ header_line(h) \in Seq(Alphabet) /\ Len(header_line(h)) = 6
         /\ HeaderAt(header_line(h), 0, h)
<1>1. h[1] \in Alphabet /\ h[2] \in Alphabet /\ {"COLON", "SP", "CR", "LF"} \subseteq Alphabet
  BY DEF Alphabet, Separators
<1> HIDE DEF Alphabet
<1> QED BY <1>1 DEF header_line, HeaderAt

HeadersAt(s, n, hs) == Len(s) = 6 * n /\ \A i \in 0 .. n - 1 : HeaderAt(s, 6 * i, hs[i + 1])

(* All of them, one after the other. *)
LEMMA LinesText ==
  ASSUME NEW hs \in Seq(STRING \X STRING)
  PROVE  /\ FlattenSeq(lines(hs)) \in Seq(Alphabet) /\ Len(FlattenSeq(lines(hs))) = 6 * Len(hs)
         /\ \A i \in 0 .. Len(hs) - 1 : HeaderAt(FlattenSeq(lines(hs)), 6 * i, hs[i + 1])
<1> DEFINE n == Len(hs)
           L == lines(hs)
           f == flats(L)
<1>1. n \in Nat /\ Len(L) = n /\ \A i \in 1 .. n : L[i] = header_line(hs[i])
  BY DEF lines
<1>2. \A i \in 1 .. n : L[i] \in Seq(Alphabet) /\ Len(L[i]) = 6 /\ HeaderAt(L[i], 0, hs[i])
  <2>1. \A i \in 1 .. n : hs[i] \in STRING \X STRING
    OBVIOUS
  <2> HIDE DEF L, n
  <2> QED BY <1>1, <2>1, HeaderLine
<1>3. L \in Seq(Seq(Alphabet))
  <2>1. L = [i \in 1 .. n |-> header_line(hs[i])] /\ \A i \in 1 .. n : header_line(hs[i]) \in Seq(Alphabet)
    <3>1. DOMAIN hs = 1 .. n
      OBVIOUS
    <3>2. L = [i \in 1 .. n |-> header_line(hs[i])]
      BY <3>1 DEF lines
    <3>3. \A i \in 1 .. n : header_line(hs[i]) \in Seq(Alphabet)
      <4> HIDE DEF L, n
      <4> QED BY <1>1, <1>2
    <3> QED BY <3>2, <3>3
  <2> HIDE DEF L
  <2> QED BY <1>1, <2>1
<1>4. CASE n = 0
  <2>1. L = <<>>
    <3> HIDE DEF L, n
    <3> QED BY <1>1, <1>3, <1>4, EmptySeq
  <2>2. Len(<<>>) = 0 /\ <<>> \in Seq(Alphabet)
    OBVIOUS
  <2>3. FlattenSeq(L) = <<>>
    BY <2>1, <2>2 DEF FlattenSeq
  <2> HIDE DEF L
  <2> QED BY <1>4, <2>2, <2>3 DEF L
<1>5. CASE n >= 1
  <2>1. /\ FlattenSeq(L) = f[n] /\ f \in [1 .. n -> Seq(Alphabet)] /\ f[1] = L[1]
        /\ \A i \in 1 .. n - 1 : f[i + 1] = joined(f[i], L[i + 1])
    <3> HIDE DEF L, n
    <3>1. Len(L) >= 1
      BY <1>1, <1>5
    <3> QED BY <1>1, <1>3, <3>1, Flats
  <2> HIDE DEF L, n, f
  <2> DEFINE Good(k) == HeadersAt(f[k], k, hs)
             T == {k \in 0 .. n - 1 : Good(k + 1)}
  <2> USE DEF HeadersAt
  <2>2. 0 \in T
    <3>1. 0 + 1 = 1 /\ 0 \in 0 .. n - 1 /\ 1 \in 1 .. n /\ 6 * 1 = 6 /\ 6 * 0 = 0 /\ \A i \in 0 .. 1 - 1 : i = 0
      BY <1>1, <1>5
    <3>2. Good(1)
      BY <1>2, <2>1, <3>1
    <3> HIDE DEF Good
    <3> QED BY <3>1, <3>2
  <2>3. ASSUME NEW k \in 0 .. n - 1 - 1, k \in T PROVE k + 1 \in T
    <3> DEFINE j == k + 1
    <3>1. j \in Nat /\ j \in 1 .. n - 1 /\ j \in 0 .. n - 1 /\ j + 1 \in 1 .. n /\ j \in 1 .. n
      BY <1>1
    <3>2. Good(j)
      BY <2>3
    <3> HIDE DEF j, T
    <3>3. f[j + 1] = joined(f[j], L[j + 1]) /\ f[j] \in Seq(Alphabet)
      BY <2>1, <3>1
    <3>3a. L[j + 1] \in Seq(Alphabet) /\ Len(L[j + 1]) = 6 /\ HeaderAt(L[j + 1], 0, hs[j + 1])
      BY <1>2, <3>1
    <3> DEFINE a == f[j]
               b == L[j + 1]
               c == joined(a, b)
    <3>4. /\ a \in Seq(Alphabet) /\ b \in Seq(Alphabet) /\ Len(a) = 6 * j /\ Len(b) = 6
          /\ HeaderAt(b, 0, hs[j + 1]) /\ \A i \in 0 .. j - 1 : HeaderAt(a, 6 * i, hs[i + 1])
      BY <3>2, <3>3, <3>3a
    <3> HIDE DEF a, b, Good
    <3>5. /\ Len(c) = Len(a) + Len(b)
          /\ \A i \in 1 .. Len(a) : c[i] = a[i]
          /\ \A i \in 1 .. Len(b) : c[Len(a) + i] = b[i]
      <4>1. a \in Seq(Alphabet) /\ b \in Seq(Alphabet)
        BY <3>4
      <4>2. IsJoined(Alphabet, c, a, b)
        BY <4>1, JoinedText
      <4> QED BY <4>2 DEF IsJoined
    <3> HIDE DEF c
    <3>6. Len(c) = 6 * (j + 1)
      BY <3>1, <3>4, <3>5
    <3>7. ASSUME NEW i \in 0 .. j PROVE HeaderAt(c, 6 * i, hs[i + 1])
      <4>1. CASE i \in 0 .. j - 1
        <5>1. /\ 6 * i + 1 \in 1 .. Len(a) /\ 6 * i + 2 \in 1 .. Len(a) /\ 6 * i + 3 \in 1 .. Len(a)
              /\ 6 * i + 4 \in 1 .. Len(a) /\ 6 * i + 5 \in 1 .. Len(a) /\ 6 * i + 6 \in 1 .. Len(a)
          BY <3>1, <3>4, <4>1
        <5>2. HeaderAt(a, 6 * i, hs[i + 1])
          BY <3>4, <4>1
        <5> QED BY <3>5, <5>1, <5>2 DEF HeaderAt
      <4>2. CASE i = j
        <5>1. /\ {1, 2, 3, 4, 5, 6} \subseteq 1 .. Len(b) /\ Len(a) = 6 * i
              /\ 0 + 1 = 1 /\ 0 + 2 = 2 /\ 0 + 3 = 3 /\ 0 + 4 = 4 /\ 0 + 5 = 5 /\ 0 + 6 = 6
          BY <3>4, <4>2
        <5>2. \A p \in {1, 2, 3, 4, 5, 6} : c[6 * i + p] = b[p]
          BY <3>5, <5>1, SMTT(30)
        <5>3. b[0 + 1] = hs[i + 1][1] /\ b[0 + 2] = "COLON" /\ b[0 + 3] = "SP" /\ b[0 + 4] = hs[i + 1][2]
              /\ b[0 + 5] = "CR" /\ b[0 + 6] = "LF"
          BY <3>4, <4>2 DEF HeaderAt
        <5> QED BY <5>1, <5>2, <5>3 DEF HeaderAt
      <4>3. i \in 0 .. j - 1 \/ i = j
        BY <3>1
      <4> QED BY <4>1, <4>2, <4>3
    <3>8. f[j + 1] = c
      BY <3>3 DEF a, b, c
    <3>9. Good(j + 1)
      <4>1. j + 1 - 1 = j
        BY <3>1
      <4> DEFINE m == j + 1
      <4>2. Len(c) = 6 * m /\ m - 1 = j
        BY <3>1, <3>6, <4>1
      <4> HIDE DEF m
      <4>3. HeadersAt(c, m, hs)
        BY <3>7, <4>2
      <4>4. HeadersAt(c, j + 1, hs)
        BY <4>3 DEF m
      <4> HIDE DEF HeadersAt
      <4> QED BY <3>8, <4>4 DEF Good
    <3> QED BY <3>1, <3>9 DEF T, j
  <2>4. n - 1 \in T
    <3>1. n - 1 \in Nat /\ n - 1 \in 0 .. n - 1
      BY <1>1, <1>5
    <3> HIDE DEF T
    <3>2. \A k \in 0 .. n - 1 : k \in T
      BY <3>1, <2>2, <2>3, AllNumbersUpTo
    <3> QED BY <3>1, <3>2
  <2>5. Good(n)
    <3>1. n - 1 + 1 = n
      BY <1>1
    <3>2. Good(n - 1 + 1)
      BY <2>4
    <3> HIDE DEF Good
    <3> QED BY <3>1, <3>2
  <2>6. f[n] \in Seq(Alphabet)
    BY <1>1, <1>5, <2>1
  <2> QED BY <2>1, <2>5, <2>6 DEF L, n
<1> QED BY <1>1, <1>4, <1>5

(* A request as a client writes it. *)
IsRequest(r) ==
  /\ r.method \in Methods /\ r.target \in Targets /\ r.version \in Versions
  /\ r.headers \in Seq(STRING \X STRING)
  /\ \A i \in DOMAIN r.headers : r.headers[i][1] \notin Separators
  /\ r.body \in Nat /\ (r.method # "POST" => r.body = 0)

Text(s, r) ==
  /\ Line(s, r.method, r.target, r.version) /\ s[7] = "LF"
  /\ Len(s) >= 6 * Len(r.headers) + 9 + r.body
  /\ \A i \in 0 .. Len(r.headers) - 1 : HeaderAt(s, 6 * i + 7, r.headers[i + 1])
  /\ s[6 * Len(r.headers) + 8] = "CR" /\ s[6 * Len(r.headers) + 9] = "LF"
  /\ \A i \in 1 .. r.body : s[6 * Len(r.headers) + 9 + i] = "BODY"

(* What written(r) is, character by character. *)
LEMMA WrittenText ==
  ASSUME NEW r, IsRequest(r)
  PROVE  Text(written(r), r) /\ Len(written(r)) = 6 * Len(r.headers) + 9 + r.body
<1> DEFINE n == Len(r.headers)
           a == <<r.method, "SP", r.target, "SP", r.version, "CR", "LF">>
           f == FlattenSeq(lines(r.headers))
           z == <<"CR", "LF">>
           b == [i \in 1 .. r.body |-> "BODY"]
           af == joined(a, f)
           afz == joined(af, z)
           w == joined(afz, b)
<1>1. n \in Nat /\ r.body \in Nat
  BY DEF IsRequest
<1>2. written(r) = w
  BY DEF written, lines, joined
<1>3. /\ a \in Seq(Alphabet) /\ Len(a) = 7
      /\ a[1] = r.method /\ a[2] = "SP" /\ a[3] = r.target /\ a[4] = "SP" /\ a[5] = r.version /\ a[6] = "CR" /\ a[7] = "LF"
  <2>1. r.method \in Alphabet /\ r.target \in Alphabet /\ r.version \in Alphabet /\ {"SP", "CR", "LF"} \subseteq Alphabet
    BY DEF IsRequest, Alphabet, Separators
  <2> HIDE DEF Alphabet
  <2> QED BY <2>1
<1>4. /\ f \in Seq(Alphabet) /\ Len(f) = 6 * n
      /\ \A i \in 0 .. n - 1 : HeaderAt(f, 6 * i, r.headers[i + 1])
  BY LinesText DEF IsRequest
<1>5. z \in Seq(Alphabet) /\ Len(z) = 2 /\ z[1] = "CR" /\ z[2] = "LF"
  <2>1. {"CR", "LF"} \subseteq Alphabet
    BY DEF Alphabet, Separators
  <2> HIDE DEF Alphabet
  <2> QED BY <2>1
<1>6. b \in Seq(Alphabet) /\ Len(b) = r.body /\ \A i \in 1 .. r.body : b[i] = "BODY"
  <2>1. "BODY" \in Alphabet
    BY DEF Alphabet
  <2> HIDE DEF Alphabet
  <2> QED BY <1>1, <2>1
<1> HIDE DEF n, a, f, z, b
<1>7. /\ af \in Seq(Alphabet) /\ Len(af) = 7 + 6 * n
      /\ \A i \in 1 .. 7 : af[i] = a[i]
      /\ \A i \in 1 .. 6 * n : af[7 + i] = f[i]
  <2>1. a \in Seq(Alphabet) /\ f \in Seq(Alphabet)
    BY <1>1, <1>3, <1>4
  <2>2. IsJoined(Alphabet, af, a, f)
    BY <2>1, JoinedText
  <2> HIDE DEF af
  <2> QED BY <1>1, <1>3, <1>4, <2>2 DEF IsJoined
<1> HIDE DEF af
<1>8. /\ afz \in Seq(Alphabet) /\ Len(afz) = 7 + 6 * n + 2
      /\ \A i \in 1 .. 7 + 6 * n : afz[i] = af[i]
      /\ \A i \in 1 .. 2 : afz[7 + 6 * n + i] = z[i]
  <2>1. af \in Seq(Alphabet) /\ z \in Seq(Alphabet)
    BY <1>1, <1>5, <1>7
  <2>2. IsJoined(Alphabet, afz, af, z)
    BY <2>1, JoinedText
  <2> HIDE DEF afz
  <2> QED BY <1>1, <1>5, <1>7, <2>2 DEF IsJoined
<1> HIDE DEF afz
<1>9. /\ w \in Seq(Alphabet) /\ Len(w) = 7 + 6 * n + 2 + r.body
      /\ \A i \in 1 .. 7 + 6 * n + 2 : w[i] = afz[i]
      /\ \A i \in 1 .. r.body : w[7 + 6 * n + 2 + i] = b[i]
  <2>1. afz \in Seq(Alphabet) /\ b \in Seq(Alphabet)
    BY <1>1, <1>6, <1>8
  <2>2. IsJoined(Alphabet, w, afz, b)
    BY <2>1, JoinedText
  <2> HIDE DEF w
  <2> QED BY <1>1, <1>6, <1>8, <2>2 DEF IsJoined
<1> HIDE DEF w
<1>10. Len(w) = 6 * n + 9 + r.body
  BY <1>1, <1>9
<1>11. \A i \in 1 .. 7 : w[i] = a[i]
  <2>1. \A i \in 1 .. 7 : i \in 1 .. 7 + 6 * n /\ i \in 1 .. 7 + 6 * n + 2
    BY <1>1
  <2> QED BY <1>7, <1>8, <1>9, <2>1
<1>12. Line(w, r.method, r.target, r.version) /\ w[7] = "LF"
  <2>1. Len(w) >= 6
    BY <1>1, <1>10
  <2>2. w[1] = a[1] /\ w[2] = a[2] /\ w[3] = a[3] /\ w[4] = a[4] /\ w[5] = a[5] /\ w[6] = a[6] /\ w[7] = a[7]
    BY <1>11
  <2> QED BY <1>3, <1>9, <2>1, <2>2 DEF Line
<1>13. ASSUME NEW i \in 0 .. n - 1 PROVE HeaderAt(w, 6 * i + 7, r.headers[i + 1])
  <2>1. \A p \in 1 .. 6 : 6 * i + p \in 1 .. 6 * n /\ 7 + (6 * i + p) = 6 * i + 7 + p /\ 6 * i + 7 + p \in 1 .. 7 + 6 * n /\ 6 * i + 7 + p \in 1 .. 7 + 6 * n + 2
    BY <1>1
  <2>2. \A p \in 1 .. 6 : w[6 * i + 7 + p] = f[6 * i + p]
    <3> SUFFICES ASSUME NEW p \in 1 .. 6 PROVE w[6 * i + 7 + p] = f[6 * i + p]
      OBVIOUS
    <3>1. w[6 * i + 7 + p] = afz[6 * i + 7 + p]
      BY <1>9, <2>1
    <3>2. afz[6 * i + 7 + p] = af[6 * i + 7 + p]
      BY <1>8, <2>1
    <3>3. af[7 + (6 * i + p)] = f[6 * i + p]
      BY <1>7, <2>1
    <3> QED BY <2>1, <3>1, <3>2, <3>3
  <2>3. HeaderAt(f, 6 * i, r.headers[i + 1])
    BY <1>4
  <2>4. 1 \in 1 .. 6 /\ 2 \in 1 .. 6 /\ 3 \in 1 .. 6 /\ 4 \in 1 .. 6 /\ 5 \in 1 .. 6 /\ 6 \in 1 .. 6
    OBVIOUS
  <2> QED BY <2>2, <2>3, <2>4 DEF HeaderAt
<1>14. w[6 * n + 8] = "CR" /\ w[6 * n + 9] = "LF"
  <2>1. /\ 7 + 6 * n + 1 = 6 * n + 8 /\ 7 + 6 * n + 2 = 6 * n + 9 /\ 1 \in 1 .. 2 /\ 2 \in 1 .. 2
        /\ 6 * n + 8 \in 1 .. 7 + 6 * n + 2 /\ 6 * n + 9 \in 1 .. 7 + 6 * n + 2
    BY <1>1
  <2>2. afz[7 + 6 * n + 1] = z[1] /\ afz[7 + 6 * n + 2] = z[2]
    BY <1>8, <2>1
  <2>3. w[6 * n + 8] = afz[6 * n + 8] /\ w[6 * n + 9] = afz[6 * n + 9]
    BY <1>9, <2>1
  <2> QED BY <1>5, <2>1, <2>2, <2>3
<1>15. \A i \in 1 .. r.body : w[6 * n + 9 + i] = "BODY"
  <2>1. \A i \in 1 .. r.body : 7 + 6 * n + 2 + i = 6 * n + 9 + i
    BY <1>1
  <2> QED BY <1>6, <1>9, <2>1
<1>16. Len(w) >= 6 * n + 9 + r.body
  BY <1>1, <1>10
<1> QED BY <1>2, <1>10, <1>12, <1>13, <1>14, <1>15, <1>16 DEF Text, n

(* More text after it changes none of it. *)
LEMMA TextGoesOn ==
  ASSUME NEW r, IsRequest(r), NEW s, Text(s, r), NEW w \in Seq(Alphabet)
  PROVE  Text(joined(s, w), r)
<1> DEFINE n == Len(r.headers)
           c == joined(s, w)
<1>1. s \in Seq(Alphabet) /\ n \in Nat /\ r.body \in Nat /\ Len(s) \in Nat /\ Len(s) >= 6 * n + 9 + r.body
  BY DEF Text, Line, IsRequest
<1>2. c \in Seq(Alphabet) /\ Len(c) = Len(s) + Len(w) /\ Len(w) \in Nat /\ \A i \in 1 .. Len(s) : c[i] = s[i]
  <2>1. s \in Seq(Alphabet) /\ w \in Seq(Alphabet)
    BY <1>1
  <2>2. IsJoined(Alphabet, c, s, w)
    BY <2>1, JoinedText
  <2> HIDE DEF c
  <2> QED BY <1>1, <2>2 DEF IsJoined
<1> HIDE DEF c, n
<1>3. Len(c) >= 6 * n + 9 + r.body /\ Len(c) >= 6
  BY <1>1, <1>2
<1>4. Line(c, r.method, r.target, r.version) /\ c[7] = "LF"
  <2>1. 1 \in 1 .. Len(s) /\ 2 \in 1 .. Len(s) /\ 3 \in 1 .. Len(s) /\ 4 \in 1 .. Len(s) /\ 5 \in 1 .. Len(s) /\ 6 \in 1 .. Len(s) /\ 7 \in 1 .. Len(s)
    BY <1>1
  <2> QED BY <1>2, <1>3, <2>1 DEF Text, Line
<1>5. ASSUME NEW i \in 0 .. n - 1 PROVE HeaderAt(c, 6 * i + 7, r.headers[i + 1])
  <2>1. HeaderAt(s, 6 * i + 7, r.headers[i + 1])
    BY DEF Text, n
  <2>2. /\ 6 * i + 7 + 1 \in 1 .. Len(s) /\ 6 * i + 7 + 2 \in 1 .. Len(s) /\ 6 * i + 7 + 3 \in 1 .. Len(s)
        /\ 6 * i + 7 + 4 \in 1 .. Len(s) /\ 6 * i + 7 + 5 \in 1 .. Len(s) /\ 6 * i + 7 + 6 \in 1 .. Len(s)
    BY <1>1
  <2> QED BY <1>2, <2>1, <2>2 DEF HeaderAt
<1>6. c[6 * n + 8] = "CR" /\ c[6 * n + 9] = "LF"
  <2>1. 6 * n + 8 \in 1 .. Len(s) /\ 6 * n + 9 \in 1 .. Len(s)
    BY <1>1
  <2> QED BY <1>2, <2>1 DEF Text, n
<1>7. \A i \in 1 .. r.body : c[6 * n + 9 + i] = "BODY"
  <2>1. \A i \in 1 .. r.body : 6 * n + 9 + i \in 1 .. Len(s)
    BY <1>1
  <2>2. \A i \in 1 .. r.body : s[6 * n + 9 + i] = "BODY"
    BY DEF Text, n
  <2> QED BY <1>2, <2>1, <2>2
<1> QED BY <1>3, <1>4, <1>5, <1>6, <1>7 DEF Text, c, n

(* What a client has still to send after the first j of its requests. *)
after(rs, j) == stream(SubSeq(rs, j + 1, Len(rs)))

(* Nothing is left after the last request. *)
LEMMA AfterLast ==
  ASSUME NEW rs \in Seq(Requests)
  PROVE  after(rs, Len(rs)) = <<>>
<1> DEFINE q == SubSeq(rs, Len(rs) + 1, Len(rs))
           t == [i \in DOMAIN q |-> written(q[i])]
<1>1. q \in Seq(Requests) /\ Len(q) = 0
  OBVIOUS
<1>2. q = <<>>
  <2> HIDE DEF q
  <2> QED BY <1>1, EmptySeq
<1>3. DOMAIN <<>> = {}
  OBVIOUS
<1>4. t = <<>>
  BY <1>2, <1>3
<1>5. FlattenSeq(t) = <<>>
  <2> HIDE DEF t
  <2> QED BY <1>4 DEF FlattenSeq
<1> QED BY <1>5 DEF after, stream

(* What is left begins with the next request. *)
LEMMA AfterNext ==
  ASSUME NEW rs \in Seq(Requests), NEW j \in 0 .. Len(rs) - 1
  PROVE  /\ after(rs, j) = joined(written(rs[j + 1]), after(rs, j + 1))
         /\ after(rs, j + 1) \in Seq(Alphabet)
         /\ IsRequest(rs[j + 1]) /\ written(rs[j + 1]) \in Seq(Alphabet)
<1> DEFINE n == Len(rs) - j
           q == SubSeq(rs, j + 1, Len(rs))
           p == SubSeq(rs, j + 2, Len(rs))
           t == [i \in DOMAIN q |-> written(q[i])]
           u == [i \in DOMAIN p |-> written(p[i])]
<1>1. /\ n \in Nat /\ n >= 1
      /\ Len(q) = n /\ DOMAIN q = 1 .. n /\ \A i \in 1 .. n : q[i] = rs[j + i] /\ rs[j + i] \in Requests
  <2>1. n \in Nat /\ n >= 1 /\ q \in Seq(Requests) /\ Len(q) = n /\ DOMAIN q = 1 .. n
    OBVIOUS
  <2>2. ASSUME NEW i \in 1 .. n PROVE q[i] = rs[j + i] /\ rs[j + i] \in Requests
    OBVIOUS
  <2> QED BY <2>1, <2>2
<1>2. /\ Len(p) = n - 1 /\ DOMAIN p = 1 .. n - 1 /\ \A i \in 1 .. n - 1 : p[i] = rs[j + 1 + i]
  <2>1. p \in Seq(Requests) /\ Len(p) = n - 1 /\ DOMAIN p = 1 .. n - 1
    OBVIOUS
  <2>2. ASSUME NEW i \in 1 .. n - 1 PROVE p[i] = rs[j + 1 + i]
    OBVIOUS
  <2> QED BY <2>1, <2>2
<1> HIDE DEF n, q, p
<1>3. ASSUME NEW r \in Requests PROVE IsRequest(r) /\ written(r) \in Seq(Alphabet)
  <2>1. IsRequest(r)
    BY RequestsAssumption DEF IsRequest
  <2> QED BY <2>1, WrittenText DEF Text, Line
<1>4. /\ t = [i \in 1 .. n |-> written(rs[j + i])]
      /\ u = [i \in 1 .. n - 1 |-> written(rs[j + 1 + i])]
  BY <1>1, <1>2
<1> HIDE DEF t, u
<1>5. t \in Seq(Seq(Alphabet)) /\ Len(t) = n /\ t[1] = written(rs[j + 1])
  <2>1. \A i \in 1 .. n : written(rs[j + i]) \in Seq(Alphabet)
    BY <1>1, <1>3
  <2>2. 1 \in 1 .. n
    BY <1>1
  <2> QED BY <1>1, <1>4, <2>1, <2>2
<1>6. u = Tail(t)
  <2> DEFINE v == Tail(t)
  <2>1. v = [i \in 1 .. n - 1 |-> t[i + 1]]
    <3>1. t \in Seq(Seq(Alphabet)) /\ Len(t) = n /\ n \in Nat /\ n >= 1
      BY <1>1, <1>5
    <3>2. t # <<>>
      BY <3>1
    <3>3. v \in Seq(Seq(Alphabet)) /\ Len(v) = Len(t) - 1 /\ \A i \in 1 .. Len(v) : v[i] = t[i + 1]
      BY <3>1, <3>2, HeadTailProperties
    <3> HIDE DEF v
    <3>4. v = [i \in 1 .. n - 1 |-> v[i]] /\ Len(v) = n - 1
      BY <3>1, <3>3
    <3> QED BY <3>3, <3>4
  <2>2. \A i \in 1 .. n - 1 : i + 1 \in 1 .. n /\ j + (i + 1) = j + 1 + i
    BY <1>1
  <2>3. \A i \in 1 .. n - 1 : t[i + 1] = written(rs[j + (i + 1)])
    BY <1>4, <2>2
  <2>4. \A i \in 1 .. n - 1 : t[i + 1] = written(rs[j + 1 + i])
    BY <2>2, <2>3
  <2> HIDE DEF v
  <2>5. u = v
    BY <1>4, <2>1, <2>4
  <2> QED BY <2>5 DEF v
<1>7. FlattenSeq(t) = joined(t[1], FlattenSeq(u)) /\ FlattenSeq(u) \in Seq(Alphabet)
  <2>1. Len(t) >= 1
    BY <1>1, <1>5
  <2> QED BY <1>5, <1>6, <2>1, FlattenCons
<1>8. after(rs, j) = FlattenSeq(t) /\ after(rs, j + 1) = FlattenSeq(u)
  <2>1. j + 1 + 1 = j + 2
    OBVIOUS
  <2> QED BY <2>1 DEF after, stream, t, u, q, p
<1>9. rs[j + 1] \in Requests
  OBVIOUS
<1> QED BY <1>3, <1>5, <1>7, <1>8, <1>9

(* It is a text. *)
LEMMA AfterText ==
  ASSUME NEW rs \in Seq(Requests), NEW j \in 0 .. Len(rs)
  PROVE  after(rs, j) \in Seq(Alphabet)
<1>1. CASE j = Len(rs)
  <2>1. <<>> \in Seq(Alphabet)
    OBVIOUS
  <2> QED BY <1>1, <2>1, AfterLast
<1>2. CASE j < Len(rs)
  <2> DEFINE x == written(rs[j + 1])
             y == after(rs, j + 1)
  <2>1. j \in 0 .. Len(rs) - 1
    BY <1>2
  <2>2. x \in Seq(Alphabet) /\ y \in Seq(Alphabet) /\ after(rs, j) = joined(x, y)
    BY <2>1, AfterNext
  <2> HIDE DEF x, y
  <2>3. IsJoined(Alphabet, joined(x, y), x, y)
    BY <2>2, JoinedText
  <2> QED BY <2>2, <2>3 DEF IsJoined
<1> QED BY <1>1, <1>2

(* Some whole requests of it: the next, and what follows. *)
Whole(rs, j, i, w) ==
  /\ w \in Seq(Alphabet) /\ after(rs, j) = joined(joined(written(rs[j + 1]), w), after(rs, i))
  /\ IF i = j + 1 THEN w = <<>> ELSE IsRequest(rs[j + 2]) /\ Text(w, rs[j + 2])

(* Between any two requests the stream can be taken apart. *)
LEMMA WholeRequests ==
  ASSUME NEW rs \in Seq(Requests), NEW j \in Nat, NEW i \in j + 1 .. Len(rs)
  PROVE  \E w : Whole(rs, j, i, w)
<1> DEFINE d == i - (j + 1)
           T == {k \in 0 .. d : \E w : Whole(rs, j, j + 1 + k, w)}
           x == written(rs[j + 1])
<1>1. d \in Nat /\ j + 1 + d = i /\ j \in 0 .. Len(rs) - 1
  OBVIOUS
<1>2. x \in Seq(Alphabet)
  BY <1>1, AfterNext
<1> HIDE DEF x, d
<1>3. 0 \in T
  <2>1. joined(x, <<>>) = x /\ <<>> \in Seq(Alphabet) /\ j + 1 + 0 = j + 1 /\ 0 \in 0 .. d
    BY <1>1, <1>2, JoinedEmpty
  <2>2. after(rs, j) = joined(x, after(rs, j + 1))
    BY <1>1, AfterNext DEF x
  <2>3. Whole(rs, j, j + 1, <<>>)
    BY <2>1, <2>2 DEF Whole, x
  <2> QED BY <2>1, <2>3
<1>4. ASSUME NEW k \in 0 .. d - 1, k \in T PROVE k + 1 \in T
  <2> DEFINE m == j + 1 + k
             y == written(rs[m + 1])
             z == after(rs, m + 1)
  <2>1. m \in 0 .. Len(rs) - 1 /\ m + 1 = j + 1 + (k + 1) /\ k + 1 \in 0 .. d /\ m + 1 # j + 1 /\ m >= j + 1
    BY <1>1 DEF d
  <2>2. PICK w : Whole(rs, j, m, w)
    BY <1>4
  <2> HIDE DEF m, T
  <2>3. y \in Seq(Alphabet) /\ z \in Seq(Alphabet) /\ after(rs, m) = joined(y, z) /\ IsRequest(rs[m + 1])
    BY <2>1, AfterNext
  <2>4. w \in Seq(Alphabet) /\ after(rs, j) = joined(joined(x, w), joined(y, z))
    BY <2>2, <2>3 DEF Whole, x
  <2>5. Text(y, rs[m + 1])
    BY <2>3, WrittenText
  <2> HIDE DEF y, z
  <2> DEFINE v == joined(w, y)
             xw == joined(x, w)
  <2>6. v \in Seq(Alphabet) /\ xw \in Seq(Alphabet)
    BY <1>2, <2>3, <2>4, Joined
  <2>7. joined(xw, joined(y, z)) = joined(joined(xw, y), z)
    <3> HIDE DEF xw
    <3> QED BY <2>3, <2>6, Associative
  <2>8. joined(xw, y) = joined(x, v)
    BY <1>2, <2>3, <2>4, Associative
  <2>9. after(rs, j) = joined(joined(x, v), z)
    BY <2>4, <2>7, <2>8
  <2>10. IsRequest(rs[j + 2]) /\ Text(v, rs[j + 2])
    <3>1. CASE m = j + 1
      <4>1. w = <<>> /\ m + 1 = j + 2
        BY <2>2, <3>1 DEF Whole
      <4>2. v = y
        BY <2>3, <4>1, JoinedEmpty
      <4> QED BY <2>3, <2>5, <4>1, <4>2
    <3>2. CASE m # j + 1
      <4>1. IsRequest(rs[j + 2]) /\ Text(w, rs[j + 2])
        BY <2>2, <3>2 DEF Whole
      <4> QED BY <2>3, <4>1, TextGoesOn
    <3> QED BY <3>1, <3>2
  <2> HIDE DEF v
  <2>11. Whole(rs, j, m + 1, v)
    BY <2>1, <2>6, <2>9, <2>10 DEF Whole, x, z
  <2> QED BY <2>1, <2>11 DEF T
<1>5. d \in T
  <2> HIDE DEF T
  <2>1. \A k \in 0 .. d : k \in T
    BY <1>1, <1>3, <1>4, AllNumbersUpTo
  <2>2. d \in 0 .. d
    BY <1>1
  <2> QED BY <2>1, <2>2
<1> QED BY <1>1, <1>5

(* The fewer requests are left, the shorter. *)
LEMMA AfterShorter ==
  ASSUME NEW rs \in Seq(Requests), NEW j \in Nat, NEW i \in j + 1 .. Len(rs)
  PROVE  Len(after(rs, i)) \in Nat /\ Len(after(rs, j)) \in Nat /\ Len(after(rs, i)) < Len(after(rs, j))
<1>1. PICK w : Whole(rs, j, i, w)
  BY WholeRequests
<1> DEFINE x == written(rs[j + 1])
           y == joined(x, w)
           z == after(rs, i)
<1>2. x \in Seq(Alphabet) /\ w \in Seq(Alphabet) /\ z \in Seq(Alphabet) /\ Len(x) >= 6 /\ after(rs, j) = joined(y, z)
  <2>1. j \in 0 .. Len(rs) - 1 /\ i \in 0 .. Len(rs)
    OBVIOUS
  <2>2. x \in Seq(Alphabet) /\ IsRequest(rs[j + 1])
    BY <2>1, AfterNext
  <2>3. Len(x) >= 6
    BY <2>2, WrittenText DEF Text, Line
  <2> QED BY <1>1, <2>1, <2>2, <2>3, AfterText DEF Whole
<1> HIDE DEF x, z
<1>3. IsJoined(Alphabet, y, x, w)
  BY <1>2, JoinedText
<1> HIDE DEF y
<1>4. y \in Seq(Alphabet)
  BY <1>3 DEF IsJoined
<1>5. IsJoined(Alphabet, joined(y, z), y, z)
  BY <1>2, <1>4, JoinedText
<1> QED BY <1>2, <1>3, <1>5 DEF IsJoined, z

(* What one call of readn finds, when the stream is cut between requests. *)
LEMMA Cut ==
  ASSUME NEW j \in 0 .. Len(sent), sent \in Seq(Requests), incoming = after(sent, j),
         reads \in {"request", "burst"}, NEW n \in cuts
  PROVE  \E i \in j + 1 .. Len(sent) : \E w :
           /\ Whole(sent, j, i, w) /\ (reads = "request" => i = j + 1)
           /\ SubSeq(incoming, 1, n) = joined(written(sent[j + 1]), w)
           /\ SubSeq(incoming, n + 1, Len(incoming)) = after(sent, i)
<1> DEFINE left == Len(incoming)
           E(k) == left - Len(stream(SubSeq(sent, k, Len(sent))))
           ends == {E(k) : k \in 2 .. Len(sent) + 1}
           aft == {e \in ends : e > 0}
<1>1. n \in aft /\ (reads = "request" => \A o \in aft : n <= o)
  <2>1. cuts = IF reads = "burst" THEN aft ELSE {e \in aft : \A o \in aft : e <= o}
    BY DEF cuts
  <2> HIDE DEF aft
  <2> QED BY <2>1
<1>2. PICK k \in 2 .. Len(sent) + 1 : n = E(k) /\ n > 0
  BY <1>1
<1> DEFINE i == k - 1
<1>3. i + 1 = k /\ i \in 1 .. Len(sent) /\ i \in 0 .. Len(sent) /\ i \in Nat /\ j \in Nat /\ Len(sent) \in Nat
  OBVIOUS
<1>4. n = left - Len(after(sent, i)) /\ left = Len(after(sent, j))
  <2>1. E(i + 1) = left - Len(after(sent, i))
    BY DEF after
  <2> QED BY <1>2, <1>3, <2>1
<1> HIDE DEF left, i, aft
<1>5. i \in j + 1 .. Len(sent)
  <2>1. CASE i = j
    <3>1. Len(after(sent, j)) \in Nat
      BY AfterText
    <3> QED BY <1>2, <1>4, <2>1, <3>1
  <2>2. CASE i < j
    <3>1. j \in i + 1 .. Len(sent)
      BY <1>3, <2>2
    <3>2. Len(after(sent, j)) \in Nat /\ Len(after(sent, i)) \in Nat /\ Len(after(sent, j)) < Len(after(sent, i))
      BY <1>3, <3>1, AfterShorter
    <3> QED BY <1>2, <1>4, <3>2
  <2> QED BY <1>3, <2>1, <2>2
<1>6. reads = "request" => i = j + 1
  <2> SUFFICES ASSUME reads = "request", i # j + 1 PROVE FALSE
    OBVIOUS
  <2>1. j + 1 \in Nat /\ j + 2 \in 2 .. Len(sent) + 1 /\ j + 1 \in j + 1 .. Len(sent) /\ i \in j + 1 + 1 .. Len(sent)
    BY <1>3, <1>5
  <2>2. Len(after(sent, j + 1)) \in Nat /\ Len(after(sent, i)) \in Nat /\ Len(after(sent, i)) < Len(after(sent, j + 1))
    BY <2>1, AfterShorter
  <2>3. Len(after(sent, j)) \in Nat /\ Len(after(sent, j + 1)) < Len(after(sent, j))
    BY <1>3, <2>1, AfterShorter
  <2> DEFINE o == left - Len(after(sent, j + 1))
  <2>4. o = E(j + 2)
    <3>1. j + 1 + 1 = j + 2
      BY <1>3
    <3> QED BY <3>1 DEF after, left
  <2>5. o > 0 /\ o < n
    BY <1>4, <2>2, <2>3
  <2>6. o \in aft
    <3> HIDE DEF o
    <3>1. o \in ends
      BY <2>1, <2>4
    <3> HIDE DEF ends
    <3> QED BY <2>5, <3>1 DEF aft
  <2>7. n <= o
    BY <1>1, <2>6
  <2>8. n \in Int /\ o \in Int
    BY <1>4, <2>2, <2>3
  <2> QED BY <2>5, <2>7, <2>8
<1>7. PICK w : Whole(sent, j, i, w)
  BY <1>3, <1>5, WholeRequests
<1> DEFINE x == written(sent[j + 1])
           y == joined(x, w)
           z == after(sent, i)
<1>8. x \in Seq(Alphabet) /\ w \in Seq(Alphabet) /\ z \in Seq(Alphabet) /\ incoming = joined(y, z)
  <2>1. j \in 0 .. Len(sent) - 1
    BY <1>3, <1>5
  <2>2. x \in Seq(Alphabet)
    BY <2>1, AfterNext
  <2>3. z \in Seq(Alphabet)
    BY <1>3, AfterText
  <2> QED BY <1>7, <2>2, <2>3 DEF Whole
<1> HIDE DEF x, z
<1>9. y \in Seq(Alphabet)
  BY <1>8, Joined
<1> HIDE DEF y
<1>10. IsJoined(Alphabet, joined(y, z), y, z)
  BY <1>8, <1>9, JoinedText
<1>11. n = Len(y)
  <2>1. left = Len(y) + Len(z) /\ Len(y) \in Nat /\ Len(z) \in Nat
    BY <1>8, <1>10 DEF left, IsJoined
  <2> QED BY <1>4, <2>1 DEF z
<1>12. SubSeq(incoming, 1, n) = y /\ SubSeq(incoming, n + 1, Len(incoming)) = z
  BY <1>8, <1>9, <1>11, CutPrefix, ZenonT(40)
<1> QED BY <1>5, <1>6, <1>7, <1>12 DEF x, y, z

(* What the members c hold; keepAlive_ decides nothing here. *)
Fields == {"inBuffer_", "state_", "hState_", "method_", "fileName_", "headers_",
           "keepAlive_", "error_", "terminated", "answers"}

Is(c, b, st, h, m, f, hd, e, as) ==
  /\ DOMAIN c = Fields
  /\ c.inBuffer_ = b /\ c.state_ = st /\ c.hState_ = h /\ c.method_ = m /\ c.fileName_ = f
  /\ c.headers_ = hd /\ c.error_ = e /\ c.terminated = FALSE /\ c.answers = as

(* The stages of one call of handle_read that finds n characters. *)
text(n) == inBuffer_ \o SubSeq(incoming, 1, n)
fed(n) == [members EXCEPT !.inBuffer_ = @ \o SubSeq(incoming, 1, n)]
parsed(n) == header_stage(uri_stage(fed(n)))
done(n) == analysis_stage(body_stage(parsed(n)))
last(n) == IF done(n).state_ = "FINISH" THEN reset(done(n)) ELSE done(n)

Called(n) ==
  /\ incoming' = SubSeq(incoming, n + 1, Len(incoming))
  /\ inBuffer_' = last(n).inBuffer_ /\ state_' = last(n).state_ /\ hState_' = last(n).hState_
  /\ method_' = last(n).method_ /\ fileName_' = last(n).fileName_ /\ headers_' = last(n).headers_
  /\ error_' = last(n).error_ /\ terminated' = last(n).terminated /\ answers' = last(n).answers
  /\ again' = (done(n).state_ = "FINISH" /\ last(n).inBuffer_ # <<>>)
  /\ header_cut' = (header_cut \/ InHeader(last(n)))
  /\ ~error_ /\ ~terminated /\ UNCHANGED <<reads, sent>>

(* A step is one call that finds some n characters. *)
LEMMA OneCall ==
  ASSUME handle_read
  PROVE  \E n \in cuts \cup {m \in {0} : again} : Called(n)
<1> HIDE DEF header_stage, uri_stage, body_stage, analysis_stage, reset, members, cuts, InHeader
<1>1. PICK n \in cuts \cup {m \in {0} : again} :
        \E p \in {parsed(n)} : \E d \in {analysis_stage(body_stage(p))} :
        \E c \in {IF d.state_ = "FINISH" THEN reset(d) ELSE d} :
          /\ incoming' = SubSeq(incoming, n + 1, Len(incoming))
          /\ inBuffer_' = c.inBuffer_ /\ state_' = c.state_ /\ hState_' = c.hState_
          /\ method_' = c.method_ /\ fileName_' = c.fileName_ /\ headers_' = c.headers_
          /\ keepAlive_' = c.keepAlive_ /\ error_' = c.error_ /\ terminated' = c.terminated
          /\ answers' = c.answers /\ header_cut' = (header_cut \/ InHeader(c))
          /\ again' = (d.state_ = "FINISH" /\ c.inBuffer_ # <<>>)
  BY Zenon DEF handle_read, fed, parsed
<1>2. ~error_ /\ ~terminated /\ UNCHANGED <<reads, sent>>
  BY DEF handle_read
<1> QED BY <1>1, <1>2, Zenon DEF Called, done, last

(* What the members hold when they were read. *)
LEMMA Fed ==
  ASSUME NEW n, terminated = FALSE
  PROVE  Is(fed(n), text(n), state_, hState_, method_, fileName_, headers_, error_, answers)
<1> DEFINE b == inBuffer_ \o SubSeq(incoming, 1, n)
<1>1. fed(n) = [members EXCEPT !.inBuffer_ = b]
  BY DEF fed, members
<1> HIDE DEF b
<1>2. Is(fed(n), b, state_, hState_, method_, fileName_, headers_, error_, answers)
  BY <1>1 DEF members, Is, Fields
<1> QED BY <1>2 DEF b, text

(* A call ends the connection, by an error or with the process, and answers
   nothing. *)
Refused(n) ==
  /\ last(n).answers = answers
  /\ \/ last(n).error_ = TRUE /\ last(n).terminated = FALSE
     \/ last(n).error_ = FALSE /\ last(n).terminated = TRUE

(* Nothing that failed goes on. *)
LEMMA Rejected ==
  ASSUME NEW n, NEW b, NEW st, NEW h, NEW m, NEW f, NEW hd, st # "FINISH",
         Is(parsed(n), b, st, h, m, f, hd, TRUE, answers)
  PROVE  Refused(n)
<1>1. done(n) = parsed(n)
  BY DEF done, body_stage, analysis_stage, Is
<1> QED BY <1>1 DEF last, Is, Refused

(* Incomplete headers are kept for the next call. *)
LEMMA Waiting ==
  ASSUME NEW n, NEW b, NEW h, NEW m, NEW f, NEW hd,
         Is(parsed(n), b, "PARSE_HEADERS", h, m, f, hd, FALSE, answers)
  PROVE  Is(last(n), b, "PARSE_HEADERS", h, m, f, hd, FALSE, answers) /\ done(n).state_ # "FINISH"
<1>1. done(n) = parsed(n)
  BY DEF done, body_stage, analysis_stage, Is
<1>2. done(n).state_ # "FINISH"
  BY <1>1 DEF Is
<1> QED BY <1>1, <1>2 DEF last

(* A POST is refused or waits for its body: it has no handler. *)
LEMMA Posted ==
  ASSUME NEW n, NEW b, NEW h, NEW f, NEW hd,
         Is(parsed(n), b, "RECV_BODY", h, "POST", f, hd, FALSE, answers)
  PROVE  \/ Refused(n)
         \/ /\ Is(last(n), b, "RECV_BODY", h, "POST", f, hd, FALSE, answers)
            /\ done(n).state_ # "FINISH"
<1> DEFINE c == parsed(n)
           d == body_stage(c)
<1>0. Is(c, b, "RECV_BODY", h, "POST", f, hd, FALSE, answers)
  OBVIOUS
<1>1. \/ d = c \/ d = [c EXCEPT !.error_ = TRUE] \/ d = [c EXCEPT !.terminated = TRUE]
      \/ d = [c EXCEPT !.state_ = "ANALYSIS"]
  <2> HIDE DEF c
  <2> QED BY DEF body_stage
<1>2. done(n) = analysis_stage(d)
  BY DEF done
<1> HIDE DEF c, d
<1>3. CASE d = c
  <2>1. analysis_stage(d) = d
    BY <1>0, <1>3 DEF analysis_stage, Is
  <2>2. Is(done(n), b, "RECV_BODY", h, "POST", f, hd, FALSE, answers)
    BY <1>0, <1>2, <1>3, <2>1
  <2> QED BY <2>2 DEF last, Is
<1>4. CASE d = [c EXCEPT !.error_ = TRUE]
  <2>1. Is(d, b, "RECV_BODY", h, "POST", f, hd, TRUE, answers)
    BY <1>0, <1>4 DEF Is, Fields
  <2>2. analysis_stage(d) = d
    BY <2>1 DEF analysis_stage, Is
  <2> QED BY <1>2, <2>1, <2>2 DEF last, Is, Refused
<1>5. CASE d = [c EXCEPT !.terminated = TRUE]
  <2>1. d.state_ = "RECV_BODY" /\ d.error_ = FALSE /\ d.terminated = TRUE /\ d.answers = answers
    BY <1>0, <1>5 DEF Is, Fields
  <2>2. analysis_stage(d) = d
    BY <2>1 DEF analysis_stage
  <2> QED BY <1>2, <2>1, <2>2 DEF last, Refused
<1>6. CASE d = [c EXCEPT !.state_ = "ANALYSIS"]
  <2>1. Is(d, b, "ANALYSIS", h, "POST", f, hd, FALSE, answers)
    BY <1>0, <1>6 DEF Is, Fields
  <2>2. analysis_stage(d) = [d EXCEPT !.error_ = TRUE]
    BY <2>1 DEF analysis_stage, Is
  <2>3. Is(done(n), b, "ANALYSIS", h, "POST", f, hd, TRUE, answers)
    BY <1>2, <2>1, <2>2 DEF Is, Fields
  <2> QED BY <2>3 DEF last, Is, Refused
<1> QED BY <1>1, <1>3, <1>4, <1>5, <1>6

(* An entry of answers. *)
Answer(m, f, hd) == [method |-> m, file |-> f, headers |-> hd]

(* A GET or HEAD is answered, unless its file is missing. *)
LEMMA Analysed ==
  ASSUME NEW n, NEW b, NEW h, NEW m, NEW f, NEW hd, m # "POST",
         Is(parsed(n), b, "ANALYSIS", h, m, f, hd, FALSE, answers)
  PROVE  IF f = "/missing" THEN Refused(n)
         ELSE /\ done(n).state_ = "FINISH"
              /\ Is(last(n), b, "PARSE_URI", "START", m, "", {}, FALSE, Append(answers, Answer(m, f, hd)))
<1> DEFINE c == parsed(n)
           k == c.keepAlive_ \/ <<"keep-alive">> \in values(c.headers_, "Connection")
           g == [c EXCEPT !.keepAlive_ = k]
<1>1. done(n) = analysis_stage(c)
  <2>1. body_stage(c) = c
    BY DEF body_stage, Is
  <2> QED BY <2>1 DEF done
<1>2. c.state_ = "ANALYSIS" /\ c.error_ = FALSE /\ c.method_ = m /\ c.fileName_ = f /\ c.headers_ = hd
  BY DEF Is
<1>3. [c EXCEPT !.keepAlive_ = @ \/ <<"keep-alive">> \in values(c.headers_, "Connection")] = g
  <2> HIDE DEF values
  <2>1. "keepAlive_" \in DOMAIN c
    BY DEF Is, Fields
  <2> HIDE DEF c
  <2> QED BY <2>1
<1>4. done(n) = IF f = "/missing" THEN [g EXCEPT !.error_ = TRUE]
                ELSE [g EXCEPT !.state_ = "FINISH", !.answers = Append(@, Answer(m, f, hd))]
  <2> HIDE DEF c, g, values
  <2> QED BY <1>1, <1>2, <1>3 DEF analysis_stage, Answer
<1>5. Is(g, b, "ANALYSIS", h, m, f, hd, FALSE, answers)
  <2> HIDE DEF k
  <2> QED BY DEF Is, Fields
<1> HIDE DEF g, c, k
<1>6. CASE f = "/missing"
  <2>1. Is(done(n), b, "ANALYSIS", h, m, f, hd, TRUE, answers)
    BY <1>4, <1>5, <1>6 DEF Is, Fields
  <2> QED BY <1>6, <2>1 DEF last, Is, Refused
<1>7. CASE f # "/missing"
  <2> DEFINE a == Answer(m, f, hd)
             as == Append(answers, a)
  <2>1. Is(done(n), b, "FINISH", h, m, f, hd, FALSE, as)
    <3> HIDE DEF a
    <3>1. done(n) = [g EXCEPT !.state_ = "FINISH", !.answers = Append(@, a)]
      BY <1>4, <1>7 DEF a
    <3> QED BY <1>5, <3>1 DEF Is, Fields
  <2> HIDE DEF as
  <2>2. done(n).state_ = "FINISH" /\ last(n) = reset(done(n))
    BY <2>1 DEF Is, last
  <2>3. Is(reset(done(n)), b, "PARSE_URI", "START", m, "", {}, FALSE, as)
    BY <2>1 DEF Is, Fields, reset
  <2> QED BY <1>7, <2>2, <2>3 DEF as
<1> QED BY <1>6, <1>7

(* The stages that parse. *)
LEMMA UriRejects ==
  ASSUME NEW n, terminated = FALSE, state_ = "PARSE_URI", parseURI(text(n)).verdict = "ERROR"
  PROVE  Refused(n)
<1> DEFINE c == fed(n)
           u == parseURI(c.inBuffer_)
           d == uri_stage(c)
<1>1. Is(c, text(n), "PARSE_URI", hState_, method_, fileName_, headers_, error_, answers)
  BY Fed
<1>2. u.verdict = "ERROR"
  <2> HIDE DEF parseURI
  <2> QED BY <1>1 DEF Is
<1>3. c.state_ = "PARSE_URI"
  BY <1>1 DEF Is
<1>4. d = [c EXCEPT !.method_ = u.method, !.fileName_ = u.file, !.inBuffer_ = <<>>, !.error_ = TRUE, !.state_ = @]
  <2> HIDE DEF c, parseURI
  <2> QED BY <1>2, <1>3 DEF uri_stage
<1>4a. parsed(n) = header_stage(d)
  BY DEF parsed
<1> HIDE DEF c, u, d
<1>5. Is(d, <<>>, "PARSE_URI", hState_, u.method, u.file, headers_, TRUE, answers)
  BY <1>1, <1>4 DEF Is, Fields
<1>6. header_stage(d) = d
  BY <1>5 DEF header_stage, Is
<1> QED BY <1>4a, <1>5, <1>6, Rejected

(* parseURI takes the line of a known version off the buffer, and parse_headers
   goes on with the rest. *)
LEMMA UriTaken ==
  ASSUME NEW n, terminated = FALSE, state_ = "PARSE_URI", NEW r, IsRequest(r), Text(text(n), r), r.version \in known_versions
  PROVE  \E c : /\ parsed(n) = header_stage(c)
                /\ Is(c, substr(text(n), 6), "PARSE_HEADERS", hState_, r.method, r.target, headers_, FALSE, answers)
<1> DEFINE x == text(n)
           c == fed(n)
           y == substr(x, 6)
           d == uri_stage(c)
<1>1. parseURI(x) = Verdict("SUCCESS", r.method, r.target, y)
  BY ParseLine DEF Text, IsRequest
<1>2. Is(c, x, "PARSE_URI", hState_, method_, fileName_, headers_, error_, answers)
  BY Fed
<1>3. c.state_ = "PARSE_URI" /\ parseURI(c.inBuffer_) = Verdict("SUCCESS", r.method, r.target, y)
  <2> HIDE DEF parseURI, Verdict, y
  <2> QED BY <1>1, <1>2 DEF Is
<1>4. d = [c EXCEPT !.method_ = r.method, !.fileName_ = r.target, !.inBuffer_ = y, !.error_ = FALSE, !.state_ = "PARSE_HEADERS"]
  <2> DEFINE u == parseURI(c.inBuffer_)
             e == u.verdict = "ERROR"
  <2>1. u.verdict = "SUCCESS" /\ u.method = r.method /\ u.file = r.target /\ u.rest = y
    <3> HIDE DEF c, parseURI, y
    <3> QED BY <1>3 DEF Verdict
  <2>2. d = [c EXCEPT !.method_ = u.method, !.fileName_ = u.file,
                !.inBuffer_ = IF e THEN <<>> ELSE u.rest, !.error_ = e,
                !.state_ = IF e THEN @ ELSE "PARSE_HEADERS"]
    <3> HIDE DEF c, parseURI, y
    <3> QED BY <1>3, <2>1 DEF uri_stage
  <2> HIDE DEF u, c, d
  <2>3. e = FALSE
    BY <2>1
  <2> HIDE DEF e, y
  <2> QED BY <2>1, <2>2, <2>3
<1>5. Is(d, y, "PARSE_HEADERS", hState_, r.method, r.target, headers_, FALSE, answers)
  <2> HIDE DEF c, d, y, x
  <2> QED BY <1>2, <1>4 DEF Is, Fields
<1>6. parsed(n) = header_stage(d)
  BY DEF parsed
<1> HIDE DEF d
<1> QED BY <1>5, <1>6

(* A call in the middle of a request goes on where the last one ended. *)
LEMMA PastUri ==
  ASSUME NEW n, terminated = FALSE, state_ # "PARSE_URI"
  PROVE  parsed(n) = header_stage(fed(n))
<1>1. fed(n).state_ = state_
  BY Fed DEF Is
<1>2. uri_stage(fed(n)) = fed(n)
  BY <1>1 DEF uri_stage
<1> QED BY <1>2 DEF parsed

(* A call in which parse_headers fails ends with an error. *)
LEMMA HeadersReject ==
  ASSUME NEW n, NEW c, parsed(n) = header_stage(c), NEW b, NEW h, NEW m, NEW f, NEW hd,
         Is(c, b, "PARSE_HEADERS", h, m, f, hd, FALSE, answers), parse_headers(b).verdict = "ERROR"
  PROVE  Refused(n)
<1> DEFINE p == parse_headers(c.inBuffer_)
           d == header_stage(c)
<1>1. p.verdict = "ERROR" /\ c.state_ = "PARSE_HEADERS" /\ ~c.error_
  <2> HIDE DEF parse_headers
  <2> QED BY DEF Is
<1>2. d = [c EXCEPT !.inBuffer_ = p.rest, !.hState_ = p.h, !.headers_ = p.headers, !.error_ = TRUE, !.state_ = @]
  <2> HIDE DEF parse_headers
  <2> QED BY <1>1 DEF header_stage
<1> HIDE DEF p, d
<1>3. Is(d, p.rest, "PARSE_HEADERS", p.h, m, f, p.headers, TRUE, answers)
  BY <1>2 DEF Is, Fields
<1> QED BY <1>3, Rejected DEF d

(* A call in which it asks for more keeps what it understood. *)
LEMMA HeadersWait ==
  ASSUME NEW n, NEW c, parsed(n) = header_stage(c), NEW b, NEW h, NEW m, NEW f, NEW hd,
         Is(c, b, "PARSE_HEADERS", h, m, f, hd, FALSE, answers), NEW h2, NEW hd2, NEW rest,
         parse_headers(b) = [verdict |-> "AGAIN", h |-> h2, headers |-> hd2, rest |-> rest]
  PROVE  Is(last(n), rest, "PARSE_HEADERS", h2, m, f, hd2, FALSE, answers) /\ done(n).state_ # "FINISH"
<1> DEFINE d == header_stage(c)
<1>1. c.state_ = "PARSE_HEADERS" /\ ~c.error_
      /\ parse_headers(c.inBuffer_) = [verdict |-> "AGAIN", h |-> h2, headers |-> hd2, rest |-> rest]
  <2> HIDE DEF parse_headers
  <2> QED BY DEF Is
<1>2. d = [c EXCEPT !.inBuffer_ = rest, !.hState_ = h2, !.headers_ = hd2, !.error_ = FALSE, !.state_ = @]
  <2> DEFINE p == parse_headers(c.inBuffer_)
             e == p.verdict = "ERROR"
             w == IF p.verdict # "SUCCESS" THEN c.state_ ELSE IF c.method_ = "POST" THEN "RECV_BODY" ELSE "ANALYSIS"
  <2>1. p.verdict = "AGAIN" /\ p.h = h2 /\ p.headers = hd2 /\ p.rest = rest
    <3> HIDE DEF parse_headers
    <3> QED BY <1>1
  <2>2. d = [c EXCEPT !.inBuffer_ = p.rest, !.hState_ = p.h, !.headers_ = p.headers, !.error_ = e, !.state_ = w]
    <3> HIDE DEF parse_headers
    <3> QED BY <1>1 DEF header_stage
  <2> HIDE DEF p, d
  <2>3. e = FALSE /\ w = c.state_
    BY <1>1, <2>1
  <2> HIDE DEF e, w
  <2> QED BY <2>1, <2>2, <2>3
<1> HIDE DEF d
<1>3. Is(d, rest, "PARSE_HEADERS", h2, m, f, hd2, FALSE, answers)
  BY <1>2 DEF Is, Fields
<1> QED BY <1>3, Waiting DEF d

(* Complete headers lead to the body or to the answer. *)
LEMMA HeadersTaken ==
  ASSUME NEW n, NEW c, parsed(n) = header_stage(c), NEW b, NEW h, NEW m, NEW f, NEW hd,
         Is(c, b, "PARSE_HEADERS", h, m, f, hd, FALSE, answers), NEW h2, NEW hd2, NEW rest,
         parse_headers(b) = [verdict |-> "SUCCESS", h |-> h2, headers |-> hd2, rest |-> rest]
  PROVE  Is(parsed(n), rest, IF m = "POST" THEN "RECV_BODY" ELSE "ANALYSIS", h2, m, f, hd2, FALSE, answers)
<1> DEFINE d == header_stage(c)
           st == IF m = "POST" THEN "RECV_BODY" ELSE "ANALYSIS"
<1>1. c.state_ = "PARSE_HEADERS" /\ ~c.error_ /\ c.method_ = m
      /\ parse_headers(c.inBuffer_) = [verdict |-> "SUCCESS", h |-> h2, headers |-> hd2, rest |-> rest]
  <2> HIDE DEF parse_headers
  <2> QED BY DEF Is
<1>2. d = [c EXCEPT !.inBuffer_ = rest, !.hState_ = h2, !.headers_ = hd2, !.error_ = FALSE, !.state_ = st]
  <2> DEFINE p == parse_headers(c.inBuffer_)
             e == p.verdict = "ERROR"
             w == IF p.verdict # "SUCCESS" THEN c.state_ ELSE IF c.method_ = "POST" THEN "RECV_BODY" ELSE "ANALYSIS"
  <2>1. p.verdict = "SUCCESS" /\ p.h = h2 /\ p.headers = hd2 /\ p.rest = rest
    <3> HIDE DEF parse_headers
    <3> QED BY <1>1
  <2>2. d = [c EXCEPT !.inBuffer_ = p.rest, !.hState_ = p.h, !.headers_ = p.headers, !.error_ = e, !.state_ = w]
    <3> HIDE DEF parse_headers
    <3> QED BY <1>1 DEF header_stage
  <2> HIDE DEF p, d
  <2>3. e = FALSE /\ w = st
    BY <1>1, <2>1
  <2> HIDE DEF e, w, st
  <2> QED BY <2>1, <2>2, <2>3
<1> HIDE DEF d, st
<1>3. Is(d, rest, st, h2, m, f, hd2, FALSE, answers)
  BY <1>2 DEF Is, Fields
<1> QED BY <1>3 DEF d, st

(* Where the parser stands between two calls of handle_read: before a request;
   before what it left of one it cut the method off; or in the middle of one
   that is never going to be answered. *)
Fresh ==
  /\ state_ = "PARSE_URI" /\ hState_ = "START" /\ headers_ = {}
  /\ inBuffer_ = <<>> /\ again = FALSE

Ignored == again = TRUE /\ state_ = "PARSE_URI" /\ Beheaded(inBuffer_)

BlankSkipped(st, h, hd, b) == st = "PARSE_HEADERS" /\ h = "START" /\ hd = {} /\ b = <<"LF", "CR", "LF">>
BodyMisread(st, h, b) == st = "PARSE_HEADERS" /\ h = "KEY" /\ b \in Seq({"BODY"})
BodyWanted(st, m) == st = "RECV_BODY" /\ m = "POST"

Lost(st, h, m, hd, b) == BlankSkipped(st, h, hd, b) \/ BodyMisread(st, h, b) \/ BodyWanted(st, m)

Unserved == Len(answers) + 1 \in DOMAIN sent /\ ~served(sent[Len(answers) + 1])

Stuck == Unserved /\ again = FALSE /\ Lost(state_, hState_, method_, headers_, inBuffer_)

Answered ==
  /\ sent \in Seq(Requests) /\ answers \in Seq({meaning(r) : r \in Requests})
  /\ Len(answers) <= Len(sent)
  /\ \A k \in 1 .. Len(answers) : answers[k] = meaning(sent[k])

Between(j) ==
  /\ incoming = after(sent, j)
  /\ \/ Fresh /\ j = Len(answers)
     \/ Ignored /\ reads = "burst"
     \/ Stuck

(* There is no further call. *)
Closed == error_ \/ terminated

Inv ==
  /\ Answered /\ {error_, terminated} \subseteq BOOLEAN
  /\ Closed /\ reads = "request" => Unserved
  /\ ~Closed => \E j \in Len(answers) .. Len(sent) : Between(j)

(* substr, by index. *)
LEMMA Rest ==
  ASSUME NEW A, NEW s \in Seq(A), NEW q \in 0 .. Len(s)
  PROVE  /\ substr(s, q) \in Seq(A) /\ Len(substr(s, q)) = Len(s) - q
         /\ \A i \in 1 .. Len(s) - q : substr(s, q)[i] = s[q + i]
<1> DEFINE c == SubSeq(s, q + 1, Len(s))
<1>1. c \in Seq(A) /\ Len(c) = Len(s) - q /\ \A i \in 1 .. Len(s) - q : c[i] = s[q + i]
  <2>1. c \in Seq(A) /\ Len(c) = Len(s) - q
    OBVIOUS
  <2>2. ASSUME NEW i \in 1 .. Len(s) - q PROVE c[i] = s[q + i]
    OBVIOUS
  <2> QED BY <2>1, <2>2
<1> HIDE DEF c
<1> QED BY <1>1 DEF substr, c

(* What a call reads when it finds a request r, and the text w of others after
   it or nothing. *)
Begins(w) == \E r : IsRequest(r) /\ Text(w, r)

Received(x, r, w) ==
  /\ IsRequest(r) /\ Text(x, r) /\ w \in Seq(Alphabet)
  /\ Len(x) = 6 * Len(r.headers) + 9 + r.body + Len(w)
  /\ \A i \in 1 .. Len(w) : x[6 * Len(r.headers) + 9 + r.body + i] = w[i]
  /\ w = <<>> \/ Begins(w)

(* Such a text is one that a client wrote. *)
LEMMA ReceivedText ==
  ASSUME NEW r, IsRequest(r), NEW w \in Seq(Alphabet), w = <<>> \/ Begins(w)
  PROVE  Received(joined(written(r), w), r, w)
<1> DEFINE x == written(r)
           l == 6 * Len(r.headers) + 9 + r.body
<1>1. Text(x, r) /\ Len(x) = l
  BY WrittenText
<1>2. x \in Seq(Alphabet)
  BY <1>1 DEF Text, Line
<1>3. Text(joined(x, w), r)
  BY <1>1, TextGoesOn
<1> HIDE DEF x
<1>4. IsJoined(Alphabet, joined(x, w), x, w)
  BY <1>2, JoinedText
<1> HIDE DEF l
<1>5. Len(joined(x, w)) = l + Len(w) /\ \A i \in 1 .. Len(w) : joined(x, w)[l + i] = w[i]
  BY <1>1, <1>4 DEF IsJoined
<1> QED BY <1>3, <1>5 DEF Received, x, l

(* The words a following request begins with. *)
LEMMA FirstWords ==
  ASSUME NEW w, Begins(w)
  PROVE  /\ w \in Seq(Alphabet) /\ Len(w) \in Nat /\ Len(w) >= 6
         /\ \A i \in 1 .. 5 : w[i] \notin {"COLON", "LF", "CR"}
         /\ w[6] = "CR" /\ w[2] = "SP" /\ w[3] \in Targets /\ w[4] = "SP" /\ w[5] \in Versions
<1>1. PICK r : IsRequest(r) /\ Text(w, r)
  BY DEF Begins
<1>2. r.method \in Methods /\ r.target \in Targets /\ r.version \in Versions
  BY <1>1 DEF IsRequest
<1>3. /\ w \in Seq(Alphabet) /\ Len(w) >= 6
      /\ w[1] = r.method /\ w[2] = "SP" /\ w[3] = r.target /\ w[4] = "SP" /\ w[5] = r.version /\ w[6] = "CR"
  BY <1>1 DEF Text, Line
<1>4. \A i \in 1 .. 5 : i \in {1, 2, 3, 4, 5}
  OBVIOUS
<1>5. \A i \in {1, 2, 3, 4, 5} : w[i] \notin {"COLON", "LF", "CR"}
  BY <1>2, <1>3 DEF Methods, Targets, Versions
<1>6. \A i \in 1 .. 5 : w[i] \notin {"COLON", "LF", "CR"}
  BY <1>4, <1>5
<1>7. Len(w) \in Nat
  BY <1>3
<1> QED BY <1>2, <1>3, <1>6, <1>7

(* Behind the request line. *)
Behind(y, r, w) ==
  /\ HeaderText(y, r.headers) /\ w \in Seq(Alphabet)
  /\ Len(y) = 6 * Len(r.headers) + 3 + r.body + Len(w)
  /\ \A i \in 1 .. r.body : y[6 * Len(r.headers) + 3 + i] = "BODY"
  /\ \A i \in 1 .. Len(w) : y[6 * Len(r.headers) + 3 + r.body + i] = w[i]

(* The request line is cut off, nothing else. *)
LEMMA BehindLine ==
  ASSUME NEW x, NEW r, NEW w, Received(x, r, w)
  PROVE  Behind(substr(x, 6), r, w)
<1> DEFINE y == substr(x, 6)
           n == Len(r.headers)
           b == r.body
<1>1. /\ x \in Seq(Alphabet) /\ w \in Seq(Alphabet) /\ r.headers \in Seq(STRING \X STRING)
      /\ n \in Nat /\ b \in Nat /\ Len(w) \in Nat /\ Len(x) \in Nat /\ Len(x) = 6 * n + 9 + b + Len(w)
  BY DEF Received, Text, Line, IsRequest
<1>2. /\ y \in Seq(Alphabet) /\ Len(y) = Len(x) - 6 /\ \A i \in 1 .. Len(x) - 6 : y[i] = x[6 + i]
  <2>1. 6 \in 0 .. Len(x)
    BY <1>1
  <2> QED BY <1>1, <2>1, Rest
<1> HIDE DEF y
<1>3. /\ x[7] = "LF" /\ x[6 * n + 8] = "CR" /\ x[6 * n + 9] = "LF"
      /\ \A i \in 0 .. n - 1 : HeaderAt(x, 6 * i + 7, r.headers[i + 1])
      /\ \A i \in 1 .. b : x[6 * n + 9 + i] = "BODY"
      /\ \A i \in 1 .. Len(w) : x[6 * n + 9 + b + i] = w[i]
  BY DEF Received, Text
<1>4. \A i \in DOMAIN r.headers : r.headers[i][1] \notin Separators
  BY DEF Received, IsRequest
<1>4a. DOMAIN r.headers = 1 .. n
  BY <1>1
<1> HIDE DEF n, b
<1>5. Len(y) = 6 * n + 3 + b + Len(w)
  BY <1>1, <1>2
<1>6. y[1] = "LF" /\ y[6 * n + 2] = "CR" /\ y[6 * n + 3] = "LF"
  <2>1. /\ 1 \in 1 .. Len(x) - 6 /\ 6 * n + 2 \in 1 .. Len(x) - 6 /\ 6 * n + 3 \in 1 .. Len(x) - 6
        /\ 6 + 1 = 7 /\ 6 + (6 * n + 2) = 6 * n + 8 /\ 6 + (6 * n + 3) = 6 * n + 9
    BY <1>1
  <2> QED BY <1>2, <1>3, <2>1, SMTT(30)
<1>7. ASSUME NEW i \in 0 .. n - 1 PROVE HeaderAt(y, 6 * i + 1, r.headers[i + 1]) /\ r.headers[i + 1][1] \notin Separators
  <2>1. HeaderAt(x, 6 * i + 7, r.headers[i + 1])
    BY <1>3
  <2>2. \A p \in 1 .. 6 : 6 * i + 1 + p \in 1 .. Len(x) - 6 /\ 6 + (6 * i + 1 + p) = 6 * i + 7 + p
    BY <1>1
  <2>3. \A p \in 1 .. 6 : y[6 * i + 1 + p] = x[6 * i + 7 + p]
    BY <1>2, <2>2
  <2>4. 1 \in 1 .. 6 /\ 2 \in 1 .. 6 /\ 3 \in 1 .. 6 /\ 4 \in 1 .. 6 /\ 5 \in 1 .. 6 /\ 6 \in 1 .. 6
    OBVIOUS
  <2>5. HeaderAt(y, 6 * i + 1, r.headers[i + 1])
    BY <2>1, <2>3, <2>4 DEF HeaderAt
  <2>6. i + 1 \in 1 .. n
    BY <1>1
  <2> QED BY <1>4, <1>4a, <2>5, <2>6
<1>8. ASSUME NEW i \in 1 .. b PROVE y[6 * n + 3 + i] = "BODY"
  <2>1. 6 * n + 3 + i \in 1 .. Len(x) - 6 /\ 6 + (6 * n + 3 + i) = 6 * n + 9 + i
    BY <1>1
  <2> QED BY <1>2, <1>3, <2>1
<1>9. ASSUME NEW i \in 1 .. Len(w) PROVE y[6 * n + 3 + b + i] = w[i]
  <2>1. 6 * n + 3 + b + i \in 1 .. Len(x) - 6 /\ 6 + (6 * n + 3 + b + i) = 6 * n + 9 + b + i
    BY <1>1
  <2>2. y[6 * n + 3 + b + i] = x[6 + (6 * n + 3 + b + i)]
    BY <1>2, <2>1
  <2>3. x[6 * n + 9 + b + i] = w[i]
    BY <1>3
  <2> QED BY <2>1, <2>2, <2>3
<1>10. 6 * n + 3 <= Len(y)
  BY <1>1, <1>5
<1> QED BY <1>1, <1>2, <1>5, <1>6, <1>7, <1>8, <1>9, <1>10 DEF Behind, HeaderText, y, n, b

(* A call leaves the parser in the middle of a request, or answers it. *)
Lasting(n) ==
  \E b, st, h, m, f, hd :
    /\ Is(last(n), b, st, h, m, f, hd, FALSE, answers) /\ done(n).state_ # "FINISH"
    /\ Lost(st, h, m, hd, b)

Completed(n, r, w) ==
  \E b :
    /\ done(n).state_ = "FINISH"
    /\ Is(last(n), b, "PARSE_URI", "START", r.method, "", {}, FALSE, Append(answers, meaning(r)))
    /\ IF w = <<>> THEN b = <<>> ELSE Beheaded(b)

(* A request without headers alone: its blank line is skipped in H_START. *)
LEMMA BlankAlone ==
  ASSUME NEW n, NEW c, parsed(n) = header_stage(c), NEW y, NEW m, NEW f, Ready,
         Is(c, y, "PARSE_HEADERS", hState_, m, f, headers_, FALSE, answers),
         HeaderText(y, <<>>), Len(y) = 3
  PROVE  Lasting(n)
<1>1. y \in Seq(Alphabet) /\ y[1] = "LF" /\ y[2] = "CR" /\ y[3] = "LF" /\ 0 \in 0 .. Len(y)
  <2>1. Len(<<>>) = 0 /\ 6 * 0 + 2 = 2 /\ 6 * 0 + 3 = 3
    OBVIOUS
  <2> QED BY <2>1 DEF HeaderText
<1>2. At(y, 3, "START", {}, 0)
  BY BlankPassed
<1>3. parse_headers(y) = [verdict |-> "AGAIN", h |-> "START", headers |-> {}, rest |-> substr(y, 0)]
  BY <1>1, <1>2, AllRead
<1>4. substr(y, 0) = <<"LF", "CR", "LF">>
  <2> DEFINE c1 == substr(y, 0)
             t == <<"LF", "CR", "LF">>
  <2>1. c1 \in Seq(Alphabet) /\ Len(c1) = Len(y) - 0 /\ \A i \in 1 .. Len(y) - 0 : c1[i] = y[0 + i]
    BY <1>1, Rest
  <2>2. t \in Seq(Alphabet) /\ Len(t) = 3 /\ t[1] = "LF" /\ t[2] = "CR" /\ t[3] = "LF"
    <3>1. "LF" \in Alphabet /\ "CR" \in Alphabet
      BY DEF Alphabet, Separators
    <3> HIDE DEF Alphabet
    <3> QED BY <3>1
  <2> HIDE DEF c1, t
  <2>3. Len(c1) = 3 /\ c1[1] = y[1] /\ c1[2] = y[2] /\ c1[3] = y[3]
    BY <2>1
  <2>4. \A i \in 1 .. 3 : c1[i] = t[i]
    <3>1. \A i \in 1 .. 3 : i \in {1, 2, 3}
      OBVIOUS
    <3> QED BY <1>1, <2>2, <2>3, <3>1
  <2>5. c1 = t
    BY <2>1, <2>2, <2>3, <2>4, SeqEqual
  <2> QED BY <2>5 DEF c1, t
<1>5. parse_headers(y) = [verdict |-> "AGAIN", h |-> "START", headers |-> {}, rest |-> <<"LF", "CR", "LF">>]
  BY <1>3, <1>4
<1>6. Is(last(n), <<"LF", "CR", "LF">>, "PARSE_HEADERS", "START", m, f, {}, FALSE, answers) /\ done(n).state_ # "FINISH"
  BY <1>5, HeadersWait
<1> QED BY <1>6 DEF Lasting, Lost, BlankSkipped

(* With a body: the body is taken for the name of a header. *)
LEMMA BlankAndBody ==
  ASSUME NEW n, NEW c, parsed(n) = header_stage(c), NEW y, NEW m, NEW f, Ready,
         Is(c, y, "PARSE_HEADERS", hState_, m, f, headers_, FALSE, answers),
         HeaderText(y, <<>>), Len(y) > 3, \A i \in 1 .. Len(y) - 3 : y[3 + i] = "BODY"
  PROVE  Lasting(n)
<1>1. y \in Seq(Alphabet) /\ Len(y) \in Nat /\ Len(y) >= 4 /\ 3 \in 0 .. Len(y) /\ 4 \in Nat /\ Len(y) \in 4 .. Len(y)
  BY DEF HeaderText
<1>2. \A k \in 3 .. Len(y) - 1 : y[k + 1] = "BODY"
  <2> SUFFICES ASSUME NEW k \in 3 .. Len(y) - 1 PROVE y[k + 1] = "BODY"
    OBVIOUS
  <2>1. k - 2 \in 1 .. Len(y) - 3 /\ 3 + (k - 2) = k + 1
    BY <1>1
  <2>2. y[3 + (k - 2)] = "BODY"
    BY <2>1
  <2> QED BY <2>1, <2>2
<1>3. y[4] \notin {"LF", "CR"}
  <2>1. 3 \in 3 .. Len(y) - 1 /\ 3 + 1 = 4
    BY <1>1
  <2>2. y[3 + 1] = "BODY"
    BY <1>2, <2>1
  <2> QED BY <2>1, <2>2
<1>4. At(y, 4, "KEY", {}, 3)
  BY <1>1, <1>3, BlankKey
<1>5. Plain(y, 4, Len(y))
  <2>1. \A k \in 4 .. Len(y) - 1 : k \in 3 .. Len(y) - 1
    BY <1>1
  <2> QED BY <1>2, <2>1 DEF Plain
<1>6. At(y, Len(y), "KEY", {}, 3)
  BY <1>1, <1>4, <1>5, KeyRuns
<1> DEFINE t == substr(y, 3)
<1>7. parse_headers(y) = [verdict |-> "AGAIN", h |-> "KEY", headers |-> {}, rest |-> t]
  BY <1>1, <1>6, AllRead
<1>8. t \in Seq({"BODY"})
  <2>1. t \in Seq(Alphabet) /\ Len(t) = Len(y) - 3 /\ \A i \in 1 .. Len(y) - 3 : t[i] = y[3 + i]
    BY <1>1, Rest
  <2> HIDE DEF t
  <2>2. t = [i \in 1 .. Len(t) |-> t[i]] /\ Len(t) \in Nat
    BY <2>1
  <2>3. \A i \in 1 .. Len(t) : t[i] \in {"BODY"}
    BY <2>1
  <2> QED BY <2>2, <2>3
<1> HIDE DEF t
<1>9. Is(last(n), t, "PARSE_HEADERS", "KEY", m, f, {}, FALSE, answers) /\ done(n).state_ # "FINISH"
  BY <1>7, HeadersWait
<1> QED BY <1>8, <1>9 DEF Lasting, Lost, BodyMisread

(* A blank line, the words of a body and a following request: the words are
   taken for the name of a header, which the CR of its line ends. *)
LEMMA BlankAndRequest ==
  ASSUME NEW y, Ready, HeaderText(y, <<>>), NEW b \in Nat, NEW w, Begins(w),
         Len(y) = 3 + b + Len(w), \A i \in 1 .. b : y[3 + i] = "BODY",
         \A i \in 1 .. Len(w) : y[3 + b + i] = w[i]
  PROVE  parse_headers(y).verdict = "ERROR"
<1>1. /\ w \in Seq(Alphabet) /\ Len(w) \in Nat /\ Len(w) >= 6 /\ w[6] = "CR"
      /\ \A i \in 1 .. 5 : w[i] \notin {"COLON", "LF", "CR"}
  BY FirstWords
<1>2. y \in Seq(Alphabet) /\ Len(y) \in Nat /\ Len(y) >= 4 /\ 4 \in Nat /\ b + 8 \in 4 .. Len(y) - 1
  BY <1>1 DEF HeaderText
<1>3. \A k \in 3 .. b + 7 : y[k + 1] \notin {"COLON", "LF", "CR"}
  <2> SUFFICES ASSUME NEW k \in 3 .. b + 7 PROVE y[k + 1] \notin {"COLON", "LF", "CR"}
    OBVIOUS
  <2>1. CASE k <= b + 2
    <3>1. k - 2 \in 1 .. b /\ 3 + (k - 2) = k + 1
      BY <2>1
    <3>2. y[3 + (k - 2)] = "BODY"
      BY <3>1
    <3> QED BY <3>1, <3>2
  <2>2. CASE k > b + 2
    <3> DEFINE p == k - b - 2
    <3>1. p \in 1 .. 5 /\ p \in 1 .. Len(w) /\ 3 + b + p = k + 1
      BY <1>1, <2>2
    <3> HIDE DEF p
    <3>2. y[3 + b + p] = w[p] /\ w[p] \notin {"COLON", "LF", "CR"}
      BY <1>1, <3>1
    <3> QED BY <3>1, <3>2
  <2> QED BY <2>1, <2>2
<1>4. y[4] \notin {"LF", "CR"}
  <2>1. 3 \in 3 .. b + 7 /\ 3 + 1 = 4
    OBVIOUS
  <2>2. y[3 + 1] \notin {"COLON", "LF", "CR"}
    BY <1>3, <2>1
  <2> QED BY <2>1, <2>2
<1>5. At(y, 4, "KEY", {}, 3)
  BY <1>2, <1>4, BlankKey
<1>6. Plain(y, 4, b + 8)
  <2>1. \A k \in 4 .. b + 8 - 1 : k \in 3 .. b + 7
    OBVIOUS
  <2> QED BY <1>3, <2>1 DEF Plain
<1>7. y[b + 8 + 1] = "CR"
  <2>1. 6 \in 1 .. Len(w) /\ 3 + b + 6 = b + 8 + 1
    BY <1>1
  <2>2. y[3 + b + 6] = w[6]
    BY <2>1
  <2> QED BY <1>1, <2>1, <2>2
<1> DEFINE a == b + 8
<1> HIDE DEF a
<1>8. a \in 4 .. Len(y) - 1 /\ Plain(y, 4, a) /\ y[a + 1] = "CR"
  BY <1>2, <1>6, <1>7 DEF a
<1> QED BY <1>2, <1>5, <1>8, KeyFails

(* A request without headers is not answered. *)
LEMMA WithoutHeaders ==
  ASSUME NEW n, NEW c, parsed(n) = header_stage(c), NEW y, NEW m, NEW f, Ready,
         Is(c, y, "PARSE_HEADERS", hState_, m, f, headers_, FALSE, answers),
         NEW r, NEW w, Behind(y, r, w), r.headers = <<>>, r.body \in Nat, w = <<>> \/ Begins(w)
  PROVE  Refused(n) \/ Lasting(n)
<1> DEFINE b == r.body
<1>1. HeaderText(y, <<>>) /\ Len(y) = 3 + b + Len(w) /\ Len(w) \in Nat
      /\ (\A i \in 1 .. b : y[3 + i] = "BODY") /\ \A i \in 1 .. Len(w) : y[3 + b + i] = w[i]
  <2>1. Len(r.headers) = 0 /\ 6 * Len(r.headers) + 3 = 3
    OBVIOUS
  <2> QED BY <2>1 DEF Behind
<1> HIDE DEF b
<1>2. CASE w = <<>>
  <2>1. Len(y) = 3 + b /\ b \in Nat
    BY <1>1, <1>2 DEF b
  <2>2. CASE b = 0
    <3>1. Len(y) = 3
      BY <2>1, <2>2
    <3> QED BY <1>1, <3>1, BlankAlone
  <2>3. CASE b # 0
    <3>1. Len(y) > 3 /\ \A i \in 1 .. Len(y) - 3 : y[3 + i] = "BODY"
      BY <1>1, <2>1, <2>3
    <3> QED BY <1>1, <3>1, BlankAndBody
  <2> QED BY <2>2, <2>3
<1>3. CASE Begins(w)
  <2>1. parse_headers(y).verdict = "ERROR"
    <3>1. b \in Nat
      BY DEF b
    <3> QED BY <1>1, <1>3, <3>1, BlankAndRequest
  <2> QED BY <2>1, HeadersReject
<1> QED BY <1>2, <1>3

(* Headers as the program keeps them and as their request means them. *)
LEMMA KeptMeaning ==
  ASSUME NEW r, IsRequest(r)
  PROVE  Answer(r.method, r.target, kept(r.headers, Len(r.headers))) = meaning(r)
<1> DEFINE hs == r.headers
<1>1. DOMAIN hs = 1 .. Len(hs)
  BY DEF IsRequest
<1>2. effective(hs) = {i \in 1 .. Len(hs) : \A j \in 1 .. Len(hs) : j > i => hs[j][1] # hs[i][1]}
  BY <1>1 DEF effective
<1> QED BY <1>2 DEF kept, meaning, Answer

(* What is left of the buffer after the headers: the character behind their
   last LF is gone. *)
LEMMA RestOfHeaders ==
  ASSUME NEW y, NEW r, NEW w, Behind(y, r, w), IsRequest(r), r.body = 0, w = <<>> \/ Begins(w)
  PROVE  LET q == IF Len(y) = 6 * Len(r.headers) + 3 THEN 6 * Len(r.headers) + 3 ELSE 6 * Len(r.headers) + 4
         IN  IF w = <<>> THEN substr(y, q) = <<>> ELSE Beheaded(substr(y, q))
<1> DEFINE a == 6 * Len(r.headers) + 3
           q == IF Len(y) = 6 * Len(r.headers) + 3 THEN 6 * Len(r.headers) + 3 ELSE 6 * Len(r.headers) + 4
           t == substr(y, q)
<1>1. a \in Nat /\ q = (IF Len(y) = a THEN a ELSE a + 1) /\ y \in Seq(Alphabet) /\ Len(y) \in Nat
  BY DEF IsRequest, Behind, HeaderText
<1>2. Len(y) = a + Len(w) /\ Len(w) \in Nat /\ \A i \in 1 .. Len(w) : y[a + i] = w[i]
  <2>1. Len(y) = a + r.body + Len(w) /\ \A i \in 1 .. Len(w) : y[a + r.body + i] = w[i]
    BY DEF Behind
  <2>2. w \in Seq(Alphabet)
    BY DEF Behind
  <2>3. Len(w) \in Nat
    BY <2>2
  <2> HIDE DEF a
  <2>4. a + r.body = a
    BY <1>1
  <2> QED BY <2>1, <2>3, <2>4
<1>2a. q \in 0 .. Len(y)
  <2>1. w = <<>> => Len(w) = 0
    OBVIOUS
  <2>2. w # <<>> => Len(w) >= 6
    BY FirstWords
  <2> HIDE DEF a, q
  <2> QED BY <1>1, <1>2, <2>1, <2>2
<1> HIDE DEF a, q
<1>3. t \in Seq(Alphabet) /\ Len(t) = Len(y) - q /\ \A i \in 1 .. Len(y) - q : t[i] = y[q + i]
  <2>1. y \in Seq(Alphabet) /\ q \in 0 .. Len(y)
    BY <1>1, <1>2a
  <2> QED BY <2>1, Rest
<1> HIDE DEF t
<1>4. CASE w = <<>>
  <2>1. Len(w) = 0
    BY <1>4
  <2>2. Len(t) = 0
    BY <1>1, <1>2, <1>3, <2>1
  <2>3. t = <<>>
    BY <1>3, <2>2, EmptySeq
  <2> QED BY <1>4, <2>3 DEF t, q
<1>5. CASE w # <<>>
  <2>1. /\ Len(w) >= 6 /\ w[6] = "CR" /\ w[2] = "SP" /\ w[3] \in Targets /\ w[4] = "SP" /\ w[5] \in Versions
    BY <1>5, FirstWords
  <2>2. q = a + 1 /\ Len(t) = Len(w) - 1
    BY <1>1, <1>2, <1>3, <2>1
  <2>3. ASSUME NEW i \in 1 .. 5 PROVE t[i] = w[i + 1]
    <3>1. i \in 1 .. Len(y) - q /\ i + 1 \in 1 .. Len(w) /\ q + i = a + (i + 1)
      BY <1>1, <1>2, <2>1, <2>2
    <3>2. t[i] = y[q + i] /\ y[a + (i + 1)] = w[i + 1]
      BY <1>2, <1>3, <3>1
    <3> QED BY <3>1, <3>2
  <2>4. t[1] = w[2] /\ t[2] = w[3] /\ t[3] = w[4] /\ t[4] = w[5] /\ t[5] = w[6]
    <3>1. 1 \in 1 .. 5 /\ 2 \in 1 .. 5 /\ 3 \in 1 .. 5 /\ 4 \in 1 .. 5 /\ 5 \in 1 .. 5
          /\ 1 + 1 = 2 /\ 2 + 1 = 3 /\ 3 + 1 = 4 /\ 4 + 1 = 5 /\ 5 + 1 = 6
      OBVIOUS
    <3> QED BY <2>3, <3>1
  <2>5. Len(t) >= 5
    BY <1>2, <2>1, <2>2
  <2>6. Beheaded(t)
    BY <1>3, <2>1, <2>4, <2>5 DEF Beheaded
  <2> QED BY <1>5, <2>6 DEF t, q
<1> QED BY <1>4, <1>5

(* A request with headers is answered as it was meant, unless it is a POST or
   asks for a missing file. *)
LEMMA WithHeaders ==
  ASSUME NEW n, NEW c, parsed(n) = header_stage(c), NEW y, NEW r, Ready, IsRequest(r),
         Is(c, y, "PARSE_HEADERS", hState_, r.method, r.target, headers_, FALSE, answers),
         NEW w, Behind(y, r, w), r.headers # <<>>, w = <<>> \/ Begins(w)
  PROVE  \/ ~served(r) /\ (Refused(n) \/ Lasting(n))
         \/ Completed(n, r, w)
<1> DEFINE hs == r.headers
           q == IF Len(y) = 6 * Len(hs) + 3 THEN 6 * Len(hs) + 3 ELSE 6 * Len(hs) + 4
           t == substr(y, q)
           f == kept(hs, Len(hs))
<1>1. parse_headers(y) = [verdict |-> "SUCCESS", h |-> "END_LF", headers |-> f, rest |-> t]
  <2>1. HeaderText(y, hs)
    BY DEF Behind
  <2> QED BY <2>1, HeadersParsed
<1>1a. Answer(r.method, r.target, f) = meaning(r)
  BY KeptMeaning
<1>1b. r.body = 0 => IF w = <<>> THEN t = <<>> ELSE Beheaded(t)
  BY RestOfHeaders
<1> HIDE DEF t, f, hs
<1>2. Is(parsed(n), t, IF r.method = "POST" THEN "RECV_BODY" ELSE "ANALYSIS", "END_LF", r.method, r.target, f, FALSE, answers)
  BY <1>1, HeadersTaken
<1>3. CASE r.method = "POST"
  <2>1. Is(parsed(n), t, "RECV_BODY", "END_LF", "POST", r.target, f, FALSE, answers)
    BY <1>2, <1>3
  <2>2. \/ Refused(n)
        \/ /\ Is(last(n), t, "RECV_BODY", "END_LF", "POST", r.target, f, FALSE, answers)
           /\ done(n).state_ # "FINISH"
    BY <2>1, Posted
  <2>3. Refused(n) \/ Lasting(n)
    BY <2>2 DEF Lasting, Lost, BodyWanted
  <2>4. ~served(r)
    BY <1>3 DEF served
  <2> QED BY <2>3, <2>4
<1>4. CASE r.method # "POST"
  <2>1. Is(parsed(n), t, "ANALYSIS", "END_LF", r.method, r.target, f, FALSE, answers)
    BY <1>2, <1>4
  <2>2. r.body = 0
    BY <1>4 DEF IsRequest
  <2>3. IF r.target = "/missing" THEN Refused(n)
        ELSE /\ done(n).state_ = "FINISH"
             /\ Is(last(n), t, "PARSE_URI", "START", r.method, "", {}, FALSE, Append(answers, Answer(r.method, r.target, f)))
    BY <1>4, <2>1, Analysed
  <2>4. CASE r.target = "/missing"
    BY <2>3, <2>4 DEF served
  <2>5. CASE r.target # "/missing"
    <3>1. Completed(n, r, w)
      <4>1. /\ done(n).state_ = "FINISH"
            /\ Is(last(n), t, "PARSE_URI", "START", r.method, "", {}, FALSE, Append(answers, meaning(r)))
        BY <1>1a, <2>3, <2>5
      <4> QED BY <1>1b, <2>2, <4>1 DEF Completed
    <3> QED BY <3>1
  <2> QED BY <2>4, <2>5
<1> QED BY <1>3, <1>4

(* A call that finds a request, and others after it or not. *)
LEMMA FreshCall ==
  ASSUME NEW n, terminated = FALSE, Ready, state_ = "PARSE_URI", NEW r, NEW w, Received(text(n), r, w)
  PROVE  \/ Completed(n, r, w)
         \/ ~served(r) /\ (Refused(n) \/ Lasting(n))
<1>1. IsRequest(r) /\ Text(text(n), r) /\ (w = <<>> \/ Begins(w))
  BY DEF Received
<1>2. CASE r.version \notin known_versions
  <2>1. parseURI(text(n)) = Verdict("ERROR", r.method, fileName_, substr(text(n), 6))
    <3>1. Line(text(n), r.method, r.target, r.version) /\ r.method \in Methods /\ r.target \in Targets /\ r.version \in Versions
      BY <1>1 DEF Text, IsRequest
    <3> DEFINE x == text(n)
    <3> HIDE DEF x
    <3>2. parseURI(x) = IF r.version \in known_versions THEN Verdict("SUCCESS", r.method, r.target, substr(x, 6))
                       ELSE Verdict("ERROR", r.method, fileName_, substr(x, 6))
      BY <3>1, ParseLine DEF x
    <3> QED BY <1>2, <3>2 DEF x
  <2>2. parseURI(text(n)).verdict = "ERROR"
    <3> HIDE DEF parseURI
    <3> QED BY <2>1 DEF Verdict
  <2>3. Refused(n)
    BY <2>2, UriRejects
  <2>4. ~served(r)
    BY <1>2 DEF served, known_versions
  <2> QED BY <2>3, <2>4
<1>3. CASE r.version \in known_versions
  <2> DEFINE y == substr(text(n), 6)
  <2>1. PICK c : /\ parsed(n) = header_stage(c)
                 /\ Is(c, y, "PARSE_HEADERS", hState_, r.method, r.target, headers_, FALSE, answers)
    BY <1>1, <1>3, UriTaken
  <2>2. Behind(y, r, w)
    BY BehindLine
  <2> HIDE DEF y
  <2>3. CASE r.headers = <<>>
    <3>1. Refused(n) \/ Lasting(n)
      <4>1. r.body \in Nat
        BY <1>1 DEF IsRequest
      <4> QED BY <1>1, <2>1, <2>2, <2>3, <4>1, WithoutHeaders
    <3>2. ~served(r)
      BY <2>3 DEF served
    <3> QED BY <3>1, <3>2
  <2>4. CASE r.headers # <<>>
    BY <1>1, <2>1, <2>2, <2>4, WithHeaders
  <2> QED BY <2>3, <2>4
<1> QED BY <1>2, <1>3

(* A call finds the requests from j + 1 to i. *)
Arrives(n, j, i, w) ==
  /\ i \in j + 1 .. Len(sent) /\ j + 1 \in 1 .. Len(sent)
  /\ (i = j + 1) = (w = <<>>) /\ (reads = "request" => i = j + 1)
  /\ Received(SubSeq(incoming, 1, n), sent[j + 1], w)
  /\ SubSeq(incoming, n + 1, Len(incoming)) = after(sent, i)

(* What readn finds is a request that a client wrote, from its first character
   on, with the text of whole requests after it or nothing. *)
LEMMA Arrival ==
  ASSUME NEW j \in 0 .. Len(sent), sent \in Seq(Requests), incoming = after(sent, j),
         reads \in {"request", "burst"}, NEW n \in cuts
  PROVE  \E i, w : Arrives(n, j, i, w)
<1>1. PICK i \in j + 1 .. Len(sent), w \in Seq(Alphabet) :
        /\ Whole(sent, j, i, w) /\ (reads = "request" => i = j + 1)
        /\ SubSeq(incoming, 1, n) = joined(written(sent[j + 1]), w)
        /\ SubSeq(incoming, n + 1, Len(incoming)) = after(sent, i)
  BY Cut DEF Whole
<1>2. j + 1 \in 1 .. Len(sent) /\ j \in 0 .. Len(sent) - 1
  BY <1>1
<1>3. IsRequest(sent[j + 1])
  BY <1>2, AfterNext
<1>4. /\ i = j + 1 => w = <<>>
      /\ i # j + 1 => w # <<>> /\ Begins(w)
  <2>1. i = j + 1 => w = <<>>
    BY <1>1 DEF Whole
  <2>2. i # j + 1 => Begins(w)
    BY <1>1 DEF Whole, Begins
  <2>3. Begins(w) => w # <<>>
    <3>1. Begins(w) => Len(w) >= 6
      BY FirstWords
    <3> QED BY <3>1
  <2> QED BY <2>1, <2>2, <2>3
<1>5. Received(joined(written(sent[j + 1]), w), sent[j + 1], w)
  BY <1>3, <1>4, ReceivedText
<1> QED BY <1>1, <1>2, <1>4, <1>5 DEF Arrives

(* A call that does not fail and answers nothing leaves the parser in the middle
   of a request, and one that fails leaves it closed. *)
LEMMA LostState ==
  ASSUME NEW n, Called(n), Lasting(n)
  PROVE  /\ answers' = answers /\ error_' = FALSE /\ terminated' = FALSE /\ again' = FALSE
         /\ Lost(state_', hState_', method_', headers_', inBuffer_')
<1>1. PICK b, st, h, m, f, hd :
        /\ Is(last(n), b, st, h, m, f, hd, FALSE, answers) /\ done(n).state_ # "FINISH"
        /\ Lost(st, h, m, hd, b)
  BY DEF Lasting
<1>2. /\ inBuffer_' = b /\ state_' = st /\ hState_' = h /\ method_' = m /\ headers_' = hd
      /\ error_' = FALSE /\ terminated' = FALSE /\ answers' = answers /\ again' = FALSE
  BY <1>1 DEF Called, Is
<1> QED BY <1>1, <1>2

(* After an error, or an exception, there is no further call. *)
LEMMA ClosedState ==
  ASSUME NEW n, Called(n), Refused(n)
  PROVE  answers' = answers /\ Closed' /\ {error_, terminated}' \subseteq BOOLEAN
BY DEF Called, Refused, Closed

(* An answer leaves the parser before the next request, or before what it cut
   the method off. *)
LEMMA CompletedState ==
  ASSUME NEW n, NEW r, NEW w, Called(n), Completed(n, r, w)
  PROVE  /\ answers' = Append(answers, meaning(r)) /\ error_' = FALSE /\ terminated' = FALSE
         /\ state_' = "PARSE_URI" /\ hState_' = "START" /\ headers_' = {}
         /\ IF w = <<>> THEN inBuffer_' = <<>> /\ again' = FALSE
            ELSE Beheaded(inBuffer_') /\ again' = TRUE
<1>1. PICK b :
        /\ done(n).state_ = "FINISH"
        /\ Is(last(n), b, "PARSE_URI", "START", r.method, "", {}, FALSE, Append(answers, meaning(r)))
        /\ IF w = <<>> THEN b = <<>> ELSE Beheaded(b)
  BY DEF Completed
<1>2. /\ inBuffer_' = b /\ state_' = "PARSE_URI" /\ hState_' = "START" /\ headers_' = {}
      /\ error_' = FALSE /\ terminated' = FALSE /\ answers' = Append(answers, meaning(r)) /\ again' = (b # <<>>)
  BY <1>1 DEF Called, Is
<1>3. Beheaded(b) => b # <<>>
  BY DEF Beheaded
<1>4. again' = TRUE \/ again' = FALSE
  BY <1>2
<1> QED BY <1>1, <1>2, <1>3, <1>4

(* What holds of the answers stays so when none is added. *)
LEMMA StillUnserved ==
  ASSUME sent' = sent, answers' = answers
  PROVE  Unserved' = Unserved /\ Answered' = Answered
BY DEF Unserved, Answered

(* A whole request is one more answer, the end of the connection, or stays where
   it is for ever. *)
LEMMA FromFresh ==
  ASSUME Inv, Fresh, reads \in {"request", "burst"}, incoming = after(sent, Len(answers)),
         NEW n \in cuts, Called(n)
  PROVE  Inv'
<1> DEFINE j == Len(answers)
           r == sent[j + 1]
<1>1. j \in 0 .. Len(sent) /\ sent \in Seq(Requests) /\ sent' = sent /\ reads' = reads /\ Len(sent) \in Nat
  BY DEF Inv, Answered, Called
<1>2. PICK i, w : Arrives(n, j, i, w)
  BY <1>1, Arrival
<1>3. i \in j + 1 .. Len(sent) /\ j + 1 \in 1 .. Len(sent) /\ incoming' = after(sent, i) /\ (i = j + 1) = (w = <<>>)
      /\ (reads = "request" => i = j + 1)
  BY <1>2 DEF Arrives, Called
<1>4. Received(text(n), r, w)
  <2> DEFINE x == SubSeq(incoming, 1, n)
  <2>1. Received(x, r, w)
    BY <1>2 DEF Arrives
  <2>2. x \in Seq(Alphabet)
    BY <2>1 DEF Received, Text, Line
  <2>3. text(n) = joined(<<>>, x)
    BY DEF text, joined, Fresh
  <2> HIDE DEF x
  <2>4. text(n) = x
    BY <2>2, <2>3, JoinedEmpty
  <2> QED BY <2>1, <2>4
<1>5. \/ Completed(n, r, w)
      \/ ~served(r) /\ (Refused(n) \/ Lasting(n))
  <2>1. Ready /\ state_ = "PARSE_URI" /\ terminated = FALSE
    BY DEF Ready, Fresh, Inv, Called
  <2> HIDE DEF r
  <2> QED BY <1>4, <2>1, FreshCall
<1>6. ~served(r) => Unserved
  <2>1. j + 1 \in DOMAIN sent
    BY <1>1, <1>3
  <2> QED BY <2>1 DEF Unserved
<1>7. CASE Completed(n, r, w)
  <2>1. /\ answers' = Append(answers, meaning(r)) /\ error_' = FALSE /\ terminated' = FALSE
        /\ state_' = "PARSE_URI" /\ hState_' = "START" /\ headers_' = {}
        /\ IF w = <<>> THEN inBuffer_' = <<>> /\ again' = FALSE
           ELSE Beheaded(inBuffer_') /\ again' = TRUE
    <3> HIDE DEF r
    <3> QED BY <1>7, CompletedState
  <2>2. r \in Requests
    BY <1>1, <1>3
  <2> DEFINE M == {meaning(q) : q \in Requests}
             m == meaning(r)
  <2>3. answers \in Seq(M) /\ m \in M /\ \A k \in 1 .. j : answers[k] = meaning(sent[k])
    BY <2>2 DEF Inv, Answered
  <2>4. answers' = Append(answers, m)
    BY <2>1
  <2>4a. M' = M
    <3>1. \A q : meaning(q)' = meaning(q)
      BY DEF meaning
    <3> QED OBVIOUS
  <2> HIDE DEF M, m
  <2>5. answers' \in Seq(M) /\ Len(answers') = j + 1 /\ (\A k \in 1 .. j : answers'[k] = answers[k]) /\ answers'[j + 1] = m
    BY <1>1, <2>3, <2>4
  <2>6. \A k \in 1 .. j + 1 : answers'[k] = meaning(sent[k])
    <3> SUFFICES ASSUME NEW k \in 1 .. j + 1 PROVE answers'[k] = meaning(sent[k])
      OBVIOUS
    <3>1. k \in 1 .. j \/ k = j + 1
      BY <1>1
    <3>2. m = meaning(sent[j + 1])
      BY DEF m
    <3> HIDE DEF j, r
    <3> QED BY <2>3, <2>5, <3>1, <3>2
  <2>7. Answered'
    <3>1. Len(answers') <= Len(sent')
      BY <1>1, <1>3, <2>5
    <3>2. \A k \in 1 .. Len(answers') : answers'[k] = meaning(sent'[k])
      BY <1>1, <2>5, <2>6
    <3> QED BY <1>1, <2>5, <3>1, <3>2 DEF Answered, M
  <2>8. i \in Len(answers') .. Len(sent') /\ incoming' = after(sent', i)
    BY <1>1, <1>3, <2>5
  <2>9. Between(i)'
    <3>1. CASE w = <<>>
      <4>1. i = Len(answers')
        BY <1>3, <2>5, <3>1
      <4>2. Fresh'
        BY <2>1, <3>1 DEF Fresh
      <4> QED BY <2>8, <4>1, <4>2 DEF Between
    <3>2. CASE w # <<>>
      <4>1. reads' = "burst"
        BY <1>1, <1>3, <3>2
      <4>2. Ignored'
        BY <2>1, <3>2 DEF Ignored
      <4> QED BY <2>8, <4>1, <4>2 DEF Between
    <3> QED BY <3>1, <3>2
  <2> QED BY <2>1, <2>7, <2>8, <2>9 DEF Inv, Closed
<1>8. CASE ~served(r) /\ Refused(n)
  <2>1. answers' = answers /\ Closed' /\ {error_, terminated}' \subseteq BOOLEAN
    BY <1>8, ClosedState
  <2>2. Unserved' /\ Answered'
    BY <1>1, <1>6, <1>8, <2>1, StillUnserved DEF Inv
  <2> QED BY <2>1, <2>2 DEF Inv
<1>9. CASE ~served(r) /\ Lasting(n)
  <2>1. /\ answers' = answers /\ error_' = FALSE /\ terminated' = FALSE /\ again' = FALSE
        /\ Lost(state_', hState_', method_', headers_', inBuffer_')
    BY <1>9, LostState
  <2>2. Unserved' /\ Answered'
    BY <1>1, <1>6, <1>9, <2>1, StillUnserved DEF Inv
  <2>3. Stuck'
    BY <2>1, <2>2 DEF Stuck
  <2>4. i \in Len(answers') .. Len(sent') /\ Between(i)'
    BY <1>1, <1>3, <2>1, <2>3 DEF Between
  <2> QED BY <2>1, <2>2, <2>4 DEF Inv, Closed
<1> QED BY <1>5, <1>7, <1>8, <1>9

(* What was cut off is no request line, whatever follows it. *)
LEMMA FromIgnored ==
  ASSUME Inv, Ignored, reads = "burst", NEW n, Called(n), SubSeq(incoming, 1, n) \in Seq(Alphabet)
  PROVE  Inv'
<1> DEFINE x == SubSeq(incoming, 1, n)
<1>1. Beheaded(text(n))
  <2>1. inBuffer_ \in Seq(Alphabet) /\ x \in Seq(Alphabet)
    BY DEF Ignored, Beheaded
  <2>2. text(n) = joined(inBuffer_, x)
    BY DEF text, joined
  <2> HIDE DEF x
  <2>3. IsJoined(Alphabet, text(n), inBuffer_, x)
    BY <2>1, <2>2, JoinedText
  <2>4. Beheaded(inBuffer_)
    BY DEF Ignored
  <2>5. Len(inBuffer_) \in Nat /\ Len(inBuffer_) >= 5
    BY <2>4 DEF Beheaded
  <2>6. \A i \in {1, 2, 3, 4, 5} : i \in 1 .. Len(inBuffer_)
    BY <2>5
  <2>7. \A i \in {1, 2, 3, 4, 5} : text(n)[i] = inBuffer_[i]
    BY <2>3, <2>6 DEF IsJoined
  <2>8. text(n) \in Seq(Alphabet) /\ Len(text(n)) >= 5
    BY <2>3, <2>5 DEF IsJoined
  <2> HIDE DEF text
  <2> QED BY <2>4, <2>7, <2>8 DEF Beheaded
<1>2. parseURI(text(n)).verdict = "ERROR"
  BY <1>1, ParseBeheaded
<1>3. Refused(n)
  <2>1. state_ = "PARSE_URI" /\ terminated = FALSE
    BY DEF Ignored, Inv, Called
  <2> QED BY <1>2, <2>1, UriRejects
<1>4. answers' = answers /\ Closed' /\ {error_, terminated}' \subseteq BOOLEAN
  BY <1>3, ClosedState
<1>5. sent' = sent /\ reads' = "burst"
  BY DEF Called
<1>6. Answered'
  BY <1>4, <1>5, StillUnserved DEF Inv
<1> QED BY <1>4, <1>5, <1>6 DEF Inv

(* The members as a call in the middle of a request finds them. *)
LEMMA InTheMiddle ==
  ASSUME NEW n, state_ # "PARSE_URI", error_ = FALSE, terminated = FALSE
  PROVE  /\ parsed(n) = header_stage(fed(n))
         /\ Is(fed(n), text(n), state_, hState_, method_, fileName_, headers_, FALSE, answers)
<1>1. Is(fed(n), text(n), state_, hState_, method_, fileName_, headers_, error_, answers)
  BY Fed
<1> QED BY <1>1, PastUri

(* The next request, behind a blank line that was skipped, is an error. *)
LEMMA LostAtBlank ==
  ASSUME NEW n, error_ = FALSE, terminated = FALSE, BlankSkipped(state_, hState_, headers_, inBuffer_),
         Begins(SubSeq(incoming, 1, n))
  PROVE  Refused(n)
<1> DEFINE w == SubSeq(incoming, 1, n)
           b == <<"LF", "CR", "LF">>
           y == text(n)
<1>1. w \in Seq(Alphabet) /\ Begins(w)
  BY FirstWords
<1>2. inBuffer_ = b /\ Ready
  BY DEF BlankSkipped, Ready
<1>3. b \in Seq(Alphabet) /\ Len(b) = 3 /\ b[1] = "LF" /\ b[2] = "CR" /\ b[3] = "LF"
  <2>1. "LF" \in Alphabet /\ "CR" \in Alphabet
    BY DEF Alphabet, Separators
  <2> HIDE DEF Alphabet
  <2> QED BY <2>1
<1>4. y = joined(b, w)
  BY <1>2 DEF text, joined
<1> HIDE DEF w, b
<1>5. IsJoined(Alphabet, y, b, w)
  BY <1>1, <1>3, <1>4, JoinedText
<1> HIDE DEF y
<1>6. /\ y \in Seq(Alphabet) /\ Len(y) = 3 + Len(w) /\ Len(w) \in Nat
      /\ y[1] = "LF" /\ y[2] = "CR" /\ y[3] = "LF" /\ \A i \in 1 .. Len(w) : y[3 + i] = w[i]
  <2>1. 1 \in 1 .. 3 /\ 2 \in 1 .. 3 /\ 3 \in 1 .. 3
    OBVIOUS
  <2> QED BY <1>3, <1>5, <2>1 DEF IsJoined
<1>7. HeaderText(y, <<>>)
  <2>1. Len(<<>>) = 0 /\ <<>> \in Seq(STRING \X STRING) /\ 6 * 0 + 3 = 3 /\ 6 * 0 + 2 = 2 /\ 3 <= Len(y) /\ 0 .. 0 - 1 = {}
    BY <1>6
  <2> QED BY <1>6, <2>1 DEF HeaderText
<1>8. parse_headers(y).verdict = "ERROR"
  <2>1. /\ 0 \in Nat /\ Len(y) = 3 + 0 + Len(w) /\ (\A i \in 1 .. 0 : y[3 + i] = "BODY")
        /\ \A i \in 1 .. Len(w) : y[3 + 0 + i] = w[i]
    BY <1>6
  <2> QED BY <1>1, <1>2, <1>7, <2>1, BlankAndRequest
<1>9. state_ = "PARSE_HEADERS"
  BY DEF BlankSkipped
<1>10. parsed(n) = header_stage(fed(n)) /\ Is(fed(n), y, "PARSE_HEADERS", hState_, method_, fileName_, headers_, FALSE, answers)
  BY <1>9, InTheMiddle DEF y
<1> QED BY <1>8, <1>10, HeadersReject

(* And behind a body that was taken for a name. *)
LEMMA LostInBody ==
  ASSUME NEW n, error_ = FALSE, terminated = FALSE, BodyMisread(state_, hState_, inBuffer_),
         Begins(SubSeq(incoming, 1, n))
  PROVE  Refused(n)
<1> DEFINE w == SubSeq(incoming, 1, n)
           b == inBuffer_
           l == Len(b)
           y == text(n)
<1>1. /\ w \in Seq(Alphabet) /\ Len(w) \in Nat /\ Len(w) >= 6 /\ w[6] = "CR"
      /\ \A i \in 1 .. 5 : w[i] \notin {"COLON", "LF", "CR"}
  BY FirstWords
<1>2. b \in Seq({"BODY"}) /\ hState_ = "KEY" /\ state_ = "PARSE_HEADERS"
  BY DEF BodyMisread
<1>3. b \in Seq(Alphabet) /\ l \in Nat /\ \A i \in 1 .. l : b[i] = "BODY"
  <2>1. \A i \in 1 .. Len(b) : b[i] \in {"BODY"}
    BY <1>2
  <2>2. "BODY" \in Alphabet
    BY DEF Alphabet
  <2>3. b = [i \in 1 .. Len(b) |-> b[i]] /\ Len(b) \in Nat
    BY <1>2
  <2> HIDE DEF Alphabet, b
  <2> QED BY <2>1, <2>2, <2>3
<1>4. y = joined(b, w)
  BY DEF text, joined
<1> HIDE DEF w, b
<1>5. IsJoined(Alphabet, y, b, w)
  BY <1>1, <1>3, <1>4, JoinedText
<1> HIDE DEF y, l
<1>6. /\ y \in Seq(Alphabet) /\ Len(y) = l + Len(w) /\ (\A i \in 1 .. l : y[i] = b[i])
      /\ \A i \in 1 .. Len(w) : y[l + i] = w[i]
  BY <1>5 DEF IsJoined, l
<1>6a. \A k \in 0 .. l + 5 - 1 : y[k + 1] \notin {"COLON", "LF", "CR"}
  <2> SUFFICES ASSUME NEW k \in 0 .. l + 5 - 1 PROVE y[k + 1] \notin {"COLON", "LF", "CR"}
    OBVIOUS
  <2>1. CASE k < l
    <3>1. k + 1 \in 1 .. l
      BY <1>3, <2>1
    <3>2. y[k + 1] = "BODY"
      BY <1>3, <1>6, <3>1
    <3> QED BY <3>2
  <2>2. CASE k >= l
    <3> DEFINE p == k - l + 1
    <3>1. p \in 1 .. 5 /\ p \in 1 .. Len(w) /\ l + p = k + 1
      BY <1>1, <1>3, <2>2
    <3> HIDE DEF p
    <3>2. y[l + p] = w[p]
      BY <1>6, <3>1
    <3>3. w[p] \notin {"COLON", "LF", "CR"}
      BY <1>1, <3>1
    <3> QED BY <3>1, <3>2, <3>3
  <2>3. k < l \/ k >= l
    BY <1>3
  <2> QED BY <2>1, <2>2, <2>3
<1>8. y[l + 5 + 1] = "CR"
  <2>1. 6 \in 1 .. Len(w) /\ l + 6 = l + 5 + 1
    BY <1>1, <1>3
  <2>2. y[l + 6] = w[6]
    BY <1>6, <2>1
  <2> QED BY <1>1, <2>1, <2>2
<1>9. At(y, 0, "KEY", headers_, 0)
  <2>1. Len(y) \in Nat
    BY <1>6
  <2>2. upto(y)[0] = Marks("KEY", -1, -1, -1, -1, 0, headers_, 0, "no")
    BY <1>2, <2>1, Upto DEF start
  <2> QED BY <2>2 DEF At
<1> DEFINE a == l + 5
<1>10. a \in 0 .. Len(y) - 1 /\ Len(y) \in Nat /\ y[a + 1] = "CR" /\ 0 \in Nat /\ Plain(y, 0, a)
  <2>1. a \in 0 .. Len(y) - 1 /\ Len(y) \in Nat /\ y[a + 1] = "CR" /\ 0 \in Nat
    BY <1>1, <1>3, <1>6, <1>8
  <2>2. \A k \in 0 .. a - 1 : y[k + 1] \notin {"COLON", "LF", "CR"}
    BY <1>3, <1>6a
  <2> HIDE DEF a
  <2>3. Plain(y, 0, a)
    BY <2>2 DEF Plain
  <2> QED BY <2>1, <2>3
<1> HIDE DEF a
<1>11. parse_headers(y).verdict = "ERROR"
  BY <1>9, <1>10, KeyFails
<1>12. parsed(n) = header_stage(fed(n)) /\ Is(fed(n), y, "PARSE_HEADERS", hState_, method_, fileName_, headers_, FALSE, answers)
  BY <1>2, InTheMiddle DEF y
<1> QED BY <1>11, <1>12, HeadersReject

(* A POST waits for more of its body, whatever arrives, or is an error. *)
LEMMA LostAtBody ==
  ASSUME NEW n, error_ = FALSE, terminated = FALSE, BodyWanted(state_, method_)
  PROVE  Refused(n) \/ Lasting(n)
<1>1. state_ = "RECV_BODY" /\ method_ = "POST"
  BY DEF BodyWanted
<1>2. parsed(n) = header_stage(fed(n)) /\ Is(fed(n), text(n), "RECV_BODY", hState_, "POST", fileName_, headers_, FALSE, answers)
  BY <1>1, InTheMiddle
<1>3. header_stage(fed(n)) = fed(n)
  BY <1>2 DEF header_stage, Is
<1>4. Is(parsed(n), text(n), "RECV_BODY", hState_, "POST", fileName_, headers_, FALSE, answers)
  BY <1>2, <1>3
<1>5. \/ Refused(n)
      \/ /\ Is(last(n), text(n), "RECV_BODY", hState_, "POST", fileName_, headers_, FALSE, answers)
         /\ done(n).state_ # "FINISH"
  BY <1>4, Posted
<1> QED BY <1>5 DEF Lasting, Lost, BodyWanted

(* From the middle of a request that is not served no call leads to an answer. *)
LEMMA FromStuck ==
  ASSUME Inv, Stuck, error_ = FALSE, terminated = FALSE, reads \in {"request", "burst"}, NEW j \in Len(answers) .. Len(sent),
         incoming = after(sent, j), NEW n \in cuts, Called(n)
  PROVE  Inv'
<1>1. /\ j \in 0 .. Len(sent) /\ sent \in Seq(Requests) /\ sent' = sent /\ reads' = reads
      /\ Len(sent) \in Nat /\ Len(answers) \in Nat
  BY DEF Inv, Answered, Called
<1>2. PICK i, w : Arrives(n, j, i, w)
  BY <1>1, Arrival
<1>3. i \in j + 1 .. Len(sent) /\ incoming' = after(sent, i)
  BY <1>2 DEF Arrives, Called
<1>4. Begins(SubSeq(incoming, 1, n))
  BY <1>2 DEF Arrives, Received, Begins
<1>5. Refused(n) \/ Lasting(n)
  BY <1>4, LostAtBlank, LostInBody, LostAtBody DEF Stuck, Lost
<1>6. CASE Refused(n)
  <2>1. answers' = answers /\ Closed' /\ {error_, terminated}' \subseteq BOOLEAN
    BY <1>6, ClosedState
  <2>2. Unserved' /\ Answered'
    BY <1>1, <2>1, StillUnserved DEF Inv, Stuck
  <2> QED BY <2>1, <2>2 DEF Inv
<1>7. CASE Lasting(n)
  <2>1. /\ answers' = answers /\ error_' = FALSE /\ terminated' = FALSE /\ again' = FALSE
        /\ Lost(state_', hState_', method_', headers_', inBuffer_')
    BY <1>7, LostState
  <2>2. Unserved' /\ Answered'
    BY <1>1, <2>1, StillUnserved DEF Inv, Stuck
  <2>3. Stuck'
    BY <2>1, <2>2 DEF Stuck
  <2>4. i \in Len(answers') .. Len(sent') /\ Between(i)'
    BY <1>1, <1>3, <2>1, <2>3 DEF Between
  <2> QED BY <2>1, <2>2, <2>4 DEF Inv, Closed
<1> QED BY <1>5, <1>6, <1>7

(* The first line of a text has c characters. *)
LineOf(s, c) ==
  /\ s \in Seq(Alphabet) /\ c \in 0 .. Len(s) /\ \A i \in 1 .. c : s[i] # "CR"
  /\ c = Len(s) \/ s[c + 1] = "CR"

named(line) == {m \in Methods : find(line, {m}, 0) # npos}

(* parseURI, when it does not ask for more. *)
taken(line, rest) ==
  LET m     == IF "GET" \in named(line) THEN "GET" ELSE IF "POST" \in named(line) THEN "POST" ELSE "HEAD"
      slash == find(line, Targets \cup Versions, find(line, {m}, 0))
      space == find(line, {"SP"}, slash)
      proto == find(line, Targets \cup Versions, space)
  IN  IF named(line) = {} THEN Verdict("ERROR", method_, fileName_, rest)
      ELSE IF slash = npos THEN Verdict("SUCCESS", m, "/", rest)
      ELSE IF space = npos \/ proto = npos \/ line[proto + 1] \notin known_versions
           THEN Verdict("ERROR", m, fileName_, rest)
           ELSE Verdict("SUCCESS", m, line[slash + 1], rest)

(* parseURI works on the first line, or on all there is. *)
LEMMA ParseFirstLine ==
  ASSUME NEW s, NEW c, LineOf(s, c), c > 0 \/ s = <<>>
  PROVE  parseURI(s) = taken(SubSeq(s, 1, c), IF c = Len(s) THEN s ELSE substr(s, c + 1))
<1>1. s \in Seq(Alphabet) /\ Len(s) \in Nat /\ c \in 0 .. Len(s) /\ c \in Nat
  BY DEF LineOf
<1> DEFINE pos == find(s, {"CR"}, 0)
           line == IF pos = npos THEN s ELSE SubSeq(s, 1, pos)
           rest == IF pos = npos THEN s ELSE substr(s, pos + 1)
<1>2. pos = IF c = Len(s) THEN npos ELSE c
  <2>1. CASE c = Len(s)
    <3>1. \A j \in 0 .. Len(s) - 1 : j + 1 \in 1 .. c
      BY <1>1, <2>1
    <3>2. \A j \in 0 .. Len(s) - 1 : s[j + 1] \notin {"CR"}
      BY <3>1 DEF LineOf
    <3> QED BY <1>1, <2>1, <3>2, FindNone
  <2>2. CASE c # Len(s)
    <3>1. \A j \in 0 .. c - 1 : j + 1 \in 1 .. c
      BY <1>1
    <3>2. \A j \in 0 .. c - 1 : s[j + 1] \notin {"CR"}
      BY <3>1 DEF LineOf
    <3>3. First(s, {"CR"}, 0, c)
      BY <1>1, <2>2, <3>2 DEF First, LineOf
    <3> QED BY <2>2, <3>3, FindAt
  <2> QED BY <2>1, <2>2
<1>3. line = SubSeq(s, 1, c) /\ rest = (IF c = Len(s) THEN s ELSE substr(s, c + 1)) /\ pos # 0
  <2>1. CASE c = Len(s)
    <3>1. SubSeq(s, 1, Len(s)) = s
      BY <1>1
    <3>2. npos # 0
      BY DEF npos
    <3> HIDE DEF pos
    <3> QED BY <1>2, <2>1, <3>1, <3>2
  <2>2. CASE c # Len(s)
    <3>1. c # npos /\ c # 0
      <4>1. s = <<>> => c = Len(s)
        BY <1>1
      <4> QED BY <1>1, <2>2, <4>1 DEF npos
    <3> HIDE DEF pos
    <3> QED BY <1>2, <2>2, <3>1
  <2> QED BY <2>1, <2>2
<1>4. parseURI(s) = taken(line, rest)
  <2> HIDE DEF find, Verdict, substr
  <2> QED BY <1>3, Zenon DEF parseURI, taken, named
<1> HIDE DEF line, rest, pos
<1> QED BY <1>3, <1>4

(* Without a method it is no request line. *)
LEMMA NoMethod ==
  ASSUME NEW s, NEW c, LineOf(s, c), c > 0 \/ s = <<>>, \A i \in 1 .. c : s[i] \notin Methods
  PROVE  parseURI(s).verdict = "ERROR"
<1> DEFINE line == SubSeq(s, 1, c)
           rest == IF c = Len(s) THEN s ELSE substr(s, c + 1)
<1>1. Len(line) = c /\ c \in Nat /\ \A i \in 1 .. c : line[i] = s[i]
  BY DEF LineOf
<1>2. parseURI(s) = taken(line, rest)
  BY ParseFirstLine
<1> HIDE DEF line, rest
<1>3. named(line) = {}
  <2>1. ASSUME NEW m \in Methods PROVE find(line, {m}, 0) = npos
    <3>1. \A j \in 0 .. Len(line) - 1 : j + 1 \in 1 .. c
      BY <1>1
    <3>2. \A j \in 0 .. Len(line) - 1 : line[j + 1] \notin {m}
      BY <1>1, <3>1
    <3> QED BY <1>1, <3>2, FindNone
  <2> QED BY <2>1 DEF named
<1>4. parseURI(s) = Verdict("ERROR", method_, fileName_, rest)
  BY <1>2, <1>3 DEF taken
<1> HIDE DEF parseURI
<1> QED BY <1>4 DEF Verdict

(* Without its end it is taken for what there is of it, or refused. *)
LEMMA NoEnd ==
  ASSUME NEW s, LineOf(s, Len(s))
  PROVE  \/ parseURI(s).verdict = "ERROR"
         \/ s # <<>> /\ \E m, f : parseURI(s) = Verdict("SUCCESS", m, f, s)
<1> DEFINE line == SubSeq(s, 1, Len(s))
<1>1. s \in Seq(Alphabet) /\ Len(s) \in Nat /\ line = s
  BY DEF LineOf
<1>2. Len(s) > 0 \/ s = <<>>
  BY <1>1
<1>3. parseURI(s) = taken(s, s)
  BY <1>1, <1>2, ParseFirstLine
<1>4. CASE s = <<>>
  <2>1. \A i \in 1 .. Len(s) : s[i] \notin Methods
    BY <1>4
  <2>2. parseURI(s).verdict = "ERROR"
    BY <1>4, <2>1, NoMethod
  <2> HIDE DEF parseURI
  <2> QED BY <2>2
<1>5. CASE s # <<>>
  <2>1. \E m, f : taken(s, s) = Verdict("ERROR", m, f, s) \/ taken(s, s) = Verdict("SUCCESS", m, f, s)
    <3> HIDE DEF find, Verdict
    <3> QED BY Zenon DEF taken
  <2>2. \A m, f : Verdict("ERROR", m, f, s).verdict = "ERROR"
    BY DEF Verdict
  <2> HIDE DEF parseURI, taken, Verdict
  <2> QED BY <1>3, <1>5, <2>1, <2>2
<1> QED BY <1>4, <1>5

(* A request line, of which a LF may still be in front. *)
LineAt(line, o, m, t, v) ==
  /\ o \in {0, 1} /\ Len(line) = o + 5 /\ (o = 1 => line[1] = "LF")
  /\ line[o + 1] = m /\ line[o + 2] = "SP" /\ line[o + 3] = t /\ line[o + 4] = "SP" /\ line[o + 5] = v

(* It is taken apart. *)
LEMMA LineTaken ==
  ASSUME NEW line, NEW o, NEW m \in Methods, NEW t \in Targets, NEW v \in Versions, LineAt(line, o, m, t, v),
         NEW rest
  PROVE  taken(line, rest) = IF v \in known_versions THEN Verdict("SUCCESS", m, t, rest)
                             ELSE Verdict("ERROR", m, fileName_, rest)
<1>1. /\ o \in {0, 1} /\ Len(line) = o + 5 /\ (o = 1 => line[1] = "LF")
      /\ line[o + 1] = m /\ line[o + 2] = "SP" /\ line[o + 3] = t /\ line[o + 4] = "SP" /\ line[o + 5] = v
  BY DEF LineAt
<1>2. \A i \in 1 .. o + 5 : (i = 1 /\ o = 1) \/ i = o + 1 \/ i = o + 2 \/ i = o + 3 \/ i = o + 4 \/ i = o + 5
  BY <1>1
<1>3. \A i \in 1 .. o + 5 :
        line[i] \in {"LF", "SP", t, v} \/ (i = o + 1 /\ line[i] = m)
  <2> TAKE i \in 1 .. o + 5
  <2>1. CASE i = 1 /\ o = 1
    BY <1>1, <2>1
  <2>2. CASE i = o + 1
    BY <1>1, <2>2
  <2>3. CASE i = o + 2
    BY <1>1, <2>3
  <2>4. CASE i = o + 3
    BY <1>1, <2>4
  <2>5. CASE i = o + 4
    BY <1>1, <2>5
  <2>6. CASE i = o + 5
    BY <1>1, <2>6
  <2> QED BY <1>2, <2>1, <2>2, <2>3, <2>4, <2>5, <2>6
<1>4. \A a \in 0 .. o + 4 : a + 1 \in 1 .. o + 5
  BY <1>1
<1>5. find(line, {m}, 0) = o
  <2>1. \A j \in 0 .. o - 1 : line[j + 1] \notin {m}
    BY <1>1 DEF Methods
  <2>2. First(line, {m}, 0, o)
    BY <1>1, <2>1 DEF First
  <2> QED BY <2>2, FindAt
<1>6. find(line, Targets \cup Versions, o) = o + 2
  <2>1. \A j \in o .. o + 1 : line[j + 1] \notin Targets \cup Versions
    <3>1. \A j \in o .. o + 1 : j + 1 = o + 1 \/ j + 1 = o + 2
      BY <1>1
    <3>2. m \notin Targets \cup Versions /\ "SP" \notin Targets \cup Versions
      BY DEF Methods, Targets, Versions
    <3> QED BY <1>1, <3>1, <3>2
  <2>2. o + 2 + 1 = o + 3 /\ o + 2 - 1 = o + 1
    BY <1>1
  <2>3. First(line, Targets \cup Versions, o, o + 2)
    BY <1>1, <2>1, <2>2 DEF First
  <2> QED BY <2>3, FindAt
<1>7. find(line, {"SP"}, o + 2) = o + 3
  <2>1. \A j \in o + 2 .. o + 2 : line[j + 1] \notin {"SP"}
    <3>1. \A j \in o + 2 .. o + 2 : j + 1 = o + 3
      BY <1>1
    <3>2. t # "SP"
      BY DEF Targets
    <3> QED BY <1>1, <3>1, <3>2
  <2>2. o + 3 + 1 = o + 4 /\ o + 3 - 1 = o + 2
    BY <1>1
  <2>3. First(line, {"SP"}, o + 2, o + 3)
    BY <1>1, <2>1, <2>2 DEF First
  <2> QED BY <2>3, FindAt
<1>8. find(line, Targets \cup Versions, o + 3) = o + 4
  <2>1. \A j \in o + 3 .. o + 3 : line[j + 1] \notin Targets \cup Versions
    <3>1. \A j \in o + 3 .. o + 3 : j + 1 = o + 4
      BY <1>1
    <3>2. "SP" \notin Targets \cup Versions
      BY DEF Targets, Versions
    <3> QED BY <1>1, <3>1, <3>2
  <2>2. o + 4 + 1 = o + 5 /\ o + 4 - 1 = o + 3
    BY <1>1
  <2>3. First(line, Targets \cup Versions, o + 3, o + 4)
    BY <1>1, <2>1, <2>2 DEF First
  <2> QED BY <2>3, FindAt
<1>9. named(line) = {m}
  <2>1. ASSUME NEW n \in Methods, n # m PROVE find(line, {n}, 0) = npos
    <3>1. \A i \in 1 .. o + 5 : line[i] # n
      <4>1. n \notin {"LF", "SP"} \cup Targets \cup Versions
        BY DEF Methods, Targets, Versions
      <4> QED BY <1>3, <2>1, <4>1
    <3>2. \A j \in 0 .. Len(line) - 1 : line[j + 1] \notin {n}
      BY <1>1, <3>1
    <3>3. Len(line) \in Nat
      BY <1>1
    <3> QED BY <3>2, <3>3, FindNone
  <2>2. o # npos
    BY <1>1 DEF npos
  <2> QED BY <1>5, <2>1, <2>2 DEF named
<1>10. (IF "GET" \in {m} THEN "GET" ELSE IF "POST" \in {m} THEN "POST" ELSE "HEAD") = m
  BY DEF Methods
<1>11. /\ line[o + 2 + 1] = t /\ line[o + 4 + 1] = v /\ {m} # {}
       /\ o + 2 # npos /\ o + 3 # npos /\ o + 4 # npos
  <2>1. o + 2 + 1 = o + 3 /\ o + 4 + 1 = o + 5 /\ o + 2 # npos /\ o + 3 # npos /\ o + 4 # npos
    BY <1>1 DEF npos
  <2> QED BY <1>1, <2>1
<1> DEFINE got == IF "GET" \in named(line) THEN "GET" ELSE IF "POST" \in named(line) THEN "POST" ELSE "HEAD"
           slash == find(line, Targets \cup Versions, find(line, {got}, 0))
           space == find(line, {"SP"}, slash)
           proto == find(line, Targets \cup Versions, space)
<1> HIDE DEF find, Verdict, named
<1>12. taken(line, rest) =
        IF named(line) = {} THEN Verdict("ERROR", method_, fileName_, rest)
        ELSE IF slash = npos THEN Verdict("SUCCESS", got, "/", rest)
        ELSE IF space = npos \/ proto = npos \/ line[proto + 1] \notin known_versions
             THEN Verdict("ERROR", got, fileName_, rest)
             ELSE Verdict("SUCCESS", got, line[slash + 1], rest)
  BY Zenon DEF taken
<1>13. got = m
  BY <1>9, <1>10
<1>14. slash = o + 2 /\ space = o + 3 /\ proto = o + 4
  BY <1>5, <1>6, <1>7, <1>8, <1>13
<1> HIDE DEF got, slash, space, proto
<1> QED BY <1>9, <1>11, <1>12, <1>13, <1>14

(* x is what there is of y so far. *)
Part(x, y) ==
  /\ x \in Seq(Alphabet) /\ y \in Seq(Alphabet) /\ Len(x) \in Nat /\ Len(y) \in Nat /\ Len(x) <= Len(y)
  /\ \A i \in 1 .. Len(x) : x[i] = y[i]

(* What there is of a header line at n, up to its CR, is read. *)
HeaderMarks(s, n, ke, vs, ve, l, found) ==
  /\ n + 1 <= Len(s) => upto(s)[n + 1] = Marks("KEY", n, ke, vs, ve, l, found, n + 1, "no")
  /\ n + 2 <= Len(s) => upto(s)[n + 2] = Marks("COLON", n, n + 1, vs, ve, l, found, n + 2, "no")
  /\ n + 3 <= Len(s) => upto(s)[n + 3] = Marks("SPACES_AFTER_COLON", n, n + 1, vs, ve, l, found, n + 3, "no")
  /\ n + 4 <= Len(s) => upto(s)[n + 4] = Marks("VALUE", n, n + 1, n + 3, ve, l, found, n + 4, "no")
  /\ n + 5 <= Len(s) => upto(s)[n + 5] = Marks("CR", n, n + 1, n + 3, n + 4, l, found, n + 5, "no")

(* One header line, as far as it is there, is read. *)
LEMMA HeaderBegun ==
  ASSUME NEW s, NEW d, Part(s, d), NEW n \in Nat, n + 6 <= Len(d), NEW h, HeaderAt(d, n, h), h[1] \notin Separators,
         NEW state \in {"START", "LF"}, NEW found, NEW line, At(s, n, state, found, line), n < Len(s)
  PROVE  \E ke, vs, ve, l : HeaderMarks(s, n, ke, vs, ve, l, found)
<1> DEFINE u == upto(s)
<1>1. PICK ks, ke, vs, ve : u[n] = Marks(state, ks, ke, vs, ve, line, found, n, "no")
  BY DEF At
<1>2. Len(s) \in Nat /\ Len(d) \in Nat /\ Len(s) <= Len(d)
  BY DEF Part
<1>2a. ASSUME NEW p \in 1 .. 6, n + p <= Len(s) PROVE s[n + p] = d[n + p]
  <2>1. n + p \in 1 .. Len(s)
    BY <1>2, <1>2a
  <2> QED BY <2>1 DEF Part
<1> HIDE DEF u
<1>3. PICK l : u[n + 1] = Marks("KEY", n, ke, vs, ve, l, found, n + 1, "no")
  <2>1. u[n + 1] = turned(u[n], s)
    <3>1. n \in 0 .. Len(s) - 1
      BY <1>2
    <3> QED BY <1>2, <3>1, Turn DEF u
  <2>2. s[n + 1] \notin {"LF", "CR", "COLON"}
    <3>1. s[n + 1] = d[n + 1]
      BY <1>2, <1>2a
    <3> QED BY <3>1 DEF HeaderAt, Separators
  <2>3. CASE state = "START"
    <3>1. turned(Marks("START", ks, ke, vs, ve, line, found, n, "no"), s) = Marks("KEY", n, ke, vs, ve, n, found, n + 1, "no")
      BY <2>2 DEF turned, scan_char, Marks
    <3> QED BY <1>1, <2>1, <2>3, <3>1
  <2>4. CASE state = "LF"
    <3>1. turned(Marks("LF", ks, ke, vs, ve, line, found, n, "no"), s) = Marks("KEY", n, ke, vs, ve, line, found, n + 1, "no")
      BY <2>2 DEF turned, scan_char, Marks
    <3> QED BY <1>1, <2>1, <2>4, <3>1
  <2> QED BY <2>3, <2>4
<1>4. /\ n + 1 \in Nat /\ n + 1 + 1 = n + 2 /\ n + 1 - n > 0
      /\ n + 2 \in Nat /\ n + 2 + 1 = n + 3
      /\ n + 3 \in Nat /\ n + 3 + 1 = n + 4
      /\ n + 4 \in Nat /\ n + 4 + 1 = n + 5 /\ n + 4 - (n + 3) > 0
      /\ n \in Int /\ n + 3 \in Int
  BY <1>2
<1>5. ASSUME n + 2 <= Len(s) PROVE u[n + 2] = Marks("COLON", n, n + 1, vs, ve, l, found, n + 2, "no")
  <2>0. n + 1 \in 0 .. Len(s) - 1
    BY <1>2, <1>5
  <2>1. u[n + 1 + 1] = turned(u[n + 1], s)
    BY <1>2, <2>0, Turn DEF u
  <2>2. s[n + 1 + 1] = "COLON" /\ ~(n + 1 - n <= 0)
    BY <1>2a, <1>4, <1>5 DEF HeaderAt
  <2>3. turned(Marks("KEY", n, ke, vs, ve, l, found, n + 1, "no"), s) = Marks("COLON", n, n + 1, vs, ve, l, found, n + 1 + 1, "no")
    <3> DEFINE i == n + 1
    <3>1. ~(i - n <= 0) /\ s[i + 1] = "COLON"
      BY <2>2
    <3> HIDE DEF i
    <3>2. turned(Marks("KEY", n, ke, vs, ve, l, found, i, "no"), s) = Marks("COLON", n, i, vs, ve, l, found, i + 1, "no")
      BY <3>1 DEF turned, scan_char, Marks
    <3> QED BY <3>2 DEF i
  <2> QED BY <1>3, <1>4, <2>1, <2>3
<1>6. ASSUME n + 3 <= Len(s) PROVE u[n + 3] = Marks("SPACES_AFTER_COLON", n, n + 1, vs, ve, l, found, n + 3, "no")
  <2>0. n + 2 \in 0 .. Len(s) - 1 /\ n + 2 <= Len(s)
    BY <1>2, <1>6
  <2>1. u[n + 2 + 1] = turned(u[n + 2], s)
    BY <1>2, <2>0, Turn DEF u
  <2>2. s[n + 2 + 1] = "SP"
    BY <1>2a, <1>4, <1>6 DEF HeaderAt
  <2>3. turned(Marks("COLON", n, n + 1, vs, ve, l, found, n + 2, "no"), s) = Marks("SPACES_AFTER_COLON", n, n + 1, vs, ve, l, found, n + 2 + 1, "no")
    BY <2>2 DEF turned, scan_char, Marks
  <2> QED BY <1>4, <1>5, <2>0, <2>1, <2>3
<1>7. ASSUME n + 4 <= Len(s) PROVE u[n + 4] = Marks("VALUE", n, n + 1, n + 3, ve, l, found, n + 4, "no")
  <2>0. n + 3 \in 0 .. Len(s) - 1 /\ n + 3 <= Len(s)
    BY <1>2, <1>7
  <2>1. u[n + 3 + 1] = turned(u[n + 3], s)
    BY <1>2, <2>0, Turn DEF u
  <2>3. turned(Marks("SPACES_AFTER_COLON", n, n + 1, vs, ve, l, found, n + 3, "no"), s) = Marks("VALUE", n, n + 1, n + 3, ve, l, found, n + 3 + 1, "no")
    BY DEF turned, scan_char, Marks
  <2> QED BY <1>4, <1>6, <2>0, <2>1, <2>3
<1>8. ASSUME n + 5 <= Len(s) PROVE u[n + 5] = Marks("CR", n, n + 1, n + 3, n + 4, l, found, n + 5, "no")
  <2>0. n + 4 \in 0 .. Len(s) - 1 /\ n + 4 <= Len(s)
    BY <1>2, <1>8
  <2>1. u[n + 4 + 1] = turned(u[n + 4], s)
    BY <1>2, <2>0, Turn DEF u
  <2>2. s[n + 4 + 1] = "CR" /\ ~(n + 4 - (n + 3) <= 0)
    BY <1>2a, <1>4, <1>8 DEF HeaderAt
  <2>3. turned(Marks("VALUE", n, n + 1, n + 3, ve, l, found, n + 4, "no"), s) = Marks("CR", n, n + 1, n + 3, n + 4, l, found, n + 4 + 1, "no")
    <3> DEFINE i == n + 4
               a == n + 3
    <3>1. ~(i - a <= 0) /\ s[i + 1] = "CR"
      BY <2>2
    <3> HIDE DEF i, a
    <3>2. turned(Marks("VALUE", n, n + 1, a, ve, l, found, i, "no"), s) = Marks("CR", n, n + 1, a, i, l, found, i + 1, "no")
      BY <3>1 DEF turned, scan_char, Marks
    <3> QED BY <3>2 DEF i, a
  <2> QED BY <1>4, <1>7, <2>0, <2>1, <2>3
<1>9. HeaderMarks(s, n, ke, vs, ve, l, found)
  BY <1>3, <1>5, <1>6, <1>7, <1>8 DEF HeaderMarks, u
<1> QED BY <1>9

(* The states in the middle of a header. *)
HeaderStates == {"KEY", "COLON", "SPACES_AFTER_COLON", "VALUE", "CR", "LF"}

(* A header line is read to its end, or as far as it is there. *)
LEMMA HeaderPart ==
  ASSUME NEW s, NEW d, Part(s, d), NEW n \in Nat, n + 6 <= Len(d), NEW h, HeaderAt(d, n, h), h[1] \notin Separators,
         NEW state \in {"START", "LF"}, NEW found, NEW line, At(s, n, state, found, line), n < Len(s)
  PROVE  IF n + 6 <= Len(s) THEN At(s, n + 6, "LF", with(found, h[1], h[2]), n + 5)
         ELSE \E h2 \in HeaderStates : \E f, l : At(s, Len(s), h2, f, l)
<1> DEFINE u == upto(s)
<1>1. PICK ke, vs, ve, l : HeaderMarks(s, n, ke, vs, ve, l, found)
  BY HeaderBegun
<1>2. Len(s) \in Nat /\ s \in Seq(Alphabet)
  BY DEF Part
<1>3. CASE n + 6 <= Len(s)
  <2>1. u[n + 5] = Marks("CR", n, n + 1, n + 3, n + 4, l, found, n + 5, "no")
    <3>1. n + 5 <= Len(s)
      BY <1>2, <1>3
    <3> QED BY <1>1, <3>1 DEF HeaderMarks
  <2>2. \A p \in 1 .. 6 : s[n + p] = d[n + p]
    <3>1. \A p \in 1 .. 6 : n + p \in 1 .. Len(s)
      BY <1>2, <1>3
    <3> QED BY <3>1 DEF Part
  <2>3. s[n + 1] = h[1] /\ s[n + 4] = h[2] /\ s[n + 6] = "LF"
    <3>1. 1 \in 1 .. 6 /\ 4 \in 1 .. 6 /\ 6 \in 1 .. 6
      OBVIOUS
    <3> QED BY <2>2, <3>1 DEF HeaderAt
  <2>4. range(s, n, n + 1) = <<h[1]>> /\ range(s, n + 3, n + 4) = <<h[2]>>
    <3>1. \A k \in 1 .. Len(s) : SubSeq(s, k, k) = <<s[k]>>
      BY <1>2, OneChar
    <3>2. n + 1 \in 1 .. Len(s) /\ n + 4 \in 1 .. Len(s) /\ n + 3 + 1 = n + 4
      BY <1>2, <1>3
    <3>3. range(s, n, n + 1) = SubSeq(s, n + 1, n + 1) /\ range(s, n + 3, n + 4) = SubSeq(s, n + 3 + 1, n + 4)
      BY DEF range
    <3> QED BY <2>3, <3>1, <3>2, <3>3
  <2>5. /\ n + 5 \in 0 .. Len(s) - 1 /\ n + 5 + 1 = n + 6
    BY <1>2, <1>3
  <2> HIDE DEF u
  <2>6. u[n + 5 + 1] = turned(u[n + 5], s)
    BY <1>2, <2>5, Turn DEF u
  <2>7. turned(Marks("CR", n, n + 1, n + 3, n + 4, l, found, n + 5, "no"), s)
          = Marks("LF", n, n + 1, n + 3, n + 4, n + 5,
              {p \in found : p[1] # range(s, n, n + 1)} \cup {<<range(s, n, n + 1), range(s, n + 3, n + 4)>>},
              n + 5 + 1, "no")
    <3>1. s[n + 5 + 1] = "LF"
      BY <2>3, <2>5
    <3> QED BY <3>1, ZenonT(40) DEF turned, scan_char, Marks
  <2>8. with(found, h[1], h[2])
          = {p \in found : p[1] # range(s, n, n + 1)} \cup {<<range(s, n, n + 1), range(s, n + 3, n + 4)>>}
    BY <2>4 DEF with
  <2> HIDE DEF with
  <2>9. u[n + 6] = Marks("LF", n, n + 1, n + 3, n + 4, n + 5, with(found, h[1], h[2]), n + 6, "no")
    BY <2>1, <2>5, <2>6, <2>7, <2>8
  <2> QED BY <1>3, <2>9 DEF At, u
<1>4. CASE ~(n + 6 <= Len(s))
  <2> DEFINE G(c) == \E h2 \in HeaderStates : \E f, l2 : At(s, c, h2, f, l2)
  <2>1. ASSUME NEW c, NEW h2 \in HeaderStates, NEW a1, NEW a2, NEW a3, NEW a4, u[c] = Marks(h2, a1, a2, a3, a4, l, found, c, "no")
        PROVE  G(c)
    <3>1. At(s, c, h2, found, l)
      BY <2>1 DEF At
    <3> QED BY <3>1
  <2>2. Len(s) \in {n + 1, n + 2, n + 3, n + 4, n + 5}
    BY <1>2, <1>4
  <2>3. n + 1 <= n + 1 /\ n + 2 <= n + 2 /\ n + 3 <= n + 3 /\ n + 4 <= n + 4 /\ n + 5 <= n + 5
    OBVIOUS
  <2>4. "KEY" \in HeaderStates /\ "COLON" \in HeaderStates /\ "SPACES_AFTER_COLON" \in HeaderStates
        /\ "VALUE" \in HeaderStates /\ "CR" \in HeaderStates
    BY DEF HeaderStates
  <2> HIDE DEF u, G
  <2>5. G(Len(s))
    <3>1. CASE Len(s) = n + 1
      <4>1. \E h2 \in HeaderStates : \E a1, a2, a3, a4 : u[n + 1] = Marks(h2, a1, a2, a3, a4, l, found, n + 1, "no")
        BY <1>1, <2>3, <2>4, <3>1 DEF HeaderMarks, u
      <4> QED BY <2>1, <3>1, <4>1
    <3>2. CASE Len(s) = n + 2
      <4>1. \E h2 \in HeaderStates : \E a1, a2, a3, a4 : u[n + 2] = Marks(h2, a1, a2, a3, a4, l, found, n + 2, "no")
        BY <1>1, <2>3, <2>4, <3>2 DEF HeaderMarks, u
      <4> QED BY <2>1, <3>2, <4>1
    <3>3. CASE Len(s) = n + 3
      <4>1. \E h2 \in HeaderStates : \E a1, a2, a3, a4 : u[n + 3] = Marks(h2, a1, a2, a3, a4, l, found, n + 3, "no")
        BY <1>1, <2>3, <2>4, <3>3 DEF HeaderMarks, u
      <4> QED BY <2>1, <3>3, <4>1
    <3>4. CASE Len(s) = n + 4
      <4>1. \E h2 \in HeaderStates : \E a1, a2, a3, a4 : u[n + 4] = Marks(h2, a1, a2, a3, a4, l, found, n + 4, "no")
        BY <1>1, <2>3, <2>4, <3>4 DEF HeaderMarks, u
      <4> QED BY <2>1, <3>4, <4>1
    <3>5. CASE Len(s) = n + 5
      <4>1. \E h2 \in HeaderStates : \E a1, a2, a3, a4 : u[n + 5] = Marks(h2, a1, a2, a3, a4, l, found, n + 5, "no")
        BY <1>1, <2>3, <2>4, <3>5 DEF HeaderMarks, u
      <4> QED BY <2>1, <3>5, <4>1
    <3> QED BY <2>2, <3>1, <3>2, <3>3, <3>4, <3>5
  <2> QED BY <1>4, <2>5 DEF G
<1> QED BY <1>3, <1>4

(* The LF of the request line is passed over in H_START. *)
LEMMA StartPassed ==
  ASSUME NEW s, Len(s) \in Nat, Len(s) >= 1, s[1] = "LF", Ready
  PROVE  At(s, 1, "START", {}, 0)
<1>1. 0 \in 0 .. Len(s) - 1 /\ 0 + 1 = 1 /\ 0 \in Nat
  OBVIOUS
<1>2. upto(s)[0] = Marks("START", -1, -1, -1, -1, 0, {}, 0, "no")
  BY <1>1, Upto DEF start, Ready
<1>3. upto(s)[0 + 1] = turned(upto(s)[0], s)
  BY <1>1, Turn
<1>4. turned(Marks("START", -1, -1, -1, -1, 0, {}, 0, "no"), s) = Marks("START", -1, -1, -1, -1, 0, {}, 0 + 1, "no")
  <2>1. s[0 + 1] \in {"LF", "CR"}
    BY <1>1
  <2> QED BY <2>1 DEF turned, scan_char, Marks
<1>5. upto(s)[1] = Marks("START", -1, -1, -1, -1, 0, {}, 1, "no")
  BY <1>1, <1>2, <1>3, <1>4
<1> QED BY <1>5 DEF At

(* The first i headers, when they are there with the LF before them. *)
LEMMA HeadersUpTo ==
  ASSUME NEW s, NEW d, NEW hs, Part(s, d), HeaderText(d, hs), Ready, NEW i \in 0 .. Len(hs), 6 * i + 1 <= Len(s)
  PROVE  \E h \in {"START", "LF"} : (i > 0 => h = "LF") /\ At(s, 6 * i + 1, h, kept(hs, i), 6 * i)
<1> DEFINE m == Len(hs)
           Good(k) == \E h \in {"START", "LF"} : (k > 0 => h = "LF") /\ At(s, 6 * k + 1, h, kept(hs, k), 6 * k)
           T == {k \in 0 .. m : 6 * k + 1 <= Len(s) => Good(k)}
<1>1. m \in Nat /\ Len(s) \in Nat /\ s \in Seq(Alphabet) /\ 6 * m + 3 <= Len(d) /\ Len(d) \in Nat
  BY DEF HeaderText, Part
<1>2. \A k \in 0 .. m - 1 : HeaderAt(d, 6 * k + 1, hs[k + 1]) /\ hs[k + 1][1] \notin Separators
  BY DEF HeaderText
<1> HIDE DEF m
<1>3. 0 \in T
  <2>1. ASSUME 6 * 0 + 1 <= Len(s) PROVE Good(0)
    <3>1. Len(s) >= 1 /\ 1 \in 1 .. Len(s)
      BY <1>1, <2>1
    <3>2. s[1] = "LF"
      BY <3>1 DEF Part, HeaderText
    <3>3. At(s, 1, "START", {}, 0)
      BY <1>1, <3>1, <3>2, StartPassed
    <3>4. kept(hs, 0) = {}
      BY DEF kept
    <3>5. 6 * 0 + 1 = 1 /\ 6 * 0 = 0 /\ ~(0 > 0)
      OBVIOUS
    <3> QED BY <3>3, <3>4, <3>5
  <2>2. 0 \in 0 .. m
    BY <1>1
  <2> HIDE DEF Good
  <2> QED BY <2>1, <2>2
<1>4. ASSUME NEW k \in 0 .. m - 1, k \in T PROVE k + 1 \in T
  <2>1. k + 1 \in 0 .. m /\ k \in Nat
    BY <1>1
  <2>2. ASSUME 6 * (k + 1) + 1 <= Len(s) PROVE Good(k + 1)
    <3> DEFINE n == 6 * k + 1
               g == hs[k + 1]
               f == kept(hs, k)
               w == 6 * k
    <3>1. n \in Nat /\ n + 6 <= Len(d) /\ n + 6 <= Len(s) /\ n < Len(s) /\ n <= Len(s)
      BY <1>1, <2>1, <2>2
    <3>2. PICK h \in {"START", "LF"} : At(s, n, h, f, w)
      BY <1>4, <3>1
    <3>3. HeaderAt(d, n, g) /\ g[1] \notin Separators
      BY <1>2
    <3>3a. n + 6 = 6 * (k + 1) + 1 /\ n + 5 = 6 * (k + 1)
      BY <2>1
    <3>3b. with(f, g[1], g[2]) = kept(hs, k + 1)
      BY <2>1, KeptNext
    <3> HIDE DEF n, g, f, w, T
    <3>4. At(s, n + 6, "LF", with(f, g[1], g[2]), n + 5)
      BY <3>1, <3>2, <3>3, HeaderPart
    <3>5. At(s, 6 * (k + 1) + 1, "LF", kept(hs, k + 1), 6 * (k + 1))
      BY <3>3a, <3>3b, <3>4
    <3> QED BY <3>5
  <2> HIDE DEF Good
  <2> QED BY <2>1, <2>2
<1>5. i \in T
  <2> HIDE DEF T
  <2>1. \A k \in 0 .. m : k \in T
    BY <1>1, <1>3, <1>4, AllNumbersUpTo
  <2> QED BY <2>1 DEF m
<1> QED BY <1>5

(* What parse_headers makes of a text that the loop went through without
   coming to the end of the headers. *)
LEMMA NotEnded ==
  ASSUME NEW s \in Seq(Alphabet), NEW h, h # "END_LF", NEW found, NEW line, At(s, Len(s), h, found, line)
  PROVE  parse_headers(s) = [verdict |-> "AGAIN", h |-> h, headers |-> found, rest |-> substr(s, line)]
<1>1. PICK ks, ke, vs, ve : upto(s)[Len(s)] = Marks(h, ks, ke, vs, ve, line, found, Len(s), "no")
  BY DEF At
<1>2. scan(s) = Marks(h, ks, ke, vs, ve, line, found, Len(s), "no")
  <2>1. Len(s) \in Nat
    OBVIOUS
  <2> QED BY <1>1, <2>1, Upto
<1>3. /\ scan(s).h = h /\ scan(s).found = found /\ scan(s).halt = "no" /\ scan(s).line = line
  BY <1>2 DEF Marks
<1> HIDE DEF scan, substr
<1> QED BY <1>3 DEF parse_headers, headers_end

(* parse_headers asks for more and keeps b. *)
Asks(s, h, found, b) == parse_headers(s) = [verdict |-> "AGAIN", h |-> h, headers |-> found, rest |-> b]

(* It does so inside a header. *)
AsksInHeader(s) == \E h \in HeaderStates : \E found, b : Asks(s, h, found, b)

(* Nothing of the headers is there. *)
LEMMA NoHeaders ==
  ASSUME NEW s \in Seq(Alphabet), Ready, Len(s) = 0 \/ (Len(s) = 1 /\ s[1] = "LF")
  PROVE  Asks(s, "START", {}, s)
<1>1. Len(s) \in Nat /\ Len(s) \in 0 .. Len(s)
  OBVIOUS
<1>2. At(s, Len(s), "START", {}, 0)
  <2>1. CASE Len(s) = 0
    <3>1. upto(s)[0] = Marks("START", -1, -1, -1, -1, 0, {}, 0, "no")
      BY <1>1, Upto DEF start, Ready
    <3>2. At(s, 0, "START", {}, 0)
      BY <3>1 DEF At
    <3> QED BY <2>1, <3>2
  <2>2. CASE Len(s) = 1 /\ s[1] = "LF"
    <3>1. Len(s) >= 1
      BY <2>2
    <3> QED BY <1>1, <2>2, <3>1, StartPassed
  <2> QED BY <2>1, <2>2
<1>3. substr(s, 0) = s
  <2>1. SubSeq(s, 1, Len(s)) = s
    OBVIOUS
  <2> QED BY <2>1 DEF substr
<1> QED BY <1>2, <1>3, NotEnded DEF Asks

(* Headers of which the last LF is not there. *)
LEMMA HeadersCut ==
  ASSUME NEW s, NEW d, NEW hs, Part(s, d), HeaderText(d, hs), Ready, hs # <<>>, Len(s) <= 6 * Len(hs) + 2
  PROVE  \/ Asks(s, "START", {}, s)
         \/ AsksInHeader(s)
         \/ Len(s) = 6 * Len(hs) + 2 /\ Asks(s, "END_CR", kept(hs, Len(hs)), substr(s, 6 * Len(hs)))
<1> DEFINE m == Len(hs)
<1>1. /\ m \in Nat /\ m > 0 /\ Len(s) \in Nat /\ s \in Seq(Alphabet) /\ 6 * m + 3 <= Len(d) /\ Len(d) \in Nat
      /\ Len(s) <= 6 * m + 2
  BY DEF HeaderText, Part
<1>2. \A k \in 0 .. m - 1 : HeaderAt(d, 6 * k + 1, hs[k + 1]) /\ hs[k + 1][1] \notin Separators
  BY DEF HeaderText
<1> HIDE DEF m
<1>3. CASE Len(s) <= 1
  <2>1. Len(s) = 0 \/ Len(s) = 1
    <3>1. Len(s) \in Nat
      BY <1>1
    <3> QED BY <1>3, <3>1
  <2>2. Len(s) = 1 => s[1] = "LF"
    <3>1. Len(s) = 1 => 1 \in 1 .. Len(s)
      OBVIOUS
    <3> QED BY <3>1 DEF Part, HeaderText
  <2>3. Asks(s, "START", {}, s)
    BY <1>1, <2>1, <2>2, NoHeaders
  <2> QED BY <2>3
<1>4. CASE Len(s) > 1 /\ Len(s) <= 6 * m + 1
  <2>1. PICK i \in 0 .. m - 1 : 6 * i + 1 < Len(s) /\ Len(s) <= 6 * i + 7
    <3> DEFINE hits == {i \in 0 .. m - 1 : Len(s) <= 6 * i + 7}
    <3>1. m - 1 \in hits /\ hits \in SUBSET Nat
      BY <1>1, <1>4
    <3>2. PICK i \in hits : \A k \in hits : i <= k
      <4> HIDE DEF hits
      <4> QED BY <3>1, Least
    <3>3. CASE i = 0
      BY <1>1, <1>4, <3>2, <3>3
    <3>4. CASE i # 0
      <4>1. i - 1 \in 0 .. m - 1 /\ i - 1 < i
        BY <1>1, <3>2, <3>4
      <4>2. ~(Len(s) <= 6 * (i - 1) + 7)
        BY <3>2, <4>1
      <4> QED BY <1>1, <3>2, <4>1, <4>2
    <3> QED BY <3>3, <3>4
  <2> DEFINE n == 6 * i + 1
             g == hs[i + 1]
             f == kept(hs, i)
             w == 6 * i
  <2>2. n \in Nat /\ n + 6 <= Len(d) /\ n < Len(s) /\ Len(s) <= n + 6
    BY <1>1, <2>1
  <2>3. PICK h \in {"START", "LF"} : At(s, n, h, f, w)
    <3>1. i \in 0 .. m /\ 6 * i + 1 <= Len(s)
      BY <1>1, <2>1
    <3> QED BY <3>1, HeadersUpTo DEF m
  <2>4. HeaderAt(d, n, g) /\ g[1] \notin Separators
    BY <1>2
  <2> HIDE DEF n, g, f, w
  <2>5. IF n + 6 <= Len(s) THEN At(s, n + 6, "LF", with(f, g[1], g[2]), n + 5)
        ELSE \E h2 \in HeaderStates : \E a, l : At(s, Len(s), h2, a, l)
    BY <2>2, <2>3, <2>4, HeaderPart
  <2>6. n + 6 <= Len(s) => n + 6 = Len(s)
    BY <1>1, <2>2
  <2>7. PICK h2 \in HeaderStates : \E a, l : At(s, Len(s), h2, a, l)
    <3>1. "LF" \in HeaderStates
      BY DEF HeaderStates
    <3> QED BY <2>5, <2>6, <3>1
  <2>8. h2 # "END_LF"
    BY DEF HeaderStates
  <2>9. AsksInHeader(s)
    BY <1>1, <2>7, <2>8, NotEnded DEF Asks, AsksInHeader
  <2> QED BY <2>9
<1>5. CASE Len(s) = 6 * m + 2
  <2> DEFINE n == 6 * m + 1
             w == 6 * m
             f == kept(hs, m)
  <2>1. At(s, n, "LF", f, w)
    <3>1. m \in 0 .. m /\ 6 * m + 1 <= Len(s)
      BY <1>1, <1>5
    <3> QED BY <1>1, <3>1, HeadersUpTo DEF m
  <2>2. n \in Nat /\ n \in 0 .. Len(s) - 1 /\ n + 1 = 6 * m + 2 /\ n + 1 \in 1 .. Len(s) /\ n + 1 = Len(s)
    BY <1>1, <1>5
  <2>3. s[n + 1] = "CR"
    BY <2>2 DEF Part, HeaderText, m
  <2> HIDE DEF n, f, w
  <2>4. PICK ks, ke, vs, ve : upto(s)[n] = Marks("LF", ks, ke, vs, ve, w, f, n, "no")
    BY <2>1 DEF At
  <2>5. upto(s)[n + 1] = Marks("END_CR", ks, ke, vs, ve, w, f, n + 1, "no")
    <3>1. upto(s)[n + 1] = turned(upto(s)[n], s)
      BY <1>1, <2>2, Turn
    <3>2. turned(Marks("LF", ks, ke, vs, ve, w, f, n, "no"), s) = Marks("END_CR", ks, ke, vs, ve, w, f, n + 1, "no")
      BY <2>3 DEF turned, scan_char, Marks
    <3> QED BY <2>4, <3>1, <3>2
  <2>6. At(s, Len(s), "END_CR", f, w)
    BY <2>2, <2>5 DEF At
  <2>7. Asks(s, "END_CR", f, substr(s, w))
    BY <1>1, <2>6, NotEnded DEF Asks
  <2> QED BY <1>5, <2>7 DEF m, f, w
<1>6. Len(s) <= 1 \/ (Len(s) > 1 /\ Len(s) <= 6 * m + 1) \/ Len(s) = 6 * m + 2
  BY <1>1
<1> QED BY <1>3, <1>4, <1>5, <1>6

(* Headers that are there to the end. *)
LEMMA PartHeaders ==
  ASSUME NEW s, NEW d, NEW hs, Part(s, d), HeaderText(d, hs), 6 * Len(hs) + 3 <= Len(s)
  PROVE  HeaderText(s, hs)
<1> DEFINE m == Len(hs)
<1>1. /\ m \in Nat /\ Len(s) \in Nat /\ s \in Seq(Alphabet) /\ hs \in Seq(STRING \X STRING) /\ 6 * m + 3 <= Len(s)
  BY DEF HeaderText, Part
<1>2. /\ \A k \in 0 .. m - 1 : HeaderAt(d, 6 * k + 1, hs[k + 1]) /\ hs[k + 1][1] \notin Separators
      /\ d[1] = "LF" /\ d[6 * m + 2] = "CR" /\ d[6 * m + 3] = "LF"
  BY DEF HeaderText
<1> HIDE DEF m
<1>3. \A i \in 1 .. Len(s) : s[i] = d[i]
  BY DEF Part
<1>4. s[1] = "LF" /\ s[6 * m + 2] = "CR" /\ s[6 * m + 3] = "LF"
  <2>1. 1 \in 1 .. Len(s) /\ 6 * m + 2 \in 1 .. Len(s) /\ 6 * m + 3 \in 1 .. Len(s)
    BY <1>1
  <2> QED BY <1>2, <1>3, <2>1
<1>5. ASSUME NEW k \in 0 .. m - 1 PROVE HeaderAt(s, 6 * k + 1, hs[k + 1])
  <2> DEFINE n == 6 * k + 1
  <2>1. \A p \in 1 .. 6 : n + p \in 1 .. Len(s)
    BY <1>1
  <2>2. HeaderAt(d, n, hs[k + 1])
    BY <1>2
  <2> HIDE DEF n
  <2>3. \A p \in 1 .. 6 : s[n + p] = d[n + p]
    BY <1>3, <2>1
  <2>4. 1 \in 1 .. 6 /\ 2 \in 1 .. 6 /\ 3 \in 1 .. 6 /\ 4 \in 1 .. 6 /\ 5 \in 1 .. 6 /\ 6 \in 1 .. 6
    OBVIOUS
  <2>5. HeaderAt(s, n, hs[k + 1])
    BY <2>2, <2>3, <2>4 DEF HeaderAt
  <2> QED BY <2>5 DEF n
<1> QED BY <1>1, <1>2, <1>4, <1>5 DEF HeaderText, m

(* What follows a blank line is no separator, up to a CR, or to the end. *)
Nameless(d, e) ==
  /\ e \in Nat /\ e >= 4
  /\ \A k \in 3 .. e - 1 : k < Len(d) => d[k + 1] \notin {"COLON", "LF", "CR"}
  /\ e < Len(d) => d[e + 1] = "CR"

(* Without headers: what follows the blank line is a name that never ends, or is
   ended by a CR. *)
LEMMA BlankCut ==
  ASSUME NEW s, NEW d, Part(s, d), HeaderText(d, <<>>), Ready, NEW e, Nameless(d, e)
  PROVE  \/ Asks(s, "START", {}, s)
         \/ AsksInHeader(s)
         \/ parse_headers(s).verdict = "ERROR"
<1>1. /\ Len(s) \in Nat /\ s \in Seq(Alphabet) /\ Len(d) \in Nat /\ Len(s) <= Len(d) /\ 3 <= Len(d)
      /\ d[1] = "LF" /\ d[2] = "CR" /\ d[3] = "LF"
  <2>1. Len(<<>>) = 0 /\ 6 * 0 + 2 = 2 /\ 6 * 0 + 3 = 3
    OBVIOUS
  <2> QED BY <2>1 DEF HeaderText, Part
<1>1a. \A l \in Nat : (l <= 1 \/ l = 2 \/ l >= 3) /\ (l >= 3 => l = 3 \/ l >= 4) /\ (l <= 1 => l = 0 \/ l = 1)
  OBVIOUS
<1>2. \A i \in 1 .. Len(s) : s[i] = d[i]
  BY DEF Part
<1>3. CASE Len(s) <= 1
  <2>1. Len(s) = 0 \/ Len(s) = 1
    BY <1>1, <1>1a, <1>3
  <2>2. Len(s) = 1 => s[1] = "LF"
    <3>1. Len(s) = 1 => 1 \in 1 .. Len(s)
      OBVIOUS
    <3> QED BY <1>1, <1>2, <3>1
  <2>3. Asks(s, "START", {}, s)
    BY <1>1, <2>1, <2>2, NoHeaders
  <2> QED BY <2>3
<1>4. CASE Len(s) = 2
  <2>1. s[1] = "LF" /\ s[2] = "CR"
    <3>1. 1 \in 1 .. Len(s) /\ 2 \in 1 .. Len(s)
      BY <1>4
    <3> QED BY <1>1, <1>2, <3>1
  <2>2. At(s, 1, "START", {}, 0)
    BY <1>1, <1>4, <2>1, StartPassed
  <2>3. PICK ks, ke, vs, ve : upto(s)[1] = Marks("START", ks, ke, vs, ve, 0, {}, 1, "no")
    BY <2>2 DEF At
  <2>4. upto(s)[2] = Marks("START", ks, ke, vs, ve, 0, {}, 2, "no")
    <3>1. turned(Marks("START", ks, ke, vs, ve, 0, {}, 1, "no"), s) = Marks("START", ks, ke, vs, ve, 0, {}, 1 + 1, "no")
      <4>1. s[1 + 1] = "CR"
        BY <2>1
      <4> QED BY <4>1 DEF turned, scan_char, Marks
    <3>2. 1 \in 0 .. Len(s) - 1 /\ 1 + 1 = 2
      BY <1>4
    <3>3. upto(s)[1 + 1] = turned(upto(s)[1], s)
      BY <1>1, <3>2, Turn
    <3> QED BY <2>3, <3>1, <3>2, <3>3
  <2>5. At(s, 2, "START", {}, 0)
    BY <2>4 DEF At
  <2>5a. At(s, Len(s), "START", {}, 0)
    BY <1>4, <2>5
  <2>6. Asks(s, "START", {}, substr(s, 0))
    BY <1>1, <2>5a, NotEnded DEF Asks
  <2>7. substr(s, 0) = s
    <3>1. SubSeq(s, 1, Len(s)) = s
      BY <1>1
    <3> QED BY <3>1 DEF substr
  <2> QED BY <2>6, <2>7
<1>5. CASE Len(s) >= 3
  <2>1. HeaderText(s, <<>>)
    <3>1. Len(<<>>) = 0 /\ 6 * 0 + 3 = 3
      OBVIOUS
    <3> QED BY <1>5, <3>1, PartHeaders
  <2>2. CASE Len(s) = 3
    <3>1. At(s, 3, "START", {}, 0)
      BY <2>1, BlankPassed
    <3>1a. At(s, Len(s), "START", {}, 0)
      BY <2>2, <3>1
    <3>2. Asks(s, "START", {}, substr(s, 0))
      BY <1>1, <3>1a, NotEnded DEF Asks
    <3>3. substr(s, 0) = s
      <4>1. SubSeq(s, 1, Len(s)) = s
        BY <1>1
      <4> QED BY <4>1 DEF substr
    <3> QED BY <3>2, <3>3
  <2>3. CASE Len(s) >= 4
    <3>1. \A k \in 3 .. e - 1 : k < Len(s) => s[k + 1] \notin {"COLON", "LF", "CR"}
      <4> TAKE k \in 3 .. e - 1
      <4> SUFFICES ASSUME k < Len(s) PROVE s[k + 1] \notin {"COLON", "LF", "CR"}
        OBVIOUS
      <4>1. k + 1 \in 1 .. Len(s) /\ k < Len(d)
        BY <1>1
      <4> QED BY <1>2, <4>1 DEF Nameless
    <3>2. s[4] \notin {"LF", "CR"}
      <4>1. 3 \in 3 .. e - 1 /\ 3 < Len(s) /\ 3 + 1 = 4
        BY <2>3 DEF Nameless
      <4>2. s[3 + 1] \notin {"COLON", "LF", "CR"}
        BY <3>1, <4>1
      <4> QED BY <4>1, <4>2
    <3>3. At(s, 4, "KEY", {}, 3)
      BY <2>1, <2>3, <3>2, BlankKey
    <3>4. CASE Len(s) <= e
      <4>1. Plain(s, 4, Len(s))
        <5>1. \A k \in 4 .. Len(s) - 1 : k \in 3 .. e - 1 /\ k < Len(s)
          BY <1>1, <3>4 DEF Nameless
        <5> QED BY <3>1, <5>1 DEF Plain
      <4>2. Len(s) \in 4 .. Len(s) /\ 4 \in Nat
        BY <1>1, <2>3
      <4>3. At(s, Len(s), "KEY", {}, 3)
        BY <1>1, <3>3, <4>1, <4>2, KeyRuns
      <4>4. "KEY" \in HeaderStates /\ "KEY" # "END_LF"
        BY DEF HeaderStates
      <4>5. AsksInHeader(s)
        BY <1>1, <4>3, <4>4, NotEnded DEF Asks, AsksInHeader
      <4> QED BY <4>5
    <3>5. CASE Len(s) > e
      <4>1. Plain(s, 4, e)
        <5>1. \A k \in 4 .. e - 1 : k \in 3 .. e - 1 /\ k < Len(s)
          BY <1>1, <3>5 DEF Nameless
        <5> QED BY <3>1, <5>1 DEF Plain
      <4>2. e \in 4 .. Len(s) - 1 /\ 4 \in Nat /\ e + 1 \in 1 .. Len(s) /\ e < Len(d)
        BY <1>1, <3>5 DEF Nameless
      <4>3. s[e + 1] = "CR"
        BY <1>2, <4>2 DEF Nameless
      <4>4. parse_headers(s).verdict = "ERROR"
        BY <1>1, <3>3, <4>1, <4>2, <4>3, KeyFails
      <4> QED BY <4>4
    <3>6. Len(s) <= e \/ Len(s) > e
      BY <1>1 DEF Nameless
    <3> QED BY <3>4, <3>5, <3>6
  <2>4. Len(s) = 3 \/ Len(s) >= 4
    BY <1>1, <1>1a, <1>5
  <2> QED BY <2>2, <2>3, <2>4
<1>6. Len(s) <= 1 \/ Len(s) = 2 \/ Len(s) >= 3
  BY <1>1, <1>1a
<1> QED BY <1>3, <1>4, <1>5, <1>6

(* A call that begins behind the CR of the blank line takes the LF it is given
   for the one that ends the headers, and passes one more character over. *)
LEMMA EndResumed ==
  ASSUME NEW s \in Seq(Alphabet), Len(s) >= 2, s[1] = "LF", hState_ = "END_CR"
  PROVE  parse_headers(s) = [verdict |-> "SUCCESS", h |-> "END_LF", headers |-> headers_, rest |-> substr(s, 2)]
<1>1. Len(s) \in Nat /\ 0 \in 0 .. Len(s) - 1 /\ 1 \in 0 .. Len(s) - 1 /\ 2 \in 0 .. Len(s) /\ 0 + 1 = 1 /\ 1 + 1 = 2
  OBVIOUS
<1>2. upto(s)[0] = Marks("END_CR", -1, -1, -1, -1, 0, headers_, 0, "no")
  BY <1>1, Upto DEF start
<1>3. upto(s)[1] = Marks("END_LF", -1, -1, -1, -1, 0, headers_, 1, "no")
  <2>1. s[0 + 1] = "LF"
    BY <1>1
  <2>2. turned(Marks("END_CR", -1, -1, -1, -1, 0, headers_, 0, "no"), s) = Marks("END_LF", -1, -1, -1, -1, 0, headers_, 0 + 1, "no")
    BY <2>1 DEF turned, scan_char, Marks
  <2>3. upto(s)[0 + 1] = turned(upto(s)[0], s)
    BY <1>1, Turn
  <2> QED BY <1>1, <1>2, <2>2, <2>3
<1>4. upto(s)[2] = Marks("END_LF", 1, -1, -1, -1, 1, headers_, 2, "end")
  <2>1. turned(Marks("END_LF", -1, -1, -1, -1, 0, headers_, 1, "no"), s) = Marks("END_LF", 1, -1, -1, -1, 1, headers_, 1 + 1, "end")
    BY DEF turned, scan_char, Marks
  <2>2. upto(s)[1 + 1] = turned(upto(s)[1], s)
    BY <1>1, Turn
  <2> QED BY <1>1, <1>3, <2>1, <2>2
<1>5. upto(s)[2].halt # "no"
  BY <1>4 DEF Marks
<1>6. scan(s) = Marks("END_LF", 1, -1, -1, -1, 1, headers_, 2, "end")
  BY <1>1, <1>4, <1>5, Halted
<1>7. scan(s).h = "END_LF" /\ scan(s).found = headers_ /\ scan(s).halt = "end" /\ scan(s).i = 2
  BY <1>6 DEF Marks
<1> HIDE DEF scan, substr
<1> QED BY <1>7 DEF parse_headers, headers_end

(* What was read and not yet taken, and what the client has still to send. *)
left == joined(inBuffer_, incoming)

Buffers == inBuffer_ \in Seq(Alphabet) /\ incoming \in Seq(Alphabet)

(* A call that finds n more characters sees a part of it. *)
LEMMA PieceText ==
  ASSUME Buffers, NEW n \in 0 .. Len(incoming)
  PROVE  Part(text(n), left) /\ Len(text(n)) = Len(inBuffer_) + n
<1> DEFINE b == inBuffer_
           t == incoming
           w == SubSeq(t, 1, n)
           x == text(n)
<1>1. b \in Seq(Alphabet) /\ t \in Seq(Alphabet) /\ Len(b) \in Nat /\ Len(t) \in Nat /\ n \in 0 .. Len(t)
  BY DEF Buffers
<1>2. w \in Seq(Alphabet) /\ Len(w) = n /\ \A i \in 1 .. n : w[i] = t[i]
  <2>1. w \in Seq(Alphabet) /\ Len(w) = n
    BY <1>1
  <2>2. \A i \in 1 .. n : w[i] = t[i]
    BY <1>1
  <2> QED BY <2>1, <2>2
<1>3. x = joined(b, w) /\ left = joined(b, t)
  BY DEF text, joined, left
<1> HIDE DEF b, t, w, x
<1>4. IsJoined(Alphabet, x, b, w) /\ IsJoined(Alphabet, left, b, t)
  BY <1>1, <1>2, <1>3, JoinedText
<1> HIDE DEF left
<1>5. x \in Seq(Alphabet) /\ left \in Seq(Alphabet) /\ Len(x) = Len(b) + n /\ Len(left) = Len(b) + Len(t)
  BY <1>2, <1>4 DEF IsJoined
<1>6. ASSUME NEW i \in 1 .. Len(x) PROVE x[i] = left[i]
  <2>1. CASE i <= Len(b)
    <3>1. i \in 1 .. Len(b)
      BY <1>1, <1>5, <2>1
    <3> QED BY <1>4, <3>1 DEF IsJoined
  <2>2. CASE i > Len(b)
    <3> DEFINE k == i - Len(b)
    <3>1. k \in 1 .. n /\ k \in 1 .. Len(w) /\ k \in 1 .. Len(t) /\ Len(b) + k = i
      BY <1>1, <1>2, <1>5, <2>2
    <3> HIDE DEF k
    <3>2. x[Len(b) + k] = w[k] /\ left[Len(b) + k] = t[k]
      BY <1>4, <3>1 DEF IsJoined
    <3> QED BY <1>2, <3>1, <3>2
  <2>3. i <= Len(b) \/ i > Len(b)
    BY <1>1, <1>5
  <2> QED BY <2>1, <2>2, <2>3
<1>7. Len(x) \in Nat /\ Len(left) \in Nat /\ Len(x) <= Len(left)
  BY <1>1, <1>5
<1> QED BY <1>5, <1>6, <1>7 DEF Part, x, b

(* Taking characters off the front. *)
LEMMA PartRest ==
  ASSUME NEW x, NEW y, Part(x, y), NEW q \in 0 .. Len(x)
  PROVE  Part(substr(x, q), substr(y, q))
<1>1. x \in Seq(Alphabet) /\ y \in Seq(Alphabet) /\ Len(x) \in Nat /\ Len(y) \in Nat /\ Len(x) <= Len(y)
  BY DEF Part
<1>2. q \in 0 .. Len(y) /\ q \in Nat
  BY <1>1
<1> DEFINE u == substr(x, q)
           v == substr(y, q)
<1>3. /\ u \in Seq(Alphabet) /\ Len(u) = Len(x) - q /\ \A i \in 1 .. Len(x) - q : u[i] = x[q + i]
      /\ v \in Seq(Alphabet) /\ Len(v) = Len(y) - q /\ \A i \in 1 .. Len(y) - q : v[i] = y[q + i]
  BY <1>1, <1>2, Rest
<1> HIDE DEF u, v
<1>4. ASSUME NEW i \in 1 .. Len(u) PROVE u[i] = v[i]
  <2>1. i \in 1 .. Len(x) - q /\ i \in 1 .. Len(y) - q /\ q + i \in 1 .. Len(x)
    BY <1>1, <1>2, <1>3
  <2>2. u[i] = x[q + i] /\ v[i] = y[q + i]
    BY <1>3, <2>1
  <2>3. x[q + i] = y[q + i]
    BY <2>1 DEF Part
  <2> QED BY <2>2, <2>3
<1>5. Len(u) \in Nat /\ Len(v) \in Nat /\ Len(u) <= Len(v)
  BY <1>1, <1>2, <1>3
<1> QED BY <1>3, <1>4, <1>5 DEF Part, u, v

(* Twice. *)
LEMMA RestRest ==
  ASSUME NEW A, NEW s \in Seq(A), NEW p \in Nat, NEW q \in Nat, p + q <= Len(s)
  PROVE  substr(substr(s, p), q) = substr(s, p + q)
<1> DEFINE t == substr(s, p)
           u == substr(t, q)
           v == substr(s, p + q)
<1>1. Len(s) \in Nat /\ p \in 0 .. Len(s) /\ p + q \in 0 .. Len(s)
  OBVIOUS
<1>2. /\ t \in Seq(A) /\ Len(t) = Len(s) - p /\ \A i \in 1 .. Len(s) - p : t[i] = s[p + i]
      /\ v \in Seq(A) /\ Len(v) = Len(s) - (p + q) /\ \A i \in 1 .. Len(s) - (p + q) : v[i] = s[p + q + i]
  BY <1>1, Rest
<1> HIDE DEF t, v
<1>3. q \in 0 .. Len(t)
  BY <1>1, <1>2
<1>4. u \in Seq(A) /\ Len(u) = Len(t) - q /\ \A i \in 1 .. Len(t) - q : u[i] = t[q + i]
  <2>1. t \in Seq(A) /\ q \in 0 .. Len(t)
    BY <1>2, <1>3
  <2> QED BY <2>1, Rest
<1> HIDE DEF u
<1>5. Len(u) = Len(v)
  BY <1>1, <1>2, <1>4
<1>6. ASSUME NEW i \in 1 .. Len(u) PROVE u[i] = v[i]
  <2>1. i \in 1 .. Len(t) - q /\ q + i \in 1 .. Len(s) - p /\ i \in 1 .. Len(s) - (p + q) /\ p + (q + i) = p + q + i
    BY <1>1, <1>2, <1>4
  <2>2. u[i] = t[q + i] /\ t[q + i] = s[p + (q + i)] /\ v[i] = s[p + q + i]
    BY <1>2, <1>4, <2>1
  <2> QED BY <2>1, <2>2
<1>7. u = v
  BY <1>2, <1>4, <1>5, <1>6, SeqEqual
<1> QED BY <1>7 DEF u, v, t

(* Nothing taken off. *)
LEMMA RestAll ==
  ASSUME NEW A, NEW s \in Seq(A)
  PROVE  substr(s, 0) = s
<1>1. SubSeq(s, 1, Len(s)) = s
  OBVIOUS
<1> QED BY <1>1 DEF substr

(* What a call takes off its text is taken off the whole. *)
LEMMA LeftAfter ==
  ASSUME Buffers, NEW n \in 0 .. Len(incoming), Called(n), NEW q \in 0 .. Len(text(n)),
         last(n).inBuffer_ = substr(text(n), q)
  PROVE  Buffers' /\ left' = substr(left, q) /\ inBuffer_' = substr(text(n), q)
<1> DEFINE x == text(n)
           b == inBuffer_
           t == incoming
           z == SubSeq(t, n + 1, Len(t))
           u == substr(x, q)
           c == joined(u, z)
           d == substr(left, q)
<1>1. b \in Seq(Alphabet) /\ t \in Seq(Alphabet) /\ Len(b) \in Nat /\ Len(t) \in Nat /\ n \in 0 .. Len(t)
  BY DEF Buffers
<1>2. Part(x, left) /\ Len(x) = Len(b) + n
  BY PieceText
<1>3. z \in Seq(Alphabet) /\ Len(z) = Len(t) - n /\ \A i \in 1 .. Len(t) - n : z[i] = t[n + i]
  <2>1. z \in Seq(Alphabet) /\ Len(z) = Len(t) - n
    BY <1>1
  <2>2. \A i \in 1 .. Len(t) - n : z[i] = t[n + i]
    BY <1>1
  <2> QED BY <2>1, <2>2
<1>4. IsJoined(Alphabet, left, b, t)
  BY <1>1, JoinedText DEF left
<1>5. inBuffer_' = u /\ incoming' = z
  BY DEF Called
<1>6. left' = c
  BY <1>5 DEF left
<1> HIDE DEF x, b, t, z
<1>7. x \in Seq(Alphabet) /\ left \in Seq(Alphabet) /\ q \in 0 .. Len(x) /\ q \in 0 .. Len(left) /\ Len(left) = Len(b) + Len(t)
  <2>1. x \in Seq(Alphabet) /\ left \in Seq(Alphabet) /\ Len(left) = Len(b) + Len(t)
    BY <1>2, <1>4 DEF Part, IsJoined
  <2>2. q \in 0 .. Len(x)
    BY DEF x
  <2> QED BY <1>1, <1>2, <2>1, <2>2
<1>8. /\ u \in Seq(Alphabet) /\ Len(u) = Len(x) - q /\ \A i \in 1 .. Len(x) - q : u[i] = x[q + i]
      /\ d \in Seq(Alphabet) /\ Len(d) = Len(left) - q /\ \A i \in 1 .. Len(left) - q : d[i] = left[q + i]
  BY <1>7, Rest
<1> HIDE DEF u, d
<1>9. IsJoined(Alphabet, c, u, z)
  BY <1>3, <1>8, JoinedText
<1> HIDE DEF c
<1>10. c \in Seq(Alphabet) /\ Len(c) = Len(d)
  <2>1. c \in Seq(Alphabet) /\ Len(c) = Len(u) + Len(z)
    BY <1>9 DEF IsJoined
  <2> QED BY <1>1, <1>2, <1>3, <1>7, <1>8, <2>1
<1>11. ASSUME NEW i \in 1 .. Len(c) PROVE c[i] = d[i]
  <2>1. i \in 1 .. Len(left) - q /\ i \in Nat
    BY <1>7, <1>8, <1>10
  <2>2. d[i] = left[q + i]
    BY <1>8, <2>1
  <2>3. CASE i <= Len(u)
    <3>1. i \in 1 .. Len(u) /\ i \in 1 .. Len(x) - q /\ q + i \in 1 .. Len(x)
      BY <1>1, <1>2, <1>7, <1>8, <2>1, <2>3
    <3>2. c[i] = u[i] /\ u[i] = x[q + i]
      BY <1>8, <1>9, <3>1 DEF IsJoined
    <3>3. x[q + i] = left[q + i]
      BY <1>2, <3>1 DEF Part
    <3> QED BY <2>2, <3>2, <3>3
  <2>4. CASE i > Len(u)
    <3> DEFINE k == i - Len(u)
    <3>0. /\ Len(b) \in Nat /\ Len(t) \in Nat /\ n \in 0 .. Len(t) /\ Len(x) = Len(b) + n /\ q \in 0 .. Len(x)
          /\ Len(z) = Len(t) - n /\ Len(u) = Len(x) - q /\ Len(left) = Len(b) + Len(t) /\ i \in 1 .. Len(left) - q
      BY <1>1, <1>2, <1>3, <1>7, <1>8, <2>1
    <3>1. k \in 1 .. Len(z) /\ k \in 1 .. Len(t) - n /\ n + k \in 1 .. Len(t) /\ Len(u) + k = i /\ Len(b) + (n + k) = q + i
      <4>1. \A lb \in Nat, lt \in Nat : \A m \in 0 .. lt : \A p \in 0 .. lb + m : \A g \in 1 .. lb + lt - p :
              g > lb + m - p =>
                LET h == g - (lb + m - p)
                IN  h \in 1 .. lt - m /\ m + h \in 1 .. lt /\ lb + m - p + h = g /\ lb + (m + h) = p + g
        OBVIOUS
      <4>2. Len(u) = Len(b) + n - q /\ q \in 0 .. Len(b) + n /\ i \in 1 .. Len(b) + Len(t) - q /\ i > Len(b) + n - q
        BY <2>4, <3>0
      <4> QED BY <3>0, <4>1, <4>2
    <3> HIDE DEF k
    <3>2. c[Len(u) + k] = z[k]
      BY <1>9, <3>1 DEF IsJoined
    <3>3. left[Len(b) + (n + k)] = t[n + k]
      BY <1>4, <3>1 DEF IsJoined
    <3> QED BY <1>3, <2>2, <3>1, <3>2, <3>3
  <2>5. i <= Len(u) \/ i > Len(u)
    BY <1>1, <1>2, <1>7, <1>8, <2>1
  <2> QED BY <2>3, <2>4, <2>5
<1>12. c = d
  BY <1>8, <1>10, <1>11, SeqEqual
<1>13. Buffers'
  BY <1>3, <1>5, <1>8 DEF Buffers
<1> QED BY <1>5, <1>6, <1>12, <1>13 DEF u, d, x

(* Where the parser stands between two calls, while no read has ended inside a
   header: before a request line, of which a LF of the last request may still be
   in front; before one that was cut; before the headers of a request; behind
   the CR of its blank line; or before the body of a POST. *)
asked == sent[Len(answers) + 1]
later == after(sent, Len(answers) + 1)

Begun(l, rest) == \E o \in {0, 1} : o <= Len(l) /\ (o = 1 => l[1] = "LF") /\ substr(l, o) = rest

InRequest == Len(answers) + 1 \in 1 .. Len(sent) /\ method_ = asked.method /\ fileName_ = asked.target

BeforeLine == state_ = "PARSE_URI" /\ Ready /\ Begun(left, after(sent, Len(answers)))
BeforeNothing == state_ = "PARSE_URI" /\ Beheaded(left)
BeforeHeaders == state_ = "PARSE_HEADERS" /\ InRequest /\ Ready /\ Behind(left, asked, later)
BehindCR ==
  /\ state_ = "PARSE_HEADERS" /\ InRequest
  /\ hState_ = "END_CR" /\ headers_ = kept(asked.headers, Len(asked.headers))
  /\ Len(inBuffer_) >= 2 /\ Len(left) >= 3 /\ left[1] = "LF" /\ left[3] = "LF"
  /\ method_ # "POST" => substr(left, 3) = later

Standing == BeforeLine \/ BeforeNothing \/ BeforeHeaders \/ BehindCR \/ BodyWanted(state_, method_)

PieceInv ==
  /\ Answered /\ {error_, terminated} \subseteq BOOLEAN
  /\ ~Closed => Buffers /\ Standing

(* A call in which readn finds n characters. *)
PieceCall(n) ==
  Answered /\ Buffers /\ {error_, terminated} \subseteq BOOLEAN /\ n \in 0 .. Len(incoming) /\ Called(n)

(* An answer that is meant for the request it answers. *)
LEMMA AnswerAdded ==
  ASSUME Answered, sent' = sent, Len(answers) + 1 \in 1 .. Len(sent), answers' = Append(answers, meaning(asked))
  PROVE  Answered' /\ Len(answers') = Len(answers) + 1
<1> DEFINE j == Len(answers)
           M == {meaning(q) : q \in Requests}
           m == meaning(asked)
<1>1. j \in Nat /\ sent \in Seq(Requests) /\ asked \in Requests
  BY DEF Answered, asked
<1>2. answers \in Seq(M) /\ m \in M /\ \A k \in 1 .. j : answers[k] = meaning(sent[k])
  BY <1>1 DEF Answered
<1>3. M' = M
  <2>1. \A q : meaning(q)' = meaning(q)
    BY DEF meaning
  <2> QED OBVIOUS
<1>3a. m = meaning(sent[j + 1])
  BY DEF asked
<1> HIDE DEF M, m
<1>4. answers' \in Seq(M) /\ Len(answers') = j + 1 /\ (\A k \in 1 .. j : answers'[k] = answers[k]) /\ answers'[j + 1] = m
  <2>1. answers' = Append(answers, m)
    BY DEF m
  <2> QED BY <1>1, <1>2, <2>1
<1>5. \A k \in 1 .. j + 1 : answers'[k] = meaning(sent[k])
  <2> SUFFICES ASSUME NEW k \in 1 .. j + 1 PROVE answers'[k] = meaning(sent[k])
    OBVIOUS
  <2>1. k \in 1 .. j \/ k = j + 1
    BY <1>1
  <2> HIDE DEF j
  <2> QED BY <1>2, <1>3a, <1>4, <2>1
<1>6. Len(answers') <= Len(sent')
  BY <1>1, <1>4
<1>7. \A k \in 1 .. Len(answers') : answers'[k] = meaning(sent'[k])
  BY <1>1, <1>4, <1>5
<1> QED BY <1>1, <1>3, <1>4, <1>6, <1>7 DEF Answered, M

(* The members after a call, as the last stage left them. *)
LEMMA CallLeaves ==
  ASSUME NEW n, PieceCall(n), NEW b, NEW st, NEW h, NEW m, NEW f, NEW hd, NEW as, Is(last(n), b, st, h, m, f, hd, FALSE, as)
  PROVE  /\ last(n).inBuffer_ = b /\ state_' = st /\ hState_' = h /\ method_' = m /\ fileName_' = f /\ headers_' = hd
         /\ error_' = FALSE /\ terminated' = FALSE /\ answers' = as /\ sent' = sent /\ reads' = reads
BY DEF PieceCall, Called, Is

(* What a call that takes q characters leaves of the text. *)
LEMMA CallTakes ==
  ASSUME NEW n, PieceCall(n), NEW q \in 0 .. Len(text(n)), last(n).inBuffer_ = substr(text(n), q)
  PROVE  Buffers' /\ left' = substr(left, q) /\ inBuffer_' = substr(text(n), q)
BY LeftAfter DEF PieceCall

(* Nothing is answered, and there is no further call. *)
LEMMA PieceRefused ==
  ASSUME NEW n, PieceCall(n), Refused(n)
  PROVE  PieceInv'
<1>1. answers' = answers /\ Closed' /\ {error_, terminated}' \subseteq BOOLEAN
  BY ClosedState DEF PieceCall
<1>2. Answered'
  BY <1>1, StillUnserved DEF PieceCall, Called
<1> QED BY <1>1, <1>2 DEF PieceInv

(* Nothing is answered, and there is a further call. *)
LEMMA PieceKept ==
  ASSUME NEW n, PieceCall(n), NEW b, NEW st, NEW h, NEW m, NEW f, NEW hd, Is(last(n), b, st, h, m, f, hd, FALSE, answers),
         Buffers', Standing'
  PROVE  PieceInv'
<1>1. answers' = answers /\ sent' = sent /\ error_' = FALSE /\ terminated' = FALSE
  BY CallLeaves
<1>2. Answered'
  BY <1>1, StillUnserved DEF PieceCall
<1> QED BY <1>1, <1>2 DEF PieceInv

(* A read that ends inside a header is marked. *)
LEMMA CutMarked ==
  ASSUME NEW n, PieceCall(n), NEW c, parsed(n) = header_stage(c), NEW b, NEW h, NEW m, NEW f, NEW hd,
         Is(c, b, "PARSE_HEADERS", h, m, f, hd, FALSE, answers), AsksInHeader(b)
  PROVE  header_cut'
<1>1. PICK h2 \in HeaderStates : \E found, rest : Asks(b, h2, found, rest)
  BY DEF AsksInHeader
<1>2. PICK found, rest : Asks(b, h2, found, rest)
  BY <1>1
<1>3. Is(last(n), rest, "PARSE_HEADERS", h2, m, f, found, FALSE, answers)
  <2> HIDE DEF parse_headers
  <2> QED BY <1>2, HeadersWait DEF Asks
<1>4. InHeader(last(n))
  BY <1>3 DEF Is, InHeader, HeaderStates
<1> QED BY <1>4 DEF PieceCall, Called

(* A POST, its headers read. *)
LEMMA BodyLater ==
  ASSUME NEW n, PieceCall(n), NEW q \in 0 .. Len(text(n)), NEW h, NEW f, NEW hd,
         Is(parsed(n), substr(text(n), q), "RECV_BODY", h, "POST", f, hd, FALSE, answers)
  PROVE  PieceInv'
<1> DEFINE b == substr(text(n), q)
<1>1. Is(parsed(n), b, "RECV_BODY", h, "POST", f, hd, FALSE, answers)
  OBVIOUS
<1>2. Refused(n) \/ Is(last(n), b, "RECV_BODY", h, "POST", f, hd, FALSE, answers)
  <2> HIDE DEF b
  <2> QED BY <1>1, Posted
<1>3. CASE Refused(n)
  BY <1>3, PieceRefused
<1>4. CASE Is(last(n), b, "RECV_BODY", h, "POST", f, hd, FALSE, answers)
  <2>1. last(n).inBuffer_ = b /\ state_' = "RECV_BODY" /\ method_' = "POST"
    <3> HIDE DEF b
    <3> QED BY <1>4, CallLeaves
  <2>2. Buffers'
    BY <2>1, CallTakes
  <2>3. Standing'
    BY <2>1 DEF Standing, BodyWanted
  <2> HIDE DEF b
  <2> QED BY <1>4, <2>2, <2>3, PieceKept
<1> QED BY <1>2, <1>3, <1>4

(* A call that finds the end of the headers answers the request, or refuses it. *)
LEMMA PieceAnswered ==
  ASSUME NEW n, PieceCall(n), Len(answers) + 1 \in 1 .. Len(sent), IsRequest(asked), asked.method # "POST",
         NEW q \in 0 .. Len(text(n)), NEW h,
         Is(parsed(n), substr(text(n), q), "ANALYSIS", h, asked.method, asked.target,
            kept(asked.headers, Len(asked.headers)), FALSE, answers),
         Begun(substr(left, q), later) \/ Beheaded(substr(left, q))
  PROVE  PieceInv'
<1> DEFINE b == substr(text(n), q)
           k == kept(asked.headers, Len(asked.headers))
           d == substr(left, q)
           m == asked.method
           f == asked.target
           none == ""
           as == Append(answers, meaning(asked))
<1>1. IF f = "/missing" THEN Refused(n)
      ELSE Is(last(n), b, "PARSE_URI", "START", m, none, {}, FALSE, Append(answers, Answer(m, f, k)))
  <2>1. m # "POST" /\ Is(parsed(n), b, "ANALYSIS", h, m, f, k, FALSE, answers)
    OBVIOUS
  <2> HIDE DEF b, k, m, f
  <2>2. IF f = "/missing" THEN Refused(n)
        ELSE Is(last(n), b, "PARSE_URI", "START", m, "", {}, FALSE, Append(answers, Answer(m, f, k)))
    BY <2>1, Analysed, Zenon
  <2> HIDE DEF none
  <2>3. "" = none
    BY DEF none
  <2> QED BY <2>2, <2>3, Zenon
<1>2. Answer(m, f, k) = meaning(asked)
  BY KeptMeaning
<1>3. Begun(d, later) \/ Beheaded(d)
  OBVIOUS
<1>4. CASE f = "/missing"
  BY <1>1, <1>4, PieceRefused
<1>5. CASE f # "/missing"
  <2>0. as = Append(answers, Answer(m, f, k))
    BY <1>2
  <2> HIDE DEF none
  <2>1. Is(last(n), b, "PARSE_URI", "START", m, none, {}, FALSE, as)
    BY <1>1, <1>5, <2>0
  <2>2. /\ last(n).inBuffer_ = b /\ state_' = "PARSE_URI" /\ hState_' = "START" /\ headers_' = {}
        /\ error_' = FALSE /\ terminated' = FALSE /\ answers' = as /\ sent' = sent
    <3> HIDE DEF b, m, as
    <3> QED BY <2>1, CallLeaves
  <2>3. Buffers' /\ left' = d
    BY <2>2, CallTakes
  <2>4. Answered' /\ Len(answers') = Len(answers) + 1
    BY <2>2, AnswerAdded DEF PieceCall
  <2> HIDE DEF d
  <2>5. Beheaded(d) => BeforeNothing'
    BY <2>2, <2>3 DEF BeforeNothing
  <2>6. Begun(d, later) => BeforeLine'
    <3>1. after(sent', Len(answers')) = later
      BY <2>2, <2>4 DEF later
    <3>2. Ready'
      BY <2>2 DEF Ready
    <3> QED BY <2>2, <2>3, <3>1, <3>2 DEF BeforeLine
  <2>7. Standing'
    BY <1>3, <2>5, <2>6 DEF Standing
  <2> QED BY <2>2, <2>3, <2>4, <2>7 DEF PieceInv
<1> QED BY <1>4, <1>5

(* A call that reads on from the request line, or from where the headers begin;
   it takes a characters before them. *)
Headed(n, c, a) ==
  /\ a \in 0 .. Len(text(n)) /\ Len(answers) + 1 \in 1 .. Len(sent) /\ IsRequest(asked) /\ Ready
  /\ parsed(n) = header_stage(c)
  /\ Is(c, substr(text(n), a), "PARSE_HEADERS", hState_, asked.method, asked.target, headers_, FALSE, answers)
  /\ Behind(substr(left, a), asked, later)

(* None of the headers is there. *)
LEMMA StartKept ==
  ASSUME NEW n, PieceCall(n), NEW c, NEW a, Headed(n, c, a),
         Asks(substr(text(n), a), "START", {}, substr(text(n), a))
  PROVE  PieceInv'
<1> DEFINE y == substr(text(n), a)
           m == asked.method
           f == asked.target
<1>1. parsed(n) = header_stage(c) /\ Is(c, y, "PARSE_HEADERS", hState_, m, f, headers_, FALSE, answers)
      /\ a \in 0 .. Len(text(n)) /\ Len(answers) + 1 \in 1 .. Len(sent)
  BY DEF Headed
<1>2. Is(last(n), y, "PARSE_HEADERS", "START", m, f, {}, FALSE, answers)
  <2>1. Asks(y, "START", {}, y)
    OBVIOUS
  <2> HIDE DEF y, m, f, parse_headers
  <2> QED BY <1>1, <2>1, HeadersWait DEF Asks
<1>3. /\ last(n).inBuffer_ = y /\ state_' = "PARSE_HEADERS" /\ hState_' = "START" /\ method_' = m /\ fileName_' = f
      /\ headers_' = {} /\ answers' = answers /\ sent' = sent
  <2> HIDE DEF y, m, f
  <2> QED BY <1>2, CallLeaves
<1>4. Buffers' /\ left' = substr(left, a)
  BY <1>1, <1>3, CallTakes
<1>5. asked' = asked /\ later' = later
  BY <1>3 DEF asked, later
<1>6. InRequest' /\ Ready'
  BY <1>1, <1>3, <1>5 DEF InRequest, Ready
<1>7. Behind(left', asked, later)
  BY <1>4 DEF Headed
<1>8. Standing'
  BY <1>3, <1>5, <1>6, <1>7 DEF Standing, BeforeHeaders
<1> HIDE DEF y, m, f
<1> QED BY <1>2, <1>4, <1>8, PieceKept

(* The headers of a request take as many characters as this. *)
span(r) == 6 * Len(r.headers) + 3

(* What follows them, if there is no body. *)
LEMMA BehindHeaders ==
  ASSUME NEW y, NEW r, NEW w, Behind(y, r, w), IsRequest(r), r.body = 0
  PROVE  substr(y, span(r)) = w
<1> DEFINE s == span(r)
           t == substr(y, s)
<1>1. s \in Nat /\ y \in Seq(Alphabet) /\ Len(y) \in Nat /\ w \in Seq(Alphabet) /\ Len(w) \in Nat /\ r.body \in Nat
  BY DEF IsRequest, Behind, HeaderText, span
<1>2. Len(y) = s + r.body + Len(w) /\ \A i \in 1 .. Len(w) : y[s + r.body + i] = w[i]
  BY DEF Behind, span
<1> HIDE DEF s
<1>3. s + r.body = s
  BY <1>1
<1>4. s \in 0 .. Len(y) /\ Len(y) - s = Len(w)
  BY <1>1, <1>2, <1>3
<1>5. t \in Seq(Alphabet) /\ Len(t) = Len(y) - s /\ \A i \in 1 .. Len(y) - s : t[i] = y[s + i]
  BY <1>1, <1>4, Rest
<1> HIDE DEF t
<1>6. \A i \in 1 .. Len(t) : t[i] = w[i]
  BY <1>2, <1>3, <1>4, <1>5
<1>7. t = w
  BY <1>1, <1>4, <1>5, <1>6, SeqEqual
<1> QED BY <1>7 DEF t, s

(* The character after the headers, if there is any, is passed over. *)
taken_after(y, r) == IF Len(y) = span(r) THEN span(r) ELSE span(r) + 1

(* Where the text and the buffer stand behind a taken: the text is a part of what
   the client sent, whose headers end at most at the end of it. *)
LEMMA HeadedText ==
  ASSUME NEW n, PieceCall(n), NEW c, NEW a, Headed(n, c, a)
  PROVE  /\ Part(substr(text(n), a), substr(left, a)) /\ HeaderText(substr(left, a), asked.headers)
         /\ Len(substr(text(n), a)) = Len(text(n)) - a /\ text(n) \in Seq(Alphabet) /\ left \in Seq(Alphabet)
         /\ Len(text(n)) \in Nat /\ Len(left) \in Nat /\ Len(text(n)) <= Len(left) /\ a \in 0 .. Len(text(n))
<1>1. Part(text(n), left)
  BY PieceText DEF PieceCall
<1>2. a \in 0 .. Len(text(n)) /\ text(n) \in Seq(Alphabet)
  BY <1>1 DEF Headed, Part
<1>3. Part(substr(text(n), a), substr(left, a))
  BY <1>1, <1>2, PartRest
<1>4. Len(substr(text(n), a)) = Len(text(n)) - a
  BY <1>2, Rest
<1>5. HeaderText(substr(left, a), asked.headers)
  BY DEF Headed, Behind
<1> QED BY <1>1, <1>2, <1>3, <1>4, <1>5 DEF Part

(* All of the headers is there, but for the last LF. *)
LEMMA CRKept ==
  ASSUME NEW n, PieceCall(n), NEW c, NEW a, Headed(n, c, a),
         Len(substr(text(n), a)) = 6 * Len(asked.headers) + 2,
         Asks(substr(text(n), a), "END_CR", kept(asked.headers, Len(asked.headers)),
              substr(substr(text(n), a), 6 * Len(asked.headers)))
  PROVE  PieceInv'
<1> DEFINE x == text(n)
           y == substr(x, a)
           d == substr(left, a)
           m == Len(asked.headers)
           k == kept(asked.headers, m)
           q == 6 * m
           b == substr(y, q)
           mt == asked.method
           f == asked.target
<1>1. parsed(n) = header_stage(c) /\ Is(c, y, "PARSE_HEADERS", hState_, mt, f, headers_, FALSE, answers)
      /\ Len(answers) + 1 \in 1 .. Len(sent) /\ IsRequest(asked) /\ Behind(d, asked, later)
  BY DEF Headed
<1>2. /\ Part(y, d) /\ HeaderText(d, asked.headers) /\ Len(y) = Len(x) - a
      /\ x \in Seq(Alphabet) /\ left \in Seq(Alphabet) /\ Len(x) \in Nat /\ Len(left) \in Nat /\ Len(x) <= Len(left)
      /\ a \in 0 .. Len(x)
  BY HeadedText
<1>3. m \in Nat /\ Len(y) = 6 * m + 2 /\ Asks(y, "END_CR", k, b)
  BY <1>1 DEF IsRequest
<1>4. Is(last(n), b, "PARSE_HEADERS", "END_CR", mt, f, k, FALSE, answers)
  <2> HIDE DEF b, y, mt, f, k, parse_headers
  <2> QED BY <1>1, <1>3, HeadersWait DEF Asks
<1>5. /\ last(n).inBuffer_ = b /\ state_' = "PARSE_HEADERS" /\ hState_' = "END_CR" /\ method_' = mt /\ fileName_' = f
      /\ headers_' = k /\ answers' = answers /\ sent' = sent
  <2> HIDE DEF b, mt, f, k
  <2> QED BY <1>4, CallLeaves
<1> HIDE DEF m
<1>6. a \in Nat /\ q \in Nat /\ a + q <= Len(x) /\ a + q <= Len(left) /\ a + q \in 0 .. Len(x)
  BY <1>2, <1>3
<1>7. b = substr(x, a + q) /\ substr(d, q) = substr(left, a + q)
  <2> HIDE DEF x, q
  <2> QED BY <1>2, <1>6, RestRest
<1>8. Buffers' /\ left' = substr(d, q) /\ inBuffer_' = b
  <2>1. last(n).inBuffer_ = substr(text(n), a + q) /\ a + q \in 0 .. Len(text(n))
    BY <1>5, <1>6, <1>7
  <2> HIDE DEF q
  <2>2. Buffers' /\ left' = substr(left, a + q) /\ inBuffer_' = substr(text(n), a + q)
    BY <2>1, CallTakes
  <2> QED BY <1>7, <2>2
<1>9. /\ y \in Seq(Alphabet) /\ d \in Seq(Alphabet) /\ Len(d) \in Nat /\ 6 * m + 3 <= Len(d)
      /\ q \in 0 .. Len(y) /\ q \in 0 .. Len(d)
  <2>1. y \in Seq(Alphabet) /\ d \in Seq(Alphabet) /\ Len(d) \in Nat /\ 6 * m + 3 <= Len(d)
    BY <1>2 DEF Part, HeaderText, m
  <2> HIDE DEF y, d
  <2> QED BY <1>3, <2>1
<1>10. Len(b) = 2 /\ Len(substr(d, q)) = Len(d) - q /\ \A i \in 1 .. Len(d) - q : substr(d, q)[i] = d[q + i]
  <2>1. Len(b) = Len(y) - q
    <3> HIDE DEF y, q
    <3> QED BY <1>9, Rest
  <2>2. Len(y) - q = 2
    BY <1>3
  <2>3. Len(substr(d, q)) = Len(d) - q /\ \A i \in 1 .. Len(d) - q : substr(d, q)[i] = d[q + i]
    <3> HIDE DEF d, q
    <3> QED BY <1>9, Rest
  <2> QED BY <2>1, <2>2, <2>3
<1>11. d[q + 1] = "LF" /\ d[q + 3] = "LF"
  <2>1. CASE m = 0
    <3>1. q + 1 = 1 /\ q + 3 = 3 /\ 6 * m + 3 = 3
      BY <2>1
    <3> QED BY <1>2, <3>1 DEF HeaderText, m
  <2>2. CASE m # 0
    <3>1. m - 1 \in 0 .. m - 1 /\ 6 * (m - 1) + 1 + 6 = q + 1 /\ 6 * m + 3 = q + 3 /\ m - 1 + 1 = m
      BY <1>3, <2>2
    <3>2. HeaderAt(d, 6 * (m - 1) + 1, asked.headers[m - 1 + 1])
      BY <1>2, <3>1 DEF HeaderText, m
    <3> QED BY <1>2, <3>1, <3>2 DEF HeaderText, HeaderAt, m
  <2> QED BY <2>1, <2>2
<1>12. Len(left') >= 3 /\ left'[1] = "LF" /\ left'[3] = "LF" /\ Len(inBuffer_') >= 2
  <2>1. Len(d) - q >= 3 /\ 1 \in 1 .. Len(d) - q /\ 3 \in 1 .. Len(d) - q
    <3> HIDE DEF d
    <3> QED BY <1>3, <1>9
  <2> HIDE DEF b, d, q
  <2> QED BY <1>8, <1>10, <1>11, <2>1
<1>13. mt # "POST" => substr(left', 3) = later
  <2> SUFFICES ASSUME mt # "POST" PROVE substr(substr(d, q), 3) = later
    BY <1>8
  <2>1. asked.body = 0
    BY <1>1 DEF IsRequest
  <2>2. substr(d, q + 3) = later
    <3>1. substr(d, span(asked)) = later
      <4> HIDE DEF d
      <4> QED BY <1>1, <2>1, BehindHeaders
    <3> QED BY <3>1 DEF span, m
  <2>3. q + 3 <= Len(d) /\ 3 \in Nat
    BY <1>9
  <2> HIDE DEF d, q
  <2> QED BY <1>6, <1>9, <2>2, <2>3, RestRest
<1>14. asked' = asked /\ later' = later
  BY <1>5 DEF asked, later
<1>15. BehindCR'
  BY <1>1, <1>5, <1>12, <1>13, <1>14 DEF BehindCR, InRequest, m
<1>16. Standing'
  BY <1>15 DEF Standing
<1> HIDE DEF b, y, mt, f, k
<1> QED BY <1>4, <1>8, <1>16, PieceKept

(* What a client has still to send is nothing, or begins with a request. *)
LEMMA AfterBegins ==
  ASSUME NEW rs \in Seq(Requests), NEW j \in 0 .. Len(rs)
  PROVE  after(rs, j) = <<>> \/ Begins(after(rs, j))
<1>1. CASE j = Len(rs)
  BY <1>1, AfterLast
<1>2. CASE j # Len(rs)
  <2> DEFINE r == rs[j + 1]
             w == after(rs, j + 1)
  <2>1. j \in 0 .. Len(rs) - 1
    BY <1>2
  <2>2. after(rs, j) = joined(written(r), w) /\ w \in Seq(Alphabet) /\ IsRequest(r)
    BY <2>1, AfterNext
  <2> HIDE DEF r, w
  <2>3. Text(written(r), r)
    BY <2>2, WrittenText
  <2>4. Text(joined(written(r), w), r)
    BY <2>2, <2>3, TextGoesOn
  <2> QED BY <2>2, <2>4 DEF Begins
<1> QED BY <1>1, <1>2

(* A body, or the next request line, is the name of a header to parse_headers. *)
LEMMA NamelessBehind ==
  ASSUME NEW d, NEW r, NEW w, Behind(d, r, w), IsRequest(r), r.headers = <<>>, w = <<>> \/ Begins(w)
  PROVE  Nameless(d, r.body + 8)
<1> DEFINE b == r.body
<1>1. b \in Nat /\ w \in Seq(Alphabet) /\ Len(w) \in Nat /\ Len(d) = 3 + b + Len(w)
      /\ (\A i \in 1 .. b : d[3 + i] = "BODY") /\ \A i \in 1 .. Len(w) : d[3 + b + i] = w[i]
  <2>1. Len(r.headers) = 0 /\ 6 * 0 + 3 = 3
    OBVIOUS
  <2> QED BY <2>1 DEF Behind, IsRequest
<1>2. w = <<>> => Len(w) = 0
  OBVIOUS
<1> HIDE DEF b
<1>3. ASSUME NEW k \in 3 .. b + 7, k < Len(d) PROVE d[k + 1] \notin {"COLON", "LF", "CR"}
  <2>1. CASE k < 3 + b
    <3> DEFINE i == k - 2
    <3>1. i \in 1 .. b /\ 3 + i = k + 1
      BY <1>1, <2>1
    <3> HIDE DEF i
    <3> QED BY <1>1, <3>1
  <2>2. CASE k >= 3 + b
    <3> DEFINE i == k - 2 - b
    <3>1. i \in 1 .. 5 /\ i \in 1 .. Len(w) /\ 3 + b + i = k + 1 /\ Len(w) # 0
      BY <1>1, <1>3, <2>2
    <3> HIDE DEF i
    <3>2. w[i] \notin {"COLON", "LF", "CR"}
      BY <1>2, <3>1, FirstWords
    <3> QED BY <1>1, <3>1, <3>2
  <2>3. k < 3 + b \/ k >= 3 + b
    BY <1>1
  <2> QED BY <2>1, <2>2, <2>3
<1>4. ASSUME b + 8 < Len(d) PROVE d[b + 8 + 1] = "CR"
  <2>1. 6 \in 1 .. Len(w) /\ 3 + b + 6 = b + 8 + 1 /\ Len(w) # 0
    BY <1>1, <1>4
  <2>2. w[6] = "CR"
    BY <1>2, <2>1, FirstWords
  <2> QED BY <1>1, <2>1, <2>2
<1>5. b + 8 \in Nat /\ b + 8 >= 4
  BY <1>1
<1> DEFINE e == b + 8
<1>6. \A k \in 3 .. e - 1 : k < Len(d) => d[k + 1] \notin {"COLON", "LF", "CR"}
  <2>1. e - 1 = b + 7
    BY <1>1
  <2> HIDE DEF e
  <2> QED BY <1>3, <2>1
<1>7. e \in Nat /\ e >= 4 /\ (e < Len(d) => d[e + 1] = "CR")
  BY <1>4, <1>5
<1> HIDE DEF e
<1>8. Nameless(d, e)
  BY <1>6, <1>7 DEF Nameless
<1> QED BY <1>8 DEF b, e

(* A call that finds the headers whole takes them. *)
LEMMA HeadersThere ==
  ASSUME NEW n, PieceCall(n), NEW c, NEW a, Headed(n, c, a), asked.headers # <<>>, span(asked) <= Len(substr(text(n), a))
  PROVE  PieceInv'
<1> DEFINE x == text(n)
           y == substr(x, a)
           d == substr(left, a)
           hs == asked.headers
           k == kept(hs, Len(hs))
           s == span(asked)
           q == taken_after(y, asked)
           b == substr(y, q)
           mt == asked.method
           f == asked.target
<1>1. parsed(n) = header_stage(c) /\ Is(c, y, "PARSE_HEADERS", hState_, mt, f, headers_, FALSE, answers)
      /\ Len(answers) + 1 \in 1 .. Len(sent) /\ IsRequest(asked) /\ Behind(d, asked, later) /\ Ready
  BY DEF Headed
<1>2. /\ Part(y, d) /\ HeaderText(d, hs) /\ Len(y) = Len(x) - a
      /\ x \in Seq(Alphabet) /\ left \in Seq(Alphabet) /\ Len(x) \in Nat /\ Len(left) \in Nat /\ Len(x) <= Len(left)
      /\ a \in 0 .. Len(x)
  BY HeadedText
<1>3. s \in Nat /\ s <= Len(y) /\ s = 6 * Len(hs) + 3 /\ s + 1 = 6 * Len(hs) + 4 /\ hs # <<>>
  BY <1>1 DEF IsRequest, span
<1>4. HeaderText(y, hs)
  BY <1>2, <1>3, PartHeaders
<1>5. q = IF Len(y) = 6 * Len(hs) + 3 THEN 6 * Len(hs) + 3 ELSE 6 * Len(hs) + 4
  BY <1>3 DEF taken_after
<1>6. parse_headers(y) = [verdict |-> "SUCCESS", h |-> "END_LF", headers |-> k, rest |-> b]
  <2> HIDE DEF y, hs, q, parse_headers
  <2> QED BY <1>1, <1>3, <1>4, <1>5, HeadersParsed
<1>7. Is(parsed(n), b, IF mt = "POST" THEN "RECV_BODY" ELSE "ANALYSIS", "END_LF", mt, f, k, FALSE, answers)
  <2> HIDE DEF b, y, mt, f, k, parse_headers
  <2> QED BY <1>1, <1>6, HeadersTaken
<1>8. q \in Nat /\ q <= Len(y) /\ q = (IF Len(y) = s THEN s ELSE s + 1) /\ Len(y) \in Nat /\ Len(d) \in Nat /\ Len(y) <= Len(d)
  <2>1. q = (IF Len(y) = s THEN s ELSE s + 1)
    BY DEF taken_after
  <2>2. Len(y) \in Nat /\ Len(d) \in Nat /\ Len(y) <= Len(d)
    BY <1>2 DEF Part
  <2> HIDE DEF q, y, s, d
  <2> QED BY <1>3, <2>1, <2>2
<1> HIDE DEF q
<1>9. a \in Nat /\ a + q <= Len(x) /\ a + q <= Len(left) /\ a + q \in 0 .. Len(x)
  <2>1. Len(x) \in Nat /\ a \in 0 .. Len(x) /\ Len(x) <= Len(left) /\ Len(left) \in Nat
    BY <1>2
  <2>2. q \in 0 .. Len(x) - a
    <3>1. q \in 0 .. Len(y)
      <4> HIDE DEF y
      <4> QED BY <1>8
    <3> QED BY <1>2, <3>1
  <2> HIDE DEF x
  <2> QED BY <2>1, <2>2
<1>10. b = substr(x, a + q) /\ substr(d, q) = substr(left, a + q)
  <2> HIDE DEF x
  <2> QED BY <1>2, <1>8, <1>9, RestRest
<1>11. CASE mt = "POST"
  <2>1. Is(parsed(n), substr(text(n), a + q), "RECV_BODY", "END_LF", "POST", f, k, FALSE, answers)
    BY <1>7, <1>10, <1>11
  <2>2. a + q \in 0 .. Len(text(n))
    BY <1>9
  <2> HIDE DEF k, f
  <2> QED BY <2>1, <2>2, BodyLater
<1>12. CASE mt # "POST"
  <2>1. Is(parsed(n), substr(text(n), a + q), "ANALYSIS", "END_LF", asked.method, asked.target, kept(asked.headers, Len(asked.headers)), FALSE, answers)
    BY <1>7, <1>10, <1>12
  <2>2. a + q \in 0 .. Len(text(n))
    BY <1>9
  <2>3. asked.body = 0
    BY <1>1, <1>12 DEF IsRequest
  <2>4. Begun(substr(d, q), later) \/ Beheaded(substr(d, q))
    <3>1. CASE Len(y) = s
      <4>1. substr(d, q) = later
        <5> HIDE DEF d
        <5> QED BY <1>1, <1>8, <2>3, <3>1, BehindHeaders
      <4>2. later \in Seq(Alphabet) /\ Len(later) \in Nat
        BY <1>1 DEF Behind
      <4>3. substr(later, 0) = later
        BY <4>2, RestAll
      <4>4. 0 \in {0, 1} /\ 0 <= Len(later) /\ 0 # 1
        BY <4>2
      <4>5. Begun(later, later)
        BY <4>3, <4>4 DEF Begun
      <4> QED BY <4>1, <4>5
    <3>2. CASE Len(y) # s
      <4>1. later = <<>> \/ Begins(later)
        <5>1. sent \in Seq(Requests) /\ Len(answers) + 1 \in 0 .. Len(sent)
          BY <1>1 DEF PieceCall, Answered
        <5> QED BY <5>1, AfterBegins DEF later
      <4>2. Len(d) # s /\ q = s + 1
        <5> HIDE DEF y, d, s
        <5> QED BY <1>3, <1>8, <3>2
      <4>3. later # <<>>
        <5>1. Len(d) = s + asked.body + Len(later)
          BY <1>1 DEF Behind, span
        <5>2. s + 0 + 0 = s
          BY <1>3
        <5>3. later = <<>> => Len(later) = 0
          OBVIOUS
        <5> HIDE DEF d, s
        <5> QED BY <2>3, <4>2, <5>1, <5>2, <5>3
      <4> DEFINE p == IF Len(d) = 6 * Len(hs) + 3 THEN 6 * Len(hs) + 3 ELSE 6 * Len(hs) + 4
      <4>4. p = q
        <5> HIDE DEF d
        <5> QED BY <1>3, <4>2
      <4>5. IF later = <<>> THEN substr(d, p) = <<>> ELSE Beheaded(substr(d, p))
        <5> HIDE DEF d
        <5> QED BY <1>1, <2>3, <4>1, RestOfHeaders
      <4> HIDE DEF p
      <4> QED BY <4>3, <4>4, <4>5
    <3> QED BY <3>1, <3>2
  <2>5. Begun(substr(left, a + q), later) \/ Beheaded(substr(left, a + q))
    BY <1>10, <2>4
  <2> QED BY <1>1, <1>12, <2>1, <2>2, <2>5, PieceAnswered
<1> QED BY <1>11, <1>12

(* The headers are waited for, cut, refused or taken. *)
LEMMA HeadersOutcome ==
  ASSUME NEW n, PieceCall(n), NEW c, NEW a, Headed(n, c, a)
  PROVE  header_cut' \/ PieceInv'
<1> DEFINE y == substr(text(n), a)
           d == substr(left, a)
           hs == asked.headers
           mt == asked.method
           f == asked.target
<1>1. parsed(n) = header_stage(c) /\ Is(c, y, "PARSE_HEADERS", hState_, mt, f, headers_, FALSE, answers)
      /\ IsRequest(asked) /\ Behind(d, asked, later) /\ Ready /\ Len(answers) + 1 \in 1 .. Len(sent)
  BY DEF Headed
<1>2. Part(y, d) /\ HeaderText(d, hs)
  BY HeadedText
<1>3. ASSUME Asks(y, "START", {}, y) PROVE PieceInv'
  BY <1>3, StartKept
<1>4. ASSUME AsksInHeader(y) PROVE header_cut'
  <2> HIDE DEF y, mt, f
  <2> QED BY <1>1, <1>4, CutMarked
<1>5. CASE hs = <<>>
  <2>1. later = <<>> \/ Begins(later)
    <3>1. sent \in Seq(Requests) /\ Len(answers) + 1 \in 0 .. Len(sent)
      BY <1>1 DEF PieceCall, Answered
    <3> QED BY <3>1, AfterBegins DEF later
  <2>2. Nameless(d, asked.body + 8)
    <3> HIDE DEF d
    <3> QED BY <1>1, <1>5, <2>1, NamelessBehind
  <2>3. Asks(y, "START", {}, y) \/ AsksInHeader(y) \/ parse_headers(y).verdict = "ERROR"
    <3> HIDE DEF y, d, parse_headers
    <3>1. HeaderText(d, <<>>)
      BY <1>2, <1>5
    <3> QED BY <1>1, <1>2, <2>2, <3>1, BlankCut
  <2>4. ASSUME parse_headers(y).verdict = "ERROR" PROVE PieceInv'
    <3>1. Refused(n)
      <4> HIDE DEF y, mt, f, parse_headers
      <4> QED BY <1>1, <2>4, HeadersReject
    <3> QED BY <3>1, PieceRefused
  <2> HIDE DEF parse_headers, y
  <2> QED BY <1>3, <1>4, <2>3, <2>4
<1>6. CASE hs # <<>>
  <2>1. Len(y) \in Nat /\ span(asked) = 6 * Len(hs) + 3 /\ Len(hs) \in Nat
    BY <1>1, <1>2 DEF Part, span, IsRequest
  <2>2. CASE span(asked) <= Len(y)
    BY <1>6, <2>2, HeadersThere
  <2>3. CASE Len(y) <= 6 * Len(hs) + 2
    <3>1. \/ Asks(y, "START", {}, y)
          \/ AsksInHeader(y)
          \/ Len(y) = 6 * Len(hs) + 2 /\ Asks(y, "END_CR", kept(hs, Len(hs)), substr(y, 6 * Len(hs)))
      <4> HIDE DEF y, d, hs
      <4> QED BY <1>1, <1>2, <1>6, <2>3, HeadersCut
    <3>2. ASSUME Len(y) = 6 * Len(hs) + 2, Asks(y, "END_CR", kept(hs, Len(hs)), substr(y, 6 * Len(hs))) PROVE PieceInv'
      BY <3>2, CRKept
    <3> HIDE DEF y, hs
    <3> QED BY <1>3, <1>4, <3>1, <3>2
  <2>4. span(asked) <= Len(y) \/ Len(y) <= 6 * Len(hs) + 2
    <3> HIDE DEF y
    <3> QED BY <2>1
  <2> QED BY <2>2, <2>3, <2>4
<1> QED BY <1>5, <1>6

(* The request that is asked for is one that a client writes, and what there is
   to send is its text and the text that follows. *)
LEMMA AskedText ==
  ASSUME Answered, Len(answers) + 1 \in 1 .. Len(sent)
  PROVE  /\ IsRequest(asked) /\ Received(after(sent, Len(answers)), asked, later)
         /\ Begins(after(sent, Len(answers)))
<1> DEFINE j == Len(answers)
<1>1. sent \in Seq(Requests) /\ j \in 0 .. Len(sent) - 1 /\ j + 1 \in 0 .. Len(sent)
  BY DEF Answered
<1>2. after(sent, j) = joined(written(asked), later) /\ later \in Seq(Alphabet) /\ IsRequest(asked)
  BY <1>1, AfterNext DEF asked, later
<1>3. later = <<>> \/ Begins(later)
  BY <1>1, AfterBegins DEF later
<1>4. Received(after(sent, j), asked, later)
  BY <1>2, <1>3, ReceivedText
<1>5. Begins(after(sent, j))
  BY <1>4 DEF Received, Begins
<1> QED BY <1>2, <1>4, <1>5

(* A call before the headers reads on there. *)
LEMMA FromHeaders ==
  ASSUME NEW n, PieceCall(n), BeforeHeaders
  PROVE  header_cut' \/ PieceInv'
<1>1. state_ = "PARSE_HEADERS" /\ InRequest /\ Ready /\ Behind(left, asked, later) /\ state_ # "PARSE_URI"
  BY DEF BeforeHeaders
<1>2. error_ = FALSE
  BY DEF PieceCall, Called
<1>2a. terminated = FALSE
  BY DEF PieceCall, Called
<1>3. parsed(n) = header_stage(fed(n)) /\ Is(fed(n), text(n), "PARSE_HEADERS", hState_, method_, fileName_, headers_, FALSE, answers)
  BY <1>1, <1>2, <1>2a, InTheMiddle
<1>4. Part(text(n), left)
  BY PieceText DEF PieceCall
<1>5. substr(text(n), 0) = text(n) /\ substr(left, 0) = left /\ 0 \in 0 .. Len(text(n))
  BY <1>4, RestAll DEF Part
<1>6. IsRequest(asked)
  BY <1>1, AskedText DEF PieceCall, InRequest
<1>7. Headed(n, fed(n), 0)
  BY <1>1, <1>3, <1>5, <1>6 DEF Headed, InRequest
<1> QED BY <1>7, HeadersOutcome

(* A call behind the CR of the blank line has read the headers. *)
LEMMA FromEnd ==
  ASSUME NEW n, PieceCall(n), BehindCR
  PROVE  PieceInv'
<1> DEFINE x == text(n)
           b == substr(x, 2)
           mt == asked.method
           f == asked.target
           k == kept(asked.headers, Len(asked.headers))
           d == substr(left, 2)
<1>1. /\ state_ = "PARSE_HEADERS" /\ InRequest /\ hState_ = "END_CR" /\ headers_ = k /\ state_ # "PARSE_URI"
      /\ Len(inBuffer_) >= 2 /\ Len(left) >= 3 /\ left[1] = "LF" /\ left[3] = "LF" /\ (mt # "POST" => substr(left, 3) = later)
  BY DEF BehindCR, InRequest
<1>2. error_ = FALSE
  BY DEF PieceCall, Called
<1>2a. terminated = FALSE
  BY DEF PieceCall, Called
<1>3. parsed(n) = header_stage(fed(n)) /\ Is(fed(n), x, "PARSE_HEADERS", hState_, mt, f, headers_, FALSE, answers)
  BY <1>1, <1>2, <1>2a, InTheMiddle DEF InRequest
<1>4. Part(x, left) /\ Len(x) = Len(inBuffer_) + n
  BY PieceText DEF PieceCall
<1>5. /\ x \in Seq(Alphabet) /\ left \in Seq(Alphabet) /\ Len(left) \in Nat /\ Len(x) >= 2 /\ 2 \in 0 .. Len(x) /\ 1 \in 1 .. Len(x)
      /\ 2 \in 0 .. Len(left)
  <2>1. Len(inBuffer_) \in Nat /\ n \in Nat
    BY DEF PieceCall, Buffers
  <2>2. x \in Seq(Alphabet) /\ left \in Seq(Alphabet) /\ Len(left) \in Nat /\ Len(x) \in Nat
    BY <1>4 DEF Part
  <2> HIDE DEF x
  <2> QED BY <1>1, <1>4, <2>1, <2>2
<1>6. x[1] = "LF"
  BY <1>1, <1>4, <1>5 DEF Part
<1>7. parse_headers(x) = [verdict |-> "SUCCESS", h |-> "END_LF", headers |-> headers_, rest |-> b]
  <2> HIDE DEF x, parse_headers
  <2> QED BY <1>1, <1>5, <1>6, EndResumed
<1>8. Is(parsed(n), b, IF mt = "POST" THEN "RECV_BODY" ELSE "ANALYSIS", "END_LF", mt, f, headers_, FALSE, answers)
  <2> HIDE DEF b, x, mt, f, parse_headers
  <2> QED BY <1>3, <1>7, HeadersTaken
<1>9. CASE mt = "POST"
  <2>1. Is(parsed(n), substr(text(n), 2), "RECV_BODY", "END_LF", "POST", f, headers_, FALSE, answers)
    BY <1>8, <1>9
  <2> HIDE DEF f
  <2> QED BY <1>5, <2>1, BodyLater
<1>10. CASE mt # "POST"
  <2>1. Is(parsed(n), substr(text(n), 2), "ANALYSIS", "END_LF", asked.method, asked.target, kept(asked.headers, Len(asked.headers)), FALSE, answers)
    BY <1>1, <1>8, <1>10
  <2>2. IsRequest(asked) /\ Len(answers) + 1 \in 1 .. Len(sent)
    BY <1>1, AskedText DEF PieceCall, InRequest
  <2>3. Len(d) = Len(left) - 2 /\ \A i \in 1 .. Len(left) - 2 : d[i] = left[2 + i]
    BY <1>5, Rest
  <2>4. 1 <= Len(d) /\ d[1] = "LF"
    <3>1. 1 \in 1 .. Len(left) - 2 /\ 2 + 1 = 3
      BY <1>1, <1>5
    <3> HIDE DEF d
    <3> QED BY <1>1, <1>5, <2>3, <3>1
  <2>5. substr(d, 1) = later
    <3>1. 2 + 1 <= Len(left) /\ 2 + 1 = 3
      BY <1>1
    <3>2. substr(d, 1) = substr(left, 2 + 1)
      BY <1>5, <3>1, RestRest
    <3> QED BY <1>1, <1>10, <3>1, <3>2
  <2>6. Begun(d, later)
    <3> HIDE DEF d
    <3> QED BY <2>4, <2>5 DEF Begun
  <2> QED BY <1>5, <1>10, <2>1, <2>2, <2>6, PieceAnswered
<1> QED BY <1>9, <1>10

(* A call before the body of a POST. *)
LEMMA FromBody ==
  ASSUME NEW n, PieceCall(n), BodyWanted(state_, method_)
  PROVE  PieceInv'
<1>1. state_ = "RECV_BODY" /\ method_ = "POST" /\ state_ # "PARSE_URI"
  BY DEF BodyWanted
<1>2. error_ = FALSE
  BY DEF PieceCall, Called
<1>2a. terminated = FALSE
  BY DEF PieceCall, Called
<1>3. parsed(n) = header_stage(fed(n)) /\ Is(fed(n), text(n), "RECV_BODY", hState_, "POST", fileName_, headers_, FALSE, answers)
  BY <1>1, <1>2, <1>2a, InTheMiddle
<1>4. header_stage(fed(n)) = fed(n)
  BY <1>3 DEF header_stage, Is
<1>5. Part(text(n), left)
  BY PieceText DEF PieceCall
<1>6. substr(text(n), 0) = text(n) /\ 0 \in 0 .. Len(text(n))
  BY <1>5, RestAll DEF Part
<1>7. Is(parsed(n), substr(text(n), 0), "RECV_BODY", hState_, "POST", fileName_, headers_, FALSE, answers)
  BY <1>3, <1>4, <1>6
<1> QED BY <1>6, <1>7, BodyLater

(* What is no request line is refused, however little of it is there. *)
LEMMA NoLine ==
  ASSUME NEW n, PieceCall(n), state_ = "PARSE_URI", NEW c, LineOf(text(n), c), c > 0 \/ text(n) = <<>>,
         \A i \in 1 .. c : text(n)[i] \notin Methods
  PROVE  PieceInv'
<1>1. parseURI(text(n)).verdict = "ERROR"
  <2> DEFINE s == text(n)
  <2>1. LineOf(s, c) /\ (c > 0 \/ s = <<>>) /\ \A i \in 1 .. c : s[i] \notin Methods
    OBVIOUS
  <2> HIDE DEF s, parseURI
  <2>2. parseURI(s).verdict = "ERROR"
    BY <2>1, NoMethod
  <2> QED BY <2>2 DEF s
<1>2. terminated = FALSE
  BY DEF PieceCall, Called
<1>3. Refused(n)
  <2> HIDE DEF parseURI
  <2> QED BY <1>1, <1>2, UriRejects
<1> QED BY <1>3, PieceRefused

(* A request line that lost its method. *)
LEMMA FromNothing ==
  ASSUME NEW n, PieceCall(n), BeforeNothing
  PROVE  PieceInv'
<1> DEFINE x == text(n)
           c == IF Len(x) <= 4 THEN Len(x) ELSE 4
<1>1. Part(x, left)
  BY PieceText DEF PieceCall
<1>2. state_ = "PARSE_URI" /\ Len(left) >= 5
      /\ left[1] = "SP" /\ left[2] \in Targets /\ left[3] = "SP" /\ left[4] \in Versions /\ left[5] = "CR"
  BY DEF BeforeNothing, Beheaded
<1>3. x \in Seq(Alphabet) /\ Len(x) \in Nat /\ \A i \in 1 .. Len(x) : x[i] = left[i]
  BY <1>1 DEF Part
<1> HIDE DEF x
<1>4. c \in 0 .. Len(x) /\ c <= 4 /\ (c = Len(x) \/ (5 \in 1 .. Len(x) /\ c = 4)) /\ (c > 0 \/ Len(x) = 0)
  <2>1. Len(x) \in Nat
    BY <1>3
  <2> QED BY <2>1
<1>5. \A i \in 1 .. c : i \in 1 .. Len(x) /\ i \in {1, 2, 3, 4}
  BY <1>3, <1>4
<1> HIDE DEF c
<1>6. \A i \in {1, 2, 3, 4} : left[i] \notin {"CR"} \cup Methods
  BY <1>2 DEF Methods, Targets, Versions
<1>7. \A i \in 1 .. c : x[i] \notin {"CR"} \cup Methods
  BY <1>3, <1>5, <1>6
<1>8. LineOf(x, c)
  <2>1. c = Len(x) \/ x[c + 1] = "CR"
    BY <1>2, <1>3, <1>4
  <2> QED BY <1>3, <1>4, <1>7, <2>1 DEF LineOf
<1>9. c > 0 \/ x = <<>>
  BY <1>3, <1>4, EmptySeq
<1> QED BY <1>2, <1>7, <1>8, <1>9, NoLine DEF x

(* What parseURI succeeds with is what parse_headers goes on with. *)
LEMMA UriGoesOn ==
  ASSUME NEW n, terminated = FALSE, state_ = "PARSE_URI", NEW m, NEW f, NEW y,
         parseURI(text(n)) = Verdict("SUCCESS", m, f, y)
  PROVE  \E c : /\ parsed(n) = header_stage(c)
                /\ Is(c, y, "PARSE_HEADERS", hState_, m, f, headers_, FALSE, answers)
<1> DEFINE x == text(n)
           c == fed(n)
           d == uri_stage(c)
<1>1. parseURI(x) = Verdict("SUCCESS", m, f, y)
  OBVIOUS
<1>2. Is(c, x, "PARSE_URI", hState_, method_, fileName_, headers_, error_, answers)
  BY Fed
<1>3. c.state_ = "PARSE_URI" /\ parseURI(c.inBuffer_) = Verdict("SUCCESS", m, f, y)
  <2> HIDE DEF parseURI, Verdict
  <2> QED BY <1>1, <1>2 DEF Is
<1>4. d = [c EXCEPT !.method_ = m, !.fileName_ = f, !.inBuffer_ = y, !.error_ = FALSE, !.state_ = "PARSE_HEADERS"]
  <2> DEFINE u == parseURI(c.inBuffer_)
             e == u.verdict = "ERROR"
  <2>1. u.verdict = "SUCCESS" /\ u.method = m /\ u.file = f /\ u.rest = y
    <3> HIDE DEF c, parseURI
    <3> QED BY <1>3 DEF Verdict
  <2>2. d = [c EXCEPT !.method_ = u.method, !.fileName_ = u.file,
                !.inBuffer_ = IF e THEN <<>> ELSE u.rest, !.error_ = e,
                !.state_ = IF e THEN @ ELSE "PARSE_HEADERS"]
    <3> HIDE DEF c, parseURI
    <3> QED BY <1>3, <2>1 DEF uri_stage
  <2> HIDE DEF u, c, d
  <2>3. e = FALSE
    BY <2>1
  <2> HIDE DEF e
  <2> QED BY <2>1, <2>2, <2>3
<1>5. Is(d, y, "PARSE_HEADERS", hState_, m, f, headers_, FALSE, answers)
  <2> HIDE DEF c, d, x
  <2> QED BY <1>2, <1>4 DEF Is, Fields
<1>6. parsed(n) = header_stage(d)
  BY DEF parsed
<1> HIDE DEF d
<1> QED BY <1>5, <1>6

(* A part of a request line is the name of a header to parse_headers. *)
LEMMA LineAsHeader ==
  ASSUME NEW s, Ready, NEW o \in {0, 1}, LineOf(s, Len(s)), o < Len(s), o = 1 => s[1] = "LF",
         \A i \in o + 1 .. Len(s) : s[i] \notin {"COLON", "LF", "CR"}
  PROVE  AsksInHeader(s)
<1>1. s \in Seq(Alphabet) /\ Len(s) \in Nat
  BY DEF LineOf
<1>2. \E l : At(s, o + 1, "KEY", {}, l)
  <2>1. PICK h, l : h = "START" /\ At(s, o, h, {}, l)
    <3>1. CASE o = 0
      <4>1. upto(s)[0] = Marks("START", -1, -1, -1, -1, 0, {}, 0, "no")
        BY <1>1, Upto DEF start, Ready
      <4>2. At(s, 0, "START", {}, 0)
        BY <4>1 DEF At
      <4> QED BY <3>1, <4>2
    <3>2. CASE o = 1
      <4>1. At(s, 1, "START", {}, 0)
        BY <1>1, <3>2, StartPassed
      <4> QED BY <3>2, <4>1
    <3> QED BY <3>1, <3>2
  <2>2. PICK ks, ke, vs, ve : upto(s)[o] = Marks("START", ks, ke, vs, ve, l, {}, o, "no")
    BY <2>1 DEF At
  <2>3. s[o + 1] \notin {"LF", "CR"}
    <3>1. o + 1 \in o + 1 .. Len(s)
      BY <1>1
    <3> QED BY <3>1
  <2>4. turned(Marks("START", ks, ke, vs, ve, l, {}, o, "no"), s) = Marks("KEY", o, ke, vs, ve, o, {}, o + 1, "no")
    BY <2>3 DEF turned, scan_char, Marks
  <2>5. upto(s)[o + 1] = turned(upto(s)[o], s)
    <3>1. o \in 0 .. Len(s) - 1
      BY <1>1
    <3> QED BY <1>1, <3>1, Turn
  <2>6. At(s, o + 1, "KEY", {}, o)
    BY <2>2, <2>4, <2>5 DEF At
  <2> QED BY <2>6
<1>3. PICK l : At(s, o + 1, "KEY", {}, l)
  BY <1>2
<1>4. Plain(s, o + 1, Len(s))
  <2>1. \A k \in o + 1 .. Len(s) - 1 : k + 1 \in o + 1 .. Len(s)
    BY <1>1
  <2> QED BY <2>1 DEF Plain
<1>5. Len(s) \in o + 1 .. Len(s) /\ o + 1 \in Nat
  BY <1>1
<1>6. At(s, Len(s), "KEY", {}, l)
  BY <1>1, <1>3, <1>4, <1>5, KeyRuns
<1>7. "KEY" \in HeaderStates /\ "KEY" # "END_LF"
  BY DEF HeaderStates
<1> QED BY <1>1, <1>6, <1>7, NotEnded DEF Asks, AsksInHeader

(* The request line of which o characters of the last request are in front. *)
Lined(s, o, r) ==
  /\ o \in {0, 1} /\ (o = 1 => s[1] = "LF")
  /\ s[o + 1] = r.method /\ s[o + 2] = "SP" /\ s[o + 3] = r.target /\ s[o + 4] = "SP" /\ s[o + 5] = r.version
  /\ s[o + 6] = "CR"

(* Its separators. *)
LEMMA LinedWords ==
  ASSUME NEW s, NEW o, NEW r, Lined(s, o, r), IsRequest(r)
  PROVE  /\ \A i \in o + 1 .. o + 5 : s[i] \notin {"COLON", "LF", "CR"}
         /\ \A i \in 1 .. o + 5 : s[i] # "CR"
         /\ \A i \in 1 .. o : s[i] \notin Methods
<1>1. o \in {0, 1} /\ (o = 1 => s[1] = "LF")
  BY DEF Lined
<1>2. r.method \in Methods /\ r.target \in Targets /\ r.version \in Versions
  BY DEF IsRequest
<1>3. \A i \in {o + 1, o + 2, o + 3, o + 4, o + 5} : s[i] \notin {"COLON", "LF", "CR"}
  BY <1>2 DEF Lined, Methods, Targets, Versions
<1>4. \A i \in o + 1 .. o + 5 : i \in {o + 1, o + 2, o + 3, o + 4, o + 5}
  BY <1>1
<1>5. \A i \in 1 .. o + 5 : i \in o + 1 .. o + 5 \/ (i = 1 /\ o = 1)
  BY <1>1
<1>6. \A i \in 1 .. o : i = 1 /\ o = 1
  BY <1>1
<1>7. "LF" \notin Methods /\ "LF" # "CR"
  BY DEF Methods
<1> QED BY <1>1, <1>3, <1>4, <1>5, <1>6, <1>7

(* A call that finds no more than what the last request left behind. *)
LEMMA FromCrumbs ==
  ASSUME NEW n, PieceCall(n), state_ = "PARSE_URI", NEW o \in {0, 1}, o = 1 => left[1] = "LF", Len(text(n)) <= o
  PROVE  PieceInv'
<1> DEFINE x == text(n)
<1>1. Part(x, left)
  BY PieceText DEF PieceCall
<1>2. x \in Seq(Alphabet) /\ Len(x) \in Nat /\ Len(x) <= o /\ \A i \in 1 .. Len(x) : x[i] = left[i]
  BY <1>1 DEF Part
<1> HIDE DEF x
<1>3. \A i \in 1 .. Len(x) : i = 1 /\ o = 1
  <2>1. Len(x) \in Nat /\ Len(x) <= o
    BY <1>2
  <2> QED BY <2>1
<1>4. "LF" \notin Methods /\ "LF" # "CR"
  BY DEF Methods
<1>5. \A i \in 1 .. Len(x) : x[i] \notin Methods /\ x[i] # "CR"
  BY <1>2, <1>3, <1>4
<1>6. LineOf(x, Len(x))
  BY <1>2, <1>5 DEF LineOf
<1>7. Len(x) > 0 \/ x = <<>>
  BY <1>2, EmptySeq
<1> QED BY <1>5, <1>6, <1>7, NoLine DEF x

(* A call that finds a part of the request line takes it for all of it. *)
LEMMA FromHalfLine ==
  ASSUME NEW n, PieceCall(n), state_ = "PARSE_URI", Ready, IsRequest(asked), NEW o \in {0, 1}, Lined(left, o, asked),
         o < Len(text(n)), Len(text(n)) <= o + 5
  PROVE  header_cut' \/ PieceInv'
<1> DEFINE x == text(n)
<1>1. Part(x, left)
  BY PieceText DEF PieceCall
<1>2. /\ \A i \in o + 1 .. o + 5 : left[i] \notin {"COLON", "LF", "CR"}
      /\ \A i \in 1 .. o + 5 : left[i] # "CR"
  BY LinedWords
<1>2a. terminated = FALSE
  BY DEF PieceCall, Called
<1>3. x \in Seq(Alphabet) /\ Len(x) \in Nat /\ \A i \in 1 .. Len(x) : x[i] = left[i]
  BY <1>1 DEF Part
<1>3a. o < Len(x) /\ Len(x) <= o + 5
  OBVIOUS
<1> HIDE DEF x
<1>4. \A i \in 1 .. Len(x) : i \in 1 .. o + 5
  <2>1. Len(x) \in Nat
    BY <1>3
  <2> QED BY <1>3a, <2>1
<1>5. \A i \in o + 1 .. Len(x) : i \in o + 1 .. o + 5 /\ i \in 1 .. Len(x)
  <2>1. Len(x) \in Nat
    BY <1>3
  <2> QED BY <1>3a, <2>1
<1>6. LineOf(x, Len(x))
  BY <1>2, <1>3, <1>4 DEF LineOf
<1>7. \/ parseURI(x).verdict = "ERROR"
      \/ \E m, f : parseURI(x) = Verdict("SUCCESS", m, f, x)
  BY <1>6, NoEnd
<1>8. CASE parseURI(x).verdict = "ERROR"
  <2>1. Refused(n)
    <3> HIDE DEF parseURI
    <3> QED BY <1>2a, <1>8, UriRejects DEF x
  <2> QED BY <2>1, PieceRefused
<1>9. CASE \E m, f : parseURI(x) = Verdict("SUCCESS", m, f, x)
  <2>1. PICK m, f : parseURI(x) = Verdict("SUCCESS", m, f, x)
    BY <1>9
  <2>2. PICK c : /\ parsed(n) = header_stage(c)
                 /\ Is(c, x, "PARSE_HEADERS", hState_, m, f, headers_, FALSE, answers)
    <3>1. parseURI(text(n)) = Verdict("SUCCESS", m, f, x)
      BY <2>1 DEF x
    <3> HIDE DEF parseURI, Verdict
    <3> QED BY <1>2a, <3>1, UriGoesOn
  <2>3. AsksInHeader(x)
    <3>1. \A i \in o + 1 .. Len(x) : x[i] \notin {"COLON", "LF", "CR"}
      BY <1>2, <1>3, <1>5
    <3>2. o = 1 => x[1] = "LF"
      <4>1. 1 \in 1 .. Len(x)
        BY <1>3, <1>3a
      <4> QED BY <1>3, <4>1 DEF Lined
    <3> QED BY <1>3a, <1>6, <3>1, <3>2, LineAsHeader
  <2>4. header_cut'
    BY <2>2, <2>3, CutMarked
  <2> QED BY <2>4
<1> QED BY <1>7, <1>8, <1>9

(* A call that finds the request line takes it apart. *)
LEMMA FromWholeLine ==
  ASSUME NEW n, PieceCall(n), state_ = "PARSE_URI", Ready, IsRequest(asked), Len(answers) + 1 \in 1 .. Len(sent),
         NEW o \in {0, 1}, Lined(left, o, asked), o + 6 <= Len(text(n)),
         substr(left, o) = after(sent, Len(answers))
  PROVE  header_cut' \/ PieceInv'
<1> DEFINE x == text(n)
           g == asked.method
           t == asked.target
           v == asked.version
           line == SubSeq(x, 1, o + 5)
           y == substr(x, o + 6)
<1>1. Part(x, left)
  BY PieceText DEF PieceCall
<1>2. \A i \in 1 .. o + 5 : left[i] # "CR"
  BY LinedWords
<1>3. x \in Seq(Alphabet) /\ Len(x) \in Nat /\ \A i \in 1 .. Len(x) : x[i] = left[i]
  BY <1>1 DEF Part
<1>3a. o + 6 <= Len(x) /\ left \in Seq(Alphabet) /\ Len(left) \in Nat /\ Len(x) <= Len(left) /\ terminated = FALSE
  BY <1>1 DEF PieceCall, Called, Part
<1> HIDE DEF x
<1>4. /\ \A i \in 1 .. o + 6 : i \in 1 .. Len(x)
      /\ o + 5 \in 0 .. Len(x) /\ o + 5 # Len(x) /\ o + 5 > 0 /\ o + 5 + 1 = o + 6 /\ o + 6 \in 0 .. Len(x)
      /\ o + 6 \in 1 .. o + 6 /\ \A i \in 1 .. o + 5 : i \in 1 .. o + 6
  <2>1. Len(x) \in Nat
    BY <1>3
  <2> QED BY <1>3a, <2>1
<1>5. LineOf(x, o + 5)
  <2>1. x[o + 6] = "CR"
    BY <1>3, <1>4 DEF Lined
  <2>2. \A i \in 1 .. o + 5 : x[i] # "CR"
    BY <1>2, <1>3, <1>4
  <2> QED BY <1>3, <1>4, <2>1, <2>2 DEF LineOf
<1>6. parseURI(x) = taken(line, y)
  <2> DEFINE e == o + 5
  <2>1. LineOf(x, e) /\ (e > 0 \/ x = <<>>) /\ e # Len(x) /\ e + 1 = o + 6
    BY <1>4, <1>5
  <2>2. line = SubSeq(x, 1, e)
    OBVIOUS
  <2> HIDE DEF e, line, parseURI, taken
  <2>3. parseURI(x) = taken(SubSeq(x, 1, e), IF e = Len(x) THEN x ELSE substr(x, e + 1))
    BY <2>1, ParseFirstLine
  <2> QED BY <2>1, <2>2, <2>3
<1>7. LineAt(line, o, g, t, v)
  <2>1. Len(line) = o + 5 /\ \A i \in 1 .. o + 5 : line[i] = x[i]
    BY <1>3, <1>4
  <2> HIDE DEF line
  <2>2. \A i \in 1 .. o + 5 : line[i] = left[i]
    BY <1>3, <1>4, <2>1
  <2>3. /\ o + 1 \in 1 .. o + 5 /\ o + 2 \in 1 .. o + 5 /\ o + 3 \in 1 .. o + 5 /\ o + 4 \in 1 .. o + 5
        /\ o + 5 \in 1 .. o + 5 /\ 1 \in 1 .. o + 5
    OBVIOUS
  <2> QED BY <2>1, <2>2, <2>3 DEF LineAt, Lined
<1>8. taken(line, y) = IF v \in known_versions THEN Verdict("SUCCESS", g, t, y) ELSE Verdict("ERROR", g, fileName_, y)
  <2>1. g \in Methods /\ t \in Targets /\ v \in Versions
    BY DEF IsRequest
  <2> HIDE DEF line, y, g, t, v, taken, Verdict
  <2> QED BY <1>7, <2>1, LineTaken
<1> HIDE DEF line
<1>9. CASE v \notin known_versions
  <2>1. parseURI(x).verdict = "ERROR"
    <3> HIDE DEF parseURI, taken
    <3> QED BY <1>6, <1>8, <1>9 DEF Verdict
  <2>2. Refused(n)
    <3> HIDE DEF parseURI
    <3> QED BY <1>3a, <2>1, UriRejects DEF x
  <2> QED BY <2>2, PieceRefused
<1>10. CASE v \in known_versions
  <2>1. parseURI(text(n)) = Verdict("SUCCESS", g, t, y)
    <3> HIDE DEF parseURI, taken, Verdict
    <3> QED BY <1>6, <1>8, <1>10 DEF x
  <2>2. PICK c : /\ parsed(n) = header_stage(c)
                 /\ Is(c, y, "PARSE_HEADERS", hState_, g, t, headers_, FALSE, answers)
    <3> HIDE DEF parseURI, Verdict, g, t, y
    <3> QED BY <1>3a, <2>1, UriGoesOn
  <2>3. Behind(substr(left, o + 6), asked, later)
    <3> DEFINE w == after(sent, Len(answers))
    <3>1. Received(w, asked, later)
      BY AskedText DEF PieceCall
    <3>2. Behind(substr(w, 6), asked, later)
      BY <3>1, BehindLine
    <3>3. substr(substr(left, o), 6) = substr(left, o + 6)
      <4>1. o \in Nat /\ 6 \in Nat /\ o + 6 <= Len(left)
        BY <1>3, <1>3a
      <4> QED BY <1>3a, <4>1, RestRest
    <3> HIDE DEF w
    <3>4. substr(left, o) = w
      BY DEF w
    <3> QED BY <3>2, <3>3, <3>4
  <2>4. Headed(n, c, o + 6)
    BY <1>4, <2>2, <2>3 DEF Headed, x
  <2> QED BY <2>4, HeadersOutcome
<1> QED BY <1>9, <1>10

(* A call before a request line, or before nothing more. *)
LEMMA FromLine ==
  ASSUME NEW n, PieceCall(n), BeforeLine
  PROVE  header_cut' \/ PieceInv'
<1> DEFINE j == Len(answers)
           w == after(sent, j)
<1>1. state_ = "PARSE_URI" /\ Ready /\ Begun(left, w)
  BY DEF BeforeLine
<1>2. PICK o \in {0, 1} : o <= Len(left) /\ (o = 1 => left[1] = "LF") /\ substr(left, o) = w
  BY <1>1 DEF Begun
<1>3. Part(text(n), left)
  BY PieceText DEF PieceCall
<1>4. left \in Seq(Alphabet) /\ Len(left) \in Nat /\ Len(text(n)) \in Nat /\ Len(text(n)) <= Len(left) /\ o \in 0 .. Len(left)
  <2>1. left \in Seq(Alphabet) /\ Len(left) \in Nat /\ Len(text(n)) \in Nat /\ Len(text(n)) <= Len(left)
    BY <1>3 DEF Part
  <2>2. o <= Len(left)
    BY <1>2
  <2> QED BY <2>1, <2>2
<1>5. Len(w) = Len(left) - o /\ \A i \in 1 .. Len(left) - o : w[i] = left[o + i]
  BY <1>2, <1>4, Rest
<1> HIDE DEF w
<1>6. CASE Len(text(n)) <= o
  BY <1>1, <1>2, <1>6, FromCrumbs
<1>7. CASE o < Len(text(n))
  <2>1. Len(w) # 0
    BY <1>4, <1>5, <1>7
  <2>2. j + 1 \in 1 .. Len(sent)
    <3>1. sent \in Seq(Requests) /\ j \in Nat /\ Len(sent) \in Nat /\ j <= Len(sent)
      BY DEF PieceCall, Answered
    <3>2. j # Len(sent)
      <4>1. j = Len(sent) => w = <<>>
        BY <3>1, AfterLast DEF w
      <4> QED BY <2>1, <4>1
    <3> QED BY <3>1, <3>2
  <2>3. IsRequest(asked) /\ Received(w, asked, later)
    BY <2>2, AskedText DEF PieceCall, w
  <2>4. Lined(left, o, asked)
    <3>1. /\ Len(w) >= 6
          /\ w[1] = asked.method /\ w[2] = "SP" /\ w[3] = asked.target /\ w[4] = "SP" /\ w[5] = asked.version /\ w[6] = "CR"
      BY <2>3 DEF Received, Text, Line
    <3>2. \A i \in {1, 2, 3, 4, 5, 6} : i \in 1 .. Len(left) - o
      BY <1>4, <1>5, <3>1
    <3>3. \A i \in {1, 2, 3, 4, 5, 6} : w[i] = left[o + i]
      BY <1>5, <3>2
    <3> QED BY <1>2, <3>1, <3>3 DEF Lined
  <2>5. CASE Len(text(n)) <= o + 5
    BY <1>1, <1>7, <2>3, <2>4, <2>5, FromHalfLine
  <2>6. CASE o + 6 <= Len(text(n))
    BY <1>1, <1>2, <2>2, <2>3, <2>4, <2>6, FromWholeLine DEF w
  <2>7. Len(text(n)) <= o + 5 \/ o + 6 <= Len(text(n))
    BY <1>4
  <2> QED BY <2>5, <2>6, <2>7
<1>8. Len(text(n)) <= o \/ o < Len(text(n))
  BY <1>4
<1> QED BY <1>6, <1>7, <1>8

(* A call keeps what holds of the answers, wherever readn ended, or marks that it
   ended inside a header. *)
LEMMA PieceNext ==
  ASSUME NEW n \in Nat, PieceInv, Called(n), ~Closed => n <= Len(incoming)
  PROVE  header_cut' \/ PieceInv'
<1>1. ~Closed
  BY DEF Called, Closed
<1>2. Buffers /\ Standing
  BY <1>1 DEF PieceInv
<1>3. PieceCall(n)
  <2>1. Len(incoming) \in Nat
    BY <1>2 DEF Buffers
  <2>2. n \in 0 .. Len(incoming)
    BY <1>1, <2>1
  <2> QED BY <1>2, <2>2 DEF PieceCall, PieceInv
<1> QED BY <1>2, <1>3, FromLine, FromNothing, FromHeaders, FromEnd, FromBody DEF Standing

(* Between two calls, however the stream is cut. *)
ParserInv ==
  /\ reads \in Cuts
  /\ reads # "pieces" => Inv
  /\ reads = "pieces" /\ ~header_cut => PieceInv

(* Before the first call everything is still to be sent. *)
LEMMA InitPiece ==
  ASSUME Init, sent \in Seq(Requests), answers = <<>>, incoming = after(sent, 0), Answered
  PROVE  PieceInv
<1>1. 0 \in 0 .. Len(sent) /\ Len(answers) = 0
  OBVIOUS
<1>2. incoming \in Seq(Alphabet) /\ inBuffer_ = <<>>
  BY <1>1, AfterText DEF Init
<1>3. left = incoming
  BY <1>2, JoinedEmpty DEF left
<1>4. Begun(left, after(sent, Len(answers)))
  <2>1. substr(incoming, 0) = incoming
    BY <1>2, RestAll
  <2>2. 0 \in {0, 1} /\ 0 <= Len(left) /\ 0 # 1
    BY <1>2, <1>3
  <2> QED BY <1>1, <1>3, <2>1, <2>2 DEF Begun
<1>5. BeforeLine
  BY <1>4 DEF Init, BeforeLine, Ready
<1>6. Buffers
  BY <1>2 DEF Buffers
<1> QED BY <1>5, <1>6 DEF Init, PieceInv, Standing

(* The invariant holds before the first call. *)
LEMMA InitInv ==
  ASSUME Init
  PROVE  ParserInv
<1>1. sent \in Seq(Requests) /\ answers = <<>> /\ Len(sent) \in Nat
  <2>1. PICK n \in 1 .. MaxRequests[reads] : sent \in [1 .. n -> Requests]
    BY DEF Init
  <2>2. sent \in Seq(Requests)
    <3>1. MaxRequests[reads] \in Nat
      BY MaxRequestsAssumption, ReadsAssumption DEF Init
    <3> QED BY <2>1, <3>1
  <2>3. answers = <<>>
    BY DEF Init
  <2> QED BY <2>2, <2>3
<1>2. incoming = after(sent, 0)
  <2>1. SubSeq(sent, 0 + 1, Len(sent)) = sent
    <3> DEFINE q == SubSeq(sent, 0 + 1, Len(sent))
    <3>1. q \in Seq(Requests) /\ Len(q) = Len(sent) /\ \A i \in 1 .. Len(q) : q[i] = sent[i]
      <4>1. q \in Seq(Requests) /\ Len(q) = Len(sent)
        BY <1>1
      <4>2. \A i \in 1 .. Len(sent) : q[i] = sent[i]
        BY <1>1
      <4> HIDE DEF q
      <4> QED BY <4>1, <4>2
    <3> HIDE DEF q
    <3>2. q = sent
      BY <1>1, <3>1, SeqEqual
    <3> QED BY <3>2 DEF q
  <2> QED BY <2>1 DEF Init, after
<1>3. Answered
  <2> DEFINE M == {meaning(r) : r \in Requests}
  <2>1. <<>> \in Seq(M) /\ Len(<<>>) = 0 /\ 0 <= Len(sent) /\ 1 .. 0 = {}
    BY <1>1
  <2> HIDE DEF M
  <2> QED BY <1>1, <2>1 DEF Answered, M
<1>4. Fresh
  BY DEF Init, Fresh
<1>5. 0 \in Len(answers) .. Len(sent) /\ Between(0)
  <2>1. Len(answers) = 0 /\ 0 \in 0 .. Len(sent)
    BY <1>1
  <2> QED BY <1>2, <1>4, <2>1 DEF Between
<1>6. error_ = FALSE /\ terminated = FALSE /\ reads \in Cuts
  BY ReadsAssumption DEF Init
<1>7. PieceInv
  BY <1>1, <1>2, <1>3, InitPiece
<1> QED BY <1>3, <1>5, <1>6, <1>7 DEF ParserInv, Inv, Closed

(* What a call of handle_read finds. *)
LEMMA CallFinds ==
  ASSUME NEW n \in cuts \cup {m \in {0} : again}, reads = "pieces", incoming \in Seq(Alphabet)
  PROVE  n \in Nat /\ n <= Len(incoming)
<1>1. cuts = 1 .. Len(incoming)
  BY DEF cuts
<1>2. Len(incoming) \in Nat
  OBVIOUS
<1> HIDE DEF cuts
<1>3. n \in 1 .. Len(incoming) \/ n = 0
  BY <1>1
<1> QED BY <1>2, <1>3

(* Every call of handle_read keeps it, whichever requests it finds. *)
LEMMA CallInv ==
  ASSUME ParserInv, handle_read
  PROVE  ParserInv'
<1>1. PICK n \in cuts \cup {m \in {0} : again} : Called(n)
  BY OneCall
<1>2. reads' = reads /\ reads \in Cuts
  BY <1>1 DEF Called, ParserInv
<1>3. CASE reads = "pieces"
  <2> SUFFICES ASSUME ~header_cut' PROVE PieceInv'
    BY <1>2, <1>3 DEF ParserInv
  <2>1. PieceInv
    BY <1>1, <1>3 DEF Called, ParserInv
  <2>2. incoming \in Seq(Alphabet)
    BY <1>1, <2>1 DEF Called, PieceInv, Closed, Buffers
  <2>3. n \in Nat /\ n <= Len(incoming)
    <3> HIDE DEF cuts
    <3> QED BY <1>3, <2>2, CallFinds
  <2> QED BY <1>1, <2>1, <2>3, PieceNext
<1>4. CASE reads # "pieces"
  <2>1. Inv /\ reads \in {"request", "burst"}
    BY <1>2, <1>4 DEF ParserInv, Cuts
  <2>2. error_ = FALSE /\ terminated = FALSE
    BY <1>1, <2>1 DEF Called, Inv
  <2>3. PICK j \in Len(answers) .. Len(sent) : Between(j)
    BY <2>1, <2>2 DEF Inv, Closed
  <2>4. incoming = after(sent, j)
    BY <2>3 DEF Between
  <2>5. j \in 0 .. Len(sent) /\ sent \in Seq(Requests)
    BY <2>1 DEF Inv, Answered
  <2>6. ASSUME Fresh /\ j = Len(answers) PROVE Inv'
    <3>1. n \in cuts
      <4>1. again = FALSE
        BY <2>6 DEF Fresh
      <4> HIDE DEF cuts
      <4> QED BY <4>1
    <3> QED BY <1>1, <2>1, <2>4, <2>6, <3>1, FromFresh
  <2>7. ASSUME Ignored /\ reads = "burst" PROVE Inv'
    <3>1. SubSeq(incoming, 1, n) \in Seq(Alphabet)
      <4>1. CASE n \in cuts
        <5>1. PICK i, w : Arrives(n, j, i, w)
          BY <2>1, <2>4, <2>5, <4>1, Arrival
        <5> QED BY <5>1 DEF Arrives, Received, Text, Line
      <4>2. CASE n = 0
        <5>1. incoming \in Seq(Alphabet)
          BY <2>4, <2>5, AfterText
        <5> QED BY <4>2, <5>1
      <4> HIDE DEF cuts
      <4> QED BY <4>1, <4>2
    <3> QED BY <1>1, <2>1, <2>7, <3>1, FromIgnored
  <2>8. ASSUME Stuck PROVE Inv'
    <3>1. n \in cuts
      <4>1. again = FALSE
        BY <2>8 DEF Stuck
      <4> HIDE DEF cuts
      <4> QED BY <4>1
    <3> QED BY <1>1, <2>1, <2>2, <2>4, <2>8, <3>1, FromStuck
  <2>9. Inv'
    BY <2>3, <2>6, <2>7, <2>8 DEF Between
  <2> QED BY <1>2, <1>4, <2>9 DEF ParserInv
<1> QED BY <1>3, <1>4

(* And so does a stutter. *)
LEMMA SameInv ==
  ASSUME ParserInv, UNCHANGED vars
  PROVE  ParserInv'
<1>1. /\ reads' = reads /\ sent' = sent /\ incoming' = incoming /\ inBuffer_' = inBuffer_ /\ state_' = state_
      /\ hState_' = hState_ /\ method_' = method_ /\ headers_' = headers_ /\ error_' = error_ /\ terminated' = terminated /\ again' = again
      /\ fileName_' = fileName_ /\ header_cut' = header_cut /\ answers' = answers
  BY DEF vars
<1>2. Answered' = Answered /\ Unserved' = Unserved
  BY <1>1, StillUnserved
<1>3. \A j : Between(j)' = Between(j)
  <2>1. Fresh' = Fresh /\ Ignored' = Ignored /\ Stuck' = Stuck
    BY <1>1, <1>2 DEF Fresh, Ignored, Stuck
  <2> QED BY <1>1, <2>1 DEF Between
<1>4. PieceInv' = PieceInv
  <2>1. left' = left /\ asked' = asked /\ later' = later /\ Buffers' = Buffers /\ Ready' = Ready
    BY <1>1 DEF left, asked, later, Buffers, Ready
  <2>2. InRequest' = InRequest
    BY <1>1, <2>1 DEF InRequest
  <2>3. BeforeLine' = BeforeLine /\ BeforeNothing' = BeforeNothing
    BY <1>1, <2>1 DEF BeforeLine, BeforeNothing
  <2>4. BeforeHeaders' = BeforeHeaders /\ BehindCR' = BehindCR
    BY <1>1, <2>1, <2>2 DEF BeforeHeaders, BehindCR
  <2>5. Standing' = Standing
    BY <1>1, <2>3, <2>4 DEF Standing
  <2> QED BY <1>1, <1>2, <2>1, <2>5 DEF PieceInv, Closed
<1> QED BY <1>1, <1>2, <1>3, <1>4 DEF ParserInv, Inv, Closed

(* handle_read, however many requests arrive, however many of them together and
   wherever the reads end: the parser is before or within a request whose
   predecessors were all answered as they were meant, or is never going to
   answer, because of a request that is not served.  Unless a read ended inside
   a header or a request line: then nothing is claimed. *)
THEOREM ParserInvariant == Spec => []ParserInv
<1>1. Init => ParserInv
  BY InitInv
<1>2. ParserInv /\ [Next]_vars => ParserInv'
  BY CallInv, SameInv DEF Next
<1> QED BY <1>1, <1>2, PTL DEF Spec

(* AnswersMatch (handle_read, parseURI, parse_headers, reset): every answer is
   for the request in its place, understood as it was sent, wherever readn
   ended, as long as it never ended inside a header or a request line. *)
THEOREM RequestsAnswered == Spec => []AnswersMatch
<1>1. ParserInv => AnswersMatch
  <2> SUFFICES ASSUME ParserInv, ~(reads = "pieces" /\ header_cut) PROVE \A k \in DOMAIN answers : k <= Len(sent) /\ answers[k] = meaning(sent[k])
    BY DEF AnswersMatch
  <2>1. Answered
    BY DEF ParserInv, Inv, PieceInv
  <2>2. DOMAIN answers = 1 .. Len(answers) /\ Len(answers) \in Nat /\ Len(sent) \in Nat /\ Len(answers) <= Len(sent)
    BY <2>1 DEF Answered
  <2> QED BY <2>1, <2>2 DEF Answered
<1> QED BY <1>1, ParserInvariant, PTL

(* WellFormedNeverRefused (README.md:38): with one request at a time, the
   connection is given up only at one that is not served. *)
THEOREM ServedNeverRefused == Spec => []WellFormedNeverRefused
<1>1. ParserInv => WellFormedNeverRefused
  <2> SUFFICES ASSUME ParserInv, reads = "request", error_ \/ terminated
               PROVE  \E k \in 1 .. Len(answers) + 1 : k \in DOMAIN sent /\ ~served(sent[k])
    BY DEF WellFormedNeverRefused
  <2>1. Unserved /\ Len(answers) \in Nat
    BY DEF ParserInv, Inv, Answered, Closed
  <2>2. Len(answers) + 1 \in 1 .. Len(answers) + 1
    BY <2>1
  <2> QED BY <2>1, <2>2 DEF Unserved
<1> QED BY <1>1, ParserInvariant, PTL

(* NoneLeftWaiting (PARSE_URI_AGAIN, PARSE_HEADER_AGAIN): no request that is
   served and received whole waits for more. *)
THEOREM WholeRequestsAnswered == Spec => []NoneLeftWaiting
<1>1. ParserInv => NoneLeftWaiting
  <2> SUFFICES ASSUME ParserInv, reads = "request", incoming = <<>>, ~error_, ~terminated
               PROVE  \/ Len(answers) = Len(sent)
                      \/ \E k \in 1 .. Len(answers) + 1 : ~served(sent[k])
    BY DEF NoneLeftWaiting
  <2>1. sent \in Seq(Requests) /\ Len(answers) \in Nat /\ Len(sent) \in Nat
    BY DEF ParserInv, Inv, Answered
  <2>2. PICK j \in Len(answers) .. Len(sent) : Between(j)
    BY DEF ParserInv, Inv, Closed
  <2>3. CASE Fresh /\ j = Len(answers)
    <3>1. CASE j < Len(sent)
      <4>1. j \in Nat /\ Len(sent) \in j + 1 .. Len(sent)
        BY <2>1, <3>1
      <4>2. Len(after(sent, Len(sent))) \in Nat /\ Len(after(sent, Len(sent))) < Len(after(sent, j))
        BY <2>1, <4>1, AfterShorter
      <4>3. Len(after(sent, j)) = 0
        BY <2>2 DEF Between
      <4> QED BY <4>2, <4>3
    <3> QED BY <2>1, <2>3, <3>1
  <2>4. CASE Ignored /\ reads = "burst"
    BY <2>4
  <2>5. CASE Stuck
    <3>1. Len(answers) + 1 \in 1 .. Len(answers) + 1
      BY <2>1
    <3> QED BY <2>5, <3>1 DEF Stuck, Unserved
  <2> QED BY <2>2, <2>3, <2>4, <2>5 DEF Between
<1> QED BY <1>1, ParserInvariant, PTL
===============================================================================
