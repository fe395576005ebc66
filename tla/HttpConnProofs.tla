--------------------------- MODULE HttpConnProofs ---------------------------
(***************************************************************************)
(* The four properties of HttpConn, for any requests, files, buffer and    *)
(* number of requests.  First the text of a request and where its lines    *)
(* end; then what process_read's loop makes of a buffer that holds a       *)
(* beginning of it, a rest of it, or something that cannot be read; then   *)
(* the units of an answer and the bookkeeping of writev; at the end the    *)
(* stages that a connection goes through with each request, which every    *)
(* step keeps.                                                             *)
(***************************************************************************)
EXTENDS HttpConn, Induction, TLAPS

(* The words of a stream. *)
Tokens == STRING \cup Separators \cup Origin \cup {"GET", "HTTP/1.1", "BODY"} \cup
          {r.method : r \in Requests} \cup {file_of(r) : r \in Requests}

(* What is assumed of a request. *)
Sound(r) ==
  /\ r.method \in Tokens \ Separators /\ r.eol \in {<<"CR", "LF">>, <<"LF">>, <<"CR">>}
  /\ r.target \in Seq(Tokens \ Separators) /\ Len(r.target) \in 1 .. 3
  /\ r.headers \in Seq((Tokens \ Separators) \X (Tokens \ Separators))
  /\ r.body \in Nat /\ r.body <= announced(r.headers, Len(r.headers))

(* Every request that may be sent is such a one. *)
LEMMA SoundRequest ==
  ASSUME NEW r \in Requests
  PROVE  /\ Sound(r)
         /\ \A i \in DOMAIN r.headers : r.headers[i][1] = "Content-Length:" => r.headers[i][2] \in DOMAIN atol
<1> DEFINE W == Tokens \ Separators
<1>1. /\ r.method \notin Separators /\ r.eol \in {<<"CR", "LF">>, <<"LF">>, <<"CR">>}
      /\ r.headers \in Seq(STRING \X STRING)
      /\ \A i \in DOMAIN r.headers :
           /\ r.headers[i][1] \notin Separators /\ r.headers[i][2] \notin Separators
           /\ r.headers[i][1] = "Content-Length:" => r.headers[i][2] \in DOMAIN atol
      /\ r.body \in Nat /\ r.body <= announced(r.headers, Len(r.headers))
  BY RequestsAssumption
<1>2. r.method \in W /\ STRING \subseteq Tokens
  BY <1>1 DEF Tokens
<1>3. r.target \in Seq(W) /\ Len(r.target) \in 1 .. 3
  <2>1. "http://" \in W /\ "host" \in W
    BY DEF Tokens, Origin, Separators
  <2>2. CASE r.target = <<"http://", "host">>
    BY <2>1, <2>2
  <2>3. CASE /\ r.target \in {<<file_of(r)>>, <<"http://", "host", file_of(r)>>}
             /\ file_of(r) \notin Separators \cup Origin
    <3>1. file_of(r) \in W
      BY <2>3 DEF Tokens
    <3> DEFINE f == file_of(r)
               t == r.target
    <3>2. t = <<f>> \/ t = <<"http://", "host", f>>
      BY <2>3
    <3>3. f \in W
      BY <3>1
    <3> HIDE DEF W, f, t
    <3>4. CASE t = <<f>>
      BY <3>3, <3>4 DEF t
    <3>5. CASE t = <<"http://", "host", f>>
      BY <2>1, <3>3, <3>5 DEF t
    <3> QED BY <3>2, <3>4, <3>5
  <2> QED BY <2>2, <2>3, RequestsAssumption
<1>4. r.headers \in Seq(W \X W)
  <2>1. \A i \in DOMAIN r.headers : r.headers[i] \in STRING \X STRING
    BY <1>1
  <2>2. \A i \in DOMAIN r.headers : r.headers[i] \in W \X W
    BY <1>1, <1>2, <2>1
  <2> HIDE DEF W
  <2> QED BY <1>1, <2>2
<1> QED BY <1>1, <1>2, <1>3, <1>4 DEF Sound

(* One header line, at p words into a text. *)
HeaderAt(s, p, h) ==
  s[p + 1] = h[1] /\ s[p + 2] = "SP" /\ s[p + 3] = h[2] /\ s[p + 4] = "CR" /\ s[p + 5] = "LF"

lines(r) == [i \in DOMAIN r.headers |-> header_line(r, r.headers[i])]

(* The words are no separators, and the separators are tokens. *)
LEMMA Kinds ==
  /\ {"CR", "LF", "SP", "GET", "HTTP/1.1", "BODY"} \subseteq Tokens
  /\ {"GET", "HTTP/1.1", "BODY"} \cap Separators = {}
BY DEF Tokens, Separators

(* The words of one header line. *)
LEMMA HeaderLine ==
  ASSUME NEW r, Sound(r), NEW h \in (Tokens \ Separators) \X (Tokens \ Separators)
  PROVE  /\ header_line(r, h) \in Seq(Tokens) /\ Len(header_line(r, h)) = 3 + Len(r.eol)
         /\ header_line(r, h)[1] = h[1]
         /\ r.eol = <<"CR", "LF">> => HeaderAt(header_line(r, h), 0, h)
<1> DEFINE a == <<h[1], "SP", h[2]>>
           b == r.eol
           c == joined(a, b)
<1>1. h[1] \in Tokens /\ h[2] \in Tokens /\ {"SP", "CR", "LF"} \subseteq Tokens
  BY Kinds
<1> HIDE DEF Tokens
<1>2. a \in Seq(Tokens) /\ Len(a) = 3 /\ a[1] = h[1] /\ a[2] = "SP" /\ a[3] = h[2]
  BY <1>1
<1>3. b \in Seq(Tokens) /\ (b = <<"CR", "LF">> => b[1] = "CR" /\ b[2] = "LF" /\ Len(b) = 2)
  <2>1. b \in {<<"CR", "LF">>, <<"LF">>, <<"CR">>}
    BY DEF Sound
  <2> HIDE DEF b
  <2>2. CASE b = <<"CR", "LF">>
    BY <1>1, <2>2
  <2>3. CASE b = <<"LF">>
    BY <1>1, <2>3
  <2>4. CASE b = <<"CR">>
    BY <1>1, <2>4
  <2> QED BY <2>1, <2>2, <2>3, <2>4
<1>4. header_line(r, h) = c
  BY DEF header_line, joined
<1> HIDE DEF a, b
<1>5. IsJoined(Tokens, c, a, b)
  BY <1>2, <1>3, JoinedText
<1> HIDE DEF c
<1>6. c \in Seq(Tokens) /\ Len(c) = 3 + Len(b) /\ c[1] = a[1] /\ c[2] = a[2] /\ c[3] = a[3]
  BY <1>2, <1>5 DEF IsJoined
<1>7. ASSUME b = <<"CR", "LF">> PROVE c[4] = "CR" /\ c[5] = "LF"
  BY <1>2, <1>3, <1>5, <1>7 DEF IsJoined
<1> QED BY <1>2, <1>4, <1>6, <1>7 DEF HeaderAt, b

HeadersAt(s, n, hs) == Len(s) = 5 * n /\ \A i \in 0 .. n - 1 : HeaderAt(s, 5 * i, hs[i + 1])

(* All of them, one after the other. *)
LEMMA LinesText ==
  ASSUME NEW r, Sound(r), r.eol = <<"CR", "LF">>
  PROVE  /\ FlattenSeq(lines(r)) \in Seq(Tokens) /\ Len(FlattenSeq(lines(r))) = 5 * Len(r.headers)
         /\ \A i \in 0 .. Len(r.headers) - 1 : HeaderAt(FlattenSeq(lines(r)), 5 * i, r.headers[i + 1])
<1> DEFINE hs == r.headers
           n == Len(hs)
           L == lines(r)
           f == flats(L)
<1>0. hs \in Seq((Tokens \ Separators) \X (Tokens \ Separators)) /\ Len(r.eol) = 2
  BY DEF Sound
<1> HIDE DEF hs
<1>1. n \in Nat /\ Len(L) = n /\ \A i \in 1 .. n : L[i] = header_line(r, hs[i])
  BY <1>0 DEF lines, hs
<1>2. \A i \in 1 .. n : L[i] \in Seq(Tokens) /\ Len(L[i]) = 5 /\ HeaderAt(L[i], 0, hs[i])
  <2>1. \A i \in 1 .. n : hs[i] \in (Tokens \ Separators) \X (Tokens \ Separators)
    BY <1>0
  <2>2. 3 + Len(r.eol) = 5
    BY <1>0
  <2>3. ASSUME NEW i \in 1 .. n PROVE L[i] \in Seq(Tokens) /\ Len(L[i]) = 5 /\ HeaderAt(L[i], 0, hs[i])
    <3>1. hs[i] \in (Tokens \ Separators) \X (Tokens \ Separators) /\ L[i] = header_line(r, hs[i])
      BY <1>1, <2>1
    <3> DEFINE h == hs[i]
    <3> HIDE DEF h, L, n
    <3>2. h \in (Tokens \ Separators) \X (Tokens \ Separators)
      BY <3>1 DEF h
    <3>3. header_line(r, h) \in Seq(Tokens) /\ Len(header_line(r, h)) = 3 + Len(r.eol) /\ HeaderAt(header_line(r, h), 0, h)
      BY <3>2, HeaderLine
    <3> QED BY <2>2, <3>1, <3>3 DEF h
  <2> QED BY <2>3
<1>3. L \in Seq(Seq(Tokens))
  <2>1. L = [i \in 1 .. n |-> header_line(r, hs[i])] /\ \A i \in 1 .. n : header_line(r, hs[i]) \in Seq(Tokens)
    <3>1. DOMAIN hs = 1 .. n
      BY <1>0
    <3>2. L = [i \in 1 .. n |-> header_line(r, hs[i])]
      BY <3>1 DEF lines, hs
    <3>3. \A i \in 1 .. n : header_line(r, hs[i]) \in Seq(Tokens)
      <4> HIDE DEF L, n
      <4> QED BY <1>1, <1>2
    <3> QED BY <3>2, <3>3
  <2> HIDE DEF L
  <2> QED BY <1>1, <2>1
<1>4. CASE n = 0
  <2>1. L = <<>>
    <3> HIDE DEF L, n
    <3> QED BY <1>1, <1>3, <1>4, EmptySeq
  <2>2. Len(<<>>) = 0 /\ <<>> \in Seq(Tokens)
    OBVIOUS
  <2>3. FlattenSeq(L) = <<>>
    BY <2>1, <2>2 DEF FlattenSeq
  <2> HIDE DEF L
  <2> QED BY <1>4, <2>2, <2>3 DEF L, n, hs
<1>5. CASE n >= 1
  <2>1. /\ FlattenSeq(L) = f[n] /\ f \in [1 .. n -> Seq(Tokens)] /\ f[1] = L[1]
        /\ \A i \in 1 .. n - 1 : f[i + 1] = joined(f[i], L[i + 1])
    <3> HIDE DEF L, n
    <3>1. Len(L) >= 1
      BY <1>1, <1>5
    <3> QED BY <1>1, <1>3, <3>1, Flats
  <2> HIDE DEF L, n, f
  <2> DEFINE Good(k) == HeadersAt(f[k], k, hs)
             T == {k \in 0 .. n - 1 : Good(k + 1)}
  <2> USE DEF HeadersAt
  <2>2. 0 \in T
    <3>1. 0 + 1 = 1 /\ 0 \in 0 .. n - 1 /\ 1 \in 1 .. n /\ 5 * 1 = 5 /\ 5 * 0 = 0 /\ \A i \in 0 .. 1 - 1 : i = 0
      BY <1>1, <1>5
    <3>2. Good(1)
      BY <1>2, <2>1, <3>1
    <3> HIDE DEF Good
    <3> QED BY <3>1, <3>2
  <2>3. ASSUME NEW k \in 0 .. n - 1 - 1, k \in T PROVE k + 1 \in T
    <3> DEFINE j == k + 1
    <3>1. j \in Nat /\ j \in 1 .. n - 1 /\ j \in 0 .. n - 1 /\ j + 1 \in 1 .. n /\ j \in 1 .. n
      BY <1>1
    <3>2. Good(j)
      BY <2>3
    <3> HIDE DEF j, T
    <3>3. f[j + 1] = joined(f[j], L[j + 1]) /\ f[j] \in Seq(Tokens)
      BY <2>1, <3>1
    <3>3a. L[j + 1] \in Seq(Tokens) /\ Len(L[j + 1]) = 5 /\ HeaderAt(L[j + 1], 0, hs[j + 1])
      BY <1>2, <3>1
    <3> DEFINE a == f[j]
               b == L[j + 1]
               c == joined(a, b)
    <3>4. /\ a \in Seq(Tokens) /\ b \in Seq(Tokens) /\ Len(a) = 5 * j /\ Len(b) = 5
          /\ HeaderAt(b, 0, hs[j + 1]) /\ \A i \in 0 .. j - 1 : HeaderAt(a, 5 * i, hs[i + 1])
      BY <3>2, <3>3, <3>3a
    <3> HIDE DEF a, b, Good
    <3>5. /\ Len(c) = Len(a) + Len(b)
          /\ \A i \in 1 .. Len(a) : c[i] = a[i]
          /\ \A i \in 1 .. Len(b) : c[Len(a) + i] = b[i]
      <4>1. a \in Seq(Tokens) /\ b \in Seq(Tokens)
        BY <3>4
      <4>2. IsJoined(Tokens, c, a, b)
        BY <4>1, JoinedText
      <4> QED BY <4>2 DEF IsJoined
    <3> HIDE DEF c
    <3>6. Len(c) = 5 * (j + 1)
      BY <3>1, <3>4, <3>5
    <3>7. ASSUME NEW i \in 0 .. j PROVE HeaderAt(c, 5 * i, hs[i + 1])
      <4>1. CASE i \in 0 .. j - 1
        <5>1. /\ 5 * i + 1 \in 1 .. Len(a) /\ 5 * i + 2 \in 1 .. Len(a) /\ 5 * i + 3 \in 1 .. Len(a)
              /\ 5 * i + 4 \in 1 .. Len(a) /\ 5 * i + 5 \in 1 .. Len(a)
          BY <3>1, <3>4, <4>1
        <5>2. HeaderAt(a, 5 * i, hs[i + 1])
          BY <3>4, <4>1
        <5> QED BY <3>5, <5>1, <5>2 DEF HeaderAt
      <4>2. CASE i = j
        <5>1. /\ {1, 2, 3, 4, 5} \subseteq 1 .. Len(b) /\ Len(a) = 5 * i
              /\ 0 + 1 = 1 /\ 0 + 2 = 2 /\ 0 + 3 = 3 /\ 0 + 4 = 4 /\ 0 + 5 = 5
          BY <3>4, <4>2
        <5>2. \A p \in {1, 2, 3, 4, 5} : c[5 * i + p] = b[p]
          BY <3>5, <5>1, SMTT(30)
        <5>3. b[0 + 1] = hs[i + 1][1] /\ b[0 + 2] = "SP" /\ b[0 + 3] = hs[i + 1][2]
              /\ b[0 + 4] = "CR" /\ b[0 + 5] = "LF"
          BY <3>4, <4>2 DEF HeaderAt
        <5> QED BY <5>1, <5>2, <5>3 DEF HeaderAt
      <4>3. i \in 0 .. j - 1 \/ i = j
        BY <3>1
      <4> QED BY <4>1, <4>2, <4>3
    <3>8. f[j + 1] = c
      BY <3>3 DEF a, b, c
    <3>9. Good(j + 1)
      <4>1. j + 1 - 1 = j
        BY <3>1
      <4> DEFINE next == j + 1
      <4>2. Len(c) = 5 * next /\ next - 1 = j
        BY <3>1, <3>6, <4>1
      <4> HIDE DEF next
      <4>3. HeadersAt(c, next, hs)
        BY <3>7, <4>2
      <4>4. HeadersAt(c, j + 1, hs)
        BY <4>3 DEF next
      <4> HIDE DEF HeadersAt
      <4> QED BY <3>8, <4>4 DEF Good
    <3> QED BY <3>1, <3>9 DEF T, j
  <2>4. n - 1 \in T
    <3>1. n - 1 \in Nat /\ n - 1 \in 0 .. n - 1
      BY <1>1, <1>5
    <3> HIDE DEF T
    <3>2. \A k \in 0 .. n - 1 : k \in T
      BY <3>1, <2>2, <2>3, AllNumbersUpTo
    <3> QED BY <3>1, <3>2
  <2>5. Good(n)
    <3>1. n - 1 + 1 = n
      BY <1>1
    <3>2. Good(n - 1 + 1)
      BY <2>4
    <3> HIDE DEF Good
    <3> QED BY <3>1, <3>2
  <2>6. f[n] \in Seq(Tokens)
    BY <1>1, <1>5, <2>1
  <2> QED BY <2>1, <2>5, <2>6 DEF L, n, hs
<1> QED BY <1>1, <1>4, <1>5 DEF hs

(* The start of the headers' text, however its lines end. *)
LEMMA LinesStart ==
  ASSUME NEW r, Sound(r)
  PROVE  /\ FlattenSeq(lines(r)) \in Seq(Tokens)
         /\ \/ FlattenSeq(lines(r)) = <<>>
            \/ Len(FlattenSeq(lines(r))) > 0 /\ FlattenSeq(lines(r))[1] \notin Separators
<1> DEFINE hs == r.headers
           n == Len(hs)
           L == lines(r)
<1>1. /\ hs \in Seq((Tokens \ Separators) \X (Tokens \ Separators)) /\ n \in Nat
      /\ \A i \in 1 .. n : hs[i] \in (Tokens \ Separators) \X (Tokens \ Separators)
      /\ Len(r.eol) \in Nat
  BY DEF Sound
<1>2. L = [i \in 1 .. n |-> header_line(r, hs[i])]
  BY <1>1 DEF lines
<1> HIDE DEF hs, n, L
<1>3. \A i \in 1 .. n : header_line(r, hs[i]) \in Seq(Tokens)
  BY <1>1, HeaderLine
<1>4. L \in Seq(Seq(Tokens)) /\ Len(L) = n
  BY <1>1, <1>2, <1>3
<1>5. CASE n = 0
  <2>1. L = <<>>
    BY <1>4, <1>5, EmptySeq
  <2>2. FlattenSeq(L) = <<>> /\ <<>> \in Seq(Tokens)
    BY <2>1 DEF FlattenSeq
  <2> QED BY <2>2 DEF L
<1>6. CASE n > 0
  <2> DEFINE a == header_line(r, hs[1])
             b == FlattenSeq(Tail(L))
  <2>1. 1 \in 1 .. n /\ L[1] = a
    BY <1>1, <1>2, <1>6
  <2>2. hs[1] \in (Tokens \ Separators) \X (Tokens \ Separators)
    BY <1>1, <2>1
  <2>3. a \in Seq(Tokens) /\ Len(a) > 0 /\ a[1] = hs[1][1] /\ a[1] \notin Separators
    <3>1. a \in Seq(Tokens) /\ Len(a) = 3 + Len(r.eol) /\ a[1] = hs[1][1]
      BY <2>2, HeaderLine
    <3> QED BY <1>1, <2>2, <3>1
  <2>4. b \in Seq(Tokens) /\ FlattenSeq(L) = joined(a, b)
    BY <1>4, <1>6, <2>1, FlattenCons
  <2> HIDE DEF a, b
  <2>5. IsJoined(Tokens, joined(a, b), a, b)
    BY <2>3, <2>4, JoinedText
  <2> DEFINE f == FlattenSeq(L)
  <2>6. f = joined(a, b)
    BY <2>4
  <2> HIDE DEF f
  <2>7. f \in Seq(Tokens) /\ Len(f) > 0 /\ f[1] = a[1]
    BY <2>3, <2>5, <2>6 DEF IsJoined
  <2> QED BY <2>3, <2>7 DEF f, L
<1> QED BY <1>1, <1>5, <1>6

(* The request line, without its end. *)
LineAt(s, r) ==
  /\ s \in Seq(Tokens) /\ Len(s) >= Len(r.target) + 4
  /\ s[1] = r.method /\ s[2] = "SP"
  /\ \A i \in 1 .. Len(r.target) : s[i + 2] = r.target[i]
  /\ s[Len(r.target) + 3] = "SP" /\ s[Len(r.target) + 4] = "HTTP/1.1"

line_text(r) == joined(joined(<<r.method, "SP">>, r.target), <<"SP", "HTTP/1.1">>)

(* And it is what the request line is made of. *)
LEMMA LineText ==
  ASSUME NEW r, Sound(r)
  PROVE  LineAt(line_text(r), r) /\ Len(line_text(r)) = Len(r.target) + 4
<1> DEFINE a == <<r.method, "SP">>
           t == r.target
           n == Len(t)
           b == <<"SP", "HTTP/1.1">>
           at == joined(a, t)
           x == joined(at, b)
<1>1. a \in Seq(Tokens) /\ Len(a) = 2 /\ a[1] = r.method /\ a[2] = "SP"
  BY Kinds DEF Sound
<1>2. b \in Seq(Tokens) /\ Len(b) = 2 /\ b[1] = "SP" /\ b[2] = "HTTP/1.1"
  BY Kinds
<1>3. t \in Seq(Tokens) /\ n \in Nat
  <2>1. t \in Seq(Tokens \ Separators)
    BY DEF Sound
  <2> QED BY <2>1
<1> HIDE DEF a, t, b, n
<1>4. IsJoined(Tokens, at, a, t)
  BY <1>1, <1>3, JoinedText
<1> HIDE DEF at
<1>5. IsJoined(Tokens, x, at, b)
  <2>1. at \in Seq(Tokens)
    BY <1>4 DEF IsJoined
  <2> QED BY <1>2, <2>1, JoinedText
<1> HIDE DEF x
<1>6. Len(at) = n + 2 /\ Len(x) = n + 4 /\ x \in Seq(Tokens)
  BY <1>1, <1>2, <1>3, <1>4, <1>5 DEF IsJoined, n
<1>7. at[1] = a[1] /\ at[2] = a[2] /\ \A i \in 1 .. n : at[2 + i] = t[i]
  BY <1>1, <1>4 DEF IsJoined, n
<1>8. \A i \in 1 .. n + 2 : x[i] = at[i]
  BY <1>5, <1>6 DEF IsJoined
<1>9. x[n + 3] = b[1] /\ x[n + 4] = b[2]
  <2>1. 1 \in 1 .. Len(b) /\ 2 \in 1 .. Len(b) /\ Len(at) + 1 = n + 3 /\ Len(at) + 2 = n + 4
    BY <1>2, <1>3, <1>6
  <2> QED BY <1>5, <2>1 DEF IsJoined
<1>10. x[1] = a[1] /\ x[2] = a[2] /\ \A i \in 1 .. n : x[i + 2] = t[i]
  <2>1. 1 \in 1 .. n + 2 /\ 2 \in 1 .. n + 2 /\ \A i \in 1 .. n : 2 + i \in 1 .. n + 2 /\ 2 + i = i + 2
    BY <1>3
  <2> QED BY <1>7, <1>8, <2>1
<1>11. LineAt(x, r) /\ Len(x) = n + 4
  <2>1. Len(x) >= n + 4
    BY <1>3, <1>6
  <2> QED BY <1>1, <1>2, <1>6, <1>9, <1>10, <2>1 DEF LineAt, n, t
<1> QED BY <1>11 DEF line_text, x, at, a, b, n, t

(* Where the headers begin, and where the head ends, when lines end with CR LF. *)
headers_at(r) == Len(r.target) + 6
head_end(r) == headers_at(r) + 5 * Len(r.headers) + 2

Text(s, r) ==
  /\ LineAt(s, r) /\ Len(s) = head_end(r) + r.body
  /\ s[Len(r.target) + 5] = "CR" /\ s[Len(r.target) + 6] = "LF"
  /\ \A i \in 0 .. Len(r.headers) - 1 : HeaderAt(s, headers_at(r) + 5 * i, r.headers[i + 1])
  /\ s[headers_at(r) + 5 * Len(r.headers) + 1] = "CR"
  /\ s[headers_at(r) + 5 * Len(r.headers) + 2] = "LF"
  /\ \A i \in 1 .. r.body : s[head_end(r) + i] = "BODY"

(* When they end with something else, its request line is followed by what is
   no line end to parse_one_line. *)
Bare(s, r) ==
  /\ LineAt(s, r) /\ Len(s) >= Len(r.target) + 6
  /\ \/ s[Len(r.target) + 5] = "LF"
     \/ (s[Len(r.target) + 5] = "CR" /\ s[Len(r.target) + 6] # "LF")

(* A request as it is written, put together pairwise. *)
LEMMA WrittenParts ==
  ASSUME NEW r
  PROVE  written(r) = joined(joined(joined(joined(line_text(r), r.eol), FlattenSeq(lines(r))), r.eol),
                             [i \in 1 .. r.body |-> "BODY"])
BY DEF written, line_text, lines, joined

(* What a client writes when its lines end with CR LF ... *)
LEMMA WrittenText ==
  ASSUME NEW r, Sound(r), r.eol = <<"CR", "LF">>
  PROVE  Text(written(r), r)
<1> DEFINE n == Len(r.headers)
           k == Len(r.target)
           a == line_text(r)
           e == r.eol
           f == FlattenSeq(lines(r))
           b == [i \in 1 .. r.body |-> "BODY"]
           ae == joined(a, e)
           af == joined(ae, f)
           afz == joined(af, e)
           w == joined(afz, b)
<1>1. n \in Nat /\ r.body \in Nat /\ k \in Nat
  BY DEF Sound
<1>2. written(r) = w
  BY WrittenParts
<1>3. a \in Seq(Tokens) /\ Len(a) = k + 4 /\ LineAt(a, r)
  BY LineText DEF LineAt
<1>4. f \in Seq(Tokens) /\ Len(f) = 5 * n /\ \A i \in 0 .. n - 1 : HeaderAt(f, 5 * i, r.headers[i + 1])
  BY LinesText
<1>5. e \in Seq(Tokens) /\ Len(e) = 2 /\ e[1] = "CR" /\ e[2] = "LF"
  BY Kinds
<1>6. b \in Seq(Tokens) /\ Len(b) = r.body /\ \A i \in 1 .. r.body : b[i] = "BODY"
  BY <1>1, Kinds
<1> DEFINE B == r.body
<1> HIDE DEF n, k, a, e, f, b, B
<1>7. IsJoined(Tokens, ae, a, e)
  BY <1>3, <1>5, JoinedText
<1>8. ae \in Seq(Tokens) /\ Len(ae) = k + 6
  BY <1>1, <1>3, <1>5, <1>7 DEF IsJoined
<1> HIDE DEF ae
<1>9. IsJoined(Tokens, af, ae, f)
  BY <1>4, <1>8, JoinedText
<1>10. af \in Seq(Tokens) /\ Len(af) = k + 6 + 5 * n
  BY <1>1, <1>4, <1>8, <1>9 DEF IsJoined
<1> HIDE DEF af
<1>11. IsJoined(Tokens, afz, af, e)
  BY <1>5, <1>10, JoinedText
<1>12. afz \in Seq(Tokens) /\ Len(afz) = k + 6 + 5 * n + 2
  BY <1>1, <1>5, <1>10, <1>11 DEF IsJoined
<1> HIDE DEF afz
<1>13. IsJoined(Tokens, w, afz, b)
  BY <1>6, <1>12, JoinedText
<1>14. w \in Seq(Tokens) /\ Len(w) = k + 6 + 5 * n + 2 + B
  BY <1>1, <1>6, <1>12, <1>13 DEF IsJoined, B
<1> HIDE DEF w
<1>15. /\ \A i \in 1 .. k + 4 : ae[i] = a[i]
       /\ ae[k + 5] = "CR" /\ ae[k + 6] = "LF"
  <2>1. 1 \in 1 .. Len(e) /\ 2 \in 1 .. Len(e) /\ Len(a) + 1 = k + 5 /\ Len(a) + 2 = k + 6
    BY <1>1, <1>3, <1>5
  <2>2. ae[Len(a) + 1] = e[1] /\ ae[Len(a) + 2] = e[2]
    BY <1>7, <2>1 DEF IsJoined
  <2>3. \A i \in 1 .. k + 4 : ae[i] = a[i]
    BY <1>3, <1>7 DEF IsJoined
  <2> QED BY <1>5, <2>1, <2>2, <2>3
<1>16. \A i \in 1 .. k + 6 : w[i] = ae[i]
  <2>1. \A i \in 1 .. k + 6 : af[i] = ae[i]
    BY <1>8, <1>9 DEF IsJoined
  <2>2. \A i \in 1 .. k + 6 : i \in 1 .. k + 6 + 5 * n /\ i \in 1 .. k + 6 + 5 * n + 2
    BY <1>1
  <2>3. \A i \in 1 .. k + 6 : afz[i] = af[i]
    BY <1>10, <1>11, <2>2 DEF IsJoined
  <2>4. \A i \in 1 .. k + 6 : w[i] = afz[i]
    BY <1>12, <1>13, <2>2 DEF IsJoined
  <2> QED BY <2>1, <2>3, <2>4
<1>17. LineAt(w, r) /\ w[k + 5] = "CR" /\ w[k + 6] = "LF"
  <2>1. \A i \in 1 .. k + 4 : i \in 1 .. k + 6 /\ w[i] = a[i]
    BY <1>1, <1>15, <1>16
  <2>2. k + 5 \in 1 .. k + 6 /\ k + 6 \in 1 .. k + 6 /\ Len(w) >= k + 4
    <3>1. k \in Nat /\ n \in Nat /\ B \in Nat
      BY <1>1 DEF B
    <3> DEFINE l == Len(w)
    <3>2. l = k + 6 + 5 * n + 2 + B
      BY <1>14
    <3> HIDE DEF l
    <3>3. l >= k + 4
      BY <3>1, <3>2
    <3> QED BY <3>1, <3>3 DEF l
  <2>3. 1 \in 1 .. k + 4 /\ 2 \in 1 .. k + 4 /\ k + 3 \in 1 .. k + 4 /\ k + 4 \in 1 .. k + 4 /\ \A i \in 1 .. k : i + 2 \in 1 .. k + 4
    BY <1>1
  <2>4. w[k + 5] = "CR" /\ w[k + 6] = "LF"
    BY <1>15, <1>16, <2>2
  <2>5. LineAt(w, r)
    BY <1>3, <1>14, <2>1, <2>2, <2>3 DEF LineAt, k
  <2> QED BY <2>4, <2>5
<1>18. ASSUME NEW i \in 0 .. n - 1 PROVE HeaderAt(w, k + 6 + 5 * i, r.headers[i + 1])
  <2>1. \A p \in 1 .. 5 : /\ 5 * i + p \in 1 .. 5 * n /\ k + 6 + (5 * i + p) = k + 6 + 5 * i + p
                          /\ k + 6 + 5 * i + p \in 1 .. k + 6 + 5 * n /\ k + 6 + 5 * i + p \in 1 .. k + 6 + 5 * n + 2
    BY <1>1
  <2>2. \A p \in 1 .. 5 : w[k + 6 + 5 * i + p] = f[5 * i + p]
    <3> SUFFICES ASSUME NEW p \in 1 .. 5 PROVE w[k + 6 + 5 * i + p] = f[5 * i + p]
      OBVIOUS
    <3>1. w[k + 6 + 5 * i + p] = afz[k + 6 + 5 * i + p]
      BY <1>12, <1>13, <2>1 DEF IsJoined
    <3>2. afz[k + 6 + 5 * i + p] = af[k + 6 + 5 * i + p]
      BY <1>10, <1>11, <2>1 DEF IsJoined
    <3>3. af[k + 6 + (5 * i + p)] = f[5 * i + p]
      BY <1>4, <1>8, <1>9, <2>1 DEF IsJoined
    <3> QED BY <2>1, <3>1, <3>2, <3>3
  <2>3. HeaderAt(f, 5 * i, r.headers[i + 1])
    BY <1>4
  <2>4. 1 \in 1 .. 5 /\ 2 \in 1 .. 5 /\ 3 \in 1 .. 5 /\ 4 \in 1 .. 5 /\ 5 \in 1 .. 5
    OBVIOUS
  <2> QED BY <2>2, <2>3, <2>4 DEF HeaderAt
<1>19. w[k + 6 + 5 * n + 1] = "CR" /\ w[k + 6 + 5 * n + 2] = "LF"
  <2>1. /\ 1 \in 1 .. Len(e) /\ 2 \in 1 .. Len(e)
        /\ k + 6 + 5 * n + 1 \in 1 .. k + 6 + 5 * n + 2 /\ k + 6 + 5 * n + 2 \in 1 .. k + 6 + 5 * n + 2
    BY <1>1, <1>5
  <2>2. afz[k + 6 + 5 * n + 1] = e[1] /\ afz[k + 6 + 5 * n + 2] = e[2]
    BY <1>10, <1>11, <2>1 DEF IsJoined
  <2>3. w[k + 6 + 5 * n + 1] = afz[k + 6 + 5 * n + 1] /\ w[k + 6 + 5 * n + 2] = afz[k + 6 + 5 * n + 2]
    BY <1>12, <1>13, <2>1 DEF IsJoined
  <2> QED BY <1>5, <2>2, <2>3
<1>20. \A i \in 1 .. B : w[k + 6 + 5 * n + 2 + i] = "BODY"
  BY <1>6, <1>12, <1>13 DEF IsJoined, B
<1> QED BY <1>1, <1>2, <1>14, <1>17, <1>18, <1>19, <1>20 DEF Text, headers_at, head_end, n, k, B

(* ... and when they end with something else. *)
LEMMA WrittenBare ==
  ASSUME NEW r, Sound(r), r.eol # <<"CR", "LF">>
  PROVE  Bare(written(r), r)
<1> DEFINE k == Len(r.target)
           a == line_text(r)
           e == r.eol
           f == FlattenSeq(lines(r))
           b == [i \in 1 .. r.body |-> "BODY"]
           ae == joined(a, e)
           af == joined(ae, f)
           afz == joined(af, e)
           w == joined(afz, b)
<1>1. r.body \in Nat /\ k \in Nat
  BY DEF Sound
<1>2. written(r) = w
  BY WrittenParts
<1>3. a \in Seq(Tokens) /\ Len(a) = k + 4 /\ LineAt(a, r)
  BY LineText DEF LineAt
<1>4. f \in Seq(Tokens) /\ (f = <<>> \/ (Len(f) > 0 /\ f[1] \notin Separators))
  BY LinesStart
<1>5. e \in Seq(Tokens) /\ Len(e) = 1 /\ e[1] \in {"CR", "LF"}
  <2>1. e = <<"CR">> \/ e = <<"LF">>
    BY DEF Sound
  <2>2. "CR" \in Tokens /\ "LF" \in Tokens
    BY Kinds
  <2> HIDE DEF e
  <2>3. CASE e = <<"CR">>
    BY <2>2, <2>3
  <2>4. CASE e = <<"LF">>
    BY <2>2, <2>4
  <2> QED BY <2>1, <2>3, <2>4
<1>6. b \in Seq(Tokens)
  BY <1>1, Kinds
<1> HIDE DEF k, a, e, f, b
<1>7. IsJoined(Tokens, ae, a, e)
  BY <1>3, <1>5, JoinedText
<1>8. ae \in Seq(Tokens) /\ Len(ae) = k + 5 /\ ae[k + 5] = e[1] /\ \A i \in 1 .. k + 4 : ae[i] = a[i]
  BY <1>1, <1>3, <1>5, <1>7 DEF IsJoined
<1> HIDE DEF ae
<1>9. IsJoined(Tokens, af, ae, f)
  BY <1>4, <1>8, JoinedText
<1> HIDE DEF af
<1>11. IsJoined(Tokens, afz, af, e)
  <2>1. af \in Seq(Tokens)
    BY <1>9 DEF IsJoined
  <2> QED BY <1>5, <2>1, JoinedText
<1>12. /\ afz \in Seq(Tokens) /\ Len(afz) >= k + 6 /\ Len(afz) \in Nat
       /\ (afz[k + 6] = e[1] \/ afz[k + 6] \notin Separators)
       /\ \A i \in 1 .. k + 5 : afz[i] = ae[i]
  <2>1. CASE f = <<>>
    <3>1. Len(f) = 0
      BY <2>1
    <3>2. Len(af) = k + 5 /\ \A i \in 1 .. k + 5 : af[i] = ae[i]
      BY <1>1, <1>8, <1>9, <3>1 DEF IsJoined
    <3>3. afz \in Seq(Tokens) /\ Len(afz) = k + 6 /\ afz[k + 6] = e[1] /\ \A i \in 1 .. k + 5 : afz[i] = af[i]
      BY <1>1, <1>5, <1>11, <3>2 DEF IsJoined
    <3> QED BY <1>1, <2>1, <3>2, <3>3
  <2>2. CASE Len(f) > 0 /\ f[1] \notin Separators
    <3>1. /\ Len(af) = k + 5 + Len(f) /\ Len(f) \in Nat /\ af[k + 6] = f[1]
          /\ \A i \in 1 .. k + 5 : af[i] = ae[i]
      BY <1>1, <1>8, <1>9, <2>2, SMTT(30) DEF IsJoined
    <3>2. k + 6 \in 1 .. Len(af) /\ \A i \in 1 .. k + 5 : i \in 1 .. Len(af)
      BY <1>1, <2>2, <3>1
    <3>3. afz \in Seq(Tokens) /\ Len(afz) = k + 5 + Len(f) + 1 /\ \A i \in 1 .. Len(af) : afz[i] = af[i]
      BY <1>1, <1>5, <1>11, <3>1 DEF IsJoined
    <3>4. afz[k + 6] = f[1] /\ \A i \in 1 .. k + 5 : afz[i] = ae[i]
      BY <3>1, <3>2, <3>3
    <3>5. Len(afz) >= k + 6 /\ Len(afz) \in Nat
      BY <1>1, <2>2, <3>1, <3>3
    <3> QED BY <2>2, <3>3, <3>4, <3>5
  <2> QED BY <1>4, <2>1, <2>2
<1> HIDE DEF afz
<1>13. IsJoined(Tokens, w, afz, b)
  BY <1>6, <1>12, JoinedText
<1>14. w \in Seq(Tokens) /\ Len(w) >= k + 6 /\ \A i \in 1 .. k + 6 : w[i] = afz[i]
  BY <1>1, <1>12, <1>13 DEF IsJoined
<1> HIDE DEF w
<1>15. /\ w[k + 5] = e[1] /\ w[k + 6] = afz[k + 6] /\ \A i \in 1 .. k + 4 : w[i] = a[i]
  <2>1. /\ k + 5 \in 1 .. k + 6 /\ k + 5 \in 1 .. k + 5 /\ k + 6 \in 1 .. k + 6
        /\ \A i \in 1 .. k + 4 : i \in 1 .. k + 6 /\ i \in 1 .. k + 5
    BY <1>1
  <2> QED BY <1>8, <1>12, <1>14, <2>1
<1>16. LineAt(w, r)
  <2>3. 1 \in 1 .. k + 4 /\ 2 \in 1 .. k + 4 /\ k + 3 \in 1 .. k + 4 /\ k + 4 \in 1 .. k + 4 /\ \A i \in 1 .. k : i + 2 \in 1 .. k + 4
    BY <1>1
  <2>4. Len(w) >= k + 4
    BY <1>1, <1>14
  <2> QED BY <1>3, <1>14, <1>15, <2>3, <2>4 DEF LineAt, k
<1>17. e[1] = "LF" \/ (e[1] = "CR" /\ afz[k + 6] # "LF")
  BY <1>5, <1>12 DEF Separators
<1> QED BY <1>2, <1>14, <1>15, <1>16, <1>17 DEF Bare, k
-----------------------------------------------------------------------------
(* Where the n-th line has ended. *)
Pos(r, n) ==
  IF n = 0 THEN 0
  ELSE IF n <= Len(r.headers) + 1 THEN headers_at(r) + 5 * (n - 1)
  ELSE head_end(r)

(* These places in numbers. *)
LEMMA Positions ==
  ASSUME NEW r, Sound(r)
  PROVE  /\ Len(r.headers) \in Nat /\ Len(r.target) \in 1 .. 3 /\ r.body \in Nat
         /\ headers_at(r) = Len(r.target) + 6 /\ head_end(r) = headers_at(r) + 5 * Len(r.headers) + 2
         /\ headers_at(r) \in Nat /\ head_end(r) \in Nat
         /\ Pos(r, 0) = 0 /\ Pos(r, 1) = headers_at(r)
         /\ Pos(r, Len(r.headers) + 1) = head_end(r) - 2 /\ Pos(r, Len(r.headers) + 2) = head_end(r)
         /\ \A n \in 1 .. Len(r.headers) : /\ Pos(r, n) = headers_at(r) + 5 * (n - 1)
                                           /\ Pos(r, n + 1) = headers_at(r) + 5 * (n - 1) + 5
         /\ \A n \in 0 .. Len(r.headers) + 2 : Pos(r, n) \in Nat /\ Pos(r, n) <= head_end(r)
         /\ \A n \in 0 .. Len(r.headers) + 1 : Pos(r, n) + 2 <= Pos(r, n + 1)
         /\ \A n \in 0 .. Len(r.headers) + 2 : n <= Pos(r, n) /\ n + 1 <= head_end(r)
<1> DEFINE h == Len(r.headers)
           k == Len(r.target)
           p == headers_at(r)
           e == head_end(r)
<1>1. h \in Nat /\ k \in 1 .. 3 /\ r.body \in Nat
  BY DEF Sound
<1> HIDE DEF h, k
<1>2. p = k + 6 /\ e = p + 5 * h + 2
  BY DEF headers_at, head_end, h, k
<1>3. \A n : Pos(r, n) = IF n = 0 THEN 0 ELSE IF n <= h + 1 THEN p + 5 * (n - 1) ELSE e
  BY DEF Pos, h
<1> HIDE DEF p, e
<1>4. p \in Nat /\ p >= 7 /\ e \in Nat
  BY <1>1, <1>2
<1>5. Pos(r, 0) = 0 /\ Pos(r, 1) = p /\ Pos(r, h + 1) = e - 2 /\ Pos(r, h + 2) = e
  <2>1. 1 # 0 /\ h + 1 # 0 /\ h + 2 # 0 /\ 1 <= h + 1 /\ h + 1 <= h + 1 /\ ~(h + 2 <= h + 1)
    BY <1>1
  <2>2. p + 5 * (1 - 1) = p /\ p + 5 * ((h + 1) - 1) = e - 2
    BY <1>1, <1>2, <1>4
  <2>3. Pos(r, 0) = 0
    BY <1>3
  <2>4. Pos(r, 1) = p + 5 * (1 - 1)
    BY <1>3, <2>1
  <2>5. Pos(r, h + 1) = e - 2
    <3>1. \A g : g = h + 1 => g # 0 /\ g <= h + 1 /\ p + 5 * (g - 1) = e - 2
      BY <2>1, <2>2
    <3>2. \A g : g = h + 1 => Pos(r, g) = e - 2
      BY <1>3, <3>1
    <3> QED BY <3>2
  <2>6. Pos(r, h + 2) = e
    BY <1>3, <2>1
  <2> QED BY <2>2, <2>3, <2>4, <2>5, <2>6
<1>6. ASSUME NEW n \in 1 .. h PROVE Pos(r, n) = p + 5 * (n - 1) /\ Pos(r, n + 1) = p + 5 * (n - 1) + 5
  <2>1. n # 0 /\ n <= h + 1 /\ n + 1 # 0 /\ n + 1 <= h + 1 /\ p + 5 * (n + 1 - 1) = p + 5 * (n - 1) + 5
    BY <1>1, <1>4
  <2> QED BY <1>3, <2>1
<1>7. ASSUME NEW n \in 0 .. h + 2 PROVE /\ Pos(r, n) \in Nat /\ Pos(r, n) <= e
                                        /\ n <= Pos(r, n) /\ n + 1 <= e
  <2>1. CASE n = 0
    BY <1>1, <1>2, <1>4, <1>5, <2>1
  <2>2. CASE n \in 1 .. h + 1
    <3>1. n # 0 /\ n <= h + 1
      BY <1>1, <2>2
    <3>2. Pos(r, n) = p + 5 * (n - 1)
      BY <1>3, <3>1
    <3> QED BY <1>1, <1>2, <1>4, <2>2, <3>2
  <2>3. CASE n = h + 2
    BY <1>1, <1>2, <1>4, <1>5, <2>3
  <2> QED BY <1>1, <2>1, <2>2, <2>3
<1>8. ASSUME NEW n \in 0 .. h + 1 PROVE Pos(r, n) + 2 <= Pos(r, n + 1)
  <2>1. CASE n = 0
    BY <1>4, <1>5, <2>1
  <2>2. CASE n \in 1 .. h
    <3>1. Pos(r, n) = p + 5 * (n - 1) /\ Pos(r, n + 1) = p + 5 * (n - 1) + 5
      BY <1>6, <2>2
    <3> QED BY <1>1, <1>4, <2>2, <3>1
  <2>3. CASE n = h + 1
    <3>1. n + 1 = h + 2
      BY <1>1, <2>3
    <3> QED BY <1>4, <1>5, <2>3, <3>1
  <2> QED BY <1>1, <2>1, <2>2, <2>3
<1> QED BY <1>1, <1>2, <1>4, <1>5, <1>6, <1>7, <1>8 DEF h, k, p, e

(* No line end from index a to index b. *)
NoEnd(s, a, b) == \A i \in a .. b - 1 : s[i + 1] \notin {"CR", "LF"}

(* A line from index a to index b, where the next one begins. *)
IsLine(s, a, b) == NoEnd(s, a, b - 2) /\ s[b - 1] = "CR" /\ s[b] = "LF"

(* The request line has no line end in it. *)
LEMMA PlainLine ==
  ASSUME NEW r, Sound(r), NEW s, LineAt(s, r)
  PROVE  NoEnd(s, 0, Len(r.target) + 4)
<1> DEFINE k == Len(r.target)
<1>1. k \in Nat /\ \A i \in 1 .. k : r.target[i] \notin Separators
  <2>1. r.target \in Seq(Tokens \ Separators)
    BY DEF Sound
  <2> QED BY <2>1
<1>2. r.method \notin Separators
  BY DEF Sound
<1>3. /\ s[1] = r.method /\ s[2] = "SP" /\ s[k + 3] = "SP" /\ s[k + 4] = "HTTP/1.1"
      /\ \A i \in 1 .. k : s[i + 2] = r.target[i]
  BY DEF LineAt
<1> HIDE DEF k
<1> SUFFICES ASSUME NEW i \in 0 .. k + 4 - 1 PROVE s[i + 1] \notin {"CR", "LF"}
  BY DEF NoEnd, k
<1>4. i = 0 \/ i = 1 \/ i - 1 \in 1 .. k \/ i + 1 = k + 3 \/ i + 1 = k + 4
  BY <1>1
<1>5. CASE i = 0
  BY <1>2, <1>3, <1>5 DEF Separators
<1>6. CASE i = 1
  BY <1>3, <1>6
<1>7. CASE i - 1 \in 1 .. k
  <2>1. s[i - 1 + 2] = r.target[i - 1] /\ i - 1 + 2 = i + 1 /\ r.target[i - 1] \notin Separators
    BY <1>1, <1>3, <1>7
  <2> QED BY <2>1 DEF Separators
<1>8. CASE i + 1 = k + 3 \/ i + 1 = k + 4
  BY <1>3, <1>8
<1> QED BY <1>4, <1>5, <1>6, <1>7, <1>8

(* The head of a request, line by line. *)
LEMMA HeadLines ==
  ASSUME NEW r, Sound(r), NEW s, Text(s, r), NEW n \in 0 .. Len(r.headers) + 1
  PROVE  IsLine(s, Pos(r, n), Pos(r, n + 1))
<1> DEFINE h == Len(r.headers)
           k == Len(r.target)
           p == headers_at(r)
<1>1. /\ h \in Nat /\ k \in 1 .. 3 /\ p = k + 6 /\ p \in Nat
      /\ Pos(r, 0) = 0 /\ Pos(r, 1) = p /\ Pos(r, h + 1) = p + 5 * h /\ Pos(r, h + 2) = p + 5 * h + 2
      /\ \A i \in 1 .. h : Pos(r, i) = p + 5 * (i - 1) /\ Pos(r, i + 1) = p + 5 * (i - 1) + 5
  <2>1. head_end(r) = p + 5 * h + 2 /\ head_end(r) - 2 = p + 5 * h
    BY Positions
  <2> QED BY <2>1, Positions
<1>2. /\ LineAt(s, r) /\ s[k + 5] = "CR" /\ s[k + 6] = "LF"
      /\ \A i \in 0 .. h - 1 : HeaderAt(s, p + 5 * i, r.headers[i + 1])
      /\ s[p + 5 * h + 1] = "CR" /\ s[p + 5 * h + 2] = "LF"
  BY DEF Text
<1>3. \A i \in 1 .. h : r.headers[i][1] \notin Separators /\ r.headers[i][2] \notin Separators
  <2>1. r.headers \in Seq((Tokens \ Separators) \X (Tokens \ Separators))
    BY DEF Sound
  <2>2. \A i \in 1 .. h : r.headers[i] \in (Tokens \ Separators) \X (Tokens \ Separators)
    BY <2>1
  <2> QED BY <2>2
<1>4. NoEnd(s, 0, k + 4)
  BY <1>2, PlainLine
<1> HIDE DEF h, k, p
<1>5. CASE n = 0
  <2>1. p - 2 = k + 4 /\ p - 1 = k + 5 /\ 0 + 1 = 1
    BY <1>1
  <2> QED BY <1>1, <1>2, <1>4, <1>5, <2>1 DEF IsLine
<1>6. CASE n \in 1 .. h
  <2> DEFINE q == p + 5 * (n - 1)
  <2>1. HeaderAt(s, q, r.headers[n]) /\ q \in Nat
    <3>1. n - 1 \in 0 .. h - 1 /\ n - 1 + 1 = n
      BY <1>1, <1>6
    <3>2. HeaderAt(s, p + 5 * (n - 1), r.headers[n - 1 + 1])
      BY <1>2, <3>1
    <3> QED BY <1>1, <1>6, <3>1, <3>2
  <2>2. Pos(r, n) = q /\ Pos(r, n + 1) = q + 5
    BY <1>1, <1>6
  <2>3. r.headers[n][1] \notin Separators /\ r.headers[n][2] \notin Separators
    BY <1>3, <1>6
  <2> HIDE DEF q
  <2>4. q + 5 - 2 = q + 3 /\ q + 5 - 1 = q + 4 /\ \A i \in q .. q + 3 - 1 : i + 1 \in {q + 1, q + 2, q + 3}
    BY <2>1
  <2>5. \A j \in {q + 1, q + 2, q + 3} : s[j] \notin {"CR", "LF"}
    BY <2>1, <2>3 DEF HeaderAt, Separators
  <2> QED BY <2>1, <2>2, <2>4, <2>5, SMTT(30) DEF IsLine, NoEnd, HeaderAt
<1>7. CASE n = h + 1
  <2>1. n + 1 = h + 2 /\ p + 5 * h + 2 - 2 = p + 5 * h /\ p + 5 * h + 2 - 1 = p + 5 * h + 1
    BY <1>1, <1>7
  <2>2. NoEnd(s, p + 5 * h, p + 5 * h)
    <3>1. p + 5 * h \in Int
      BY <1>1
    <3> QED BY <3>1 DEF NoEnd
  <2> QED BY <1>1, <1>2, <1>7, <2>1, <2>2 DEF IsLine
<1>8. n = 0 \/ n \in 1 .. h \/ n = h + 1
  BY <1>1 DEF h
<1> QED BY <1>5, <1>6, <1>7, <1>8

(* Nor has a body any. *)
LEMMA NoEndInBody ==
  ASSUME NEW r, Sound(r), NEW s, Text(s, r), NEW b \in Nat, b <= Len(s)
  PROVE  NoEnd(s, head_end(r), b)
<1>1. head_end(r) \in Nat /\ r.body \in Nat /\ Len(s) = head_end(r) + r.body
  BY Positions DEF Text
<1>2. \A i \in 1 .. r.body : s[head_end(r) + i] = "BODY"
  BY DEF Text
<1> DEFINE e == head_end(r)
<1> HIDE DEF e
<1> SUFFICES ASSUME NEW i \in e .. b - 1 PROVE s[i + 1] \notin {"CR", "LF"}
  BY DEF NoEnd, e
<1>3. i + 1 - e \in 1 .. r.body /\ e + (i + 1 - e) = i + 1
  BY <1>1 DEF e
<1> QED BY <1>2, <1>3 DEF e

(* What parse_one_line makes of the first line end, at index i. *)
LineEnd(line, checked) == [status |-> line, checked |-> checked]

ended(s, i) ==
  IF s[i + 1] = "LF"
  THEN IF i > 1 /\ s[i] = "CR" THEN LineEnd("OK", i + 1) ELSE LineEnd("BAD", i)
  ELSE IF i + 1 = Len(s) THEN LineEnd("OPEN", i)
  ELSE IF s[i + 2] = "LF" THEN LineEnd("OK", i + 2) ELSE LineEnd("BAD", i)

(* The first line end decides ... *)
LEMMA LineEnds ==
  ASSUME NEW c, NEW q \in Nat, c.m_checked_idx = q, Len(c.m_rd_buf) \in Nat, NEW i \in Nat, q <= i,
         i < Len(c.m_rd_buf), NoEnd(c.m_rd_buf, q, i), c.m_rd_buf[i + 1] \in {"CR", "LF"}
  PROVE  parse_one_line(c) = ended(c.m_rd_buf, i)
<1> DEFINE s == c.m_rd_buf
           n == Len(s)
           ends == {j \in q .. n - 1 : s[j + 1] \in {"CR", "LF"}}
           first == CHOOSE e \in ends : \A f \in ends : e <= f
<1>1. n \in Nat /\ i < n /\ NoEnd(s, q, i) /\ s[i + 1] \in {"CR", "LF"}
  OBVIOUS
<1>2. parse_one_line(c) =
        IF ends = {} THEN LineEnd("OPEN", n)
        ELSE IF s[first + 1] = "LF"
             THEN IF first > 1 /\ s[first - 1 + 1] = "CR" THEN LineEnd("OK", first + 1) ELSE LineEnd("BAD", first)
        ELSE IF first + 1 = n THEN LineEnd("OPEN", first)
        ELSE IF s[first + 1 + 1] = "LF" THEN LineEnd("OK", first + 2) ELSE LineEnd("BAD", first)
  BY Zenon DEF parse_one_line, m_rd_idx, char, LineEnd
<1> HIDE DEF s, n
<1>3. i \in ends /\ \A f \in ends : i <= f
  <2>1. i \in ends
    BY <1>1
  <2>2. ASSUME NEW f \in ends PROVE i <= f
    <3>1. f \in q .. n - 1 /\ s[f + 1] \in {"CR", "LF"}
      OBVIOUS
    <3>2. ~(f \in q .. i - 1)
      BY <1>1, <3>1 DEF NoEnd
    <3> QED BY <1>1, <3>1, <3>2
  <2> QED BY <2>1, <2>2
<1>4. \A f \in ends : f \in Int
  BY <1>1
<1> HIDE DEF ends
<1>5. first = i
  <2>1. \A e \in ends : (\A f \in ends : e <= f) => e = i
    BY <1>3, <1>4
  <2> QED BY <1>3, <2>1
<1> HIDE DEF first
<1>6. ends # {} /\ i - 1 + 1 = i /\ i + 1 + 1 = i + 2
  BY <1>3
<1>7. parse_one_line(c) =
        IF s[i + 1] = "LF"
        THEN IF i > 1 /\ s[i] = "CR" THEN LineEnd("OK", i + 1) ELSE LineEnd("BAD", i)
        ELSE IF i + 1 = n THEN LineEnd("OPEN", i)
        ELSE IF s[i + 2] = "LF" THEN LineEnd("OK", i + 2) ELSE LineEnd("BAD", i)
  BY <1>2, <1>5, <1>6
<1> QED BY <1>7, Zenon DEF ended, s, n

(* ... and when there is none, all was checked. *)
LEMMA LineOpen ==
  ASSUME NEW c, NEW q \in Nat, c.m_checked_idx = q, Len(c.m_rd_buf) \in Nat,
         NoEnd(c.m_rd_buf, q, Len(c.m_rd_buf))
  PROVE  parse_one_line(c) = LineEnd("OPEN", Len(c.m_rd_buf))
<1> DEFINE s == c.m_rd_buf
           n == Len(s)
<1>1. {j \in q .. n - 1 : s[j + 1] \in {"CR", "LF"}} = {}
  BY DEF NoEnd
<1> QED BY <1>1 DEF parse_one_line, m_rd_idx, char, LineEnd

(* There is a first line end, or none. *)
LEMMA EndOrNone ==
  ASSUME NEW s, Len(s) \in Nat, NEW q \in Nat, q <= Len(s)
  PROVE  \/ NoEnd(s, q, Len(s))
         \/ \E i \in Nat : q <= i /\ i < Len(s) /\ NoEnd(s, q, i) /\ s[i + 1] \in {"CR", "LF"}
<1> DEFINE n == Len(s)
           ends == {j \in Nat : q <= j /\ j < n /\ s[j + 1] \in {"CR", "LF"}}
<1>1. CASE ends = {}
  <2>1. NoEnd(s, q, n)
    <3> SUFFICES ASSUME NEW i \in q .. n - 1 PROVE s[i + 1] \notin {"CR", "LF"}
      BY DEF NoEnd
    <3>1. i \in Nat /\ q <= i /\ i < n
      OBVIOUS
    <3> QED BY <1>1, <3>1
  <2> QED BY <2>1
<1>2. CASE ends # {}
  <2>1. PICK i \in ends : \A k \in ends : i <= k
    <3>1. ends \in SUBSET Nat
      OBVIOUS
    <3> HIDE DEF ends
    <3> QED BY <1>2, <3>1, Least
  <2>2. NoEnd(s, q, i)
    <3> SUFFICES ASSUME NEW j \in q .. i - 1, s[j + 1] \in {"CR", "LF"} PROVE FALSE
      BY DEF NoEnd
    <3>1. j \in ends /\ j < i
      BY <2>1
    <3> QED BY <2>1, <3>1
  <2> QED BY <2>1, <2>2
<1> QED BY <1>1, <1>2

(* Looking again from further on finds the same. *)
LEMMA LineAgain ==
  ASSUME NEW c, NEW d, NEW s, Len(s) \in Nat, c.m_rd_buf = s, d.m_rd_buf = s, NEW p \in Nat, NEW q \in Nat,
         c.m_checked_idx = p, d.m_checked_idx = q, p <= q, q <= Len(s), NoEnd(s, p, q)
  PROVE  parse_one_line(d) = parse_one_line(c)
<1>1. \A j \in Nat : q <= j /\ NoEnd(s, q, j) => NoEnd(s, p, j)
  <2> SUFFICES ASSUME NEW j \in Nat, q <= j, NoEnd(s, q, j), NEW i \in p .. j - 1 PROVE s[i + 1] \notin {"CR", "LF"}
    BY DEF NoEnd
  <2>1. i \in p .. q - 1 \/ i \in q .. j - 1
    OBVIOUS
  <2> QED BY <2>1 DEF NoEnd
<1>2. CASE NoEnd(s, q, Len(s))
  <2>1. NoEnd(s, p, Len(s))
    BY <1>1, <1>2
  <2>2. parse_one_line(d) = LineEnd("OPEN", Len(s))
    BY <1>2, LineOpen
  <2>3. parse_one_line(c) = LineEnd("OPEN", Len(s))
    BY <2>1, LineOpen
  <2> QED BY <2>2, <2>3
<1>3. ASSUME NEW i \in Nat, q <= i, i < Len(s), NoEnd(s, q, i), s[i + 1] \in {"CR", "LF"}
      PROVE  parse_one_line(d) = parse_one_line(c)
  <2>1. NoEnd(s, p, i) /\ p <= i
    BY <1>1, <1>3
  <2>2. parse_one_line(d) = ended(s, i)
    BY <1>3, LineEnds
  <2>3. parse_one_line(c) = ended(s, i)
    BY <1>3, <2>1, LineEnds
  <2> QED BY <2>2, <2>3
<1>4. \/ NoEnd(s, q, Len(s))
      \/ \E i \in Nat : q <= i /\ i < Len(s) /\ NoEnd(s, q, i) /\ s[i + 1] \in {"CR", "LF"}
  BY EndOrNone
<1> QED BY <1>2, <1>3, <1>4

(* No line ends before the index where checking is to go on. *)
LEMMA NotALine ==
  ASSUME NEW c, NEW s, Len(s) \in Nat, c.m_rd_buf = s, NEW q \in Nat, c.m_checked_idx = q, q <= Len(s),
         parse_one_line(c).status # "OK"
  PROVE  /\ parse_one_line(c).checked \in Nat /\ q <= parse_one_line(c).checked
         /\ parse_one_line(c).checked <= Len(s) /\ NoEnd(s, q, parse_one_line(c).checked)
<1>1. CASE NoEnd(s, q, Len(s))
  <2>1. parse_one_line(c) = LineEnd("OPEN", Len(s))
    BY <1>1, LineOpen
  <2>2. parse_one_line(c).checked = Len(s)
    BY <2>1 DEF LineEnd
  <2> QED BY <1>1, <2>2
<1>2. ASSUME NEW i \in Nat, q <= i, i < Len(s), NoEnd(s, q, i), s[i + 1] \in {"CR", "LF"}
      PROVE  parse_one_line(c).checked = i
  <2>1. parse_one_line(c) = ended(s, i)
    BY <1>2, LineEnds
  <2> QED BY <2>1 DEF ended, LineEnd
<1>3. \/ NoEnd(s, q, Len(s))
      \/ \E i \in Nat : q <= i /\ i < Len(s) /\ NoEnd(s, q, i) /\ s[i + 1] \in {"CR", "LF"}
  BY EndOrNone
<1> QED BY <1>1, <1>2, <1>3

(* A whole line is found, and one of which the end is missing is not. *)
LEMMA LineFound ==
  ASSUME NEW c, NEW s, Len(s) \in Nat, c.m_rd_buf = s, NEW p \in Nat, NEW q \in Nat, c.m_checked_idx = p,
         p + 2 <= q, q <= Len(s), IsLine(s, p, q)
  PROVE  parse_one_line(c) = LineEnd("OK", q)
<1> DEFINE i == q - 2
<1>1. i \in Nat /\ p <= i /\ i < Len(s) /\ i + 1 = q - 1 /\ i + 2 = q /\ i + 1 # Len(s)
  OBVIOUS
<1>2. NoEnd(s, p, i) /\ s[i + 1] = "CR" /\ s[i + 2] = "LF"
  BY <1>1 DEF IsLine
<1> HIDE DEF i
<1>3. parse_one_line(c) = ended(s, i)
  BY <1>1, <1>2, LineEnds
<1>4. ended(s, i) = LineEnd("OK", i + 2)
  BY <1>1, <1>2 DEF ended
<1> QED BY <1>1, <1>3, <1>4

(* A line of which the end has not arrived. *)
LEMMA LineMissing ==
  ASSUME NEW c, NEW s, NEW w, Len(s) \in Nat, c.m_rd_buf = s, NEW p \in Nat, NEW q \in Nat, c.m_checked_idx = p,
         p <= Len(s), Len(s) < q, IsLine(w, p, q), \A i \in 1 .. Len(s) : s[i] = w[i]
  PROVE  parse_one_line(c).status = "OPEN"
<1> DEFINE n == Len(s)
<1>1. \A j \in Nat : j <= n /\ j <= q - 2 => NoEnd(s, p, j)
  <2> SUFFICES ASSUME NEW j \in Nat, j <= n, j <= q - 2, NEW i \in p .. j - 1 PROVE s[i + 1] \notin {"CR", "LF"}
    BY DEF NoEnd
  <2>1. i \in p .. q - 2 - 1 /\ i + 1 \in 1 .. n
    OBVIOUS
  <2> QED BY <2>1 DEF IsLine, NoEnd
<1>2. CASE n <= q - 2
  <2>1. NoEnd(s, p, n)
    BY <1>1, <1>2
  <2>2. parse_one_line(c) = LineEnd("OPEN", n)
    BY <2>1, LineOpen
  <2> QED BY <2>2 DEF LineEnd
<1>3. CASE n = q - 1 /\ n > p
  <2> DEFINE i == n - 1
  <2>1. i \in Nat /\ p <= i /\ i < n /\ i + 1 = n /\ i <= q - 2 /\ i <= n /\ n \in 1 .. n
    BY <1>3
  <2>2. NoEnd(s, p, i) /\ s[i + 1] = "CR"
    BY <1>1, <1>3, <2>1 DEF IsLine
  <2> HIDE DEF i
  <2>3. parse_one_line(c) = ended(s, i)
    BY <2>1, <2>2, LineEnds
  <2>4. ended(s, i) = LineEnd("OPEN", i)
    BY <2>1, <2>2 DEF ended
  <2> QED BY <2>3, <2>4 DEF LineEnd
<1>4. CASE n = q - 1 /\ n = p
  <2>1. NoEnd(s, p, n)
    BY <1>4 DEF NoEnd
  <2>2. parse_one_line(c) = LineEnd("OPEN", n)
    BY <2>1, LineOpen
  <2> QED BY <2>2 DEF LineEnd
<1> QED BY <1>2, <1>3, <1>4
-----------------------------------------------------------------------------
(* process_read begins with nothing found and goes on until it halts. *)
first(c) == [c |-> c, line |-> "OK", code |-> "NO_REQUEST", halt |-> FALSE]
turn(r) == IF r.halt THEN r ELSE round(r)

(* It halts with r after n rounds. *)
Reaches(c, r, n) ==
  \E g : g[0] = first(c) /\ (\A k \in 0 .. n - 1 : g[k + 1] = turn(g[k])) /\ g[n] = r /\ r.halt

rounds_of(c) ==
  CHOOSE f : f = [n \in 0 .. m_rd_idx(c) + 2 |-> IF n = 0 THEN first(c) ELSE turn(f[n - 1])]

(* Where the loop halts is what process_read returns, when it has the rounds. *)
LEMMA ReachesRead ==
  ASSUME NEW c, Len(c.m_rd_buf) \in Nat, NEW r, NEW n \in Nat, n <= Len(c.m_rd_buf) + 2, Reaches(c, r, n)
  PROVE  process_read(c) = r
<1> DEFINE N == Len(c.m_rd_buf) + 2
           F(h) == [k \in 0 .. N |-> IF k = 0 THEN first(c) ELSE turn(h[k - 1])]
           f == rounds_of(c)
<1>1. process_read(c) = f[N]
  BY Zenon DEF process_read, rounds_of, m_rd_idx, first, turn
<1>2. f = CHOOSE h : h = F(h)
  BY Zenon DEF rounds_of, m_rd_idx
<1>3. N \in Nat /\ n \in 0 .. N
  OBVIOUS
<1> HIDE DEF f, N
<1>4. PICK g : g[0] = first(c) /\ (\A k \in 0 .. n - 1 : g[k + 1] = turn(g[k])) /\ g[n] = r /\ r.halt
  BY DEF Reaches
<1> DEFINE h == [k \in 0 .. N |-> IF k <= n THEN g[k] ELSE r]
<1>5. h = F(h)
  <2>1. ASSUME NEW k \in 0 .. N PROVE h[k] = IF k = 0 THEN first(c) ELSE turn(h[k - 1])
    <3>1. CASE k = 0
      BY <1>3, <1>4, <3>1
    <3>2. CASE k # 0 /\ k <= n
      <4>1. k - 1 \in 0 .. n - 1 /\ k - 1 + 1 = k /\ k - 1 \in 0 .. N /\ k - 1 <= n
        BY <1>3, <3>2
      <4>2. h[k] = g[k] /\ h[k - 1] = g[k - 1]
        BY <3>2, <4>1
      <4>3. g[k - 1 + 1] = turn(g[k - 1])
        BY <1>4, <4>1
      <4> HIDE DEF h
      <4> QED BY <3>2, <4>1, <4>2, <4>3
    <3>3. CASE k > n
      <4>1. k - 1 \in 0 .. N /\ k # 0 /\ ~(k <= n)
        BY <1>3, <3>3
      <4>2. h[k] = r
        BY <4>1
      <4>3. h[k - 1] = r
        <5>1. CASE k - 1 <= n
          <6>1. k - 1 = n
            BY <1>3, <3>3, <5>1
          <6> QED BY <1>4, <4>1, <5>1, <6>1
        <5>2. CASE ~(k - 1 <= n)
          BY <4>1, <5>2
        <5> QED BY <5>1, <5>2
      <4>4. turn(r) = r
        BY <1>4 DEF turn
      <4> HIDE DEF h
      <4> QED BY <4>1, <4>2, <4>3, <4>4
    <3> QED BY <1>3, <3>1, <3>2, <3>3
  <2>2. h = [k \in 0 .. N |-> h[k]]
    OBVIOUS
  <2> HIDE DEF h
  <2> QED BY <2>1, <2>2
<1>6. f = F(f)
  <2> HIDE DEF F, h
  <2> QED BY <1>2, <1>5
<1>7. \A k \in 0 .. N : f[k] = IF k = 0 THEN first(c) ELSE turn(f[k - 1])
  BY <1>6
<1>8. \A k \in 0 .. N : h[k] = IF k = 0 THEN first(c) ELSE turn(h[k - 1])
  <2> HIDE DEF h
  <2> QED BY <1>5
<1>9. h[N] = r
  BY <1>3, <1>4
<1> HIDE DEF F, h
<1> DEFINE T == {k \in 0 .. N : f[k] = h[k]}
<1>10. 0 \in T
  BY <1>3, <1>7, <1>8
<1>11. ASSUME NEW k \in 0 .. N - 1, k \in T PROVE k + 1 \in T
  <2>1. k + 1 \in 0 .. N /\ k + 1 # 0 /\ (k + 1) - 1 = k
    BY <1>3
  <2>2. f[k + 1] = turn(f[(k + 1) - 1]) /\ h[k + 1] = turn(h[(k + 1) - 1])
    BY <1>7, <1>8, <2>1
  <2> QED BY <1>11, <2>1, <2>2
<1>12. \A k \in 0 .. N : k \in T
  <2> HIDE DEF T
  <2> QED BY <1>3, <1>10, <1>11, AllNumbersUpTo
<1> QED BY <1>1, <1>3, <1>9, <1>12

(* It halts at once ... *)
LEMMA ReachesStop ==
  ASSUME NEW c, NEW r, turn(first(c)) = r, r.halt
  PROVE  Reaches(c, r, 1)
<1> DEFINE g == [k \in 0 .. 1 |-> IF k = 0 THEN first(c) ELSE r]
<1>1. g[0] = first(c) /\ g[1] = r
  OBVIOUS
<1> HIDE DEF g
<1>2. \A k \in 0 .. 1 - 1 : g[k + 1] = turn(g[k])
  <2>1. \A k \in 0 .. 1 - 1 : k = 0
    OBVIOUS
  <2>2. 0 + 1 = 1
    OBVIOUS
  <2> QED BY <1>1, <2>1, <2>2
<1> QED BY <1>1, <1>2 DEF Reaches

(* ... in the second round ... *)
LEMMA ReachesTwice ==
  ASSUME NEW c, NEW q, NEW r, turn(first(c)) = q, turn(q) = r, r.halt
  PROVE  Reaches(c, r, 2)
<1> DEFINE g == [k \in 0 .. 2 |-> IF k = 0 THEN first(c) ELSE IF k = 1 THEN q ELSE r]
<1>1. g[0] = first(c) /\ g[1] = q /\ g[2] = r
  OBVIOUS
<1> HIDE DEF g
<1>2. \A k \in 0 .. 2 - 1 : g[k + 1] = turn(g[k])
  <2>1. \A k \in 0 .. 2 - 1 : k = 0 \/ k = 1
    OBVIOUS
  <2>2. 0 + 1 = 1 /\ 1 + 1 = 2
    OBVIOUS
  <2> QED BY <1>1, <2>1, <2>2
<1> QED BY <1>1, <1>2 DEF Reaches

(* ... or goes on as from other members. *)
LEMMA ReachesStep ==
  ASSUME NEW c, NEW d, NEW r, NEW n \in Nat, turn(first(c)) = first(d), Reaches(d, r, n)
  PROVE  Reaches(c, r, n + 1)
<1>1. PICK g : g[0] = first(d) /\ (\A k \in 0 .. n - 1 : g[k + 1] = turn(g[k])) /\ g[n] = r /\ r.halt
  BY DEF Reaches
<1> DEFINE h == [k \in 0 .. n + 1 |-> IF k = 0 THEN first(c) ELSE g[k - 1]]
<1>2. h[0] = first(c) /\ \A k \in 1 .. n + 1 : h[k] = g[k - 1]
  OBVIOUS
<1> HIDE DEF h
<1>3. ASSUME NEW k \in 0 .. (n + 1) - 1 PROVE h[k + 1] = turn(h[k])
  <2>1. k + 1 \in 1 .. n + 1 /\ (k + 1) - 1 = k
    OBVIOUS
  <2>2. h[k + 1] = g[k]
    BY <1>2, <2>1
  <2>3. CASE k = 0
    BY <1>1, <1>2, <2>2, <2>3
  <2>4. CASE k # 0
    <3>1. k \in 1 .. n + 1 /\ k - 1 \in 0 .. n - 1 /\ k - 1 + 1 = k
      BY <2>4
    <3>2. g[k - 1 + 1] = turn(g[k - 1]) /\ h[k] = g[k - 1]
      BY <1>1, <1>2, <3>1
    <3> QED BY <2>2, <3>1, <3>2
  <2> QED BY <2>3, <2>4
<1>4. h[n + 1] = r
  <2>1. n + 1 \in 1 .. n + 1 /\ (n + 1) - 1 = n
    OBVIOUS
  <2> QED BY <1>1, <1>2, <2>1
<1> QED BY <1>1, <1>2, <1>3, <1>4 DEF Reaches

(* The members while a request is parsed: what is in the buffer and in m_iv, the
   state, where checking goes on and where the line starts, and what was read. *)
members(b, v, st, q, p, u, l, n) ==
  [m_rd_buf |-> b, m_check_stat |-> st, m_checked_idx |-> q, m_line_start |-> p, m_url |-> u,
   m_linger |-> l, m_content_len |-> n, m_write_buf |-> <<>>, bytes_to_send |-> 0,
   bytes_have_send |-> 0, m_iv |-> v]

(* A round that ends the loop, and one that does not. *)
stopped(c, line, code) == [c |-> c, line |-> line, code |-> code, halt |-> TRUE]
going(c, line, code) == [c |-> c, line |-> line, code |-> code, halt |-> FALSE]

(* Member by member. *)
LEMMA Members ==
  ASSUME NEW b, NEW v, NEW st, NEW q, NEW p, NEW u, NEW l, NEW n
  PROVE  /\ members(b, v, st, q, p, u, l, n).m_rd_buf = b
         /\ members(b, v, st, q, p, u, l, n).m_check_stat = st
         /\ members(b, v, st, q, p, u, l, n).m_checked_idx = q
         /\ members(b, v, st, q, p, u, l, n).m_line_start = p
         /\ members(b, v, st, q, p, u, l, n).m_url = u
         /\ members(b, v, st, q, p, u, l, n).m_linger = l
         /\ members(b, v, st, q, p, u, l, n).m_content_len = n
BY DEF members

(* What the changes of the parser make of the members: checking goes on elsewhere ... *)
LEMMA MembersOpen ==
  ASSUME NEW b, NEW v, NEW st, NEW q, NEW p, NEW u, NEW l, NEW n, NEW q2
  PROVE  left_open(members(b, v, st, q, p, u, l, n), q2) = members(b, v, st, q2, p, u, l, n)
BY DEF members, left_open

moved(c, p) == [c EXCEPT !.m_checked_idx = p, !.m_line_start = p]

(* ... and the line starts there as well. *)
LEMMA MembersMoved ==
  ASSUME NEW b, NEW v, NEW st, NEW q, NEW p, NEW u, NEW l, NEW n, NEW q2
  PROVE  moved(members(b, v, st, q, p, u, l, n), q2) = members(b, v, st, q2, q2, u, l, n)
<1> DEFINE a == members(b, v, st, q, p, u, l, n)
           d == [a EXCEPT !.m_checked_idx = q2, !.m_line_start = q2]
           e == members(b, v, st, q2, q2, u, l, n)
<1>1. a = [k \in DOMAIN a |-> a[k]] /\ DOMAIN e = DOMAIN a /\ e = [k \in DOMAIN a |-> e[k]]
  BY DEF members
<1>2. \A k \in DOMAIN a : e[k] = IF k = "m_checked_idx" THEN q2 ELSE IF k = "m_line_start" THEN q2 ELSE a[k]
  BY DEF members
<1> HIDE DEF a, e
<1>3. d = [k \in DOMAIN a |-> IF k = "m_checked_idx" THEN q2 ELSE IF k = "m_line_start" THEN q2 ELSE a[k]]
  BY <1>1
<1> HIDE DEF d
<1>4. d = e
  BY <1>1, <1>2, <1>3
<1> QED BY <1>4 DEF a, d, e, moved

(* The loop begins with a round that goes on. *)
LEMMA First ==
  ASSUME NEW c
  PROVE  first(c) = going(c, "OK", "NO_REQUEST")
BY DEF going, first

halted(r, c) == [r EXCEPT !.c = c, !.halt = TRUE]

(* And it ends with one that stops. *)
LEMMA Halted ==
  ASSUME NEW c, NEW line, NEW code, NEW d
  PROVE  halted(going(c, line, code), d) = stopped(d, line, code)
<1> DEFINE x == FALSE
           y == TRUE
<1> HIDE DEF x, y
<1> DEFINE a == [c |-> c, line |-> line, code |-> code, halt |-> x]
           e == [a EXCEPT !.c = d, !.halt = y]
           f == [c |-> d, line |-> line, code |-> code, halt |-> y]
<1>1. a = [k \in DOMAIN a |-> a[k]] /\ DOMAIN f = DOMAIN a /\ f = [k \in DOMAIN a |-> f[k]]
  OBVIOUS
<1>2. \A k \in DOMAIN a : f[k] = IF k = "c" THEN d ELSE IF k = "halt" THEN y ELSE a[k]
  OBVIOUS
<1> HIDE DEF a, f
<1>3. e = [k \in DOMAIN a |-> IF k = "c" THEN d ELSE IF k = "halt" THEN y ELSE a[k]]
  BY <1>1
<1> HIDE DEF e
<1>4. e = f
  BY <1>1, <1>2, <1>3
<1> QED BY <1>4 DEF a, e, f, halted, x, y, going, stopped

(* What the loop does in one round, by the state and the line. *)
served_code(done) == IF done.code = "GET_REQUEST" THEN do_request(done.c) ELSE done.code

(* No line: the loop ends, and waits for more. *)
LEMMA TurnMissing ==
  ASSUME NEW b, NEW v, NEW st, NEW q, NEW p, NEW u, NEW l, NEW n, NEW checked,
         st # "CONTENT", parse_one_line(members(b, v, st, q, p, u, l, n)).status # "OK",
         parse_one_line(members(b, v, st, q, p, u, l, n)).checked = checked
  PROVE  turn(first(members(b, v, st, q, p, u, l, n))) =
           stopped(members(b, v, st, checked, p, u, l, n), "OK", "NO_REQUEST")
<1> DEFINE c == members(b, v, st, q, p, u, l, n)
           r == first(c)
<1>1. r.c = c /\ r.line = "OK" /\ r.halt = FALSE /\ r.code = "NO_REQUEST"
  BY DEF first
<1>2. c.m_check_stat = st /\ left_open(c, checked) = members(b, v, st, checked, p, u, l, n)
  BY Members, MembersOpen
<1>3. halted(r, left_open(c, checked)) = stopped(left_open(c, checked), "OK", "NO_REQUEST")
  BY First, Halted
<1> HIDE DEF c, r
<1>4. turn(r) = round(r)
  BY <1>1 DEF turn
<1>5. round(r) = halted(r, left_open(c, checked))
  <2>1. parse_one_line(c).status # "OK" /\ parse_one_line(c).checked = checked
    BY DEF c
  <2>2. round(r) = halted(r, left_open(r.c, parse_one_line(r.c).checked))
    BY <1>1, <1>2, <2>1, Zenon DEF round, moved, halted
  <2> QED BY <1>1, <2>1, <2>2
<1> QED BY <1>2, <1>3, <1>4, <1>5 DEF c, r

parsed_line(st, c, text) ==
  IF st = "REQUESTLINE" THEN parse_request_line(c, text) ELSE parse_request_headers(c, text)

outcome(done) ==
  IF done.code = "NO_REQUEST" THEN going(done.c, "OK", "NO_REQUEST") ELSE stopped(done.c, "OK", served_code(done))

words_between(b, p, e) == SubSeq(b, p + 1, e - 2)

(* A line: it is parsed by the state. *)
LEMMA TurnLine ==
  ASSUME NEW b, NEW v, NEW st, NEW q, NEW p, NEW u, NEW l, NEW n, NEW q2,
         st \in {"REQUESTLINE", "HEADER"},
         parse_one_line(members(b, v, st, q, p, u, l, n)) = LineEnd("OK", q2), NEW done, NEW text,
         text = words_between(b, p, q2), done = parsed_line(st, members(b, v, st, q2, q2, u, l, n), text)
  PROVE  turn(first(members(b, v, st, q, p, u, l, n))) = outcome(done)
<1> DEFINE c == members(b, v, st, q, p, u, l, n)
           at == members(b, v, st, q2, q2, u, l, n)
           r == first(c)
<1>1. r.c = c /\ r.line = "OK" /\ r.halt = FALSE /\ r.code = "NO_REQUEST"
  BY DEF first
<1>2. /\ c.m_check_stat = st /\ c.m_rd_buf = b /\ c.m_line_start = p
      /\ moved(c, q2) = at
  BY Members, MembersMoved
<1>3. parse_one_line(c).status = "OK" /\ parse_one_line(c).checked = q2
  BY DEF LineEnd
<1> HIDE DEF c, r
<1>4. turn(r) = round(r)
  BY <1>1 DEF turn
<1>5. round(r) = [c |-> done.c, line |-> "OK",
                  code |-> IF done.code = "GET_REQUEST" THEN do_request(done.c) ELSE done.code,
                  halt |-> done.code # "NO_REQUEST"]
  <2>1. ~(c.m_check_stat = "CONTENT" /\ r.line = "OK") /\ c.m_check_stat # "CONTENT"
    BY <1>1, <1>2
  <2> DEFINE cases == CASE st = "REQUESTLINE" -> parse_request_line(at, text)
                        [] st = "HEADER" -> parse_request_headers(at, text)
                        [] st = "CONTENT" -> Parsed(parse_request_content(at), at)
  <2> HIDE DEF at
  <2>2. cases = done
    BY DEF at, parsed_line, words_between
  <2>3. round(r) = [c |-> cases.c, line |-> "OK",
                    code |-> IF cases.code = "GET_REQUEST" THEN do_request(cases.c) ELSE cases.code,
                    halt |-> cases.code # "NO_REQUEST"]
    BY <1>1, <1>2, <1>3, <2>1 DEF round, words_between, moved, halted
  <2> QED BY <2>2, <2>3
<1> QED BY <1>4, <1>5 DEF c, r, going, stopped, served_code, outcome

(* A body: it is complete, or the loop goes on ... *)
LEMMA TurnBody ==
  ASSUME NEW b, NEW v, NEW q, NEW p, NEW u, NEW l, NEW n, NEW d,
         d = members(b, v, "CONTENT", q, q, u, l, n)
  PROVE  turn(first(members(b, v, "CONTENT", q, p, u, l, n))) =
           IF Len(b) >= n + q THEN stopped(d, "OPEN", do_request(d))
           ELSE going(d, "OPEN", "NO_REQUEST")
<1> DEFINE c == members(b, v, "CONTENT", q, p, u, l, n)
           r == first(c)
<1>1. r.c = c /\ r.line = "OK" /\ r.halt = FALSE /\ r.code = "NO_REQUEST"
  BY DEF first
<1>2. /\ c.m_check_stat = "CONTENT" /\ c.m_checked_idx = q
      /\ moved(c, q) = d
      /\ d.m_rd_buf = b /\ d.m_checked_idx = q /\ d.m_content_len = n
  BY Members, MembersMoved
<1> HIDE DEF c, r
<1>3. turn(r) = round(r)
  BY <1>1 DEF turn
<1> DEFINE done == Parsed(parse_request_content(d), d)
<1>4. round(r) = [c |-> done.c, line |-> "OPEN",
                  code |-> IF done.code = "GET_REQUEST" THEN do_request(done.c) ELSE done.code,
                  halt |-> done.code # "NO_REQUEST"]
  <2>1. r.c.m_check_stat = "CONTENT" /\ r.line = "OK" /\ r.c.m_checked_idx = q
    BY <1>1, <1>2
  <2> HIDE DEF done
  <2>2. moved(r.c, q) = d
    BY <1>1, <1>2
  <2>3. done = Parsed(parse_request_content(d), d)
    BY DEF done
  <2> QED BY <2>1, <2>2, <2>3 DEF round, moved, halted
<1>5. done.c = d /\ done.code = IF Len(b) >= n + q THEN "GET_REQUEST" ELSE "NO_REQUEST"
  BY <1>2 DEF Parsed, parse_request_content, m_rd_idx
<1> HIDE DEF done
<1> QED BY <1>3, <1>4, <1>5 DEF c, r, going, stopped

(* ... and ends, for no line ends in a body. *)
LEMMA TurnRest ==
  ASSUME NEW b, NEW v, NEW q, NEW p, NEW u, NEW l, NEW n, NEW checked,
         parse_one_line(members(b, v, "CONTENT", q, p, u, l, n)) = LineEnd("OPEN", checked)
  PROVE  turn(going(members(b, v, "CONTENT", q, p, u, l, n), "OPEN", "NO_REQUEST")) =
           stopped(members(b, v, "CONTENT", checked, p, u, l, n), "OPEN", "NO_REQUEST")
<1> DEFINE c == members(b, v, "CONTENT", q, p, u, l, n)
           r == going(c, "OPEN", "NO_REQUEST")
<1>1. r.c = c /\ r.line = "OPEN" /\ r.halt = FALSE /\ r.code = "NO_REQUEST"
  BY DEF going, stopped
<1>2. left_open(c, checked) = members(b, v, "CONTENT", checked, p, u, l, n)
  BY Members, MembersOpen
<1>3. halted(r, left_open(c, checked)) = stopped(left_open(c, checked), "OPEN", "NO_REQUEST")
  BY Halted
<1>4. parse_one_line(c).status # "OK" /\ parse_one_line(c).checked = checked
  BY DEF LineEnd
<1> HIDE DEF c, r
<1>5. turn(r) = round(r)
  BY <1>1 DEF turn
<1>6. round(r) = halted(r, left_open(r.c, parse_one_line(r.c).checked))
  <2>1. ~(r.c.m_check_stat = "CONTENT" /\ r.line = "OK") /\ parse_one_line(r.c).status # "OK"
    BY <1>1, <1>4
  <2> QED BY <2>1, Zenon DEF round, moved, halted
<1> QED BY <1>1, <1>2, <1>3, <1>4, <1>5, <1>6 DEF c, r
-----------------------------------------------------------------------------
(* strpbrk and strspn, given what they meet. *)
LEMMA FirstBlank ==
  ASSUME NEW text, Len(text) \in Nat, NEW k \in 1 .. Len(text), text[k] = "SP",
         \A i \in 1 .. k - 1 : text[i] # "SP"
  PROVE  first_blank(text) = k
<1> DEFINE I == {i \in 1 .. Len(text) : text[i] = "SP"}
<1>1. k \in I /\ \A i \in I : k <= i
  <2>1. ASSUME NEW i \in I, ~(k <= i) PROVE FALSE
    <3>1. i \in 1 .. k - 1
      BY <2>1
    <3> QED BY <3>1, <2>1
  <2> QED BY <2>1
<1>2. \A x \in I : (\A i \in I : x <= i) => x = k
  <2>1. I \subseteq Int
    OBVIOUS
  <2> HIDE DEF I
  <2> QED BY <1>1, <2>1
<1>3. first_blank(text) = IF I # {} THEN Min(I) ELSE 0
  BY DEF first_blank, SelectInSeq
<1> HIDE DEF I
<1>4. Min(I) = k
  BY <1>1, <1>2 DEF Min
<1> QED BY <1>1, <1>3, <1>4

(* No blank. *)
LEMMA NoBlank ==
  ASSUME NEW text, \A i \in 1 .. Len(text) : text[i] # "SP"
  PROVE  first_blank(text) = 0
<1>1. {i \in 1 .. Len(text) : text[i] = "SP"} = {}
  OBVIOUS
<1> QED BY <1>1 DEF first_blank, SelectInSeq

(* The first word that is not skipped, and what follows it. *)
LEMMA Behind ==
  ASSUME NEW text, NEW skipped, Len(text) \in Nat, NEW k \in 1 .. Len(text), text[k] \notin skipped,
         \A i \in 1 .. k - 1 : text[i] \in skipped
  PROVE  behind(text, skipped) = SubSeq(text, k, Len(text))
<1> DEFINE I == {i \in 1 .. Len(text) : text[i] \notin skipped}
           n == SelectInSeq(text, LAMBDA t : t \notin skipped)
<1>1. k \in I /\ \A i \in I : k <= i
  <2>1. ASSUME NEW i \in I, ~(k <= i) PROVE FALSE
    <3>1. i \in 1 .. k - 1
      BY <2>1
    <3> QED BY <3>1, <2>1
  <2> QED BY <2>1
<1>2. \A x \in I : (\A i \in I : x <= i) => x = k
  <2>1. I \subseteq Int
    OBVIOUS
  <2> HIDE DEF I
  <2> QED BY <1>1, <2>1
<1>3. n = IF I # {} THEN Min(I) ELSE 0
  BY DEF SelectInSeq
<1>4. behind(text, skipped) = IF n = 0 THEN <<>> ELSE SubSeq(text, n, Len(text))
  BY DEF behind
<1> HIDE DEF I, n
<1>5. Min(I) = k
  BY <1>1, <1>2 DEF Min
<1> QED BY <1>1, <1>3, <1>4, <1>5

(* Nothing else is there. *)
LEMMA BehindAll ==
  ASSUME NEW text, NEW skipped, \A i \in 1 .. Len(text) : text[i] \in skipped
  PROVE  behind(text, skipped) = <<>>
<1> DEFINE n == SelectInSeq(text, LAMBDA t : t \notin skipped)
<1>1. {i \in 1 .. Len(text) : text[i] \notin skipped} = {}
  OBVIOUS
<1>2. n = 0
  BY <1>1 DEF SelectInSeq
<1>3. behind(text, skipped) = IF n = 0 THEN <<>> ELSE SubSeq(text, n, Len(text))
  BY DEF behind
<1> QED BY <1>2, <1>3

(* What the headers up to the n-th announce. *)
LEMMA Announced ==
  ASSUME NEW W, NEW hs \in Seq(W \X W), \A i \in DOMAIN hs : hs[i][1] = "Content-Length:" => hs[i][2] \in DOMAIN atol
  PROVE  /\ announced(hs, 0) = 0
         /\ \A n \in 1 .. Len(hs) :
              announced(hs, n) = IF hs[n][1] = "Content-Length:" THEN atol[hs[n][2]] ELSE announced(hs, n - 1)
         /\ \A n \in 0 .. Len(hs) : announced(hs, n) \in Nat
<1> DEFINE L(n) == {i \in 1 .. n : hs[i][1] = "Content-Length:"}
           last(n) == CHOOSE i \in L(n) : \A j \in L(n) : j <= i
<1>1. \A n : announced(hs, n) = IF L(n) = {} THEN 0 ELSE atol[hs[last(n)][2]]
  BY DEF announced
<1>2. Len(hs) \in Nat /\ DOMAIN hs = 1 .. Len(hs)
  OBVIOUS
<1>3. announced(hs, 0) = 0
  <2>1. L(0) = {}
    OBVIOUS
  <2> HIDE DEF L
  <2> QED BY <1>1, <2>1
<1>4. ASSUME NEW n \in 1 .. Len(hs)
      PROVE  announced(hs, n) = IF hs[n][1] = "Content-Length:" THEN atol[hs[n][2]] ELSE announced(hs, n - 1)
  <2>1. CASE hs[n][1] = "Content-Length:"
    <3>1. n \in L(n) /\ \A j \in L(n) : j <= n
      BY <1>2, <2>1
    <3>2. L(n) \subseteq Int
      OBVIOUS
    <3> DEFINE M == L(n)
    <3> HIDE DEF L
    <3>3. \A i \in M : (\A j \in M : j <= i) => i = n
      BY <3>1, <3>2
    <3>4. last(n) = n
      BY <3>1, <3>3
    <3> HIDE DEF last
    <3> QED BY <1>1, <2>1, <3>1, <3>4
  <2>2. CASE hs[n][1] # "Content-Length:"
    <3>1. L(n) = L(n - 1)
      BY <2>2
    <3>2. announced(hs, n) = announced(hs, n - 1)
      <4> HIDE DEF L
      <4> QED BY <1>1, <3>1
    <3> QED BY <2>2, <3>2
  <2> QED BY <2>1, <2>2
<1>5. \A n \in 0 .. Len(hs) : announced(hs, n) \in Nat
  <2> DEFINE T == {n \in 0 .. Len(hs) : announced(hs, n) \in Nat}
  <2>1. 0 \in T
    BY <1>2, <1>3
  <2>2. ASSUME NEW n \in 0 .. Len(hs) - 1, n \in T PROVE n + 1 \in T
    <3>1. n + 1 \in 1 .. Len(hs) /\ n + 1 \in 0 .. Len(hs) /\ (n + 1) - 1 = n /\ announced(hs, n) \in Nat
      BY <1>2, <2>2
    <3>2. announced(hs, n + 1) = IF hs[n + 1][1] = "Content-Length:" THEN atol[hs[n + 1][2]] ELSE announced(hs, (n + 1) - 1)
      BY <1>4, <3>1
    <3>3. hs[n + 1][1] = "Content-Length:" => atol[hs[n + 1][2]] \in Nat
      <4>1. \A x \in DOMAIN atol : atol[x] \in Nat
        BY DEF atol
      <4> QED BY <1>2, <3>1, <4>1
    <3>4. announced(hs, n + 1) \in Nat
      BY <3>1, <3>2, <3>3
    <3> QED BY <3>1, <3>4
  <2>3. \A n \in 0 .. Len(hs) : n \in T
    <3> HIDE DEF T
    <3> QED BY <1>2, <2>1, <2>2, AllNumbersUpTo
  <2> QED BY <2>3
<1> QED BY <1>3, <1>4, <1>5

(* A request this program can read: the others end with its first line. *)
Readable(r) ==
  r.method = "GET" /\ r.eol = <<"CR", "LF">> /\ r.target # <<"http://", "host">>

(* The words of a request line. *)
LEMMA LineParts ==
  ASSUME NEW r, Sound(r), NEW text, LineAt(text, r), Len(text) = Len(r.target) + 4
  PROVE  /\ first_blank(text) = 2 /\ SubSeq(text, 1, 2 - 1) = <<r.method>>
         /\ first_blank(SubSeq(text, 2 + 1, Len(text))) = Len(r.target) + 1
         /\ SubSeq(SubSeq(text, 2 + 1, Len(text)), 1, (Len(r.target) + 1) - 1) = r.target
<1> DEFINE k == Len(r.target)
           rest == SubSeq(text, 3, Len(text))
           url == SubSeq(rest, 1, k)
<1>1. /\ k \in Nat /\ r.target \in Seq(Tokens \ Separators) /\ \A i \in 1 .. k : r.target[i] \notin Separators
      /\ r.method \notin Separators
  <2>1. r.target \in Seq(Tokens \ Separators)
    BY DEF Sound
  <2>2. \A i \in 1 .. k : r.target[i] \notin Separators
    BY <2>1
  <2> QED BY <2>1, <2>2 DEF Sound
<1>2. /\ text \in Seq(Tokens) /\ Len(text) = k + 4 /\ text[1] = r.method /\ text[2] = "SP"
      /\ text[k + 3] = "SP" /\ \A i \in 1 .. k : text[i + 2] = r.target[i]
  BY DEF LineAt
<1>3. r.target \in Seq(Tokens)
  BY <1>1
<1> HIDE DEF k
<1>4. first_blank(text) = 2
  <2>1. Len(text) \in Nat /\ 2 \in 1 .. Len(text)
    BY <1>1, <1>2
  <2>2. \A i \in 1 .. 2 - 1 : text[i] # "SP"
    BY <1>1, <1>2 DEF Separators
  <2> QED BY <1>2, <2>1, <2>2, FirstBlank
<1>5. SubSeq(text, 1, 1) = <<r.method>>
  <2>1. 1 \in 1 .. Len(text)
    BY <1>1, <1>2
  <2>2. SubSeq(text, 1, 1) = <<text[1]>>
    BY <1>2, <2>1, OneChar
  <2> QED BY <1>2, <2>2
<1>6. rest \in Seq(Tokens) /\ Len(rest) = k + 2 /\ \A i \in 1 .. k + 2 : rest[i] = text[i + 2]
  <2>1. \A i \in 1 .. k + 2 : 3 + i - 1 = i + 2
    BY <1>1
  <2>2. Len(text) = k + 4 /\ text \in Seq(Tokens) /\ k \in Nat
    BY <1>1, <1>2
  <2> QED BY <2>1, <2>2
<1> HIDE DEF rest
<1>7. first_blank(rest) = k + 1
  <2>1. k + 1 \in 1 .. Len(rest) /\ Len(rest) \in Nat /\ (k + 1) + 2 = k + 3 /\ k + 1 \in 1 .. k + 2
    BY <1>1, <1>6
  <2>2. rest[k + 1] = "SP"
    <3>1. rest[k + 1] = text[(k + 1) + 2]
      BY <1>6, <2>1
    <3> QED BY <1>2, <2>1, <3>1
  <2>3. \A i \in 1 .. (k + 1) - 1 : rest[i] # "SP"
    <3> SUFFICES ASSUME NEW i \in 1 .. (k + 1) - 1 PROVE rest[i] # "SP"
      OBVIOUS
    <3>1. i \in 1 .. k /\ i \in 1 .. k + 2
      BY <1>1
    <3>2. rest[i] = r.target[i]
      BY <1>2, <1>6, <3>1
    <3> QED BY <1>1, <3>1, <3>2 DEF Separators
  <2> QED BY <2>1, <2>2, <2>3, FirstBlank
<1>8. url = r.target
  <2>1. url \in Seq(Tokens) /\ Len(url) = k /\ \A i \in 1 .. k : url[i] = rest[i]
    BY <1>1, <1>6
  <2>2. \A i \in 1 .. k : url[i] = r.target[i]
    <3> SUFFICES ASSUME NEW i \in 1 .. k PROVE url[i] = r.target[i]
      OBVIOUS
    <3>1. i \in 1 .. k + 2
      BY <1>1
    <3> HIDE DEF url
    <3> QED BY <1>2, <1>6, <2>1, <3>1
  <2> HIDE DEF url
  <2> QED BY <1>3, <2>1, <2>2, SeqEqual DEF k
<1>9. 2 - 1 = 1 /\ 2 + 1 = 3 /\ (k + 1) - 1 = k
  BY <1>1
<1> QED BY <1>4, <1>5, <1>7, <1>8, <1>9 DEF k, rest, url

taken(c, path) == [c EXCEPT !.m_url = path, !.m_check_stat = "HEADER"]

path_of(url) == IF url # <<>> /\ url[1] = "http://" THEN behind(url, Origin) ELSE url

by_parts(c, text, sp, sp2, url) ==
  IF sp = 0 \/ sp2 = 0 \/ SubSeq(text, 1, sp - 1) # <<"GET">> \/ path_of(url) = <<>> \/ path_of(url)[1] = "host"
  THEN Parsed("BAD_REQUEST", c)
  ELSE Parsed("NO_REQUEST", taken(c, path_of(url)[1]))

(* parse_request_line by what it finds in the line. *)
LEMMA ByParts ==
  ASSUME NEW c, NEW text, NEW sp, NEW sp2, NEW url,
         first_blank(text) = sp, first_blank(SubSeq(text, sp + 1, Len(text))) = sp2,
         SubSeq(SubSeq(text, sp + 1, Len(text)), 1, sp2 - 1) = url
  PROVE  parse_request_line(c, text) = by_parts(c, text, sp, sp2, url)
<1> DEFINE rest(i) == SubSeq(text, i + 1, Len(text))
<1>1. parse_request_line(c, text) =
        by_parts(c, text, first_blank(text), first_blank(rest(first_blank(text))),
                 SubSeq(rest(first_blank(text)), 1, first_blank(rest(first_blank(text))) - 1))
  BY Zenon DEF parse_request_line, taken, by_parts, path_of
<1>2. first_blank(rest(first_blank(text))) = sp2
  OBVIOUS
<1>3. SubSeq(rest(first_blank(text)), 1, first_blank(rest(first_blank(text))) - 1) = url
  BY <1>2
<1> HIDE DEF rest
<1> QED BY <1>1, <1>2, <1>3

(* A GET of a path is taken, and every other request line is not. *)
LEMMA LineTaken ==
  ASSUME NEW r \in Requests, Readable(r), NEW text, LineAt(text, r), Len(text) = Len(r.target) + 4, NEW c
  PROVE  parse_request_line(c, text) = Parsed("NO_REQUEST", taken(c, file_of(r)))
<1> DEFINE f == file_of(r)
           url == r.target
           path == path_of(url)
<1>1. /\ first_blank(text) = 2 /\ SubSeq(text, 1, 2 - 1) = <<"GET">>
      /\ first_blank(SubSeq(text, 2 + 1, Len(text))) = Len(url) + 1
      /\ SubSeq(SubSeq(text, 2 + 1, Len(text)), 1, (Len(url) + 1) - 1) = url
  BY SoundRequest, LineParts DEF Readable
<1>2. Len(url) \in 1 .. 3
  BY SoundRequest DEF Sound
<1>3. url \in {<<f>>, <<"http://", "host", f>>} /\ f \notin Separators \cup Origin
  BY RequestsAssumption DEF Readable
<1> HIDE DEF f, url
<1>4. path # <<>> /\ path[1] = f /\ f # "host"
  <2>0. path = IF url # <<>> /\ url[1] = "http://" THEN behind(url, Origin) ELSE url
    BY DEF path_of
  <2> HIDE DEF path
  <2>1. f # "host" /\ f # "http://"
    BY <1>3 DEF Origin
  <2>2. CASE url = <<f>>
    <3>1. url[1] = f /\ url # <<>>
      BY <2>2
    <3> QED BY <2>0, <2>1, <2>2, <3>1
  <2>3. CASE url = <<"http://", "host", f>>
    <3>1. url[1] = "http://" /\ url[2] = "host" /\ url[3] = f /\ Len(url) = 3 /\ url # <<>>
      BY <2>3
    <3>2. \A i \in 1 .. 3 - 1 : url[i] \in Origin
      <4>1. \A i \in 1 .. 3 - 1 : i = 1 \/ i = 2
        OBVIOUS
      <4> QED BY <3>1, <4>1 DEF Origin
    <3>3. behind(url, Origin) = SubSeq(url, 3, Len(url))
      <4>1. 3 \in 1 .. Len(url) /\ Len(url) \in Nat /\ url[3] \notin Origin
        BY <1>3, <3>1
      <4> QED BY <3>2, <4>1, Behind
    <3>4. SubSeq(url, 3, 3) = <<f>>
      <4>1. url \in Seq({"http://", "host", f}) /\ 3 \in 1 .. Len(url)
        BY <2>3
      <4>2. SubSeq(url, 3, 3) = <<url[3]>>
        BY <4>1, OneChar
      <4> QED BY <3>1, <4>2
    <3>5. path = <<f>>
      BY <2>0, <3>1, <3>3, <3>4
    <3> QED BY <2>1, <3>5
  <2> QED BY <1>3, <2>2, <2>3
<1>5. parse_request_line(c, text) =
        IF 2 = 0 \/ Len(url) + 1 = 0 \/ SubSeq(text, 1, 2 - 1) # <<"GET">> \/ path = <<>> \/ path[1] = "host"
        THEN Parsed("BAD_REQUEST", c)
        ELSE Parsed("NO_REQUEST", taken(c, path[1]))
  <2>1. parse_request_line(c, text) = by_parts(c, text, 2, Len(url) + 1, url)
    BY <1>1, ByParts
  <2> QED BY <2>1, Zenon DEF by_parts
<1> HIDE DEF path
<1>6. Len(url) + 1 # 0
  BY <1>2
<1> QED BY <1>1, <1>4, <1>5, <1>6 DEF f

(* Every other one is refused. *)
LEMMA LineRefused ==
  ASSUME NEW r \in Requests, r.method # "GET" \/ r.target = <<"http://", "host">>,
         NEW text, LineAt(text, r), Len(text) = Len(r.target) + 4, NEW c
  PROVE  parse_request_line(c, text) = Parsed("BAD_REQUEST", c)
<1> DEFINE url == r.target
           path == path_of(url)
           get == <<"GET">>
<1>1. /\ first_blank(text) = 2 /\ SubSeq(text, 1, 2 - 1) = <<r.method>>
      /\ first_blank(SubSeq(text, 2 + 1, Len(text))) = Len(url) + 1
      /\ SubSeq(SubSeq(text, 2 + 1, Len(text)), 1, (Len(url) + 1) - 1) = url
  BY SoundRequest, LineParts
<1>2. parse_request_line(c, text) =
        IF 2 = 0 \/ Len(url) + 1 = 0 \/ SubSeq(text, 1, 2 - 1) # get \/ path = <<>> \/ path[1] = "host"
        THEN Parsed("BAD_REQUEST", c)
        ELSE Parsed("NO_REQUEST", taken(c, path[1]))
  <2>1. parse_request_line(c, text) = by_parts(c, text, 2, Len(url) + 1, url)
    BY <1>1, ByParts
  <2> QED BY <2>1, Zenon DEF by_parts
<1>3. CASE r.method # "GET"
  <2>1. <<r.method>> # get
    BY <1>3
  <2> HIDE DEF path, get
  <2> QED BY <1>1, <1>2, <2>1
<1>4. CASE url = <<"http://", "host">>
  <2> HIDE DEF url
  <2>1. url[1] = "http://" /\ url[2] = "host" /\ Len(url) = 2 /\ url # <<>>
    BY <1>4
  <2>2. \A i \in 1 .. Len(url) : url[i] \in Origin
    BY <2>1 DEF Origin
  <2>3. behind(url, Origin) = <<>>
    BY <2>2, BehindAll
  <2>4. path = <<>>
    BY <2>1, <2>3 DEF path_of
  <2> HIDE DEF path, get
  <2> QED BY <1>2, <2>4
<1> QED BY <1>3, <1>4

(* What is read of a line between two line ends that has one blank or none. *)
LEMMA LinePoor ==
  ASSUME NEW text \in Seq(Tokens), NEW c,
         \A i, j \in 1 .. Len(text) : text[i] = "SP" /\ text[j] = "SP" => i = j
  PROVE  parse_request_line(c, text) = Parsed("BAD_REQUEST", c)
<1> DEFINE I == {i \in 1 .. Len(text) : text[i] = "SP"}
           sp == first_blank(text)
           rest == SubSeq(text, sp + 1, Len(text))
           sp2 == first_blank(rest)
<1>1. sp = 0 \/ sp2 = 0
  <2>1. CASE I = {}
    <3>1. \A i \in 1 .. Len(text) : text[i] # "SP"
      BY <2>1
    <3> QED BY <3>1, NoBlank
  <2>2. ASSUME NEW k \in I PROVE sp2 = 0
    <3>1. k \in 1 .. Len(text) /\ text[k] = "SP" /\ Len(text) \in Nat
      OBVIOUS
    <3>2. \A i \in 1 .. k - 1 : text[i] # "SP"
      BY <3>1
    <3>3. sp = k
      BY <3>1, <3>2, FirstBlank
    <3> HIDE DEF sp
    <3>4. Len(rest) = Len(text) - k /\ \A i \in 1 .. Len(rest) : rest[i] = text[k + i]
      BY <3>1, <3>3
    <3> HIDE DEF rest
    <3>5. \A i \in 1 .. Len(rest) : rest[i] # "SP"
      <4> SUFFICES ASSUME NEW i \in 1 .. Len(rest), rest[i] = "SP" PROVE FALSE
        OBVIOUS
      <4>1. k + i \in 1 .. Len(text) /\ k + i # k /\ text[k + i] = "SP"
        BY <3>1, <3>4
      <4> QED BY <3>1, <4>1
    <3> QED BY <3>5, NoBlank
  <2> QED BY <2>1, <2>2
<1> QED BY <1>1, Zenon DEF parse_request_line

(* Whether the headers up to the n-th keep the connection. *)
keeps(h) == h = <<"Connection:", "keep-alive">>
linger_to(r, n) == IF \E i \in 1 .. n : keeps(r.headers[i]) THEN TRUE ELSE FALSE

(* Header by header. *)
LEMMA Lingers ==
  ASSUME NEW r, Len(r.headers) \in Nat
  PROVE  /\ linger_to(r, 0) = FALSE
         /\ \A n \in 1 .. Len(r.headers) :
              linger_to(r, n) = (linger_to(r, n - 1) \/ keeps(r.headers[n]))
<1>1. linger_to(r, 0) = FALSE
  BY DEF linger_to
<1>2. ASSUME NEW n \in 1 .. Len(r.headers)
      PROVE  linger_to(r, n) = (linger_to(r, n - 1) \/ keeps(r.headers[n]))
  <2>1. 1 .. n = (1 .. n - 1) \cup {n}
    OBVIOUS
  <2> HIDE DEF keeps
  <2>2. (\E i \in 1 .. n : keeps(r.headers[i])) <=>
          (\E i \in 1 .. n - 1 : keeps(r.headers[i])) \/ keeps(r.headers[n])
    BY <2>1
  <2> QED BY <2>2 DEF linger_to
<1> QED BY <1>1, <1>2

(* What a header line is made of, and what it changes. *)
noted(c, k, named, value) ==
  [c EXCEPT !.m_linger = @ \/ k, !.m_content_len = IF named THEN value ELSE @]

(* One header line has that effect ... *)
LEMMA HeaderNoted ==
  ASSUME NEW c, NEW text \in Seq(Tokens), NEW h \in (Tokens \ Separators) \X (Tokens \ Separators),
         Len(text) = 3, text[1] = h[1], text[2] = "SP", text[3] = h[2]
  PROVE  parse_request_headers(c, text) =
           Parsed("NO_REQUEST", noted(c, keeps(h), h[1] = "Content-Length:", atol[h[2]]))
<1> DEFINE t == Tail(text)
           value == behind(t, {"SP"})
<1>1. t \in Seq(Tokens) /\ Len(t) = 2 /\ t[1] = "SP" /\ t[2] = h[2]
  BY SMTT(30)
<1> HIDE DEF t
<1>2. value = SubSeq(t, 2, 2)
  <2>1. 2 \in 1 .. Len(t) /\ Len(t) \in Nat /\ t[2] \notin {"SP"}
    BY <1>1 DEF Separators
  <2>2. \A i \in 1 .. 2 - 1 : t[i] \in {"SP"}
    BY <1>1
  <2>3. value = SubSeq(t, 2, Len(t))
    BY <2>1, <2>2, Behind
  <2> QED BY <1>1, <2>3
<1>3. SubSeq(t, 2, 2) = <<h[2]>>
  <2>1. 2 \in 1 .. Len(t)
    BY <1>1
  <2>2. SubSeq(t, 2, 2) = <<t[2]>>
    BY <1>1, <2>1, OneChar
  <2> QED BY <1>1, <2>2
<1>4. value = <<h[2]>> /\ value[1] = h[2]
  <2>1. value = <<h[2]>>
    BY <1>2, <1>3
  <2> HIDE DEF value
  <2>2. value[1] = h[2]
    BY <2>1
  <2> QED BY <2>1, <2>2
<1>5. text # <<>>
  OBVIOUS
<1>6. parse_request_headers(c, text) =
        Parsed("NO_REQUEST", noted(c, text[1] = "Connection:" /\ value = <<"keep-alive">>,
                                   text[1] = "Content-Length:", atol[value[1]]))
  BY <1>5, Zenon DEF parse_request_headers, noted, t
<1> HIDE DEF value
<1>7. (text[1] = "Connection:" /\ value = <<"keep-alive">>) <=> keeps(h)
  <2>1. h = <<h[1], h[2]>>
    OBVIOUS
  <2>2. keeps(h) <=> h[1] = "Connection:" /\ h[2] = "keep-alive"
    BY <2>1 DEF keeps
  <2>3. value = <<"keep-alive">> <=> h[2] = "keep-alive"
    BY <1>4
  <2> QED BY <2>2, <2>3
<1> DEFINE a == text[1] = "Connection:" /\ value = <<"keep-alive">>
           d == noted(c, a, text[1] = "Content-Length:", atol[value[1]])
           e == noted(c, keeps(h), h[1] = "Content-Length:", atol[h[2]])
<1>8. d = e
  <2>1. a = keeps(h)
    BY <1>7 DEF keeps
  <2> HIDE DEF a
  <2> QED BY <1>4, <2>1
<1> QED BY <1>6, <1>8

(* ... on the members, *)
LEMMA MembersNoted ==
  ASSUME NEW b, NEW v, NEW st, NEW q, NEW p, NEW u, NEW l, NEW n, NEW k, NEW named, NEW x
  PROVE  noted(members(b, v, st, q, p, u, l, n), k, named, x) =
           members(b, v, st, q, p, u, l \/ k, IF named THEN x ELSE n)
<1> DEFINE a == members(b, v, st, q, p, u, l, n)
           y == a.m_linger \/ k
           z == IF named THEN x ELSE a.m_content_len
           d == [a EXCEPT !.m_linger = y, !.m_content_len = z]
           e == members(b, v, st, q, p, u, y, z)
<1>1. a.m_linger = l /\ a.m_content_len = n
  BY Members
<1>2. noted(a, k, named, x) = d
  BY Zenon DEF noted
<1>3. e = members(b, v, st, q, p, u, l \/ k, IF named THEN x ELSE n)
  BY <1>1
<1> HIDE DEF y, z
<1>4. a = [i \in DOMAIN a |-> a[i]] /\ DOMAIN e = DOMAIN a /\ e = [i \in DOMAIN a |-> e[i]]
  BY DEF members
<1>5. \A i \in DOMAIN a : e[i] = IF i = "m_linger" THEN y ELSE IF i = "m_content_len" THEN z ELSE a[i]
  BY DEF members
<1> HIDE DEF a, e
<1>6. d = [i \in DOMAIN a |-> IF i = "m_linger" THEN y ELSE IF i = "m_content_len" THEN z ELSE a[i]]
  BY <1>4
<1> HIDE DEF d
<1>7. d = e
  BY <1>4, <1>5, <1>6
<1> QED BY <1>2, <1>3, <1>7 DEF a

(* and a request line this one, *)
LEMMA MembersTaken ==
  ASSUME NEW b, NEW v, NEW st, NEW q, NEW p, NEW u, NEW l, NEW n, NEW f
  PROVE  taken(members(b, v, st, q, p, u, l, n), f) = members(b, v, "HEADER", q, p, f, l, n)
<1> DEFINE a == members(b, v, st, q, p, u, l, n)
           d == taken(a, f)
           e == members(b, v, "HEADER", q, p, f, l, n)
<1>4. a = [i \in DOMAIN a |-> a[i]] /\ DOMAIN e = DOMAIN a /\ e = [i \in DOMAIN a |-> e[i]]
  BY DEF members
<1>5. \A i \in DOMAIN a : e[i] = IF i = "m_url" THEN f ELSE IF i = "m_check_stat" THEN "HEADER" ELSE a[i]
  BY DEF members
<1> HIDE DEF a, e
<1>6. d = [i \in DOMAIN a |-> IF i = "m_url" THEN f ELSE IF i = "m_check_stat" THEN "HEADER" ELSE a[i]]
  BY <1>4 DEF taken
<1> HIDE DEF d
<1>7. d = e
  BY <1>4, <1>5, <1>6
<1> QED BY <1>7 DEF a, d, e

(* and a blank line ends the head. *)
LEMMA BlankRead ==
  ASSUME NEW b, NEW v, NEW st, NEW q, NEW p, NEW u, NEW l, NEW n
  PROVE  parse_request_headers(members(b, v, st, q, p, u, l, n), <<>>) =
           IF n # 0 THEN Parsed("NO_REQUEST", members(b, v, "CONTENT", q, p, u, l, n))
           ELSE Parsed("GET_REQUEST", members(b, v, st, q, p, u, l, n))
<1> DEFINE a == members(b, v, st, q, p, u, l, n)
           d == [a EXCEPT !.m_check_stat = "CONTENT"]
<1>1. d = members(b, v, "CONTENT", q, p, u, l, n)
  BY DEF members
<1>2. a.m_content_len = n
  BY Members
<1>3. parse_request_headers(a, <<>>) =
        IF a.m_content_len # 0 THEN Parsed("NO_REQUEST", d) ELSE Parsed("GET_REQUEST", a)
  BY Zenon DEF parse_request_headers
<1> HIDE DEF a, d
<1> QED BY <1>1, <1>2, <1>3 DEF a
-----------------------------------------------------------------------------
(* b is the beginning of what is written for r, and of line n nothing up to q
   ends the line. *)
Begins(b, w) == b \in Seq(Tokens) /\ Len(b) <= Len(w) /\ \A i \in 1 .. Len(b) : b[i] = w[i]

Begun(r, b, n, q) ==
  /\ Begins(b, written(r)) /\ n \in 0 .. Len(r.headers) + 1
  /\ q \in Nat /\ Pos(r, n) <= q /\ q <= Len(b) /\ NoEnd(b, Pos(r, n), q)

(* The members after n lines. *)
lined(r, b, v, n, q) ==
  IF n = 0 THEN members(b, v, "REQUESTLINE", q, 0, "", linger_to(r, 0), 0)
  ELSE members(b, v, "HEADER", q, Pos(r, n), file_of(r), linger_to(r, n - 1), announced(r.headers, n - 1))

(* Where they stand. *)
LEMMA Lined ==
  ASSUME NEW r, NEW b, NEW v, NEW n, NEW q
  PROVE  /\ lined(r, b, v, n, q).m_rd_buf = b /\ lined(r, b, v, n, q).m_checked_idx = q
         /\ lined(r, b, v, n, q).m_check_stat # "CONTENT"
<1> DEFINE st == IF n = 0 THEN "REQUESTLINE" ELSE "HEADER"
           p == IF n = 0 THEN 0 ELSE Pos(r, n)
           u == IF n = 0 THEN "" ELSE file_of(r)
           l == linger_to(r, IF n = 0 THEN 0 ELSE n - 1)
           a == IF n = 0 THEN 0 ELSE announced(r.headers, n - 1)
<1>1. lined(r, b, v, n, q) = members(b, v, st, q, p, u, l, a)
  BY DEF lined
<1>2. st # "CONTENT"
  OBVIOUS
<1> HIDE DEF st, p, u, l, a
<1> QED BY <1>1, <1>2, Members

(* A line of which all was received is one in the buffer as well. *)
LEMMA LineHere ==
  ASSUME NEW r \in Requests, r.eol = <<"CR", "LF">>, NEW b, Begins(b, written(r)), NEW n \in 0 .. Len(r.headers) + 1,
         Pos(r, n + 1) <= Len(b)
  PROVE  IsLine(b, Pos(r, n), Pos(r, n + 1))
<1> DEFINE p == Pos(r, n)
           e == Pos(r, n + 1)
           w == written(r)
<1>1. Sound(r)
  BY SoundRequest
<1>2. p \in Nat /\ e \in Nat /\ p + 2 <= e
  <2>1. /\ \A i \in 0 .. Len(r.headers) + 2 : Pos(r, i) \in Nat
        /\ \A i \in 0 .. Len(r.headers) + 1 : Pos(r, i) + 2 <= Pos(r, i + 1)
        /\ Len(r.headers) \in Nat
    BY <1>1, Positions
  <2>2. n \in 0 .. Len(r.headers) + 2 /\ n + 1 \in 0 .. Len(r.headers) + 2
    BY <2>1
  <2> QED BY <2>1, <2>2
<1>3. IsLine(w, p, e)
  BY <1>1, WrittenText, HeadLines
<1>4. Len(b) \in Nat /\ e <= Len(b) /\ \A i \in 1 .. Len(b) : b[i] = w[i]
  BY DEF Begins
<1> HIDE DEF p, e, w
<1>5. NoEnd(b, p, e - 2)
  <2> SUFFICES ASSUME NEW i \in p .. (e - 2) - 1 PROVE b[i + 1] \notin {"CR", "LF"}
    BY DEF NoEnd
  <2>1. i + 1 \in 1 .. Len(b)
    BY <1>2, <1>4
  <2> QED BY <1>3, <1>4, <2>1 DEF IsLine, NoEnd
<1>6. e - 1 \in 1 .. Len(b) /\ e \in 1 .. Len(b)
  BY <1>2, <1>4
<1> QED BY <1>3, <1>4, <1>5, <1>6 DEF IsLine, p, e

(* So it is found there, wherever checking goes on in it. *)
LEMMA LineRead ==
  ASSUME NEW r \in Requests, r.eol = <<"CR", "LF">>, NEW b, NEW v, NEW n, NEW q, Begun(r, b, n, q),
         Pos(r, n + 1) <= Len(b)
  PROVE  parse_one_line(lined(r, b, v, n, q)) = LineEnd("OK", Pos(r, n + 1))
<1> DEFINE p == Pos(r, n)
           e == Pos(r, n + 1)
           c == lined(r, b, v, n, p)
           d == lined(r, b, v, n, q)
<1>1. /\ Begins(b, written(r)) /\ n \in 0 .. Len(r.headers) + 1 /\ Len(b) \in Nat
      /\ q \in Nat /\ p <= q /\ q <= Len(b) /\ NoEnd(b, p, q)
  BY DEF Begun, Begins
<1>2. p \in Nat /\ e \in Nat /\ p + 2 <= e
  <2>1. /\ \A i \in 0 .. Len(r.headers) + 2 : Pos(r, i) \in Nat
        /\ \A i \in 0 .. Len(r.headers) + 1 : Pos(r, i) + 2 <= Pos(r, i + 1)
        /\ Len(r.headers) \in Nat
    BY SoundRequest, Positions
  <2>2. n \in 0 .. Len(r.headers) + 2 /\ n + 1 \in 0 .. Len(r.headers) + 2
    BY <1>1, <2>1
  <2> QED BY <1>1, <2>1, <2>2
<1>3. IsLine(b, p, e)
  BY <1>1, LineHere
<1>4. c.m_rd_buf = b /\ c.m_checked_idx = p /\ d.m_rd_buf = b /\ d.m_checked_idx = q
  BY Lined
<1>5. e <= Len(b)
  OBVIOUS
<1> HIDE DEF p, e, c, d
<1>6. parse_one_line(c) = LineEnd("OK", e)
  BY <1>1, <1>2, <1>3, <1>4, <1>5, LineFound
<1>7. parse_one_line(d) = parse_one_line(c)
  BY <1>1, <1>2, <1>4, LineAgain
<1> QED BY <1>6, <1>7 DEF d, e

(* The end of the line is missing: checking stops further on, and will go on there. *)
LEMMA LineToCome ==
  ASSUME NEW r \in Requests, r.eol = <<"CR", "LF">>, NEW b, NEW v, NEW n, NEW q, Begun(r, b, n, q),
         Len(b) < Pos(r, n + 1), NEW stop, stop = parse_one_line(lined(r, b, v, n, Pos(r, n))).checked
  PROVE  /\ Begun(r, b, n, stop)
         /\ parse_one_line(lined(r, b, v, n, stop)).checked = stop
         /\ turn(first(lined(r, b, v, n, q))) = stopped(lined(r, b, v, n, stop), "OK", "NO_REQUEST")
<1> DEFINE p == Pos(r, n)
           e == Pos(r, n + 1)
           c == lined(r, b, v, n, p)
           d == lined(r, b, v, n, q)
           g == lined(r, b, v, n, stop)
           w == written(r)
<1>1. /\ Begins(b, w) /\ n \in 0 .. Len(r.headers) + 1 /\ Len(b) \in Nat
      /\ q \in Nat /\ p <= q /\ q <= Len(b) /\ NoEnd(b, p, q) /\ \A i \in 1 .. Len(b) : b[i] = w[i]
  BY DEF Begun, Begins
<1>2. p \in Nat /\ e \in Nat /\ p + 2 <= e
  <2>1. /\ \A i \in 0 .. Len(r.headers) + 2 : Pos(r, i) \in Nat
        /\ \A i \in 0 .. Len(r.headers) + 1 : Pos(r, i) + 2 <= Pos(r, i + 1)
        /\ Len(r.headers) \in Nat
    BY SoundRequest, Positions
  <2>2. n \in 0 .. Len(r.headers) + 2 /\ n + 1 \in 0 .. Len(r.headers) + 2
    BY <1>1, <2>1
  <2> QED BY <1>1, <2>1, <2>2
<1>3. IsLine(w, p, e)
  <2>1. Sound(r) /\ Text(w, r)
    BY SoundRequest, WrittenText
  <2> QED BY <1>1, <2>1, HeadLines
<1>4. /\ c.m_rd_buf = b /\ c.m_checked_idx = p /\ d.m_rd_buf = b /\ d.m_checked_idx = q
      /\ g.m_rd_buf = b /\ g.m_checked_idx = stop
  BY Lined
<1>5. Len(b) < e /\ stop = parse_one_line(c).checked
  OBVIOUS
<1> HIDE DEF p, e, c, d, g, w
<1>6. parse_one_line(c).status = "OPEN"
  <2>1. p <= Len(b)
    BY <1>1, <1>2
  <2> QED BY <1>1, <1>2, <1>3, <1>4, <1>5, <2>1, LineMissing
<1>7. stop \in Nat /\ p <= stop /\ stop <= Len(b) /\ NoEnd(b, p, stop)
  <2>1. p <= Len(b) /\ parse_one_line(c).status # "OK"
    BY <1>1, <1>2, <1>6
  <2> QED BY <1>1, <1>2, <1>4, <1>5, <2>1, NotALine
<1>8. parse_one_line(d) = parse_one_line(c)
  BY <1>1, <1>2, <1>4, LineAgain
<1>9. parse_one_line(g) = parse_one_line(c)
  BY <1>1, <1>2, <1>4, <1>7, LineAgain
<1>10. Begun(r, b, n, stop)
  BY <1>1, <1>7 DEF Begun, p, w
<1>11. turn(first(d)) = stopped(g, "OK", "NO_REQUEST")
  <2>1. parse_one_line(d).status # "OK" /\ parse_one_line(d).checked = stop
    BY <1>5, <1>6, <1>8
  <2>2. CASE n = 0
    <3> DEFINE M(i) == members(b, v, "REQUESTLINE", i, 0, "", linger_to(r, 0), 0)
    <3>1. d = M(q) /\ g = M(stop)
      BY <2>2 DEF d, g, lined
    <3>2. parse_one_line(M(q)).status # "OK" /\ parse_one_line(M(q)).checked = stop /\ "REQUESTLINE" # "CONTENT"
      BY <2>1, <3>1
    <3> DEFINE st == "REQUESTLINE"
               u == ""
               l == linger_to(r, 0)
               z == 0
    <3>4. /\ parse_one_line(members(b, v, st, q, z, u, l, z)).status # "OK"
          /\ parse_one_line(members(b, v, st, q, z, u, l, z)).checked = stop /\ st # "CONTENT"
      BY <3>2
    <3> HIDE DEF st, u, l, z
    <3>3. turn(first(members(b, v, st, q, z, u, l, z))) = stopped(members(b, v, st, stop, z, u, l, z), "OK", "NO_REQUEST")
      BY <3>4, TurnMissing
    <3> QED BY <3>1, <3>3 DEF st, u, l, z
  <2>3. CASE n # 0
    <3> DEFINE M(i) == members(b, v, "HEADER", i, p, file_of(r), linger_to(r, n - 1), announced(r.headers, n - 1))
    <3>1. d = M(q) /\ g = M(stop)
      BY <2>3 DEF d, g, lined, p
    <3>2. parse_one_line(M(q)).status # "OK" /\ parse_one_line(M(q)).checked = stop /\ "HEADER" # "CONTENT"
      BY <2>1, <3>1
    <3> DEFINE st == "HEADER"
               u == file_of(r)
               l == linger_to(r, n - 1)
               z == announced(r.headers, n - 1)
    <3>4. /\ parse_one_line(members(b, v, st, q, p, u, l, z)).status # "OK"
          /\ parse_one_line(members(b, v, st, q, p, u, l, z)).checked = stop /\ st # "CONTENT"
      BY <3>2
    <3> HIDE DEF st, u, l, z
    <3>3. turn(first(members(b, v, st, q, p, u, l, z))) = stopped(members(b, v, st, stop, p, u, l, z), "OK", "NO_REQUEST")
      BY <3>4, TurnMissing
    <3> QED BY <3>1, <3>3 DEF st, u, l, z
  <2> QED BY <2>2, <2>3
<1> QED BY <1>5, <1>9, <1>10, <1>11 DEF d, g

(* The words of each line. *)
LEMMA FirstText ==
  ASSUME NEW r \in Requests, NEW b, Begins(b, written(r)), NEW n \in Nat, n = Len(r.target) + 4, n <= Len(b)
  PROVE  LineAt(SubSeq(b, 1, n), r) /\ Len(SubSeq(b, 1, n)) = n
<1> DEFINE w == written(r)
           k == Len(r.target)
           t == SubSeq(b, 1, n)
<1>1. k \in Nat
  BY SoundRequest DEF Sound
<1>2. LineAt(w, r)
  BY SoundRequest, WrittenText, WrittenBare DEF Text, Bare
<1>3. b \in Seq(Tokens) /\ \A i \in 1 .. Len(b) : b[i] = w[i]
  BY DEF Begins
<1>4. n = k + 4 /\ n <= Len(b)
  OBVIOUS
<1> HIDE DEF w, k
<1>5. t \in Seq(Tokens) /\ Len(t) = n /\ \A i \in 1 .. n : t[i] = b[i]
  BY <1>3, <1>4
<1> HIDE DEF t
<1>6. \A i \in 1 .. n : t[i] = w[i]
  <2> SUFFICES ASSUME NEW i \in 1 .. n PROVE t[i] = w[i]
    OBVIOUS
  <2>1. i \in 1 .. Len(b)
    BY <1>3, <1>4
  <2> QED BY <1>3, <1>5, <2>1
<1>7. /\ 1 \in 1 .. n /\ 2 \in 1 .. n /\ k + 3 \in 1 .. n /\ k + 4 \in 1 .. n /\ \A i \in 1 .. k : i + 2 \in 1 .. n
      /\ Len(t) >= k + 4
  BY <1>1, <1>4, <1>5
<1> QED BY <1>2, <1>5, <1>6, <1>7 DEF LineAt, k, t

(* Three words of a buffer. *)
LEMMA ThreeWords ==
  ASSUME NEW b \in Seq(Tokens), NEW p \in Nat, p + 5 <= Len(b), NEW t, t = SubSeq(b, p + 1, p + 3)
  PROVE  t \in Seq(Tokens) /\ Len(t) = 3 /\ t[1] = b[p + 1] /\ t[2] = b[p + 2] /\ t[3] = b[p + 3]
<1>1. t \in Seq(Tokens) /\ Len(t) = 3
  OBVIOUS
<1>2. t[1] = b[p + 1] /\ t[2] = b[p + 2] /\ t[3] = b[p + 3]
  OBVIOUS
<1> QED BY <1>1, <1>2

(* The rounds of the loop that read a line of the head. *)
LEMMA RequestLineRound ==
  ASSUME NEW r \in Requests, Readable(r), NEW b, NEW v, NEW q, Begun(r, b, 0, q), Pos(r, 1) <= Len(b)
  PROVE  turn(first(lined(r, b, v, 0, q))) = first(lined(r, b, v, 1, Pos(r, 1)))
<1> DEFINE e == Pos(r, 1)
           st == "REQUESTLINE"
           u == ""
           l == linger_to(r, 0)
           z == 0
           f == file_of(r)
           text == SubSeq(b, z + 1, e - 2)
<1>1. e = Len(r.target) + 6 /\ Len(r.target) \in Nat /\ announced(r.headers, 0) = 0
  <2>1. e = headers_at(r) /\ headers_at(r) = Len(r.target) + 6 /\ Len(r.target) \in Nat
    BY SoundRequest, Positions
  <2>2. {i \in 1 .. 0 : r.headers[i][1] = "Content-Length:"} = {}
    OBVIOUS
  <2>3. announced(r.headers, 0) = 0
    BY <2>2 DEF announced
  <2> QED BY <2>1, <2>3
<1>2. Begins(b, written(r)) /\ r.eol = <<"CR", "LF">> /\ e <= Len(b)
  BY DEF Begun, Readable
<1>3. parse_one_line(lined(r, b, v, 0, q)) = LineEnd("OK", e)
  <2>1. 0 + 1 = 1 /\ Pos(r, 0 + 1) = e
    OBVIOUS
  <2>2. parse_one_line(lined(r, b, v, 0, q)) = LineEnd("OK", Pos(r, 0 + 1))
    BY <1>2, <2>1, LineRead
  <2> QED BY <2>1, <2>2
<1>4. LineAt(text, r) /\ Len(text) = Len(r.target) + 4
  <2> DEFINE n == e - 2
  <2>1. n = Len(r.target) + 4 /\ n \in Nat /\ n <= Len(b) /\ z + 1 = 1
    <3>1. Len(b) \in Nat
      BY <1>2 DEF Begins
    <3> QED BY <1>1, <1>2, <3>1
  <2> HIDE DEF n
  <2>2. LineAt(SubSeq(b, 1, n), r) /\ Len(SubSeq(b, 1, n)) = n
    BY <1>2, <2>1, FirstText
  <2> QED BY <2>1, <2>2 DEF n
<1>5. lined(r, b, v, 0, q) = members(b, v, st, q, z, u, l, z)
  BY DEF lined
<1>6. lined(r, b, v, 1, e) = members(b, v, "HEADER", e, e, f, l, z)
  <2>1. 1 # 0 /\ 1 - 1 = 0
    OBVIOUS
  <2>2. lined(r, b, v, 1, e) = members(b, v, "HEADER", e, e, f, linger_to(r, 1 - 1), announced(r.headers, 1 - 1))
    BY <2>1 DEF lined
  <2> QED BY <1>1, <2>1, <2>2
<1>7. st \in {"REQUESTLINE", "HEADER"} /\ st = "REQUESTLINE"
  OBVIOUS
<1> HIDE DEF e, st, u, l, z, f, text
<1> DEFINE at == members(b, v, st, e, e, u, l, z)
           done == Parsed("NO_REQUEST", members(b, v, "HEADER", e, e, f, l, z))
<1>8. parse_request_line(at, text) = done
  <2>1. parse_request_line(at, text) = Parsed("NO_REQUEST", taken(at, f))
    <3> HIDE DEF at
    <3> QED BY <1>4, LineTaken DEF f
  <2>2. taken(at, f) = members(b, v, "HEADER", e, e, f, l, z)
    BY MembersTaken
  <2> HIDE DEF at
  <2> QED BY <2>1, <2>2
<1>9. done.code = "NO_REQUEST" /\ done.c = members(b, v, "HEADER", e, e, f, l, z)
  BY DEF Parsed
<1> HIDE DEF done
<1>10. turn(first(members(b, v, st, q, z, u, l, z))) = going(done.c, "OK", "NO_REQUEST")
  <2>1. parse_one_line(members(b, v, st, q, z, u, l, z)) = LineEnd("OK", e)
    BY <1>3, <1>5
  <2>2. done = parsed_line(st, at, text) /\ text = words_between(b, z, e)
    BY <1>7, <1>8 DEF text, parsed_line, words_between
  <2>3. turn(first(members(b, v, st, q, z, u, l, z))) = outcome(done)
    BY <1>7, <2>1, <2>2, TurnLine
  <2> QED BY <1>9, <2>3 DEF outcome
<1> QED BY <1>5, <1>6, <1>9, <1>10, First DEF e

(* A header line is read in one round. *)
LEMMA HeaderRound ==
  ASSUME NEW r \in Requests, Readable(r), NEW b, NEW v, NEW q, NEW n \in 1 .. Len(r.headers),
         Begun(r, b, n, q), Pos(r, n + 1) <= Len(b)
  PROVE  turn(first(lined(r, b, v, n, q))) = first(lined(r, b, v, n + 1, Pos(r, n + 1)))
<1> DEFINE p == Pos(r, n)
           e == Pos(r, n + 1)
           st == "HEADER"
           l == linger_to(r, n - 1)
           l2 == linger_to(r, n)
           a == announced(r.headers, n - 1)
           a2 == announced(r.headers, n)
           f == file_of(r)
           h == r.headers[n]
           text == SubSeq(b, p + 1, e - 2)
           w == written(r)
<1>1. /\ Len(r.headers) \in Nat /\ p \in Nat /\ e = p + 5 /\ p = headers_at(r) + 5 * (n - 1)
  <2>1. /\ Len(r.headers) \in Nat /\ p = headers_at(r) + 5 * (n - 1) /\ e = headers_at(r) + 5 * (n - 1) + 5
        /\ headers_at(r) \in Nat
    BY SoundRequest, Positions
  <2> QED BY <2>1
<1>2. /\ Begins(b, w) /\ r.eol = <<"CR", "LF">> /\ e <= Len(b) /\ b \in Seq(Tokens)
      /\ \A i \in 1 .. Len(b) : b[i] = w[i]
  BY DEF Begun, Readable, Begins
<1>3. parse_one_line(lined(r, b, v, n, q)) = LineEnd("OK", e)
  BY <1>2, LineRead
<1>4. h \in (Tokens \ Separators) \X (Tokens \ Separators)
  <2>1. r.headers \in Seq((Tokens \ Separators) \X (Tokens \ Separators))
    BY SoundRequest DEF Sound
  <2> QED BY <2>1
<1>5. HeaderAt(b, p, h)
  <2>1. Text(w, r)
    BY <1>2, SoundRequest, WrittenText
  <2>2. n - 1 \in 0 .. Len(r.headers) - 1 /\ n - 1 + 1 = n
    BY <1>1
  <2>3. HeaderAt(w, headers_at(r) + 5 * (n - 1), r.headers[n - 1 + 1])
    BY <2>1, <2>2 DEF Text
  <2>4. HeaderAt(w, p, h)
    BY <1>1, <2>2, <2>3
  <2>5. \A i \in 1 .. 5 : p + i \in 1 .. Len(b)
    BY <1>1, <1>2, SMTT(30)
  <2> HIDE DEF p, h, w
  <2>6. \A i \in 1 .. 5 : b[p + i] = w[p + i]
    BY <1>2, <2>5
  <2>7. 1 \in 1 .. 5 /\ 2 \in 1 .. 5 /\ 3 \in 1 .. 5 /\ 4 \in 1 .. 5 /\ 5 \in 1 .. 5
    OBVIOUS
  <2> QED BY <2>4, <2>6, <2>7 DEF HeaderAt
<1>6. /\ text \in Seq(Tokens) /\ Len(text) = 3 /\ text[1] = h[1] /\ text[2] = "SP" /\ text[3] = h[2]
  <2>1. p + 5 <= Len(b)
    BY <1>1, <1>2
  <2>2. text = SubSeq(b, p + 1, e - 2)
    OBVIOUS
  <2> HIDE DEF p, e, h, text
  <2>3. e - 2 = p + 3
    BY <1>1
  <2>4. text \in Seq(Tokens) /\ Len(text) = 3 /\ text[1] = b[p + 1] /\ text[2] = b[p + 2] /\ text[3] = b[p + 3]
    <3>1. text = SubSeq(b, p + 1, p + 3)
      BY <2>2, <2>3
    <3> QED BY <1>1, <1>2, <2>1, <3>1, ThreeWords
  <2> QED BY <1>5, <2>4 DEF HeaderAt
<1>7. lined(r, b, v, n, q) = members(b, v, st, q, p, f, l, a)
  <2>1. n # 0
    OBVIOUS
  <2> QED BY <2>1 DEF lined
<1>8. lined(r, b, v, n + 1, e) = members(b, v, st, e, e, f, l2, a2)
  <2>1. n + 1 # 0 /\ (n + 1) - 1 = n
    OBVIOUS
  <2>2. lined(r, b, v, n + 1, e) = members(b, v, st, e, e, f, linger_to(r, (n + 1) - 1), announced(r.headers, (n + 1) - 1))
    BY <2>1 DEF lined
  <2> QED BY <2>1, <2>2
<1>9. st \in {"REQUESTLINE", "HEADER"} /\ st # "REQUESTLINE"
  OBVIOUS
<1>10. l2 = (l \/ keeps(h))
  BY <1>1, Lingers
<1>11. a2 = IF h[1] = "Content-Length:" THEN atol[h[2]] ELSE a
  <2>1. /\ r.headers \in Seq((Tokens \ Separators) \X (Tokens \ Separators))
        /\ \A i \in DOMAIN r.headers : r.headers[i][1] = "Content-Length:" => r.headers[i][2] \in DOMAIN atol
    BY SoundRequest DEF Sound
  <2> QED BY <2>1, Announced
<1> HIDE DEF p, e, st, l, l2, a, a2, f, h, text
<1> DEFINE at == members(b, v, st, e, e, f, l, a)
           done == Parsed("NO_REQUEST", members(b, v, st, e, e, f, l2, a2))
<1>12. parse_request_headers(at, text) = done
  <2>1. parse_request_headers(at, text) =
          Parsed("NO_REQUEST", noted(at, keeps(h), h[1] = "Content-Length:", atol[h[2]]))
    <3> HIDE DEF at
    <3> QED BY <1>4, <1>6, HeaderNoted
  <2>2. noted(at, keeps(h), h[1] = "Content-Length:", atol[h[2]]) =
          members(b, v, st, e, e, f, l \/ keeps(h), IF h[1] = "Content-Length:" THEN atol[h[2]] ELSE a)
    <3> DEFINE k == keeps(h)
               named == h[1] = "Content-Length:"
               x == atol[h[2]]
    <3> HIDE DEF k, named, x
    <3>1. noted(at, k, named, x) = members(b, v, st, e, e, f, l \/ k, IF named THEN x ELSE a)
      BY MembersNoted
    <3> QED BY <3>1, Zenon DEF k, named, x
  <2>3. noted(at, keeps(h), h[1] = "Content-Length:", atol[h[2]]) = members(b, v, st, e, e, f, l2, a2)
    BY <1>10, <1>11, <2>2
  <2> HIDE DEF at
  <2> QED BY <2>1, <2>3
<1>13. done.code = "NO_REQUEST" /\ done.c = members(b, v, st, e, e, f, l2, a2)
  BY DEF Parsed
<1> HIDE DEF done
<1>14. turn(first(members(b, v, st, q, p, f, l, a))) = going(done.c, "OK", "NO_REQUEST")
  <2>1. parse_one_line(members(b, v, st, q, p, f, l, a)) = LineEnd("OK", e)
    BY <1>3, <1>7
  <2>2. done = parsed_line(st, at, text) /\ text = words_between(b, p, e)
    BY <1>9, <1>12 DEF text, parsed_line, words_between
  <2>3. turn(first(members(b, v, st, q, p, f, l, a))) = outcome(done)
    BY <1>9, <2>1, <2>2, TurnLine
  <2> QED BY <1>13, <2>3 DEF outcome
<1> QED BY <1>7, <1>8, <1>13, <1>14, First DEF e

(* The lines lie one after the other. *)
LEMMA PosGrows ==
  ASSUME NEW r, Sound(r), NEW i \in 0 .. Len(r.headers) + 2, NEW j \in 0 .. Len(r.headers) + 2, i <= j
  PROVE  Pos(r, i) <= Pos(r, j)
<1> DEFINE h == Len(r.headers)
           p == headers_at(r)
           e == head_end(r)
<1>1. h \in Nat /\ p \in Nat /\ e = p + 5 * h + 2
  BY Positions
<1>2. \A n : Pos(r, n) = IF n = 0 THEN 0 ELSE IF n <= h + 1 THEN p + 5 * (n - 1) ELSE e
  BY DEF Pos
<1> HIDE DEF h, p, e
<1>3. Pos(r, i) = IF i = 0 THEN 0 ELSE IF i <= h + 1 THEN p + 5 * (i - 1) ELSE e
  BY <1>2
<1>4. Pos(r, j) = IF j = 0 THEN 0 ELSE IF j <= h + 1 THEN p + 5 * (j - 1) ELSE e
  BY <1>2
<1>5. i \in 0 .. h + 2 /\ j \in 0 .. h + 2
  BY DEF h
<1> QED BY <1>1, <1>3, <1>4, <1>5

(* The members when the head was read, and while the body is. *)
bodied(r, b, v, q, p) ==
  members(b, v, "CONTENT", q, p, file_of(r), linger_to(r, Len(r.headers)), announced(r.headers, Len(r.headers)))

headed(r, b, v) ==
  members(b, v, "HEADER", head_end(r), head_end(r), file_of(r), linger_to(r, Len(r.headers)),
          announced(r.headers, Len(r.headers)))

(* The round that reads the blank line. *)
LEMMA BlankRound ==
  ASSUME NEW r \in Requests, Readable(r), NEW b, NEW v, NEW q, NEW n, n = Len(r.headers) + 1, Begun(r, b, n, q),
         head_end(r) <= Len(b)
  PROVE  turn(first(lined(r, b, v, n, q))) =
           IF announced(r.headers, Len(r.headers)) # 0 THEN first(bodied(r, b, v, head_end(r), head_end(r)))
           ELSE stopped(headed(r, b, v), "OK", do_request(headed(r, b, v)))
<1> DEFINE p == Pos(r, n)
           e == head_end(r)
           st == "HEADER"
           l == linger_to(r, Len(r.headers))
           a == announced(r.headers, Len(r.headers))
           f == file_of(r)
           text == words_between(b, p, e)
           body == members(b, v, "CONTENT", e, e, f, l, a)
           at == members(b, v, st, e, e, f, l, a)
<1>1. /\ Len(r.headers) \in Nat /\ p \in Nat /\ e = p + 2 /\ Pos(r, n + 1) = e /\ n # 0 /\ n - 1 = Len(r.headers)
  <2> DEFINE k == Len(r.headers)
  <2>1. k \in Nat /\ Pos(r, k + 1) = e - 2 /\ Pos(r, k + 2) = e /\ e \in Nat
    BY SoundRequest, Positions
  <2>2. Pos(r, k + 1) \in Nat
    <3>1. \A i \in 0 .. k + 2 : Pos(r, i) \in Nat
      BY SoundRequest, Positions
    <3> HIDE DEF k
    <3> QED BY <2>1, <3>1
  <2>3. n = k + 1 /\ n + 1 = k + 2
    BY <2>1
  <2> HIDE DEF k
  <2>4. p \in Nat /\ e = p + 2
    BY <2>1, <2>2, <2>3
  <2> QED BY <2>1, <2>3, <2>4 DEF k
<1>2. Begins(b, written(r)) /\ r.eol = <<"CR", "LF">> /\ e <= Len(b) /\ b \in Seq(Tokens)
  BY DEF Begun, Readable, Begins
<1>3. parse_one_line(lined(r, b, v, n, q)) = LineEnd("OK", e)
  BY <1>1, <1>2, LineRead
<1>4. text = <<>>
  <2> HIDE DEF p, e
  <2>1. e - 2 < p + 1
    BY <1>1
  <2> QED BY <1>1, <1>2, <2>1 DEF words_between
<1>5. lined(r, b, v, n, q) = members(b, v, st, q, p, f, l, a)
  BY <1>1 DEF lined
<1>6. st \in {"REQUESTLINE", "HEADER"} /\ st # "REQUESTLINE"
  OBVIOUS
<1>7. bodied(r, b, v, head_end(r), head_end(r)) = body /\ headed(r, b, v) = at
  BY DEF bodied, headed
<1> HIDE DEF p, e, st, l, a, f, text, body, at
<1>8. parse_request_headers(at, <<>>) = IF a # 0 THEN Parsed("NO_REQUEST", body) ELSE Parsed("GET_REQUEST", at)
  BY BlankRead DEF at, body
<1> DEFINE done == parse_request_headers(at, <<>>)
<1>9. turn(first(members(b, v, st, q, p, f, l, a))) = outcome(done)
  <2>1. parse_one_line(members(b, v, st, q, p, f, l, a)) = LineEnd("OK", e)
    BY <1>3, <1>5
  <2>2. done = parsed_line(st, members(b, v, st, e, e, f, l, a), text) /\ text = words_between(b, p, e)
    BY <1>4, <1>6 DEF text, parsed_line, at
  <2> HIDE DEF done
  <2> QED BY <1>6, <2>1, <2>2, TurnLine
<1>10. CASE a # 0
  <2>1. done.code = "NO_REQUEST" /\ done.c = body
    BY <1>8, <1>10 DEF Parsed
  <2> HIDE DEF done
  <2>2. outcome(done) = first(body)
    BY <2>1, First DEF outcome
  <2> QED BY <1>5, <1>7, <1>9, <1>10, <2>2 DEF a
<1>11. CASE a = 0
  <2>1. done.code = "GET_REQUEST" /\ done.c = at
    BY <1>8, <1>11 DEF Parsed
  <2> HIDE DEF done
  <2>2. outcome(done) = stopped(at, "OK", do_request(at))
    BY <2>1 DEF outcome, served_code
  <2> QED BY <1>5, <1>7, <1>9, <1>11, <2>2 DEF a
<1> QED BY <1>10, <1>11

(* From line to line. *)
LEMMA ReachesLine ==
  ASSUME NEW r \in Requests, Readable(r), NEW b, NEW v, NEW n2 \in 0 .. Len(r.headers) + 1, Pos(r, n2) <= Len(b),
         NEW end, NEW k \in Nat, \A q : Begun(r, b, n2, q) => Reaches(lined(r, b, v, n2, q), end, k)
  PROVE  \A n \in 0 .. n2 : \A q : Begun(r, b, n, q) => Reaches(lined(r, b, v, n, q), end, k + (n2 - n))
<1> DEFINE h == Len(r.headers)
           S == {n \in 0 .. n2 : \A q : Begun(r, b, n, q) => Reaches(lined(r, b, v, n, q), end, k + (n2 - n))}
<1>1. h \in Nat /\ Sound(r)
  BY SoundRequest, Positions
<1> HIDE DEF h
<1>2. n2 \in 0 .. h + 1 /\ n2 \in Nat
  BY <1>1 DEF h
<1>3. n2 \in S
  <2>1. k + (n2 - n2) = k
    BY <1>2
  <2> QED BY <1>2, <2>1
<1>4. ASSUME NEW n \in 0 .. n2 - 1, n + 1 \in S PROVE n \in S
  <2> SUFFICES ASSUME NEW q, Begun(r, b, n, q) PROVE Reaches(lined(r, b, v, n, q), end, k + (n2 - n))
    BY <1>2
  <2> DEFINE e == Pos(r, n + 1)
  <2>1. /\ n \in 0 .. h /\ n + 1 \in 0 .. h + 1 /\ n + 1 \in 0 .. h + 2 /\ n2 \in 0 .. h + 2 /\ n + 1 <= n2
        /\ k + (n2 - (n + 1)) \in Nat /\ k + (n2 - (n + 1)) + 1 = k + (n2 - n)
    BY <1>1, <1>2
  <2>2. e <= Pos(r, n2) /\ e \in Nat /\ Pos(r, n2) \in Nat
    <3>1. \A i \in 0 .. h + 2 : Pos(r, i) \in Nat
      BY <1>1, Positions DEF h
    <3>2. e <= Pos(r, n2)
      BY <1>1, <2>1, PosGrows DEF h
    <3> QED BY <2>1, <3>1, <3>2
  <2>3. Begins(b, written(r)) /\ Len(b) \in Nat
    BY DEF Begun, Begins
  <2>4. e <= Len(b)
    <3> HIDE DEF e
    <3> QED BY <2>2, <2>3
  <2>5. turn(first(lined(r, b, v, n, q))) = first(lined(r, b, v, n + 1, e))
    <3>1. CASE n = 0
      <4>1. n + 1 = 1
        BY <3>1
      <4>2. turn(first(lined(r, b, v, 0, q))) = first(lined(r, b, v, 1, Pos(r, 1)))
        BY <2>4, <3>1, <4>1, RequestLineRound
      <4> QED BY <3>1, <4>1, <4>2
    <3>2. CASE n # 0
      <4>1. n \in 1 .. Len(r.headers)
        BY <1>1, <2>1, <3>2 DEF h
      <4> QED BY <2>4, <4>1, HeaderRound
    <3> QED BY <3>1, <3>2
  <2>6. Begun(r, b, n + 1, e)
    <3>1. NoEnd(b, e, e)
      BY <2>2 DEF NoEnd
    <3>2. e <= e /\ n + 1 \in 0 .. Len(r.headers) + 1
      BY <2>1, <2>2 DEF h
    <3> QED BY <2>2, <2>3, <2>4, <3>1, <3>2 DEF Begun
  <2>7. Reaches(lined(r, b, v, n + 1, e), end, k + (n2 - (n + 1)))
    BY <1>4, <2>6
  <2> HIDE DEF e
  <2>8. Reaches(lined(r, b, v, n, q), end, k + (n2 - (n + 1)) + 1)
    <3> DEFINE g == k + (n2 - (n + 1))
               c == lined(r, b, v, n, q)
               d == lined(r, b, v, n + 1, e)
    <3>1. g \in Nat /\ turn(first(c)) = first(d) /\ Reaches(d, end, g)
      BY <2>1, <2>5, <2>7
    <3> HIDE DEF g, c, d
    <3>2. Reaches(c, end, g + 1)
      BY <3>1, ReachesStep
    <3> QED BY <3>2 DEF g, c
  <2> QED BY <2>1, <2>8
<1>5. \A n \in 0 .. n2 : n \in S
  <2> HIDE DEF S
  <2> QED BY <1>2, <1>3, <1>4, AllNumbersDownFrom
<1> QED BY <1>5

(* What process_read makes of a request that can be read. *)
stop_of(r, b, v, n) == parse_one_line(lined(r, b, v, n, Pos(r, n))).checked

(* The loop goes through all lines that are there, and on to where it ends. *)
LEMMA ReadThrough ==
  ASSUME NEW r \in Requests, Readable(r), NEW b, NEW v, NEW n2 \in 0 .. Len(r.headers) + 1, Pos(r, n2) <= Len(b),
         NEW end, NEW k \in 1 .. 3, n2 + k <= Len(b) + 2,
         \A q : Begun(r, b, n2, q) => Reaches(lined(r, b, v, n2, q), end, k),
         NEW n \in 0 .. n2, NEW q, Begun(r, b, n, q)
  PROVE  process_read(lined(r, b, v, n, q)) = end
<1>1. Len(r.headers) \in Nat /\ n2 \in Nat /\ n \in Nat /\ Len(b) \in Nat
  BY SoundRequest, Positions DEF Begun, Begins
<1> DEFINE g == k + (n2 - n)
           c == lined(r, b, v, n, q)
<1>2. Reaches(c, end, g)
  BY ReachesLine
<1>3. g \in Nat /\ g <= Len(b) + 2
  BY <1>1
<1>4. c.m_rd_buf = b
  BY Lined
<1> HIDE DEF g, c
<1> QED BY <1>1, <1>2, <1>3, <1>4, ReachesRead DEF c

(* The head is not complete. *)
LEMMA ReadOpen ==
  ASSUME NEW r \in Requests, Readable(r), NEW b, NEW v, NEW n2 \in 0 .. Len(r.headers) + 1, Pos(r, n2) <= Len(b),
         Len(b) < Pos(r, n2 + 1), NEW n \in 0 .. n2, NEW q, Begun(r, b, n, q)
  PROVE  /\ process_read(lined(r, b, v, n, q)) = stopped(lined(r, b, v, n2, stop_of(r, b, v, n2)), "OK", "NO_REQUEST")
         /\ Begun(r, b, n2, stop_of(r, b, v, n2))
<1> DEFINE stop == stop_of(r, b, v, n2)
           end == stopped(lined(r, b, v, n2, stop), "OK", "NO_REQUEST")
           p == Pos(r, n2)
<1>1. Len(r.headers) \in Nat /\ n2 \in Nat /\ Len(b) \in Nat /\ p \in Nat /\ n2 <= p
  <2>1. Len(r.headers) \in Nat /\ \A i \in 0 .. Len(r.headers) + 2 : Pos(r, i) \in Nat /\ i <= Pos(r, i)
    BY SoundRequest, Positions
  <2> QED BY <2>1 DEF Begun, Begins
<1>2. r.eol = <<"CR", "LF">> /\ Begins(b, written(r))
  BY DEF Readable, Begun
<1>3. \A g : Begun(r, b, n2, g) => Begun(r, b, n2, stop) /\ Reaches(lined(r, b, v, n2, g), end, 1)
  <2> SUFFICES ASSUME NEW g, Begun(r, b, n2, g) PROVE Begun(r, b, n2, stop) /\ Reaches(lined(r, b, v, n2, g), end, 1)
    OBVIOUS
  <2>1. stop = parse_one_line(lined(r, b, v, n2, Pos(r, n2))).checked
    BY DEF stop_of
  <2> HIDE DEF stop
  <2>2. Begun(r, b, n2, stop) /\ turn(first(lined(r, b, v, n2, g))) = end
    BY <1>2, <2>1, LineToCome
  <2>3. end.halt
    BY DEF stopped
  <2> HIDE DEF end
  <2> QED BY <2>2, <2>3, ReachesStop
<1>4. Begun(r, b, n2, p)
  <2>1. NoEnd(b, p, p)
    BY <1>1 DEF NoEnd
  <2> HIDE DEF p
  <2>2. p <= p /\ p <= Len(b) /\ n2 \in 0 .. Len(r.headers) + 1
    BY <1>1 DEF p
  <2> QED BY <1>1, <1>2, <2>1, <2>2 DEF Begun, p
<1>5. n2 + 1 <= Len(b) + 2 /\ 1 \in 1 .. 3
  BY <1>1
<1> HIDE DEF stop, end
<1>6. process_read(lined(r, b, v, n, q)) = end
  <2> DEFINE k == 1
  <2>1. /\ k \in 1 .. 3 /\ n2 + k <= Len(b) + 2
        /\ \A g : Begun(r, b, n2, g) => Reaches(lined(r, b, v, n2, g), end, k)
    BY <1>3, <1>5
  <2> HIDE DEF k
  <2> QED BY <2>1, ReadThrough, ZenonT(60)
<1> QED BY <1>3, <1>4, <1>6 DEF stop, end

(* The body, when it is complete and when it is not. *)
LEMMA BodyThere ==
  ASSUME NEW r, NEW b, NEW v, NEW q, NEW p, Len(b) >= announced(r.headers, Len(r.headers)) + q
  PROVE  Reaches(bodied(r, b, v, q, p), stopped(bodied(r, b, v, q, q), "OPEN", do_request(bodied(r, b, v, q, q))), 1)
<1> DEFINE u == file_of(r)
           l == linger_to(r, Len(r.headers))
           a == announced(r.headers, Len(r.headers))
           d == bodied(r, b, v, q, q)
           c == bodied(r, b, v, q, p)
           end == stopped(d, "OPEN", do_request(d))
<1>1. d = members(b, v, "CONTENT", q, q, u, l, a) /\ c = members(b, v, "CONTENT", q, p, u, l, a) /\ Len(b) >= a + q
  BY DEF bodied
<1>2. end.halt
  BY DEF stopped
<1> HIDE DEF u, l, a, d, c
<1>3. turn(first(c)) = end
  BY <1>1, TurnBody
<1> HIDE DEF end
<1>4. Reaches(c, end, 1)
  BY <1>2, <1>3, ReachesStop
<1> QED BY <1>4 DEF c, d, end

(* A body that is incomplete. *)
LEMMA BodyToCome ==
  ASSUME NEW r, NEW b, NEW v, NEW q \in Nat, NEW p, Len(b) \in Nat, NoEnd(b, q, Len(b)),
         ~(Len(b) >= announced(r.headers, Len(r.headers)) + q)
  PROVE  Reaches(bodied(r, b, v, q, p), stopped(bodied(r, b, v, Len(b), q), "OPEN", "NO_REQUEST"), 2)
<1> DEFINE u == file_of(r)
           l == linger_to(r, Len(r.headers))
           a == announced(r.headers, Len(r.headers))
           d == bodied(r, b, v, q, q)
           c == bodied(r, b, v, q, p)
           e == bodied(r, b, v, Len(b), q)
           m1 == going(d, "OPEN", "NO_REQUEST")
           end == stopped(e, "OPEN", "NO_REQUEST")
<1>1. /\ d = members(b, v, "CONTENT", q, q, u, l, a) /\ c = members(b, v, "CONTENT", q, p, u, l, a)
      /\ e = members(b, v, "CONTENT", Len(b), q, u, l, a) /\ ~(Len(b) >= a + q)
  BY DEF bodied
<1>2. end.halt
  BY DEF stopped
<1> HIDE DEF u, l, a, d, c, e
<1>3. turn(first(c)) = m1
  BY <1>1, TurnBody
<1>4. parse_one_line(d) = LineEnd("OPEN", Len(b))
  <2>1. d.m_rd_buf = b /\ d.m_checked_idx = q
    BY <1>1, Members
  <2> QED BY <2>1, LineOpen
<1>5. turn(m1) = end
  BY <1>1, <1>4, TurnRest
<1> HIDE DEF end, m1
<1>6. Reaches(c, end, 2)
  BY <1>2, <1>3, <1>5, ReachesTwice
<1> QED BY <1>6 DEF c, e, end

(* The head is complete. *)
length_of(r) == announced(r.headers, Len(r.headers))

(* The loop reaches the blank line. *)
LEMMA ReadBlank ==
  ASSUME NEW r \in Requests, Readable(r), NEW b, NEW v, head_end(r) <= Len(b), NEW end, NEW k \in 1 .. 3,
         \A q : Begun(r, b, Len(r.headers) + 1, q) => Reaches(lined(r, b, v, Len(r.headers) + 1, q), end, k),
         NEW n, NEW q, Begun(r, b, n, q)
  PROVE  process_read(lined(r, b, v, n, q)) = end
<1> DEFINE h == Len(r.headers)
           n2 == Len(r.headers) + 1
<1>1. /\ h \in Nat /\ head_end(r) \in Nat /\ n2 + 1 <= head_end(r) /\ Pos(r, n2) = head_end(r) - 2
  <2>1. /\ h \in Nat /\ head_end(r) \in Nat /\ Pos(r, h + 1) = head_end(r) - 2
        /\ \A i \in 0 .. h + 2 : i + 1 <= head_end(r)
    BY SoundRequest, Positions
  <2>2. h + 1 \in 0 .. h + 2
    BY <2>1
  <2> QED BY <2>1, <2>2
<1>2. /\ Len(b) \in Nat /\ n \in 0 .. n2
  BY DEF Begun, Begins
<1> HIDE DEF h
<1>3. n2 \in 0 .. Len(r.headers) + 1 /\ n2 \in Nat
  BY <1>1 DEF h
<1>4. \A g : Begun(r, b, n2, g) => Reaches(lined(r, b, v, n2, g), end, k)
  OBVIOUS
<1> HIDE DEF n2
<1>5. Pos(r, n2) <= Len(b)
  BY <1>1, <1>2
<1>6. n2 + k <= Len(b) + 2
  BY <1>1, <1>2, <1>3
<1> QED BY <1>2, <1>3, <1>4, <1>5, <1>6, ReadThrough

(* No body: the request is complete. *)
LEMMA ReadHead ==
  ASSUME NEW r \in Requests, Readable(r), NEW b, NEW v, head_end(r) <= Len(b), length_of(r) = 0,
         NEW n, NEW q, Begun(r, b, n, q)
  PROVE  process_read(lined(r, b, v, n, q)) = stopped(headed(r, b, v), "OK", do_request(headed(r, b, v)))
<1> DEFINE end == stopped(headed(r, b, v), "OK", do_request(headed(r, b, v)))
           n2 == Len(r.headers) + 1
<1>1. \A g : Begun(r, b, n2, g) => Reaches(lined(r, b, v, n2, g), end, 1)
  <2> SUFFICES ASSUME NEW g, Begun(r, b, n2, g) PROVE Reaches(lined(r, b, v, n2, g), end, 1)
    OBVIOUS
  <2>1. turn(first(lined(r, b, v, n2, g))) = end
    BY BlankRound DEF length_of
  <2>2. end.halt
    BY DEF stopped
  <2> HIDE DEF end
  <2> QED BY <2>1, <2>2, ReachesStop
<1> HIDE DEF end
<1> DEFINE k == 1
<1>2. /\ k \in 1 .. 3
      /\ \A g : Begun(r, b, Len(r.headers) + 1, g) => Reaches(lined(r, b, v, Len(r.headers) + 1, g), end, k)
  BY <1>1
<1> HIDE DEF k, n2
<1>3. process_read(lined(r, b, v, n, q)) = end
  BY <1>2, ReadBlank
<1> QED BY <1>3 DEF end

(* A body follows. *)
LEMMA ReadBlankBody ==
  ASSUME NEW r \in Requests, Readable(r), NEW b, NEW v, head_end(r) <= Len(b), length_of(r) # 0,
         NEW end, NEW j \in 1 .. 2, Reaches(bodied(r, b, v, head_end(r), head_end(r)), end, j),
         NEW n, NEW q, Begun(r, b, n, q)
  PROVE  process_read(lined(r, b, v, n, q)) = end
<1> DEFINE n2 == Len(r.headers) + 1
           k == j + 1
<1>1. \A g : Begun(r, b, n2, g) => Reaches(lined(r, b, v, n2, g), end, k)
  <2> SUFFICES ASSUME NEW g, Begun(r, b, n2, g) PROVE Reaches(lined(r, b, v, n2, g), end, k)
    OBVIOUS
  <2> DEFINE c == lined(r, b, v, n2, g)
             d == bodied(r, b, v, head_end(r), head_end(r))
  <2>1. turn(first(c)) = first(d)
    BY BlankRound DEF length_of
  <2>2. Reaches(d, end, j)
    OBVIOUS
  <2> HIDE DEF c, d
  <2>3. Reaches(c, end, j + 1)
    BY <2>1, <2>2, ReachesStep
  <2> QED BY <2>3 DEF c
<1>2. /\ k \in 1 .. 3
      /\ \A g : Begun(r, b, Len(r.headers) + 1, g) => Reaches(lined(r, b, v, Len(r.headers) + 1, g), end, k)
  BY <1>1
<1> HIDE DEF k, n2
<1> QED BY <1>2, ReadBlank

(* It is complete as well ... *)
LEMMA ReadBody ==
  ASSUME NEW r \in Requests, Readable(r), NEW b, NEW v, head_end(r) <= Len(b), length_of(r) # 0,
         Len(b) >= length_of(r) + head_end(r), NEW n, NEW q, Begun(r, b, n, q),
         NEW d, d = bodied(r, b, v, head_end(r), head_end(r))
  PROVE  process_read(lined(r, b, v, n, q)) = stopped(d, "OPEN", do_request(d))
<1> DEFINE e == head_end(r)
           end == stopped(d, "OPEN", do_request(d))
           j == 1
<1>1. Reaches(bodied(r, b, v, e, e), end, j) /\ j \in 1 .. 2
  <2> HIDE DEF e
  <2>1. Len(b) >= announced(r.headers, Len(r.headers)) + e /\ d = bodied(r, b, v, e, e)
    BY DEF length_of, e
  <2> QED BY <2>1, BodyThere
<1>2. Reaches(bodied(r, b, v, head_end(r), head_end(r)), end, j) /\ j \in 1 .. 2
  BY <1>1
<1> HIDE DEF e, end, j
<1>3. process_read(lined(r, b, v, n, q)) = end
  BY <1>2, ReadBlankBody
<1> QED BY <1>3 DEF end

(* ... or it is not. *)
LEMMA ReadPart ==
  ASSUME NEW r \in Requests, Readable(r), NEW b, NEW v, head_end(r) <= Len(b), length_of(r) # 0,
         ~(Len(b) >= length_of(r) + head_end(r)), NEW n, NEW q, Begun(r, b, n, q)
  PROVE  process_read(lined(r, b, v, n, q)) = stopped(bodied(r, b, v, Len(b), head_end(r)), "OPEN", "NO_REQUEST")
<1> DEFINE e == head_end(r)
           end == stopped(bodied(r, b, v, Len(b), e), "OPEN", "NO_REQUEST")
           j == 2
           w == written(r)
<1>1. /\ Begins(b, w) /\ Sound(r) /\ Text(w, r) /\ e \in Nat
  BY SoundRequest, WrittenText, Positions DEF Begun, Readable
<1>2. Len(b) \in Nat /\ Len(b) <= Len(w) /\ \A i \in 1 .. Len(b) : b[i] = w[i]
  BY <1>1 DEF Begins
<1>3. NoEnd(b, e, Len(b))
  <2>1. NoEnd(w, e, Len(b))
    BY <1>1, <1>2, NoEndInBody
  <2> HIDE DEF e, w
  <2> SUFFICES ASSUME NEW i \in e .. Len(b) - 1 PROVE b[i + 1] \notin {"CR", "LF"}
    BY DEF NoEnd
  <2>2. i + 1 \in 1 .. Len(b)
    BY <1>1, <1>2
  <2> QED BY <1>2, <2>1, <2>2 DEF NoEnd
<1>4. Reaches(bodied(r, b, v, e, e), end, j) /\ j \in 1 .. 2
  <2> HIDE DEF e
  <2>1. ~(Len(b) >= announced(r.headers, Len(r.headers)) + e)
    BY DEF length_of, e
  <2> QED BY <1>1, <1>2, <1>3, <2>1, BodyToCome
<1>5. Reaches(bodied(r, b, v, head_end(r), head_end(r)), end, j) /\ j \in 1 .. 2
  BY <1>4
<1>6. end = stopped(bodied(r, b, v, Len(b), head_end(r)), "OPEN", "NO_REQUEST")
  OBVIOUS
<1> HIDE DEF e, end, j
<1>7. process_read(lined(r, b, v, n, q)) = end
  BY <1>5, ReadBlankBody
<1> QED BY <1>6, <1>7

(* More of a body comes. *)
LEMMA ReadMore ==
  ASSUME NEW r, NEW b, NEW v, NEW q \in Nat, NEW p, Len(b) \in Nat, NoEnd(b, q, Len(b))
  PROVE  process_read(bodied(r, b, v, q, p)) =
           IF Len(b) >= length_of(r) + q
           THEN stopped(bodied(r, b, v, q, q), "OPEN", do_request(bodied(r, b, v, q, q)))
           ELSE stopped(bodied(r, b, v, Len(b), q), "OPEN", "NO_REQUEST")
<1> DEFINE c == bodied(r, b, v, q, p)
           d == bodied(r, b, v, q, q)
           e1 == stopped(d, "OPEN", do_request(d))
           e2 == stopped(bodied(r, b, v, Len(b), q), "OPEN", "NO_REQUEST")
           one == 1
           two == 2
<1>1. c.m_rd_buf = b /\ one \in Nat /\ one <= Len(b) + 2 /\ two \in Nat /\ two <= Len(b) + 2
  BY DEF bodied, members
<1>2. ASSUME Len(b) >= length_of(r) + q PROVE Reaches(c, e1, one)
  <2>1. Len(b) >= announced(r.headers, Len(r.headers)) + q
    BY <1>2 DEF length_of
  <2> QED BY <2>1, BodyThere
<1>3. ASSUME ~(Len(b) >= length_of(r) + q) PROVE Reaches(c, e2, two)
  <2>1. ~(Len(b) >= announced(r.headers, Len(r.headers)) + q)
    BY <1>3 DEF length_of
  <2> QED BY <2>1, BodyToCome
<1> HIDE DEF c, e1, e2, one, two
<1>4. ASSUME Len(b) >= length_of(r) + q PROVE process_read(c) = e1
  BY <1>1, <1>2, <1>4, ReachesRead
<1>5. ASSUME ~(Len(b) >= length_of(r) + q) PROVE process_read(c) = e2
  BY <1>1, <1>3, <1>5, ReachesRead
<1> QED BY <1>4, <1>5 DEF c, d, e1, e2
-----------------------------------------------------------------------------
(* What a request line is never read from: the rest of a request from index a
   on, when that is past its request line, or the request cannot be read. *)
Rest(r, a) ==
  \/ a = 0 /\ ~Readable(r)
  \/ r.eol = <<"CR", "LF">> /\ a \in Nat /\ headers_at(r) <= a

(* b begins what w has behind a. *)
Within(b, w, a) == b \in Seq(Tokens) /\ a \in Nat /\ a + Len(b) <= Len(w) /\ \A i \in 1 .. Len(b) : b[i] = w[a + i]

(* The blanks behind the request line, each on its own line. *)
LEMMA BlankPlace ==
  ASSUME NEW r, Sound(r), NEW s, Text(s, r), NEW p \in Nat, headers_at(r) < p, p <= Len(s), s[p] = "SP"
  PROVE  \E i \in 0 .. Len(r.headers) - 1 : p = headers_at(r) + 5 * i + 2
<1> DEFINE h == Len(r.headers)
           o == headers_at(r)
           e == head_end(r)
<1>1. /\ h \in Nat /\ o \in Nat /\ e = o + 5 * h + 2 /\ r.body \in Nat
  BY Positions
<1>2. /\ Len(s) = e + r.body
      /\ \A i \in 0 .. h - 1 : HeaderAt(s, o + 5 * i, r.headers[i + 1])
      /\ s[o + 5 * h + 1] = "CR" /\ s[o + 5 * h + 2] = "LF"
      /\ \A i \in 1 .. r.body : s[e + i] = "BODY"
  BY DEF Text
<1>3. \A i \in 1 .. h : r.headers[i][1] # "SP" /\ r.headers[i][2] # "SP"
  <2>1. r.headers \in Seq((Tokens \ Separators) \X (Tokens \ Separators))
    BY DEF Sound
  <2>2. \A i \in 1 .. h : r.headers[i] \in (Tokens \ Separators) \X (Tokens \ Separators)
    BY <2>1
  <2> QED BY <2>2 DEF Separators
<1> HIDE DEF h, o, e
<1>4. CASE p <= o + 5 * h
  <2> DEFINE y == p - o - 1
             i == y \div 5
             j == y % 5
  <2>1. i \in 0 .. h - 1 /\ j \in 0 .. 4 /\ p = o + 5 * i + j + 1
    <3>1. y \in Nat /\ y < 5 * h /\ p = o + y + 1
      BY <1>1, <1>4, SMTT(30) DEF o
    <3> HIDE DEF y
    <3>2. i \in Int /\ j \in 0 .. 4 /\ y = 5 * i + j
      BY <3>1
    <3> HIDE DEF i, j
    <3>3. i \in 0 .. h - 1
      BY <1>1, <3>1, <3>2
    <3> QED BY <1>1, <3>1, <3>2, <3>3
  <2>2. HeaderAt(s, o + 5 * i, r.headers[i + 1]) /\ i + 1 \in 1 .. h
    BY <1>1, <1>2, <2>1
  <2> HIDE DEF i, j
  <2>3. r.headers[i + 1][1] # "SP" /\ r.headers[i + 1][2] # "SP"
    BY <1>3, <2>2
  <2> DEFINE x == o + 5 * i
  <2>4. x \in Int /\ p = x + j + 1
    BY <1>1, <2>1
  <2> HIDE DEF x
  <2>5. /\ s[x + 1] # "SP" /\ s[x + 3] # "SP" /\ s[x + 4] # "SP" /\ s[x + 5] # "SP"
    BY <2>2, <2>3 DEF HeaderAt, x
  <2>6. j = 1
    <3>1. CASE j = 0
      <4>1. p = x + 1
        BY <2>4, <3>1
      <4> QED BY <2>5, <4>1
    <3>2. CASE j = 2
      <4>1. p = x + 3
        BY <2>4, <3>2
      <4> QED BY <2>5, <4>1
    <3>3. CASE j = 3
      <4>1. p = x + 4
        BY <2>4, <3>3
      <4> QED BY <2>5, <4>1
    <3>4. CASE j = 4
      <4>1. p = x + 5
        BY <2>4, <3>4
      <4> QED BY <2>5, <4>1
    <3> QED BY <2>1, <3>1, <3>2, <3>3, <3>4
  <2>7. p = o + 5 * i + 2
    BY <1>1, <2>1, <2>6
  <2> QED BY <2>1, <2>7 DEF h, o
<1>5. CASE p = o + 5 * h + 1 \/ p = o + 5 * h + 2
  BY <1>2, <1>5
<1>6. CASE p > e
  <2>1. p - e \in 1 .. r.body /\ e + (p - e) = p
    BY <1>1, <1>2, <1>6
  <2> QED BY <1>2, <2>1
<1> QED BY <1>1, <1>4, <1>5, <1>6

(* So between two of them a line ends. *)
LEMMA BlanksApart ==
  ASSUME NEW r, Sound(r), NEW s, Text(s, r), NEW p \in Nat, NEW q \in Nat, headers_at(r) < p, p < q, q <= Len(s),
         s[p] = "SP", s[q] = "SP"
  PROVE  \E k \in p + 1 .. q - 1 : s[k] = "CR"
<1> DEFINE o == headers_at(r)
           h == Len(r.headers)
<1>1. o \in Nat /\ h \in Nat
  BY Positions
<1>2. PICK i \in 0 .. h - 1 : p = o + 5 * i + 2
  <2>1. p <= Len(s)
    BY DEF Text, LineAt
  <2> QED BY <2>1, BlankPlace
<1>3. PICK j \in 0 .. h - 1 : q = o + 5 * j + 2
  <2>1. o < q
    BY <1>1
  <2> QED BY <2>1, BlankPlace
<1>4. HeaderAt(s, o + 5 * i, r.headers[i + 1])
  BY DEF Text
<1> HIDE DEF o, h
<1>5. s[o + 5 * i + 4] = "CR"
  BY <1>4 DEF HeaderAt
<1>6. o + 5 * i + 4 \in p + 1 .. q - 1
  BY <1>1, <1>2, <1>3
<1> QED BY <1>5, <1>6

(* Lines that end badly. *)
LEMMA RefusedBare ==
  ASSUME NEW r, Sound(r), NEW w, Bare(w, r), NEW b, Within(b, w, 0), NEW c, c.m_rd_buf = b, c.m_checked_idx = 0
  PROVE  parse_one_line(c).status # "OK"
<1> DEFINE i == Len(r.target) + 4
<1>1. /\ Len(b) \in Nat /\ Len(b) <= Len(w) /\ \A j \in 1 .. Len(b) : b[j] = w[j]
  BY DEF Within
<1>2. /\ LineAt(w, r) /\ Len(w) >= i + 2 /\ w[i] = "HTTP/1.1"
      /\ \/ w[i + 1] = "LF"
         \/ w[i + 1] = "CR" /\ w[i + 2] # "LF"
      /\ i \in Nat /\ i > 1 /\ Len(w) \in Nat
  <2> DEFINE k == Len(r.target)
  <2>1. k \in Nat /\ LineAt(w, r) /\ Len(w) >= k + 6 /\ Len(w) \in Nat
    BY DEF Bare, LineAt, Sound
  <2>2. w[k + 4] = "HTTP/1.1" /\ (w[k + 5] = "LF" \/ (w[k + 5] = "CR" /\ w[k + 6] # "LF"))
    BY DEF Bare, LineAt
  <2> HIDE DEF k
  <2>3. k + 4 + 1 = k + 5 /\ k + 4 + 2 = k + 6
    BY <2>1
  <2> QED BY <2>1, <2>2, <2>3 DEF k
<1>3. NoEnd(w, 0, i)
  BY <1>2, PlainLine
<1> HIDE DEF i
<1>4. CASE Len(b) <= i
  <2>1. NoEnd(b, 0, Len(b))
    <3> SUFFICES ASSUME NEW j \in 0 .. Len(b) - 1 PROVE b[j + 1] \notin {"CR", "LF"}
      BY DEF NoEnd
    <3>1. j + 1 \in 1 .. Len(b) /\ j \in 0 .. i - 1
      BY <1>1, <1>2, <1>4
    <3> QED BY <1>1, <1>3, <3>1 DEF NoEnd
  <2>2. parse_one_line(c) = LineEnd("OPEN", Len(b))
    BY <1>1, <2>1, LineOpen
  <2> QED BY <2>2 DEF LineEnd
<1>5. CASE Len(b) > i
  <2>1. NoEnd(b, 0, i)
    <3> SUFFICES ASSUME NEW j \in 0 .. i - 1 PROVE b[j + 1] \notin {"CR", "LF"}
      BY DEF NoEnd
    <3>1. j + 1 \in 1 .. Len(b)
      BY <1>1, <1>2, <1>5
    <3> QED BY <1>1, <1>3, <3>1 DEF NoEnd
  <2>2. b[i + 1] = w[i + 1] /\ b[i] = "HTTP/1.1" /\ (i + 1 # Len(b) => b[i + 2] = w[i + 2])
    <3>1. i + 1 \in 1 .. Len(b) /\ i \in 1 .. Len(b) /\ (i + 1 # Len(b) => i + 2 \in 1 .. Len(b))
      BY <1>1, <1>2, <1>5
    <3> QED BY <1>1, <1>2, <3>1
  <2>3. b[i + 1] \in {"CR", "LF"}
    BY <1>2, <2>2
  <2>4. parse_one_line(c) = ended(b, i)
    BY <1>1, <1>2, <1>5, <2>1, <2>3, LineEnds
  <2>5. ended(b, i).status # "OK"
    <3>1. CASE b[i + 1] = "LF"
      <4>1. ended(b, i) = LineEnd("BAD", i)
        BY <2>2, <3>1 DEF ended
      <4> QED BY <4>1 DEF LineEnd
    <3>2. CASE b[i + 1] # "LF" /\ i + 1 = Len(b)
      <4>1. ended(b, i) = LineEnd("OPEN", i)
        BY <3>2 DEF ended
      <4> QED BY <4>1 DEF LineEnd
    <3>3. CASE b[i + 1] # "LF" /\ i + 1 # Len(b)
      <4>1. b[i + 2] # "LF"
        BY <1>2, <2>2, <3>3
      <4>2. ended(b, i) = LineEnd("BAD", i)
        BY <3>3, <4>1 DEF ended
      <4> QED BY <4>2 DEF LineEnd
    <3> QED BY <3>1, <3>2, <3>3
  <2> QED BY <2>4, <2>5
<1> QED BY <1>1, <1>2, <1>4, <1>5

(* A request line of another kind. *)
LEMMA RefusedLine ==
  ASSUME NEW r \in Requests, ~Readable(r), r.eol = <<"CR", "LF">>, NEW b, Within(b, written(r), 0),
         NEW c, c.m_rd_buf = b, c.m_checked_idx = 0, parse_one_line(c).status = "OK",
         NEW e, e = parse_one_line(c).checked
  PROVE  /\ e = headers_at(r) /\ e \in Nat /\ e <= Len(b)
         /\ \A at : parse_request_line(at, words_between(b, 0, e)) = Parsed("BAD_REQUEST", at)
<1> DEFINE w == written(r)
           o == headers_at(r)
<1>1. /\ Begins(b, w) /\ Len(b) \in Nat /\ \A j \in 1 .. Len(b) : b[j] = w[j]
  BY DEF Begins, Within
<1>2. /\ o \in Nat /\ o = Len(r.target) + 6 /\ Len(r.target) \in Nat /\ IsLine(w, 0, o)
  <2>1. Sound(r) /\ Text(w, r)
    BY SoundRequest, WrittenText
  <2>2. /\ o \in Nat /\ o = Len(r.target) + 6 /\ Len(r.target) \in Nat /\ Len(r.headers) \in Nat
        /\ Pos(r, 0) = 0 /\ Pos(r, 1) = o
    BY <2>1, Positions
  <2>3. 0 \in 0 .. Len(r.headers) + 1 /\ 0 + 1 = 1
    BY <2>2
  <2>4. IsLine(w, Pos(r, 0), Pos(r, 0 + 1))
    BY <2>1, <2>3, HeadLines
  <2> QED BY <2>2, <2>3, <2>4
<1>3. CASE Len(b) < o
  <2> HIDE DEF w, o
  <2>1. parse_one_line(c).status = "OPEN"
    <3> DEFINE z == 0
    <3>1. z \in Nat /\ c.m_checked_idx = z /\ z <= Len(b) /\ IsLine(w, z, o)
      BY <1>1, <1>2
    <3> HIDE DEF z
    <3> QED BY <1>1, <1>2, <1>3, <3>1, LineMissing
  <2> QED BY <2>1
<1>4. CASE o <= Len(b)
  <2>1. IsLine(b, 0, o)
    <3> HIDE DEF w, o
    <3>1. NoEnd(b, 0, o - 2)
      <4> SUFFICES ASSUME NEW i \in 0 .. (o - 2) - 1 PROVE b[i + 1] \notin {"CR", "LF"}
        BY DEF NoEnd
      <4>1. i + 1 \in 1 .. Len(b)
        BY <1>1, <1>2, <1>4
      <4> QED BY <1>1, <1>2, <4>1 DEF IsLine, NoEnd
    <3>2. o - 1 \in 1 .. Len(b) /\ o \in 1 .. Len(b)
      BY <1>1, <1>2, <1>4
    <3> QED BY <1>1, <1>2, <3>1, <3>2 DEF IsLine
  <2> HIDE DEF w, o
  <2>2. parse_one_line(c) = LineEnd("OK", o)
    <3> DEFINE z == 0
    <3>1. z \in Nat /\ c.m_checked_idx = z /\ z + 2 <= o /\ IsLine(b, z, o)
      BY <1>2, <2>1
    <3> HIDE DEF z
    <3> QED BY <1>1, <1>2, <1>4, <3>1, LineFound
  <2>3. e = o
    BY <2>2 DEF LineEnd
  <2>4. LineAt(words_between(b, 0, e), r) /\ Len(words_between(b, 0, e)) = Len(r.target) + 4
    <3> DEFINE n == e - 2
    <3>1. n \in Nat /\ n = Len(r.target) + 4 /\ n <= Len(b) /\ 0 + 1 = 1
      BY <1>1, <1>2, <1>4, <2>3
    <3> HIDE DEF n
    <3>2. LineAt(SubSeq(b, 1, n), r) /\ Len(SubSeq(b, 1, n)) = n
      BY <1>1, <3>1, FirstText DEF w
    <3>3. words_between(b, 0, e) = SubSeq(b, 1, n)
      BY <3>1 DEF words_between, n
    <3> QED BY <3>1, <3>2, <3>3
  <2>5. r.method # "GET" \/ r.target = <<"http://", "host">>
    BY DEF Readable
  <2>6. \A at : parse_request_line(at, words_between(b, 0, e)) = Parsed("BAD_REQUEST", at)
    BY <2>4, <2>5, LineRefused
  <2> QED BY <1>2, <1>4, <2>3, <2>6 DEF o
<1> QED BY <1>1, <1>2, <1>3, <1>4

(* What comes behind a request line is none. *)
LEMMA RefusedRest ==
  ASSUME NEW r \in Requests, r.eol = <<"CR", "LF">>, NEW a \in Nat, headers_at(r) <= a, NEW b, Within(b, written(r), a),
         NEW c, c.m_rd_buf = b, c.m_checked_idx = 0, parse_one_line(c).status = "OK",
         NEW e, e = parse_one_line(c).checked
  PROVE  /\ e \in Nat /\ e <= Len(b)
         /\ \A at : parse_request_line(at, words_between(b, 0, e)) = Parsed("BAD_REQUEST", at)
<1> DEFINE w == written(r)
<1>1. /\ b \in Seq(Tokens) /\ Len(b) \in Nat /\ a + Len(b) <= Len(w) /\ \A j \in 1 .. Len(b) : b[j] = w[a + j]
  BY DEF Within
<1>2. Sound(r) /\ Text(w, r) /\ headers_at(r) \in Nat
  BY SoundRequest, WrittenText, Positions
<1> HIDE DEF w
<1>3. ~NoEnd(b, 0, Len(b))
  <2> SUFFICES ASSUME NoEnd(b, 0, Len(b)) PROVE FALSE
    OBVIOUS
  <2>1. parse_one_line(c) = LineEnd("OPEN", Len(b))
    BY <1>1, LineOpen
  <2> QED BY <2>1 DEF LineEnd
<1>4. PICK i \in Nat : i < Len(b) /\ NoEnd(b, 0, i) /\ b[i + 1] \in {"CR", "LF"}
  BY <1>1, <1>3, EndOrNone
<1>5. parse_one_line(c) = ended(b, i)
  <2>1. 0 \in Nat /\ 0 <= i /\ Len(c.m_rd_buf) \in Nat /\ i < Len(c.m_rd_buf)
    BY <1>1, <1>4
  <2>2. NoEnd(c.m_rd_buf, 0, i) /\ c.m_rd_buf[i + 1] \in {"CR", "LF"}
    BY <1>4
  <2>3. parse_one_line(c) = ended(c.m_rd_buf, i)
    BY <2>1, <2>2, LineEnds
  <2> QED BY <2>3
<1>6. e = i + 2 /\ i + 2 <= Len(b)
  <2>1. CASE b[i + 1] = "LF"
    <3>1. ~(i > 1 /\ b[i] = "CR")
      <4>1. i > 1 => i - 1 \in 0 .. i - 1 /\ (i - 1) + 1 = i
        BY <1>4
      <4> QED BY <1>4, <4>1 DEF NoEnd
    <3>2. ended(b, i) = LineEnd("BAD", i)
      BY <2>1, <3>1 DEF ended
    <3> QED BY <1>5, <3>2 DEF LineEnd
  <2>2. CASE b[i + 1] # "LF" /\ i + 1 = Len(b)
    <3>1. ended(b, i) = LineEnd("OPEN", i)
      BY <2>2 DEF ended
    <3> QED BY <1>5, <3>1 DEF LineEnd
  <2>3. CASE b[i + 1] # "LF" /\ i + 1 # Len(b)
    <3>1. CASE b[i + 2] = "LF"
      <4>1. ended(b, i) = LineEnd("OK", i + 2)
        BY <2>3, <3>1 DEF ended
      <4>2. e = i + 2
        BY <1>5, <4>1 DEF LineEnd
      <4> QED BY <1>1, <1>4, <2>3, <4>2
    <3>2. CASE b[i + 2] # "LF"
      <4>1. ended(b, i) = LineEnd("BAD", i)
        BY <2>3, <3>2 DEF ended
      <4> QED BY <1>5, <4>1 DEF LineEnd
    <3> QED BY <3>1, <3>2
  <2> QED BY <2>1, <2>2, <2>3
<1> DEFINE text == SubSeq(b, 1, i)
<1>7. words_between(b, 0, e) = text
  <2>1. e - 2 = i /\ 0 + 1 = 1
    BY <1>6
  <2> QED BY <2>1 DEF words_between
<1>8. text \in Seq(Tokens) /\ Len(text) = i /\ \A j \in 1 .. i : text[j] = b[j]
  BY <1>1, <1>4
<1> HIDE DEF text
<1>9. ASSUME NEW x \in 1 .. i, NEW y \in 1 .. i, text[x] = "SP", text[y] = "SP", x < y PROVE FALSE
  <2> DEFINE p == a + x
             q == a + y
  <2>1. /\ p \in Nat /\ q \in Nat /\ headers_at(r) < p /\ p < q /\ q <= Len(w) /\ x \in 1 .. Len(b) /\ y \in 1 .. Len(b)
        /\ Len(w) \in Nat
    <3>1. Len(w) \in Nat
      BY <1>2 DEF Text, LineAt
    <3> QED BY <1>1, <1>2, <1>4, <1>9, <3>1
  <2>2. w[p] = "SP" /\ w[q] = "SP"
    BY <1>1, <1>8, <1>9, <2>1
  <2> HIDE DEF p, q
  <2>3. PICK k \in p + 1 .. q - 1 : w[k] = "CR"
    BY <1>2, <2>1, <2>2, BlanksApart
  <2>4. k - a \in 1 .. Len(b) /\ a + (k - a) = k /\ (k - a) - 1 \in 0 .. i - 1 /\ ((k - a) - 1) + 1 = k - a
    BY <1>1, <1>4, <2>1 DEF p, q
  <2>5. b[k - a] = "CR"
    BY <1>1, <2>3, <2>4
  <2>6. b[((k - a) - 1) + 1] \notin {"CR", "LF"}
    BY <1>4, <2>4 DEF NoEnd
  <2> QED BY <2>4, <2>5, <2>6
<1>10. \A x, y \in 1 .. Len(text) : text[x] = "SP" /\ text[y] = "SP" => x = y
  <2> SUFFICES ASSUME NEW x \in 1 .. i, NEW y \in 1 .. i, text[x] = "SP", text[y] = "SP", x # y PROVE FALSE
    BY <1>8
  <2>1. x < y \/ y < x
    BY <1>4
  <2> QED BY <1>9, <2>1
<1>11. \A at : parse_request_line(at, text) = Parsed("BAD_REQUEST", at)
  BY <1>8, <1>10, LinePoor
<1> QED BY <1>4, <1>6, <1>7, <1>11

(* However a rest of a request begins, its first line is refused. *)
LEMMA Hopeless ==
  ASSUME NEW r \in Requests, NEW a, Rest(r, a), NEW b, Within(b, written(r), a),
         NEW c, c.m_rd_buf = b, c.m_checked_idx = 0, parse_one_line(c).status = "OK",
         NEW e, e = parse_one_line(c).checked
  PROVE  /\ e \in Nat /\ e <= Len(b) /\ r.eol = <<"CR", "LF">> /\ headers_at(r) <= a + Len(b)
         /\ \A at : parse_request_line(at, words_between(b, 0, e)) = Parsed("BAD_REQUEST", at)
<1>1. Sound(r) /\ headers_at(r) \in Nat /\ Len(b) \in Nat /\ a \in Nat
  BY SoundRequest, Positions DEF Within
<1>2. CASE a = 0 /\ ~Readable(r)
  <2>0. Within(b, written(r), 0)
    BY <1>2
  <2>1. r.eol = <<"CR", "LF">>
    <3> SUFFICES ASSUME r.eol # <<"CR", "LF">> PROVE FALSE
      OBVIOUS
    <3>1. Bare(written(r), r)
      BY <1>1, WrittenBare
    <3> DEFINE w == written(r)
    <3>2. Bare(w, r) /\ Within(b, w, 0)
      BY <2>0, <3>1
    <3> HIDE DEF w
    <3> QED BY <1>1, <3>2, RefusedBare
  <2>2. /\ e = headers_at(r) /\ e \in Nat /\ e <= Len(b)
        /\ \A at : parse_request_line(at, words_between(b, 0, e)) = Parsed("BAD_REQUEST", at)
    BY <1>2, <2>0, <2>1, RefusedLine
  <2> QED BY <1>1, <1>2, <2>1, <2>2
<1>3. CASE r.eol = <<"CR", "LF">> /\ a \in Nat /\ headers_at(r) <= a
  <2>1. /\ e \in Nat /\ e <= Len(b)
        /\ \A at : parse_request_line(at, words_between(b, 0, e)) = Parsed("BAD_REQUEST", at)
    BY <1>3, RefusedRest
  <2> QED BY <1>1, <1>3, <2>1
<1> QED BY <1>2, <1>3 DEF Rest
-----------------------------------------------------------------------------
(* The units of an answer. *)
size_of(r) == resources[file_of(r)].size
keeping(r) == linger_to(r, Len(r.headers))
file_part(r) == [i \in 1 .. size_of(r) |-> file_unit(file_of(r), i - 1)]
reply(r) == joined(head("FILE_REQUEST", size_of(r), keeping(r)), file_part(r))

Paths == DOMAIN resources

Units ==
  {<<"HTTP/1.1", status["FILE_REQUEST"]>>, <<"Content-Type", "text/html">>, <<"blank", "">>} \cup
  ({"Content-Length"} \X Nat) \cup ({"Connection"} \X BOOLEAN) \cup
  (Paths \X Int)

(* The parser has found the header that keeps the connection, if it is there. *)
LEMMA Keeping ==
  ASSUME NEW r \in Requests
  PROVE  keeping(r) \in BOOLEAN /\ (keeping(r) = has(r, "Connection:", "keep-alive"))
<1>1. DOMAIN r.headers = 1 .. Len(r.headers)
  <2>1. r.headers \in Seq((Tokens \ Separators) \X (Tokens \ Separators))
    BY SoundRequest DEF Sound
  <2> QED BY <2>1
<1>2. (\E i \in 1 .. Len(r.headers) : keeps(r.headers[i])) <=> has(r, "Connection:", "keep-alive")
  BY <1>1, Zenon DEF has, keeps
<1> QED BY <1>2, Zenon DEF keeping, linger_to, has

(* The answer the client expects, put together pairwise. *)
LEMMA Reply ==
  ASSUME NEW r \in Requests
  PROVE  answer(r) = reply(r)
<1> DEFINE k == has(r, "Connection:", "keep-alive")
<1>1. k = keeping(r)
  BY Keeping
<1>2. answer(r) = joined(head("FILE_REQUEST", size_of(r), k), file_part(r))
  BY Zenon DEF answer, joined, file_part, size_of
<1> HIDE DEF k
<1> QED BY <1>1, <1>2 DEF reply

(* What it is made of. *)
LEMMA ReplyUnits ==
  ASSUME NEW r \in Requests, served(r)
  PROVE  /\ size_of(r) \in Nat /\ Len(head("FILE_REQUEST", size_of(r), keeping(r))) = 5
         /\ head("FILE_REQUEST", size_of(r), keeping(r)) \in Seq(Units)
         /\ file_part(r) \in Seq(Units) /\ Len(file_part(r)) = size_of(r)
         /\ IsJoined(Units, reply(r), head("FILE_REQUEST", size_of(r), keeping(r)), file_part(r))
         /\ Len(reply(r)) = 5 + size_of(r)
<1> DEFINE h == head("FILE_REQUEST", size_of(r), keeping(r))
           f == file_part(r)
           s == size_of(r)
           l == keeping(r)
<1>1. s \in Nat /\ l \in BOOLEAN /\ file_of(r) \in DOMAIN resources
  BY ResourcesAssumption, Keeping DEF served, size_of
<1> HIDE DEF s, l
<1>2. h = head("FILE_REQUEST", s, l)
  BY DEF s, l
<1>3. Len(h) = 5 /\ h \in Seq(Units)
  <2> DEFINE a1 == <<"HTTP/1.1", status["FILE_REQUEST"]>>
             a2 == <<"Content-Length", s>>
             a3 == <<"Content-Type", "text/html">>
             a4 == <<"Connection", l>>
             a5 == <<"blank", "">>
  <2>1. h = <<a1, a2, a3, a4, a5>>
    BY <1>2, Zenon DEF head
  <2>2. a1 \in Units /\ a2 \in Units /\ a3 \in Units /\ a4 \in Units /\ a5 \in Units
    BY <1>1 DEF Units
  <2> HIDE DEF a1, a2, a3, a4, a5, h
  <2> QED BY <2>1, <2>2
<1>5. f \in Seq(Units) /\ Len(f) = s
  <2>1. f = [i \in 1 .. s |-> file_unit(file_of(r), i - 1)]
    BY DEF file_part, s
  <2>2. \A i \in 1 .. s : file_unit(file_of(r), i - 1) \in Units
    <3> SUFFICES ASSUME NEW i \in 1 .. s PROVE file_unit(file_of(r), i - 1) \in Units
      OBVIOUS
    <3> DEFINE x == i - 1
               g == file_of(r)
    <3>1. x \in Int /\ g \in DOMAIN resources
      BY <1>1
    <3> HIDE DEF x, g
    <3>2. file_unit(g, x) \in Paths \X Int
      <4> DEFINE z == <<g, x>>
      <4>1. g \in Paths
        BY <3>1 DEF Paths
      <4>2. z \in Paths \X Int
        BY <3>1, <4>1
      <4> HIDE DEF z
      <4>3. file_unit(g, x) = z
        BY DEF file_unit, z
      <4> QED BY <4>2, <4>3
    <3>3. file_unit(g, x) \in Units
      BY <3>2 DEF Units
    <3> QED BY <3>3 DEF x, g
  <2> HIDE DEF f
  <2> QED BY <1>1, <2>1, <2>2
<1> HIDE DEF h, f
<1>6. IsJoined(Units, joined(h, f), h, f)
  BY <1>3, <1>5, JoinedText
<1>7. reply(r) = joined(h, f)
  BY DEF reply, h, f
<1>8. Len(reply(r)) = 5 + s
  BY <1>3, <1>5, <1>6, <1>7 DEF IsJoined
<1> QED BY <1>1, <1>3, <1>5, <1>6, <1>7, <1>8 DEF s, l, h, f

(* What is owed for one more request. *)
due(r) == IF served(r) THEN reply(r) ELSE <<>>
dues(s, n) == [k \in 1 .. n |-> due(s[k])]
owed_to(s, n) == FlattenSeq(dues(s, n))

(* What is owed, by the requests alone. *)
LEMMA Owed ==
  ASSUME \A k \in DOMAIN sent : sent[k] \in Requests, NEW n \in Nat, 1 .. n \subseteq DOMAIN sent
  PROVE  owed(n) = owed_to(sent, n)
<1>1. \A k \in 1 .. n : (IF served(sent[k]) THEN answer(sent[k]) ELSE <<>>) = due(sent[k])
  BY Reply DEF due
<1>2. [k \in 1 .. n |-> IF served(sent[k]) THEN answer(sent[k]) ELSE <<>>] = dues(sent, n)
  BY <1>1 DEF dues
<1> QED BY <1>2, Zenon DEF owed, owed_to

(* One more. *)
LEMMA OwedNext ==
  ASSUME NEW s, NEW l \in Nat, s \in [1 .. l -> Requests], NEW n \in 1 .. l
  PROVE  /\ owed_to(s, n - 1) \in Seq(Units) /\ owed_to(s, n) \in Seq(Units) /\ due(s[n]) \in Seq(Units)
         /\ owed_to(s, n) = joined(owed_to(s, n - 1), due(s[n]))
<1>1. ASSUME NEW k \in 1 .. l PROVE due(s[k]) \in Seq(Units)
  <2>1. s[k] \in Requests
    OBVIOUS
  <2>2. CASE served(s[k])
    <3>1. IsJoined(Units, reply(s[k]), head("FILE_REQUEST", size_of(s[k]), keeping(s[k])), file_part(s[k]))
      BY <2>1, <2>2, ReplyUnits
    <3> QED BY <2>2, <3>1 DEF due, IsJoined
  <2>3. CASE ~served(s[k])
    BY <2>3 DEF due
  <2> QED BY <2>2, <2>3
<1>2. ASSUME NEW k \in 1 .. l PROVE dues(s, k) \in Seq(Seq(Units)) /\ Len(dues(s, k)) = k
  BY <1>1 DEF dues
<1>0. dues(s, n) \in Seq(Seq(Units)) /\ Len(dues(s, n)) = n /\ n >= 1
  BY <1>2
<1>3. owed_to(s, n) \in Seq(Units)
  <2> DEFINE d == dues(s, n)
  <2>1. d \in Seq(Seq(Units)) /\ Len(d) = n /\ Len(d) >= 1
    BY <1>0
  <2> HIDE DEF d
  <2>2. FlattenSeq(d) = flats(d)[Len(d)] /\ flats(d) \in [1 .. Len(d) -> Seq(Units)]
    BY <2>1, Flats
  <2> QED BY <2>1, <2>2 DEF d, owed_to
<1>4. CASE n = 1
  <2>1. dues(s, n - 1) = <<>>
    BY <1>4 DEF dues
  <2>2. owed_to(s, n - 1) = <<>>
    BY <2>1 DEF owed_to, FlattenSeq
  <2>3. owed_to(s, n) = due(s[n])
    <3>1. dues(s, n)[1] = due(s[n])
      BY <1>4 DEF dues
    <3> DEFINE d == dues(s, n)
    <3>3. d \in Seq(Seq(Units)) /\ Len(d) >= 1 /\ Len(d) = 1
      BY <1>0, <1>4
    <3> HIDE DEF d
    <3>4. FlattenSeq(d) = d[1]
      BY <3>3, Flats
    <3> QED BY <3>1, <3>4 DEF d, owed_to
  <2>4. joined(<<>>, due(s[n])) = due(s[n])
    BY <1>1, JoinedEmpty
  <2>5. <<>> \in Seq(Units)
    OBVIOUS
  <2> QED BY <1>1, <1>3, <2>2, <2>3, <2>4, <2>5
<1>5. CASE n > 1
  <2> DEFINE d == dues(s, n)
             e == dues(s, n - 1)
  <2>1. /\ d \in Seq(Seq(Units)) /\ e \in Seq(Seq(Units)) /\ Len(d) = n /\ Len(e) = n - 1
        /\ \A k \in 1 .. n - 1 : e[k] = d[k]
        /\ d[n] = due(s[n])
    <3>1. n - 1 \in 1 .. l
      BY <1>5
    <3>2. e \in Seq(Seq(Units)) /\ Len(e) = n - 1
      BY <1>2, <3>1
    <3> QED BY <1>0, <3>2 DEF dues
  <2> HIDE DEF d, e
  <2>2. /\ FlattenSeq(d) = flats(d)[n] /\ flats(d)[1] = d[1]
        /\ \A k \in 1 .. n - 1 : flats(d)[k + 1] = joined(flats(d)[k], d[k + 1])
    <3>1. Len(d) >= 1
      BY <1>5, <2>1
    <3>2. /\ FlattenSeq(d) = flats(d)[Len(d)] /\ flats(d)[1] = d[1]
          /\ \A k \in 1 .. Len(d) - 1 : flats(d)[k + 1] = joined(flats(d)[k], d[k + 1])
      BY <2>1, <3>1, Flats
    <3> QED BY <2>1, <3>2
  <2>3. /\ FlattenSeq(e) = flats(e)[n - 1] /\ flats(e)[1] = e[1] /\ flats(e) \in [1 .. n - 1 -> Seq(Units)]
        /\ \A k \in 1 .. n - 1 - 1 : flats(e)[k + 1] = joined(flats(e)[k], e[k + 1])
    <3>1. Len(e) >= 1
      BY <1>5, <2>1
    <3>2. /\ FlattenSeq(e) = flats(e)[Len(e)] /\ flats(e) \in [1 .. Len(e) -> Seq(Units)] /\ flats(e)[1] = e[1]
          /\ \A k \in 1 .. Len(e) - 1 : flats(e)[k + 1] = joined(flats(e)[k], e[k + 1])
      BY <2>1, <3>1, Flats
    <3> QED BY <2>1, <3>2
  <2> DEFINE T == {k \in 0 .. n - 2 : flats(d)[k + 1] = flats(e)[k + 1]}
  <2>4. 0 \in T
    <3>1. 0 \in 0 .. n - 2 /\ 1 \in 1 .. n - 1 /\ 0 + 1 = 1
      BY <1>5
    <3> QED BY <2>1, <2>2, <2>3, <3>1
  <2>5. ASSUME NEW k \in 0 .. n - 2 - 1, k \in T PROVE k + 1 \in T
    <3>1. k + 1 \in 0 .. n - 2 /\ k + 1 \in 1 .. n - 1 /\ k + 1 \in 1 .. n - 1 - 1 /\ k + 1 + 1 \in 1 .. n - 1
      BY <1>5
    <3>2. flats(d)[k + 1] = flats(e)[k + 1]
      BY <2>5
    <3> HIDE DEF T
    <3>3. flats(d)[k + 1 + 1] = flats(e)[k + 1 + 1]
      BY <2>1, <2>2, <2>3, <3>1, <3>2
    <3> QED BY <3>1, <3>3 DEF T
  <2>6. \A k \in 0 .. n - 2 : k \in T
    <3>1. n - 2 \in Nat
      BY <1>5
    <3> HIDE DEF T
    <3> QED BY <2>4, <2>5, <3>1, AllNumbersUpTo
  <2>7. flats(d)[n - 1] = flats(e)[n - 1]
    <3>1. n - 2 \in 0 .. n - 2 /\ n - 2 + 1 = n - 1
      BY <1>5
    <3>2. flats(d)[n - 2 + 1] = flats(e)[n - 2 + 1]
      BY <2>6, <3>1
    <3> QED BY <3>1, <3>2
  <2>8. flats(d)[n] = joined(flats(d)[n - 1], d[n])
    <3>1. n - 1 \in 1 .. n - 1 /\ n - 1 + 1 = n
      BY <1>5
    <3>2. flats(d)[n - 1 + 1] = joined(flats(d)[n - 1], d[n - 1 + 1])
      BY <2>2, <3>1
    <3> QED BY <3>1, <3>2
  <2>9. FlattenSeq(e) \in Seq(Units)
    <3>1. n - 1 \in 1 .. n - 1
      BY <1>5
    <3> QED BY <2>3, <3>1
  <2> QED BY <1>1, <1>3, <2>1, <2>2, <2>3, <2>7, <2>8, <2>9 DEF owed_to, d, e
<1> QED BY <1>4, <1>5
-----------------------------------------------------------------------------
(* The members of a connection from which nothing was read, but for the buffer. *)
unset == FALSE
fresh(b, v, q) == members(b, v, "REQUESTLINE", q, 0, "", unset, 0)

unread(c, b) == [c EXCEPT !.m_rd_buf = b]
reparsed(c) == processed(unread(cleared(c), c.m_rd_buf)).c

(* The members with another buffer ... *)
LEMMA MembersUnread ==
  ASSUME NEW b, NEW v, NEW st, NEW q, NEW p, NEW u, NEW l, NEW n, NEW x
  PROVE  unread(members(b, v, st, q, p, u, l, n), x) = members(x, v, st, q, p, u, l, n)
<1> DEFINE a == members(b, v, st, q, p, u, l, n)
           d == [a EXCEPT !.m_rd_buf = x]
           e == members(x, v, st, q, p, u, l, n)
<1>1. a = [k \in DOMAIN a |-> a[k]] /\ DOMAIN e = DOMAIN a /\ e = [k \in DOMAIN a |-> e[k]]
  BY DEF members
<1>2. \A k \in DOMAIN a : e[k] = IF k = "m_rd_buf" THEN x ELSE a[k]
  BY DEF members
<1> HIDE DEF a, e
<1>3. d = [k \in DOMAIN a |-> IF k = "m_rd_buf" THEN x ELSE a[k]]
  BY <1>1
<1> HIDE DEF d
<1>4. d = e
  BY <1>1, <1>2, <1>3
<1> QED BY <1>4 DEF a, d, e, unread

mapped(c, v) == [c EXCEPT !.m_iv = v]

(* ... and with other blocks. *)
LEMMA MembersIv ==
  ASSUME NEW b, NEW v, NEW st, NEW q, NEW p, NEW u, NEW l, NEW n, NEW x
  PROVE  mapped(members(b, v, st, q, p, u, l, n), x) = members(b, x, st, q, p, u, l, n)
<1> DEFINE a == members(b, v, st, q, p, u, l, n)
           d == [a EXCEPT !.m_iv = x]
           e == members(b, x, st, q, p, u, l, n)
<1>1. a = [k \in DOMAIN a |-> a[k]] /\ DOMAIN e = DOMAIN a /\ e = [k \in DOMAIN a |-> e[k]]
  BY DEF members
<1>2. \A k \in DOMAIN a : e[k] = IF k = "m_iv" THEN x ELSE a[k]
  BY DEF members
<1> HIDE DEF a, e
<1>3. d = [k \in DOMAIN a |-> IF k = "m_iv" THEN x ELSE a[k]]
  BY <1>1
<1> HIDE DEF d
<1>4. d = e
  BY <1>1, <1>2, <1>3
<1> QED BY <1>4 DEF a, d, e, mapped

(* init() leaves such members on a new connection ... *)
LEMMA NewFresh ==
  NewMembers = fresh(<<>>, NewMembers.m_iv, 0)
BY DEF NewMembers, fresh, members, unset

(* ... and on one that is used again. *)
LEMMA Cleared ==
  ASSUME NEW c
  PROVE  cleared(c) = fresh(<<>>, c.m_iv, 0)
<1> DEFINE v == c.m_iv
           iv == NewMembers.m_iv
           st == "REQUESTLINE"
           u == ""
           z == 0
           b == <<>>
<1>1. cleared(c) = mapped(NewMembers, v)
  BY DEF cleared, mapped
<1>2. NewMembers = members(b, iv, st, z, z, u, unset, z)
  BY NewFresh DEF fresh
<1> HIDE DEF iv, st, u, z, b, v
<1>3. cleared(c) = members(b, v, st, z, z, u, unset, z)
  BY <1>1, <1>2, MembersIv
<1> QED BY <1>3 DEF st, u, z, b, v, fresh

(* Such members with another buffer. *)
LEMMA Unread ==
  ASSUME NEW v, NEW q, NEW b, NEW b2
  PROVE  unread(fresh(b, v, q), b2) = fresh(b2, v, q)
<1> DEFINE st == "REQUESTLINE"
           u == ""
           z == 0
<1> HIDE DEF st, u, z
<1>1. unread(members(b, v, st, q, z, u, unset, z), b2) = members(b2, v, st, q, z, u, unset, z)
  BY MembersUnread
<1> QED BY <1>1 DEF st, u, z, fresh

(* Member by member. *)
LEMMA Fresh ==
  ASSUME NEW b, NEW v, NEW q
  PROVE  /\ fresh(b, v, q).m_rd_buf = b /\ fresh(b, v, q).m_checked_idx = q
         /\ fresh(b, v, q).m_check_stat = "REQUESTLINE" /\ fresh(b, v, q).m_iv = v
         /\ fresh(b, v, q).bytes_to_send = 0 /\ fresh(b, v, q).bytes_have_send = 0
BY DEF fresh, members

(* They are those of a request of which no line was read. *)
LEMMA FreshLined ==
  ASSUME NEW r \in Requests, NEW b, NEW v, NEW q
  PROVE  lined(r, b, v, 0, q) = fresh(b, v, q)
<1>1. linger_to(r, 0) = unset
  <2>1. Len(r.headers) \in Nat
    BY SoundRequest, Positions
  <2> QED BY <2>1, Lingers DEF unset
<1> HIDE DEF unset
<1> QED BY <1>1 DEF lined, fresh

(* What process() leaves. *)
LEMMA ProcessedMore ==
  ASSUME NEW c, NEW d, NEW line, process_read(c) = stopped(d, line, "NO_REQUEST")
  PROVE  processed(c).c = d /\ processed(c).phase = "IN"
<1>1. process_read(c).code = "NO_REQUEST" /\ process_read(c).c = d
  BY DEF stopped
<1> QED BY <1>1 DEF processed

(* An answer was prepared. *)
LEMMA ProcessedDone ==
  ASSUME NEW c, NEW d, NEW line, NEW code, process_read(c) = stopped(d, line, code), code # "NO_REQUEST"
  PROVE  processed(c).c = process_write(d, code) /\ processed(c).phase = "OUT"
<1>1. process_read(c).code = code /\ process_read(c).c = d
  BY DEF stopped
<1> QED BY <1>1 DEF processed

(* The members with an answer in them. *)
blocks(h, f) == [head |-> 0, head_len |-> h, file |-> 0, file_len |-> f]

sending(b, st, q, p, u, l, n, buf, total, iv) ==
  [m_rd_buf |-> b, m_check_stat |-> st, m_checked_idx |-> q, m_line_start |-> p, m_url |-> u,
   m_linger |-> l, m_content_len |-> n, m_write_buf |-> buf, bytes_to_send |-> total,
   bytes_have_send |-> 0, m_iv |-> iv]

filled(c, buf, total, iv) == [c EXCEPT !.m_write_buf = buf, !.bytes_to_send = total, !.m_iv = iv]
noted_error(c, buf, iv) == [c EXCEPT !.m_write_buf = buf, !.m_iv = iv]

(* A file's answer in the members ... *)
LEMMA Filled ==
  ASSUME NEW b, NEW v, NEW st, NEW q, NEW p, NEW u, NEW l, NEW n, NEW buf, NEW total, NEW iv
  PROVE  filled(members(b, v, st, q, p, u, l, n), buf, total, iv) = sending(b, st, q, p, u, l, n, buf, total, iv)
<1> DEFINE a == members(b, v, st, q, p, u, l, n)
           d == [a EXCEPT !.m_write_buf = buf, !.bytes_to_send = total, !.m_iv = iv]
           e == sending(b, st, q, p, u, l, n, buf, total, iv)
           at(k) == IF k = "m_write_buf" THEN buf ELSE IF k = "bytes_to_send" THEN total
                    ELSE IF k = "m_iv" THEN iv ELSE a[k]
<1>1. a = [k \in DOMAIN a |-> a[k]] /\ DOMAIN e = DOMAIN a /\ e = [k \in DOMAIN a |-> e[k]]
  BY DEF members, sending
<1>2. \A k \in DOMAIN a : e[k] = at(k)
  BY DEF members, sending
<1> HIDE DEF a, e
<1>3. d = [k \in DOMAIN a |-> at(k)]
  BY <1>1
<1> HIDE DEF d, at
<1>4. d = e
  BY <1>1, <1>2, <1>3
<1> QED BY <1>4 DEF a, d, e, filled

(* ... and an error's. *)
LEMMA NotedError ==
  ASSUME NEW b, NEW v, NEW st, NEW q, NEW p, NEW u, NEW l, NEW n, NEW buf, NEW iv
  PROVE  noted_error(members(b, v, st, q, p, u, l, n), buf, iv) = sending(b, st, q, p, u, l, n, buf, 0, iv)
<1> DEFINE a == members(b, v, st, q, p, u, l, n)
           d == [a EXCEPT !.m_write_buf = buf, !.m_iv = iv]
           e == sending(b, st, q, p, u, l, n, buf, 0, iv)
           at(k) == IF k = "m_write_buf" THEN buf ELSE IF k = "m_iv" THEN iv ELSE a[k]
<1>1. a = [k \in DOMAIN a |-> a[k]] /\ DOMAIN e = DOMAIN a /\ e = [k \in DOMAIN a |-> e[k]]
  BY DEF members, sending
<1>2. \A k \in DOMAIN a : e[k] = at(k)
  BY DEF members, sending
<1> HIDE DEF a, e
<1>3. d = [k \in DOMAIN a |-> at(k)]
  BY <1>1
<1> HIDE DEF d, at
<1>4. d = e
  BY <1>1, <1>2, <1>3
<1> QED BY <1>4 DEF a, d, e, noted_error

(* What the answer is does not depend on what m_iv was. *)
text_of(u, l, code) ==
  IF code = "FILE_REQUEST" THEN joined(<<>>, head(code, resources[u].size, l))
  ELSE joined(joined(<<>>, head(code, 1, l)), <<file_unit("form", status[code])>>)

total_of(u, l, code) == IF code = "FILE_REQUEST" THEN Len(text_of(u, l, code)) + resources[u].size ELSE 0

blocks_of(u, l, code) ==
  blocks(Len(text_of(u, l, code)), IF code = "FILE_REQUEST" THEN resources[u].size ELSE 0)

(* Both in one. *)
LEMMA Answered ==
  ASSUME NEW b, NEW v, NEW st, NEW q, NEW p, NEW u, NEW l, NEW n, NEW code
  PROVE  process_write(members(b, v, st, q, p, u, l, n), code) =
           sending(b, st, q, p, u, l, n, text_of(u, l, code), total_of(u, l, code), blocks_of(u, l, code))
<1> DEFINE c == members(b, v, st, q, p, u, l, n)
           t == text_of(u, l, code)
           s == resources[u].size
<1>1. c.m_url = u /\ c.m_linger = l /\ c.m_write_buf = <<>>
  BY DEF members
<1>2. CASE code = "FILE_REQUEST"
  <2>1. t = joined(<<>>, head(code, s, l)) /\ total_of(u, l, code) = Len(t) + s /\ blocks_of(u, l, code) = blocks(Len(t), s)
    BY <1>2 DEF text_of, total_of, blocks_of
  <2> HIDE DEF t
  <2>2. process_write(c, code) = filled(c, t, Len(t) + s, blocks(Len(t), s))
    <3> HIDE DEF c
    <3>1. c.m_write_buf \o head(code, resources[c.m_url].size, c.m_linger) = t
      BY <1>1, <2>1 DEF joined
    <3> QED BY <1>1, <1>2, <3>1, Zenon DEF process_write, filled, blocks
  <2> DEFINE x == Len(t) + s
             y == blocks(Len(t), s)
  <2>3. process_write(c, code) = filled(c, t, x, y)
    BY <2>2
  <2> HIDE DEF x, y
  <2>4. filled(c, t, x, y) = sending(b, st, q, p, u, l, n, t, x, y)
    BY Filled
  <2> HIDE DEF c
  <2>5. process_write(c, code) = sending(b, st, q, p, u, l, n, t, x, y)
    BY <2>3, <2>4
  <2> QED BY <2>1, <2>5 DEF c, x, y, t
<1>3. CASE code # "FILE_REQUEST"
  <2>1. t = joined(joined(<<>>, head(code, 1, l)), <<file_unit("form", status[code])>>)
        /\ total_of(u, l, code) = 0 /\ blocks_of(u, l, code) = blocks(Len(t), 0)
    BY <1>3 DEF text_of, total_of, blocks_of
  <2> HIDE DEF t
  <2>2. process_write(c, code) = noted_error(c, t, blocks(Len(t), 0))
    <3> HIDE DEF c
    <3>1. c.m_write_buf \o head(code, 1, c.m_linger) \o <<file_unit("form", status[code])>> = t
      BY <1>1, <2>1 DEF joined
    <3> QED BY <1>1, <1>3, <3>1, Zenon DEF process_write, noted_error, blocks
  <2> DEFINE y == blocks(Len(t), 0)
  <2>3. process_write(c, code) = noted_error(c, t, y)
    BY <2>2
  <2> HIDE DEF y
  <2>4. noted_error(c, t, y) = sending(b, st, q, p, u, l, n, t, 0, y)
    BY NotedError
  <2> HIDE DEF c
  <2>5. process_write(c, code) = sending(b, st, q, p, u, l, n, t, 0, y)
    BY <2>3, <2>4
  <2> QED BY <2>1, <2>5 DEF c, y, t
<1> QED BY <1>2, <1>3

(* What stat finds. *)
LEMMA Found ==
  ASSUME NEW c, NEW u, c.m_url = u
  PROVE  /\ do_request(c) # "NO_REQUEST" /\ do_request(c) # "GET_REQUEST"
         /\ (do_request(c) = "FILE_REQUEST" <=> u \in DOMAIN resources /\ resources[u].kind = "file")
<1>1. CASE u \notin DOMAIN resources
  BY <1>1 DEF do_request
<1>2. CASE u \in DOMAIN resources
  <2>1. resources[u].kind \in {"file", "private", "directory"}
    BY <1>2, ResourcesAssumption
  <2>2. CASE resources[u].kind = "file"
    BY <1>2, <2>2 DEF do_request
  <2>3. CASE resources[u].kind = "private"
    BY <1>2, <2>3 DEF do_request
  <2>4. CASE resources[u].kind = "directory"
    BY <1>2, <2>4 DEF do_request
  <2> QED BY <2>1, <2>2, <2>3, <2>4
<1> QED BY <1>1, <1>2
-----------------------------------------------------------------------------
(* The bookkeeping of writev, member by member. *)
Shaped(c) == DOMAIN c = DOMAIN NewMembers /\ c = [k \in DOMAIN c |-> c[k]]

(* These members have the shape of all others. *)
LEMMA SendingShaped ==
  ASSUME NEW b, NEW st, NEW q, NEW p, NEW u, NEW l, NEW n, NEW buf, NEW total, NEW iv
  PROVE  Shaped(sending(b, st, q, p, u, l, n, buf, total, iv))
BY DEF Shaped, sending, NewMembers

head_done(iv, file, rest) == [iv EXCEPT !.head_len = 0, !.file = file, !.file_len = rest]
head_cut(iv, have, rest) == [iv EXCEPT !.head = have, !.head_len = rest]

(* What writev changes, and what it does not. *)
LEMMA AfterWritev ==
  ASSUME NEW c, Shaped(c), NEW n
  PROVE  /\ Shaped(after_writev(c, n))
         /\ after_writev(c, n).bytes_to_send = c.bytes_to_send - n
         /\ after_writev(c, n).bytes_have_send = c.bytes_have_send + n
         /\ after_writev(c, n).m_iv = blocks_after(c, n)
         /\ after_writev(c, n).m_write_buf = c.m_write_buf /\ after_writev(c, n).m_url = c.m_url
         /\ after_writev(c, n).m_linger = c.m_linger
<1> DEFINE total == c.bytes_to_send - n
           have == c.bytes_have_send + n
           iv == blocks_after(c, n)
           d == [c EXCEPT !.bytes_to_send = total, !.bytes_have_send = have, !.m_iv = iv]
           at(k) == IF k = "bytes_to_send" THEN total ELSE IF k = "bytes_have_send" THEN have
                    ELSE IF k = "m_iv" THEN iv ELSE c[k]
<1>1. after_writev(c, n) = d
  BY Zenon DEF after_writev
<1> HIDE DEF total, have, iv
<1>2. DOMAIN c = DOMAIN NewMembers /\ c = [k \in DOMAIN c |-> c[k]]
  BY DEF Shaped
<1>3. d = [k \in DOMAIN c |-> at(k)]
  BY <1>2
<1>4. {"bytes_to_send", "bytes_have_send", "m_iv", "m_write_buf", "m_url", "m_linger"} \subseteq DOMAIN c
  BY <1>2 DEF NewMembers
<1> HIDE DEF d
<1>5. /\ DOMAIN d = DOMAIN c /\ \A k \in DOMAIN c : d[k] = at(k)
  BY <1>3
<1>6. d = [k \in DOMAIN d |-> d[k]]
  BY <1>3
<1>7. /\ d["bytes_to_send"] = total /\ d["bytes_have_send"] = have /\ d["m_iv"] = iv
      /\ d["m_write_buf"] = c["m_write_buf"] /\ d["m_url"] = c["m_url"] /\ d["m_linger"] = c["m_linger"]
  BY <1>4, <1>5
<1>8. Shaped(d)
  BY <1>2, <1>5, <1>6 DEF Shaped
<1> QED BY <1>1, <1>7, <1>8 DEF total, have, iv

(* An answer of which `have` units are sent, as the two blocks describe it while
   no part of the head was dropped. *)
Blocks(iv, have, size) ==
  /\ iv \in [head : Int, head_len : Int, file : Int, file_len : Int]
  /\ have < 5 => /\ iv.head = have /\ iv.head_len = 5 - have /\ iv.file = 0 /\ iv.file_len = size
  /\ have >= 5 => iv.head_len = 0 /\ iv.head \in Nat /\ iv.file = have - 5 /\ iv.file_len = 5 + size - have

Accounts(r, c, have) ==
  /\ c.m_write_buf = head("FILE_REQUEST", size_of(r), keeping(r)) /\ c.m_url = file_of(r) /\ c.m_linger = keeping(r)
  /\ c.bytes_have_send = have /\ c.bytes_to_send = 5 + size_of(r) - have
  /\ Blocks(c.m_iv, have, size_of(r))

(* The blocks when the head was sent ... *)
LEMMA HeadDone ==
  ASSUME NEW iv \in [head : Int, head_len : Int, file : Int, file_len : Int],
         NEW f \in Int, NEW t \in Int, NEW z, z = head_done(iv, f, t)
  PROVE  /\ z \in [head : Int, head_len : Int, file : Int, file_len : Int]
         /\ z.head = iv.head /\ z.head_len = 0 /\ z.file = f /\ z.file_len = t
<1> DEFINE at(k) == IF k = "head_len" THEN 0 ELSE IF k = "file" THEN f ELSE IF k = "file_len" THEN t ELSE iv[k]
<1>1. DOMAIN iv = {"head", "head_len", "file", "file_len"} /\ iv = [k \in DOMAIN iv |-> iv[k]]
  OBVIOUS
<1>2. z = [k \in DOMAIN iv |-> at(k)]
  BY <1>1 DEF head_done
<1>3. \A k \in DOMAIN iv : at(k) \in Int
  OBVIOUS
<1>4. DOMAIN z = DOMAIN iv /\ z = [k \in DOMAIN z |-> z[k]] /\ \A k \in DOMAIN iv : z[k] = at(k)
  BY <1>2
<1>5. z.head = iv.head /\ z.head_len = 0 /\ z.file = f /\ z.file_len = t
  BY <1>1, <1>4
<1>6. z = [head |-> z.head, head_len |-> z.head_len, file |-> z.file, file_len |-> z.file_len]
  <2> HIDE DEF at
  <2> QED BY <1>1, <1>4
<1>7. z.head \in Int /\ z.head_len \in Int /\ z.file \in Int /\ z.file_len \in Int
  BY <1>5
<1> QED BY <1>5, <1>6, <1>7

(* ... and when it was not. *)
LEMMA HeadCut ==
  ASSUME NEW iv \in [head : Int, head_len : Int, file : Int, file_len : Int],
         NEW h \in Int, NEW t \in Int, NEW z, z = head_cut(iv, h, t)
  PROVE  /\ z \in [head : Int, head_len : Int, file : Int, file_len : Int]
         /\ z.head = h /\ z.head_len = t /\ z.file = iv.file /\ z.file_len = iv.file_len
<1> DEFINE at(k) == IF k = "head" THEN h ELSE IF k = "head_len" THEN t ELSE iv[k]
<1>1. DOMAIN iv = {"head", "head_len", "file", "file_len"} /\ iv = [k \in DOMAIN iv |-> iv[k]]
  OBVIOUS
<1>2. z = [k \in DOMAIN iv |-> at(k)]
  BY <1>1 DEF head_cut
<1>3. \A k \in DOMAIN iv : at(k) \in Int
  OBVIOUS
<1>4. DOMAIN z = DOMAIN iv /\ z = [k \in DOMAIN z |-> z[k]] /\ \A k \in DOMAIN iv : z[k] = at(k)
  BY <1>2
<1>5. z.head = h /\ z.head_len = t /\ z.file = iv.file /\ z.file_len = iv.file_len
  BY <1>1, <1>4
<1>6. z = [head |-> z.head, head_len |-> z.head_len, file |-> z.file, file_len |-> z.file_len]
  <2> HIDE DEF at
  <2> QED BY <1>1, <1>4
<1>7. z.head \in Int /\ z.head_len \in Int /\ z.file \in Int /\ z.file_len \in Int
  BY <1>5
<1> QED BY <1>5, <1>6, <1>7

(* A slice. *)
LEMMA Slice ==
  ASSUME NEW A, NEW s \in Seq(A), NEW a \in Nat, NEW n \in Nat, a + n <= Len(s), NEW x, x = SubSeq(s, a + 1, a + n)
  PROVE  x \in Seq(A) /\ Len(x) = n /\ \A i \in 1 .. n : x[i] = s[a + i]
<1>1. x \in Seq(A) /\ Len(x) = n
  OBVIOUS
<1>2. \A i \in 1 .. n : x[i] = s[(a + 1) + i - 1] /\ ((a + 1) + i) - 1 = a + i
  OBVIOUS
<1> QED BY <1>1, <1>2

(* The blocks hold the rest of the answer. *)
LEMMA Offered ==
  ASSUME NEW r \in Requests, served(r), NEW c, NEW have \in Nat, Accounts(r, c, have),
         have <= 5 + size_of(r)
  PROVE  /\ offered(c) \in Seq(Units) /\ Len(offered(c)) = 5 + size_of(r) - have
         /\ \A i \in 1 .. Len(offered(c)) : offered(c)[i] = reply(r)[have + i]
<1> DEFINE s == size_of(r)
           a == reply(r)
           h == head("FILE_REQUEST", size_of(r), keeping(r))
           f == file_part(r)
           iv == c.m_iv
           hd == iv.head
           hl == iv.head_len
           fi == iv.file
           fl == iv.file_len
           x == SubSeq(h, hd + 1, hd + hl)
           y == [i \in 1 .. fl |-> file_unit(file_of(r), fi + i - 1)]
           o == joined(x, y)
<1>1. offered(c) = o
  <2>1. c.m_write_buf = h /\ c.m_url = file_of(r)
    BY DEF Accounts
  <2> HIDE DEF h
  <2> QED BY <2>1, Zenon DEF offered, joined
<1>2. /\ s \in Nat /\ h \in Seq(Units) /\ Len(h) = 5 /\ f \in Seq(Units) /\ Len(f) = s
      /\ IsJoined(Units, a, h, f) /\ have <= 5 + s
  BY ReplyUnits
<1>3. \A i \in 1 .. s : f[i] = file_unit(file_of(r), i - 1)
  BY DEF file_part
<1>4. /\ hd \in Nat /\ hl \in Nat /\ fi \in Nat /\ fl \in Nat
      /\ hd + hl <= 5 \/ hl = 0
      /\ hl + fl = 5 + s - have
      /\ (hl # 0 => hd = have)
      /\ (have < 5 => have + hl = 5 /\ fi = 0 /\ fl = s)
      /\ (have >= 5 => hl = 0 /\ fi = have - 5)
  <2>1. Blocks(iv, have, s)
    BY DEF Accounts
  <2> HIDE DEF iv, s
  <2> QED BY <1>2, <2>1 DEF Blocks
<1> HIDE DEF s, a, h, f, iv, hd, hl, fi, fl
<1>5. /\ x \in Seq(Units) /\ Len(x) = hl
      /\ \A i \in 1 .. hl : x[i] = h[have + i]
  <2>1. CASE hl = 0
    <3>1. x = <<>>
      BY <1>2, <1>4, <2>1
    <3> HIDE DEF x
    <3> QED BY <2>1, <3>1
  <2>2. CASE hl # 0
    <3>1. hd + hl <= 5 /\ hd = have
      BY <1>4, <2>2
    <3>2. hd + hl <= Len(h) /\ hd \in Nat /\ hl \in Nat /\ x = SubSeq(h, hd + 1, hd + hl)
      BY <1>2, <1>4, <3>1
    <3>3. x \in Seq(Units) /\ Len(x) = hl /\ \A i \in 1 .. hl : x[i] = h[hd + i]
      <4> DEFINE U == Units
      <4>1. h \in Seq(U) /\ hd + hl <= Len(h) /\ hd \in Nat /\ hl \in Nat /\ x = SubSeq(h, hd + 1, hd + hl)
        BY <1>2, <3>2
      <4> HIDE DEF x, U
      <4>2. x \in Seq(U) /\ Len(x) = hl /\ \A i \in 1 .. hl : x[i] = h[hd + i]
        BY <4>1, Slice
      <4> QED BY <4>2 DEF U
    <3> HIDE DEF x
    <3> QED BY <3>1, <3>3
  <2> QED BY <2>1, <2>2
<1>6. y \in Seq(Units) /\ Len(y) = fl /\ \A i \in 1 .. fl : y[i] = file_unit(file_of(r), fi + i - 1)
  <2>1. \A i \in 1 .. fl : file_unit(file_of(r), fi + i - 1) = f[fi + i] /\ fi + i \in 1 .. s
    <3> SUFFICES ASSUME NEW i \in 1 .. fl
                 PROVE  file_unit(file_of(r), fi + i - 1) = f[fi + i] /\ fi + i \in 1 .. s
      OBVIOUS
    <3>1. fi + i \in 1 .. s
      BY <1>2, <1>4
    <3>2. fi + i - 1 = (fi + i) - 1
      BY <1>4
    <3> DEFINE g == fi + i
    <3>3. g \in 1 .. s /\ fi + i - 1 = g - 1
      BY <3>1, <3>2
    <3> HIDE DEF g
    <3>4. file_unit(file_of(r), fi + i - 1) = f[g]
      BY <1>3, <3>3
    <3> QED BY <3>1, <3>4 DEF g
  <2>2. \A i \in 1 .. fl : file_unit(file_of(r), fi + i - 1) \in Units
    BY <1>2, <2>1
  <2>3. fl \in Nat
    BY <1>4
  <2> QED BY <2>2, <2>3
<1> HIDE DEF x, y
<1>7. IsJoined(Units, o, x, y)
  BY <1>5, <1>6, JoinedText
<1> HIDE DEF o
<1>8. o \in Seq(Units) /\ Len(o) = 5 + s - have
  BY <1>4, <1>5, <1>6, <1>7 DEF IsJoined
<1>9. ASSUME NEW i \in 1 .. Len(o) PROVE o[i] = a[have + i]
  <2>1. CASE i <= hl
    <3>1. i \in 1 .. Len(x) /\ o[i] = x[i] /\ have + i \in 1 .. 5
      BY <1>2, <1>4, <1>5, <1>7, <2>1 DEF IsJoined
    <3>2. a[have + i] = h[have + i]
      BY <1>2, <3>1 DEF IsJoined
    <3> QED BY <1>5, <3>1, <3>2
  <2>2. CASE i > hl
    <3> DEFINE j == i - hl
    <3>1. j \in 1 .. fl /\ i = hl + j /\ j \in Nat
      BY <1>4, <1>8, <2>2
    <3>2. o[i] = y[j]
      BY <1>5, <1>6, <1>7, <3>1 DEF IsJoined
    <3> DEFINE g == fi + j
    <3>3. g \in 1 .. s /\ have + i = 5 + g
      BY <1>2, <1>4, <3>1
    <3>4. y[j] = file_unit(file_of(r), g - 1)
      <4>1. fi + j - 1 = g - 1
        BY <1>4, <3>1
      <4>2. y[j] = file_unit(file_of(r), fi + j - 1)
        BY <1>6, <3>1
      <4> HIDE DEF g
      <4> QED BY <4>1, <4>2
    <3> HIDE DEF g, j
    <3>5. f[g] = file_unit(file_of(r), g - 1)
      BY <1>3, <3>3
    <3>6. a[5 + g] = f[g]
      BY <1>2, <3>3 DEF IsJoined
    <3> QED BY <3>2, <3>3, <3>4, <3>5, <3>6
  <2> QED BY <1>4, <2>1, <2>2
<1> QED BY <1>1, <1>8, <1>9 DEF s, a

(* One more call of writev. *)
LEMMA AccountsNext ==
  ASSUME NEW r \in Requests, served(r), NEW c, Shaped(c), NEW have \in Nat, Accounts(r, c, have),
         NEW n \in Nat, n >= 1, have + n <= 5 + size_of(r), ~drops_head(after_writev(c, n))
  PROVE  Accounts(r, after_writev(c, n), have + n)
<1> DEFINE s == size_of(r)
           iv == c.m_iv
           d == after_writev(c, n)
           g == have + n
           total == c.bytes_to_send
<1>1. /\ s \in Nat /\ Len(c.m_write_buf) = 5 /\ c.bytes_have_send = have /\ total = 5 + s - have
      /\ Blocks(iv, have, s)
  BY ReplyUnits DEF Accounts
<1>2. /\ d.bytes_to_send = total - n /\ d.bytes_have_send = g
      /\ d.m_iv = blocks_after(c, n)
      /\ d.m_write_buf = c.m_write_buf /\ d.m_url = c.m_url /\ d.m_linger = c.m_linger
  BY <1>1, AfterWritev
<1>3. blocks_after(c, n) = IF g >= iv.head_len THEN head_done(iv, g - 5, total - n) ELSE head_cut(iv, g, iv.head_len - n)
  BY <1>1 DEF blocks_after, head_done, head_cut
<1>4. g \in Nat /\ g >= 1 /\ g = have + n /\ g <= 5 + s
  BY <1>1
<1>7. ~(d.m_iv.head_len = 0 /\ d.bytes_have_send < Len(d.m_write_buf))
  BY DEF drops_head
<1> HIDE DEF s, iv, d, g, total
<1>8. blocks_after(c, n).head_len = 0 => g >= 5
  <2>1. d.m_iv.head_len = blocks_after(c, n).head_len /\ d.bytes_have_send = g /\ Len(d.m_write_buf) = 5
    BY <1>1, <1>2
  <2> QED BY <1>4, <1>7, <2>1
<1>5. Blocks(blocks_after(c, n), g, s)
  <2>1. CASE g >= iv.head_len
    <3>2. blocks_after(c, n) = head_done(iv, g - 5, total - n)
      BY <1>3, <2>1
    <3> DEFINE x == g - 5
               y == total - n
               z == blocks_after(c, n)
    <3>4. x \in Int /\ y \in Int /\ y = 5 + s - g /\ iv.head \in Nat
      BY <1>1, <1>4 DEF Blocks
    <3>3. /\ z \in [head : Int, head_len : Int, file : Int, file_len : Int]
          /\ z.head = iv.head /\ z.head_len = 0 /\ z.file = x /\ z.file_len = y
      <4>1. iv \in [head : Int, head_len : Int, file : Int, file_len : Int]
        BY <1>1 DEF Blocks
      <4> HIDE DEF x, y
      <4>2. z = head_done(iv, x, y)
        BY <3>2 DEF x, y
      <4> HIDE DEF z
      <4> QED BY <3>4, <4>1, <4>2, HeadDone
    <3>1. g >= 5
      BY <1>8, <3>3
    <3> HIDE DEF z
    <3>5. Blocks(z, g, s)
      BY <1>4, <3>1, <3>3, <3>4 DEF Blocks
    <3> QED BY <3>5 DEF z
  <2>2. CASE ~(g >= iv.head_len)
    <3>1. /\ have < 5 /\ iv.head_len = 5 - have /\ iv.file = 0 /\ iv.file_len = s
      BY <1>1, <1>4, <2>2 DEF Blocks
    <3>2. blocks_after(c, n) = head_cut(iv, g, iv.head_len - n)
      BY <1>3, <2>2
    <3> DEFINE z == blocks_after(c, n)
    <3>3. /\ z \in [head : Int, head_len : Int, file : Int, file_len : Int]
          /\ z.head = g /\ z.head_len = iv.head_len - n /\ z.file = iv.file /\ z.file_len = iv.file_len
      <4>1. iv \in [head : Int, head_len : Int, file : Int, file_len : Int] /\ g \in Int /\ iv.head_len - n \in Int
        BY <1>1, <1>4 DEF Blocks
      <4> DEFINE t == iv.head_len - n
      <4>2. z = head_cut(iv, g, t) /\ t \in Int /\ t = iv.head_len - n
        BY <3>2, <4>1
      <4> HIDE DEF z, t
      <4> QED BY <4>1, <4>2, HeadCut
    <3> HIDE DEF z
    <3>4. g < 5 /\ iv.head_len - n = 5 - g
      BY <1>4, <2>2, <3>1
    <3>5. Blocks(z, g, s)
      BY <1>4, <3>1, <3>3, <3>4 DEF Blocks
    <3> QED BY <3>5 DEF z
  <2> QED BY <2>1, <2>2
<1>6. total - n = 5 + s - g
  BY <1>1, <1>4
<1> QED BY <1>2, <1>5, <1>6 DEF Accounts, d, s, g
-----------------------------------------------------------------------------
(* b, read from a request behind index a of it, and what is still to come. *)
Placed(b, rest, w, a) ==
  /\ Within(b, w, a) /\ rest \in Seq(Tokens) /\ a + Len(b) + Len(rest) = Len(w)
  /\ \A i \in 1 .. Len(rest) : rest[i] = w[a + Len(b) + i]

(* A request of which the answer is not known. *)
Reading(r, b, v, rest, ph, c) ==
  /\ Readable(r) /\ ph \in {"IN", "task"} /\ Placed(b, rest, written(r), 0)
  /\ ph = "task" => Len(b) < RD_BUF_SIZE
  /\ \/ \E n, q : /\ c = lined(r, b, v, n, q) /\ Begun(r, b, n, q)
                  /\ ph = "IN" => Len(b) < Pos(r, n + 1) /\ q = stop_of(r, b, v, n)
     \/ \E q, p : /\ c = bodied(r, b, v, q, p) /\ length_of(r) # 0
                  /\ q \in Nat /\ head_end(r) <= q /\ q <= Len(b)

(* A request of which the answer is being sent. *)
Answering(r, rest, ph, c) ==
  /\ served(r) /\ rest = <<>> /\ ph \in {"OUT", "write"}
  /\ Shaped(c) /\ c.bytes_have_send \in Nat
  /\ c.bytes_have_send = 0 => c = reparsed(c)

(* A request that is over, or that cannot be read: nothing comes of the rest. *)
Over(r, a, b, v, rest, ph, c) ==
  /\ Rest(r, a) /\ Placed(b, rest, written(r), a) /\ (Readable(r) => a = Len(written(r)))
  /\ ph = "task" => Len(b) < RD_BUF_SIZE
  /\ \/ /\ ph \in {"IN", "task"}
        /\ \E q \in Nat : /\ c = fresh(b, v, q) /\ q <= Len(b) /\ NoEnd(b, 0, q)
                          /\ ph = "IN" => /\ parse_one_line(fresh(b, v, 0)).status # "OK"
                                          /\ q = parse_one_line(fresh(b, v, 0)).checked
     \/ ph = "OUT" /\ b = <<>> /\ c.bytes_to_send = 0 /\ c.bytes_have_send = 0 /\ c = reparsed(c)

(* What was received moves from the one to the other. *)
more(b, rest, n) == joined(b, SubSeq(rest, 1, n))
less(rest, n) == SubSeq(rest, n + 1, Len(rest))

(* And both stay what they were. *)
LEMMA Received ==
  ASSUME NEW b, NEW rest, NEW w, NEW a, Len(w) \in Nat, Placed(b, rest, w, a), NEW n \in 1 .. Len(rest)
  PROVE  /\ Placed(more(b, rest, n), less(rest, n), w, a) /\ Len(more(b, rest, n)) = Len(b) + n /\ Len(b) \in Nat
         /\ \A i \in 1 .. Len(b) : more(b, rest, n)[i] = b[i]
<1> DEFINE x == SubSeq(rest, 1, n)
           T == Tokens
           b2 == more(b, rest, n)
           rest2 == less(rest, n)
           lb == Len(b)
           lr == Len(rest)
           lw == Len(w)
<1>1. /\ b \in Seq(T) /\ a \in Nat /\ \A i \in 1 .. lb : b[i] = w[a + i]
      /\ rest \in Seq(T) /\ \A i \in 1 .. lr : rest[i] = w[a + lb + i]
  BY DEF Placed, Within
<1>2. /\ lb \in Nat /\ lr \in Nat /\ lw \in Nat /\ n \in Nat /\ 1 <= n /\ n <= lr
  BY <1>1
<1>3. a + lb + lr = lw
  BY DEF Placed
<1>4. /\ x \in Seq(T) /\ Len(x) = n /\ \A i \in 1 .. n : x[i] = rest[i]
  <2> HIDE DEF T
  <2> QED BY <1>1, <1>2
<1>5. rest2 \in Seq(T) /\ Len(rest2) = lr - n /\ \A i \in 1 .. Len(rest2) : rest2[i] = rest[n + i]
  <2> HIDE DEF T
  <2> QED BY <1>1, <1>2 DEF less
<1>6. b2 = joined(b, x)
  BY DEF more
<1> HIDE DEF x, T
<1>7. IsJoined(T, b2, b, x)
  BY <1>1, <1>4, <1>6, JoinedText DEF T
<1>8. /\ b2 \in Seq(T) /\ Len(b2) = lb + n
      /\ \A i \in 1 .. lb : b2[i] = b[i]
      /\ \A i \in 1 .. n : b2[lb + i] = x[i]
  BY <1>1, <1>4, <1>7 DEF IsJoined
<1> HIDE DEF b2, rest2, lb, lr, lw
<1>9. ASSUME NEW i \in 1 .. Len(b2) PROVE b2[i] = w[a + i]
  <2>1. i \in 1 .. lb + n
    BY <1>8
  <2>2. CASE i <= lb
    <3>1. i \in 1 .. lb
      BY <1>2, <2>1, <2>2
    <3> QED BY <1>1, <1>8, <3>1
  <2>3. CASE i > lb
    <3> DEFINE j == i - lb
    <3>1. j \in 1 .. n /\ j \in 1 .. lr /\ lb + j = i /\ a + lb + j = a + i
      BY <1>1, <1>2, <2>1, <2>3
    <3> HIDE DEF j
    <3>2. b2[lb + j] = x[j] /\ x[j] = rest[j] /\ rest[j] = w[a + lb + j]
      BY <1>1, <1>4, <1>8, <3>1
    <3> QED BY <3>1, <3>2
  <2> QED BY <1>2, <2>1, <2>2, <2>3
<1>10. ASSUME NEW i \in 1 .. Len(rest2) PROVE rest2[i] = w[a + Len(b2) + i]
  <2>1. i \in 1 .. lr - n
    BY <1>5
  <2>2. n + i \in 1 .. lr /\ a + lb + (n + i) = a + (lb + n) + i
    BY <1>1, <1>2, <2>1
  <2>3. rest[n + i] = w[a + lb + (n + i)]
    BY <1>1, <2>2
  <2> QED BY <1>5, <1>8, <2>2, <2>3
<1>11. a + (lb + n) <= lw /\ a + (lb + n) + (lr - n) = lw
  BY <1>1, <1>2, <1>3
<1>12. a + Len(b2) <= Len(w) /\ a + Len(b2) + Len(rest2) = Len(w)
  BY <1>5, <1>8, <1>11 DEF lw
<1>13. Within(b2, w, a)
  BY <1>1, <1>8, <1>9, <1>12 DEF Within, T
<1>14. Placed(b2, rest2, w, a)
  BY <1>5, <1>10, <1>12, <1>13 DEF Placed, T
<1> QED BY <1>2, <1>8, <1>14 DEF b2, rest2, lb

(* From the start of a request. *)
LEMMA PlacedBegins ==
  ASSUME NEW b, NEW rest, NEW w, Placed(b, rest, w, 0)
  PROVE  /\ Begins(b, w) /\ Within(b, w, 0) /\ Len(b) \in Nat /\ Len(rest) \in Nat /\ Len(b) + Len(rest) = Len(w)
<1>1. /\ b \in Seq(Tokens) /\ 0 + Len(b) <= Len(w) /\ \A i \in 1 .. Len(b) : b[i] = w[0 + i]
      /\ rest \in Seq(Tokens) /\ 0 + Len(b) + Len(rest) = Len(w) /\ Within(b, w, 0)
  BY DEF Placed, Within
<1>2. Len(b) \in Nat /\ Len(rest) \in Nat
  BY <1>1
<1>3. \A i \in 1 .. Len(b) : b[i] = w[i]
  <2> SUFFICES ASSUME NEW i \in 1 .. Len(b) PROVE b[i] = w[i]
    OBVIOUS
  <2>1. 0 + i = i
    BY <1>2
  <2> QED BY <1>1, <2>1
<1> QED BY <1>1, <1>2, <1>3 DEF Begins

(* The members when b has grown. *)
LEMMA LinedUnread ==
  ASSUME NEW r \in Requests, NEW b, NEW v, NEW n, NEW q, NEW b2
  PROVE  unread(lined(r, b, v, n, q), b2) = lined(r, b2, v, n, q)
<1> DEFINE st == IF n = 0 THEN "REQUESTLINE" ELSE "HEADER"
           p == IF n = 0 THEN 0 ELSE Pos(r, n)
           u == IF n = 0 THEN "" ELSE file_of(r)
           l == linger_to(r, IF n = 0 THEN 0 ELSE n - 1)
           a == IF n = 0 THEN 0 ELSE announced(r.headers, n - 1)
<1>1. lined(r, b, v, n, q) = members(b, v, st, q, p, u, l, a) /\ lined(r, b2, v, n, q) = members(b2, v, st, q, p, u, l, a)
  BY DEF lined
<1> HIDE DEF st, p, u, l, a
<1> QED BY <1>1, MembersUnread

(* The same in a body. *)
LEMMA BodiedUnread ==
  ASSUME NEW r \in Requests, NEW b, NEW v, NEW p, NEW q, NEW b2
  PROVE  unread(bodied(r, b, v, q, p), b2) = bodied(r, b2, v, q, p)
<1> DEFINE st == "CONTENT"
           u == file_of(r)
           l == linger_to(r, Len(r.headers))
           a == announced(r.headers, Len(r.headers))
<1>1. bodied(r, b, v, q, p) = members(b, v, st, q, p, u, l, a) /\ bodied(r, b2, v, q, p) = members(b2, v, st, q, p, u, l, a)
  BY DEF bodied
<1> HIDE DEF st, u, l, a
<1> QED BY <1>1, MembersUnread

(* What the buffer is. *)
LEMMA BufferOf ==
  ASSUME NEW r \in Requests, NEW b, NEW v, NEW n, NEW q, NEW p
  PROVE  /\ lined(r, b, v, n, q).m_rd_buf = b /\ lined(r, b, v, n, q).m_iv = v
         /\ bodied(r, b, v, q, p).m_rd_buf = b /\ bodied(r, b, v, q, p).m_check_stat = "CONTENT"
BY DEF lined, bodied, members

(* read() on a request that is not complete. *)
LEMMA ReadingGrows ==
  ASSUME NEW r \in Requests, NEW b, NEW v, NEW rest, NEW c, Reading(r, b, v, rest, "IN", c), NEW n \in 1 .. Len(rest),
         NEW b2, b2 = more(b, rest, n), NEW rest2, rest2 = less(rest, n), Len(b2) < RD_BUF_SIZE
  PROVE  Reading(r, b2, v, rest2, "task", unread(c, b2))
<1> DEFINE w == written(r)
<1>1. Readable(r) /\ Placed(b, rest, w, 0)
  BY DEF Reading
<1>2. Len(w) \in Nat
  BY <1>1, SoundRequest, WrittenText DEF Text, LineAt, Readable
<1>3. /\ Placed(b2, rest2, w, 0) /\ Len(b2) = Len(b) + n /\ Len(b) \in Nat /\ \A i \in 1 .. Len(b) : b2[i] = b[i]
  <2> HIDE DEF w
  <2>1. /\ Placed(more(b, rest, n), less(rest, n), w, 0) /\ Len(more(b, rest, n)) = Len(b) + n /\ Len(b) \in Nat
        /\ \A i \in 1 .. Len(b) : more(b, rest, n)[i] = b[i]
    <3> DEFINE z == 0
    <3>1. Placed(b, rest, w, z)
      BY <1>1
    <3> HIDE DEF z
    <3>2. /\ Placed(more(b, rest, n), less(rest, n), w, z) /\ Len(more(b, rest, n)) = Len(b) + n /\ Len(b) \in Nat
          /\ \A i \in 1 .. Len(b) : more(b, rest, n)[i] = b[i]
      BY <1>2, <3>1, Received
    <3> QED BY <3>2 DEF z
  <2> QED BY <2>1
<1>4. Begins(b2, w) /\ Len(b2) \in Nat
  BY <1>3, PlacedBegins
<1>5. Len(b) <= Len(b2)
  BY <1>3
<1>6. CASE \E k, q : c = lined(r, b, v, k, q) /\ Begun(r, b, k, q)
  <2>1. PICK k, q : c = lined(r, b, v, k, q) /\ Begun(r, b, k, q)
    BY <1>6
  <2>2. k \in 0 .. Len(r.headers) + 1 /\ q \in Nat /\ Pos(r, k) <= q /\ q <= Len(b) /\ NoEnd(b, Pos(r, k), q)
    BY <2>1 DEF Begun
  <2>3. NoEnd(b2, Pos(r, k), q)
    <3>1. Pos(r, k) \in Nat
      <4>1. k \in 0 .. Len(r.headers) + 2
        BY <2>2, SoundRequest, Positions
      <4> QED BY <4>1, SoundRequest, Positions
    <3> DEFINE p == Pos(r, k)
    <3> HIDE DEF p
    <3> SUFFICES ASSUME NEW i \in p .. q - 1 PROVE b2[i + 1] \notin {"CR", "LF"}
      BY DEF NoEnd, p
    <3>2. i + 1 \in 1 .. Len(b)
      BY <1>3, <2>2, <3>1 DEF p
    <3> QED BY <1>3, <2>2, <3>2 DEF NoEnd, p
  <2>4. q <= Len(b2)
    BY <1>3, <1>4, <1>5, <2>2
  <2>5. Begun(r, b2, k, q)
    BY <1>4, <2>2, <2>3, <2>4 DEF Begun, w
  <2>6. unread(c, b2) = lined(r, b2, v, k, q)
    BY <2>1, LinedUnread
  <2> QED BY <1>1, <1>3, <2>5, <2>6 DEF Reading
<1>7. CASE \E q, p : /\ c = bodied(r, b, v, q, p) /\ length_of(r) # 0
                     /\ q \in Nat /\ head_end(r) <= q /\ q <= Len(b)
  <2>1. PICK q, p : /\ c = bodied(r, b, v, q, p) /\ length_of(r) # 0
                    /\ q \in Nat /\ head_end(r) <= q /\ q <= Len(b)
    BY <1>7
  <2>2. q <= Len(b2)
    BY <1>3, <1>4, <1>5, <2>1
  <2>3. unread(c, b2) = bodied(r, b2, v, q, p)
    BY <2>1, BodiedUnread
  <2> QED BY <1>1, <1>3, <2>1, <2>2, <2>3 DEF Reading
<1> QED BY <1>6, <1>7 DEF Reading

(* read() on a rest. *)
LEMMA OverGrows ==
  ASSUME NEW r \in Requests, NEW a, NEW b, NEW v, NEW rest, NEW c, Over(r, a, b, v, rest, "IN", c), NEW n \in 1 .. Len(rest),
         NEW b2, b2 = more(b, rest, n), NEW rest2, rest2 = less(rest, n), Len(b2) < RD_BUF_SIZE, Len(written(r)) \in Nat
  PROVE  Over(r, a, b2, v, rest2, "task", unread(c, b2))
<1> DEFINE w == written(r)
<1>1. Rest(r, a) /\ Placed(b, rest, w, a) /\ (Readable(r) => a = Len(w))
  BY DEF Over
<1>2. PICK q \in Nat : c = fresh(b, v, q) /\ q <= Len(b) /\ NoEnd(b, 0, q)
  BY DEF Over
<1>3. /\ Placed(b2, rest2, w, a) /\ Len(b2) = Len(b) + n /\ Len(b) \in Nat /\ \A i \in 1 .. Len(b) : b2[i] = b[i]
  <2> HIDE DEF w
  <2>1. Len(w) \in Nat
    BY DEF w
  <2> QED BY <1>1, <2>1, Received
<1>4. NoEnd(b2, 0, q) /\ q <= Len(b2)
  <2>1. \A i \in 0 .. q - 1 : i + 1 \in 1 .. Len(b)
    BY <1>2, <1>3
  <2>2. NoEnd(b2, 0, q)
    BY <1>2, <1>3, <2>1 DEF NoEnd
  <2> QED BY <1>2, <1>3, <2>2
<1>5. unread(c, b2) = fresh(b2, v, q)
  BY <1>2, Unread
<1> QED BY <1>1, <1>2, <1>3, <1>4, <1>5 DEF Over

(* The last line of the head that has ended. *)
LEMMA LinesRead ==
  ASSUME NEW r \in Requests, NEW b, NEW n, NEW q, Begun(r, b, n, q), Len(b) < head_end(r)
  PROVE  \E k \in 0 .. Len(r.headers) + 1 : n <= k /\ Pos(r, k) <= Len(b) /\ Len(b) < Pos(r, k + 1)
<1> DEFINE H == Len(r.headers)
           lb == Len(b)
           K == {k \in 0 .. H + 1 : lb < Pos(r, k + 1)}
<1>1. Sound(r)
  BY SoundRequest
<1>2. /\ H \in Nat /\ Pos(r, 0) = 0 /\ Pos(r, H + 2) = head_end(r)
      /\ \A k \in 0 .. H + 2 : Pos(r, k) \in Nat
  BY <1>1, Positions
<1>3. lb \in Nat /\ n \in 0 .. H + 1 /\ Pos(r, n) <= lb
  <2>1. b \in Seq(Tokens) /\ n \in 0 .. H + 1 /\ q \in Nat /\ Pos(r, n) <= q /\ q <= lb
    BY DEF Begun, Begins
  <2>2. lb \in Nat
    BY <2>1
  <2>3. n \in 0 .. H + 2
    BY <1>2, <2>1
  <2>4. Pos(r, n) \in Nat
    BY <1>2, <2>3
  <2> HIDE DEF lb
  <2> QED BY <2>1, <2>2, <2>4
<1> HIDE DEF lb
<1>4. H + 1 \in K
  <2>1. (H + 1) + 1 = H + 2 /\ H + 1 \in 0 .. H + 1
    BY <1>2
  <2>2. lb < Pos(r, H + 2)
    BY <1>2 DEF lb
  <2> QED BY <2>1, <2>2
<1>5. K \in SUBSET Nat /\ K # {}
  BY <1>2, <1>4
<1>6. PICK k \in K : \A j \in K : k <= j
  <2> HIDE DEF K
  <2> QED BY <1>5, Least
<1>7. k \in 0 .. H + 1 /\ lb < Pos(r, k + 1)
  BY <1>6
<1>8. n <= k
  <2> SUFFICES ASSUME ~(n <= k) PROVE FALSE
    OBVIOUS
  <2>1. k + 1 \in 0 .. H + 2 /\ n \in 0 .. H + 2 /\ k + 1 <= n
    BY <1>2, <1>3, <1>7
  <2> DEFINE j == k + 1
  <2>2. Pos(r, j) <= Pos(r, n)
    <3> HIDE DEF j
    <3> QED BY <1>1, <2>1, PosGrows DEF j
  <2>3. Pos(r, j) \in Nat /\ Pos(r, n) \in Nat
    BY <1>2, <2>1
  <2> QED BY <1>3, <1>7, <2>2, <2>3
<1>9. Pos(r, k) <= lb
  <2>1. CASE k = 0
    BY <1>2, <1>3, <2>1
  <2>2. CASE k # 0
    <3>1. k - 1 \in 0 .. H + 1 /\ ~(k <= k - 1) /\ (k - 1) + 1 = k /\ k \in 0 .. H + 2
      BY <1>2, <1>7, <2>2
    <3>2. k - 1 \notin K
      BY <1>6, <3>1
    <3>3. ~(lb < Pos(r, k))
      BY <3>1, <3>2
    <3>4. Pos(r, k) \in Nat
      BY <1>2, <3>1
    <3> QED BY <1>3, <3>3, <3>4
  <2> QED BY <2>1, <2>2
<1> QED BY <1>7, <1>8, <1>9 DEF lb

(* From the first character on. *)
LEMMA BegunAtStart ==
  ASSUME NEW r \in Requests, NEW b, Begins(b, written(r))
  PROVE  Begun(r, b, 0, 0)
<1> DEFINE z == 0
<1>1. /\ Len(r.headers) \in Nat /\ Pos(r, z) = 0
  BY SoundRequest, Positions
<1>2. Len(b) \in Nat
  BY DEF Begins
<1>3. z \in 0 .. Len(r.headers) + 1 /\ z \in Nat /\ Pos(r, z) <= z /\ z <= Len(b) /\ NoEnd(b, Pos(r, z), z)
  BY <1>1, <1>2 DEF NoEnd
<1> HIDE DEF z
<1>4. Begun(r, b, z, z)
  BY <1>3 DEF Begun
<1> QED BY <1>4 DEF z

(* What process() would have left, had it begun with the buffer as it is. *)
LEMMA Reparsed ==
  ASSUME NEW c, NEW b, c.m_rd_buf = b, NEW v, c.m_iv = v
  PROVE  reparsed(c) = processed(fresh(b, v, 0)).c
<1>1. cleared(c) = fresh(<<>>, v, 0)
  BY Cleared
<1> DEFINE z == 0
           e == <<>>
<1>2. cleared(c) = fresh(e, v, z)
  BY <1>1
<1> HIDE DEF z, e
<1>3. unread(cleared(c), b) = fresh(b, v, z)
  BY <1>2, Unread
<1>4. reparsed(c) = processed(fresh(b, v, z)).c
  BY <1>3 DEF reparsed
<1> QED BY <1>4 DEF z

(* Having stopped in a line, it would have stopped there at once. *)
LEMMA LinedSettled ==
  ASSUME NEW r \in Requests, Readable(r), NEW b, NEW v, NEW n, NEW q, Begun(r, b, n, q), Len(b) < Pos(r, n + 1),
         q = stop_of(r, b, v, n)
  PROVE  lined(r, b, v, n, q) = reparsed(lined(r, b, v, n, q))
<1> DEFINE c == lined(r, b, v, n, q)
           z == 0
<1>1. c.m_rd_buf = b /\ c.m_iv = v
  BY BufferOf
<1>2. Begins(b, written(r)) /\ n \in 0 .. Len(r.headers) + 1 /\ z \in 0 .. n
  <2>1. Len(r.headers) \in Nat
    BY SoundRequest, Positions
  <2> QED BY <2>1 DEF Begun
<1>3. Pos(r, n) <= Len(b)
  <2>1. b \in Seq(Tokens) /\ Pos(r, n) <= q /\ q <= Len(b) /\ q \in Nat
    BY DEF Begun, Begins
  <2>2. Len(b) \in Nat
    BY <2>1
  <2>3. n \in 0 .. Len(r.headers) + 2
    <3>1. Len(r.headers) \in Nat
      BY SoundRequest, Positions
    <3> QED BY <1>2, <3>1
  <2>4. Pos(r, n) \in Nat
    BY <2>3, SoundRequest, Positions
  <2> QED BY <2>1, <2>2, <2>4
<1>4. Begun(r, b, z, z)
  BY <1>2, BegunAtStart
<1>5. lined(r, b, v, z, z) = fresh(b, v, z)
  <2> DEFINE y == z
  <2> HIDE DEF y
  <2>1. lined(r, b, v, 0, y) = fresh(b, v, y)
    BY FreshLined
  <2> QED BY <2>1 DEF y
<1>6. process_read(lined(r, b, v, z, z)) = stopped(lined(r, b, v, n, stop_of(r, b, v, n)), "OK", "NO_REQUEST")
  <2> HIDE DEF z
  <2> QED BY <1>2, <1>3, <1>4, ReadOpen
<1>7. reparsed(c) = processed(fresh(b, v, z)).c
  <2> HIDE DEF c
  <2> QED BY <1>1, Reparsed
<1>8. process_read(fresh(b, v, z)) = stopped(c, "OK", "NO_REQUEST")
  BY <1>5, <1>6
<1>9. processed(fresh(b, v, z)).c = c
  <2> DEFINE f == fresh(b, v, z)
             line == "OK"
  <2>1. process_read(f) = stopped(c, line, "NO_REQUEST")
    BY <1>8
  <2> HIDE DEF f, c, line
  <2>2. processed(f).c = c
    BY <2>1, ProcessedMore
  <2> QED BY <2>2 DEF f
<1> QED BY <1>7, <1>9

(* process() on a buffer in which no line has ended. *)
LEMMA FreshOpen ==
  ASSUME NEW b, Len(b) \in Nat, NEW v, NEW q \in Nat, q <= Len(b), NoEnd(b, 0, q),
         parse_one_line(fresh(b, v, 0)).status # "OK", NEW e, e = parse_one_line(fresh(b, v, 0)).checked
  PROVE  /\ process_read(fresh(b, v, q)) = stopped(fresh(b, v, e), "OK", "NO_REQUEST")
         /\ e \in Nat /\ e <= Len(b) /\ NoEnd(b, 0, e)
<1> DEFINE z == 0
           st == "REQUESTLINE"
           u == ""
<1>1. /\ fresh(b, v, q).m_rd_buf = b /\ fresh(b, v, q).m_checked_idx = q
      /\ fresh(b, v, z).m_rd_buf = b /\ fresh(b, v, z).m_checked_idx = z
  <2> HIDE DEF z
  <2> QED BY Fresh
<1>2. parse_one_line(fresh(b, v, q)) = parse_one_line(fresh(b, v, z))
  <2> DEFINE c == fresh(b, v, z)
             d == fresh(b, v, q)
  <2>1. c.m_rd_buf = b /\ d.m_rd_buf = b /\ c.m_checked_idx = z /\ d.m_checked_idx = q
    BY <1>1
  <2>2. z \in Nat /\ z <= q /\ NoEnd(b, z, q)
    OBVIOUS
  <2> HIDE DEF c, d, z
  <2>3. parse_one_line(d) = parse_one_line(c)
    BY <2>1, <2>2, LineAgain
  <2> QED BY <2>3 DEF c, d
<1>3. e \in Nat /\ e <= Len(b) /\ NoEnd(b, z, e)
  <2> DEFINE c == fresh(b, v, z)
  <2>1. c.m_rd_buf = b /\ c.m_checked_idx = z /\ z \in Nat /\ z <= Len(b) /\ parse_one_line(c).status # "OK"
        /\ e = parse_one_line(c).checked
    BY <1>1
  <2> HIDE DEF c, z
  <2> QED BY <2>1, NotALine
<1>4. /\ st # "CONTENT" /\ parse_one_line(members(b, v, st, q, z, u, unset, z)).status # "OK"
      /\ parse_one_line(members(b, v, st, q, z, u, unset, z)).checked = e
  <2>1. fresh(b, v, q) = members(b, v, st, q, z, u, unset, z)
    BY DEF fresh
  <2>2. st # "CONTENT"
    OBVIOUS
  <2> DEFINE d == members(b, v, st, q, z, u, unset, z)
             f == fresh(b, v, 0)
  <2>3. parse_one_line(d) = parse_one_line(f) /\ parse_one_line(f).status # "OK" /\ parse_one_line(f).checked = e
    BY <1>2, <2>1
  <2> HIDE DEF d, f, z, st, u
  <2>4. parse_one_line(d).status # "OK" /\ parse_one_line(d).checked = e
    BY <2>3
  <2> QED BY <2>2, <2>4 DEF d
<1>5. turn(first(members(b, v, st, q, z, u, unset, z))) = stopped(members(b, v, st, e, z, u, unset, z), "OK", "NO_REQUEST")
  <2> HIDE DEF z, st, u
  <2> QED BY <1>4, TurnMissing
<1>6. turn(first(fresh(b, v, q))) = stopped(fresh(b, v, e), "OK", "NO_REQUEST")
  BY <1>5 DEF fresh
<1> DEFINE end == stopped(fresh(b, v, e), "OK", "NO_REQUEST")
           c == fresh(b, v, q)
           i == 1
<1>7. end.halt /\ turn(first(c)) = end /\ Len(c.m_rd_buf) \in Nat /\ i \in Nat /\ i <= Len(c.m_rd_buf) + 2
  BY <1>1, <1>6 DEF stopped
<1> HIDE DEF end, c, z
<1>8. Reaches(c, end, 1)
  BY <1>7, ReachesStop
<1>9. Reaches(c, end, i)
  BY <1>8
<1> HIDE DEF i
<1>10. process_read(c) = end
  BY <1>7, <1>9, ReachesRead
<1> QED BY <1>3, <1>10 DEF end, c, z

(* The outcome of parse_one_line has a status and an index. *)
LEMMA LineShape ==
  ASSUME NEW c
  PROVE  parse_one_line(c) = LineEnd(parse_one_line(c).status, parse_one_line(c).checked)
<1> DEFINE P(x) == x = LineEnd(x.status, x.checked)
           i == CHOOSE e \in {i \in c.m_checked_idx .. m_rd_idx(c) - 1 : char(c, i) \in {"CR", "LF"}} :
                  \A f \in {i \in c.m_checked_idx .. m_rd_idx(c) - 1 : char(c, i) \in {"CR", "LF"}} : e <= f
<1>1. ASSUME NEW s, NEW k PROVE [status |-> s, checked |-> k] = LineEnd([status |-> s, checked |-> k].status, [status |-> s, checked |-> k].checked)
  BY DEF LineEnd
<1>2. \/ parse_one_line(c) = [status |-> "OPEN", checked |-> m_rd_idx(c)]
      \/ parse_one_line(c) = [status |-> "OK", checked |-> i + 1]
      \/ parse_one_line(c) = [status |-> "BAD", checked |-> i]
      \/ parse_one_line(c) = [status |-> "OPEN", checked |-> i]
      \/ parse_one_line(c) = [status |-> "OK", checked |-> i + 2]
  BY Zenon DEF parse_one_line
<1> HIDE DEF i
<1> QED BY <1>1, <1>2

(* do_request looks at the path alone. *)
LEMMA SameResource ==
  ASSUME NEW c, NEW d, c.m_url = d.m_url
  PROVE  do_request(c) = do_request(d)
BY DEF do_request

(* An answer that process() would have prepared from the buffer as it is. *)
LEMMA AnswerOnce ==
  ASSUME NEW b, NEW v, NEW st, NEW q, NEW p, NEW u, NEW l, NEW n, NEW line, NEW code, code # "NO_REQUEST",
         \A x : process_read(fresh(b, x, 0)) = stopped(members(b, x, st, q, p, u, l, n), line, code),
         NEW c, c = process_write(members(b, v, st, q, p, u, l, n), code)
  PROVE  /\ c = reparsed(c) /\ Shaped(c) /\ c.m_rd_buf = b /\ c.bytes_have_send = 0
         /\ c.bytes_to_send = total_of(u, l, code) /\ c.m_write_buf = text_of(u, l, code)
         /\ c.m_url = u /\ c.m_linger = l /\ c.m_iv = blocks_of(u, l, code)
<1> DEFINE buf == text_of(u, l, code)
           total == total_of(u, l, code)
           iv == blocks_of(u, l, code)
           f == fresh(b, iv, 0)
           d == members(b, iv, st, q, p, u, l, n)
<1>1. c = sending(b, st, q, p, u, l, n, buf, total, iv)
  BY Answered
<1>2. process_write(d, code) = c
  <2> HIDE DEF iv
  <2>1. process_write(members(b, iv, st, q, p, u, l, n), code) =
          sending(b, st, q, p, u, l, n, text_of(u, l, code), total_of(u, l, code), blocks_of(u, l, code))
    BY Answered
  <2> QED BY <1>1, <2>1 DEF iv
<1>3. process_read(f) = stopped(d, line, code)
  OBVIOUS
<1> HIDE DEF buf, total, iv
<1>4. /\ Shaped(c) /\ c.m_rd_buf = b /\ c.bytes_have_send = 0 /\ c.bytes_to_send = total /\ c.m_write_buf = buf
      /\ c.m_url = u /\ c.m_linger = l /\ c.m_iv = iv
  BY <1>1, SendingShaped DEF sending
<1>5. reparsed(c) = processed(f).c
  BY <1>4, Reparsed
<1> HIDE DEF f, d
<1>6. processed(f).c = process_write(d, code)
  BY <1>3, ProcessedDone
<1> QED BY <1>2, <1>4, <1>5, <1>6 DEF buf, total, iv

(* process() on a buffer with a line that is refused. *)
refusal(b, v, e) == stopped(members(b, v, "REQUESTLINE", e, e, "", unset, 0), "OK", "BAD_REQUEST")
RefusedFrom(b, v, q, e) == process_read(fresh(b, v, q)) = refusal(b, v, e)

(* The line that is refused ends the loop. *)
LEMMA FreshRefused ==
  ASSUME NEW r \in Requests, NEW a, Rest(r, a), NEW b, Within(b, written(r), a), NEW v, NEW q \in Nat, q <= Len(b),
         NEW z, z = 0, NoEnd(b, z, q), parse_one_line(fresh(b, v, z)).status = "OK",
         NEW e, e = parse_one_line(fresh(b, v, z)).checked
  PROVE  /\ e \in Nat /\ e <= Len(b) /\ Len(b) \in Nat /\ r.eol = <<"CR", "LF">> /\ headers_at(r) <= a + Len(b)
         /\ RefusedFrom(b, v, q, e)
<1> DEFINE st == "REQUESTLINE"
           u == ""
           c == fresh(b, v, z)
           d == fresh(b, v, q)
           text == words_between(b, z, e)
           at == members(b, v, st, e, e, u, unset, z)
           done == Parsed("BAD_REQUEST", at)
           end == stopped(at, "OK", "BAD_REQUEST")
           k == 1
<1>1. c.m_rd_buf = b /\ c.m_checked_idx = z /\ d.m_rd_buf = b /\ d.m_checked_idx = q
  BY Fresh
<1>2. z \in Nat /\ z <= q /\ NoEnd(b, z, q) /\ k \in Nat
  OBVIOUS
<1>3. Len(b) \in Nat
  BY DEF Within
<1>4. parse_one_line(d) = parse_one_line(c)
  <2> HIDE DEF c, d
  <2> QED BY <1>1, <1>2, <1>3, LineAgain
<1>5. /\ e \in Nat /\ e <= Len(b) /\ r.eol = <<"CR", "LF">> /\ headers_at(r) <= a + Len(b)
      /\ \A x : parse_request_line(x, text) = Parsed("BAD_REQUEST", x)
  <2>1. c.m_checked_idx = 0 /\ parse_one_line(c).status = "OK" /\ e = parse_one_line(c).checked
    BY <1>1
  <2>2. /\ e \in Nat /\ e <= Len(b) /\ r.eol = <<"CR", "LF">> /\ headers_at(r) <= a + Len(b)
        /\ \A x : parse_request_line(x, words_between(b, 0, e)) = Parsed("BAD_REQUEST", x)
    <3> HIDE DEF c
    <3> QED BY <1>1, <2>1, Hopeless
  <2> QED BY <2>2
<1>6. parse_one_line(d) = LineEnd("OK", e)
  <2>1. parse_one_line(c) = LineEnd(parse_one_line(c).status, parse_one_line(c).checked)
    <3> HIDE DEF c
    <3> QED BY LineShape
  <2>2. parse_one_line(c).status = "OK" /\ parse_one_line(c).checked = e
    OBVIOUS
  <2> HIDE DEF c, d
  <2> QED BY <1>4, <2>1, <2>2
<1>7. d = members(b, v, st, q, z, u, unset, z)
  BY DEF fresh
<1>8. done = parsed_line(st, at, text) /\ st \in {"REQUESTLINE", "HEADER"}
  <2>1. parsed_line(st, at, text) = parse_request_line(at, text)
    BY DEF parsed_line
  <2>2. parse_request_line(at, text) = Parsed("BAD_REQUEST", at)
    <3> HIDE DEF at, text
    <3> QED BY <1>5
  <2> QED BY <2>1, <2>2
<1>9. turn(first(d)) = outcome(done)
  <2>1. /\ parse_one_line(members(b, v, st, q, z, u, unset, z)) = LineEnd("OK", e)
        /\ text = words_between(b, z, e) /\ done = parsed_line(st, members(b, v, st, e, e, u, unset, z), text)
        /\ st \in {"REQUESTLINE", "HEADER"}
    BY <1>6, <1>7, <1>8
  <2> HIDE DEF st, u, text, done, d
  <2>2. turn(first(members(b, v, st, q, z, u, unset, z))) = outcome(done)
    BY <2>1, TurnLine
  <2> QED BY <1>7, <2>2
<1>10. outcome(done) = end
  <2> HIDE DEF at
  <2>1. done.code = "BAD_REQUEST" /\ done.c = at
    BY DEF Parsed
  <2>2. served_code(done) = "BAD_REQUEST"
    BY <2>1 DEF served_code
  <2> HIDE DEF done
  <2> QED BY <2>1, <2>2 DEF outcome
<1>11. end.halt
  BY DEF stopped
<1> HIDE DEF end, d, c
<1>12. Reaches(d, end, 1)
  BY <1>9, <1>10, <1>11, ReachesStop
<1>13. Reaches(d, end, k) /\ k <= Len(d.m_rd_buf) + 2 /\ Len(d.m_rd_buf) \in Nat
  BY <1>1, <1>3, <1>12
<1> HIDE DEF k
<1>14. process_read(d) = end
  BY <1>2, <1>13, ReachesRead
<1>15. end = refusal(b, v, e)
  BY DEF end, refusal, at
<1> QED BY <1>3, <1>5, <1>14, <1>15 DEF d, RefusedFrom

(* process() on the rest of a request. *)
LEMMA ProcessOver ==
  ASSUME NEW r \in Requests, NEW a, NEW b, NEW v, NEW rest, NEW c, Over(r, a, b, v, rest, "task", c)
  PROVE  \/ processed(c).phase = "IN" /\ Over(r, a, b, v, rest, "IN", processed(c).c)
         \/ processed(c).phase = "OUT" /\ \E a2 : Over(r, a2, <<>>, v, rest, "OUT", processed(c).c)
<1> DEFINE w == written(r)
           z == 0
           e == parse_one_line(fresh(b, v, z)).checked
<1>1. /\ Rest(r, a) /\ Within(b, w, a) /\ rest \in Seq(Tokens) /\ a + Len(b) + Len(rest) = Len(w)
      /\ \A i \in 1 .. Len(rest) : rest[i] = w[a + Len(b) + i]
      /\ (Readable(r) => a = Len(w)) /\ Placed(b, rest, w, a)
  BY DEF Over, Placed
<1>2. PICK q \in Nat : c = fresh(b, v, q) /\ q <= Len(b) /\ NoEnd(b, z, q)
  BY DEF Over
<1>3. a \in Nat /\ Len(b) \in Nat /\ Len(rest) \in Nat /\ b \in Seq(Tokens)
  BY <1>1 DEF Within
<1>4. CASE parse_one_line(fresh(b, v, z)).status # "OK"
  <2>1. process_read(c) = stopped(fresh(b, v, e), "OK", "NO_REQUEST") /\ e \in Nat /\ e <= Len(b) /\ NoEnd(b, z, e)
    <3>1. parse_one_line(fresh(b, v, 0)).status # "OK" /\ e = parse_one_line(fresh(b, v, 0)).checked /\ NoEnd(b, 0, q)
      BY <1>2, <1>4
    <3> HIDE DEF e
    <3>2. /\ process_read(fresh(b, v, q)) = stopped(fresh(b, v, e), "OK", "NO_REQUEST")
          /\ e \in Nat /\ e <= Len(b) /\ NoEnd(b, 0, e)
      BY <1>2, <1>3, <3>1, FreshOpen
    <3> QED BY <1>2, <3>2
  <2>2. processed(c).c = fresh(b, v, e) /\ processed(c).phase = "IN"
    <3> DEFINE d == fresh(b, v, e)
               line == "OK"
    <3>1. process_read(c) = stopped(d, line, "NO_REQUEST")
      BY <2>1
    <3> HIDE DEF d, line
    <3>2. processed(c).c = d /\ processed(c).phase = "IN"
      BY <3>1, ProcessedMore
    <3> QED BY <3>2 DEF d
  <2>3. Over(r, a, b, v, rest, "IN", fresh(b, v, e))
    <3>1. \E x \in Nat : /\ fresh(b, v, e) = fresh(b, v, x) /\ x <= Len(b) /\ NoEnd(b, 0, x)
                         /\ parse_one_line(fresh(b, v, 0)).status # "OK"
                         /\ x = parse_one_line(fresh(b, v, 0)).checked
      <4>1. /\ fresh(b, v, e) = fresh(b, v, e) /\ e <= Len(b) /\ NoEnd(b, 0, e) /\ e \in Nat
            /\ parse_one_line(fresh(b, v, 0)).status # "OK"
            /\ e = parse_one_line(fresh(b, v, 0)).checked
        BY <1>4, <2>1
      <4> HIDE DEF e
      <4> QED BY <4>1
    <3> HIDE DEF e
    <3> QED BY <1>1, <3>1 DEF Over
  <2> QED BY <2>2, <2>3
<1>5. CASE parse_one_line(fresh(b, v, z)).status = "OK"
  <2> DEFINE st == "REQUESTLINE"
             u == ""
             line == "OK"
             code == "BAD_REQUEST"
             d == process_write(members(b, v, st, e, e, u, unset, z), code)
             a2 == a + Len(b)
             none == <<>>
  <2>1. ASSUME NEW x PROVE parse_one_line(fresh(b, x, z)) = parse_one_line(fresh(b, v, z))
    <3> DEFINE f == fresh(b, x, z)
               g == fresh(b, v, z)
    <3>1. f.m_rd_buf = b /\ g.m_rd_buf = b /\ f.m_checked_idx = z /\ g.m_checked_idx = z
      <4> HIDE DEF z
      <4> QED BY Fresh
    <3>2. z \in Nat /\ z <= z /\ z <= Len(b) /\ NoEnd(b, z, z)
      BY <1>3 DEF NoEnd
    <3> HIDE DEF f, g, z
    <3>3. parse_one_line(f) = parse_one_line(g)
      BY <1>3, <3>1, <3>2, LineAgain
    <3> QED BY <3>3 DEF f, g
  <2>2. \A x, y : y \in Nat /\ y <= Len(b) /\ NoEnd(b, z, y) =>
                    /\ process_read(fresh(b, x, y)) = stopped(members(b, x, st, e, e, u, unset, z), line, code)
                    /\ r.eol = <<"CR", "LF">> /\ headers_at(r) <= a + Len(b)
    <3> SUFFICES ASSUME NEW x, NEW y \in Nat, y <= Len(b), NoEnd(b, z, y)
                 PROVE  /\ process_read(fresh(b, x, y)) = stopped(members(b, x, st, e, e, u, unset, z), line, code)
                        /\ r.eol = <<"CR", "LF">> /\ headers_at(r) <= a + Len(b)
      OBVIOUS
    <3>1. parse_one_line(fresh(b, x, z)).status = "OK" /\ e = parse_one_line(fresh(b, x, z)).checked /\ z = 0
      BY <1>5, <2>1
    <3>2. Within(b, written(r), a) /\ Rest(r, a)
      BY <1>1
    <3> HIDE DEF e, w, z, st, u, line, code, d, a2, none
    <3>3. RefusedFrom(b, x, y, e)
      BY <3>1, <3>2, FreshRefused, Zenon
    <3>5. r.eol = <<"CR", "LF">>
      BY <3>1, <3>2, FreshRefused, Zenon
    <3>6. headers_at(r) <= a + Len(b)
      BY <3>1, <3>2, FreshRefused, Zenon
    <3>4. refusal(b, x, e) = stopped(members(b, x, st, e, e, u, unset, z), line, code)
      BY DEF refusal, st, u, line, code, z
    <3> QED BY <3>3, <3>4, <3>5, <3>6 DEF RefusedFrom
  <2>3. process_read(c) = stopped(members(b, v, st, e, e, u, unset, z), line, code)
    BY <1>2, <2>2
  <2>4. processed(c).c = d /\ processed(c).phase = "OUT"
    <3> DEFINE f == members(b, v, st, e, e, u, unset, z)
    <3>1. process_read(c) = stopped(f, line, code) /\ code # "NO_REQUEST"
      BY <2>3
    <3> HIDE DEF f, line, code
    <3>2. processed(c).c = process_write(f, code) /\ processed(c).phase = "OUT"
      BY <3>1, ProcessedDone
    <3> QED BY <3>2 DEF f
  <2>5. d = reparsed(d) /\ d.bytes_have_send = 0 /\ d.bytes_to_send = total_of(u, unset, code)
    <3>1. \A x : process_read(fresh(b, x, 0)) = stopped(members(b, x, st, e, e, u, unset, z), line, code)
      <4> SUFFICES ASSUME NEW x PROVE process_read(fresh(b, x, 0)) = stopped(members(b, x, st, e, e, u, unset, z), line, code)
        OBVIOUS
      <4>1. z \in Nat /\ z <= Len(b) /\ NoEnd(b, z, z)
        BY <1>3 DEF NoEnd
      <4>2. process_read(fresh(b, x, z)) = stopped(members(b, x, st, e, e, u, unset, z), line, code)
        <5> HIDE DEF z, st, u, line, code, e
        <5> QED BY <2>2, <4>1
      <4> QED BY <4>2
    <3>2. code # "NO_REQUEST"
      OBVIOUS
    <3> HIDE DEF st, u, line, code, e, z
    <3>3. d = process_write(members(b, v, st, e, e, u, unset, z), code)
      OBVIOUS
    <3> HIDE DEF d
    <3> QED BY <3>1, <3>2, <3>3, AnswerOnce
  <2>6. total_of(u, unset, code) = 0
    BY DEF total_of
  <2>7. Rest(r, a2) /\ a2 \in Nat
    <3>1. r.eol = <<"CR", "LF">> /\ headers_at(r) <= a + Len(b)
      BY <1>2, <2>2
    <3> QED BY <1>3, <3>1 DEF Rest
  <2>8. Placed(none, rest, w, a2)
    <3>1. none \in Seq(Tokens) /\ Len(none) = 0
      OBVIOUS
    <3> HIDE DEF none
    <3>2. a2 + Len(none) = a + Len(b)
      BY <1>3, <3>1
    <3>3. a2 + Len(none) <= Len(w)
      BY <1>1, <1>3, <3>2
    <3>4. Within(none, w, a2)
      <4>1. \A i \in 1 .. Len(none) : none[i] = w[a2 + i]
        BY <3>1
      <4> QED BY <2>7, <3>1, <3>3, <4>1 DEF Within
    <3>5. a2 + Len(none) + Len(rest) = Len(w) /\ \A i \in 1 .. Len(rest) : rest[i] = w[a2 + Len(none) + i]
      BY <1>1, <3>2
    <3> QED BY <1>1, <3>4, <3>5 DEF Placed
  <2>9. Readable(r) => a2 = Len(w)
    BY <1>1, <1>3 DEF Within
  <2> HIDE DEF a2, d, w
  <2>10. Over(r, a2, <<>>, v, rest, "OUT", d)
    BY <2>5, <2>6, <2>7, <2>8, <2>9 DEF Over, w
  <2> QED BY <2>4, <2>10
<1> QED BY <1>4, <1>5

(* A request that was read whole: it is answered, or it is over. *)
Finished(r, v, rest, c) ==
  \/ served(r) /\ Answering(r, rest, "OUT", c) /\ Accounts(r, c, 0)
  \/ ~served(r) /\ \E a : Over(r, a, <<>>, v, rest, "OUT", c)

(* The length of a request, and of its head. *)
LEMMA LengthWritten ==
  ASSUME NEW r \in Requests, Readable(r)
  PROVE  /\ Len(written(r)) = head_end(r) + r.body /\ r.body \in Nat /\ r.body <= length_of(r) /\ head_end(r) \in Nat
         /\ Len(written(r)) \in Nat /\ headers_at(r) \in Nat /\ headers_at(r) <= head_end(r) /\ length_of(r) \in Nat
         /\ Text(written(r), r) /\ r.eol = <<"CR", "LF">>
<1>1. Sound(r) /\ r.eol = <<"CR", "LF">>
  BY SoundRequest DEF Readable
<1>2. Text(written(r), r)
  BY <1>1, WrittenText
<1>3. Len(written(r)) = head_end(r) + r.body
  BY <1>2 DEF Text
<1>4. r.body \in Nat /\ r.body <= length_of(r) /\ r.headers \in Seq((Tokens \ Separators) \X (Tokens \ Separators))
  BY <1>1 DEF Sound, length_of
<1>5. headers_at(r) \in Nat /\ head_end(r) \in Nat /\ Len(r.headers) \in Nat /\ head_end(r) = headers_at(r) + 5 * Len(r.headers) + 2
  BY <1>1, Positions
<1>6. length_of(r) \in Nat
  <2> DEFINE n == Len(r.headers)
             W == Tokens \ Separators
             hs == r.headers
  <2>1. hs \in Seq(W \X W) /\ (\A i \in DOMAIN hs : hs[i][1] = "Content-Length:" => hs[i][2] \in DOMAIN atol) /\ n \in 0 .. n
    BY <1>4, <1>5, SoundRequest
  <2>2. n = Len(hs)
    OBVIOUS
  <2> HIDE DEF W, hs, n
  <2>3. \A k \in 0 .. n : announced(hs, k) \in Nat
    BY <2>1, <2>2, Announced
  <2>4. announced(hs, n) \in Nat
    BY <2>1, <2>3
  <2> QED BY <2>4 DEF length_of, hs, n
<1>7. headers_at(r) <= head_end(r) /\ Len(written(r)) \in Nat
  BY <1>3, <1>4, <1>5
<1> QED BY <1>1, <1>2, <1>3, <1>4, <1>5, <1>6, <1>7

(* The bookkeeping before the first call of writev. *)
LEMMA AccountsNew ==
  ASSUME NEW r \in Requests, served(r), NEW c, NEW u, NEW l, u = file_of(r), l = keeping(r),
         c.bytes_have_send = 0, c.bytes_to_send = total_of(u, l, "FILE_REQUEST"),
         c.m_write_buf = text_of(u, l, "FILE_REQUEST"), c.m_url = u, c.m_linger = l,
         c.m_iv = blocks_of(u, l, "FILE_REQUEST")
  PROVE  Accounts(r, c, 0)
<1> DEFINE size == size_of(r)
           hd == head("FILE_REQUEST", size, l)
           n == 5
           z == 0
<1>1. size \in Nat /\ Len(hd) = 5 /\ hd \in Seq(Units)
  BY ReplyUnits
<1>2. text_of(u, l, "FILE_REQUEST") = hd
  <2>1. text_of(u, l, "FILE_REQUEST") = joined(<<>>, head("FILE_REQUEST", resources[u].size, l))
    BY DEF text_of
  <2>2. resources[u].size = size
    BY DEF size_of
  <2>3. text_of(u, l, "FILE_REQUEST") = joined(<<>>, hd)
    BY <2>1, <2>2
  <2> DEFINE U == Units
  <2>4. hd \in Seq(U)
    BY <1>1
  <2> HIDE DEF hd, U
  <2> QED BY <2>3, <2>4, JoinedEmpty
<1>3. resources[u].size = size
  BY DEF size_of
<1> HIDE DEF hd
<1>4. c.bytes_to_send = n + size
  <2> HIDE DEF size
  <2> QED BY <1>1, <1>2, <1>3 DEF total_of
<1>5. c.m_iv = [head |-> 0, head_len |-> n, file |-> 0, file_len |-> size]
  <2> HIDE DEF size
  <2> QED BY <1>1, <1>2, <1>3 DEF blocks_of, blocks
<1>6. Blocks(c.m_iv, z, size)
  <2> DEFINE iv == c.m_iv
  <2>1. /\ iv \in [head : Int, head_len : Int, file : Int, file_len : Int]
        /\ iv.head = 0 /\ iv.head_len = 5 /\ iv.file = 0 /\ iv.file_len = size
    <3> HIDE DEF size
    <3> QED BY <1>1, <1>5
  <2> HIDE DEF iv, size
  <2>2. Blocks(iv, z, size)
    BY <2>1 DEF Blocks
  <2> QED BY <2>2 DEF iv
<1>7. n + size - z = n + size
  BY <1>1
<1>8. c.m_write_buf = head("FILE_REQUEST", size_of(r), keeping(r))
  BY <1>2 DEF hd
<1> HIDE DEF size
<1>9. c.bytes_to_send = 5 + size - 0
  BY <1>1, <1>4
<1>10. Accounts(r, c, 0)
  BY <1>6, <1>8, <1>9 DEF Accounts, size
<1> QED BY <1>10

(* A request that is complete is answered or over. *)
LEMMA Finishes ==
  ASSUME NEW r \in Requests, Readable(r), NEW b, NEW rest, Placed(b, rest, written(r), 0), Len(b) = Len(written(r)),
         Len(b) < RD_BUF_SIZE, NEW v, NEW st, NEW q, NEW p, NEW line, NEW u, NEW l, NEW n, NEW code,
         u = file_of(r), l = keeping(r), code = do_request(members(b, v, st, q, p, u, l, n)),
         \A x : process_read(fresh(b, x, 0)) = stopped(members(b, x, st, q, p, u, l, n), line, code),
         NEW c, c = process_write(members(b, v, st, q, p, u, l, n), code)
  PROVE  Finished(r, v, rest, c)
<1> DEFINE w == written(r)
<1>1. /\ code # "NO_REQUEST"
      /\ (code = "FILE_REQUEST" <=> u \in DOMAIN resources /\ resources[u].kind = "file")
  <2> DEFINE d == members(b, v, st, q, p, u, l, n)
  <2>1. d.m_url = u /\ code = do_request(d)
    BY DEF members
  <2> HIDE DEF d
  <2>2. do_request(d) # "NO_REQUEST" /\ (do_request(d) = "FILE_REQUEST" <=> u \in DOMAIN resources /\ resources[u].kind = "file")
    BY <2>1, Found
  <2> QED BY <2>1, <2>2
<1>2. /\ c = reparsed(c) /\ Shaped(c) /\ c.m_rd_buf = b /\ c.bytes_have_send = 0
      /\ c.bytes_to_send = total_of(u, l, code) /\ c.m_write_buf = text_of(u, l, code)
      /\ c.m_url = u /\ c.m_linger = l /\ c.m_iv = blocks_of(u, l, code)
  BY <1>1, AnswerOnce
<1>3. Len(w) \in Nat /\ headers_at(r) <= Len(w) /\ r.eol = <<"CR", "LF">>
  <2>1. Len(w) = head_end(r) + r.body /\ r.body \in Nat /\ head_end(r) \in Nat /\ headers_at(r) \in Nat
        /\ headers_at(r) <= head_end(r) /\ r.eol = <<"CR", "LF">>
    BY LengthWritten
  <2> HIDE DEF w
  <2> QED BY <2>1
<1>4. rest = <<>> /\ Len(b) + Len(rest) = Len(w)
  <2>1. Len(b) \in Nat /\ Len(rest) \in Nat /\ Len(b) + Len(rest) = Len(w)
    BY PlacedBegins
  <2>2. rest \in Seq(Tokens)
    BY DEF Placed
  <2>3. Len(rest) = 0
    BY <2>1
  <2> QED BY <2>1, <2>2, <2>3
<1>5. served(r) <=> code = "FILE_REQUEST"
  BY <1>1 DEF served, Readable
<1>6. CASE code = "FILE_REQUEST"
  <2>1. Accounts(r, c, 0)
    BY <1>2, <1>5, <1>6, AccountsNew
  <2>2. Answering(r, rest, "OUT", c)
    BY <1>2, <1>4, <1>5, <1>6 DEF Answering
  <2> QED BY <1>5, <1>6, <2>1, <2>2 DEF Finished
<1>7. CASE code # "FILE_REQUEST"
  <2> DEFINE a == Len(w)
             none == <<>>
  <2>1. c.bytes_to_send = 0
    BY <1>2, <1>7 DEF total_of
  <2>2. Rest(r, a)
    BY <1>3 DEF Rest
  <2>3. Placed(none, rest, w, a)
    <3>1. none \in Seq(Tokens) /\ Len(none) = 0 /\ rest \in Seq(Tokens) /\ Len(rest) = 0 /\ a \in Nat
      BY <1>3, <1>4
    <3> HIDE DEF none, a
    <3>2. a + Len(none) = a /\ a + Len(none) + Len(rest) = a /\ a <= a
      BY <3>1
    <3>3. (\A i \in 1 .. Len(none) : none[i] = w[a + i]) /\ (\A i \in 1 .. Len(rest) : rest[i] = w[a + Len(none) + i])
      BY <3>1
    <3> QED BY <3>1, <3>2, <3>3 DEF Placed, Within, a
  <2>4. Over(r, a, <<>>, v, rest, "OUT", c)
    BY <1>2, <2>1, <2>2, <2>3 DEF Over
  <2> QED BY <1>5, <1>7, <2>4 DEF Finished
<1> QED BY <1>6, <1>7

(* process() when a request is complete, and would have been at once. *)
whole(b, x, st, q, p, u, l, n, line) ==
  stopped(members(b, x, st, q, p, u, l, n), line, do_request(members(b, x, st, q, p, u, l, n)))

(* So process() leaves it. *)
LEMMA Completes ==
  ASSUME NEW r \in Requests, Readable(r), NEW b, NEW rest, Placed(b, rest, written(r), 0), Len(b) = Len(written(r)),
         Len(b) < RD_BUF_SIZE, NEW v, NEW st, NEW q, NEW p, NEW line, NEW u, NEW l, NEW n,
         u = file_of(r), l = keeping(r),
         \A x : process_read(fresh(b, x, 0)) = whole(b, x, st, q, p, u, l, n, line),
         NEW c, process_read(c) = whole(b, v, st, q, p, u, l, n, line)
  PROVE  processed(c).phase = "OUT" /\ Finished(r, v, rest, processed(c).c)
<1> DEFINE d == members(b, v, st, q, p, u, l, n)
           code == do_request(d)
<1>1. d.m_url = u /\ code # "NO_REQUEST"
  <2>1. d.m_url = u
    BY DEF members
  <2> HIDE DEF d
  <2> QED BY <2>1, Found
<1>2. ASSUME NEW x PROVE process_read(fresh(b, x, 0)) = stopped(members(b, x, st, q, p, u, l, n), line, code)
  <2> DEFINE e == members(b, x, st, q, p, u, l, n)
             f == fresh(b, x, 0)
  <2>1. e.m_url = u
    BY DEF members
  <2>2. process_read(f) = stopped(e, line, do_request(e))
    BY DEF whole
  <2> HIDE DEF e, d, f
  <2>3. do_request(e) = do_request(d)
    BY <1>1, <2>1, SameResource
  <2>4. process_read(f) = stopped(e, line, code)
    BY <2>2, <2>3
  <2> QED BY <2>4 DEF e, f
<1>3. process_read(c) = stopped(d, line, code)
  BY DEF whole
<1>4. processed(c).c = process_write(d, code) /\ processed(c).phase = "OUT"
  <2> HIDE DEF d, code
  <2> QED BY <1>1, <1>3, ProcessedDone DEF code
<1> HIDE DEF code
<1>5. code = do_request(members(b, v, st, q, p, u, l, n))
  BY DEF code
<1>6. Finished(r, v, rest, process_write(d, code))
  <2> DEFINE x == process_write(d, code)
  <2>1. x = process_write(members(b, v, st, q, p, u, l, n), code)
    OBVIOUS
  <2> HIDE DEF x, d
  <2>2. Finished(r, v, rest, x)
    BY <1>2, <1>5, <2>1, Finishes
  <2> QED BY <2>2 DEF x
<1> QED BY <1>4, <1>6

(* process() on a request of which the head is read. *)
LEMMA ProcessHead ==
  ASSUME NEW r \in Requests, NEW b, NEW v, NEW rest, Readable(r), Placed(b, rest, written(r), 0), Len(b) < RD_BUF_SIZE,
         NEW n, NEW q, Begun(r, b, n, q), NEW c, c = lined(r, b, v, n, q)
  PROVE  \/ processed(c).phase = "IN" /\ Reading(r, b, v, rest, "IN", processed(c).c)
         \/ processed(c).phase = "OUT" /\ Finished(r, v, rest, processed(c).c)
<1> DEFINE w == written(r)
           he == head_end(r)
           H == Len(r.headers)
           u == file_of(r)
           l == keeping(r)
           m0 == announced(r.headers, Len(r.headers))
           z == 0
<1>1. Begins(b, w) /\ Len(b) \in Nat /\ Len(rest) \in Nat /\ Len(b) + Len(rest) = Len(w)
  BY PlacedBegins
<1>2. /\ Len(w) = he + r.body /\ r.body \in Nat /\ r.body <= length_of(r) /\ he \in Nat /\ length_of(r) \in Nat
  BY LengthWritten
<1>3. Begun(r, b, z, z)
  BY <1>1, BegunAtStart
<1>4. ASSUME NEW x PROVE lined(r, b, x, z, z) = fresh(b, x, z)
  <2> DEFINE y == z
  <2> HIDE DEF y
  <2>1. lined(r, b, x, 0, y) = fresh(b, x, y)
    BY FreshLined
  <2> QED BY <2>1 DEF y
<1>5. CASE Len(b) < he
  <2>1. PICK k \in 0 .. Len(r.headers) + 1 : n <= k /\ Pos(r, k) <= Len(b) /\ Len(b) < Pos(r, k + 1)
    BY <1>5, LinesRead
  <2> DEFINE stop == stop_of(r, b, v, k)
             d == lined(r, b, v, k, stop)
  <2>2. n \in 0 .. k
    <3>1. n \in 0 .. H + 1 /\ H \in Nat
      BY SoundRequest, Positions DEF Begun
    <3> QED BY <2>1, <3>1
  <2>3. process_read(c) = stopped(d, "OK", "NO_REQUEST") /\ Begun(r, b, k, stop)
    BY <2>1, <2>2, ReadOpen
  <2>4. processed(c).c = d /\ processed(c).phase = "IN"
    <3> DEFINE line == "OK"
    <3>1. process_read(c) = stopped(d, line, "NO_REQUEST")
      BY <2>3
    <3> HIDE DEF d, line
    <3> QED BY <3>1, ProcessedMore
  <2>5. Reading(r, b, v, rest, "IN", d)
    <3> HIDE DEF w
    <3>1. d = lined(r, b, v, k, stop) /\ Begun(r, b, k, stop) /\ Len(b) < Pos(r, k + 1) /\ stop = stop_of(r, b, v, k)
      BY <2>1, <2>3
    <3> HIDE DEF d, stop
    <3>2. \E i, j : /\ d = lined(r, b, v, i, j) /\ Begun(r, b, i, j)
                    /\ Len(b) < Pos(r, i + 1) /\ j = stop_of(r, b, v, i)
      BY <3>1
    <3> QED BY <3>2 DEF Reading
  <2> QED BY <2>4, <2>5
<1>6. CASE he <= Len(b) /\ length_of(r) = 0
  <2>1. Len(b) = Len(w)
    BY <1>1, <1>2, <1>6
  <2> DEFINE st == "HEADER"
             line == "OK"
  <2>2. ASSUME NEW x, NEW i, NEW j, Begun(r, b, i, j)
        PROVE  process_read(lined(r, b, x, i, j)) = whole(b, x, st, he, he, u, l, m0, line)
    <3> DEFINE h == headed(r, b, x)
    <3>1. process_read(lined(r, b, x, i, j)) = stopped(h, "OK", do_request(h))
      <4> HIDE DEF h
      <4> QED BY <1>6, <2>2, ReadHead DEF h
    <3>2. h = members(b, x, st, he, he, u, l, m0)
      BY DEF headed, keeping
    <3> QED BY <3>1, <3>2 DEF whole
  <2>3. process_read(c) = whole(b, v, st, he, he, u, l, m0, line)
    BY <2>2
  <2>4. \A x : process_read(fresh(b, x, 0)) = whole(b, x, st, he, he, u, l, m0, line)
    <3> SUFFICES ASSUME NEW x PROVE process_read(fresh(b, x, 0)) = whole(b, x, st, he, he, u, l, m0, line)
      OBVIOUS
    <3>1. process_read(lined(r, b, x, z, z)) = whole(b, x, st, he, he, u, l, m0, line)
      <4> HIDE DEF z, st, he, u, l, m0, line
      <4> QED BY <1>3, <2>2
    <3> QED BY <1>4, <3>1
  <2> HIDE DEF st, line, he, m0, u, l
  <2>5. processed(c).phase = "OUT" /\ Finished(r, v, rest, processed(c).c)
    BY <2>1, <2>3, <2>4, Completes DEF u, l
  <2> QED BY <2>5
<1>7. CASE he <= Len(b) /\ length_of(r) # 0 /\ Len(b) >= length_of(r) + he
  <2>1. Len(b) = Len(w)
    BY <1>1, <1>2, <1>7
  <2> DEFINE st == "CONTENT"
             line == "OPEN"
  <2>2. ASSUME NEW x, NEW i, NEW j, Begun(r, b, i, j)
        PROVE  process_read(lined(r, b, x, i, j)) = whole(b, x, st, he, he, u, l, m0, line)
    <3> DEFINE h == bodied(r, b, x, he, he)
    <3>1. process_read(lined(r, b, x, i, j)) = stopped(h, "OPEN", do_request(h))
      <4>1. h = bodied(r, b, x, head_end(r), head_end(r))
        OBVIOUS
      <4> HIDE DEF h
      <4> QED BY <1>7, <2>2, <4>1, ReadBody
    <3>2. h = members(b, x, st, he, he, u, l, m0)
      BY DEF bodied, keeping
    <3> QED BY <3>1, <3>2 DEF whole
  <2>3. process_read(c) = whole(b, v, st, he, he, u, l, m0, line)
    BY <2>2
  <2>4. \A x : process_read(fresh(b, x, 0)) = whole(b, x, st, he, he, u, l, m0, line)
    <3> SUFFICES ASSUME NEW x PROVE process_read(fresh(b, x, 0)) = whole(b, x, st, he, he, u, l, m0, line)
      OBVIOUS
    <3>1. process_read(lined(r, b, x, z, z)) = whole(b, x, st, he, he, u, l, m0, line)
      <4> HIDE DEF z, st, he, u, l, m0, line
      <4> QED BY <1>3, <2>2
    <3> QED BY <1>4, <3>1
  <2> HIDE DEF st, line, he, m0, u, l
  <2>5. processed(c).phase = "OUT" /\ Finished(r, v, rest, processed(c).c)
    BY <2>1, <2>3, <2>4, Completes DEF u, l
  <2> QED BY <2>5
<1>8. CASE he <= Len(b) /\ length_of(r) # 0 /\ ~(Len(b) >= length_of(r) + he)
  <2> DEFINE q2 == Len(b)
             d == bodied(r, b, v, q2, he)
             line == "OPEN"
  <2>1. process_read(c) = stopped(d, line, "NO_REQUEST")
    BY <1>8, ReadPart
  <2>2. processed(c).c = d /\ processed(c).phase = "IN"
    <3> HIDE DEF d, line
    <3> QED BY <2>1, ProcessedMore
  <2>3. q2 \in Nat /\ he <= q2 /\ q2 <= Len(b)
    BY <1>1, <1>8
  <2>4. \E i, j : /\ d = bodied(r, b, v, i, j) /\ length_of(r) # 0
                  /\ i \in Nat /\ head_end(r) <= i /\ i <= Len(b)
    BY <1>8, <2>3
  <2>5. Reading(r, b, v, rest, "IN", d)
    <3> HIDE DEF d, q2
    <3> QED BY <2>4 DEF Reading
  <2> QED BY <2>2, <2>5
<1>9. Len(b) < he \/ he <= Len(b)
  BY <1>1, <1>2
<1> QED BY <1>5, <1>6, <1>7, <1>8, <1>9

(* process() on a request of which the body is read. *)
LEMMA ProcessBody ==
  ASSUME NEW r \in Requests, NEW b, NEW v, NEW rest, Readable(r), Placed(b, rest, written(r), 0), Len(b) < RD_BUF_SIZE,
         NEW q \in Nat, head_end(r) <= q, q <= Len(b), length_of(r) # 0, NEW p, NEW c, c = bodied(r, b, v, q, p)
  PROVE  \/ processed(c).phase = "IN" /\ Reading(r, b, v, rest, "IN", processed(c).c)
         \/ processed(c).phase = "OUT" /\ Finished(r, v, rest, processed(c).c)
<1> DEFINE w == written(r)
           he == head_end(r)
           u == file_of(r)
           l == keeping(r)
           m0 == announced(r.headers, Len(r.headers))
           z == 0
           st == "CONTENT"
           line == "OPEN"
           lb == Len(b)
<1>1. Begins(b, w) /\ lb \in Nat /\ Len(rest) \in Nat /\ lb + Len(rest) = Len(w)
  BY PlacedBegins
<1>2. /\ Len(w) = he + r.body /\ r.body \in Nat /\ r.body <= length_of(r) /\ he \in Nat /\ length_of(r) \in Nat /\ Text(w, r)
  BY LengthWritten
<1>3. Begun(r, b, z, z)
  BY <1>1, BegunAtStart
<1>4. ASSUME NEW x PROVE lined(r, b, x, z, z) = fresh(b, x, z)
  <2> DEFINE y == z
  <2> HIDE DEF y
  <2>1. lined(r, b, x, 0, y) = fresh(b, x, y)
    BY FreshLined
  <2> QED BY <2>1 DEF y
<1>5. NoEnd(b, q, lb)
  <2>1. lb <= Len(w)
    BY <1>1, <1>2
  <2>2. NoEnd(w, he, lb)
    <3> HIDE DEF w, lb
    <3> QED BY <1>1, <1>2, <2>1, SoundRequest, NoEndInBody
  <2> HIDE DEF w, he
  <2> SUFFICES ASSUME NEW i \in q .. lb - 1 PROVE b[i + 1] \notin {"CR", "LF"}
    BY DEF NoEnd
  <2>3. i \in he .. lb - 1 /\ i + 1 \in 1 .. lb
    BY <1>1, <1>2 DEF he
  <2>4. b[i + 1] = w[i + 1]
    BY <1>1, <2>3 DEF Begins
  <2> QED BY <2>2, <2>3, <2>4 DEF NoEnd
<1>6. process_read(c) =
        IF lb >= length_of(r) + q
        THEN stopped(bodied(r, b, v, q, q), "OPEN", do_request(bodied(r, b, v, q, q)))
        ELSE stopped(bodied(r, b, v, lb, q), "OPEN", "NO_REQUEST")
  BY <1>1, <1>5, ReadMore
<1>7. CASE lb >= length_of(r) + q
  <2>1. lb = Len(w) /\ q = he /\ lb >= length_of(r) + he /\ he <= lb
    <3> HIDE DEF w, lb
    <3> QED BY <1>1, <1>2, <1>7
  <2>2. ASSUME NEW x
        PROVE  stopped(bodied(r, b, x, he, he), "OPEN", do_request(bodied(r, b, x, he, he))) = whole(b, x, st, he, he, u, l, m0, line)
    <3>1. bodied(r, b, x, he, he) = members(b, x, st, he, he, u, l, m0)
      BY DEF bodied, keeping
    <3> QED BY <3>1 DEF whole
  <2>3. process_read(c) = whole(b, v, st, he, he, u, l, m0, line)
    <3>1. process_read(c) = stopped(bodied(r, b, v, q, q), "OPEN", do_request(bodied(r, b, v, q, q)))
      BY <1>6, <1>7
    <3> QED BY <2>1, <2>2, <3>1
  <2>4. \A x : process_read(fresh(b, x, 0)) = whole(b, x, st, he, he, u, l, m0, line)
    <3> SUFFICES ASSUME NEW x PROVE process_read(fresh(b, x, 0)) = whole(b, x, st, he, he, u, l, m0, line)
      OBVIOUS
    <3> DEFINE h == bodied(r, b, x, he, he)
    <3>1. process_read(lined(r, b, x, z, z)) = stopped(h, "OPEN", do_request(h))
      <4>1. h = bodied(r, b, x, head_end(r), head_end(r)) /\ head_end(r) <= Len(b) /\ Len(b) >= length_of(r) + head_end(r)
        BY <2>1
      <4> HIDE DEF h, z
      <4> QED BY <1>3, <4>1, ReadBody
    <3> QED BY <1>4, <2>2, <3>1
  <2>5. Len(b) = Len(written(r))
    BY <2>1
  <2> HIDE DEF st, line, he, m0, u, l
  <2>6. processed(c).phase = "OUT" /\ Finished(r, v, rest, processed(c).c)
    BY <2>5, <2>3, <2>4, Completes DEF u, l
  <2> QED BY <2>6
<1>8. CASE ~(lb >= length_of(r) + q)
  <2> DEFINE d == bodied(r, b, v, lb, q)
  <2>1. process_read(c) = stopped(d, line, "NO_REQUEST")
    BY <1>6, <1>8
  <2>2. processed(c).c = d /\ processed(c).phase = "IN"
    <3> HIDE DEF d, line
    <3> QED BY <2>1, ProcessedMore
  <2>3. lb \in Nat /\ he <= lb /\ lb <= Len(b)
    BY <1>1, <1>2
  <2>4. \E i, j : /\ d = bodied(r, b, v, i, j) /\ length_of(r) # 0
                  /\ i \in Nat /\ head_end(r) <= i /\ i <= Len(b)
    BY <2>3
  <2>5. Reading(r, b, v, rest, "IN", d)
    <3> HIDE DEF d, lb
    <3> QED BY <2>4 DEF Reading
  <2> QED BY <2>2, <2>5
<1> QED BY <1>7, <1>8

(* process() on a request of which no answer is known. *)
LEMMA ProcessReading ==
  ASSUME NEW r \in Requests, NEW b, NEW v, NEW rest, NEW c, Reading(r, b, v, rest, "task", c)
  PROVE  \/ processed(c).phase = "IN" /\ Reading(r, b, v, rest, "IN", processed(c).c)
         \/ processed(c).phase = "OUT" /\ Finished(r, v, rest, processed(c).c)
<1>1. Readable(r) /\ Placed(b, rest, written(r), 0) /\ Len(b) < RD_BUF_SIZE
  BY DEF Reading
<1>2. CASE \E n, q : c = lined(r, b, v, n, q) /\ Begun(r, b, n, q)
  BY <1>1, <1>2, ProcessHead
<1>3. CASE \E q, p : /\ c = bodied(r, b, v, q, p) /\ length_of(r) # 0
                     /\ q \in Nat /\ head_end(r) <= q /\ q <= Len(b)
  BY <1>1, <1>3, ProcessBody
<1> QED BY <1>2, <1>3 DEF Reading

(* What waits for input is what one call of process() would have left. *)
LEMMA ReadingSettled ==
  ASSUME NEW r \in Requests, NEW b, NEW v, NEW rest, NEW c, Reading(r, b, v, rest, "IN", c), c.m_check_stat # "CONTENT"
  PROVE  c = reparsed(c)
<1>1. CASE \E n, q : c = lined(r, b, v, n, q) /\ Begun(r, b, n, q) /\ Len(b) < Pos(r, n + 1) /\ q = stop_of(r, b, v, n)
  <2>1. PICK n, q : c = lined(r, b, v, n, q) /\ Begun(r, b, n, q) /\ Len(b) < Pos(r, n + 1) /\ q = stop_of(r, b, v, n)
    BY <1>1
  <2>2. Readable(r)
    BY DEF Reading
  <2> QED BY <2>1, <2>2, LinedSettled
<1>2. CASE \E q, p : c = bodied(r, b, v, q, p)
  BY <1>2, BufferOf
<1> QED BY <1>1, <1>2 DEF Reading

(* The same of a rest. *)
LEMMA OverSettled ==
  ASSUME NEW r \in Requests, NEW a, NEW b, NEW v, NEW rest, NEW c, Over(r, a, b, v, rest, "IN", c)
  PROVE  c = reparsed(c)
<1> DEFINE z == 0
           f == fresh(b, v, z)
           line == "OK"
<1>1. Len(b) \in Nat
  BY DEF Over, Placed, Within
<1>2. PICK q \in Nat : c = fresh(b, v, q) /\ parse_one_line(fresh(b, v, z)).status # "OK"
                       /\ q = parse_one_line(fresh(b, v, z)).checked
  BY DEF Over
<1>3. c.m_rd_buf = b /\ c.m_iv = v
  BY <1>2, Fresh
<1>4. reparsed(c) = processed(f).c
  BY <1>3, Reparsed
<1>5. process_read(f) = stopped(c, line, "NO_REQUEST")
  <2>1. z \in Nat /\ z <= Len(b) /\ NoEnd(b, 0, z)
    BY <1>1 DEF NoEnd
  <2>2. parse_one_line(fresh(b, v, 0)).status # "OK" /\ q = parse_one_line(fresh(b, v, 0)).checked
    BY <1>2
  <2> HIDE DEF z
  <2>3. process_read(fresh(b, v, z)) = stopped(fresh(b, v, q), "OK", "NO_REQUEST")
    BY <1>1, <2>1, <2>2, FreshOpen
  <2> QED BY <1>2, <2>3
<1> HIDE DEF f, line
<1>6. processed(f).c = c
  BY <1>5, ProcessedMore
<1> QED BY <1>4, <1>6

(* When nothing is left to come, only a body is waited for. *)
LEMMA ReadingWaits ==
  ASSUME NEW r \in Requests, NEW b, NEW v, NEW c, Reading(r, b, v, <<>>, "IN", c)
  PROVE  c.m_check_stat = "CONTENT"
<1>1. CASE \E n, q : c = lined(r, b, v, n, q) /\ Begun(r, b, n, q) /\ Len(b) < Pos(r, n + 1)
  <2>1. PICK n, q : Begun(r, b, n, q) /\ Len(b) < Pos(r, n + 1)
    BY <1>1
  <2> DEFINE none == <<>>
             j == n + 1
  <2>2. Readable(r) /\ Placed(b, none, written(r), 0) /\ Len(none) = 0
    BY DEF Reading
  <2> HIDE DEF none
  <2>3. Len(b) \in Nat /\ Len(b) + Len(none) = Len(written(r))
    BY <2>2, PlacedBegins
  <2>4. Len(written(r)) = head_end(r) + r.body /\ r.body \in Nat /\ head_end(r) \in Nat
    BY <2>2, LengthWritten
  <2>5. j \in 0 .. Len(r.headers) + 2
    <3>1. Len(r.headers) \in Nat
      BY SoundRequest, Positions
    <3> QED BY <2>1, <3>1 DEF Begun
  <2> HIDE DEF j
  <2>6. Pos(r, j) \in Nat /\ Pos(r, j) <= head_end(r)
    BY <2>5, SoundRequest, Positions
  <2>7. Len(b) < Pos(r, j)
    BY <2>1 DEF j
  <2> QED BY <2>2, <2>3, <2>4, <2>6, <2>7
<1>2. CASE \E q, p : c = bodied(r, b, v, q, p)
  BY <1>2, BufferOf
<1> QED BY <1>1, <1>2 DEF Reading

(* What is served can be read, and is over only at its end. *)
LEMMA ServedReadable ==
  ASSUME NEW r \in Requests, served(r)
  PROVE  Readable(r)
<1>1. r.target # <<"http://", "host">>
  <2> SUFFICES ASSUME r.target = <<"http://", "host">> PROVE FALSE
    OBVIOUS
  <2>1. file_of(r) = "host"
    BY DEF file_of
  <2>2. file_of(r) \in DOMAIN resources
    BY DEF served
  <2> QED BY <2>1, <2>2, ResourcesAssumption
<1> QED BY <1>1 DEF served, Readable

(* So nothing of it is left. *)
LEMMA OverServed ==
  ASSUME NEW r \in Requests, served(r), NEW a, NEW b, NEW v, NEW rest, NEW ph, NEW c, Over(r, a, b, v, rest, ph, c)
  PROVE  b = <<>> /\ rest = <<>>
<1> DEFINE w == written(r)
<1>1. Readable(r) /\ a = Len(w) /\ Placed(b, rest, w, a)
  BY ServedReadable DEF Over
<1>2. Len(w) \in Nat
  BY <1>1, LengthWritten
<1>3. b \in Seq(Tokens) /\ rest \in Seq(Tokens) /\ a + Len(b) + Len(rest) = Len(w)
  BY <1>1 DEF Placed, Within
<1> HIDE DEF w
<1>4. Len(b) \in Nat /\ Len(rest) \in Nat
  BY <1>3
<1>5. Len(b) = 0 /\ Len(rest) = 0
  BY <1>1, <1>2, <1>3, <1>4
<1> QED BY <1>3, <1>5

(* Nothing was read yet. *)
LEMMA EmptyOpen ==
  ASSUME NEW b, b = <<>>, NEW v
  PROVE  parse_one_line(fresh(b, v, 0)).status # "OK" /\ parse_one_line(fresh(b, v, 0)).checked = 0 /\ NoEnd(b, 0, 0)
<1> DEFINE z == 0
           c == fresh(b, v, z)
<1>1. c.m_checked_idx = z /\ c.m_rd_buf = b /\ z \in Nat /\ Len(b) = 0
  <2>1. c.m_checked_idx = z /\ c.m_rd_buf = b
    <3> HIDE DEF z
    <3> QED BY Fresh
  <2> QED BY <2>1
<1>2. NoEnd(b, z, Len(b)) /\ NoEnd(b, 0, 0)
  BY <1>1 DEF NoEnd
<1>3. parse_one_line(c) = LineEnd("OPEN", Len(b))
  <2>1. NoEnd(c.m_rd_buf, z, Len(c.m_rd_buf)) /\ Len(c.m_rd_buf) \in Nat
    BY <1>1, <1>2
  <2> HIDE DEF c, z
  <2>2. parse_one_line(c) = LineEnd("OPEN", Len(c.m_rd_buf))
    BY <1>1, <2>1, LineOpen
  <2> QED BY <1>1, <2>2
<1> HIDE DEF c
<1>4. parse_one_line(c).status = "OPEN" /\ parse_one_line(c).checked = 0
  BY <1>1, <1>3 DEF LineEnd
<1> QED BY <1>2, <1>4 DEF c

(* Members that are new wait for the rest. *)
LEMMA Resumes ==
  ASSUME NEW r, NEW a, NEW rest, Rest(r, a), Placed(<<>>, rest, written(r), a), Readable(r) => a = Len(written(r)),
         NEW v, NEW c, c = fresh(<<>>, v, 0)
  PROVE  Over(r, a, <<>>, v, rest, "IN", c)
<1> DEFINE b == <<>>
           z == 0
<1>1. b = <<>> /\ Len(b) = 0
  OBVIOUS
<1>2. c = fresh(b, v, z) /\ Placed(b, rest, written(r), a) /\ z \in Nat /\ z <= Len(b)
  OBVIOUS
<1> HIDE DEF b
<1>3. parse_one_line(fresh(b, v, 0)).status # "OK" /\ parse_one_line(fresh(b, v, 0)).checked = 0 /\ NoEnd(b, 0, 0)
  BY <1>1, EmptyOpen
<1>4. \E q \in Nat : /\ c = fresh(b, v, q) /\ q <= Len(b) /\ NoEnd(b, 0, q)
                     /\ parse_one_line(fresh(b, v, 0)).status # "OK" /\ q = parse_one_line(fresh(b, v, 0)).checked
  <2>1. /\ c = fresh(b, v, z) /\ z <= Len(b) /\ NoEnd(b, 0, z)
        /\ parse_one_line(fresh(b, v, 0)).status # "OK" /\ z = parse_one_line(fresh(b, v, 0)).checked
    BY <1>2, <1>3
  <2> HIDE DEF z
  <2> QED BY <1>2, <2>1
<1>5. Over(r, a, b, v, rest, "IN", c)
  BY <1>2, <1>4 DEF Over
<1> QED BY <1>5 DEF b

(* A request is a text. *)
LEMMA WrittenTokens ==
  ASSUME NEW r \in Requests
  PROVE  written(r) \in Seq(Tokens) /\ Len(written(r)) \in Nat
<1>1. Sound(r)
  BY SoundRequest
<1>2. LineAt(written(r), r)
  BY <1>1, WrittenText, WrittenBare DEF Text, Bare
<1>3. written(r) \in Seq(Tokens)
  BY <1>2 DEF LineAt
<1> QED BY <1>3

(* A new connection waits for its first request, or knows nothing of it. *)
LEMMA Starts ==
  ASSUME NEW r \in Requests, NEW v, NEW c, c = fresh(<<>>, v, 0)
  PROVE  Reading(r, <<>>, v, written(r), "IN", c) \/ Over(r, 0, <<>>, v, written(r), "IN", c)
<1> DEFINE b == <<>>
           z == 0
           w == written(r)
<1>1. w \in Seq(Tokens) /\ Len(w) \in Nat
  BY WrittenTokens
<1>2. b \in Seq(Tokens) /\ Len(b) = 0 /\ z \in Nat
  OBVIOUS
<1>3. Placed(b, w, w, z)
  <2> HIDE DEF w, b
  <2>1. z + Len(b) = 0 /\ 0 + Len(w) = Len(w) /\ z + Len(b) <= Len(w)
    BY <1>1, <1>2
  <2>2. (\A i \in 1 .. Len(b) : b[i] = w[z + i]) /\ \A i \in 1 .. Len(w) : w[i] = w[0 + i]
    <3>1. \A i \in 1 .. Len(w) : 0 + i = i
      OBVIOUS
    <3> QED BY <1>2, <3>1
  <2> HIDE DEF z
  <2> QED BY <1>1, <1>2, <2>1, <2>2 DEF Placed, Within
<1>4. CASE Readable(r)
  <2>1. Begins(b, w)
    BY <1>1, <1>2 DEF Begins
  <2>2. Begun(r, b, z, z)
    <3> HIDE DEF b
    <3> QED BY <2>1, BegunAtStart
  <2>3. c = lined(r, b, v, z, z)
    <3> DEFINE y == z
    <3> HIDE DEF y, b
    <3>1. lined(r, b, v, 0, y) = fresh(b, v, y)
      BY FreshLined
    <3> QED BY <3>1 DEF y, b
  <2>4. Len(b) < Pos(r, z + 1)
    <3>1. Pos(r, 1) = headers_at(r) /\ headers_at(r) = Len(r.target) + 6 /\ Len(r.target) \in 1 .. 3
      BY SoundRequest, Positions
    <3>2. z + 1 = 1
      OBVIOUS
    <3> QED BY <1>2, <3>1, <3>2
  <2>5. z = stop_of(r, b, v, z)
    <3>1. Pos(r, z) = z
      BY DEF Pos
    <3>2. lined(r, b, v, z, z) = fresh(b, v, z)
      BY <2>3
    <3>3. stop_of(r, b, v, z) = parse_one_line(fresh(b, v, z)).checked
      BY <3>1, <3>2 DEF stop_of
    <3>4. parse_one_line(fresh(b, v, 0)).checked = 0
      <4>1. b = <<>>
        OBVIOUS
      <4> HIDE DEF b
      <4> QED BY <4>1, EmptyOpen
    <3> QED BY <3>3, <3>4
  <2>6. \E n, q : /\ c = lined(r, b, v, n, q) /\ Begun(r, b, n, q)
                  /\ Len(b) < Pos(r, n + 1) /\ q = stop_of(r, b, v, n)
    <3> HIDE DEF z, b
    <3> QED BY <2>2, <2>3, <2>4, <2>5
  <2>7. Reading(r, b, v, w, "IN", c)
    <3> HIDE DEF b
    <3> QED BY <1>3, <1>4, <2>6 DEF Reading
  <2> QED BY <2>7
<1>5. CASE ~Readable(r)
  <2>1. Rest(r, z)
    BY <1>5 DEF Rest
  <2>2. Over(r, z, <<>>, v, w, "IN", c)
    <3> HIDE DEF z, w
    <3>1. Placed(<<>>, w, written(r), z)
      BY <1>3 DEF w
    <3> QED BY <1>5, <2>1, <3>1, Resumes
  <2> QED BY <2>2
<1> QED BY <1>4, <1>5

(* What the client has when `have` units of an answer x were sent, after o. *)
part(o, x, have) == joined(o, SubSeq(x, 1, have))

(* Sequences are equal when their elements are. *)
LEMMA SameUnits ==
  ASSUME NEW A, NEW s \in Seq(A), NEW t \in Seq(A), Len(s) = Len(t), \A i \in 1 .. Len(s) : s[i] = t[i]
  PROVE  s = t
OBVIOUS

(* y is what x holds behind its first `have` units. *)
Continues(y, x, have) == Len(y) = Len(x) - have /\ \A i \in 1 .. Len(y) : y[i] = x[have + i]

(* n more units. *)
LEMMA PartNext ==
  ASSUME NEW A, NEW o \in Seq(A), NEW x \in Seq(A), NEW have \in Nat, NEW n \in Nat, NEW y \in Seq(A),
         Continues(y, x, have), n <= Len(y), NEW k, k = have + n
  PROVE  joined(part(o, x, have), SubSeq(y, 1, n)) = part(o, x, k)
<1> DEFINE p == SubSeq(x, 1, have)
           s == SubSeq(y, 1, n)
           t == SubSeq(x, 1, have + n)
           c == joined(p, s)
<1>0. Len(x) \in Nat /\ Len(y) \in Nat /\ have + n <= Len(x) /\ \A i \in 1 .. Len(y) : y[i] = x[have + i]
  BY DEF Continues
<1>1. p \in Seq(A) /\ Len(p) = have /\ \A i \in 1 .. have : p[i] = x[i]
  BY <1>0
<1>2. s \in Seq(A) /\ Len(s) = n /\ \A i \in 1 .. n : s[i] = y[i]
  BY <1>0
<1>3. t \in Seq(A) /\ Len(t) = have + n /\ \A i \in 1 .. have + n : t[i] = x[i]
  BY <1>0
<1> HIDE DEF p, s, t
<1>4. IsJoined(A, c, p, s)
  BY <1>1, <1>2, JoinedText
<1> HIDE DEF c
<1>5. /\ c \in Seq(A) /\ Len(c) = have + n /\ (\A i \in 1 .. have : c[i] = p[i])
      /\ \A i \in 1 .. n : c[have + i] = s[i]
  BY <1>1, <1>2, <1>4 DEF IsJoined
<1>6. ASSUME NEW i \in 1 .. Len(c) PROVE c[i] = t[i]
  <2>1. i \in 1 .. have + n
    BY <1>5
  <2>2. CASE i <= have
    <3>1. i \in 1 .. have
      BY <2>1, <2>2
    <3> QED BY <1>1, <1>3, <1>5, <2>1, <3>1
  <2>3. CASE i > have
    <3> DEFINE j == i - have
    <3>1. j \in 1 .. n /\ have + j = i /\ j \in 1 .. Len(y)
      BY <1>0, <2>1, <2>3
    <3> HIDE DEF j
    <3>2. c[have + j] = s[j] /\ s[j] = y[j] /\ y[j] = x[have + j]
      BY <1>0, <1>2, <1>5, <3>1
    <3> QED BY <1>3, <2>1, <3>1, <3>2
  <2> QED BY <2>1, <2>2, <2>3
<1>7. c = t
  BY <1>3, <1>5, <1>6, SameUnits
<1>8. joined(joined(o, p), s) = joined(o, joined(p, s))
  BY <1>1, <1>2, Associative
<1>9. joined(joined(o, p), s) = joined(o, t)
  BY <1>7, <1>8 DEF c
<1> QED BY <1>9 DEF part, p, s, t

(* None of it. *)
LEMMA PartNone ==
  ASSUME NEW A, NEW o \in Seq(A), NEW x \in Seq(A)
  PROVE  part(o, x, 0) = o
<1> DEFINE s == SubSeq(x, 1, 0)
<1>1. s = <<>>
  OBVIOUS
<1>2. joined(o, s) = o
  BY <1>1, JoinedEmpty
<1> QED BY <1>2 DEF part

(* All of it. *)
LEMMA PartAll ==
  ASSUME NEW A, NEW o \in Seq(A), NEW x \in Seq(A), NEW n, n = Len(x)
  PROVE  part(o, x, n) = joined(o, x)
<1>1. SubSeq(x, 1, n) = x
  OBVIOUS
<1> QED BY <1>1 DEF part

(* It is a beginning of what the client is owed. *)
LEMMA PartPrefix ==
  ASSUME NEW A, NEW o \in Seq(A), NEW x \in Seq(A), NEW have \in Nat, have <= Len(x)
  PROVE  IsPrefix(part(o, x, have), joined(o, x))
<1> DEFINE s == SubSeq(x, 1, have)
           c == joined(o, s)
           d == joined(o, x)
           lo == Len(o)
           lx == Len(x)
<1>0. lo \in Nat /\ lx \in Nat /\ have <= lx
  OBVIOUS
<1>1. s \in Seq(A) /\ Len(s) = have /\ \A i \in 1 .. have : s[i] = x[i]
  BY <1>0
<1>2. IsJoined(A, d, o, x)
  BY JoinedText
<1> HIDE DEF s
<1>3. IsJoined(A, c, o, s)
  BY <1>1, JoinedText
<1> HIDE DEF c, d
<1>4. c \in Seq(A) /\ Len(c) = lo + have /\ (\A i \in 1 .. lo : c[i] = o[i]) /\ \A i \in 1 .. have : c[lo + i] = s[i]
  BY <1>1, <1>3 DEF IsJoined
<1>5. d \in Seq(A) /\ Len(d) = lo + lx /\ (\A i \in 1 .. lo : d[i] = o[i]) /\ \A i \in 1 .. lx : d[lo + i] = x[i]
  BY <1>2 DEF IsJoined
<1> HIDE DEF lo, lx
<1> DEFINE n == lo + have
<1>6. n \in Nat /\ n <= Len(d) /\ Len(c) = n
  BY <1>0, <1>4, <1>5
<1>7. ASSUME NEW i \in 1 .. n PROVE c[i] = d[i]
  <2>1. CASE i <= lo
    <3>1. i \in 1 .. lo
      BY <1>0, <2>1
    <3> QED BY <1>4, <1>5, <3>1
  <2>2. CASE i > lo
    <3> DEFINE j == i - lo
    <3>1. j \in 1 .. have /\ j \in 1 .. lx /\ lo + j = i
      BY <1>0, <2>2
    <3> HIDE DEF j
    <3>2. c[lo + j] = s[j] /\ s[j] = x[j] /\ d[lo + j] = x[j]
      BY <1>1, <1>4, <1>5, <3>1
    <3> QED BY <3>1, <3>2
  <2> QED BY <1>0, <2>1, <2>2
<1> HIDE DEF n
<1> DEFINE p == SubSeq(c, 1, n)
           q == SubSeq(d, 1, n)
<1>8. p \in Seq(A) /\ Len(p) = n /\ \A i \in 1 .. n : p[i] = c[i]
  BY <1>4, <1>6
<1>9. Len(d) \in Nat
  BY <1>5
<1>10. q \in Seq(A) /\ Len(q) = n /\ \A i \in 1 .. n : q[i] = d[i]
  BY <1>5, <1>6, <1>9
<1> HIDE DEF p, q
<1>11. p = q
  <2>1. \A i \in 1 .. Len(p) : p[i] = q[i]
    BY <1>7, <1>8, <1>10
  <2> QED BY <1>8, <1>10, <2>1, SameUnits
<1>12. IsPrefix(c, d)
  BY <1>6, <1>11 DEF IsPrefix, p, q
<1> QED BY <1>12 DEF c, d, s, part

(* The first answers. *)
LEMMA OwedBefore ==
  ASSUME NEW l \in Nat, sent \in [1 .. l -> Requests], NEW n \in 1 .. l, NEW r, r = sent[n],
         NEW o, o = owed_to(sent, n - 1), NEW d, d = due(r)
  PROVE  /\ o \in Seq(Units) /\ d \in Seq(Units) /\ r \in Requests /\ owed(n) = joined(o, d)
         /\ owed(n) = owed_to(sent, n)
<1>1. o \in Seq(Units) /\ d \in Seq(Units) /\ owed_to(sent, n) = joined(o, d)
  <2> DEFINE s == sent
  <2>1. /\ s \in [1 .. l -> Requests]
    OBVIOUS
  <2> HIDE DEF s
  <2>2. /\ owed_to(s, n - 1) \in Seq(Units) /\ due(s[n]) \in Seq(Units)
        /\ owed_to(s, n) = joined(owed_to(s, n - 1), due(s[n]))
    BY <2>1, OwedNext
  <2> QED BY <2>2 DEF s
<1>2. owed(n) = owed_to(sent, n)
  <2>1. (\A k \in DOMAIN sent : sent[k] \in Requests) /\ n \in Nat /\ 1 .. n \subseteq DOMAIN sent
    OBVIOUS
  <2> QED BY <2>1, Owed
<1> QED BY <1>1, <1>2
-----------------------------------------------------------------------------
(* The stages of a request r, when o is owed for those before it: it is read,
   answered, or over; or the connection is closed. *)
owed_with(o, r) == joined(o, due(r))

Awaited(r, o, rest, ph, c, out) ==
  (\E b, v : Reading(r, b, v, rest, ph, c)) /\ out = o

Sending(r, o, rest, ph, c, lost, out) ==
  /\ Answering(r, rest, ph, c) /\ c.bytes_to_send \in Int
  /\ ~lost => \E have \in Nat : /\ Accounts(r, c, have) /\ have < 5 + size_of(r)
                                 /\ out = part(o, reply(r), have)

Past(r, o, rest, ph, c, lost, out) ==
  (\E a, b, v : Over(r, a, b, v, rest, ph, c)) /\ (~lost => out = owed_with(o, r))

Reason(r, o, out) ==
  (served(r) /\ out = owed_with(o, r) /\ ~keeping(r)) \/ Len(written(r)) >= RD_BUF_SIZE

Ended(r, o, ph, lost, out) ==
  /\ ph \in {"closed", "gone"}
  /\ ~lost => IsPrefix(out, owed_with(o, r)) /\ (ph = "closed" => Reason(r, o, out))

Stage(r, o, rest, ph, c, lost, out) ==
  \/ Awaited(r, o, rest, ph, c, out) \/ Sending(r, o, rest, ph, c, lost, out)
  \/ Past(r, o, rest, ph, c, lost, out) \/ Ended(r, o, ph, lost, out)

Held(r, a, b, v, rest, ph, c) ==
  ph # "OUT" /\ (Reading(r, b, v, rest, ph, c) \/ Over(r, a, b, v, rest, ph, c))

(* The buffer of a request that is read, and of one that is over. *)
LEMMA BuffersRead ==
  ASSUME NEW r \in Requests, NEW a, NEW b, NEW v, NEW rest, NEW ph, NEW c, Held(r, a, b, v, rest, ph, c), NEW b2
  PROVE  c.m_rd_buf = b /\ unread(c, b2).m_rd_buf = b2
<1>1. CASE \E n, q : c = lined(r, b, v, n, q)
  BY <1>1, LinedUnread, BufferOf
<1>2. CASE \E q, p : c = bodied(r, b, v, q, p)
  BY <1>2, BodiedUnread, BufferOf
<1>3. CASE \E q : c = fresh(b, v, q)
  BY <1>3, Unread, Fresh
<1>4. (\E n, q : c = lined(r, b, v, n, q)) \/ (\E q, p : c = bodied(r, b, v, q, p)) \/ (\E q : c = fresh(b, v, q))
  BY DEF Held, Reading, Over
<1> QED BY <1>1, <1>2, <1>3, <1>4

(* What was received is a beginning of what is owed. *)
LEMMA DueUnits ==
  ASSUME NEW r \in Requests
  PROVE  due(r) \in Seq(Units)
<1>1. CASE served(r)
  <2>1. reply(r) \in Seq(Units)
    BY <1>1, ReplyUnits DEF IsJoined
  <2> QED BY <1>1, <2>1 DEF due
<1>2. CASE ~served(r)
  BY <1>2 DEF due
<1> QED BY <1>1, <1>2

(* All and none of an answer. *)
LEMMA OwedPrefixes ==
  ASSUME NEW r \in Requests, NEW o \in Seq(Units)
  PROVE  IsPrefix(o, owed_with(o, r)) /\ IsPrefix(owed_with(o, r), owed_with(o, r))
<1> DEFINE d == due(r)
           U == Units
           z == 0
           n == Len(d)
<1>1. d \in Seq(U) /\ o \in Seq(U)
  BY DueUnits
<1> HIDE DEF d, U
<1>2. z \in Nat /\ z <= Len(d) /\ n \in Nat /\ n <= Len(d)
  BY <1>1
<1>3. part(o, d, z) = o /\ part(o, d, n) = joined(o, d)
  BY <1>1, PartNone, PartAll
<1> HIDE DEF z, n
<1>4. IsPrefix(part(o, d, z), joined(o, d)) /\ IsPrefix(part(o, d, n), joined(o, d))
  BY <1>1, <1>2, PartPrefix
<1> QED BY <1>3, <1>4 DEF owed_with, d

(* A request that is not served is owed nothing. *)
LEMMA OwedNothing ==
  ASSUME NEW r \in Requests, ~served(r), NEW o \in Seq(Units)
  PROVE  owed_with(o, r) = o
<1> DEFINE U == Units
<1>1. due(r) = <<>> /\ o \in Seq(U)
  BY DEF due
<1> HIDE DEF U
<1> QED BY <1>1, JoinedEmpty DEF owed_with

(* What read() gives the parser, and when it closes. *)
LEMMA ReceivedAll ==
  ASSUME NEW r \in Requests, NEW a, NEW b, NEW rest, Placed(b, rest, written(r), a), NEW n \in 1 .. Len(rest),
         NEW b2, b2 = more(b, rest, n)
  PROVE  Len(b2) \in Nat /\ Len(b2) <= Len(written(r)) /\ Len(b2) = Len(b) + n
<1> DEFINE w == written(r)
           rest2 == less(rest, n)
<1>1. Len(w) \in Nat
  BY WrittenTokens
<1> HIDE DEF w
<1>2. Placed(b2, rest2, w, a) /\ Len(b2) = Len(b) + n
  BY <1>1, Received DEF w
<1>3. b2 \in Seq(Tokens) /\ a \in Nat /\ a + Len(b2) <= Len(w)
  BY <1>2 DEF Placed, Within
<1> QED BY <1>1, <1>2, <1>3 DEF w

(* read(): more of the request is in the buffer, or the connection is closed because it is full. *)
LEMMA ReadStep ==
  ASSUME NEW CONSTANT r \in Requests, NEW CONSTANT o \in Seq(Units),
         Stage(r, o, incoming, phase, m, head_lost, delivered), read
  PROVE  Stage(r, o, incoming', phase', m', head_lost', delivered')
<1>1. phase = "IN" /\ head_lost' = head_lost /\ delivered' = delivered
  BY DEF read
<1>2. PICK n \in 1 .. Len(incoming) :
           /\ Len(m.m_rd_buf) + n <= RD_BUF_SIZE
           /\ m' = [m EXCEPT !.m_rd_buf = @ \o SubSeq(incoming, 1, n)]
           /\ incoming' = SubSeq(incoming, n + 1, Len(incoming))
  BY DEF read, m_rd_idx
<1>3. phase' = IF Len(m'.m_rd_buf) = RD_BUF_SIZE THEN "closed" ELSE "task"
  BY DEF read, buffer_full, m_rd_idx
<1>4. RD_BUF_SIZE \in Nat
  BY BoundsAssumption
<1>5. ASSUME NEW a, NEW b, NEW v, Reading(r, b, v, incoming, "IN", m) \/ Over(r, a, b, v, incoming, "IN", m),
             IsPrefix(delivered, owed_with(o, r)) \/ head_lost
      PROVE  \/ Ended(r, o, phase', head_lost', delivered')
             \/ phase' = "task" /\ \E b2 : /\ b2 = more(b, incoming, n) /\ Len(b2) < RD_BUF_SIZE /\ m' = unread(m, b2)
                                        /\ incoming' = less(incoming, n)
  <2> DEFINE b2 == more(b, incoming, n)
  <2>0. PICK ph : ph = "IN"
    OBVIOUS
  <2>11. Held(r, a, b, v, incoming, ph, m)
    BY <1>5, <2>0 DEF Held
  <2>1. m.m_rd_buf = b
    <3> HIDE DEF b2
    <3>1. m.m_rd_buf = b /\ unread(m, b2).m_rd_buf = b2
      BY <2>11, BuffersRead
    <3> QED BY <3>1
  <2>2. m' = unread(m, b2)
    BY <1>2, <2>1 DEF unread, more, joined
  <2>3. unread(m, b2).m_rd_buf = b2
    <3> HIDE DEF b2
    <3> QED BY <2>11, BuffersRead
  <2>4. \E x : Placed(b, incoming, written(r), x)
    <3> DEFINE z == 0
    <3>1. Placed(b, incoming, written(r), z) \/ Placed(b, incoming, written(r), a)
      BY <1>5 DEF Reading, Over
    <3> HIDE DEF z
    <3> QED BY <3>1
  <2>5. Len(b2) \in Nat /\ Len(b2) <= Len(written(r)) /\ Len(b2) = Len(b) + n
    <3> HIDE DEF b2
    <3> QED BY <2>4, ReceivedAll DEF b2
  <2>6. incoming' = less(incoming, n)
    BY <1>2 DEF less
  <2>7. Len(b2) <= RD_BUF_SIZE
    BY <1>2, <2>1, <2>5
  <2>8. phase' = IF Len(b2) = RD_BUF_SIZE THEN "closed" ELSE "task"
    BY <1>3, <2>2, <2>3
  <2> HIDE DEF b2
  <2>9. CASE Len(b2) = RD_BUF_SIZE
    <3>1. phase' = "closed"
      BY <2>8, <2>9
    <3>2. Len(written(r)) \in Nat
      BY WrittenTokens
    <3>3. Reason(r, o, delivered')
      <4>1. Len(written(r)) >= RD_BUF_SIZE
        BY <1>4, <2>5, <2>9, <3>2
      <4> QED BY <4>1 DEF Reason
    <3>4. ~head_lost' => IsPrefix(delivered', owed_with(o, r))
      BY <1>1, <1>5
    <3> QED BY <3>1, <3>3, <3>4 DEF Ended
  <2>10. CASE Len(b2) # RD_BUF_SIZE
    <3>1. Len(b2) < RD_BUF_SIZE /\ phase' = "task"
      BY <1>4, <2>5, <2>7, <2>8, <2>10
    <3> QED BY <2>2, <2>6, <3>1 DEF b2
  <2> QED BY <2>9, <2>10
<1>6. CASE Awaited(r, o, incoming, phase, m, delivered)
  <2>1. PICK b, v : Reading(r, b, v, incoming, "IN", m)
    BY <1>1, <1>6 DEF Awaited
  <2>2. delivered = o
    BY <1>6 DEF Awaited
  <2>3. IsPrefix(delivered, owed_with(o, r))
    BY <2>2, OwedPrefixes
  <2>4. CASE Ended(r, o, phase', head_lost', delivered')
    BY <2>4 DEF Stage
  <2>5. CASE phase' = "task" /\ \E b2 : /\ b2 = more(b, incoming, n) /\ Len(b2) < RD_BUF_SIZE /\ m' = unread(m, b2)
                                     /\ incoming' = less(incoming, n)
    <3>1. PICK b2 : /\ b2 = more(b, incoming, n) /\ Len(b2) < RD_BUF_SIZE /\ m' = unread(m, b2)
                    /\ incoming' = less(incoming, n)
      BY <2>5
    <3>2. PICK rest2 : rest2 = less(incoming, n)
      OBVIOUS
    <3>3. PICK c, rest : c = m /\ rest = incoming
      OBVIOUS
    <3>4. Reading(r, b2, v, rest2, "task", unread(c, b2))
      <4>1. Reading(r, b, v, rest, "IN", c) /\ b2 = more(b, rest, n) /\ rest2 = less(rest, n) /\ n \in 1 .. Len(rest)
        BY <2>1, <3>1, <3>2, <3>3
      <4> QED BY <3>1, <4>1, ReadingGrows
    <3>5. Reading(r, b2, v, incoming', phase', m')
      BY <2>5, <3>1, <3>2, <3>3, <3>4
    <3> QED BY <1>1, <2>2, <3>5 DEF Stage, Awaited
  <2>6. PICK a : a = 0
    OBVIOUS
  <2> QED BY <1>5, <2>1, <2>3, <2>4, <2>5
<1>7. CASE Past(r, o, incoming, phase, m, head_lost, delivered)
  <2>1. PICK a, b, v : Over(r, a, b, v, incoming, "IN", m)
    BY <1>1, <1>7 DEF Past
  <2>2. ~head_lost => delivered = owed_with(o, r)
    BY <1>7 DEF Past
  <2>3. IsPrefix(delivered, owed_with(o, r)) \/ head_lost
    BY <2>2, OwedPrefixes, BoundsAssumption
  <2>4. CASE Ended(r, o, phase', head_lost', delivered')
    BY <2>4 DEF Stage
  <2>5. CASE phase' = "task" /\ \E b2 : /\ b2 = more(b, incoming, n) /\ Len(b2) < RD_BUF_SIZE /\ m' = unread(m, b2)
                                     /\ incoming' = less(incoming, n)
    <3>1. PICK b2 : /\ b2 = more(b, incoming, n) /\ Len(b2) < RD_BUF_SIZE /\ m' = unread(m, b2)
                    /\ incoming' = less(incoming, n)
      BY <2>5
    <3>2. PICK rest2 : rest2 = less(incoming, n)
      OBVIOUS
    <3>3. PICK c, rest : c = m /\ rest = incoming
      OBVIOUS
    <3>4. Over(r, a, b2, v, rest2, "task", unread(c, b2))
      <4>1. Over(r, a, b, v, rest, "IN", c) /\ b2 = more(b, rest, n) /\ rest2 = less(rest, n) /\ n \in 1 .. Len(rest)
            /\ Len(written(r)) \in Nat
        BY <2>1, <3>1, <3>2, <3>3, WrittenTokens
      <4> QED BY <3>1, <4>1, OverGrows
    <3>5. Over(r, a, b2, v, incoming', phase', m')
      BY <2>5, <3>1, <3>2, <3>3, <3>4
    <3> QED BY <1>1, <2>2, <3>5 DEF Stage, Past
  <2> QED BY <1>5, <2>1, <2>3, <2>4, <2>5
<1>8. ~Sending(r, o, incoming, phase, m, head_lost, delivered) /\ ~Ended(r, o, phase, head_lost, delivered)
  BY <1>1 DEF Sending, Answering, Ended
<1> QED BY <1>6, <1>7, <1>8 DEF Stage

(* process(): the request waits for more, is answered, or is over. *)
LEMMA ProcessStep ==
  ASSUME NEW CONSTANT r \in Requests, NEW CONSTANT o \in Seq(Units),
         Stage(r, o, incoming, phase, m, head_lost, delivered), process
  PROVE  Stage(r, o, incoming', phase', m', head_lost', delivered')
<1>1. /\ phase = "task" /\ m' = processed(m).c /\ phase' = processed(m).phase
      /\ incoming' = incoming /\ head_lost' = head_lost /\ delivered' = delivered
  BY DEF process
<1>2. PICK c, rest : c = m /\ rest = incoming
  OBVIOUS
<1>3. CASE Awaited(r, o, incoming, phase, m, delivered)
  <2>1. PICK b, v : Reading(r, b, v, rest, "task", c)
    BY <1>1, <1>2, <1>3 DEF Awaited
  <2>2. delivered = o
    BY <1>3 DEF Awaited
  <2>3. \/ processed(c).phase = "IN" /\ Reading(r, b, v, rest, "IN", processed(c).c)
        \/ processed(c).phase = "OUT" /\ Finished(r, v, rest, processed(c).c)
    BY <2>1, ProcessReading
  <2>4. CASE processed(c).phase = "IN" /\ Reading(r, b, v, rest, "IN", processed(c).c)
    <3>1. Reading(r, b, v, incoming', phase', m')
      BY <1>1, <1>2, <2>4
    <3> QED BY <1>1, <2>2, <3>1 DEF Stage, Awaited
  <2>5. CASE processed(c).phase = "OUT" /\ served(r) /\ Answering(r, rest, "OUT", processed(c).c) /\ Accounts(r, processed(c).c, 0)
    <3>1. Answering(r, incoming', phase', m') /\ Accounts(r, m', 0)
      BY <1>1, <1>2, <2>5
    <3>2. size_of(r) \in Nat /\ reply(r) \in Seq(Units)
      BY <2>5, ReplyUnits DEF IsJoined
    <3>3. m'.bytes_to_send = 5 + size_of(r) - 0
      BY <3>1 DEF Accounts
    <3>4. m'.bytes_to_send \in Int /\ 0 < 5 + size_of(r)
      BY <3>2, <3>3
    <3> DEFINE x == reply(r)
               U == Units
    <3>5. delivered' = part(o, reply(r), 0)
      <4>1. x \in Seq(U) /\ o \in Seq(U)
        BY <3>2
      <4> HIDE DEF x, U
      <4>2. part(o, x, 0) = o
        BY <4>1, PartNone
      <4> QED BY <1>1, <2>2, <4>2 DEF x
    <3>6. \E have \in Nat : /\ Accounts(r, m', have) /\ have < 5 + size_of(r)
                            /\ delivered' = part(o, reply(r), have)
      <4> DEFINE z == 0
      <4>1. Accounts(r, m', z) /\ z \in Nat /\ z < 5 + size_of(r) /\ delivered' = part(o, reply(r), z)
        BY <1>1, <2>2, <3>1, <3>4, <3>5
      <4> HIDE DEF z
      <4> QED BY <4>1
    <3>7. Sending(r, o, incoming', phase', m', head_lost', delivered')
      BY <1>1, <2>2, <3>1, <3>4, <3>6 DEF Sending
    <3> QED BY <3>7 DEF Stage
  <2>6. CASE processed(c).phase = "OUT" /\ ~served(r) /\ \E a : Over(r, a, <<>>, v, rest, "OUT", processed(c).c)
    <3>1. \E a, x, y : Over(r, a, x, y, incoming', phase', m')
      <4>1. PICK a : Over(r, a, <<>>, v, rest, "OUT", processed(c).c)
        BY <2>6
      <4> DEFINE none == <<>>
      <4>2. Over(r, a, none, v, incoming', phase', m')
        BY <1>1, <1>2, <2>6, <4>1
      <4> HIDE DEF none
      <4> QED BY <4>2
    <3>2. delivered' = owed_with(o, r)
      BY <1>1, <2>2, <2>6, OwedNothing
    <3> QED BY <3>1, <3>2 DEF Stage, Past
  <2> QED BY <2>3, <2>4, <2>5, <2>6 DEF Finished
<1>4. CASE Past(r, o, incoming, phase, m, head_lost, delivered)
  <2>1. PICK a, b, v : Over(r, a, b, v, rest, "task", c)
    BY <1>1, <1>2, <1>4 DEF Past
  <2>2. \/ processed(c).phase = "IN" /\ Over(r, a, b, v, rest, "IN", processed(c).c)
        \/ processed(c).phase = "OUT" /\ \E a2 : Over(r, a2, <<>>, v, rest, "OUT", processed(c).c)
    BY <2>1, ProcessOver
  <2>3. \E x, y, z : Over(r, x, y, z, incoming', phase', m')
    <3>1. CASE processed(c).phase = "IN" /\ Over(r, a, b, v, rest, "IN", processed(c).c)
      BY <1>1, <1>2, <3>1
    <3>2. CASE processed(c).phase = "OUT" /\ \E a2 : Over(r, a2, <<>>, v, rest, "OUT", processed(c).c)
      <4>1. PICK a2 : Over(r, a2, <<>>, v, rest, "OUT", processed(c).c)
        BY <3>2
      <4> DEFINE none == <<>>
      <4>2. Over(r, a2, none, v, incoming', phase', m')
        BY <1>1, <1>2, <3>2, <4>1
      <4> HIDE DEF none
      <4> QED BY <4>2
    <3> QED BY <2>2, <3>1, <3>2
  <2> QED BY <1>1, <1>4, <2>3 DEF Stage, Past
<1>5. ~Sending(r, o, incoming, phase, m, head_lost, delivered) /\ ~Ended(r, o, phase, head_lost, delivered)
  BY <1>1 DEF Sending, Answering, Ended
<1> QED BY <1>3, <1>4, <1>5 DEF Stage

(* The units of an answer that were sent are the first of it. *)
LEMMA SentPrefix ==
  ASSUME NEW r \in Requests, served(r), NEW o \in Seq(Units), NEW have \in Nat, have <= 5 + size_of(r)
  PROVE  IsPrefix(part(o, reply(r), have), owed_with(o, r))
<1> DEFINE x == reply(r)
           U == Units
<1>1. x \in Seq(U) /\ o \in Seq(U) /\ Len(x) = 5 + size_of(r)
  BY ReplyUnits DEF IsJoined
<1>2. owed_with(o, r) = joined(o, x)
  BY DEF owed_with, due
<1> HIDE DEF x, U
<1>3. IsPrefix(part(o, x, have), joined(o, x))
  BY <1>1, PartPrefix
<1> QED BY <1>2, <1>3 DEF x

(* The client's hang-up and the timer. *)
LEMMA CloseStep ==
  ASSUME NEW CONSTANT r \in Requests, NEW CONSTANT o \in Seq(Units),
         Stage(r, o, incoming, phase, m, head_lost, delivered), conn_close
  PROVE  Stage(r, o, incoming', phase', m', head_lost', delivered')
<1>1. /\ phase \in {"IN", "OUT", "write"} /\ phase' = "gone" /\ delivered' = delivered
      /\ head_lost' = head_lost
  BY DEF conn_close
<1>2. ~head_lost => IsPrefix(delivered, owed_with(o, r))
  <2> SUFFICES ASSUME ~head_lost PROVE IsPrefix(delivered, owed_with(o, r))
    OBVIOUS
  <2>1. CASE Awaited(r, o, incoming, phase, m, delivered)
    BY <2>1, OwedPrefixes DEF Awaited
  <2>2. CASE Sending(r, o, incoming, phase, m, head_lost, delivered)
    <3>1. PICK have \in Nat : have < 5 + size_of(r) /\ delivered = part(o, reply(r), have)
      BY <2>2 DEF Sending
    <3>2. served(r)
      BY <2>2 DEF Sending, Answering
    <3>3. size_of(r) \in Nat
      BY <3>2, ReplyUnits
    <3>4. have <= 5 + size_of(r)
      BY <3>1, <3>3
    <3> QED BY <3>1, <3>2, <3>4, SentPrefix
  <2>3. CASE Past(r, o, incoming, phase, m, head_lost, delivered)
    BY <2>3, OwedPrefixes DEF Past
  <2>4. ~Ended(r, o, phase, head_lost, delivered)
    BY <1>1 DEF Ended
  <2> QED BY <2>1, <2>2, <2>3, <2>4 DEF Stage
<1>3. Ended(r, o, phase', head_lost', delivered')
  BY <1>1, <1>2 DEF Ended
<1> QED BY <1>3 DEF Stage

(* writev was not called, or took nothing. *)
LEMMA BlockedStep ==
  ASSUME NEW CONSTANT r \in Requests, NEW CONSTANT o \in Seq(Units),
         Stage(r, o, incoming, phase, m, head_lost, delivered), writev_would_block
  PROVE  Stage(r, o, incoming', phase', m', head_lost', delivered')
<1>1. /\ phase = "write" /\ phase' = "OUT" /\ incoming' = incoming /\ m' = m
      /\ head_lost' = head_lost /\ delivered' = delivered
  BY DEF writev_would_block, blocked
<1>2. Sending(r, o, incoming, phase, m, head_lost, delivered)
  BY <1>1 DEF Stage, Awaited, Reading, Past, Over, Ended
<1>3. Answering(r, incoming', phase', m')
  BY <1>1, <1>2 DEF Sending, Answering
<1> QED BY <1>1, <1>2, <1>3 DEF Stage, Sending

(* The end of an answer, and of what was none: the members are new. *)
LEMMA Renewed ==
  ASSUME NEW r \in Requests, NEW a, NEW rest, Rest(r, a), Placed(<<>>, rest, written(r), a),
         Readable(r) => a = Len(written(r)), NEW c, NEW d, d = cleared(c)
  PROVE  \E b, v : Over(r, a, b, v, rest, "IN", d)
<1> DEFINE v == c.m_iv
           none == <<>>
<1>1. d = fresh(<<>>, v, 0)
  BY Cleared
<1> HIDE DEF v
<1>2. Over(r, a, none, v, rest, "IN", d)
  BY <1>1, Resumes
<1> HIDE DEF none
<1> QED BY <1>2

(* The end of a request that was answered is a rest of it. *)
LEMMA AtEnd ==
  ASSUME NEW r \in Requests, served(r)
  PROVE  Rest(r, Len(written(r))) /\ Placed(<<>>, <<>>, written(r), Len(written(r)))
<1> DEFINE w == written(r)
           n == Len(w)
           none == <<>>
<1>1. Readable(r)
  BY ServedReadable
<1>2. n \in Nat /\ headers_at(r) <= n /\ r.eol = <<"CR", "LF">>
  <2>1. n = head_end(r) + r.body /\ r.body \in Nat /\ head_end(r) \in Nat /\ headers_at(r) \in Nat
        /\ headers_at(r) <= head_end(r) /\ r.eol = <<"CR", "LF">>
    BY <1>1, LengthWritten
  <2> HIDE DEF n
  <2> QED BY <2>1
<1>3. Rest(r, n)
  BY <1>2 DEF Rest
<1>4. Placed(none, none, w, n)
  <2>1. none \in Seq(Tokens) /\ Len(none) = 0
    OBVIOUS
  <2> HIDE DEF none
  <2>2. n + Len(none) <= n /\ n + Len(none) + Len(none) = n
    BY <1>2, <2>1
  <2>3. (\A i \in 1 .. Len(none) : none[i] = w[n + i]) /\ \A i \in 1 .. Len(none) : none[i] = w[n + Len(none) + i]
    BY <2>1
  <2> HIDE DEF w
  <2>4. n = Len(w)
    OBVIOUS
  <2> HIDE DEF n
  <2> QED BY <1>2, <2>1, <2>2, <2>3, <2>4 DEF Placed, Within
<1> QED BY <1>3, <1>4

(* write() before its loop. *)
LEMMA WriteStep ==
  ASSUME NEW CONSTANT r \in Requests, NEW CONSTANT o \in Seq(Units),
         Stage(r, o, incoming, phase, m, head_lost, delivered), write
  PROVE  Stage(r, o, incoming', phase', m', head_lost', delivered')
<1>1. /\ phase = "OUT" /\ incoming' = incoming /\ head_lost' = head_lost /\ delivered' = delivered
  BY DEF write
<1>2. \/ m.bytes_to_send = 0 /\ m' = cleared(m) /\ phase' = "IN"
      \/ m.bytes_to_send # 0 /\ m' = m /\ phase' = "write"
  BY DEF write
<1>3. CASE Sending(r, o, incoming, phase, m, head_lost, delivered)
  <2>1. CASE m.bytes_to_send # 0 /\ m' = m /\ phase' = "write"
    <3>1. Answering(r, incoming', phase', m')
      BY <1>1, <1>3, <2>1 DEF Sending, Answering
    <3>2. Sending(r, o, incoming', phase', m', head_lost', delivered')
      BY <1>1, <1>3, <2>1, <3>1 DEF Sending
    <3> QED BY <3>2 DEF Stage
  <2>2. CASE m.bytes_to_send = 0 /\ m' = cleared(m) /\ phase' = "IN"
    <3>1. served(r) /\ incoming = <<>>
      BY <1>3 DEF Sending, Answering
    <3>2. head_lost
      <4> SUFFICES ASSUME ~head_lost PROVE FALSE
        OBVIOUS
      <4>1. PICK have \in Nat : have < 5 + size_of(r) /\ m.bytes_to_send = 5 + size_of(r) - have
        BY <1>3 DEF Sending, Accounts
      <4>2. size_of(r) \in Nat
        BY <3>1, ReplyUnits
      <4> QED BY <2>2, <4>1, <4>2
    <3>3. PICK c, d, n, rest : c = m /\ d = cleared(c) /\ n = Len(written(r)) /\ rest = <<>>
      OBVIOUS
    <3>4. \E b, v : Over(r, n, b, v, rest, "IN", d)
      <4>1. Rest(r, n) /\ Placed(<<>>, rest, written(r), n) /\ (Readable(r) => n = Len(written(r)))
        BY <3>1, <3>3, AtEnd
      <4> QED BY <3>3, <4>1, Renewed
    <3>5. \E a, b, v : Over(r, a, b, v, incoming', phase', m')
      BY <1>1, <2>2, <3>1, <3>3, <3>4
    <3> QED BY <1>1, <3>2, <3>5 DEF Stage, Past
  <2> QED BY <1>2, <2>1, <2>2
<1>4. CASE Past(r, o, incoming, phase, m, head_lost, delivered)
  <2>1. PICK a, b, v : Over(r, a, b, v, incoming, "OUT", m)
    BY <1>1, <1>4 DEF Past
  <2>2. b = <<>> /\ m.bytes_to_send = 0
    BY <2>1 DEF Over
  <2>3. m' = cleared(m) /\ phase' = "IN"
    BY <1>2, <2>2
  <2>4. PICK c, d, rest : c = m /\ d = cleared(c) /\ rest = incoming
    OBVIOUS
  <2>5. \E x, y : Over(r, a, x, y, rest, "IN", d)
    <3>1. Rest(r, a) /\ Placed(<<>>, rest, written(r), a) /\ (Readable(r) => a = Len(written(r)))
      BY <2>1, <2>2, <2>4 DEF Over
    <3> QED BY <2>4, <3>1, Renewed
  <2>6. \E x, y, z : Over(r, x, y, z, incoming', phase', m')
    BY <1>1, <2>3, <2>4, <2>5
  <2> QED BY <1>1, <1>4, <2>6 DEF Stage, Past
<1>5. ~Awaited(r, o, incoming, phase, m, delivered) /\ ~Ended(r, o, phase, head_lost, delivered)
  BY <1>1 DEF Awaited, Reading, Ended
<1> QED BY <1>3, <1>4, <1>5 DEF Stage

(* A request that begins to be sent. *)
LEMMA StartStage ==
  ASSUME NEW r \in Requests, NEW o \in Seq(Units), NEW v, NEW c, c = fresh(<<>>, v, 0), NEW lost
  PROVE  Stage(r, o, written(r), "IN", c, lost, o)
<1> DEFINE none == <<>>
           z == 0
           w == written(r)
           ph == "IN"
<1>1. Reading(r, none, v, w, ph, c) \/ Over(r, z, none, v, w, ph, c)
  BY Starts
<1>2. CASE Reading(r, none, v, w, ph, c)
  <2>1. \E b, y : Reading(r, b, y, w, ph, c)
    <3> HIDE DEF none, w, ph
    <3> QED BY <1>2
  <2>2. Awaited(r, o, w, ph, c, o)
    BY <2>1 DEF Awaited
  <2> QED BY <2>2 DEF Stage
<1>3. CASE Over(r, z, none, v, w, ph, c)
  <2>1. ~served(r)
    <3> SUFFICES ASSUME served(r) PROVE FALSE
      OBVIOUS
    <3>1. w = <<>>
      <4> HIDE DEF z, none, w, ph
      <4> QED BY <1>3, OverServed
    <3>2. Len(written(r)) = head_end(r) + r.body /\ r.body \in Nat
      BY ServedReadable, LengthWritten
    <3>3. head_end(r) = headers_at(r) + 5 * Len(r.headers) + 2 /\ headers_at(r) \in Nat /\ Len(r.headers) \in Nat
      BY SoundRequest, Positions
    <3>4. Len(written(r)) = 0
      BY <3>1
    <3> HIDE DEF w
    <3> QED BY <3>2, <3>3, <3>4
  <2>2. \E a, b, y : Over(r, a, b, y, w, ph, c)
    <3> HIDE DEF none, w, z, ph
    <3> QED BY <1>3
  <2>3. o = owed_with(o, r)
    BY <2>1, OwedNothing
  <2>4. Past(r, o, w, ph, c, lost, o)
    BY <2>2, <2>3 DEF Past
  <2> QED BY <2>4 DEF Stage
<1> QED BY <1>1, <1>2, <1>3

(* One call of writev that took n units. *)
LEMMA Taken ==
  ASSUME NEW r \in Requests, served(r), NEW o \in Seq(Units), NEW c, Shaped(c),
         NEW have \in Nat, Accounts(r, c, have), have < 5 + size_of(r), NEW n \in 1 .. Len(offered(c)),
         ~drops_head(after_writev(c, n)), NEW k, k = have + n
  PROVE  /\ k <= 5 + size_of(r) /\ k \in Nat
         /\ Accounts(r, after_writev(c, n), k)
         /\ joined(part(o, reply(r), have), SubSeq(offered(c), 1, n)) = part(o, reply(r), k)
<1> DEFINE x == reply(r)
           y == offered(c)
           U == Units
<1>1. x \in Seq(U) /\ Len(x) = 5 + size_of(r) /\ size_of(r) \in Nat /\ o \in Seq(U)
  BY ReplyUnits DEF IsJoined
<1>2. y \in Seq(U) /\ Len(y) = 5 + size_of(r) - have /\ \A i \in 1 .. Len(y) : y[i] = x[have + i]
  BY <1>1, Offered
<1>3. n \in Nat /\ n >= 1 /\ n <= Len(y)
  BY <1>1, <1>2
<1>4. Continues(y, x, have)
  BY <1>1, <1>2 DEF Continues
<1> HIDE DEF x, y, U
<1>5. have + n <= 5 + size_of(r) /\ k \in Nat
  BY <1>1, <1>2, <1>3
<1>6. joined(part(o, x, have), SubSeq(y, 1, n)) = part(o, x, k)
  BY <1>1, <1>2, <1>3, <1>4, PartNext
<1>7. Accounts(r, after_writev(c, n), have + n)
  BY <1>3, <1>5, AccountsNext
<1> QED BY <1>5, <1>6, <1>7 DEF x, y

(* A call of writev: there is more to send, or the members are new, or the connection is closed. *)
LEMMA WritevStep ==
  ASSUME NEW CONSTANT r \in Requests, NEW CONSTANT o \in Seq(Units),
         Stage(r, o, incoming, phase, m, head_lost, delivered), writev
  PROVE  Stage(r, o, incoming', phase', m', head_lost', delivered')
<1>1. phase = "write" /\ incoming' = incoming
  BY DEF writev
<1>2. PICK n \in 1 .. Len(offered(m)) :
        /\ delivered' = delivered \o SubSeq(offered(m), 1, n)
        /\ head_lost' = (head_lost \/ drops_head(after_writev(m, n)))
        /\ LET c == after_writev(m, n) IN
           /\ m' = IF c.bytes_to_send <= 0 /\ c.m_linger THEN cleared(c) ELSE c
           /\ phase' = IF c.bytes_to_send > 0 THEN "write" ELSE IF c.m_linger THEN "IN" ELSE "closed"
  BY DEF writev
<1>3. Sending(r, o, incoming, phase, m, head_lost, delivered)
  BY <1>1 DEF Stage, Awaited, Reading, Past, Over, Ended
<1>4. /\ served(r) /\ incoming = <<>> /\ Shaped(m) /\ m.bytes_have_send \in Nat /\ m.bytes_to_send \in Int
      /\ n \in Nat /\ 1 <= n
  BY <1>3 DEF Sending, Answering
<1>5. PICK c : c = after_writev(m, n)
  OBVIOUS
<1>6. /\ Shaped(c) /\ c.bytes_to_send = m.bytes_to_send - n /\ c.bytes_have_send = m.bytes_have_send + n
      /\ c.m_linger = m.m_linger
  <2> DEFINE e == after_writev(m, n)
  <2>1. /\ Shaped(e) /\ e.bytes_to_send = m.bytes_to_send - n /\ e.bytes_have_send = m.bytes_have_send + n
        /\ e.m_linger = m.m_linger
    BY <1>4, AfterWritev
  <2> QED BY <1>5, <2>1
<1>7. c.bytes_to_send \in Int /\ c.bytes_have_send \in Nat /\ c.bytes_have_send # 0
  BY <1>4, <1>6
<1>11. ~head_lost' => ~head_lost /\ ~drops_head(c)
  BY <1>2, <1>5
<1>8. ASSUME ~head_lost'
      PROVE  \E have \in Nat : /\ have <= 5 + size_of(r) /\ Accounts(r, c, have)
                               /\ delivered' = part(o, reply(r), have)
  <2>1. PICK have \in Nat : /\ Accounts(r, m, have) /\ have < 5 + size_of(r)
                            /\ delivered = part(o, reply(r), have)
    BY <1>3, <1>8, <1>11 DEF Sending
  <2>2. PICK e, k : e = m /\ k = have + n
    OBVIOUS
  <2>3. Shaped(e) /\ Accounts(r, e, have) /\ n \in 1 .. Len(offered(e)) /\ ~drops_head(after_writev(e, n))
    BY <1>2, <1>4, <1>5, <1>8, <1>11, <2>1, <2>2
  <2>4. /\ k <= 5 + size_of(r) /\ k \in Nat
        /\ Accounts(r, after_writev(e, n), k)
        /\ joined(part(o, reply(r), have), SubSeq(offered(e), 1, n)) = part(o, reply(r), k)
    BY <1>4, <2>1, <2>2, <2>3, Taken, SMTT(30)
  <2>5. delivered' = joined(delivered, SubSeq(offered(m), 1, n))
    BY <1>2 DEF joined
  <2>6. delivered' = part(o, reply(r), k)
    BY <2>1, <2>2, <2>4, <2>5
  <2>7. Accounts(r, c, k)
    BY <1>5, <2>2, <2>4
  <2> QED BY <2>4, <2>6, <2>7
<1>9. CASE c.bytes_to_send > 0
  <2>1. m' = c /\ phase' = "write"
    BY <1>2, <1>5, <1>7, <1>9
  <2>2. Answering(r, incoming', phase', m')
    BY <1>1, <1>4, <1>6, <1>7, <2>1 DEF Answering
  <2>3. ASSUME ~head_lost'
        PROVE  \E have \in Nat : /\ Accounts(r, m', have) /\ have < 5 + size_of(r)
                                 /\ delivered' = part(o, reply(r), have)
    <3>1. PICK have \in Nat : /\ have <= 5 + size_of(r) /\ Accounts(r, c, have)
                              /\ delivered' = part(o, reply(r), have)
      BY <1>8, <2>3
    <3>2. size_of(r) \in Nat
      BY <1>4, ReplyUnits
    <3>3. c.bytes_to_send = 5 + size_of(r) - have
      BY <3>1 DEF Accounts
    <3>4. have < 5 + size_of(r)
      BY <1>9, <3>2, <3>3
    <3> QED BY <2>1, <3>1, <3>4
  <2> QED BY <1>7, <2>1, <2>2, <2>3 DEF Stage, Sending
<1>10. CASE ~(c.bytes_to_send > 0)
  <2>1. c.bytes_to_send <= 0
    BY <1>7, <1>10
  <2>2. ASSUME ~head_lost' PROVE delivered' = owed_with(o, r) /\ c.m_linger = keeping(r)
    <3>1. PICK have \in Nat : /\ have <= 5 + size_of(r) /\ Accounts(r, c, have)
                              /\ delivered' = part(o, reply(r), have)
      BY <1>8, <2>2
    <3>2. size_of(r) \in Nat /\ reply(r) \in Seq(Units) /\ Len(reply(r)) = 5 + size_of(r)
      BY <1>4, ReplyUnits DEF IsJoined
    <3>3. c.bytes_to_send = 5 + size_of(r) - have /\ c.m_linger = keeping(r)
      BY <3>1 DEF Accounts
    <3>4. have = 5 + size_of(r)
      BY <2>1, <3>1, <3>2, <3>3
    <3> DEFINE x == reply(r)
               U == Units
    <3>5. x \in Seq(U) /\ o \in Seq(U) /\ have = Len(x) /\ owed_with(o, r) = joined(o, x)
      BY <1>4, <3>2, <3>4 DEF owed_with, due
    <3> HIDE DEF x, U
    <3>6. part(o, x, have) = joined(o, x)
      BY <3>5, PartAll
    <3> QED BY <3>1, <3>3, <3>5, <3>6 DEF x
  <2>3. CASE c.m_linger
    <3>1. m' = cleared(c) /\ phase' = "IN"
      BY <1>2, <1>5, <1>10, <2>1, <2>3
    <3>2. PICK d, n2, rest : d = cleared(c) /\ n2 = Len(written(r)) /\ rest = <<>>
      OBVIOUS
    <3>3. \E b, v : Over(r, n2, b, v, rest, "IN", d)
      <4>1. Rest(r, n2) /\ Placed(<<>>, rest, written(r), n2) /\ (Readable(r) => n2 = Len(written(r)))
        BY <1>4, <3>2, AtEnd
      <4> QED BY <3>2, <4>1, Renewed
    <3>4. \E a, b, v : Over(r, a, b, v, incoming', phase', m')
      BY <1>1, <1>4, <3>1, <3>2, <3>3
    <3> QED BY <2>2, <3>4 DEF Stage, Past
  <2>4. CASE ~c.m_linger
    <3>1. phase' = "closed"
      BY <1>2, <1>5, <1>10, <2>4
    <3>2. ~head_lost' => IsPrefix(delivered', owed_with(o, r)) /\ Reason(r, o, delivered')
      BY <1>4, <2>2, <2>4, OwedPrefixes DEF Reason
    <3> QED BY <3>1, <3>2 DEF Stage, Ended
  <2> QED BY <2>3, <2>4
<1> QED BY <1>9, <1>10
-----------------------------------------------------------------------------
(* Where the connection stands with the request that the client sent last. *)
ConnInv ==
  /\ \E l \in Nat : sent \in [1 .. l -> Requests] /\ asked \in 1 .. l
  /\ Stage(sent[asked], owed_to(sent, asked - 1), incoming, phase, m, head_lost, delivered)

(* It is so at the start ... *)
LEMMA ConnInit ==
  Init => ConnInv
<1> SUFFICES ASSUME Init PROVE ConnInv
  OBVIOUS
<1>1. PICK l \in 1 .. MaxRequests : sent \in [1 .. l -> Requests]
  BY DEF Init
<1>2. l \in Nat /\ 1 \in 1 .. l /\ asked = 1
  BY <1>1, BoundsAssumption DEF Init
<1>3. sent[1] \in Requests
  BY <1>1, <1>2
<1>4. PICK r, v, c, o : r = sent[1] /\ v = NewMembers.m_iv /\ c = fresh(<<>>, v, 0) /\ o = <<>>
  OBVIOUS
<1>5. m = c
  BY <1>4, NewFresh DEF Init
<1>6. owed_to(sent, asked - 1) = o
  <2>1. asked - 1 = 0
    BY <1>2
  <2>2. dues(sent, 0) = <<>>
    BY DEF dues
  <2>3. FlattenSeq(<<>>) = <<>>
    BY DEF FlattenSeq
  <2> QED BY <1>4, <2>1, <2>2, <2>3 DEF owed_to
<1>7. Stage(r, o, written(r), "IN", c, FALSE, o)
  <2>1. r \in Requests /\ o \in Seq(Units)
    BY <1>3, <1>4
  <2> QED BY <1>4, <2>1, StartStage
<1>8. incoming = written(r) /\ phase = "IN" /\ head_lost = FALSE /\ delivered = o /\ sent[asked] = r
  BY <1>2, <1>4 DEF Init
<1>9. Stage(sent[asked], owed_to(sent, asked - 1), incoming, phase, m, head_lost, delivered)
  BY <1>5, <1>6, <1>7, <1>8
<1> QED BY <1>1, <1>2, <1>9 DEF ConnInv

(* The next request, when the answer to the last is there. *)
LEMMA SendsStep ==
  ASSUME ConnInv, client_sends
  PROVE  ConnInv'
<1>1. PICK l \in Nat : sent \in [1 .. l -> Requests] /\ asked \in 1 .. l
  BY DEF ConnInv
<1>2. /\ answered /\ incoming = <<>> /\ asked < Len(sent) /\ phase = "IN" /\ asked' = asked + 1
      /\ incoming' = written(sent[asked + 1]) /\ head_lost' = head_lost
      /\ sent' = sent /\ phase' = phase /\ m' = m /\ delivered' = delivered
  BY DEF client_sends
<1>3. asked + 1 \in 1 .. l /\ asked \in Nat
  <2>1. Len(sent) = l
    BY <1>1
  <2> QED BY <1>1, <1>2, <2>1
<1>4. PICK n, r, r2, o, d, o2 : /\ n = asked /\ r = sent[n] /\ r2 = sent[n + 1] /\ o = owed_to(sent, n - 1)
                                /\ d = due(r) /\ o2 = owed_to(sent, n)
  OBVIOUS
<1>5. n \in 1 .. l /\ r2 \in Requests
  BY <1>1, <1>3, <1>4
<1>6. /\ o \in Seq(Units) /\ d \in Seq(Units) /\ r \in Requests /\ owed(n) = joined(o, d) /\ owed(n) = o2
  <2>1. n \in 1 .. l /\ r = sent[n] /\ o = owed_to(sent, n - 1) /\ d = due(r) /\ o2 = owed_to(sent, n)
    BY <1>4, <1>5
  <2> QED BY <1>1, <2>1, OwedBefore
<1>7. served(r) /\ delivered = joined(o, d) /\ delivered = o2
  BY <1>2, <1>4, <1>6 DEF answered
<1>8. o2 \in Seq(Units)
  <2> DEFINE U == Units
  <2>1. o \in Seq(U) /\ d \in Seq(U) /\ o2 = joined(o, d)
    BY <1>6
  <2> HIDE DEF U
  <2>2. IsJoined(U, o2, o, d)
    BY <2>1, JoinedText
  <2> QED BY <2>2 DEF IsJoined, U
<1>9. Stage(r, o, incoming, phase, m, head_lost, delivered)
  BY <1>4 DEF ConnInv
<1>10. ~Awaited(r, o, incoming, phase, m, delivered)
  <2> SUFFICES ASSUME delivered = o PROVE FALSE
    BY DEF Awaited
  <2> DEFINE U == Units
  <2>1. o \in Seq(U) /\ d \in Seq(U) /\ o = joined(o, d)
    BY <1>6, <1>7
  <2>2. Len(d) = 5 + size_of(r) /\ size_of(r) \in Nat
    BY <1>4, <1>6, <1>7, ReplyUnits DEF due
  <2> HIDE DEF U
  <2>3. Len(joined(o, d)) = Len(o) + Len(d)
    BY <2>1, Joined
  <2>4. Len(o) \in Nat
    BY <2>1
  <2> QED BY <2>1, <2>2, <2>3, <2>4
<1>11. Past(r, o, incoming, phase, m, head_lost, delivered)
  BY <1>2, <1>9, <1>10 DEF Stage, Sending, Answering, Ended
<1>12. PICK a, b, v : Over(r, a, b, v, incoming, "IN", m)
  BY <1>2, <1>11 DEF Past
<1>13. b = <<>>
  <2>1. PICK rest, ph, c : rest = incoming /\ ph = "IN" /\ c = m
    OBVIOUS
  <2>2. Over(r, a, b, v, rest, ph, c)
    BY <1>12, <2>1
  <2> QED BY <1>6, <1>7, <2>2, OverServed
<1>14. PICK q \in Nat : m = fresh(b, v, q) /\ q <= Len(b)
  BY <1>12 DEF Over
<1>15. q = 0
  BY <1>13, <1>14
<1>16. PICK c : c = fresh(<<>>, v, 0)
  OBVIOUS
<1>17. m = c
  BY <1>13, <1>14, <1>15, <1>16
<1>18. Stage(r2, o2, written(r2), "IN", c, head_lost, o2)
  BY <1>5, <1>8, <1>16, StartStage
<1>19. /\ sent'[asked'] = r2 /\ owed_to(sent', asked' - 1) = o2 /\ incoming' = written(r2) /\ phase' = "IN" /\ m' = c
       /\ head_lost' = head_lost /\ delivered' = o2
  <2>1. asked' = n + 1 /\ asked' - 1 = n /\ sent' = sent
    BY <1>2, <1>3, <1>4
  <2>2. sent'[asked'] = r2
    BY <1>4, <2>1
  <2>3. owed_to(sent', asked' - 1) = o2
    <3>1. PICK k, s : k = asked' - 1 /\ s = sent'
      OBVIOUS
    <3>2. k = n /\ s = sent
      BY <2>1, <3>1
    <3>3. owed_to(s, k) = o2
      BY <1>4, <3>2
    <3> QED BY <3>1, <3>3
  <2>4. incoming' = written(r2)
    BY <1>2, <1>4
  <2> QED BY <1>2, <1>7, <1>17, <2>2, <2>3, <2>4
<1>20. Stage(sent'[asked'], owed_to(sent', asked' - 1), incoming', phase', m', head_lost', delivered')
  BY <1>18, <1>19
<1> QED BY <1>1, <1>2, <1>3, <1>20 DEF ConnInv

(* ... and every step keeps it: one lemma for each. *)
LEMMA ConnStep ==
  ConnInv /\ [Next]_vars => ConnInv'
<1> SUFFICES ASSUME ConnInv, [Next]_vars PROVE ConnInv'
  OBVIOUS
<1>1. PICK l \in Nat : sent \in [1 .. l -> Requests] /\ asked \in 1 .. l
  BY DEF ConnInv
<1>2. PICK n, r, o, d : n = asked /\ r = sent[n] /\ o = owed_to(sent, n - 1) /\ d = due(r)
  OBVIOUS
<1>3. r \in Requests /\ o \in Seq(Units)
  <2>1. n \in 1 .. l
    BY <1>1, <1>2
  <2> QED BY <1>1, <1>2, <2>1, OwedBefore
<1>4. Stage(r, o, incoming, phase, m, head_lost, delivered)
  BY <1>2 DEF ConnInv
<1>5. ASSUME sent' = sent, asked' = asked, Stage(r, o, incoming', phase', m', head_lost', delivered')
      PROVE  ConnInv'
  BY <1>1, <1>2, <1>5 DEF ConnInv
<1>6. CASE read
  BY <1>3, <1>4, <1>5, <1>6, ReadStep DEF read
<1>7. CASE process
  BY <1>3, <1>4, <1>5, <1>7, ProcessStep DEF process
<1>8. CASE write
  BY <1>3, <1>4, <1>5, <1>8, WriteStep DEF write
<1>9. CASE writev
  BY <1>3, <1>4, <1>5, <1>9, WritevStep DEF writev
<1>10. CASE writev_would_block
  BY <1>3, <1>4, <1>5, <1>10, BlockedStep DEF writev_would_block
<1>11. CASE conn_close
  BY <1>3, <1>4, <1>5, <1>11, CloseStep DEF conn_close
<1>12. CASE client_sends
  BY <1>12, SendsStep
<1>13. CASE UNCHANGED vars
  <2>1. /\ sent' = sent /\ asked' = asked /\ incoming' = incoming /\ phase' = phase /\ m' = m
        /\ head_lost' = head_lost /\ delivered' = delivered
    BY <1>13 DEF vars
  <2> QED BY <1>4, <1>5, <2>1
<1> QED BY <1>6, <1>7, <1>8, <1>9, <1>10, <1>11, <1>12, <1>13 DEF Next

(* The connection is in one of the stages of the last request, whatever the client
   sends, wherever it is cut, and however much each call of writev takes
   (http_conn.cpp:162-214, 334-426, 486-537). *)
THEOREM ConnInvariant ==
  Spec => []ConnInv
BY ConnInit, ConnStep, PTL DEF Spec

(* The stage, and what is owed. *)
LEMMA Standing ==
  ASSUME ConnInv
  PROVE  \E r \in Requests : \E o \in Seq(Units) :
           /\ r = sent[asked] /\ owed(asked) = owed_with(o, r)
           /\ Stage(r, o, incoming, phase, m, head_lost, delivered)
<1>1. PICK l \in Nat : sent \in [1 .. l -> Requests] /\ asked \in 1 .. l
  BY DEF ConnInv
<1>2. PICK n, r, o, d : n = asked /\ r = sent[n] /\ o = owed_to(sent, n - 1) /\ d = due(r)
  OBVIOUS
<1>3. r \in Requests /\ o \in Seq(Units) /\ owed(n) = joined(o, d)
  <2>1. n \in 1 .. l
    BY <1>1, <1>2
  <2> QED BY <1>1, <1>2, <2>1, OwedBefore
<1>4. owed(asked) = owed_with(o, r)
  BY <1>2, <1>3 DEF owed_with
<1>5. Stage(r, o, incoming, phase, m, head_lost, delivered)
  BY <1>2 DEF ConnInv
<1> QED BY <1>2, <1>3, <1>4, <1>5

(* The members the property compares with. *)
LEMMA Unparsed ==
  processed(unparsed).c = reparsed(m)
BY DEF reparsed, unread, unparsed

(* The pieces in which a request arrived make no difference: what process() leaves
   is what it would have left of the buffer as a whole, for any number of requests,
   any sizes and any cuts (http_conn.cpp:162-214, 541-561). *)
THEOREM PiecesMakeNoDifference ==
  Spec => []ParsedAsWhole
<1>1. ConnInv => ParsedAsWhole
  <2> SUFFICES ASSUME ConnInv PROVE ParsedAsWhole
    OBVIOUS
  <2>1. PICK r \in Requests, o \in Seq(Units) : Stage(r, o, incoming, phase, m, head_lost, delivered)
    BY Standing
  <2>2. CASE Awaited(r, o, incoming, phase, m, delivered)
    <3>1. PICK b, v : Reading(r, b, v, incoming, phase, m)
      BY <2>2 DEF Awaited
    <3>2. phase # "OUT"
      BY <3>1 DEF Reading
    <3>3. ASSUME phase = "IN", m.m_check_stat # "CONTENT" PROVE m = reparsed(m)
      <4>1. Reading(r, b, v, incoming, "IN", m)
        BY <3>1, <3>3
      <4> QED BY <3>3, <4>1, ReadingSettled
    <3> QED BY <3>2, <3>3, Unparsed DEF ParsedAsWhole
  <2>3. CASE Sending(r, o, incoming, phase, m, head_lost, delivered)
    <3>1. phase \in {"OUT", "write"} /\ m.bytes_have_send \in Nat /\ (m.bytes_have_send = 0 => m = reparsed(m))
      BY <2>3 DEF Sending, Answering
    <3>2. m.bytes_have_send > 0 \/ m = reparsed(m)
      BY <3>1
    <3> QED BY <3>1, <3>2, Unparsed DEF ParsedAsWhole
  <2>4. CASE Past(r, o, incoming, phase, m, head_lost, delivered)
    <3>1. PICK a, b, v : Over(r, a, b, v, incoming, phase, m)
      BY <2>4 DEF Past
    <3>2. phase = "OUT" => m = reparsed(m)
      BY <3>1 DEF Over
    <3>3. ASSUME phase = "IN" PROVE m = reparsed(m)
      <4>1. Over(r, a, b, v, incoming, "IN", m)
        BY <3>1, <3>3
      <4> QED BY <4>1, OverSettled
    <3> QED BY <3>2, <3>3, Unparsed DEF ParsedAsWhole
  <2>5. CASE Ended(r, o, phase, head_lost, delivered)
    BY <2>5 DEF Ended, ParsedAsWhole
  <2> QED BY <2>1, <2>2, <2>3, <2>4, <2>5 DEF Stage
<1> QED BY <1>1, ConnInvariant, PTL

(* The client has received a beginning of the answers it is owed, whatever each
   call of writev takes, until line 405 drops a part of a head
   (http_conn.cpp:388-426, 486-537). *)
THEOREM AnswersReceived ==
  Spec => []AnswersInOrder
<1>1. ConnInv => AnswersInOrder
  <2> SUFFICES ASSUME ConnInv, ~head_lost PROVE IsPrefix(delivered, owed(asked))
    BY DEF AnswersInOrder
  <2>1. PICK r \in Requests, o \in Seq(Units) : /\ owed(asked) = owed_with(o, r)
                                                 /\ Stage(r, o, incoming, phase, m, head_lost, delivered)
    BY Standing
  <2>2. CASE Awaited(r, o, incoming, phase, m, delivered)
    BY <2>1, <2>2, OwedPrefixes DEF Awaited
  <2>3. CASE Sending(r, o, incoming, phase, m, head_lost, delivered)
    <3>1. PICK have \in Nat : have < 5 + size_of(r) /\ delivered = part(o, reply(r), have)
      BY <2>3 DEF Sending
    <3>2. served(r)
      BY <2>3 DEF Sending, Answering
    <3>3. size_of(r) \in Nat
      BY <3>2, ReplyUnits
    <3>4. have <= 5 + size_of(r)
      BY <3>1, <3>3
    <3>5. IsPrefix(part(o, reply(r), have), owed_with(o, r))
      BY <3>2, <3>4, SentPrefix
    <3> QED BY <2>1, <3>1, <3>5
  <2>4. CASE Past(r, o, incoming, phase, m, head_lost, delivered)
    BY <2>1, <2>4, OwedPrefixes DEF Past
  <2>5. CASE Ended(r, o, phase, head_lost, delivered)
    BY <2>1, <2>5 DEF Ended
  <2> QED BY <2>1, <2>2, <2>3, <2>4, <2>5 DEF Stage
<1> QED BY <1>1, ConnInvariant, PTL

(* So a connection is closed only after a whole last answer, or when a request
   fills the buffer (http_conn.cpp:162-190, 388-426). *)
THEOREM ClosesForAReason ==
  Spec => []ClosedForAReason
<1>1. ConnInv => ClosedForAReason
  <2> SUFFICES ASSUME ConnInv, phase = "closed", ~head_lost
               PROVE  \/ answered /\ ~has(sent[asked], "Connection:", "keep-alive")
                      \/ Len(written(sent[asked])) >= RD_BUF_SIZE
    BY DEF ClosedForAReason
  <2>1. PICK r \in Requests, o \in Seq(Units) : /\ r = sent[asked] /\ owed(asked) = owed_with(o, r)
                                                 /\ Stage(r, o, incoming, phase, m, head_lost, delivered)
    BY Standing
  <2>2. Ended(r, o, phase, head_lost, delivered)
    BY <2>1 DEF Stage, Awaited, Reading, Sending, Answering, Past, Over
  <2>3. Reason(r, o, delivered)
    BY <2>2 DEF Ended
  <2>4. CASE served(r) /\ delivered = owed_with(o, r) /\ ~keeping(r)
    <3>1. ~has(r, "Connection:", "keep-alive")
      BY <2>4, Keeping
    <3> QED BY <2>1, <2>4, <3>1 DEF answered
  <2> QED BY <2>1, <2>3, <2>4 DEF Reason
<1> QED BY <1>1, ConnInvariant, PTL

(* And a request that is served and was received whole is answered or on its way,
   but for a body in pieces (http_conn.cpp:263-296, 388-426, 486-537). *)
THEOREM NoneWaitsInVain ==
  Spec => []NobodyWaitsInVain
<1>1. ConnInv => NobodyWaitsInVain
  <2> SUFFICES ASSUME ConnInv, served(sent[asked]), incoming = <<>>, ~answered, ~head_lost
               PROVE  (phase = "IN" => m.m_check_stat = "CONTENT") /\ (phase = "OUT" => m.bytes_to_send > 0)
    BY DEF NobodyWaitsInVain
  <2>1. PICK r \in Requests, o \in Seq(Units) : /\ r = sent[asked] /\ owed(asked) = owed_with(o, r)
                                                 /\ Stage(r, o, incoming, phase, m, head_lost, delivered)
    BY Standing
  <2>2. delivered # owed_with(o, r) /\ served(r)
    BY <2>1 DEF answered
  <2>3. CASE Awaited(r, o, incoming, phase, m, delivered)
    <3>1. PICK b, v : Reading(r, b, v, incoming, phase, m)
      BY <2>3 DEF Awaited
    <3>2. phase # "OUT"
      BY <3>1 DEF Reading
    <3>3. ASSUME phase = "IN" PROVE m.m_check_stat = "CONTENT"
      <4>1. Reading(r, b, v, <<>>, "IN", m)
        BY <3>1, <3>3
      <4> QED BY <4>1, ReadingWaits
    <3> QED BY <3>2, <3>3
  <2>4. CASE Sending(r, o, incoming, phase, m, head_lost, delivered)
    <3>1. phase # "IN"
      BY <2>4 DEF Sending, Answering
    <3>2. PICK have \in Nat : have < 5 + size_of(r) /\ m.bytes_to_send = 5 + size_of(r) - have
      BY <2>4 DEF Sending, Accounts
    <3>3. size_of(r) \in Nat
      BY <2>2, ReplyUnits
    <3>4. m.bytes_to_send > 0
      BY <3>2, <3>3
    <3> QED BY <3>1, <3>4
  <2>5. CASE Past(r, o, incoming, phase, m, head_lost, delivered)
    BY <2>2, <2>5 DEF Past
  <2>6. CASE Ended(r, o, phase, head_lost, delivered)
    BY <2>6 DEF Ended
  <2> QED BY <2>1, <2>3, <2>4, <2>5, <2>6 DEF Stage
<1> QED BY <1>1, ConnInvariant, PTL
=============================================================================
