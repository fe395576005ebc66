----------------------------- MODULE HttpParser -----------------------------
(***************************************************************************)
(* http_data's reading side: the state machine of handle_read, parseURI,   *)
(* parse_headers and analysis_request, fed by a client whose bytes arrive  *)
(* in pieces.                                                              *)
(*                                                                         *)
(* A character is a token: CR, LF, SP, COLON and one token for each word a *)
(* request is made of.  A word is never split, its neighbours are.  What   *)
(* the answer contains is left out; that there is one, and for which       *)
(* request, is kept.  Index 0 is the first character, as in the code.      *)
(***************************************************************************)
EXTENDS Integers, Sequences, SequencesExt

CONSTANTS
  Requests,    \* the requests a client may send
  Reads,       \* the ways the stream may be cut, some of Cuts
  stoi,        \* std::stoi, of the strings for which it does not throw
  MaxRequests  \* for each of Cuts, a bound on the requests of one connection

(* One request at a time, several whole ones, or anything. *)
Cuts == {"request", "burst", "pieces"}

(* What a client writes: words, none of them a separator, a body only with a
   POST. *)
Separators == {"CR", "LF", "SP", "COLON"}
Methods  == {"GET", "POST", "HEAD"}
Versions == {"HTTP/1.0", "HTTP/1.1", "HTTP/2"}
Targets  == {"/", "/hello", "/file", "/missing"}

ASSUME RequestsAssumption ==
  \A r \in Requests :
    /\ r.method \in Methods /\ r.target \in Targets /\ r.version \in Versions
    /\ r.headers \in Seq(STRING \X STRING)
    /\ \A i \in DOMAIN r.headers : r.headers[i][1] \notin Separators
    /\ r.body \in Nat /\ (r.method # "POST" => r.body = 0)
ASSUME ReadsAssumption == Reads \subseteq Cuts
ASSUME MaxRequestsAssumption == MaxRequests \in [Cuts -> Nat]

Garbage  == "?"  \* what lies before the start of a string

VARIABLES
  reads,     \* the way the stream is cut
  sent,      \* the requests of the client
  incoming,  \* characters not yet read from the socket
  inBuffer_,
  state_,    \* ProcessState
  hState_,   \* ParseState
  method_, fileName_,
  headers_,  \* a set of <<key, value>>, each a string of characters
  keepAlive_,
  error_,
  terminated, \* an exception that nothing catches has ended the process
  again,     \* handle_read is to be called again for the rest of inBuffer_
  header_cut, \* history: a call has ended inside a header, or a request line
  answers    \* history: the requests answered, as they were understood

vars == <<reads, sent, incoming, inBuffer_, state_, hState_, method_, fileName_,
          headers_, keepAlive_, error_, terminated, again, header_cut, answers>>

ProcessState == {"PARSE_URI", "PARSE_HEADERS", "RECV_BODY", "ANALYSIS", "FINISH"}
ParseState == {"START", "KEY", "COLON", "SPACES_AFTER_COLON", "VALUE", "CR", "LF",
               "END_CR", "END_LF"}

(* A request is a record of a method, a target, a version, its headers and
   the words of its body; this is how a client writes it. *)
header_line(h) == <<h[1], "COLON", "SP", h[2], "CR", "LF">>

written(r) ==
  <<r.method, "SP", r.target, "SP", r.version, "CR", "LF">> \o
  FlattenSeq([i \in DOMAIN r.headers |-> header_line(r.headers[i])]) \o
  <<"CR", "LF">> \o [i \in 1 .. r.body |-> "BODY"]

stream(rs) == FlattenSeq([i \in DOMAIN rs |-> written(rs[i])])

Init ==
  /\ reads \in Reads
  /\ sent \in UNION {[1 .. n -> Requests] : n \in 1 .. MaxRequests[reads]}
  /\ incoming = stream(sent)
  /\ inBuffer_ = <<>>
  /\ state_ = "PARSE_URI" /\ hState_ = "START"
  /\ method_ = "GET" /\ fileName_ = ""
  /\ headers_ = {}
  /\ keepAlive_ = FALSE /\ error_ = FALSE /\ terminated = FALSE
  /\ again = FALSE /\ header_cut = FALSE
  /\ answers = <<>>
-----------------------------------------------------------------------------
(* std::string *)

npos == -1

(* find: the index of the first of `chars` in s at or after `from`. *)
find(s, chars, from) ==
  LET hits == {i \in from .. Len(s) - 1 : s[i + 1] \in chars}
  IN  IF hits = {} THEN npos ELSE CHOOSE i \in hits : \A j \in hits : i <= j

(* The string from iterator begin() + a to begin() + b: with a = -1 it starts
   with whatever lies before the string. *)
range(s, a, b) ==
  IF a >= 0 THEN SubSeq(s, a + 1, b)
  ELSE IF b < 0 THEN <<>> ELSE <<Garbage>> \o SubSeq(s, 1, b)

substr(s, a) == SubSeq(s, a + 1, Len(s))
-----------------------------------------------------------------------------
(* parseURI.  The position of '\r' is a size_t, so only a '\r' in front of
   everything asks for more; npos makes the request line of all there is and
   takes nothing from the buffer. *)
(* Mutant: HTTP/1.0 is forgotten. *)
known_versions_no_10 == {"HTTP/1.1"}

known_versions == {"HTTP/1.0", "HTTP/1.1"}

Verdict(v, m, f, b) == [verdict |-> v, method |-> m, file |-> f, rest |-> b]

parseURI(s) ==
  LET pos   == find(s, {"CR"}, 0)
      line  == IF pos = npos THEN s ELSE SubSeq(s, 1, pos)
      rest  == IF pos = npos THEN s ELSE substr(s, pos + 1)
      named == {m \in Methods : find(line, {m}, 0) # npos}
      m     == IF "GET" \in named THEN "GET" ELSE IF "POST" \in named THEN "POST" ELSE "HEAD"
      slash == find(line, Targets \cup Versions, find(line, {m}, 0))
      space == find(line, {"SP"}, slash)
      proto == find(line, Targets \cup Versions, space)
  IN  IF pos = 0 THEN Verdict("AGAIN", method_, fileName_, s)
      ELSE IF named = {} THEN Verdict("ERROR", method_, fileName_, rest)
      ELSE IF slash = npos THEN Verdict("SUCCESS", m, "/", rest)
      ELSE IF space = npos \/ proto = npos \/ line[proto + 1] \notin known_versions
           THEN Verdict("ERROR", m, fileName_, rest)
           ELSE Verdict("SUCCESS", m, line[slash + 1], rest)
-----------------------------------------------------------------------------
(* parse_headers, one character at a time.  The marks are local variables:
   every call starts with them at -1, while hState_ is a member. *)

scan_char(r, s) ==
  LET c == s[r.i + 1]
      i == r.i
      next == [r EXCEPT !.i = i + 1]
      fail == [next EXCEPT !.halt = "error"]
  IN
  CASE r.h = "START" ->
         IF c \in {"LF", "CR"} THEN next
         ELSE [next EXCEPT !.h = "KEY", !.ks = i, !.line = i]
    [] r.h = "KEY" ->
         IF c = "COLON" THEN IF i - r.ks <= 0 THEN fail
                             ELSE [next EXCEPT !.h = "COLON", !.ke = i]
         ELSE IF c \in {"LF", "CR"} THEN fail ELSE next
    [] r.h = "COLON" ->
         IF c = "SP" THEN [next EXCEPT !.h = "SPACES_AFTER_COLON"] ELSE fail
    [] r.h = "SPACES_AFTER_COLON" -> [next EXCEPT !.h = "VALUE", !.vs = i]
    [] r.h = "VALUE" ->
         IF c = "CR" THEN IF i - r.vs <= 0 THEN fail
                          ELSE [next EXCEPT !.h = "CR", !.ve = i]
         ELSE IF i - r.vs > 255 THEN fail ELSE next
    [] r.h = "CR" ->
         IF c = "LF"
         THEN [next EXCEPT !.h = "LF", !.line = i,
                 !.found = {p \in @ : p[1] # range(s, r.ks, r.ke)} \cup
                           {<<range(s, r.ks, r.ke), range(s, r.vs, r.ve)>>}]
         ELSE fail
    [] r.h = "LF" ->
         IF c = "CR" THEN [next EXCEPT !.h = "END_CR"]
         ELSE [next EXCEPT !.h = "KEY", !.ks = i]
    [] r.h = "END_CR" -> IF c = "LF" THEN [next EXCEPT !.h = "END_LF"] ELSE fail
    [] r.h = "END_LF" -> [next EXCEPT !.halt = "end", !.ks = i, !.line = i]

(* The loop: one more character is looked at after the last LF, if there is
   one, and counted as read.  Here it is a whole word: the program loses the
   first letter of it, and does not recognise the rest either. *)
scan(s) ==
  LET start == [h |-> hState_, ks |-> -1, ke |-> -1, vs |-> -1, ve |-> -1, line |-> 0,
                found |-> headers_, i |-> 0, halt |-> "no"]
      upto[n \in 0 .. Len(s)] ==
        IF n = 0 THEN start
        ELSE LET r == upto[n - 1] IN IF r.halt # "no" THEN r ELSE scan_char(r, s)
  IN  upto[Len(s)]

(* Mutant: only a loop that was told to stop has seen the end. *)
headers_end_if_told(r) == r.halt = "end"

headers_end(r) == r.h = "END_LF"

(* What is kept for the next call when the headers are not complete. *)
parse_headers(s) ==
  LET r == scan(s)
      v == IF r.halt = "error" THEN "ERROR" ELSE IF headers_end(r) THEN "SUCCESS" ELSE "AGAIN"
  IN  [verdict |-> v, h |-> r.h, headers |-> r.found,
       rest |-> IF v = "ERROR" THEN s ELSE substr(s, IF v = "SUCCESS" THEN r.i ELSE r.line)]
-----------------------------------------------------------------------------
(* The stages of handle_read, each taking the members c and the next one
   running only if state_ says so and nothing failed. *)
uri_stage(c) ==
  LET u == parseURI(c.inBuffer_)
  IN  IF c.state_ # "PARSE_URI" \/ u.verdict = "AGAIN" THEN c
      ELSE [c EXCEPT !.method_ = u.method, !.fileName_ = u.file,
              !.inBuffer_ = IF u.verdict = "ERROR" THEN <<>> ELSE u.rest,
              !.error_ = u.verdict = "ERROR",
              !.state_ = IF u.verdict = "ERROR" THEN @ ELSE "PARSE_HEADERS"]

header_stage(c) ==
  LET p == parse_headers(c.inBuffer_)
  IN  IF c.state_ # "PARSE_HEADERS" \/ c.error_ THEN c
      ELSE [c EXCEPT !.inBuffer_ = p.rest, !.hState_ = p.h, !.headers_ = p.headers,
              !.error_ = p.verdict = "ERROR",
              !.state_ = IF p.verdict # "SUCCESS" THEN @
                         ELSE IF c.method_ = "POST" THEN "RECV_BODY" ELSE "ANALYSIS"]

values(headers, key) == {p[2] : p \in {q \in headers : q[1] = <<key>>}}

(* std::stoi throws for a string that is no number, or too large a one, and
   nobody catches it. *)
body_stage(c) ==
  LET lengths == values(c.headers_, "Content-length")
  IN  IF c.state_ # "RECV_BODY" \/ c.error_ THEN c
      ELSE IF lengths = {} THEN [c EXCEPT !.error_ = TRUE]
      ELSE IF ~(lengths \subseteq DOMAIN stoi) THEN [c EXCEPT !.terminated = TRUE]
      ELSE IF \A v \in lengths : Len(c.inBuffer_) < stoi[v] THEN c
      ELSE [c EXCEPT !.state_ = "ANALYSIS"]

(* analysis_request: POST has no handler and a missing file no answer. *)
analysis_stage(c) ==
  IF c.state_ # "ANALYSIS" \/ c.error_ THEN c
  ELSE IF c.method_ = "POST" THEN [c EXCEPT !.error_ = TRUE]
  ELSE LET kept == [c EXCEPT !.keepAlive_ = @ \/ <<"keep-alive">> \in values(c.headers_, "Connection")]
       IN  IF c.fileName_ = "/missing" THEN [kept EXCEPT !.error_ = TRUE]
           ELSE [kept EXCEPT !.state_ = "FINISH",
                   !.answers = Append(@, [method |-> c.method_, file |-> c.fileName_,
                                          headers |-> c.headers_])]

(* Mutant: the headers outlive their request. *)
reset_keeps_headers(c) == [c EXCEPT !.fileName_ = "", !.state_ = "PARSE_URI", !.hState_ = "START"]

reset(c) ==
  [c EXCEPT !.fileName_ = "", !.state_ = "PARSE_URI", !.hState_ = "START", !.headers_ = {}]

members == [inBuffer_ |-> inBuffer_, state_ |-> state_, hState_ |-> hState_,
            method_ |-> method_, fileName_ |-> fileName_, headers_ |-> headers_,
            keepAlive_ |-> keepAlive_, error_ |-> error_, terminated |-> terminated,
            answers |-> answers]

(* Numbers of characters one call of readn may find in the socket. *)
cuts ==
  LET left == Len(incoming)
      ends == {left - Len(stream(SubSeq(sent, k, Len(sent)))) : k \in 2 .. Len(sent) + 1}
      after == {e \in ends : e > 0}
  IN  CASE reads = "pieces" -> 1 .. left
        [] reads = "burst" -> after
        [] reads = "request" -> {e \in after : \A o \in after : e <= o}

(* parse_headers is to go on inside a header, whose marks it has lost. *)
InHeader(c) ==
  /\ c.state_ = "PARSE_HEADERS"
  /\ c.hState_ \in {"KEY", "COLON", "SPACES_AFTER_COLON", "VALUE", "CR", "LF"}

(* One call of handle_read: by the event loop when characters arrived, or by
   itself for what is left in inBuffer_ after an answer. *)
handle_read ==
  /\ ~error_ /\ ~terminated
  /\ \E n \in cuts \cup {m \in {0} : again} :
       \E parsed \in {header_stage(uri_stage([members EXCEPT !.inBuffer_ = @ \o SubSeq(incoming, 1, n)]))} :
       \E done \in {analysis_stage(body_stage(parsed))} :
       \E c \in {IF done.state_ = "FINISH" THEN reset(done) ELSE done} :
         /\ incoming' = SubSeq(incoming, n + 1, Len(incoming))
         /\ inBuffer_' = c.inBuffer_ /\ state_' = c.state_ /\ hState_' = c.hState_
         /\ method_' = c.method_ /\ fileName_' = c.fileName_ /\ headers_' = c.headers_
         /\ keepAlive_' = c.keepAlive_ /\ error_' = c.error_ /\ terminated' = c.terminated
         /\ answers' = c.answers /\ header_cut' = (header_cut \/ InHeader(c))
         /\ again' = (done.state_ = "FINISH" /\ c.inBuffer_ # <<>>)
  /\ UNCHANGED <<reads, sent>>

Next == handle_read

Spec == Init /\ [][Next]_vars
-----------------------------------------------------------------------------
TypeOK ==
  /\ state_ \in ProcessState /\ hState_ \in ParseState
  /\ method_ \in Methods /\ fileName_ \in Targets \cup {""}
  /\ {keepAlive_, error_, terminated, again, header_cut} \subseteq BOOLEAN
  /\ Len(answers) <= Len(sent)

(* What this program serves: GET and HEAD of an existing file, over HTTP/1.0
   or 1.1, with at least one header (the blank line of a request without any
   is skipped in H_START and such a request never ends). *)
served(r) ==
  /\ r.method \in {"GET", "HEAD"}
  /\ r.target # "/missing"
  /\ r.version \in {"HTTP/1.0", "HTTP/1.1"}
  /\ r.headers # <<>>

(* Of several headers with one name the last one counts. *)
effective(hs) == {i \in DOMAIN hs : \A j \in DOMAIN hs : j > i => hs[j][1] # hs[i][1]}

meaning(r) ==
  [method |-> r.method, file |-> r.target,
   headers |-> {<< <<r.headers[i][1]>>, <<r.headers[i][2]>> >> : i \in effective(r.headers)}]

(* handle_read, parseURI, parse_headers, reset: the k-th answer is for the
   k-th request, its method, file and headers understood as they were sent,
   with nothing of an earlier request left in them, wherever the stream was
   cut.  Unless a read ended inside a header or a request line: from then on
   nothing is promised (lines 345, 434). *)
AnswersMatch ==
  ~(reads = "pieces" /\ header_cut) =>
    \A k \in DOMAIN answers : k <= Len(sent) /\ answers[k] = meaning(sent[k])

(* README.md:38: a request the program serves is answered, also when others
   follow it in the stream: the connection is given up only at one it does not
   serve. *)
PipeliningWorks ==
  error_ => \E k \in 1 .. Len(answers) + 1 : k \in DOMAIN sent /\ ~served(sent[k])

(* The same for requests that are received one at a time. *)
WellFormedNeverRefused ==
  reads = "request" /\ (error_ \/ terminated) =>
    \E k \in 1 .. Len(answers) + 1 : k \in DOMAIN sent /\ ~served(sent[k])

(* PARSE_..._AGAIN: when everything was read, a request that is served and was
   received whole is not still waiting for more, unless one that is not served
   stands before it. *)
NoneLeftWaiting ==
  (reads = "request" /\ incoming = <<>> /\ ~error_ /\ ~terminated) =>
    \/ Len(answers) = Len(sent)
    \/ \E k \in 1 .. Len(answers) + 1 : ~served(sent[k])

(* The comment of parseURI: a request line is parsed when all of it was read
   (its '\r' is the sixth character of a request here). *)
LineParsedWhenComplete ==
  (state_ # "PARSE_URI" \/ error_) =>
    Len(stream(sent)) - Len(incoming) >= Len(stream(SubSeq(sent, 1, Len(answers)))) + 6
=============================================================================
