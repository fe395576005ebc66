------------------------------- MODULE HttpConn -------------------------------
(***************************************************************************)
(* One http_conn of the predecessor (old_version/webserver_tick): its read *)
(* buffer and the two state machines that parse it, the answer in          *)
(* m_write_buf and a mapped file, and writev with the two blocks of m_iv.  *)
(* TickServer has the threads that call it and the timers.                 *)
(*                                                                         *)
(* A character is a token: CR, LF, SP or a word, which is never split.     *)
(* The client sends its next request when it has the whole answer to the   *)
(* last, in pieces cut anywhere.  A piece of the head that one call of     *)
(* add_response writes is one unit of output, and so is a unit of a file.  *)
(* m_version and m_host, which nothing reads, are left out; so is the room *)
(* in m_write_buf and m_real_file, which is far larger than any answer's   *)
(* head and any name here.  Index 0 is the first character, as in the code. *)
(***************************************************************************)
EXTENDS Integers, Sequences, SequencesExt

CONSTANTS
  Requests,     \* the requests a client may send
  MaxRequests,  \* bound on the requests of the connection
  resources,    \* path |-> what stat finds there: its kind and size
  RD_BUF_SIZE   \* in characters

ASSUME BoundsAssumption == MaxRequests \in Nat /\ RD_BUF_SIZE \in Nat
ASSUME ResourcesAssumption ==
  /\ "host" \notin DOMAIN resources
  /\ \A path \in DOMAIN resources :
       /\ resources[path].kind \in {"file", "private", "directory"}
       /\ resources[path].size \in Nat

(* What a client writes: words, none of them a separator, a path or a URL with
   or without one, and no more of a body than the last Content-Length says. *)
Separators == {"CR", "LF", "SP"}
Origin == {"http://", "host"}

atol == [v \in {"0", "2"} |-> IF v = "0" THEN 0 ELSE 2]

announced(hs, n) ==
  LET lengths == {i \in 1 .. n : hs[i][1] = "Content-Length:"}
  IN  IF lengths = {} THEN 0 ELSE atol[hs[CHOOSE i \in lengths : \A j \in lengths : j <= i][2]]

file_of(r) == r.target[Len(r.target)]

ASSUME RequestsAssumption ==
  \A r \in Requests :
    /\ r.method \notin Separators /\ r.eol \in {<<"CR", "LF">>, <<"LF">>, <<"CR">>}
    /\ \/ r.target = <<"http://", "host">>
       \/ /\ r.target \in {<<file_of(r)>>, <<"http://", "host", file_of(r)>>}
          /\ file_of(r) \notin Separators \cup Origin
    /\ r.headers \in Seq(STRING \X STRING)
    /\ \A i \in DOMAIN r.headers :
         /\ r.headers[i][1] \notin Separators /\ r.headers[i][2] \notin Separators
         /\ r.headers[i][1] = "Content-Length:" => r.headers[i][2] \in DOMAIN atol
    /\ r.body \in Nat /\ r.body <= announced(r.headers, Len(r.headers))

VARIABLES
  sent,       \* the requests of the client
  asked,      \* how many of them it has begun to send
  incoming,   \* characters of the last one that were not yet read
  phase,      \* what the connection waits for, or who has it
  m,          \* the members of http_conn
  head_lost,  \* history: a part of a head was dropped, see drops_head
  delivered   \* history: what the client has received

vars == <<sent, asked, incoming, phase, m, head_lost, delivered>>

(* Armed for input or output; with a worker; inside write(); closed by the
   server, or by the client's hang-up or the timer. *)
Phases == {"IN", "OUT", "task", "write", "closed", "gone"}

NewMembers == [m_rd_buf |-> <<>>, m_check_stat |-> "REQUESTLINE", m_checked_idx |-> 0,
               m_line_start |-> 0, m_url |-> "", m_linger |-> FALSE, m_content_len |-> 0,
               m_write_buf |-> <<>>, bytes_to_send |-> 0, bytes_have_send |-> 0,
               m_iv |-> [head |-> 0, head_len |-> 0, file |-> 0, file_len |-> 0]]

(* Mutant: m_linger is forgotten. *)
cleared_but_linger(c) == [NewMembers EXCEPT !.m_iv = c.m_iv, !.m_linger = c.m_linger]

(* init(): everything but the socket, the timer, m_iv and the mapping. *)
cleared(c) == [NewMembers EXCEPT !.m_iv = c.m_iv]

(* How a client writes a request, a record of its method, the words of its
   target, its headers, the length of its body and its line ends. *)
header_line(r, h) == <<h[1], "SP", h[2]>> \o r.eol

written(r) ==
  <<r.method, "SP">> \o r.target \o <<"SP", "HTTP/1.1">> \o r.eol \o
  FlattenSeq([i \in DOMAIN r.headers |-> header_line(r, r.headers[i])]) \o
  r.eol \o [i \in 1 .. r.body |-> "BODY"]

Init ==
  /\ sent \in UNION {[1 .. n -> Requests] : n \in 1 .. MaxRequests}
  /\ asked = 1 /\ incoming = written(sent[1])
  /\ phase = "IN" /\ m = NewMembers
  /\ head_lost = FALSE /\ delivered = <<>>
-----------------------------------------------------------------------------
(* Parsing *)

m_rd_idx(c) == Len(c.m_rd_buf)
char(c, i) == c.m_rd_buf[i + 1]

(* strpbrk of blanks, on a line; and what follows those words at its front
   that are in `skipped`, as strspn counts them. *)
first_blank(text) == SelectInSeq(text, LAMBDA t : t = "SP")
behind(text, skipped) ==
  LET n == SelectInSeq(text, LAMBDA t : t \notin skipped)
  IN  IF n = 0 THEN <<>> ELSE SubSeq(text, n, Len(text))

(* The next line end, and where checking goes on.  A '\r' that is the last
   character is looked at again. *)
parse_one_line(c) ==
  LET ends == {i \in c.m_checked_idx .. m_rd_idx(c) - 1 : char(c, i) \in {"CR", "LF"}}
      i == CHOOSE e \in ends : \A f \in ends : e <= f
      Line(status, checked) == [status |-> status, checked |-> checked]
  IN  IF ends = {} THEN Line("OPEN", m_rd_idx(c))
      ELSE IF char(c, i) = "LF"
           THEN IF i > 1 /\ char(c, i - 1) = "CR" THEN Line("OK", i + 1) ELSE Line("BAD", i)
      ELSE IF i + 1 = m_rd_idx(c) THEN Line("OPEN", i)
      ELSE IF char(c, i + 1) = "LF" THEN Line("OK", i + 2) ELSE Line("BAD", i)

(* Mutant: the start of the line is moved, although it is not complete. *)
left_open_moved(c, checked) == [c EXCEPT !.m_checked_idx = checked, !.m_line_start = checked]

(* No line yet. *)
left_open(c, checked) == [c EXCEPT !.m_checked_idx = checked]

Parsed(code, c) == [code |-> code, c |-> c]

(* Only GET, any version, and a path or a URL with one. *)
parse_request_line(c, text) ==
  LET sp   == first_blank(text)
      rest == SubSeq(text, sp + 1, Len(text))
      sp2  == first_blank(rest)
      url  == SubSeq(rest, 1, sp2 - 1)
      path == IF url # <<>> /\ url[1] = "http://" THEN behind(url, Origin) ELSE url
  IN  IF sp = 0 \/ sp2 = 0 \/ SubSeq(text, 1, sp - 1) # <<"GET">>
         \/ path = <<>> \/ path[1] = "host"
      THEN Parsed("BAD_REQUEST", c)
      ELSE Parsed("NO_REQUEST", [c EXCEPT !.m_url = path[1], !.m_check_stat = "HEADER"])

(* A blank line ends the head. *)
parse_request_headers(c, text) ==
  LET value == behind(Tail(text), {"SP"})
  IN  IF text = <<>>
      THEN IF c.m_content_len # 0 THEN Parsed("NO_REQUEST", [c EXCEPT !.m_check_stat = "CONTENT"])
           ELSE Parsed("GET_REQUEST", c)
      ELSE Parsed("NO_REQUEST",
             [c EXCEPT !.m_linger = @ \/ (text[1] = "Connection:" /\ value = <<"keep-alive">>),
                       !.m_content_len = IF text[1] = "Content-Length:" THEN atol[value[1]] ELSE @])

parse_request_content(c) ==
  IF m_rd_idx(c) >= c.m_content_len + c.m_checked_idx THEN "GET_REQUEST" ELSE "NO_REQUEST"

do_request(c) ==
  IF c.m_url \notin DOMAIN resources THEN "NO_RESOURCE"
  ELSE CASE resources[c.m_url].kind = "private" -> "FORBIDDEN_REQUEST"
         [] resources[c.m_url].kind = "directory" -> "BAD_REQUEST"
         [] resources[c.m_url].kind = "file" -> "FILE_REQUEST"

(* One round of process_read's loop.  The body is not parsed in lines, but a
   body that is incomplete ends with LINE_OPEN, and the condition of the loop
   then looks for lines in it. *)
round(r) ==
  LET c    == r.c
      skip == c.m_check_stat = "CONTENT" /\ r.line = "OK"
      line == parse_one_line(c)
      text == SubSeq(c.m_rd_buf, c.m_line_start + 1, line.checked - 2)
      goal == IF skip THEN c.m_checked_idx ELSE line.checked
      at   == [c EXCEPT !.m_checked_idx = goal, !.m_line_start = goal]
      done == CASE c.m_check_stat = "REQUESTLINE" -> parse_request_line(at, text)
                [] c.m_check_stat = "HEADER" -> parse_request_headers(at, text)
                [] c.m_check_stat = "CONTENT" -> Parsed(parse_request_content(at), at)
  IN  IF ~skip /\ line.status # "OK" THEN [r EXCEPT !.c = left_open(c, line.checked), !.halt = TRUE]
      ELSE [c    |-> done.c,
            line |-> IF c.m_check_stat = "CONTENT" THEN "OPEN" ELSE "OK",
            code |-> IF done.code = "GET_REQUEST" THEN do_request(done.c) ELSE done.code,
            halt |-> done.code # "NO_REQUEST"]

process_read(c) ==
  LET rounds[n \in 0 .. m_rd_idx(c) + 2] ==
        IF n = 0 THEN [c |-> c, line |-> "OK", code |-> "NO_REQUEST", halt |-> FALSE]
        ELSE LET r == rounds[n - 1] IN IF r.halt THEN r ELSE round(r)
  IN  rounds[m_rd_idx(c) + 2]
-----------------------------------------------------------------------------
(* Answering *)

status == [FILE_REQUEST |-> 200, BAD_REQUEST |-> 400, FORBIDDEN_REQUEST |-> 403,
           NO_RESOURCE |-> 404]

head(code, length, linger) ==
  << <<"HTTP/1.1", status[code]>>, <<"Content-Length", length>>, <<"Content-Type", "text/html">>,
     <<"Connection", linger>>, <<"blank", "">> >>

(* Unit i of what is mapped, and of what lies around it. *)
file_unit(path, i) == <<path, i>>

(* Only a file's answer is counted in bytes_to_send: that of an error is
   prepared, and never sent. *)
process_write(c, code) ==
  IF code = "FILE_REQUEST"
  THEN LET size == resources[c.m_url].size
           buf  == c.m_write_buf \o head(code, size, c.m_linger)
       IN  [c EXCEPT !.m_write_buf = buf, !.bytes_to_send = Len(buf) + size,
                     !.m_iv = [head |-> 0, head_len |-> Len(buf), file |-> 0, file_len |-> size]]
  ELSE LET buf == c.m_write_buf \o head(code, 1, c.m_linger) \o <<file_unit("form", status[code])>>
       IN  [c EXCEPT !.m_write_buf = buf,
                     !.m_iv = [head |-> 0, head_len |-> Len(buf), file |-> 0, file_len |-> 0]]

(* The members after process(), and what is waited for. *)
processed(c) ==
  LET r == process_read(c)
  IN  IF r.code = "NO_REQUEST" THEN [c |-> r.c, phase |-> "IN"]
      ELSE [c |-> process_write(r.c, r.code), phase |-> "OUT"]

(* What the two blocks of m_iv hold. *)
offered(c) ==
  SubSeq(c.m_write_buf, c.m_iv.head + 1, c.m_iv.head + c.m_iv.head_len) \o
  [i \in 1 .. c.m_iv.file_len |-> file_unit(c.m_url, c.m_iv.file + i - 1)]

(* The bookkeeping after writev has taken n: all that was sent is compared with
   what was left of the head before this call. *)
blocks_after(c, n) ==
  LET have == c.bytes_have_send + n
  IN  IF have >= c.m_iv.head_len
      THEN [c.m_iv EXCEPT !.head_len = 0, !.file = have - Len(c.m_write_buf),
                          !.file_len = c.bytes_to_send - n]
      ELSE [c.m_iv EXCEPT !.head = have, !.head_len = c.m_iv.head_len - n]

after_writev(c, n) ==
  [c EXCEPT !.bytes_to_send = c.bytes_to_send - n, !.bytes_have_send = c.bytes_have_send + n,
            !.m_iv = blocks_after(c, n)]
-----------------------------------------------------------------------------
(* The main thread and a worker, each running one member function. *)

(* Mutant: the last character of the buffer is not used. *)
buffer_nearly_full(c) == m_rd_idx(c) >= RD_BUF_SIZE - 1

buffer_full(c) == m_rd_idx(c) = RD_BUF_SIZE

(* read(): recv until nothing is left.  With the buffer full the next recv is
   asked for nothing and returns 0, which passes for the client's close. *)
read ==
  /\ phase = "IN"
  /\ \E n \in 1 .. Len(incoming) :
       /\ m_rd_idx(m) + n <= RD_BUF_SIZE
       /\ m' = [m EXCEPT !.m_rd_buf = @ \o SubSeq(incoming, 1, n)]
       /\ incoming' = SubSeq(incoming, n + 1, Len(incoming))
  /\ phase' = IF buffer_full(m') THEN "closed" ELSE "task"
  /\ UNCHANGED <<sent, asked, head_lost, delivered>>

process ==
  /\ phase = "task"
  /\ m' = processed(m).c
  /\ phase' = processed(m).phase
  /\ UNCHANGED <<sent, asked, incoming, head_lost, delivered>>

(* write(), before its loop. *)
write ==
  /\ phase = "OUT"
  /\ IF m.bytes_to_send = 0
     THEN m' = cleared(m) /\ phase' = "IN"
     ELSE phase' = "write" /\ UNCHANGED m
  /\ UNCHANGED <<sent, asked, incoming, head_lost, delivered>>

(* After such a call a part of the head was neither sent nor will be: it passed
   for sent, and what is offered next begins before the mapped file. *)
drops_head(c) == c.m_iv.head_len = 0 /\ c.bytes_have_send < Len(c.m_write_buf)

(* One round of its loop: the socket takes some of what it is offered. *)
writev ==
  /\ phase = "write"
  /\ \E n \in 1 .. Len(offered(m)) :
       /\ delivered' = delivered \o SubSeq(offered(m), 1, n)
       /\ LET c == after_writev(m, n) IN
          /\ head_lost' = (head_lost \/ drops_head(c))
          /\ m' = IF c.bytes_to_send <= 0 /\ c.m_linger THEN cleared(c) ELSE c
          /\ phase' = IF c.bytes_to_send > 0 THEN "write" ELSE IF c.m_linger THEN "IN" ELSE "closed"
  /\ UNCHANGED <<sent, asked, incoming>>

(* Mutant: the rest of an answer waits for input. *)
blocked_for_input == "IN"

blocked == "OUT"

(* EAGAIN: the rest waits for EPOLLOUT. *)
writev_would_block ==
  /\ phase = "write"
  /\ phase' = blocked
  /\ UNCHANGED <<sent, asked, incoming, m, head_lost, delivered>>

(* The client hangs up or aborts, or the timer expires. *)
conn_close ==
  /\ phase \in {"IN", "OUT", "write"}
  /\ phase' = "gone"
  /\ UNCHANGED <<sent, asked, incoming, m, head_lost, delivered>>
-----------------------------------------------------------------------------
(* What a client expects. *)
Errors == DOMAIN status \ {"FILE_REQUEST"}

has(r, name, value) == \E i \in DOMAIN r.headers : r.headers[i] = <<name, value>>

(* What this program serves: GET of a readable file, in lines that end with
   CR LF, in less than a buffer. *)
served(r) ==
  /\ r.method = "GET" /\ r.eol = <<"CR", "LF">> /\ Len(written(r)) < RD_BUF_SIZE
  /\ file_of(r) \in DOMAIN resources /\ resources[file_of(r)].kind = "file"

answer(r) ==
  head("FILE_REQUEST", resources[file_of(r)].size, has(r, "Connection:", "keep-alive")) \o
  [i \in 1 .. resources[file_of(r)].size |-> file_unit(file_of(r), i - 1)]

(* All that is owed for the first n requests; those that are not served get
   nothing. *)
owed(n) ==
  FlattenSeq([k \in 1 .. n |-> IF served(sent[k]) THEN answer(sent[k]) ELSE <<>>])

answered == served(sent[asked]) /\ delivered = owed(asked)

client_sends ==
  /\ answered /\ incoming = <<>> /\ asked < Len(sent) /\ phase = "IN"
  /\ asked' = asked + 1
  /\ incoming' = written(sent[asked + 1])
  /\ UNCHANGED <<sent, phase, m, head_lost, delivered>>

Next ==
  \/ read \/ process \/ write \/ writev \/ writev_would_block
  \/ conn_close \/ client_sends

Spec == Init /\ [][Next]_vars
-----------------------------------------------------------------------------
unparsed == [cleared(m) EXCEPT !.m_rd_buf = m.m_rd_buf]

(* The client receives the answers to its requests, in their order, each from
   its first unit on and with nothing of another in it, wherever requests and
   answers are cut; what is not served may be answered as an error
   (http_conn.cpp:162-214, 334-426, 485-537).  Unless writev was cut so that
   line 405 dropped a part of a head: from then on nothing is promised. *)
AnswersInOrder ==
  ~head_lost =>
    \/ IsPrefix(delivered, owed(asked))
    \/ ~served(sent[asked]) /\ \E e \in Errors : IsPrefix(owed(asked) \o << <<"HTTP/1.1", status[e]>> >>, delivered)

(* The pieces in which a request arrived make no difference: when the parser
   asks for more, and when it has an answer, its members are those that one
   call would have left that found all of it in the buffer.  (A body in pieces
   is parsed as lines meanwhile, and is left out.) *)
ParsedAsWhole ==
  /\ phase = "OUT" => m.bytes_have_send > 0 \/ m = processed(unparsed).c
  /\ phase = "IN" /\ m.m_check_stat # "CONTENT" => m = processed(unparsed).c

(* The server closes a connection only when its client has the whole of a last
   answer, or has sent a request that fills the buffer; or has lost a part of a
   head (line 405), since write() only counts what was sent. *)
ClosedForAReason ==
  phase = "closed" /\ ~head_lost =>
    \/ answered /\ ~has(sent[asked], "Connection:", "keep-alive")
    \/ Len(written(sent[asked])) >= RD_BUF_SIZE

(* A request that is served and was received whole is answered, or on its way to
   the client: the connection does not wait for more of it, nor for an answer
   that nobody prepared.  (But for a body in pieces: parse_request_content adds
   its length to what was passed over already, line 291, and waits for more; and
   for an answer of which line 405 dropped a part.) *)
NobodyWaitsInVain ==
  served(sent[asked]) /\ incoming = <<>> /\ ~answered /\ ~head_lost =>
    /\ phase = "IN" => m.m_check_stat = "CONTENT"
    /\ phase = "OUT" => m.bytes_to_send > 0
=============================================================================
