---------------------------- MODULE MCHttpParser ----------------------------
(* HttpParser with the requests of a browser, and some it does not serve. *)
EXTENDS HttpParser

request(m, t, v, hs, n) ==
  [method |-> m, target |-> t, version |-> v, headers |-> hs, body |-> n]

host == <<"Host", "a">>

Page == request("GET", "/", "HTTP/1.1", <<host>>, 0)
Kept == request("GET", "/hello", "HTTP/1.1", <<host, <<"Connection", "keep-alive">> >>, 0)
File == request("HEAD", "/file", "HTTP/1.0", << <<"Connection", "close">>, host>>, 0)

Twice == request("GET", "/file", "HTTP/1.1", << <<"Connection", "close">>, host, <<"Connection", "keep-alive">> >>, 0)

Served == {Page, Kept, File, Twice}

Every == Served \cup
  {request("GET", "/missing", "HTTP/1.1", <<host>>, 0),
   request("GET", "/", "HTTP/2", <<host>>, 0),
   request("GET", "/", "HTTP/1.0", <<>>, 0),
   request("POST", "/", "HTTP/1.1", <<host>>, 2),
   request("POST", "/", "HTTP/1.1", << <<"Content-length", "2">> >>, 2),
   request("POST", "/", "HTTP/1.1", << <<"Content-length", "0">> >>, 0),
   request("POST", "/", "HTTP/1.1", << <<"Content-length", "x">> >>, 0)}

Numbers == [v \in {<<"0">>, <<"2">>} |-> IF v = <<"0">> THEN 0 ELSE 2]

Bounds == [c \in Cuts |-> IF c = "pieces" THEN 2 ELSE 3]
=============================================================================
