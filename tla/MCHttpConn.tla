------------------------------ MODULE MCHttpConn ------------------------------
(* HttpConn with the requests of a browser, and some it does not serve. *)
EXTENDS HttpConn, TLC

request(m0, target, hs, n) ==
  [method |-> m0, target |-> target, headers |-> hs, body |-> n, eol |-> <<"CR", "LF">>]

keep_alive == <<"Connection:", "keep-alive">>
host == <<"Host:", "a">>

Files == "/page" :> [kind |-> "file", size |-> 2] @@ "/short" :> [kind |-> "file", size |-> 1]
         @@ "/private" :> [kind |-> "private", size |-> 1]
         @@ "/dir" :> [kind |-> "directory", size |-> 1]

Served ==
  {request("GET", <<"/page">>, <<host, keep_alive>>, 0),
   request("GET", <<"http://", "host", "/short">>, <<keep_alive>>, 0),
   request("GET", <<"/short">>, <<>>, 0),
   request("GET", <<"/page">>, <<keep_alive, <<"Content-Length:", "2">> >>, 2)}

Every == Served \cup
  {request("GET", <<"/missing">>, <<host>>, 0),
   request("GET", <<"/private">>, <<host>>, 0),
   request("GET", <<"/dir">>, <<keep_alive>>, 0),
   request("GET", <<"http://", "host">>, <<>>, 0),
   request("GET", <<"http://", "host", "/page">>, <<keep_alive, <<"Content-Length:", "2">> >>, 2),
   request("POST", <<"/page">>, << <<"Content-Length:", "2">> >>, 2),
   request("GET", <<"/page">>, <<host, <<"Connection:", "close">>, <<"Content-Length:", "0">>, host>>, 0),
   [request("GET", <<"/page">>, <<host>>, 0) EXCEPT !.eol = <<"LF">>],
   [request("GET", <<"/page">>, <<>>, 0) EXCEPT !.eol = <<"CR">>]}
=============================================================================
