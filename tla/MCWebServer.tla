---------------------------- MODULE MCWebServer ----------------------------
(* WebServer on small limits. *)
EXTENDS WebServer
=============================================================================
