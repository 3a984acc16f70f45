---------------------------- MODULE MCWebServer ----------------------------
(* TLC instances of WebServer and the properties they check.               *)
EXTENDS WebServer, TLC

SockSymmetry == Permutations(Socks)
=============================================================================
