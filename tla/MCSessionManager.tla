-------------------------- MODULE MCSessionManager --------------------------
(* Three sessions that live for two ticks: enough for one to be swept or   *)
(* expired while another is new and a third on the verge.                  *)
EXTENDS SessionManager
=============================================================================
