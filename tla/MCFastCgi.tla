----------------------------- MODULE MCFastCgi -----------------------------
(***************************************************************************)
(* FastCgi for TLC: three ids and a pool of two slots, so that the ids of  *)
(* dropped links block new ones, slots are reused and the pool runs full.  *)
(***************************************************************************)
EXTENDS FastCgi

MCIds == {1, 2, 3}
=============================================================================
