--------------------------- MODULE MCPublicTable ---------------------------
(***************************************************************************)
(* PublicTable for TLC: one number and two texts, so that every change of  *)
(* type happens.  Values are model values, which TLC compares with         *)
(* anything; a comparison answers only for two values of one type.         *)
(***************************************************************************)
EXTENDS PublicTable

CONSTANTS n, a, b, x, y, Less, Equal, Greater

Sign(v, w) ==
  CASE v = w -> Equal
    [] v = a /\ w = b -> Less
    [] v = b /\ w = a -> Greater
    [] OTHER -> Missing
=============================================================================
