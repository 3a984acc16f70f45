------------------------------ MODULE MCGdbm ------------------------------
(* A small file.  KeyHash: hash values of three bits that differ in the    *)
(* last, so that with one key to a bucket the second key forces three      *)
(* turns of a split and doubles the directory twice.  PairHash: the first  *)
(* two keys share a bucket until the third splits it.                      *)
EXTENDS Gdbm
KeyHash == [k \in Keys |-> CASE k = 1 -> 0 [] k = 2 -> 1 [] k = 3 -> 3 [] OTHER -> 6]
PairHash == [k \in Keys |-> IF k = 3 THEN 1 ELSE 0]
ValueSize == [v \in Values |-> IF v = "small" THEN 1 ELSE IF v = "large" THEN 2 ELSE 3]
=============================================================================
