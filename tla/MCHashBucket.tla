-------------------------- MODULE MCHashBucket --------------------------
(* A full table of three elements, four keys and every hash function.      *)
EXTENDS HashBucket
=============================================================================
