--------------------------- MODULE MCMemAlloctor ---------------------------
(* Three pages of two slots: a pool that crosses page boundaries, has      *)
(* holes, and can be exhausted.                                            *)
EXTENDS MemAlloctor
=============================================================================
