------------------------------ MODULE MCRWLock ------------------------------
(* TLC instances of RWLock: three threads, two of which may read together, *)
(* so that the readers' queue fills and writers meet readers and each      *)
(* other; liveness is checked, so there is no symmetry.                    *)
EXTENDS RWLock
=============================================================================
