----------------------------- MODULE ObjectPool -----------------------------
(***************************************************************************)
(* What a user of MemAlloctor (src/LigSP/LigCommon/sdl_memory.h) relies    *)
(* on: every handle is the place of one object at most.  A new object      *)
(* never takes the handle of one that still exists, and only an existing   *)
(* object is freed.                                                        *)
(***************************************************************************)
EXTENDS Integers

CONSTANT Handles
VARIABLE objects   \* how many objects each handle stands for

Init == objects = [h \in Handles |-> 0]

Make(h) ==
    /\ objects[h] = 0
    /\ objects' = [objects EXCEPT ![h] = 1]

Drop(h) ==
    /\ objects[h] = 1
    /\ objects' = [objects EXCEPT ![h] = 0]

DropAll == objects' = [h \in Handles |-> 0]

Next == (\E h \in Handles : Make(h) \/ Drop(h)) \/ DropAll

Spec == Init /\ [][Next]_objects
=============================================================================
