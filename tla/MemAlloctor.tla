---------------------------- MODULE MemAlloctor ----------------------------
(***************************************************************************)
(* MemAlloctor<T, PageNumber, PageBits> (src/LigSP/LigCommon/sdl_memory.h),*)
(* the paged object pool that holds the connections, the parser's nodes    *)
(* and the string tree.  A handle is the number of a slot; free slots are  *)
(* linked through the first bytes of their own data, so a slot's link is   *)
(* lost while an object lives in it.  A page gets memory, and the links of *)
(* its slots, when its first slot is handed out.                           *)
(*                                                                         *)
(* The pool is used by one thread here; a pointer to an object stands for  *)
(* its handle.                                                             *)
(***************************************************************************)
EXTENDS Integers, FiniteSets

CONSTANTS PageNumber,   \* pages the table has room for
          PageSize      \* slots of a page, 2^PageBits

ASSUME PoolAssumption == PageNumber \in Nat \ {0} /\ PageSize \in Nat \ {0}

TopMem == PageNumber * PageSize

Locs == 0 .. TopMem - 1

(* loc>>PageBits.                                                          *)
Page(l) == l \div PageSize

(* What the bytes of the link hold while an object uses them.              *)
Data == -1

VARIABLES
    p_table,     \* the pages that have memory
    loc,         \* the link of each slot
    flag,        \* the slots whose flag is 1
    FreeLoc,     \* the slot to be handed out next
    LastHandle,  \* no slot from here on was ever handed out
    \* a walk with the iterator: for(it=begin(); it!=end(); ++it)
    handle,      \* the iterator's handle, or -1: no walk is going on
    seen,        \* history: the objects the walk has come to
    kept,        \* history: the objects that existed all through the walk
    held,        \* history: the objects each slot was given for and that were not freed
    spoilt       \* history: objects destroyed in their slot, which still counts as used

walkVars == <<handle, seen, kept>>
vars == <<p_table, loc, flag, FreeLoc, LastHandle, walkVars, held, spoilt>>

Init ==
    /\ p_table = {}
    /\ loc = [l \in Locs |-> Data]
    /\ flag = {}
    /\ FreeLoc = 0
    /\ LastHandle = 0
    /\ handle = -1 /\ seen = {} /\ kept = {}
    /\ held = [l \in Locs |-> 0]
    /\ spoilt = {}

-----------------------------------------------------------------------------
(* initMem links the slots of a new page, each to the next.  (Mutant: it   *)
(* ends the list with the page.)                                           *)
LinkedWithin(p) ==
    [l \in Locs |-> IF Page(l) # p THEN loc[l]
                    ELSE IF Page(l + 1) = p THEN l + 1 ELSE TopMem]
Linked(p) == [l \in Locs |-> IF Page(l) = p THEN l + 1 ELSE loc[l]]

Larger(a, b) == IF a < b THEN b ELSE a

(* alloc() throws when FreeLoc has reached TopMem.                         *)
alloc ==
    /\ FreeLoc < TopMem
    /\ LET link == IF Page(FreeLoc) \in p_table THEN loc ELSE Linked(Page(FreeLoc)) IN
       /\ FreeLoc' = link[FreeLoc]
       /\ loc' = [link EXCEPT ![FreeLoc] = Data]
       /\ LastHandle' = Larger(LastHandle, link[FreeLoc])
    /\ p_table' = p_table \union {Page(FreeLoc)}
    /\ flag' = flag \union {FreeLoc}
    /\ held' = [held EXCEPT ![FreeLoc] = @ + 1]
    /\ UNCHANGED <<walkVars, spoilt>>

(* free(loc), free(pnt) and del: a slot that is not in use is let alone.   *)
(* (Mutant: it is linked in a second time.)                                *)
FreeAgain(h) ==
    /\ Page(h) \in p_table
    /\ loc' = [loc EXCEPT ![h] = FreeLoc]
    /\ FreeLoc' = h
    /\ flag' = flag \ {h}
    /\ held' = [held EXCEPT ![h] = @ - 1]
    /\ kept' = kept \ {h}
    /\ spoilt' = spoilt \ {h}
    /\ UNCHANGED <<p_table, LastHandle, handle, seen>>

free(h) ==
    /\ Page(h) \in p_table /\ h \in flag
    /\ loc' = [loc EXCEPT ![h] = FreeLoc]
    /\ FreeLoc' = h
    /\ flag' = flag \ {h}
    /\ held' = [held EXCEPT ![h] = @ - 1]
    /\ kept' = kept \ {h}
    /\ spoilt' = spoilt \ {h}
    /\ UNCHANGED <<p_table, LastHandle, handle, seen>>

(* clear() links the slots below LastHandle again.                         *)
Relinked == [l \in Locs |-> IF l < LastHandle THEN l + 1 ELSE loc[l]]

clear ==
    /\ loc' = Relinked
    /\ flag' = {l \in flag : l >= LastHandle}
    /\ LastHandle' = 0
    /\ FreeLoc' = 0
    /\ held' = [l \in Locs |-> 0]
    /\ handle' = -1 /\ seen' = {} /\ kept' = {}
    /\ spoilt' = {}
    /\ UNCHANGED p_table

(* destroy() destroys the objects from slot 0 on and counts LastHandle of  *)
(* them: each free slot it skips moves the end one further, so only a pool *)
(* without holes comes to clear().  Any other runs into a page that has no *)
(* memory and throws; when every page has memory it reads past the table,  *)
(* and the model takes what it finds there for such a page.                *)
destroy ==
    IF \A l \in Locs : l < LastHandle => l \in flag
    THEN clear
    ELSE /\ spoilt' = flag
         /\ UNCHANGED <<p_table, loc, flag, FreeLoc, LastHandle, walkVars, held>>

-----------------------------------------------------------------------------
(* The iterator.  begin() is slot 0, whether used or not.                  *)
begin ==
    /\ handle = -1
    /\ handle' = 0
    /\ seen' = IF LastHandle = 0 THEN {} ELSE {0}
    /\ kept' = flag
    /\ UNCHANGED <<p_table, loc, flag, FreeLoc, LastHandle, held, spoilt>>

(* operator++ stops at a used slot, at the end, or where a page has no     *)
(* memory.  (Mutant: it tests the slot before moving on, not after.)       *)
StopsLate(l) == Page(l) \notin p_table \/ l > LastHandle \/ l - 1 \in flag
Stops(l) == Page(l) \notin p_table \/ l >= LastHandle \/ l \in flag

(* The next handle; one past the last slot of the table is its end.        *)
Following(h) ==
    CHOOSE n \in h + 1 .. TopMem :
        /\ n = TopMem \/ Stops(n)
        /\ \A l \in h + 1 .. n - 1 : ~Stops(l)

advance ==
    /\ handle # -1 /\ handle # LastHandle
    /\ handle' = Following(handle)
    /\ seen' = IF handle' = LastHandle THEN seen ELSE seen \union {handle'}
    /\ UNCHANGED <<p_table, loc, flag, FreeLoc, LastHandle, kept, held, spoilt>>

(* The walk ends when it == end().                                         *)
endWalk ==
    /\ handle = LastHandle
    /\ handle' = -1 /\ seen' = {} /\ kept' = {}
    /\ UNCHANGED <<p_table, loc, flag, FreeLoc, LastHandle, held, spoilt>>

Next ==
    \/ alloc
    \/ \E h \in Locs : free(h)
    \/ clear
    \/ destroy
    \/ begin \/ advance \/ endWalk

Spec == Init /\ [][Next]_vars

-----------------------------------------------------------------------------
TypeOK ==
    /\ p_table \subseteq 0 .. PageNumber - 1
    /\ loc \in [Locs -> -1 .. TopMem]
    /\ flag \subseteq Locs
    /\ FreeLoc \in 0 .. TopMem
    /\ LastHandle \in 0 .. TopMem
    /\ handle \in -1 .. TopMem
    /\ seen \subseteq Locs /\ kept \subseteq Locs
    /\ held \in [Locs -> {0, 1}]
    /\ spoilt \subseteq flag

(* The link alloc will follow from a slot; a page without memory will be   *)
(* linked when it gets it.                                                 *)
Link(l) == IF Page(l) \in p_table THEN loc[l] ELSE l + 1

Unused == Locs \ flag

(* The free slots form a list from FreeLoc to TopMem that never runs       *)
(* through a used slot and never meets itself, and beyond LastHandle every *)
(* slot leads to the next: what alloc, free and clear rely on in each      *)
(* other.                                                                  *)
ListOK ==
    /\ FreeLoc \in Unused \union {TopMem}
    /\ \A l \in Unused : Link(l) \in Unused \union {TopMem} /\ Link(l) # FreeLoc
    /\ \A k, l \in Unused : Link(k) = Link(l) => k = l
    /\ FreeLoc <= LastHandle
    /\ \A l \in Locs : l >= LastHandle => l \in Unused /\ Link(l) = l + 1
    /\ \A l \in flag : Page(l) \in p_table
    /\ \A l \in Locs : held[l] = IF l \in flag THEN 1 ELSE 0

(* Every free slot is on the list from FreeLoc: a set of free slots that   *)
(* holds the head of the list and, with each slot, the next, holds all.    *)
Chain ==
    \A S \in SUBSET Unused :
        /\ FreeLoc \in S \union {TopMem}
        /\ \A l \in S : Link(l) \in S \union {TopMem}
        => S = Unused

(* A walk never runs past the end, and has left no object behind that was  *)
(* there when it began.                                                    *)
WalkOK ==
    /\ handle <= LastHandle
    /\ kept \subseteq flag
    /\ \A l \in kept : l <= handle => l \in seen

(* No slot is lost: the pool is exhausted only when every slot is used.    *)
ExhaustedWhenFull == FreeLoc = TopMem => flag = Locs

(* A walk that ends has come to every object that existed from its start,  *)
(* whatever was created and freed under the iterator.                      *)
WalkReachesAll == handle # -1 /\ handle = LastHandle => kept \subseteq seen

Pool == INSTANCE ObjectPool WITH Handles <- Locs, objects <- held

(* A new object never takes the slot of an existing one, and an object is  *)
(* freed once.                                                             *)
PoolSpec == Pool!Spec

(* destroy() "destroys all objects and clears the memory": no object is    *)
(* left destroyed in a slot that counts as used, to be destroyed again.    *)
NoneSpoilt == spoilt = {}
=============================================================================
