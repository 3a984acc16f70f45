---------------------------- MODULE HashBucket ----------------------------
(***************************************************************************)
(* The hash table inside one bucket of the GDBM store (win_gdbm.cpp): open *)
(* addressing with linear probing, deletion that shifts later elements     *)
(* back into the hole, and a split that refills the table with the         *)
(* elements whose hash bit stays.  Each turn of a loop is a step.          *)
(*                                                                         *)
(* An element is its key; home[k] is hash_value % bucket_elems, any        *)
(* function of the key.  The comparison of hash, size, first bytes and     *)
(* record that decides whether an element is the one sought is equality.   *)
(***************************************************************************)
EXTENDS Integers, FiniteSets

CONSTANTS
    Keys,          \* the keys that hash to this bucket
    bucket_elems,  \* the number of elements a bucket holds
    Empty          \* an element whose hash_value is -1

ASSUME KeysAssumption == IsFiniteSet(Keys) /\ Empty \notin Keys
ASSUME ElemsAssumption == bucket_elems \in Nat \ {0}

VARIABLES
    home,      \* the hash function, modulo the size of the table
    h_table,   \* the elements by location
    count,     \* bucket->count
    pc, op,    \* the loop that runs, and the call it runs for
    key,       \* the argument of the call
    elem_loc,  \* the location a loop has reached
    last_loc,  \* gdbm_delete: the hole
    src, idx,  \* _gdbm_split_bucket: the full table and the next element of it
    stay,      \* the keys whose hash bit selects the new current bucket
    stored     \* history: what the bucket holds, as a set

vars == <<home, h_table, count, pc, op, key, elem_loc, last_loc, src, idx, stay, stored>>

Locs == 0 .. bucket_elems - 1
Ops == {"fetch", "store", "delete"}
EmptyTable == [l \in Locs |-> Empty]

\* (l + 1) % bucket_elems
After(l) == IF l + 1 = bucket_elems THEN 0 ELSE l + 1

Init ==
    /\ home \in [Keys -> Locs]
    /\ h_table = EmptyTable /\ count = 0
    /\ pc = "idle" /\ op = "none" /\ key = Empty
    /\ elem_loc = 0 /\ last_loc = 0
    /\ src = EmptyTable /\ idx = 0 /\ stay = {}
    /\ stored = {}

\* The locals of a call end with it.
Leave ==
    /\ pc' = "idle" /\ op' = "none" /\ key' = Empty
    /\ elem_loc' = 0 /\ last_loc' = 0
    /\ UNCHANGED <<home, src, idx, stay>>

Begin(o, k) ==
    /\ pc = "idle"
    /\ pc' = "find" /\ op' = o /\ key' = k /\ elem_loc' = home[k]
    /\ UNCHANGED <<home, h_table, count, last_loc, src, idx, stay, stored>>

\* _gdbm_findkey: probe until the element, a hole or the home location again.
Found ==
    /\ pc = "find" /\ h_table[elem_loc] = key
    /\ pc' = "found"
    /\ UNCHANGED <<home, h_table, count, op, key, elem_loc, last_loc, src, idx, stay, stored>>

NotFound ==
    /\ pc = "find" /\ h_table[elem_loc] = Empty
    /\ pc' = "missing"
    /\ UNCHANGED <<home, h_table, count, op, key, elem_loc, last_loc, src, idx, stay, stored>>

\* Mutant: the probe does not stop at the home location.
ProbeOn ==
    /\ pc = "find" /\ h_table[elem_loc] \notin {key, Empty}
    /\ elem_loc' = After(elem_loc)
    /\ UNCHANGED <<home, h_table, count, pc, op, key, last_loc, src, idx, stay, stored>>

ProbeNext ==
    /\ pc = "find" /\ h_table[elem_loc] \notin {key, Empty}
    /\ elem_loc' = After(elem_loc)
    /\ pc' = IF After(elem_loc) = home[key] THEN "missing" ELSE "find"
    /\ UNCHANGED <<home, h_table, count, op, key, last_loc, src, idx, stay, stored>>

\* gdbm_fetch and a replacing gdbm_store leave the table; so do calls that fail.
Return ==
    /\ \/ pc = "found" /\ op \in {"fetch", "store"}
       \/ pc = "missing" /\ op \in {"fetch", "delete"}
    /\ Leave
    /\ UNCHANGED <<h_table, count, stored>>

Remove ==
    /\ pc = "found" /\ op = "delete"
    /\ h_table' = [h_table EXCEPT ![elem_loc] = Empty]
    /\ count' = count - 1
    /\ stored' = stored \ {key}
    /\ last_loc' = elem_loc /\ elem_loc' = After(elem_loc)
    /\ pc' = "shift"
    /\ UNCHANGED <<home, op, key, src, idx, stay>>

\* Mutant: an element whose home is the hole stays where it is.
MayMoveStrict(last, loc, h) ==
    \/ last < loc /\ (h < last \/ h > loc)
    \/ last > loc /\ h < last /\ h > loc

\* gdbm_delete's test: the element's home is not behind the hole.
MayMove(last, loc, h) ==
    \/ last < loc /\ (h <= last \/ h > loc)
    \/ last > loc /\ h <= last /\ h > loc

ShiftDone ==
    /\ pc = "shift"
    /\ elem_loc = last_loc \/ h_table[elem_loc] = Empty
    /\ Leave
    /\ UNCHANGED <<h_table, count, stored>>

ShiftStep ==
    /\ pc = "shift" /\ elem_loc # last_loc /\ h_table[elem_loc] # Empty
    /\ IF MayMove(last_loc, elem_loc, home[h_table[elem_loc]])
         THEN /\ h_table' = [h_table EXCEPT ![last_loc] = h_table[elem_loc],
                                            ![elem_loc] = Empty]
              /\ last_loc' = elem_loc
         ELSE UNCHANGED <<h_table, last_loc>>
    /\ elem_loc' = After(elem_loc)
    /\ UNCHANGED <<home, count, pc, op, key, src, idx, stay, stored>>

\* gdbm_store of a new key: there is room, or the bucket is split first.
Insert ==
    /\ pc = "missing" /\ op = "store" /\ count # bucket_elems
    /\ pc' = "insert" /\ elem_loc' = home[key]
    /\ UNCHANGED <<home, h_table, count, op, key, last_loc, src, idx, stay, stored>>

Split(s) ==
    /\ pc = "missing" /\ op = "store" /\ count = bucket_elems
    /\ key \in s
    /\ src' = h_table /\ idx' = 0 /\ stay' = s
    /\ h_table' = EmptyTable /\ count' = 0
    /\ stored' = stored \cap s
    /\ pc' = "move"
    /\ UNCHANGED <<home, op, key, elem_loc, last_loc>>

\* The turns of the loop over the full bucket; an element of the other half goes
\* to a table that is not followed here.
MoveNext ==
    /\ pc = "move" /\ idx < bucket_elems
    /\ IF src[idx] \in stay
         THEN pc' = "probe" /\ elem_loc' = home[src[idx]] /\ idx' = idx
         ELSE idx' = idx + 1 /\ UNCHANGED <<pc, elem_loc>>
    /\ UNCHANGED <<home, h_table, count, op, key, last_loc, src, stay, stored>>

MoveDone ==
    /\ pc = "move" /\ idx = bucket_elems
    /\ pc' = "missing"
    /\ src' = EmptyTable /\ idx' = 0 /\ stay' = {}
    /\ UNCHANGED <<home, h_table, count, op, key, elem_loc, last_loc, stored>>

SlotTaken ==
    /\ pc \in {"insert", "probe"} /\ h_table[elem_loc] # Empty
    /\ elem_loc' = After(elem_loc)
    /\ UNCHANGED <<home, h_table, count, pc, op, key, last_loc, src, idx, stay, stored>>

Place ==
    /\ pc = "insert" /\ h_table[elem_loc] = Empty
    /\ h_table' = [h_table EXCEPT ![elem_loc] = key]
    /\ count' = count + 1
    /\ stored' = stored \cup {key}
    /\ Leave

MovePlace ==
    /\ pc = "probe" /\ h_table[elem_loc] = Empty
    /\ h_table' = [h_table EXCEPT ![elem_loc] = src[idx]]
    /\ count' = count + 1
    /\ idx' = idx + 1
    /\ pc' = "move"
    /\ UNCHANGED <<home, op, key, elem_loc, last_loc, src, stay, stored>>

Step ==
    \/ Found \/ NotFound \/ ProbeNext \/ Return
    \/ Remove \/ ShiftDone \/ ShiftStep
    \/ Insert \/ (\E s \in SUBSET Keys : Split(s)) \/ MoveNext \/ MoveDone
    \/ SlotTaken \/ Place \/ MovePlace

Next == Step \/ \E o \in Ops, k \in Keys : Begin(o, k)

Spec == Init /\ [][Next]_vars

\* A call runs to its end: nothing else runs in the bucket meanwhile.
FairSpec == Spec /\ WF_vars(Step)

-----------------------------------------------------------------------------
Used == {l \in Locs : h_table[l] # Empty}

\* A search ends with the element exactly when the bucket holds the key, whatever
\* deletions moved elements before: _gdbm_findkey stops at the first hole.
FindIsRight ==
    /\ pc = "found" => key \in stored
    /\ pc = "missing" => key \notin stored

\* bucket->count is the number of elements in the table at every step: it decides
\* when a bucket splits, and that the loops looking for room find some.
CountIsUsed == count = Cardinality(Used)

\* No probe, insertion or shift runs for ever, even in a full table.
LoopsEnd ==
    \A p \in {"find", "insert", "shift", "probe"} : pc = p ~> pc # p

=============================================================================
