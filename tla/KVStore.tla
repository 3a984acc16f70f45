----------------------------- MODULE KVStore -----------------------------
(***************************************************************************)
(* What a GDBM file promises its users: a map from keys to values.  An     *)
(* update takes effect in one step between its call and its return, so a   *)
(* file left by a process that ended meanwhile is as before or as after.   *)
(* Only the key being replaced may be read back damaged in between.        *)
(***************************************************************************)
CONSTANTS Keys, Values, NoValue, Torn

VARIABLES
    map,     \* what a process that opens the file finds
    busy,    \* the update under way: <<key, new value>>, or <<>>
    result   \* what a search has just returned

Init == map = [k \in Keys |-> NoValue] /\ busy = <<>> /\ result = NoValue

Damaged(k, v) == IF v # NoValue /\ map[k] # NoValue THEN [map EXCEPT ![k] = Torn] ELSE map

Call(k, v) ==
    /\ busy = <<>> /\ busy' = <<k, v>>
    /\ result' = NoValue
    /\ map' \in {map, Damaged(k, v)}

Damage ==
    /\ busy # <<>>
    /\ map' = Damaged(busy[1], busy[2])
    /\ UNCHANGED <<busy, result>>

TakeEffect ==
    /\ busy # <<>>
    /\ map' = [map EXCEPT ![busy[1]] = busy[2]]
    /\ UNCHANGED <<busy, result>>

\* A process that does not die returns only after the effect.
Return ==
    /\ busy # <<>> /\ map[busy[1]] = busy[2]
    /\ busy' = <<>>
    /\ UNCHANGED <<map, result>>

Die == busy # <<>> /\ busy' = <<>> /\ UNCHANGED <<map, result>>

Fetch(k) ==
    /\ busy = <<>>
    /\ result' = map[k]
    /\ UNCHANGED <<map, busy>>

Forget == result' = NoValue /\ UNCHANGED <<map, busy>>

Next ==
    \/ Forget \/ Damage \/ TakeEffect \/ Return \/ Die
    \/ \E k \in Keys : Fetch(k) \/ \E v \in Values \cup {NoValue} : Call(k, v)

Spec == Init /\ [][Next]_<<map, busy, result>>

=============================================================================
