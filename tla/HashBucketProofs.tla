------------------------- MODULE HashBucketProofs -------------------------
(***************************************************************************)
(* For every table size, set of keys and hash function: a search in a      *)
(* bucket is right, and the bucket's count is.  The invariant is that no   *)
(* element has a hole between its home and its place; while gdbm_delete    *)
(* shifts, the one hole last_loc may lie there, for elements the loop has  *)
(* not reached.                                                            *)
(***************************************************************************)
EXTENDS HashBucket, FiniteSetTheorems, TLAPS

\* Steps from a to b around the table.
Dist(a, b) == IF a <= b THEN b - a ELSE b - a + bucket_elems

\* x is among the locations probed before l in a search that starts at h.
Before(h, x, l) == Dist(h, x) < Dist(h, l)

TypeInv ==
    /\ home \in [Keys -> Locs]
    /\ h_table \in [Locs -> Keys \cup {Empty}]
    /\ count \in Int
    /\ pc \in {"idle", "find", "found", "missing", "shift", "insert", "move", "probe"}
    /\ op \in Ops \cup {"none"} /\ key \in Keys \cup {Empty} /\ (pc # "idle" => key \in Keys)
    /\ elem_loc \in Locs /\ last_loc \in Locs
    /\ src \in [Locs -> Keys \cup {Empty}]
    /\ idx \in 0 .. bucket_elems
    /\ stay \subseteq Keys /\ stored \subseteq Keys

\* Elements the shifting loop has not looked at since the hole is where it is.
Unreached(l) == elem_loc # last_loc /\ ~Before(last_loc, l, elem_loc)

Chains ==
    \A l \in Locs : h_table[l] # Empty =>
        \A x \in Locs : Before(home[h_table[l]], x, l) =>
            h_table[x] # Empty \/ (pc = "shift" /\ x = last_loc /\ Unreached(l))

Once == \A l, m \in Locs : h_table[l] = h_table[m] /\ h_table[l] # Empty => l = m

Moving == pc \in {"move", "probe"}

\* The elements of the full table that the split has still to move here.
Pending == IF Moving THEN {src[i] : i \in {j \in idx .. bucket_elems - 1 : src[j] \in stay}}
           ELSE {}

Holds == \A k \in Keys : k \in stored <=> (k \in Pending \/ \E l \in Locs : h_table[l] = k)

SplitOK ==
    Moving =>
        /\ \A i, j \in Locs : src[i] = src[j] => i = j
        /\ \A i \in Locs : src[i] # Empty
        /\ \A i \in Locs, l \in Locs : i >= idx => h_table[l] # src[i]
        /\ key \notin stored
        /\ pc = "probe" => idx < bucket_elems /\ src[idx] \in stay

\* What the locations behind a probe have shown.
ProbeOK ==
    /\ pc = "found" => h_table[elem_loc] = key
    /\ pc = "find" =>
         \A x \in Locs : Before(home[key], x, elem_loc) => h_table[x] \notin {key, Empty}
    /\ pc \in {"missing", "insert"} => key \notin stored
    /\ pc = "insert" => \A x \in Locs : Before(home[key], x, elem_loc) => h_table[x] # Empty
    /\ pc = "probe" =>
         \A x \in Locs : Before(home[src[idx]], x, elem_loc) => h_table[x] # Empty
    /\ pc = "shift" => h_table[last_loc] = Empty
         /\ \A x \in Locs : x # last_loc /\ ~Unreached(x) => h_table[x] # Empty

BucketInv ==
    TypeInv /\ Chains /\ Once /\ Holds /\ SplitOK /\ ProbeOK /\ CountIsUsed

LEMMA AfterFacts ==
    ASSUME NEW l \in Locs
    PROVE  /\ After(l) \in Locs
           /\ \A a \in Locs : After(l) # a => Dist(a, After(l)) = Dist(a, l) + 1
           /\ After(l) # l \/ bucket_elems = 1
BY ElemsAssumption DEF After, Locs, Dist

LEMMA UsedFinite == IsFiniteSet(Used) /\ Used \subseteq Locs
<1>1. IsFiniteSet(Locs)
  BY ElemsAssumption, FS_Interval DEF Locs
<1> QED
  BY <1>1, FS_Subset DEF Used

(* An empty table satisfies the inductive invariant (new_bucket).          *)
THEOREM InitBucket == Init => BucketInv
<1> SUFFICES ASSUME Init
             PROVE  BucketInv
  OBVIOUS
<1>1. TypeInv
  BY ElemsAssumption DEF Init, TypeInv, EmptyTable, Locs
<1>2. \A l \in Locs : h_table[l] = Empty
  BY DEF Init, EmptyTable
<1>3. CountIsUsed
  BY <1>2, FS_EmptySet DEF CountIsUsed, Used, Init
<1>4. Chains /\ Once
  BY <1>2 DEF Chains, Once
<1>5. Holds /\ SplitOK /\ ProbeOK
  BY <1>2, KeysAssumption DEF Holds, SplitOK, ProbeOK, Moving, Pending, Init
<1> QED
  BY <1>1, <1>3, <1>4, <1>5 DEF BucketInv

(* Steps that leave the table, and do not enter or leave a loop that may   *)
(* have holes, keep all that is said of the table alone.                   *)
LEMMA TableKept ==
    ASSUME BucketInv, UNCHANGED <<home, h_table, count, stored, src, idx, stay>>,
           pc # "shift", pc' # "shift", pc' \in {"move", "probe"} <=> pc \in {"move", "probe"}
    PROVE  Chains' /\ Once' /\ Holds' /\ CountIsUsed'
<1>1. Chains'
  BY DEF BucketInv, Chains, Before, Dist
<1>2. Once' /\ Holds'
  BY DEF BucketInv, Once, Holds, Pending, Moving
<1>3. CountIsUsed'
  BY DEF BucketInv, CountIsUsed, Used
<1> QED
  BY <1>1, <1>2, <1>3

LEMMA BeginInv ==
    ASSUME BucketInv, NEW o \in Ops, NEW k \in Keys, Begin(o, k)
    PROVE  BucketInv'
<1> USE DEF BucketInv
<1>1. TypeInv'
  BY DEF TypeInv, Begin
<1>2. Chains' /\ Once' /\ Holds' /\ CountIsUsed'
  BY TableKept DEF Begin
<1>3. SplitOK'
  BY DEF SplitOK, Moving, Begin
<1>4. ProbeOK'
  BY <1>1, ElemsAssumption DEF ProbeOK, Begin, Before, Dist, TypeInv, Locs
<1> QED
  BY <1>1, <1>2, <1>3, <1>4

LEMMA FindInv ==
    ASSUME BucketInv, Found \/ NotFound \/ ProbeNext
    PROVE  BucketInv'
<1> USE DEF BucketInv
<1>1. TypeInv'
  BY AfterFacts DEF TypeInv, Found, NotFound, ProbeNext
<1>2. Chains' /\ Once' /\ Holds' /\ CountIsUsed'
  BY TableKept DEF Found, NotFound, ProbeNext
<1>3. SplitOK'
  BY DEF SplitOK, Moving, Found, NotFound, ProbeNext
<1>4. CASE Found
  BY <1>1, <1>2, <1>3, <1>4 DEF ProbeOK, Found
<1>5. CASE NotFound
  <2>1. key \in Keys /\ home[key] \in Locs /\ key # Empty
    BY <1>5, KeysAssumption DEF TypeInv, NotFound
  <2>2. \A l \in Locs : h_table[l] # key
    <3> SUFFICES ASSUME NEW l \in Locs, h_table[l] = key
                 PROVE  FALSE
      OBVIOUS
    <3>1. ~Before(home[key], elem_loc, l)
      BY <1>5, <2>1 DEF Chains, NotFound, TypeInv
    <3>2. l # elem_loc /\ elem_loc \in Locs
      BY <1>5, <2>1 DEF NotFound, TypeInv
    <3>3. Before(home[key], l, elem_loc)
      BY <3>1, <3>2, <2>1, ElemsAssumption DEF Before, Dist, Locs
    <3> QED
      BY <3>3, <1>5 DEF ProbeOK, NotFound
  <2>3. key \notin stored
    BY <2>1, <2>2, <1>5 DEF Holds, Pending, Moving, NotFound
  <2> QED
    BY <1>1, <1>2, <1>3, <1>5, <2>3 DEF ProbeOK, NotFound
<1>6. CASE ProbeNext
  <2>1. key \in Keys /\ home[key] \in Locs /\ elem_loc \in Locs
    BY <1>6 DEF TypeInv, ProbeNext
  <2>2. \A x \in Locs : Dist(home[key], x) <= Dist(home[key], elem_loc) => h_table[x] \notin {key, Empty}
    <3> SUFFICES ASSUME NEW x \in Locs, Dist(home[key], x) <= Dist(home[key], elem_loc)
                 PROVE  h_table[x] \notin {key, Empty}
      OBVIOUS
    <3>1. CASE x = elem_loc
      BY <3>1, <1>6 DEF ProbeNext
    <3>2. CASE x # elem_loc
      <4>1. Before(home[key], x, elem_loc)
        BY <3>2, <2>1, ElemsAssumption DEF Before, Dist, Locs
      <4> QED
        BY <4>1, <1>6 DEF ProbeOK, ProbeNext
    <3> QED
      BY <3>1, <3>2
  <2>3. CASE After(elem_loc) = home[key]
    <3>1. \A x \in Locs : Dist(home[key], x) <= Dist(home[key], elem_loc)
      BY <2>1, <2>3, ElemsAssumption DEF After, Dist, Locs
    <3>2. key \notin stored
      BY <3>1, <2>1, <2>2, <1>6 DEF Holds, Pending, Moving, ProbeNext
    <3> QED
      BY <1>1, <1>2, <1>3, <1>6, <2>3, <3>2 DEF ProbeOK, ProbeNext
  <2>4. CASE After(elem_loc) # home[key]
    <3>1. Dist(home[key], After(elem_loc)) = Dist(home[key], elem_loc) + 1
      BY <2>1, <2>4, AfterFacts
    <3>2. \A x \in Locs : Before(home[key], x, After(elem_loc)) => h_table[x] \notin {key, Empty}
      BY <3>1, <2>1, <2>2, ElemsAssumption DEF Before, Dist, Locs
    <3>3. ProbeOK'
      BY <3>2, <1>6, <2>4 DEF ProbeOK, ProbeNext, Before, Dist
    <3> QED
      BY <1>1, <1>2, <1>3, <3>3
  <2> QED
    BY <2>3, <2>4
<1> QED
  BY <1>4, <1>5, <1>6

LEMMA LeaveInv ==
    ASSUME BucketInv, Leave, UNCHANGED <<h_table, count, stored>>, ~Moving,
           \A l \in Locs : h_table[l] # Empty =>
             \A x \in Locs : Before(home[h_table[l]], x, l) => h_table[x] # Empty
    PROVE  BucketInv'
<1> USE DEF BucketInv
<1>1. TypeInv'
  BY ElemsAssumption DEF TypeInv, Leave, Locs
<1>2. Chains' /\ Once'
  BY DEF Chains, Once, Leave, Before, Dist
<1>3. Holds' /\ SplitOK' /\ ProbeOK'
  BY DEF Holds, Pending, Moving, SplitOK, ProbeOK, Leave
<1>4. CountIsUsed'
  BY DEF CountIsUsed, Used
<1> QED
  BY <1>1, <1>2, <1>3, <1>4

LEMMA ReturnInv ==
    ASSUME BucketInv, Return \/ ShiftDone
    PROVE  BucketInv'
<1>1. CASE Return
  BY <1>1, LeaveInv DEF Return, BucketInv, Chains, Moving
<1>2. CASE ShiftDone
  <2>1. ASSUME NEW l \in Locs, h_table[l] # Empty,
               NEW x \in Locs, Before(home[h_table[l]], x, l)
        PROVE  h_table[x] # Empty
    <3>1. home[h_table[l]] \in Locs /\ elem_loc \in Locs /\ last_loc \in Locs
      BY <2>1 DEF BucketInv, TypeInv
    <3>2. SUFFICES ASSUME x = last_loc, Unreached(l), h_table[elem_loc] = Empty, elem_loc # last_loc
                   PROVE  FALSE
      BY <1>2, <2>1 DEF BucketInv, Chains, ShiftDone, Unreached
    <3>3. l # elem_loc /\ Before(home[h_table[l]], elem_loc, l)
      BY <2>1, <3>1, <3>2, ElemsAssumption DEF Unreached, Before, Dist, Locs
    <3> QED
      BY <2>1, <3>1, <3>2, <3>3 DEF BucketInv, Chains
  <2> QED
    BY <1>2, <2>1, LeaveInv DEF ShiftDone, Moving
<1> QED
  BY <1>1, <1>2

LEMMA InsertInv ==
    ASSUME BucketInv, Insert \/ SlotTaken
    PROVE  BucketInv'
<1> USE DEF BucketInv
<1>1. TypeInv'
  BY AfterFacts DEF TypeInv, Insert, SlotTaken
<1>2. Chains' /\ Once' /\ Holds' /\ CountIsUsed'
  BY TableKept DEF Insert, SlotTaken
<1>3. SplitOK'
  BY DEF SplitOK, Moving, Insert, SlotTaken
<1>4. CASE Insert
  BY <1>1, <1>2, <1>3, <1>4, ElemsAssumption DEF ProbeOK, Insert, Before, Dist, TypeInv, Locs
<1>5. CASE SlotTaken
  <2> DEFINE h == IF pc = "insert" THEN home[key] ELSE home[src[idx]]
  <2>1. h \in Locs /\ elem_loc \in Locs /\ h_table[elem_loc] # Empty
    BY <1>5, KeysAssumption, ElemsAssumption DEF TypeInv, SlotTaken, SplitOK, Moving, Locs
  <2>2. \A x \in Locs : Before(h, x, elem_loc) => h_table[x] # Empty
    BY <1>5 DEF ProbeOK, SlotTaken
  <2>3. \A x \in Locs : Before(h, x, After(elem_loc)) => h_table[x] # Empty
    <3> HIDE DEF h
    <3>1. \A x \in Locs : Before(h, x, After(elem_loc)) => Before(h, x, elem_loc) \/ x = elem_loc
      BY <2>1, ElemsAssumption DEF Before, Dist, After, Locs
    <3> QED
      BY <2>1, <2>2, <3>1
  <2>4. ProbeOK'
    BY <1>5, <2>3 DEF ProbeOK, SlotTaken, Before, Dist
  <2> QED
    BY <1>1, <1>2, <1>3, <2>4
<1> QED
  BY <1>4, <1>5

LEMMA RemoveInv ==
    ASSUME BucketInv, Remove
    PROVE  BucketInv'
<1> USE DEF BucketInv
<1>1. elem_loc \in Locs /\ h_table[elem_loc] = key /\ key \in Keys /\ key # Empty
      /\ last_loc' = elem_loc /\ elem_loc' = After(elem_loc) /\ pc' = "shift" /\ pc = "found"
  BY KeysAssumption DEF TypeInv, Remove, ProbeOK
<1>2. After(elem_loc) \in Locs
  BY <1>1, AfterFacts
<1>3. TypeInv'
  BY <1>1, <1>2 DEF TypeInv, Remove
<1>4. \A l \in Locs : h_table'[l] = IF l = elem_loc THEN Empty ELSE h_table[l]
  BY DEF TypeInv, Remove
<1>5. \A l \in Locs : l # elem_loc => Unreached(l)'
  BY <1>1, ElemsAssumption DEF Unreached, Before, Dist, After, Locs
<1>6. Chains'
  <2> SUFFICES ASSUME NEW l \in Locs, h_table'[l] # Empty, NEW x \in Locs, Before(home'[h_table'[l]], x, l),
                      h_table'[x] = Empty
               PROVE  x = last_loc' /\ Unreached(l)'
    BY <1>1 DEF Chains, Before, Dist
  <2>1. l # elem_loc /\ h_table[x] # Empty
    BY <1>1, <1>4 DEF Chains, Remove, Before, Dist
  <2> QED
    BY <2>1, <1>1, <1>4, <1>5
<1>7. Once'
  BY <1>4 DEF Once
<1>8. Holds'
  <2>1. ~Moving /\ ~Moving'
    BY <1>1 DEF Moving
  <2>2. \A l \in Locs : l # elem_loc => h_table[l] # key
    BY <1>1 DEF Once
  <2> QED
    BY <1>1, <1>4, <2>1, <2>2, KeysAssumption DEF Holds, Pending, Remove
<1>9. SplitOK'
  BY <1>1 DEF SplitOK, Moving
<1>10. ProbeOK'
  <2>1. \A x \in Locs : x # elem_loc => Unreached(x)'
    BY <1>5
  <2> QED
    BY <1>1, <1>4, <2>1 DEF ProbeOK
<1>11. CountIsUsed'
  <2>1. Used' = Used \ {elem_loc} /\ elem_loc \in Used
    BY <1>1, <1>4 DEF Used
  <2> QED
    BY <2>1, UsedFinite, FS_RemoveElement DEF CountIsUsed, Remove
<1> QED
  BY <1>3, <1>6, <1>7, <1>8, <1>9, <1>10, <1>11

(* gdbm_delete's test says whether the hole is among the locations probed  *)
(* before the element.                                                     *)
LEMMA MayMoveMeans ==
    ASSUME NEW last \in Locs, NEW loc \in Locs, NEW h \in Locs, last # loc
    PROVE  MayMove(last, loc, h) <=> Before(h, last, loc)
BY ElemsAssumption DEF MayMove, Before, Dist, Locs

LEMMA ShiftInv ==
    ASSUME BucketInv, ShiftStep
    PROVE  BucketInv'
<1> USE DEF BucketInv
<1> DEFINE k == h_table[elem_loc]
           nx == After(elem_loc)
<1>1. /\ pc = "shift" /\ pc' = "shift" /\ elem_loc \in Locs /\ last_loc \in Locs
      /\ elem_loc # last_loc /\ k \in Keys /\ home[k] \in Locs /\ h_table[last_loc] = Empty
      /\ k # Empty
  BY KeysAssumption DEF TypeInv, ShiftStep, ProbeOK
<1>2. nx \in Locs /\ elem_loc' = nx
  BY <1>1, AfterFacts DEF ShiftStep
<1>3. ~Moving /\ ~Moving'
  BY <1>1 DEF Moving
<1>4. SplitOK'
  BY <1>3 DEF SplitOK
<1>5. CASE ~MayMove(last_loc, elem_loc, home[k])
  <2>1. h_table' = h_table /\ last_loc' = last_loc
    BY <1>5 DEF ShiftStep
  <2>2. TypeInv'
    BY <1>1, <1>2, <2>1 DEF TypeInv, ShiftStep
  <2>3. \A l \in Locs : Unreached(l) /\ l # elem_loc => Unreached(l)'
    BY <1>1, <1>2, <2>1, ElemsAssumption DEF Unreached, Before, Dist, After, Locs
  <2>4. Chains'
    <3> SUFFICES ASSUME NEW l \in Locs, h_table[l] # Empty, NEW x \in Locs, Before(home[h_table[l]], x, l),
                        h_table[x] = Empty
                 PROVE  x = last_loc /\ Unreached(l)'
      BY <1>1, <2>1 DEF Chains, Before, Dist, ShiftStep
    <3>1. x = last_loc /\ Unreached(l)
      BY <1>1 DEF Chains
    <3>2. l # elem_loc
      BY <1>5, <3>1, <1>1, MayMoveMeans
    <3> QED
      BY <3>1, <3>2, <2>3
  <2>5. Once' /\ Holds' /\ CountIsUsed'
    BY <2>1, <1>3 DEF Once, Holds, Pending, CountIsUsed, Used, ShiftStep
  <2>6. \A x \in Locs : x # elem_loc /\ ~Unreached(x)' => ~Unreached(x)
    BY <2>3
  <2>7. ProbeOK'
    BY <1>1, <2>1, <2>6 DEF ProbeOK
  <2> QED
    BY <1>4, <2>2, <2>4, <2>5, <2>7
<1>6. CASE MayMove(last_loc, elem_loc, home[k])
  <2>1. last_loc' = elem_loc
    BY <1>6 DEF ShiftStep
  <2>2. \A l \in Locs : h_table'[l] = IF l = elem_loc THEN Empty ELSE IF l = last_loc THEN k ELSE h_table[l]
    BY <1>1, <1>6 DEF TypeInv, ShiftStep
  <2>3. TypeInv'
    BY <1>1, <1>2, <1>6 DEF TypeInv, ShiftStep
  <2>4. \A l \in Locs : l # elem_loc => Unreached(l)'
    BY <1>1, <1>2, <2>1, ElemsAssumption DEF Unreached, Before, Dist, After, Locs
  <2>5. Before(home[k], last_loc, elem_loc)
    BY <1>1, <1>6, MayMoveMeans
  <2>6. Chains'
    <3> SUFFICES ASSUME NEW l \in Locs, h_table'[l] # Empty, NEW x \in Locs, Before(home[h_table'[l]], x, l),
                        h_table'[x] = Empty, x # elem_loc
                 PROVE  FALSE
      BY <1>1, <2>1, <2>2, <2>4 DEF Chains, Before, Dist, ShiftStep
    <3>1. l # elem_loc /\ x # last_loc /\ h_table[x] = Empty
      BY <1>1, <2>2
    <3>2. CASE l = last_loc
      <4>1. h_table'[l] = k /\ home' = home
        BY <3>2, <2>2, <3>1, <1>1 DEF ShiftStep
      <4>2. Before(home[k], x, last_loc)
        BY <4>1, <3>2 DEF Before, Dist
      <4>3. Before(home[k], x, elem_loc)
        BY <4>2, <2>5, <1>1, ElemsAssumption DEF Before, Dist, Locs
      <4> QED
        BY <4>3, <3>1, <1>1 DEF Chains
    <3>3. CASE l # last_loc
      BY <3>1, <3>3, <2>2, <1>1 DEF Chains
    <3> QED
      BY <3>2, <3>3
  <2>7. Once'
    BY <2>2, <1>1 DEF Once
  <2>8. Holds'
    <3>1. \A q \in Keys : (\E l \in Locs : h_table'[l] = q) <=> (\E l \in Locs : h_table[l] = q)
      BY <2>2, <1>1, KeysAssumption DEF TypeInv
    <3> QED
      BY <1>3, <3>1 DEF Holds, Pending, ShiftStep
  <2>9. CountIsUsed'
    <3>1. elem_loc \in Used /\ last_loc \notin Used /\ Used' = (Used \cup {last_loc}) \ {elem_loc}
      BY <1>1, <2>2 DEF Used
    <3>2. Cardinality(Used \cup {last_loc}) = Cardinality(Used) + 1 /\ IsFiniteSet(Used \cup {last_loc})
      BY <3>1, UsedFinite, FS_AddElement
    <3>3. Cardinality((Used \cup {last_loc}) \ {elem_loc}) = Cardinality(Used \cup {last_loc}) - 1
      BY <3>1, <3>2, FS_RemoveElement
    <3>4. Cardinality(Used) \in Nat /\ count' = count
      BY UsedFinite, FS_CardinalityType DEF ShiftStep
    <3> QED
      BY <3>1, <3>2, <3>3, <3>4 DEF CountIsUsed
  <2>10. ProbeOK'
    BY <1>1, <2>1, <2>2, <2>4 DEF ProbeOK
  <2> QED
    BY <1>4, <2>3, <2>6, <2>7, <2>8, <2>9, <2>10
<1> QED
  BY <1>5, <1>6

(* A bucket whose count is bucket_elems has no hole: this is why           *)
(* _gdbm_split_bucket need not test the elements it moves.                 *)
LEMMA FullHasNoHole ==
    ASSUME BucketInv, count = bucket_elems
    PROVE  \A l \in Locs : h_table[l] # Empty
<1>1. IsFiniteSet(Locs) /\ Cardinality(Locs) = bucket_elems
  <2>1. Cardinality(Locs) = bucket_elems - 1 - 0 + 1 /\ IsFiniteSet(Locs)
    BY ElemsAssumption, FS_Interval DEF Locs
  <2> QED
    BY <2>1, ElemsAssumption
<1>2. Used = Locs
  BY <1>1, UsedFinite, FS_Subset DEF BucketInv, CountIsUsed
<1> QED
  BY <1>2 DEF Used

LEMMA SplitInv ==
    ASSUME BucketInv, NEW s \in SUBSET Keys, Split(s)
    PROVE  BucketInv'
<1> USE DEF BucketInv
<1>1. TypeInv'
  BY ElemsAssumption DEF TypeInv, Split, EmptyTable
<1>2. \A l \in Locs : h_table'[l] = Empty
  BY DEF Split, EmptyTable
<1>3. \A l \in Locs : h_table[l] # Empty /\ h_table[l] \in Keys
  BY FullHasNoHole DEF Split, TypeInv
<1>4. CountIsUsed'
  <2>1. Used' = {}
    BY <1>2 DEF Used
  <2> QED
    BY <2>1, FS_EmptySet DEF CountIsUsed, Split
<1>5. Holds'
  <2>1. Pending' = {h_table[i] : i \in {j \in Locs : h_table[j] \in s}}
    BY ElemsAssumption DEF Pending, Moving, Split, Locs
  <2>2. ~Moving /\ Pending = {}
    BY DEF Moving, Pending, Split
  <2> QED
    BY <1>2, <2>1, <2>2, KeysAssumption DEF Holds, Split
<1>6. SplitOK'
  BY <1>2, <1>3 DEF SplitOK, Moving, Split, Once, ProbeOK
<1>7. Chains' /\ Once' /\ ProbeOK'
  BY <1>2 DEF Chains, Once, ProbeOK, Split
<1> QED
  BY <1>1, <1>4, <1>5, <1>6, <1>7

LEMMA MoveInv ==
    ASSUME BucketInv, MoveNext \/ MoveDone
    PROVE  BucketInv'
<1> USE DEF BucketInv
<1>1. CASE MoveNext
  <2>6. idx \in Nat /\ idx < bucket_elems /\ idx \in Locs
    BY <1>1, ElemsAssumption DEF TypeInv, MoveNext, Locs
  <2>7. src \in [Locs -> Keys \cup {Empty}] /\ src[idx] # Empty
    BY <1>1, <2>6 DEF TypeInv, MoveNext, SplitOK, Moving
  <2>1. TypeInv' /\ idx \in Locs
    BY <1>1, <2>6, <2>7, ElemsAssumption DEF TypeInv, MoveNext, Locs
  <2>2. Pending' = Pending
    <3>1. CASE src[idx] \in stay
      BY <1>1, <3>1 DEF Pending, Moving, MoveNext
    <3>2. CASE src[idx] \notin stay
      <4>1. {j \in idx .. bucket_elems - 1 : src[j] \in stay} = {j \in idx + 1 .. bucket_elems - 1 : src[j] \in stay}
        BY <3>2, <2>1, ElemsAssumption DEF Locs
      <4> QED
        BY <1>1, <3>2, <4>1 DEF Pending, Moving, MoveNext
    <3> QED
      BY <3>1, <3>2
  <2>3. Chains' /\ Once' /\ Holds' /\ CountIsUsed'
    BY <1>1, <2>2 DEF Chains, Once, Holds, CountIsUsed, Used, Before, Dist, MoveNext
  <2>4. SplitOK'
    BY <1>1, <2>1 DEF SplitOK, Moving, MoveNext, Locs
  <2>5. ProbeOK'
    BY <1>1, <2>1, KeysAssumption, ElemsAssumption DEF ProbeOK, MoveNext, Before, Dist, TypeInv, Locs
  <2> QED
    BY <2>1, <2>3, <2>4, <2>5
<1>2. CASE MoveDone
  <2>1. TypeInv'
    BY <1>2, ElemsAssumption DEF TypeInv, MoveDone, EmptyTable
  <2>2. Pending = {} /\ Pending' = {} /\ ~Moving' /\ Moving
    BY <1>2, ElemsAssumption DEF Pending, Moving, MoveDone
  <2>3. Chains' /\ Once' /\ Holds' /\ CountIsUsed'
    BY <1>2, <2>2 DEF Chains, Once, Holds, CountIsUsed, Used, Before, Dist, MoveDone
  <2>4. SplitOK' /\ ProbeOK'
    BY <1>2, <2>2 DEF SplitOK, ProbeOK, MoveDone
  <2> QED
    BY <2>1, <2>3, <2>4
<1> QED
  BY <1>1, <1>2

(* What Place and MovePlace have in common: an element goes into the hole  *)
(* at which a search for it ends.                                          *)
LEMMA FillInv ==
    ASSUME BucketInv, NEW k \in Keys, h_table[elem_loc] = Empty, pc \in {"insert", "probe"},
           h_table' = [h_table EXCEPT ![elem_loc] = k], UNCHANGED home,
           pc' # "shift", count' = count + 1,
           \A l \in Locs : h_table[l] # k,
           \A x \in Locs : Before(home[k], x, elem_loc) => h_table[x] # Empty
    PROVE  /\ Chains' /\ Once' /\ CountIsUsed'
           /\ \A q \in Keys : (\E l \in Locs : h_table'[l] = q) <=> (q = k \/ \E l \in Locs : h_table[l] = q)
<1> USE DEF BucketInv
<1>1. elem_loc \in Locs /\ k # Empty
  BY KeysAssumption DEF TypeInv
<1>2. \A l \in Locs : h_table'[l] = IF l = elem_loc THEN k ELSE h_table[l]
  BY DEF TypeInv
<1>3. Chains'
  BY <1>1, <1>2 DEF Chains, Before, Dist
<1>4. Once'
  BY <1>2 DEF Once
<1>5. CountIsUsed'
  <2>1. Used' = Used \cup {elem_loc} /\ elem_loc \notin Used
    BY <1>1, <1>2 DEF Used
  <2> QED
    BY <2>1, UsedFinite, FS_AddElement DEF CountIsUsed
<1>6. \A q \in Keys : (\E l \in Locs : h_table'[l] = q) <=> (q = k \/ \E l \in Locs : h_table[l] = q)
  BY <1>1, <1>2, KeysAssumption
<1> QED
  BY <1>3, <1>4, <1>5, <1>6

LEMMA PlaceInv ==
    ASSUME BucketInv, Place
    PROVE  BucketInv'
<1> USE DEF BucketInv
<1>1. key \in Keys /\ key \notin stored /\ ~Moving /\ ~Moving'
  BY DEF TypeInv, Place, ProbeOK, Moving, Leave
<1>2. \A l \in Locs : h_table[l] # key
  BY <1>1 DEF Holds
<1>3. Chains' /\ Once' /\ CountIsUsed'
      /\ \A q \in Keys : (\E l \in Locs : h_table'[l] = q) <=> (q = key \/ \E l \in Locs : h_table[l] = q)
  BY <1>1, <1>2, FillInv DEF Place, Leave, ProbeOK
<1>4. TypeInv'
  BY <1>1, ElemsAssumption DEF TypeInv, Place, Leave, Locs
<1>5. Holds' /\ SplitOK' /\ ProbeOK'
  BY <1>1, <1>3 DEF Holds, Pending, SplitOK, ProbeOK, Place, Leave
<1> QED
  BY <1>3, <1>4, <1>5

LEMMA MovePlaceInv ==
    ASSUME BucketInv, MovePlace
    PROVE  BucketInv'
<1> USE DEF BucketInv
<1> DEFINE k == src[idx]
<1>1. /\ idx \in Locs /\ k \in Keys /\ k \in stay /\ Moving /\ Moving'
      /\ \A l \in Locs : h_table[l] # k
  BY ElemsAssumption, KeysAssumption DEF TypeInv, MovePlace, SplitOK, Moving, Locs
<1>2. Chains' /\ Once' /\ CountIsUsed'
      /\ \A q \in Keys : (\E l \in Locs : h_table'[l] = q) <=> (q = k \/ \E l \in Locs : h_table[l] = q)
  BY <1>1, FillInv DEF MovePlace, ProbeOK
<1>3. TypeInv'
  BY <1>1, ElemsAssumption DEF TypeInv, MovePlace, Locs
<1>4. Pending = Pending' \cup {k}
  <2>1. {j \in idx .. bucket_elems - 1 : src[j] \in stay}
          = {j \in idx + 1 .. bucket_elems - 1 : src[j] \in stay} \cup {idx}
    BY <1>1, ElemsAssumption DEF Locs
  <2> QED
    BY <1>1, <2>1 DEF Pending, Moving, MovePlace
<1>5. Holds'
  BY <1>2, <1>4 DEF Holds, MovePlace
<1>6. SplitOK'
  <2>1. \A l \in Locs : h_table'[l] = IF l = elem_loc THEN k ELSE h_table[l]
    BY DEF TypeInv, MovePlace
  <2> QED
    BY <1>1, <2>1 DEF SplitOK, MovePlace, TypeInv, Locs, Moving
<1>7. ProbeOK'
  BY DEF ProbeOK, MovePlace
<1> QED
  BY <1>2, <1>3, <1>5, <1>6, <1>7

LEMMA StutterInv ==
    ASSUME BucketInv, UNCHANGED vars
    PROVE  BucketInv'
BY DEF BucketInv, vars, TypeInv, Chains, Unreached, Before, Dist, Once, Holds, Pending, Moving,
       SplitOK, ProbeOK, CountIsUsed, Used

(* Every step of findkey, the deletion's shift, the insertion and the      *)
(* split's redistribution keeps the inductive invariant: between a         *)
(* location and the home of its element there is no hole but the one a     *)
(* deletion is filling.                                                    *)
THEOREM BucketStaysSound == Spec => []BucketInv
<1>1. BucketInv /\ [Next]_vars => BucketInv'
  BY BeginInv, FindInv, ReturnInv, RemoveInv, ShiftInv, InsertInv, SplitInv, MoveInv,
     PlaceInv, MovePlaceInv, StutterInv DEF Next, Step
<1> QED
  BY InitBucket, <1>1, PTL DEF Spec

(* A search in a bucket is right (_gdbm_findkey), for every table size,    *)
(* set of keys and hash function.                                          *)
THEOREM SearchesAreRight == Spec => []FindIsRight
<1>1. BucketInv => FindIsRight
  <2>1. ASSUME BucketInv, pc = "found"
        PROVE  key \in stored
    <3>1. elem_loc \in Locs /\ key \in Keys
      BY <2>1 DEF BucketInv, TypeInv
    <3> QED
      BY <2>1, <3>1 DEF BucketInv, ProbeOK, Holds
  <2> QED
    BY <2>1 DEF FindIsRight, BucketInv, ProbeOK
<1> QED
  BY BucketStaysSound, <1>1, PTL

(* The count that decides splits is the number of elements.                *)
THEOREM CountStaysRight == Spec => []CountIsUsed
<1>1. BucketInv => CountIsUsed
  BY DEF BucketInv
<1> QED
  BY BucketStaysSound, <1>1, PTL

=============================================================================
