------------------------- MODULE MemAlloctorProofs -------------------------
(***************************************************************************)
(* The pool of MemAlloctor, for every number and size of pages: its free   *)
(* list is sound and holds every free slot, no object is given a slot that *)
(* another one has, and a walk misses no object.                           *)
(*                                                                         *)
(* That the list reaches every free slot is stated without recursion: any  *)
(* set of free slots closed under the links, with the head of the list in  *)
(* it, is all of them (Chain).  A pool that was linked slot by slot has    *)
(* this property by induction on the slots, which IntervalInduction gets   *)
(* from the theorem that an injection of a finite set into itself is onto. *)
(***************************************************************************)
EXTENDS MemAlloctor, SessionManager, FiniteSetTheorems, TLAPS

(* The constants of the pool are numbers, and so is a slot's page.         *)
LEMMA Sizes ==
    /\ TopMem \in Nat \ {0}
    /\ Locs \subseteq Nat
    /\ \A l : l \in Locs <=> l \in Nat /\ l < TopMem
<1>1. PageNumber \in Nat /\ PageSize \in Nat /\ PageNumber > 0 /\ PageSize > 0
  BY PoolAssumption
<1>2. PageNumber * PageSize \in Nat /\ PageNumber * PageSize > 0
  BY <1>1
<1> QED
  BY <1>2 DEF TopMem, Locs

(* A slot lies on one of the table's pages.                                *)
LEMMA PageInTable == \A l \in Locs : Page(l) \in 0 .. PageNumber - 1
<1> SUFFICES ASSUME NEW l \in Locs
             PROVE  Page(l) \in 0 .. PageNumber - 1
  OBVIOUS
<1>1. l \in Nat /\ l < PageNumber * PageSize
  BY Sizes DEF TopMem
<1>2. PageNumber \in Nat /\ PageSize \in Nat /\ PageSize > 0
  BY PoolAssumption
<1> DEFINE q == l \div PageSize
           r == l % PageSize
<1>3. q \in Int /\ r \in 0 .. PageSize - 1 /\ l = PageSize * q + r
  BY <1>1, <1>2
<1> HIDE DEF q, r
<1>4. q >= 0
  <2>1. SUFFICES ASSUME q <= -1 PROVE FALSE
    BY <1>3
  <2>2. PageSize * q <= PageSize * (-1)
    BY <2>1, <1>2, <1>3
  <2> QED
    BY <2>2, <1>1, <1>2, <1>3
<1>5. q < PageNumber
  <2>1. SUFFICES ASSUME q >= PageNumber PROVE FALSE
    BY <1>2, <1>3
  <2>2. PageSize * q >= PageSize * PageNumber
    BY <2>1, <1>2, <1>3
  <2>3. PageSize * PageNumber = PageNumber * PageSize
    BY <1>2
  <2> QED
    BY <2>2, <2>3, <1>1, <1>2, <1>3
<1> QED
  BY <1>2, <1>3, <1>4, <1>5 DEF Page, q

(* A set of slots that holds the first one and with each the following one *)
(* holds them all.  Otherwise let m be missing: taking one off maps the    *)
(* missing slots up to m into themselves and reaches every one but m, which*)
(* an injection of a finite set into itself cannot do.                     *)
LEMMA IntervalInduction ==
    ASSUME NEW n \in Nat, NEW S \in SUBSET (0 .. n - 1),
           n > 0 => 0 \in S,
           \A l \in S : l + 1 \in S \/ l + 1 = n
    PROVE  S = 0 .. n - 1
<1> SUFFICES ASSUME NEW m \in 0 .. n - 1, m \notin S
             PROVE  FALSE
  OBVIOUS
<1> DEFINE D == {l \in 0 .. n - 1 : l <= m /\ l \notin S}
           f == [l \in D |-> l - 1]
<1>1. D \in SUBSET (0 .. n - 1) /\ IsFiniteSet(0 .. n - 1)
  BY FS_Interval
<1>2. IsFiniteSet(D)
  BY <1>1, FS_Subset
<1>3. \A l \in D : l - 1 \in D
  <2> SUFFICES ASSUME NEW l \in D
               PROVE  l - 1 \in D
    OBVIOUS
  <2>1. l \in 0 .. n - 1 /\ l <= m /\ l \notin S /\ l # 0
    OBVIOUS
  <2>2. l - 1 \in 0 .. n - 1 /\ l - 1 <= m
    BY <2>1
  <2>3. l - 1 \notin S
    <3> SUFFICES ASSUME l - 1 \in S
                 PROVE  FALSE
      OBVIOUS
    <3>1. (l - 1) + 1 \in S \/ (l - 1) + 1 = n
      OBVIOUS
    <3> QED
      BY <3>1, <2>1
  <2> QED
    BY <2>2, <2>3
<1>4. f \in Injection(D, D)
  <2>1. f \in [D -> D]
    BY <1>3
  <2>2. \A k, l \in D : f[k] = f[l] => k = l
    OBVIOUS
  <2> QED
    BY <2>1, <2>2 DEF Injection, IsInjective
<1>5. f \in Surjection(D, D)
  BY <1>2, <1>4, FS_Injection
<1>6. m \in D
  OBVIOUS
<1>7. PICK l \in D : f[l] = m
  BY <1>5, <1>6 DEF Surjection
<1> QED
  BY <1>7

(* A bounded set of numbers that is not empty has a least one.             *)
LEMMA LeastOf ==
    ASSUME NEW n \in Nat, NEW T \in SUBSET (0 .. n - 1), T # {}
    PROVE  \E x \in T : \A y \in T : x <= y
<1> SUFFICES ASSUME \A x \in T : \E y \in T : y < x
             PROVE  FALSE
  OBVIOUS
<1> DEFINE S == {l \in 0 .. n - 1 : \A y \in T : l < y}
<1>1. n > 0 => 0 \in S
  <2>1. 0 \notin T
    OBVIOUS
  <2> QED
    BY <2>1
<1>2. \A l \in S : l + 1 \in S \/ l + 1 = n
  <2> SUFFICES ASSUME NEW l \in S, l + 1 # n
               PROVE  l + 1 \in S
    OBVIOUS
  <2>1. l + 1 \in 0 .. n - 1
    OBVIOUS
  <2>2. ASSUME NEW y \in T PROVE l + 1 < y
    <3>1. PICK z \in T : z < y
      OBVIOUS
    <3>2. l < z
      OBVIOUS
    <3> QED
      BY <3>1, <3>2
  <2> QED
    BY <2>1, <2>2
<1>3. S = 0 .. n - 1
  <2>1. S \in SUBSET (0 .. n - 1)
    OBVIOUS
  <2> HIDE DEF S
  <2> QED
    BY <2>1, <1>1, <1>2, IntervalInduction
<1>4. PICK y \in T : TRUE
  OBVIOUS
<1>5. y \in S
  BY <1>3
<1> QED
  BY <1>5

(* The iterator's next handle: the first at which it stops.                *)
LEMMA FollowingStops ==
    ASSUME NEW h \in -1 .. TopMem - 1
    PROVE  /\ Following(h) \in h + 1 .. TopMem
           /\ Following(h) = TopMem \/ Stops(Following(h))
           /\ \A l \in h + 1 .. Following(h) - 1 : ~Stops(l)
<1> DEFINE T == {x \in 0 .. TopMem : x > h /\ (x = TopMem \/ Stops(x))}
           P(x) == /\ x = TopMem \/ Stops(x)
                   /\ \A l \in h + 1 .. x - 1 : ~Stops(l)
<1>0. TopMem \in Nat
  BY Sizes
<1>1. T \in SUBSET (0 .. (TopMem + 1) - 1) /\ TopMem \in T
  BY <1>0
<1>2. PICK x \in T : \A y \in T : x <= y
  <2>1. TopMem + 1 \in Nat /\ T # {}
    BY <1>0, <1>1
  <2> HIDE DEF T
  <2> QED
    BY <2>1, <1>1, LeastOf
<1>3. x \in h + 1 .. TopMem
  BY <1>0
<1>4. P(x)
  BY <1>0, <1>2
<1>5. Following(h) = CHOOSE y \in h + 1 .. TopMem : P(y)
  BY DEF Following
<1> HIDE DEF P
<1>6. Following(h) \in h + 1 .. TopMem /\ P(Following(h))
  BY <1>3, <1>4, <1>5
<1> QED
  BY <1>6 DEF P

-----------------------------------------------------------------------------
(* The inductive invariant.                                                *)
PoolInv == TypeOK /\ ListOK /\ Chain /\ WalkOK

(* When every slot leads to the next, the list from slot 0 holds them all. *)
LEMMA LinkedIsChained ==
    ASSUME NEW S \in SUBSET Locs, 0 \in S \union {TopMem},
           \A l \in S : l + 1 \in S \union {TopMem}
    PROVE  S = Locs
<1>1. TopMem \in Nat \ {0} /\ Locs = 0 .. TopMem - 1
  BY Sizes DEF Locs
<1> QED
  BY <1>1, IntervalInduction

LEMMA InitInv == Init => PoolInv
<1> SUFFICES ASSUME Init
             PROVE  PoolInv
  OBVIOUS
<1> USE DEF Init
<1>1. TopMem \in Nat \ {0} /\ \A l : l \in Locs <=> l \in Nat /\ l < TopMem
  BY Sizes
<1>2. Unused = Locs /\ \A l : Link(l) = l + 1
  BY DEF Unused, Link
<1>3. TypeOK
  BY <1>1 DEF TypeOK, Data
<1>4. ListOK
  BY <1>1, <1>2 DEF ListOK
<1>5. Chain
  BY <1>2, LinkedIsChained DEF Chain
<1>6. WalkOK
  BY DEF WalkOK
<1> QED
  BY <1>3, <1>4, <1>5, <1>6 DEF PoolInv

(* alloc takes the head of the list, and leaves every other link.          *)
LEMMA AllocInv ==
    ASSUME PoolInv, alloc
    PROVE  PoolInv'
<1> DEFINE u == FreeLoc
<1>1. TopMem \in Nat \ {0} /\ \A l : l \in Locs <=> l \in Nat /\ l < TopMem
  BY Sizes
<1>2. TypeOK /\ ListOK /\ Chain /\ WalkOK
  BY DEF PoolInv
<1>3. u \in Locs /\ u \in Unused
  BY <1>1, <1>2 DEF alloc, TypeOK, ListOK
<1>4. FreeLoc' = Link(u)
  BY <1>1, <1>3 DEF alloc, Link, Linked
<1>5. \A l \in Locs : loc'[l] = IF l = u THEN Data
                                ELSE IF Page(l) = Page(u) /\ Page(u) \notin p_table THEN l + 1
                                ELSE loc[l]
  BY <1>2, <1>3 DEF alloc, Linked, TypeOK
<1>6. \A l \in Locs : l # u => Link(l)' = Link(l)
  BY <1>5 DEF Link, alloc
<1>7. flag' = flag \union {u} /\ Unused' = Unused \ {u}
  BY DEF alloc, Unused
<1>8. Link(u) \in Unused \union {TopMem} /\ Link(u) # u
  BY <1>2, <1>3 DEF ListOK
<1>9. LastHandle' = Larger(LastHandle, Link(u))
  BY <1>1, <1>3 DEF alloc, Link, Linked
<1>10. LastHandle' \in 0 .. TopMem /\ LastHandle' >= LastHandle /\ LastHandle' >= Link(u)
  BY <1>1, <1>2, <1>8, <1>9 DEF Larger, TypeOK, Unused
<1>11. u < LastHandle'
  <2>1. CASE u < LastHandle
    BY <2>1, <1>1, <1>2, <1>3, <1>10 DEF TypeOK
  <2>2. CASE u >= LastHandle
    <3>1. Link(u) = u + 1
      BY <2>2, <1>2, <1>3 DEF ListOK
    <3> QED
      BY <3>1, <1>1, <1>3, <1>10
  <2> QED
    BY <2>1, <2>2, <1>1, <1>2, <1>3 DEF TypeOK
<1>12. TypeOK'
  <2>1. p_table' \subseteq 0 .. PageNumber - 1
    BY <1>2, <1>3, PageInTable DEF alloc, TypeOK
  <2>2. loc' \in [Locs -> -1 .. TopMem]
    <3>1. loc' \in [Locs -> -1 .. TopMem] <=> \A l \in Locs : loc'[l] \in -1 .. TopMem
      BY <1>2 DEF alloc, Linked, TypeOK
    <3>2. \A l \in Locs : loc'[l] \in -1 .. TopMem
      BY <1>1, <1>2, <1>5 DEF TypeOK, Data
    <3> QED
      BY <3>1, <3>2
  <2>3. flag' \subseteq Locs
    BY <1>2, <1>3, <1>7 DEF TypeOK
  <2>4. FreeLoc' \in 0 .. TopMem
    BY <1>1, <1>4, <1>8 DEF Unused
  <2>5. held' \in [Locs -> {0, 1}]
    BY <1>2, <1>3 DEF alloc, TypeOK, ListOK, Unused
  <2>6. handle' \in -1 .. TopMem /\ seen' \subseteq Locs /\ kept' \subseteq Locs /\ spoilt' \subseteq flag'
    BY <1>2, <1>7 DEF alloc, walkVars, TypeOK
  <2> QED
    BY <1>10, <2>1, <2>2, <2>3, <2>4, <2>5, <2>6 DEF TypeOK
<1>13. ListOK'
  <2>1. FreeLoc' \in Unused' \union {TopMem}
    BY <1>4, <1>7, <1>8
  <2>2. \A l \in Unused' : Link(l)' \in Unused' \union {TopMem} /\ Link(l)' # FreeLoc'
    <3> SUFFICES ASSUME NEW l \in Unused'
                 PROVE  Link(l)' \in Unused' \union {TopMem} /\ Link(l)' # FreeLoc'
      OBVIOUS
    <3>1. l \in Unused /\ l # u /\ l \in Locs
      BY <1>7 DEF Unused
    <3>2. Link(l)' = Link(l)
      BY <1>6, <3>1
    <3>3. Link(l) \in Unused \union {TopMem} /\ Link(l) # u /\ Link(l) # Link(u)
      BY <1>2, <1>3, <3>1 DEF ListOK
    <3> QED
      BY <1>4, <1>7, <3>2, <3>3
  <2>3. \A k, l \in Unused' : Link(k)' = Link(l)' => k = l
    BY <1>2, <1>6, <1>7 DEF ListOK, Unused
  <2>4. FreeLoc' <= LastHandle'
    BY <1>4, <1>10
  <2>5. \A l \in Locs : l >= LastHandle' => l \in Unused' /\ Link(l)' = l + 1
    <3> SUFFICES ASSUME NEW l \in Locs, l >= LastHandle'
                 PROVE  l \in Unused' /\ Link(l)' = l + 1
      OBVIOUS
    <3>1. l >= LastHandle /\ l # u
      BY <1>1, <1>2, <1>3, <1>10, <1>11 DEF TypeOK
    <3> QED
      BY <1>2, <1>6, <1>7, <3>1 DEF ListOK
  <2>6. \A l \in flag' : Page(l) \in p_table'
    BY <1>2, <1>7 DEF alloc, ListOK
  <2>7. \A l \in Locs : held'[l] = IF l \in flag' THEN 1 ELSE 0
    BY <1>2, <1>3, <1>7 DEF alloc, ListOK, TypeOK, Unused
  <2> QED
    BY <2>1, <2>2, <2>3, <2>4, <2>5, <2>6, <2>7 DEF ListOK
<1>14. Chain'
  <2> SUFFICES ASSUME NEW S \in SUBSET Unused',
                      FreeLoc' \in S \union {TopMem},
                      \A l \in S : Link(l)' \in S \union {TopMem}
               PROVE  S = Unused'
    BY DEF Chain
  <2> DEFINE W == S \union {u}
  <2>1. W \in SUBSET Unused /\ u \in W \union {TopMem}
    BY <1>3, <1>7
  <2>2. \A l \in W : Link(l) \in W \union {TopMem}
    <3>1. \A l \in S : Link(l) = Link(l)'
      BY <1>6, <1>7 DEF Unused
    <3> QED
      BY <3>1, <1>4
  <2>3. W = Unused
    BY <1>2, <2>1, <2>2 DEF Chain
  <2> QED
    BY <1>7, <2>3
<1>15. WalkOK'
  BY <1>2, <1>7, <1>10 DEF alloc, walkVars, WalkOK, TypeOK
<1> QED
  BY <1>12, <1>13, <1>14, <1>15 DEF PoolInv

(* free puts the slot in front of the list, and leaves every other link.   *)
LEMMA FreeInv ==
    ASSUME PoolInv, NEW h \in Locs, free(h)
    PROVE  PoolInv'
<1>1. TopMem \in Nat \ {0} /\ \A l : l \in Locs <=> l \in Nat /\ l < TopMem
  BY Sizes
<1>2. TypeOK /\ ListOK /\ Chain /\ WalkOK
  BY DEF PoolInv
<1>3. h \in flag /\ h < LastHandle /\ h # TopMem /\ h \notin Unused
  BY <1>1, <1>2 DEF free, ListOK, TypeOK, Unused
<1>4. \A l \in Locs : loc'[l] = IF l = h THEN FreeLoc ELSE loc[l]
  BY <1>2 DEF free, TypeOK
<1>5. Link(h)' = FreeLoc /\ \A l \in Locs : l # h => Link(l)' = Link(l)
  BY <1>4 DEF Link, free
<1>6. flag' = flag \ {h} /\ Unused' = Unused \union {h} /\ FreeLoc' = h /\ LastHandle' = LastHandle
  BY DEF free, Unused
<1>7. FreeLoc \in Unused \union {TopMem}
  BY <1>2 DEF ListOK
<1>8. TypeOK'
  <2>1. loc' \in [Locs -> -1 .. TopMem]
    BY <1>1, <1>2 DEF free, TypeOK
  <2>2. held' \in [Locs -> {0, 1}]
    BY <1>2, <1>3 DEF free, TypeOK, ListOK
  <2>3. FreeLoc' \in 0 .. TopMem
    BY <1>1, <1>6
  <2>4. spoilt' \subseteq flag' /\ kept' \subseteq Locs /\ flag' \subseteq Locs
    BY <1>2 DEF free, TypeOK
  <2> QED
    BY <1>2, <2>1, <2>2, <2>3, <2>4 DEF free, TypeOK
<1>9. ListOK'
  <2>1. FreeLoc' \in Unused' \union {TopMem}
    BY <1>6
  <2>2. \A l \in Unused' : Link(l)' \in Unused' \union {TopMem} /\ Link(l)' # FreeLoc'
    <3> SUFFICES ASSUME NEW l \in Unused'
                 PROVE  Link(l)' \in Unused' \union {TopMem} /\ Link(l)' # FreeLoc'
      OBVIOUS
    <3>1. CASE l = h
      BY <3>1, <1>3, <1>5, <1>6, <1>7
    <3>2. CASE l # h
      <4>1. l \in Unused /\ l \in Locs
        BY <3>2, <1>6 DEF Unused
      <4>2. Link(l) \in Unused \union {TopMem}
        BY <4>1, <1>2 DEF ListOK
      <4> QED
        BY <3>2, <4>1, <4>2, <1>3, <1>5, <1>6
    <3> QED
      BY <3>1, <3>2
  <2>3. \A k, l \in Unused' : Link(k)' = Link(l)' => k = l
    <3> SUFFICES ASSUME NEW k \in Unused', NEW l \in Unused', Link(k)' = Link(l)'
                 PROVE  k = l
      OBVIOUS
    <3>1. CASE k # h /\ l # h
      BY <3>1, <1>2, <1>5, <1>6 DEF ListOK, Unused
    <3>2. CASE k = h /\ l # h
      BY <3>2, <1>2, <1>5, <1>6 DEF ListOK, Unused
    <3>3. CASE k # h /\ l = h
      BY <3>3, <1>2, <1>5, <1>6 DEF ListOK, Unused
    <3> QED
      BY <3>1, <3>2, <3>3
  <2>4. FreeLoc' <= LastHandle'
    BY <1>1, <1>2, <1>3, <1>6 DEF TypeOK
  <2>5. \A l \in Locs : l >= LastHandle' => l \in Unused' /\ Link(l)' = l + 1
    <3> SUFFICES ASSUME NEW l \in Locs, l >= LastHandle
                 PROVE  l \in Unused' /\ Link(l)' = l + 1
      BY <1>6
    <3>1. l # h
      BY <1>1, <1>2, <1>3 DEF TypeOK
    <3> QED
      BY <3>1, <1>2, <1>5, <1>6 DEF ListOK
  <2>6. \A l \in flag' : Page(l) \in p_table'
    BY <1>2 DEF free, ListOK
  <2>7. \A l \in Locs : held'[l] = IF l \in flag' THEN 1 ELSE 0
    BY <1>2, <1>3 DEF free, ListOK, TypeOK
  <2> QED
    BY <2>1, <2>2, <2>3, <2>4, <2>5, <2>6, <2>7 DEF ListOK
<1>10. Chain'
  <2> SUFFICES ASSUME NEW S \in SUBSET Unused',
                      FreeLoc' \in S \union {TopMem},
                      \A l \in S : Link(l)' \in S \union {TopMem}
               PROVE  S = Unused'
    BY DEF Chain
  <2> DEFINE W == S \ {h}
  <2>1. h \in S /\ FreeLoc \in S \union {TopMem}
    BY <1>3, <1>5, <1>6
  <2>2. W \in SUBSET Unused /\ FreeLoc \in W \union {TopMem}
    BY <1>3, <1>6, <1>7, <2>1
  <2>3. \A l \in W : Link(l) \in W \union {TopMem}
    <3> SUFFICES ASSUME NEW l \in W
                 PROVE  Link(l) \in W \union {TopMem}
      OBVIOUS
    <3>1. l \in Unused /\ l \in Locs /\ l # h
      BY <2>2 DEF Unused
    <3>2. Link(l) = Link(l)' /\ Link(l) # h
      BY <3>1, <1>2, <1>3, <1>5 DEF ListOK
    <3> QED
      BY <3>2
  <2>4. W = Unused
    BY <1>2, <2>2, <2>3 DEF Chain
  <2> QED
    BY <1>6, <2>1, <2>4
<1>11. WalkOK'
  BY <1>2 DEF free, WalkOK
<1> QED
  BY <1>8, <1>9, <1>10, <1>11 DEF PoolInv

(* clear leaves the pool as it was at first, but for the pages it keeps.   *)
LEMMA ClearInv ==
    ASSUME PoolInv, clear
    PROVE  PoolInv'
<1>1. TopMem \in Nat \ {0} /\ \A l : l \in Locs <=> l \in Nat /\ l < TopMem
  BY Sizes
<1>2. TypeOK /\ ListOK
  BY DEF PoolInv
<1>3. flag' = {} /\ FreeLoc' = 0 /\ LastHandle' = 0 /\ p_table' = p_table
  BY <1>2 DEF clear, ListOK, TypeOK, Unused
<1>4. Unused' = Locs
  BY <1>3 DEF Unused
<1>5. \A l \in Locs : Link(l)' = l + 1
  <2> SUFFICES ASSUME NEW l \in Locs
               PROVE  Link(l)' = l + 1
    OBVIOUS
  <2>1. loc'[l] = IF l < LastHandle THEN l + 1 ELSE loc[l]
    BY DEF clear, Relinked
  <2>2. l >= LastHandle => Link(l) = l + 1
    BY <1>2 DEF ListOK
  <2>3. l < LastHandle \/ l >= LastHandle
    BY <1>1, <1>2 DEF TypeOK
  <2> QED
    BY <1>3, <2>1, <2>2, <2>3 DEF Link
<1>6. TypeOK'
  <2>1. loc' \in [Locs -> -1 .. TopMem]
    BY <1>1, <1>2 DEF clear, Relinked, TypeOK
  <2>2. held' \in [Locs -> {0, 1}]
    BY DEF clear
  <2> QED
    BY <1>1, <1>2, <1>3, <2>1, <2>2 DEF clear, TypeOK
<1>7. ListOK'
  <2>1. \A l \in Locs : Link(l)' \in Locs \union {TopMem} /\ Link(l)' # 0
    BY <1>1, <1>5
  <2>2. \A k, l \in Locs : Link(k)' = Link(l)' => k = l
    BY <1>1, <1>5
  <2>3. \A l \in Locs : held'[l] = 0
    BY DEF clear
  <2> QED
    BY <1>1, <1>3, <1>4, <1>5, <2>1, <2>2, <2>3 DEF ListOK
<1>8. Chain'
  BY <1>3, <1>4, <1>5, LinkedIsChained DEF Chain
<1>9. WalkOK'
  BY <1>3 DEF clear, WalkOK
<1> QED
  BY <1>6, <1>7, <1>8, <1>9 DEF PoolInv

(* The steps that leave the list alone.                                    *)
LEMMA ListUntouched ==
    ASSUME PoolInv, UNCHANGED <<p_table, loc, flag, FreeLoc, LastHandle, held>>
    PROVE  ListOK' /\ Chain'
<1>1. ListOK /\ Chain
  BY DEF PoolInv
<1>2. Unused' = Unused /\ \A l : Link(l)' = Link(l)
  BY DEF Unused, Link
<1>3. ListOK'
  BY <1>1, <1>2 DEF ListOK
<1>4. Chain'
  BY <1>1, <1>2 DEF Chain
<1> QED
  BY <1>3, <1>4

LEMMA DestroyInv ==
    ASSUME PoolInv, destroy
    PROVE  PoolInv'
<1>1. CASE clear
  BY <1>1, ClearInv
<1>2. CASE spoilt' = flag
           /\ UNCHANGED <<p_table, loc, flag, FreeLoc, LastHandle, walkVars, held>>
  <2>1. TypeOK'
    BY <1>2 DEF PoolInv, TypeOK, walkVars
  <2>2. WalkOK'
    BY <1>2 DEF PoolInv, WalkOK, walkVars
  <2> QED
    BY <1>2, <2>1, <2>2, ListUntouched DEF PoolInv
<1> QED
  BY <1>1, <1>2 DEF destroy

(* A walk begins at slot 0, and has seen what is there.                    *)
LEMMA BeginInv ==
    ASSUME PoolInv, begin
    PROVE  PoolInv'
<1>1. TopMem \in Nat \ {0} /\ \A l : l \in Locs <=> l \in Nat /\ l < TopMem
  BY Sizes
<1>2. TypeOK /\ ListOK
  BY DEF PoolInv
<1>3. TypeOK'
  BY <1>1, <1>2 DEF begin, TypeOK
<1>4. WalkOK'
  <2>1. \A l \in flag : l \in Nat /\ l < LastHandle
    BY <1>1, <1>2 DEF TypeOK, ListOK, Unused
  <2>2. LastHandle' = LastHandle /\ LastHandle \in Nat /\ handle' = 0 /\ kept' = flag /\ flag' = flag
    BY <1>1, <1>2 DEF begin, TypeOK
  <2>3. \A l \in flag : l <= 0 => l \in seen'
    BY <2>1, <2>2 DEF begin
  <2> QED
    BY <2>2, <2>3 DEF WalkOK
<1> QED
  BY <1>3, <1>4, ListUntouched DEF begin, PoolInv

(* A step of the walk passes over free slots only.                         *)
LEMMA AdvanceInv ==
    ASSUME PoolInv, advance
    PROVE  PoolInv'
<1>1. TopMem \in Nat \ {0} /\ \A l : l \in Locs <=> l \in Nat /\ l < TopMem
  BY Sizes
<1>2. TypeOK /\ ListOK /\ WalkOK
  BY DEF PoolInv
<1>3. handle \in 0 .. LastHandle - 1 /\ LastHandle \in 0 .. TopMem
  BY <1>1, <1>2 DEF advance, TypeOK, WalkOK
<1> DEFINE n == Following(handle)
<1>4. /\ n \in handle + 1 .. TopMem
      /\ n = TopMem \/ Stops(n)
      /\ \A l \in handle + 1 .. n - 1 : ~Stops(l)
  BY <1>1, <1>3, FollowingStops
<1>5. handle' = n
  BY DEF advance
<1> HIDE DEF n
<1>6. n <= LastHandle
  <2> SUFFICES ASSUME n > LastHandle
               PROVE  FALSE
    BY <1>1, <1>3, <1>4
  <2>1. LastHandle \in handle + 1 .. n - 1
    BY <1>1, <1>3, <1>4
  <2> QED
    BY <2>1, <1>3, <1>4 DEF Stops
<1>7. TypeOK'
  BY <1>1, <1>2, <1>3, <1>4, <1>5, <1>6 DEF advance, TypeOK
<1>8. WalkOK'
  <2> SUFFICES ASSUME NEW l \in kept, l <= n
               PROVE  l \in seen'
    BY <1>2, <1>5, <1>6 DEF advance, WalkOK
  <2>1. l \in flag /\ l \in Nat /\ l < LastHandle
    BY <1>1, <1>2 DEF WalkOK, TypeOK, ListOK, Unused
  <2>2. CASE l <= handle
    BY <2>2, <1>2, <1>5 DEF advance, WalkOK
  <2>3. CASE l = n
    BY <2>1, <2>3, <1>3, <1>5 DEF advance
  <2>4. CASE l > handle /\ l < n
    <3>1. l \in handle + 1 .. n - 1
      BY <2>1, <2>4, <1>1, <1>3, <1>4
    <3> QED
      BY <2>1, <3>1, <1>4 DEF Stops
  <2> QED
    BY <2>1, <2>2, <2>3, <2>4, <1>1, <1>3, <1>4
<1> QED
  BY <1>7, <1>8, ListUntouched DEF advance, PoolInv

LEMMA EndWalkInv ==
    ASSUME PoolInv, endWalk
    PROVE  PoolInv'
<1>1. TopMem \in Nat
  BY Sizes
<1>2. TypeOK'
  BY <1>1 DEF PoolInv, endWalk, TypeOK
<1>3. WalkOK'
  BY DEF PoolInv, TypeOK, endWalk, WalkOK
<1> QED
  BY <1>2, <1>3, ListUntouched DEF endWalk, PoolInv

LEMMA StepInv == PoolInv /\ [Next]_vars => PoolInv'
<1> SUFFICES ASSUME PoolInv, [Next]_vars
             PROVE  PoolInv'
  OBVIOUS
<1>1. CASE alloc
  BY <1>1, AllocInv
<1>2. ASSUME NEW h \in Locs, free(h) PROVE PoolInv'
  BY <1>2, FreeInv
<1>3. CASE clear
  BY <1>3, ClearInv
<1>4. CASE destroy
  BY <1>4, DestroyInv
<1>5. CASE begin
  BY <1>5, BeginInv
<1>6. CASE advance
  BY <1>6, AdvanceInv
<1>7. CASE endWalk
  BY <1>7, EndWalkInv
<1>8. CASE UNCHANGED vars
  <2>1. TypeOK' /\ WalkOK'
    BY <1>8 DEF vars, walkVars, PoolInv, TypeOK, WalkOK
  <2> QED
    BY <1>8, <2>1, ListUntouched DEF vars, PoolInv
<1> QED
  BY <1>1, <1>2, <1>3, <1>4, <1>5, <1>6, <1>7, <1>8 DEF Next

LEMMA Invariance == Spec => []PoolInv
<1> QED
  BY InitInv, StepInv, PTL DEF Spec

-----------------------------------------------------------------------------
(* Every variable of the pool keeps its type.                              *)
THEOREM TypeCorrect == Spec => []TypeOK
<1>1. PoolInv => TypeOK
  BY DEF PoolInv
<1> QED
  BY <1>1, Invariance, PTL

(* The free list never runs through a used slot and never meets itself.    *)
THEOREM ListStaysSound == Spec => []ListOK
<1>1. PoolInv => ListOK
  BY DEF PoolInv
<1> QED
  BY <1>1, Invariance, PTL

(* No slot is ever lost: alloc throws only when every slot is used.        *)
THEOREM NoSlotIsLost == Spec => []ExhaustedWhenFull
<1>1. PoolInv => ExhaustedWhenFull
  <2> SUFFICES ASSUME PoolInv, FreeLoc = TopMem
               PROVE  flag = Locs
    BY DEF ExhaustedWhenFull
  <2>1. {} \in SUBSET Unused /\ FreeLoc \in {} \union {TopMem}
    OBVIOUS
  <2>2. {} = Unused
    BY <2>1 DEF PoolInv, Chain
  <2> QED
    BY <2>2 DEF PoolInv, TypeOK, Unused
<1> QED
  BY <1>1, Invariance, PTL

(* A walk that has come to the end has come to every object that was there *)
(* all the time.                                                           *)
THEOREM WalksMissNothing == Spec => []WalkReachesAll
<1>1. PoolInv => WalkReachesAll
  <2> SUFFICES ASSUME PoolInv, handle = LastHandle, NEW l \in kept
               PROVE  l \in seen
    BY DEF WalkReachesAll
  <2>1. \A k : k \in Locs <=> k \in Nat /\ k < TopMem
    BY Sizes
  <2>2. l \in flag /\ l \in Locs /\ LastHandle \in Nat
    BY DEF PoolInv, WalkOK, TypeOK
  <2>3. l < LastHandle
    BY <2>1, <2>2 DEF PoolInv, ListOK, Unused
  <2> QED
    BY <2>1, <2>2, <2>3 DEF PoolInv, WalkOK
<1> QED
  BY <1>1, Invariance, PTL

(* The pool implements its abstraction: an object is given a handle that   *)
(* stands for no other, and is freed once.                                 *)
THEOREM PoolIsImplemented == Spec => PoolSpec
<1>1. Init => Pool!Init
  BY DEF Init, Pool!Init
<1>2. ASSUME PoolInv, [Next]_vars
      PROVE  [Pool!Next]_held
  <2>1. TypeOK /\ ListOK
    BY <1>2 DEF PoolInv
  <2>2. CASE alloc
    <3>1. FreeLoc \in Locs /\ held[FreeLoc] = 0
      <4>1. TopMem \in Nat /\ \A l : l \in Locs <=> l \in Nat /\ l < TopMem
        BY Sizes
      <4> QED
        BY <2>1, <2>2, <4>1 DEF alloc, TypeOK, ListOK, Unused
    <3>2. held' = [held EXCEPT ![FreeLoc] = 1]
      BY <2>2, <3>1 DEF alloc
    <3> QED
      BY <3>1, <3>2 DEF Pool!Next, Pool!Make
  <2>3. ASSUME NEW h \in Locs, free(h) PROVE [Pool!Next]_held
    <3>1. held[h] = 1 /\ held' = [held EXCEPT ![h] = @ - 1]
      BY <2>1, <2>3 DEF free, ListOK
    <3>2. held' = [held EXCEPT ![h] = 0]
      BY <3>1
    <3> QED
      BY <3>1, <3>2 DEF Pool!Next, Pool!Drop
  <2>4. CASE clear
    BY <2>4 DEF clear, Pool!Next, Pool!DropAll
  <2>5. CASE destroy
    BY <2>4, <2>5 DEF destroy
  <2>6. CASE begin \/ advance \/ endWalk \/ UNCHANGED vars
    BY <2>6 DEF begin, advance, endWalk, vars
  <2> QED
    BY <1>2, <2>2, <2>3, <2>4, <2>5, <2>6 DEF Next
<1> QED
  BY <1>1, <1>2, Invariance, PTL DEF Spec, PoolSpec, Pool!Spec

-----------------------------------------------------------------------------
(***************************************************************************)
(* The sessions of session_manager, for any set of keys and any lifetime:  *)
(* each has exactly one table, none in use is swept, none that expired is  *)
(* revived, and none that expired survives the making of a new one.        *)
(***************************************************************************)

SessionInv == SessionTypeOK /\ TablesMatch /\ AgeOK /\ PromiseKept /\ JsonServesValid


LEMMA SessionInitInv == SessionInit => SessionInv
<1> SUFFICES ASSUME SessionInit
             PROVE  SessionInv
  OBVIOUS
<1> USE SessionAssumption DEF SessionInit
<1>1. SessionTypeOK
  BY DEF SessionTypeOK, Answers
<1>2. TablesMatch /\ AgeOK /\ JsonServesValid
  BY DEF TablesMatch, AgeOK, JsonServesValid, Nothing
<1>3. PromiseKept
  BY DEF PromiseKept
<1> QED
  BY <1>1, <1>2, <1>3 DEF SessionInv

(* Time makes every age greater, up to the cap, and what is above the      *)
(* lifetime stays above it.                                                *)
LEMMA OlderGrows ==
    \A a, b \in 0 .. MaxAge :
        /\ Older(a) \in 0 .. MaxAge
        /\ a <= b => Older(a) <= Older(b)
        /\ a <= Older(a)
BY SessionAssumption DEF Older

LEMMA TickInv ==
    ASSUME SessionInv, Tick
    PROVE  SessionInv'
<1>1. SessionTypeOK /\ TablesMatch /\ AgeOK /\ PromiseKept
  BY DEF SessionInv
<1>2. SessionTypeOK'
  BY <1>1, OlderGrows DEF Tick, SessionTypeOK, Answers
<1>3. TablesMatch' /\ JsonServesValid'
  BY <1>1 DEF Tick, TablesMatch, JsonServesValid, Nothing
<1>4. AgeOK'
  <2> SUFFICES ASSUME NEW k \in session_database
               PROVE  age'[k] <= quiet'[k]
    BY DEF Tick, AgeOK
  <2>1. k \in Keys /\ age[k] <= quiet[k] /\ age[k] \in 0 .. MaxAge /\ quiet[k] \in 0 .. MaxAge
    BY <1>1 DEF AgeOK, SessionTypeOK
  <2>2. age'[k] = Older(age[k]) /\ quiet'[k] = Older(quiet[k])
    BY <2>1 DEF Tick
  <2> QED
    BY <2>1, <2>2, OlderGrows
<1>5. PromiseKept'
  <2> SUFFICES ASSUME NEW k \in Keys, k \notin dropped,
                      ~(quiet'[k] > value_of_MAX_SESSION_ALIVE)
               PROVE  k \in tables
    BY DEF Tick, PromiseKept
  <2>1. quiet[k] \in 0 .. MaxAge /\ quiet'[k] = Older(quiet[k])
    BY <1>1 DEF Tick, SessionTypeOK
  <2>2. ~(quiet[k] > value_of_MAX_SESSION_ALIVE)
    BY <2>1, OlderGrows, SessionAssumption
  <2> QED
    BY <1>1, <2>2 DEF PromiseKept
<1> QED
  BY <1>2, <1>3, <1>4, <1>5 DEF SessionInv

(* The sweep takes only sessions whose promise has run out.                *)
LEMMA SweptAreOld ==
    ASSUME SessionInv, NEW new \in Keys, NEW k \in Swept(new)
    PROVE  k # new /\ k \in session_database /\ quiet[k] > value_of_MAX_SESSION_ALIVE
<1>1. k \in session_database /\ k # new /\ age[k] > value_of_MAX_SESSION_ALIVE
  BY DEF Swept, Expired
<1>2. age[k] \in 0 .. MaxAge /\ quiet[k] \in 0 .. MaxAge /\ age[k] <= quiet[k]
  BY <1>1 DEF SessionInv, SessionTypeOK, AgeOK
<1> QED
  BY <1>1, <1>2, SessionAssumption

LEMMA CreateInv ==
    ASSUME SessionInv, NEW new \in Keys, create_session(new), answer' \in Answers,
           answer'.kind = "json" => answer'.valid
    PROVE  SessionInv'
<1>1. SessionTypeOK /\ TablesMatch /\ AgeOK /\ PromiseKept
  BY DEF SessionInv
<1>2. age' = [age EXCEPT ![new] = 0] /\ quiet' = [quiet EXCEPT ![new] = 0]
  BY DEF create_session, Stamped
<1>3. new \notin Swept(new)
  BY DEF Swept
<1>4. SessionTypeOK'
  <2>1. age' \in [Keys -> 0 .. MaxAge] /\ quiet' \in [Keys -> 0 .. MaxAge]
    BY <1>1, <1>2, SessionAssumption DEF SessionTypeOK
  <2> QED
    BY <1>1, <2>1 DEF create_session, SessionTypeOK
<1>5. TablesMatch'
  BY <1>1 DEF create_session, TablesMatch
<1>6. AgeOK'
  <2> SUFFICES ASSUME NEW k \in session_database'
               PROVE  age'[k] <= quiet'[k]
    BY DEF AgeOK
  <2>1. CASE k = new
    BY <1>1, <1>2, <2>1 DEF SessionTypeOK
  <2>2. CASE k # new
    <3>1. k \in session_database /\ k \in Keys
      BY <1>1, <2>2 DEF create_session, SessionTypeOK
    <3> QED
      BY <1>1, <1>2, <2>2, <3>1 DEF AgeOK, SessionTypeOK
  <2> QED
    BY <2>1, <2>2
<1>7. PromiseKept'
  <2> SUFFICES ASSUME NEW k \in Keys, k \notin dropped',
                      ~(quiet'[k] > value_of_MAX_SESSION_ALIVE)
               PROVE  k \in tables'
    BY DEF PromiseKept
  <2>1. CASE k = new
    BY <1>3, <2>1 DEF create_session
  <2>2. CASE k # new
    <3>1. k \notin dropped /\ quiet'[k] = quiet[k]
      BY <1>1, <1>2, <2>2 DEF create_session, SessionTypeOK
    <3>2. k \in tables
      BY <1>1, <3>1 DEF PromiseKept
    <3>3. k \notin Swept(new)
      BY <3>1, SweptAreOld
    <3> QED
      BY <3>2, <3>3 DEF create_session
  <2> QED
    BY <2>1, <2>2
<1> QED
  BY <1>4, <1>5, <1>6, <1>7 DEF SessionInv, JsonServesValid

LEMMA PageInv ==
    ASSUME SessionInv, NEW k \in Keys, SessionPage(k)
    PROVE  SessionInv'
<1>1. answer' \in Answers /\ (answer'.kind = "json" => answer'.valid)
  <2>1. CASE k \in tables
    BY <2>1 DEF SessionPage, Answers, Expired
  <2>2. CASE k \notin tables
    BY <2>2 DEF SessionPage, Answers, Nothing
  <2> QED
    BY <2>1, <2>2
<1> QED
  BY <1>1 DEF SessionInv, SessionPage, SessionTypeOK, TablesMatch, AgeOK, PromiseKept, JsonServesValid

(* A JSON request either finds the session's table and renews it, or       *)
(* leaves the session removed.                                             *)
LEMMA JsonInv ==
    ASSUME SessionInv, NEW k \in Keys, json_callback(k)
    PROVE  SessionInv'
<1>1. SessionTypeOK /\ TablesMatch /\ AgeOK /\ PromiseKept
  BY DEF SessionInv
<1>2. CASE k \in session_database /\ Expired(k)
  <2>1. /\ session_database' = session_database \ {k} /\ tables' = tables \ {k}
        /\ age' = [age EXCEPT ![k] = 0]
        /\ answer' = Nothing /\ quiet' = quiet /\ dropped' = dropped
    BY <1>2 DEF json_callback, get_session, Stamped
  <2>2. quiet[k] > value_of_MAX_SESSION_ALIVE
    BY <1>1, <1>2, SessionAssumption DEF Expired, AgeOK, SessionTypeOK
  <2>3. SessionTypeOK'
    BY <1>1, <2>1, SessionAssumption DEF SessionTypeOK, Answers
  <2>4. TablesMatch' /\ JsonServesValid'
    BY <1>1, <2>1 DEF TablesMatch, JsonServesValid, Nothing
  <2>5. AgeOK'
    BY <1>1, <2>1 DEF AgeOK, SessionTypeOK
  <2>6. PromiseKept'
    BY <1>1, <2>1, <2>2 DEF PromiseKept
  <2> QED
    BY <2>3, <2>4, <2>5, <2>6 DEF SessionInv
<1>3. CASE k \in session_database /\ ~Expired(k)
  <2>1. k \in tables
    BY <1>1, <1>3 DEF TablesMatch
  <2>2. /\ session_database' = session_database /\ tables' = tables
        /\ age' = [age EXCEPT ![k] = 0] /\ quiet' = [quiet EXCEPT ![k] = 0]
        /\ dropped' = dropped
    BY <1>3, <2>1 DEF json_callback, get_session, Stamped
  <2>3. answer' = [kind |-> "json", valid |-> ~Expired(k)]
    BY <1>3, <2>1, <2>2 DEF json_callback
  <2>4. answer' \in Answers /\ JsonServesValid'
    BY <1>3, <2>3 DEF Answers, Expired, JsonServesValid
  <2>5. SessionTypeOK'
    BY <1>1, <2>2, <2>4, SessionAssumption DEF SessionTypeOK
  <2>6. AgeOK'
    BY <1>1, <2>2 DEF AgeOK, SessionTypeOK
  <2>7. PromiseKept'
    BY <1>1, <2>1, <2>2 DEF PromiseKept, SessionTypeOK
  <2> QED
    BY <1>1, <2>2, <2>4, <2>5, <2>6, <2>7 DEF SessionInv, TablesMatch
<1>4. CASE k \notin session_database
  <2>1. k \notin tables
    BY <1>1, <1>4 DEF TablesMatch
  <2>2. UNCHANGED <<session_database, tables, age, quiet, dropped>> /\ answer' = Nothing
    BY <1>4, <2>1 DEF json_callback, get_session
  <2> QED
    BY <1>1, <2>2 DEF SessionInv, SessionTypeOK, TablesMatch, AgeOK, PromiseKept, JsonServesValid,
                      Answers, Nothing
<1> QED
  BY <1>2, <1>3, <1>4

LEMMA DeleteInv ==
    ASSUME SessionInv, NEW k \in Keys, delete_session(k)
    PROVE  SessionInv'
<1>1. SessionTypeOK'
  BY DEF SessionInv, delete_session, SessionTypeOK, Answers
<1>2. TablesMatch' /\ AgeOK' /\ JsonServesValid'
  BY DEF SessionInv, delete_session, TablesMatch, AgeOK, JsonServesValid, Nothing
<1>3. PromiseKept'
  BY DEF SessionInv, delete_session, PromiseKept
<1> QED
  BY <1>1, <1>2, <1>3 DEF SessionInv

LEMMA SessionStepInv == SessionInv /\ [SessionNext]_sessionVars => SessionInv'
<1> SUFFICES ASSUME SessionInv, [SessionNext]_sessionVars
             PROVE  SessionInv'
  OBVIOUS
<1>1. CASE Tick
  BY <1>1, TickInv
<1>2. ASSUME NEW k \in Keys, SessionPage(k) PROVE SessionInv'
  BY <1>2, PageInv
<1>3. ASSUME NEW k \in Keys, FirstPage(k) PROVE SessionInv'
  BY <1>3, CreateInv DEF FirstPage, Answers
<1>4. ASSUME NEW k \in Keys, Sq2CreateSession(k) PROVE SessionInv'
  BY <1>4, CreateInv DEF Sq2CreateSession, Answers, Nothing
<1>5. ASSUME NEW k \in Keys, json_callback(k) PROVE SessionInv'
  BY <1>5, JsonInv
<1>6. ASSUME NEW k \in Keys, delete_session(k) PROVE SessionInv'
  BY <1>6, DeleteInv
<1>7. CASE UNCHANGED sessionVars
  BY <1>7 DEF sessionVars, SessionInv, SessionTypeOK, TablesMatch, AgeOK, PromiseKept, JsonServesValid
<1> QED
  BY <1>1, <1>2, <1>3, <1>4, <1>5, <1>6, <1>7 DEF SessionNext

LEMMA SessionInvariance == SessionSpec => []SessionInv
<1> QED
  BY SessionInitInv, SessionStepInv, PTL DEF SessionSpec

-----------------------------------------------------------------------------
(* Every variable keeps its type.                                          *)
THEOREM SessionTypes == SessionSpec => []SessionTypeOK
<1>1. SessionInv => SessionTypeOK
  BY DEF SessionInv
<1> QED
  BY <1>1, SessionInvariance, PTL

(* The registry holds a table for each stored session and for no other.    *)
THEOREM TablesStayMatched == SessionSpec => []TablesMatch
<1>1. SessionInv => TablesMatch
  BY DEF SessionInv
<1> QED
  BY <1>1, SessionInvariance, PTL

(* No session that a JSON request used within its lifetime is lost.        *)
THEOREM SessionsInUseStay == SessionSpec => []PromiseKept
<1>1. SessionInv => PromiseKept
  BY DEF SessionInv
<1> QED
  BY <1>1, SessionInvariance, PTL

(* JSON functions never get the table of an expired session.               *)
THEOREM JsonChecksValidity == SessionSpec => []JsonServesValid
<1>1. SessionInv => JsonServesValid
  BY DEF SessionInv
<1> QED
  BY <1>1, SessionInvariance, PTL

(* Making a session leaves no expired one behind.                          *)
THEOREM SweepsAreComplete == SessionSpec => SweepComplete
<1> DEFINE A == \A new \in session_database' \ session_database :
                   \A k \in session_database' : age'[k] <= value_of_MAX_SESSION_ALIVE
<1>1. ASSUME SessionInv, [SessionNext]_sessionVars
      PROVE  [A]_sessionVars
  <2>1. ASSUME NEW new \in Keys, create_session(new) PROVE A
    <3> SUFFICES ASSUME NEW k \in session_database'
                 PROVE  age'[k] <= value_of_MAX_SESSION_ALIVE
      OBVIOUS
    <3>1. SessionTypeOK /\ age' = [age EXCEPT ![new] = 0]
      BY <1>1, <2>1 DEF SessionInv, create_session, Stamped
    <3>2. CASE k = new
      BY <3>1, <3>2, SessionAssumption DEF SessionTypeOK
    <3>3. CASE k # new
      <4>1. k \in session_database /\ k \in Keys /\ ~Expired(k)
        BY <2>1, <3>1, <3>3 DEF create_session, Swept, SessionTypeOK
      <4> QED
        BY <3>1, <3>3, <4>1, SessionAssumption DEF Expired, SessionTypeOK
    <3> QED
      BY <3>2, <3>3
  <2>2. ASSUME NEW k \in Keys, json_callback(k) PROVE A
    BY <2>2 DEF json_callback, get_session
  <2>3. ASSUME NEW k \in Keys, delete_session(k) \/ SessionPage(k) PROVE A
    BY <2>3 DEF delete_session, SessionPage
  <2>4. CASE Tick \/ UNCHANGED sessionVars
    BY <2>4 DEF Tick, sessionVars
  <2> QED
    BY <1>1, <2>1, <2>2, <2>3, <2>4 DEF SessionNext, FirstPage, Sq2CreateSession
<1> HIDE DEF A
<1>2. SessionSpec => [][A]_sessionVars
  BY <1>1, SessionInvariance, PTL DEF SessionSpec
<1> QED
  BY <1>2 DEF SweepComplete, A

(* An expired session only grows older until it is removed.                *)
THEOREM ExpiredStaysExpired == SessionSpec => NeverRevived
<1> DEFINE A == \A k \in session_database :
                   Expired(k) /\ k \in session_database' => age'[k] >= age[k]
<1>1. ASSUME SessionInv, [SessionNext]_sessionVars
      PROVE  [A]_sessionVars
  <2>0. SessionTypeOK
    BY <1>1 DEF SessionInv
  <2>1. ASSUME NEW new \in Keys, create_session(new) PROVE A
    <3> SUFFICES ASSUME NEW k \in session_database
                 PROVE  age'[k] >= age[k]
      OBVIOUS
    <3>1. k # new /\ k \in Keys /\ age' = [age EXCEPT ![new] = 0]
      BY <2>0, <2>1 DEF create_session, Stamped, SessionTypeOK
    <3> QED
      BY <2>0, <3>1 DEF SessionTypeOK
  <2>2. ASSUME NEW j \in Keys, json_callback(j) PROVE A
    <3> SUFFICES ASSUME NEW k \in session_database, Expired(k), k \in session_database'
                 PROVE  age'[k] >= age[k]
      OBVIOUS
    <3>1. k # j /\ k \in Keys
      BY <2>0, <2>2 DEF json_callback, get_session, SessionTypeOK
    <3>2. age'[k] = age[k]
      BY <2>0, <2>2, <3>1 DEF json_callback, get_session, Stamped, SessionTypeOK
    <3> QED
      BY <2>0, <3>1, <3>2 DEF SessionTypeOK
  <2>3. CASE Tick
    <3> SUFFICES ASSUME NEW k \in session_database
                 PROVE  age'[k] >= age[k]
      OBVIOUS
    <3>1. k \in Keys /\ age[k] \in 0 .. MaxAge /\ age'[k] = Older(age[k])
      BY <2>0, <2>3 DEF Tick, SessionTypeOK
    <3> QED
      BY <3>1, OlderGrows
  <2>4. ASSUME age' = age PROVE A
    BY <2>0, <2>4 DEF SessionTypeOK
  <2>5. ASSUME NEW k \in Keys, delete_session(k) \/ SessionPage(k) PROVE age' = age
    BY <2>5 DEF delete_session, SessionPage
  <2> QED
    BY <1>1, <2>1, <2>2, <2>3, <2>4, <2>5 DEF SessionNext, FirstPage, Sq2CreateSession, sessionVars
<1> HIDE DEF A
<1>2. SessionSpec => [][A]_sessionVars
  BY <1>1, SessionInvariance, PTL DEF SessionSpec
<1> QED
  BY <1>2 DEF NeverRevived, A
=============================================================================
