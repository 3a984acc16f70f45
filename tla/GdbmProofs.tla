-------------------------------- MODULE GdbmProofs --------------------------------
(***************************************************************************)
(* GdbmInv is an invariant of the GDBM store, for files and tables of any  *)
(* size: nothing in the file has two owners, and a process that dies       *)
(* between two writes leaves the layout from before the update or the one  *)
(* after it.  From it follow SpaceSound, CacheCoherent where no death has  *)
(* hurt the file, and what KVStore promises of a search and of a return.   *)
(* The parts of a call come first, in the order of win_gdbm.cpp's callees  *)
(* before its callers; then the steps, then what follows.                  *)
(***************************************************************************)
EXTENDS GdbmSteps, FiniteSetTheorems, WellFoundedInduction, TLAPS

-----------------------------------------------------------------------------
(* Least and greatest elements, from the order of Nat being well founded.  *)

Less == {p \in Nat \X Nat : p[1] < p[2]}

LEMMA Least == ASSUME NEW T, T \subseteq Nat, T # {} PROVE \E x \in T : \A y \in T : x <= y
<1>1. IsWellFoundedOn(Less, Nat)
  BY NatLessThanWellFounded DEF Less, OpToRel
<1>2. PICK x \in T : \A y \in T : ~ (<<y, x>> \in Less)
  BY <1>1, WFMin
<1>3. ASSUME NEW y \in T PROVE x <= y
  <2>1. <<y, x>> \in Nat \X Nat /\ x \in Nat /\ y \in Nat
    OBVIOUS
  <2>2. ~ (y < x)
    BY <1>2, <2>1 DEF Less
  <2> QED
    BY <2>1, <2>2
<1> QED
  BY <1>3

LEMMA Greatest ==
    ASSUME NEW n \in Nat, NEW T, T \subseteq 0 .. n, T # {}
    PROVE  \E x \in T : \A y \in T : y <= x
<1> DEFINE U == {n - x : x \in T}
<1>1. \A x \in T : x \in Nat /\ n - x \in Nat
  OBVIOUS
<1>2. U \subseteq Nat /\ U # {}
  BY <1>1
<1>3. PICK u \in U : \A y \in U : u <= y
  BY <1>2, Least
<1>4. PICK x \in T : u = n - x
  OBVIOUS
<1>5. \A y \in T : n - x <= n - y
  BY <1>3, <1>4
<1> QED
  BY <1>1, <1>5

LEMMA FirstIs == ASSUME NEW T, T \subseteq Nat, T # {} PROVE First(T) \in T /\ \A j \in T : First(T) <= j
  BY Least DEF First

-----------------------------------------------------------------------------
(* Units, objects and owners.                                              *)

LEMMA Kinds ==
    /\ HeaderAvail \notin {BucketAvail, AvailBlock, InBlock, AtEnd, Holding, TheHeader, TheDir, ABucket, ARecord, OldDir}
    /\ BucketAvail \notin {AvailBlock, InBlock, AtEnd, Holding, TheHeader, TheDir, ABucket, ARecord, OldDir}
    /\ AvailBlock \notin {InBlock, AtEnd, Holding, TheHeader, TheDir, ABucket, ARecord, OldDir}
    /\ InBlock \notin {AtEnd, Holding, TheHeader, TheDir, ABucket, ARecord, OldDir}
    /\ AtEnd \notin {Holding, TheHeader, TheDir, ABucket, ARecord, OldDir}
    /\ Holding \notin {TheHeader, TheDir, ABucket, ARecord, OldDir}
    /\ TheHeader \notin {TheDir, ABucket, ARecord, OldDir}
    /\ TheDir \notin {ABucket, ARecord, OldDir}
    /\ ABucket \notin {ARecord, OldDir}
    /\ ARecord \notin {OldDir}
  BY DEF HeaderAvail, BucketAvail, AvailBlock, InBlock, AtEnd, Holding,
         TheHeader, TheDir, ABucket, ARecord, OldDir

LEMMA TagIs == \A k, o, x : Tag(k, o, x)[1] = k /\ Tag(k, o, x)[2] = o /\ Tag(k, o, x)[3] = x
  BY DEF Tag

LEMMA GetHeld ==
    ASSUME NEW d, NEW a \in Nat, NEW n \in Nat \ {0}, NEW obj, Holds(d, a, n, obj)
    PROVE  Get(d, a, n) = obj
BY DEF Span, Holds, Get

LEMMA PutHolds ==
    ASSUME NEW d, NEW a \in Nat, NEW n \in Nat, NEW obj
    PROVE  /\ Holds(Put(d, a, n, obj), a, n, obj)
           /\ \A u : u \notin Span(a, n) => SameAt(d, Put(d, a, n, obj), u)
  BY DEF Put, Holds, SameAt, Span

LEMMA HoldsKept ==
    ASSUME NEW d, NEW e, NEW a, NEW n, NEW obj, Holds(d, a, n, obj),
           \A u \in Span(a, n) : SameAt(d, e, u)
    PROVE  Holds(e, a, n, obj)
  BY DEF Holds, SameAt

LEMMA SameTrans ==
    ASSUME NEW d, NEW e, NEW f, NEW u, SameAt(d, e, u), SameAt(e, f, u)
    PROVE  SameAt(d, f, u)
  BY DEF SameAt

-----------------------------------------------------------------------------
(* Tables.                                                                 *)

LEMMA WithoutIs ==
    ASSUME NEW av \in Seq(AvType), NEW i \in DOMAIN av
    PROVE  /\ Without(av, i) \in Seq(AvType)
           /\ Len(Without(av, i)) = Len(av) - 1
           /\ \A j \in 1 .. Len(av) - 1 : Without(av, i)[j] = IF j < i THEN av[j] ELSE av[j + 1]
<1>1. i \in 1 .. Len(av) /\ Len(av) \in Nat
  OBVIOUS
<1> DEFINE s == SubSeq(av, 1, i - 1)
           t == SubSeq(av, i + 1, Len(av))
<1>2. s \in Seq(AvType) /\ Len(s) = i - 1 /\ \A j \in 1 .. i - 1 : s[j] = av[j]
  BY <1>1
<1>3. t \in Seq(AvType) /\ Len(t) = Len(av) - i /\ \A j \in 1 .. Len(av) - i : t[j] = av[j + i]
  BY <1>1
<1> HIDE DEF s, t
<1>4. Without(av, i) = s \o t
  BY DEF Without, s, t
<1> QED
  BY <1>1, <1>2, <1>3, <1>4

LEMMA ConcatIs ==
    ASSUME NEW T, NEW s \in Seq(T), NEW t \in Seq(T)
    PROVE  /\ s \o t \in Seq(T) /\ Len(s \o t) = Len(s) + Len(t)
           /\ \A j \in 1 .. Len(s) + Len(t) :
                 (s \o t)[j] = IF j <= Len(s) THEN s[j] ELSE t[j - Len(s)]
  OBVIOUS

LEMMA PlaceOf ==
    ASSUME NEW av \in Seq(AvType), NEW x \in Nat
    PROVE  Cardinality({i \in DOMAIN av : av[i].size < x}) \in 0 .. Len(av)
<1> DEFINE T == {i \in DOMAIN av : av[i].size < x}
<1>1. T \subseteq 1 .. Len(av) /\ Len(av) \in Nat
  OBVIOUS
<1>2. IsFiniteSet(1 .. Len(av)) /\ Cardinality(1 .. Len(av)) = Len(av)
  <2>1. 1 \in Int /\ Len(av) \in Int
    BY <1>1
  <2>2. IsFiniteSet(1 .. Len(av)) /\ Cardinality(1 .. Len(av)) = IF 1 > Len(av) THEN 0 ELSE Len(av) - 1 + 1
    BY <2>1, FS_Interval
  <2> QED
    BY <1>1, <2>2
<1>3. IsFiniteSet(T) /\ Cardinality(T) <= Len(av)
  BY <1>1, <1>2, FS_Subset
<1>4. Cardinality(T) \in Nat
  BY <1>3, FS_CardinalityType
<1> QED
  BY <1>1, <1>3, <1>4

LEMMA PutAvIs ==
    ASSUME NEW av \in Seq(AvType), NEW e \in AvType
    PROVE  /\ PutAv(av, e) \in Seq(AvType)
           /\ Len(PutAv(av, e)) = Len(av) + 1
           /\ \E n \in 0 .. Len(av) : \A j \in 1 .. Len(av) + 1 :
                 PutAv(av, e)[j] = IF j <= n THEN av[j] ELSE IF j = n + 1 THEN e ELSE av[j - 1]
<1> DEFINE n == Cardinality({i \in DOMAIN av : av[i].size < e.size})
           s == SubSeq(av, 1, n)
           t == SubSeq(av, n + 1, Len(av))
<1>1. n \in 0 .. Len(av) /\ Len(av) \in Nat /\ e.size # 0
  BY PlaceOf DEF AvType
<1>0. PutAv(av, e) = s \o <<e>> \o t
  BY <1>1 DEF PutAv
<1> HIDE DEF n
<1>2. s \in Seq(AvType) /\ Len(s) = n /\ \A j \in 1 .. n : s[j] = av[j]
  BY <1>1
<1>3. t \in Seq(AvType) /\ Len(t) = Len(av) - n /\ \A j \in 1 .. Len(av) - n : t[j] = av[j + n]
  BY <1>1
<1> HIDE DEF s, t
<1>4. <<e>> \in Seq(AvType) /\ Len(<<e>>) = 1 /\ <<e>>[1] = e
  OBVIOUS
<1> DEFINE r == s \o <<e>>
<1>5. r \in Seq(AvType) /\ Len(r) = n + 1 /\ \A j \in 1 .. n + 1 : r[j] = IF j <= n THEN s[j] ELSE e
  BY <1>1, <1>2, <1>4
<1> HIDE DEF r
<1>6. PutAv(av, e) = r \o t
  BY <1>0 DEF r
<1>7. r \o t \in Seq(AvType) /\ Len(r \o t) = Len(av) + 1
      /\ \A j \in 1 .. Len(av) + 1 : (r \o t)[j] = IF j <= n + 1 THEN r[j] ELSE t[j - (n + 1)]
  <2>1. /\ r \o t \in Seq(AvType) /\ Len(r \o t) = Len(r) + Len(t)
        /\ \A j \in 1 .. Len(r) + Len(t) : (r \o t)[j] = IF j <= Len(r) THEN r[j] ELSE t[j - Len(r)]
    BY <1>3, <1>5, ConcatIs
  <2>2. Len(r) + Len(t) = Len(av) + 1
    BY <1>1, <1>3, <1>5
  <2> QED
    BY <1>5, <2>1, <2>2
<1>8. \A j \in 1 .. Len(av) + 1 :
         (r \o t)[j] = IF j <= n THEN av[j] ELSE IF j = n + 1 THEN e ELSE av[j - 1]
  BY <1>1, <1>2, <1>3, <1>5, <1>7
<1> QED
  BY <1>1, <1>6, <1>7, <1>8

LEMMA PutNothing == ASSUME NEW av, NEW e, e.size = 0 PROVE PutAv(av, e) = av
  BY DEF PutAv

LEMMA TableKept ==
    ASSUME NEW av, NEW own, NEW own2, NEW kind, NEW o, Table(av, own, kind, o),
           \A u \in Nat : own[u][1] = kind /\ own[u][2] = o => own2[u] = own[u]
    PROVE  Table(av, own2, kind, o)
<1>1. ASSUME NEW i \in DOMAIN av, NEW u \in Span(av[i].adr, av[i].size)
      PROVE  own2[u] = Tag(kind, o, av[i].adr)
  <2>1. av[i] \in AvType
    BY DEF Table
  <2>2. u \in Nat
    BY <2>1 DEF AvType, Span
  <2>3. own[u] = Tag(kind, o, av[i].adr)
    BY DEF Table, Owned
  <2> QED
    BY <2>2, <2>3, TagIs
<1> QED
  BY <1>1 DEF Table, Owned

LEMMA TakeOut ==
    ASSUME NEW av, NEW own, NEW kind, NEW o, Table(av, own, kind, o),
           NEW i \in DOMAIN av, NEW t
    PROVE  /\ Table(Without(av, i), Retag(own, av[i].adr, av[i].size, t), kind, o)
           /\ Len(Without(av, i)) = Len(av) - 1
<1> DEFINE w == Without(av, i)
           own2 == Retag(own, av[i].adr, av[i].size, t)
<1>1. av \in Seq(AvType) /\ Len(av) \in Nat /\ i \in 1 .. Len(av)
  BY DEF Table
<1>2. w \in Seq(AvType) /\ Len(w) = Len(av) - 1
      /\ \A j \in 1 .. Len(av) - 1 : w[j] = IF j < i THEN av[j] ELSE av[j + 1]
  BY <1>1, WithoutIs
<1> HIDE DEF w
<1> DEFINE at(j) == IF j < i THEN j ELSE j + 1
<1>3. \A j \in 1 .. Len(av) - 1 : at(j) \in DOMAIN av /\ at(j) # i /\ w[j] = av[at(j)]
  BY <1>1, <1>2
<1>4. \A j, l \in 1 .. Len(av) - 1 : at(j) = at(l) => j = l
  BY <1>1
<1> HIDE DEF at
<1>5. DOMAIN w = 1 .. Len(av) - 1
  BY <1>1, <1>2
<1>6. ASSUME NEW j \in DOMAIN av, j # i, NEW u \in Span(av[j].adr, av[j].size)
      PROVE  own2[u] = Tag(kind, o, av[j].adr)
  <2>0. av[j] \in AvType
    BY <1>1
  <2>1. u \in Nat
    BY <2>0 DEF AvType, Span
  <2>2. own[u] = Tag(kind, o, av[j].adr) /\ av[j].adr # av[i].adr
    BY <1>6 DEF Table, Owned
  <2>3. u \notin Span(av[i].adr, av[i].size)
    BY <2>2, TagIs DEF Table, Owned
  <2> QED
    BY <2>1, <2>2, <2>3 DEF Retag
<1> HIDE DEF own2
<1>7. \A j \in DOMAIN w : Owned(own2, w[j].adr, w[j].size, Tag(kind, o, w[j].adr))
  BY <1>3, <1>5, <1>6 DEF Owned
<1>8. \A j, l \in DOMAIN w : w[j].adr = w[l].adr => j = l
  BY <1>3, <1>4, <1>5 DEF Table
<1> QED
  BY <1>2, <1>7, <1>8 DEF Table, w, own2

LEMMA PutIn ==
    ASSUME NEW av, NEW own, NEW kind, NEW o, Table(av, own, kind, o), NEW e \in PieceType,
           \A u \in Span(e.adr, e.size) : own[u][1] # kind \/ own[u][2] # o
    PROVE  /\ Table(PutAv(av, e), Retag(own, e.adr, e.size, Tag(kind, o, e.adr)), kind, o)
           /\ Len(PutAv(av, e)) \in Nat /\ Len(PutAv(av, e)) <= Len(av) + 1
<1> DEFINE w == PutAv(av, e)
           own2 == Retag(own, e.adr, e.size, Tag(kind, o, e.adr))
<1>1. av \in Seq(AvType) /\ Len(av) \in Nat /\ DOMAIN av = 1 .. Len(av)
  BY DEF Table
<1>2. e.adr \in Nat /\ e.size \in Nat
  BY DEF PieceType
<1>3. \A u \in Nat : own[u][1] = kind /\ own[u][2] = o => own2[u] = own[u]
  BY DEF Retag
<1>4. Table(av, own2, kind, o)
  <2> HIDE DEF own2
  <2> QED BY <1>3, TableKept
<1>5. CASE e.size = 0
  BY <1>1, <1>4, <1>5, PutNothing
<1>6. CASE e.size # 0
  <2>1. e \in AvType
    BY <1>6, <1>2 DEF AvType, PieceType
  <2>2. Owned(own2, e.adr, e.size, Tag(kind, o, e.adr))
    BY <1>2 DEF Owned, Retag, Span
  <2>3. e.adr \in Span(e.adr, e.size)
    BY <1>2, <1>6 DEF Span
  <2>4. \A i \in DOMAIN av : av[i].adr # e.adr
    <3> SUFFICES ASSUME NEW i \in DOMAIN av, av[i].adr = e.adr PROVE FALSE
      OBVIOUS
    <3>1. av[i] \in AvType
      BY <1>1
    <3>2. e.adr \in Span(av[i].adr, av[i].size)
      BY <3>1, <1>2 DEF Span, AvType
    <3>3. own[e.adr] = Tag(kind, o, e.adr)
      BY <3>2 DEF Table, Owned
    <3> QED
      BY <3>3, <2>3, TagIs
  <2>5. PICK n \in 0 .. Len(av) : \A j \in 1 .. Len(av) + 1 :
           w[j] = IF j <= n THEN av[j] ELSE IF j = n + 1 THEN e ELSE av[j - 1]
    BY <1>1, <2>1, PutAvIs
  <2>6. w \in Seq(AvType) /\ Len(w) = Len(av) + 1
    BY <1>1, <2>1, PutAvIs
  <2> HIDE DEF w, own2
  <2>7. DOMAIN w = 1 .. Len(av) + 1
    BY <1>1, <2>6
  <2> DEFINE at(j) == IF j <= n THEN j ELSE j - 1
  <2>8. \A j \in DOMAIN w : \/ j = n + 1 /\ w[j] = e
                            \/ j # n + 1 /\ at(j) \in DOMAIN av /\ w[j] = av[at(j)]
    BY <1>1, <2>5, <2>7
  <2>9. \A j, l \in DOMAIN w : j # n + 1 /\ l # n + 1 /\ at(j) = at(l) => j = l
    BY <1>1, <2>7
  <2> HIDE DEF at
  <2>10. \A j \in DOMAIN w : Owned(own2, w[j].adr, w[j].size, Tag(kind, o, w[j].adr))
    BY <2>2, <2>8, <1>4 DEF Table
  <2>11. \A j, l \in DOMAIN w : w[j].adr = w[l].adr => j = l
    <3> SUFFICES ASSUME NEW j \in DOMAIN w, NEW l \in DOMAIN w, w[j].adr = w[l].adr PROVE j = l
      OBVIOUS
    <3>1. CASE j = n + 1 \/ l = n + 1
      BY <3>1, <2>4, <2>8
    <3>2. CASE j # n + 1 /\ l # n + 1
      BY <3>2, <2>8, <2>9, <1>4 DEF Table
    <3> QED
      BY <3>1, <3>2
  <2> QED
    BY <2>6, <2>10, <2>11, <1>6, <1>1 DEF Table, w, own2
<1> QED
  BY <1>5, <1>6

LEMMA OnlySpaceTrans ==
    ASSUME NEW m, NEW r, NEW q, OnlySpace(m, r), OnlySpace(r, q)
    PROVE  OnlySpace(m, q)
BY DEF OnlySpace, Rest, Bucket

LEMMA OnlySpaceSelf == ASSUME NEW m, IsMem(m) PROVE OnlySpace(m, m)
  BY DEF OnlySpace

LEMMA SetAv ==
    ASSUME NEW m, IsMem(m), NEW av
    PROVE  /\ OnlySpace(m, SetBucketAv(m, av)) /\ Bucket(SetBucketAv(m, av)).avail = av
           /\ Spaces(SetBucketAv(m, av)) = Spaces(m) /\ Flags(SetBucketAv(m, av)) = Flags(m)
           /\ SetBucketAv(m, av).header = m.header
<1> DEFINE r == SetBucketAv(m, av)
           e == m.cache[m.cur]
           b == [e.bucket EXCEPT !.avail = av]
           f == [e EXCEPT !.bucket = b]
           ca == [m.cache EXCEPT ![m.cur] = f]
<1>1. r = [m EXCEPT !.cache = ca]
  BY DEF SetBucketAv
<1>2. IsEntry(e) /\ m.cur \in Slots
  BY DEF IsMem
<1>3. IsBucket(b) /\ b.avail = av /\ b.bits = e.bucket.bits /\ b.elems = e.bucket.elems
  BY <1>2 DEF IsEntry, IsBucket
<1>4. IsEntry(f) /\ f.bucket = b /\ f.adr = e.adr /\ f.changed = e.changed /\ f.data = e.data
  <2> HIDE DEF b
  <2> QED BY <1>2, <1>3 DEF IsEntry
<1>5. /\ ca = [c \in Slots |-> ca[c]] /\ ca[m.cur] = f
      /\ \A c \in Slots : c # m.cur => ca[c] = m.cache[c]
  <2> HIDE DEF f
  <2> QED BY <1>2 DEF IsMem
<1>6. \A c \in Slots : IsEntry(ca[c])
  <2> HIDE DEF f, ca
  <2> QED BY <1>4, <1>5 DEF IsMem
<1>7. IsMem(r) /\ r.cache = ca /\ r.header = m.header /\ r.disk = m.disk /\ r.cur = m.cur
      /\ Rest(r) = Rest(m) /\ Flags(r) = Flags(m)
  <2> HIDE DEF ca, r
  <2> QED BY <1>1, <1>5, <1>6 DEF IsMem, Rest, Flags
<1> HIDE DEF r, ca, f, b
<1>8. Bucket(r).avail = av /\ Bucket(r).bits = Bucket(m).bits /\ Bucket(r).elems = Bucket(m).elems
  BY <1>7, <1>5, <1>4, <1>3 DEF Bucket, e
<1>9. \A c \in Slots : c # m.cur => r.cache[c] = m.cache[c]
  BY <1>5, <1>7
<1>10. r.cache[m.cur].adr = m.cache[m.cur].adr /\ r.cache[m.cur].changed = m.cache[m.cur].changed
       /\ r.cache[m.cur].data = m.cache[m.cur].data
  BY <1>7, <1>5, <1>4 DEF e
<1> HIDE DEF e
<1> QED BY <1>7, <1>8, <1>9, <1>10 DEF r, OnlySpace, Spaces

LEMMA SetHeader ==
    ASSUME NEW m, IsMem(m), NEW h, IsHeader(h), h.dir = m.header.dir, h.dir_bits = m.header.dir_bits,
           NEW d, NEW hc, NEW bc, NEW p, NEW r, r = With(m, h, d, hc, bc, p)
    PROVE  /\ OnlySpace(m, r) /\ Bucket(r) = Bucket(m) /\ r.header = h /\ r.disk = d
           /\ r.header_changed = hc /\ r.bucket_changed = bc /\ r.popped = p
           /\ r.cache = m.cache /\ r.cur = m.cur /\ Rest(r) = Rest(m) /\ IsMem(r)
BY DEF IsMem, Rest, With, OnlySpace, Bucket

LEMMA SetAvail ==
    ASSUME NEW h, IsHeader(h), NEW av
    PROVE  LET g == WithAvail(h, av)
           IN /\ IsHeader(g) /\ g.dir = h.dir /\ g.dir_bits = h.dir_bits
              /\ g.next_block = h.next_block /\ g.avail = av /\ g.av_next = h.av_next
  BY DEF IsHeader, WithAvail

LEMMA Consts ==
    /\ block_size \in Nat /\ block_size > 0 /\ av_block \in Nat /\ av_block > 0
    /\ BUCKET_AVAIL \in Nat /\ BUCKET_AVAIL >= 3 /\ avail_size \in Nat
    /\ BUCKET_AVAIL \div 3 \in Nat /\ avail_size \div 2 \in Nat /\ BUCKET_AVAIL \div 3 >= 1
    /\ BUCKET_AVAIL \div 3 < BUCKET_AVAIL /\ avail_size \div 2 <= avail_size
    /\ avail_size \div 2 + BUCKET_AVAIL \div 3 + 1 < avail_size
  BY GdbmAssumption

LEMMA InSeq == ASSUME NEW T, NEW s \in Seq(T), NEW i \in DOMAIN s PROVE s[i] \in T
  OBVIOUS

LEMMA SpanNat == ASSUME NEW a \in Nat, NEW n \in Nat PROVE \A u \in Span(a, n) : u \in Nat
  BY DEF Span

LEMMA OwnedTag ==
    ASSUME NEW own, NEW a, NEW n, NEW k, NEW o, NEW x, Owned(own, a, n, Tag(k, o, x))
    PROVE  \A u \in Span(a, n) : own[u] = Tag(k, o, x) /\ own[u][1] = k /\ own[u][2] = o /\ own[u][3] = x
  BY TagIs DEF Owned

LEMMA WroteTrans ==
    ASSUME NEW d, NEW e, NEW f, NEW u, Wrote(d, e, u), Wrote(e, f, u)
    PROVE  Wrote(d, f, u)
  BY DEF Wrote, SameAt

LEMMA MovesAdr == ASSUME NEW m, NEW own, NEW r, NEW own2, NEW E, Moves(m, own, r, own2, E)
                  PROVE  Adr(r) = Adr(m) /\ r.cur = m.cur /\ IsMem(r)
  BY DEF Moves, OnlySpace, Rest, Adr

LEMMA MovesTrans ==
    ASSUME NEW m, NEW o1, NEW r, NEW o2, NEW q, NEW o3, NEW E, NEW F,
           Moves(m, o1, r, o2, E), Moves(r, o2, q, o3, F),
           \A u \in F : u \in E \/ FreeUnit(o1[u], Adr(m)),
           ~r.popped => \A u \in F : u \in E \/ NearUnit(o1[u], Adr(m))
    PROVE  Moves(m, o1, q, o3, E)
BY MovesAdr, OnlySpaceTrans, WroteTrans, SameTrans DEF Moves, FlagsGrow

LEMMA SameSelf == ASSUME NEW d, NEW u PROVE SameAt(d, d, u) /\ Wrote(d, d, u)
  BY DEF SameAt, Wrote

LEMMA MovesSelf == ASSUME NEW m, NEW own, FreeOK(m, own), NEW E PROVE Moves(m, own, m, own, E)
  BY OnlySpaceSelf, SameSelf DEF Moves, FreeOK, FlagsGrow

LEMMA StackKept ==
    ASSUME NEW d, NEW e, NEW head, NEW S, NEW own, NEW own2, Stack(d, head, S, own),
           \A u \in Nat : own[u][1] \in {AvailBlock, InBlock} => own2[u] = own[u],
           \A u \in Nat : own[u][1] = AvailBlock => SameAt(d, e, u)
    PROVE  Stack(e, head, S, own2)
<1>1. ASSUME NEW i \in DOMAIN S
      PROVE  /\ Holds(e, S[i].adr, av_block,
                      <<"avail", S[i].av, IF i = 1 THEN 0 ELSE S[i - 1].adr>>)
             /\ Owned(own2, S[i].adr, av_block, Tag(AvailBlock, i, Nobody))
             /\ Table(S[i].av, own2, InBlock, i)
  <2>0. S \in Seq([adr : Nat \ {0}, av : Seq(AvType)])
    BY DEF Stack
  <2>1. S[i] \in [adr : Nat \ {0}, av : Seq(AvType)]
    BY <2>0, InSeq
  <2>2. S[i].adr \in Nat
    BY <2>1
  <2>3. \A u \in Span(S[i].adr, av_block) : u \in Nat
    BY <2>2, Consts, SpanNat
  <2>4. Owned(own, S[i].adr, av_block, Tag(AvailBlock, i, Nobody))
    BY DEF Stack
  <2>t. \A u \in Span(S[i].adr, av_block) : u \in Nat /\ own[u][1] = AvailBlock
                                             /\ own[u] = Tag(AvailBlock, i, Nobody)
    BY <2>3, <2>4, OwnedTag
  <2>5. Owned(own2, S[i].adr, av_block, Tag(AvailBlock, i, Nobody))
    BY <2>t DEF Owned
  <2>6. \A u \in Span(S[i].adr, av_block) : SameAt(d, e, u)
    BY <2>t DEF Owned
  <2>7. Holds(d, S[i].adr, av_block, <<"avail", S[i].av, IF i = 1 THEN 0 ELSE S[i - 1].adr>>)
    BY DEF Stack
  <2>8. Holds(e, S[i].adr, av_block, <<"avail", S[i].av, IF i = 1 THEN 0 ELSE S[i - 1].adr>>)
    BY <2>6, <2>7, HoldsKept
  <2>9. Table(S[i].av, own, InBlock, i)
    BY DEF Stack
  <2>10. Table(S[i].av, own2, InBlock, i)
    BY <2>9, TableKept
  <2> QED
    BY <2>5, <2>8, <2>10
<1> QED
  BY <1>1 DEF Stack

LEMMA Ceiling ==
    ASSUME NEW n \in Nat, NEW k \in Nat \ {0}, n >= k
    PROVE  (n + k - 1) \div k \in Nat /\ ((n + k - 1) \div k) * k >= n
<1> DEFINE q == (n + k - 1) \div k
           r == (n + k - 1) % k
<1>1. n + k - 1 \in Nat /\ k > 0
  OBVIOUS
<1>2. q \in Int /\ r \in 0 .. k - 1 /\ n + k - 1 = k * q + r
  BY <1>1
<1>3. q >= 0
  BY <1>1
<1> HIDE DEF q, r
<1>4. k * q >= n
  BY <1>2
<1> QED
  BY <1>2, <1>3, <1>4 DEF q

LEMMA BlocksFit ==
    ASSUME NEW n \in Nat
    PROVE  Blocks(n) * block_size \in Nat \ {0} /\ Blocks(n) * block_size >= n
<1> DEFINE x == IF n < block_size THEN block_size ELSE n
<1>1. x \in Nat /\ x >= block_size /\ x >= n /\ block_size \in Nat \ {0}
  BY Consts
<1>2. (x + block_size - 1) \div block_size \in Nat
      /\ ((x + block_size - 1) \div block_size) * block_size >= x
  <2> HIDE DEF x
  <2> QED BY <1>1, Ceiling
<1>3. Blocks(n) = (x + block_size - 1) \div block_size
  BY DEF Blocks
<1> HIDE DEF x
<1>4. Blocks(n) \in Nat /\ Blocks(n) * block_size >= x
  BY <1>2, <1>3
<1>5. Blocks(n) * block_size \in Nat
  BY <1>1, <1>4
<1> QED
  BY <1>1, <1>4, <1>5

(* Space from the end of the file.                                         *)
LEMMA GetBlockGets ==
    ASSUME NEW m, NEW own, FreeOK(m, own), NEW n \in Nat
    PROVE  \E own2 : Gets(m, own, GetBlock(m, n), own2, n)
                     /\ GetBlock(m, n).m.header_changed
                     /\ GetBlock(m, n).m.header.avail = m.header.avail
                     /\ Bucket(GetBlock(m, n).m) = Bucket(m)
<1> DEFINE size == Blocks(n) * block_size
           a == m.header.next_block
           r == GetBlock(m, n).m
           e == GetBlock(m, n).e
           h == [m.header EXCEPT !.next_block = a + size]
           own2 == Retag(own, a, size, Held(a))
<1>1. size \in Nat /\ size > 0 /\ size >= n /\ a \in Nat
  BY BlocksFit DEF FreeOK
<1>0. IsMem(m)
  BY DEF FreeOK
<1>2. e = [adr |-> a, size |-> size]
      /\ r = [m EXCEPT !.header.next_block = a + size, !.header_changed = TRUE]
  BY DEF GetBlock
<1> HIDE DEF size, r, e
<1>3. r = With(m, h, m.disk, Yes, m.bucket_changed, m.popped)
  BY <1>0, <1>2 DEF IsMem, With, Yes
<1>4. IsHeader(h) /\ h.dir = m.header.dir /\ h.dir_bits = m.header.dir_bits
      /\ h.next_block = a + size /\ h.avail = m.header.avail /\ h.av_next = m.header.av_next
  BY DEF FreeOK, IsMem, IsHeader
<1> HIDE DEF h
<1>5. /\ OnlySpace(m, r) /\ Bucket(r) = Bucket(m) /\ r.header = h /\ r.disk = m.disk
      /\ r.header_changed = Yes /\ r.bucket_changed = m.bucket_changed /\ r.popped = m.popped
      /\ r.cache = m.cache
  BY <1>0, <1>3, <1>4, SetHeader
<1>6. r.cur = m.cur /\ Adr(r) = Adr(m) /\ IsMem(r)
  BY <1>5 DEF OnlySpace, Rest, Adr
<1>7. \A u \in Nat : u \in Span(a, size) => own[u] = Tag(AtEnd, Nobody, Nobody) /\ own[u][1] = AtEnd
  BY <1>1, TagIs DEF FreeOK, Span
<1>8. \A u \in Nat : own[u][1] # AtEnd => own2[u] = own[u]
  BY <1>7 DEF Retag
<1>9. own2[0] = Tag(TheHeader, Nobody, Nobody)
  BY TagIs, Kinds, <1>8 DEF FreeOK
<1>10. \A u \in Nat : u >= a + size => own2[u] = Tag(AtEnd, Nobody, Nobody)
  BY <1>1 DEF FreeOK, Retag, Span
<1>11. Table(m.header.avail, own2, HeaderAvail, Nobody)
  <2>1. Table(m.header.avail, own, HeaderAvail, Nobody)
    BY DEF FreeOK
  <2> HIDE DEF own2
  <2> QED BY <2>1, <1>8, TableKept, Kinds
<1>12. Table(Bucket(m).avail, own2, BucketAvail, Adr(m))
  <2>1. Table(Bucket(m).avail, own, BucketAvail, Adr(m))
    BY DEF FreeOK
  <2> HIDE DEF own2
  <2> QED BY <2>1, <1>8, TableKept, Kinds
<1>13. \A u \in Nat : u \in Span(a, size) => own2[u] = Held(a)
  BY DEF Retag
<1> HIDE DEF own2
<1>14. \E S : Stack(r.disk, r.header.av_next, S, own2)
  BY <1>8, StackKept, Kinds, SameSelf, <1>4, <1>5 DEF FreeOK
<1>15. FreeOK(r, own2)
  BY <1>1, <1>4, <1>5, <1>6, <1>9, <1>10, <1>11, <1>12, <1>14 DEF FreeOK
<1>16. Owned(own2, a, size, Held(a)) /\ \A u \in Span(a, size) : u \in Nat
  BY <1>1, <1>13, SpanNat DEF Owned
<1>17. \A u \in Span(a, size) : NearUnit(own[u], Adr(m)) /\ FreeUnit(own[u], Adr(m))
  BY <1>7, <1>16 DEF NearUnit, FreeUnit
<1>18. \A u \in Nat : ~FreeUnit(own[u], Adr(m)) => own2[u] = own[u]
  BY <1>8 DEF NearUnit, FreeUnit
<1>19. \A u \in Nat : NearUnit(own2[u], Adr(m)) => NearUnit(own[u], Adr(m))
  BY <1>8 DEF NearUnit
<1>20. FlagsGrow(m, r)
  BY <1>5 DEF FlagsGrow, Yes
<1>21. Moves(m, own, r, own2, {})
  BY <1>5, <1>15, <1>18, <1>19, <1>20, SameSelf DEF Moves
<1>22. e \in AvType /\ e.adr = a /\ e.size = size
  BY <1>1, <1>2 DEF AvType
<1>23. Gets(m, own, GetBlock(m, n), own2, n)
  BY <1>1, <1>16, <1>17, <1>21, <1>22 DEF Gets, r, e
<1> QED
  BY <1>4, <1>5, <1>23 DEF r, Yes

(* An element of a table, handed out.                                      *)
LEMMA RetagElement ==
    ASSUME NEW av, NEW own, NEW kind, NEW o, Table(av, own, kind, o), NEW i \in DOMAIN av, NEW t
    PROVE  /\ av[i] \in AvType
           /\ \A u \in Span(av[i].adr, av[i].size) : u \in Nat /\ own[u][1] = kind /\ own[u][2] = o
           /\ Owned(Retag(own, av[i].adr, av[i].size, t), av[i].adr, av[i].size, t)
           /\ \A u \in Nat : own[u][1] # kind \/ own[u][2] # o =>
                 Retag(own, av[i].adr, av[i].size, t)[u] = own[u]
<1>1. av \in Seq(AvType)
  BY DEF Table
<1>2. av[i] \in AvType
  BY <1>1, InSeq
<1>3. av[i].adr \in Nat /\ av[i].size \in Nat
  BY <1>2 DEF AvType
<1>4. \A u \in Span(av[i].adr, av[i].size) : u \in Nat
  BY <1>3, SpanNat
<1>5. \A u \in Span(av[i].adr, av[i].size) : own[u][1] = kind /\ own[u][2] = o
  BY OwnedTag DEF Table
<1> QED
  BY <1>2, <1>4, <1>5 DEF Retag, Owned

LEMMA GetHeaderAvGets ==
    ASSUME NEW m, NEW own, FreeOK(m, own), NEW n \in Nat
    PROVE  \E own2 : /\ Gets(m, own, GetHeaderAv(m, n), own2, n)
                     /\ Len(GetHeaderAv(m, n).m.header.avail) <= Len(m.header.avail)
                     /\ Bucket(GetHeaderAv(m, n).m) = Bucket(m)
<1> DEFINE av == m.header.avail
           r == GetHeaderAv(m, n).m
           e == GetHeaderAv(m, n).e
<1>0. IsMem(m) /\ Table(av, own, HeaderAvail, Nobody) /\ av \in Seq(AvType) /\ Len(av) \in Nat
  BY DEF FreeOK, Table
<1>1. CASE Fits(av, n) = {}
  BY <1>1, GetBlockGets, <1>0 DEF GetHeaderAv
<1>2. CASE Fits(av, n) # {}
  <2> DEFINE i == First(Fits(av, n))
             w == Without(av, i)
             h == [m.header EXCEPT !.avail = w]
             own2 == Retag(own, e.adr, e.size, Held(e.adr))
  <2>1. i \in DOMAIN av /\ av[i].size >= n
    <3>1. Fits(av, n) \subseteq Nat
      BY <1>0 DEF Fits
    <3> QED
      BY <1>2, <3>1, FirstIs DEF Fits
  <2>2. e = av[i] /\ r = [m EXCEPT !.header.avail = w]
    BY <1>2 DEF GetHeaderAv
  <2> HIDE DEF r, e, i
  <2>3. Table(w, own2, HeaderAvail, Nobody) /\ Len(w) = Len(av) - 1
    BY <1>0, <2>1, <2>2, TakeOut
  <2> HIDE DEF w
  <2>4. r = With(m, h, m.disk, m.header_changed, m.bucket_changed, m.popped)
    BY <1>0, <2>2 DEF IsMem, With
  <2>5. IsHeader(h) /\ h.dir = m.header.dir /\ h.dir_bits = m.header.dir_bits
        /\ h.next_block = m.header.next_block /\ h.avail = w /\ h.av_next = m.header.av_next
    BY <1>0 DEF IsMem, IsHeader
  <2> HIDE DEF h
  <2>6. /\ OnlySpace(m, r) /\ Bucket(r) = Bucket(m) /\ r.header = h /\ r.disk = m.disk
        /\ r.header_changed = m.header_changed /\ r.bucket_changed = m.bucket_changed
        /\ r.popped = m.popped /\ r.cache = m.cache /\ r.cur = m.cur /\ IsMem(r)
    BY <1>0, <2>4, <2>5, SetHeader
  <2>7. Adr(r) = Adr(m)
    BY <2>6 DEF Adr
  <2>q. own2 = Retag(own, av[i].adr, av[i].size, Held(e.adr))
    BY <2>2
  <2> HIDE DEF own2
  <2>x. LET t == Held(e.adr)
       IN /\ av[i] \in AvType
          /\ \A u \in Span(av[i].adr, av[i].size) : u \in Nat /\ own[u][1] = HeaderAvail /\ own[u][2] = Nobody
          /\ Owned(Retag(own, av[i].adr, av[i].size, t), av[i].adr, av[i].size, t)
          /\ \A u \in Nat : own[u][1] # HeaderAvail \/ own[u][2] # Nobody =>
                Retag(own, av[i].adr, av[i].size, t)[u] = own[u]
    <3>1. i \in DOMAIN av /\ Table(av, own, HeaderAvail, Nobody)
      BY <1>0, <2>1
    <3> QED
      BY <3>1, RetagElement
  <2>8. /\ e \in AvType /\ Owned(own2, e.adr, e.size, Held(e.adr))
        /\ \A u \in Span(e.adr, e.size) : u \in Nat /\ own[u][1] = HeaderAvail
        /\ \A u \in Nat : own[u][1] # HeaderAvail => own2[u] = own[u]
    BY <2>x, <2>2, <2>q
  <2>e. \A u \in Span(e.adr, e.size) : own2[u][1] = Holding
    BY <2>8, TagIs DEF Owned, Held
  <2>n. \A u \in Nat : u \notin Span(e.adr, e.size) => own2[u] = own[u]
    BY DEF Retag, own2
  <2>9. own2[0] = Tag(TheHeader, Nobody, Nobody)
    BY <2>8, TagIs, Kinds DEF FreeOK
  <2>10. \A u \in Nat : u >= h.next_block => own2[u] = Tag(AtEnd, Nobody, Nobody)
    BY <2>5, <2>8, TagIs, Kinds DEF FreeOK
  <2>11. Table(Bucket(m).avail, own2, BucketAvail, Adr(m))
    BY <2>8, TableKept, Kinds DEF FreeOK
  <2>12. \E S : Stack(r.disk, r.header.av_next, S, own2)
    BY <2>8, StackKept, Kinds, SameSelf, <2>5, <2>6 DEF FreeOK
  <2>13. FreeOK(r, own2)
    <3>0. Len(av) <= avail_size
      BY DEF FreeOK
    <3>1. Len(w) <= avail_size
      BY <1>0, <2>3, <3>0, Consts
    <3>2. h.next_block \in Nat /\ Len(Bucket(m).avail) <= BUCKET_AVAIL
      BY <2>5 DEF FreeOK
    <3> QED
      BY <2>3, <2>5, <2>6, <2>7, <2>9, <2>10, <2>11, <2>12, <3>1, <3>2 DEF FreeOK
  <2>14. \A u \in Span(e.adr, e.size) : NearUnit(own[u], Adr(m)) /\ FreeUnit(own[u], Adr(m))
    BY <2>8 DEF NearUnit, FreeUnit
  <2>15. \A u \in Nat : ~FreeUnit(own[u], Adr(m)) => own2[u] = own[u]
    BY <2>8 DEF NearUnit, FreeUnit
  <2>16. \A u \in Nat : NearUnit(own2[u], Adr(m)) => NearUnit(own[u], Adr(m))
    BY <2>e, <2>n, Kinds DEF NearUnit
  <2>17. FlagsGrow(m, r)
    BY <2>6 DEF FlagsGrow
  <2>18. Moves(m, own, r, own2, {})
    BY <2>6, <2>13, <2>15, <2>16, <2>17, SameSelf DEF Moves
  <2>19. Gets(m, own, GetHeaderAv(m, n), own2, n)
    BY <2>1, <2>2, <2>8, <2>14, <2>18 DEF Gets, r, e
  <2>20. Len(r.header.avail) <= Len(m.header.avail)
    BY <1>0, <2>3, <2>5, <2>6
  <2> QED
    BY <2>6, <2>19, <2>20 DEF r
<1> QED
  BY <1>1, <1>2

(* An element of the current bucket's own table.                           *)
LEMMA BucketElemGets ==
    ASSUME NEW m, NEW own, FreeOK(m, own), NEW n \in Nat, Fits(Bucket(m).avail, n) # {}
    PROVE  /\ Elem(m, n).m.header = m.header /\ Elem(m, n).m.disk = m.disk
           /\ Flags(Elem(m, n).m) = Flags(m)
           /\ \E own2 : Gets(m, own, Elem(m, n), own2, n)
<1> DEFINE av == Bucket(m).avail
           r == Elem(m, n).m
           e == Elem(m, n).e
           i == FirstFit(m, n)
           w == Without(av, i)
           own2 == Retag(own, e.adr, e.size, Held(e.adr))
<1>0. IsMem(m) /\ Table(av, own, BucketAvail, Adr(m)) /\ av \in Seq(AvType) /\ Len(av) \in Nat
  BY DEF FreeOK, Table
<1>1. i \in DOMAIN av /\ av[i].size >= n
  <2>1. Fits(av, n) \subseteq Nat
    BY <1>0 DEF Fits
  <2> QED
    BY <2>1, FirstIs DEF Fits, FirstFit
<1>2. e = av[i] /\ r = SetBucketAv(m, w)
  BY DEF Elem
<1> HIDE DEF r, e, i
<1>3. Table(w, own2, BucketAvail, Adr(m)) /\ Len(w) = Len(av) - 1
  BY <1>0, <1>1, <1>2, TakeOut
<1> HIDE DEF w
<1>6. /\ OnlySpace(m, r) /\ Bucket(r).avail = w /\ r.header = m.header
      /\ Spaces(r) = Spaces(m) /\ Flags(r) = Flags(m)
  BY <1>0, <1>2, SetAv
<1>7. /\ Adr(r) = Adr(m) /\ r.cur = m.cur /\ IsMem(r) /\ r.disk = m.disk
      /\ r.header_changed = m.header_changed /\ r.bucket_changed = m.bucket_changed
      /\ r.popped = m.popped
  BY <1>6 DEF OnlySpace, Rest, Adr, Spaces, Flags
<1>q. own2 = Retag(own, av[i].adr, av[i].size, Held(e.adr))
  BY <1>2
<1> HIDE DEF own2
<1>x. LET t == Held(e.adr)
       IN /\ av[i] \in AvType
          /\ \A u \in Span(av[i].adr, av[i].size) : u \in Nat /\ own[u][1] = BucketAvail /\ own[u][2] = Adr(m)
          /\ Owned(Retag(own, av[i].adr, av[i].size, t), av[i].adr, av[i].size, t)
          /\ \A u \in Nat : own[u][1] # BucketAvail \/ own[u][2] # Adr(m) =>
                Retag(own, av[i].adr, av[i].size, t)[u] = own[u]
  <2>1. i \in DOMAIN av /\ Table(av, own, BucketAvail, Adr(m))
    BY <1>0, <1>1
  <2> QED
    BY <2>1, RetagElement
<1>8. /\ e \in AvType /\ Owned(own2, e.adr, e.size, Held(e.adr))
      /\ \A u \in Span(e.adr, e.size) : u \in Nat /\ own[u][1] = BucketAvail /\ own[u][2] = Adr(m)
      /\ \A u \in Nat : own[u][1] # BucketAvail \/ own[u][2] # Adr(m) => own2[u] = own[u]
  BY <1>x, <1>2, <1>q
<1>e. \A u \in Span(e.adr, e.size) : own2[u][1] = Holding
  BY <1>8, TagIs DEF Owned, Held
<1>n. \A u \in Nat : u \notin Span(e.adr, e.size) => own2[u] = own[u]
  BY DEF Retag, own2
<1>9. own2[0] = Tag(TheHeader, Nobody, Nobody)
  BY <1>8, TagIs, Kinds DEF FreeOK
<1>10. \A u \in Nat : u >= m.header.next_block => own2[u] = Tag(AtEnd, Nobody, Nobody)
  BY <1>8, TagIs, Kinds DEF FreeOK
<1>11. Table(m.header.avail, own2, HeaderAvail, Nobody)
  BY <1>8, TableKept, Kinds DEF FreeOK
<1>12. \E S : Stack(r.disk, r.header.av_next, S, own2)
  BY <1>8, StackKept, Kinds, SameSelf, <1>6, <1>7 DEF FreeOK
<1>13. FreeOK(r, own2)
  <2>1. Len(w) <= BUCKET_AVAIL
    BY <1>0, <1>3, Consts DEF FreeOK
  <2>2. m.header.next_block \in Nat /\ Len(m.header.avail) <= avail_size
    BY DEF FreeOK
  <2> QED
    BY <1>3, <1>6, <1>7, <1>9, <1>10, <1>11, <1>12, <2>1, <2>2 DEF FreeOK
<1>14. \A u \in Span(e.adr, e.size) : NearUnit(own[u], Adr(m)) /\ FreeUnit(own[u], Adr(m))
  BY <1>8 DEF NearUnit, FreeUnit
<1>15. \A u \in Nat : ~FreeUnit(own[u], Adr(m)) => own2[u] = own[u]
  BY <1>8 DEF NearUnit, FreeUnit
<1>16. \A u \in Nat : NearUnit(own2[u], Adr(m)) => NearUnit(own[u], Adr(m))
  BY <1>e, <1>n, Kinds DEF NearUnit
<1>17. FlagsGrow(m, r)
  BY <1>7 DEF FlagsGrow
<1>18. Moves(m, own, r, own2, {})
  BY <1>6, <1>7, <1>13, <1>15, <1>16, <1>17, SameSelf DEF Moves
<1>19. Gets(m, own, Elem(m, n), own2, n)
  BY <1>1, <1>2, <1>8, <1>14, <1>18 DEF Gets, r, e
<1> QED
  BY <1>6, <1>7, <1>19 DEF r

LEMMA TableTags ==
    ASSUME NEW t, NEW a, InTable(t, a)
    PROVE  /\ NearUnit(t, a) /\ FreeUnit(t, a)
           /\ t[1] # TheHeader /\ t[1] # AtEnd /\ t[1] # AvailBlock /\ t[1] # InBlock
  BY Kinds DEF InTable, NearUnit, FreeUnit

LEMMA TakenTags ==
    ASSUME NEW t, NEW a, Taken(t, a)
    PROVE  /\ ~InTable(t, a) /\ ~NearUnit(t, a) /\ ~FreeUnit(t, a)
           /\ t[1] # TheHeader /\ t[1] # AtEnd /\ t[1] # AvailBlock /\ t[1] # InBlock
           /\ t[1] # HeaderAvail
           /\ t[1] # BucketAvail \/ t[2] # a
  BY Kinds DEF Taken, InTable, NearUnit, FreeUnit

LEMMA ShuffleMoves ==
    ASSUME NEW m, NEW own, FreeOK(m, own), NEW bw, NEW hw, NEW r, NEW own2, NEW E,
           Shuffle(m, own, hw, bw, own2, E), Shuffled(m, r, hw, bw)
    PROVE  /\ Moves(m, own, r, own2, E)
           /\ r.header.avail = hw /\ Bucket(r).avail = bw /\ r.disk = m.disk /\ r.popped = m.popped
<1> DEFINE h == WithAvail(m.header, hw)
<1>a. PICK s, hc, bc : /\ OnlySpace(m, s) /\ s.header = m.header /\ Bucket(s).avail = bw
                       /\ r = With(s, h, m.disk, hc, bc, m.popped)
                       /\ FlagsGrow(m, r)
  BY DEF Shuffled
<1> HIDE DEF h
<1>b. /\ \A u \in Nat : u \in E => Taken(own[u], Adr(m))
      /\ \A u \in Nat : own2[u] = own[u] \/ ( /\ u \in E \/ InTable(own[u], Adr(m))
                                              /\ InTable(own2[u], Adr(m)) )
      /\ Table(hw, own2, HeaderAvail, Nobody) /\ Len(hw) <= avail_size
      /\ Table(bw, own2, BucketAvail, Adr(m)) /\ Len(bw) <= BUCKET_AVAIL
  BY DEF Shuffle
<1>0. IsMem(m)
  BY DEF FreeOK
<1>2. IsMem(s) /\ s.cur = m.cur /\ s.cache[m.cur].adr = m.cache[m.cur].adr
  BY <1>a DEF OnlySpace, Rest
<1>3. IsHeader(h) /\ h.dir = s.header.dir /\ h.dir_bits = s.header.dir_bits
      /\ h.next_block = m.header.next_block /\ h.avail = hw /\ h.av_next = m.header.av_next
  BY <1>0, <1>a, SetAvail DEF IsMem, h
<1>5. /\ OnlySpace(s, r) /\ Bucket(r) = Bucket(s) /\ r.header = h /\ r.disk = m.disk
      /\ r.header_changed = hc /\ r.bucket_changed = bc /\ r.popped = m.popped
      /\ r.cache = s.cache /\ r.cur = s.cur /\ IsMem(r)
  BY <1>a, <1>2, <1>3, SetHeader
<1>6. OnlySpace(m, r) /\ Adr(r) = Adr(m) /\ Bucket(r).avail = bw
  BY <1>a, <1>2, <1>5, OnlySpaceTrans DEF Adr
<1>7. \A u \in Nat : own[u][1] = AtEnd \/ own[u][1] = TheHeader => own2[u] = own[u]
  <2> SUFFICES ASSUME NEW u \in Nat, own[u][1] = AtEnd \/ own[u][1] = TheHeader, own2[u] # own[u]
               PROVE FALSE
    OBVIOUS
  <2> QED
    BY <1>b, TableTags, TakenTags
<1>8. \A u \in Nat : own[u][1] \in {AvailBlock, InBlock} => own2[u] = own[u]
  <2> SUFFICES ASSUME NEW u \in Nat, own[u][1] = AvailBlock \/ own[u][1] = InBlock,
                      own2[u] # own[u]
               PROVE FALSE
    OBVIOUS
  <2> QED
    BY <1>b, TableTags, TakenTags
<1>9. own2[0] = Tag(TheHeader, Nobody, Nobody)
  BY <1>7, TagIs DEF FreeOK
<1>10. \A u \in Nat : u >= m.header.next_block => own2[u] = Tag(AtEnd, Nobody, Nobody)
  BY <1>7, TagIs DEF FreeOK
<1>11. \E S : Stack(r.disk, r.header.av_next, S, own2)
  BY <1>8, StackKept, Kinds, SameSelf, <1>3, <1>5 DEF FreeOK
<1>12. FreeOK(r, own2)
  BY <1>b, <1>3, <1>5, <1>6, <1>9, <1>10, <1>11 DEF FreeOK
<1>13. \A u \in Nat : u \notin E /\ ~FreeUnit(own[u], Adr(m)) => own2[u] = own[u]
  BY <1>b, TableTags
<1>14. \A u \in Nat : NearUnit(own2[u], Adr(m)) => NearUnit(own[u], Adr(m)) \/ u \in E
  BY <1>b, TableTags
<1>16. Moves(m, own, r, own2, E)
  BY <1>a, <1>5, <1>6, <1>12, <1>13, <1>14, SameSelf DEF Moves
<1> QED
  BY <1>3, <1>5, <1>6, <1>16

LEMMA RetagPiece ==
    ASSUME NEW own, NEW e, NEW a, Piece(own, e, a), NEW t, InTable(t, a)
    PROVE  /\ \A u \in Nat : u \in Span(e.adr, e.size) => Taken(own[u], a)
           /\ \A u \in Nat : LET own2 == Retag(own, e.adr, e.size, t)
                             IN own2[u] = own[u] \/ ( /\ u \in Span(e.adr, e.size) \/ InTable(own[u], a)
                                                      /\ InTable(own2[u], a) )
           /\ \A u \in Nat : InTable(own[u], a) => Retag(own, e.adr, e.size, t)[u] = own[u]
  BY TakenTags DEF Retag, Piece

LEMMA KeepTables ==
    ASSUME NEW m, NEW own, FreeOK(m, own), NEW own2,
           \A u \in Nat : InTable(own[u], Adr(m)) => own2[u] = own[u]
    PROVE  /\ Table(m.header.avail, own2, HeaderAvail, Nobody)
           /\ Table(Bucket(m).avail, own2, BucketAvail, Adr(m))
BY TableKept DEF FreeOK, InTable

(* A piece put into one table.                                             *)
LEMMA PutHeaderMoves ==
    ASSUME NEW m, NEW own, FreeOK(m, own), NEW e, Piece(own, e, Adr(m)),
           Len(m.header.avail) < avail_size
    PROVE  LET r == [m EXCEPT !.header.avail = PutAv(@, e), !.header_changed = TRUE]
           IN /\ \E own2 : Moves(m, own, r, own2, Span(e.adr, e.size))
              /\ Len(r.header.avail) <= Len(m.header.avail) + 1
              /\ r.header_changed
<1> DEFINE av == m.header.avail
           hw == PutAv(av, e)
           bw == Bucket(m).avail
           t == Tag(HeaderAvail, Nobody, e.adr)
           own2 == Retag(own, e.adr, e.size, t)
           r == [m EXCEPT !.header.avail = PutAv(@, e), !.header_changed = TRUE]
<1>0. IsMem(m) /\ Table(av, own, HeaderAvail, Nobody) /\ Len(av) \in Nat
  BY DEF FreeOK, Table
<1>1. \A u \in Span(e.adr, e.size) : own[u][1] # HeaderAvail
  BY TakenTags DEF Piece
<1>2. Table(hw, own2, HeaderAvail, Nobody) /\ Len(hw) \in Nat /\ Len(hw) <= Len(av) + 1
  BY <1>0, <1>1, PutIn DEF Piece
<1>3. r = With(m, WithAvail(m.header, hw), m.disk, Yes, m.bucket_changed, m.popped)
  BY <1>0 DEF IsMem, With, WithAvail, Yes
<1> HIDE DEF r, hw
<1>4. InTable(t, Adr(m))
  BY TagIs DEF InTable
<1> HIDE DEF t
<1>5. /\ \A u \in Nat : u \in Span(e.adr, e.size) => Taken(own[u], Adr(m))
      /\ \A u \in Nat : own2[u] = own[u] \/ ( /\ u \in Span(e.adr, e.size) \/ InTable(own[u], Adr(m))
                                              /\ InTable(own2[u], Adr(m)) )
      /\ \A u \in Nat : InTable(own[u], Adr(m)) => own2[u] = own[u]
  BY <1>4, RetagPiece
<1> HIDE DEF own2
<1>6. Table(bw, own2, BucketAvail, Adr(m))
  BY <1>5, KeepTables
<1>7. Len(bw) <= BUCKET_AVAIL
  BY DEF FreeOK
<1>8. Len(hw) <= Len(av) + 1 /\ Len(hw) <= avail_size
  BY <1>0, <1>2, Consts
<1>9. FlagsGrow(m, r) /\ r.header_changed
  BY <1>0, <1>3 DEF FlagsGrow, With, IsMem, Yes
<1>10. Shuffled(m, r, hw, bw)
  BY <1>0, OnlySpaceSelf, <1>3, <1>9 DEF Shuffled
<1>11. Shuffle(m, own, hw, bw, own2, Span(e.adr, e.size))
  BY <1>2, <1>5, <1>6, <1>7, <1>8 DEF Shuffle
<1>12. Moves(m, own, r, own2, Span(e.adr, e.size)) /\ r.header.avail = hw
  BY <1>10, <1>11, ShuffleMoves
<1> QED
  BY <1>8, <1>9, <1>12 DEF r

LEMMA ShuffledBucket ==
    ASSUME NEW m, IsMem(m), NEW hw, NEW bw, NEW bc, bc = m.bucket_changed \/ bc = Yes,
           NEW r, r = With(SetBucketAv(m, bw), WithAvail(m.header, hw), m.disk, m.header_changed,
                           bc, m.popped)
    PROVE  Shuffled(m, r, hw, bw) /\ r.header_changed = m.header_changed
<1> DEFINE s == SetBucketAv(m, bw)
           h == WithAvail(m.header, hw)
<1>1. /\ OnlySpace(m, s) /\ Bucket(s).avail = bw
      /\ Spaces(s) = Spaces(m) /\ Flags(s) = Flags(m) /\ s.header = m.header
  BY SetAv
<1>2. IsMem(s)
  BY <1>1 DEF OnlySpace
<1>3. IsHeader(h) /\ h.dir = s.header.dir /\ h.dir_bits = s.header.dir_bits
  BY <1>1, SetAvail DEF IsMem
<1>4. r = With(s, h, m.disk, m.header_changed, bc, m.popped)
  OBVIOUS
<1> HIDE DEF s, h
<1>5. r.header_changed = m.header_changed /\ r.bucket_changed = bc /\ r.popped = m.popped
  BY <1>2, <1>3, <1>4, SetHeader
<1>6. FlagsGrow(m, r)
  BY <1>5 DEF FlagsGrow, Yes
<1> QED
  BY <1>1, <1>4, <1>5, <1>6 DEF Shuffled, h

LEMMA WithSame ==
    ASSUME NEW m, IsMem(m)
    PROVE  m = With(m, WithAvail(m.header, m.header.avail), m.disk, m.header_changed,
                    m.bucket_changed, m.popped)
<1>1. WithAvail(m.header, m.header.avail) = m.header
  BY DEF IsMem, IsHeader, WithAvail
<1>2. m = With(m, m.header, m.disk, m.header_changed, m.bucket_changed, m.popped)
  BY DEF IsMem, With
<1> QED
  BY <1>1, <1>2

LEMMA PutBucketMoves ==
    ASSUME NEW m, NEW own, FreeOK(m, own), NEW e, Piece(own, e, Adr(m)),
           Len(Bucket(m).avail) < BUCKET_AVAIL
    PROVE  LET r == SetBucketAv(m, PutAv(Bucket(m).avail, e))
           IN /\ \E own2 : Moves(m, own, r, own2, Span(e.adr, e.size))
              /\ r.header = m.header /\ r.disk = m.disk /\ r.header_changed = m.header_changed
<1> DEFINE av == Bucket(m).avail
           hw == m.header.avail
           bw == PutAv(av, e)
           t == Tag(BucketAvail, Adr(m), e.adr)
           own2 == Retag(own, e.adr, e.size, t)
           r == SetBucketAv(m, bw)
<1>0. IsMem(m) /\ Table(av, own, BucketAvail, Adr(m)) /\ Len(av) \in Nat
  BY DEF FreeOK, Table
<1>1. \A u \in Span(e.adr, e.size) : own[u][1] # BucketAvail \/ own[u][2] # Adr(m)
  BY TakenTags DEF Piece
<1>2. Table(bw, own2, BucketAvail, Adr(m)) /\ Len(bw) \in Nat /\ Len(bw) <= Len(av) + 1
  BY <1>0, <1>1, PutIn DEF Piece
<1> HIDE DEF bw
<1>3. /\ OnlySpace(m, r) /\ Spaces(r) = Spaces(m) /\ Flags(r) = Flags(m) /\ r.header = m.header
  BY <1>0, SetAv
<1> HIDE DEF r
<1>a. /\ IsMem(r) /\ r.disk = m.disk /\ r.header_changed = m.header_changed
      /\ r.bucket_changed = m.bucket_changed /\ r.popped = m.popped
  BY <1>3 DEF OnlySpace, Spaces, Flags
<1>b. r = With(r, WithAvail(m.header, hw), m.disk, m.header_changed, m.bucket_changed, m.popped)
  BY <1>3, <1>a, WithSame
<1>4. InTable(t, Adr(m))
  BY TagIs DEF InTable
<1> HIDE DEF t
<1>5. /\ \A u \in Nat : u \in Span(e.adr, e.size) => Taken(own[u], Adr(m))
      /\ \A u \in Nat : own2[u] = own[u] \/ ( /\ u \in Span(e.adr, e.size) \/ InTable(own[u], Adr(m))
                                              /\ InTable(own2[u], Adr(m)) )
      /\ \A u \in Nat : InTable(own[u], Adr(m)) => own2[u] = own[u]
  BY <1>4, RetagPiece
<1> HIDE DEF own2
<1>6. Table(hw, own2, HeaderAvail, Nobody)
  BY <1>5, KeepTables
<1>7. Len(hw) <= avail_size
  BY DEF FreeOK
<1>8. Len(bw) <= BUCKET_AVAIL
  BY <1>0, <1>2, Consts
<1>9. Shuffled(m, r, hw, bw)
  BY <1>b, <1>0, ShuffledBucket DEF r
<1>10. Shuffle(m, own, hw, bw, own2, Span(e.adr, e.size))
  BY <1>2, <1>5, <1>6, <1>7, <1>8 DEF Shuffle
<1>11. Moves(m, own, r, own2, Span(e.adr, e.size))
  BY <1>9, <1>10, ShuffleMoves
<1> QED
  BY <1>3, <1>a, <1>11 DEF r, bw

LEMMA MovedExists ==
    ASSUME NEW hav \in Seq(AvType), NEW bav \in Seq(AvType)
    PROVE  \A n \in 0 .. Len(bav) :
              \E f : f = [i \in 0 .. n |-> IF i = 0 THEN hav ELSE PutAv(f[i - 1], bav[i])]
<1> DEFINE P(n) == \E f : f = [i \in 0 .. n |-> IF i = 0 THEN hav ELSE PutAv(f[i - 1], bav[i])]
           Bad == {n \in 0 .. Len(bav) : ~P(n)}
<1>0. Len(bav) \in Nat
  OBVIOUS
<1>1. P(0)
  <2>1. [i \in 0 .. 0 |-> hav] = [i \in 0 .. 0 |-> IF i = 0 THEN hav
                                     ELSE PutAv([j \in 0 .. 0 |-> hav][i - 1], bav[i])]
    OBVIOUS
  <2> QED
    BY <2>1
<1>2. ASSUME NEW n \in 0 .. Len(bav), n # 0, P(n - 1) PROVE P(n)
  <2>1. PICK f : f = [i \in 0 .. n - 1 |-> IF i = 0 THEN hav ELSE PutAv(f[i - 1], bav[i])]
    BY <1>2
  <2> DEFINE g == [i \in 0 .. n |-> IF i = n THEN PutAv(f[n - 1], bav[n]) ELSE f[i]]
  <2>2. \A i \in 0 .. n : g[i] = IF i = 0 THEN hav ELSE PutAv(g[i - 1], bav[i])
    <3> SUFFICES ASSUME NEW i \in 0 .. n PROVE g[i] = IF i = 0 THEN hav ELSE PutAv(g[i - 1], bav[i])
      OBVIOUS
    <3>1. CASE i = n
      BY <1>0, <1>2, <3>1
    <3>2. CASE i # n
      BY <1>0, <1>2, <3>2, <2>1
    <3> QED
      BY <3>1, <3>2
  <2>3. g = [i \in 0 .. n |-> g[i]]
    OBVIOUS
  <2> HIDE DEF g
  <2>4. g = [i \in 0 .. n |-> IF i = 0 THEN hav ELSE PutAv(g[i - 1], bav[i])]
    BY <2>2, <2>3
  <2> QED
    BY <2>4
<1>3. Bad = {}
  <2> SUFFICES ASSUME Bad # {} PROVE FALSE
    OBVIOUS
  <2>1. Bad \subseteq Nat
    BY <1>0
  <2> HIDE DEF P
  <2>2. PICK n \in Bad : \A j \in Bad : n <= j
    <3> HIDE DEF Bad
    <3> QED BY <2>1, Least
  <2>3. n # 0 /\ n \in 0 .. Len(bav)
    BY <1>1
  <2>4. n - 1 \in 0 .. Len(bav) /\ n - 1 \notin Bad
    BY <1>0, <2>2, <2>3
  <2> QED
    BY <1>2, <2>3, <2>4
<1> QED
  BY <1>3

LEMMA MovedIs ==
    ASSUME NEW hav \in Seq(AvType), NEW bav \in Seq(AvType)
    PROVE  /\ Moved(hav, bav, 0) = hav
           /\ \A n \in 1 .. Len(bav) : Moved(hav, bav, n) = PutAv(Moved(hav, bav, n - 1), bav[n])
<1> DEFINE F == CHOOSE f : f = [i \in 0 .. Len(bav) |-> IF i = 0 THEN hav ELSE PutAv(f[i - 1], bav[i])]
<1>0. Len(bav) \in Nat
  OBVIOUS
<1>1. \E f : f = [i \in 0 .. Len(bav) |-> IF i = 0 THEN hav ELSE PutAv(f[i - 1], bav[i])]
  BY <1>0, MovedExists
<1>2. F = [i \in 0 .. Len(bav) |-> IF i = 0 THEN hav ELSE PutAv(F[i - 1], bav[i])]
  BY <1>1
<1>3. \A n : Moved(hav, bav, n) = F[n]
  BY DEF Moved
<1> HIDE DEF F
<1> QED
  BY <1>0, <1>2, <1>3

LEMMA MovedTables ==
    ASSUME NEW hav, NEW bav, NEW own, NEW a,
           Table(hav, own, HeaderAvail, Nobody), Table(bav, own, BucketAvail, a)
    PROVE  \A n \in 0 .. Len(bav) :
              /\ Table(Moved(hav, bav, n), Retagged(own, bav, a, n), HeaderAvail, Nobody)
              /\ Len(Moved(hav, bav, n)) <= Len(hav) + n
<1> DEFINE mv(n) == Moved(hav, bav, n)
           tag(n) == Retagged(own, bav, a, n)
           P(n) == Table(mv(n), tag(n), HeaderAvail, Nobody) /\ Len(mv(n)) <= Len(hav) + n
           Bad == {n \in 0 .. Len(bav) : ~P(n)}
<1>0. hav \in Seq(AvType) /\ bav \in Seq(AvType) /\ Len(bav) \in Nat /\ Len(hav) \in Nat
  BY DEF Table
<1>a. mv(0) = hav /\ \A n \in 1 .. Len(bav) : mv(n) = PutAv(mv(n - 1), bav[n])
  BY <1>0, MovedIs
<1> HIDE DEF mv
<1>1. P(0)
  <2>1. \A u \in Nat : own[u][1] = HeaderAvail /\ own[u][2] = Nobody => tag(0)[u] = own[u]
    BY Kinds DEF Retagged
  <2>2. Table(hav, tag(0), HeaderAvail, Nobody)
    <3> HIDE DEF tag
    <3> QED BY <2>1, TableKept
  <2> QED
    BY <1>0, <1>a, <2>2
<1>2. ASSUME NEW n \in 1 .. Len(bav), P(n - 1) PROVE P(n)
  <2> DEFINE e == bav[n]
             own2 == Retag(tag(n - 1), e.adr, e.size, Tag(HeaderAvail, Nobody, e.adr))
  <2>1. e \in AvType /\ e \in PieceType /\ e.adr \in Nat /\ e.size \in Nat
    <3>1. e \in AvType
      BY <1>0
    <3> QED
      BY <3>1 DEF AvType, PieceType
  <2>2. \A u \in Span(e.adr, e.size) : u \in Nat /\ own[u] = Tag(BucketAvail, a, e.adr)
    BY <2>1, SpanNat DEF Table, Owned
  <2>3. \A i \in 1 .. n - 1 : bav[i].adr # e.adr
    BY <1>0 DEF Table
  <2>4. \A u \in Span(e.adr, e.size) : tag(n - 1)[u] = own[u]
    BY <2>2, <2>3, TagIs DEF Retagged
  <2>5. \A u \in Span(e.adr, e.size) : tag(n - 1)[u][1] # HeaderAvail
    BY <2>2, <2>4, TagIs, Kinds
  <2>6. Table(mv(n - 1), tag(n - 1), HeaderAvail, Nobody) /\ Len(mv(n - 1)) <= Len(hav) + (n - 1)
    BY <1>2
  <2>7. Table(PutAv(mv(n - 1), e), own2, HeaderAvail, Nobody)
        /\ Len(PutAv(mv(n - 1), e)) \in Nat
        /\ Len(PutAv(mv(n - 1), e)) <= Len(mv(n - 1)) + 1
    <3> HIDE DEF tag, e
    <3> QED BY <2>1, <2>5, <2>6, PutIn
  <2>8. ASSUME NEW u \in Nat, own2[u][1] = HeaderAvail PROVE tag(n)[u] = own2[u]
    BY <2>2, <1>0, TagIs, <2>8, Kinds DEF Retag, Retagged
  <2>9. Table(PutAv(mv(n - 1), e), tag(n), HeaderAvail, Nobody)
    <3> HIDE DEF tag, e, own2
    <3> QED BY <2>7, <2>8, TableKept
  <2>10. mv(n) = PutAv(mv(n - 1), e)
    BY <1>a
  <2>11. Len(mv(n)) <= Len(hav) + n
    BY <2>6, <2>7, <2>10, <1>0 DEF Table
  <2> QED
    BY <2>9, <2>10, <2>11
<1>3. Bad = {}
  <2> SUFFICES ASSUME Bad # {} PROVE FALSE
    OBVIOUS
  <2>1. Bad \subseteq Nat
    BY <1>0
  <2> HIDE DEF P
  <2>2. PICK n \in Bad : \A j \in Bad : n <= j
    <3> HIDE DEF Bad
    <3> QED BY <2>1, Least
  <2>3. n # 0 /\ n \in 1 .. Len(bav)
    BY <1>0, <1>1
  <2>4. n - 1 \in 0 .. Len(bav) /\ n - 1 \notin Bad
    BY <1>0, <2>2, <2>3
  <2> QED
    BY <1>2, <2>3, <2>4
<1> QED
  BY <1>3 DEF mv

LEMMA RestTable ==
    ASSUME NEW bav, NEW own, NEW a, Table(bav, own, BucketAvail, a), NEW n \in 0 .. Len(bav)
    PROVE  /\ Table(SubSeq(bav, n + 1, Len(bav)), Retagged(own, bav, a, n), BucketAvail, a)
           /\ Len(SubSeq(bav, n + 1, Len(bav))) = Len(bav) - n
<1> DEFINE w == SubSeq(bav, n + 1, Len(bav))
           own2 == Retagged(own, bav, a, n)
<1>0. bav \in Seq(AvType) /\ Len(bav) \in Nat
  BY DEF Table
<1>1. w \in Seq(AvType) /\ Len(w) = Len(bav) - n /\ \A j \in 1 .. Len(bav) - n : w[j] = bav[j + n]
  BY <1>0
<1> HIDE DEF w
<1>2. DOMAIN w = 1 .. Len(bav) - n
  BY <1>0, <1>1
<1>3. \A j \in DOMAIN w : j + n \in DOMAIN bav /\ j + n \notin 1 .. n /\ w[j] = bav[j + n]
  BY <1>0, <1>1, <1>2
<1>4. ASSUME NEW i \in DOMAIN bav, i \notin 1 .. n, NEW u \in Span(bav[i].adr, bav[i].size)
      PROVE  own2[u] = Tag(BucketAvail, a, bav[i].adr)
  <2>0. bav[i] \in AvType
    BY <1>0
  <2>1. u \in Nat
    BY <2>0 DEF AvType, Span
  <2>2. own[u] = Tag(BucketAvail, a, bav[i].adr)
    BY DEF Table, Owned
  <2>3. \A j \in 1 .. n : bav[j].adr # bav[i].adr
    BY <1>0, <1>4 DEF Table
  <2> QED
    BY <2>1, <2>2, <2>3, TagIs DEF Retagged
<1> HIDE DEF own2
<1>5. \A j \in DOMAIN w : Owned(own2, w[j].adr, w[j].size, Tag(BucketAvail, a, w[j].adr))
  BY <1>3, <1>4 DEF Owned
<1>6. \A j, l \in DOMAIN w : w[j].adr = w[l].adr => j = l
  <2> SUFFICES ASSUME NEW j \in DOMAIN w, NEW l \in DOMAIN w, w[j].adr = w[l].adr PROVE j = l
    OBVIOUS
  <2>1. j + n = l + n
    BY <1>3 DEF Table
  <2> QED
    BY <1>0, <1>2, <2>1
<1> QED
  BY <1>1, <1>5, <1>6 DEF Table, w, own2

LEMMA BothShuffled ==
    ASSUME NEW m, IsMem(m), NEW hw, NEW bw
    PROVE  Shuffled(m, Both(m, hw, bw), hw, bw) /\ Both(m, hw, bw).header_changed = m.header_changed
<1> DEFINE s == SetBucketAv(m, bw)
           r == Both(m, hw, bw)
<1>1. OnlySpace(m, s) /\ Spaces(s) = Spaces(m) /\ Flags(s) = Flags(m) /\ s.header = m.header
  BY SetAv
<1>2. IsMem(s)
  BY <1>1 DEF OnlySpace
<1>3. s.disk = m.disk /\ s.header_changed = m.header_changed /\ s.popped = m.popped
  BY <1>1 DEF Spaces, Flags
<1>4. r = [s EXCEPT !.header.avail = hw, !.bucket_changed = TRUE]
  BY DEF Both
<1> HIDE DEF s, r
<1>5. r = With(s, WithAvail(s.header, hw), s.disk, s.header_changed, Yes, s.popped)
  BY <1>2, <1>4 DEF IsMem, With, WithAvail, Yes
<1>6. r = With(SetBucketAv(m, bw), WithAvail(m.header, hw), m.disk, m.header_changed, Yes, m.popped)
  BY <1>1, <1>3, <1>5 DEF s
<1> QED
  BY <1>6, ShuffledBucket DEF r

LEMMA AdjustIs ==
    ASSUME NEW m
    PROVE  LET bav == Bucket(m).avail
               hav == m.header.avail
               spare == {n \in 0 .. Len(bav) : Len(bav) - n >= BUCKET_AVAIL - Third
                                               /\ Len(hav) + n <= avail_size}
               n == CHOOSE i \in spare : \A j \in spare : j <= i
           IN Adjust(m) = IF Len(bav) < Third
                          THEN IF hav = <<>> THEN m
                               ELSE Both(m, Without(hav, Len(hav)), PutAv(bav, hav[Len(hav)]))
                          ELSE IF spare \subseteq {0} THEN m
                               ELSE Both(m, Moved(hav, bav, n), SubSeq(bav, n + 1, Len(bav)))
  BY Zenon DEF Adjust, Both, Moved, Third

LEMMA AdjustMoves ==
    ASSUME NEW m, NEW own, FreeOK(m, own)
    PROVE  /\ \E own2 : Moves(m, own, Adjust(m), own2, {})
           /\ Len(Adjust(m).header.avail) <= Len(m.header.avail) + Third
           /\ Adjust(m).header_changed = m.header_changed
<1> DEFINE bav == Bucket(m).avail
           hav == m.header.avail
           a == Adr(m)
           r == Adjust(m)
           spare == {n \in 0 .. Len(bav) : Len(bav) - n >= BUCKET_AVAIL - Third
                                           /\ Len(hav) + n <= avail_size}
           n == CHOOSE i \in spare : \A j \in spare : j <= i
<1>0. /\ IsMem(m) /\ Table(bav, own, BucketAvail, a) /\ Table(hav, own, HeaderAvail, Nobody)
      /\ Len(bav) <= BUCKET_AVAIL /\ Len(hav) <= avail_size
  BY DEF FreeOK
<1>1. bav \in Seq(AvType) /\ hav \in Seq(AvType) /\ Len(bav) \in Nat /\ Len(hav) \in Nat
  BY <1>0 DEF Table
<1>2. Third \in Nat /\ Third >= 1 /\ Third < BUCKET_AVAIL /\ BUCKET_AVAIL \in Nat /\ avail_size \in Nat
  BY Consts DEF Third
<1>3. CASE r = m
  BY <1>1, <1>2, <1>3, MovesSelf
<1>4. CASE Len(bav) < Third /\ hav # <<>>
  <2> DEFINE l == Len(hav)
             e == hav[l]
             hw == Without(hav, l)
             bw == PutAv(bav, e)
             own2 == Retag(own, e.adr, e.size, Tag(BucketAvail, a, e.adr))
  <2>1. r = Both(m, hw, bw)
    BY <1>4, AdjustIs
  <2>2. l \in DOMAIN hav
    BY <1>1, <1>4
  <2>3. Table(hw, own2, HeaderAvail, Nobody) /\ Len(hw) = Len(hav) - 1
    <3>1. Table(hav, own, HeaderAvail, Nobody)
      BY <1>0
    <3> HIDE DEF l, hav
    <3> QED BY <2>2, <3>1, TakeOut
  <2>4. /\ e \in AvType
        /\ \A u \in Span(e.adr, e.size) : u \in Nat /\ own[u][1] = HeaderAvail /\ own[u][2] = Nobody
    <3>1. Table(hav, own, HeaderAvail, Nobody)
      BY <1>0
    <3> HIDE DEF l, hav
    <3> QED BY <2>2, <3>1, RetagElement
  <2>5. Table(bw, own2, BucketAvail, a) /\ Len(bw) \in Nat /\ Len(bw) <= Len(bav) + 1
    <3>1. e \in PieceType
      BY <2>4 DEF AvType, PieceType
    <3>2. \A u \in Span(e.adr, e.size) : own[u][1] # BucketAvail \/ own[u][2] # a
      BY <2>4, Kinds
    <3>3. Table(bav, own, BucketAvail, a)
      BY <1>0
    <3> HIDE DEF e, a, bav
    <3> QED BY <3>1, <3>2, <3>3, PutIn
  <2>6. \A u \in Nat : own2[u] = own[u] \/ (InTable(own[u], a) /\ InTable(own2[u], a))
    BY <2>4, TagIs DEF Retag, InTable
  <2> HIDE DEF hw, bw, own2
  <2>7. Len(hw) <= avail_size /\ Len(bw) <= BUCKET_AVAIL /\ Len(hw) <= Len(hav) + Third
    BY <1>0, <1>1, <1>2, <1>4, <2>3, <2>5
  <2>8. Shuffle(m, own, hw, bw, own2, {})
    BY <2>3, <2>5, <2>6, <2>7 DEF Shuffle
  <2>9. Shuffled(m, r, hw, bw) /\ r.header_changed = m.header_changed
    BY <1>0, <2>1, BothShuffled
  <2>10. Moves(m, own, r, own2, {}) /\ r.header.avail = hw
    <3> HIDE DEF r
    <3> QED BY <2>8, <2>9, ShuffleMoves
  <2> QED
    BY <2>7, <2>9, <2>10
<1>5. CASE Len(bav) >= Third /\ ~(spare \subseteq {0})
  <2> DEFINE hw == Moved(hav, bav, n)
             bw == SubSeq(bav, n + 1, Len(bav))
             own2 == Retagged(own, bav, a, n)
  <2>1. r = Both(m, hw, bw)
    <3>1. ~(Len(bav) < Third)
      BY <1>1, <1>2, <1>5
    <3> QED
      BY <1>5, <3>1, AdjustIs
  <2>2. n \in spare
    <3>1. spare \subseteq 0 .. Len(bav) /\ spare # {}
      BY <1>5
    <3>2. \E i \in spare : \A j \in spare : j <= i
      <4> HIDE DEF spare, bav
      <4> QED BY <1>1, <3>1, Greatest
    <3> HIDE DEF spare
    <3> QED
      BY <3>2
  <2> HIDE DEF n
  <2>3. n \in 0 .. Len(bav) /\ n <= Third /\ Len(hav) + n <= avail_size
    BY <1>0, <1>1, <1>2, <2>2
  <2>4. Table(hw, own2, HeaderAvail, Nobody) /\ Len(hw) <= Len(hav) + n
    <3>1. Table(bav, own, BucketAvail, a) /\ Table(hav, own, HeaderAvail, Nobody)
      BY <1>0
    <3> HIDE DEF bav, hav, a
    <3> QED BY <2>3, <3>1, MovedTables
  <2>5. Table(bw, own2, BucketAvail, a) /\ Len(bw) = Len(bav) - n
    <3>1. Table(bav, own, BucketAvail, a)
      BY <1>0
    <3> HIDE DEF bav, a
    <3> QED BY <2>3, <3>1, RestTable
  <2>6. \A u \in Nat : own2[u] = own[u] \/ (InTable(own[u], a) /\ InTable(own2[u], a))
    BY TagIs DEF Retagged, InTable
  <2> HIDE DEF hw, bw, own2
  <2>7. Len(hw) <= avail_size /\ Len(bw) <= BUCKET_AVAIL /\ Len(hw) <= Len(hav) + Third
    <3>1. Len(hw) \in Nat
      BY <2>4 DEF Table
    <3>2. Len(bav) <= BUCKET_AVAIL /\ Len(hw) <= Len(hav) + n /\ Len(bw) = Len(bav) - n
      BY <1>0, <2>4, <2>5
    <3> HIDE DEF bav, hav
    <3> QED
      BY <1>1, <1>2, <2>3, <3>1, <3>2
  <2>8. Shuffle(m, own, hw, bw, own2, {})
    BY <2>4, <2>5, <2>6, <2>7 DEF Shuffle
  <2>9. Shuffled(m, r, hw, bw) /\ r.header_changed = m.header_changed
    BY <1>0, <2>1, BothShuffled
  <2>10. Moves(m, own, r, own2, {}) /\ r.header.avail = hw
    <3> HIDE DEF r
    <3> QED BY <2>8, <2>9, ShuffleMoves
  <2> QED
    BY <2>7, <2>9, <2>10
<1>6. r = m \/ (Len(bav) < Third /\ hav # <<>>) \/ (Len(bav) >= Third /\ ~(spare \subseteq {0}))
  BY <1>1, <1>2, AdjustIs
<1> HIDE DEF r
<1> QED
  BY <1>3, <1>4, <1>5, <1>6 DEF r

LEMMA AdjustedMoves ==
    ASSUME NEW m, NEW own, FreeOK(m, own)
    PROVE  /\ \E own2 : Moves(m, own, Adjusted(m), own2, {})
           /\ Len(Adjusted(m).header.avail) <= Len(m.header.avail) + Third
           /\ Adjusted(m).header_changed = m.header_changed
           /\ Quiet(m, Adjusted(m))
<1>1. CASE m.header_changed
  BY <1>1, AdjustMoves DEF Adjusted, Quiet
<1>2. CASE ~m.header_changed
  <2>1. Adjusted(m) = m
    BY <1>2 DEF Adjusted
  <2>2. Moves(m, own, m, own, {})
    BY MovesSelf
  <2>3. Len(m.header.avail) <= Len(m.header.avail) + Third
    <3>1. Len(m.header.avail) \in Nat /\ Third \in Nat
      BY Consts DEF FreeOK, Table, Third
    <3> QED
      BY <3>1
  <2> QED
    BY <2>1, <2>2, <2>3 DEF Quiet
<1> QED
  BY <1>1, <1>2

LEMMA QuietTrans ==
    ASSUME NEW m, NEW r, NEW q, Quiet(m, r), Quiet(r, q), r.header_changed => q.header_changed
    PROVE  Quiet(m, q)
  BY DEF Quiet

LEMMA FreeToMoves ==
    ASSUME NEW m, NEW own, FreeOK(m, own), NEW e, Piece(own, e, Adr(m)), NEW toHeader \in BOOLEAN,
           e.size # 0 /\ toHeader => Len(m.header.avail) < avail_size,
           ~toHeader => Len(Bucket(m).avail) < BUCKET_AVAIL
    PROVE  LET r == FreeTo(m, e, toHeader)
           IN /\ \E own2 : Moves(m, own, r, own2, Span(e.adr, e.size))
              /\ Len(r.header.avail) <= Len(m.header.avail) + (Third + 1)
              /\ Quiet(m, r)
              /\ e.size # 0 /\ toHeader => r.header_changed
<1> DEFINE r == FreeTo(m, e, toHeader)
           E == Span(e.adr, e.size)
           s == IF toHeader THEN [m EXCEPT !.header.avail = PutAv(@, e), !.header_changed = TRUE]
                ELSE SetBucketAv(m, PutAv(Bucket(m).avail, e))
<1>0. Len(m.header.avail) \in Nat /\ Third \in Nat
  BY Consts DEF FreeOK, Table, Third
<1>1. CASE e.size = 0
  <2>1. r = m
    BY <1>1 DEF FreeTo
  <2>2. Moves(m, own, m, own, E)
    BY MovesSelf
  <2>3. Len(m.header.avail) <= Len(m.header.avail) + (Third + 1)
    <3> DEFINE z == Len(m.header.avail)
    <3>1. z \in Nat /\ Third \in Nat
      BY <1>0
    <3> HIDE DEF z, r, E, s
    <3>2. z <= z + (Third + 1)
      BY <3>1
    <3> QED
      BY <3>2 DEF z
  <2>4. Quiet(m, m)
    BY DEF Quiet
  <2> HIDE DEF r, E
  <2>5. /\ \E own2 : Moves(m, own, r, own2, E)
        /\ Len(r.header.avail) <= Len(m.header.avail) + (Third + 1)
        /\ Quiet(m, r)
    BY <2>1, <2>2, <2>3, <2>4
  <2> QED
    BY <1>1, <2>5 DEF r, E
<1>2. CASE e.size # 0
  <2>1. r = Adjusted(s)
    BY <1>2 DEF FreeTo
  <2>2. /\ \E own2 : Moves(m, own, s, own2, E)
        /\ Len(s.header.avail) <= Len(m.header.avail) + 1
        /\ Quiet(m, s)
        /\ toHeader => s.header_changed
    <3>1. CASE toHeader
      <4> DEFINE p == [m EXCEPT !.header.avail = PutAv(@, e), !.header_changed = TRUE]
      <4>1. s = p
        BY <3>1
      <4>2. /\ \E own2 : Moves(m, own, p, own2, E)
            /\ Len(p.header.avail) <= Len(m.header.avail) + 1
            /\ p.header_changed
        BY <1>2, <3>1, PutHeaderMoves
      <4> HIDE DEF s, p
      <4> QED
        BY <4>1, <4>2 DEF Quiet
    <3>2. CASE ~toHeader
      <4> DEFINE p == SetBucketAv(m, PutAv(Bucket(m).avail, e))
      <4>1. s = p
        BY <3>2
      <4>2. /\ \E own2 : Moves(m, own, p, own2, E)
            /\ p.header = m.header /\ p.disk = m.disk /\ p.header_changed = m.header_changed
        BY <3>2, PutBucketMoves
      <4> HIDE DEF s, p
      <4> QED
        BY <1>0, <3>2, <4>1, <4>2 DEF Quiet
    <3> QED
      BY <3>1, <3>2
  <2> HIDE DEF s, r
  <2>3. PICK o2 : Moves(m, own, s, o2, E)
    BY <2>2
  <2>4. FreeOK(s, o2)
    BY <2>3 DEF Moves
  <2>5. /\ \E o3 : Moves(s, o2, r, o3, {})
        /\ Len(r.header.avail) <= Len(s.header.avail) + Third
        /\ r.header_changed = s.header_changed
        /\ Quiet(s, r)
    BY <2>1, <2>4, AdjustedMoves
  <2>6. PICK o3 : Moves(s, o2, r, o3, {})
    BY <2>5
  <2>7. Moves(m, own, r, o3, E)
    BY <2>3, <2>6, MovesTrans
  <2>8. Len(r.header.avail) <= Len(m.header.avail) + (Third + 1)
    <3>1. Len(s.header.avail) \in Nat
      BY <2>4 DEF FreeOK, Table
    <3>3. Len(r.header.avail) \in Nat
      BY <2>6 DEF FreeOK, Table, Moves
    <3>2. Len(r.header.avail) <= Len(s.header.avail) + Third /\ Len(s.header.avail) <= Len(m.header.avail) + 1
      BY <2>2, <2>5
    <3> DEFINE x == Len(r.header.avail)
               y == Len(s.header.avail)
               z == Len(m.header.avail)
    <3>4. x \in Nat /\ y \in Nat /\ z \in Nat /\ Third \in Nat /\ x <= y + Third /\ y <= z + 1
      BY <1>0, <3>1, <3>2, <3>3
    <3> HIDE DEF x, y, z
    <3>5. x <= z + (Third + 1)
      BY <3>4
    <3> QED
      BY <3>5 DEF x, y, z
  <2>9. Quiet(m, r) /\ (toHeader => r.header_changed)
    BY <2>2, <2>5, QuietTrans
  <2> QED
    BY <2>7, <2>8, <2>9 DEF r
<1> QED
  BY <1>1, <1>2

(* A part of a table, with new owners.                                     *)
LEMMA PartTable ==
    ASSUME NEW av, NEW own, NEW kind, NEW o, Table(av, own, kind, o),
           NEW w \in Seq(AvType), NEW f,
           \A j \in DOMAIN w : f[j] \in DOMAIN av /\ w[j] = av[f[j]],
           \A j, l \in DOMAIN w : f[j] = f[l] => j = l,
           NEW own2, NEW kind2, NEW o2,
           \A u \in Nat : \A j \in DOMAIN w :
              own[u] = Tag(kind, o, w[j].adr) => own2[u] = Tag(kind2, o2, w[j].adr)
    PROVE  Table(w, own2, kind2, o2)
<1>1. ASSUME NEW j \in DOMAIN w, NEW u \in Span(w[j].adr, w[j].size)
      PROVE  own2[u] = Tag(kind2, o2, w[j].adr)
  <2>1. w[j] \in AvType
    BY InSeq
  <2>2. w[j].adr \in Nat /\ w[j].size \in Nat
    BY <2>1 DEF AvType
  <2>3. u \in Nat
    BY <2>2, SpanNat
  <2>4. own[u] = Tag(kind, o, w[j].adr)
    BY DEF Table, Owned
  <2> QED
    BY <2>3, <2>4
<1>2. \A j, l \in DOMAIN w : w[j].adr = w[l].adr => j = l
  BY DEF Table
<1> QED
  BY <1>1, <1>2 DEF Table, Owned

(* The blocks of the list when one more is written.                        *)
LEMMA StackPushed ==
    ASSUME NEW d, NEW e, NEW head, NEW S, NEW own, NEW own2, Stack(d, head, S, own),
           \A u \in Nat : own[u][1] \in {AvailBlock, InBlock} => own2[u] = own[u],
           \A u \in Nat : own[u][1] = AvailBlock => SameAt(d, e, u),
           NEW a \in Nat \ {0}, NEW av \in Seq(AvType), Len(av) <= avail_size \div 2,
           Holds(e, a, av_block, <<"avail", av, head>>),
           Owned(own2, a, av_block, Tag(AvailBlock, Len(S) + 1, Nobody)),
           Table(av, own2, InBlock, Len(S) + 1)
    PROVE  \E S2 : Stack(e, a, S2, own2)
<1> DEFINE n == Len(S) + 1
           x == [adr |-> a, av |-> av]
           S2 == Append(S, x)
<1>0. Stack(e, head, S, own2)
  BY StackKept
<1>1. S \in Seq([adr : Nat \ {0}, av : Seq(AvType)]) /\ Len(S) \in Nat
  BY DEF Stack
<1>2. x \in [adr : Nat \ {0}, av : Seq(AvType)] /\ x.adr = a /\ x.av = av
  OBVIOUS
<1> HIDE DEF x
<1>3. /\ S2 \in Seq([adr : Nat \ {0}, av : Seq(AvType)]) /\ Len(S2) = n /\ DOMAIN S2 = 1 .. n
      /\ S2[n] = x /\ \A i \in DOMAIN S : S2[i] = S[i]
  BY <1>1, <1>2
<1>4. DOMAIN S = 1 .. Len(S)
  BY <1>1
<1> HIDE DEF S2
<1>5. S2 # <<>>
  BY <1>1, <1>3
<1>6. ASSUME NEW i \in DOMAIN S2
      PROVE  /\ Holds(e, S2[i].adr, av_block,
                      <<"avail", S2[i].av, IF i = 1 THEN 0 ELSE S2[i - 1].adr>>)
             /\ Owned(own2, S2[i].adr, av_block, Tag(AvailBlock, i, Nobody))
             /\ Table(S2[i].av, own2, InBlock, i)
             /\ Len(S2[i].av) <= avail_size \div 2
  <2>1. CASE i = n
    <3>1. head = IF i = 1 THEN 0 ELSE S2[i - 1].adr
      <4>1. CASE S = <<>>
        BY <2>1, <4>1 DEF Stack
      <4>2. CASE S # <<>>
        <5>1. i # 1 /\ i - 1 = Len(S) /\ Len(S) \in DOMAIN S
          BY <1>1, <2>1, <4>2
        <5>2. head = S[Len(S)].adr
          BY <4>2 DEF Stack
        <5> QED
          BY <1>3, <5>1, <5>2
      <4> QED
        BY <4>1, <4>2
    <3> QED
      BY <1>2, <1>3, <2>1, <3>1
  <2>2. CASE i # n
    <3>1. i \in DOMAIN S
      BY <1>1, <1>3, <1>4, <2>2
    <3>2. S2[i] = S[i]
      BY <1>3, <3>1
    <3>3. i = 1 \/ S2[i - 1] = S[i - 1]
      <4>1. i = 1 \/ i - 1 \in DOMAIN S
        BY <1>1, <1>4, <3>1
      <4> QED
        BY <1>3, <4>1
    <3>4. (IF i = 1 THEN 0 ELSE S2[i - 1].adr) = (IF i = 1 THEN 0 ELSE S[i - 1].adr)
      BY <3>3
    <3> QED
      BY <1>0, <3>1, <3>2, <3>4 DEF Stack
  <2> QED
    BY <2>1, <2>2
<1>7. a = IF S2 = <<>> THEN 0 ELSE S2[Len(S2)].adr
  BY <1>2, <1>3, <1>5
<1> QED
  BY <1>3, <1>6, <1>7 DEF Stack

LEMMA Halves ==
    ASSUME NEW av, NEW own, Table(av, own, HeaderAvail, Nobody), NEW n
    PROVE  /\ Odd(av) \in Seq(AvType) /\ Len(Odd(av)) = Len(av) \div 2
           /\ Kept(av) \in Seq(AvType) /\ Len(Kept(av)) = Len(av) \div 2
           /\ Table(Odd(av), Pushed(own, av, n), InBlock, n)
           /\ Table(Kept(av), Pushed(own, av, n), HeaderAvail, Nobody)
<1> DEFINE l == Len(av) \div 2
           f == [i \in 1 .. l |-> 2 * i]
           g == [i \in 1 .. l |-> 2 * i - 1]
           own2 == Pushed(own, av, n)
<1>1. av \in Seq(AvType) /\ Len(av) \in Nat /\ DOMAIN av = 1 .. Len(av)
  BY DEF Table
<1>2. l \in Nat /\ 2 * l <= Len(av)
  BY <1>1
<1> HIDE DEF l
<1>3. \A i \in 1 .. l : f[i] \in DOMAIN av /\ g[i] \in DOMAIN av
  BY <1>1, <1>2
<1>4. \A i, j \in 1 .. l : (f[i] = f[j] => i = j) /\ (g[i] = g[j] => i = j) /\ f[i] # g[j]
  BY <1>2
<1>5. /\ Odd(av) = [i \in 1 .. l |-> av[f[i]]]
      /\ Kept(av) = [i \in 1 .. l |-> av[g[i]]]
  BY DEF Odd, Kept, l
<1> HIDE DEF f, g
<1>6. \A i \in 1 .. l : av[f[i]] \in AvType /\ av[g[i]] \in AvType
  BY <1>1, <1>3, InSeq
<1>7. /\ Odd(av) \in Seq(AvType) /\ Len(Odd(av)) = l /\ DOMAIN Odd(av) = 1 .. l
      /\ \A i \in 1 .. l : Odd(av)[i] = av[f[i]]
  BY <1>2, <1>5, <1>6
<1>8. /\ Kept(av) \in Seq(AvType) /\ Len(Kept(av)) = l /\ DOMAIN Kept(av) = 1 .. l
      /\ \A i \in 1 .. l : Kept(av)[i] = av[g[i]]
  BY <1>2, <1>5, <1>6
<1>9. Table(Odd(av), own2, InBlock, n)
  <2>1. \A u \in Nat : \A j \in DOMAIN Odd(av) :
           own[u] = Tag(HeaderAvail, Nobody, Odd(av)[j].adr) => own2[u] = Tag(InBlock, n, Odd(av)[j].adr)
    BY TagIs DEF Pushed
  <2> HIDE DEF own2
  <2>2. \A j \in DOMAIN Odd(av) : f[j] \in DOMAIN av /\ Odd(av)[j] = av[f[j]]
    BY <1>3, <1>7
  <2>3. \A j, i \in DOMAIN Odd(av) : f[j] = f[i] => j = i
    BY <1>4, <1>7
  <2> DEFINE w == Odd(av)
  <2>4. /\ w \in Seq(AvType) /\ Table(av, own, HeaderAvail, Nobody)
        /\ \A u \in Nat : \A j \in DOMAIN w :
              own[u] = Tag(HeaderAvail, Nobody, w[j].adr) => own2[u] = Tag(InBlock, n, w[j].adr)
        /\ \A j \in DOMAIN w : f[j] \in DOMAIN av /\ w[j] = av[f[j]]
        /\ \A j, i \in DOMAIN w : f[j] = f[i] => j = i
    BY <1>7, <2>1, <2>2, <2>3
  <2> HIDE DEF w
  <2>5. Table(w, own2, InBlock, n)
    BY <2>4, PartTable
  <2> QED
    BY <2>5 DEF w
<1>10. Table(Kept(av), own2, HeaderAvail, Nobody)
  <2>1. ASSUME NEW u \in Nat, NEW j \in DOMAIN Kept(av), own[u] = Tag(HeaderAvail, Nobody, Kept(av)[j].adr)
        PROVE  own2[u] = Tag(HeaderAvail, Nobody, Kept(av)[j].adr)
    <3>1. \A i \in DOMAIN Odd(av) : Odd(av)[i].adr # Kept(av)[j].adr
      <4>1. \A i \in DOMAIN Odd(av) : f[i] \in DOMAIN av /\ g[j] \in DOMAIN av /\ f[i] # g[j]
        BY <1>3, <1>4, <1>7, <1>8
      <4>2. \A i, k \in DOMAIN av : av[i].adr = av[k].adr => i = k
        BY DEF Table
      <4> QED
        BY <1>7, <1>8, <4>1, <4>2
    <3>2. \A i \in DOMAIN Odd(av) : own[u] # Tag(HeaderAvail, Nobody, Odd(av)[i].adr)
      BY <2>1, <3>1, TagIs
    <3> QED
      BY <2>1, <3>2 DEF Pushed
  <2> HIDE DEF own2
  <2>2. \A j \in DOMAIN Kept(av) : g[j] \in DOMAIN av /\ Kept(av)[j] = av[g[j]]
    BY <1>3, <1>8
  <2>3. \A j, i \in DOMAIN Kept(av) : g[j] = g[i] => j = i
    BY <1>4, <1>8
  <2> DEFINE w == Kept(av)
  <2>4. /\ w \in Seq(AvType) /\ Table(av, own, HeaderAvail, Nobody)
        /\ \A u \in Nat : \A j \in DOMAIN w :
              own[u] = Tag(HeaderAvail, Nobody, w[j].adr) => own2[u] = Tag(HeaderAvail, Nobody, w[j].adr)
        /\ \A j \in DOMAIN w : g[j] \in DOMAIN av /\ w[j] = av[g[j]]
        /\ \A j, i \in DOMAIN w : g[j] = g[i] => j = i
    BY <1>8, <2>1, <2>2, <2>3
  <2> HIDE DEF w
  <2>5. Table(w, own2, HeaderAvail, Nobody)
    BY <2>4, PartTable
  <2> QED
    BY <2>5 DEF w
<1> QED
  BY <1>7, <1>8, <1>9, <1>10 DEF l

(* What happens to the owners when a block is pushed.                      *)
LEMMA PushedTags ==
    ASSUME NEW own, NEW av, NEW n, NEW a, NEW size
    PROVE  \A u \in Nat : LET own2 == Retag(Pushed(own, av, n), a, size, Tag(AvailBlock, n, Nobody))
              IN /\ u \in Span(a, size) => own2[u] = Tag(AvailBlock, n, Nobody)
                 /\ u \notin Span(a, size) => own2[u] = Pushed(own, av, n)[u]
                 /\ u \notin Span(a, size) /\ own[u][1] # HeaderAvail => own2[u] = own[u]
                 /\ own2[u] = own[u] \/ own2[u][1] \in {AvailBlock, InBlock}
  BY TagIs DEF Retag, Pushed

LEMMA PushHeaderIs ==
    ASSUME NEW h, IsHeader(h), NEW av, NEW a
    PROVE  LET g == PushHeader(h, av, a)
           IN /\ IsHeader(g) /\ g.dir = h.dir /\ g.dir_bits = h.dir_bits
              /\ g.next_block = h.next_block /\ g.avail = av /\ g.av_next = a
<1> DEFINE k == [dir |-> h.dir, dir_bits |-> h.dir_bits, next_block |-> h.next_block,
                 avail |-> av, av_next |-> a]
<1> DEFINE k1 == WithAvail(h, av)
<1>a. /\ IsHeader(k1) /\ k1.dir = h.dir /\ k1.dir_bits = h.dir_bits
      /\ k1.next_block = h.next_block /\ k1.avail = av
  BY SetAvail
<1>b. PushHeader(h, av, a) = [k1 EXCEPT !.av_next = a]
  BY DEF WithAvail, PushHeader
<1> HIDE DEF k1
<1>c. [k1 EXCEPT !.av_next = a] = [dir |-> k1.dir, dir_bits |-> k1.dir_bits, next_block |-> k1.next_block,
                 avail |-> k1.avail, av_next |-> a]
  BY <1>a DEF IsHeader
<1>1. PushHeader(h, av, a) = k
  BY <1>a, <1>b, <1>c
<1>2. IsHeader(k)
  BY DEF IsHeader
<1> QED
  BY <1>1, <1>2

LEMMA HalfGrows == ASSUME NEW x \in Nat, NEW y \in Nat, x <= y
                   PROVE  x \div 2 <= y \div 2 /\ x \div 2 \in Nat
  OBVIOUS

LEMMA PushIs ==
    ASSUME NEW g, IsMem(g.m)
    PROVE  Push(g) = With(g.m, PushHeader(g.m.header, Kept(g.m.header.avail), g.e.adr),
                          Put(g.m.disk, g.e.adr, av_block, BlockObj(Odd(g.m.header.avail), g.m.header.av_next)),
                          g.m.header_changed, g.m.bucket_changed, g.m.popped)
<1> DEFINE odd == Odd(g.m.header.avail)
           kept == Kept(g.m.header.avail)
<1>1. Push(g) = [g.m EXCEPT !.header.avail = kept, !.header.av_next = g.e.adr,
                            !.disk = Put(@, g.e.adr, av_block, BlockObj(odd, g.m.header.av_next))]
  BY DEF Push, Odd, Kept, BlockObj
<1> HIDE DEF odd, kept
<1> DEFINE d == Put(g.m.disk, g.e.adr, av_block, BlockObj(odd, g.m.header.av_next))
<1>2. Push(g) = [g.m EXCEPT !.header.avail = kept, !.header.av_next = g.e.adr, !.disk = d]
  BY <1>1
<1> HIDE DEF d
<1>3. Push(g) = With(g.m, PushHeader(g.m.header, kept, g.e.adr), d, g.m.header_changed,
                     g.m.bucket_changed, g.m.popped)
  BY <1>2 DEF IsMem, With, PushHeader
<1> QED
  BY <1>3 DEF odd, kept, d

LEMMA PutWrote ==
    ASSUME NEW d, NEW a \in Nat, NEW n \in Nat, NEW obj, obj[1] # "dir"
    PROVE  \A u : Wrote(d, Put(d, a, n, obj), u)
  BY DEF Wrote, Put, SameAt, Span

LEMMA PushMoves ==
    ASSUME NEW g, NEW own, FreeOK(g.m, own), Holder(own, g.e), g.e.size >= av_block
    PROVE  /\ \E own2 : /\ Moves(g.m, own, Push(g), own2, Span(g.e.adr, av_block))
                        /\ \A u \in Nat : own[u][1] = Holding /\ u \notin Span(g.e.adr, av_block) =>
                              own2[u] = own[u]
           /\ Len(Push(g).header.avail) <= avail_size \div 2
           /\ Push(g).header_changed = g.m.header_changed
           /\ Bucket(Push(g)) = Bucket(g.m)
<1> DEFINE m == g.m
           e == g.e
           r == Push(g)
           av == m.header.avail
           odd == Odd(av)
           kept == Kept(av)
           E == Span(e.adr, av_block)
           obj == BlockObj(odd, m.header.av_next)
           d2 == Put(m.disk, e.adr, av_block, obj)
           h == PushHeader(m.header, kept, e.adr)
<1>0. /\ IsMem(m) /\ Table(av, own, HeaderAvail, Nobody) /\ Len(av) <= avail_size
      /\ av \in Seq(AvType) /\ Len(av) \in Nat
  BY DEF FreeOK, Table
<1>1. e.adr \in Nat /\ e.size \in Nat /\ av_block \in Nat /\ av_block > 0
  BY Consts DEF Holder, AvType
<1>2. \A u \in E : u \in Nat /\ u \in Span(e.adr, e.size)
  BY <1>1 DEF Span
<1>3. \A u \in E : own[u] = Held(e.adr) /\ own[u][1] = Holding
  BY <1>2, TagIs DEF Holder, Owned, Held
<1>4. e.adr # 0
  BY TagIs, <1>1, <1>3, Kinds DEF FreeOK, Span
<1>5. PICK S : Stack(m.disk, m.header.av_next, S, own)
  BY DEF FreeOK
<1> DEFINE n == Len(S) + 1
           P == Pushed(own, av, n)
           own2 == Retag(P, e.adr, av_block, Tag(AvailBlock, n, Nobody))
<1>6. /\ odd \in Seq(AvType) /\ Len(odd) = Len(av) \div 2
      /\ kept \in Seq(AvType) /\ Len(kept) = Len(av) \div 2
      /\ Table(odd, P, InBlock, n) /\ Table(kept, P, HeaderAvail, Nobody)
  BY <1>0, Halves
<1>7. Len(av) \div 2 <= avail_size \div 2 /\ Len(av) \div 2 \in Nat
  BY <1>0, HalfGrows, Consts
<1>8. r = With(m, h, d2, m.header_changed, m.bucket_changed, m.popped)
  BY <1>0, PushIs
<1>9. IsHeader(h) /\ h.dir = m.header.dir /\ h.dir_bits = m.header.dir_bits
      /\ h.next_block = m.header.next_block /\ h.avail = kept /\ h.av_next = e.adr
  <2>1. IsHeader(m.header)
    BY <1>0 DEF IsMem
  <2> HIDE DEF kept
  <2> QED BY <2>1, PushHeaderIs
<1> HIDE DEF h, d2
<1>10. /\ OnlySpace(m, r) /\ Bucket(r) = Bucket(m) /\ r.header = h /\ r.disk = d2
       /\ r.header_changed = m.header_changed /\ r.bucket_changed = m.bucket_changed
       /\ r.popped = m.popped /\ r.cache = m.cache /\ r.cur = m.cur /\ IsMem(r)
  <2> HIDE DEF r
  <2> QED BY <1>0, <1>8, <1>9, SetHeader
<1> HIDE DEF r
<1>11. Holds(d2, e.adr, av_block, obj) /\ \A u : u \notin E => SameAt(m.disk, d2, u)
  <2> HIDE DEF obj
  <2> QED BY <1>1, PutHolds DEF d2
<1>12. \A u \in Nat : Wrote(m.disk, d2, u)
  <2>1. obj[1] # "dir"
    BY DEF BlockObj
  <2> HIDE DEF obj
  <2> QED BY <1>1, <2>1, PutWrote DEF d2
<1>13. \A u \in Nat : /\ u \in E => own2[u] = Tag(AvailBlock, n, Nobody)
                      /\ u \notin E => own2[u] = P[u]
                      /\ u \notin E /\ own[u][1] # HeaderAvail => own2[u] = own[u]
                      /\ own2[u] = own[u] \/ own2[u][1] \in {AvailBlock, InBlock}
  BY PushedTags
<1>14. \A u \in E : P[u] = own[u] /\ P[u][1] = Holding
  BY <1>3, TagIs, Kinds, <1>2 DEF Pushed
<1> HIDE DEF own2, P, n, E
<1>15. Table(odd, own2, InBlock, n)
  <2>1. \A u \in Nat : P[u][1] = InBlock /\ P[u][2] = n => own2[u] = P[u]
    BY <1>13, <1>14, Kinds
  <2> HIDE DEF odd
  <2> QED BY <1>6, <2>1, TableKept
<1>16. Table(kept, own2, HeaderAvail, Nobody)
  <2>1. \A u \in Nat : P[u][1] = HeaderAvail /\ P[u][2] = Nobody => own2[u] = P[u]
    BY <1>13, <1>14, Kinds
  <2> HIDE DEF kept
  <2> QED BY <1>6, <2>1, TableKept
<1>17. \A u \in Nat : own[u][1] # HeaderAvail /\ own[u][1] # Holding => own2[u] = own[u]
  BY <1>3, <1>13
<1>18. Table(Bucket(m).avail, own2, BucketAvail, Adr(m))
  BY <1>17, Kinds, TableKept DEF FreeOK
<1>19. \E S2 : Stack(d2, e.adr, S2, own2)
  <2>1. \A u \in Nat : own[u][1] \in {AvailBlock, InBlock} => own2[u] = own[u]
    BY <1>17, Kinds
  <2>2. \A u \in Nat : own[u][1] = AvailBlock => SameAt(m.disk, d2, u)
    BY <1>3, <1>11, Kinds
  <2>3. Owned(own2, e.adr, av_block, Tag(AvailBlock, n, Nobody))
    BY <1>2, <1>13 DEF Owned, E
  <2>4. Len(odd) <= avail_size \div 2
    BY <1>6, <1>7
  <2>5. Holds(d2, e.adr, av_block, <<"avail", odd, m.header.av_next>>)
    BY <1>11 DEF BlockObj
  <2>6. odd \in Seq(AvType) /\ e.adr \in Nat \ {0}
    BY <1>1, <1>4, <1>6
  <2> HIDE DEF odd
  <2> QED
    BY <1>5, <1>15, <2>1, <2>2, <2>3, <2>4, <2>5, <2>6, StackPushed DEF n
<1>20. FreeOK(r, own2)
  <2>1. own2[0] = Tag(TheHeader, Nobody, Nobody)
    BY <1>17, TagIs, Kinds DEF FreeOK
  <2>2. \A u \in Nat : u >= m.header.next_block => own2[u] = Tag(AtEnd, Nobody, Nobody)
    BY <1>17, TagIs, Kinds DEF FreeOK
  <2>3. m.header.next_block \in Nat /\ Len(Bucket(m).avail) <= BUCKET_AVAIL
    BY DEF FreeOK
  <2>4. Len(kept) <= avail_size
    <3>1. Len(kept) \in Nat /\ Len(kept) <= avail_size \div 2
      BY <1>6, <1>7
    <3> HIDE DEF kept
    <3> QED
      BY <3>1, Consts
  <2>5. Adr(r) = Adr(m)
    BY <1>10 DEF Adr
  <2> HIDE DEF kept, m
  <2> QED
    BY <1>9, <1>10, <1>16, <1>18, <1>19, <2>1, <2>2, <2>3, <2>4, <2>5 DEF FreeOK
<1>21. FlagsGrow(m, r)
  BY <1>10 DEF FlagsGrow
<1>22. \A u \in Nat : u \notin E /\ ~FreeUnit(own[u], Adr(m)) => own2[u] = own[u]
  BY <1>13, Kinds DEF FreeUnit, NearUnit
<1>23. \A u \in Nat : NearUnit(own2[u], Adr(m)) => NearUnit(own[u], Adr(m)) \/ u \in E
  BY <1>13, Kinds DEF NearUnit
<1>24. Moves(m, own, r, own2, E)
  BY <1>10, <1>11, <1>12, <1>20, <1>21, <1>22, <1>23 DEF Moves
<1>25. \A u \in Nat : own[u][1] = Holding /\ u \notin E => own2[u] = own[u]
  BY <1>13, Kinds
<1>26. Len(r.header.avail) <= avail_size \div 2
  BY <1>6, <1>7, <1>9, <1>10
<1> QED
  BY <1>10, <1>24, <1>25, <1>26 DEF r, E

LEMMA MovesMore ==
    ASSUME NEW m, NEW own, NEW r, NEW own2, NEW E, NEW F, Moves(m, own, r, own2, E), \A u \in E : u \in F
    PROVE  Moves(m, own, r, own2, F)
  BY DEF Moves

LEMMA FreeElemMoves ==
    ASSUME NEW m, NEW own, FreeOK(m, own), NEW e, Piece(own, e, Adr(m)),
           Len(m.header.avail) < avail_size
    PROVE  /\ \E own2 : Moves(m, own, FreeElem(m, e), own2, Span(e.adr, e.size))
           /\ Len(FreeElem(m, e).header.avail) <= Len(m.header.avail) + (Third + 1)
<1> DEFINE t == ToHeader(m, e)
<1>1. t \in BOOLEAN
  BY DEF ToHeader
<1>2. ~t => Len(Bucket(m).avail) < BUCKET_AVAIL
  BY Consts DEF FreeOK, Table, ToHeader
<1>3. FreeElem(m, e) = FreeTo(m, e, t)
  BY DEF FreeElem
<1> HIDE DEF t
<1> QED
  BY <1>1, <1>2, <1>3, FreeToMoves

LEMMA CutUnits ==
    \A g, own, n : Holder(own, g.e) /\ n \in Nat /\ g.e.size >= n =>
       /\ Cut(g, n) \in PieceType
       /\ \A u \in Span(Cut(g, n).adr, Cut(g, n).size) :
             u \in Nat /\ u \in Span(g.e.adr, g.e.size) /\ u \notin Span(g.e.adr, n) /\ own[u] = Held(g.e.adr)
<1> SUFFICES ASSUME NEW g, NEW own, NEW n \in Nat, Holder(own, g.e), g.e.size >= n
             PROVE /\ Cut(g, n) \in PieceType
                   /\ \A u \in Span(Cut(g, n).adr, Cut(g, n).size) :
                        u \in Nat /\ u \in Span(g.e.adr, g.e.size) /\ u \notin Span(g.e.adr, n) /\ own[u] = Held(g.e.adr)
  OBVIOUS
<1>1. g.e.adr \in Nat /\ g.e.size \in Nat
  BY DEF Holder, AvType
<1> DEFINE c == Cut(g, n)
<1>2. c = [adr |-> g.e.adr + n, size |-> g.e.size - n]
  BY DEF Cut
<1>3. c \in PieceType /\ c.adr = g.e.adr + n /\ c.size = g.e.size - n
  BY <1>1, <1>2 DEF PieceType
<1> HIDE DEF c
<1>4. \A u \in Span(c.adr, c.size) : u \in Nat /\ u \in Span(g.e.adr, g.e.size) /\ u \notin Span(g.e.adr, n)
  BY <1>1, <1>3 DEF Span
<1>5. \A u \in Span(c.adr, c.size) : own[u] = Held(g.e.adr)
  BY <1>4 DEF Holder, Owned
<1> QED
  BY <1>3, <1>4, <1>5 DEF c

LEMMA HeldTaken == \A x, a : Taken(Held(x), a) /\ Held(x)[1] = Holding
  BY TagIs, Kinds DEF Taken, Held, FreeUnit, NearUnit

LEMMA PushAvailMoves ==
    ASSUME NEW m, NEW own, FreeOK(m, own)
    PROVE  /\ \E own2 : Moves(m, own, PushAvail(m), own2, {})
           /\ Len(PushAvail(m).header.avail) < avail_size
<1> DEFINE g == GetHeaderAv(m, av_block)
           p == Push(g)
           c == Cut(g, av_block)
           r == PushAvail(m)
<1>0. r = FreeElem(p, c)
  BY DEF PushAvail, PushWith
<1> HIDE DEF r
<1>1. PICK o1 : Gets(m, own, g, o1, av_block)
  BY GetHeaderAvGets, Consts
<1> HIDE DEF g
<1>2. /\ FreeOK(g.m, o1) /\ Holder(o1, g.e) /\ g.e.size >= av_block /\ Moves(m, own, g.m, o1, {})
      /\ \A u \in Span(g.e.adr, g.e.size) : FreeUnit(own[u], Adr(m))
      /\ ~g.m.popped => \A u \in Span(g.e.adr, g.e.size) : NearUnit(own[u], Adr(m))
  BY <1>1 DEF Gets, Moves, Holder
<1>3. /\ \E o2 : /\ Moves(g.m, o1, p, o2, Span(g.e.adr, av_block))
                 /\ \A u \in Nat : o1[u][1] = Holding /\ u \notin Span(g.e.adr, av_block) => o2[u] = o1[u]
      /\ Len(p.header.avail) <= avail_size \div 2
  BY <1>2, PushMoves
<1> HIDE DEF p
<1>4. PICK o2 : /\ Moves(g.m, o1, p, o2, Span(g.e.adr, av_block))
                /\ \A u \in Nat : o1[u][1] = Holding /\ u \notin Span(g.e.adr, av_block) => o2[u] = o1[u]
  BY <1>3
<1>5. /\ c \in PieceType
      /\ \A u \in Span(c.adr, c.size) : /\ u \in Nat /\ u \in Span(g.e.adr, g.e.size)
                                       /\ u \notin Span(g.e.adr, av_block) /\ o1[u] = Held(g.e.adr)
  BY <1>2, Consts, CutUnits DEF c
<1> HIDE DEF c
<1>6. \A u \in Span(g.e.adr, av_block) : u \in Span(g.e.adr, g.e.size)
  BY <1>2, Consts DEF Holder, AvType, Span
<1>7. Moves(m, own, p, o2, {})
  <2>1. \A u \in Span(g.e.adr, av_block) : u \in {} \/ FreeUnit(own[u], Adr(m))
    BY <1>2, <1>6
  <2>2. ~g.m.popped => \A u \in Span(g.e.adr, av_block) : u \in {} \/ NearUnit(own[u], Adr(m))
    BY <1>2, <1>6
  <2> DEFINE none == {}
             F == Span(g.e.adr, av_block)
             q == g.m
  <2> HIDE DEF none, F, q
  <2>3. Moves(m, own, q, o1, none) /\ Moves(q, o1, p, o2, F)
        /\ (\A u \in F : u \in none \/ FreeUnit(own[u], Adr(m)))
        /\ (~q.popped => \A u \in F : u \in none \/ NearUnit(own[u], Adr(m)))
    BY <1>2, <1>4, <2>1, <2>2 DEF none, F, q
  <2>4. Moves(m, own, p, o2, none)
    BY <2>3, MovesTrans
  <2> QED
    BY <2>4 DEF none
<1>8. FreeOK(p, o2) /\ Len(p.header.avail) \in Nat
  BY <1>4 DEF Moves, FreeOK, Table
<1>9. Piece(o2, c, Adr(p))
  BY <1>4, <1>5, HeldTaken DEF Piece
<1>10. Len(p.header.avail) < avail_size
  BY <1>3, <1>8, Consts
<1>11. /\ \E o3 : Moves(p, o2, r, o3, Span(c.adr, c.size))
       /\ Len(r.header.avail) <= Len(p.header.avail) + (Third + 1)
  BY <1>0, <1>8, <1>9, <1>10, FreeElemMoves
<1>12. PICK o3 : Moves(p, o2, r, o3, Span(c.adr, c.size))
  BY <1>11
<1>13. Moves(m, own, r, o3, {})
  <2>1. \A u \in Span(c.adr, c.size) : u \in {} \/ FreeUnit(own[u], Adr(m))
    BY <1>2, <1>5
  <2>2. ~p.popped => ~g.m.popped
    BY <1>4 DEF Moves, FlagsGrow
  <2>3. ~p.popped => \A u \in Span(c.adr, c.size) : u \in {} \/ NearUnit(own[u], Adr(m))
    BY <1>2, <1>5, <2>2
  <2> QED
    BY <1>7, <1>12, <2>1, <2>3, MovesTrans
<1>14. Len(r.header.avail) < avail_size
  <2>1. Len(r.header.avail) \in Nat
    BY <1>12 DEF Moves, FreeOK, Table
  <2> DEFINE x == Len(r.header.avail)
             y == Len(p.header.avail)
  <2>2. x \in Nat /\ y \in Nat /\ x <= y + (Third + 1) /\ y <= avail_size \div 2
    BY <1>3, <1>8, <1>11, <2>1
  <2> HIDE DEF x, y
  <2>3. x < avail_size
    BY <2>2, Consts DEF Third
  <2> QED
    BY <2>3 DEF x
<1> QED
  BY <1>13, <1>14 DEF r

(* A file's free space never has one owner too many: what is freed is      *)
(* added to it, and nothing else changes hands.                            *)
LEMMA FreeRegionMoves ==
    ASSUME NEW m, NEW own, FreeOK(m, own), NEW e, Piece(own, e, Adr(m))
    PROVE  /\ \E own2 : Moves(m, own, FreeRegion(m, e), own2, Span(e.adr, e.size))
           /\ Quiet(m, FreeRegion(m, e))
<1> DEFINE t == ToHeader(m, e)
           F == Span(e.adr, e.size)
           r == FreeRegion(m, e)
<1>0. /\ Len(m.header.avail) \in Nat /\ Len(m.header.avail) <= avail_size /\ avail_size \in Nat
      /\ Len(Bucket(m).avail) \in Nat /\ BUCKET_AVAIL \in Nat /\ e.size \in Nat
  <2>1. /\ m.header.avail \in Seq(AvType) /\ Len(m.header.avail) <= avail_size
        /\ Bucket(m).avail \in Seq(AvType)
    BY DEF FreeOK, Table
  <2>2. e.size \in Nat
    BY DEF Piece, PieceType
  <2> QED
    BY <2>1, <2>2, Consts
<1>1. t \in BOOLEAN /\ (~t => Len(Bucket(m).avail) < BUCKET_AVAIL)
  BY <1>0 DEF ToHeader
<1>2. CASE ~Overflows(m, e)
  <2>1. r = FreeTo(m, e, t)
    BY <1>2 DEF FreeRegion
  <2>2. e.size # 0 /\ t => Len(m.header.avail) < avail_size
    BY <1>0, <1>2 DEF Overflows
  <2> HIDE DEF t, r
  <2> QED
    BY <1>1, <2>1, <2>2, FreeToMoves DEF r
<1>3. CASE Overflows(m, e)
  <2> DEFINE p == PushAvail(m)
  <2>a. r = FreeTo(p, e, t)
    BY <1>3, Zenon DEF FreeRegion
  <2>b. t
    BY <1>3 DEF Overflows
  <2>c. e.size # 0
    BY <1>0, <1>3 DEF Overflows
  <2>2. (\E o1 : Moves(m, own, p, o1, {})) /\ Len(p.header.avail) < avail_size
    BY PushAvailMoves
  <2> HIDE DEF p, t, r
  <2>3. PICK o1 : Moves(m, own, p, o1, {})
    BY <2>2
  <2>4. FreeOK(p, o1) /\ Adr(p) = Adr(m)
    BY <2>3, MovesAdr DEF Moves
  <2>5. Piece(o1, e, Adr(p))
    BY SpanNat, <2>3, TakenTags, <2>4 DEF Piece, PieceType, Moves
  <2>6. (\E o2 : Moves(p, o1, r, o2, F)) /\ r.header_changed
    BY <1>1, <2>a, <2>b, <2>c, <2>2, <2>4, <2>5, FreeToMoves
  <2>7. PICK o2 : Moves(p, o1, r, o2, F)
    BY <2>6
  <2>8. Moves(m, own, p, o1, F)
    BY <2>3, MovesMore
  <2>9. Moves(m, own, r, o2, F)
    <3> HIDE DEF F
    <3> QED BY <2>7, <2>8, MovesTrans
  <2> QED
    BY <2>6, <2>9 DEF Quiet, r
<1> QED
  BY <1>2, <1>3

\* _gdbm_free, with the pushes and pops it may cause: only free space and the region
\* given back change hands.
THEOREM FreeMoves ==
    ASSUME NEW m, NEW own, FreeOK(m, own), NEW a \in Nat, NEW n \in Nat,
           \A u \in Span(a, n) : Taken(own[u], Adr(m))
    PROVE  /\ \E own2 : Moves(m, own, Free(m, a, n), own2, Span(a, n))
           /\ Quiet(m, Free(m, a, n))
<1> DEFINE e == [adr |-> a, size |-> n]
<1>1. e \in PieceType /\ e.adr = a /\ e.size = n
  BY DEF PieceType
<1>2. Free(m, a, n) = FreeRegion(m, e)
  BY DEF Free
<1> HIDE DEF e
<1>3. Piece(own, e, Adr(m))
  BY <1>1 DEF Piece
<1> QED
  BY <1>1, <1>2, <1>3, FreeRegionMoves

-----------------------------------------------------------------------------
(* The list loses its head.                                                *)

LEMMA StackPopped ==
    ASSUME NEW d, NEW head, NEW S, NEW own, NEW own2, Stack(d, head, S, own), S # <<>>,
           \A u \in Nat : own[u][1] \in {AvailBlock, InBlock} /\ own[u][2] # Len(S) => own2[u] = own[u]
    PROVE  \E S2 : Stack(d, Below(S, Len(S)), S2, own2)
<1> DEFINE n == Len(S)
           S2 == SubSeq(S, 1, n - 1)
           T == [adr : Nat \ {0}, av : Seq(AvType)]
<1>1. S \in Seq(T) /\ n \in Nat /\ n > 0 /\ DOMAIN S = 1 .. n
  BY DEF Stack
<1> HIDE DEF T
<1>2. /\ S2 \in Seq(T) /\ Len(S2) = n - 1 /\ DOMAIN S2 = 1 .. n - 1
      /\ \A i \in 1 .. n - 1 : S2[i] = S[i]
  BY <1>1
<1> HIDE DEF S2
<1>3. Below(S, n) = IF S2 = <<>> THEN 0 ELSE S2[Len(S2)].adr
  BY <1>2, <1>1 DEF Below
<1>4. ASSUME NEW i \in DOMAIN S2
      PROVE  /\ Holds(d, S2[i].adr, av_block,
                      <<"avail", S2[i].av, IF i = 1 THEN 0 ELSE S2[i - 1].adr>>)
             /\ Owned(own2, S2[i].adr, av_block, Tag(AvailBlock, i, Nobody))
             /\ Table(S2[i].av, own2, InBlock, i)
             /\ Len(S2[i].av) <= avail_size \div 2
  <2>1. i \in DOMAIN S /\ i # n /\ S2[i] = S[i] /\ (i = 1 \/ S2[i - 1] = S[i - 1])
    BY <1>1, <1>2
  <2>2. (IF i = 1 THEN 0 ELSE S2[i - 1].adr) = (IF i = 1 THEN 0 ELSE S[i - 1].adr)
    BY <2>1
  <2>3. /\ Holds(d, S[i].adr, av_block,
                 <<"avail", S[i].av, IF i = 1 THEN 0 ELSE S[i - 1].adr>>)
        /\ Owned(own, S[i].adr, av_block, Tag(AvailBlock, i, Nobody))
        /\ Table(S[i].av, own, InBlock, i)
        /\ Len(S[i].av) <= avail_size \div 2
    BY <2>1 DEF Stack
  <2>4. S[i].adr \in Nat
    <3>1. S[i] \in T
      BY <1>1, <2>1, InSeq
    <3> QED
      BY <3>1 DEF T
  <2>5. \A u \in Span(S[i].adr, av_block) : u \in Nat /\ own[u] = Tag(AvailBlock, i, Nobody)
           /\ own[u][1] = AvailBlock /\ own[u][2] = i
    BY <2>3, <2>4, SpanNat, OwnedTag, Consts
  <2>6. Owned(own2, S[i].adr, av_block, Tag(AvailBlock, i, Nobody))
    BY <2>1, <2>5 DEF Owned
  <2>7. Table(S[i].av, own2, InBlock, i)
    BY <2>1, <2>3, TableKept
  <2> QED
    BY <2>1, <2>2, <2>3, <2>6, <2>7
<1> QED
  BY <1>2, <1>3, <1>4 DEF Stack, T

LEMMA PoppedTable ==
    ASSUME NEW av, NEW own, NEW n, Table(av, own, InBlock, n)
    PROVE  Table(av, Popped(own, n), HeaderAvail, Nobody)
<1> DEFINE f == [i \in DOMAIN av |-> i]
           own2 == Popped(own, n)
<1>1. av \in Seq(AvType)
  BY DEF Table
<1>2. \A j \in DOMAIN av : f[j] \in DOMAIN av /\ av[j] = av[f[j]]
  OBVIOUS
<1>3. \A j, l \in DOMAIN av : f[j] = f[l] => j = l
  OBVIOUS
<1>4. \A u \in Nat : \A j \in DOMAIN av :
         own[u] = Tag(InBlock, n, av[j].adr) => own2[u] = Tag(HeaderAvail, Nobody, av[j].adr)
  BY TagIs DEF Popped
<1> HIDE DEF f, own2
<1>5. Table(av, own2, HeaderAvail, Nobody)
  BY <1>1, <1>2, <1>3, <1>4, PartTable
<1> QED
  BY <1>5 DEF own2

LEMMA PopIs ==
    ASSUME NEW m, IsMem(m), m.header.avail = <<>>, NEW a, a = m.header.av_next, a # 0,
           NEW av, NEW b, Get(m.disk, a, av_block) = <<"avail", av, b>>
    PROVE  PopAvail(m) = With(m, PushHeader(m.header, PutAv(av, [adr |-> a, size |-> av_block]), b),
                              m.disk, Yes, m.bucket_changed, Yes)
<1> DEFINE w == PutAv(av, [adr |-> a, size |-> av_block])
<1>1. PopAvail(m) = [m EXCEPT !.header.avail = w, !.header.av_next = b,
                              !.header_changed = TRUE, !.popped = TRUE]
  BY DEF PopAvail
<1> HIDE DEF w
<1>2. PopAvail(m) = With(m, PushHeader(m.header, w, b), m.disk, Yes, m.bucket_changed, Yes)
  BY <1>1 DEF IsMem, With, PushHeader, Yes
<1> QED
  BY <1>2 DEF w

LEMMA PopAvailMoves ==
    ASSUME NEW m, NEW own, FreeOK(m, own)
    PROVE  /\ \E own2 : Moves(m, own, PopAvail(m), own2, {})
           /\ Quiet(m, PopAvail(m))
           /\ Bucket(PopAvail(m)) = Bucket(m)
<1> DEFINE r == PopAvail(m)
           a == m.header.av_next
<1>1. CASE m.header.avail # <<>> \/ a = 0
  BY <1>1, MovesSelf DEF PopAvail, Quiet
<1>2. CASE m.header.avail = <<>> /\ a # 0
  <2>0. IsMem(m)
    BY DEF FreeOK
  <2>1. PICK S : Stack(m.disk, a, S, own)
    BY DEF FreeOK
  <2> DEFINE n == Len(S)
             av == S[n].av
             b == Below(S, n)
             e == [adr |-> a, size |-> av_block]
             w == PutAv(av, e)
             h == PushHeader(m.header, w, b)
             P == Popped(own, n)
             own2 == Retag(P, e.adr, e.size, Tag(HeaderAvail, Nobody, e.adr))
  <2>2. S # <<>> /\ n \in DOMAIN S /\ a = S[n].adr /\ S \in Seq([adr : Nat \ {0}, av : Seq(AvType)])
    BY <1>2, <2>1 DEF Stack
  <2>3. a \in Nat
    <3>1. S[n] \in [adr : Nat \ {0}, av : Seq(AvType)]
      BY <2>2, InSeq
    <3> QED
      BY <2>2, <3>1
  <2>4. /\ Holds(m.disk, a, av_block, <<"avail", av, b>>)
        /\ Owned(own, a, av_block, Tag(AvailBlock, n, Nobody))
        /\ Table(av, own, InBlock, n)
        /\ Len(av) <= avail_size \div 2
    BY <2>1, <2>2 DEF Stack, Below
  <2>5. Get(m.disk, a, av_block) = <<"avail", av, b>>
    BY <2>3, <2>4, GetHeld, Consts
  <2>6. r = With(m, h, m.disk, Yes, m.bucket_changed, Yes)
    BY <1>2, <2>0, <2>5, PopIs
  <2>7. e \in PieceType /\ e \in AvType /\ e.adr = a /\ e.size = av_block
    BY <2>3, Consts DEF PieceType, AvType
  <2>8. \A u \in Span(a, av_block) : u \in Nat /\ own[u] = Tag(AvailBlock, n, Nobody)
           /\ own[u][1] = AvailBlock /\ own[u][2] = n
    BY <2>3, <2>4, SpanNat, OwnedTag, Consts
  <2> HIDE DEF e, av, b, n, a, r
  <2>9. Table(av, P, HeaderAvail, Nobody) /\ \A u \in Span(a, av_block) : P[u] = own[u] /\ P[u][1] # HeaderAvail
    BY <2>4, <2>8, PoppedTable, Kinds DEF Popped
  <2>10. \A u \in Nat : P[u] = own[u] \/ (own[u][1] = InBlock /\ own[u][2] = n /\ P[u][1] = HeaderAvail)
    BY TagIs DEF Popped
  <2> HIDE DEF P
  <2>11. Table(w, own2, HeaderAvail, Nobody) /\ Len(w) \in Nat /\ Len(w) <= Len(av) + 1
    BY <2>7, <2>9, PutIn
  <2>12. \A u \in Nat : own2[u] = own[u] \/ ( /\ own[u][1] \in {InBlock, AvailBlock} /\ own[u][2] = n
                                              /\ own2[u][1] = HeaderAvail )
    BY <2>7, <2>8, <2>10, TagIs DEF Retag
  <2> HIDE DEF own2, w
  <2>13. IsHeader(h) /\ h.dir = m.header.dir /\ h.dir_bits = m.header.dir_bits
         /\ h.next_block = m.header.next_block /\ h.avail = w /\ h.av_next = b
    BY <2>0, PushHeaderIs DEF IsMem
  <2> HIDE DEF h
  <2>14. /\ OnlySpace(m, r) /\ Bucket(r) = Bucket(m) /\ r.header = h /\ r.disk = m.disk
         /\ r.header_changed = Yes /\ r.bucket_changed = m.bucket_changed
         /\ r.popped = Yes /\ r.cache = m.cache /\ r.cur = m.cur /\ IsMem(r)
    BY <2>0, <2>6, <2>13, SetHeader
  <2>15. FreeOK(r, own2)
    <3>0. \A u \in Nat : own[u][1] # InBlock /\ own[u][1] # AvailBlock => own2[u] = own[u]
      BY <2>12
    <3>1. own2[0] = Tag(TheHeader, Nobody, Nobody)
      BY <3>0, TagIs, Kinds DEF FreeOK
    <3>2. \A u \in Nat : u >= m.header.next_block => own2[u] = Tag(AtEnd, Nobody, Nobody)
      BY <3>0, TagIs, Kinds DEF FreeOK
    <3>3. m.header.next_block \in Nat /\ Len(Bucket(m).avail) <= BUCKET_AVAIL
      BY DEF FreeOK
    <3>4. Len(w) <= avail_size
      <4>1. Len(av) \in Nat
        BY <2>4 DEF Table
      <4> DEFINE x == Len(w)
                 y == Len(av)
      <4>2. x \in Nat /\ y \in Nat /\ x <= y + 1 /\ y <= avail_size \div 2
        BY <4>1, <2>4, <2>11
      <4> HIDE DEF x, y
      <4>3. x <= avail_size
        BY <4>2, Consts
      <4> QED
        BY <4>3 DEF x
    <3>5. Adr(r) = Adr(m)
      BY <2>14 DEF Adr
    <3>6. Table(Bucket(m).avail, own2, BucketAvail, Adr(m))
      BY <3>0, Kinds, TableKept DEF FreeOK
    <3>7. \E S2 : Stack(m.disk, b, S2, own2)
      BY <2>12, <2>1, <2>2, StackPopped DEF b, n
    <3> QED
      BY <2>11, <2>13, <2>14, <3>1, <3>2, <3>3, <3>4, <3>5, <3>6, <3>7 DEF FreeOK
  <2>16. FlagsGrow(m, r)
    BY <2>14 DEF FlagsGrow, Yes
  <2>17. \A u \in Nat : ~FreeUnit(own[u], Adr(m)) => own2[u] = own[u]
    BY <2>12 DEF FreeUnit
  <2>18. Moves(m, own, r, own2, {})
    BY <2>14, <2>15, <2>16, <2>17, SameSelf DEF Moves, Yes
  <2>19. r.header_changed
    BY <2>14 DEF Yes
  <2> QED
    BY <2>14, <2>18, <2>19 DEF Quiet, r
<1> QED
  BY <1>1, <1>2

LEMMA GetsTrans ==
    ASSUME NEW m, NEW own, NEW p, NEW o1, Moves(m, own, p, o1, {}),
           NEW g, NEW o2, NEW n, Gets(p, o1, g, o2, n)
    PROVE  Gets(m, own, g, o2, n)
<1>1. Adr(p) = Adr(m)
  BY MovesAdr
<1>2. Moves(p, o1, g.m, o2, {}) /\ g.e \in AvType
  BY DEF Gets
<1>3. Moves(m, own, g.m, o2, {})
  BY <1>2, MovesTrans
<1>4. \A u \in Span(g.e.adr, g.e.size) : u \in Nat /\ FreeUnit(o1[u], Adr(m))
  BY <1>2, <1>1, SpanNat DEF AvType, Gets
<1>5. \A u \in Nat : FreeUnit(o1[u], Adr(m)) => FreeUnit(own[u], Adr(m))
  BY DEF Moves
<1>6. ~g.m.popped => \A u \in Span(g.e.adr, g.e.size) : NearUnit(own[u], Adr(m))
  <2> SUFFICES ASSUME ~g.m.popped, NEW u \in Span(g.e.adr, g.e.size) PROVE NearUnit(own[u], Adr(m))
    OBVIOUS
  <2>1. ~p.popped
    BY <1>2 DEF Moves, FlagsGrow
  <2>2. NearUnit(o1[u], Adr(m)) /\ u \in Nat
    BY <1>1, <1>4 DEF Gets
  <2> QED
    BY <2>1, <2>2 DEF Moves
<1>7. g.e \in AvType /\ g.e.size >= n /\ Owned(o2, g.e.adr, g.e.size, Held(g.e.adr))
  BY DEF Gets
<1> QED
  BY <1>3, <1>4, <1>5, <1>6, <1>7 DEF Gets

LEMMA FlagMoves ==
    ASSUME NEW m, NEW own, FreeOK(m, own)
    PROVE  /\ Moves(m, own, Flagged(m), own, {})
           /\ Flagged(m).header_changed
           /\ Flagged(m).popped = m.popped
<1> DEFINE r == Flagged(m)
<1>0. IsMem(m)
  BY DEF FreeOK
<1>1. r = With(m, m.header, m.disk, Yes, m.bucket_changed, m.popped)
  BY <1>0 DEF IsMem, With, Flagged, Yes
<1> HIDE DEF r
<1>2. IsHeader(m.header)
  BY <1>0 DEF IsMem
<1>3. /\ OnlySpace(m, r) /\ Bucket(r) = Bucket(m) /\ r.header = m.header /\ r.disk = m.disk
      /\ r.header_changed = Yes /\ r.bucket_changed = m.bucket_changed
      /\ r.popped = m.popped /\ r.cache = m.cache /\ r.cur = m.cur /\ IsMem(r)
  BY <1>0, <1>1, <1>2, SetHeader
<1>4. Adr(r) = Adr(m)
  BY <1>3 DEF Adr
<1>5. FreeOK(r, own)
  BY <1>3, <1>4 DEF FreeOK
<1>6. FlagsGrow(m, r)
  BY <1>3 DEF FlagsGrow, Yes
<1>7. Moves(m, own, r, own, {})
  BY <1>3, <1>5, <1>6, SameSelf DEF Moves
<1> QED
  BY <1>3, <1>7 DEF r, Yes

LEMMA FromHeaderIs ==
    ASSUME NEW m, NEW n
    PROVE  LET g == GetHeaderAv(m, n)
               h == FromHeader(GetHeaderAv(m, n))
           IN h.m = Flagged(g.m) /\ h.e = g.e
<1>a. \A h : FromHeader(h) = [h EXCEPT !.m = Flagged(h.m)]
  BY DEF FromHeader, Flagged
<1>b. \A x, y, f : [[m |-> x, e |-> y] EXCEPT !.m = f] = [m |-> f, e |-> y]
  OBVIOUS
<1>1. \A x, y : FromHeader([m |-> x, e |-> y]) = [m |-> Flagged(x), e |-> y]
  BY <1>a, <1>b
<1>2. \A x, y : [m |-> x, e |-> y].m = x /\ [m |-> x, e |-> y].e = y
  OBVIOUS
<1>3. \E x, y : GetHeaderAv(m, n) = [m |-> x, e |-> y]
  BY Zenon DEF GetHeaderAv, GetBlock
<1>4. PICK x, y : GetHeaderAv(m, n) = [m |-> x, e |-> y]
  BY <1>3
<1>5. FromHeader(GetHeaderAv(m, n)) = [m |-> Flagged(x), e |-> y]
  BY <1>1, <1>4
<1> QED
  BY <1>2, <1>4, <1>5

LEMMA ElemGets ==
    ASSUME NEW m, NEW own, FreeOK(m, own), NEW n \in Nat
    PROVE  /\ \E own2 : Gets(m, own, Elem(m, n), own2, n)
           /\ Quiet(m, Elem(m, n).m)
<1>1. CASE Fits(Bucket(m).avail, n) # {}
  BY <1>1, BucketElemGets DEF Quiet
<1>2. CASE Fits(Bucket(m).avail, n) = {}
  <2> DEFINE p == PopAvail(m)
             g == GetHeaderAv(p, n)
             h == Elem(m, n)
  <2>1. h = FromHeader(g)
    BY <1>2 DEF Elem
  <2>2. \E o : Moves(m, own, p, o, {})
    BY PopAvailMoves
  <2> HIDE DEF p
  <2>3. PICK o1 : Moves(m, own, p, o1, {})
    BY <2>2
  <2>4. FreeOK(p, o1)
    BY <2>3 DEF Moves
  <2>5. PICK o2 : Gets(p, o1, g, o2, n)
    BY <2>4, GetHeaderAvGets
  <2>6. Gets(m, own, g, o2, n)
    BY <2>3, <2>5, GetsTrans
  <2>7. h.m = Flagged(g.m) /\ h.e = g.e
    BY <2>1, FromHeaderIs
  <2> HIDE DEF g, h
  <2>8. FreeOK(g.m, o2) /\ Moves(m, own, g.m, o2, {})
    BY <2>6 DEF Gets, Moves
  <2>9. Moves(g.m, o2, h.m, o2, {}) /\ h.m.header_changed /\ h.m.popped = g.m.popped
    BY <2>7, <2>8, FlagMoves
  <2>10. Moves(m, own, h.m, o2, {})
    BY <2>8, <2>9, MovesTrans
  <2>11. Gets(m, own, h, o2, n)
    BY <2>6, <2>7, <2>9, <2>10 DEF Gets
  <2> QED
    BY <2>9, <2>11 DEF Quiet, h
<1> QED
  BY <1>1, <1>2

LEMMA AllocFromMoves ==
    ASSUME NEW m, NEW own, NEW g, NEW o1, NEW n \in Nat, Gets(m, own, g, o1, n), Quiet(m, g.m)
    PROVE  \E own2 : Allocates(m, own, AllocFrom(g, n), own2, n)
<1> DEFINE c == Cut(g, n)
           a == AllocFrom(g, n)
           q == FreeRegion(g.m, c)
           F == Span(c.adr, c.size)
<1>1. a.m = q /\ a.adr = g.e.adr
  BY DEF AllocFrom
<1>2. /\ FreeOK(g.m, o1) /\ Holder(o1, g.e) /\ g.e.size >= n /\ Moves(m, own, g.m, o1, {})
      /\ \A u \in Span(g.e.adr, g.e.size) : FreeUnit(own[u], Adr(m))
      /\ ~g.m.popped => \A u \in Span(g.e.adr, g.e.size) : NearUnit(own[u], Adr(m))
      /\ Adr(g.m) = Adr(m)
  BY MovesAdr DEF Gets, Moves, Holder
<1>3. /\ c \in PieceType
      /\ \A u \in Span(c.adr, c.size) : /\ u \in Nat /\ u \in Span(g.e.adr, g.e.size)
                                       /\ u \notin Span(g.e.adr, n) /\ o1[u] = Held(g.e.adr)
  <2>1. Holder(o1, g.e) /\ g.e.size >= n /\ n \in Nat
    BY <1>2
  <2> HIDE DEF a, q, F
  <2> QED
    BY <2>1, CutUnits DEF c
<1> HIDE DEF c, a, q
<1>4. Piece(o1, c, Adr(g.m))
  BY <1>3, HeldTaken DEF Piece
<1>5. (\E o : Moves(g.m, o1, q, o, F)) /\ Quiet(g.m, q)
  BY <1>2, <1>4, FreeRegionMoves DEF q
<1>6. PICK o2 : Moves(g.m, o1, q, o2, F)
  BY <1>5
<1>7. Moves(m, own, q, o2, {})
  <2>1. \A u \in F : u \in {} \/ FreeUnit(own[u], Adr(m))
    BY <1>2, <1>3
  <2>2. ~g.m.popped => \A u \in F : u \in {} \/ NearUnit(own[u], Adr(m))
    BY <1>2, <1>3
  <2> HIDE DEF F
  <2> QED
    BY <1>2, <1>6, <2>1, <2>2, MovesTrans
<1>8. g.e.adr \in Nat /\ g.e.size \in Nat /\ \A u \in Span(g.e.adr, n) : u \in Nat /\ u \in Span(g.e.adr, g.e.size)
  BY <1>2 DEF Holder, AvType, Span
<1>9. Owned(o2, g.e.adr, n, Held(g.e.adr))
  <2> SUFFICES ASSUME NEW u \in Span(g.e.adr, n) PROVE o2[u] = Held(g.e.adr)
    BY DEF Owned
  <2>1. u \in Nat /\ o1[u] = Held(g.e.adr) /\ u \notin F
    BY <1>2, <1>3, <1>8 DEF Holder, Owned
  <2>2. ~FreeUnit(o1[u], Adr(g.m))
    BY <2>1, HeldTaken, TakenTags
  <2> QED
    BY <1>6, <2>1, <2>2 DEF Moves
<1>10. ~q.popped => ~g.m.popped
  BY <1>6 DEF Moves, FlagsGrow
<1>11. Quiet(m, q)
  BY <1>6, <1>5, QuietTrans DEF Moves, FlagsGrow
<1>12. Allocates(m, own, a, o2, n)
  BY <1>1, <1>2, <1>7, <1>8, <1>9, <1>10, <1>11 DEF Allocates
<1> QED
  BY <1>12 DEF a

\* _gdbm_alloc, wherever the space comes from, takes it out of free space only: it is
\* in no table any more, and nothing in use has changed hands or been written to.
THEOREM AllocMoves ==
    ASSUME NEW m, NEW own, FreeOK(m, own), NEW n \in Nat
    PROVE  \E own2 : Allocates(m, own, Alloc(m, n), own2, n)
<1> DEFINE g == Elem(m, n)
<1>1. Alloc(m, n) = AllocFrom(g, n)
  BY DEF Alloc
<1>2. (\E o1 : Gets(m, own, g, o1, n)) /\ Quiet(m, g.m)
  BY ElemGets
<1> HIDE DEF g
<1> QED
  BY <1>1, <1>2, AllocFromMoves

-----------------------------------------------------------------------------
(* Powers of two and what is left of a number divided by them.             *)

LEMMA TwoIs ==
    /\ Two[0] = 1
    /\ \A n \in 1 .. HashBits : Two[n] = 2 * Two[n - 1]
<1> DEFINE F(f) == [n \in 0 .. HashBits |-> IF n = 0 THEN 1 ELSE 2 * f[n - 1]]
           P(n) == \E f : f = [i \in 0 .. n |-> IF i = 0 THEN 1 ELSE 2 * f[i - 1]]
           Bad == {n \in 0 .. HashBits : ~P(n)}
<1>0. HashBits \in Nat
  BY GdbmAssumption
<1>1. P(0)
  <2>1. [i \in 0 .. 0 |-> 1] = [i \in 0 .. 0 |-> IF i = 0 THEN 1 ELSE 2 * [j \in 0 .. 0 |-> 1][i - 1]]
    OBVIOUS
  <2> QED
    BY <2>1
<1>2. ASSUME NEW n \in 1 .. HashBits, P(n - 1) PROVE P(n)
  <2>1. PICK f : f = [i \in 0 .. n - 1 |-> IF i = 0 THEN 1 ELSE 2 * f[i - 1]]
    BY <1>2
  <2> DEFINE g == [i \in 0 .. n |-> IF i = n THEN 2 * f[n - 1] ELSE f[i]]
  <2>2. \A i \in 0 .. n : g[i] = IF i = 0 THEN 1 ELSE 2 * g[i - 1]
    <3> SUFFICES ASSUME NEW i \in 0 .. n PROVE g[i] = IF i = 0 THEN 1 ELSE 2 * g[i - 1]
      OBVIOUS
    <3>1. CASE i = n
      BY <1>0, <3>1
    <3>2. CASE i # n
      BY <1>0, <3>2, <2>1
    <3> QED
      BY <3>1, <3>2
  <2>3. g = [i \in 0 .. n |-> g[i]]
    OBVIOUS
  <2> HIDE DEF g
  <2>4. g = [i \in 0 .. n |-> IF i = 0 THEN 1 ELSE 2 * g[i - 1]]
    BY <2>2, <2>3
  <2> QED
    BY <2>4
<1>3. Bad = {}
  <2> SUFFICES ASSUME Bad # {} PROVE FALSE
    OBVIOUS
  <2>1. Bad \subseteq Nat
    BY <1>0
  <2> HIDE DEF P
  <2>2. PICK n \in Bad : \A j \in Bad : n <= j
    <3> HIDE DEF Bad
    <3> QED BY <2>1, Least
  <2>3. n \in 1 .. HashBits
    BY <1>0, <1>1
  <2>4. n - 1 \in 0 .. HashBits /\ n - 1 \notin Bad
    BY <1>0, <2>2, <2>3
  <2> QED
    BY <1>2, <2>3, <2>4
<1>4. \E f : f = F(f)
  <2>1. HashBits \in 0 .. HashBits
    BY <1>0
  <2>2. P(HashBits)
    <3> HIDE DEF P
    <3> QED BY <1>3, <2>1
  <2> QED
    BY <2>2, Zenon
<1>5. Two = CHOOSE f : f = F(f)
  BY Zenon DEF Two
<1>6. Two = F(Two)
  <2> HIDE DEF F
  <2> QED BY <1>4, <1>5
<1> QED
  BY <1>0, <1>6

LEMMA TwoPos == \A n \in 0 .. HashBits : Two[n] \in Nat /\ Two[n] >= 1
<1> DEFINE P(n) == Two[n] \in Nat /\ Two[n] >= 1
           Bad == {n \in 0 .. HashBits : ~P(n)}
<1>0. HashBits \in Nat
  BY GdbmAssumption
<1>1. P(0)
  BY TwoIs
<1>2. ASSUME NEW n \in 1 .. HashBits, P(n - 1) PROVE P(n)
  BY <1>2, TwoIs
<1>3. Bad = {}
  <2> SUFFICES ASSUME Bad # {} PROVE FALSE
    OBVIOUS
  <2>1. Bad \subseteq Nat
    BY <1>0
  <2> HIDE DEF P
  <2>2. PICK n \in Bad : \A j \in Bad : n <= j
    <3> HIDE DEF Bad
    <3> QED BY <2>1, Least
  <2>3. n \in 1 .. HashBits
    BY <1>0, <1>1
  <2>4. n - 1 \in 0 .. HashBits /\ n - 1 \notin Bad
    BY <1>0, <2>2, <2>3
  <2> QED
    BY <1>2, <2>3, <2>4
<1> QED
  BY <1>3

LEMMA TwoSum == \A a, b \in Nat : a + b <= HashBits => Two[a + b] = Two[a] * Two[b]
<1> SUFFICES ASSUME NEW a \in Nat PROVE \A b \in Nat : a + b <= HashBits => Two[a + b] = Two[a] * Two[b]
  OBVIOUS
<1> DEFINE P(b) == a + b <= HashBits => Two[a + b] = Two[a] * Two[b]
           Bad == {b \in Nat : ~P(b)}
<1>0. HashBits \in Nat
  BY GdbmAssumption
<1>1. P(0)
  <2> SUFFICES ASSUME a <= HashBits PROVE Two[a] = Two[a] * Two[0]
    OBVIOUS
  <2>1. Two[a] \in Nat /\ Two[0] = 1
    BY <1>0, TwoIs, TwoPos
  <2> QED
    BY <2>1
<1>2. ASSUME NEW b \in Nat \ {0}, P(b - 1) PROVE P(b)
  <2> SUFFICES ASSUME a + b <= HashBits PROVE Two[a + b] = Two[a] * Two[b]
    OBVIOUS
  <2>1. Two[a + b] = 2 * Two[a + b - 1] /\ Two[b] = 2 * Two[b - 1]
    BY <1>0, TwoIs
  <2>2. Two[a + (b - 1)] = Two[a] * Two[b - 1]
    BY <1>0, <1>2
  <2>3. a + b - 1 = a + (b - 1)
    OBVIOUS
  <2>4. Two[a] \in Nat /\ Two[b - 1] \in Nat
    BY <1>0, TwoPos
  <2> DEFINE x == Two[a]
             y == Two[b - 1]
  <2>5. Two[a + b] = 2 * (x * y) /\ Two[b] = 2 * y /\ x \in Nat /\ y \in Nat
    BY <2>1, <2>2, <2>3, <2>4
  <2> HIDE DEF x, y
  <2>6. 2 * (x * y) = x * (2 * y)
    BY <2>5
  <2> QED
    BY <2>5, <2>6 DEF x
<1>3. Bad = {}
  <2> SUFFICES ASSUME Bad # {} PROVE FALSE
    OBVIOUS
  <2>1. Bad \subseteq Nat
    BY <1>0
  <2> HIDE DEF P
  <2>2. PICK n \in Bad : \A j \in Bad : n <= j
    <3> HIDE DEF Bad
    <3> QED BY <2>1, Least
  <2>3. n \in Nat \ {0}
    BY <1>0, <1>1
  <2>4. n - 1 \in Nat /\ n - 1 \notin Bad
    BY <1>0, <2>2, <2>3
  <2> QED
    BY <1>2, <2>3, <2>4
<1> QED
  BY <1>3

(* A quotient is the multiple that is not too large.                       *)
LEMMA DivIs ==
    ASSUME NEW x \in Nat, NEW t \in Nat \ {0}
    PROVE  /\ x \div t \in Nat
           /\ t * (x \div t) <= x /\ x < t * (x \div t) + t
           /\ \A q \in Nat : t * q <= x /\ x < t * q + t => x \div t = q
<1> DEFINE q0 == x \div t
           r0 == x % t
<1>1. q0 \in Int /\ r0 \in 0 .. t - 1 /\ x = t * q0 + r0
  OBVIOUS
<1>2. q0 >= 0
  OBVIOUS
<1> HIDE DEF q0, r0
<1>3. q0 \in Nat /\ t * q0 <= x /\ x < t * q0 + t
  BY <1>1, <1>2
<1>4. ASSUME NEW q \in Nat, t * q <= x, x < t * q + t PROVE q0 = q
  <2>1. CASE q0 < q
    <3>1. q = q0 + 1 + (q - q0 - 1) /\ q - q0 - 1 \in Nat
      BY <1>3, <2>1
    <3> DEFINE z == q - q0 - 1
    <3>2. z \in Nat /\ q = q0 + 1 + z
      BY <3>1
    <3> HIDE DEF z
    <3>3. t * q = t * q0 + t + t * z
      BY <1>3, <3>2
    <3>4. t * z >= 0
      BY <3>2
    <3> QED
      BY <1>3, <1>4, <3>3, <3>4
  <2>2. CASE q < q0
    <3> DEFINE z == q0 - q - 1
    <3>2. z \in Nat /\ q0 = q + 1 + z
      BY <1>3, <2>2
    <3> HIDE DEF z
    <3>3. t * q0 = t * q + t + t * z
      BY <1>3, <3>2
    <3>4. t * z >= 0
      BY <3>2
    <3> QED
      BY <1>3, <1>4, <3>3, <3>4
  <2> QED
    BY <1>3, <2>1, <2>2
<1> QED
  BY <1>3, <1>4 DEF q0

LEMMA DivDiv ==
    ASSUME NEW x \in Nat, NEW s \in Nat \ {0}, NEW t \in Nat \ {0}
    PROVE  (x \div s) \div t = x \div (s * t)
<1> DEFINE y == x \div s
           z == y \div t
<1>1. y \in Nat /\ s * y <= x /\ x < s * y + s
  BY DivIs
<1> HIDE DEF y
<1>2. z \in Nat /\ t * z <= y /\ y < t * z + t
  BY <1>1, DivIs
<1> HIDE DEF z
<1>3. s * t \in Nat \ {0}
  OBVIOUS
<1> DEFINE p == y - t * z
<1>4. p \in 0 .. t - 1 /\ y = t * z + p
  BY <1>1, <1>2
<1> HIDE DEF p
<1>5. s * y = (s * t) * z + s * p
  BY <1>2, <1>4
<1>6. s * p >= 0 /\ s * p + s <= s * t
  <2> DEFINE w == t - 1 - p
  <2>1. w \in Nat /\ t = p + 1 + w
    BY <1>4
  <2> HIDE DEF w
  <2>2. s * t = s * p + s + s * w
    BY <1>4, <2>1
  <2>3. s * w >= 0 /\ s * p >= 0
    BY <1>4, <2>1
  <2> QED
    BY <1>4, <2>1, <2>2, <2>3
<1>7. (s * t) * z <= x /\ x < (s * t) * z + s * t
  BY <1>1, <1>2, <1>4, <1>5, <1>6
<1>8. x \div (s * t) = z
  <2> DEFINE n == s * t
  <2>1. n \in Nat \ {0} /\ n * z <= x /\ x < n * z + n
    BY <1>3, <1>7
  <2> HIDE DEF n
  <2>2. x \div n = z
    BY <1>2, <2>1, DivIs
  <2> QED
    BY <2>2 DEF n
<1> QED
  BY <1>8 DEF y, z

LEMMA BitConsts ==
    /\ HashBits \in Nat /\ InitBits \in Nat /\ InitBits <= HashBits
    /\ \A k \in Keys : Hash[k] \in Nat /\ Hash[k] < Two[HashBits]
BY GdbmAssumption, TwoPos

(* The directory entry of a key, and of what its first bits lead to.       *)
LEMMA IndexIs ==
    ASSUME NEW k \in Keys, NEW n \in 0 .. HashBits
    PROVE  /\ DirIndex(k, n) \in Nat /\ DirIndex(k, n) < Two[n]
           /\ \A b \in 0 .. n : DirIndex(k, n) \div Two[n - b] = DirIndex(k, b)
<1> DEFINE x == Hash[k]
           s == Two[HashBits - n]
           t == Two[n]
<1>0. HashBits \in Nat /\ n \in Nat /\ HashBits - n \in 0 .. HashBits /\ x \in Nat /\ x < Two[HashBits]
  BY BitConsts
<1>1. s \in Nat \ {0} /\ t \in Nat \ {0}
  BY <1>0, TwoPos
<1>2. Two[HashBits] = s * t
  BY <1>0, TwoSum
<1>3. DirIndex(k, n) = x \div s
  BY DEF DirIndex
<1> HIDE DEF x, s, t
<1>4. x \div s \in Nat /\ s * (x \div s) <= x
  BY <1>0, <1>1, DivIs
<1>5. x \div s < t
  <2> DEFINE q == x \div s
  <2>1. q \in Nat /\ s * q <= x
    BY <1>4
  <2> HIDE DEF q
  <2>2. CASE q >= t
    <3> DEFINE z == q - t
    <3>1. z \in Nat /\ q = t + z
      BY <2>1, <2>2, <1>1
    <3> HIDE DEF z
    <3>2. s * q = s * t + s * z /\ s * z >= 0
      BY <3>1, <1>1
    <3> QED
      BY <1>0, <1>1, <1>2, <2>1, <3>2
  <2> QED
    BY <1>1, <2>1, <2>2 DEF q
<1>6. ASSUME NEW b \in 0 .. n PROVE DirIndex(k, n) \div Two[n - b] = DirIndex(k, b)
  BY <1>0, TwoPos, TwoSum, <1>1, DivDiv, <1>3 DEF s, DirIndex, x
<1> QED
  BY <1>3, <1>4, <1>5, <1>6 DEF t

LEMMA DirSame ==
    ASSUME NEW dir, NEW db, NEW B, DirOK(dir, db, B), NEW C, DOMAIN C = DOMAIN B,
           \A a \in DOMAIN B : C[a].bits = B[a].bits,
           \A a \in DOMAIN B : \A k \in DOMAIN C[a].elems : k \in DOMAIN B[a].elems
    PROVE  DirOK(dir, db, C)
BY DEF DirOK, DirShape, DirGroups, DirKeys

LEMMA DoubledDir ==
    ASSUME NEW dir, NEW db, NEW B, DirOK(dir, db, B), db < HashBits,
           NEW dir2, dir2 = [i \in 0 .. Two[db + 1] - 1 |-> dir[i \div 2]]
    PROVE  DirOK(dir2, db + 1, B)
           /\ \A i \in 0 .. Two[db] - 1 : 2 * i \in 0 .. Two[db + 1] - 1 /\ dir2[2 * i] = dir[i]
<1>0. HashBits \in Nat /\ db \in Nat /\ db + 1 \in 1 .. HashBits /\ db + 1 \in InitBits .. HashBits
      /\ db \in 0 .. HashBits
  BY BitConsts DEF DirOK, DirShape
<1>1. Two[db] \in Nat /\ Two[db + 1] = 2 * Two[db]
  BY <1>0, TwoIs, TwoPos
<1>2. \A i \in 0 .. Two[db + 1] - 1 : i \div 2 \in 0 .. Two[db] - 1 /\ i \in Nat
  BY <1>1
<1>3. \A i \in 0 .. Two[db] - 1 : 2 * i \in 0 .. Two[db + 1] - 1 /\ (2 * i) \div 2 = i
  BY <1>1
<1>4. \A i \in 0 .. Two[db + 1] - 1 : dir2[i] = dir[i \div 2]
  OBVIOUS
<1>5. dir2 = [i \in 0 .. Two[db + 1] - 1 |-> dir2[i]]
  OBVIOUS
<1>6. \A i \in 0 .. Two[db] - 1 : 2 * i \in 0 .. Two[db + 1] - 1 /\ dir2[2 * i] = dir[i]
  BY <1>3, <1>4
<1>7. ASSUME NEW a \in DOMAIN B, NEW i \in 0 .. Two[db + 1] - 1
      PROVE  (i \div 2) \div Two[db - B[a].bits] = i \div Two[db + 1 - B[a].bits]
  <2>1. B[a].bits \in 0 .. db
    BY DEF DirOK, DirGroups
  <2> DEFINE n == db - B[a].bits
  <2>2. n \in Nat /\ n \in 0 .. HashBits /\ n + 1 \in 1 .. HashBits /\ db + 1 - B[a].bits = n + 1 /\ n + 1 - 1 = n
    BY <1>0, <2>1
  <2> HIDE DEF n
  <2>3. Two[n] \in Nat \ {0} /\ Two[n + 1] = 2 * Two[n]
    BY <2>2, TwoPos, TwoIs
  <2>4. (i \div 2) \div Two[n] = i \div (2 * Two[n])
    BY <1>2, <2>3, DivDiv
  <2> QED
    BY <2>2, <2>3, <2>4 DEF n
<1>8. ASSUME NEW a \in DOMAIN B, NEW k \in DOMAIN B[a].elems
      PROVE  k \in Keys /\ dir2[DirIndex(k, db + 1)] = a
  <2>1. k \in Keys /\ dir[DirIndex(k, db)] = a
    BY DEF DirOK, DirKeys
  <2>2. DirIndex(k, db + 1) \in 0 .. Two[db + 1] - 1
    BY <1>0, <2>1, IndexIs, <1>1
  <2>3. DirIndex(k, db + 1) \div 2 = DirIndex(k, db)
    BY <1>0, TwoIs, <2>1, IndexIs
  <2> QED
    BY <1>4, <2>1, <2>2, <2>3
<1>9. DirShape(dir2, db + 1, B)
  <2>1. \A a \in DOMAIN B : \E i \in 0 .. Two[db + 1] - 1 : dir2[i] = a
    <3> SUFFICES ASSUME NEW a \in DOMAIN B PROVE \E i \in 0 .. Two[db + 1] - 1 : dir2[i] = a
      OBVIOUS
    <3>1. PICK i \in 0 .. Two[db] - 1 : dir[i] = a
      BY DEF DirOK, DirShape, Entries
    <3> QED
      BY <1>6, <3>1
  <2>2. \A i \in 0 .. Two[db + 1] - 1 : dir2[i] \in DOMAIN B
    BY <1>2, <1>4 DEF DirOK, DirShape, Entries
  <2> QED
    BY <1>0, <1>5, <2>1, <2>2 DEF DirShape, Entries
<1>10. DirGroups(dir2, db + 1, B)
  <2> DEFINE e == db + 1
  <2>0. /\ \A i \in 0 .. Two[e] - 1 : i \div 2 \in 0 .. Two[db] - 1 /\ dir2[i] = dir[i \div 2]
        /\ \A a \in DOMAIN B : \A i \in 0 .. Two[e] - 1 :
              (i \div 2) \div Two[db - B[a].bits] = i \div Two[e - B[a].bits]
        /\ \A a \in DOMAIN B : B[a].bits \in 0 .. e
    BY <1>0, <1>2, <1>4, <1>7 DEF DirOK, DirGroups
  <2> HIDE DEF e
  <2>2. ASSUME NEW a \in DOMAIN B, NEW i \in 0 .. Two[e] - 1, NEW j \in 0 .. Two[e] - 1,
               dir2[i] = a
        PROVE  dir2[j] = a <=> SameBits(i, j, e - B[a].bits)
    <3> DEFINE x == i \div 2
               y == j \div 2
    <3>1. x \in 0 .. Two[db] - 1 /\ y \in 0 .. Two[db] - 1 /\ dir2[i] = dir[x] /\ dir2[j] = dir[y]
      BY <2>0
    <3>2. x \div Two[db - B[a].bits] = i \div Two[e - B[a].bits]
      BY <2>0
    <3>3. y \div Two[db - B[a].bits] = j \div Two[e - B[a].bits]
      BY <2>0
    <3> HIDE DEF x, y
    <3>4. dir[y] = a <=> SameBits(x, y, db - B[a].bits)
      BY <2>2, <3>1 DEF DirOK, DirGroups, Entries, Grouped
    <3>5. SameBits(x, y, db - B[a].bits) <=> SameBits(i, j, e - B[a].bits)
      BY <3>2, <3>3 DEF SameBits
    <3> QED
      BY <3>1, <3>4, <3>5
  <2>3. \A a \in DOMAIN B : \A i, j \in 0 .. Two[e] - 1 :
           Grouped(dir2, i, j, a, e - B[a].bits)
    BY <2>2 DEF Grouped
  <2>4. DirGroups(dir2, e, B)
    BY <2>0, <2>3 DEF DirGroups, Entries
  <2> QED
    BY <2>4 DEF e
<1>11. DirKeys(dir2, db + 1, B)
  BY <1>8 DEF DirKeys
<1> QED
  BY <1>6, <1>9, <1>10, <1>11 DEF DirOK

LEMMA HalvesOf ==
    ASSUME NEW x \in Nat, NEW t \in Nat \ {0}, NEW q \in Nat
    PROVE  Halved(x, t, q)
<1> DEFINE y == x \div t
           w == q * t
<1>1. y \in Nat /\ w \in Nat /\ t * (2 * q) = 2 * w /\ t * (2 * q + 1) = 2 * w + t /\ 2 * q * t = 2 * w
  BY DivIs
<1>2. t * y <= x /\ x < t * y + t
  BY DivIs
<1>3. \A p \in Nat : t * p <= x /\ x < t * p + t => y = p
  BY DivIs
<1>4. y \div 2 = x \div (2 * t)
  BY DivDiv
<1> HIDE DEF y, w
<1>5. y = 2 * q <=> x \in 2 * w .. 2 * w + t - 1
  <2>1. y = 2 * q => x \in 2 * w .. 2 * w + t - 1
    BY <1>1, <1>2
  <2>2. ASSUME x \in 2 * w .. 2 * w + t - 1 PROVE y = 2 * q
    <3> DEFINE p == 2 * q
    <3>1. p \in Nat /\ t * p <= x /\ x < t * p + t
      BY <1>1, <2>2
    <3> HIDE DEF p
    <3> QED BY <1>3, <3>1 DEF p
  <2> QED
    BY <2>1, <2>2
<1>6. y = 2 * q + 1 <=> x \in 2 * w + t .. 2 * w + t + t - 1
  <2>1. y = 2 * q + 1 => x \in 2 * w + t .. 2 * w + t + t - 1
    BY <1>1, <1>2
  <2>2. ASSUME x \in 2 * w + t .. 2 * w + t + t - 1 PROVE y = 2 * q + 1
    <3> DEFINE p == 2 * q + 1
    <3>1. p \in Nat /\ t * p <= x /\ x < t * p + t
      BY <1>1, <2>2
    <3> HIDE DEF p
    <3> QED BY <1>3, <3>1 DEF p
  <2> QED
    BY <2>1, <2>2
<1>7. y \div 2 = q <=> y = 2 * q \/ y = 2 * q + 1
  BY <1>1
<1> QED
  BY <1>1, <1>4, <1>5, <1>6, <1>7 DEF y, Halved

LEMMA SplitEntries ==
    ASSUME NEW dir, NEW db, NEW B, DirOK(dir, db, B), NEW i \in Entries(db), NEW a, NEW b,
           NEW free, Unused(B, dir[i], db, free)
    PROVE  SplitAt(dir, db, i, free, a, b)
<1> DEFINE dir2 == SplitDir(dir, i, free, a, b)
           q == i \div Two[free + 1]
           t == Two[free]
           bits == B[dir[i]].bits
           n == Two[db]
<1>h. B[dir[i]].bits < db /\ free = db - (B[dir[i]].bits + 1)
  BY DEF Unused
<1>0. /\ HashBits \in Nat /\ db \in Nat /\ db <= HashBits /\ bits \in Nat /\ bits < db
      /\ free \in Nat /\ free + 1 <= db /\ free = db - (bits + 1) /\ free + 1 = db - bits
      /\ dir[i] \in DOMAIN B
  BY BitConsts, <1>h DEF DirOK, DirShape, DirGroups
<1>1. t \in Nat \ {0} /\ Two[free + 1] = 2 * t /\ n \in Nat
  <2>1. free \in 0 .. HashBits /\ free + 1 \in 1 .. HashBits /\ free + 1 - 1 = free /\ db \in 0 .. HashBits
    BY <1>0
  <2> QED
    BY <2>1, TwoIs, TwoPos
<1>2. n = Two[bits] * (2 * t) /\ Two[bits] \in Nat
  BY <1>0, <1>1, TwoSum, TwoPos
<1>3. \A j \in Entries(db) : j \in Nat /\ j < n
  BY <1>1 DEF Entries
<1>4. dir = [j \in Entries(db) |-> dir[j]] /\ DOMAIN dir = Entries(db)
  BY DEF DirOK, DirShape
<1>g. \A j \in Entries(db) : dir[j] = dir[i] <=> j \div Two[free + 1] = q
  BY <1>0 DEF DirOK, DirGroups, Grouped, SameBits
<1>5. i \in Nat /\ i < n /\ q = i \div (2 * t)
  BY <1>1, <1>3
<1>6. q \in Nat /\ (2 * t) * q <= i
  <2> DEFINE p == 2 * t
  <2>1. p \in Nat \ {0} /\ q = i \div p /\ i \in Nat
    BY <1>1, <1>5
  <2> HIDE DEF p, q
  <2>2. q \in Nat /\ p * q <= i
    BY <2>1, DivIs
  <2> QED
    BY <2>2 DEF p
<1>7. Start1(i, free) = (2 * q + 1) * t
  BY DEF Start1
<1> HIDE DEF q, t, bits, n, dir2
<1>8. Start1(i, free) = 2 * q * t + t /\ Start1(i, free) - t = 2 * q * t
  BY <1>1, <1>6, <1>7
<1>9. \A j \in Entries(db) :
         /\ j \div t = 2 * q <=> j \in 2 * q * t .. 2 * q * t + t - 1
         /\ j \div t = 2 * q + 1 <=> j \in 2 * q * t + t .. 2 * q * t + t + t - 1
         /\ j \div (2 * t) = q <=> j \div t = 2 * q \/ j \div t = 2 * q + 1
  <2>1. \A j \in Entries(db) : Halved(j, t, q)
    BY <1>1, <1>3, <1>6, HalvesOf
  <2> QED
    BY <2>1 DEF Halved
<1>10. \A j \in Entries(db) :
          dir2[j] = IF j \in Start1(i, free) - t .. Start1(i, free) - 1 THEN a
                    ELSE IF j \in Start1(i, free) .. Start1(i, free) + t - 1 THEN b
                    ELSE dir[j]
  BY <1>4 DEF dir2, SplitDir, t
<1>11. dir2 = [j \in Entries(db) |-> dir2[j]]
  BY <1>4 DEF dir2, SplitDir
<1> DEFINE s == 2 * q * t
<1>12. s \in Nat /\ Start1(i, free) = s + t /\ Start1(i, free) - t = s
  BY <1>1, <1>6, <1>8
<1>13. \A j \in Entries(db) :
         /\ j \div t = 2 * q <=> j \in s .. s + t - 1
         /\ j \div t = 2 * q + 1 <=> j \in s + t .. s + t + t - 1
  BY <1>9
<1>14. s + t + t <= n
  <2> DEFINE m == Two[bits]
  <2>1. m \in Nat /\ n = m * (2 * t) /\ s = (2 * t) * q /\ s <= i
    BY <1>1, <1>2, <1>6
  <2> HIDE DEF m, s
  <2>2. q < m
    <3> SUFFICES ASSUME q >= m PROVE FALSE
      BY <1>6, <2>1
    <3> DEFINE z == q - m
    <3>1. z \in Nat /\ q = m + z
      BY <1>6, <2>1
    <3> HIDE DEF z
    <3>2. (2 * t) * q = m * (2 * t) + (2 * t) * z /\ (2 * t) * z >= 0
      BY <1>1, <2>1, <3>1
    <3> QED
      BY <1>5, <2>1, <3>2, <1>1
  <2> DEFINE z == m - q - 1
  <2>3. z \in Nat /\ m = q + 1 + z
    BY <1>6, <2>1, <2>2
  <2> HIDE DEF z
  <2>4. m * (2 * t) = (2 * t) * q + 2 * t + (2 * t) * z /\ (2 * t) * z >= 0
    BY <1>1, <1>6, <2>3
  <2>5. s \in Nat
    BY <1>12
  <2> DEFINE c == (2 * t) * q
             d == (2 * t) * z
  <2>6. c \in Nat /\ d \in Int /\ s = c /\ n = c + 2 * t + d /\ d >= 0
    BY <1>1, <2>1, <2>3, <2>4, <2>5
  <2> HIDE DEF c, d
  <2> QED
    BY <1>1, <2>6
<1> HIDE DEF s
<1>15. \A j \in Entries(db) :
          dir2[j] = IF j \in s .. s + t - 1 THEN a ELSE IF j \in s + t .. s + t + t - 1 THEN b ELSE dir[j]
  BY <1>1, <1>12, <1>10
<1>16. \A j \in Entries(db) : j \div t = 2 * q => dir2[j] = a
  BY <1>13, <1>15
<1>17. \A j \in Entries(db) : j \div t = 2 * q + 1 => dir2[j] = b
  BY <1>1, <1>12, <1>13, <1>15
<1>18. \A j \in Entries(db) : dir[j] = dir[i] <=> j \div t = 2 * q \/ j \div t = 2 * q + 1
  BY <1>1, <1>9, <1>g
<1>19. \A j \in Entries(db) : dir[j] # dir[i] => dir2[j] = dir[j]
  BY <1>13, <1>15, <1>18
<1>20. s \in Entries(db) /\ s + t \in Entries(db) /\ s \in s .. s + t - 1 /\ s + t \in s + t .. s + t + t - 1
  BY <1>1, <1>12, <1>14 DEF Entries, n
<1>21. (\E j \in Entries(db) : j \div t = 2 * q) /\ (\E j \in Entries(db) : j \div t = 2 * q + 1)
  BY <1>13, <1>20
<1>22. \A j \in Entries(db) : j \in Nat /\ j \div t \in Nat
  BY <1>1, <1>3, DivIs
<1> QED
  BY <1>6, <1>11, <1>16, <1>17, <1>18, <1>19, <1>21, <1>22, <1>g DEF q, t, dir2, SplitAt

(* A bucket's two halves are found where a split of the directory puts     *)
(* them.                                                                   *)
LEMMA SplitDirOK ==
    ASSUME NEW dir, NEW db, NEW B, DirOK(dir, db, B), NEW i \in Entries(db), NEW a, NEW b, NEW C,
           SplitOf(B, C, dir[i], a, b), NEW free, Unused(B, dir[i], db, free)
    PROVE  DirOK(SplitDir(dir, i, free, a, b), db, C)
<1> DEFINE dir2 == SplitDir(dir, i, free, a, b)
           q == i \div Two[free + 1]
           t == Two[free]
           A == dir[i]
           nb == B[A].bits + 1
<1>1. /\ dir2 = [j \in Entries(db) |-> dir2[j]]
      /\ \A j \in Entries(db) : j \in Nat /\ j \div t \in Nat
      /\ \A j \in Entries(db) : dir[j] = A <=> j \div t = 2 * q \/ j \div t = 2 * q + 1
      /\ \A j \in Entries(db) : j \div t = 2 * q => dir2[j] = a
      /\ \A j \in Entries(db) : j \div t = 2 * q + 1 => dir2[j] = b
      /\ \A j \in Entries(db) : dir[j] # A => dir2[j] = dir[j]
      /\ \E j \in Entries(db) : j \div t = 2 * q
      /\ \E j \in Entries(db) : j \div t = 2 * q + 1
      /\ q \in Nat
  <2>1. SplitAt(dir, db, i, free, a, b)
    BY SplitEntries
  <2> QED
    BY <2>1 DEF SplitAt
<1>2. /\ HashBits \in Nat /\ db \in Nat /\ db <= HashBits /\ B[A].bits \in Nat /\ nb \in 0 .. db
      /\ free = db - nb
  BY BitConsts DEF DirOK, DirShape, DirGroups, Unused
<1>3. /\ A \in DOMAIN B /\ a \notin DOMAIN B /\ b \notin DOMAIN B /\ a # b
      /\ DOMAIN C = (DOMAIN B \ {A}) \cup {a, b}
      /\ \A c \in DOMAIN B : c # A => C[c] = B[c]
      /\ C[a].bits = nb /\ C[b].bits = nb
      /\ \A k \in DOMAIN C[a].elems : k \in DOMAIN B[A].elems /\ Bit(k, nb) = 0
      /\ \A k \in DOMAIN C[b].elems : k \in DOMAIN B[A].elems /\ Bit(k, nb) = 1
  BY DEF SplitOf
<1>4. \A j \in Entries(db) : dir[j] \in DOMAIN B
  BY DEF DirOK, DirShape
<1> HIDE DEF dir2, q, t, A, nb
<1>5. \A j \in Entries(db) : dir2[j] = a <=> j \div t = 2 * q
  BY <1>1, <1>3, <1>4
<1>6. \A j \in Entries(db) : dir2[j] = b <=> j \div t = 2 * q + 1
  BY <1>1, <1>3, <1>4
<1>7. \A j \in Entries(db) : \A c \in DOMAIN B : c # A => (dir2[j] = c <=> dir[j] = c)
  BY <1>1, <1>3, <1>4
<1>8. DirShape(dir2, db, C)
  BY <1>1, <1>3, <1>4, <1>7 DEF DirOK, DirShape
<1>9. DirGroups(dir2, db, C)
  BY <1>2, <1>3, <1>5, <1>6, <1>7 DEF DirOK, DirGroups, Grouped, SameBits, t
<1>10. ASSUME NEW k \in DOMAIN B[A].elems
       PROVE  /\ k \in Keys /\ DirIndex(k, db) \in Entries(db)
              /\ Bit(k, nb) = 0 => DirIndex(k, db) \div t = 2 * q
              /\ Bit(k, nb) = 1 => DirIndex(k, db) \div t = 2 * q + 1
  <2> DEFINE x == DirIndex(k, db)
  <2>1. k \in Keys /\ dir[x] = A
    BY <1>3 DEF DirOK, DirKeys
  <2>2. /\ x \in Nat /\ x < Two[db]
        /\ x \div Two[db - nb] = DirIndex(k, nb)
    BY <1>2, <2>1, IndexIs
  <2>3. x \in Entries(db)
    BY <1>2, TwoPos, <2>2 DEF Entries
  <2> DEFINE y == DirIndex(k, nb)
  <2>4. x \div t = y
    BY <1>2, <2>2 DEF t
  <2>5. Bit(k, nb) = y % 2
    BY DEF Bit, DirIndex
  <2> HIDE DEF x, y
  <2>6. y = 2 * q \/ y = 2 * q + 1
    BY <1>1, <2>1, <2>3, <2>4
  <2>7. (y % 2 = 0 => y = 2 * q) /\ (y % 2 = 1 => y = 2 * q + 1)
    BY <1>1, <2>6
  <2> QED
    BY <2>1, <2>3, <2>4, <2>5, <2>7 DEF x
<1>11. ASSUME NEW c \in DOMAIN C, NEW k \in DOMAIN C[c].elems
       PROVE  k \in Keys /\ dir2[DirIndex(k, db)] = c
  <2>1. CASE c = a
    BY <1>1, <1>3, <1>10, <2>1
  <2>2. CASE c = b
    BY <1>1, <1>3, <1>10, <2>2
  <2>3. CASE c # a /\ c # b
    <3>1. c \in DOMAIN B /\ c # A /\ C[c] = B[c]
      BY <1>3, <2>3
    <3>2. k \in Keys /\ dir[DirIndex(k, db)] = c
      BY <3>1 DEF DirOK, DirKeys
    <3>3. DirIndex(k, db) \in Entries(db)
      BY <1>2, <3>2, IndexIs, TwoPos DEF Entries
    <3> QED
      BY <1>7, <3>1, <3>2, <3>3
  <2> QED
    BY <2>1, <2>2, <2>3
<1>12. DirKeys(dir2, db, C)
  BY <1>11 DEF DirKeys
<1> QED
  BY <1>8, <1>9, <1>12 DEF DirOK, dir2

-----------------------------------------------------------------------------
(* What memory and the file agree on.                                      *)

LEMMA HomeTags ==
    ASSUME NEW B, NEW x
    PROVE  /\ Home(Tag(TheHeader, Nobody, Nobody), B, x)
           /\ Home(Tag(TheDir, Nobody, Nobody), B, x)
           /\ \A a \in DOMAIN B : Home(Tag(ABucket, Nobody, a), B, x)
           /\ \A a \in DOMAIN B : \A k \in DOMAIN B[a].elems : Home(Tag(ARecord, k, Nobody), B, x)
           /\ \A a \in DOMAIN B : \A n : a # x => Home(Tag(BucketAvail, a, n), B, x)
BY TagIs DEF Home

LEMMA OwnedKept ==
    ASSUME NEW own, NEW own2, NEW B, NEW x, Steady(own, own2, B, x),
           NEW a \in Nat, NEW n, n \in Nat, NEW t, Owned(own, a, n, t), Home(t, B, x)
    PROVE  Owned(own2, a, n, t)
BY SpanNat DEF Owned, Steady

LEMMA HoldsSteady ==
    ASSUME NEW d, NEW e, NEW own, NEW B, NEW x, SteadyDisk(d, e, own, B, x),
           NEW a \in Nat, NEW n, n \in Nat, NEW t, Owned(own, a, n, t), Home(t, B, x),
           NEW obj, Holds(d, a, n, obj)
    PROVE  Holds(e, a, n, obj)
BY SpanNat, HoldsKept DEF Owned, SteadyDisk

LEMMA DirSizeNat ==
    ASSUME NEW db, db \in InitBits .. HashBits
    PROVE  DirSize(db) \in Nat \ {0}
<1>1. db - InitBits \in 0 .. HashBits
  BY BitConsts
<1>2. Two[db - InitBits] \in Nat \ {0}
  BY <1>1, TwoPos
<1> DEFINE w == Two[db - InitBits]
<1>3. w \in Nat \ {0} /\ block_size \in Nat \ {0}
  BY <1>2, Consts
<1> HIDE DEF w
<1>4. block_size * w \in Nat \ {0}
  BY <1>3
<1> QED
  BY <1>4 DEF DirSize, w

LEMMA HomesKept ==
    ASSUME NEW own, NEW own2, NEW B, NEW x, Steady(own, own2, B, x),
           NEW h, Homes(own, h, B), h.dir_bits \in InitBits .. HashBits
    PROVE  Homes(own2, h, B)
<1>1. Owned(own2, 0, block_size, Tag(TheHeader, Nobody, Nobody))
  BY HomeTags, OwnedKept, Consts DEF Homes
<1>2. h.dir \in Nat /\ Owned(own2, h.dir, DirSize(h.dir_bits), Tag(TheDir, Nobody, Nobody))
  BY DirSizeNat, HomeTags, OwnedKept DEF Homes
<1>3. ASSUME NEW a \in DOMAIN B
      PROVE  a \in Nat /\ a # 0 /\ IsBucket(B[a]) /\ Owned(own2, a, block_size, Tag(ABucket, Nobody, a))
  BY HomeTags, OwnedKept, Consts DEF Homes
<1>4. ASSUME NEW a \in DOMAIN B, NEW k \in DOMAIN B[a].elems
      PROVE  HasRecord(own2, B[a].elems[k], k)
  <2> DEFINE el == B[a].elems[k]
  <2>1. el \in AvType /\ Owned(own, el.adr, el.size, Tag(ARecord, k, Nobody))
    BY DEF Homes, HasRecord
  <2>2. el.adr \in Nat /\ el.size \in Nat
    BY <2>1 DEF AvType
  <2>3. Home(Tag(ARecord, k, Nobody), B, x)
    BY HomeTags
  <2> HIDE DEF el
  <2>4. Owned(own2, el.adr, el.size, Tag(ARecord, k, Nobody))
    BY <2>1, <2>2, <2>3, OwnedKept
  <2> QED
    BY <2>1, <2>4 DEF el, HasRecord
<1> QED
  BY <1>1, <1>2, <1>3, <1>4 DEF Homes

LEMMA TablesKept ==
    ASSUME NEW own, NEW own2, NEW B, NEW x, Steady(own, own2, B, x), Tables(own, B, x)
    PROVE  Tables(own2, B, x)
<1> SUFFICES ASSUME NEW a \in DOMAIN B, a # x
             PROVE  Table(B[a].avail, own2, BucketAvail, a) /\ Len(B[a].avail) <= BUCKET_AVAIL
  BY DEF Tables
<1>1. Table(B[a].avail, own, BucketAvail, a) /\ Len(B[a].avail) <= BUCKET_AVAIL
  BY DEF Tables
<1>2. \A u \in Nat : own[u][1] = BucketAvail /\ own[u][2] = a => own2[u] = own[u]
  BY DEF Steady, Home
<1> QED
  BY <1>1, <1>2, TableKept

LEMMA GetKept ==
    ASSUME NEW d, NEW e, NEW a \in Nat, NEW n \in Nat \ {0},
           \A u \in Span(a, n) : u \in DOMAIN d /\ SameAt(d, e, u)
    PROVE  Get(e, a, n) = Get(d, a, n)
BY DEF SameAt, Span, Get

LEMMA RecordKept ==
    ASSUME NEW d, NEW e, NEW el \in AvType, NEW k, InFile(d, el),
           \A u \in Span(el.adr, el.size) : SameAt(d, e, u)
    PROVE  InFile(e, el) /\ DataOf(e, el, k) = DataOf(d, el, k)
BY GetKept DEF AvType, InFile, SameAt, DataOf, RecVal

LEMMA HomeRecordSame ==
    ASSUME NEW d, NEW e, NEW own, NEW B, NEW x, SteadyDisk(d, e, own, B, x), NEW h, Homes(own, h, B),
           NEW a \in DOMAIN B, NEW k \in DOMAIN B[a].elems
    PROVE  /\ B[a].elems[k] \in AvType
           /\ \A u \in Span(B[a].elems[k].adr, B[a].elems[k].size) : u \in Nat /\ SameAt(d, e, u)
<1> DEFINE el == B[a].elems[k]
<1>1. el \in AvType /\ Owned(own, el.adr, el.size, Tag(ARecord, k, Nobody))
  BY DEF Homes, HasRecord
<1>2. el.adr \in Nat /\ el.size \in Nat
  BY <1>1 DEF AvType
<1>3. Home(Tag(ARecord, k, Nobody), B, x)
  BY HomeTags
<1> HIDE DEF el
<1>4. \A u \in Span(el.adr, el.size) : u \in Nat
  BY <1>2, SpanNat
<1>5. \A u \in Span(el.adr, el.size) : SameAt(d, e, u)
  BY <1>1, <1>3, <1>4 DEF Owned, SteadyDisk
<1> QED
  BY <1>1, <1>4, <1>5 DEF el

LEMMA DataKept ==
    ASSUME NEW d, NEW e, NEW own, NEW B, NEW x, SteadyDisk(d, e, own, B, x), NEW h, Homes(own, h, B),
           NEW a \in DOMAIN B, NEW data, DataFits(d, B[a], data)
    PROVE  DataFits(e, B[a], data)
<1>1. CASE data = NoData
  BY <1>1 DEF DataFits
<1>2. CASE data # NoData
  <2>1. PICK k \in DOMAIN B[a].elems : InFile(d, B[a].elems[k]) /\ data = DataOf(d, B[a].elems[k], k)
    BY <1>2 DEF DataFits
  <2>2. /\ B[a].elems[k] \in AvType
        /\ \A u \in Span(B[a].elems[k].adr, B[a].elems[k].size) : SameAt(d, e, u)
    BY HomeRecordSame
  <2> DEFINE el == B[a].elems[k]
  <2>3. el \in AvType /\ InFile(d, el) /\ \A u \in Span(el.adr, el.size) : SameAt(d, e, u)
    BY <2>1, <2>2
  <2> HIDE DEF el
  <2>4. InFile(e, el) /\ DataOf(e, el, k) = DataOf(d, el, k)
    BY <2>3, RecordKept
  <2> QED
    BY <2>1, <2>4 DEF DataFits, el
<1> QED
  BY <1>1, <1>2

LEMMA RecordsKept ==
    ASSUME NEW d, NEW e, Grown(d, e), NEW own, NEW h, NEW B, Homes(own, h, B), NEW k, RecordsIn(d, B, k)
    PROVE  RecordsIn(e, B, k)
<1> SUFFICES ASSUME NEW a \in DOMAIN B, NEW q \in DOMAIN B[a].elems, q # k
             PROVE  InFile(e, B[a].elems[q])
  BY DEF RecordsIn
<1> DEFINE el == B[a].elems[q]
<1>1. el \in AvType /\ InFile(d, el)
  BY DEF RecordsIn, Homes, HasRecord
<1>2. el.adr \in Nat /\ el.size \in Nat
  BY <1>1 DEF AvType
<1> HIDE DEF el
<1>3. \A u \in Span(el.adr, el.size) : u \in Nat
  BY <1>2, SpanNat
<1>4. InFile(e, el)
  BY <1>1, <1>3 DEF InFile, Grown
<1> QED
  BY <1>4 DEF el

(* The same but for what the handling of free space changes.               *)
LEMMA OnDiskKept ==
    ASSUME NEW m, NEW r, NEW own, NEW B, NEW x, NEW y, SteadyDisk(m.disk, r.disk, own, B, x),
           Homes(own, m.header, B), m.header.dir_bits \in InitBits .. HashBits,
           OnlySpace(m, r), Quiet(m, r), m.header_changed => r.header_changed, y = Adr(m),
           HeaderOn(m), DirOn(m), BucketsOn(m, B, y)
    PROVE  HeaderOn(r) /\ DirOn(r) /\ BucketsOn(r, B, y)
<1>1. HeaderOn(r)
  BY DEF HeaderOn, Quiet
<1>2. DirOn(r)
  <2>1. /\ r.directory_changed = m.directory_changed /\ r.dir = m.dir /\ r.old = m.old
        /\ r.header.dir = m.header.dir /\ r.header.dir_bits = m.header.dir_bits
    BY DEF OnlySpace, Rest
  <2>2. CASE m.directory_changed \/ m.old # <<>>
    BY <2>1, <2>2 DEF DirOn
  <2>3. CASE ~m.directory_changed /\ m.old = <<>>
    <3> DEFINE n == DirSize(m.header.dir_bits)
               a == m.header.dir
    <3>1. /\ a \in Nat /\ n \in Nat /\ Owned(own, a, n, Tag(TheDir, Nobody, Nobody))
          /\ Home(Tag(TheDir, Nobody, Nobody), B, x) /\ Holds(m.disk, a, n, DirObject(m.dir))
      BY <2>3, HomeTags, DirSizeNat DEF Homes, DirOn
    <3> HIDE DEF n, a
    <3>2. Holds(r.disk, a, n, DirObject(m.dir))
      BY <3>1, HoldsSteady
    <3> QED
      BY <2>1, <3>2 DEF DirOn, n, a
  <2> QED
    BY <2>2, <2>3
<1>3. ASSUME NEW a \in DOMAIN B, a # y PROVE BucketOn(r, a, B[a])
  <2>1. CASE Pending(m, a)
    BY <2>1, <1>3 DEF Pending, Adr, OnlySpace, BucketOn
  <2>2. CASE ~Pending(m, a)
    <3>1. Holds(m.disk, a, block_size, BucketObj(B[a]))
      BY <1>3, <2>2 DEF BucketsOn, BucketOn
    <3>2. /\ a \in Nat /\ Owned(own, a, block_size, Tag(ABucket, Nobody, a)) /\ block_size \in Nat
          /\ Home(Tag(ABucket, Nobody, a), B, x)
      BY HomeTags, Consts DEF Homes
    <3>3. Holds(r.disk, a, block_size, BucketObj(B[a]))
      BY <3>1, <3>2, HoldsSteady
    <3> QED
      BY <3>3 DEF BucketOn
  <2> QED
    BY <2>1, <2>2
<1> QED
  BY <1>1, <1>2, <1>3 DEF BucketsOn

LEMMA CachedKept ==
    ASSUME NEW m, NEW r, NEW B, NEW x, OnlySpace(m, r), IsMem(m), x = Adr(m), Cached(m, B, x), FlagsOK(m),
           r.popped => m.popped \/ r.header_changed, m.header_changed => r.header_changed
    PROVE  Cached(r, B, x) /\ FlagsOK(r)
<1>1. r.cur = m.cur /\ m.cur \in Slots /\ r.last_read = m.last_read
      /\ r.second_changed = m.second_changed /\ r.directory_changed = m.directory_changed
  BY DEF OnlySpace, Rest, IsMem
<1>2. \A c \in Slots : r.cache[c].adr = m.cache[c].adr /\ r.cache[c].changed = m.cache[c].changed
  <2> SUFFICES ASSUME NEW c \in Slots
               PROVE  r.cache[c].adr = m.cache[c].adr /\ r.cache[c].changed = m.cache[c].changed
    OBVIOUS
  <2>1. CASE c = m.cur
    BY <2>1 DEF OnlySpace
  <2>2. CASE c # m.cur
    BY <2>2 DEF OnlySpace
  <2> QED
    BY <2>1, <2>2
<1>3. \A c \in Slots : m.cache[c].adr # x => r.cache[c] = m.cache[c]
  BY DEF OnlySpace, Adr
<1>4. Cached(r, B, x)
  BY <1>2, <1>3 DEF Cached
<1>5. FlagsOK(r)
  BY <1>1, <1>2 DEF FlagsOK
<1> QED
  BY <1>4, <1>5

(* Space can be taken and given back without disturbing anything else.     *)
LEMMA MemMoves ==
    ASSUME NEW m, NEW own, NEW B, NEW k, Mem(m, own, B, Adr(m), Adr(m), k),
           NEW r, NEW own2, NEW E, Moves(m, own, r, own2, E), Quiet(m, r),
           \A u \in E : ~Home(own[u], B, Adr(m))
    PROVE  Mem(r, own2, B, Adr(r), Adr(r), k)
<1> DEFINE x == Adr(m)
<1>0. Adr(r) = x /\ IsMem(m) /\ OnlySpace(m, r) /\ FreeOK(r, own2) /\ FlagsGrow(m, r)
  BY MovesAdr DEF Moves, Mem, FreeOK
<1>1. \A u \in Nat : Home(own[u], B, x) => u \notin E /\ ~FreeUnit(own[u], x)
  BY Kinds DEF Home, FreeUnit, NearUnit
<1>2. Steady(own, own2, B, x) /\ SteadyDisk(m.disk, r.disk, own, B, x)
  BY <1>1 DEF Moves, Steady, SteadyDisk
<1>3. Homes(own, m.header, B) /\ Tables(own, B, x) /\ m.header.dir_bits \in InitBits .. HashBits
  BY DEF Mem, DirOK, DirShape
<1>4. r.header.dir = m.header.dir /\ r.header.dir_bits = m.header.dir_bits /\ r.dir = m.dir
  BY <1>0 DEF OnlySpace, Rest
<1> HIDE DEF x
<1>5. Homes(own2, r.header, B)
  BY <1>2, <1>3, HomesKept, <1>4 DEF Homes
<1>6. Tables(own2, B, x)
  BY <1>2, <1>3, TablesKept
<1>7. m.header_changed => r.header_changed
  BY <1>0 DEF FlagsGrow
<1>8. HeaderOn(r) /\ DirOn(r) /\ BucketsOn(r, B, x)
  BY <1>0, <1>2, <1>3, <1>7, OnDiskKept DEF Mem, x
<1>9. Cached(r, B, x) /\ FlagsOK(r)
  BY <1>0, <1>7, CachedKept DEF Mem, x, FlagsGrow
<1>10. DataOK(r, B, x)
  <2> SUFFICES ASSUME NEW c \in Slots, r.cache[c].adr # 0, r.cache[c].adr # x, ~r.cache[c].changed
               PROVE  DataFits(r.disk, B[r.cache[c].adr], r.cache[c].data)
    BY DEF DataOK
  <2>1. c # m.cur
    BY <1>0 DEF OnlySpace, x, Adr
  <2>2. r.cache[c] = m.cache[c]
    BY <1>0, <2>1 DEF OnlySpace
  <2> DEFINE a == m.cache[c].adr
             data == m.cache[c].data
  <2>3. a \in DOMAIN B /\ DataFits(m.disk, B[a], data)
    BY <2>2 DEF Mem, DataOK, Cached, x
  <2> HIDE DEF a, data
  <2>4. DataFits(r.disk, B[a], data)
    BY <1>2, <1>3, <2>3, DataKept
  <2> QED
    BY <2>2, <2>4 DEF a, data
<1>11. RecordsIn(r.disk, B, k)
  BY <1>3, RecordsKept DEF Moves, Wrote, SameAt, Grown, Mem
<1>12. DirOK(r.dir, r.header.dir_bits, B)
  BY <1>4 DEF Mem
<1> QED
  BY <1>0, <1>5, <1>6, <1>8, <1>9, <1>10, <1>11, <1>12 DEF Mem

-----------------------------------------------------------------------------
(* The file as a process that opens it would find it.                      *)

LEMMA ProtHolds ==
    ASSUME NEW d, NEW e, NEW own, \A u \in Nat : Prot(own[u]) => SameAt(d, e, u),
           NEW a \in Nat, NEW n \in Nat, NEW k, NEW x, NEW y, Owned(own, a, n, Tag(k, x, y)),
           k \in {TheHeader, ABucket, AvailBlock}, NEW obj, Holds(d, a, n, obj)
    PROVE  Holds(e, a, n, obj)
BY SpanNat, OwnedTag, HoldsKept DEF Prot

LEMMA OldKept ==
    ASSUME NEW d, NEW e, NEW o, OldOK(d, o), \A u \in Nat : Prot(o.own[u]) => SameAt(d, e, u),
           \A u \in Nat : Wrote(d, e, u)
    PROVE  OldOK(e, o)
<1>0. Homes(o.own, o.h, o.B) /\ o.h.dir_bits \in InitBits .. HashBits
  BY DEF OldOK, LayoutOK, DirOK, DirShape
<1>1. Holds(e, 0, block_size, HeaderObj(o.h))
  BY Consts, ProtHolds DEF OldOK, LayoutOK, Homes
<1>2. FreeSpace(e, o.h, o.own)
  BY StackKept DEF OldOK, LayoutOK, FreeSpace, Prot
<1>3. BucketsHeld(e, o)
  <2> SUFFICES ASSUME NEW a \in DOMAIN o.B PROVE Holds(e, a, block_size, BucketObj(o.B[a]))
    BY DEF BucketsHeld
  <2>1. /\ a \in Nat /\ Owned(o.own, a, block_size, Tag(ABucket, Nobody, a)) /\ block_size \in Nat
        /\ Holds(d, a, block_size, BucketObj(o.B[a]))
    BY Consts DEF OldOK, LayoutOK, BucketsHeld, Homes
  <2> QED
    BY <2>1, ProtHolds
<1>4. RecordsIn(e, o.B, 0)
  BY <1>0, RecordsKept DEF Grown, Wrote, SameAt, OldOK, LayoutOK
<1>5. DirHeld(e, o) \/ Lost(e, o)
  <2> DEFINE a == o.h.dir
             n == DirSize(o.h.dir_bits)
  <2>0. a \in Nat /\ n \in Nat
    BY <1>0, DirSizeNat DEF Homes
  <2>1. CASE Lost(d, o)
    BY <2>1, <2>0, SpanNat DEF Lost, Wrote, SameAt
  <2>2. CASE DirHeld(d, o)
    BY <2>2, HoldsKept, <2>0, SpanNat DEF DirHeld, Wrote, Lost
  <2> QED
    BY <2>1, <2>2 DEF OldOK
<1> QED
  BY <1>1, <1>2, <1>3, <1>4, <1>5 DEF OldOK, LayoutOK

-----------------------------------------------------------------------------
(* The layout that was in the file when an update began stays there until  *)
(* an avail block is popped: nothing that holds it together is near.       *)

LEMMA SafeMoves ==
    ASSUME NEW m, NEW r, m.popped => r.popped, NEW o, NEW a, NEW n, Safe(m, o, a, n)
    PROVE  Safe(r, o, a, n)
BY DEF Safe

LEMMA OldMoves ==
    ASSUME NEW m, NEW own, NEW o, Old(m, own, o), NEW r, NEW own2, NEW E, Moves(m, own, r, own2, E),
           m.popped \/ \A u \in E : ~Prot(o.own[u])
    PROVE  Old(r, own2, o)
BY OldKept, MovesAdr DEF Old, Moves, FlagsGrow, Link

LEMMA NewSafeMoves ==
    ASSUME NEW m, IsMem(m), NEW own, NEW o, NEW r, NEW own2, NEW E, Moves(m, own, r, own2, E), NewSafe(m, o)
    PROVE  NewSafe(r, o)
BY MovesAdr, SafeMoves DEF Moves, FlagsGrow, OnlySpace, NewSafe, Rest

LEMMA OldDirsMoves ==
    ASSUME NEW m, NEW own, NEW o, NEW r, NEW own2, NEW E, Moves(m, own, r, own2, E), OldDirs(m, own, o),
           \A u \in E : own[u][1] # OldDir
    PROVE  OldDirs(r, own2, o)
<1>1. r.old = m.old /\ (m.popped => r.popped)
  BY DEF Moves, FlagsGrow, OnlySpace, Rest
<1>2. \A u \in Nat : own[u][1] = OldDir /\ own[u][2] = Nobody => own2[u] = own[u]
  BY Kinds DEF Moves, FreeUnit, NearUnit
<1>3. Table(m.old, own2, OldDir, Nobody)
  BY <1>2, TableKept DEF OldDirs
<1>4. \A i \in DOMAIN m.old : Safe(r, o, m.old[i].adr, m.old[i].size)
  BY <1>1, SafeMoves DEF OldDirs
<1> QED
  BY <1>1, <1>3, <1>4 DEF OldDirs

(* What an allocation hands out holds no old layout together.              *)
LEMMA AllocSafe ==
    ASSUME NEW m, NEW own, NEW o, Old(m, own, o), NEW a, NEW own2, NEW n \in Nat, Allocates(m, own, a, own2, n)
    PROVE  Safe(a.m, o, a.adr, n)
BY SpanNat DEF Safe, Allocates, Moves, FlagsGrow, Old, Link

-----------------------------------------------------------------------------
(* Memory in the middle of an update.                                      *)

LEMMA BusyMoves ==
    ASSUME NEW m, NEW own, NEW B, NEW o, NEW k, Busy(m, own, B, o, k),
           NEW r, NEW own2, NEW E, Moves(m, own, r, own2, E), Quiet(m, r),
           \A u \in E : ~Home(own[u], B, Adr(m)) /\ own[u][1] # OldDir,
           m.popped \/ \A u \in E : ~Prot(o.own[u])
    PROVE  BusyStep(m, own, B, o, k, r, own2) /\ HeldKept(own, own2, E)
<1>1. Mem(m, own, B, Adr(m), Adr(m), k) /\ Cur(m, B) /\ Old(m, own, o) /\ NewSafe(m, o) /\ OldDirs(m, own, o)
      /\ IsMem(m)
  BY DEF Busy, Mem, FreeOK
<1>2. Mem(r, own2, B, Adr(r), Adr(r), k)
  BY <1>1, MemMoves
<1>3. OnlySpace(m, r) /\ Adr(r) = Adr(m) /\ (m.popped => r.popped)
  BY MovesAdr DEF Moves, FlagsGrow
<1>4. Cur(r, B)
  BY <1>3, <1>1 DEF OnlySpace, Rest, Cur
<1>5. Old(r, own2, o)
  BY <1>1, OldMoves
<1>6. NewSafe(r, o)
  BY <1>1, NewSafeMoves
<1>7. OldDirs(r, own2, o)
  BY <1>1, OldDirsMoves
<1>8. HeldKept(own, own2, E)
  BY Kinds DEF HeldKept, Moves, FreeUnit, NearUnit
<1> QED
  BY <1>2, <1>3, <1>4, <1>5, <1>6, <1>7, <1>8 DEF BusyStep, Busy

LEMMA BusyAlloc ==
    ASSUME NEW m, NEW own, NEW B, NEW o, NEW k, Busy(m, own, B, o, k), NEW n \in Nat
    PROVE  \E own2 : Got(m, own, B, o, k, Alloc(m, n), own2, n)
<1>1. FreeOK(m, own)
  BY DEF Busy, Mem
<1> DEFINE a == Alloc(m, n)
<1>2. PICK own2 : Allocates(m, own, a, own2, n)
  BY <1>1, AllocMoves
<1> HIDE DEF a
<1>3. Moves(m, own, a.m, own2, {}) /\ Quiet(m, a.m) /\ a.adr \in Nat
      /\ Owned(own2, a.adr, n, Held(a.adr)) /\ \A u \in Span(a.adr, n) : FreeUnit(own[u], Adr(m))
  BY <1>2 DEF Allocates
<1>4. BusyStep(m, own, B, o, k, a.m, own2) /\ HeldKept(own, own2, {})
  BY <1>3, BusyMoves
<1>5. Safe(a.m, o, a.adr, n)
  BY <1>2, AllocSafe DEF Busy
<1>6. Got(m, own, B, o, k, a, own2, n)
  BY <1>3, <1>4, <1>5 DEF Got
<1> QED
  BY <1>6 DEF a

LEMMA BusyFree ==
    ASSUME NEW m, NEW own, NEW B, NEW o, NEW k, Busy(m, own, B, o, k),
           NEW a, NEW n, Unwanted(m, own, B, o, a, n)
    PROVE  \E own2 : BusyStep(m, own, B, o, k, Free(m, a, n), own2)
<1>1. FreeOK(m, own)
  BY DEF Busy, Mem
<1>2. a \in Nat /\ n \in Nat /\ \A u \in Span(a, n) : Taken(own[u], Adr(m))
  BY DEF Unwanted
<1>3. PICK own2 : Moves(m, own, Free(m, a, n), own2, Span(a, n))
  BY <1>1, <1>2, FreeMoves
<1>4. Quiet(m, Free(m, a, n))
  BY <1>1, <1>2, FreeMoves
<1> DEFINE r == Free(m, a, n)
           E == Span(a, n)
<1>5. /\ Moves(m, own, r, own2, E) /\ Quiet(m, r)
      /\ \A u \in E : ~Home(own[u], B, Adr(m)) /\ own[u][1] # OldDir
      /\ m.popped \/ \A u \in E : ~Prot(o.own[u])
  BY <1>3, <1>4 DEF Unwanted, Safe
<1> HIDE DEF r, E
<1>6. BusyStep(m, own, B, o, k, r, own2)
  BY <1>5, BusyMoves
<1> QED
  BY <1>6 DEF r

-----------------------------------------------------------------------------
(* Memory between updates.                                                 *)

LEMMA FreeParts ==
    ASSUME NEW m, NEW own
    PROVE  FreeOK(m, own) <=> /\ IsMem(m) /\ FreeSpace(m.disk, m.header, own)
                              /\ own[0] = Tag(TheHeader, Nobody, Nobody)
                              /\ CurTable(m, own)
BY DEF FreeOK, FreeSpace, CurTable

(* Another bucket is the current one, and the cache holds other buckets.   *)
LEMMA CleanSet ==
    ASSUME NEW m, NEW own, NEW B, Clean(m, own, B), NEW r, IsMem(r), SameFile(m, r), Unchanged(r),
           r.last_read \in Slots \cup {-1}, Cached(r, B, 0), DataOK(r, B, 0),
           Adr(r) \in DOMAIN B \/ CurTable(r, own)
    PROVE  Clean(r, own, B)
<1>1. FreeOK(r, own)
  <2>1. FreeSpace(m.disk, m.header, own) /\ own[0] = Tag(TheHeader, Nobody, Nobody)
    BY FreeParts DEF Clean, Mem
  <2>2. CurTable(r, own)
    <3>1. CASE Adr(r) \in DOMAIN B
      <4>1. Adr(r) # 0
        BY <3>1 DEF Clean, Mem, Homes
      <4>2. Bucket(r) = B[Adr(r)]
        BY <4>1 DEF Cached, Adr, Bucket, IsMem
      <4>3. Table(B[Adr(r)].avail, own, BucketAvail, Adr(r)) /\ Len(B[Adr(r)].avail) <= BUCKET_AVAIL
        BY <3>1, <4>1 DEF Clean, Mem, Tables
      <4> QED
        BY <4>2, <4>3 DEF CurTable
    <3> QED
      BY <3>1
  <2>3. FreeSpace(r.disk, r.header, own)
    BY <2>1 DEF SameFile
  <2> QED
    BY <2>1, <2>2, <2>3, FreeParts
<1>2. HeaderOn(r) /\ DirOn(r)
  BY DEF SameFile, HeaderOn, DirOn, Clean, Mem, Settled
<1>3. BucketsOn(r, B, 0)
  <2>1. \A a \in DOMAIN B : a # 0 => Holds(m.disk, a, block_size, BucketObj(B[a]))
    BY DEF Clean, Mem, BucketsOn, BucketOn, Pending, Unchanged
  <2> QED
    BY <2>1 DEF BucketsOn, BucketOn, SameFile
<1>4. FlagsOK(r)
  BY DEF FlagsOK, Unchanged, Clean, Settled, SameFile
<1>5. RecordsIn(r.disk, B, 0) /\ DirOK(r.dir, r.header.dir_bits, B) /\ Homes(own, r.header, B) /\ Tables(own, B, 0)
  BY DEF SameFile, Clean, Mem
<1>6. Settled(r)
  BY DEF SameFile, Clean, Settled
<1> QED
  BY <1>1, <1>2, <1>3, <1>4, <1>5, <1>6 DEF Clean, Mem

LEMMA SetCurRec ==
    ASSUME NEW m, IsRec(m), NEW i, NEW l, NEW c, NEW cache, NEW r, r = SetCur(m, i, l, c, cache)
    PROVE  /\ IsRec(r) /\ SameFile(m, r) /\ r.open = m.open
           /\ r.bucket_dir = i /\ r.last_read = l /\ r.cur = c /\ r.cache = cache
BY DEF IsRec, SetCur, SameFile

LEMMA SetCurIs ==
    ASSUME NEW m, IsMem(m), NEW i, NEW l, NEW c \in Slots, NEW cache, cache = [e \in Slots |-> cache[e]],
           \A e \in Slots : IsEntry(cache[e]), NEW r, r = SetCur(m, i, l, c, cache)
    PROVE  /\ IsMem(r) /\ SameFile(m, r) /\ r.open = m.open
           /\ r.bucket_dir = i /\ r.last_read = l /\ r.cur = c /\ r.cache = cache
BY SetCurRec DEF IsMem, IsRec, SameFile

LEMMA ModIs == ASSUME NEW x \in Nat, NEW t \in Nat \ {0} PROVE x % t \in 0 .. t - 1
OBVIOUS

LEMMA SlotsAre == cache_size \in Nat /\ cache_size >= 3 /\ Slots \subseteq Nat /\ 0 \in Slots
                  /\ \A x \in Slots \cup {-1} : (x + 1) % cache_size \in Slots
BY GdbmAssumption, ModIs DEF Slots

LEMMA SetDirIs ==
    ASSUME NEW m, IsMem(m), NEW i, NEW r, r = SetDir(m, i)
    PROVE  /\ IsMem(r) /\ SameFile(m, r) /\ r.open = m.open
           /\ r.bucket_dir = i /\ r.last_read = m.last_read /\ r.cur = m.cur /\ r.cache = m.cache
BY DEF IsMem, IsRec, SameFile, SetDir

LEMMA SetSlotIs ==
    ASSUME NEW m, IsMem(m), NEW i, NEW c \in Slots, NEW r, r = SetSlot(m, i, c)
    PROVE  /\ IsMem(r) /\ SameFile(m, r) /\ r.open = m.open
           /\ r.bucket_dir = i /\ r.last_read = m.last_read /\ r.cur = c /\ r.cache = m.cache
BY DEF IsMem, IsRec, SameFile, SetSlot

LEMMA BlankEntryIs ==
    ASSUME NEW a, NEW b, IsBucket(b), NEW e, e = BlankEntry(a, b)
    PROVE  IsEntry(e) /\ e.adr = a /\ e.bucket = b /\ ~e.changed /\ e.data = NoData
BY DEF BlankEntry, NoEntry, IsEntry

LEMMA ReadSlotIs ==
    ASSUME NEW m, IsMem(m), NEW i, NEW v \in Slots, NEW e, IsEntry(e), NEW r, r = ReadSlot(m, i, v, e)
    PROVE  /\ IsMem(r) /\ SameFile(m, r) /\ r.open = m.open
           /\ r.bucket_dir = i /\ r.last_read = v /\ r.cur = v
           /\ r.cache[v] = e /\ \A c \in Slots : c # v => r.cache[c] = m.cache[c]
<1>0. m.cache = [c \in Slots |-> m.cache[c]] /\ \A c \in Slots : IsEntry(m.cache[c])
  BY DEF IsMem
<1> DEFINE cache == [m.cache EXCEPT ![v] = e]
<1>1. /\ cache = [c \in Slots |-> cache[c]] /\ cache[v] = e
      /\ \A c \in Slots : c # v => cache[c] = m.cache[c]
  BY <1>0
<1>2. r = SetCur(m, i, v, v, cache)
  BY DEF SetCur, ReadSlot
<1> HIDE DEF cache
<1>3. \A c \in Slots : IsEntry(cache[c])
  BY <1>0, <1>1
<1> QED
  BY <1>1, <1>2, <1>3, SetCurIs

LEMMA GetBucketClean ==
    ASSUME NEW m, NEW own, NEW B, Clean(m, own, B), NEW i \in Entries(m.header.dir_bits)
    PROVE  Fetched(m, own, B, i, GetBucket(m, i))
<1> DEFINE adr == m.dir[i]
           r == GetBucket(m, i)
           cached == {c \in 0 .. cache_size - 1 : m.cache[c].adr = adr}
           victim == (m.last_read + 1) % cache_size
           b == Get(m.disk, adr, block_size)[2]
           entry == BlankEntry(adr, b)
<1>0. r = IF m.cache[m.cur].adr = adr THEN SetDir(m, i)
          ELSE IF cached # {} THEN SetSlot(m, i, First(cached))
          ELSE ReadSlot(WriteIfChanged(m, victim), i, victim, entry)
  BY DEF GetBucket, BlankEntry, SetDir, SetSlot, ReadSlot
<1>1. /\ adr \in DOMAIN B /\ adr # 0 /\ adr \in Nat /\ IsBucket(B[adr])
  BY DEF Clean, Mem, DirOK, DirShape, Homes
<1>2. IsMem(m) /\ Cached(m, B, 0) /\ DataOK(m, B, 0) /\ Unchanged(m) /\ m.last_read \in Slots \cup {-1}
      /\ m.cur \in Slots
  BY DEF Clean, Mem, FreeOK, FlagsOK, IsMem
<1>3. victim \in Slots
  BY <1>2, SlotsAre
<1>4. b = B[adr]
  <2>1. Holds(m.disk, adr, block_size, BucketObj(B[adr]))
    BY <1>1, <1>2 DEF Clean, Mem, BucketsOn, BucketOn, Pending, Unchanged
  <2>2. Get(m.disk, adr, block_size) = BucketObj(B[adr])
    BY <1>1, <2>1, GetHeld, Consts
  <2> QED
    BY <2>2 DEF BucketObj
<1> HIDE DEF adr, r, victim, b, entry
<1>5. IsEntry(entry) /\ entry.adr = adr /\ entry.bucket = B[adr] /\ ~entry.changed /\ entry.data = NoData
  BY <1>1, <1>4, BlankEntryIs DEF entry
<1>6. ASSUME m.cache[m.cur].adr = adr PROVE Seen(m, B, adr, i, r)
  BY <1>0, <1>6, <1>2, SetDirIs DEF Cached, DataOK, Unchanged, SameFile, Adr, Seen
<1>7. ASSUME m.cache[m.cur].adr # adr, cached # {} PROVE Seen(m, B, adr, i, r)
  <2> DEFINE c == First(cached)
  <2>1. c \in cached
    BY SlotsAre, <1>7, FirstIs DEF Slots
  <2>2. c \in Slots /\ m.cache[c].adr = adr
    BY <2>1 DEF Slots
  <2>3. r = SetSlot(m, i, c)
    BY <1>0, <1>7
  <2> HIDE DEF c
  <2>4. /\ IsMem(r) /\ SameFile(m, r) /\ r.open = m.open
        /\ r.bucket_dir = i /\ r.last_read = m.last_read /\ r.cur = c /\ r.cache = m.cache
    BY <1>2, <2>2, <2>3, SetSlotIs
  <2>5. Cached(r, B, 0) /\ DataOK(r, B, 0) /\ Unchanged(r)
    BY <1>2, <2>4 DEF Cached, DataOK, Unchanged, SameFile
  <2>6. Adr(r) = adr
    BY <2>2, <2>4 DEF Adr
  <2>7. r.last_read \in Slots \cup {-1}
    BY <1>2, <2>4
  <2> QED
    BY <2>4, <2>5, <2>6, <2>7 DEF Seen
<1>8. ASSUME m.cache[m.cur].adr # adr, cached = {} PROVE Seen(m, B, adr, i, r)
  <2>1. WriteIfChanged(m, victim) = m
    BY <1>2, <1>3 DEF WriteIfChanged, Unchanged
  <2>2. r = ReadSlot(m, i, victim, entry)
    BY <1>0, <1>8, <2>1
  <2>3. /\ IsMem(r) /\ SameFile(m, r) /\ r.open = m.open
        /\ r.bucket_dir = i /\ r.last_read = victim /\ r.cur = victim
        /\ r.cache[victim] = entry /\ \A c \in Slots : c # victim => r.cache[c] = m.cache[c]
    BY <1>2, <1>3, <1>5, <2>2, ReadSlotIs
  <2>4. \A c \in Slots : m.cache[c].adr # adr
    BY <1>8 DEF Slots
  <2>5. Cached(r, B, 0)
    BY <1>1, <1>2, <1>5, <2>3, <2>4 DEF Cached
  <2>6. DataOK(r, B, 0)
    <3> SUFFICES ASSUME NEW c \in Slots, r.cache[c].adr # 0, ~r.cache[c].changed
                 PROVE  DataFits(r.disk, B[r.cache[c].adr], r.cache[c].data)
      BY DEF DataOK
    <3>1. CASE c = victim
      BY <1>5, <2>3, <3>1 DEF DataFits
    <3>2. CASE c # victim
      BY <1>2, <2>3, <3>2 DEF DataOK, SameFile
    <3> QED
      BY <3>1, <3>2
  <2>7. Unchanged(r)
    BY <1>2, <1>5, <2>3 DEF Unchanged
  <2>8. Adr(r) = adr
    BY <1>5, <2>3 DEF Adr
  <2>9. r.last_read \in Slots \cup {-1}
    BY <1>3, <2>3
  <2> QED
    BY <2>3, <2>5, <2>6, <2>7, <2>8, <2>9 DEF Seen
<1>9. Seen(m, B, adr, i, r)
  BY <1>6, <1>7, <1>8
<1>10. /\ IsMem(r) /\ SameFile(m, r) /\ r.open = m.open /\ r.bucket_dir = i /\ r.last_read \in Slots \cup {-1}
       /\ Cached(r, B, 0) /\ DataOK(r, B, 0) /\ Unchanged(r) /\ Adr(r) = adr
  BY <1>9 DEF Seen
<1>11. Clean(r, own, B)
  BY <1>1, <1>10, CleanSet
<1>12. Bucket(r) = B[Adr(r)]
  BY <1>1, <1>10 DEF Cached, Adr, Bucket, IsMem
<1>13. Fetched(m, own, B, i, r)
  BY <1>1, <1>10, <1>11, <1>12 DEF Fetched, adr
<1> QED
  BY <1>13 DEF r

LEMMA SetCacheIs ==
    ASSUME NEW m, IsMem(m), NEW cache, cache = [e \in Slots |-> cache[e]],
           \A e \in Slots : IsEntry(cache[e]), NEW r, r = SetCache(m, cache)
    PROVE  /\ IsMem(r) /\ SameFile(m, r) /\ r.open = m.open
           /\ r.bucket_dir = m.bucket_dir /\ r.last_read = m.last_read /\ r.cur = m.cur /\ r.cache = cache
BY DEF IsMem, IsRec, SameFile, SetCache

LEMMA SetEntryIs ==
    ASSUME NEW m, IsMem(m), NEW c \in Slots, NEW e, IsEntry(e), NEW r, r = SetEntry(m, c, e)
    PROVE  /\ IsMem(r) /\ SameFile(m, r) /\ r.open = m.open
           /\ r.bucket_dir = m.bucket_dir /\ r.last_read = m.last_read /\ r.cur = m.cur
           /\ r.cache[c] = e /\ \A x \in Slots : x # c => r.cache[x] = m.cache[x]
<1>0. m.cache = [x \in Slots |-> m.cache[x]] /\ \A x \in Slots : IsEntry(m.cache[x])
  BY DEF IsMem
<1> DEFINE cache == [m.cache EXCEPT ![c] = e]
<1>1. /\ cache = [x \in Slots |-> cache[x]] /\ cache[c] = e
      /\ \A x \in Slots : x # c => cache[x] = m.cache[x]
  BY <1>0
<1>2. r = SetCache(m, cache)
  BY DEF SetCache, SetEntry
<1> HIDE DEF cache
<1>3. \A x \in Slots : IsEntry(cache[x])
  BY <1>0, <1>1
<1> QED
  BY <1>1, <1>2, <1>3, SetCacheIs

LEMMA WithDataIs ==
    ASSUME NEW e, IsEntry(e), NEW data, NEW f, f = WithData(e, data)
    PROVE  IsEntry(f) /\ f.adr = e.adr /\ f.bucket = e.bucket /\ f.changed = e.changed /\ f.data = data
BY DEF WithData, IsEntry

(* The entry of the current bucket gets other data.                        *)
LEMMA SetDataClean ==
    ASSUME NEW m, NEW own, NEW B, Clean(m, own, B), NEW data, NEW r,
           r = SetEntry(m, m.cur, WithData(m.cache[m.cur], data)),
           Adr(m) \in DOMAIN B, Bucket(m) = B[Adr(m)], DataFits(m.disk, B[Adr(m)], data)
    PROVE  /\ Clean(r, own, B) /\ SameFile(m, r) /\ r.open = m.open
           /\ r.bucket_dir = m.bucket_dir /\ Adr(r) = Adr(m) /\ Bucket(r) = Bucket(m)
<1> DEFINE c == m.cur
           e == WithData(m.cache[c], data)
<1>1. IsMem(m) /\ Cached(m, B, 0) /\ DataOK(m, B, 0) /\ Unchanged(m) /\ m.last_read \in Slots \cup {-1}
      /\ c \in Slots /\ IsEntry(m.cache[c])
  BY DEF Clean, Mem, FreeOK, FlagsOK, IsMem
<1>2. IsEntry(e) /\ e.adr = m.cache[c].adr /\ e.bucket = m.cache[c].bucket /\ e.changed = m.cache[c].changed
      /\ e.data = data
  BY <1>1, WithDataIs
<1> HIDE DEF e
<1>3. /\ IsMem(r) /\ SameFile(m, r) /\ r.open = m.open
      /\ r.bucket_dir = m.bucket_dir /\ r.last_read = m.last_read /\ r.cur = c
      /\ r.cache[c] = e /\ \A x \in Slots : x # c => r.cache[x] = m.cache[x]
  <2>1. r = SetEntry(m, c, e)
    BY DEF e
  <2>2. c = m.cur
    OBVIOUS
  <2> HIDE DEF c
  <2>3. IsMem(m) /\ c \in Slots /\ IsEntry(e)
    BY <1>1, <1>2
  <2>4. /\ IsMem(r) /\ SameFile(m, r) /\ r.open = m.open
        /\ r.bucket_dir = m.bucket_dir /\ r.last_read = m.last_read /\ r.cur = m.cur
        /\ r.cache[c] = e /\ \A x \in Slots : x # c => r.cache[x] = m.cache[x]
    BY <2>1, <2>3, SetEntryIs
  <2> QED
    BY <2>2, <2>4
<1>4. \A x \in Slots : /\ r.cache[x].adr = m.cache[x].adr /\ r.cache[x].bucket = m.cache[x].bucket
                       /\ r.cache[x].changed = m.cache[x].changed
  BY <1>2, <1>3
<1>5. Cached(r, B, 0) /\ Unchanged(r)
  BY <1>1, <1>4 DEF Cached, Unchanged
<1>6. DataOK(r, B, 0)
  <2> SUFFICES ASSUME NEW x \in Slots, r.cache[x].adr # 0, ~r.cache[x].changed
               PROVE  DataFits(r.disk, B[r.cache[x].adr], r.cache[x].data)
    BY DEF DataOK
  <2>1. CASE x = c
    BY <1>2, <1>3, <2>1 DEF Adr, SameFile
  <2>2. CASE x # c
    BY <1>1, <1>3, <2>2 DEF DataOK, SameFile
  <2> QED
    BY <2>1, <2>2
<1>7. Adr(r) = Adr(m) /\ Bucket(r) = Bucket(m)
  BY <1>2, <1>3 DEF Adr, Bucket
<1>8. r.last_read \in Slots \cup {-1} /\ Adr(r) \in DOMAIN B
  BY <1>1, <1>3, <1>7
<1>9. Clean(r, own, B)
  BY <1>3, <1>5, <1>6, <1>8, CleanSet
<1> QED
  BY <1>3, <1>7, <1>9

\* A key's index is one of the directory's.
LEMMA IndexEntry ==
    ASSUME NEW m, NEW own, NEW B, Clean(m, own, B), NEW k \in Keys
    PROVE  DirIndex(k, m.header.dir_bits) \in Entries(m.header.dir_bits)
<1>1. m.header.dir_bits \in 0 .. HashBits
  BY BitConsts DEF Clean, Mem, DirOK, DirShape
<1>2. /\ DirIndex(k, m.header.dir_bits) \in Nat /\ DirIndex(k, m.header.dir_bits) < Two[m.header.dir_bits]
      /\ Two[m.header.dir_bits] \in Nat
  BY <1>1, IndexIs, TwoPos
<1> QED
  BY <1>2 DEF Entries

(* The key is looked up between updates.                                   *)
LEMMA FindKeyClean ==
    ASSUME NEW m, NEW own, NEW B, Clean(m, own, B), NEW k \in Keys
    PROVE  Fetched(m, own, B, DirIndex(k, m.header.dir_bits), FindKey(m, k))
<1> DEFINE i == DirIndex(k, m.header.dir_bits)
           g == GetBucket(m, i)
           r == ReadEntry(g, k)
<1>1. i \in Entries(m.header.dir_bits)
  BY IndexEntry
<1>2. FindKey(m, k) = r
  BY DEF FindKey
<1> HIDE DEF i
<1>3. Fetched(m, own, B, i, g)
  BY <1>1, GetBucketClean
<1> HIDE DEF g
<1>4. Clean(g, own, B) /\ SameFile(m, g) /\ g.open = m.open /\ g.bucket_dir = i
      /\ Adr(g) = m.dir[i] /\ Adr(g) \in DOMAIN B /\ Bucket(g) = B[Adr(g)]
  BY <1>3 DEF Fetched
<1> DEFINE el == Bucket(g).elems[k]
           obj == Get(g.disk, el.adr, el.size)
           val == IF obj[1] = "record" /\ obj[2] = k THEN obj[3] ELSE Torn
           data == [key |-> k, val |-> val]
<1>5. CASE k \notin DOMAIN Bucket(g).elems \/ g.cache[g.cur].data.key = k
  BY <1>5, <1>2, <1>3 DEF ReadEntry, i
<1>6. CASE ~(k \notin DOMAIN Bucket(g).elems \/ g.cache[g.cur].data.key = k)
  <2>1. r = SetEntry(g, g.cur, WithData(g.cache[g.cur], data))
    BY <1>6 DEF ReadEntry, SetEntry, WithData
  <2>2. data = DataOf(g.disk, el, k)
    BY DEF DataOf, RecVal
  <2>3. k \in DOMAIN B[Adr(g)].elems /\ el = B[Adr(g)].elems[k]
    BY <1>4, <1>6
  <2>4. InFile(g.disk, el)
    BY GdbmAssumption, <1>4, <2>3 DEF Clean, Mem, RecordsIn
  <2>5. DataFits(g.disk, B[Adr(g)], data)
    BY <2>2, <2>3, <2>4 DEF DataFits
  <2> HIDE DEF r, data
  <2>6. /\ Clean(r, own, B) /\ SameFile(g, r) /\ r.open = g.open
        /\ r.bucket_dir = g.bucket_dir /\ Adr(r) = Adr(g) /\ Bucket(r) = Bucket(g)
    BY <1>4, <2>1, <2>5, SetDataClean
  <2>7. SameFile(m, r)
    BY <1>4, <2>6 DEF SameFile
  <2>8. Fetched(m, own, B, i, r)
    BY <1>4, <2>6, <2>7 DEF Fetched
  <2> QED
    BY <1>2, <2>8 DEF i
<1> QED
  BY <1>5, <1>6

LEMMA LayoutExists == ASSUME NEW m, NEW own, NEW B PROVE \E o : LayoutOf(o, m, own, B)
<1> DEFINE o == [own |-> own, h |-> m.header, dir |-> m.dir, B |-> B]
<1>1. LayoutOf(o, m, own, B)
  BY DEF LayoutOf
<1> QED
  BY <1>1

(* Between updates, memory shows what the file holds.                      *)
LEMMA CleanDisk ==
    ASSUME NEW m, NEW own, NEW B, Clean(m, own, B), NEW o, LayoutOf(o, m, own, B)
    PROVE  DiskOK(m.disk, o)
<1>1. IsHeader(m.header) /\ FreeSpace(m.disk, m.header, own)
  BY FreeParts DEF Clean, Mem, IsMem
<1>2. Holds(m.disk, 0, block_size, HeaderObj(m.header))
  BY DEF Clean, Mem, HeaderOn, Settled
<1>3. Holds(m.disk, m.header.dir, DirSize(m.header.dir_bits), DirObject(m.dir))
  BY DEF Clean, Mem, DirOn, Settled
<1>4. \A a \in DOMAIN B : Holds(m.disk, a, block_size, BucketObj(B[a]))
  BY DEF Clean, Mem, BucketsOn, BucketOn, Pending, Unchanged, Homes
<1>5. DirOK(m.dir, m.header.dir_bits, B) /\ Homes(own, m.header, B) /\ Tables(own, B, 0) /\ RecordsIn(m.disk, B, 0)
  BY DEF Clean, Mem
<1>6. o.own = own /\ o.h = m.header /\ o.dir = m.dir /\ o.B = B
  BY DEF LayoutOf
<1>7. LayoutOK(m.disk, o)
  BY <1>1, <1>2, <1>4, <1>5, <1>6 DEF LayoutOK, BucketsHeld
<1>8. DirHeld(m.disk, o)
  BY <1>3, <1>6 DEF DirHeld
<1> QED
  BY <1>7, <1>8 DEF DiskOK

(* An update begins.                                                       *)
LEMMA BeginBusy ==
    ASSUME NEW m, NEW own, NEW B, Clean(m, own, B), Adr(m) \in DOMAIN B, Bucket(m) = B[Adr(m)],
           m.bucket_dir \in Entries(m.header.dir_bits), m.dir[m.bucket_dir] = Adr(m),
           NEW o, LayoutOf(o, m, own, B), NEW k
    PROVE  Busy(m, own, B, o, k)
<1>1. Mem(m, own, B, Adr(m), Adr(m), k)
  <2>1. Mem(m, own, B, 0, 0, 0)
    BY DEF Clean
  <2>2. Tables(own, B, Adr(m))
    BY <2>1 DEF Mem, Homes, Tables
  <2>3. BucketsOn(m, B, Adr(m))
    BY <2>1 DEF Mem, Homes, BucketsOn
  <2>4. Cached(m, B, Adr(m)) /\ DataOK(m, B, Adr(m))
    BY <2>1 DEF Mem, Cached, DataOK
  <2>5. RecordsIn(m.disk, B, k)
    BY <2>1, GdbmAssumption DEF Mem, DirOK, DirKeys, RecordsIn
  <2> QED
    BY <2>1, <2>2, <2>3, <2>4, <2>5 DEF Mem
<1>2. Cur(m, B)
  BY DEF Cur
<1>3. Old(m, own, o)
  <2>1. OldOK(m.disk, o)
    BY CleanDisk DEF DiskOK, OldOK
  <2>2. Link(m, own, o)
    BY Kinds DEF LayoutOf, Link, Prot, NearUnit
  <2> QED
    BY <2>1, <2>2 DEF Old
<1>4. NewSafe(m, o)
  <2>1. Safe(m, o, m.header.dir, DirSize(m.header.dir_bits))
    <3> DEFINE a == m.header.dir
               n == DirSize(m.header.dir_bits)
    <3>1. Owned(own, a, n, Tag(TheDir, Nobody, Nobody))
      BY DEF Clean, Mem, Homes
    <3> HIDE DEF a, n
    <3>2. \A u \in Span(a, n) : own[u][1] = TheDir
      BY <3>1, OwnedTag
    <3>3. \A u \in Span(a, n) : ~Prot(own[u])
      BY <3>2, Kinds DEF Prot
    <3> QED
      BY <3>3 DEF Safe, LayoutOf, a, n
  <2> QED
    BY <2>1 DEF NewSafe, Clean, Unchanged, Settled
<1>5. OldDirs(m, own, o)
  BY DEF Clean, Settled, OldDirs, Table
<1> QED
  BY <1>1, <1>2, <1>3, <1>4, <1>5 DEF Busy

LEMMA BusyLess ==
    ASSUME NEW m, NEW own, NEW B, NEW o, NEW k, Busy(m, own, B, o, k), NEW C, LessElems(B, C, Adr(m))
    PROVE  Busy(m, own, C, o, k)
<1> DEFINE A == Adr(m)
<1>1. Mem(m, own, B, A, A, k) /\ Cur(m, B) /\ Old(m, own, o) /\ NewSafe(m, o) /\ OldDirs(m, own, o)
  BY DEF Busy
<1>2. /\ DOMAIN C = DOMAIN B /\ A \in DOMAIN B
      /\ \A a \in DOMAIN B : a # A => C[a] = B[a]
      /\ C[A].bits = B[A].bits /\ IsBucket(C[A])
      /\ \A q \in DOMAIN C[A].elems : q \in DOMAIN B[A].elems /\ C[A].elems[q] = B[A].elems[q]
  BY DEF LessElems
<1> HIDE DEF A
<1>e. \A a \in DOMAIN B : C[a].bits = B[a].bits /\ \A q \in DOMAIN C[a].elems :
          q \in DOMAIN B[a].elems /\ C[a].elems[q] = B[a].elems[q]
  BY <1>2
<1>3. DirOK(m.dir, m.header.dir_bits, C)
  BY <1>1, <1>2, <1>e, DirSame DEF Mem
<1>4. Homes(own, m.header, C)
  BY <1>1, <1>2, <1>e DEF Mem, Homes
<1>5. Tables(own, C, A) /\ BucketsOn(m, C, A) /\ Cached(m, C, A)
  BY <1>1, <1>2 DEF Mem, Tables, BucketsOn, Cached
<1>6. DataOK(m, C, A)
  BY <1>1, <1>2 DEF Mem, DataOK, Cached
<1>7. RecordsIn(m.disk, C, k)
  BY <1>1, <1>2, <1>e DEF Mem, RecordsIn
<1>8. Mem(m, own, C, A, A, k)
  BY <1>1, <1>3, <1>4, <1>5, <1>6, <1>7 DEF Mem
<1>9. Cur(m, C)
  BY <1>1, <1>2 DEF Cur, A
<1> QED
  BY <1>1, <1>8, <1>9 DEF Busy, A

LEMMA BucketWithoutIs ==
    ASSUME NEW b, NEW k
    PROVE  /\ IsBucket(BucketWithout(b, k)) /\ BucketWithout(b, k).bits = b.bits
           /\ BucketWithout(b, k).elems = ElemsWithout(b.elems, k)
BY DEF IsBucket, BucketWithout

LEMMA KeyOutIs ==
    ASSUME NEW B, NEW A \in DOMAIN B, NEW k
    PROVE  /\ LessElems(B, KeyOut(B, A, k), A)
           /\ KeyOut(B, A, k)[A].elems = ElemsWithout(B[A].elems, k)
           /\ DOMAIN KeyOut(B, A, k)[A].elems = DOMAIN B[A].elems \ {k}
<1> DEFINE C == KeyOut(B, A, k)
           b == BucketWithout(B[A], k)
<1>1. DOMAIN C = DOMAIN B /\ C[A] = b /\ \A a \in DOMAIN B : a # A => C[a] = B[a]
  BY DEF KeyOut
<1>2. IsBucket(b) /\ b.bits = B[A].bits /\ b.elems = ElemsWithout(B[A].elems, k)
  BY BucketWithoutIs
<1> HIDE DEF C, b
<1>3. C[A].elems = ElemsWithout(B[A].elems, k)
  BY <1>1, <1>2
<1>4. DOMAIN C[A].elems = DOMAIN B[A].elems \ {k}
      /\ \A q \in DOMAIN C[A].elems : C[A].elems[q] = B[A].elems[q]
  BY <1>3 DEF ElemsWithout
<1>5. LessElems(B, C, A)
  BY <1>1, <1>2, <1>4 DEF LessElems
<1> QED
  BY <1>3, <1>4, <1>5 DEF C

(* The record of a key that is out of its bucket is free to be freed.      *)
LEMMA RecordUnwanted ==
    ASSUME NEW m, NEW own, NEW B, NEW o, NEW k, Busy(m, own, B, o, k), o.own = own,
           k \in DOMAIN B[Adr(m)].elems
    PROVE  LET el == B[Adr(m)].elems[k]
           IN Unwanted(m, own, KeyOut(B, Adr(m), k), o, el.adr, el.size)
<1> DEFINE A == Adr(m)
           el == B[A].elems[k]
           C == KeyOut(B, A, k)
           E == Span(el.adr, el.size)
<1>1. A \in DOMAIN B
  BY DEF Busy, Cur
<1>2. el \in AvType /\ Owned(own, el.adr, el.size, Tag(ARecord, k, Nobody))
  BY <1>1 DEF Busy, Mem, Homes, HasRecord
<1>3. el.adr \in Nat /\ el.size \in Nat
  BY <1>2 DEF AvType
<1>4. \A a \in DOMAIN C : k \notin DOMAIN C[a].elems
  BY <1>1, KeyOutIs DEF LessElems, Busy, Mem, DirOK, DirKeys
<1> HIDE DEF el, C, A
<1>5. \A u \in E : own[u] = Tag(ARecord, k, Nobody) /\ own[u][1] = ARecord /\ own[u][2] = k
  BY <1>2, OwnedTag
<1>6. \A u \in E : Taken(own[u], A) /\ ~Home(own[u], C, A) /\ own[u][1] # OldDir /\ ~Prot(own[u])
  BY <1>4, <1>5, Kinds DEF Taken, FreeUnit, NearUnit, Home, Prot
<1>7. Safe(m, o, el.adr, el.size)
  BY <1>6 DEF Safe
<1> QED
  BY <1>3, <1>6, <1>7 DEF Unwanted, el, C, A

LEMMA RoomBusy ==
    ASSUME NEW m, NEW own, NEW B, NEW o, NEW k, Busy(m, own, B, o, k), o.own = own,
           Bucket(m).elems = B[Adr(m)].elems, NEW v \in Values
    PROVE  \E own2, C : /\ RoomOK(m, B, C, k)
                        /\ BusyStep(m, own, C, o, k, Room(m, k, v).m, own2)
                        /\ HasRoom(Room(m, k, v), own2, o, SizeOf[v])
<1> DEFINE A == Adr(m)
           el == B[A].elems[k]
           n == SizeOf[v]
           C == IF k \in DOMAIN B[A].elems THEN KeyOut(B, A, k) ELSE B
           f == IF k \in DOMAIN B[A].elems THEN Free(m, el.adr, el.size) ELSE m
           a == Alloc(f, n)
<1>0. A \in DOMAIN B /\ n \in Nat /\ IsBucket(B[A]) /\ IsMem(m)
  BY GdbmAssumption DEF Busy, Cur, Mem, Homes, FreeOK
<1>1. Room(m, k, v) = a
  BY DEF Room
<1>2. RoomOK(m, B, C, k)
  BY <1>0, KeyOutIs DEF RoomOK, LessElems
<1>3. Busy(m, own, C, o, k)
  BY <1>2, BusyLess DEF RoomOK
<1>4. \E own1 : BusyStep(m, own, C, o, k, f, own1)
  <2>1. CASE k \in DOMAIN B[A].elems
    <3>1. Unwanted(m, own, C, o, el.adr, el.size)
      BY <2>1, RecordUnwanted
    <3>2. f = Free(m, el.adr, el.size)
      BY <2>1
    <3> HIDE DEF f, C, el
    <3>3. \E own1 : BusyStep(m, own, C, o, k, Free(m, el.adr, el.size), own1)
      BY <1>3, <3>1, BusyFree
    <3> QED
      BY <3>2, <3>3
  <2>2. CASE k \notin DOMAIN B[A].elems
    <3>1. f = m
      BY <2>2
    <3> HIDE DEF f, C
    <3> QED
      BY <1>0, <1>3, <3>1, OnlySpaceSelf DEF BusyStep
  <2> QED
    BY <2>1, <2>2
<1> HIDE DEF f, C, n, a
<1>5. PICK own1 : BusyStep(m, own, C, o, k, f, own1)
  BY <1>4
<1>6. Busy(f, own1, C, o, k) /\ OnlySpace(m, f) /\ Adr(f) = Adr(m) /\ (m.popped => f.popped)
  BY <1>5 DEF BusyStep
<1>7. PICK own2 : Got(f, own1, C, o, k, a, own2, n)
  BY <1>0, <1>6, BusyAlloc DEF a
<1>8. /\ Busy(a.m, own2, C, o, k) /\ OnlySpace(f, a.m) /\ Adr(a.m) = Adr(f) /\ (f.popped => a.m.popped)
      /\ HasRoom(a, own2, o, n)
  BY <1>7 DEF Got, BusyStep, HasRoom
<1>9. OnlySpace(m, a.m)
  BY <1>6, <1>8, OnlySpaceTrans
<1>10. BusyStep(m, own, C, o, k, a.m, own2)
  BY <1>6, <1>8, <1>9 DEF BusyStep
<1> QED
  BY <1>1, <1>2, <1>8, <1>10 DEF n

LEMMA BusyNearly ==
    ASSUME NEW m, NEW own, NEW B, NEW o, NEW k, Busy(m, own, B, o, k), NEW r, NearlySame(m, r)
    PROVE  Busy(r, own, B, o, k)
<1> DEFINE A == Adr(m)
<1>1. Mem(m, own, B, A, A, k) /\ Cur(m, B) /\ Old(m, own, o) /\ NewSafe(m, o) /\ OldDirs(m, own, o)
  BY DEF Busy
<1>2. FreeOK(m, own) /\ m.cur \in Slots
  BY <1>1 DEF Mem, FreeOK, IsMem
<1>3. IsMem(r) /\ r.cur = m.cur /\ Adr(r) = A
  BY DEF NearlySame
<1>4. FreeOK(r, own)
  BY <1>2, <1>3 DEF FreeOK, NearlySame
<1>5. \A c \in Slots : c # m.cur => r.cache[c] = m.cache[c]
  BY DEF NearlySame
<1>6. \A c \in Slots : r.cache[c].adr = m.cache[c].adr
  BY <1>3, <1>5 DEF Adr
<1>7. \A c \in Slots : m.cache[c].adr # A => c # m.cur /\ r.cache[c] = m.cache[c]
  BY <1>5 DEF Adr
<1> HIDE DEF A
<1>8. HeaderOn(r) /\ DirOn(r) /\ RecordsIn(r.disk, B, k)
      /\ DirOK(r.dir, r.header.dir_bits, B) /\ Homes(own, r.header, B) /\ Tables(own, B, A)
  BY <1>1 DEF NearlySame, Mem, HeaderOn, DirOn
<1>9. BucketsOn(r, B, A)
  BY <1>1, <1>7 DEF Mem, NearlySame, Pending, BucketsOn, BucketOn
<1>10. Cached(r, B, A)
  BY <1>1, <1>6, <1>7 DEF Mem, Cached
<1>11. DataOK(r, B, A)
  BY <1>1, <1>6, <1>7 DEF NearlySame, Mem, DataOK
<1>12. FlagsOK(r)
  BY <1>1, <1>3, <1>5 DEF Mem, FlagsOK, NearlySame
<1>13. Mem(r, own, B, A, A, k)
  BY <1>4, <1>8, <1>9, <1>10, <1>11, <1>12 DEF Mem
<1>14. Cur(r, B)
  BY <1>1, <1>3 DEF Cur, NearlySame, A
<1>15. r.popped = m.popped /\ r.disk = m.disk /\ r.old = m.old /\ r.header = m.header
       /\ r.directory_changed = m.directory_changed
  BY DEF NearlySame
<1>16. Old(r, own, o) /\ OldDirs(r, own, o)
  BY <1>1, <1>3, <1>15 DEF Old, Link, OldDirs, Safe, A
<1>17. NewSafe(r, o)
  BY <1>15, <1>1, <1>3, <1>5 DEF Safe, NewSafe, A
<1> QED
  BY <1>3, <1>13, <1>14, <1>16, <1>17 DEF Busy

LEMMA WithElemsIs ==
    ASSUME NEW e, IsEntry(e), NEW elems, NEW f, f = WithElems(e, elems)
    PROVE  IsEntry(f) /\ f.adr = e.adr /\ f.changed = e.changed /\ f.data = e.data
           /\ f.bucket.bits = e.bucket.bits /\ f.bucket.avail = e.bucket.avail /\ f.bucket.elems = elems
BY DEF WithElems, IsEntry, IsBucket

LEMMA ChangedElemsIs ==
    ASSUME NEW e, IsEntry(e), NEW elems, NEW f, f = ChangedElems(e, elems)
    PROVE  IsEntry(f) /\ f.adr = e.adr /\ f.changed = Yes /\ f.data = e.data
           /\ f.bucket.bits = e.bucket.bits /\ f.bucket.avail = e.bucket.avail /\ f.bucket.elems = elems
BY DEF ChangedElems, IsEntry, IsBucket, Yes

LEMMA SetMarkedIs ==
    ASSUME NEW m, IsMem(m), NEW cache, cache = [e \in Slots |-> cache[e]],
           \A e \in Slots : IsEntry(cache[e]), NEW bc, NEW r, r = SetMarked(m, cache, bc),
           \A c \in Slots : c # m.cur => cache[c] = m.cache[c],
           cache[m.cur].adr = Adr(m), cache[m.cur].bucket.bits = Bucket(m).bits,
           cache[m.cur].bucket.avail = Bucket(m).avail
    PROVE  NearlySame(m, r) /\ r.bucket_changed = bc /\ r.cache = cache
BY DEF IsMem, IsRec, SetMarked, Adr, Bucket, NearlySame

(* Space in use changes hands.                                             *)
LEMMA RetagIs ==
    ASSUME NEW own, NEW a, NEW n, NEW t
    PROVE  /\ Owned(Retag(own, a, n, t), a, n, t) \/ ~(Span(a, n) \subseteq Nat)
           /\ \A u \in Nat : u \in Span(a, n) => Retag(own, a, n, t)[u] = t
           /\ \A u \in Nat : u \notin Span(a, n) => Retag(own, a, n, t)[u] = own[u]
BY DEF Retag, Owned

LEMMA FreeRetag ==
    ASSUME NEW m, NEW own, FreeOK(m, own), NEW own2,
           \A u \in Nat : own2[u] = own[u] \/ (Taken(own[u], Adr(m)) /\ Taken(own2[u], Adr(m)))
    PROVE  FreeOK(m, own2)
<1> DEFINE A == Adr(m)
<1>1. \A u \in Nat : FreeUnit(own[u], A) \/ own[u][1] = TheHeader => own2[u] = own[u]
  BY DEF Taken
<1>2. \A u \in Nat : own[u][1] \in {HeaderAvail, AtEnd, AvailBlock, InBlock} => own2[u] = own[u]
  BY <1>1 DEF FreeUnit, NearUnit
<1>3. \A u \in Nat : own[u][1] = BucketAvail /\ own[u][2] = A => own2[u] = own[u]
  BY <1>1 DEF FreeUnit, NearUnit
<1> HIDE DEF A
<1>4. \A u \in Nat : u >= m.header.next_block => own2[u] = Tag(AtEnd, Nobody, Nobody)
  <2>1. \A u \in Nat : u >= m.header.next_block => own[u] = Tag(AtEnd, Nobody, Nobody)
    BY DEF FreeOK
  <2>2. Tag(AtEnd, Nobody, Nobody)[1] = AtEnd
    BY TagIs
  <2> DEFINE t == Tag(AtEnd, Nobody, Nobody)
  <2>3. t[1] = AtEnd /\ \A u \in Nat : u >= m.header.next_block => own[u] = t
    BY <2>1, <2>2
  <2> HIDE DEF t
  <2>4. \A u \in Nat : u >= m.header.next_block => own2[u] = t
    BY <1>2, <2>3
  <2> QED
    BY <2>4 DEF t
<1>5. own2[0] = Tag(TheHeader, Nobody, Nobody)
  BY TagIs, <1>1 DEF FreeOK
<1>6. Table(m.header.avail, own2, HeaderAvail, Nobody)
  BY <1>2, TableKept DEF FreeOK
<1>7. Table(Bucket(m).avail, own2, BucketAvail, A)
  BY <1>3, TableKept DEF FreeOK, A
<1>8. \E S : Stack(m.disk, m.header.av_next, S, own2)
  BY <1>2, SameSelf, StackKept DEF FreeOK
<1> QED
  BY <1>4, <1>5, <1>6, <1>7, <1>8 DEF FreeOK, A

LEMMA BusyRetag ==
    ASSUME NEW m, NEW own, NEW B, NEW o, NEW k, Busy(m, own, B, o, k), NEW own2,
           \A u \in Nat : own2[u] = own[u]
                          \/ (own[u][1] = Holding /\ Taken(own2[u], Adr(m)))
    PROVE  Busy(m, own2, B, o, k)
<1> DEFINE A == Adr(m)
<1>1. Mem(m, own, B, A, A, k) /\ Cur(m, B) /\ Old(m, own, o) /\ NewSafe(m, o) /\ OldDirs(m, own, o)
  BY DEF Busy
<1>2. \A u \in Nat : own[u][1] = Holding => Taken(own[u], A) /\ ~Home(own[u], B, A) /\ own[u][1] # OldDir
  BY Kinds DEF Taken, FreeUnit, NearUnit, Home
<1>3. \A u \in Nat : own2[u] = own[u] \/ (own[u][1] = Holding /\ Taken(own2[u], A))
  OBVIOUS
<1>4. FreeOK(m, own2)
  BY <1>2, <1>3, <1>1, FreeRetag DEF Mem
<1>5. Steady(own, own2, B, A)
  BY <1>2, <1>3 DEF Steady
<1>6. Homes(own2, m.header, B) /\ Tables(own2, B, A)
  BY <1>1, <1>5, HomesKept, TablesKept DEF Mem, DirOK, DirShape
<1>7. Mem(m, own2, B, A, A, k)
  BY <1>1, <1>4, <1>6 DEF Mem
<1>8. Old(m, own2, o)
  BY <1>3, <1>1 DEF Taken, FreeUnit, Old, Link
<1>9. OldDirs(m, own2, o)
  BY <1>2, <1>3, <1>1, TableKept DEF OldDirs
<1> QED
  BY <1>1, <1>7, <1>8, <1>9 DEF Busy

(* A record that is held becomes that of a key.                            *)
LEMMA BusyRecord ==
    ASSUME NEW m, NEW own, NEW B, NEW o, NEW k, Busy(m, own, B, o, k),
           NEW a \in Nat, NEW n \in Nat, NEW x, Owned(own, a, n, Held(x))
    PROVE  \E own2 : Busy(m, own2, B, o, k) /\ Owned(own2, a, n, Tag(ARecord, k, Nobody))
<1> DEFINE t == Tag(ARecord, k, Nobody)
           own2 == Retag(own, a, n, t)
<1>1. \A u \in Span(a, n) : u \in Nat
  BY SpanNat
<1>2. \A u \in Span(a, n) : own[u][1] = Holding
  BY OwnedTag DEF Held
<1>3. Taken(t, Adr(m))
  BY TagIs, Kinds DEF Taken, FreeUnit, NearUnit
<1> HIDE DEF t
<1>4. \A u \in Nat : own2[u] = own[u] \/ (own[u][1] = Holding /\ Taken(own2[u], Adr(m)))
  BY <1>2, <1>3, RetagIs
<1>5. Owned(own2, a, n, t)
  BY <1>1, RetagIs DEF Owned
<1> HIDE DEF own2
<1>6. Busy(m, own2, B, o, k)
  BY <1>4, BusyRetag
<1> QED
  BY <1>5, <1>6 DEF t

LEMMA BusyMore ==
    ASSUME NEW m, NEW own, NEW B, NEW o, NEW k \in Keys, Busy(m, own, B, o, k),
           NEW el, HasRecord(own, el, k), NEW C, MoreElems(B, C, Adr(m), k, el),
           m.dir[DirIndex(k, m.header.dir_bits)] = Adr(m)
    PROVE  Busy(m, own, C, o, k)
<1> DEFINE A == Adr(m)
<1>1. Mem(m, own, B, A, A, k) /\ Cur(m, B) /\ Old(m, own, o) /\ NewSafe(m, o) /\ OldDirs(m, own, o)
  BY DEF Busy
<1>2. /\ DOMAIN C = DOMAIN B /\ A \in DOMAIN B
      /\ \A a \in DOMAIN B : a # A => C[a] = B[a]
      /\ C[A].bits = B[A].bits /\ IsBucket(C[A])
      /\ \A q \in DOMAIN C[A].elems : \/ q = k /\ C[A].elems[q] = el
                                      \/ q \in DOMAIN B[A].elems /\ C[A].elems[q] = B[A].elems[q]
  BY DEF MoreElems
<1>0. m.dir[DirIndex(k, m.header.dir_bits)] = A
  OBVIOUS
<1> HIDE DEF A
<1>e. \A a \in DOMAIN B : C[a].bits = B[a].bits /\ IsBucket(C[a])
  BY <1>1, <1>2 DEF Mem, Homes
<1>3. DirOK(m.dir, m.header.dir_bits, C)
  <2>1. DirOK(m.dir, m.header.dir_bits, B)
    BY <1>1 DEF Mem
  <2>2. DirShape(m.dir, m.header.dir_bits, C)
    BY <1>2, <2>1 DEF DirOK, DirShape
  <2>3. DirGroups(m.dir, m.header.dir_bits, C)
    BY <1>2, <1>e, <2>1 DEF DirOK, DirGroups
  <2>4. DirKeys(m.dir, m.header.dir_bits, C)
    BY <1>0, <1>2, <2>1 DEF DirOK, DirKeys
  <2> QED
    BY <2>2, <2>3, <2>4 DEF DirOK
<1>4. Homes(own, m.header, C)
  BY <1>1, <1>2, <1>e DEF Mem, Homes
<1>5. Tables(own, C, A) /\ BucketsOn(m, C, A) /\ Cached(m, C, A)
  BY <1>1, <1>2 DEF Mem, Tables, BucketsOn, Cached
<1>6. DataOK(m, C, A)
  BY <1>1, <1>2 DEF Mem, DataOK, Cached
<1>7. RecordsIn(m.disk, C, k)
  <2> SUFFICES ASSUME NEW a \in DOMAIN C, NEW q \in DOMAIN C[a].elems, q # k
               PROVE  InFile(m.disk, C[a].elems[q])
    BY DEF RecordsIn
  <2>1. a \in DOMAIN B /\ q \in DOMAIN B[a].elems /\ C[a].elems[q] = B[a].elems[q]
    BY <1>2
  <2> QED
    BY <1>1, <2>1 DEF Mem, RecordsIn
<1>8. Mem(m, own, C, A, A, k)
  BY <1>1, <1>3, <1>4, <1>5, <1>6, <1>7 DEF Mem
<1>9. Cur(m, C)
  BY <1>1, <1>2 DEF Cur, A
<1> QED
  BY <1>1, <1>8, <1>9 DEF Busy, A

-----------------------------------------------------------------------------
(* Memory once an update's changes are made, while they are written.       *)

LEMMA WithBucketIs ==
    ASSUME NEW B, NEW A \in DOMAIN B, NEW b
    PROVE  /\ DOMAIN WithBucket(B, A, b) = DOMAIN B /\ WithBucket(B, A, b)[A] = b
           /\ \A a \in DOMAIN B : a # A => WithBucket(B, A, b)[a] = B[a]
BY DEF WithBucket

(* The current bucket as memory has it takes its place among the others.   *)
LEMMA BusyDone ==
    ASSUME NEW m, NEW own, NEW B, NEW o, NEW k, Busy(m, own, B, o, k),
           Bucket(m).elems = B[Adr(m)].elems, m.bucket_changed, m.old = <<>>, Marked(m)
    PROVE  \E C : Commit(m, own, C, o, k) /\ C[Adr(m)].elems = B[Adr(m)].elems
<1> DEFINE A == Adr(m)
           b == Bucket(m)
           C == WithBucket(B, A, b)
<1>1. Mem(m, own, B, A, A, k) /\ Cur(m, B) /\ Old(m, own, o) /\ NewSafe(m, o)
  BY DEF Busy
<1>2. A \in DOMAIN B /\ b.bits = B[A].bits /\ b.elems = B[A].elems
  BY <1>1 DEF Cur
<1>3. IsBucket(b) /\ m.cur \in Slots /\ b = m.cache[m.cur].bucket /\ A = m.cache[m.cur].adr
  BY <1>1 DEF Mem, FreeOK, IsMem, IsEntry, Bucket, Adr
<1>4. Table(b.avail, own, BucketAvail, A) /\ Len(b.avail) <= BUCKET_AVAIL
  BY <1>1 DEF Mem, FreeOK
<1> HIDE DEF A, b
<1>5. DOMAIN C = DOMAIN B /\ C[A] = b /\ \A a \in DOMAIN B : a # A => C[a] = B[a]
  BY <1>2, WithBucketIs
<1> HIDE DEF C
<1>6. \A a \in DOMAIN B : C[a].bits = B[a].bits /\ C[a].elems = B[a].elems
  BY <1>2, <1>5
<1>7. DirOK(m.dir, m.header.dir_bits, C)
  BY <1>1, <1>5, <1>6, DirSame DEF Mem
<1>8. Homes(own, m.header, C)
  BY <1>1, <1>3, <1>5, <1>6 DEF Mem, Homes
<1>9. Tables(own, C, 0)
  BY <1>1, <1>4, <1>5 DEF Mem, Tables
<1>10. BucketsOn(m, C, A) /\ RecordsIn(m.disk, C, k)
  BY <1>1, <1>5, <1>6 DEF Mem, BucketsOn, RecordsIn
<1>11. Cached(m, C, 0)
  <2> SUFFICES ASSUME NEW c \in Slots, m.cache[c].adr # 0
               PROVE  m.cache[c].bucket = C[m.cache[c].adr]
    BY <1>1, <1>5 DEF Mem, Cached
  <2>1. CASE m.cache[c].adr = A
    BY <1>1, <1>3, <2>1, <1>5 DEF Mem, Cached
  <2>2. CASE m.cache[c].adr # A
    BY <1>1, <1>5, <2>2 DEF Mem, Cached
  <2> QED
    BY <2>1, <2>2
<1>12. DataOK(m, C, A)
  <2> SUFFICES ASSUME NEW c \in Slots, m.cache[c].adr # 0, m.cache[c].adr # A, ~m.cache[c].changed
               PROVE  DataFits(m.disk, C[m.cache[c].adr], m.cache[c].data)
    BY DEF DataOK
  <2>1. m.cache[c].adr \in DOMAIN B /\ DataFits(m.disk, B[m.cache[c].adr], m.cache[c].data)
    BY <1>1 DEF Mem, DataOK, Cached
  <2> QED
    BY <1>5, <2>1
<1>13. Mem(m, own, C, 0, A, k)
  BY <1>1, <1>7, <1>8, <1>9, <1>10, <1>11, <1>12 DEF Mem
<1>14. OldFile(m, o) /\ CurOn(m)
  BY <1>1 DEF OldFile, Old, CurOn
<1>15. Commit(m, own, C, o, k)
  BY <1>1, <1>2, <1>5, <1>13, <1>14 DEF Commit, A
<1>16. C[A].elems = B[A].elems
  BY <1>2, <1>6
<1> QED
  BY <1>15, <1>16 DEF A

LEMMA EntryNearly ==
    ASSUME NEW m, IsMem(m), NEW e, Like(m.cache[m.cur], e), NEW r, r = SetEntry(m, m.cur, e)
    PROVE  NearlySame(m, r) /\ r.cache[m.cur] = e /\ r.cur = m.cur /\ r.bucket_changed = m.bucket_changed
<1>0. m.cur \in Slots /\ IsEntry(e)
  BY DEF IsMem, Like
<1>1. /\ IsMem(r) /\ SameFile(m, r) /\ r.open = m.open
      /\ r.bucket_dir = m.bucket_dir /\ r.last_read = m.last_read /\ r.cur = m.cur
      /\ r.cache[m.cur] = e /\ \A x \in Slots : x # m.cur => r.cache[x] = m.cache[x]
  BY <1>0, SetEntryIs
<1>2. Adr(r) = Adr(m) /\ Bucket(r).bits = Bucket(m).bits /\ Bucket(r).avail = Bucket(m).avail
  BY <1>1 DEF Adr, Bucket, Like
<1> QED
  BY <1>1, <1>2 DEF NearlySame, SameFile

LEMMA MarkNearly ==
    ASSUME NEW m, IsMem(m), NEW e, Like(m.cache[m.cur], e), NEW r, r = MarkEntry(m, e)
    PROVE  NearlySame(m, r) /\ r.cache[m.cur] = e /\ r.cur = m.cur /\ r.bucket_changed
<1>0. m.cur \in Slots /\ IsEntry(e) /\ IsRec(m) /\ m.cache = [c \in Slots |-> m.cache[c]]
      /\ \A c \in Slots : IsEntry(m.cache[c])
  BY DEF IsMem, Like, IsRec
<1> DEFINE cache == [m.cache EXCEPT ![m.cur] = e]
           yes == TRUE
<1>1. r = SetMarked(m, cache, yes)
  BY <1>0 DEF SetMarked, MarkEntry, IsRec
<1>2. /\ cache = [c \in Slots |-> cache[c]] /\ cache[m.cur] = e
      /\ \A c \in Slots : c # m.cur => cache[c] = m.cache[c]
  BY <1>0
<1> HIDE DEF cache
<1>y. yes
  OBVIOUS
<1> HIDE DEF yes
<1>3. \A c \in Slots : IsEntry(cache[c])
  BY <1>0, <1>2
<1>4. /\ cache[m.cur].adr = Adr(m) /\ cache[m.cur].bucket.bits = Bucket(m).bits
      /\ cache[m.cur].bucket.avail = Bucket(m).avail
  BY <1>2 DEF Like, Adr, Bucket
<1>5. NearlySame(m, r) /\ r.bucket_changed = yes /\ r.cache = cache
  BY <1>1, <1>2, <1>3, <1>4, SetMarkedIs
<1> QED
  BY <1>2, <1>5, <1>y DEF NearlySame

LEMMA BucketWithIs ==
    ASSUME NEW b, NEW elems
    PROVE  IsBucket(BucketWith(b, elems)) /\ BucketWith(b, elems).bits = b.bits
           /\ BucketWith(b, elems).elems = elems
BY DEF BucketWith, IsBucket

LEMMA SetElemIs ==
    ASSUME NEW m, IsMem(m), NEW k, NEW el
    PROVE  SetElem(m, k, el)
           = MarkEntry(m, ChangedElems(m.cache[m.cur], ElemsWith(Bucket(m).elems, k, el)))
<1>0. IsRec(m) /\ m.cur \in Slots /\ IsEntry(m.cache[m.cur]) /\ m.cache = [c \in Slots |-> m.cache[c]]
  BY DEF IsMem, IsRec
<1> QED
  BY <1>0 DEF SetElem, MarkEntry, ChangedElems, ElemsWith, Bucket, IsRec, IsEntry, IsBucket

LEMMA NearlyMarked ==
    ASSUME NEW m, NEW own, NEW B, NEW o, NEW k, Busy(m, own, B, o, k), Marked(m), NEW r, NearlySame(m, r)
    PROVE  Marked(r)
<1>1. Adr(m) # 0
  BY DEF Busy, Cur, Mem, Homes
<1> QED
  BY <1>1 DEF Marked, NearlySame, Adr

LEMMA SpaceMarked ==
    ASSUME NEW m, NEW r, Marked(m), OnlySpace(m, r), m.cur \in Slots
    PROVE  Marked(r)
<1>1. \A c \in Slots : r.cache[c].adr = m.cache[c].adr /\ r.cache[c].changed = m.cache[c].changed
  BY DEF OnlySpace
<1> QED
  BY <1>1 DEF Marked

LEMMA SetElemStores ==
    ASSUME NEW m, NEW own, NEW B, NEW o, NEW k \in Keys, NEW el, Roomy(m, own, B, o, k, el)
    PROVE  \E own2, C : Stored(SetElem(m, k, el), own2, C, o, k, el)
<1> DEFINE A == Adr(m)
           e == m.cache[m.cur]
           elems == ElemsWith(Bucket(m).elems, k, el)
           f == ChangedElems(e, elems)
           r == MarkEntry(m, f)
           D == WithBucket(B, A, BucketWith(B[A], elems))
<1>1. /\ Busy(m, own, B, o, k) /\ m.old = <<>> /\ el \in AvType /\ Marked(m)
      /\ AgreeBut(Bucket(m).elems, B[A].elems, k)
      /\ m.dir[DirIndex(k, m.header.dir_bits)] = Adr(m)
      /\ Owned(own, el.adr, el.size, Held(el.adr)) /\ Safe(m, o, el.adr, el.size)
  BY DEF Roomy
<1>2. IsMem(m) /\ A \in DOMAIN B
  BY <1>1 DEF Busy, Mem, FreeOK, Cur
<1>3. SetElem(m, k, el) = r
  BY <1>2, SetElemIs
<1>4. IsEntry(e) /\ Bucket(m) = e.bucket
  BY <1>2 DEF IsMem, Bucket
<1>5. DOMAIN elems = DOMAIN Bucket(m).elems \cup {k} /\ elems[k] = el
      /\ \A q \in DOMAIN Bucket(m).elems : q # k => elems[q] = Bucket(m).elems[q]
  <2> DEFINE old == Bucket(m).elems
  <2>1. elems = ElemsWith(old, k, el)
    OBVIOUS
  <2> HIDE DEF old, elems, r, D, f, e
  <2>2. DOMAIN elems = DOMAIN old \cup {k} /\ elems[k] = el
        /\ \A q \in DOMAIN old : q # k => elems[q] = old[q]
    BY <2>1 DEF ElemsWith
  <2> QED
    BY <2>2 DEF old
<1> HIDE DEF elems, r, D
<1>6. Like(e, f) /\ f.bucket.elems = elems
  <2> HIDE DEF e
  <2> QED
    BY <1>4, ChangedElemsIs DEF Like
<1> HIDE DEF f
<1>7. NearlySame(m, r) /\ r.cache[m.cur] = f /\ r.cur = m.cur /\ r.bucket_changed
  BY <1>2, <1>6, MarkNearly DEF r
<1> HIDE DEF e
<1>8. el.adr \in Nat /\ el.size \in Nat
  BY <1>1 DEF AvType
<1>9. PICK own2 : Busy(m, own2, B, o, k) /\ Owned(own2, el.adr, el.size, Tag(ARecord, k, Nobody))
  BY <1>1, <1>8, BusyRecord
<1>10. HasRecord(own2, el, k)
  BY <1>1, <1>9 DEF HasRecord
<1>11. DOMAIN D = DOMAIN B /\ D[A] = BucketWith(B[A], elems) /\ \A a \in DOMAIN B : a # A => D[a] = B[a]
  BY <1>2, WithBucketIs DEF D
<1>12. IsBucket(D[A]) /\ D[A].bits = B[A].bits /\ D[A].elems = elems
  BY <1>11, BucketWithIs
<1>13. MoreElems(B, D, A, k, el)
  BY <1>5, <1>12, <1>1, <1>2, <1>11 DEF AgreeBut, MoreElems
<1>14. Busy(m, own2, D, o, k)
  BY <1>1, <1>9, <1>10, <1>13, BusyMore
<1>15. Busy(r, own2, D, o, k)
  BY <1>7, <1>14, BusyNearly
<1>16. r.old = <<>> /\ Adr(r) = A /\ r.popped = m.popped
  BY <1>1, <1>7 DEF NearlySame
<1>17. Bucket(r).elems = D[A].elems
  BY <1>6, <1>7, <1>12 DEF Bucket
<1>m. Marked(r)
  BY <1>1, <1>7, <1>14, NearlyMarked
<1>18. PICK C : Commit(r, own2, C, o, k) /\ C[A].elems = D[A].elems
  BY <1>7, <1>15, <1>16, <1>17, <1>m, BusyDone
<1>19. Safe(r, o, el.adr, el.size)
  BY <1>1, <1>16 DEF Safe
<1>20. Stored(r, own2, C, o, k, el)
  BY <1>5, <1>7, <1>10, <1>12, <1>16, <1>18, <1>19 DEF Stored
<1> QED
  BY <1>3, <1>20

LEMMA ForgetDataIs ==
    ASSUME NEW m, IsMem(m)
    PROVE  ForgetData(m) = ForgetEntry(m)
<1>0. IsRec(m) /\ m.cur \in Slots /\ IsEntry(m.cache[m.cur]) /\ m.cache = [c \in Slots |-> m.cache[c]]
  BY DEF IsMem, IsRec
<1> QED
  BY <1>0 DEF ForgetData, ForgetEntry, MarkEntry, WithData, IsRec, IsEntry

LEMMA RemoveElemIs ==
    ASSUME NEW m, IsMem(m), NEW k
    PROVE  RemoveElem(m, k) = Free(WithoutKey(m, k), Bucket(m).elems[k].adr, Bucket(m).elems[k].size)
<1> DEFINE g == [m EXCEPT !.cache[m.cur].bucket.elems = [q \in DOMAIN Bucket(m).elems \ {k} |-> Bucket(m).elems[q]]]
<1>0. IsRec(m) /\ m.cur \in Slots /\ IsEntry(m.cache[m.cur]) /\ m.cache = [c \in Slots |-> m.cache[c]]
  BY DEF IsMem, IsRec
<1>1. g = WithoutKey(m, k)
  BY <1>0 DEF WithoutKey, SetEntry, WithElems, ElemsWithout, IsRec, IsEntry, IsBucket
<1> QED
  BY <1>1 DEF RemoveElem

LEMMA DeleteCommits ==
    ASSUME NEW m, NEW own, NEW B, Clean(m, own, B), NEW k \in Keys,
           NEW g, g = FindKey(m, k), k \in DOMAIN Bucket(g).elems
    PROVE  /\ \E own2, C, o : Commit(ForgetData(RemoveElem(g, k)), own2, C, o, 0)
           /\ ForgetData(RemoveElem(g, k)).open = m.open
           /\ LET r == ForgetData(RemoveElem(g, k))
              IN r.dir[DirIndex(k, r.header.dir_bits)] = Adr(r) /\ k \notin DOMAIN Bucket(r).elems
<1> DEFINE A == Adr(g)
           i == DirIndex(k, m.header.dir_bits)
<1>1. Fetched(m, own, B, i, g)
  BY FindKeyClean
<1>2. /\ Clean(g, own, B) /\ g.bucket_dir = i /\ A = g.dir[i] /\ A \in DOMAIN B /\ Bucket(g) = B[A]
      /\ g.header = m.header /\ g.old = <<>> /\ g.open = m.open
  BY <1>1 DEF Fetched, SameFile, Clean, Settled
<1>3. i \in Entries(g.header.dir_bits)
  <2>1. m.header.dir_bits \in 0 .. HashBits /\ BitConsts
    BY <1>2, BitConsts DEF Clean, Mem, DirOK, DirShape
  <2>2. Two[m.header.dir_bits] \in Nat /\ i \in Nat /\ i < Two[m.header.dir_bits]
    BY <2>1, TwoPos, IndexIs
  <2> QED
    BY <1>2, <2>2 DEF Entries
<1> HIDE DEF i
<1>4. PICK o : LayoutOf(o, g, own, B)
  BY LayoutExists
<1>5. Busy(g, own, B, o, k) /\ Busy(g, own, B, o, 0) /\ o.own = own
  BY <1>2, <1>3, <1>4, BeginBusy DEF LayoutOf
<1> DEFINE el == B[A].elems[k]
           C == KeyOut(B, A, k)
           g1 == WithoutKey(g, k)
<1>6. Unwanted(g, own, C, o, el.adr, el.size)
  BY <1>2, <1>5, RecordUnwanted
<1>7. LessElems(B, C, A) /\ C[A].elems = ElemsWithout(B[A].elems, k)
  BY <1>2, KeyOutIs
<1>8. IsMem(g)
  BY <1>2 DEF Clean, Mem, FreeOK
<1>9. RemoveElem(g, k) = Free(g1, el.adr, el.size)
  BY <1>2, <1>8, RemoveElemIs
<1>10. NearlySame(g, g1) /\ Bucket(g1).elems = ElemsWithout(B[A].elems, k)
  <2> DEFINE e == g.cache[g.cur]
             elems == ElemsWithout(Bucket(g).elems, k)
             f == WithElems(e, elems)
  <2>1. IsEntry(e)
    BY <1>8 DEF IsMem
  <2>2. g1 = SetEntry(g, g.cur, f)
    BY DEF WithoutKey
  <2> HIDE DEF elems
  <2>3. Like(e, f) /\ f.bucket.elems = elems
    <3> HIDE DEF e
    <3> QED
      BY <2>1, WithElemsIs DEF Like
  <2> HIDE DEF f, g1
  <2>4. NearlySame(g, g1) /\ g1.cache[g.cur] = f /\ g1.cur = g.cur
    BY <1>8, <2>2, <2>3, EntryNearly
  <2> QED
    BY <1>2, <2>3, <2>4 DEF Bucket, elems
<1> HIDE DEF g1, C, el
<1>11. Busy(g1, own, C, o, 0) /\ Adr(g1) = A
  BY <1>5, <1>7, BusyLess, <1>10, BusyNearly DEF NearlySame
<1>12. Unwanted(g1, own, C, o, el.adr, el.size)
  BY <1>10, <1>6, <1>11 DEF NearlySame, Unwanted, Safe
<1> DEFINE h == Free(g1, el.adr, el.size)
<1>13. PICK own2 : BusyStep(g1, own, C, o, 0, h, own2)
  BY <1>11, <1>12, BusyFree
<1> HIDE DEF h
<1>14. Busy(h, own2, C, o, 0) /\ OnlySpace(g1, h) /\ Adr(h) = A /\ IsMem(h)
  BY <1>11, <1>13 DEF BusyStep, OnlySpace
<1>15. Bucket(h).elems = C[A].elems /\ h.old = <<>>
  BY <1>2, <1>7, <1>10, <1>14 DEF OnlySpace, Rest, NearlySame
<1> DEFINE r == ForgetEntry(h)
<1>16. NearlySame(h, r) /\ r.bucket_changed /\ Bucket(r).elems = Bucket(h).elems
  <2> DEFINE e == h.cache[h.cur]
             f == WithData(e, NoData)
  <2>1. IsEntry(e) /\ Bucket(h) = e.bucket
    BY <1>14 DEF IsMem, Bucket
  <2>2. r = MarkEntry(h, f)
    BY DEF ForgetEntry
  <2>3. Like(e, f) /\ f.bucket = e.bucket
    <3> HIDE DEF e
    <3> QED
      BY <2>1, WithDataIs DEF Like
  <2> HIDE DEF f, r
  <2>4. NearlySame(h, r) /\ r.cache[h.cur] = f /\ r.cur = h.cur /\ r.bucket_changed
    BY <1>14, <2>2, <2>3, MarkNearly
  <2> QED
    BY <2>1, <2>3, <2>4 DEF Bucket
<1>17. ForgetData(RemoveElem(g, k)) = r
  BY <1>9, <1>14, ForgetDataIs DEF h
<1> HIDE DEF r
<1>18. Busy(r, own2, C, o, 0) /\ Adr(r) = A /\ r.old = <<>>
  BY <1>14, <1>15, <1>16, BusyNearly DEF NearlySame
<1>m. Marked(r)
  <2>1. Marked(g)
    BY <1>2 DEF Clean, Unchanged, Marked
  <2>2. Marked(g1) /\ g1.cur \in Slots
    BY <1>5, <1>10, <2>1, NearlyMarked DEF NearlySame, IsMem
  <2>3. Marked(h)
    BY <1>14, <2>2, SpaceMarked
  <2> QED
    BY <1>14, <1>16, <2>3, NearlyMarked
<1>n. r.open = m.open
  BY <1>2, <1>10, <1>14, <1>16 DEF NearlySame, OnlySpace, Rest
<1>19. \E D : Commit(r, own2, D, o, 0)
  BY <1>15, <1>16, <1>18, <1>m, BusyDone
<1>20. k \notin DOMAIN Bucket(r).elems
  BY <1>7, <1>15, <1>16 DEF ElemsWithout
<1>21. r.dir = g.dir /\ r.header.dir_bits = m.header.dir_bits
  BY <1>2, <1>10, <1>14, <1>16 DEF NearlySame, OnlySpace, Rest
<1>22. r.dir[DirIndex(k, r.header.dir_bits)] = Adr(r)
  BY <1>2, <1>18, <1>21 DEF i
<1> QED
  BY <1>16, <1>17, <1>n, <1>19, <1>20, <1>22

-----------------------------------------------------------------------------
(* A write to a region with one owner.                                     *)

LEMMA PutOnly ==
    ASSUME NEW d, NEW own, NEW a \in Nat, NEW n \in Nat, NEW t, Owned(own, a, n, t), NEW obj
    PROVE  WroteOnly(d, Put(d, a, n, obj), own, t) /\ Holds(Put(d, a, n, obj), a, n, obj)
<1> DEFINE e == Put(d, a, n, obj)
<1>1. Holds(e, a, n, obj) /\ \A u : u \notin Span(a, n) => SameAt(d, e, u)
  BY PutHolds
<1> HIDE DEF e
<1>2. \A u \in Nat : own[u] # t => SameAt(d, e, u)
  BY <1>1 DEF Owned
<1>3. Grown(d, e)
  BY <1>1 DEF Grown, Holds, SameAt
<1> QED
  BY <1>1, <1>2, <1>3 DEF WroteOnly, e

LEMMA HoldsApart ==
    ASSUME NEW d, NEW e, NEW own, NEW t, WroteOnly(d, e, own, t),
           NEW a \in Nat, NEW n \in Nat, NEW s, Owned(own, a, n, s), s # t, NEW obj, Holds(d, a, n, obj)
    PROVE  Holds(e, a, n, obj)
BY SpanNat, HoldsKept DEF WroteOnly, Owned

LEMMA StackApart ==
    ASSUME NEW d, NEW e, NEW own, NEW t, WroteOnly(d, e, own, t), t[1] # AvailBlock,
           NEW h, \E S : Stack(d, h, S, own)
    PROVE  \E S : Stack(e, h, S, own)
BY StackKept DEF WroteOnly

LEMMA MemWritten ==
    ASSUME NEW m, NEW own, NEW B, NEW x, NEW y, NEW k, Mem(m, own, B, x, y, k),
           NEW r, OnlyFile(m, r), NEW t, WroteOnly(m.disk, r.disk, own, t), t[1] # AvailBlock,
           NEW q, NEW z, Marks(r, B, z, q)
    PROVE  Mem(r, own, B, x, z, q) /\ Adr(r) = Adr(m) /\ Bucket(r) = Bucket(m)
<1>1. FreeOK(m, own) /\ IsMem(m) /\ m.cur \in Slots
  BY DEF Mem, FreeOK, IsMem
<1>2. Adr(r) = Adr(m) /\ Bucket(r) = Bucket(m)
  BY <1>1 DEF OnlyFile, Adr, Bucket
<1>3. \E S : Stack(r.disk, r.header.av_next, S, own)
  BY <1>1, StackApart DEF FreeOK, OnlyFile
<1>4. FreeOK(r, own)
  BY <1>1, <1>2, <1>3 DEF FreeOK, OnlyFile
<1>5. Cached(r, B, x)
  BY DEF Mem, Cached, OnlyFile
<1>6. DirOK(r.dir, r.header.dir_bits, B) /\ Homes(own, r.header, B) /\ Tables(own, B, x)
  BY DEF Mem, OnlyFile
<1> QED
  BY <1>2, <1>4, <1>5, <1>6 DEF Mem, Marks

LEMMA HeaderStays ==
    ASSUME NEW m, NEW r, NEW own, NEW B, Homes(own, m.header, B), NEW t, WroteOnly(m.disk, r.disk, own, t),
           t # Tag(TheHeader, Nobody, Nobody), HeaderOn(m), r.header = m.header,
           m.header_changed => r.header_changed
    PROVE  HeaderOn(r)
BY Consts, HoldsApart DEF Homes, HeaderOn

LEMMA DirStays ==
    ASSUME NEW m, NEW r, NEW own, NEW B, Homes(own, m.header, B), NEW t, WroteOnly(m.disk, r.disk, own, t),
           t # Tag(TheDir, Nobody, Nobody), DirOn(m), r.header = m.header, r.dir = m.dir, r.old = m.old,
           m.directory_changed => r.directory_changed, m.header.dir_bits \in InitBits .. HashBits
    PROVE  DirOn(r)
<1> DEFINE a == m.header.dir
           n == DirSize(m.header.dir_bits)
<1>1. Owned(own, a, n, Tag(TheDir, Nobody, Nobody)) /\ a \in Nat /\ n \in Nat
  BY DirSizeNat DEF Homes
<1> HIDE DEF a, n
<1>2. Holds(m.disk, a, n, DirObject(m.dir)) => Holds(r.disk, a, n, DirObject(m.dir))
  BY <1>1, HoldsApart
<1> QED
  BY <1>2 DEF DirOn, a, n

LEMMA BucketStays ==
    ASSUME NEW d, NEW e, NEW own, NEW h, NEW B, Homes(own, h, B), NEW t, WroteOnly(d, e, own, t),
           NEW a \in DOMAIN B, t # Tag(ABucket, Nobody, a), NEW b, Holds(d, a, block_size, BucketObj(b))
    PROVE  Holds(e, a, block_size, BucketObj(b))
BY Consts, HoldsApart DEF Homes

LEMMA DataStays ==
    ASSUME NEW d, NEW e, NEW own, NEW h, NEW B, Homes(own, h, B), NEW t, WroteOnly(d, e, own, t),
           NEW a \in DOMAIN B, \A q \in DOMAIN B[a].elems : t # Tag(ARecord, q, Nobody),
           NEW data, DataFits(d, B[a], data)
    PROVE  DataFits(e, B[a], data)
<1>1. CASE data = NoData
  BY <1>1 DEF DataFits
<1>2. CASE data # NoData
  <2>1. PICK q \in DOMAIN B[a].elems : InFile(d, B[a].elems[q]) /\ data = DataOf(d, B[a].elems[q], q)
    BY <1>2 DEF DataFits
  <2> DEFINE el == B[a].elems[q]
             s == Tag(ARecord, q, Nobody)
  <2>2. el \in AvType /\ Owned(own, el.adr, el.size, s) /\ t # s
    BY <2>1 DEF Homes, HasRecord
  <2> HIDE DEF el, s
  <2>3. \A u \in Span(el.adr, el.size) : SameAt(d, e, u)
    BY <2>2, SpanNat DEF AvType, WroteOnly, Owned
  <2>4. InFile(e, el) /\ DataOf(e, el, q) = DataOf(d, el, q)
    BY <2>1, <2>2, <2>3, RecordKept DEF el
  <2> QED
    BY <2>1, <2>4 DEF DataFits, el
<1> QED
  BY <1>1, <1>2

LEMMA OldPut ==
    ASSUME NEW m, NEW r, NEW o, OldFile(m, o), NEW a \in Nat, NEW n \in Nat, Safe(m, o, a, n),
           NEW obj, obj[1] # "dir", r.disk = Put(m.disk, a, n, obj), r.popped = m.popped
    PROVE  OldFile(r, o)
<1>1. CASE m.popped
  BY <1>1 DEF OldFile
<1>2. CASE ~m.popped
  <2> DEFINE e == Put(m.disk, a, n, obj)
  <2>1. OldOK(m.disk, o) /\ \A u \in Span(a, n) : ~Prot(o.own[u])
    BY <1>2 DEF OldFile, Safe
  <2>2. \A u : u \notin Span(a, n) => SameAt(m.disk, e, u)
    BY PutHolds
  <2>3. \A u : Wrote(m.disk, e, u)
    BY PutWrote
  <2> HIDE DEF e
  <2>4. OldOK(e, o)
    BY <2>1, <2>2, <2>3, OldKept
  <2> QED
    BY <2>4 DEF OldFile, e
<1> QED
  BY <1>1, <1>2

LEMMA FlushedIs ==
    ASSUME NEW e, IsEntry(e), NEW f, f = Flushed(e)
    PROVE  IsEntry(f) /\ f.adr = e.adr /\ f.bucket = e.bucket /\ ~f.changed /\ f.data = NoData
<1> DEFINE no == FALSE
           nd == NoData
<1>1. f = [adr |-> e.adr, bucket |-> e.bucket, changed |-> no, data |-> nd]
  BY DEF Flushed, IsEntry
<1>2. ~no
  OBVIOUS
<1> HIDE DEF no, nd
<1>3. f.adr = e.adr /\ f.bucket = e.bucket /\ f.changed = no /\ f.data = nd
  BY <1>1
<1> QED
  BY <1>1, <1>2, <1>3 DEF IsEntry, nd

LEMMA SetWrittenIs ==
    ASSUME NEW m, IsMem(m), NEW c \in Slots, NEW d, NEW bc, NEW r, r = SetWritten(m, c, d, bc)
    PROVE  /\ OnlyFile(m, r) /\ r.disk = d /\ r.bucket_changed = bc
           /\ ~r.cache[c].changed /\ r.cache[c].data = NoData
           /\ \A e \in Slots : e # c => r.cache[e] = m.cache[e]
           /\ r.last_read = m.last_read /\ r.header_changed = m.header_changed
           /\ r.directory_changed = m.directory_changed /\ r.second_changed = m.second_changed
           /\ r.popped = m.popped
<1>0. IsRec(m) /\ m.cur \in Slots /\ IsHeader(m.header) /\ m.cache = [e \in Slots |-> m.cache[e]]
      /\ \A e \in Slots : IsEntry(m.cache[e])
  BY DEF IsMem, IsRec
<1> DEFINE f == Flushed(m.cache[c])
           cache == [m.cache EXCEPT ![c] = f]
<1>1. IsEntry(f) /\ f.adr = m.cache[c].adr /\ f.bucket = m.cache[c].bucket
      /\ ~f.changed /\ f.data = NoData
  BY <1>0, FlushedIs
<1>2. r = [m EXCEPT !.disk = d, !.cache = cache, !.bucket_changed = bc]
  BY <1>0 DEF SetWritten, Flushed, IsRec
<1> HIDE DEF f
<1>3. cache = [e \in Slots |-> cache[e]] /\ cache[c] = f /\ \A e \in Slots : e # c => cache[e] = m.cache[e]
  BY <1>0
<1> HIDE DEF cache
<1>4. /\ IsRec(r) /\ r.open = m.open /\ r.disk = d /\ r.header = m.header /\ r.dir = m.dir
      /\ r.bucket_dir = m.bucket_dir /\ r.cur = m.cur /\ r.last_read = m.last_read
      /\ r.cache = cache /\ r.old = m.old /\ r.header_changed = m.header_changed
      /\ r.directory_changed = m.directory_changed /\ r.bucket_changed = bc
      /\ r.second_changed = m.second_changed /\ r.popped = m.popped
  BY <1>0, <1>2 DEF IsRec
<1>5. \A e \in Slots : IsEntry(r.cache[e]) /\ r.cache[e].adr = m.cache[e].adr /\ r.cache[e].bucket = m.cache[e].bucket
  BY <1>0, <1>1, <1>3, <1>4
<1>6. IsMem(r)
  BY <1>0, <1>3, <1>4, <1>5 DEF IsMem, IsRec
<1> QED
  BY <1>1, <1>3, <1>4, <1>5, <1>6 DEF OnlyFile

LEMMA WriteBucketIs ==
    ASSUME NEW m, IsMem(m), NEW c \in Slots
    PROVE  LET d == Put(m.disk, m.cache[c].adr, block_size, BucketObj(m.cache[c].bucket))
           IN /\ WriteBucket(m, c) = SetWritten(m, c, d, m.bucket_changed)
              /\ [WriteBucket(m, c) EXCEPT !.bucket_changed = FALSE] = SetWritten(m, c, d, FALSE)
<1>0. IsRec(m) /\ m.cache = [e \in Slots |-> m.cache[e]] /\ IsEntry(m.cache[c])
  BY DEF IsMem, IsRec
<1> DEFINE d == Put(m.disk, m.cache[c].adr, block_size, BucketObj(m.cache[c].bucket))
<1>1. WriteBucket(m, c) = [m EXCEPT !.disk = d, !.cache[c].changed = FALSE, !.cache[c].data = NoData]
  BY DEF WriteBucket, BucketObj
<1> HIDE DEF d
<1>2. [m EXCEPT !.disk = d, !.cache[c].changed = FALSE, !.cache[c].data = NoData]
      = SetWritten(m, c, d, m.bucket_changed)
  BY <1>0 DEF SetWritten, IsRec
<1>3. [[m EXCEPT !.disk = d, !.cache[c].changed = FALSE, !.cache[c].data = NoData] EXCEPT !.bucket_changed = FALSE]
      = SetWritten(m, c, d, FALSE)
  BY <1>0 DEF SetWritten, IsRec
<1> QED
  BY <1>1, <1>2, <1>3 DEF d

LEMMA FlushWrites ==
    ASSUME NEW m, NEW own, NEW B, NEW x, NEW k, Mem(m, own, B, x, Adr(m), k),
           NEW c, NEW bc, NEW r, Flush(m, c, bc, r), m.cache[c].adr # 0, m.cache[c].adr # x
    PROVE  /\ Mem(r, own, B, x, Adr(r), k) /\ OnlyFile(m, r) /\ Adr(r) = Adr(m) /\ Bucket(r) = Bucket(m)
           /\ Holds(r.disk, m.cache[c].adr, block_size, BucketObj(m.cache[c].bucket))
           /\ m.cache[c].adr \in DOMAIN B /\ m.cache[c].adr \in Nat
<1> DEFINE a == m.cache[c].adr
           b == m.cache[c].bucket
           d == Put(m.disk, a, block_size, BucketObj(b))
           t == Tag(ABucket, Nobody, a)
           y == Adr(m)
<1>1. c \in Slots /\ IsMem(m) /\ r = SetWritten(m, c, d, bc)
  BY DEF Flush, Mem, FreeOK
<1>2. a \in DOMAIN B /\ b = B[a]
  BY <1>1 DEF Mem, Cached
<1>3. Homes(own, m.header, B) /\ m.header.dir_bits \in InitBits .. HashBits
  BY DEF Mem, DirOK, DirShape
<1>4. a \in Nat /\ Owned(own, a, block_size, t) /\ block_size \in Nat
  BY <1>2, <1>3, Consts DEF Homes
<1> HIDE DEF b
<1>5. WroteOnly(m.disk, d, own, t) /\ Holds(d, a, block_size, BucketObj(b))
  BY <1>4, PutOnly
<1> HIDE DEF d
<1>6. /\ OnlyFile(m, r) /\ r.disk = d /\ r.bucket_changed = bc
      /\ ~r.cache[c].changed /\ r.cache[c].data = NoData
      /\ \A e \in Slots : e # c => r.cache[e] = m.cache[e]
      /\ r.last_read = m.last_read /\ r.header_changed = m.header_changed
      /\ r.directory_changed = m.directory_changed /\ r.second_changed = m.second_changed
      /\ r.popped = m.popped
  BY <1>1, SetWrittenIs
<1>7. t # Tag(TheHeader, Nobody, Nobody) /\ t # Tag(TheDir, Nobody, Nobody) /\ t[1] # AvailBlock
      /\ (\A q : t # Tag(ARecord, q, Nobody)) /\ \A z : z # a => t # Tag(ABucket, Nobody, z)
  BY TagIs, Kinds
<1> HIDE DEF t
<1>o. r.header = m.header /\ r.dir = m.dir /\ r.old = m.old /\ r.cur = m.cur
      /\ \A e \in Slots : r.cache[e].adr = m.cache[e].adr
  BY <1>6 DEF OnlyFile
<1>8. HeaderOn(r)
  BY <1>5, <1>6, <1>3, <1>7, <1>o, HeaderStays DEF Mem
<1>9. DirOn(r)
  BY <1>5, <1>6, <1>3, <1>7, <1>o, DirStays DEF Mem
<1> HIDE DEF y
<1>10. BucketsOn(r, B, y)
  <2> SUFFICES ASSUME NEW z \in DOMAIN B, z # y PROVE BucketOn(r, z, B[z])
    BY DEF BucketsOn
  <2>1. CASE z = a
    BY <1>2, <1>5, <1>6, <2>1 DEF BucketOn
  <2>2. CASE z # a
    <3>1. BucketOn(m, z, B[z])
      BY DEF Mem, BucketsOn, y
    <3>2. CASE Pending(m, z)
      BY <3>2, <2>2, <1>6 DEF Pending, BucketOn
    <3>3. CASE Holds(m.disk, z, block_size, BucketObj(B[z]))
      <4> DEFINE bz == B[z]
      <4>1. t # Tag(ABucket, Nobody, z) /\ Holds(m.disk, z, block_size, BucketObj(bz))
        BY <1>7, <2>2, <3>3
      <4> HIDE DEF bz
      <4>2. Holds(d, z, block_size, BucketObj(bz))
        BY <1>3, <1>5, <4>1, BucketStays
      <4> QED
        BY <1>6, <4>2 DEF BucketOn, bz
    <3> QED
      BY <3>1, <3>2, <3>3 DEF BucketOn
  <2> QED
    BY <2>1, <2>2
<1>11. DataOK(r, B, y)
  <2> SUFFICES ASSUME NEW e \in Slots, r.cache[e].adr # 0, r.cache[e].adr # y, ~r.cache[e].changed
               PROVE  DataFits(r.disk, B[r.cache[e].adr], r.cache[e].data)
    BY DEF DataOK
  <2>1. CASE e = c
    BY <1>6, <2>1 DEF DataFits
  <2>2. CASE e # c
    <3> DEFINE z == m.cache[e].adr
               data == m.cache[e].data
    <3>1. r.cache[e] = m.cache[e]
      BY <1>6, <2>2
    <3>2. z \in DOMAIN B /\ DataFits(m.disk, B[z], data)
      BY <3>1 DEF Mem, Cached, DataOK, y
    <3> HIDE DEF z, data
    <3>3. DataFits(d, B[z], data)
      BY <1>3, <1>5, <1>7, <3>2, DataStays
    <3> QED
      BY <1>6, <3>1, <3>3 DEF z, data
  <2> QED
    BY <2>1, <2>2
<1>12. RecordsIn(r.disk, B, k)
  BY <1>5, <1>6, <1>3, RecordsKept DEF Mem, WroteOnly
<1>13. FlagsOK(r)
  BY <1>6, <1>o DEF Mem, FlagsOK
<1>14. Marks(r, B, y, k)
  BY <1>8, <1>9, <1>10, <1>11, <1>12, <1>13 DEF Marks
<1>15. Mem(r, own, B, x, y, k) /\ Adr(r) = Adr(m) /\ Bucket(r) = Bucket(m)
  BY <1>5, <1>6, <1>7, <1>14, MemWritten DEF y
<1> QED
  BY <1>2, <1>4, <1>5, <1>6, <1>15 DEF y, b

-----------------------------------------------------------------------------
(* The writes that end an update.                                          *)

LEMMA CommitParts ==
    ASSUME NEW m, NEW own, NEW B, NEW o, NEW k, Commit(m, own, B, o, k)
    PROVE  /\ IsMem(m) /\ m.cur \in Slots /\ Adr(m) \in DOMAIN B /\ Adr(m) # 0 /\ Adr(m) \in Nat
           /\ Bucket(m) = B[Adr(m)] /\ Adr(m) = m.cache[m.cur].adr
           /\ Homes(own, m.header, B) /\ m.header.dir_bits \in InitBits .. HashBits
           /\ Cached(m, B, 0) /\ FlagsOK(m)
<1>1. Mem(m, own, B, 0, Adr(m), k) /\ Adr(m) \in DOMAIN B
  BY DEF Commit
<1>2. IsMem(m) /\ m.cur \in Slots /\ Adr(m) = m.cache[m.cur].adr /\ Bucket(m) = m.cache[m.cur].bucket
  BY <1>1 DEF Mem, FreeOK, IsMem, Adr, Bucket
<1>3. Homes(own, m.header, B) /\ m.header.dir_bits \in InitBits .. HashBits
      /\ Cached(m, B, 0) /\ FlagsOK(m)
  BY <1>1 DEF Mem, DirOK, DirShape
<1>4. Adr(m) # 0 /\ Adr(m) \in Nat
  BY <1>1, <1>3 DEF Homes
<1>5. Bucket(m) = B[Adr(m)]
  BY <1>2, <1>3, <1>4 DEF Cached
<1> QED
  BY <1>1, <1>2, <1>3, <1>4, <1>5

(* What is still to be written keeps its place.                            *)
LEMMA NewSafeKept ==
    ASSUME NEW m, NEW r, NEW o, NewSafe(m, o), OnlyFile(m, r), m.cur \in Slots, m.popped => r.popped,
           r.directory_changed => m.directory_changed,
           \A c \in Slots : c # m.cur /\ r.cache[c].changed => m.cache[c].changed
    PROVE  NewSafe(r, o)
BY DEF OnlyFile, Adr, Safe, NewSafe

LEMMA CommitBucket ==
    ASSUME NEW m, NEW own, NEW B, NEW o, NEW k, Commit(m, own, B, o, k), m.bucket_changed,
           NEW no, ~no, NEW r, Flush(m, m.cur, no, r)
    PROVE  Commit(r, own, B, o, k) /\ ~r.bucket_changed
<1> DEFINE a == Adr(m)
           d == Put(m.disk, a, block_size, BucketObj(Bucket(m)))
<1>1. /\ IsMem(m) /\ m.cur \in Slots /\ a \in DOMAIN B /\ a # 0 /\ a \in Nat
      /\ a = m.cache[m.cur].adr /\ Bucket(m) = m.cache[m.cur].bucket
      /\ Mem(m, own, B, 0, a, k) /\ m.old = <<>> /\ Marked(m)
  BY CommitParts DEF Commit, Bucket
<1>2. r = SetWritten(m, m.cur, d, no)
  BY <1>1 DEF Flush
<1> HIDE DEF d
<1>4. /\ OnlyFile(m, r) /\ r.disk = d /\ r.bucket_changed = no
      /\ ~r.cache[m.cur].changed /\ r.cache[m.cur].data = NoData
      /\ \A e \in Slots : e # m.cur => r.cache[e] = m.cache[e]
      /\ r.header_changed = m.header_changed
      /\ r.directory_changed = m.directory_changed /\ r.popped = m.popped
  BY <1>1, <1>2, SetWrittenIs
<1> HIDE DEF a
<1>5. Mem(r, own, B, 0, Adr(r), k) /\ Adr(r) = a /\ Bucket(r) = Bucket(m)
      /\ Holds(r.disk, a, block_size, BucketObj(Bucket(m)))
  BY <1>1, FlushWrites DEF a
<1>6. CurOn(r)
  BY <1>4, <1>5 DEF CurOn, OnlyFile
<1>7. r.old = <<>> /\ Marked(r)
  BY <1>1, <1>4 DEF OnlyFile, Marked
<1>8. ASSUME Early(r) PROVE OldFile(r, o) /\ NewSafe(r, o)
  <2>1. m.directory_changed /\ Early(m)
    BY <1>4, <1>8 DEF Early
  <2>2. OldFile(m, o) /\ NewSafe(m, o)
    BY <2>1 DEF Commit
  <2>3. Safe(m, o, a, block_size) /\ block_size \in Nat
    BY <2>1, <2>2, Consts DEF NewSafe, a
  <2>4. OldFile(r, o)
    <3> DEFINE obj == BucketObj(Bucket(m))
    <3>1. obj[1] # "dir"
      BY DEF BucketObj
    <3>2. r.disk = Put(m.disk, a, block_size, obj)
      BY <1>4 DEF d, a
    <3> HIDE DEF obj
    <3> QED
      BY <1>1, <1>4, <2>2, <2>3, <3>1, <3>2, OldPut
  <2>5. NewSafe(r, o)
    BY <1>1, <1>4, <2>2, NewSafeKept
  <2> QED
    BY <2>4, <2>5
<1> QED
  BY <1>1, <1>4, <1>5, <1>6, <1>7, <1>8 DEF Commit

LEMMA CommitOther ==
    ASSUME NEW m, NEW own, NEW B, NEW o, NEW k, Commit(m, own, B, o, k), ~m.bucket_changed,
           NEW c \in Slots, m.cache[c].changed, NEW r, r = WriteBucket(m, c)
    PROVE  Commit(r, own, B, o, k) /\ ~r.bucket_changed
<1> DEFINE a == m.cache[c].adr
           b == m.cache[c].bucket
           d == Put(m.disk, a, block_size, BucketObj(b))
<1>1. /\ IsMem(m) /\ m.cur \in Slots /\ Adr(m) \in DOMAIN B
      /\ Mem(m, own, B, 0, Adr(m), k) /\ m.old = <<>> /\ Marked(m) /\ CurOn(m) /\ Cached(m, B, 0) /\ FlagsOK(m)
  BY CommitParts DEF Commit
<1>2. c # m.cur /\ a # 0
  BY <1>1 DEF CurOn, Marked
<1>a. a # Adr(m)
  BY <1>1, <1>2 DEF Cached, Adr
<1>3. r = SetWritten(m, c, d, m.bucket_changed)
  BY <1>1, WriteBucketIs
<1>4. Flush(m, c, m.bucket_changed, r)
  BY <1>3 DEF Flush
<1> HIDE DEF d
<1>5. /\ OnlyFile(m, r) /\ r.disk = d /\ r.bucket_changed = m.bucket_changed
      /\ ~r.cache[c].changed /\ r.cache[c].data = NoData
      /\ \A e \in Slots : e # c => r.cache[e] = m.cache[e]
      /\ r.header_changed = m.header_changed
      /\ r.directory_changed = m.directory_changed /\ r.popped = m.popped
  BY <1>1, <1>3, SetWrittenIs
<1>6. Mem(r, own, B, 0, Adr(r), k) /\ Adr(r) = Adr(m) /\ Bucket(r) = Bucket(m)
      /\ a \in DOMAIN B /\ a \in Nat
  BY <1>1, <1>2, <1>4, FlushWrites
<1>7. CurOn(r)
  <2>1. Holds(m.disk, Adr(m), block_size, BucketObj(Bucket(m))) /\ r.cache[m.cur] = m.cache[m.cur] /\ r.cur = m.cur
    BY <1>1, <1>2, <1>5 DEF CurOn, OnlyFile
  <2>2. Owned(own, a, block_size, Tag(ABucket, Nobody, a)) /\ block_size \in Nat /\ Homes(own, m.header, B)
    BY <1>1, <1>6, Consts DEF Mem, Homes
  <2>3. WroteOnly(m.disk, d, own, Tag(ABucket, Nobody, a))
    <3> HIDE DEF b, a
    <3> QED
      BY <1>6, <2>2, PutOnly DEF d
  <2>4. Tag(ABucket, Nobody, a) # Tag(ABucket, Nobody, Adr(m))
    BY <1>a, TagIs
  <2>5. Holds(d, Adr(m), block_size, BucketObj(Bucket(m)))
    <3> DEFINE t == Tag(ABucket, Nobody, a)
               bm == Bucket(m)
               am == Adr(m)
    <3>1. WroteOnly(m.disk, d, own, t) /\ t # Tag(ABucket, Nobody, am)
          /\ Holds(m.disk, am, block_size, BucketObj(bm)) /\ am \in DOMAIN B
      BY <1>1, <2>1, <2>3, <2>4
    <3> HIDE DEF t, bm, am
    <3>2. Holds(d, am, block_size, BucketObj(bm))
      BY <2>2, <3>1, BucketStays
    <3> QED
      BY <3>2 DEF am, bm
  <2> QED
    BY <1>1, <1>5, <1>6, <2>1, <2>5 DEF CurOn
<1>8. r.old = <<>> /\ Marked(r)
  BY <1>1, <1>5 DEF OnlyFile, Marked
<1>9. ASSUME Early(r) PROVE OldFile(r, o) /\ NewSafe(r, o)
  <2>1. Early(m)
    BY <1>5, <1>9 DEF Early
  <2>2. OldFile(m, o) /\ NewSafe(m, o)
    BY <2>1 DEF Commit
  <2>3. Safe(m, o, a, block_size) /\ block_size \in Nat
    BY <1>2, <2>2, Consts DEF NewSafe
  <2>4. OldFile(r, o)
    <3> DEFINE obj == BucketObj(b)
    <3>1. obj[1] # "dir"
      BY DEF BucketObj
    <3>2. r.disk = Put(m.disk, a, block_size, obj)
      BY <1>5 DEF d
    <3> HIDE DEF obj, a
    <3> QED
      BY <1>5, <1>6, <2>2, <2>3, <3>1, <3>2, OldPut
  <2>5. NewSafe(r, o)
    BY <1>5, <1>1, <2>2, NewSafeKept
  <2> QED
    BY <2>4, <2>5
<1> QED
  BY <1>1, <1>5, <1>6, <1>7, <1>8, <1>9 DEF Commit

LEMMA RewrittenIs ==
    ASSUME NEW m, IsMem(m), NEW d, NEW hc, NEW dc, NEW sc, NEW p, NEW r, r = Rewritten(m, d, hc, dc, sc, p)
    PROVE  /\ OnlyFile(m, r) /\ r.disk = d /\ r.bucket_changed = m.bucket_changed
           /\ r.cache = m.cache /\ r.last_read = m.last_read /\ r.cur = m.cur
           /\ r.header_changed = hc /\ r.directory_changed = dc /\ r.second_changed = sc /\ r.popped = p
BY DEF IsMem, IsRec, Rewritten, OnlyFile

(* What a rewrite of one region leaves as it is.                           *)
LEMMA BucketsStay ==
    ASSUME NEW m, NEW r, NEW own, NEW B, NEW y, Homes(own, m.header, B), BucketsOn(m, B, y),
           NEW t, WroteOnly(m.disk, r.disk, own, t), t[1] # ABucket, r.cache = m.cache
    PROVE  BucketsOn(r, B, y)
<1> SUFFICES ASSUME NEW z \in DOMAIN B, z # y PROVE BucketOn(r, z, B[z])
  BY DEF BucketsOn
<1> DEFINE b == B[z]
<1>1. BucketOn(m, z, b) /\ t # Tag(ABucket, Nobody, z)
  BY TagIs DEF BucketsOn
<1> HIDE DEF b
<1>2. Holds(m.disk, z, block_size, BucketObj(b)) => Holds(r.disk, z, block_size, BucketObj(b))
  BY <1>1, BucketStays
<1>3. BucketOn(r, z, b)
  BY <1>1, <1>2 DEF BucketOn, Pending
<1> QED
  BY <1>3 DEF b

LEMMA CurStays ==
    ASSUME NEW m, NEW own, NEW B, NEW o, NEW k, Commit(m, own, B, o, k), NEW r, OnlyFile(m, r), r.cache = m.cache,
           NEW t, WroteOnly(m.disk, r.disk, own, t), t[1] # ABucket, r.bucket_changed = m.bucket_changed
    PROVE  CurOn(r) /\ Marked(r) /\ r.old = <<>>
<1> DEFINE a == Adr(m)
           b == Bucket(m)
<1>1. a \in DOMAIN B /\ Homes(own, m.header, B) /\ CurOn(m) /\ Marked(m) /\ m.old = <<>>
  BY CommitParts DEF Commit
<1>2. t # Tag(ABucket, Nobody, a)
  BY TagIs
<1>3. Adr(r) = a /\ Bucket(r) = b /\ r.cur = m.cur
  BY DEF Adr, Bucket, OnlyFile
<1> HIDE DEF a, b
<1>4. Holds(m.disk, a, block_size, BucketObj(b)) => Holds(r.disk, a, block_size, BucketObj(b))
  BY <1>1, <1>2, BucketStays
<1>5. CurOn(r)
  BY <1>1, <1>3, <1>4 DEF CurOn, a, b
<1> QED
  BY <1>1, <1>5 DEF Marked, OnlyFile

(* The header and the directory.                                           *)
LEMMA CommitDir ==
    ASSUME NEW m, NEW own, NEW B, NEW o, NEW k, Commit(m, own, B, o, k), ~m.bucket_changed, Unchanged(m),
           NEW no, ~no, NEW r,
           r = Rewritten(m, Put(m.disk, m.header.dir, DirSize(m.header.dir_bits), DirObject(m.dir)),
                         m.header_changed, no, no, m.popped)
    PROVE  Commit(r, own, B, o, k) /\ ~r.bucket_changed
<1> DEFINE a == m.header.dir
           n == DirSize(m.header.dir_bits)
           d == Put(m.disk, a, n, DirObject(m.dir))
           t == Tag(TheDir, Nobody, Nobody)
           y == Adr(m)
<1>1. IsMem(m) /\ Homes(own, m.header, B) /\ m.header.dir_bits \in InitBits .. HashBits
      /\ Mem(m, own, B, 0, y, k) /\ y \in DOMAIN B
  BY CommitParts DEF Commit
<1>2. Owned(own, a, n, t) /\ a \in Nat /\ n \in Nat
  BY <1>1, DirSizeNat DEF Homes
<1>t. t[1] # AvailBlock /\ t[1] # ABucket /\ t # Tag(TheHeader, Nobody, Nobody)
      /\ \A q : t # Tag(ARecord, q, Nobody)
  BY TagIs, Kinds
<1> HIDE DEF t, n, a
<1>3. WroteOnly(m.disk, d, own, t) /\ Holds(d, a, n, DirObject(m.dir))
  BY <1>2, PutOnly
<1>r. r = Rewritten(m, d, m.header_changed, no, no, m.popped)
  BY DEF a, n
<1> HIDE DEF d
<1>4. /\ OnlyFile(m, r) /\ r.disk = d /\ r.bucket_changed = m.bucket_changed
      /\ r.cache = m.cache /\ r.last_read = m.last_read /\ r.cur = m.cur
      /\ r.header_changed = m.header_changed /\ r.directory_changed = no /\ r.second_changed = no
      /\ r.popped = m.popped
  BY <1>1, <1>r, RewrittenIs
<1>o. r.header = m.header /\ r.dir = m.dir /\ r.old = m.old
  BY <1>4 DEF OnlyFile
<1>w. WroteOnly(m.disk, r.disk, own, t)
  BY <1>3, <1>4
<1>5. HeaderOn(r)
  BY <1>1, <1>4, <1>o, <1>t, <1>w, HeaderStays DEF Mem
<1>6. DirOn(r)
  BY <1>3, <1>4, <1>o DEF DirOn, a, n
<1> HIDE DEF y
<1>7. BucketsOn(r, B, y)
  BY <1>1, <1>4, <1>t, <1>w, BucketsStay DEF Mem
<1>8. DataOK(r, B, y)
  <2> SUFFICES ASSUME NEW e \in Slots, r.cache[e].adr # 0, r.cache[e].adr # y, ~r.cache[e].changed
               PROVE  DataFits(r.disk, B[r.cache[e].adr], r.cache[e].data)
    BY DEF DataOK
  <2> DEFINE z == m.cache[e].adr
             data == m.cache[e].data
  <2>1. z \in DOMAIN B /\ DataFits(m.disk, B[z], data)
    BY <1>1, <1>4 DEF Mem, Cached, DataOK
  <2> HIDE DEF z, data
  <2>2. DataFits(r.disk, B[z], data)
    BY <1>1, <1>t, <1>w, <2>1, DataStays
  <2> QED
    BY <1>4, <2>2 DEF z, data
<1>9. RecordsIn(r.disk, B, k)
  BY <1>1, <1>w, RecordsKept DEF Mem, WroteOnly
<1>10. FlagsOK(r)
  BY <1>1, <1>4 DEF Mem, FlagsOK, Unchanged
<1>11. Mem(r, own, B, 0, y, k) /\ Adr(r) = Adr(m) /\ Bucket(r) = Bucket(m)
  <2>1. Marks(r, B, y, k)
    BY <1>5, <1>6, <1>7, <1>8, <1>9, <1>10 DEF Marks
  <2> QED
    BY <1>1, <1>4, <1>t, <1>w, <2>1, MemWritten
<1>12. CurOn(r) /\ Marked(r) /\ r.old = <<>>
  BY <1>4, <1>t, <1>w, CurStays
<1>13. ~Early(r)
  BY <1>4 DEF Early
<1> QED
  BY <1>1, <1>4, <1>11, <1>12, <1>13 DEF Commit, y

LEMMA CommitHeader ==
    ASSUME NEW m, NEW own, NEW B, NEW o, NEW k, Commit(m, own, B, o, k), ~m.bucket_changed, ~m.directory_changed,
           NEW no, ~no, NEW r,
           r = Rewritten(m, Put(m.disk, 0, block_size, HeaderObj(m.header)),
                         no, m.directory_changed, m.second_changed, no)
    PROVE  Commit(r, own, B, o, k) /\ ~r.bucket_changed
<1> DEFINE d == Put(m.disk, 0, block_size, HeaderObj(m.header))
           t == Tag(TheHeader, Nobody, Nobody)
           y == Adr(m)
<1>1. IsMem(m) /\ Homes(own, m.header, B) /\ m.header.dir_bits \in InitBits .. HashBits
      /\ Mem(m, own, B, 0, y, k) /\ y \in DOMAIN B
  BY CommitParts DEF Commit
<1>2. Owned(own, 0, block_size, t) /\ 0 \in Nat /\ block_size \in Nat
  BY <1>1, Consts DEF Homes
<1>t. t[1] # AvailBlock /\ t[1] # ABucket /\ t # Tag(TheDir, Nobody, Nobody)
      /\ \A q : t # Tag(ARecord, q, Nobody)
  BY TagIs, Kinds
<1> HIDE DEF t
<1>3. WroteOnly(m.disk, d, own, t) /\ Holds(d, 0, block_size, HeaderObj(m.header))
  BY <1>2, PutOnly
<1> HIDE DEF d
<1>4. /\ OnlyFile(m, r) /\ r.disk = d /\ r.bucket_changed = m.bucket_changed
      /\ r.cache = m.cache /\ r.last_read = m.last_read /\ r.cur = m.cur
      /\ r.header_changed = no /\ r.directory_changed = m.directory_changed
      /\ r.second_changed = m.second_changed /\ r.popped = no
  BY <1>1, RewrittenIs DEF d
<1>o. r.header = m.header /\ r.dir = m.dir /\ r.old = m.old
  BY <1>4 DEF OnlyFile
<1>w. WroteOnly(m.disk, r.disk, own, t)
  BY <1>3, <1>4
<1>5. HeaderOn(r)
  BY <1>3, <1>4, <1>o DEF HeaderOn
<1>6. DirOn(r)
  BY <1>1, <1>4, <1>o, <1>t, <1>w, DirStays DEF Mem
<1> HIDE DEF y
<1>7. BucketsOn(r, B, y)
  BY <1>1, <1>4, <1>t, <1>w, BucketsStay DEF Mem
<1>8. DataOK(r, B, y)
  <2> SUFFICES ASSUME NEW e \in Slots, r.cache[e].adr # 0, r.cache[e].adr # y, ~r.cache[e].changed
               PROVE  DataFits(r.disk, B[r.cache[e].adr], r.cache[e].data)
    BY DEF DataOK
  <2> DEFINE z == m.cache[e].adr
             data == m.cache[e].data
  <2>1. z \in DOMAIN B /\ DataFits(m.disk, B[z], data)
    BY <1>1, <1>4 DEF Mem, Cached, DataOK
  <2> HIDE DEF z, data
  <2>2. DataFits(r.disk, B[z], data)
    BY <1>1, <1>t, <1>w, <2>1, DataStays
  <2> QED
    BY <1>4, <2>2 DEF z, data
<1>9. RecordsIn(r.disk, B, k)
  BY <1>1, <1>w, RecordsKept DEF Mem, WroteOnly
<1>10. FlagsOK(r)
  BY <1>1, <1>4 DEF Mem, FlagsOK
<1>11. Mem(r, own, B, 0, y, k) /\ Adr(r) = Adr(m) /\ Bucket(r) = Bucket(m)
  <2>1. Marks(r, B, y, k)
    BY <1>5, <1>6, <1>7, <1>8, <1>9, <1>10 DEF Marks
  <2> QED
    BY <1>1, <1>4, <1>t, <1>w, <2>1, MemWritten
<1>12. CurOn(r) /\ Marked(r) /\ r.old = <<>>
  BY <1>4, <1>t, <1>w, CurStays
<1>13. ~Early(r)
  BY <1>4 DEF Early
<1> QED
  BY <1>1, <1>4, <1>11, <1>12, <1>13 DEF Commit, y

(* A key is in one bucket.                                                 *)
LEMMA KeyOnce ==
    ASSUME NEW m, NEW own, NEW B, NEW x, NEW y, NEW z, Mem(m, own, B, x, y, z),
           NEW a \in DOMAIN B, NEW b \in DOMAIN B, NEW k, k \in DOMAIN B[a].elems, k \in DOMAIN B[b].elems
    PROVE  a = b
BY DEF Mem, DirOK, DirKeys

(* Some of a record's units are written, or all of them.                   *)
LEMMA RecordWritten ==
    ASSUME NEW m, NEW own, NEW B, NEW o, NEW k, NEW el, Stored(m, own, B, o, k, el),
           NEW n \in Nat, n <= el.size, NEW obj, obj[1] # "dir",
           NEW r, r = Rewritten(m, Put(m.disk, el.adr, n, obj), m.header_changed, m.directory_changed,
                                m.second_changed, m.popped)
    PROVE  /\ Stored(r, own, B, o, k, el)
           /\ n = el.size => Commit(r, own, B, o, 0)
<1> DEFINE d == Put(m.disk, el.adr, n, obj)
           t == Tag(ARecord, k, Nobody)
           y == Adr(m)
<1>0. /\ Commit(m, own, B, o, k) /\ m.bucket_changed
      /\ k \in DOMAIN B[y].elems /\ B[y].elems[k] = el
      /\ HasRecord(own, el, k) /\ Safe(m, o, el.adr, el.size)
  BY DEF Stored
<1>1. IsMem(m) /\ Homes(own, m.header, B) /\ m.header.dir_bits \in InitBits .. HashBits
      /\ Mem(m, own, B, 0, y, k) /\ y \in DOMAIN B /\ m.cur \in Slots
  BY <1>0, CommitParts DEF Commit
<1>2. Owned(own, el.adr, n, t) /\ el.adr \in Nat /\ el.size \in Nat /\ \A u \in Span(el.adr, n) : u \in Span(el.adr, el.size)
  <2>1. el.adr \in Nat /\ el.size \in Nat /\ Owned(own, el.adr, el.size, t)
    BY <1>0 DEF HasRecord, AvType
  <2> DEFINE p == el.adr
             q == el.size
  <2>2. p \in Nat /\ q \in Nat /\ n <= q
    BY <2>1
  <2> HIDE DEF p, q
  <2>3. \A u \in Span(p, n) : u \in Span(p, q)
    BY <2>2 DEF Span
  <2> QED
    BY <2>1, <2>3 DEF Owned, p, q
<1>t. t[1] # AvailBlock /\ t[1] # ABucket /\ t # Tag(TheHeader, Nobody, Nobody) /\ t # Tag(TheDir, Nobody, Nobody)
      /\ \A q : q # k => t # Tag(ARecord, q, Nobody)
  BY TagIs, Kinds
<1> HIDE DEF t
<1>3. WroteOnly(m.disk, d, own, t) /\ Holds(d, el.adr, n, obj)
  BY <1>2, PutOnly
<1> HIDE DEF d
<1>4. /\ OnlyFile(m, r) /\ r.disk = d /\ r.bucket_changed = m.bucket_changed
      /\ r.cache = m.cache /\ r.last_read = m.last_read /\ r.cur = m.cur
      /\ r.header_changed = m.header_changed /\ r.directory_changed = m.directory_changed
      /\ r.second_changed = m.second_changed /\ r.popped = m.popped
  BY <1>1, RewrittenIs DEF d
<1>o. r.header = m.header /\ r.dir = m.dir /\ r.old = m.old
  BY <1>4 DEF OnlyFile
<1>w. WroteOnly(m.disk, r.disk, own, t)
  BY <1>3, <1>4
<1>5. HeaderOn(r)
  BY <1>1, <1>4, <1>o, <1>t, <1>w, HeaderStays DEF Mem
<1>6. DirOn(r)
  BY <1>1, <1>4, <1>o, <1>t, <1>w, DirStays DEF Mem
<1> HIDE DEF y
<1>7. BucketsOn(r, B, y)
  BY <1>1, <1>4, <1>t, <1>w, BucketsStay DEF Mem
<1>8. DataOK(r, B, y)
  <2> SUFFICES ASSUME NEW e \in Slots, r.cache[e].adr # 0, r.cache[e].adr # y, ~r.cache[e].changed
               PROVE  DataFits(r.disk, B[r.cache[e].adr], r.cache[e].data)
    BY DEF DataOK
  <2> DEFINE z == m.cache[e].adr
             data == m.cache[e].data
  <2>1. z \in DOMAIN B /\ DataFits(m.disk, B[z], data) /\ z # y
    BY <1>1, <1>4 DEF Mem, Cached, DataOK
  <2> HIDE DEF z, data
  <2>2. \A q \in DOMAIN B[z].elems : t # Tag(ARecord, q, Nobody)
    BY <1>0, <1>1, <1>t, <2>1, KeyOnce
  <2>3. DataFits(r.disk, B[z], data)
    BY <1>1, <1>w, <2>1, <2>2, DataStays
  <2> QED
    BY <1>4, <2>3 DEF z, data
<1>9. RecordsIn(r.disk, B, k)
  BY <1>1, <1>w, RecordsKept DEF Mem, WroteOnly
<1>10. FlagsOK(r)
  BY <1>1, <1>4 DEF Mem, FlagsOK
<1>a. HeaderOn(r) /\ DirOn(r) /\ BucketsOn(r, B, y) /\ DataOK(r, B, y) /\ FlagsOK(r)
  BY <1>5, <1>6, <1>7, <1>8, <1>10
<1>11. ASSUME NEW q, RecordsIn(r.disk, B, q) PROVE Mem(r, own, B, 0, y, q) /\ Adr(r) = Adr(m)
  BY <1>a, <1>11, <1>1, <1>4, <1>t, <1>w, MemWritten DEF Marks
<1>12. CurOn(r) /\ Marked(r) /\ r.old = <<>>
  <2>1. OnlyFile(m, r) /\ r.cache = m.cache /\ r.bucket_changed = m.bucket_changed
    BY <1>4
  <2>2. t[1] # ABucket
    BY <1>t
  <2>3. Commit(m, own, B, o, k)
    BY <1>0
  <2> QED
    BY <1>w, <2>1, <2>2, <2>3, CurStays
<1>13. OldFile(r, o) /\ NewSafe(r, o)
  <2>1. OldFile(m, o) /\ NewSafe(m, o)
    BY <1>0 DEF Commit, Early
  <2>2. Safe(m, o, el.adr, n)
    BY <1>0, <1>2 DEF Safe
  <2>3. OldFile(r, o)
    <3> DEFINE a == el.adr
    <3>1. a \in Nat /\ Safe(m, o, a, n) /\ r.disk = Put(m.disk, a, n, obj) /\ r.popped = m.popped
      BY <1>2, <1>4, <2>2 DEF d
    <3> HIDE DEF a
    <3> QED
      BY <2>1, <3>1, OldPut
  <2>4. NewSafe(r, o)
    BY <1>1, <1>4, <2>1, NewSafeKept
  <2> QED
    BY <2>3, <2>4
<1>14. Mem(r, own, B, 0, y, k) /\ Adr(r) = Adr(m)
  BY <1>9, <1>11
<1>15. Stored(r, own, B, o, k, el)
  BY <1>0, <1>1, <1>4, <1>12, <1>13, <1>14 DEF Stored, Commit, Safe, y
<1>16. ASSUME n = el.size PROVE Commit(r, own, B, o, 0)
  <2>1. ASSUME NEW a \in DOMAIN B, NEW q \in DOMAIN B[a].elems PROVE InFile(r.disk, B[a].elems[q])
    BY <1>9, <1>0, <1>1, KeyOnce, <1>3, <1>4, <1>16 DEF RecordsIn, InFile, Holds
  <2>2. RecordsIn(r.disk, B, 0)
    BY <2>1 DEF RecordsIn
  <2>3. Mem(r, own, B, 0, y, 0) /\ Adr(r) = Adr(m)
    BY <1>11, <2>2
  <2> QED
    BY <1>1, <1>12, <1>13, <2>3 DEF Commit, y
<1> QED
  BY <1>15, <1>16

(* When all is written.                                                    *)
LEMMA CommitClean ==
    ASSUME NEW m, NEW own, NEW B, NEW o, Commit(m, own, B, o, 0), Unchanged(m),
           ~m.bucket_changed, ~m.directory_changed, ~m.header_changed
    PROVE  Clean(m, own, B)
<1> DEFINE y == Adr(m)
<1>1. /\ Mem(m, own, B, 0, y, 0) /\ y \in DOMAIN B /\ m.old = <<>> /\ CurOn(m)
      /\ Bucket(m) = B[y] /\ y = m.cache[m.cur].adr /\ m.cur \in Slots /\ FlagsOK(m) /\ Cached(m, B, 0) /\ y # 0
  BY CommitParts DEF Commit
<1>2. Holds(m.disk, y, block_size, BucketObj(B[y])) /\ m.cache[m.cur].data = NoData
  BY <1>1 DEF CurOn
<1>3. Settled(m)
  BY <1>1 DEF Settled, FlagsOK
<1> HIDE DEF y
<1>4. BucketsOn(m, B, 0)
  BY <1>1, <1>2 DEF Mem, BucketsOn, BucketOn
<1>5. DataOK(m, B, 0)
  <2> SUFFICES ASSUME NEW e \in Slots, m.cache[e].adr # 0, ~m.cache[e].changed
               PROVE  DataFits(m.disk, B[m.cache[e].adr], m.cache[e].data)
    BY DEF DataOK
  <2>1. CASE e = m.cur
    BY <1>2, <2>1 DEF DataFits
  <2>2. CASE e # m.cur
    BY <1>1, <2>2 DEF Cached, Mem, DataOK
  <2> QED
    BY <2>1, <2>2
<1>6. Mem(m, own, B, 0, 0, 0)
  BY <1>1, <1>4, <1>5 DEF Mem
<1> QED
  BY <1>3, <1>6 DEF Clean

-----------------------------------------------------------------------------
(* A process ends, another opens the file.                                 *)

LEMMA HeaderIs ==
    ASSUME NEW d, NEW o, LayoutOK(d, o)
    PROVE  HeaderOf(d) = o.h
BY GdbmAssumption, GetHeld DEF LayoutOK, HeaderOf, HeaderObj

LEMMA LayoutSizes ==
    ASSUME NEW d, NEW o, LayoutOK(d, o)
    PROVE  o.h.dir \in Nat /\ DirSize(o.h.dir_bits) \in Nat \ {0}
BY DirSizeNat DEF LayoutOK, DirOK, DirShape, Homes

LEMMA DirIs ==
    ASSUME NEW d, NEW o, DiskOK(d, o)
    PROVE  DirOf(d) = o.dir /\ ~NoDir(d)
<1>1. HeaderOf(d) = o.h
  BY HeaderIs DEF DiskOK
<1>2. o.h.dir \in Nat /\ DirSize(o.h.dir_bits) \in Nat \ {0}
  BY LayoutSizes DEF DiskOK
<1>3. Holds(d, o.h.dir, DirSize(o.h.dir_bits), DirObject(o.dir))
  BY DEF DiskOK, DirHeld
<1> DEFINE a == o.h.dir
           n == DirSize(o.h.dir_bits)
           obj == DirObject(o.dir)
<1>4. a \in Nat /\ n \in Nat \ {0} /\ Holds(d, a, n, obj)
  BY <1>2, <1>3
<1>5. DirObj(d) = Get(d, a, n)
  BY <1>1 DEF DirObj
<1> HIDE DEF a, n, obj
<1>6. DirObj(d) = obj
  BY <1>4, <1>5, GetHeld
<1> QED
  BY <1>6 DEF obj, DirObject, DirOf, NoDir

LEMMA LostNoDir ==
    ASSUME NEW d, NEW o, LayoutOK(d, o), Lost(d, o)
    PROVE  NoDir(d)
<1>1. HeaderOf(d) = o.h
  BY HeaderIs
<1> DEFINE a == o.h.dir
           n == DirSize(o.h.dir_bits)
<1>2. a \in Nat /\ n \in Nat \ {0}
  BY LayoutSizes
<1>3. PICK u \in Span(a, n) : u \in DOMAIN d /\ d[u][1][1] # "dir"
  BY DEF Lost
<1>4. DirObj(d) = Get(d, a, n)
  BY <1>1 DEF DirObj
<1> HIDE DEF a, n
<1>5. CASE \A i \in 0 .. n - 1 : d[a + i] = <<d[a][1], i>>
  <2>1. u - a \in 0 .. n - 1 /\ a + (u - a) = u
    BY <1>2, <1>3 DEF Span
  <2>2. d[u] = <<d[a][1], u - a>>
    BY <1>5, <2>1
  <2>3. d[u][1] = d[a][1]
    BY <2>2
  <2>4. Get(d, a, n) = d[a][1]
    BY <1>5 DEF Get
  <2> QED
    BY <1>3, <1>4, <2>3, <2>4 DEF NoDir
<1>6. CASE ~\A i \in 0 .. n - 1 : d[a + i] = <<d[a][1], i>>
  BY <1>6, <1>4, GdbmAssumption DEF Get, NoDir
<1> QED
  BY <1>5, <1>6

\* A process that dies while an update is written leaves a whole layout in the file:
\* the old one until the bucket is written (or the directory, if no header follows),
\* the new one from then on.  The hypotheses are the deaths that do not mark it hurt.
THEOREM DeathLeaves ==
    ASSUME NEW m, NEW own, NEW B, NEW o, NEW k, Commit(m, own, B, o, k), ~m.popped, ~NoDir(m.disk),
           Early(m) \/ (k = 0 /\ ~m.header_changed)
    PROVE  \E p : DiskOK(m.disk, p)
<1>1. CASE Early(m)
  BY <1>1, LostNoDir DEF Commit, OldFile, OldOK, DiskOK
<1>2. CASE ~Early(m)
  BY <1>2, CommitParts, CommitClean, LayoutExists, CleanDisk DEF Early, FlagsOK, Unchanged, Commit, CurOn
<1> QED
  BY <1>1, <1>2

LEMMA EmptyTable == ASSUME NEW own, NEW kind, NEW x PROVE Table(<<>>, own, kind, x) /\ Len(<<>>) = 0
BY DEF Table

LEMMA NoEntryIs == IsEntry(NoEntry) /\ NoEntry.adr = 0 /\ NoEntry.bucket.avail = <<>> /\ ~NoEntry.changed
BY DEF IsEntry, IsBucket, NoEntry, NewBucket

LEMMA OpenedIs ==
    ASSUME NEW d, NEW m, m = Opened(d), IsHeader(HeaderOf(d))
    PROVE  /\ IsMem(m) /\ m.disk = d /\ m.header = HeaderOf(d) /\ m.dir = DirOf(d) /\ m.cur = 0
           /\ m.last_read = -1 /\ (\A c \in Slots : m.cache[c] = NoEntry) /\ Settled(m) /\ m.open
<1>0. 0 \in Slots /\ IsEntry(NoEntry)
  BY SlotsAre, NoEntryIs
<1> DEFINE h == HeaderOf(d)
           dir == DirOf(d)
           e == NoEntry
<1>1. m = [open |-> TRUE, disk |-> d, header |-> h,
           dir |-> dir, bucket_dir |-> 0, cur |-> 0, last_read |-> -1,
           cache |-> [c \in Slots |-> e], old |-> <<>>,
           header_changed |-> FALSE, directory_changed |-> FALSE,
           bucket_changed |-> FALSE, second_changed |-> FALSE, popped |-> FALSE]
  BY DEF Opened
<1>2. IsHeader(h) /\ IsEntry(e)
  BY <1>0
<1> HIDE DEF h, dir, e
<1>3. IsRec(m) /\ m.disk = d /\ m.header = h /\ m.dir = dir /\ m.cur = 0
      /\ m.last_read = -1 /\ m.cache = [c \in Slots |-> e] /\ m.open
  BY <1>1 DEF IsRec
<1>4. Settled(m)
  BY <1>1 DEF Settled
<1>5. IsMem(m)
  BY <1>0, <1>2, <1>3 DEF IsMem, IsRec
<1> QED
  BY <1>3, <1>4, <1>5 DEF h, dir, e

LEMMA OpenClean ==
    ASSUME NEW d, NEW o, DiskOK(d, o)
    PROVE  Clean(Opened(d), o.own, o.B) /\ Opened(d).open
<1> DEFINE m == Opened(d)
<1>1. HeaderOf(d) = o.h /\ DirOf(d) = o.dir /\ LayoutOK(d, o) /\ DirHeld(d, o)
  BY HeaderIs, DirIs DEF DiskOK
<1>2. IsHeader(HeaderOf(d))
  BY <1>1 DEF LayoutOK
<1>3. /\ IsMem(m) /\ m.disk = d /\ m.header = o.h /\ m.dir = o.dir /\ m.cur = 0
      /\ m.last_read = -1 /\ (\A c \in Slots : m.cache[c] = NoEntry) /\ Settled(m) /\ m.open
  BY <1>1, <1>2, OpenedIs
<1> HIDE DEF m
<1>4. FreeSpace(m.disk, m.header, o.own) /\ DirOK(m.dir, m.header.dir_bits, o.B)
      /\ Homes(o.own, m.header, o.B) /\ Tables(o.own, o.B, 0) /\ RecordsIn(m.disk, o.B, 0)
  BY <1>1, <1>3 DEF LayoutOK
<1>5. CurTable(m, o.own)
  BY <1>3, SlotsAre, NoEntryIs, EmptyTable, Consts DEF Bucket, CurTable
<1>6. o.own[0] = Tag(TheHeader, Nobody, Nobody)
  BY <1>1, Consts DEF LayoutOK, Homes, Span, Owned
<1>7. FreeOK(m, o.own)
  BY <1>3, <1>4, <1>5, <1>6, FreeParts
<1>8. HeaderOn(m) /\ DirOn(m) /\ BucketsOn(m, o.B, 0)
  BY <1>1, <1>3 DEF HeaderOn, DirOn, BucketsOn, BucketOn, LayoutOK, BucketsHeld, DirHeld
<1>9. Cached(m, o.B, 0) /\ DataOK(m, o.B, 0) /\ Unchanged(m)
  BY <1>3, NoEntryIs DEF Cached, DataOK, Unchanged
<1>10. FlagsOK(m)
  BY <1>3, <1>9 DEF FlagsOK, Unchanged, Settled
<1>11. Clean(m, o.own, o.B)
  BY <1>3, <1>4, <1>7, <1>8, <1>9, <1>10 DEF Clean, Mem
<1> QED
  BY <1>3, <1>11 DEF m

LEMMA Places ==
    /\ Place(0) = 0 /\ Place(0) \in Nat /\ Place(1) \in Nat /\ Place(2) \in Nat /\ Place(3) \in Nat /\ Place(4) \in Nat
    /\ Place(1) = Place(0) + block_size /\ Place(2) = Place(1) + block_size
    /\ Place(3) = Place(2) + block_size /\ Place(4) = Place(3) + block_size
    /\ Place(1) = block_size /\ Place(2) = 2 * block_size /\ Place(3) = 3 * block_size /\ Place(4) = 4 * block_size
    /\ Place(2) # 0
  BY Consts DEF Place

LEMMA NewOwned ==
    /\ Owned(NewOwner, Place(0), block_size, Tag(TheHeader, Nobody, Nobody))
    /\ Owned(NewOwner, Place(1), block_size, Tag(TheDir, Nobody, Nobody))
    /\ Owned(NewOwner, Place(2), block_size, Tag(ABucket, Nobody, Place(2)))
    /\ Owned(NewOwner, Place(3), block_size, Tag(BucketAvail, Place(2), Place(3)))
    /\ \A u \in Nat : u >= Place(4) => NewOwner[u] = Tag(AtEnd, Nobody, Nobody)
<1> DEFINE p0 == Place(0)
           p1 == Place(1)
           p2 == Place(2)
           p3 == Place(3)
           p4 == Place(4)
           n == block_size
           t0 == Tag(TheHeader, Nobody, Nobody)
           t1 == Tag(TheDir, Nobody, Nobody)
           t2 == Tag(ABucket, Nobody, p2)
           t3 == Tag(BucketAvail, p2, p3)
           t4 == Tag(AtEnd, Nobody, Nobody)
<1>1. p0 \in Nat /\ p1 = p0 + n /\ p2 = p1 + n /\ p3 = p2 + n /\ p4 = p3 + n /\ n \in Nat
  BY Places, Consts
<1>2. NewOwner = [u \in Nat |-> IF u \in Span(p0, n) THEN t0 ELSE IF u \in Span(p1, n) THEN t1
                                ELSE IF u \in Span(p2, n) THEN t2 ELSE IF u \in Span(p3, n) THEN t3 ELSE t4]
  BY DEF NewOwner
<1> HIDE DEF p0, p1, p2, p3, p4, n, t0, t1, t2, t3, t4
<1>3. \A u \in Nat : /\ u \in Span(p0, n) => NewOwner[u] = t0
                     /\ u \in Span(p1, n) => NewOwner[u] = t1
                     /\ u \in Span(p2, n) => NewOwner[u] = t2
                     /\ u \in Span(p3, n) => NewOwner[u] = t3
                     /\ u >= p4 => NewOwner[u] = t4
  BY <1>1, <1>2 DEF Span
<1>4. Owned(NewOwner, p0, n, t0) /\ Owned(NewOwner, p1, n, t1) /\ Owned(NewOwner, p2, n, t2) /\ Owned(NewOwner, p3, n, t3)
  BY <1>1, <1>3 DEF Owned, Span
<1> QED
  BY <1>3, <1>4 DEF p0, p1, p2, p3, p4, n, t0, t1, t2, t3, t4

LEMMA NewHeaderIs ==
    /\ IsHeader(NewHeader) /\ NewHeader.dir = Place(1) /\ NewHeader.dir_bits = InitBits
    /\ NewHeader.next_block = Place(4) /\ NewHeader.avail = <<>> /\ NewHeader.av_next = 0
  BY Places DEF NewHeader, IsHeader

LEMMA FirstDirSize == DirSize(InitBits) = block_size /\ Two[InitBits] \in Nat /\ Two[InitBits] >= 1
<1>1. InitBits \in 0 .. HashBits /\ InitBits - InitBits = 0 /\ block_size \in Nat
  BY BitConsts, Consts
<1>2. Two[InitBits - InitBits] = 1
  BY <1>1, TwoIs
<1>3. DirSize(InitBits) = block_size * 1
  BY <1>2 DEF DirSize
<1> QED
  BY <1>1, <1>3, TwoPos

LEMMA NewHeld ==
    /\ Holds(NewDisk, Place(0), block_size, HeaderObj(NewHeader))
    /\ Holds(NewDisk, Place(1), block_size, DirObject(FirstDir))
    /\ Holds(NewDisk, Place(2), block_size, BucketObj(FirstBucket))
<1> DEFINE n == block_size
           x == HeaderObj(NewHeader)
           y == DirObject(FirstDir)
           z == BucketObj(FirstBucket)
           p0 == Place(0)
           p1 == Place(1)
           p2 == Place(2)
           blank == [u \in 0 .. 4 * block_size - 1 |-> <<<<Torn>>, 0>>]
<1>1. NewDisk = Put(Put(Put(blank, p0, n, x), p1, n, y), p2, n, z)
  <2>1. [NewBucket(0) EXCEPT !.avail = <<[adr |-> 3 * block_size, size |-> block_size]>>] = FirstBucket
    <3> DEFINE av == <<[adr |-> 3 * block_size, size |-> block_size]>>
    <3>1. av = <<NewElem>>
      BY Places DEF NewElem
    <3> HIDE DEF av
    <3>2. [NewBucket(0) EXCEPT !.avail = av] = [bits |-> 0, elems |-> <<>>, avail |-> av]
      BY DEF NewBucket
    <3> QED
      BY <3>1, <3>2 DEF FirstBucket, av
  <2>2. [i \in 0 .. Two[InitBits] - 1 |-> 2 * block_size] = FirstDir
    BY Places DEF FirstDir, Entries
  <2>3. p0 = 0 /\ p1 = block_size /\ p2 = 2 * block_size
    BY Places
  <2> QED
    BY <2>1, <2>2, <2>3 DEF NewDisk, HeaderObj, DirObject, BucketObj
<1>2. p0 \in Nat /\ p1 = p0 + n /\ p2 = p1 + n /\ n \in Nat /\ p1 \in Nat /\ p2 \in Nat
  BY Places, Consts
<1> HIDE DEF n, x, y, z, p0, p1, p2, blank
<1> DEFINE d1 == Put(blank, p0, n, x)
           d2 == Put(d1, p1, n, y)
           d3 == Put(d2, p2, n, z)
<1>3. Holds(d1, p0, n, x) /\ Holds(d2, p1, n, y) /\ Holds(d3, p2, n, z)
      /\ (\A u : u \notin Span(p1, n) => SameAt(d1, d2, u))
      /\ (\A u : u \notin Span(p2, n) => SameAt(d2, d3, u))
  BY <1>2, PutHolds
<1>4. NewDisk = d3
  BY <1>1
<1> HIDE DEF d1, d2, d3
<1>5. (\A u \in Span(p0, n) : u \notin Span(p1, n) /\ u \notin Span(p2, n))
      /\ \A u \in Span(p1, n) : u \notin Span(p2, n)
  BY <1>2 DEF Span
<1>6. Holds(d2, p0, n, x)
  BY <1>3, <1>5, HoldsKept
<1>7. Holds(d3, p0, n, x) /\ Holds(d3, p1, n, y)
  BY <1>3, <1>5, <1>6, HoldsKept
<1> QED
  BY <1>3, <1>4, <1>7 DEF n, x, y, z, p0, p1, p2

LEMMA NewDirOK == DirOK(FirstDir, InitBits, NewBuckets)
<1> DEFINE p == Place(2)
           db == InitBits
<1>1. DOMAIN NewBuckets = {p} /\ NewBuckets[p].bits = 0 /\ NewBuckets[p].elems = <<>>
  BY DEF NewBuckets, FirstBucket
<1>2. FirstDir = [i \in Entries(db) |-> p] /\ 0 \in Entries(db) /\ db \in 0 .. HashBits /\ db \in InitBits .. HashBits
      /\ Two[db] \in Nat /\ Two[db] >= 1
  BY FirstDirSize, BitConsts DEF FirstDir, Entries
<1>3. \A i \in Entries(db) : i \in Nat /\ i < Two[db]
  BY <1>2 DEF Entries
<1> HIDE DEF p, db
<1>4. DirShape(FirstDir, db, NewBuckets)
  BY <1>1, <1>2 DEF DirShape
<1>5. \A i \in Entries(db) : i \div Two[db] = 0
  <2> SUFFICES ASSUME NEW i \in Entries(db) PROVE i \div Two[db] = 0
    OBVIOUS
  <2> DEFINE t == Two[db]
  <2>1. i \in Nat /\ t \in Nat \ {0} /\ i < t
    BY <1>2, <1>3
  <2> HIDE DEF t
  <2>2. t * 0 <= i /\ i < t * 0 + t
    BY <2>1
  <2>3. i \div t = 0
    BY <2>1, <2>2, DivIs
  <2> QED
    BY <2>3 DEF t
<1>6. DirGroups(FirstDir, db, NewBuckets)
  BY <1>2, <1>1, <1>5 DEF DirGroups, Grouped, SameBits
<1>7. DirKeys(FirstDir, db, NewBuckets)
  BY <1>1 DEF DirKeys
<1> QED
  BY <1>4, <1>6, <1>7 DEF DirOK, db

LEMMA NewFile == DiskOK(NewDisk, NewLayout)
<1> DEFINE o == NewLayout
           d == NewDisk
           B == NewBuckets
           own == NewOwner
           h == NewHeader
           p == Place(2)
<1>1. o.own = own /\ o.h = h /\ o.dir = FirstDir /\ o.B = B
  BY DEF NewLayout
<1>2. DOMAIN B = {p} /\ B[p] = FirstBucket
  BY DEF NewBuckets
<1>3. IsBucket(FirstBucket) /\ FirstBucket.elems = <<>> /\ FirstBucket.avail = <<NewElem>>
  BY DEF IsBucket, FirstBucket
<1>4. p \in Nat /\ p # 0 /\ Place(0) = 0
  BY Places
<1> HIDE DEF o, d, B, own, h, p
<1>5. Holds(d, 0, block_size, HeaderObj(h)) /\ IsHeader(h)
  BY <1>4, NewHeld, NewHeaderIs DEF d, h
<1>6. FreeSpace(d, h, own)
  <2>1. h.next_block \in Nat /\ \A u \in Nat : u >= h.next_block => own[u] = Tag(AtEnd, Nobody, Nobody)
    BY NewHeaderIs, Places, NewOwned DEF h, own
  <2>2. Table(h.avail, own, HeaderAvail, Nobody) /\ Len(h.avail) <= avail_size
    BY NewHeaderIs, EmptyTable, Consts DEF h
  <2>3. Stack(d, h.av_next, <<>>, own)
    BY NewHeaderIs DEF Stack, h
  <2> QED
    BY <2>1, <2>2, <2>3 DEF FreeSpace
<1>7. Homes(own, h, B)
  <2>1. h.dir = Place(1) /\ DirSize(h.dir_bits) = block_size /\ Place(1) \in Nat
    BY NewHeaderIs, FirstDirSize, Places DEF h
  <2>2. Owned(own, 0, block_size, Tag(TheHeader, Nobody, Nobody))
        /\ Owned(own, Place(1), block_size, Tag(TheDir, Nobody, Nobody))
        /\ Owned(own, p, block_size, Tag(ABucket, Nobody, p))
    BY <1>4, NewOwned DEF own, p
  <2> QED
    BY <1>2, <1>3, <1>4, <2>1, <2>2 DEF Homes
<1>8. Tables(own, B, 0)
  <2>1. NewElem \in AvType /\ NewElem.adr = Place(3) /\ NewElem.size = block_size
    BY Places, Consts DEF NewElem, AvType
  <2> DEFINE av == <<NewElem>>
             e == NewElem
  <2>2. av = <<e>> /\ e \in AvType
    BY <2>1
  <2> HIDE DEF e
  <2>3. av \in Seq(AvType) /\ Len(av) = 1 /\ av[1] = e /\ DOMAIN av = {1}
    BY <2>2
  <2> HIDE DEF av
  <2>4. Owned(own, e.adr, e.size, Tag(BucketAvail, p, e.adr))
    BY <2>1, NewOwned DEF own, p, e
  <2>5. Table(av, own, BucketAvail, p) /\ Len(av) <= BUCKET_AVAIL
    BY <2>3, <2>4, Consts DEF Table
  <2> QED
    BY <1>2, <1>3, <2>5 DEF Tables, av, e
<1>9. BucketsHeld(d, o) /\ RecordsIn(d, o.B, 0)
  BY <1>1, <1>2, <1>3, NewHeld DEF BucketsHeld, RecordsIn, d, p
<1>10. DirHeld(d, o)
  BY <1>1, NewHeld, NewHeaderIs, FirstDirSize DEF DirHeld, d, h
<1>11. DirOK(o.dir, o.h.dir_bits, o.B)
  BY <1>1, NewDirOK, NewHeaderIs DEF h, B
<1> QED
  BY <1>1, <1>5, <1>6, <1>7, <1>8, <1>9, <1>10, <1>11 DEF DiskOK, LayoutOK, d, o

-----------------------------------------------------------------------------
(* A bucket is split.                                                      *)

LEMMA TurnedIs ==
    ASSUME NEW l \in Slots \cup {-1}, NEW u \in Slots, NEW c, Turned(l, u, c)
    PROVE  c \in Slots /\ c # u /\ c # l
<1> DEFINE s == cache_size
           c1 == (l + 1) % s
           c2 == (c1 + 1) % s
<1>1. s \in Nat /\ s >= 3
  BY SlotsAre
<1>2. c = IF c1 = u THEN c2 ELSE c1
  BY DEF Turned
<1>3. l \in (0 .. s - 1) \cup {-1} /\ u \in 0 .. s - 1
  BY DEF Slots
<1> HIDE DEF s
<1>4. \A x \in 0 .. s : x % s = IF x = s THEN 0 ELSE x
  BY <1>1
<1>5. l + 1 \in 0 .. s
  BY <1>1, <1>3
<1>6. c1 = IF l + 1 = s THEN 0 ELSE l + 1
  BY <1>4, <1>5
<1>7. c1 \in 0 .. s - 1 /\ c1 # l
  BY <1>1, <1>3, <1>5, <1>6
<1> HIDE DEF c1
<1>8. c2 = IF c1 + 1 = s THEN 0 ELSE c1 + 1
  BY <1>1, <1>4, <1>7
<1> HIDE DEF c2
<1>9. c2 \in 0 .. s - 1 /\ c2 # c1
  BY <1>1, <1>7, <1>8
<1>10. c2 # l
  BY <1>1, <1>3, <1>6, <1>7, <1>8
<1> QED
  BY <1>2, <1>7, <1>9, <1>10 DEF Slots, s

LEMMA SetReadIs ==
    ASSUME NEW m, IsMem(m), NEW c, NEW r, r = SetRead(m, c)
    PROVE  /\ IsMem(r) /\ SameFile(m, r) /\ r.open = m.open /\ r.bucket_dir = m.bucket_dir
           /\ r.cur = m.cur /\ r.cache = m.cache /\ r.last_read = c
BY DEF IsMem, IsRec, SetRead, SameFile

LEMMA ReadBusy ==
    ASSUME NEW m, NEW own, NEW B, NEW o, NEW k, Busy(m, own, B, o, k), NEW c \in Slots, NEW r, r = SetRead(m, c)
    PROVE  Busy(r, own, B, o, k) /\ Adr(r) = Adr(m) /\ Bucket(r) = Bucket(m)
<1>1. Mem(m, own, B, Adr(m), Adr(m), k) /\ Cur(m, B) /\ Old(m, own, o) /\ NewSafe(m, o) /\ OldDirs(m, own, o)
  BY DEF Busy
<1>2. IsMem(m) /\ FreeOK(m, own)
  BY <1>1 DEF Mem, FreeOK
<1>3. /\ IsMem(r) /\ SameFile(m, r) /\ r.bucket_dir = m.bucket_dir
      /\ r.cur = m.cur /\ r.cache = m.cache /\ r.last_read = c
  BY <1>2, SetReadIs
<1>4. Adr(r) = Adr(m) /\ Bucket(r) = Bucket(m)
  BY <1>3 DEF Adr, Bucket
<1>5. /\ r.disk = m.disk /\ r.header = m.header /\ r.dir = m.dir /\ r.old = m.old
      /\ r.header_changed = m.header_changed /\ r.directory_changed = m.directory_changed
      /\ r.second_changed = m.second_changed /\ r.popped = m.popped
  BY <1>3 DEF SameFile
<1>6. FreeOK(r, own)
  BY <1>2, <1>3, <1>4, <1>5 DEF FreeOK
<1>7. HeaderOn(r) /\ DirOn(r) /\ RecordsIn(r.disk, B, k) /\ FlagsOK(r)
  BY <1>1, <1>3, <1>5 DEF Mem, HeaderOn, DirOn, FlagsOK
<1>8. BucketsOn(r, B, Adr(r)) /\ Cached(r, B, Adr(r)) /\ DataOK(r, B, Adr(r))
  BY <1>1, <1>3, <1>4, <1>5 DEF Mem, BucketsOn, BucketOn, Pending, Cached, DataOK
<1>9. Mem(r, own, B, Adr(r), Adr(r), k)
  BY <1>1, <1>4, <1>5, <1>6, <1>7, <1>8 DEF Mem
<1>10. Cur(r, B) /\ Old(r, own, o) /\ OldDirs(r, own, o)
  BY <1>1, <1>3, <1>4, <1>5 DEF Cur, Old, Link, OldDirs, Safe
<1>11. NewSafe(r, o)
  BY <1>5, <1>1, <1>3, <1>4 DEF Safe, NewSafe
<1> QED
  BY <1>4, <1>9, <1>10, <1>11 DEF Busy

LEMMA FlushBusy ==
    ASSUME NEW m, NEW own, NEW B, NEW o, NEW k, Busy(m, own, B, o, k), Marked(m),
           NEW c \in Slots, c # m.cur, NEW r, r = WriteIfChanged(m, c)
    PROVE  /\ Busy(r, own, B, o, k) /\ SameBut(m, r) /\ Marked(r) /\ ~r.cache[c].changed
           /\ r.last_read = m.last_read /\ \A e \in Slots : e # c => r.cache[e] = m.cache[e]
<1>1. Mem(m, own, B, Adr(m), Adr(m), k) /\ Cur(m, B) /\ Old(m, own, o) /\ NewSafe(m, o) /\ OldDirs(m, own, o)
  BY DEF Busy
<1>2. IsMem(m) /\ m.cur \in Slots
  BY <1>1 DEF Mem, FreeOK, IsMem
<1>3. CASE ~m.cache[c].changed
  BY <1>3 DEF WriteIfChanged, SameBut
<1>4. CASE m.cache[c].changed
  <2> DEFINE a == m.cache[c].adr
             obj == BucketObj(m.cache[c].bucket)
             d == Put(m.disk, a, block_size, obj)
  <2>1. a # 0 /\ a # Adr(m)
    BY <1>1, <1>2, <1>4 DEF Marked, Mem, Cached, Adr
  <2>2. r = SetWritten(m, c, d, m.bucket_changed)
    BY <1>2, <1>4, WriteBucketIs DEF WriteIfChanged
  <2>3. Flush(m, c, m.bucket_changed, r)
    BY <2>2 DEF Flush
  <2>o. obj[1] # "dir"
    BY DEF BucketObj
  <2> HIDE DEF obj
  <2>4. /\ OnlyFile(m, r) /\ r.disk = d /\ r.bucket_changed = m.bucket_changed
        /\ ~r.cache[c].changed /\ r.cache[c].data = NoData
        /\ \A e \in Slots : e # c => r.cache[e] = m.cache[e]
        /\ r.last_read = m.last_read /\ r.header_changed = m.header_changed
        /\ r.directory_changed = m.directory_changed /\ r.popped = m.popped
    <3> HIDE DEF d
    <3> QED BY <1>2, <2>2, SetWrittenIs
  <2>5. Mem(r, own, B, Adr(m), Adr(r), k) /\ Adr(r) = Adr(m) /\ Bucket(r) = Bucket(m) /\ a \in Nat
    <3>1. Mem(m, own, B, Adr(m), Adr(m), k) /\ m.cache[c].adr # 0 /\ m.cache[c].adr # Adr(m)
      BY <1>1, <2>1
    <3> HIDE DEF d, a
    <3> QED BY <2>3, <3>1, FlushWrites DEF a
  <2>6. SameBut(m, r) /\ Marked(r)
    BY <2>4, <2>5 DEF SameBut, OnlyFile, Marked
  <2>7. Cur(r, B) /\ OldDirs(r, own, o)
    BY <1>1, <2>6 DEF Cur, SameBut, OldDirs, Safe
  <2>8. Old(r, own, o)
    <3>1. OldFile(m, o) /\ Safe(m, o, a, block_size) /\ block_size \in Nat
      BY <1>1, <1>4, Consts DEF Old, OldFile, NewSafe
    <3>2. r.disk = Put(m.disk, a, block_size, obj) /\ r.popped = m.popped
      BY <2>4
    <3> HIDE DEF a, d
    <3>3. OldFile(r, o)
      BY <2>5, <2>o, <3>1, <3>2, OldPut
    <3> QED
      BY <1>1, <2>5, <3>2, <3>3 DEF Old, OldFile, Link
  <2>9. NewSafe(r, o)
    BY <2>4, <1>1, <1>2, NewSafeKept
  <2> QED
    BY <2>4, <2>5, <2>6, <2>7, <2>8, <2>9 DEF Busy
<1> QED
  BY <1>3, <1>4

LEMMA VictimBusy ==
    ASSUME NEW m, NEW own, NEW B, NEW o, NEW k, Busy(m, own, B, o, k), Marked(m), NEW v, v = Victim(m)
    PROVE  /\ Busy(v.m, own, B, o, k) /\ SameBut(m, v.m) /\ Marked(v.m)
           /\ v.c \in Slots /\ v.c # m.cur /\ v.c # m.last_read /\ v.m.last_read = v.c
           /\ ~v.m.cache[v.c].changed
           /\ \A e \in Slots : e # v.c => v.m.cache[e] = m.cache[e]
<1> DEFINE c == v.c
           s == SetRead(m, c)
<1>1. Turned(m.last_read, m.cur, c) /\ v.m = WriteIfChanged(s, c)
  BY DEF Victim, Turned, SetRead
<1>2. IsMem(m) /\ m.cur \in Slots /\ m.last_read \in Slots \cup {-1}
  BY DEF Busy, Mem, FreeOK, IsMem, FlagsOK
<1> HIDE DEF c
<1>3. c \in Slots /\ c # m.cur /\ c # m.last_read
  BY <1>1, <1>2, TurnedIs
<1>4. Busy(s, own, B, o, k) /\ Adr(s) = Adr(m) /\ Bucket(s) = Bucket(m)
  BY <1>3, ReadBusy
<1>5. /\ SameFile(m, s) /\ s.bucket_dir = m.bucket_dir
      /\ s.cur = m.cur /\ s.cache = m.cache /\ s.last_read = c /\ s.open = m.open
  BY <1>2, SetReadIs
<1> HIDE DEF s
<1>6. Marked(s)
  BY <1>5 DEF Marked
<1>7. /\ Busy(v.m, own, B, o, k) /\ SameBut(s, v.m) /\ Marked(v.m) /\ ~v.m.cache[c].changed
      /\ v.m.last_read = s.last_read /\ \A e \in Slots : e # c => v.m.cache[e] = s.cache[e]
  <2> DEFINE r == v.m
  <2>1. r = WriteIfChanged(s, c) /\ c # s.cur
    BY <1>1, <1>3, <1>5
  <2> HIDE DEF r
  <2>2. /\ Busy(r, own, B, o, k) /\ SameBut(s, r) /\ Marked(r) /\ ~r.cache[c].changed
        /\ r.last_read = s.last_read /\ \A e \in Slots : e # c => r.cache[e] = s.cache[e]
    BY <1>3, <1>4, <1>6, <2>1, FlushBusy
  <2> QED
    BY <2>2 DEF r
<1>8. SameBut(m, v.m)
  BY <1>4, <1>5, <1>7 DEF SameBut, SameFile
<1> QED
  BY <1>3, <1>5, <1>7, <1>8 DEF c

LEMMA HeldStays ==
    ASSUME NEW m, NEW own, NEW o, NEW r, NEW own2, HeldKept(own, own2, {}), m.popped => r.popped,
           NEW x, NEW n, Region(m, own, o, x, n)
    PROVE  Region(r, own2, o, x, n)
<1> DEFINE t == Held(x)
<1>1. x \in Nat /\ n \in Nat /\ Owned(own, x, n, t) /\ t[1] = Holding
  BY TagIs DEF Region, Held
<1> HIDE DEF t
<1>2. Owned(own2, x, n, t)
  BY <1>1, SpanNat DEF HeldKept, Owned
<1> QED
  BY <1>2 DEF Region, Safe, t

LEMMA RegionAt ==
    ASSUME NEW m, NEW own, NEW o, NEW x, NEW n, Region(m, own, o, x, n)
    PROVE  x \in Nat /\ own[x] = Held(x) /\ own[x][1] = Holding
BY TagIs DEF Region, Span, Owned, Held

LEMMA AllocTurn ==
    ASSUME NEW m, NEW own, NEW B, NEW o, NEW k, NEW el, Turning(m, own, B, o, k, el),
           NEW n \in Nat \ {0}, NEW a, a = Alloc(m, n)
    PROVE  \E own2 : /\ Turning(a.m, own2, B, o, k, el) /\ OnlySpace(m, a.m)
                     /\ Region(a.m, own2, o, a.adr, n)
                     /\ RegionsKept(m, own, o, a.m, own2, a.adr)
<1>1. /\ Busy(m, own, B, o, k) /\ Marked(m)
      /\ Bucket(m).elems = B[Adr(m)].elems /\ k \notin DOMAIN B[Adr(m)].elems
      /\ m.dir[DirIndex(k, m.header.dir_bits)] = Adr(m)
      /\ el \in AvType /\ Region(m, own, o, el.adr, el.size)
  BY DEF Turning
<1>2. PICK own2 : Got(m, own, B, o, k, a, own2, n)
  BY <1>1, BusyAlloc
<1>3. /\ Busy(a.m, own2, B, o, k) /\ OnlySpace(m, a.m) /\ Adr(a.m) = Adr(m)
      /\ (m.popped => a.m.popped) /\ HeldKept(own, own2, {})
      /\ Region(a.m, own2, o, a.adr, n)
      /\ \A u \in Span(a.adr, n) : FreeUnit(own[u], Adr(m))
  BY <1>2 DEF Got, BusyStep, Region
<1>4. RegionsKept(m, own, o, a.m, own2, a.adr)
  <2> SUFFICES ASSUME NEW x, NEW y, Region(m, own, o, x, y) PROVE Region(a.m, own2, o, x, y) /\ x # a.adr
    BY DEF RegionsKept
  <2>1. Region(a.m, own2, o, x, y)
    BY <1>3, HeldStays
  <2>2. own[x][1] = Holding
    BY RegionAt
  <2>3. FreeUnit(own[a.adr], Adr(m))
    BY <1>3 DEF Region, Span
  <2> QED
    BY <2>1, <2>2, <2>3, Kinds DEF FreeUnit, NearUnit
<1>5. Bucket(a.m).elems = Bucket(m).elems /\ a.m.dir = m.dir /\ a.m.header.dir_bits = m.header.dir_bits
  BY <1>3 DEF OnlySpace, Rest
<1>6. Marked(a.m)
  BY <1>1, <1>3, SpaceMarked DEF Busy, Mem, FreeOK, IsMem
<1>7. Turning(a.m, own2, B, o, k, el)
  BY <1>1, <1>3, <1>4, <1>5, <1>6 DEF Turning, RegionsKept
<1> QED
  BY <1>3, <1>4, <1>7

LEMMA VictimTurn ==
    ASSUME NEW m, NEW own, NEW B, NEW o, NEW k, NEW el, Turning(m, own, B, o, k, el), NEW v, v = Victim(m)
    PROVE  /\ Turning(v.m, own, B, o, k, el) /\ SameBut(m, v.m)
           /\ v.c \in Slots /\ v.c # m.cur /\ v.c # m.last_read /\ v.m.last_read = v.c
           /\ ~v.m.cache[v.c].changed
           /\ \A e \in Slots : e # v.c => v.m.cache[e] = m.cache[e]
BY VictimBusy DEF Turning, Region, Safe, SameBut

LEMMA SpareKept ==
    ASSUME NEW m, NEW v, Spare(m, v), NEW r, OnlySpace(m, r)
    PROVE  Spare(r, v)
BY DEF OnlySpace, Rest, Spare

LEMMA TwoVictims ==
    ASSUME NEW m, NEW own, NEW B, NEW o, NEW k, NEW el, Turning(m, own, B, o, k, el),
           NEW v0, v0 = Victim(m), NEW v1, v1 = Victim(v0.m)
    PROVE  Turning(v1.m, own, B, o, k, el) /\ Spare(v1.m, <<v0.c, v1.c>>) /\ SameBut(m, v1.m)
<1>1. /\ Turning(v0.m, own, B, o, k, el) /\ SameBut(m, v0.m)
      /\ v0.c \in Slots /\ v0.c # m.cur /\ v0.m.last_read = v0.c
      /\ ~v0.m.cache[v0.c].changed
  BY VictimTurn
<1>2. /\ Turning(v1.m, own, B, o, k, el) /\ SameBut(v0.m, v1.m)
      /\ v1.c \in Slots /\ v1.c # v0.m.cur /\ v1.c # v0.m.last_read
      /\ ~v1.m.cache[v1.c].changed
      /\ \A e \in Slots : e # v1.c => v1.m.cache[e] = v0.m.cache[e]
  BY <1>1, VictimTurn
<1> DEFINE v == <<v0.c, v1.c>>
<1>3. v[1] = v0.c /\ v[2] = v1.c
  OBVIOUS
<1> HIDE DEF v
<1>4. Spare(v1.m, v)
  BY <1>1, <1>2, <1>3 DEF Spare, SameBut
<1>5. SameBut(m, v1.m)
  BY <1>1, <1>2 DEF SameBut
<1> QED
  BY <1>2, <1>4, <1>5 DEF v

LEMMA AppendTable ==
    ASSUME NEW av, NEW own, NEW kind, NEW o, Table(av, own, kind, o), NEW e \in AvType,
           Owned(own, e.adr, e.size, Tag(kind, o, e.adr)), \A i \in DOMAIN av : av[i].adr # e.adr
    PROVE  Table(Append(av, e), own, kind, o)
<1> DEFINE w == Append(av, e)
<1>1. av \in Seq(AvType)
  BY DEF Table
<1>2. w \in Seq(AvType) /\ DOMAIN w = DOMAIN av \cup {Len(av) + 1} /\ Len(av) + 1 \notin DOMAIN av
      /\ w[Len(av) + 1] = e /\ \A i \in DOMAIN av : w[i] = av[i]
  BY <1>1
<1> HIDE DEF w
<1> QED
  BY <1>2 DEF Table, w

LEMMA DirMovedIs ==
    ASSUME NEW own, NEW adr \in Nat, NEW n \in Nat, NEW old
    PROVE  LET own2 == DirMoved(own, adr, n, old)
           IN /\ Owned(own2, adr, n, DirTag)
              /\ \A u \in Nat : u \notin Span(adr, n) /\ own[u] = DirTag => own2[u] = Tag(OldDir, Nobody, old)
              /\ \A u \in Nat : u \notin Span(adr, n) /\ own[u] # DirTag => own2[u] = own[u]
              /\ \A u \in Nat : u \in Span(adr, n) => own2[u] = DirTag
<1>1. \A u \in Span(adr, n) : u \in Nat
  BY SpanNat
<1> QED
  BY <1>1, Zenon DEF DirMoved, Owned

LEMMA NewDirIs ==
    ASSUME NEW a, NEW m, m = a.m, IsMem(m), NEW nb, NEW r, r = NewDir(a, nb)
    PROVE  WithDir(m, r, a.adr, nb)
<1>0. IsRec(m) /\ m.cur \in Slots /\ IsHeader(m.header) /\ m.cache = [e \in Slots |-> m.cache[e]]
      /\ \A e \in Slots : IsEntry(m.cache[e])
  BY DEF IsMem, IsRec
<1>1. /\ IsRec(r) /\ r.disk = m.disk /\ r.cur = m.cur /\ r.cache = m.cache /\ r.last_read = m.last_read
           /\ r.header.dir = a.adr /\ r.header.dir_bits = nb /\ r.header.next_block = m.header.next_block
           /\ r.header.avail = m.header.avail /\ r.header.av_next = m.header.av_next
           /\ r.bucket_dir = 2 * m.bucket_dir /\ r.dir = [i \in 0 .. Two[nb] - 1 |-> m.dir[i \div 2]]
           /\ r.old = Append(m.old, [adr |-> m.header.dir, size |-> DirSize(m.header.dir_bits)])
           /\ r.header_changed /\ r.directory_changed = m.directory_changed
           /\ r.bucket_changed = m.bucket_changed /\ r.second_changed = m.second_changed
           /\ r.popped = m.popped /\ r.open = m.open /\ IsHeader(r.header)
  BY <1>0 DEF IsRec, NewDir, IsHeader
<1>2. IsMem(r)
  BY <1>0, <1>1 DEF IsMem, IsRec
<1> QED
  BY <1>1, <1>2 DEF WithDir

LEMMA LengthIs ==
    ASSUME NEW a, NEW m, m = a.m, IsMem(m), NEW r, r = NewDir(a, m.header.dir_bits + 1)
    PROVE  Lengthened(m, r, a.adr)
BY NewDirIs DEF Lengthened

\* What keeps its owners when the directory moves.
LEMMA OwnedApart ==
    ASSUME NEW own, NEW own2, NEW adr, NEW n, NEW old, DirTags(own, own2, adr, n, old),
           NEW x \in Nat, NEW y \in Nat, NEW t, Owned(own, x, y, t), t # Held(adr), t # DirTag
    PROVE  Owned(own2, x, y, t)
<1>1. \A u \in Span(x, y) : u \in Nat /\ own[u] = t
  BY SpanNat DEF Owned
<1> QED
  BY <1>1, Zenon DEF Owned, DirTags

LEMMA TableApart ==
    ASSUME NEW own, NEW own2, NEW adr, NEW n, NEW old, DirTags(own, own2, adr, n, old),
           NEW av, NEW kind, NEW o, kind # Holding, kind # TheDir, Table(av, own, kind, o)
    PROVE  Table(av, own2, kind, o)
BY TagIs, TableKept DEF DirTags, Held, DirTag

LEMMA LongFree ==
    ASSUME NEW m, NEW r, NEW own, NEW own2, NEW adr, Lengthened(m, r, adr), FreeOK(m, own),
           NEW n, DirTags(own, own2, adr, n, m.header.dir)
    PROVE  FreeOK(r, own2)
<1> DEFINE dt == DirTag
           ot == Tag(OldDir, Nobody, m.header.dir)
           ht == Held(adr)
<1>1. Taken(dt, Adr(m)) /\ Taken(ot, Adr(m)) /\ Taken(ht, Adr(m))
  BY TagIs, Kinds, HeldTaken DEF Taken, FreeUnit, NearUnit, DirTag
<1>2. \A u \in Nat : own2[u] = own[u] \/ (own[u] \in {ht, dt} /\ own2[u] \in {dt, ot})
  BY DEF DirTags
<1>3. \A u \in Nat : own2[u] = own[u] \/ (Taken(own[u], Adr(m)) /\ Taken(own2[u], Adr(m)))
  <2> HIDE DEF dt, ot, ht
  <2> QED BY <1>1, <1>2
<1>4. FreeOK(m, own2)
  BY <1>3, FreeRetag
<1> QED
  BY <1>4 DEF FreeOK, Lengthened, Bucket, Adr, WithDir

LEMMA LongHomes ==
    ASSUME NEW m, NEW r, NEW own, NEW own2, NEW adr \in Nat, Lengthened(m, r, adr), NEW B,
           Homes(own, m.header, B), NEW n, n = DirSize(m.header.dir_bits + 1), n \in Nat,
           DirTags(own, own2, adr, n, m.header.dir)
    PROVE  Homes(own2, r.header, B)
<1>1. Owned(own2, 0, block_size, Tag(TheHeader, Nobody, Nobody))
  BY TagIs, Kinds, Consts, OwnedApart DEF Held, DirTag, Homes
<1>2. Owned(own2, adr, n, DirTag)
  BY SpanNat DEF Owned, DirTags
<1>3. ASSUME NEW a \in DOMAIN B
      PROVE  a \in Nat /\ a # 0 /\ IsBucket(B[a]) /\ Owned(own2, a, block_size, Tag(ABucket, Nobody, a))
  BY TagIs, Kinds, Consts, OwnedApart DEF Held, DirTag, Homes
<1>4. ASSUME NEW a \in DOMAIN B, NEW k \in DOMAIN B[a].elems PROVE HasRecord(own2, B[a].elems[k], k)
  BY TagIs, Kinds, OwnedApart DEF Held, DirTag, Homes, HasRecord, AvType
<1> QED
  BY <1>1, <1>2, <1>3, <1>4 DEF Homes, Lengthened, DirTag, WithDir

LEMMA LongOldDirs ==
    ASSUME NEW m, NEW r, NEW own, NEW own2, NEW adr \in Nat, Lengthened(m, r, adr), NEW B, NEW o,
           Homes(own, m.header, B), m.header.dir_bits \in InitBits .. HashBits,
           NEW n, DirTags(own, own2, adr, n, m.header.dir),
           OldDirs(m, own, o), Safe(m, o, m.header.dir, DirSize(m.header.dir_bits))
    PROVE  OldDirs(r, own2, o) /\ r.old # <<>>
<1> DEFINE x == m.header.dir
           y == DirSize(m.header.dir_bits)
           e == [adr |-> x, size |-> y]
           t == Tag(OldDir, Nobody, x)
<1>1. x \in Nat /\ y \in Nat \ {0} /\ Owned(own, x, y, DirTag)
  BY DirSizeNat DEF Homes, DirTag
<1>2. Table(m.old, own, OldDir, Nobody) /\ \A i \in DOMAIN m.old : Safe(m, o, m.old[i].adr, m.old[i].size)
  BY DEF OldDirs
<1>3. r.old = Append(m.old, e) /\ r.popped = m.popped
  BY DEF Lengthened, WithDir
<1>4. e \in AvType /\ e.adr = x /\ e.size = y
  BY <1>1 DEF AvType
<1> HIDE DEF x, y, e
<1>5. Owned(own2, x, y, t)
  <2> SUFFICES ASSUME NEW u \in Span(x, y) PROVE own2[u] = t
    BY DEF Owned
  <2>1. u \in Nat /\ own[u] = DirTag
    BY <1>1, SpanNat DEF Owned
  <2>2. DirTag # Held(adr)
    BY TagIs, Kinds DEF DirTag, Held
  <2>3. own2[u] = Tag(OldDir, Nobody, m.header.dir)
    BY <2>1, <2>2, Zenon DEF DirTags
  <2> QED
    BY <2>3 DEF x
<1>6. Table(m.old, own2, OldDir, Nobody)
  BY <1>2, TableApart, Kinds
<1>7. \A i \in DOMAIN m.old : m.old[i].adr # x
  <2> SUFFICES ASSUME NEW i \in DOMAIN m.old, m.old[i].adr = x PROVE FALSE
    OBVIOUS
  <2>1. m.old[i] \in AvType /\ Owned(own, m.old[i].adr, m.old[i].size, Tag(OldDir, Nobody, m.old[i].adr))
    BY <1>2, InSeq DEF Table
  <2>2. x \in Span(m.old[i].adr, m.old[i].size) /\ x \in Span(x, y)
    BY <1>1, <2>1 DEF AvType, Span
  <2>3. own[x][1] = OldDir
    BY <2>1, <2>2, OwnedTag
  <2>4. own[x] = DirTag
    BY <1>1, <2>2 DEF Owned
  <2> QED
    BY <2>3, <2>4, TagIs, Kinds DEF DirTag
<1>8. m.old \in Seq(AvType)
  BY <1>2 DEF Table
<1>9. Table(r.old, own2, OldDir, Nobody)
  BY <1>4, <1>5, <1>3, <1>6, <1>7, AppendTable
<1>10. DOMAIN r.old = DOMAIN m.old \cup {Len(m.old) + 1} /\ r.old[Len(m.old) + 1] = e
       /\ (\A i \in DOMAIN m.old : r.old[i] = m.old[i]) /\ r.old # <<>>
  BY <1>3, <1>4, <1>8
<1>11. \A a, z : Safe(m, o, a, z) => Safe(r, o, a, z)
  BY <1>3 DEF Safe
<1>12. Safe(m, o, x, y)
  BY DEF x, y
<1>13. \A i \in DOMAIN r.old : Safe(r, o, r.old[i].adr, r.old[i].size)
  BY <1>2, <1>4, <1>10, <1>11, <1>12
<1> QED
  BY <1>9, <1>10, <1>13 DEF OldDirs

LEMMA LongMem ==
    ASSUME NEW m, NEW r, NEW own, NEW own2, NEW adr \in Nat, Lengthened(m, r, adr), NEW B, NEW k,
           Mem(m, own, B, Adr(m), Adr(m), k), m.header.dir_bits < HashBits,
           NEW n, n = DirSize(m.header.dir_bits + 1),
           DirTags(own, own2, adr, n, m.header.dir), r.old # <<>>
    PROVE  Mem(r, own2, B, Adr(r), Adr(r), k)
<1> DEFINE db == m.header.dir_bits
<1>1. /\ FreeOK(m, own) /\ DirOK(m.dir, db, B) /\ Homes(own, m.header, B) /\ Tables(own, B, Adr(m))
      /\ HeaderOn(m) /\ DirOn(m) /\ BucketsOn(m, B, Adr(m))
      /\ Cached(m, B, Adr(m)) /\ DataOK(m, B, Adr(m)) /\ RecordsIn(m.disk, B, k) /\ FlagsOK(m)
  BY DEF Mem
<1>2. db \in InitBits .. HashBits /\ db + 1 \in InitBits .. HashBits
  BY <1>1, BitConsts DEF DirOK, DirShape
<1>3. n \in Nat
  BY <1>2, DirSizeNat
<1>4. FreeOK(r, own2)
  BY <1>1, LongFree
<1>5. DirOK(r.dir, r.header.dir_bits, B)
  <2> DEFINE dir2 == r.dir
  <2>1. dir2 = [i \in 0 .. Two[db + 1] - 1 |-> m.dir[i \div 2]] /\ r.header.dir_bits = db + 1
    BY DEF Lengthened, WithDir
  <2> HIDE DEF dir2, db
  <2>2. DirOK(dir2, db + 1, B)
    BY <1>1, <2>1, DoubledDir DEF db
  <2> QED
    BY <2>1, <2>2 DEF dir2
<1>6. Homes(own2, r.header, B)
  BY <1>1, <1>3, LongHomes
<1>7. Tables(own2, B, Adr(m))
  BY <1>1, TableApart, Kinds DEF Tables
<1>8. Adr(r) = Adr(m)
  BY DEF Lengthened, Adr, WithDir
<1>9. HeaderOn(r) /\ DirOn(r) /\ BucketsOn(r, B, Adr(m)) /\ FlagsOK(r)
  BY <1>1 DEF HeaderOn, DirOn, BucketsOn, BucketOn, Pending, FlagsOK, Lengthened, WithDir
<1>10. Cached(r, B, Adr(m)) /\ DataOK(r, B, Adr(m)) /\ RecordsIn(r.disk, B, k)
  BY <1>1 DEF Cached, DataOK, Lengthened, WithDir
<1> QED
  BY <1>4, <1>5, <1>6, <1>7, <1>8, <1>9, <1>10 DEF Mem

LEMMA LongRegions ==
    ASSUME NEW m, NEW r, NEW own, NEW own2, NEW adr \in Nat, NEW o, r.popped = m.popped,
           NEW n, NEW old, DirTags(own, own2, adr, n, old)
    PROVE  RegionsBut(m, own, o, r, own2, adr)
<1> SUFFICES ASSUME NEW x, NEW y, Region(m, own, o, x, y), x # adr PROVE Region(r, own2, o, x, y)
  BY DEF RegionsBut
<1>1. x \in Nat /\ y \in Nat \ {0} /\ Owned(own, x, y, Held(x)) /\ Safe(m, o, x, y)
  BY DEF Region
<1>2. Held(x) # Held(adr) /\ Held(x) # DirTag
  BY TagIs, Kinds DEF Held, DirTag
<1>3. Owned(own2, x, y, Held(x))
  BY <1>1, <1>2, OwnedApart
<1>4. Safe(r, o, x, y)
  BY <1>1 DEF Safe
<1> QED
  BY <1>1, <1>3, <1>4 DEF Region

LEMMA LongIndex ==
    ASSUME NEW m, NEW r, NEW B, NEW adr, Lengthened(m, r, adr), DirOK(m.dir, m.header.dir_bits, B),
           m.header.dir_bits < HashBits, Cur(m, B), NEW k \in Keys,
           m.dir[DirIndex(k, m.header.dir_bits)] = Adr(m)
    PROVE  Cur(r, B) /\ r.dir[DirIndex(k, r.header.dir_bits)] = Adr(r)
<1> DEFINE db == m.header.dir_bits
           dir2 == r.dir
<1>1. db \in InitBits .. HashBits /\ db + 1 \in InitBits .. HashBits /\ db \in Nat /\ db + 1 \in 0 .. HashBits
      /\ db \in 0 .. db + 1 /\ db < HashBits
  BY BitConsts DEF DirOK, DirShape
<1>2. dir2 = [i \in 0 .. Two[db + 1] - 1 |-> m.dir[i \div 2]] /\ r.header.dir_bits = db + 1
      /\ r.bucket_dir = 2 * m.bucket_dir /\ Adr(r) = Adr(m) /\ Bucket(r).bits = Bucket(m).bits
  BY DEF Lengthened, Adr, Bucket, WithDir
<1>3. DirOK(m.dir, db, B) /\ m.dir[DirIndex(k, db)] = Adr(m)
  OBVIOUS
<1>4. Adr(m) \in DOMAIN B /\ Bucket(m).bits = B[Adr(m)].bits
      /\ m.bucket_dir \in Entries(db) /\ m.dir[m.bucket_dir] = Adr(m)
  BY DEF Cur
<1> HIDE DEF dir2, db
<1>5. \A i \in 0 .. Two[db] - 1 : 2 * i \in 0 .. Two[db + 1] - 1 /\ dir2[2 * i] = m.dir[i]
  BY <1>1, <1>2, <1>3, DoubledDir
<1>6. r.bucket_dir \in Entries(db + 1) /\ dir2[r.bucket_dir] = Adr(m)
  BY <1>2, <1>4, <1>5 DEF Entries
<1>7. DirIndex(k, db + 1) \in Nat /\ DirIndex(k, db + 1) < Two[db + 1]
      /\ DirIndex(k, db + 1) \div Two[db + 1 - db] = DirIndex(k, db)
  BY <1>1, IndexIs
<1>8. Two[db + 1 - db] = 2
  BY <1>1, TwoIs, BitConsts
<1>9. Two[db + 1] \in Nat
  BY <1>1, TwoPos
<1>10. dir2[DirIndex(k, db + 1)] = m.dir[DirIndex(k, db)]
  BY <1>2, <1>7, <1>8, <1>9
<1>11. Cur(r, B)
  BY <1>2, <1>4, <1>6 DEF Cur, dir2
<1> QED
  BY <1>2, <1>3, <1>10, <1>11 DEF dir2

\* One turn of the loop has a directory that is long enough.
LEMMA LongTurn ==
    ASSUME NEW m, NEW own, NEW B, NEW o, NEW k \in Keys, NEW el, Turning(m, own, B, o, k, el),
           NEW a, a.m = m, m.header.dir_bits < HashBits,
           Region(m, own, o, a.adr, DirSize(m.header.dir_bits + 1)), a.adr # el.adr,
           NEW r, r = NewDir(a, m.header.dir_bits + 1)
    PROVE  \E own2 : /\ Turning(r, own2, B, o, k, el) /\ r.old # <<>>
                     /\ RegionsBut(m, own, o, r, own2, a.adr)
                     /\ r.header.dir_bits = m.header.dir_bits + 1
                     /\ r.cur = m.cur /\ r.cache = m.cache /\ r.open = m.open
<1> DEFINE db == m.header.dir_bits
           n == DirSize(db + 1)
           adr == a.adr
           own2 == DirMoved(own, adr, n, m.header.dir)
<1>1. /\ Busy(m, own, B, o, k) /\ Marked(m)
      /\ Bucket(m).elems = B[Adr(m)].elems /\ k \notin DOMAIN B[Adr(m)].elems
      /\ m.dir[DirIndex(k, db)] = Adr(m)
      /\ el \in AvType /\ Region(m, own, o, el.adr, el.size)
  BY DEF Turning
<1>2. Mem(m, own, B, Adr(m), Adr(m), k) /\ Cur(m, B) /\ Old(m, own, o) /\ NewSafe(m, o) /\ OldDirs(m, own, o)
  BY <1>1 DEF Busy
<1>3. FreeOK(m, own) /\ DirOK(m.dir, db, B) /\ Homes(own, m.header, B) /\ IsMem(m)
  BY <1>2 DEF Mem, FreeOK
<1>4. Lengthened(m, r, adr)
  <2>1. r = NewDir(a, m.header.dir_bits + 1) /\ m = a.m /\ IsMem(m)
    BY <1>3
  <2> QED
    BY <2>1, LengthIs DEF adr
<1>5. adr \in Nat /\ n \in Nat \ {0} /\ Owned(own, adr, n, Held(adr)) /\ Safe(m, o, adr, n)
  BY DEF Region
<1>6. DirTags(own, own2, adr, n, m.header.dir)
  <2> HIDE DEF n, adr
  <2> QED BY <1>5, DirMovedIs DEF DirTags, Owned
<1> HIDE DEF own2, n, adr
<1>7. OldDirs(r, own2, o) /\ r.old # <<>>
  <2>1. db \in InitBits .. HashBits /\ Safe(m, o, m.header.dir, DirSize(m.header.dir_bits)) /\ OldDirs(m, own, o)
    BY <1>2, <1>3 DEF DirOK, DirShape, NewSafe
  <2> QED
    BY <1>3, <1>4, <1>5, <1>6, <2>1, LongOldDirs
<1>8. Mem(r, own2, B, Adr(r), Adr(r), k)
  BY <1>2, <1>4, <1>5, <1>6, <1>7, LongMem DEF n
<1>9. Cur(r, B) /\ r.dir[DirIndex(k, r.header.dir_bits)] = Adr(r)
  BY <1>1, <1>2, <1>3, <1>4, LongIndex
<1>10. Old(r, own2, o)
  <2>1. \A u \in Nat : NearUnit(own2[u], Adr(m)) => NearUnit(own[u], Adr(m))
    BY <1>6, TagIs, Kinds DEF DirTags, NearUnit, DirTag
  <2>2. r.disk = m.disk /\ r.popped = m.popped /\ Adr(r) = Adr(m)
    BY <1>4 DEF Lengthened, Adr, WithDir
  <2> QED
    BY <1>2, <2>1, <2>2 DEF Old, Link
<1>11. NewSafe(r, o)
  BY <1>4, <1>2, <1>5 DEF Safe, Lengthened, WithDir, Adr, n, NewSafe
<1>12. RegionsBut(m, own, o, r, own2, adr)
  BY <1>4, <1>5, <1>6, LongRegions DEF Lengthened, WithDir
<1>13. Marked(r) /\ Bucket(r) = Bucket(m) /\ Adr(r) = Adr(m)
  BY <1>1, <1>4 DEF Lengthened, Marked, Bucket, Adr, WithDir
<1>14. Region(r, own2, o, el.adr, el.size)
  BY <1>1, <1>12 DEF RegionsBut, adr
<1>15. Turning(r, own2, B, o, k, el)
  BY <1>1, <1>7, <1>8, <1>9, <1>10, <1>11, <1>13, <1>14 DEF Turning, Busy
<1> QED
  BY <1>4, <1>7, <1>12, <1>15 DEF Lengthened, adr, WithDir

(* A full bucket's keys do not all have one hash value.                    *)
LEMMA IndexAll == \A q \in Keys : DirIndex(q, HashBits) = Hash[q]
<1> TAKE q \in Keys
<1>1. Two[HashBits - HashBits] = 1 /\ Hash[q] \in Nat
  BY TwoIs, BitConsts
<1> QED
  BY <1>1 DEF DirIndex

LEMMA Crowded ==
    ASSUME NEW dir, NEW db, NEW B, DirOK(dir, db, B), NEW A \in DOMAIN B, NEW k \in Keys,
           dir[DirIndex(k, db)] = A, k \notin DOMAIN B[A].elems,
           Cardinality(DOMAIN B[A].elems) = bucket_elems
    PROVE  B[A].bits < HashBits /\ B[A].bits \in 0 .. db
<1>1. B[A].bits \in 0 .. db /\ db \in 0 .. HashBits /\ db \in Nat /\ HashBits \in Nat
  BY BitConsts DEF DirOK, DirGroups, DirShape
<1>2. SUFFICES ASSUME B[A].bits = HashBits PROVE FALSE
  BY <1>1
<1>3. db = HashBits /\ db - B[A].bits = 0
  BY <1>1, <1>2
<1>4. ASSUME NEW q \in DOMAIN B[A].elems PROVE q \in Keys /\ Hash[q] = Hash[k]
  BY <1>3, IndexAll, BitConsts, TwoPos, TwoIs DEF DirOK, DirKeys, Entries, DirGroups, Grouped, SameBits
<1> DEFINE E == DOMAIN B[A].elems
           S == {x \in Keys : Hash[x] = Hash[k]}
<1>5. IsFiniteSet(S) /\ Cardinality(S) <= bucket_elems /\ bucket_elems \in Nat
  BY GdbmAssumption, FS_Subset
<1>6. E \cup {k} \subseteq S /\ k \notin E
  BY <1>4
<1>7. IsFiniteSet(E)
  BY <1>5, <1>6, FS_Subset
<1> HIDE DEF E, S
<1>8. IsFiniteSet(E \cup {k}) /\ Cardinality(E \cup {k}) = Cardinality(E) + 1
  BY <1>6, <1>7, FS_AddElement
<1>9. Cardinality(E \cup {k}) <= Cardinality(S)
  BY <1>5, <1>6, FS_Subset
<1>10. Cardinality(S) \in Nat /\ Cardinality(E) = bucket_elems
  BY <1>5, FS_CardinalityType DEF E
<1> QED
  BY <1>5, <1>8, <1>9, <1>10

LEMMA TurnCrowded ==
    ASSUME NEW m, NEW own, NEW B, NEW o, NEW k \in Keys, NEW el, Turning(m, own, B, o, k, el), Full(m)
    PROVE  Bucket(m).bits < HashBits /\ Bucket(m).bits \in 0 .. m.header.dir_bits
BY Crowded DEF Turning, Busy, Mem, Cur, Full

LEMMA LongDirTurn ==
    ASSUME NEW m, NEW own, NEW B, NEW o, NEW k \in Keys, NEW el, Turning(m, own, B, o, k, el),
           Bucket(m).bits < HashBits, Bucket(m).bits \in 0 .. m.header.dir_bits,
           NEW v, Spare(m, v), NEW r, r = LongDir(m)
    PROVE  \E own2 : /\ Turning(r, own2, B, o, k, el)
                     /\ AllRegions(m, own, o, r, own2)
                     /\ Spare(r, v) /\ Bucket(r).bits < r.header.dir_bits /\ r.open = m.open
<1> DEFINE db == m.header.dir_bits
<1>1. db \in InitBits .. HashBits /\ db \in Nat
  BY BitConsts DEF Turning, Busy, Mem, DirOK, DirShape
<1>2. CASE db # Bucket(m).bits
  BY <1>2, <1>1 DEF LongDir, AllRegions
<1>3. CASE db = Bucket(m).bits
  <2> DEFINE a == Alloc(m, DirSize(db + 1))
             n == DirSize(db + 1)
  <2>1. db + 1 \in InitBits .. HashBits /\ db < HashBits
    BY <1>1, <1>3, BitConsts
  <2>2. n \in Nat \ {0}
    BY <2>1, DirSizeNat
  <2>3. r = NewDir(a, db + 1)
    BY <1>3 DEF LongDir, DoubleDir
  <2>a. a = Alloc(m, n)
    OBVIOUS
  <2> HIDE DEF a, n
  <2>4. PICK o1 : /\ Turning(a.m, o1, B, o, k, el) /\ OnlySpace(m, a.m)
                  /\ Region(a.m, o1, o, a.adr, n) /\ RegionsKept(m, own, o, a.m, o1, a.adr)
    BY <2>2, <2>a, AllocTurn
  <2>5. a.m.header.dir_bits = db /\ Bucket(a.m).bits = Bucket(m).bits /\ a.m.cur = m.cur
        /\ a.m.open = m.open
    BY <2>4 DEF OnlySpace, Rest
  <2>6. Region(m, own, o, el.adr, el.size)
    BY DEF Turning
  <2>7. a.adr # el.adr
    BY <2>4, <2>6 DEF RegionsKept
  <2>8. PICK own2 : /\ Turning(r, own2, B, o, k, el) /\ r.old # <<>>
                    /\ RegionsBut(a.m, o1, o, r, own2, a.adr)
                    /\ r.header.dir_bits = a.m.header.dir_bits + 1
                    /\ r.cur = a.m.cur /\ r.cache = a.m.cache /\ r.open = a.m.open
    <3> DEFINE p == a.m
    <3>1. a.m = p /\ p.header.dir_bits = db
      BY <2>5
    <3> HIDE DEF p
    <3>2. Turning(p, o1, B, o, k, el) /\ p.header.dir_bits < HashBits
          /\ Region(p, o1, o, a.adr, DirSize(p.header.dir_bits + 1)) /\ r = NewDir(a, p.header.dir_bits + 1)
      BY <2>1, <2>3, <2>4, <3>1 DEF n
    <3>3. \E own2 : /\ Turning(r, own2, B, o, k, el) /\ r.old # <<>>
                    /\ RegionsBut(p, o1, o, r, own2, a.adr)
                    /\ r.header.dir_bits = p.header.dir_bits + 1
                    /\ r.cur = p.cur /\ r.cache = p.cache /\ r.open = p.open
      BY <2>7, <3>1, <3>2, LongTurn
    <3> QED
      BY <3>1, <3>3
  <2>9. AllRegions(m, own, o, r, own2)
    BY <2>4, <2>8 DEF AllRegions, RegionsKept, RegionsBut
  <2>10. Spare(a.m, v)
    BY <2>4, SpareKept
  <2>11. Spare(r, v)
    BY <2>8, <2>10 DEF Spare
  <2>12. Bucket(r).bits = Bucket(m).bits
    BY <2>5, <2>8 DEF Bucket
  <2> QED
    BY <1>1, <1>3, <2>5, <2>8, <2>9, <2>11, <2>12
<1> QED
  BY <1>2, <1>3

LEMMA FirstTableIs ==
    ASSUME NEW av, NEW own, NEW A, Table(av, own, BucketAvail, A), Len(av) <= BUCKET_AVAIL,
           NEW a, NEW own2,
           \A u \in Nat : \A x : own[u] = Tag(BucketAvail, A, x) /\ x \notin Passed(av) => own2[u] = Tag(BucketAvail, a, x)
    PROVE  Table(FirstTable(av), own2, BucketAvail, a) /\ Len(FirstTable(av)) < BUCKET_AVAIL
<1>1. av \in Seq(AvType) /\ \A i, j \in DOMAIN av : av[i].adr = av[j].adr => i = j
  BY DEF Table
<1>2. CASE Len(av) # BUCKET_AVAIL
  <2>1. FirstTable(av) = av /\ Passed(av) = {} /\ Len(av) < BUCKET_AVAIL
    BY <1>1, <1>2, Consts DEF FirstTable, Passed
  <2> DEFINE f == [j \in DOMAIN av |-> j]
  <2>2. /\ \A j \in DOMAIN av : f[j] \in DOMAIN av /\ av[j] = av[f[j]]
        /\ \A j, l \in DOMAIN av : f[j] = f[l] => j = l
    OBVIOUS
  <2> HIDE DEF f
  <2>3. \A u \in Nat : \A j \in DOMAIN av :
           own[u] = Tag(BucketAvail, A, av[j].adr) => own2[u] = Tag(BucketAvail, a, av[j].adr)
    BY <2>1
  <2>4. Table(av, own2, BucketAvail, a)
    BY <1>1, <2>2, <2>3, PartTable
  <2> QED
    BY <2>1, <2>4
<1>3. CASE Len(av) = BUCKET_AVAIL
  <2> DEFINE w == Tail(av)
             f == [j \in DOMAIN w |-> j + 1]
  <2>1. av # <<>>
    BY <1>1, <1>3, Consts
  <2>2. w \in Seq(AvType) /\ Len(w) = Len(av) - 1 /\ \A j \in DOMAIN w : j + 1 \in DOMAIN av /\ w[j] = av[j + 1]
    BY <1>1, <2>1
  <2>3. /\ \A j \in DOMAIN w : f[j] \in DOMAIN av /\ w[j] = av[f[j]]
        /\ \A j, l \in DOMAIN w : f[j] = f[l] => j = l
    BY <2>2
  <2>4. \A j \in DOMAIN w : w[j].adr # av[1].adr
    BY <1>1, <2>1, <2>2
  <2>5. Passed(av) = {av[1].adr} /\ FirstTable(av) = w
    BY <1>3 DEF Passed, FirstTable
  <2> HIDE DEF w, f
  <2>6. \A u \in Nat : \A j \in DOMAIN w :
           own[u] = Tag(BucketAvail, A, w[j].adr) => own2[u] = Tag(BucketAvail, a, w[j].adr)
    BY <2>4, <2>5
  <2>7. Table(w, own2, BucketAvail, a)
    BY <2>2, <2>3, <2>6, PartTable
  <2> QED
    BY <1>3, <2>2, <2>5, <2>7, Consts
<1> QED
  BY <1>2, <1>3

LEMMA OneTable ==
    ASSUME NEW e \in AvType, NEW own, NEW kind, NEW a, Owned(own, e.adr, e.size, Tag(kind, a, e.adr))
    PROVE  Table(<<e>>, own, kind, a) /\ Len(<<e>>) = 1
BY DEF Table

LEMMA SecondTableIs ==
    ASSUME NEW av, NEW own, NEW A, Table(av, own, BucketAvail, A), Len(av) <= BUCKET_AVAIL,
           NEW b \in Nat, NEW a, NEW own2, Owned(own, b, block_size, Held(b)),
           Owned(own2, b, block_size, Tag(BucketAvail, a, b)),
           \A u \in Nat : \A x : own[u] = Tag(BucketAvail, A, x) /\ x \in Passed(av) => own2[u] = Tag(BucketAvail, a, x)
    PROVE  Table(SecondTable(av, b), own2, BucketAvail, a) /\ Len(SecondTable(av, b)) < BUCKET_AVAIL
<1> DEFINE e == BlockAt(b)
           s == <<e>>
<1>1. av \in Seq(AvType) /\ e \in AvType /\ e.adr = b /\ e.size = block_size
  BY Consts DEF Table, BlockAt, AvType
<1> HIDE DEF e
<1>2. Table(s, own2, BucketAvail, a) /\ Len(s) = 1
  BY <1>1, OneTable
<1>3. CASE Len(av) # BUCKET_AVAIL
  BY <1>2, <1>3, Consts DEF SecondTable, e
<1>4. CASE Len(av) = BUCKET_AVAIL
  <2> DEFINE h == av[1]
             o1 == [u \in Nat |-> IF u \in Span(b, block_size) THEN Tag(BucketAvail, a, b) ELSE Tag(Holding, a, b)]
             t == Tag(BucketAvail, a, h.adr)
             o2 == Retag(o1, h.adr, h.size, t)
  <2>1. 1 \in DOMAIN av /\ Head(av) = h
    BY <1>1, <1>4, Consts
  <2>2. h \in AvType /\ h \in PieceType /\ h.adr \in Nat /\ h.size \in Nat
        /\ Owned(own, h.adr, h.size, Tag(BucketAvail, A, h.adr))
    <3>1. h \in AvType
      BY <1>1, <2>1, InSeq
    <3>2. Owned(own, av[1].adr, av[1].size, Tag(BucketAvail, A, av[1].adr))
      BY <2>1 DEF Table
    <3> QED
      BY <3>1, <3>2 DEF AvType, PieceType
  <2>3. SecondTable(av, b) = PutAv(s, h) /\ Passed(av) = {h.adr}
    BY <1>4, <2>1 DEF SecondTable, Passed, e
  <2>4. \A u \in Span(h.adr, h.size) : u \in Nat /\ u \notin Span(b, block_size)
    BY <2>2, SpanNat, TagIs, Kinds DEF Owned, Held
  <2>5. Table(s, o1, BucketAvail, a)
    <3>1. Owned(o1, b, block_size, Tag(BucketAvail, a, b))
      BY SpanNat, Consts DEF Owned
    <3> HIDE DEF o1
    <3>2. Owned(o1, e.adr, e.size, Tag(BucketAvail, a, e.adr))
      BY <1>1, <3>1
    <3> QED
      BY <1>1, <3>2, OneTable
  <2>6. \A u \in Span(h.adr, h.size) : o1[u][1] # BucketAvail \/ o1[u][2] # a
    BY <2>4, TagIs, Kinds
  <2>o. \A u \in Nat : u \in Span(b, block_size) \/ o1[u] = Tag(Holding, a, b)
    OBVIOUS
  <2> HIDE DEF o1, h, s
  <2>7. Table(PutAv(s, h), o2, BucketAvail, a) /\ Len(PutAv(s, h)) \in Nat /\ Len(PutAv(s, h)) <= Len(s) + 1
    BY <2>2, <2>5, <2>6, PutIn
  <2>8. \A u \in Nat : (u \in Span(h.adr, h.size) => o2[u] = t) /\ (u \notin Span(h.adr, h.size) => o2[u] = o1[u])
    BY RetagIs
  <2>9. \A u \in Nat : o2[u][1] = BucketAvail /\ o2[u][2] = a => own2[u] = o2[u]
    <3> SUFFICES ASSUME NEW u \in Nat, o2[u][1] = BucketAvail PROVE own2[u] = o2[u]
      OBVIOUS
    <3>1. CASE u \in Span(h.adr, h.size)
      BY <2>2, <2>3, <3>1, <2>8 DEF Owned
    <3>2. CASE u \notin Span(h.adr, h.size)
      BY <2>8, <3>2, <2>o, TagIs, Kinds DEF Owned, o1
    <3> QED
      BY <3>1, <3>2
  <2> HIDE DEF o2
  <2>10. Table(PutAv(s, h), own2, BucketAvail, a)
    BY <2>7, <2>9, TableKept
  <2> QED
    BY <1>2, <2>3, <2>7, <2>10, Consts DEF s
<1> QED
  BY <1>3, <1>4

LEMMA OtherTable ==
    ASSUME NEW w, NEW z, NEW own, NEW x, NEW y, x # y,
           Table(w, own, BucketAvail, x), Table(z, own, BucketAvail, y),
           NEW A \in Nat, Owned(own, A, block_size, Tag(ABucket, Nobody, A)),
           NEW own2, own2 = Retag(own, A, block_size, Tag(BucketAvail, x, A))
    PROVE  /\ Table(PutAv(w, BlockAt(A)), own2, BucketAvail, x) /\ Len(PutAv(w, BlockAt(A))) \in Nat
           /\ Len(PutAv(w, BlockAt(A))) <= Len(w) + 1
           /\ Table(z, own2, BucketAvail, y)
<1> DEFINE e == BlockAt(A)
<1>1. e \in PieceType /\ e.adr = A /\ e.size = block_size
  BY Consts DEF BlockAt, PieceType
<1>2. \A u \in Span(A, block_size) : own[u][1] = ABucket
  BY OwnedTag
<1> HIDE DEF e
<1>3. \A u \in Span(e.adr, e.size) : own[u][1] # BucketAvail \/ own[u][2] # x
  BY <1>1, <1>2, Kinds
<1>4. own2 = Retag(own, e.adr, e.size, Tag(BucketAvail, x, e.adr))
  BY <1>1
<1>5. /\ Table(PutAv(w, e), own2, BucketAvail, x) /\ Len(PutAv(w, e)) \in Nat
      /\ Len(PutAv(w, e)) <= Len(w) + 1
  BY <1>1, <1>3, <1>4, PutIn
<1>6. \A u \in Nat : own[u][1] = BucketAvail /\ own[u][2] = y => own2[u] = own[u]
  BY RetagIs, <1>2, Kinds
<1>7. Table(z, own2, BucketAvail, y)
  BY <1>6, TableKept
<1> QED
  BY <1>5, <1>7 DEF e

LEMMA DividedIs ==
    ASSUME NEW own, NEW A, NEW a, NEW c, NEW b, Pieces(own, A, a, c, b), NEW Z,
           NEW o1, o1 = Divided(own, A, a, c, b, Z)
    PROVE  /\ \A u \in Nat : own[u] = Held(a) => o1[u] = Tag(ABucket, Nobody, a)
           /\ \A u \in Nat : own[u] = Held(c) => o1[u] = Tag(ABucket, Nobody, c)
           /\ \A u \in Nat : own[u] = Held(b) /\ u \in Span(b, block_size) => o1[u] = Tag(BucketAvail, c, b)
           /\ \A u \in Nat : \A x : own[u] = Tag(BucketAvail, A, x) /\ x \notin Z => o1[u] = Tag(BucketAvail, a, x)
           /\ \A u \in Nat : \A x : own[u] = Tag(BucketAvail, A, x) /\ x \in Z => o1[u] = Tag(BucketAvail, c, x)
           /\ \A u \in Nat : ~Dealt(own[u], A, a, c, b) => o1[u] = own[u]
           /\ \A u \in Nat : \/ o1[u] = own[u] /\ ~Dealt(own[u], A, a, c, b)
                             \/ o1[u][1] \in {ABucket, Holding}
                             \/ u \in Span(b, block_size) \/ (own[u][1] = BucketAvail /\ own[u][2] = A)
<1>1. Held(a) # Held(c) /\ Held(a) # Held(b) /\ Held(c) # Held(b)
  BY TagIs DEF Held, Pieces
<1>2. \A x : Tag(BucketAvail, A, x) # Held(a) /\ Tag(BucketAvail, A, x) # Held(b) /\ Tag(BucketAvail, A, x) # Held(c)
  BY TagIs, Kinds DEF Held
<1>3. \A u \in Nat : own[u] = Held(a) => o1[u] = Tag(ABucket, Nobody, a)
  BY Zenon DEF Divided
<1>4. \A u \in Nat : own[u] = Held(c) => o1[u] = Tag(ABucket, Nobody, c)
  BY <1>1, Zenon DEF Divided
<1>5. \A u \in Nat : own[u] = Held(b) /\ u \in Span(b, block_size) => o1[u] = Tag(BucketAvail, c, b)
  BY <1>1, Zenon DEF Divided
<1>6. ASSUME NEW u \in Nat, NEW x, own[u] = Tag(BucketAvail, A, x)
      PROVE  (x \notin Z => o1[u] = Tag(BucketAvail, a, x)) /\ (x \in Z => o1[u] = Tag(BucketAvail, c, x))
  <2>1. own[u] # Held(a) /\ own[u] # Held(b) /\ own[u] # Held(c)
        /\ own[u][1] = BucketAvail /\ own[u][2] = A /\ own[u][3] = x
    BY <1>2, <1>6, TagIs
  <2>2. o1[u] = IF own[u][3] \in Z THEN Tag(BucketAvail, c, own[u][3]) ELSE Tag(BucketAvail, a, own[u][3])
    BY <2>1, Zenon DEF Divided
  <2> QED
    BY <2>1, <2>2, Zenon
<1>7. \A u \in Nat : ~Dealt(own[u], A, a, c, b) => o1[u] = own[u]
  <2> SUFFICES ASSUME NEW u \in Nat, ~Dealt(own[u], A, a, c, b) PROVE o1[u] = own[u]
    OBVIOUS
  <2>1. own[u] # Held(a) /\ own[u] # Held(b) /\ own[u] # Held(c) /\ ~(own[u][1] = BucketAvail /\ own[u][2] = A)
        /\ ~(own[u][1] = BucketAvail /\ own[u][2] \in {a, c})
    BY DEF Dealt
  <2> QED
    BY <2>1, Zenon DEF Divided
<1>8. ASSUME NEW u \in Nat
      PROVE  \/ o1[u] = own[u] /\ ~Dealt(own[u], A, a, c, b)
             \/ o1[u][1] \in {ABucket, Holding}
             \/ u \in Span(b, block_size) \/ (own[u][1] = BucketAvail /\ own[u][2] = A)
  <2>1. CASE ~Dealt(own[u], A, a, c, b)
    BY <1>7, <2>1
  <2>2. CASE own[u] = Held(a) \/ own[u] = Held(c)
    BY <1>3, <1>4, <2>2, TagIs
  <2>5. CASE own[u] = Held(b) /\ u \notin Span(b, block_size)
    <3>1. o1[u] = Tag(Holding, a, b)
      BY <1>1, <2>5, Zenon DEF Divided
    <3> QED
      BY <3>1, TagIs
  <2>3. CASE u \in Span(b, block_size) \/ (own[u][1] = BucketAvail /\ own[u][2] = A)
    BY <2>3
  <2>4. CASE own[u][1] = BucketAvail /\ own[u][2] \in {a, c} /\ own[u][2] # A
    <3>1. own[u] # Held(a) /\ own[u] # Held(b) /\ own[u] # Held(c)
      BY <2>4, TagIs, Kinds DEF Held
    <3>2. o1[u] = Tag(Holding, a, b)
      BY <2>4, <3>1, Zenon DEF Divided
    <3> QED
      BY <3>2, TagIs
  <2> QED
    BY <2>1, <2>2, <2>3, <2>4, <2>5 DEF Dealt
<1> QED
  BY <1>3, <1>4, <1>5, <1>6, <1>7, <1>8

LEMMA SplitOwners ==
    ASSUME NEW own, NEW A, NEW a, NEW c, NEW b, Pieces(own, A, a, c, b),
           NEW av, Table(av, own, BucketAvail, A), Len(av) <= BUCKET_AVAIL,
           NEW x, NEW y, NEW w, NEW z, Sides(av, a, c, b, x, y, w, z)
    PROVE  \E own2 : /\ HalvesOwned(own, own2, A, a, c, b, x)
                     /\ Table(z, own2, BucketAvail, y) /\ Len(z) <= BUCKET_AVAIL
                     /\ Table(PutAv(w, BlockAt(A)), own2, BucketAvail, x)
                     /\ Len(PutAv(w, BlockAt(A))) <= BUCKET_AVAIL
<1> DEFINE Z == Passed(av)
           o1 == Divided(own, A, a, c, b, Z)
           t == Tag(BucketAvail, x, A)
           own2 == Retag(o1, A, block_size, t)
           tA == Tag(ABucket, Nobody, A)
<1>1. /\ A \in Nat /\ Owned(own, A, block_size, tA)
      /\ a \in Nat /\ Owned(own, a, block_size, Held(a))
      /\ c \in Nat /\ Owned(own, c, block_size, Held(c))
      /\ b \in Nat /\ Owned(own, b, block_size, Held(b))
      /\ a # c /\ a # b /\ c # b
  BY DEF Pieces
<1>2. /\ \A u \in Nat : own[u] = Held(a) => o1[u] = Tag(ABucket, Nobody, a)
      /\ \A u \in Nat : own[u] = Held(c) => o1[u] = Tag(ABucket, Nobody, c)
      /\ \A u \in Nat : own[u] = Held(b) /\ u \in Span(b, block_size) => o1[u] = Tag(BucketAvail, c, b)
      /\ \A u \in Nat : \A p : own[u] = Tag(BucketAvail, A, p) /\ p \notin Z => o1[u] = Tag(BucketAvail, a, p)
      /\ \A u \in Nat : \A p : own[u] = Tag(BucketAvail, A, p) /\ p \in Z => o1[u] = Tag(BucketAvail, c, p)
      /\ \A u \in Nat : ~Dealt(own[u], A, a, c, b) => o1[u] = own[u]
      /\ \A u \in Nat : \/ o1[u] = own[u] /\ ~Dealt(own[u], A, a, c, b)
                        \/ o1[u][1] \in {ABucket, Holding}
                        \/ u \in Span(b, block_size) \/ (own[u][1] = BucketAvail /\ own[u][2] = A)
  BY DividedIs
<1> HIDE DEF o1
<1>3. \A p \in Nat : \A u \in Span(p, block_size) : u \in Nat
  BY SpanNat, Consts
<1>4. /\ Owned(o1, a, block_size, Tag(ABucket, Nobody, a)) /\ Owned(o1, c, block_size, Tag(ABucket, Nobody, c))
      /\ Owned(o1, b, block_size, Tag(BucketAvail, c, b))
  BY <1>1, <1>2, <1>3 DEF Owned
<1>5. ~Dealt(tA, A, a, c, b)
  BY TagIs, Kinds DEF Dealt, Held
<1>6. Owned(o1, A, block_size, tA)
  BY <1>1, <1>2, <1>3, <1>5 DEF Owned
<1>7. Table(FirstTable(av), o1, BucketAvail, a) /\ Len(FirstTable(av)) < BUCKET_AVAIL
  BY <1>2, FirstTableIs
<1>8. Table(SecondTable(av, b), o1, BucketAvail, c) /\ Len(SecondTable(av, b)) < BUCKET_AVAIL
  BY <1>1, <1>2, <1>4, SecondTableIs
<1>9. x # y /\ Table(w, o1, BucketAvail, x) /\ Table(z, o1, BucketAvail, y)
      /\ Len(w) < BUCKET_AVAIL /\ Len(z) < BUCKET_AVAIL
  BY <1>1, <1>7, <1>8 DEF Sides
<1>10. /\ Table(PutAv(w, BlockAt(A)), own2, BucketAvail, x) /\ Len(PutAv(w, BlockAt(A))) \in Nat
       /\ Len(PutAv(w, BlockAt(A))) <= Len(w) + 1
       /\ Table(z, own2, BucketAvail, y)
  BY <1>1, <1>6, <1>9, OtherTable
<1>11. Len(w) \in Nat /\ Len(z) \in Nat
  BY <1>9 DEF Table
<1>12. Len(z) <= BUCKET_AVAIL /\ Len(PutAv(w, BlockAt(A))) <= BUCKET_AVAIL
  BY <1>9, <1>10, <1>11, Consts
<1>13. \A u \in Nat : (u \in Span(A, block_size) => own2[u] = t) /\ (u \notin Span(A, block_size) => own2[u] = o1[u])
  BY RetagIs
<1>14. \A u \in Nat : u \in Span(A, block_size) => own[u] = tA
  BY <1>1 DEF Owned
<1> HIDE DEF own2
<1>15. HalvesOwned(own, own2, A, a, c, b, x)
  BY TagIs, Kinds, <1>1, <1>3, <1>14, <1>4, <1>13, <1>2 DEF Held, Owned, HalvesOwned
<1> QED
  BY <1>10, <1>12, <1>15

LEMMA RefillFirst ==
    ASSUME NEW v, NEW adr, NEW b, NEW k,
           NewEntries(b.m, adr)[DirIndex(k, b.m.header.dir_bits)] = adr[1]
    PROVE  LET p == b.m
               old == Bucket(p)
               A == Adr(p)
           IN Refill(v, adr, b, k)
              = Turnover(p, NewEntries(p, adr), DirIndex(k, p.header.dir_bits), v[1],
                         NewCache(p.cache, p.cur,
                                  v[1], HalfEntry(adr[1], p.cache[v[1]].data, HalfBucket(old, 0, FirstTable(old.avail))),
                                  v[2], HalfEntry(adr[2], p.cache[v[2]].data,
                                                  HalfBucket(old, 1, PutAv(SecondTable(old.avail, b.adr), BlockAt(A))))))
BY DEF Refill, NewEntries, FreeBits, SplitDir, Turnover, NewCache, HalfEntry, HalfBucket, HalfElems, FirstTable,
       SecondTable, BlockAt, Adr

LEMMA RefillSecond ==
    ASSUME NEW v, NEW adr, NEW b, NEW k,
           NewEntries(b.m, adr)[DirIndex(k, b.m.header.dir_bits)] # adr[1]
    PROVE  LET p == b.m
               old == Bucket(p)
               A == Adr(p)
           IN Refill(v, adr, b, k)
              = Turnover(p, NewEntries(p, adr), DirIndex(k, p.header.dir_bits), v[2],
                         NewCache(p.cache, p.cur,
                                  v[1], HalfEntry(adr[1], p.cache[v[1]].data,
                                                  HalfBucket(old, 0, PutAv(FirstTable(old.avail), BlockAt(A)))),
                                  v[2], HalfEntry(adr[2], p.cache[v[2]].data, HalfBucket(old, 1, SecondTable(old.avail, b.adr)))))
BY DEF Refill, NewEntries, FreeBits, SplitDir, Turnover, NewCache, HalfEntry, HalfBucket, HalfElems, FirstTable,
       SecondTable, BlockAt, Adr

LEMMA HalfEntryIs ==
    ASSUME NEW adr, NEW data, NEW old, NEW n, NEW av, NEW e, e = HalfEntry(adr, data, HalfBucket(old, n, av))
    PROVE  HalfAt(e, adr, old, n, av)
<1> DEFINE b == HalfBucket(old, n, av)
           els == HalfElems(old, n)
<1>1. \A q \in DOMAIN els : q \in DOMAIN old.elems /\ Bit(q, old.bits + 1) = n /\ els[q] = old.elems[q]
  BY DEF HalfElems
<1> HIDE DEF els
<1>2. IsBucket(b) /\ b.bits = old.bits + 1 /\ b.avail = av /\ b.elems = els
  BY DEF HalfBucket, IsBucket, els
<1> HIDE DEF b
<1>3. e.adr = adr /\ e.changed /\ e.bucket = b /\ e = [adr |-> e.adr, bucket |-> e.bucket, changed |-> e.changed, data |-> e.data]
  BY DEF HalfEntry, b
<1> QED
  BY <1>1, <1>2, <1>3 DEF HalfAt, IsEntry

LEMMA DroppedIs ==
    ASSUME NEW e, IsEntry(e), NEW f, f = Dropped(e)
    PROVE  IsEntry(f) /\ f.adr = 0 /\ ~f.changed
BY DEF IsEntry, Dropped

LEMMA NewCacheIs ==
    ASSUME NEW cache, cache = [s \in Slots |-> cache[s]], \A s \in Slots : IsEntry(cache[s]),
           NEW u \in Slots, NEW c \in Slots, NEW d \in Slots, u # c, u # d, c # d,
           NEW e, IsEntry(e), NEW f, IsEntry(f), NEW g, g = NewCache(cache, u, c, e, d, f)
    PROVE  Entered(cache, u, c, e, d, f, g)
<1> DEFINE h == Dropped(cache[u])
<1>1. g = [s \in Slots |-> IF s = d THEN f ELSE IF s = c THEN e ELSE IF s = u THEN h ELSE cache[s]]
  BY DEF NewCache, Dropped
<1>2. IsEntry(h) /\ h.adr = 0 /\ ~h.changed
  BY DroppedIs
<1> HIDE DEF h
<1>3. g[c] = e /\ g[d] = f /\ g[u] = h /\ \A s \in Slots : s # u /\ s # c /\ s # d => g[s] = cache[s]
  BY <1>1
<1> QED
  BY <1>1, <1>2, <1>3 DEF Entered

LEMMA TurnoverIs ==
    ASSUME NEW m, IsMem(m), NEW dir, NEW i, NEW u \in Slots, NEW cache, cache = [s \in Slots |-> cache[s]],
           \A s \in Slots : IsEntry(cache[s]), NEW r, r = Turnover(m, dir, i, u, cache)
    PROVE  TurnedOver(m, r, dir, i, u) /\ r.cache = cache
BY DEF IsMem, IsRec, Turnover, TurnedOver

LEMMA RefillDivides ==
    ASSUME NEW b, NEW m, m = b.m, IsMem(m), NEW v, Spare(m, v), NEW a, NEW c, a # c, NEW k,
           NEW r, r = Refill(v, <<a, c>>, b, k)
    PROVE  \E x, y, cx, cy, w, z : Divides(m, r, k, a, c, b.adr, x, y, cx, cy, w, z)
<1> DEFINE adr == <<a, c>>
           dir == NewEntries(m, adr)
           i == DirIndex(k, m.header.dir_bits)
           old == Bucket(m)
           blk == BlockAt(Adr(m))
           w0 == FirstTable(old.avail)
           w1 == SecondTable(old.avail, b.adr)
           w2 == PutAv(w0, blk)
           w3 == PutAv(w1, blk)
           d0 == m.cache[v[1]].data
           d1 == m.cache[v[2]].data
<1>1. adr[1] = a /\ adr[2] = c
  OBVIOUS
<1>2. /\ v[1] \in Slots /\ v[2] \in Slots /\ v[1] # v[2] /\ v[1] # m.cur /\ v[2] # m.cur
      /\ ~m.cache[v[1]].changed /\ ~m.cache[v[2]].changed
      /\ m.cur \in Slots /\ m.cache = [s \in Slots |-> m.cache[s]] /\ \A s \in Slots : IsEntry(m.cache[s])
  BY DEF Spare, IsMem
<1>d. dir = NewEntries(m, adr) /\ i = DirIndex(k, m.header.dir_bits) /\ r = Refill(v, adr, b, k)
      /\ m = b.m /\ old = Bucket(b.m) /\ old = Bucket(m)
  OBVIOUS
<1>3. CASE dir[i] = a
  <2> DEFINE e == HalfEntry(adr[1], d0, HalfBucket(old, 0, w0))
             f == HalfEntry(adr[2], d1, HalfBucket(old, 1, w3))
             g == NewCache(m.cache, m.cur, v[1], e, v[2], f)
  <2>1. r = Turnover(m, dir, i, v[1], g)
    BY <1>1, <1>3, RefillFirst
  <2>2. HalfAt(e, a, old, 0, w0) /\ HalfAt(f, c, old, 1, w3)
    BY <1>1, HalfEntryIs
  <2>3. IsEntry(e) /\ IsEntry(f)
    BY <2>2 DEF HalfAt
  <2> HIDE DEF e, f, w0, w1, w2, w3, blk, d0, d1, dir, i, adr, old
  <2>n. Entered(m.cache, m.cur, v[1], e, v[2], f, g)
    BY <1>2, <2>3, NewCacheIs
  <2>4. /\ g = [s \in Slots |-> g[s]]
        /\ \A s \in Slots : IsEntry(g[s])
        /\ g[v[1]] = e /\ g[v[2]] = f /\ g[m.cur].adr = 0 /\ ~g[m.cur].changed
        /\ \A s \in Slots : s # m.cur /\ s # v[1] /\ s # v[2] => g[s] = m.cache[s]
    BY <2>n DEF Entered
  <2> HIDE DEF g
  <2>5. TurnedOver(m, r, dir, i, v[1]) /\ r.cache = g
    BY <1>2, <2>1, <2>4, TurnoverIs
  <2>6. Sides(old.avail, a, c, b.adr, c, a, w1, w0)
    BY DEF Sides, w0, w1
  <2>7. r.dir[r.bucket_dir] = a
    BY <1>3, <2>5 DEF TurnedOver
  <2>8. Which(a, a) = 0 /\ Which(c, a) = 1
    BY DEF Which
  <2>9. Divides(m, r, k, a, c, b.adr, c, a, v[2], v[1], w1, w0)
    BY <1>2, <1>d, <2>2, <2>4, <2>5, <2>6, <2>7, <2>8 DEF Divides, adr, w3, blk
  <2> QED
    BY <2>9
<1>4. CASE dir[i] # a
  <2> DEFINE e == HalfEntry(adr[1], d0, HalfBucket(old, 0, w2))
             f == HalfEntry(adr[2], d1, HalfBucket(old, 1, w1))
             g == NewCache(m.cache, m.cur, v[1], e, v[2], f)
  <2>1. r = Turnover(m, dir, i, v[2], g)
    BY <1>1, <1>4, RefillSecond
  <2>2. HalfAt(e, a, old, 0, w2) /\ HalfAt(f, c, old, 1, w1)
    BY <1>1, HalfEntryIs
  <2>3. IsEntry(e) /\ IsEntry(f)
    BY <2>2 DEF HalfAt
  <2> HIDE DEF e, f, w0, w1, w2, w3, blk, d0, d1, dir, i, adr, old
  <2>n. Entered(m.cache, m.cur, v[1], e, v[2], f, g)
    BY <1>2, <2>3, NewCacheIs
  <2>4. /\ g = [s \in Slots |-> g[s]]
        /\ \A s \in Slots : IsEntry(g[s])
        /\ g[v[1]] = e /\ g[v[2]] = f /\ g[m.cur].adr = 0 /\ ~g[m.cur].changed
        /\ \A s \in Slots : s # m.cur /\ s # v[1] /\ s # v[2] => g[s] = m.cache[s]
    BY <2>n DEF Entered
  <2> HIDE DEF g
  <2>5. TurnedOver(m, r, dir, i, v[2]) /\ r.cache = g
    BY <1>2, <2>1, <2>4, TurnoverIs
  <2>6. Sides(old.avail, a, c, b.adr, a, c, w0, w1)
    BY DEF Sides, w0, w1
  <2>7. r.dir[r.bucket_dir] # a
    BY <1>4, <2>5 DEF TurnedOver
  <2>8. Which(a, a) = 0 /\ Which(c, a) = 1
    BY DEF Which
  <2>9. Divides(m, r, k, a, c, b.adr, a, c, v[1], v[2], w0, w1)
    BY <1>2, <1>d, <2>2, <2>4, <2>5, <2>6, <2>7, <2>8 DEF Divides, adr, w2, blk
  <2> QED
    BY <2>9
<1> QED
  BY <1>3, <1>4

LEMMA SplitBIs ==
    ASSUME NEW B, NEW A \in DOMAIN B, NEW x, NEW y, x \notin DOMAIN B, y \notin DOMAIN B, x # y, NEW bx, NEW by
    PROVE  Split(B, SplitB(B, A, x, y, bx, by), A, x, y, bx, by)
BY DEF Split, SplitB

LEMMA RegionPlace ==
    ASSUME NEW m, NEW own, NEW B, NEW o, NEW k, Busy(m, own, B, o, k), NEW a, Region(m, own, o, a, block_size)
    PROVE  a \in Nat /\ a # 0 /\ a \notin DOMAIN B /\ Owned(own, a, block_size, Held(a)) /\ a # Adr(m)
<1>1. own[0] = Tag(TheHeader, Nobody, Nobody) /\ Homes(own, m.header, B) /\ Adr(m) \in DOMAIN B
  BY DEF Busy, Mem, FreeOK, Cur
<1>2. a \in Nat /\ own[a][1] = Holding /\ Owned(own, a, block_size, Held(a))
  BY RegionAt DEF Region
<1>3. a # 0
  BY <1>1, <1>2, TagIs, Kinds
<1>4. a \notin DOMAIN B
  <2> SUFFICES ASSUME a \in DOMAIN B PROVE FALSE
    OBVIOUS
  <2>1. Owned(own, a, block_size, Tag(ABucket, Nobody, a))
    BY <1>1 DEF Homes
  <2>2. a \in Span(a, block_size)
    BY <1>2, Consts DEF Span
  <2>3. own[a][1] = ABucket
    BY <2>1, <2>2, OwnedTag
  <2> QED
    BY <1>2, <2>3, Kinds
<1> QED
  BY <1>1, <1>2, <1>3, <1>4

LEMMA RegionPieces ==
    ASSUME NEW m, NEW own, NEW B, NEW o, NEW k, Busy(m, own, B, o, k), NEW a, NEW c, NEW b,
           Region(m, own, o, a, block_size), Region(m, own, o, c, block_size), Region(m, own, o, b, block_size),
           a # c, a # b, c # b
    PROVE  Pieces(own, Adr(m), a, c, b)
BY RegionPlace DEF Busy, Mem, FreeOK, Cur, Homes, Pieces

\* What keeps its owner when a bucket is divided.
LEMMA OwnedDivided ==
    ASSUME NEW own, NEW own2, NEW A, NEW a, NEW c, NEW b, NEW x, HalvesOwned(own, own2, A, a, c, b, x),
           NEW p \in Nat, NEW n \in Nat, NEW t, Owned(own, p, n, t),
           ~Dealt(t, A, a, c, b), t # Tag(ABucket, Nobody, A)
    PROVE  Owned(own2, p, n, t)
<1>1. \A u \in Span(p, n) : u \in Nat /\ own[u] = t
  BY SpanNat DEF Owned
<1> QED
  BY <1>1, Zenon DEF Owned, HalvesOwned

LEMMA TableDivided ==
    ASSUME NEW own, NEW own2, NEW A, NEW a, NEW c, NEW b, NEW x, HalvesOwned(own, own2, A, a, c, b, x),
           NEW av, NEW kind, NEW o, Table(av, own, kind, o),
           kind # Holding, kind # ABucket, kind # BucketAvail \/ o \notin {A, a, c}
    PROVE  Table(av, own2, kind, o)
BY TagIs, TableKept DEF Dealt, Held, HalvesOwned

LEMMA SplitHomes ==
    ASSUME NEW own, NEW own2, NEW B, NEW C, NEW A, NEW a, NEW c, NEW b, NEW x, NEW y, NEW bx, NEW by,
           HalvesOwned(own, own2, A, a, c, b, x), Split(B, C, A, x, y, bx, by), Two2(a, c, x, y),
           a \in Nat, c \in Nat, a # 0, c # 0, IsBucket(bx), IsBucket(by),
           Part(bx.elems, B[A].elems), Part(by.elems, B[A].elems),
           NEW h, Homes(own, h, B), h.dir_bits \in InitBits .. HashBits
    PROVE  Homes(own2, h, C)
<1> DEFINE tA == Tag(ABucket, Nobody, A)
<1>1. /\ Owned(own, 0, block_size, Tag(TheHeader, Nobody, Nobody))
      /\ h.dir \in Nat /\ Owned(own, h.dir, DirSize(h.dir_bits), Tag(TheDir, Nobody, Nobody))
      /\ \A q \in DOMAIN B : q \in Nat /\ q # 0 /\ IsBucket(B[q]) /\ Owned(own, q, block_size, Tag(ABucket, Nobody, q))
      /\ \A q \in DOMAIN B : \A k \in DOMAIN B[q].elems : HasRecord(own, B[q].elems[k], k)
  BY DEF Homes
<1>2. block_size \in Nat /\ 0 \in Nat /\ DirSize(h.dir_bits) \in Nat
  BY Consts, DirSizeNat
<1>3. \A kind, p, q : kind # Holding /\ kind # BucketAvail => ~Dealt(Tag(kind, p, q), A, a, c, b)
  BY TagIs DEF Dealt, Held
<1>4. \A kind, p, q : kind # ABucket \/ q # A => Tag(kind, p, q) # tA
  BY TagIs
<1>5. Owned(own2, 0, block_size, Tag(TheHeader, Nobody, Nobody))
  BY <1>1, <1>2, <1>3, <1>4, OwnedDivided, Kinds
<1>6. Owned(own2, h.dir, DirSize(h.dir_bits), Tag(TheDir, Nobody, Nobody))
  BY <1>1, <1>2, <1>3, <1>4, OwnedDivided, Kinds
<1>7. ASSUME NEW q \in DOMAIN C
      PROVE  q \in Nat /\ q # 0 /\ IsBucket(C[q]) /\ Owned(own2, q, block_size, Tag(ABucket, Nobody, q))
  <2>1. CASE q \in {x, y}
    BY <2>1 DEF Split, Two2, HalvesOwned
  <2>2. CASE q \notin {x, y}
    BY <2>2, <1>3, <1>4, Kinds, <1>1, <1>2, OwnedDivided DEF Split
  <2> QED
    BY <2>1, <2>2
<1>8. ASSUME NEW q \in DOMAIN C, NEW k \in DOMAIN C[q].elems PROVE HasRecord(own2, C[q].elems[k], k)
  <2>1. HasRecord(own, C[q].elems[k], k)
    BY <1>1 DEF Split, Part
  <2> DEFINE el == C[q].elems[k]
  <2>2. el \in AvType /\ el.adr \in Nat /\ el.size \in Nat /\ Owned(own, el.adr, el.size, Tag(ARecord, k, Nobody))
    BY <2>1 DEF HasRecord, AvType
  <2> HIDE DEF el
  <2>3. ~Dealt(Tag(ARecord, k, Nobody), A, a, c, b) /\ Tag(ARecord, k, Nobody) # tA
    BY <1>3, <1>4, Kinds
  <2>4. Owned(own2, el.adr, el.size, Tag(ARecord, k, Nobody))
    BY <2>2, <2>3, OwnedDivided
  <2> QED
    BY <2>2, <2>4 DEF HasRecord, el
<1> QED
  BY <1>1, <1>5, <1>6, <1>7, <1>8 DEF Homes

LEMMA SplitTables ==
    ASSUME NEW own, NEW own2, NEW B, NEW C, NEW A, NEW a, NEW c, NEW b, NEW x, NEW y, NEW bx, NEW by,
           HalvesOwned(own, own2, A, a, c, b, x), Split(B, C, A, x, y, bx, by), Two2(a, c, x, y),
           Tables(own, B, A), Table(bx.avail, own2, BucketAvail, x), Len(bx.avail) <= BUCKET_AVAIL
    PROVE  Tables(own2, C, y)
<1> SUFFICES ASSUME NEW q \in DOMAIN C, q # y
             PROVE  Table(C[q].avail, own2, BucketAvail, q) /\ Len(C[q].avail) <= BUCKET_AVAIL
  BY DEF Tables
<1>1. CASE q = x
  BY <1>1 DEF Split
<1>2. CASE q # x
  BY <1>2, TableDivided, Kinds DEF Split, Two2, Tables
<1> QED
  BY <1>1, <1>2

LEMMA SplitFree ==
    ASSUME NEW m, NEW own, FreeOK(m, own), NEW own2, NEW A, NEW a, NEW c, NEW b, NEW x,
           HalvesOwned(own, own2, A, a, c, b, x),
           NEW r, IsMem(r), r.disk = m.disk, r.header = m.header, CurTable(r, own2)
    PROVE  FreeOK(r, own2)
<1>1. FreeSpace(m.disk, m.header, own) /\ own[0] = Tag(TheHeader, Nobody, Nobody)
  BY FreeParts
<1>2. ASSUME NEW u \in Nat, own[u][1] \in {AtEnd, TheHeader, HeaderAvail, AvailBlock, InBlock}
      PROVE  own2[u] = own[u]
  BY <1>2, TagIs, Kinds DEF Dealt, Held, HalvesOwned
<1>3. own2[0] = own[0]
  BY <1>1, <1>2, TagIs
<1>4. \A u \in Nat : u >= m.header.next_block => own2[u] = Tag(AtEnd, Nobody, Nobody)
  BY <1>1, <1>2, TagIs DEF FreeSpace
<1>5. Table(m.header.avail, own2, HeaderAvail, Nobody)
  BY <1>1, TableDivided, Kinds DEF FreeSpace
<1>6. \E S : Stack(m.disk, m.header.av_next, S, own2)
  BY <1>1, <1>2, SameSelf, StackKept DEF FreeSpace
<1>7. FreeSpace(r.disk, r.header, own2)
  BY <1>1, <1>4, <1>5, <1>6 DEF FreeSpace
<1> QED
  BY <1>1, <1>3, <1>7, FreeParts

LEMMA SplitSlots ==
    ASSUME NEW m, NEW r, NEW B, NEW C, NEW x, NEW y, NEW cx, NEW cy, Slotted(m, r, x, y, cx, cy),
           Split(B, C, Adr(m), x, y, r.cache[cx].bucket, r.cache[cy].bucket),
           Cached(m, B, Adr(m)), Adr(m) # 0
    PROVE  \A s \in Slots : Elsewhere(m, s, cx, cy) /\ r.cache[s].adr # 0 => StillThere(m, r, B, C, x, y, s)
<1> SUFFICES ASSUME NEW s \in Slots, Elsewhere(m, s, cx, cy), r.cache[s].adr # 0
             PROVE  StillThere(m, r, B, C, x, y, s)
  OBVIOUS
<1>0. s # m.cur /\ s # cx /\ s # cy
  BY DEF Elsewhere
<1>1. r.cache[s] = m.cache[s] /\ m.cur \in Slots
  BY <1>0 DEF Slotted
<1>2. m.cache[s].adr \in DOMAIN B
  BY <1>1 DEF Cached
<1>3. m.cache[s].adr # Adr(m)
  BY <1>0, <1>1 DEF Cached, Adr
<1>4. m.cache[s].bucket = B[m.cache[s].adr]
  BY <1>1, <1>3 DEF Cached
<1> QED
  BY <1>1, <1>2, <1>3, <1>4 DEF Split, StillThere

LEMMA SplitCached ==
    ASSUME NEW m, NEW r, NEW B, NEW C, NEW x, NEW y, NEW cx, NEW cy, Slotted(m, r, x, y, cx, cy),
           Split(B, C, Adr(m), x, y, r.cache[cx].bucket, r.cache[cy].bucket),
           Cached(m, B, Adr(m)), Adr(m) # 0
    PROVE  Cached(r, C, y)
<1> DEFINE Else(s) == Elsewhere(m, s, cx, cy)
<1>e. \A s \in Slots : Elsewhere(m, s, cx, cy) /\ r.cache[s].adr # 0 => StillThere(m, r, B, C, x, y, s)
  BY SplitSlots
<1>1. \A s \in Slots : Else(s) /\ r.cache[s].adr # 0 =>
              /\ r.cache[s] = m.cache[s] /\ m.cache[s].adr \in DOMAIN B /\ m.cache[s].adr # Adr(m)
              /\ C[m.cache[s].adr] = B[m.cache[s].adr] /\ m.cache[s].adr \in DOMAIN C
              /\ m.cache[s].adr # x /\ m.cache[s].adr # y /\ m.cache[s].bucket = B[m.cache[s].adr]
  BY <1>e DEF StillThere
<1>2. /\ r.cache[cx].adr = x /\ r.cache[cy].adr = y /\ r.cache[m.cur].adr = 0 /\ x # 0 /\ y # 0
  BY DEF Slotted
<1>3. x \in DOMAIN C /\ y \in DOMAIN C /\ C[x] = r.cache[cx].bucket /\ x # y
  BY DEF Split
<1>4. \A s \in Slots : s = m.cur \/ s = cx \/ s = cy \/ Else(s)
  BY DEF Elsewhere
<1> HIDE DEF Else
<1>5. \A s \in Slots : r.cache[s].adr # 0 => r.cache[s].adr \in DOMAIN C
  BY <1>1, <1>2, <1>3, <1>4
<1>6. \A s \in Slots : r.cache[s].adr # 0 /\ r.cache[s].adr # y => r.cache[s].bucket = C[r.cache[s].adr]
  BY <1>1, <1>2, <1>3, <1>4
<1>7. ASSUME NEW s \in Slots, NEW e \in Slots, r.cache[s].adr = r.cache[e].adr, r.cache[s].adr # 0 PROVE s = e
  BY <1>1, <1>2, <1>3, <1>4, <1>7 DEF Cached
<1> QED
  BY <1>5, <1>6, <1>7 DEF Cached

LEMMA SplitOn ==
    ASSUME NEW m, NEW r, NEW B, NEW C, NEW x, NEW y, NEW cx, NEW cy, Slotted(m, r, x, y, cx, cy),
           Split(B, C, Adr(m), x, y, r.cache[cx].bucket, r.cache[cy].bucket),
           Cached(m, B, Adr(m)), Adr(m) # 0, r.disk = m.disk,
           BucketsOn(m, B, Adr(m)), DataOK(m, B, Adr(m)), Marked(m)
    PROVE  BucketsOn(r, C, y) /\ DataOK(r, C, y) /\ Marked(r)
<1> DEFINE Else(s) == Elsewhere(m, s, cx, cy)
<1>e. \A s \in Slots : Elsewhere(m, s, cx, cy) /\ r.cache[s].adr # 0 => StillThere(m, r, B, C, x, y, s)
  BY SplitSlots
<1>1. \A s \in Slots : Else(s) /\ r.cache[s].adr # 0 =>
              /\ r.cache[s] = m.cache[s] /\ m.cache[s].adr \in DOMAIN B /\ m.cache[s].adr # Adr(m)
              /\ C[m.cache[s].adr] = B[m.cache[s].adr] /\ m.cache[s].adr \in DOMAIN C
              /\ m.cache[s].adr # x /\ m.cache[s].adr # y /\ m.cache[s].bucket = B[m.cache[s].adr]
  BY <1>e DEF StillThere
<1>2. /\ r.cache[cx].adr = x /\ r.cache[cy].adr = y /\ r.cache[m.cur].adr = 0 /\ x # 0 /\ y # 0
      /\ r.cache[cx].changed /\ r.cache[cy].changed /\ ~r.cache[m.cur].changed
      /\ cx \in Slots /\ cy \in Slots
      /\ \A s \in Slots : Else(s) => r.cache[s] = m.cache[s]
  BY DEF Slotted, Elsewhere
<1>4. \A s \in Slots : s = m.cur \/ s = cx \/ s = cy \/ Else(s)
  BY DEF Elsewhere
<1>5. ASSUME NEW q \in DOMAIN C, q # y PROVE BucketOn(r, q, C[q])
  <2>1. CASE q = x
    BY <1>2, <2>1 DEF BucketOn, Pending
  <2>2. CASE q # x
    <3>1. q \in DOMAIN B /\ q # Adr(m) /\ C[q] = B[q] /\ q # x /\ q # y
      BY <1>5, <2>2 DEF Split
    <3>2. BucketOn(m, q, B[q])
      BY <3>1 DEF BucketsOn
    <3>3. CASE Pending(m, q)
      BY <3>3, <3>1, <1>2 DEF Pending, Adr, Slotted, BucketOn, Elsewhere
    <3> QED
      BY <3>1, <3>2, <3>3 DEF BucketOn
  <2> QED
    BY <2>1, <2>2
<1> HIDE DEF Else
<1>6. DataOK(r, C, y)
  <2> SUFFICES ASSUME NEW s \in Slots, r.cache[s].adr # 0, r.cache[s].adr # y, ~r.cache[s].changed
               PROVE  DataFits(r.disk, C[r.cache[s].adr], r.cache[s].data)
    BY DEF DataOK
  <2>1. Else(s)
    BY <1>2, <1>4
  <2> QED
    BY <1>1, <2>1 DEF DataOK
<1>7. Marked(r)
  BY <1>2, <1>4 DEF Marked
<1> QED
  BY <1>5, <1>6, <1>7 DEF BucketsOn

\* What Divides says, split into what the lemmas above use.
LEMMA DividesIs ==
    ASSUME NEW m, NEW r, NEW k, NEW a, NEW c, NEW b, NEW x, NEW y, NEW cx, NEW cy, NEW w, NEW z,
           Divides(m, r, k, a, c, b, x, y, cx, cy, w, z), m.cur \in Slots, a # 0, c # 0
    PROVE  /\ TurnedOver(m, r, NewEntries(m, <<a, c>>), DirIndex(k, m.header.dir_bits), cy)
           /\ Sides(Bucket(m).avail, a, c, b, x, y, w, z)
           /\ Slotted(m, r, x, y, cx, cy) /\ Two2(a, c, x, y)
           /\ Adr(r) = y /\ Bucket(r) = r.cache[cy].bucket /\ Bucket(r).avail = z
           /\ r.cache[cx].bucket.avail = PutAv(w, BlockAt(Adr(m)))
           /\ IsBucket(r.cache[cx].bucket) /\ IsBucket(r.cache[cy].bucket)
           /\ Part(r.cache[cx].bucket.elems, Bucket(m).elems) /\ Part(r.cache[cy].bucket.elems, Bucket(m).elems)
           /\ r.dir[r.bucket_dir] = a <=> y = a
<1>1. /\ TurnedOver(m, r, NewEntries(m, <<a, c>>), DirIndex(k, m.header.dir_bits), cy)
      /\ Sides(Bucket(m).avail, a, c, b, x, y, w, z)
      /\ HalfAt(r.cache[cy], y, Bucket(m), Which(y, a), z)
      /\ HalfAt(r.cache[cx], x, Bucket(m), Which(x, a), PutAv(w, BlockAt(Adr(m))))
      /\ r.dir[r.bucket_dir] = a <=> y = a
  BY DEF Divides
<1>2. Two2(a, c, x, y)
  BY <1>1 DEF Sides, Two2
<1>3. Slotted(m, r, x, y, cx, cy)
  BY <1>1, <1>2 DEF Divides, Slotted, TurnedOver, HalfAt, Two2
<1>4. Adr(r) = y /\ Bucket(r) = r.cache[cy].bucket /\ Bucket(r).avail = z
      /\ r.cache[cx].bucket.avail = PutAv(w, BlockAt(Adr(m)))
  BY <1>1 DEF TurnedOver, Adr, Bucket, HalfAt
<1>5. IsBucket(r.cache[cx].bucket) /\ IsBucket(r.cache[cy].bucket)
  BY <1>1 DEF HalfAt, IsEntry
<1>6. Part(r.cache[cx].bucket.elems, Bucket(m).elems) /\ Part(r.cache[cy].bucket.elems, Bucket(m).elems)
  BY <1>1 DEF HalfAt, Part
<1> QED
  BY <1>1, <1>2, <1>3, <1>4, <1>5, <1>6

LEMMA DividesSplit ==
    ASSUME NEW m, NEW r, NEW k, NEW a, NEW c, a # c, NEW b, NEW x, NEW y, NEW cx, NEW cy, NEW w, NEW z,
           Divides(m, r, k, a, c, b, x, y, cx, cy, w, z), NEW B, NEW C,
           Split(B, C, Adr(m), x, y, r.cache[cx].bucket, r.cache[cy].bucket),
           Bucket(m).elems = B[Adr(m)].elems, Bucket(m).bits = B[Adr(m)].bits
    PROVE  SplitOf(B, C, Adr(m), a, c)
<1>1. /\ Sides(Bucket(m).avail, a, c, b, x, y, w, z)
      /\ HalfAt(r.cache[cy], y, Bucket(m), Which(y, a), z)
      /\ HalfAt(r.cache[cx], x, Bucket(m), Which(x, a), PutAv(w, BlockAt(Adr(m))))
  BY DEF Divides
<1> DEFINE A == Adr(m)
           bits == B[A].bits + 1
           bx == r.cache[cx].bucket
           by == r.cache[cy].bucket
<1>2. /\ bx.bits = bits /\ by.bits = bits
      /\ \A q \in DOMAIN bx.elems : q \in DOMAIN B[A].elems /\ Bit(q, bits) = Which(x, a)
      /\ \A q \in DOMAIN by.elems : q \in DOMAIN B[A].elems /\ Bit(q, bits) = Which(y, a)
  BY <1>1 DEF HalfAt
<1>3. Split(B, C, A, x, y, bx, by)
  OBVIOUS
<1> HIDE DEF A, bits, bx, by
<1>4. CASE x = a /\ y = c
  BY <1>4, <1>2, <1>3 DEF Which, SplitOf, Split, bits, A
<1>5. CASE x = c /\ y = a
  BY <1>5, <1>2, <1>3 DEF Which, SplitOf, Split, bits, A
<1> QED
  BY <1>1, <1>4, <1>5 DEF Sides

\* The key's entry of the new directory leads to the current half.
LEMMA DividesDir ==
    ASSUME NEW m, NEW r, NEW k \in Keys, NEW a, NEW c, a # c, NEW b, NEW x, NEW y, NEW cx, NEW cy, NEW w, NEW z,
           Divides(m, r, k, a, c, b, x, y, cx, cy, w, z), NEW B, NEW C,
           DirOK(m.dir, m.header.dir_bits, B), Cur(m, B), Bucket(m).bits < m.header.dir_bits,
           m.dir[DirIndex(k, m.header.dir_bits)] = Adr(m), SplitOf(B, C, Adr(m), a, c)
    PROVE  /\ DirOK(r.dir, m.header.dir_bits, C)
           /\ r.bucket_dir = DirIndex(k, m.header.dir_bits) /\ r.bucket_dir \in Entries(m.header.dir_bits)
           /\ r.dir[r.bucket_dir] = y
<1> DEFINE db == m.header.dir_bits
           A == Adr(m)
           free == FreeBits(m)
           i == m.bucket_dir
           j == DirIndex(k, db)
           dir == m.dir
           dir2 == SplitDir(dir, i, free, a, c)
<1>1. r.dir = dir2 /\ r.bucket_dir = j /\ (r.dir[r.bucket_dir] = a <=> y = a) /\ y \in {a, c}
  BY DEF Divides, TurnedOver, NewEntries, Sides
<1>2. i \in Entries(db) /\ dir[i] = A /\ Bucket(m).bits = B[A].bits
  BY DEF Cur
<1>3. db \in InitBits .. HashBits /\ db \in 0 .. HashBits
  BY BitConsts DEF DirOK, DirShape
<1>4. j \in Entries(db)
  BY <1>3, IndexIs, TwoPos DEF Entries
<1>5. Unused(B, A, db, free)
  BY <1>2 DEF Unused, FreeBits
<1>6. DirOK(dir, db, B) /\ SplitOf(B, C, dir[i], a, c) /\ Unused(B, dir[i], db, free) /\ dir[j] = dir[i]
  BY <1>2, <1>5
<1> HIDE DEF free, dir2, db, i, j, dir, A
<1>7. DirOK(dir2, db, C)
  BY <1>2, <1>6, SplitDirOK DEF dir2
<1>8. SplitAt(dir, db, i, free, a, c)
  BY <1>2, <1>6, SplitEntries
<1>9. dir2[j] \in {a, c}
  BY <1>4, <1>6, <1>8 DEF SplitAt, dir2
<1> QED
  BY <1>1, <1>4, <1>7, <1>9 DEF db, j

LEMMA DividesSafe ==
    ASSUME NEW m, NEW own, NEW B, NEW o, NEW k, Busy(m, own, B, o, k), NEW el, NEW a, NEW c, NEW b,
           Taking(m, own, o, el, a, c, b), NEW r, NEW x, NEW y, NEW cx, NEW cy,
           Slotted(m, r, x, y, cx, cy), Two2(a, c, x, y), NEW dir, NEW i, TurnedOver(m, r, dir, i, cy),
           Adr(r) = y, NEW own2, HalvesOwned(own, own2, Adr(m), a, c, b, x)
    PROVE  Old(r, own2, o) /\ NewSafe(r, o) /\ OldDirs(r, own2, o)
<1>1. Old(m, own, o) /\ NewSafe(m, o) /\ OldDirs(m, own, o)
  BY DEF Busy
<1>2. /\ r.disk = m.disk /\ r.header = m.header /\ r.old = m.old /\ r.popped = m.popped /\ r.cur = cy
  BY DEF TurnedOver
<1>3. \A p, n : Safe(m, o, p, n) => Safe(r, o, p, n)
  BY <1>2 DEF Safe
<1>4. /\ Safe(m, o, x, block_size) /\ Safe(m, o, y, block_size) /\ Safe(m, o, b, block_size)
      /\ Owned(own, b, block_size, Held(b))
  BY DEF Taking, Region, Two2
<1>5. Old(r, own2, o)
  <2> SUFFICES ASSUME ~m.popped, NEW u \in Nat, Prot(o.own[u]), NearUnit(own2[u], y) PROVE FALSE
    BY <1>1, <1>2 DEF Old, Link
  <2>1. ~NearUnit(own[u], Adr(m))
    BY <1>1 DEF Old, Link
  <2>2. CASE own2[u] = own[u] /\ ~Dealt(own[u], Adr(m), a, c, b)
    BY <2>1, <2>2 DEF NearUnit, Dealt, Two2
  <2>3. CASE own2[u][1] \in {ABucket, Holding}
    BY <2>3, Kinds DEF NearUnit
  <2>4. CASE own2[u] = Tag(BucketAvail, x, Adr(m))
    BY <2>4, TagIs, Kinds DEF Two2, Taking, NearUnit
  <2>5. CASE u \in Span(b, block_size)
    BY <1>4, <2>5 DEF Safe
  <2>6. CASE own[u][1] = BucketAvail /\ own[u][2] = Adr(m)
    BY <2>1, <2>6 DEF NearUnit
  <2> QED
    BY <2>2, <2>3, <2>4, <2>5, <2>6 DEF HalvesOwned
<1>6. NewSafe(r, o)
  BY <1>4, <1>1, <1>2, <1>3 DEF Slotted, NewSafe
<1>7. OldDirs(r, own2, o)
  BY <1>1, TableDivided, Kinds, <1>2, <1>3 DEF OldDirs
<1> QED
  BY <1>5, <1>6, <1>7

LEMMA DividesMem ==
    ASSUME NEW m, NEW own, NEW B, NEW o, NEW k \in Keys, NEW el, Turning(m, own, B, o, k, el),
           Bucket(m).bits < m.header.dir_bits, NEW a, NEW c, NEW b, Taking(m, own, o, el, a, c, b),
           NEW r, NEW x, NEW y, NEW cx, NEW cy, NEW w, NEW z,
           Divides(m, r, k, a, c, b, x, y, cx, cy, w, z), NEW own2, HalvesOwned(own, own2, Adr(m), a, c, b, x),
           Table(z, own2, BucketAvail, y), Len(z) <= BUCKET_AVAIL,
           Table(PutAv(w, BlockAt(Adr(m))), own2, BucketAvail, x), Len(PutAv(w, BlockAt(Adr(m)))) <= BUCKET_AVAIL,
           NEW C, Split(B, C, Adr(m), x, y, r.cache[cx].bucket, r.cache[cy].bucket)
    PROVE  Turning(r, own2, C, o, k, el)
<1>1. /\ Busy(m, own, B, o, k) /\ Marked(m)
      /\ Bucket(m).elems = B[Adr(m)].elems /\ k \notin DOMAIN B[Adr(m)].elems
      /\ m.dir[DirIndex(k, m.header.dir_bits)] = Adr(m)
      /\ el \in AvType /\ Region(m, own, o, el.adr, el.size)
  BY DEF Turning
<1>2. Mem(m, own, B, Adr(m), Adr(m), k) /\ Cur(m, B)
  BY <1>1 DEF Busy
<1>3. /\ FreeOK(m, own) /\ DirOK(m.dir, m.header.dir_bits, B) /\ Homes(own, m.header, B) /\ Tables(own, B, Adr(m))
      /\ HeaderOn(m) /\ BucketsOn(m, B, Adr(m)) /\ m.cur \in Slots /\ m.header.dir_bits \in InitBits .. HashBits
      /\ Cached(m, B, Adr(m)) /\ DataOK(m, B, Adr(m)) /\ RecordsIn(m.disk, B, k) /\ FlagsOK(m)
  BY <1>2 DEF Mem, FreeOK, IsMem, DirOK, DirShape
<1>4. Adr(m) \in DOMAIN B /\ Bucket(m).bits = B[Adr(m)].bits /\ Adr(m) # 0
  BY <1>2, <1>3 DEF Cur, Homes
<1>5. Region(m, own, o, a, block_size) /\ Region(m, own, o, c, block_size) /\ Region(m, own, o, b, block_size)
      /\ a # c /\ a # b /\ c # b /\ a # el.adr /\ c # el.adr /\ b # el.adr
  BY DEF Taking
<1>6. a \in Nat /\ c \in Nat /\ a # 0 /\ c # 0
  BY <1>1, <1>5, RegionPlace
<1>7. /\ TurnedOver(m, r, NewEntries(m, <<a, c>>), DirIndex(k, m.header.dir_bits), cy)
      /\ Slotted(m, r, x, y, cx, cy) /\ Two2(a, c, x, y)
      /\ Adr(r) = y /\ Bucket(r) = r.cache[cy].bucket /\ Bucket(r).avail = z
      /\ r.cache[cx].bucket.avail = PutAv(w, BlockAt(Adr(m)))
      /\ IsBucket(r.cache[cx].bucket) /\ IsBucket(r.cache[cy].bucket)
      /\ Part(r.cache[cx].bucket.elems, Bucket(m).elems) /\ Part(r.cache[cy].bucket.elems, Bucket(m).elems)
  BY <1>3, <1>6, DividesIs
<1>8. /\ IsMem(r) /\ r.disk = m.disk /\ r.header = m.header /\ r.old = m.old
      /\ r.last_read = m.last_read /\ r.header_changed = m.header_changed /\ r.popped = m.popped
      /\ r.directory_changed /\ r.second_changed
  BY <1>7 DEF TurnedOver
<1>9. SplitOf(B, C, Adr(m), a, c)
  BY <1>1, <1>4, <1>5, DividesSplit
<1>10. /\ DirOK(r.dir, m.header.dir_bits, C)
       /\ r.bucket_dir = DirIndex(k, m.header.dir_bits) /\ r.bucket_dir \in Entries(m.header.dir_bits)
       /\ r.dir[r.bucket_dir] = y
  BY <1>1, <1>2, <1>3, <1>5, <1>9, DividesDir
<1> DEFINE bx == r.cache[cx].bucket
           by == r.cache[cy].bucket
           A == Adr(m)
           h == m.header
<1>11. Split(B, C, A, x, y, bx, by) /\ IsBucket(bx) /\ IsBucket(by) /\ HalvesOwned(own, own2, A, a, c, b, x)
       /\ Part(bx.elems, B[A].elems) /\ Part(by.elems, B[A].elems)
       /\ Table(bx.avail, own2, BucketAvail, x) /\ Len(bx.avail) <= BUCKET_AVAIL
       /\ Homes(own, h, B) /\ h.dir_bits \in InitBits .. HashBits /\ Tables(own, B, A)
  BY <1>1, <1>3, <1>7
<1> HIDE DEF bx, by, A, h
<1>12. Homes(own2, h, C)
  BY <1>6, <1>7, <1>11, SplitHomes
<1>13. Tables(own2, C, y)
  BY <1>7, <1>11, SplitTables
<1>14. FreeOK(r, own2)
  BY <1>7, <1>3, <1>8, <1>11, SplitFree DEF CurTable
<1>15. Cached(r, C, y)
  BY <1>3, <1>4, <1>7, SplitCached
<1>16. BucketsOn(r, C, y) /\ DataOK(r, C, y) /\ Marked(r)
  BY <1>1, <1>3, <1>4, <1>7, <1>8, SplitOn
<1>17. RecordsIn(r.disk, C, k)
  <2> SUFFICES ASSUME NEW q \in DOMAIN C, NEW j \in DOMAIN C[q].elems, j # k PROVE InFile(m.disk, C[q].elems[j])
    BY <1>8 DEF RecordsIn
  <2>1. CASE q \in {x, y}
    BY <1>11, <2>1, <1>3 DEF Split, Part, RecordsIn
  <2>2. CASE q \notin {x, y}
    BY <1>3, <1>11, <2>2 DEF Split, RecordsIn
  <2> QED
    BY <2>1, <2>2
<1>18. HeaderOn(r) /\ DirOn(r) /\ FlagsOK(r)
  BY <1>3, <1>8 DEF HeaderOn, DirOn, FlagsOK
<1>19. Mem(r, own2, C, y, y, k)
  BY <1>8, <1>10, <1>12, <1>13, <1>14, <1>15, <1>16, <1>17, <1>18 DEF Mem, h
<1>20. y \in DOMAIN C /\ C[y] = by /\ by = Bucket(r)
  BY <1>7, <1>11 DEF Split, by
<1>21. Cur(r, C)
  BY <1>7, <1>8, <1>10, <1>20 DEF Cur
<1>22. Old(r, own2, o) /\ NewSafe(r, o) /\ OldDirs(r, own2, o)
  BY <1>1, <1>7, DividesSafe
<1>23. Busy(r, own2, C, o, k)
  BY <1>7, <1>19, <1>21, <1>22 DEF Busy
<1>24. k \notin DOMAIN C[y].elems
  BY <1>1, <1>11, <1>20 DEF Part, A
<1>25. Region(r, own2, o, el.adr, el.size)
  <2> DEFINE t == Held(el.adr)
             p == el.adr
             n == el.size
  <2>1. p \in Nat /\ n \in Nat \ {0} /\ Owned(own, p, n, t) /\ Safe(m, o, p, n)
    BY <1>1 DEF Region
  <2>2. ~Dealt(t, Adr(m), a, c, b) /\ t # Tag(ABucket, Nobody, Adr(m))
    BY <1>5, TagIs, Kinds DEF Dealt, Held
  <2> HIDE DEF t, p, n
  <2>3. Owned(own2, p, n, t)
    BY <2>1, <2>2, OwnedDivided
  <2> QED
    BY <1>8, <2>1, <2>3 DEF Region, Safe, t, p, n
<1> QED
  BY <1>1, <1>7, <1>8, <1>10, <1>16, <1>20, <1>23, <1>24, <1>25 DEF Turning

\* The key's bucket is divided.
LEMMA RefillTurn ==
    ASSUME NEW b, NEW m, m = b.m, NEW own, NEW B, NEW o, NEW k \in Keys, NEW el, Turning(m, own, B, o, k, el),
           Bucket(m).bits < m.header.dir_bits, NEW v, Spare(m, v),
           NEW a, NEW c, Taking(m, own, o, el, a, c, b.adr), NEW r, r = Refill(v, <<a, c>>, b, k)
    PROVE  (\E own2, C : Turning(r, own2, C, o, k, el)) /\ Relinked(m, r)
<1>1. Busy(m, own, B, o, k) /\ FreeOK(m, own)
  BY DEF Turning, Busy, Mem
<1>2. IsMem(m) /\ CurTable(m, own) /\ m.cur \in Slots
  BY <1>1, FreeParts DEF IsMem
<1>3. a # c /\ a # b.adr /\ c # b.adr /\ Region(m, own, o, a, block_size) /\ Region(m, own, o, c, block_size)
      /\ Region(m, own, o, b.adr, block_size)
  BY DEF Taking
<1>4. PICK x, y, cx, cy, w, z : Divides(m, r, k, a, c, b.adr, x, y, cx, cy, w, z)
  BY <1>2, <1>3, RefillDivides
<1> DEFINE A == Adr(m)
           d == b.adr
<1>d. d = b.adr /\ A = Adr(m)
  OBVIOUS
<1> HIDE DEF A, d
<1>5. Pieces(own, A, a, c, d)
  BY <1>1, <1>3, <1>d, RegionPieces
<1>6. a # 0 /\ a \notin DOMAIN B /\ c # 0 /\ c \notin DOMAIN B
  BY <1>1, <1>3, RegionPlace
<1>7. /\ Sides(Bucket(m).avail, a, c, d, x, y, w, z) /\ Two2(a, c, x, y)
      /\ TurnedOver(m, r, NewEntries(m, <<a, c>>), DirIndex(k, m.header.dir_bits), cy)
  BY <1>2, <1>4, <1>6, <1>d, DividesIs
<1>8. Table(Bucket(m).avail, own, BucketAvail, A) /\ Len(Bucket(m).avail) <= BUCKET_AVAIL
  BY <1>2, <1>d DEF CurTable
<1>9. PICK own2 : /\ HalvesOwned(own, own2, A, a, c, d, x)
                  /\ Table(z, own2, BucketAvail, y) /\ Len(z) <= BUCKET_AVAIL
                  /\ Table(PutAv(w, BlockAt(A)), own2, BucketAvail, x)
                  /\ Len(PutAv(w, BlockAt(A))) <= BUCKET_AVAIL
  BY <1>5, <1>7, <1>8, SplitOwners
<1> DEFINE bx == r.cache[cx].bucket
           by == r.cache[cy].bucket
           C == SplitB(B, A, x, y, bx, by)
<1>10. A \in DOMAIN B
  BY <1>1, <1>d DEF Busy, Cur
<1>11. x \notin DOMAIN B /\ y \notin DOMAIN B /\ x # y
  BY <1>3, <1>6, <1>7 DEF Two2
<1>12. Split(B, C, A, x, y, bx, by)
  BY <1>10, <1>11, SplitBIs
<1> HIDE DEF C
<1>13. Turning(r, own2, C, o, k, el)
  BY <1>4, <1>9, <1>12, <1>d, DividesMem
<1> QED
  BY <1>7, <1>13 DEF TurnedOver, Relinked

\* A block for a bucket.
LEMMA BlockTurn ==
    ASSUME NEW m, NEW own, NEW B, NEW o, NEW k, NEW el, Turning(m, own, B, o, k, el),
           NEW v, Spare(m, v), NEW a, a = Alloc(m, block_size)
    PROVE  \E own2 : /\ Turning(a.m, own2, B, o, k, el) /\ Spare(a.m, v)
                     /\ Region(a.m, own2, o, a.adr, block_size)
                     /\ RegionsKept(m, own, o, a.m, own2, a.adr) /\ a.adr # el.adr
                     /\ Bucket(a.m).bits = Bucket(m).bits
                     /\ a.m.header.dir_bits = m.header.dir_bits /\ a.m.open = m.open
<1>1. block_size \in Nat \ {0}
  BY GdbmAssumption
<1>2. PICK own2 : /\ Turning(a.m, own2, B, o, k, el) /\ OnlySpace(m, a.m)
                  /\ Region(a.m, own2, o, a.adr, block_size)
                  /\ RegionsKept(m, own, o, a.m, own2, a.adr)
  BY <1>1, AllocTurn
<1>3. Spare(a.m, v)
  BY <1>2, SpareKept
<1>4. a.adr # el.adr
  BY <1>2 DEF Turning, RegionsKept
<1>5. Bucket(a.m).bits = Bucket(m).bits /\ a.m.header.dir_bits = m.header.dir_bits /\ a.m.open = m.open
  BY <1>2 DEF OnlySpace, Rest
<1> QED
  BY <1>2, <1>3, <1>4, <1>5

\* One turn of the loop.
LEMMA SplitTurn ==
    ASSUME NEW m, NEW own, NEW B, NEW o, NEW k \in Keys, NEW el, Turning(m, own, B, o, k, el), Full(m),
           NEW r, r = SplitOnce(m, k)
    PROVE  (\E own2, C : Turning(r, own2, C, o, k, el)) /\ Relinked(m, r)
<1>1. Bucket(m).bits < HashBits /\ Bucket(m).bits \in 0 .. m.header.dir_bits
  BY TurnCrowded
<1> DEFINE v0 == Victim(m)
           v1 == Victim(v0.m)
           p == v1.m
           v == <<v0.c, v1.c>>
           a == Alloc(p, block_size)
           c == Alloc(a.m, block_size)
           l == LongDir(c.m)
           b == Alloc(l, block_size)
<1>2. r = Refill(v, <<a.adr, c.adr>>, b, k)
  BY DEF SplitOnce, FirstVictim, SecondVictim, SecondBlock, SplitInto
<1>3. Turning(p, own, B, o, k, el) /\ Spare(p, v) /\ SameBut(m, p)
  BY TwoVictims
<1>d. /\ a = Alloc(p, block_size) /\ c = Alloc(a.m, block_size) /\ l = LongDir(c.m)
      /\ b = Alloc(l, block_size)
  OBVIOUS
<1> HIDE DEF v0, v1, p, v, a, c, l, b
<1>4. Bucket(p).bits = Bucket(m).bits /\ p.header.dir_bits = m.header.dir_bits /\ p.open = m.open
  BY <1>3 DEF SameBut
<1>5. PICK o1 : /\ Turning(a.m, o1, B, o, k, el) /\ Spare(a.m, v)
                /\ Region(a.m, o1, o, a.adr, block_size)
                /\ RegionsKept(p, own, o, a.m, o1, a.adr) /\ a.adr # el.adr
                /\ Bucket(a.m).bits = Bucket(p).bits /\ a.m.header.dir_bits = p.header.dir_bits
                /\ a.m.open = p.open
  BY <1>3, <1>d, BlockTurn
<1>6. PICK o2 : /\ Turning(c.m, o2, B, o, k, el) /\ Spare(c.m, v)
                /\ Region(c.m, o2, o, c.adr, block_size)
                /\ RegionsKept(a.m, o1, o, c.m, o2, c.adr) /\ c.adr # el.adr
                /\ Bucket(c.m).bits = Bucket(a.m).bits /\ c.m.header.dir_bits = a.m.header.dir_bits
                /\ c.m.open = a.m.open
  BY <1>5, <1>d, BlockTurn
<1>7. Region(c.m, o2, o, a.adr, block_size) /\ a.adr # c.adr
  BY <1>5, <1>6 DEF RegionsKept
<1>8. Bucket(c.m).bits < HashBits /\ Bucket(c.m).bits \in 0 .. c.m.header.dir_bits
  BY <1>1, <1>4, <1>5, <1>6
<1>9. PICK o3 : /\ Turning(l, o3, B, o, k, el) /\ AllRegions(c.m, o2, o, l, o3)
                /\ Spare(l, v) /\ Bucket(l).bits < l.header.dir_bits /\ l.open = c.m.open
  <2> DEFINE q == c.m
  <2>1. Turning(q, o2, B, o, k, el) /\ Bucket(q).bits < HashBits /\ Bucket(q).bits \in 0 .. q.header.dir_bits
        /\ Spare(q, v) /\ l = LongDir(q)
    BY <1>6, <1>8, <1>d
  <2>2. \E o3 : /\ Turning(l, o3, B, o, k, el) /\ AllRegions(q, o2, o, l, o3)
                /\ Spare(l, v) /\ Bucket(l).bits < l.header.dir_bits /\ l.open = q.open
    <3> HIDE DEF q
    <3> QED
      BY <2>1, LongDirTurn
  <2> QED
    BY <2>2
<1>10. Region(l, o3, o, a.adr, block_size) /\ Region(l, o3, o, c.adr, block_size)
  BY <1>6, <1>7, <1>9 DEF AllRegions
<1>11. PICK o4 : /\ Turning(b.m, o4, B, o, k, el) /\ Spare(b.m, v)
                 /\ Region(b.m, o4, o, b.adr, block_size)
                 /\ RegionsKept(l, o3, o, b.m, o4, b.adr) /\ b.adr # el.adr
                 /\ Bucket(b.m).bits = Bucket(l).bits /\ b.m.header.dir_bits = l.header.dir_bits
                 /\ b.m.open = l.open
  BY <1>9, <1>d, BlockTurn
<1>12. Taking(b.m, o4, o, el, a.adr, c.adr, b.adr)
  BY <1>5, <1>6, <1>7, <1>10, <1>11 DEF RegionsKept, Taking
<1>13. Bucket(b.m).bits < b.m.header.dir_bits
  BY <1>9, <1>11
<1> QED
  <2> DEFINE q == b.m
             a0 == a.adr
             c0 == c.adr
  <2>1. q = b.m /\ Turning(q, o4, B, o, k, el) /\ Spare(q, v) /\ Bucket(q).bits < q.header.dir_bits
        /\ Taking(q, o4, o, el, a0, c0, b.adr) /\ r = Refill(v, <<a0, c0>>, b, k)
    BY <1>2, <1>11, <1>12, <1>13
  <2> HIDE DEF q, a0, c0
  <2>2. \E own2, C : Turning(r, own2, C, o, k, el)
    BY <2>1, RefillTurn
  <2>3. Relinked(q, r)
    BY <2>1, RefillTurn
  <2> QED
    BY <1>4, <1>5, <1>6, <1>9, <1>11, <2>1, <2>2, <2>3 DEF Relinked

LEMMA SplitIfFullTurns ==
    ASSUME NEW m, NEW own, NEW B, NEW o, NEW k \in Keys, NEW el, Turns(m, own, B, o, k, el),
           NEW r, r = SplitIfFull(m, k)
    PROVE  (\E own2, C : Turns(r, own2, C, o, k, el)) /\ r.open = m.open
BY SplitTurn DEF SplitIfFull, Turns, Relinked

\* The turns of the loop.
LEMMA TurnExists ==
    ASSUME NEW m, NEW k
    PROVE  \A n \in 0 .. HashBits :
              \E f : f = [i \in 0 .. n |-> IF i = 0 THEN m ELSE SplitIfFull(f[i - 1], k)]
<1> DEFINE P(n) == \E f : f = [i \in 0 .. n |-> IF i = 0 THEN m ELSE SplitIfFull(f[i - 1], k)]
           Bad == {n \in 0 .. HashBits : ~P(n)}
<1>0. HashBits \in Nat
  BY GdbmAssumption
<1>1. P(0)
  <2>1. [i \in 0 .. 0 |-> m] = [i \in 0 .. 0 |-> IF i = 0 THEN m
                                   ELSE SplitIfFull([j \in 0 .. 0 |-> m][i - 1], k)]
    OBVIOUS
  <2> QED
    BY <2>1
<1>2. ASSUME NEW n \in 0 .. HashBits, n # 0, P(n - 1) PROVE P(n)
  <2>1. PICK f : f = [i \in 0 .. n - 1 |-> IF i = 0 THEN m ELSE SplitIfFull(f[i - 1], k)]
    BY <1>2
  <2> DEFINE g == [i \in 0 .. n |-> IF i = n THEN SplitIfFull(f[n - 1], k) ELSE f[i]]
  <2>2. \A i \in 0 .. n : g[i] = IF i = 0 THEN m ELSE SplitIfFull(g[i - 1], k)
    <3> SUFFICES ASSUME NEW i \in 0 .. n PROVE g[i] = IF i = 0 THEN m ELSE SplitIfFull(g[i - 1], k)
      OBVIOUS
    <3>1. CASE i = n
      BY <1>0, <1>2, <3>1
    <3>2. CASE i # n
      BY <1>0, <1>2, <3>2, <2>1
    <3> QED
      BY <3>1, <3>2
  <2>3. g = [i \in 0 .. n |-> g[i]]
    OBVIOUS
  <2> HIDE DEF g
  <2>4. g = [i \in 0 .. n |-> IF i = 0 THEN m ELSE SplitIfFull(g[i - 1], k)]
    BY <2>2, <2>3
  <2> QED
    BY <2>4
<1>3. Bad = {}
  <2> SUFFICES ASSUME Bad # {} PROVE FALSE
    OBVIOUS
  <2>1. Bad \subseteq Nat
    BY <1>0
  <2> HIDE DEF P
  <2>2. PICK n \in Bad : \A j \in Bad : n <= j
    <3> HIDE DEF Bad
    <3> QED BY <2>1, Least
  <2>3. n # 0 /\ n \in 0 .. HashBits
    BY <1>1
  <2>4. n - 1 \in 0 .. HashBits /\ n - 1 \notin Bad
    BY <1>0, <2>2, <2>3
  <2> QED
    BY <1>2, <2>3, <2>4
<1> QED
  BY <1>3

LEMMA SplitBucketIs ==
    ASSUME NEW m, NEW k
    PROVE  SplitBucket(m, k) = FreeOld(LastTurn(m, k))
BY Zenon DEF SplitBucket, LastTurn

LEMMA LastTurns ==
    ASSUME NEW m, NEW own, NEW B, NEW o, NEW k \in Keys, NEW el, Turns(m, own, B, o, k, el)
    PROVE  (\E own2, C : Turns(LastTurn(m, k), own2, C, o, k, el)) /\ LastTurn(m, k).open = m.open
<1> DEFINE F == CHOOSE f : f = [n \in 0 .. HashBits |-> IF n = 0 THEN m ELSE SplitIfFull(f[n - 1], k)]
           P(n) == (\E own2, C : Turns(F[n], own2, C, o, k, el)) /\ F[n].open = m.open
           Bad == {n \in 0 .. HashBits : ~P(n)}
<1>0. HashBits \in Nat
  BY GdbmAssumption
<1>1. F = [n \in 0 .. HashBits |-> IF n = 0 THEN m ELSE SplitIfFull(F[n - 1], k)]
  BY <1>0, TurnExists
<1>2. LastTurn(m, k) = F[HashBits]
  BY DEF LastTurn
<1> HIDE DEF F
<1>3. F[0] = m /\ \A n \in 1 .. HashBits : F[n] = SplitIfFull(F[n - 1], k)
  BY <1>0, <1>1
<1>4. P(0)
  BY <1>3
<1>5. ASSUME NEW n \in 1 .. HashBits, P(n - 1) PROVE P(n)
  <2> DEFINE p == F[n - 1]
             r == F[n]
  <2>1. r = SplitIfFull(p, k)
    BY <1>3
  <2>2. PICK o1, C : Turns(p, o1, C, o, k, el)
    BY <1>5
  <2> HIDE DEF p, r
  <2>3. (\E own2, D : Turns(r, own2, D, o, k, el)) /\ r.open = p.open
    BY <2>1, <2>2, SplitIfFullTurns
  <2>4. p.open = m.open
    BY <1>5 DEF p
  <2> QED
    BY <2>3, <2>4 DEF r
<1>6. Bad = {}
  <2> SUFFICES ASSUME Bad # {} PROVE FALSE
    OBVIOUS
  <2>1. Bad \subseteq Nat
    BY <1>0
  <2> HIDE DEF P
  <2>2. PICK n \in Bad : \A j \in Bad : n <= j
    <3> HIDE DEF Bad
    <3> QED BY <2>1, Least
  <2>3. n # 0 /\ n \in 0 .. HashBits
    BY <1>4
  <2>4. n - 1 \in 0 .. HashBits /\ n - 1 \notin Bad /\ n \in 1 .. HashBits
    BY <1>0, <2>2, <2>3
  <2> QED
    BY <1>5, <2>2, <2>4
<1> QED
  BY <1>0, <1>2, <1>6

-----------------------------------------------------------------------------
\* The old directories are freed.

LEMMA WorkingDirs ==
    ASSUME NEW m, NEW own, NEW B, NEW o, NEW k, Busy(m, own, B, o, k), NEW el, Region(m, own, o, el.adr, el.size)
    PROVE  LET own2 == HeldDirs(own)
           IN /\ Working(m, own2, B, o, k) /\ Region(m, own2, o, el.adr, el.size)
              /\ DirsFrom(m, own2, o, m.old, 1) /\ Distinct(m.old, el)
<1> DEFINE A == Adr(m)
           own2 == HeldDirs(own)
<1>1. Mem(m, own, B, A, A, k) /\ Cur(m, B) /\ Old(m, own, o) /\ NewSafe(m, o) /\ OldDirs(m, own, o)
  BY DEF Busy
<1>2. /\ \A u \in Nat : own[u][1] # OldDir => own2[u] = own[u]
      /\ \A u \in Nat : own[u][1] = OldDir => own2[u] = Held(own[u][3]) /\ own2[u][1] = Holding
  BY TagIs DEF HeldDirs, Held
<1> HIDE DEF own2
<1>3. \A u \in Nat : own[u][1] = OldDir => Taken(own[u], A) /\ ~Home(own[u], B, A) /\ Taken(own2[u], A)
  BY <1>2, Kinds DEF Taken, FreeUnit, NearUnit, Home
<1>4. FreeOK(m, own2)
  BY <1>2, <1>3, <1>1, FreeRetag DEF Mem
<1>5. Steady(own, own2, B, A)
  BY <1>2, <1>3 DEF Steady
<1>6. Homes(own2, m.header, B) /\ Tables(own2, B, A)
  BY <1>1, <1>5, HomesKept, TablesKept DEF Mem, DirOK, DirShape
<1>7. Mem(m, own2, B, A, A, k)
  BY <1>1, <1>4, <1>6 DEF Mem
<1>8. Old(m, own2, o)
  BY <1>2, <1>3, <1>1 DEF Taken, FreeUnit, Old, Link
<1>9. Region(m, own2, o, el.adr, el.size)
  BY TagIs, Kinds, <1>2, SpanNat DEF Region, Held, Owned
<1>10. m.old \in Seq(AvType)
  BY <1>1 DEF OldDirs, Table
<1>11. ASSUME NEW j \in DOMAIN m.old
       PROVE  Region(m, own2, o, m.old[j].adr, m.old[j].size) /\ m.old[j].adr # el.adr
  <2> DEFINE x == m.old[j].adr
             n == m.old[j].size
  <2>1. x \in Nat /\ n \in Nat \ {0} /\ n \in Nat
    <3>1. m.old[j] \in AvType
      BY <1>10
    <3> QED
      BY <3>1 DEF AvType
  <2>2. Owned(own, x, n, Tag(OldDir, Nobody, x)) /\ Safe(m, o, x, n)
    BY <1>1 DEF OldDirs, Table
  <2> HIDE DEF x, n
  <2>3. \A u \in Span(x, n) : u \in Nat /\ own[u][1] = OldDir /\ own[u][3] = x
    BY <2>1, <2>2, SpanNat, TagIs DEF Owned
  <2>4. Owned(own2, x, n, Held(x))
    BY <1>2, <2>3 DEF Owned
  <2>5. Region(m, own2, o, x, n)
    BY <2>1, <2>2, <2>4 DEF Region
  <2>6. x # el.adr
    BY <2>1, <2>3, RegionAt, Kinds DEF Span
  <2> QED
    BY <2>5, <2>6 DEF x, n
<1>12. \A i, j \in DOMAIN m.old : m.old[i].adr = m.old[j].adr => i = j
  BY <1>1 DEF OldDirs, Table
<1> QED
  BY <1>1, <1>7, <1>8, <1>9, <1>10, <1>11, <1>12 DEF Working, DirsFrom, Distinct, own2

LEMMA WorkingFree ==
    ASSUME NEW m, NEW own, NEW B, NEW o, NEW k, Working(m, own, B, o, k), NEW a, NEW n, Region(m, own, o, a, n),
           NEW r, r = Free(m, a, n)
    PROVE  \E own2 : /\ Working(r, own2, B, o, k) /\ OnlySpace(m, r)
                     /\ RegionsBut(m, own, o, r, own2, a)
<1> DEFINE E == Span(a, n)
           A == Adr(m)
<1>1. Mem(m, own, B, A, A, k) /\ Cur(m, B) /\ Old(m, own, o) /\ NewSafe(m, o)
  BY DEF Working
<1>2. FreeOK(m, own) /\ IsMem(m)
  BY <1>1 DEF Mem, FreeOK
<1>3. a \in Nat /\ n \in Nat /\ Owned(own, a, n, Held(a)) /\ Safe(m, o, a, n)
  BY DEF Region
<1>4. Held(a)[1] = Holding
  BY TagIs DEF Held
<1>5. \A u \in E : Taken(own[u], A) /\ ~Home(own[u], B, A)
  BY <1>3, <1>4, Kinds DEF Owned, Taken, FreeUnit, NearUnit, Home
<1>6. Quiet(m, r) /\ \E own2 : Moves(m, own, r, own2, E)
  BY <1>2, <1>3, <1>5, FreeMoves
<1>7. PICK own2 : Moves(m, own, r, own2, E)
  BY <1>6
<1>p. m.popped \/ \A u \in E : ~Prot(o.own[u])
  BY <1>3 DEF Safe
<1> HIDE DEF E
<1>8. Mem(r, own2, B, Adr(r), Adr(r), k)
  BY <1>1, <1>5, <1>6, <1>7, MemMoves
<1>9. OnlySpace(m, r) /\ Adr(r) = A /\ (m.popped => r.popped)
  BY <1>7, MovesAdr DEF Moves, FlagsGrow
<1>10. Cur(r, B)
  BY <1>9, <1>1 DEF OnlySpace, Rest, Cur
<1>11. Old(r, own2, o)
  BY <1>1, <1>7, <1>p, OldMoves
<1>12. NewSafe(r, o)
  BY <1>1, <1>2, <1>7, NewSafeMoves
<1>13. ASSUME NEW x, NEW y, Region(m, own, o, x, y), x # a PROVE Region(r, own2, o, x, y)
  <2>1. x \in Nat /\ y \in Nat /\ Owned(own, x, y, Held(x))
    BY <1>13 DEF Region
  <2>2. Held(x) # Held(a) /\ Held(x)[1] = Holding
    BY <1>13, TagIs DEF Held
  <2>3. \A u \in Span(x, y) : u \in Nat /\ u \notin E /\ own[u][1] = Holding
    BY <1>3, <2>1, <2>2, SpanNat DEF Owned, E
  <2>4. \A u \in Span(x, y) : ~FreeUnit(own[u], A)
    BY <2>3, Kinds DEF FreeUnit, NearUnit
  <2>5. \A u \in Span(x, y) : own2[u] = own[u]
    BY <1>7, <2>3, <2>4 DEF Moves
  <2> QED
    BY <1>9, <1>13, <2>1, <2>5 DEF Region, Owned, Safe
<1> QED
  BY <1>8, <1>9, <1>10, <1>11, <1>12, <1>13 DEF Working, RegionsBut

LEMMA FreedExists ==
    ASSUME NEW m, m.old \in Seq(AvType)
    PROVE  \A n \in 0 .. Len(m.old) :
              \E f : f = [i \in 0 .. n |-> IF i = 0 THEN m ELSE Free(f[i - 1], m.old[i].adr, m.old[i].size)]
<1> DEFINE N == Len(m.old)
           P(n) == \E f : f = [i \in 0 .. n |-> IF i = 0 THEN m ELSE Free(f[i - 1], m.old[i].adr, m.old[i].size)]
           Bad == {n \in 0 .. N : ~P(n)}
<1>0. N \in Nat
  OBVIOUS
<1> HIDE DEF N
<1>1. P(0)
  <2>1. [i \in 0 .. 0 |-> m] = [i \in 0 .. 0 |-> IF i = 0 THEN m
                                   ELSE Free([j \in 0 .. 0 |-> m][i - 1], m.old[i].adr, m.old[i].size)]
    OBVIOUS
  <2> QED
    BY <2>1
<1>2. ASSUME NEW n \in 0 .. N, n # 0, P(n - 1) PROVE P(n)
  <2>1. PICK f : f = [i \in 0 .. n - 1 |-> IF i = 0 THEN m ELSE Free(f[i - 1], m.old[i].adr, m.old[i].size)]
    BY <1>2
  <2> DEFINE g == [i \in 0 .. n |-> IF i = n THEN Free(f[n - 1], m.old[n].adr, m.old[n].size) ELSE f[i]]
  <2>2. \A i \in 0 .. n : g[i] = IF i = 0 THEN m ELSE Free(g[i - 1], m.old[i].adr, m.old[i].size)
    <3> SUFFICES ASSUME NEW i \in 0 .. n
                 PROVE  g[i] = IF i = 0 THEN m ELSE Free(g[i - 1], m.old[i].adr, m.old[i].size)
      OBVIOUS
    <3>1. CASE i = n
      BY <1>0, <1>2, <3>1
    <3>2. CASE i # n
      BY <1>0, <1>2, <3>2, <2>1
    <3> QED
      BY <3>1, <3>2
  <2>3. g = [i \in 0 .. n |-> g[i]]
    OBVIOUS
  <2> HIDE DEF g
  <2>4. g = [i \in 0 .. n |-> IF i = 0 THEN m ELSE Free(g[i - 1], m.old[i].adr, m.old[i].size)]
    BY <2>2, <2>3
  <2> QED
    BY <2>4
<1>3. Bad = {}
  <2> SUFFICES ASSUME Bad # {} PROVE FALSE
    OBVIOUS
  <2>1. Bad \subseteq Nat
    BY <1>0
  <2> HIDE DEF P
  <2>2. PICK n \in Bad : \A j \in Bad : n <= j
    <3> HIDE DEF Bad
    <3> QED BY <2>1, Least
  <2>3. n # 0 /\ n \in 0 .. N
    BY <1>1
  <2>4. n - 1 \in 0 .. N /\ n - 1 \notin Bad
    BY <1>0, <2>2, <2>3
  <2> QED
    BY <1>2, <2>3, <2>4
<1> QED
  BY <1>3 DEF N

LEMMA FreeOldIs ==
    ASSUME NEW m
    PROVE  FreeOld(m) = NoOld(LastFreed(m))
BY Zenon DEF FreeOld, LastFreed, NoOld

LEMMA LastFreedWorks ==
    ASSUME NEW m, NEW own, NEW B, NEW o, NEW k, Working(m, own, B, o, k),
           NEW el, Region(m, own, o, el.adr, el.size), DirsFrom(m, own, o, m.old, 1), Distinct(m.old, el)
    PROVE  \E own2 : /\ Working(LastFreed(m), own2, B, o, k) /\ OnlySpace(m, LastFreed(m))
                     /\ Region(LastFreed(m), own2, o, el.adr, el.size)
<1> DEFINE old == m.old
           N == Len(old)
           F == CHOOSE f : f = [i \in 0 .. N |-> IF i = 0 THEN m ELSE Free(f[i - 1], old[i].adr, old[i].size)]
           Q(r, own2, i) == /\ Working(r, own2, B, o, k) /\ OnlySpace(m, r)
                            /\ Region(r, own2, o, el.adr, el.size) /\ DirsFrom(r, own2, o, old, i + 1)
           P(i) == \E own2 : Q(F[i], own2, i)
           Bad == {i \in 0 .. N : ~P(i)}
<1>0. old \in Seq(AvType) /\ N \in Nat /\ DOMAIN old = 1 .. N
  BY DEF Distinct
<1>1. F = [i \in 0 .. N |-> IF i = 0 THEN m ELSE Free(F[i - 1], old[i].adr, old[i].size)]
  <2>1. m.old \in Seq(AvType) /\ N \in 0 .. Len(m.old)
    BY <1>0
  <2>2. \E f : f = [i \in 0 .. N |-> IF i = 0 THEN m ELSE Free(f[i - 1], old[i].adr, old[i].size)]
    BY <2>1, FreedExists
  <2> QED
    BY <2>2
<1>2. LastFreed(m) = F[N]
  BY DEF LastFreed
<1> HIDE DEF F, N
<1>3. F[0] = m /\ \A i \in 1 .. N : F[i] = Free(F[i - 1], old[i].adr, old[i].size)
  BY <1>0, <1>1
<1> HIDE DEF old
<1>4. P(0)
  BY OnlySpaceSelf, <1>3 DEF Working, Mem, FreeOK, old
<1>5. ASSUME NEW i \in 1 .. N, P(i - 1) PROVE P(i)
  <2> DEFINE p == F[i - 1]
             r == F[i]
             a == old[i].adr
             n == old[i].size
  <2>1. r = Free(p, a, n)
    BY <1>3
  <2>2. PICK o1 : Q(p, o1, i - 1)
    BY <1>5
  <2>3. Region(p, o1, o, a, n)
    BY <1>0, <2>2 DEF DirsFrom
  <2>4. el.adr # a /\ \A j \in DOMAIN old : j >= i + 1 => old[j].adr # a
    BY <1>0 DEF Distinct, old
  <2> HIDE DEF p, r, a, n
  <2>5. PICK own2 : /\ Working(r, own2, B, o, k) /\ OnlySpace(p, r)
                    /\ RegionsBut(p, o1, o, r, own2, a)
    BY <2>1, <2>2, <2>3, WorkingFree
  <2>6. OnlySpace(m, r)
    BY <2>2, <2>5, OnlySpaceTrans
  <2>7. Region(r, own2, o, el.adr, el.size)
    BY <2>2, <2>4, <2>5 DEF RegionsBut
  <2>8. DirsFrom(r, own2, o, old, i + 1)
    <3> SUFFICES ASSUME NEW j \in DOMAIN old, j >= i + 1 PROVE Region(r, own2, o, old[j].adr, old[j].size)
      BY DEF DirsFrom
    <3>1. j >= (i - 1) + 1
      BY <1>0
    <3>2. Region(p, o1, o, old[j].adr, old[j].size)
      BY <2>2, <3>1 DEF DirsFrom
    <3> QED
      BY <2>4, <2>5, <3>2 DEF RegionsBut
  <2>9. Q(r, own2, i)
    BY <2>5, <2>6, <2>7, <2>8
  <2> QED
    BY <2>9 DEF r
<1>6. Bad = {}
  <2> SUFFICES ASSUME Bad # {} PROVE FALSE
    OBVIOUS
  <2>1. Bad \subseteq Nat
    BY <1>0
  <2> HIDE DEF P
  <2>2. PICK n \in Bad : \A j \in Bad : n <= j
    <3> HIDE DEF Bad
    <3> QED BY <2>1, Least
  <2>3. n # 0 /\ n \in 0 .. N
    BY <1>4
  <2>4. n - 1 \in 0 .. N /\ n - 1 \notin Bad /\ n \in 1 .. N
    BY <1>0, <2>2, <2>3
  <2> QED
    BY <1>5, <2>2, <2>4
<1> QED
  BY <1>0, <1>6, <1>2

LEMMA NoOldIs ==
    ASSUME NEW m, IsMem(m), NEW r, r = NoOld(m)
    PROVE  /\ IsMem(r) /\ r.old = <<>> /\ r.open = m.open /\ r.disk = m.disk /\ r.header = m.header
           /\ r.dir = m.dir /\ r.bucket_dir = m.bucket_dir /\ r.cur = m.cur /\ r.last_read = m.last_read
           /\ r.cache = m.cache /\ r.header_changed = m.header_changed
           /\ r.directory_changed = m.directory_changed /\ r.bucket_changed = m.bucket_changed
           /\ r.second_changed = m.second_changed /\ r.popped = m.popped
BY DEF IsMem, IsRec, NoOld

LEMMA NoOldBusy ==
    ASSUME NEW m, NEW own, NEW B, NEW o, NEW k, Working(m, own, B, o, k), m.old # <<>> => m.directory_changed,
           NEW r, r = NoOld(m)
    PROVE  Busy(r, own, B, o, k)
<1> DEFINE A == Adr(m)
<1>1. Mem(m, own, B, A, A, k) /\ Cur(m, B) /\ Old(m, own, o) /\ NewSafe(m, o)
  BY DEF Working
<1>2. IsMem(m)
  BY <1>1 DEF Mem, FreeOK
<1>3. /\ IsMem(r) /\ r.old = <<>> /\ r.disk = m.disk /\ r.header = m.header
      /\ r.dir = m.dir /\ r.bucket_dir = m.bucket_dir /\ r.cur = m.cur /\ r.last_read = m.last_read
      /\ r.cache = m.cache /\ r.header_changed = m.header_changed
      /\ r.directory_changed = m.directory_changed
      /\ r.second_changed = m.second_changed /\ r.popped = m.popped
  BY <1>2, NoOldIs
<1> HIDE DEF A
<1>4. Adr(r) = A /\ Bucket(r) = Bucket(m)
  BY <1>3 DEF Adr, Bucket, A
<1>5. FreeOK(r, own)
  BY <1>1, <1>3, <1>4 DEF Mem, FreeOK, A
<1>6. DirOn(r) /\ HeaderOn(r) /\ BucketsOn(r, B, A)
  BY <1>1, <1>3 DEF Mem, DirOn, HeaderOn, BucketsOn, BucketOn, Pending
<1>7. Cached(r, B, A) /\ DataOK(r, B, A) /\ RecordsIn(r.disk, B, k) /\ FlagsOK(r)
  BY <1>1, <1>3 DEF Mem, Cached, DataOK, FlagsOK
<1>8. Mem(r, own, B, A, A, k)
  BY <1>1, <1>3, <1>5, <1>6, <1>7 DEF Mem
<1>9. Cur(r, B)
  BY <1>1, <1>3, <1>4 DEF Cur, A
<1>10. Old(r, own, o) /\ NewSafe(r, o)
  BY <1>1, <1>3, <1>4 DEF Old, Link, NewSafe, Safe, A
<1>11. OldDirs(r, own, o)
  BY <1>3, EmptyTable DEF OldDirs
<1> QED
  BY <1>4, <1>8, <1>9, <1>10, <1>11 DEF Busy

\* _gdbm_split_bucket, with all the turns of its loop, the directories it doubles and
\* frees, and the tables it deals out: when it is done the key's bucket is the current
\* one, and the space held for the record and the old layout are still untouched.
THEOREM SplitRoomy ==
    ASSUME NEW m, NEW own, NEW B, NEW o, NEW k \in Keys, NEW el, Turning(m, own, B, o, k, el), m.old = <<>>,
           NEW r, r = SplitBucket(m, k)
    PROVE  (\E own2, C : Roomy(r, own2, C, o, k, el)) /\ r.open = m.open
<1> DEFINE q == LastTurn(m, k)
           p == LastFreed(q)
<1>1. r = NoOld(p)
  BY SplitBucketIs, FreeOldIs
<1>2. PICK o1, C : Turns(q, o1, C, o, k, el)
  BY LastTurns DEF Turns
<1>o. q.open = m.open
  BY LastTurns DEF Turns
<1> DEFINE o2 == HeldDirs(o1)
<1> HIDE DEF q
<1>3. /\ Busy(q, o1, C, o, k) /\ Marked(q) /\ Bucket(q).elems = C[Adr(q)].elems
      /\ q.dir[DirIndex(k, q.header.dir_bits)] = Adr(q) /\ el \in AvType
      /\ Region(q, o1, o, el.adr, el.size) /\ (q.old # <<>> => q.directory_changed)
  BY <1>2 DEF Turns, Turning
<1>4. Working(q, o2, C, o, k) /\ Region(q, o2, o, el.adr, el.size)
      /\ DirsFrom(q, o2, o, q.old, 1) /\ Distinct(q.old, el)
  BY <1>3, WorkingDirs
<1> HIDE DEF o2
<1>5. PICK own2 : Working(p, own2, C, o, k) /\ OnlySpace(q, p) /\ Region(p, own2, o, el.adr, el.size)
  BY <1>4, LastFreedWorks
<1> HIDE DEF p
<1>6. p.cur \in Slots /\ q.cur \in Slots /\ IsMem(p)
  BY <1>3, <1>5 DEF Working, Busy, Mem, FreeOK, IsMem
<1>7. /\ p.old = q.old /\ p.directory_changed = q.directory_changed /\ p.cur = q.cur
      /\ p.dir = q.dir /\ p.header.dir_bits = q.header.dir_bits
      /\ Adr(p) = Adr(q) /\ Bucket(p).elems = Bucket(q).elems /\ p.open = q.open
  BY <1>5 DEF OnlySpace, Rest, Adr
<1>8. Busy(r, own2, C, o, k)
  BY <1>1, <1>3, <1>5, <1>7, NoOldBusy
<1>9. /\ r.old = <<>> /\ r.cache = p.cache /\ r.cur = p.cur /\ r.dir = p.dir /\ r.header = p.header
      /\ r.popped = p.popped /\ r.open = p.open
  BY <1>1, <1>6, NoOldIs
<1>10. Adr(r) = Adr(p) /\ Bucket(r) = Bucket(p)
  BY <1>9 DEF Adr, Bucket
<1>11. Marked(r)
  BY <1>3, <1>5, <1>6, SpaceMarked, <1>9 DEF Marked
<1>12. AgreeBut(Bucket(r).elems, C[Adr(r)].elems, k)
  BY <1>3, <1>7, <1>10 DEF AgreeBut
<1>13. r.dir[DirIndex(k, r.header.dir_bits)] = Adr(r)
  BY <1>3, <1>7, <1>9, <1>10
<1>14. Owned(own2, el.adr, el.size, Held(el.adr)) /\ Safe(r, o, el.adr, el.size)
  BY <1>5, <1>9 DEF Region, Safe
<1>15. Roomy(r, own2, C, o, k, el)
  BY <1>3, <1>8, <1>9, <1>11, <1>12, <1>13, <1>14 DEF Roomy
<1> QED
  BY <1>o, <1>7, <1>9, <1>15

LEMMA FittingRoomy ==
    ASSUME NEW g, NEW own, NEW B, Clean(g, own, B), NEW k \in Keys, Bucket(g).elems = B[Adr(g)].elems,
           g.dir[DirIndex(k, g.header.dir_bits)] = Adr(g), NEW o, NEW C, RoomOK(g, B, C, k),
           NEW p, NEW own2, BusyStep(g, own, C, o, k, p, own2),
           NEW el \in AvType, Owned(own2, el.adr, el.size, Held(el.adr)), Safe(p, o, el.adr, el.size)
    PROVE  (\E own3, D : Roomy(Fitting(p, k), own3, D, o, k, el)) /\ Fitting(p, k).open = g.open
<1>1. Busy(p, own2, C, o, k) /\ OnlySpace(g, p) /\ Adr(p) = Adr(g)
  BY DEF BusyStep
<1>2. g.old = <<>> /\ Marked(g) /\ g.cur \in Slots
  BY DEF Clean, Settled, Unchanged, Marked, Mem, FreeOK, IsMem
<1>3. Marked(p)
  BY <1>1, <1>2, SpaceMarked
<1>4. p.old = <<>> /\ p.dir[DirIndex(k, p.header.dir_bits)] = Adr(p) /\ Bucket(p).elems = B[Adr(p)].elems
      /\ p.open = g.open
  BY <1>1, <1>2 DEF OnlySpace, Rest
<1>5. Adr(p) \in DOMAIN B
  BY <1>1 DEF RoomOK, LessElems
<1>6. CASE k \notin DOMAIN Bucket(p).elems /\ Full(p)
  BY <1>1, <1>4, <1>6, <1>3, SplitRoomy DEF RoomOK, Region, AvType, Turning, Fitting
<1>7. CASE ~(k \notin DOMAIN Bucket(p).elems /\ Full(p))
  <2>1. Fitting(p, k) = p
    BY <1>7 DEF Fitting
  <2>2. AgreeBut(B[Adr(p)].elems, C[Adr(p)].elems, k)
    <3>1. CASE k \in DOMAIN B[Adr(p)].elems
      <4>1. C[Adr(p)].elems = ElemsWithout(B[Adr(p)].elems, k)
        BY <1>1, <1>5, <3>1, KeyOutIs DEF RoomOK
      <4> QED
        BY <4>1 DEF AgreeBut, ElemsWithout
    <3>2. CASE k \notin DOMAIN B[Adr(p)].elems
      BY <1>1, <3>2 DEF RoomOK, AgreeBut
    <3> QED
      BY <3>1, <3>2
  <2>3. Roomy(p, own2, C, o, k, el)
    BY <1>1, <1>3, <1>4, <2>2 DEF Roomy
  <2> QED
    BY <1>4, <2>1, <2>3
<1> QED
  BY <1>6, <1>7

LEMMA StoreStores ==
    ASSUME NEW m, NEW own, NEW B, Clean(m, own, B), NEW k \in Keys, NEW v \in Values,
           NEW a, a = Room(FindKey(m, k), k, v), NEW el, el = [adr |-> a.adr, size |-> SizeOf[v]]
    PROVE  /\ \E own2, C, o : Stored(SetElem(Fitting(a.m, k), k, el), own2, C, o, k, el)
           /\ a.adr \in Nat /\ SetElem(Fitting(a.m, k), k, el).open = m.open
<1> DEFINE g == FindKey(m, k)
<1>1. Fetched(m, own, B, DirIndex(k, m.header.dir_bits), g)
  BY FindKeyClean
<1>2. a = Room(g, k, v)
  OBVIOUS
<1> HIDE DEF g
<1>3. /\ Clean(g, own, B) /\ g.bucket_dir = DirIndex(k, g.header.dir_bits) /\ g.dir[g.bucket_dir] = Adr(g)
      /\ Adr(g) \in DOMAIN B /\ Bucket(g) = B[Adr(g)] /\ g.open = m.open
  BY <1>1 DEF Fetched, SameFile
<1>4. g.bucket_dir \in Entries(g.header.dir_bits)
  <2>1. g.header.dir_bits \in InitBits .. HashBits
    BY <1>3 DEF Clean, Mem, DirOK, DirShape
  <2>2. g.header.dir_bits \in 0 .. HashBits
    BY <2>1, BitConsts
  <2> QED
    BY <2>2, IndexIs, TwoPos, <1>3 DEF Entries
<1>5. PICK o : LayoutOf(o, g, own, B)
  BY LayoutExists
<1>6. Busy(g, own, B, o, k) /\ o.own = own
  BY <1>3, <1>4, <1>5, BeginBusy DEF LayoutOf
<1>7. PICK own2, C : /\ RoomOK(g, B, C, k) /\ BusyStep(g, own, C, o, k, a.m, own2)
                     /\ HasRoom(a, own2, o, SizeOf[v])
  BY <1>2, <1>3, <1>6, RoomBusy
<1>8. el \in AvType /\ el.adr = a.adr /\ el.size = SizeOf[v] /\ a.adr \in Nat
  BY <1>7, GdbmAssumption DEF HasRoom, AvType
<1>9. Owned(own2, el.adr, el.size, Held(el.adr)) /\ Safe(a.m, o, el.adr, el.size)
  BY <1>7, <1>8 DEF HasRoom
<1>10. Bucket(g).elems = B[Adr(g)].elems /\ g.dir[DirIndex(k, g.header.dir_bits)] = Adr(g)
  BY <1>3
<1> DEFINE p == a.m
           f == Fitting(p, k)
<1> HIDE DEF p
<1>11. BusyStep(g, own, C, o, k, p, own2) /\ Safe(p, o, el.adr, el.size)
  BY <1>7, <1>9 DEF p
<1>r. (\E own3, D : Roomy(f, own3, D, o, k, el)) /\ f.open = g.open
  BY <1>3, <1>7, <1>8, <1>9, <1>10, <1>11, FittingRoomy
<1>12. PICK own3, D : Roomy(f, own3, D, o, k, el)
  BY <1>r
<1> HIDE DEF f
<1>13. \E own4, H : Stored(SetElem(f, k, el), own4, H, o, k, el)
  BY <1>12, SetElemStores
<1>14. SetElem(f, k, el).open = f.open
  BY <1>12 DEF Roomy, Busy, Mem, FreeOK, SetElem, IsMem
<1> QED
  BY <1>3, <1>8, <1>r, <1>13, <1>14 DEF f, p

-----------------------------------------------------------------------------
\* The invariant: what a file that no death has hurt and the memory of the
\* process that opened it look like, between the steps of an update too.

LEMMA OpenSound ==
    ASSUME NEW m, NEW p, NEW r, NEW w, Sound(m, p, r, w), ~m.open
    PROVE  Sound(Opened(m.disk), p, r, w)
BY OpenClean DEF Sound, Opened, Writes

LEMMA CloseSound ==
    ASSUME NEW d, NEW o, DiskOK(d, o), NEW r
    PROVE  Sound(Closed(d), "idle", r, <<>>)
BY DEF Sound, Closed, Writes

LEMMA FetchSound ==
    ASSUME NEW m, NEW p, NEW r, NEW w, Sound(m, p, r, w), p = "idle", m.open, NEW k \in Keys
    PROVE  Sound(FindKey(m, k), p, r, w)
<1> DEFINE q == FindKey(m, k)
<1>1. PICK own, B : Clean(m, own, B)
  BY DEF Sound
<1>2. Clean(q, own, B) /\ q.disk = m.disk /\ q.open = m.open
  BY <1>1, FindKeyClean DEF Fetched, SameFile
<1> HIDE DEF q
<1>3. Sound(q, p, r, w)
  BY <1>2 DEF Sound, Writes
<1> QED
  BY <1>3 DEF q

LEMMA DeleteSound ==
    ASSUME NEW m, NEW p, NEW r, NEW w, Sound(m, p, r, w), p = "idle", m.open, NEW k \in Keys,
           NEW g, g = FindKey(m, k), k \in DOMAIN Bucket(g).elems, NEW s
    PROVE  Sound(ForgetData(RemoveElem(g, k)), "update", s, <<k, NoValue>>)
<1> DEFINE q == ForgetData(RemoveElem(g, k))
<1>1. PICK own, B : Clean(m, own, B)
  BY DEF Sound
<1>2. /\ \E own2, C, o : Commit(q, own2, C, o, 0)
      /\ q.open = m.open
      /\ q.dir[DirIndex(k, q.header.dir_bits)] = Adr(q) /\ k \notin DOMAIN Bucket(q).elems
  BY <1>1, DeleteCommits
<1> DEFINE v == <<k, NoValue>>
<1>3. v[1] = k /\ v[2] = NoValue /\ v # <<>>
  OBVIOUS
<1> HIDE DEF q, v
<1>4. PICK own2, C, o : Commit(q, own2, C, o, 0)
  BY <1>2
<1>5. Effect(q.disk, C, k, NoValue)
  <2>1. Bucket(q) = C[Adr(q)]
    BY <1>4, CommitParts
  <2>2. \A a \in DOMAIN C : k \in DOMAIN C[a].elems => a = Adr(q)
    BY <1>2, <1>4 DEF Commit, Mem, DirOK, DirKeys
  <2> QED
    BY <1>2, <2>1, <2>2 DEF Effect
<1>6. Sound(q, "update", s, v)
  BY <1>2, <1>3, <1>4, <1>5 DEF Sound, Writes
<1> QED
  BY <1>6 DEF q, v

LEMMA StoreSound ==
    ASSUME NEW m, NEW p, NEW r, NEW w, Sound(m, p, r, w), p = "idle", m.open, NEW k \in Keys, NEW v \in Values,
           NEW a, a = Room(FindKey(m, k), k, v)
    PROVE  Sound(SetElem(Fitting(a.m, k), k, [adr |-> a.adr, size |-> SizeOf[v]]), "key",
                 [adr |-> a.adr, key |-> k, val |-> v], <<k, v>>)
<1> DEFINE el == [adr |-> a.adr, size |-> SizeOf[v]]
           q == SetElem(Fitting(a.m, k), k, el)
           s == [adr |-> a.adr, key |-> k, val |-> v]
<1>1. PICK own, B : Clean(m, own, B)
  BY DEF Sound
<1>2. (\E own2, C, o : Stored(q, own2, C, o, k, el)) /\ a.adr \in Nat /\ q.open = m.open
  BY <1>1, StoreStores
<1>3. s.key = k /\ s.val = v /\ s.adr = a.adr /\ ElOf(s) = el
  BY DEF ElOf
<1> DEFINE u == <<k, v>>
<1>4. u[1] = k /\ u[2] = v /\ u # <<>>
  OBVIOUS
<1> HIDE DEF q, s, el, u
<1>5. Sound(q, "key", s, u)
  BY <1>2, <1>3, <1>4 DEF Sound, Writes
<1> QED
  BY <1>5 DEF q, s, el, u

\* The writes of the record: units n of it.
LEMMA WriteSound ==
    ASSUME NEW m, NEW p, NEW r, NEW w, Sound(m, p, r, w), p \in Writes,
           NEW n \in Nat, n <= SizeOf[r.val], NEW obj, obj[1] # "dir",
           NEW q, q = [m EXCEPT !.disk = Put(@, r.adr, n, obj)]
    PROVE  /\ Sound(q, "record", r, w)
           /\ n = SizeOf[r.val] /\ obj = RecordObj(r.key, r.val) => \A s : Sound(q, "update", s, w)
<1>1. PICK own, B, o : Stored(m, own, B, o, r.key, ElOf(r))
  BY DEF Sound
<1>2. r.key \in Keys /\ r.val \in Values /\ r.adr \in Nat /\ p # "idle" /\ m.open
      /\ w # <<>> /\ w[1] = r.key /\ w[2] = r.val
  BY DEF Sound, Writes
<1>3. ElOf(r).adr = r.adr /\ ElOf(r).size = SizeOf[r.val]
  BY DEF ElOf
<1>4. IsMem(m)
  BY <1>1 DEF Stored, Commit, Mem, FreeOK
<1> DEFINE d == Put(m.disk, ElOf(r).adr, n, obj)
<1>5. q = Rewritten(m, d, m.header_changed, m.directory_changed, m.second_changed, m.popped)
      /\ q.open = m.open
  <2>1. q = [m EXCEPT !.disk = d] /\ IsRec(m)
    BY <1>3, <1>4 DEF IsMem, IsRec
  <2> HIDE DEF d
  <2> QED
    BY <2>1 DEF IsRec, Rewritten
<1>6. Stored(q, own, B, o, r.key, ElOf(r)) /\ (n = SizeOf[r.val] => Commit(q, own, B, o, 0))
  <2> DEFINE el == ElOf(r)
  <2>1. n <= el.size /\ Stored(m, own, B, o, r.key, el) /\ (n = el.size <=> n = SizeOf[r.val])
    BY <1>1, <1>3
  <2>2. q = Rewritten(m, Put(m.disk, el.adr, n, obj), m.header_changed, m.directory_changed,
                      m.second_changed, m.popped)
    BY <1>5
  <2> HIDE DEF el, d
  <2>3. Stored(q, own, B, o, r.key, el) /\ (n = el.size => Commit(q, own, B, o, 0))
    BY <2>1, <2>2, RecordWritten
  <2> QED
    BY <2>1, <2>3 DEF el
<1>7. ASSUME n = SizeOf[r.val], obj = RecordObj(r.key, r.val) PROVE Effect(q.disk, B, r.key, r.val)
  <2> DEFINE el == ElOf(r)
             y == Adr(m)
  <2>1. y \in DOMAIN B /\ r.key \in DOMAIN B[y].elems /\ B[y].elems[r.key] = el
    BY <1>1 DEF Stored, Commit
  <2>2. Holds(d, el.adr, el.size, RecordObj(r.key, r.val))
    BY <1>2, <1>3, <1>7, PutHolds
  <2> HIDE DEF el, y, d
  <2>3. q.disk = d
    BY <1>4, <1>5 DEF Rewritten, IsMem, IsRec
  <2> QED
    BY <1>2, <2>1, <2>2, <2>3 DEF Effect
<1> HIDE DEF d
<1>8. ASSUME n = SizeOf[r.val], obj = RecordObj(r.key, r.val), NEW s PROVE Sound(q, "update", s, w)
  BY <1>2, <1>5, <1>6, <1>7, <1>8 DEF Sound, Writes
<1>9. Sound(q, "record", r, w)
  BY <1>2, <1>5, <1>6 DEF Sound, Writes
<1> QED
  BY <1>8, <1>9

\* A write to what is not a record leaves an update's effect where it is.
LEMMA EffectStays ==
    ASSUME NEW d, NEW e, NEW own, NEW t, WroteOnly(d, e, own, t), t[1] # ARecord,
           NEW h, NEW B, Homes(own, h, B), NEW k, NEW v, Effect(d, B, k, v)
    PROVE  Effect(e, B, k, v)
<1>1. ASSUME NEW a \in DOMAIN B, k \in DOMAIN B[a].elems,
             Holds(d, B[a].elems[k].adr, B[a].elems[k].size, RecordObj(k, v))
      PROVE  Holds(e, B[a].elems[k].adr, B[a].elems[k].size, RecordObj(k, v))
  <2> DEFINE el == B[a].elems[k]
             s == Tag(ARecord, k, Nobody)
             x == el.adr
             n == el.size
             obj == RecordObj(k, v)
  <2>1. x \in Nat /\ n \in Nat /\ Owned(own, x, n, s)
    BY <1>1 DEF Homes, HasRecord, AvType
  <2>2. s # t
    BY TagIs
  <2>3. Holds(d, x, n, obj)
    BY <1>1
  <2> HIDE DEF x, n, obj, s
  <2>4. Holds(e, x, n, obj)
    BY <2>1, <2>2, <2>3, HoldsApart
  <2> QED
    BY <2>4 DEF x, n, obj
<1> QED
  BY <1>1 DEF Effect

LEMMA EffectBucket ==
    ASSUME NEW m, NEW own, NEW B, NEW o, NEW k, Commit(m, own, B, o, k), NEW a \in DOMAIN B, NEW obj,
           NEW q, NEW v, Effect(m.disk, B, q, v)
    PROVE  Effect(Put(m.disk, a, block_size, obj), B, q, v)
<1> DEFINE t == Tag(ABucket, Nobody, a)
<1>1. Homes(own, m.header, B) /\ t[1] # ARecord
  BY CommitParts, TagIs, Kinds
<1>2. a \in Nat /\ block_size \in Nat /\ Owned(own, a, block_size, t)
  BY <1>1, Consts DEF Homes
<1> HIDE DEF t
<1> QED
  BY <1>1, <1>2, PutOnly, EffectStays

LEMMA EffectDir ==
    ASSUME NEW m, NEW own, NEW B, NEW o, NEW k, Commit(m, own, B, o, k), NEW obj,
           NEW q, NEW v, Effect(m.disk, B, q, v)
    PROVE  Effect(Put(m.disk, m.header.dir, DirSize(m.header.dir_bits), obj), B, q, v)
<1> DEFINE t == Tag(TheDir, Nobody, Nobody)
           a == m.header.dir
           n == DirSize(m.header.dir_bits)
<1>1. Homes(own, m.header, B) /\ t[1] # ARecord
  BY CommitParts, TagIs, Kinds
<1>2. a \in Nat /\ n \in Nat /\ Owned(own, a, n, t)
  BY <1>1, CommitParts, DirSizeNat DEF Homes
<1> HIDE DEF t, a, n
<1>3. Effect(Put(m.disk, a, n, obj), B, q, v)
  BY <1>1, <1>2, PutOnly, EffectStays
<1> QED
  BY <1>3 DEF a, n

LEMMA EffectHeader ==
    ASSUME NEW m, NEW own, NEW B, NEW o, NEW k, Commit(m, own, B, o, k), NEW obj,
           NEW q, NEW v, Effect(m.disk, B, q, v)
    PROVE  Effect(Put(m.disk, 0, block_size, obj), B, q, v)
<1> DEFINE t == Tag(TheHeader, Nobody, Nobody)
           a == 0
<1>1. Homes(own, m.header, B) /\ t[1] # ARecord
  BY CommitParts, TagIs, Kinds
<1>2. a \in Nat /\ block_size \in Nat /\ Owned(own, a, block_size, t)
  BY <1>1, Consts DEF Homes
<1> HIDE DEF t, a
<1>3. Effect(Put(m.disk, a, block_size, obj), B, q, v)
  BY <1>1, <1>2, PutOnly, EffectStays
<1> QED
  BY <1>3 DEF a

\* The writes that end an update, each as a step.
LEMMA BucketSound ==
    ASSUME NEW m, NEW p, NEW r, NEW w, Sound(m, p, r, w), p = "update", m.bucket_changed,
           NEW q, q = [WriteBucket(m, m.cur) EXCEPT !.bucket_changed = FALSE]
    PROVE  Sound(q, p, r, w)
<1>1. PICK own, B, o : Commit(m, own, B, o, 0) /\ Effect(m.disk, B, w[1], w[2])
  BY DEF Sound
<1>2. IsMem(m) /\ m.cur \in Slots
  BY <1>1, CommitParts
<1> DEFINE d == Put(m.disk, m.cache[m.cur].adr, block_size, BucketObj(m.cache[m.cur].bucket))
           no == FALSE
<1>3. q = SetWritten(m, m.cur, d, no)
  BY <1>2, WriteBucketIs
<1>4. ~no
  OBVIOUS
<1> HIDE DEF no
<1>5. Flush(m, m.cur, no, q)
  BY <1>2, <1>3 DEF Flush
<1>6. Commit(q, own, B, o, 0)
  BY <1>1, <1>4, <1>5, CommitBucket
<1>e. Effect(q.disk, B, w[1], w[2])
  <2> HIDE DEF d
  <2>1. q.disk = d
    BY <1>2, <1>3 DEF SetWritten, IsMem, IsRec
  <2> QED
    BY <1>1, <1>2, <2>1, CommitParts, EffectBucket DEF d
<1> HIDE DEF d
<1>7. q.open = m.open
  BY <1>2, <1>3 DEF SetWritten, IsMem, IsRec
<1> QED
  BY <1>6, <1>7, <1>e DEF Sound, Writes

LEMMA OtherSound ==
    ASSUME NEW m, NEW p, NEW r, NEW w, Sound(m, p, r, w), p = "update", ~m.bucket_changed, ChangedSlots(m) # {},
           NEW q, q = WriteBucket(m, First(ChangedSlots(m)))
    PROVE  Sound(q, p, r, w)
<1>1. PICK own, B, o : Commit(m, own, B, o, 0) /\ Effect(m.disk, B, w[1], w[2])
  BY DEF Sound
<1> DEFINE c == First(ChangedSlots(m))
           d == Put(m.disk, m.cache[c].adr, block_size, BucketObj(m.cache[c].bucket))
<1>2. IsMem(m)
  BY <1>1, CommitParts
<1>3. c \in ChangedSlots(m)
  BY SlotsAre, Least DEF ChangedSlots, Slots, First
<1>4. q = WriteBucket(m, c)
  OBVIOUS
<1> HIDE DEF c
<1>5. c \in Slots /\ m.cache[c].changed
  BY <1>3 DEF ChangedSlots, Slots
<1>6. Commit(q, own, B, o, 0)
  BY <1>1, <1>4, <1>5, CommitOther
<1>7. q = SetWritten(m, c, d, m.bucket_changed)
  BY <1>2, <1>4, <1>5, WriteBucketIs
<1>e. Effect(q.disk, B, w[1], w[2])
  <2>1. q.disk = d
    BY <1>2, <1>5, <1>7, SetWrittenIs
  <2>2. m.cache[c].adr \in DOMAIN B
    BY <1>1, <1>5, CommitParts DEF Commit, Marked, Cached
  <2> QED
    BY <1>1, <2>1, <2>2, EffectBucket
<1> HIDE DEF d
<1>8. q.open = m.open
  BY <1>2, <1>5, <1>7, SetWrittenIs DEF OnlyFile
<1> QED
  BY <1>6, <1>8, <1>e DEF Sound, Writes

\* No other bucket is marked, and so no bucket is.
LEMMA NoneMarked ==
    ASSUME NEW m, NEW own, NEW B, NEW o, NEW k, Commit(m, own, B, o, k), ~m.bucket_changed,
           m.second_changed => ChangedSlots(m) = {}
    PROVE  Unchanged(m)
BY CommitParts DEF Commit, FlagsOK, ChangedSlots, Slots, CurOn, Unchanged

LEMMA DirSound ==
    ASSUME NEW m, NEW p, NEW r, NEW w, Sound(m, p, r, w), p = "update", ~m.bucket_changed,
           m.second_changed => ChangedSlots(m) = {},
           NEW q, q = [m EXCEPT !.directory_changed = FALSE, !.second_changed = FALSE,
                          !.disk = Put(@, m.header.dir, DirSize(m.header.dir_bits), <<"dir", m.dir>>)]
    PROVE  Sound(q, p, r, w)
<1>1. PICK own, B, o : Commit(m, own, B, o, 0) /\ Effect(m.disk, B, w[1], w[2])
  BY DEF Sound
<1>2. IsMem(m) /\ Unchanged(m)
  BY <1>1, CommitParts, NoneMarked
<1> DEFINE no == FALSE
           obj == DirObject(m.dir)
           d == Put(m.disk, m.header.dir, DirSize(m.header.dir_bits), obj)
<1>3. q = Rewritten(m, d, m.header_changed, no, no, m.popped)
  <2>1. IsRec(m) /\ q = [m EXCEPT !.directory_changed = no, !.second_changed = no, !.disk = d]
    BY <1>2 DEF IsMem, IsRec, DirObject
  <2> HIDE DEF d, no
  <2> QED
    BY <2>1 DEF IsRec, Rewritten
<1>4. ~no
  OBVIOUS
<1> HIDE DEF no
<1>5. Commit(q, own, B, o, 0)
  BY <1>1, <1>2, <1>3, <1>4, CommitDir
<1>e. Effect(q.disk, B, w[1], w[2])
  <2> HIDE DEF d, obj
  <2>1. q.disk = d
    BY <1>2, <1>3 DEF Rewritten, IsMem, IsRec
  <2> QED
    BY <1>1, <2>1, EffectDir DEF d
<1> HIDE DEF d
<1>6. q.open = m.open
  BY <1>2, <1>3, RewrittenIs DEF OnlyFile
<1> QED
  BY <1>5, <1>6, <1>e DEF Sound, Writes

LEMMA HeaderSound ==
    ASSUME NEW m, NEW p, NEW r, NEW w, Sound(m, p, r, w), p = "update", ~m.bucket_changed, ~m.directory_changed,
           NEW q, q = [m EXCEPT !.header_changed = FALSE, !.popped = FALSE,
                          !.disk = Put(@, 0, block_size, <<"header", m.header>>)]
    PROVE  Sound(q, p, r, w)
<1>1. PICK own, B, o : Commit(m, own, B, o, 0) /\ Effect(m.disk, B, w[1], w[2])
  BY DEF Sound
<1>2. IsMem(m)
  BY <1>1, CommitParts
<1> DEFINE no == FALSE
           d == Put(m.disk, 0, block_size, HeaderObj(m.header))
<1>3. q = Rewritten(m, d, no, m.directory_changed, m.second_changed, no)
  <2>1. IsRec(m) /\ q = [m EXCEPT !.header_changed = no, !.popped = no, !.disk = d]
    BY <1>2 DEF IsMem, IsRec, HeaderObj
  <2> HIDE DEF d, no
  <2> QED
    BY <2>1 DEF IsRec, Rewritten
<1>4. ~no
  OBVIOUS
<1> HIDE DEF no
<1>5. Commit(q, own, B, o, 0)
  BY <1>1, <1>3, <1>4, CommitHeader
<1>e. Effect(q.disk, B, w[1], w[2])
  <2> HIDE DEF d
  <2>1. q.disk = d
    BY <1>2, <1>3 DEF Rewritten, IsMem, IsRec
  <2> QED
    BY <1>1, <2>1, EffectHeader DEF d
<1> HIDE DEF d
<1>6. q.open = m.open
  BY <1>2, <1>3, RewrittenIs DEF OnlyFile
<1> QED
  BY <1>5, <1>6, <1>e DEF Sound, Writes

\* The call returns.
LEMMA ReturnSound ==
    ASSUME NEW m, NEW p, NEW r, NEW w, Sound(m, p, r, w), p = "update", ~m.bucket_changed, ~m.directory_changed,
           ~m.header_changed, m.second_changed => ChangedSlots(m) = {}, NEW s
    PROVE  Sound(m, "idle", s, <<>>)
BY NoneMarked, CommitClean, LayoutExists, CleanDisk DEF Sound, Writes

\* The process ends where no harm is done.
LEMMA DieSound ==
    ASSUME NEW m, NEW p, NEW r, NEW w, Sound(m, p, r, w), p # "idle", ~m.popped, ~NoDir(m.disk),
           ~(p = "update" /\ ~m.bucket_changed /\ m.header_changed), NEW s
    PROVE  Sound(Closed(m.disk), "idle", s, <<>>)
BY DeathLeaves, CloseSound DEF Sound, Stored, Early

\* A file that gdbm_open has just created is sound.
LEMMA InitGdbm == Init => GdbmInv
<1> SUFFICES ASSUME Init PROVE GdbmInv
  OBVIOUS
<1>1. Sound(Closed(NewDisk), "idle", rec, <<>>)
  BY NewFile, CloseSound
<1> QED
  BY <1>1 DEF Init, GdbmInv, Closed

\* Every step of a call, an end of the process between two writes among them, keeps
\* the file and the memory sound.
LEMMA NextGdbm == GdbmInv /\ [Next]_vars => GdbmInv'
<1> SUFFICES ASSUME GdbmInv, [Next]_vars PROVE GdbmInv'
  OBVIOUS
<1>0. CASE vars' = vars
  BY <1>0 DEF vars, GdbmInv
<1>a. Next => map' = FileMap(dbf'.disk)
  BY DEF Next
<1>h. hurt \in BOOLEAN /\ (~hurt => Sound(dbf, pc, rec, busy))
  BY DEF GdbmInv
<1>1. ASSUME Open PROVE hurt' = hurt /\ (~hurt => Sound(dbf', pc', rec', busy'))
  BY <1>1, <1>h, OpenSound DEF Open, Opened, Slots
<1>2. ASSUME Close PROVE hurt' = hurt /\ (~hurt => Sound(dbf', pc', rec', busy'))
  BY <1>2, <1>h, CloseSound DEF Close, Ready, Sound
<1>3. ASSUME NEW k \in Keys, Fetch(k) PROVE hurt' = hurt /\ (~hurt => Sound(dbf', pc', rec', busy'))
  BY <1>3, <1>h, FetchSound DEF Fetch, Ready
<1>4. ASSUME NEW k \in Keys, Delete(k) PROVE hurt' = hurt /\ (~hurt => Sound(dbf', pc', rec', busy'))
  BY <1>4, <1>h, DeleteSound DEF Delete, Update, Ready
<1>5. ASSUME NEW k \in Keys, NEW v \in Values, Store(k, v)
      PROVE  hurt' = hurt /\ (~hurt => Sound(dbf', pc', rec', busy'))
  <2> DEFINE a == Room(FindKey(dbf, k), k, v)
  <2>1. pc = "idle" /\ dbf.open /\ hurt' = hurt
    BY <1>5 DEF Store, Update, Ready
  <2>2. /\ dbf' = SetElem(Fitting(a.m, k), k, [adr |-> a.adr, size |-> SizeOf[v]]) /\ pc' = "key"
        /\ rec' = [adr |-> a.adr, key |-> k, val |-> v] /\ busy' = <<k, v>>
    BY <1>5 DEF Store, Update
  <2>3. a = Room(FindKey(dbf, k), k, v)
    OBVIOUS
  <2> HIDE DEF a
  <2> QED
    BY <1>h, <2>1, <2>2, <2>3, StoreSound
<1>6. ASSUME WriteKey PROVE hurt' = hurt /\ (~hurt => Sound(dbf', pc', rec', busy'))
  <2> DEFINE obj == <<Torn>>
             n == 1
  <2>1. /\ pc = "key" /\ pc' = "record" /\ rec' = rec /\ hurt' = hurt /\ busy' = busy
        /\ dbf' = [dbf EXCEPT !.disk = Put(@, rec.adr, n, obj)]
    BY <1>6 DEF WriteKey
  <2>2. obj[1] # "dir" /\ pc \in Writes
    BY <2>1, GdbmAssumption DEF Writes
  <2>3. ASSUME ~hurt PROVE n \in Nat /\ n <= SizeOf[rec.val] /\ Sound(dbf, pc, rec, busy)
    BY <1>h, <2>2, <2>3, GdbmAssumption DEF Sound
  <2> HIDE DEF n, obj
  <2>4. ASSUME ~hurt PROVE Sound(dbf', "record", rec, busy)
    BY <2>1, <2>2, <2>3, <2>4, WriteSound
  <2> QED
    BY <2>1, <2>4
<1>7. ASSUME WriteRecord PROVE hurt' = hurt /\ (~hurt => Sound(dbf', pc', rec', busy'))
  <2> DEFINE obj == <<"record", rec.key, rec.val>>
             n == SizeOf[rec.val]
  <2>1. /\ pc = "record" /\ pc' = "update" /\ hurt' = hurt /\ busy' = busy
        /\ dbf' = [dbf EXCEPT !.disk = Put(@, rec.adr, n, obj)]
    BY <1>7 DEF WriteRecord
  <2>2. obj[1] # "dir" /\ pc \in Writes /\ n = SizeOf[rec.val] /\ obj = RecordObj(rec.key, rec.val)
    BY <2>1 DEF Writes, RecordObj
  <2>3. ASSUME ~hurt PROVE n \in Nat /\ n <= SizeOf[rec.val] /\ Sound(dbf, pc, rec, busy)
    BY <1>h, <2>2, <2>3, GdbmAssumption DEF Sound
  <2> HIDE DEF n, obj
  <2>4. ASSUME ~hurt PROVE Sound(dbf', "update", rec', busy)
    BY <2>1, <2>2, <2>3, <2>4, WriteSound
  <2> QED
    BY <2>1, <2>4
<1>8. ASSUME EndUpdate PROVE hurt' = hurt /\ (~hurt => Sound(dbf', pc', rec', busy'))
  <2>1. pc = "update" /\ pc' = pc /\ rec' = rec /\ hurt' = hurt /\ busy' = busy
    BY <1>8 DEF EndUpdate
  <2>2. Others = {} <=> (dbf.second_changed => ChangedSlots(dbf) = {})
    BY DEF Others, ChangedSlots
  <2>3. CASE UpdateBucket
    BY <1>h, <2>1, <2>3, BucketSound DEF UpdateBucket
  <2>4. CASE UpdateOther
    BY <2>4, <1>h, <2>1, OtherSound DEF UpdateOther, Others, ChangedSlots
  <2>5. CASE UpdateDir
    BY <1>h, <2>1, <2>2, <2>5, DirSound DEF UpdateDir
  <2>6. CASE UpdateHeader
    BY <1>h, <2>1, <2>6, HeaderSound DEF UpdateHeader
  <2> QED
    BY <1>8, <2>3, <2>4, <2>5, <2>6 DEF EndUpdate
<1>9. ASSUME Return PROVE hurt' = hurt /\ (~hurt => Sound(dbf', pc', rec', busy'))
  BY <1>9, <1>h, ReturnSound DEF Others, ChangedSlots, Return, Written
<1>10. ASSUME Die PROVE hurt' \in BOOLEAN /\ (~hurt' => Sound(dbf', pc', rec', busy'))
  BY <1>10, <1>h, DieSound DEF Die
<1>11. ASSUME Next PROVE hurt' \in BOOLEAN /\ (~hurt' => Sound(dbf', pc', rec', busy'))
  BY <1>h, <1>1, <1>2, <1>3, <1>4, <1>5, <1>6, <1>7, <1>8, <1>9, <1>10, <1>11 DEF Next
<1> QED
  BY <1>0, <1>a, <1>11 DEF GdbmInv

\* At every step of every call, and after a death that hurts nothing, the file and
\* memory are what GdbmInv says: an update under way has its layout ready in memory,
\* and the old or the new one is whole in the file.
THEOREM FileAndMemorySound == Spec => []GdbmInv
  BY InitGdbm, NextGdbm, PTL DEF Spec

\* What the file holds: its directory, and the bucket at every entry's address.
LEMMA BucketsInFile ==
    ASSUME NEW d, NEW o, DiskOK(d, o)
    PROVE  /\ HeaderOf(d) = o.h /\ DirOf(d) = o.dir /\ ~NoDir(d) /\ BucketsOf(d) = DOMAIN o.B
           /\ \A a \in DOMAIN o.B : BucketAt(d, a) = o.B[a]
<1>1. HeaderOf(d) = o.h /\ DirOf(d) = o.dir /\ ~NoDir(d)
  BY HeaderIs, DirIs DEF DiskOK
<1>2. BucketsOf(d) = DOMAIN o.B
  <2>1. DirShape(o.dir, o.h.dir_bits, o.B)
    BY DEF DiskOK, LayoutOK, DirOK
  <2> DEFINE dir == o.dir
             E == Entries(o.h.dir_bits)
  <2>2. /\ dir = [i \in E |-> dir[i]] /\ \A i \in E : dir[i] \in DOMAIN o.B
        /\ \A a \in DOMAIN o.B : \E i \in E : dir[i] = a
    BY <2>1 DEF DirShape
  <2>3. BucketsOf(d) = {dir[i] : i \in DOMAIN dir}
    BY <1>1 DEF BucketsOf
  <2> HIDE DEF dir, E
  <2>4. DOMAIN dir = E
    BY <2>2
  <2> QED
    BY <2>2, <2>3, <2>4
<1>3. ASSUME NEW a \in DOMAIN o.B PROVE BucketAt(d, a) = o.B[a]
  <2> DEFINE obj == BucketObj(o.B[a])
  <2>1. a \in Nat /\ Holds(d, a, block_size, obj) /\ block_size \in Nat \ {0}
    BY GdbmAssumption DEF DiskOK, LayoutOK, Homes, BucketsHeld
  <2>2. obj[2] = o.B[a]
    BY DEF BucketObj
  <2> HIDE DEF obj
  <2> QED
    BY <2>1, <2>2, GetHeld DEF BucketAt
<1> QED
  BY <1>1, <1>2, <1>3

\* What is found of a key in the file is its record.
LEMMA MapIs ==
    ASSUME NEW d, NEW o, DiskOK(d, o), NEW a \in DOMAIN o.B, NEW k \in DOMAIN o.B[a].elems
    PROVE  FileMap(d)[k] = RecVal(d, o.B[a].elems[k], k)
<1>1. k \in Keys /\ o.dir[DirIndex(k, o.h.dir_bits)] = a
  BY DEF DiskOK, LayoutOK, DirOK, DirKeys
<1>2. /\ HeaderOf(d) = o.h /\ DirOf(d) = o.dir /\ ~NoDir(d) /\ BucketAt(d, a) = o.B[a]
  BY BucketsInFile
<1>3. BucketAt(d, DirOf(d)[DirIndex(k, HeaderOf(d).dir_bits)]) = o.B[a]
  BY <1>1, <1>2
<1> QED
  BY <1>1, <1>2, <1>3 DEF FileMap, RecVal

\* Memory is no older than the file, between two calls.
LEMMA CleanCoherent ==
    ASSUME NEW m, NEW own, NEW B, Clean(m, own, B)
    PROVE  /\ m.header = HeaderOf(m.disk) /\ m.dir = DirOf(m.disk)
           /\ \A c \in DOMAIN m.cache : m.cache[c].adr # 0 =>
                /\ m.cache[c].adr \in BucketsOf(m.disk) /\ ~m.cache[c].changed
                /\ m.cache[c].bucket = BucketAt(m.disk, m.cache[c].adr)
                /\ m.cache[c].data # NoData => m.cache[c].data.val = FileMap(m.disk)[m.cache[c].data.key]
                /\ \A e \in DOMAIN m.cache : m.cache[e].adr = m.cache[c].adr => e = c
<1>1. PICK o : LayoutOf(o, m, own, B)
  BY LayoutExists
<1>2. DiskOK(m.disk, o) /\ o.h = m.header /\ o.dir = m.dir /\ o.B = B
  BY <1>1, CleanDisk DEF LayoutOf
<1>3. /\ HeaderOf(m.disk) = m.header /\ DirOf(m.disk) = m.dir /\ BucketsOf(m.disk) = DOMAIN B
      /\ \A a \in DOMAIN B : BucketAt(m.disk, a) = B[a]
  BY <1>2, BucketsInFile
<1>4. Cached(m, B, 0) /\ DataOK(m, B, 0) /\ Unchanged(m) /\ IsMem(m)
  BY DEF Clean, Mem, FreeOK
<1>5. DOMAIN m.cache = Slots
  BY <1>4 DEF IsMem
<1>6. ASSUME NEW c \in Slots, m.cache[c].adr # 0
      PROVE  /\ m.cache[c].adr \in DOMAIN B /\ ~m.cache[c].changed /\ m.cache[c].bucket = B[m.cache[c].adr]
             /\ \A e \in Slots : m.cache[e].adr = m.cache[c].adr => e = c
  BY <1>4, <1>6 DEF Cached, Unchanged
<1>7. ASSUME NEW c \in Slots, m.cache[c].adr # 0, m.cache[c].data # NoData
      PROVE  m.cache[c].data.val = FileMap(m.disk)[m.cache[c].data.key]
  <2> DEFINE a == m.cache[c].adr
             data == m.cache[c].data
  <2>1. a \in DOMAIN B /\ DataFits(m.disk, B[a], data)
    BY <1>4, <1>6, <1>7 DEF DataOK
  <2>2. PICK k \in DOMAIN B[a].elems : data = DataOf(m.disk, B[a].elems[k], k)
    BY <1>7, <2>1 DEF DataFits
  <2>3. data.key = k /\ data.val = RecVal(m.disk, B[a].elems[k], k)
    BY <2>2 DEF DataOf
  <2> HIDE DEF a, data
  <2>4. FileMap(m.disk)[k] = RecVal(m.disk, B[a].elems[k], k)
    BY <1>2, <2>1, <2>2, MapIs
  <2> QED
    BY <2>3, <2>4 DEF data
<1> QED
  BY <1>3, <1>5, <1>6, <1>7

\* CacheCoherent, of every file that no death has hurt: between calls memory holds
\* nothing that the file lacks, and no cached bucket or record is older than the file's.
THEOREM MemoryIsTheFile == Spec => [](~hurt => CacheCoherent)
<1>1. GdbmInv => (~hurt => CacheCoherent)
  <2> SUFFICES ASSUME GdbmInv, ~hurt, Ready PROVE CacheCoherent
    BY DEF CacheCoherent
  <2>1. PICK own, B : Clean(dbf, own, B)
    BY DEF GdbmInv, Sound, Ready
  <2>2. map = FileMap(dbf.disk)
    BY DEF GdbmInv
  <2> QED
    BY <2>1, <2>2, CleanCoherent DEF CacheCoherent
<1> QED
  BY <1>1, FileAndMemorySound, PTL

\* An update that has taken effect is what a process that opens the file finds.
LEMMA EffectIsMap ==
    ASSUME NEW d, NEW o, DiskOK(d, o), NEW k, NEW v, Effect(d, o.B, k, v)
    PROVE  FileMap(d)[k] = v
<1> DEFINE i == DirIndex(k, o.h.dir_bits)
           a == o.dir[i]
           b == o.B[a]
<1>1. k \in Keys
  BY DEF Effect
<1>2. /\ HeaderOf(d) = o.h /\ DirOf(d) = o.dir /\ ~NoDir(d)
      /\ \A x \in DOMAIN o.B : BucketAt(d, x) = o.B[x]
  BY BucketsInFile
<1>3. DirShape(o.dir, o.h.dir_bits, o.B) /\ DirKeys(o.dir, o.h.dir_bits, o.B) /\ Homes(o.own, o.h, o.B)
  BY DEF DiskOK, LayoutOK, DirOK
<1>4. i \in Entries(o.h.dir_bits)
  <2>1. o.h.dir_bits \in 0 .. HashBits
    BY <1>3, BitConsts DEF DirShape
  <2>2. i \in Nat /\ i < Two[o.h.dir_bits] /\ Two[o.h.dir_bits] \in Nat
    BY <1>1, <2>1, IndexIs, TwoPos
  <2> QED
    BY <2>2 DEF Entries
<1>5. a \in DOMAIN o.B
  BY <1>3, <1>4 DEF DirShape
<1>6. BucketAt(d, DirOf(d)[DirIndex(k, HeaderOf(d).dir_bits)]) = b
  BY <1>2, <1>5
<1>7. CASE v = NoValue /\ \A x \in DOMAIN o.B : k \notin DOMAIN o.B[x].elems
  <2>1. k \notin DOMAIN b.elems
    BY <1>5, <1>7
  <2> HIDE DEF a, b
  <2> QED
    BY <1>1, <1>2, <1>6, <1>7, <2>1 DEF FileMap
<1>8. ASSUME NEW x \in DOMAIN o.B, k \in DOMAIN o.B[x].elems,
             Holds(d, o.B[x].elems[k].adr, o.B[x].elems[k].size, RecordObj(k, v))
      PROVE  FileMap(d)[k] = v
  <2> DEFINE el == o.B[x].elems[k]
             obj == RecordObj(k, v)
  <2>1. el.adr \in Nat /\ el.size \in Nat \ {0}
    BY <1>3, <1>8 DEF Homes, HasRecord, AvType
  <2>2. FileMap(d)[k] = RecVal(d, el, k)
    BY <1>8, MapIs
  <2>3. Holds(d, el.adr, el.size, obj)
    BY <1>8
  <2>4. obj[1] = "record" /\ obj[2] = k /\ obj[3] = v
    BY DEF RecordObj
  <2> HIDE DEF el, obj
  <2>5. Get(d, el.adr, el.size) = obj
    BY <2>1, <2>3, GetHeld
  <2> QED
    BY <2>2, <2>4, <2>5 DEF RecVal
<1> QED
  BY <1>7, <1>8 DEF Effect

\* A search finds what the file holds, and leaves the file alone.
LEMMA FetchIsMap ==
    ASSUME NEW m, NEW own, NEW B, Clean(m, own, B), NEW k \in Keys
    PROVE  FindKey(m, k).disk = m.disk /\ Found(FindKey(m, k), k) = FileMap(m.disk)[k]
<1> DEFINE i == DirIndex(k, m.header.dir_bits)
           g == FindKey(m, k)
<1>1. Fetched(m, own, B, i, g)
  BY FindKeyClean
<1>2. FindKey(m, k) = g
  OBVIOUS
<1>3. k \in DOMAIN Bucket(g).elems => g.cache[g.cur].data.key = k
  <2> DEFINE f == GetBucket(m, i)
             el == Bucket(f).elems[k]
             obj == Get(f.disk, el.adr, el.size)
             val == IF obj[1] = "record" /\ obj[2] = k THEN obj[3] ELSE Torn
             data == [key |-> k, val |-> val]
  <2>1. g = ReadEntry(f, k)
    BY DEF FindKey
  <2>2. CASE k \notin DOMAIN Bucket(f).elems \/ f.cache[f.cur].data.key = k
    BY <2>1, <2>2 DEF ReadEntry
  <2>3. CASE ~(k \notin DOMAIN Bucket(f).elems \/ f.cache[f.cur].data.key = k)
    <3>1. g = SetEntry(f, f.cur, WithData(f.cache[f.cur], data))
      BY <2>1, <2>3 DEF ReadEntry, SetEntry, WithData
    <3>2. IsMem(f)
      <4>1. Clean(f, own, B)
        BY IndexEntry, GetBucketClean DEF Fetched
      <4> QED
        BY <4>1 DEF Clean, Mem, FreeOK
    <3>3. data.key = k
      OBVIOUS
    <3> HIDE DEF f, data
    <3>4. g.cur = f.cur /\ g.cache[g.cur].data = data
      BY <3>1, <3>2 DEF SetEntry, WithData, IsMem
    <3> QED
      BY <3>3, <3>4
  <2> QED
    BY <2>2, <2>3
<1> HIDE DEF g
<1>4. /\ Clean(g, own, B) /\ g.disk = m.disk /\ g.header = m.header /\ g.dir = m.dir
      /\ Adr(g) = m.dir[i] /\ Adr(g) \in DOMAIN B /\ Bucket(g) = B[Adr(g)]
  BY <1>1 DEF Fetched, SameFile
<1>5. IsMem(g) /\ DirKeys(g.dir, g.header.dir_bits, B) /\ Homes(own, g.header, B)
  BY <1>4 DEF Clean, Mem, FreeOK, DirOK
<1>6. Adr(g) # 0 /\ g.cur \in DOMAIN g.cache
  BY <1>4, <1>5 DEF Homes, IsMem
<1>7. CASE g.cache[g.cur].data.key = k
  <2>1. g.cache[g.cur].data # NoData
    BY <1>7, GdbmAssumption DEF NoData
  <2>2. g.cache[g.cur].data.val = FileMap(g.disk)[g.cache[g.cur].data.key]
    BY <1>4, <1>6, <2>1, CleanCoherent DEF Adr
  <2> QED
    BY <1>2, <1>4, <1>7, <2>2 DEF Found
<1>8. CASE g.cache[g.cur].data.key # k
  <2>1. \A a \in DOMAIN B : k \notin DOMAIN B[a].elems
    BY <1>3, <1>4, <1>5, <1>8 DEF DirKeys, i
  <2>2. Effect(g.disk, B, k, NoValue)
    BY <2>1 DEF Effect
  <2>3. PICK o : LayoutOf(o, g, own, B)
    BY LayoutExists
  <2>4. DiskOK(g.disk, o) /\ o.B = B
    BY <1>4, <2>3, CleanDisk DEF LayoutOf
  <2>5. FileMap(g.disk)[k] = NoValue
    BY <2>2, <2>4, EffectIsMap
  <2> QED
    BY <1>2, <1>4, <1>8, <2>5 DEF Found
<1> QED
  BY <1>7, <1>8

\* When an update returns, the file maps its key to its value.
LEMMA ReturnIsMap ==
    ASSUME NEW m, NEW p, NEW r, NEW w, Sound(m, p, r, w), p = "update", ~m.bucket_changed, ~m.directory_changed,
           ~m.header_changed, m.second_changed => ChangedSlots(m) = {}
    PROVE  w # <<>> /\ FileMap(m.disk)[w[1]] = w[2]
<1>1. PICK own, B, o : Commit(m, own, B, o, 0) /\ Effect(m.disk, B, w[1], w[2])
  BY DEF Sound
<1>2. Clean(m, own, B)
  BY <1>1, NoneMarked, CommitClean
<1>3. PICK l : LayoutOf(l, m, own, B)
  BY LayoutExists
<1>4. DiskOK(m.disk, l) /\ l.B = B
  BY <1>2, <1>3, CleanDisk DEF LayoutOf
<1> QED
  BY <1>1, <1>4, EffectIsMap DEF Sound

(* What users see of a file that no death has hurt: a search answers with  *)
(* what the file maps the key to; an update that returns has made the file *)
(* map its key to its value; opening, closing and dying change no value.   *)
Durable ==
    ~hurt =>
        /\ Open \/ Close => KV!Forget
        /\ \A k \in Keys : Fetch(k) => KV!Fetch(k)
        /\ Return => KV!Return
        /\ Die => KV!Die

\* The promises of KVStore that need no look at a file half written: gdbm_fetch finds
\* what the file holds, and gdbm_store and gdbm_delete return only when it is there.
THEOREM UpdatesLast == Spec => [][Durable]_vars
<1>1. GdbmInv /\ [Next]_vars => [Durable]_vars
  <2> SUFFICES ASSUME GdbmInv, Next, ~hurt PROVE Durable
    BY DEF Durable
  <2>1. map = FileMap(dbf.disk) /\ map' = FileMap(dbf'.disk) /\ Sound(dbf, pc, rec, busy)
    BY DEF GdbmInv, Next
  <2>2. dbf'.disk = dbf.disk => map' = map
    BY <2>1
  <2>3. ASSUME Open \/ Close PROVE KV!Forget
    BY <2>2, <2>3 DEF Open, Close, Closed, KV!Forget
  <2>4. ASSUME NEW k \in Keys, Fetch(k) PROVE KV!Fetch(k)
    <3>1. PICK own, B : Clean(dbf, own, B)
      BY <2>1, <2>4 DEF Fetch, Ready, Sound
    <3>2. FindKey(dbf, k).disk = dbf.disk /\ Found(FindKey(dbf, k), k) = map[k]
      BY <2>1, <3>1, FetchIsMap
    <3>3. busy = <<>> /\ busy' = busy
      BY <2>1, <2>4 DEF Sound, Fetch, Ready
    <3>4. result' = map[k] /\ map' = map
      BY <2>2, <2>4, <3>2 DEF Fetch
    <3> QED
      BY <3>3, <3>4 DEF KV!Fetch
  <2>5. ASSUME Return PROVE KV!Return
    <3>1. busy # <<>> /\ FileMap(dbf.disk)[busy[1]] = busy[2]
      BY <2>1, <2>5, ReturnIsMap DEF Return, Written, Others, ChangedSlots
    <3> QED
      BY <2>1, <2>2, <2>5, <3>1 DEF Return, KV!Return
  <2>6. ASSUME Die PROVE KV!Die
    BY <2>1, <2>2, <2>6 DEF Die, Closed, Sound, KV!Die
  <2> QED
    BY <2>3, <2>4, <2>5, <2>6 DEF Durable
<1> QED
  BY <1>1, FileAndMemorySound, PTL DEF Spec

-----------------------------------------------------------------------------
\* The regions of the file, and who owns each.

LEMMA RegionsAre == Regions = RegionsWith(dbf.disk, StackFrom(dbf.disk, HeaderOf(dbf.disk).av_next))
BY Zenon DEF Regions, RegionsWith, StackFrom

\* A block of the stack, as it reads back.
LEMMA BlockRead ==
    ASSUME NEW d, NEW head, NEW S, NEW own, Stack(d, head, S, own), NEW i \in DOMAIN S
    PROVE  Get(d, S[i].adr, av_block)[2] = S[i].av /\ Get(d, S[i].adr, av_block)[3] = Below(S, i)
<1> DEFINE obj == <<"avail", S[i].av, Below(S, i)>>
<1>1. S[i] \in [adr : Nat \ {0}, av : Seq(AvType)]
  BY InSeq DEF Stack
<1>2. S[i].adr \in Nat /\ av_block \in Nat \ {0}
  BY <1>1, Consts
<1>3. Holds(d, S[i].adr, av_block, obj)
  BY DEF Stack, Below
<1>4. obj[2] = S[i].av /\ obj[3] = Below(S, i)
  OBVIOUS
<1> HIDE DEF obj
<1> QED
  BY <1>2, <1>3, <1>4, GetHeld

LEMMA FromTopNext ==
    ASSUME NEW d, NEW head, NEW S, NEW own, Stack(d, head, S, own), NEW n \in Nat, NEW p \in Nat, n = p + 1
    PROVE  /\ FromTop(S, 0) = head
           /\ FromTop(S, n) = IF FromTop(S, p) = 0 THEN 0 ELSE Get(d, FromTop(S, p), av_block)[3]
<1> DEFINE l == Len(S)
<1>1. l \in Nat /\ DOMAIN S = 1 .. l /\ (S = <<>> <=> l = 0)
  BY DEF Stack
<1>2. \A i \in DOMAIN S : S[i].adr # 0
  <2>1. \A i \in DOMAIN S : S[i] \in [adr : Nat \ {0}, av : Seq(AvType)]
    BY InSeq DEF Stack
  <2> QED
    BY <2>1
<1>3. FromTop(S, 0) = head
  BY <1>1 DEF FromTop, Stack
<1>4. CASE p < l
  <2> DEFINE i == l - p
  <2>1. i \in 1 .. l /\ (n < l <=> i # 1) /\ i - 1 = l - n
    <3>1. l \in Nat
      BY <1>1
    <3> HIDE DEF l
    <3> QED
      BY <1>4, <3>1
  <2>2. FromTop(S, p) = S[i].adr /\ S[i].adr # 0
    BY <1>1, <1>2, <1>4, <2>1 DEF FromTop
  <2>3. FromTop(S, n) = Below(S, i)
    BY <2>1 DEF FromTop, Below
  <2> HIDE DEF i
  <2>4. Get(d, S[i].adr, av_block)[3] = Below(S, i)
    BY <1>1, <2>1, BlockRead
  <2> QED
    BY <1>3, <2>2, <2>3, <2>4
<1>5. CASE ~(p < l)
  BY <1>1, <1>3, <1>5 DEF FromTop
<1> QED
  BY <1>4, <1>5

LEMMA StackFromIs ==
    ASSUME NEW d, NEW head, NEW S, NEW own, Stack(d, head, S, own)
    PROVE  \A n \in 0 .. Units : StackFrom(d, head)[n] = FromTop(S, n)
<1> DEFINE F == StackFrom(d, head)
           g == [n \in 0 .. Units |-> FromTop(S, n)]
           Bad == {n \in 0 .. Units : F[n] # FromTop(S, n)}
<1>0. Units \in Nat
  BY GdbmAssumption
<1>1. FromTop(S, 0) = head
  BY FromTopNext
<1>2. \A n \in 0 .. Units : n # 0 =>
         FromTop(S, n) = IF FromTop(S, n - 1) = 0 THEN 0 ELSE Get(d, FromTop(S, n - 1), av_block)[3]
  <2> SUFFICES ASSUME NEW n \in 0 .. Units, n # 0
               PROVE  FromTop(S, n) = IF FromTop(S, n - 1) = 0 THEN 0 ELSE Get(d, FromTop(S, n - 1), av_block)[3]
    OBVIOUS
  <2>1. n \in Nat /\ n - 1 \in Nat /\ n = (n - 1) + 1
    BY <1>0
  <2> QED
    BY <2>1, FromTopNext
<1>3. \A n \in 0 .. Units : n # 0 => n - 1 \in 0 .. Units
  BY <1>0
<1>4. g = [n \in 0 .. Units |-> IF n = 0 THEN head
                                ELSE IF g[n - 1] = 0 THEN 0 ELSE Get(d, g[n - 1], av_block)[3]]
  <2>1. \A n \in 0 .. Units : g[n] = IF n = 0 THEN head
                                ELSE IF g[n - 1] = 0 THEN 0 ELSE Get(d, g[n - 1], av_block)[3]
    BY <1>1, <1>2, <1>3
  <2>2. g = [n \in 0 .. Units |-> g[n]]
    OBVIOUS
  <2> HIDE DEF g
  <2> QED
    BY <2>1, <2>2
<1> HIDE DEF g
<1>5. F = [n \in 0 .. Units |-> IF n = 0 THEN head
                                ELSE IF F[n - 1] = 0 THEN 0 ELSE Get(d, F[n - 1], av_block)[3]]
  BY <1>4 DEF StackFrom
<1> HIDE DEF F
<1>6. F[0] = head /\ \A n \in 0 .. Units : n # 0 => F[n] = IF F[n - 1] = 0 THEN 0 ELSE Get(d, F[n - 1], av_block)[3]
  BY <1>0, <1>5
<1>7. Bad = {}
  <2> SUFFICES ASSUME Bad # {} PROVE FALSE
    OBVIOUS
  <2>1. Bad \subseteq Nat
    BY <1>0
  <2>2. PICK n \in Bad : \A j \in Bad : n <= j
    <3> HIDE DEF Bad
    <3> QED BY <2>1, Least
  <2>3. n # 0 /\ n \in 0 .. Units
    BY <1>1, <1>6
  <2>4. n - 1 \in 0 .. Units /\ n - 1 \notin Bad
    BY <1>0, <2>2, <2>3
  <2>5. F[n - 1] = FromTop(S, n - 1)
    BY <2>4
  <2> QED
    BY <1>2, <1>6, <2>2, <2>3, <2>5
<1> QED
  BY <1>7 DEF F

LEMMA TagOne ==
    ASSUME NEW t, NEW k, NEW o, NEW x, NEW j, NEW p, NEW y, t = Tag(k, o, x), t = Tag(j, p, y)
    PROVE  k = j /\ o = p /\ x = y
BY DEF Tag

LEMMA AvReg ==
    ASSUME NEW av, NEW x, NEW kind, NEW owner, NEW r \in AvRegions(kind, x, av)
    PROVE  \E t : RegTable(av, x, kind, owner, r, t)
BY DEF AvRegions, RegTable, Rg

\* Every region that Regions lists is one of these.
LEMMA RegionReg ==
    ASSUME NEW d, NEW o, DiskOK(d, o), NEW S, Stack(d, o.h.av_next, S, o.own),
           NEW r \in RegionsWith(d, StackFrom(d, HeaderOf(d).av_next))
    PROVE  \E t : Reg(o, S, r, t)
<1> DEFINE f == StackFrom(d, HeaderOf(d).av_next)
           pushed == {n \in 0 .. Units : f[n] # 0}
<1>1. /\ HeaderOf(d) = o.h /\ BucketsOf(d) = DOMAIN o.B /\ \A a \in DOMAIN o.B : BucketAt(d, a) = o.B[a]
  BY BucketsInFile
<1>2. \A n \in 0 .. Units : f[n] = FromTop(S, n)
  BY <1>1, StackFromIs
<1> HIDE DEF f
<1>3. Units \in Nat /\ Len(S) \in Nat /\ DOMAIN S = 1 .. Len(S)
  BY GdbmAssumption DEF Stack
<1>4. ASSUME NEW n \in pushed
      PROVE  /\ n \in Nat /\ n < Len(S) /\ f[n] = S[Len(S) - n].adr
             /\ Get(d, f[n], av_block)[2] = S[Len(S) - n].av
  BY <1>2, <1>3, BlockRead DEF FromTop
<1>5. \/ r = Rg(0, block_size, TheHeader, Nobody, Nobody) \/ r = Rg(o.h.dir, DirSize(o.h.dir_bits), TheDir, Nobody, Nobody)
      \/ r \in AvRegions(HeaderAvail, Nobody, o.h.avail)
      \/ \E a \in DOMAIN o.B : r \in BucketRegions(a, o.B[a])
      \/ \E n \in pushed : r = Rg(f[n], av_block, AvailBlock, n, Nobody)
                           \/ r \in AvRegions(InBlock, n, Get(d, f[n], av_block)[2])
  <2> DEFINE h == HeaderOf(d)
             X == UNION {BucketRegions(a, BucketAt(d, a)) : a \in BucketsOf(d)}
             Y(n) == {Rg(f[n], av_block, AvailBlock, n, Nobody)} \cup AvRegions(InBlock, n, Get(d, f[n], av_block)[2])
             Z == UNION {Y(n) : n \in pushed}
             first == Rg(0, block_size, TheHeader, Nobody, Nobody)
             dir == Rg(h.dir, DirSize(h.dir_bits), TheDir, Nobody, Nobody)
             W == AvRegions(HeaderAvail, Nobody, h.avail)
  <2>1. RegionsWith(d, f) = {first, dir} \cup W \cup X \cup Z
    BY Zenon DEF RegionsWith, Rg, Nobody, TheHeader, TheDir, HeaderAvail, AvailBlock, InBlock
  <2>2. r \in RegionsWith(d, f)
    BY DEF f
  <2>3. r \in X => \E a \in DOMAIN o.B : r \in BucketRegions(a, o.B[a])
    BY <1>1
  <2>4. r \in Z => \E n \in pushed : r \in Y(n)
    OBVIOUS
  <2>5. dir = Rg(o.h.dir, DirSize(o.h.dir_bits), TheDir, Nobody, Nobody) /\ W = AvRegions(HeaderAvail, Nobody, o.h.avail)
    BY <1>1
  <2> HIDE DEF X, Z, W, dir
  <2>6. r = first \/ r = dir \/ r \in W \/ r \in X \/ r \in Z
    <3> HIDE DEF first
    <3> QED BY <2>1, <2>2
  <2> QED
    BY <2>3, <2>4, <2>5, <2>6
<1> HIDE DEF pushed
<1>6. CASE r = Rg(0, block_size, TheHeader, Nobody, Nobody)
  BY <1>6 DEF Reg, RegHeader
<1>7. CASE r = Rg(o.h.dir, DirSize(o.h.dir_bits), TheDir, Nobody, Nobody)
  BY <1>7 DEF Reg, RegDir
<1>8. CASE r \in AvRegions(HeaderAvail, Nobody, o.h.avail)
  BY <1>8, AvReg DEF Reg, RegAvail
<1>9. ASSUME NEW a \in DOMAIN o.B, r \in BucketRegions(a, o.B[a]) PROVE \E t : Reg(o, S, r, t)
  <2>1. \/ r = Rg(a, block_size, ABucket, Nobody, Nobody)
        \/ \E k \in DOMAIN o.B[a].elems : r = Rg(o.B[a].elems[k].adr, o.B[a].elems[k].size, ARecord, a, k)
        \/ r \in AvRegions(BucketAvail, a, o.B[a].avail)
    BY Zenon, <1>9 DEF BucketRegions, Rg, Nobody, ABucket, ARecord, BucketAvail
  <2>2. CASE r = Rg(a, block_size, ABucket, Nobody, Nobody)
    BY <2>2 DEF Reg, RegBucket
  <2>3. CASE \E k \in DOMAIN o.B[a].elems : r = Rg(o.B[a].elems[k].adr, o.B[a].elems[k].size, ARecord, a, k)
    BY <2>3 DEF Reg, RegRecord
  <2>4. CASE r \in AvRegions(BucketAvail, a, o.B[a].avail)
    BY <2>4, AvReg DEF Reg, RegFree
  <2> QED
    BY <2>1, <2>2, <2>3, <2>4
<1>10. ASSUME NEW n \in pushed, r = Rg(f[n], av_block, AvailBlock, n, Nobody)
       PROVE  \E t : Reg(o, S, r, t)
  BY <1>4, <1>10 DEF Reg, RegBlock
<1>11. ASSUME NEW n \in pushed, r \in AvRegions(InBlock, n, Get(d, f[n], av_block)[2])
       PROVE  \E t : Reg(o, S, r, t)
  BY <1>4, <1>11, AvReg DEF Reg, RegPushed
<1> QED
  BY <1>5, <1>6, <1>7, <1>8, <1>9, <1>10, <1>11

\* Two regions with one tag are one.
LEMMA RegTableOne ==
    ASSUME NEW av, NEW own, NEW kind, NEW owner, Table(av, own, kind, owner), NEW x, NEW r, NEW q, NEW t,
           RegTable(av, x, kind, owner, r, t), RegTable(av, x, kind, owner, q, t)
    PROVE  r = q
<1>1. PICK i \in DOMAIN av : r = Rg(av[i].adr, av[i].size, kind, x, i) /\ t = Tag(kind, owner, av[i].adr)
  BY DEF RegTable
<1>2. PICK j \in DOMAIN av : q = Rg(av[j].adr, av[j].size, kind, x, j) /\ t = Tag(kind, owner, av[j].adr)
  BY DEF RegTable
<1>3. av[i].adr = av[j].adr
  BY <1>1, <1>2 DEF Tag
<1>4. i = j
  BY <1>3 DEF Table
<1> QED
  BY <1>1, <1>2, <1>4

LEMMA RegTableTag ==
    ASSUME NEW av, NEW x, NEW kind, NEW owner, NEW r, NEW t, RegTable(av, x, kind, owner, r, t)
    PROVE  t[1] = kind /\ t[2] = owner
BY TagIs DEF RegTable

\* What each kind of region is tagged with.
LEMMA RegKind ==
    ASSUME NEW o, NEW S, NEW r, NEW t, Reg(o, S, r, t)
    PROVE  /\ t[1] # AtEnd
           /\ t[1] = TheHeader => RegHeader(r, t)
           /\ t[1] = TheDir => RegDir(o.h, r, t)
           /\ t[1] = HeaderAvail => RegAvail(o.h, r, t)
           /\ t[1] = ABucket => RegBucket(o.B, r, t)
           /\ t[1] = ARecord => RegRecord(o.B, r, t)
           /\ t[1] = BucketAvail => RegFree(o.B, r, t)
           /\ t[1] = AvailBlock => RegBlock(S, r, t)
           /\ t[1] = InBlock => RegPushed(S, r, t)
           /\ t[1] \in {TheHeader, TheDir, HeaderAvail, ABucket, ARecord, BucketAvail, AvailBlock, InBlock}
<1>1. RegHeader(r, t) => t[1] = TheHeader
  BY TagIs DEF RegHeader
<1>2. RegDir(o.h, r, t) => t[1] = TheDir
  BY TagIs DEF RegDir
<1>3. RegAvail(o.h, r, t) => t[1] = HeaderAvail
  BY RegTableTag DEF RegAvail
<1>4. RegBucket(o.B, r, t) => t[1] = ABucket
  BY TagIs DEF RegBucket
<1>5. RegRecord(o.B, r, t) => t[1] = ARecord
  BY TagIs DEF RegRecord
<1>6. RegFree(o.B, r, t) => t[1] = BucketAvail
  BY RegTableTag DEF RegFree
<1>7. RegBlock(S, r, t) => t[1] = AvailBlock
  <2>1. SUFFICES ASSUME RegBlock(S, r, t) PROVE t[1] = AvailBlock
    OBVIOUS
  <2>2. \E i : t = Tag(AvailBlock, i, Nobody)
    BY <2>1 DEF RegBlock
  <2> QED
    BY <2>2, TagIs
<1>8. RegPushed(S, r, t) => t[1] = InBlock
  BY RegTableTag DEF RegPushed
<1> QED
  BY <1>1, <1>2, <1>3, <1>4, <1>5, <1>6, <1>7, <1>8, Kinds DEF Reg

LEMMA RegOne ==
    ASSUME NEW d, NEW o, DiskOK(d, o), NEW S, Stack(d, o.h.av_next, S, o.own),
           NEW r, NEW q, NEW t, Reg(o, S, r, t), Reg(o, S, q, t)
    PROVE  r = q
<1>0. FreeSpace(d, o.h, o.own) /\ Tables(o.own, o.B, 0) /\ DirOK(o.dir, o.h.dir_bits, o.B) /\ Homes(o.own, o.h, o.B)
  BY DEF DiskOK, LayoutOK
<1>1. CASE t[1] = TheHeader
  BY <1>1, RegKind DEF RegHeader
<1>2. CASE t[1] = TheDir
  BY <1>2, RegKind DEF RegDir
<1>3. CASE t[1] = HeaderAvail
  BY <1>3, RegKind, <1>0, RegTableOne DEF FreeSpace, RegAvail
<1>4. CASE t[1] = ABucket
  BY <1>4, RegKind DEF RegBucket, Tag
<1>5. CASE t[1] = ARecord
  BY <1>5, RegKind, <1>0 DEF RegRecord, Tag, DirOK, DirKeys
<1>6. CASE t[1] = BucketAvail
  BY <1>6, RegKind, RegTableTag, <1>0, RegTableOne DEF RegFree, Tables, Homes
<1>7. CASE t[1] = AvailBlock
  BY <1>7, RegKind, TagOne DEF Stack, RegBlock
<1>8. CASE t[1] = InBlock
  <2>0. Len(S) \in Nat /\ DOMAIN S = 1 .. Len(S)
    BY DEF Stack
  <2>1. RegPushed(S, r, t) /\ RegPushed(S, q, t)
    BY <1>8, RegKind
  <2>2. PICK n \in Nat : n < Len(S) /\ RegTable(S[Len(S) - n].av, n, InBlock, Len(S) - n, r, t)
    BY <2>1 DEF RegPushed
  <2>3. PICK i \in Nat : i < Len(S) /\ RegTable(S[Len(S) - i].av, i, InBlock, Len(S) - i, q, t)
    BY <2>1 DEF RegPushed
  <2>4. Len(S) - n = Len(S) - i
    BY <2>2, <2>3, RegTableTag
  <2>5. n = i
    BY <2>0, <2>4
  <2>6. Len(S) - n \in DOMAIN S
    BY <2>0, <2>2
  <2>7. Table(S[Len(S) - n].av, o.own, InBlock, Len(S) - n)
    BY <2>6 DEF Stack
  <2> QED
    BY <2>2, <2>3, <2>5, <2>7, RegTableOne
<1> QED
  BY <1>1, <1>2, <1>3, <1>4, <1>5, <1>6, <1>7, <1>8, RegKind

LEMMA RgIs == \A a, n, kind, x, i : Rg(a, n, kind, x, i)[1] = a /\ Rg(a, n, kind, x, i)[2] = n
BY DEF Rg

LEMMA RgOwned ==
    ASSUME NEW own, NEW a \in Nat, NEW n \in Nat \ {0}, NEW t, Owned(own, a, n, t),
           NEW kind, NEW x, NEW i, NEW r, r = Rg(a, n, kind, x, i)
    PROVE  RegionOwned(own, r, t)
<1>1. r[1] = a /\ r[2] = n
  BY RgIs
<1> QED
  BY <1>1 DEF RegionOwned

LEMMA RegTableOwned ==
    ASSUME NEW own, NEW av, NEW kind, NEW owner, Table(av, own, kind, owner), NEW x, NEW r, NEW t,
           RegTable(av, x, kind, owner, r, t)
    PROVE  RegionOwned(own, r, t)
<1>1. PICK i \in DOMAIN av : r = Rg(av[i].adr, av[i].size, kind, x, i) /\ t = Tag(kind, owner, av[i].adr)
  BY DEF RegTable
<1>2. av[i] \in AvType
  BY InSeq DEF Table
<1>3. av[i].adr \in Nat /\ av[i].size \in Nat \ {0}
  BY <1>2 DEF AvType
<1>4. Owned(own, av[i].adr, av[i].size, t)
  BY <1>1 DEF Table
<1> QED
  BY <1>1, <1>3, <1>4, RgOwned

LEMMA RegOwned ==
    ASSUME NEW d, NEW o, DiskOK(d, o), NEW S, Stack(d, o.h.av_next, S, o.own), NEW r, NEW t, Reg(o, S, r, t)
    PROVE  RegionOwned(o.own, r, t)
<1> DEFINE own == o.own
<1>0. /\ FreeSpace(d, o.h, own) /\ Tables(own, o.B, 0) /\ Homes(own, o.h, o.B)
      /\ block_size \in Nat \ {0} /\ av_block \in Nat \ {0}
  BY GdbmAssumption DEF DiskOK, LayoutOK
<1>1. CASE RegHeader(r, t)
  BY <1>0, <1>1, RgOwned DEF RegHeader, Homes
<1>2. CASE RegDir(o.h, r, t)
  BY LayoutSizes, <1>0, <1>2, RgOwned DEF DiskOK, RegDir, Homes
<1>3. CASE RegAvail(o.h, r, t)
  BY <1>0, <1>3, RegTableOwned DEF FreeSpace, RegAvail
<1>4. CASE RegBucket(o.B, r, t)
  BY <1>4, <1>0, RgOwned DEF RegBucket, Homes
<1>5. CASE RegRecord(o.B, r, t)
  <2>1. PICK a \in DOMAIN o.B : \E k \in DOMAIN o.B[a].elems :
           r = Rg(o.B[a].elems[k].adr, o.B[a].elems[k].size, ARecord, a, k) /\ t = Tag(ARecord, k, Nobody)
    BY <1>5 DEF RegRecord
  <2>2. PICK k \in DOMAIN o.B[a].elems :
           r = Rg(o.B[a].elems[k].adr, o.B[a].elems[k].size, ARecord, a, k) /\ t = Tag(ARecord, k, Nobody)
    BY <2>1
  <2> DEFINE el == o.B[a].elems[k]
  <2>3. HasRecord(own, el, k)
    BY <1>0 DEF Homes
  <2>4. r = Rg(el.adr, el.size, ARecord, a, k) /\ t = Tag(ARecord, k, Nobody)
    BY <2>2
  <2> HIDE DEF el
  <2>5. el.adr \in Nat /\ el.size \in Nat \ {0} /\ Owned(own, el.adr, el.size, t)
    BY <2>3, <2>4 DEF HasRecord, AvType
  <2> QED
    BY <2>4, <2>5, RgOwned
<1>6. CASE RegFree(o.B, r, t)
  BY <1>6, <1>0, RegTableOwned DEF RegFree, Tables, Homes
<1>s. ASSUME NEW n \in Nat, n < Len(S) PROVE Len(S) - n \in DOMAIN S
  BY <1>s DEF Stack
<1>7. CASE RegBlock(S, r, t)
  <2>1. PICK n \in Nat : n < Len(S) /\ r = Rg(S[Len(S) - n].adr, av_block, AvailBlock, n, Nobody)
                         /\ t = Tag(AvailBlock, Len(S) - n, Nobody)
    BY <1>7 DEF RegBlock
  <2> DEFINE i == Len(S) - n
  <2>2. i \in DOMAIN S
    BY <1>s, <2>1
  <2>3. r = Rg(S[i].adr, av_block, AvailBlock, n, Nobody) /\ t = Tag(AvailBlock, i, Nobody)
    BY <2>1
  <2> HIDE DEF i
  <2>4. S[i] \in [adr : Nat \ {0}, av : Seq(AvType)]
    BY <2>2, InSeq DEF Stack
  <2>5. S[i].adr \in Nat /\ Owned(own, S[i].adr, av_block, t)
    BY <2>2, <2>3, <2>4 DEF Stack
  <2> QED
    BY <1>0, <2>3, <2>5, RgOwned
<1>8. CASE RegPushed(S, r, t)
  BY <1>8, <1>s, RegTableOwned DEF RegPushed, Stack
<1> QED
  BY <1>1, <1>2, <1>3, <1>4, <1>5, <1>6, <1>7, <1>8 DEF Reg

\* Two spans that meet have a unit in common.
LEMMA SpansMeet ==
    ASSUME NEW a \in Nat, NEW n \in Nat \ {0}, NEW b \in Nat, NEW l \in Nat \ {0}, ~(a + n <= b), ~(b + l <= a)
    PROVE  \E u \in Nat : u \in Span(a, n) /\ u \in Span(b, l)
BY DEF Span

\* The regions of a file that a layout describes end where the file does, and none
\* meets another.
LEMMA RegionsApart ==
    ASSUME NEW d, NEW o, DiskOK(d, o), NEW R, R = RegionsWith(d, StackFrom(d, HeaderOf(d).av_next)), NEW r \in R
    PROVE  /\ r[1] + r[2] <= HeaderOf(d).next_block
           /\ \A q \in R : r = q \/ r[1] + r[2] <= q[1] \/ q[1] + q[2] <= r[1]
<1>1. HeaderOf(d) = o.h /\ FreeSpace(d, o.h, o.own)
  BY HeaderIs DEF DiskOK, LayoutOK
<1>2. PICK S : Stack(d, o.h.av_next, S, o.own)
  BY <1>1 DEF FreeSpace
<1>3. \A q \in R : \E t : Reg(o, S, q, t) /\ RegionOwned(o.own, q, t) /\ t[1] # AtEnd
  BY <1>2, RegionReg, RegOwned, RegKind
<1>4. PICK t : Reg(o, S, r, t) /\ RegionOwned(o.own, r, t) /\ t[1] # AtEnd
  BY <1>3
<1>5. r[1] + r[2] <= HeaderOf(d).next_block
  <2> DEFINE x == r[1]
             n == r[2]
             e == o.h.next_block
  <2>1. x \in Nat /\ n \in Nat \ {0} /\ e \in Nat /\ Owned(o.own, x, n, t)
    BY <1>1, <1>4 DEF RegionOwned, FreeSpace
  <2>2. \A u \in Nat : u >= e => o.own[u] = Tag(AtEnd, Nobody, Nobody)
    BY <1>1 DEF FreeSpace
  <2> HIDE DEF x, n, e
  <2>3. ASSUME ~(x + n <= e) PROVE FALSE
    BY <2>1, <2>3, <2>2, <1>4, TagIs DEF Span, Owned
  <2>4. x + n <= e
    BY <2>3
  <2> QED
    BY <1>1, <2>4 DEF x, n, e
<1>6. ASSUME NEW q \in R, r # q, ~(r[1] + r[2] <= q[1]), ~(q[1] + q[2] <= r[1]) PROVE FALSE
  <2>1. PICK s : Reg(o, S, q, s) /\ RegionOwned(o.own, q, s)
    BY <1>3
  <2>2. PICK u \in Nat : u \in Span(r[1], r[2]) /\ u \in Span(q[1], q[2])
    BY <1>4, <1>6, <2>1, SpansMeet DEF RegionOwned
  <2>3. s = t
    BY <1>4, <2>1, <2>2 DEF RegionOwned, Owned
  <2> QED
    BY <1>2, <1>4, <1>6, <2>1, <2>3, RegOne
<1> QED
  BY <1>5, <1>6

\* SpaceSound: between updates no part of the file has two owners, and no avail table
\* outgrows its array, whatever is stored and deleted, as long as no death hurts the file.
THEOREM SpaceIsSound == Spec => []SpaceSound
<1>1. GdbmInv => SpaceSound
  <2> SUFFICES ASSUME GdbmInv, pc = "idle", ~hurt
               PROVE  /\ \A r \in Regions :
                           /\ r[1] + r[2] <= HeaderOf(dbf.disk).next_block
                           /\ \A q \in Regions : r = q \/ r[1] + r[2] <= q[1] \/ q[1] + q[2] <= r[1]
                      /\ \A a \in BucketsOf(dbf.disk) : Len(BucketAt(dbf.disk, a).avail) <= BUCKET_AVAIL
                      /\ Len(HeaderOf(dbf.disk).avail) <= avail_size
    BY DEF SpaceSound
  <2>1. PICK o : DiskOK(dbf.disk, o)
    BY DEF GdbmInv, Sound
  <2>2. \A r \in Regions :
           /\ r[1] + r[2] <= HeaderOf(dbf.disk).next_block
           /\ \A q \in Regions : r = q \/ r[1] + r[2] <= q[1] \/ q[1] + q[2] <= r[1]
    BY <2>1, RegionsAre, RegionsApart
  <2>3. \A a \in BucketsOf(dbf.disk) : Len(BucketAt(dbf.disk, a).avail) <= BUCKET_AVAIL
    BY <2>1, BucketsInFile DEF DiskOK, LayoutOK, Tables, Homes
  <2>4. Len(HeaderOf(dbf.disk).avail) <= avail_size
    BY <2>1, HeaderIs DEF DiskOK, LayoutOK, FreeSpace
  <2> QED
    BY <2>2, <2>3, <2>4
<1> QED
  BY <1>1, FileAndMemorySound, PTL

=============================================================================
