-------------------------------- MODULE GdbmLayout --------------------------------
(***************************************************************************)
(* The inductive invariant of the GDBM store.  Every unit of the file has  *)
(* an owner (own); the buckets as they are or will be in the file are a    *)
(* function of their addresses (B); the layout that the file had when the  *)
(* update began is o.  Sound says what each step of a call leaves of the   *)
(* file and of memory, for as long as no death has hurt the file.          *)
(***************************************************************************)
EXTENDS Gdbm

(* The cache entries; the units of a region; an element of an avail table. *)
Slots == 0 .. cache_size - 1
Span(a, n) == a .. a + n - 1
AvType == [adr : Nat, size : Nat \ {0}]

(* The object is on the disk, whole.                                       *)
Holds(d, a, n, obj) == \A u \in Span(a, n) : u \in DOMAIN d /\ d[u] = <<obj, u - a>>

(* What the disk d has in unit u the disk e has too.                       *)
SameAt(d, e, u) == u \in DOMAIN d => u \in DOMAIN e /\ e[u] = d[u]

(* An owner: its kind, of whom, and which.                                 *)
HeaderAvail == "header avail"
BucketAvail == "bucket avail"
AvailBlock == "avail block"
InBlock == "avail"
AtEnd == "end"
Holding == "held"
TheHeader == "header"
TheDir == "dir"
ABucket == "bucket"
ARecord == "record"
OldDir == "old"
Nobody == 0
Tag(kind, o, x) == <<kind, o, x>>
(* All units of a region have the tag t; all elements of a table do.       *)
Owned(own, a, n, t) == \A u \in Span(a, n) : own[u] = t
Table(av, own, kind, o) ==
    /\ av \in Seq(AvType)
    /\ \A i \in DOMAIN av : Owned(own, av[i].adr, av[i].size, Tag(kind, o, av[i].adr))
    /\ \A i, j \in DOMAIN av : av[i].adr = av[j].adr => i = j
(* The fields of the records, and nothing besides.                         *)
IsHeader(h) == h = [dir |-> h.dir, dir_bits |-> h.dir_bits, next_block |-> h.next_block,
                    avail |-> h.avail, av_next |-> h.av_next]
IsBucket(b) == b = [bits |-> b.bits, elems |-> b.elems, avail |-> b.avail]
IsEntry(e) ==
    /\ e = [adr |-> e.adr, bucket |-> e.bucket, changed |-> e.changed, data |-> e.data]
    /\ IsBucket(e.bucket)
IsMem(m) ==
    /\ m = [open |-> m.open, disk |-> m.disk, header |-> m.header, dir |-> m.dir,
            bucket_dir |-> m.bucket_dir, cur |-> m.cur, last_read |-> m.last_read,
            cache |-> m.cache, old |-> m.old, header_changed |-> m.header_changed,
            directory_changed |-> m.directory_changed, bucket_changed |-> m.bucket_changed,
            second_changed |-> m.second_changed, popped |-> m.popped]
    /\ IsHeader(m.header)
    /\ m.cur \in Slots
    /\ m.cache = [c \in Slots |-> m.cache[c]]
    /\ \A c \in Slots : IsEntry(m.cache[c])
(* The address of the current bucket.                                      *)
Adr(m) == m.cache[m.cur].adr

(* The owners of free space, seen with the bucket at a as the current one; *)
(* what lies in the file's avail blocks is far, the rest is near.          *)
NearUnit(t, a) == t[1] \in {HeaderAvail, AtEnd} \/ (t[1] = BucketAvail /\ t[2] = a)
FreeUnit(t, a) == NearUnit(t, a) \/ t[1] \in {AvailBlock, InBlock}

(* The avail blocks in the file, the head of the list last.                *)
Stack(d, head, S, own) ==
    /\ S \in Seq([adr : Nat \ {0}, av : Seq(AvType)])
    /\ head = IF S = <<>> THEN 0 ELSE S[Len(S)].adr
    /\ \A i \in DOMAIN S :
          /\ Holds(d, S[i].adr, av_block,
                   <<"avail", S[i].av, IF i = 1 THEN 0 ELSE S[i - 1].adr>>)
          /\ Owned(own, S[i].adr, av_block, Tag(AvailBlock, i, Nobody))
          /\ Table(S[i].av, own, InBlock, i)
          /\ Len(S[i].av) <= avail_size \div 2

(* All free space has one owner and is where the tables say.               *)
FreeOK(m, own) ==
    /\ IsMem(m)
    /\ m.header.next_block \in Nat
    /\ \A u \in Nat : u >= m.header.next_block => own[u] = Tag(AtEnd, Nobody, Nobody)
    /\ own[0] = Tag(TheHeader, Nobody, Nobody)
    /\ Table(m.header.avail, own, HeaderAvail, Nobody)
    /\ Len(m.header.avail) <= avail_size
    /\ Table(Bucket(m).avail, own, BucketAvail, Adr(m))
    /\ Len(Bucket(m).avail) <= BUCKET_AVAIL
    /\ \E S : Stack(m.disk, m.header.av_next, S, own)

(* A region that was free and is now held by its address.                  *)
Held(a) == Tag(Holding, Nobody, a)

(* Entries of a directory lead to the same bucket when its bits of their   *)
(* indices are the same; a key is in the bucket that its entry leads to.   *)
Entries(db) == 0 .. Two[db] - 1
DirShape(dir, db, B) ==
    /\ db \in InitBits .. HashBits
    /\ dir = [i \in Entries(db) |-> dir[i]]
    /\ \A i \in Entries(db) : dir[i] \in DOMAIN B
    /\ \A a \in DOMAIN B : \E i \in Entries(db) : dir[i] = a
SameBits(i, j, n) == i \div Two[n] = j \div Two[n]
Grouped(dir, i, j, a, n) == dir[i] = a => (dir[j] = a <=> SameBits(i, j, n))
DirGroups(dir, db, B) ==
    /\ \A a \in DOMAIN B : B[a].bits \in 0 .. db
    /\ \A a \in DOMAIN B : \A i, j \in Entries(db) : Grouped(dir, i, j, a, db - B[a].bits)
DirKeys(dir, db, B) ==
    \A a \in DOMAIN B : \A k \in DOMAIN B[a].elems : k \in Keys /\ dir[DirIndex(k, db)] = a
DirOK(dir, db, B) == DirShape(dir, db, B) /\ DirGroups(dir, db, B) /\ DirKeys(dir, db, B)
(* Objects of the file.                                                    *)
HeaderObj(h) == <<"header", h>>
DirObject(dir) == <<"dir", dir>>
BucketObj(b) == <<"bucket", b>>

(* The header, the directory, the buckets B and their records have homes.  *)
HasRecord(own, el, k) == el \in AvType /\ Owned(own, el.adr, el.size, Tag(ARecord, k, Nobody))
Homes(own, h, B) ==
    /\ Owned(own, 0, block_size, Tag(TheHeader, Nobody, Nobody))
    /\ h.dir \in Nat /\ Owned(own, h.dir, DirSize(h.dir_bits), Tag(TheDir, Nobody, Nobody))
    /\ \A a \in DOMAIN B : a \in Nat /\ a # 0 /\ IsBucket(B[a]) /\ Owned(own, a, block_size, Tag(ABucket, Nobody, a))
    /\ \A a \in DOMAIN B : \A k \in DOMAIN B[a].elems : HasRecord(own, B[a].elems[k], k)

(* All tables but that of bucket x.                                        *)
Tables(own, B, x) ==
    \A a \in DOMAIN B : a # x => Table(B[a].avail, own, BucketAvail, a) /\ Len(B[a].avail) <= BUCKET_AVAIL

(* The file has what is not marked as changed; bucket y may be ahead of it.*)
HeaderOn(m) == m.header_changed \/ Holds(m.disk, 0, block_size, HeaderObj(m.header))
DirOn(m) == m.directory_changed \/ m.old # <<>>
            \/ Holds(m.disk, m.header.dir, DirSize(m.header.dir_bits), DirObject(m.dir))
Pending(m, a) == \E c \in Slots : m.cache[c].adr = a /\ m.cache[c].changed
BucketOn(m, a, b) == Pending(m, a) \/ Holds(m.disk, a, block_size, BucketObj(b))
BucketsOn(m, B, y) == \A a \in DOMAIN B : a # y => BucketOn(m, a, B[a])

(* The cache holds buckets of the directory, each once.                    *)
Cached(m, B, x) ==
    /\ \A c \in Slots : m.cache[c].adr # 0 => m.cache[c].adr \in DOMAIN B
    /\ \A c \in Slots : m.cache[c].adr # 0 /\ m.cache[c].adr # x => m.cache[c].bucket = B[m.cache[c].adr]
    /\ \A c, e \in Slots : m.cache[c].adr = m.cache[e].adr /\ m.cache[c].adr # 0 => c = e

(* A record of the file, and what the data cache keeps of it.              *)
RecVal(d, el, k) ==
    LET obj == Get(d, el.adr, el.size)
    IN IF obj[1] = "record" /\ obj[2] = k THEN obj[3] ELSE Torn
InFile(d, el) == \A u \in Span(el.adr, el.size) : u \in DOMAIN d
DataOf(d, el, k) == [key |-> k, val |-> RecVal(d, el, k)]
DataFits(d, b, data) ==
    data = NoData \/ \E k \in DOMAIN b.elems : InFile(d, b.elems[k]) /\ data = DataOf(d, b.elems[k], k)
DataOK(m, B, y) ==
    \A c \in Slots : m.cache[c].adr # 0 /\ m.cache[c].adr # y /\ ~m.cache[c].changed =>
        DataFits(m.disk, B[m.cache[c].adr], m.cache[c].data)
RecordsIn(d, B, k) ==
    \A a \in DOMAIN B : \A q \in DOMAIN B[a].elems : q # k => InFile(d, B[a].elems[q])
(* What the marks in memory say of one another.                            *)
FlagsOK(m) ==
    /\ \A c \in Slots : c # m.cur /\ m.cache[c].changed => m.second_changed
    /\ m.second_changed => m.directory_changed
    /\ m.popped => m.header_changed
    /\ m.last_read \in Slots \cup {-1}

(* Memory m and its file, seen as the buckets B: the tables and the cached *)
(* copy of bucket x, what the file has of bucket y and the record of key k *)
(* are left open.                                                          *)
Mem(m, own, B, x, y, k) ==
    /\ FreeOK(m, own)
    /\ DirOK(m.dir, m.header.dir_bits, B)
    /\ Homes(own, m.header, B) /\ Tables(own, B, x)
    /\ HeaderOn(m) /\ DirOn(m) /\ BucketsOn(m, B, y)
    /\ Cached(m, B, x) /\ DataOK(m, B, y) /\ RecordsIn(m.disk, B, k)
    /\ FlagsOK(m)
(* The free space that a header in the file knows.                         *)
FreeSpace(d, h, own) ==
    /\ h.next_block \in Nat
    /\ \A u \in Nat : u >= h.next_block => own[u] = Tag(AtEnd, Nobody, Nobody)
    /\ Table(h.avail, own, HeaderAvail, Nobody)
    /\ Len(h.avail) <= avail_size
    /\ \E S : Stack(d, h.av_next, S, own)

(* o is a layout: who owns what, the header, the directory, the buckets.   *)
BucketsHeld(d, o) == \A a \in DOMAIN o.B : Holds(d, a, block_size, BucketObj(o.B[a]))
LayoutOK(d, o) ==
    /\ IsHeader(o.h) /\ Holds(d, 0, block_size, HeaderObj(o.h))
    /\ FreeSpace(d, o.h, o.own)
    /\ DirOK(o.dir, o.h.dir_bits, o.B)
    /\ Homes(o.own, o.h, o.B) /\ Tables(o.own, o.B, 0)
    /\ BucketsHeld(d, o) /\ RecordsIn(d, o.B, 0)
(* The directory is on the disk, or something was written over it.         *)
DirHeld(d, o) == Holds(d, o.h.dir, DirSize(o.h.dir_bits), DirObject(o.dir))
Lost(d, o) == \E u \in Span(o.h.dir, DirSize(o.h.dir_bits)) : u \in DOMAIN d /\ d[u][1][1] # "dir"
DiskOK(d, o) == LayoutOK(d, o) /\ DirHeld(d, o)

(* An old layout, whose directory may have been used anew.                 *)
OldOK(d, o) == LayoutOK(d, o) /\ (DirHeld(d, o) \/ Lost(d, o))

(* The units that hold a layout together.                                  *)
Prot(t) == t[1] \in {TheHeader, ABucket, AvailBlock}
Safe(m, o, a, n) == m.popped \/ \A u \in Span(a, n) : ~Prot(o.own[u])
(* An old layout o in the file, that free space keeps clear of.            *)
Link(m, own, o) == \A u \in Nat : Prot(o.own[u]) => ~NearUnit(own[u], Adr(m))
Old(m, own, o) == m.popped \/ (OldOK(m.disk, o) /\ Link(m, own, o))
(* Between updates nothing is marked.                                      *)
Unchanged(m) == \A c \in Slots : ~m.cache[c].changed
Settled(m) == ~m.header_changed /\ ~m.directory_changed /\ ~m.bucket_changed /\ ~m.second_changed
              /\ ~m.popped /\ m.old = <<>>
Clean(m, own, B) == Mem(m, own, B, 0, 0, 0) /\ Unchanged(m) /\ Settled(m)
(* The current bucket is marked or in the file.                            *)
CurOn(m) ==
    \/ m.bucket_changed
    \/ /\ Holds(m.disk, Adr(m), block_size, BucketObj(Bucket(m)))
       /\ m.cache[m.cur].data = NoData /\ ~m.cache[m.cur].changed
(* The layout that the file had is still there.                            *)
OldFile(m, o) == m.popped \/ OldOK(m.disk, o)

(* Until the bucket is written, or the directory where no header follows,  *)
(* a process that opened the file would find the old layout.               *)
Early(m) == m.bucket_changed \/ (m.directory_changed /\ ~m.header_changed)
(* A bucket that is marked has an address.                                 *)
Marked(m) == \A c \in Slots : m.cache[c].changed => m.cache[c].adr # 0

(* What will be written lies elsewhere.                                    *)
NewSafe(m, o) ==
    /\ \A c \in Slots : c # m.cur /\ m.cache[c].changed => Safe(m, o, m.cache[c].adr, block_size)
    /\ m.directory_changed => Safe(m, o, Adr(m), block_size)
    /\ Safe(m, o, m.header.dir, DirSize(m.header.dir_bits))
(* What is left is to write what is marked.                                *)
Commit(m, own, B, o, k) ==
    /\ Mem(m, own, B, 0, Adr(m), k)
    /\ Adr(m) \in DOMAIN B /\ m.old = <<>> /\ CurOn(m) /\ Marked(m)
    /\ Early(m) => OldFile(m, o) /\ NewSafe(m, o)

(* The key's element is in its bucket.                                     *)
Stored(m, own, B, o, k, el) ==
    /\ Commit(m, own, B, o, k) /\ m.bucket_changed
    /\ k \in DOMAIN B[Adr(m)].elems /\ B[Adr(m)].elems[k] = el
    /\ HasRecord(own, el, k) /\ Safe(m, o, el.adr, el.size)
(* The element of a record.                                                *)
ElOf(r) == [adr |-> r.adr, size |-> SizeOf[r.val]]

(* The buckets B with the records on the disk d have value v for key k,    *)
(* NoValue being none.                                                     *)
RecordObj(k, v) == <<"record", k, v>>
Effect(d, B, k, v) ==
    /\ k \in Keys
    /\ \/ v = NoValue /\ \A a \in DOMAIN B : k \notin DOMAIN B[a].elems
       \/ \E a \in DOMAIN B : /\ k \in DOMAIN B[a].elems
                             /\ Holds(d, B[a].elems[k].adr, B[a].elems[k].size, RecordObj(k, v))

(* Memory m, at write p of update w, with r the record to be written.      *)
Writes == {"key", "record"}
Sound(m, p, r, w) ==
    /\ p = "idle" => w = <<>> /\ (\E o : DiskOK(m.disk, o)) /\ (m.open => \E own, B : Clean(m, own, B))
    /\ p # "idle" => m.open /\ w # <<>>
    /\ p \in Writes => /\ r.key \in Keys /\ r.val \in Values /\ r.adr \in Nat
                       /\ w[1] = r.key /\ w[2] = r.val
                       /\ \E own, B, o : Stored(m, own, B, o, r.key, ElOf(r))
    /\ p = "update" => \E own, B, o : Commit(m, own, B, o, 0) /\ Effect(m.disk, B, w[1], w[2])
    /\ p \in Writes \cup {"idle", "update"}

(* The invariant.                                                          *)
GdbmInv ==
    /\ map = FileMap(dbf.disk) /\ hurt \in BOOLEAN
    /\ ~hurt => Sound(dbf, pc, rec, busy)

=============================================================================
