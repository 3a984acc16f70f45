----------------------------- MODULE GdbmSteps -----------------------------
(***************************************************************************)
(* What the parts of a call leave of memory and the file, in the order in  *)
(* which GdbmProofs comes to them: the moves of free space, the look-up of *)
(* a bucket, the middle of an update, the turns of a split, the writes.    *)
(* Operators named Set, With, New... are updates of memory with no EXCEPT  *)
(* in sight.                                                               *)
(***************************************************************************)
EXTENDS GdbmLayout

(* The owners once the region at a has the tag t.                          *)
Retag(own, a, n, t) == [u \in Nat |-> IF u \in Span(a, n) THEN t ELSE own[u]]

(* A region that may be empty.                                             *)
PieceType == [adr : Nat, size : Nat]

(* What the handling of free space leaves alone.                           *)
Rest(m) == <<m.open, m.dir, m.bucket_dir, m.cur, m.last_read, m.old,
               m.directory_changed, m.second_changed, m.header.dir, m.header.dir_bits>>

(* Nothing but free space has moved from memory m to memory r.             *)
OnlySpace(m, r) ==
    /\ IsMem(r) /\ Rest(r) = Rest(m)
    /\ \A c \in Slots : c # m.cur => r.cache[c] = m.cache[c]
    /\ r.cache[m.cur].adr = m.cache[m.cur].adr
    /\ r.cache[m.cur].changed = m.cache[m.cur].changed
    /\ r.cache[m.cur].data = m.cache[m.cur].data
    /\ Bucket(r).bits = Bucket(m).bits
    /\ Bucket(r).elems = Bucket(m).elems

(* The rest of what it may change.                                         *)
Spaces(m) == <<m.disk, m.header.next_block, m.header.avail, m.header.av_next>>

(* The marks that those moves may set.                                     *)
Flags(m) == <<m.header_changed, m.bucket_changed, m.popped>>

(* A mark that is set.                                                     *)
Yes == TRUE

(* Memory with another header, disk, and flags.                            *)
With(m, h, d, hc, bc, p) ==
    [m EXCEPT !.header = h, !.disk = d, !.header_changed = hc, !.bucket_changed = bc, !.popped = p]

(* A header with another table.                                            *)
WithAvail(h, av) == [h EXCEPT !.avail = av]

(* What was written to a unit is not a directory.                          *)
Wrote(d, e, u) == SameAt(d, e, u) \/ (u \in DOMAIN e /\ e[u][1][1] # "dir")

(* No mark is taken back, and a pop marks the header.                      *)
FlagsGrow(m, r) ==
    /\ m.popped => r.popped
    /\ m.header_changed => r.header_changed
    /\ m.bucket_changed => r.bucket_changed
    /\ r.popped => m.popped \/ r.header_changed

(* From memory m to r only free space changes hands, that and the units E. *)
(* Until an avail block is popped, none of that is far.                    *)
Moves(m, own, r, own2, E) ==
    /\ OnlySpace(m, r) /\ FreeOK(r, own2) /\ FlagsGrow(m, r)
    /\ \A u \in Nat : Wrote(m.disk, r.disk, u)
    /\ \A u \in Nat : u \notin E /\ ~FreeUnit(own[u], Adr(m)) =>
          own2[u] = own[u] /\ SameAt(m.disk, r.disk, u)
    /\ ~r.popped => \A u \in Nat :
          /\ NearUnit(own2[u], Adr(m)) => NearUnit(own[u], Adr(m)) \/ u \in E
          /\ u \notin E /\ ~NearUnit(own[u], Adr(m)) => SameAt(m.disk, r.disk, u)

(* A region g.e of at least n units, taken out of free space.              *)
Gets(m, own, g, own2, n) ==
    /\ Moves(m, own, g.m, own2, {})
    /\ g.e \in AvType /\ g.e.size >= n
    /\ Owned(own2, g.e.adr, g.e.size, Held(g.e.adr))
    /\ \A u \in Span(g.e.adr, g.e.size) : FreeUnit(own[u], Adr(m))
    /\ ~g.m.popped => \A u \in Span(g.e.adr, g.e.size) : NearUnit(own[u], Adr(m))

(* The two tables in memory.                                               *)
InTable(t, a) == t[1] = HeaderAvail \/ (t[1] = BucketAvail /\ t[2] = a)

(* A region to be freed: in no table, and not the header.                  *)
Taken(t, a) == ~FreeUnit(t, a) /\ t[1] # TheHeader

(* A region, perhaps empty, that may go into a table.                      *)
Piece(own, e, a) ==
    /\ e \in PieceType
    /\ \A u \in Span(e.adr, e.size) : Taken(own[u], a)

(* New contents of the two tables, from what was in them and the units E.  *)
Shuffle(m, own, hw, bw, own2, E) ==
    /\ \A u \in Nat : u \in E => Taken(own[u], Adr(m))
    /\ \A u \in Nat : own2[u] = own[u] \/ ( /\ u \in E \/ InTable(own[u], Adr(m))
                                            /\ InTable(own2[u], Adr(m)) )
    /\ Table(hw, own2, HeaderAvail, Nobody) /\ Len(hw) <= avail_size
    /\ Table(bw, own2, BucketAvail, Adr(m)) /\ Len(bw) <= BUCKET_AVAIL

(* Memory r has the tables hw and bw where memory m had others.            *)
Shuffled(m, r, hw, bw) ==
    \E s, hc, bc : /\ OnlySpace(m, s) /\ s.header = m.header /\ Bucket(s).avail = bw
                   /\ r = With(s, WithAvail(m.header, hw), m.disk, hc, bc, m.popped)
                   /\ FlagsGrow(m, r)

(* The table that has taken the first n elements of another.               *)
Retagged(own, bav, a, n) ==
    [u \in Nat |-> IF /\ own[u][1] = BucketAvail /\ own[u][2] = a
                      /\ \E i \in 1 .. n : own[u][3] = bav[i].adr
                     THEN Tag(HeaderAvail, Nobody, own[u][3]) ELSE own[u]]

(* The first n elements of bav are put into hav.                           *)
Moved(hav, bav, n) ==
    (CHOOSE f : f = [i \in 0 .. Len(bav) |-> IF i = 0 THEN hav ELSE PutAv(f[i - 1], bav[i])])[n]

(* What adjust_bucket_avail leaves in a bucket.                            *)
Third == BUCKET_AVAIL \div 3

(* The two cases of adjust_bucket_avail that change something.             *)
Both(m, hw, bw) == [SetBucketAv(m, bw) EXCEPT !.header.avail = hw, !.bucket_changed = TRUE]

(* Nothing in the file's header or on the disk changes without the flag.   *)
Quiet(m, r) == r.header_changed \/ (r.header = m.header /\ r.disk = m.disk)

(* A region that memory holds outside of every table.                      *)
Holder(own, e) == e \in AvType /\ Owned(own, e.adr, e.size, Held(e.adr))

(* The elements that a push takes to its block, and those that it leaves.  *)
Odd(av) == [i \in 1 .. Len(av) \div 2 |-> av[2 * i]]

Kept(av) == [i \in 1 .. Len(av) \div 2 |-> av[2 * i - 1]]

(* The owners once every second element has gone to block n.               *)
Pushed(own, av, n) ==
    [u \in Nat |-> IF \E j \in DOMAIN Odd(av) : own[u] = Tag(HeaderAvail, Nobody, Odd(av)[j].adr)
                   THEN Tag(InBlock, n, own[u][3]) ELSE own[u]]

(* The header once a block at a has been pushed.                           *)
PushHeader(h, av, a) == [h EXCEPT !.avail = av, !.av_next = a]

(* A block of the avail stack, and the address of the next.                *)
BlockObj(av, next) == <<"avail", av, next>>
Below(S, i) == IF i = 1 THEN 0 ELSE S[i - 1].adr

(* The owners once the contents of block n are the header's table.         *)
Popped(own, n) ==
    [u \in Nat |-> IF own[u][1] = InBlock /\ own[u][2] = n
                   THEN Tag(HeaderAvail, Nobody, own[u][3]) ELSE own[u]]

(* The header is marked.                                                   *)
Flagged(m) == [m EXCEPT !.header_changed = TRUE]

(* What an allocation does: of the space that was free, n units are held   *)
(* by nobody else.                                                         *)
Allocates(m, own, a, own2, n) ==
    /\ Moves(m, own, a.m, own2, {})
    /\ a.adr \in Nat
    /\ Owned(own2, a.adr, n, Held(a.adr))
    /\ \A u \in Span(a.adr, n) : FreeUnit(own[u], Adr(m))
    /\ ~a.m.popped => \A u \in Span(a.adr, n) : NearUnit(own[u], Adr(m))
    /\ Quiet(m, a.m)

(* The two halves of the numbers with quotient q.                          *)
Halved(x, t, q) ==
    /\ x \div t = 2 * q <=> x \in 2 * q * t .. 2 * q * t + t - 1
    /\ x \div t = 2 * q + 1 <=> x \in 2 * q * t + t .. 2 * q * t + t + t - 1
    /\ x \div (2 * t) = q <=> x \div t = 2 * q \/ x \div t = 2 * q + 1

(* The directory of a split.                                               *)
SplitDir(dir, i, free, a, b) ==
    [j \in DOMAIN dir |-> IF j \in Start1(i, free) - Two[free] .. Start1(i, free) - 1 THEN a
                          ELSE IF j \in Start1(i, free) .. Start1(i, free) + Two[free] - 1 THEN b
                          ELSE dir[j]]

(* The bits of a directory that a bucket's halves do not use.              *)
Unused(B, A, db, free) == B[A].bits < db /\ free = db - (B[A].bits + 1)

(* The entries that led to one bucket lead to a or b, by one more bit.     *)
SplitAt(dir, db, i, free, a, b) ==
    LET dir2 == SplitDir(dir, i, free, a, b)
        q == i \div Two[free + 1]
    IN /\ dir2 = [j \in Entries(db) |-> dir2[j]]
       /\ \A j \in Entries(db) : j \in Nat /\ j \div Two[free] \in Nat
       /\ \A j \in Entries(db) : dir[j] = dir[i] <=> j \div Two[free] = 2 * q \/ j \div Two[free] = 2 * q + 1
       /\ \A j \in Entries(db) : j \div Two[free] = 2 * q => dir2[j] = a
       /\ \A j \in Entries(db) : j \div Two[free] = 2 * q + 1 => dir2[j] = b
       /\ \A j \in Entries(db) : dir[j] # dir[i] => dir2[j] = dir[j]
       /\ \E j \in Entries(db) : j \div Two[free] = 2 * q
       /\ \E j \in Entries(db) : j \div Two[free] = 2 * q + 1
       /\ q \in Nat
       /\ \A j \in Entries(db) : dir[j] = dir[i] => j \div Two[free + 1] = q

(* What a split makes of the buckets of a directory.                       *)
SplitOf(B, C, A, a, b) ==
    /\ A \in DOMAIN B /\ a \notin DOMAIN B /\ b \notin DOMAIN B /\ a # b
    /\ DOMAIN C = (DOMAIN B \ {A}) \cup {a, b}
    /\ \A c \in DOMAIN B : c # A => C[c] = B[c]
    /\ C[a].bits = B[A].bits + 1 /\ C[b].bits = B[A].bits + 1
    /\ \A k \in DOMAIN C[a].elems : k \in DOMAIN B[A].elems /\ Bit(k, B[A].bits + 1) = 0
    /\ \A k \in DOMAIN C[b].elems : k \in DOMAIN B[A].elems /\ Bit(k, B[A].bits + 1) = 1

(* Units that belong to what B stands for, the table of bucket x apart.    *)
Home(t, B, x) ==
    \/ t[1] \in {TheHeader, TheDir}
    \/ t[1] = ABucket /\ t[3] \in DOMAIN B
    \/ t[1] = ARecord /\ \E a \in DOMAIN B : t[2] \in DOMAIN B[a].elems
    \/ t[1] = BucketAvail /\ t[2] # x /\ t[2] \in DOMAIN B

(* Those keep their owners, and on the disk their contents.                *)
Steady(own, own2, B, x) == \A u \in Nat : Home(own[u], B, x) => own2[u] = own[u]

SteadyDisk(d, e, own, B, x) == \A u \in Nat : Home(own[u], B, x) => SameAt(d, e, u)

(* No unit of the file is lost.                                            *)
Grown(d, e) == \A u \in Nat : u \in DOMAIN d => u \in DOMAIN e

(* The directories that the loop of a split has replaced.                  *)
OldDirs(m, own, o) ==
    /\ Table(m.old, own, OldDir, Nobody)
    /\ \A i \in DOMAIN m.old : Safe(m, o, m.old[i].adr, m.old[i].size)

(* The current bucket is one of the directory, at the entry bucket_dir.    *)
Cur(m, B) ==
    /\ Adr(m) \in DOMAIN B /\ Bucket(m).bits = B[Adr(m)].bits
    /\ m.bucket_dir \in Entries(m.header.dir_bits) /\ m.dir[m.bucket_dir] = Adr(m)

(* An update is under way: only the current bucket may be ahead of B.      *)
Busy(m, own, B, o, k) ==
    /\ Mem(m, own, B, Adr(m), Adr(m), k) /\ Cur(m, B)
    /\ Old(m, own, o) /\ NewSafe(m, o) /\ OldDirs(m, own, o)

(* What is held stays held.                                                *)
HeldKept(own, own2, E) == \A u \in Nat : own[u][1] = Holding /\ u \notin E => own2[u] = own[u]

(* A step of it that moves only free space.                                *)
BusyStep(m, own, B, o, k, r, own2) ==
    /\ Busy(r, own2, B, o, k) /\ OnlySpace(m, r) /\ Adr(r) = Adr(m)
    /\ m.popped => r.popped

(* An allocation in an update.                                             *)
Got(m, own, B, o, k, a, own2, n) ==
    /\ BusyStep(m, own, B, o, k, a.m, own2) /\ HeldKept(own, own2, {})
    /\ a.adr \in Nat /\ Owned(own2, a.adr, n, Held(a.adr))
    /\ Safe(a.m, o, a.adr, n)
    /\ \A u \in Span(a.adr, n) : FreeUnit(own[u], Adr(m))

(* A region that nobody uses any more is freed in an update.               *)
Unwanted(m, own, B, o, a, n) ==
    /\ a \in Nat /\ n \in Nat
    /\ \A u \in Span(a, n) : Taken(own[u], Adr(m)) /\ ~Home(own[u], B, Adr(m)) /\ own[u][1] # OldDir
    /\ Safe(m, o, a, n)

(* The current bucket's table.                                             *)
CurTable(m, own) == Table(Bucket(m).avail, own, BucketAvail, Adr(m)) /\ Len(Bucket(m).avail) <= BUCKET_AVAIL

(* What a look-up leaves alone.                                            *)
SameFile(m, r) ==
    /\ r.disk = m.disk /\ r.header = m.header /\ r.dir = m.dir /\ r.old = m.old
    /\ r.header_changed = m.header_changed /\ r.directory_changed = m.directory_changed
    /\ r.bucket_changed = m.bucket_changed /\ r.second_changed = m.second_changed
    /\ r.popped = m.popped

(* Another entry becomes the current one.                                  *)
SetCur(m, i, l, c, cache) == [m EXCEPT !.bucket_dir = i, !.last_read = l, !.cur = c, !.cache = cache]

(* The fields of memory.                                                   *)
IsRec(z) == z = [open |-> z.open, disk |-> z.disk, header |-> z.header, dir |-> z.dir,
            bucket_dir |-> z.bucket_dir, cur |-> z.cur, last_read |-> z.last_read,
            cache |-> z.cache, old |-> z.old, header_changed |-> z.header_changed,
            directory_changed |-> z.directory_changed, bucket_changed |-> z.bucket_changed,
            second_changed |-> z.second_changed, popped |-> z.popped]

SetDir(m, i) == [m EXCEPT !.bucket_dir = i]

SetSlot(m, i, c) == [m EXCEPT !.bucket_dir = i, !.cur = c]

(* A bucket just read, and its entry.                                      *)
BlankEntry(a, b) == [NoEntry EXCEPT !.adr = a, !.bucket = b]

ReadSlot(m, i, v, e) == [m EXCEPT !.bucket_dir = i, !.last_read = v, !.cur = v, !.cache[v] = e]

(* The bucket at adr has become the current one.                           *)
Seen(m, B, adr, i, r) ==
    /\ IsMem(r) /\ SameFile(m, r) /\ r.open = m.open /\ r.bucket_dir = i /\ r.last_read \in Slots \cup {-1}
    /\ Cached(r, B, 0) /\ DataOK(r, B, 0) /\ Unchanged(r) /\ Adr(r) = adr

(* A bucket is fetched between updates.                                    *)
Fetched(m, own, B, i, r) ==
    /\ Clean(r, own, B) /\ SameFile(m, r) /\ r.open = m.open /\ r.bucket_dir = i
    /\ Adr(r) = m.dir[i] /\ Adr(r) \in DOMAIN B /\ Bucket(r) = B[Adr(r)]

(* Memory with another cache.                                              *)
SetCache(m, cache) == [m EXCEPT !.cache = cache]

(* One cache entry is replaced.                                            *)
SetEntry(m, c, e) == [m EXCEPT !.cache[c] = e]

(* An entry that keeps another record.                                     *)
WithData(e, data) == [e EXCEPT !.data = data]

(* The layout that memory m stands for.                                    *)
LayoutOf(o, m, own, B) == o.own = own /\ o.h = m.header /\ o.dir = m.dir /\ o.B = B

(* Keys may go from the current bucket.                                    *)
LessElems(B, C, A) ==
    /\ DOMAIN C = DOMAIN B /\ A \in DOMAIN B
    /\ \A a \in DOMAIN B : a # A => C[a] = B[a]
    /\ C[A].bits = B[A].bits /\ IsBucket(C[A])
    /\ \A k \in DOMAIN C[A].elems : k \in DOMAIN B[A].elems /\ C[A].elems[k] = B[A].elems[k]

(* The bucket at A without key k.                                          *)
ElemsWithout(elems, k) == [q \in DOMAIN elems \ {k} |-> elems[q]]

BucketWithout(b, k) == [bits |-> b.bits, elems |-> ElemsWithout(b.elems, k), avail |-> b.avail]

KeyOut(B, A, k) == [a \in DOMAIN B |-> IF a = A THEN BucketWithout(B[A], k) ELSE B[a]]

(* A place for the record is found; the old record's goes first.           *)
RoomOK(m, B, C, k) ==
    /\ LessElems(B, C, Adr(m)) /\ k \notin DOMAIN C[Adr(m)].elems
    /\ k \in DOMAIN B[Adr(m)].elems => C = KeyOut(B, Adr(m), k)
    /\ k \notin DOMAIN B[Adr(m)].elems => C = B

(* The space for the record.                                               *)
HasRoom(a, own, o, n) ==
    a.adr \in Nat /\ Owned(own, a.adr, n, Held(a.adr)) /\ Safe(a.m, o, a.adr, n)

(* Only the current bucket's keys, its data and its marks differ.          *)
NearlySame(m, r) ==
    /\ IsMem(r) /\ r.disk = m.disk /\ r.header = m.header /\ r.dir = m.dir /\ r.old = m.old
    /\ r.header_changed = m.header_changed /\ r.directory_changed = m.directory_changed
    /\ r.second_changed = m.second_changed /\ r.popped = m.popped
    /\ r.bucket_dir = m.bucket_dir /\ r.last_read = m.last_read /\ r.cur = m.cur /\ r.open = m.open
    /\ \A c \in Slots : c # m.cur => r.cache[c] = m.cache[c]
    /\ Adr(r) = Adr(m) /\ Bucket(r).bits = Bucket(m).bits /\ Bucket(r).avail = Bucket(m).avail

(* An entry whose bucket has other elements.                               *)
WithElems(e, elems) == [e EXCEPT !.bucket.elems = elems]

ChangedElems(e, elems) == [e EXCEPT !.bucket.elems = elems, !.changed = TRUE]

(* The current entry is replaced, and the bucket is marked or not.         *)
SetMarked(m, cache, bc) == [m EXCEPT !.cache = cache, !.bucket_changed = bc]

(* The current bucket gets the key.                                        *)
MoreElems(B, C, A, k, el) ==
    /\ DOMAIN C = DOMAIN B /\ A \in DOMAIN B
    /\ \A a \in DOMAIN B : a # A => C[a] = B[a]
    /\ C[A].bits = B[A].bits /\ IsBucket(C[A])
    /\ \A q \in DOMAIN C[A].elems : \/ q = k /\ C[A].elems[q] = el
                                    \/ q \in DOMAIN B[A].elems /\ C[A].elems[q] = B[A].elems[q]

(* The buckets with another one at A.                                      *)
WithBucket(B, A, b) == [a \in DOMAIN B |-> IF a = A THEN b ELSE B[a]]

(* An entry that keeps its bucket's address, bits and table.               *)
Like(e, f) == IsEntry(f) /\ f.adr = e.adr /\ f.bucket.bits = e.bucket.bits /\ f.bucket.avail = e.bucket.avail

(* The current entry is replaced and marked.                               *)
MarkEntry(m, e) == [m EXCEPT !.cache[m.cur] = e, !.bucket_changed = TRUE]

(* The keys of a bucket with one more.                                     *)
ElemsWith(elems, k, el) == [q \in DOMAIN elems \cup {k} |-> IF q = k THEN el ELSE elems[q]]

BucketWith(b, elems) == [bits |-> b.bits, elems |-> elems, avail |-> b.avail]

(* Elements e are among f, that of key k apart.                            *)
AgreeBut(e, f, k) == \A q : q # k /\ q \in DOMAIN e => q \in DOMAIN f /\ e[q] = f[q]

(* There is space for the record of a key, and its bucket is current.      *)
Roomy(m, own, B, o, k, el) ==
    /\ Busy(m, own, B, o, k) /\ m.old = <<>> /\ Marked(m)
    /\ AgreeBut(Bucket(m).elems, B[Adr(m)].elems, k)
    /\ m.dir[DirIndex(k, m.header.dir_bits)] = Adr(m)
    /\ el \in AvType /\ Owned(own, el.adr, el.size, Held(el.adr))
    /\ Safe(m, o, el.adr, el.size)

(* A key is deleted.                                                       *)
ForgetEntry(m) == MarkEntry(m, WithData(m.cache[m.cur], NoData))

WithoutKey(m, k) == SetEntry(m, m.cur, WithElems(m.cache[m.cur], ElemsWithout(Bucket(m).elems, k)))

(* Only units with the tag t are written.                                  *)
WroteOnly(d, e, own, t) == Grown(d, e) /\ \A u \in Nat : own[u] # t => SameAt(d, e, u)

(* What the writes of an update have in common.                            *)
OnlyFile(m, r) ==
    /\ IsMem(r) /\ r.open = m.open /\ r.header = m.header /\ r.dir = m.dir /\ r.old = m.old /\ r.cur = m.cur
    /\ r.bucket_dir = m.bucket_dir
    /\ \A c \in Slots : r.cache[c].adr = m.cache[c].adr /\ r.cache[c].bucket = m.cache[c].bucket

(* What the file has, by the marks in memory.                              *)
Marks(m, B, y, k) ==
    FlagsOK(m) /\ HeaderOn(m) /\ DirOn(m) /\ BucketsOn(m, B, y) /\ DataOK(m, B, y) /\ RecordsIn(m.disk, B, k)

(* Entry c of the cache is written.                                        *)
SetWritten(m, c, d, bc) ==
    [m EXCEPT !.disk = d, !.cache[c].changed = FALSE, !.cache[c].data = NoData, !.bucket_changed = bc]

(* An entry that has been written.                                         *)
Flushed(e) == [e EXCEPT !.changed = FALSE, !.data = NoData]

(* Entry c is written where its bucket is.                                 *)
Flush(m, c, bc, r) ==
    /\ c \in Slots
    /\ r = SetWritten(m, c, Put(m.disk, m.cache[c].adr, block_size, BucketObj(m.cache[c].bucket)), bc)

(* The disk and the marks of the header and the directory differ.          *)
Rewritten(m, d, hc, dc, sc, p) ==
    [m EXCEPT !.disk = d, !.header_changed = hc, !.directory_changed = dc, !.second_changed = sc, !.popped = p]

(* What gdbm_open makes of the file.                                       *)
Opened(d) ==
    [open |-> TRUE, disk |-> d, header |-> HeaderOf(d),
     dir |-> DirOf(d), bucket_dir |-> 0, cur |-> 0, last_read |-> -1,
     cache |-> [c \in Slots |-> NoEntry], old |-> <<>>,
     header_changed |-> FALSE, directory_changed |-> FALSE,
     bucket_changed |-> FALSE, second_changed |-> FALSE, popped |-> FALSE]

(* The layout of a new file.                                               *)
Place(n) == n * block_size

NewOwner ==
    [u \in Nat |-> IF u \in Span(Place(0), block_size) THEN Tag(TheHeader, Nobody, Nobody)
                   ELSE IF u \in Span(Place(1), block_size) THEN Tag(TheDir, Nobody, Nobody)
                   ELSE IF u \in Span(Place(2), block_size) THEN Tag(ABucket, Nobody, Place(2))
                   ELSE IF u \in Span(Place(3), block_size) THEN Tag(BucketAvail, Place(2), Place(3))
                   ELSE Tag(AtEnd, Nobody, Nobody)]

NewElem == [adr |-> Place(3), size |-> block_size]

FirstBucket == [bits |-> 0, elems |-> <<>>, avail |-> <<NewElem>>]

FirstDir == [i \in Entries(InitBits) |-> Place(2)]

NewBuckets == [a \in {Place(2)} |-> FirstBucket]

NewLayout == [own |-> NewOwner, h |-> NewHeader, dir |-> FirstDir, B |-> NewBuckets]

(* The cache entries are used in turn.                                     *)
Turned(l, u, c) ==
    LET c1 == (l + 1) % cache_size
    IN c = IF c1 = u THEN (c1 + 1) % cache_size ELSE c1

(* The entry used last.                                                    *)
SetRead(m, c) == [m EXCEPT !.last_read = c]

(* Another entry is written where it must be.                              *)
SameBut(m, r) ==
    /\ r.header = m.header /\ r.dir = m.dir /\ r.old = m.old /\ r.cur = m.cur /\ r.bucket_dir = m.bucket_dir
    /\ r.directory_changed = m.directory_changed /\ r.popped = m.popped /\ r.open = m.open
    /\ Adr(r) = Adr(m) /\ Bucket(r) = Bucket(m)

(* Space that has been taken and is not used yet.                          *)
Region(m, own, o, a, n) ==
    a \in Nat /\ n \in Nat \ {0} /\ Owned(own, a, n, Held(a)) /\ Safe(m, o, a, n)

(* The key's bucket is being split; its record has space already.          *)
Turning(m, own, B, o, k, el) ==
    /\ Busy(m, own, B, o, k) /\ Marked(m)
    /\ Bucket(m).elems = B[Adr(m)].elems /\ k \notin DOMAIN B[Adr(m)].elems
    /\ m.dir[DirIndex(k, m.header.dir_bits)] = Adr(m)
    /\ el \in AvType /\ Region(m, own, o, el.adr, el.size)

(* Regions held in m are held in r, where the one at a is new.             *)
RegionsKept(m, own, o, r, own2, a) ==
    \A x, n : Region(m, own, o, x, n) => Region(r, own2, o, x, n) /\ x # a

(* The two entries that will hold the halves.                              *)
Spare(m, v) ==
    /\ v[1] \in Slots /\ v[2] \in Slots /\ v[1] # v[2] /\ v[1] # m.cur /\ v[2] # m.cur
    /\ ~m.cache[v[1]].changed /\ ~m.cache[v[2]].changed

(* The directory is doubled.                                               *)
DirTag == Tag(TheDir, Nobody, Nobody)

\* The units of the old directory, and those of the new one.
DirMoved(own, adr, n, old) ==
    [u \in Nat |-> IF u \in Span(adr, n) THEN DirTag
                   ELSE IF own[u] = DirTag THEN Tag(OldDir, Nobody, old) ELSE own[u]]

\* Memory r is memory m with a directory of bits bits at adr.
WithDir(m, r, adr, bits) ==
    /\ IsMem(r) /\ r.disk = m.disk /\ r.cur = m.cur /\ r.cache = m.cache /\ r.last_read = m.last_read
    /\ r.header.dir = adr /\ r.header.dir_bits = bits
    /\ r.header.next_block = m.header.next_block
    /\ r.header.avail = m.header.avail /\ r.header.av_next = m.header.av_next
    /\ r.bucket_dir = 2 * m.bucket_dir
    /\ r.dir = [i \in 0 .. Two[bits] - 1 |-> m.dir[i \div 2]]
    /\ r.old = Append(m.old, [adr |-> m.header.dir, size |-> DirSize(m.header.dir_bits)])
    /\ r.header_changed /\ r.directory_changed = m.directory_changed
    /\ r.bucket_changed = m.bucket_changed /\ r.second_changed = m.second_changed
    /\ r.popped = m.popped /\ r.open = m.open

Lengthened(m, r, adr) == WithDir(m, r, adr, m.header.dir_bits + 1)

(* The owners once the directory has moved.                                *)
DirTags(own, own2, adr, n, old) ==
    \A u \in Nat :
       /\ u \in Span(adr, n) => own[u] = Held(adr) /\ own2[u] = DirTag
       /\ u \notin Span(adr, n) /\ own[u] = DirTag => own2[u] = Tag(OldDir, Nobody, old)
       /\ u \notin Span(adr, n) /\ own[u] # DirTag => own2[u] = own[u]

\* The regions held in m but the one at a are held in r.
RegionsBut(m, own, o, r, own2, a) ==
    \A x, n : Region(m, own, o, x, n) /\ x # a => Region(r, own2, o, x, n)

AllRegions(m, own, o, r, own2) == \A x, n : Region(m, own, o, x, n) => Region(r, own2, o, x, n)

(* The tables of the two halves.                                           *)
BlockAt(a) == [adr |-> a, size |-> block_size]

FirstTable(av) == IF Len(av) = BUCKET_AVAIL THEN Tail(av) ELSE av

SecondTable(av, b) == IF Len(av) = BUCKET_AVAIL THEN PutAv(<<BlockAt(b)>>, Head(av)) ELSE <<BlockAt(b)>>

\* The element of a full table that the second half gets.
Passed(av) == IF Len(av) = BUCKET_AVAIL THEN {av[1].adr} ELSE {}

(* Four blocks: the bucket at A, its halves' and the new table's.          *)
Pieces(own, A, a, c, b) ==
    /\ A \in Nat /\ Owned(own, A, block_size, Tag(ABucket, Nobody, A))
    /\ a \in Nat /\ Owned(own, a, block_size, Held(a))
    /\ c \in Nat /\ Owned(own, c, block_size, Held(c))
    /\ b \in Nat /\ Owned(own, b, block_size, Held(b))
    /\ a # c /\ a # b /\ c # b

\* The owners when the bucket at A has been divided, its own block apart.
Divided(own, A, a, c, b, Z) ==
    [u \in Nat |-> IF own[u] = Held(a) THEN Tag(ABucket, Nobody, a)
                   ELSE IF own[u] = Held(c) THEN Tag(ABucket, Nobody, c)
                   ELSE IF own[u] = Held(b)
                     THEN IF u \in Span(b, block_size) THEN Tag(BucketAvail, c, b) ELSE Tag(Holding, a, b)
                   ELSE IF own[u][1] = BucketAvail /\ own[u][2] = A
                     THEN IF own[u][3] \in Z THEN Tag(BucketAvail, c, own[u][3]) ELSE Tag(BucketAvail, a, own[u][3])
                   ELSE IF own[u][1] = BucketAvail /\ own[u][2] \in {a, c} THEN Tag(Holding, a, b)
                   ELSE own[u]]

\* What changes hands.
Dealt(t, A, a, c, b) ==
    \/ t \in {Held(a), Held(c), Held(b)}
    \/ t[1] = BucketAvail /\ t[2] \in {A, a, c}

\* The half at y becomes the current bucket; the one at x gets the old block.
Sides(av, a, c, b, x, y, w, z) ==
    \/ x = a /\ y = c /\ w = FirstTable(av) /\ z = SecondTable(av, b)
    \/ x = c /\ y = a /\ w = SecondTable(av, b) /\ z = FirstTable(av)

(* The owners of the halves, and what they leave alone.                    *)
HalvesOwned(own, own2, A, a, c, b, x) ==
    /\ Owned(own2, a, block_size, Tag(ABucket, Nobody, a))
    /\ Owned(own2, c, block_size, Tag(ABucket, Nobody, c))
    /\ \A u \in Nat : ~Dealt(own[u], A, a, c, b) /\ own[u] # Tag(ABucket, Nobody, A) => own2[u] = own[u]
    /\ \A u \in Nat : \/ own2[u] = own[u] /\ ~Dealt(own[u], A, a, c, b)
                      \/ own2[u][1] \in {ABucket, Holding}
                      \/ own2[u] = Tag(BucketAvail, x, A)
                      \/ u \in Span(b, block_size)
                      \/ own[u][1] = BucketAvail /\ own[u][2] = A

(* Half n of a bucket: its elements, the bucket, and its cache entry.      *)
HalfElems(b, n) == [q \in {x \in DOMAIN b.elems : Bit(x, b.bits + 1) = n} |-> b.elems[q]]

HalfBucket(b, n, av) == [bits |-> b.bits + 1, elems |-> HalfElems(b, n), avail |-> av]

HalfEntry(adr, data, b) == [adr |-> adr, changed |-> TRUE, data |-> data, bucket |-> b]

(* The cache with the halves in entries c and d.                           *)
NewCache(cache, u, c, e, d, f) == [cache EXCEPT ![u].adr = 0, ![u].changed = FALSE, ![c] = e, ![d] = f]

(* Memory with the halves.                                                 *)
Turnover(m, dir, i, u, cache) ==
    [m EXCEPT !.dir = dir, !.bucket_dir = i,
              !.bucket_changed = TRUE, !.directory_changed = TRUE, !.second_changed = TRUE,
              !.cur = u, !.cache = cache]

\* The bits of the directory that the halves do not use, and the new directory.
FreeBits(m) == m.header.dir_bits - (Bucket(m).bits + 1)

NewEntries(m, adr) == SplitDir(m.dir, m.bucket_dir, FreeBits(m), adr[1], adr[2])

(* Entry e is half n of the bucket old.                                    *)
HalfAt(e, adr, old, n, av) ==
    /\ IsEntry(e) /\ e.adr = adr /\ e.changed
    /\ e.bucket.bits = old.bits + 1 /\ e.bucket.avail = av
    /\ \A q \in DOMAIN e.bucket.elems :
          q \in DOMAIN old.elems /\ Bit(q, old.bits + 1) = n /\ e.bucket.elems[q] = old.elems[q]

(* The entry of the bucket that was divided.                               *)
Dropped(e) == [e EXCEPT !.adr = 0, !.changed = FALSE]

(* What NewCache makes of a cache.                                         *)
Entered(cache, u, c, e, d, f, g) ==
    /\ g = [s \in Slots |-> g[s]]
    /\ \A s \in Slots : IsEntry(g[s])
    /\ g[c] = e /\ g[d] = f /\ g[u].adr = 0 /\ ~g[u].changed
    /\ \A s \in Slots : s # u /\ s # c /\ s # d => g[s] = cache[s]

(* What Turnover makes of memory.                                          *)
TurnedOver(m, r, dir, i, u) ==
    /\ IsMem(r) /\ r.open = m.open /\ r.disk = m.disk /\ r.header = m.header /\ r.old = m.old
    /\ r.last_read = m.last_read /\ r.header_changed = m.header_changed /\ r.popped = m.popped
    /\ r.dir = dir /\ r.bucket_dir = i /\ r.cur = u
    /\ r.bucket_changed /\ r.directory_changed /\ r.second_changed

(* Memory r holds the halves of memory m's bucket at a and c: that of the  *)
(* key, at y, is the current one.                                          *)
Which(y, a) == IF y = a THEN 0 ELSE 1

Divides(m, r, k, a, c, b, x, y, cx, cy, w, z) ==
    /\ TurnedOver(m, r, NewEntries(m, <<a, c>>), DirIndex(k, m.header.dir_bits), cy)
    /\ Sides(Bucket(m).avail, a, c, b, x, y, w, z)
    /\ cx \in Slots /\ cy \in Slots /\ cx # cy /\ cx # m.cur /\ cy # m.cur
    /\ HalfAt(r.cache[cy], y, Bucket(m), Which(y, a), z)
    /\ HalfAt(r.cache[cx], x, Bucket(m), Which(x, a), PutAv(w, BlockAt(Adr(m))))
    /\ ~m.cache[cx].changed /\ ~m.cache[cy].changed
    /\ r.cache[m.cur].adr = 0 /\ ~r.cache[m.cur].changed
    /\ \A s \in Slots : s # m.cur /\ s # cx /\ s # cy => r.cache[s] = m.cache[s]
    /\ r.dir[r.bucket_dir] = a <=> y = a

(* The buckets once the one at A has become those at x and y.              *)
Split(B, C, A, x, y, bx, by) ==
    /\ A \in DOMAIN B /\ x \notin DOMAIN B /\ y \notin DOMAIN B /\ x # y
    /\ DOMAIN C = (DOMAIN B \ {A}) \cup {x, y}
    /\ C[x] = bx /\ C[y] = by
    /\ \A q \in DOMAIN B : q # A => C[q] = B[q]

\* Every key of a half is one of the bucket's.
Part(h, e) == \A q \in DOMAIN h : q \in DOMAIN e /\ h[q] = e[q]

SplitB(B, A, x, y, bx, by) ==
    [q \in (DOMAIN B \ {A}) \cup {x, y} |-> IF q = x THEN bx ELSE IF q = y THEN by ELSE B[q]]

\* The addresses of the halves, in either order.
Two2(a, c, x, y) == (x = a /\ y = c) \/ (x = c /\ y = a)

\* What the cache entries have become.
Slotted(m, r, x, y, cx, cy) ==
    /\ m.cur \in Slots /\ cx \in Slots /\ cy \in Slots /\ cx # cy /\ cx # m.cur /\ cy # m.cur /\ r.cur = cy
    /\ r.cache[cx].adr = x /\ r.cache[cy].adr = y /\ r.cache[cx].changed /\ r.cache[cy].changed
    /\ r.cache[m.cur].adr = 0 /\ ~r.cache[m.cur].changed
    /\ \A s \in Slots : s # m.cur /\ s # cx /\ s # cy => r.cache[s] = m.cache[s]
    /\ ~m.cache[cx].changed /\ ~m.cache[cy].changed
    /\ x # 0 /\ y # 0

(* An entry that the division leaves alone.                                *)
Elsewhere(m, s, cx, cy) == s # m.cur /\ s # cx /\ s # cy

StillThere(m, r, B, C, x, y, s) ==
    /\ r.cache[s] = m.cache[s] /\ m.cache[s].adr \in DOMAIN B /\ m.cache[s].adr # Adr(m)
    /\ C[m.cache[s].adr] = B[m.cache[s].adr] /\ m.cache[s].adr \in DOMAIN C
    /\ m.cache[s].adr # x /\ m.cache[s].adr # y /\ m.cache[s].bucket = B[m.cache[s].adr]

\* The blocks that a turn of the loop has taken.
Taking(m, own, o, el, a, c, b) ==
    /\ Region(m, own, o, a, block_size) /\ Region(m, own, o, c, block_size) /\ Region(m, own, o, b, block_size)
    /\ a # c /\ a # b /\ c # b /\ a # el.adr /\ c # el.adr /\ b # el.adr

\* What a turn of the loop has left.
Relinked(m, r) == r.directory_changed /\ r.open = m.open

\* An old directory means that the new one is not written yet.
Turns(m, own, B, o, k, el) == Turning(m, own, B, o, k, el) /\ (m.old # <<>> => m.directory_changed)

\* Memory once the loop has ended.
LastTurn(m, k) ==
    (CHOOSE f : f = [n \in 0 .. HashBits |-> IF n = 0 THEN m ELSE SplitIfFull(f[n - 1], k)])[HashBits]

\* Busy but for the old directories, which are held like any other space.
Working(m, own, B, o, k) ==
    Mem(m, own, B, Adr(m), Adr(m), k) /\ Cur(m, B) /\ Old(m, own, o) /\ NewSafe(m, o)

(* Old directories are held like other space.                              *)
HeldDirs(own) == [u \in Nat |-> IF own[u][1] = OldDir THEN Held(own[u][3]) ELSE own[u]]

\* The old directories from number i on are held.
DirsFrom(m, own, o, old, i) == \A j \in DOMAIN old : j >= i => Region(m, own, o, old[j].adr, old[j].size)

(* The old directories, and the record, do not meet.                       *)
Distinct(old, el) ==
    /\ old \in Seq(AvType) /\ \A i \in DOMAIN old : old[i].adr # el.adr
    /\ \A i, j \in DOMAIN old : old[i].adr = old[j].adr => i = j

\* Memory once the old directories are freed, but still listed.
LastFreed(m) ==
    (CHOOSE f : f = [i \in 0 .. Len(m.old) |->
                        IF i = 0 THEN m ELSE Free(f[i - 1], m.old[i].adr, m.old[i].size)])[Len(m.old)]

(* The old directories are forgotten.                                      *)
NoOld(m) == [m EXCEPT !.old = <<>>]

(* The entries that are marked.                                            *)
ChangedSlots(m) == {c \in 0 .. cache_size - 1 : m.cache[c].changed}

\* The addresses of the blocks on the avail stack, as Regions follows them.
StackFrom(d, head) ==
    CHOOSE f : f = [n \in 0 .. Units |-> IF n = 0 THEN head
                                         ELSE IF f[n - 1] = 0 THEN 0 ELSE Get(d, f[n - 1], av_block)[3]]

(* Regions, given the addresses f of the blocks.                           *)
RegionsWith(d, f) ==
    LET h == HeaderOf(d)
        pushed == {n \in 0 .. Units : f[n] # 0}
    IN {<<0, block_size, "header", 0, 0>>, <<h.dir, DirSize(h.dir_bits), "dir", 0, 0>>}
       \cup AvRegions("header avail", 0, h.avail)
       \cup (UNION {BucketRegions(a, BucketAt(d, a)) : a \in BucketsOf(d)})
       \cup (UNION {{<<f[n], av_block, "avail block", n, 0>>}
                      \cup AvRegions("avail", n, Get(d, f[n], av_block)[2]) : n \in pushed})

\* The n-th block from the top, and 0 below the bottom of the stack.
FromTop(S, n) == IF n < Len(S) THEN S[Len(S) - n].adr ELSE 0

\* A region of the file whose units the layout o, with the stack S, gives the tag t.
Rg(a, n, kind, x, i) == <<a, n, kind, x, i>>

RegTable(av, x, kind, owner, r, t) ==
    \E i \in DOMAIN av : r = Rg(av[i].adr, av[i].size, kind, x, i) /\ t = Tag(kind, owner, av[i].adr)

RegHeader(r, t) == r = Rg(0, block_size, TheHeader, Nobody, Nobody) /\ t = Tag(TheHeader, Nobody, Nobody)

RegDir(h, r, t) == r = Rg(h.dir, DirSize(h.dir_bits), TheDir, Nobody, Nobody) /\ t = Tag(TheDir, Nobody, Nobody)

RegAvail(h, r, t) == RegTable(h.avail, Nobody, HeaderAvail, Nobody, r, t)

RegBucket(B, r, t) == \E a \in DOMAIN B : r = Rg(a, block_size, ABucket, Nobody, Nobody) /\ t = Tag(ABucket, Nobody, a)

RegRecord(B, r, t) ==
    \E a \in DOMAIN B : \E k \in DOMAIN B[a].elems :
        r = Rg(B[a].elems[k].adr, B[a].elems[k].size, ARecord, a, k) /\ t = Tag(ARecord, k, Nobody)

RegFree(B, r, t) == \E a \in DOMAIN B : RegTable(B[a].avail, a, BucketAvail, a, r, t)

RegBlock(S, r, t) ==
    \E n \in Nat : n < Len(S) /\ r = Rg(S[Len(S) - n].adr, av_block, AvailBlock, n, Nobody)
                   /\ t = Tag(AvailBlock, Len(S) - n, Nobody)

RegPushed(S, r, t) ==
    \E n \in Nat : n < Len(S) /\ RegTable(S[Len(S) - n].av, n, InBlock, Len(S) - n, r, t)

Reg(o, S, r, t) ==
    \/ RegHeader(r, t) \/ RegDir(o.h, r, t) \/ RegAvail(o.h, r, t) \/ RegBucket(o.B, r, t)
    \/ RegRecord(o.B, r, t) \/ RegFree(o.B, r, t) \/ RegBlock(S, r, t) \/ RegPushed(S, r, t)

\* A region's units have its tag.
RegionOwned(own, r, t) == r[1] \in Nat /\ r[2] \in Nat \ {0} /\ Owned(own, r[1], r[2], t)

=============================================================================
