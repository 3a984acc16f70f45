------------------------------- MODULE Gdbm -------------------------------
(***************************************************************************)
(* The GDBM store (win_gdbm.cpp): one process that opens the file, stores, *)
(* deletes and fetches, and may end at any moment; the file stays.         *)
(*                                                                         *)
(* File space is counted in units larger than IGNORE_SIZE; a unit on the   *)
(* disk holds an object and the offset in it, so that an object partly     *)
(* overwritten reads back as Torn.  A bucket's hash table is the set of    *)
(* its keys (HashBucket).  An operation first changes memory, and the file *)
(* where it is free; then each _write of what is in use is a step.         *)
(***************************************************************************)
EXTENDS Integers, Sequences, FiniteSets, TLC

CONSTANTS
    Keys, Hash,         \* the hash value of each key
    HashBits,           \* 31 in the code
    Values, SizeOf,     \* the units a record with this value takes
    NoValue, Torn,
    bucket_elems, BUCKET_AVAIL, cache_size,
    block_size,         \* units of a block, a bucket and the first directory
    InitBits,           \* dir_bits of a new file
    avail_size,         \* header->avail.size
    av_block,           \* units of a block on the avail stack
    Units, MaxOps       \* bounds: the units of the file, the number of updates

\* The powers of two.
Two[n \in 0 .. HashBits] == IF n = 0 THEN 1 ELSE 2 * Two[n - 1]

ASSUME GdbmAssumption ==
    /\ IsFiniteSet(Keys) /\ 0 \notin Keys
    \* what is torn is not taken for a directory
    /\ Torn # "dir"
    /\ HashBits \in Nat /\ InitBits \in 0 .. HashBits
    /\ bucket_elems \in Nat \ {0} /\ cache_size \in Nat /\ cache_size >= 3
    /\ block_size \in Nat \ {0} /\ av_block \in Nat \ {0}
    \* a split puts up to three pieces into a bucket's table
    /\ BUCKET_AVAIL \in Nat /\ BUCKET_AVAIL >= 3
    \* half a header's table has room for what one call can add to it
    /\ avail_size \in Nat /\ avail_size - avail_size \div 2 > BUCKET_AVAIL \div 3 + 1
    /\ Units \in Nat /\ MaxOps \in Nat
    /\ Hash \in [Keys -> 0 .. Two[HashBits] - 1] /\ SizeOf \in [Values -> Nat \ {0}]
    \* more keys with one hash value would be split for ever
    /\ \A h \in 0 .. Two[HashBits] - 1 : Cardinality({k \in Keys : Hash[k] = h}) <= bucket_elems

VARIABLES
    dbf,     \* the file (disk: unit -> <<object, offset>>) and gdbm_file_info
    pc,      \* the next write of the operation
    rec,     \* the record to be written: [adr, key, val]
    busy, result,   \* history: the update under way, the value a fetch just returned
    hurt,    \* history: a process died where the header in the file no longer fits
             \* the rest: between the writes of an update that changes the header,
             \* after a block of the avail stack or the directory was used anew
    ops,     \* updates so far
    map      \* history: what a process that opened the file now would find

vars == <<dbf, pc, rec, busy, result, hurt, ops, map>>

NoRec == [adr |-> 0, key |-> 0, val |-> NoValue]

\* A file grows where it is written.
Put(d, adr, size, obj) ==
    [u \in DOMAIN d \cup (adr .. adr + size - 1) |->
        IF u \in adr .. adr + size - 1 THEN <<obj, u - adr>> ELSE d[u]]

Get(d, adr, size) ==
    LET obj == d[adr][1]
    IN IF \A i \in 0 .. size - 1 : d[adr + i] = <<obj, i>> THEN obj ELSE <<Torn>>

DirSize(bits) == block_size * Two[bits - InitBits]
DirIndex(k, bits) == Hash[k] \div Two[HashBits - bits]

-----------------------------------------------------------------------------
(* Avail tables: sequences of [adr, size] sorted by size.                  *)

\* get_elem: the first element that is large enough.
Fits(av, n) == {i \in DOMAIN av : av[i].size >= n}
First(S) == CHOOSE i \in S : \A j \in S : i <= j
Without(av, i) == SubSeq(av, 1, i - 1) \o SubSeq(av, i + 1, Len(av))

\* _gdbm_put_av_elem; nothing is kept of an empty piece.
PutAv(av, e) ==
    LET n == Cardinality({i \in DOMAIN av : av[i].size < e.size})
    IN IF e.size = 0 THEN av
       ELSE SubSeq(av, 1, n) \o <<e>> \o SubSeq(av, n + 1, Len(av))

Bucket(m) == m.cache[m.cur].bucket
SetBucketAv(m, av) == [m EXCEPT !.cache[m.cur].bucket.avail = av]

\* get_block: whole blocks at the end of the file.
Blocks(n) == ((IF n < block_size THEN block_size ELSE n) + block_size - 1) \div block_size
GetBlock(m, n) ==
    [m |-> [m EXCEPT !.header.next_block = @ + Blocks(n) * block_size, !.header_changed = TRUE],
     e |-> [adr |-> m.header.next_block, size |-> Blocks(n) * block_size]]

\* An element of the header's table, or else a new block.
GetHeaderAv(m, n) ==
    LET av == m.header.avail
    IN IF Fits(av, n) = {} THEN GetBlock(m, n)
       ELSE LET i == First(Fits(av, n))
            IN [m |-> [m EXCEPT !.header.avail = Without(av, i)], e |-> av[i]]

\* adjust_bucket_avail: keep a bucket's table half full, at the header's expense.
Adjust(m) ==
    LET third == BUCKET_AVAIL \div 3
        bav == Bucket(m).avail
        hav == m.header.avail
        spare == {n \in 0 .. Len(bav) : Len(bav) - n >= BUCKET_AVAIL - third
                                        /\ Len(hav) + n <= avail_size}
        n == CHOOSE i \in spare : \A j \in spare : j <= i
        moved[i \in 0 .. Len(bav)] == IF i = 0 THEN hav ELSE PutAv(moved[i - 1], bav[i])
    IN IF Len(bav) < third
       THEN IF hav = <<>> THEN m
            ELSE [SetBucketAv(m, PutAv(bav, hav[Len(hav)])) EXCEPT
                     !.header.avail = Without(hav, Len(hav)), !.bucket_changed = TRUE]
       ELSE IF spare \subseteq {0} THEN m
            ELSE [SetBucketAv(m, SubSeq(bav, n + 1, Len(bav))) EXCEPT
                     !.header.avail = moved[n], !.bucket_changed = TRUE]

Adjusted(m) == IF m.header_changed THEN Adjust(m) ELSE m
FreeTo(m, e, toHeader) ==
    IF e.size = 0 THEN m
    ELSE Adjusted(IF toHeader
                    THEN [m EXCEPT !.header.avail = PutAv(@, e), !.header_changed = TRUE]
                    ELSE SetBucketAv(m, PutAv(Bucket(m).avail, e)))

ToHeader(m, e) == e.size >= block_size \/ Len(Bucket(m).avail) >= BUCKET_AVAIL

\* push_avail_block: every second element of a full header table goes to a block
\* in the file.  The table is half empty then, so the rest of that block's space
\* is freed without another push.
Push(g) ==
    LET av == g.m.header.avail
        odd == [i \in 1 .. Len(av) \div 2 |-> av[2 * i]]
        obj == <<"avail", odd, g.m.header.av_next>>
        kept == [i \in 1 .. Len(av) \div 2 |-> av[2 * i - 1]]
    IN [g.m EXCEPT !.header.avail = kept, !.header.av_next = g.e.adr,
                   !.disk = Put(@, g.e.adr, av_block, obj)]

FreeElem(m, e) == FreeTo(m, e, ToHeader(m, e))
Cut(g, n) == [adr |-> g.e.adr + n, size |-> g.e.size - n]
PushWith(g) == FreeElem(Push(g), Cut(g, av_block))
PushAvail(m) == PushWith(GetHeaderAv(m, av_block))

\* _gdbm_free
Overflows(m, e) == e.size > 0 /\ ToHeader(m, e) /\ Len(m.header.avail) = avail_size
FreeRegion(m, e) == FreeTo(IF Overflows(m, e) THEN PushAvail(m) ELSE m, e, ToHeader(m, e))
Free(m, adr, n) == FreeRegion(m, [adr |-> adr, size |-> n])

\* pop_avail_block, when the header's table is empty and the stack is not.
PopAvail(m) ==
    LET adr == m.header.av_next
        obj == Get(m.disk, adr, av_block)
    IN IF m.header.avail # <<>> \/ adr = 0 THEN m
       ELSE [m EXCEPT !.header.avail = PutAv(obj[2], [adr |-> adr, size |-> av_block]),
                      !.header.av_next = obj[3], !.header_changed = TRUE, !.popped = TRUE]

\* The element an allocation is cut from: the bucket's table, the header's, or the
\* end of the file.
FromHeader(h) == [h EXCEPT !.m.header_changed = TRUE]
FirstFit(m, n) == First(Fits(Bucket(m).avail, n))

\* Mutant: an element of the bucket's table is used but not taken out.
ElemKept(m, n) ==
    IF Fits(Bucket(m).avail, n) # {}
      THEN [m |-> m, e |-> Bucket(m).avail[FirstFit(m, n)]]
      ELSE FromHeader(GetHeaderAv(PopAvail(m), n))

Elem(m, n) ==
    IF Fits(Bucket(m).avail, n) # {}
      THEN [m |-> SetBucketAv(m, Without(Bucket(m).avail, FirstFit(m, n))),
            e |-> Bucket(m).avail[FirstFit(m, n)]]
      ELSE FromHeader(GetHeaderAv(PopAvail(m), n))

\* _gdbm_alloc: what is left of the element is freed.
AllocFrom(g, n) == [m |-> FreeRegion(g.m, Cut(g, n)), adr |-> g.e.adr]
Alloc(m, n) == AllocFrom(Elem(m, n), n)

-----------------------------------------------------------------------------
(* Buckets, the cache and the directory.                                   *)

NoData == [key |-> 0, val |-> NoValue]
NewBucket(bits) == [bits |-> bits, elems |-> <<>>, avail |-> <<>>]
NoEntry == [adr |-> 0, bucket |-> NewBucket(0), changed |-> FALSE, data |-> NoData]

\* Mutant: the data cache of a bucket outlives a change of the bucket.
WriteKeeps(m, c) ==
    [m EXCEPT !.disk = Put(@, m.cache[c].adr, block_size, <<"bucket", m.cache[c].bucket>>),
              !.cache[c].changed = FALSE]

WriteBucket(m, c) ==
    [m EXCEPT !.disk = Put(@, m.cache[c].adr, block_size, <<"bucket", m.cache[c].bucket>>),
              !.cache[c].changed = FALSE, !.cache[c].data = NoData]

WriteIfChanged(m, c) == IF m.cache[c].changed THEN WriteBucket(m, c) ELSE m

\* _gdbm_get_bucket: the bucket of directory entry i becomes the current one.
GetBucket(m, i) ==
    LET adr == m.dir[i]
        cached == {c \in 0 .. cache_size - 1 : m.cache[c].adr = adr}
        victim == (m.last_read + 1) % cache_size
        entry == [NoEntry EXCEPT !.adr = adr, !.bucket = Get(m.disk, adr, block_size)[2]]
    IN IF m.cache[m.cur].adr = adr THEN [m EXCEPT !.bucket_dir = i]
       ELSE IF cached # {} THEN [m EXCEPT !.bucket_dir = i, !.cur = First(cached)]
       ELSE [WriteIfChanged(m, victim) EXCEPT
               !.bucket_dir = i, !.last_read = victim, !.cur = victim, !.cache[victim] = entry]

\* _gdbm_findkey and _gdbm_read_entry: the record found stays in the data cache.
ReadEntry(m, k) ==
    LET el == Bucket(m).elems[k]
        obj == Get(m.disk, el.adr, el.size)
        val == IF obj[1] = "record" /\ obj[2] = k THEN obj[3] ELSE Torn
    IN IF k \notin DOMAIN Bucket(m).elems \/ m.cache[m.cur].data.key = k THEN m
       ELSE [m EXCEPT !.cache[m.cur].data = [key |-> k, val |-> val]]
FindKey(m, k) == ReadEntry(GetBucket(m, DirIndex(k, m.header.dir_bits)), k)

Full(m) == Cardinality(DOMAIN Bucket(m).elems) = bucket_elems

\* The next cache entry but the current one, written back if it must be.
Victim(m) ==
    LET c1 == (m.last_read + 1) % cache_size
        c == IF c1 = m.cur THEN (c1 + 1) % cache_size ELSE c1
    IN [m |-> WriteIfChanged([m EXCEPT !.last_read = c], c), c |-> c]

NewDir(a, new_bits) ==
    [a.m EXCEPT !.old = Append(@, [adr |-> a.m.header.dir, size |-> DirSize(a.m.header.dir_bits)]),
                !.header.dir = a.adr, !.header.dir_bits = new_bits, !.header_changed = TRUE,
                !.bucket_dir = 2 * @,
                !.dir = [i \in 0 .. Two[new_bits] - 1 |-> a.m.dir[i \div 2]]]
DoubleDir(m, new_bits) == NewDir(Alloc(m, DirSize(new_bits)), new_bits)

Bit(k, n) == (Hash[k] \div Two[HashBits - n]) % 2

\* Mutant: the second half starts where the first does.
FirstOfHalves(i, free) == 2 * (i \div Two[free + 1]) * Two[free]

\* The first directory entry of the second half, free bits being unused.
Start1(i, free) == (2 * (i \div Two[free + 1]) + 1) * Two[free]

\* One turn of _gdbm_split_bucket: two cache entries v, two blocks at adr, a longer
\* directory if need be, space for the second half's avail table (b), and the
\* elements of the current bucket divided by their next bit.
Refill(v, adr, b, k) ==
    LET old == Bucket(b.m)
        new_bits == old.bits + 1
        half(n) == [q \in {x \in DOMAIN old.elems : Bit(x, new_bits) = n} |-> old.elems[q]]
        block == <<[adr |-> b.adr, size |-> block_size]>>
        isFull == Len(old.avail) = BUCKET_AVAIL
        av(n) == IF n = 0 THEN IF isFull THEN Tail(old.avail) ELSE old.avail
                 ELSE IF isFull THEN PutAv(block, Head(old.avail)) ELSE block
        free == b.m.header.dir_bits - new_bits
        start1 == Start1(b.m.bucket_dir, free)
        dir == [i \in DOMAIN b.m.dir |-> IF i \in start1 - Two[free] .. start1 - 1 THEN adr[1]
                                         ELSE IF i \in start1 .. start1 + Two[free] - 1 THEN adr[2]
                                         ELSE b.m.dir[i]]
        bucket_dir == DirIndex(k, b.m.header.dir_bits)
        mine == IF dir[bucket_dir] = adr[1] THEN 0 ELSE 1
        space == [adr |-> b.m.cache[b.m.cur].adr, size |-> block_size]
        entry(n) ==
            [adr |-> adr[n + 1], changed |-> TRUE, data |-> b.m.cache[v[n + 1]].data,
             bucket |-> [bits |-> new_bits, elems |-> half(n),
                         avail |-> IF n = mine THEN av(n) ELSE PutAv(av(n), space)]]
    IN [b.m EXCEPT !.dir = dir, !.bucket_dir = bucket_dir,
          !.bucket_changed = TRUE, !.directory_changed = TRUE, !.second_changed = TRUE,
          !.cur = v[mine + 1],
          !.cache = [@ EXCEPT ![b.m.cur].adr = 0, ![b.m.cur].changed = FALSE,
                              ![v[1]] = entry(0), ![v[2]] = entry(1)]]

LongDir(m) == IF m.header.dir_bits = Bucket(m).bits THEN DoubleDir(m, Bucket(m).bits + 1) ELSE m
SplitInto(v, a0, a1, k) == Refill(v, <<a0.adr, a1.adr>>, Alloc(LongDir(a1.m), block_size), k)
SecondBlock(v, a, k) == SplitInto(v, a, Alloc(a.m, block_size), k)
SecondVictim(v0, v1, k) == SecondBlock(<<v0.c, v1.c>>, Alloc(v1.m, block_size), k)
FirstVictim(v, k) == SecondVictim(v, Victim(v.m), k)
SplitOnce(m, k) == FirstVictim(Victim(m), k)

\* The turns of the loop, and then the old directories are freed.
FreeOld(m) ==
    LET freed[i \in 0 .. Len(m.old)] ==
            IF i = 0 THEN m ELSE Free(freed[i - 1], m.old[i].adr, m.old[i].size)
    IN [freed[Len(m.old)] EXCEPT !.old = <<>>]
SplitIfFull(m, k) == IF Full(m) THEN SplitOnce(m, k) ELSE m
SplitBucket(m, k) ==
    LET turn[n \in 0 .. HashBits] == IF n = 0 THEN m ELSE SplitIfFull(turn[n - 1], k)
    IN FreeOld(turn[HashBits])

-----------------------------------------------------------------------------
(* The calls.                                                              *)

Closed(disk) == [open |-> FALSE, disk |-> disk]

\* A file that gdbm_open has just created: header, directory, one empty bucket.
NewHeader == [dir |-> block_size, dir_bits |-> InitBits, next_block |-> 4 * block_size,
              avail |-> <<>>, av_next |-> 0]
NewDisk ==
    LET blank == [u \in 0 .. 4 * block_size - 1 |-> <<<<Torn>>, 0>>]
        dir == [i \in 0 .. Two[InitBits] - 1 |-> 2 * block_size]
        bucket == [NewBucket(0) EXCEPT !.avail = <<[adr |-> 3 * block_size, size |-> block_size]>>]
    IN Put(Put(Put(blank, 0, block_size, <<"header", NewHeader>>),
               block_size, block_size, <<"dir", dir>>),
           2 * block_size, block_size, <<"bucket", bucket>>)

HeaderOf(d) == Get(d, 0, block_size)[2]
DirObj(d) == LET h == HeaderOf(d) IN Get(d, h.dir, DirSize(h.dir_bits))
DirOf(d) == DirObj(d)[2]
NoDir(d) == DirObj(d)[1] # "dir"

BucketsOf(d) == LET dir == DirOf(d) IN {dir[i] : i \in DOMAIN dir}
BucketAt(d, adr) == Get(d, adr, block_size)[2]

FileMap(d) ==
    LET dir == DirOf(d)
        bits == HeaderOf(d).dir_bits
    IN [k \in Keys |->
          LET b == BucketAt(d, dir[DirIndex(k, bits)])
              obj == Get(d, b.elems[k].adr, b.elems[k].size)
          IN IF NoDir(d) THEN Torn
             ELSE IF k \notin DOMAIN b.elems THEN NoValue
             ELSE IF obj[1] = "record" /\ obj[2] = k THEN obj[3] ELSE Torn]

Init ==
    /\ dbf = Closed(NewDisk)
    /\ pc = "idle" /\ rec = NoRec
    /\ busy = <<>> /\ result = NoValue /\ hurt = FALSE /\ ops = 0
    /\ map = FileMap(NewDisk)

Ready == pc = "idle" /\ dbf.open

Open ==
    /\ ~dbf.open
    /\ dbf' = [open |-> TRUE, disk |-> dbf.disk, header |-> HeaderOf(dbf.disk),
               dir |-> DirOf(dbf.disk), bucket_dir |-> 0, cur |-> 0, last_read |-> -1,
               cache |-> [c \in 0 .. cache_size - 1 |-> NoEntry], old |-> <<>>,
               header_changed |-> FALSE, directory_changed |-> FALSE,
               bucket_changed |-> FALSE, second_changed |-> FALSE,
               popped |-> FALSE]   \* history: the file's header names a block that was popped
    /\ result' = NoValue
    /\ UNCHANGED <<pc, rec, busy, hurt, ops>>

\* gdbm_close writes nothing; a process that ends between calls is no different.
Close ==
    /\ Ready
    /\ dbf' = Closed(dbf.disk)
    /\ result' = NoValue
    /\ UNCHANGED <<pc, rec, busy, hurt, ops>>

\* gdbm_fetch, gdbm_fastget_key
Found(m, k) == IF m.cache[m.cur].data.key = k THEN m.cache[m.cur].data.val ELSE NoValue
Fetch(k) ==
    /\ Ready
    /\ dbf' = FindKey(dbf, k)
    /\ result' = Found(dbf', k)
    /\ UNCHANGED <<pc, rec, busy, hurt, ops>>

\* What an update leaves behind in memory, and the writes it goes on with.
\* A file that a death has hurt is not updated any more (a bound).
Update(k, v, m, next) ==
    /\ ~hurt /\ ops < MaxOps /\ m.header.next_block <= Units
    /\ ops' = ops + 1
    /\ dbf' = m /\ pc' = next /\ busy' = <<k, v>>
    /\ result' = NoValue
    /\ UNCHANGED hurt

\* gdbm_store with GDBM_REPLACE; without it only a new key gets this far.  The old
\* record is freed first, and the new one's space taken before a bucket is split.
Room(m, k, v) ==
    LET el == Bucket(m).elems[k]
    IN Alloc(IF k \in DOMAIN Bucket(m).elems THEN Free(m, el.adr, el.size) ELSE m, SizeOf[v])
Fitting(m, k) ==
    IF k \notin DOMAIN Bucket(m).elems /\ Full(m) THEN SplitBucket(m, k) ELSE m
SetElem(m, k, el) ==
    [m EXCEPT !.cache[m.cur].bucket.elems =
                 [q \in DOMAIN @ \cup {k} |-> IF q = k THEN el ELSE @[q]],
              !.cache[m.cur].changed = TRUE, !.bucket_changed = TRUE]

Store(k, v) ==
    /\ Ready
    /\ \E a \in {Room(FindKey(dbf, k), k, v)} :
         /\ Update(k, v, SetElem(Fitting(a.m, k), k, [adr |-> a.adr, size |-> SizeOf[v]]), "key")
         /\ rec' = [adr |-> a.adr, key |-> k, val |-> v]

RemoveElem(m, k) ==
    LET elems == Bucket(m).elems
    IN Free([m EXCEPT !.cache[m.cur].bucket.elems = [q \in DOMAIN elems \ {k} |-> elems[q]]],
            elems[k].adr, elems[k].size)
ForgetData(m) == [m EXCEPT !.cache[m.cur].data = NoData, !.bucket_changed = TRUE]
Delete(k) ==
    /\ Ready
    /\ \E g \in {FindKey(dbf, k)} :
         /\ k \in DOMAIN Bucket(g).elems
         /\ Update(k, NoValue, ForgetData(RemoveElem(g, k)), "update")
    /\ UNCHANGED rec

\* The key is written, and some of the content.
WriteKey ==
    /\ pc = "key" /\ pc' = "record"
    /\ dbf' = [dbf EXCEPT !.disk = Put(@, rec.adr, 1, <<Torn>>)]
    /\ UNCHANGED <<rec, busy, result, hurt, ops>>

WriteRecord ==
    /\ pc = "record" /\ pc' = "update"
    /\ dbf' = [dbf EXCEPT !.disk = Put(@, rec.adr, SizeOf[rec.val], <<"record", rec.key, rec.val>>)]
    /\ rec' = NoRec
    /\ UNCHANGED <<busy, result, hurt, ops>>

-----------------------------------------------------------------------------
(* _gdbm_end_update: the changed parts are written in this order.          *)

Others == IF dbf.second_changed THEN {c \in 0 .. cache_size - 1 : dbf.cache[c].changed} ELSE {}

UpdateBucket ==
    /\ dbf.bucket_changed
    /\ dbf' = [WriteBucket(dbf, dbf.cur) EXCEPT !.bucket_changed = FALSE]

UpdateOther ==
    /\ ~dbf.bucket_changed /\ Others # {}
    /\ dbf' = WriteBucket(dbf, First(Others))

UpdateDir ==
    /\ ~dbf.bucket_changed /\ Others = {} /\ dbf.directory_changed
    /\ dbf' = [dbf EXCEPT !.directory_changed = FALSE, !.second_changed = FALSE,
                 !.disk = Put(@, dbf.header.dir, DirSize(dbf.header.dir_bits), <<"dir", dbf.dir>>)]

UpdateHeader ==
    /\ ~dbf.bucket_changed /\ Others = {} /\ ~dbf.directory_changed /\ dbf.header_changed
    /\ dbf' = [dbf EXCEPT !.header_changed = FALSE, !.popped = FALSE,
                 !.disk = Put(@, 0, block_size, <<"header", dbf.header>>)]

EndUpdate ==
    /\ pc = "update"
    /\ UpdateBucket \/ UpdateOther \/ UpdateDir \/ UpdateHeader
    /\ UNCHANGED <<pc, rec, busy, result, hurt, ops>>

Written == ~dbf.bucket_changed /\ Others = {} /\ ~dbf.directory_changed /\ ~dbf.header_changed

Return ==
    /\ pc = "update" /\ Written
    /\ pc' = "idle" /\ busy' = <<>>
    /\ UNCHANGED <<dbf, rec, result, hurt, ops>>

\* The process ends between two writes: killed, or by _gdbm_fatal.
Die ==
    /\ pc # "idle"
    /\ dbf' = Closed(dbf.disk)
    /\ pc' = "idle" /\ rec' = NoRec /\ busy' = <<>>
    /\ hurt' = \/ hurt \/ dbf.popped \/ NoDir(dbf.disk)
               \/ pc = "update" /\ ~dbf.bucket_changed /\ dbf.header_changed
    /\ UNCHANGED <<result, ops>>

Next ==
    /\ \/ Open \/ Close
       \/ \E k \in Keys : Fetch(k) \/ Delete(k) \/ \E v \in Values : Store(k, v)
       \/ WriteKey \/ WriteRecord \/ EndUpdate \/ Return \/ Die
    /\ map' = FileMap(dbf'.disk)

Spec == Init /\ [][Next]_vars

-----------------------------------------------------------------------------
(* Properties.                                                             *)

\* An open file's users see a map whose updates are atomic, also when the process
\* dies between two writes: of all keys only one being replaced may be damaged.
KV == INSTANCE KVStore
Implements == KV!Spec

\* The regions of the file that something owns: <<address, size, kind, owner, number>>.
AvRegions(kind, owner, av) == {<<av[i].adr, av[i].size, kind, owner, i>> : i \in DOMAIN av}
BucketRegions(a, b) ==
    {<<a, block_size, "bucket", 0, 0>>}
    \cup {<<b.elems[k].adr, b.elems[k].size, "record", a, k>> : k \in DOMAIN b.elems}
    \cup AvRegions("bucket avail", a, b.avail)
Regions ==
    LET d == dbf.disk
        h == HeaderOf(d)
        stack[n \in 0 .. Units] ==
            IF n = 0 THEN h.av_next
            ELSE IF stack[n - 1] = 0 THEN 0 ELSE Get(d, stack[n - 1], av_block)[3]
        pushed == {n \in 0 .. Units : stack[n] # 0}
    IN {<<0, block_size, "header", 0, 0>>, <<h.dir, DirSize(h.dir_bits), "dir", 0, 0>>}
       \cup AvRegions("header avail", 0, h.avail)
       \cup (UNION {BucketRegions(a, BucketAt(d, a)) : a \in BucketsOf(d)})
       \cup (UNION {{<<stack[n], av_block, "avail block", n, 0>>}
                      \cup AvRegions("avail", n, Get(d, stack[n], av_block)[2]) : n \in pushed})

\* No part of the file has two owners, whether both use it or one holds it free,
\* between updates and after a death that changed no header: what is stored is
\* never given out again.  The avail tables stay within their arrays.
SpaceSound ==
    pc = "idle" /\ ~hurt =>
        /\ LET regions == Regions
               size == HeaderOf(dbf.disk).next_block
           IN \A r \in regions :
                 /\ r[1] + r[2] <= size
                 /\ \A q \in regions : r = q \/ r[1] + r[2] <= q[1] \/ q[1] + q[2] <= r[1]
        /\ \A a \in BucketsOf(dbf.disk) : Len(BucketAt(dbf.disk, a).avail) <= BUCKET_AVAIL
        /\ Len(HeaderOf(dbf.disk).avail) <= avail_size

\* Between calls memory holds nothing the file lacks: gdbm_close writes nothing.
\* And no cached bucket or record is older than the file's.
CacheCoherent ==
    Ready =>
        LET buckets == BucketsOf(dbf.disk)
        IN
        /\ dbf.header = HeaderOf(dbf.disk) /\ dbf.dir = DirOf(dbf.disk)
        /\ \A c \in DOMAIN dbf.cache :
             LET e == dbf.cache[c]
             IN e.adr # 0 =>
                  /\ e.adr \in buckets /\ ~e.changed
                  /\ e.bucket = BucketAt(dbf.disk, e.adr)
                  /\ e.data # NoData => e.data.val = map[e.data.key]
                  /\ \A o \in DOMAIN dbf.cache : dbf.cache[o].adr = e.adr => o = c

=============================================================================
