-------------------------- MODULE HttpConnProofs --------------------------
(* Requests are handed on whole and none is left waiting; the answer goes  *)
(* out as AnswerStream promises, and its head tells its length; for every  *)
(* set of requests and every size of the buffers, files and pieces.        *)
EXTENDS HttpConn, SequenceTheorems, TLAPS

Stats == {"read_ready", "read_finished", "write_ready", "conn_finished", "crashed"}
VMs == {"idle", "queued", "run", "sent", "again", "close"}

\* A request that was handed on, and may be the VM's also after its connection ended.
Handed == link_stat \in {"read_finished", "write_ready"} \/ vm # "idle"

InBufOK ==
    /\ request \in Requests /\ link_stat \in Stats
    /\ inBuf \in [size : Nat, curr : Nat, more : Nat \ {0}]
    /\ link_stat = "read_ready" \/ Handed => inBuf.curr < inBuf.size

\* A connection that is still being read has not got all it waits for.
StillReading ==
    link_stat = "read_ready" /\ HeadSeen(inBuf.curr) =>
        request.method = "POST" /\ inBuf.curr # request.head + request.length

\* What the VM has marked is being sent or ended.
VMHasIt ==
    /\ vm \in VMs
    /\ vm \in {"queued", "run"} => link_stat = "read_finished"
    /\ vm \in {"sent", "again", "close"} => link_stat \in {"write_ready", "conn_finished"}

Whole ==
    Handed => /\ inBuf.curr >= request.head
              /\ request.method = "POST" => inBuf.curr = request.head + request.length

\* Who has no answer yet waits for the VM, but for a HEAD.
WhoWaits ==
    link_stat = "read_finished" => vm # "idle" \/ (request.method = "HEAD" /\ Open(mFiles))

ReadInv == InBufOK /\ StillReading /\ VMHasIt /\ Whole /\ WhoWaits

\* A buffer that has taken n units has room left (read_socket and resize).
LEMMA RoomStays ==
    ASSUME ReadInv, NEW n \in Nat, link_stat = "read_ready", inBuf.curr + n <= inBuf.size
    PROVE  /\ Received(n) \in [size : Nat, curr : Nat, more : Nat \ {0}]
           /\ Prepared(Received(n)) \in [size : Nat, curr : Nat, more : Nat \ {0}]
           /\ Received(n).curr = inBuf.curr + n
           /\ Prepared(Received(n)).curr = inBuf.curr + n
           /\ Received(n).curr < Received(n).size
           /\ Prepared(Received(n)).curr < Prepared(Received(n)).size
<1> DEFINE Page == [size : Nat, curr : Nat, more : Nat \ {0}]
           got == [inBuf EXCEPT !.curr = @ + n]
<1>1. inBuf \in Page
  BY DEF ReadInv, InBufOK
<1>2. got \in Page /\ got.curr = inBuf.curr + n /\ got.size = inBuf.size /\ got.curr <= got.size
  BY <1>1
<1>3. ASSUME NEW c \in Page, NEW m \in Nat
      PROVE  /\ Resized(c, m) \in Page
             /\ Resized(c, m).curr = c.curr /\ Resized(c, m).size = c.size + m
  <2>1. Resized(c, m) = [size |-> c.size + m, curr |-> c.curr, more |-> 2 * c.more]
    <3>1. PICK x \in Nat, y \in Nat, z \in Nat \ {0} : c = [size |-> x, curr |-> y, more |-> z]
      <4>1. c = [size |-> c.size, curr |-> c.curr, more |-> c.more]
        OBVIOUS
      <4> QED
        BY <4>1
    <3>2. /\ Resized([size |-> x, curr |-> y, more |-> z], m).size = x + m
          /\ Resized([size |-> x, curr |-> y, more |-> z], m).curr = y
          /\ Resized([size |-> x, curr |-> y, more |-> z], m).more = 2 * z
      BY DEF Resized
    <3>3. Resized([size |-> x, curr |-> y, more |-> z], m) = [size |-> x + m, curr |-> y, more |-> 2 * z]
      <4>1. DOMAIN Resized([size |-> x, curr |-> y, more |-> z], m) = {"size", "curr", "more"}
        BY DEF Resized
      <4>2. Resized([size |-> x, curr |-> y, more |-> z], m)
            = [f \in {"size", "curr", "more"} |-> Resized([size |-> x, curr |-> y, more |-> z], m)[f]]
        BY DEF Resized
      <4> QED
        BY <3>2, <4>1, <4>2
    <3> QED
      BY <3>1, <3>3
  <2>2. c.size + m \in Nat /\ c.curr \in Nat /\ 2 * c.more \in Nat \ {0}
    OBVIOUS
  <2> QED
    BY <2>1, <2>2
<1>4. Received(n) = IF got.curr = got.size THEN Resized(got, got.more) ELSE got
  BY DEF Received
<1>5. Received(n) \in Page /\ Received(n).curr = inBuf.curr + n /\ Received(n).curr < Received(n).size
  <2> HIDE DEF got
  <2>1. CASE got.curr = got.size
    <3>1. got.more \in Nat \ {0} /\ got.size \in Nat
      BY <1>2
    <3>2. /\ Resized(got, got.more) \in Page
          /\ Resized(got, got.more).curr = got.curr /\ Resized(got, got.more).size = got.size + got.more
      BY <1>2, <1>3, <3>1
    <3>3. Received(n) = Resized(got, got.more)
      BY <1>4, <2>1
    <3> HIDE DEF Page
    <3> QED
      BY <1>2, <2>1, <3>1, <3>2, <3>3
  <2>2. CASE got.curr # got.size
    BY <1>2, <1>4, <2>2
  <2> QED
    BY <2>1, <2>2
<1>6. request.length \in Nat \cup {-1}
  BY RequestAssumption DEF ReadInv, InBufOK
<1>7. CASE request.method = "POST" /\ Received(n).size < request.length
  <2>1. request.length \in Nat
    BY <1>5, <1>6, <1>7
  <2>2. Prepared(Received(n)) = Resized(Received(n), request.length)
    BY <1>7 DEF Prepared
  <2>3. /\ Resized(Received(n), request.length) \in Page
        /\ Resized(Received(n), request.length).curr = Received(n).curr
        /\ Resized(Received(n), request.length).size = Received(n).size + request.length
    <3> HIDE DEF Page
    <3> QED
      BY <1>3, <1>5, <2>1
  <2>4. Received(n).curr \in Nat /\ Received(n).size \in Nat
    BY <1>5
  <2> HIDE DEF Page
  <2>5. Received(n).curr < Received(n).size + request.length
    BY <1>5, <2>1, <2>4
  <2>6. /\ Prepared(Received(n)) \in Page
        /\ Prepared(Received(n)).curr = inBuf.curr + n
        /\ Prepared(Received(n)).curr < Prepared(Received(n)).size
    BY <1>5, <2>2, <2>3, <2>5
  <2> USE DEF Page
  <2> QED
    BY <1>5, <2>6
<1>8. CASE ~(request.method = "POST" /\ Received(n).size < request.length)
  BY <1>5, <1>8 DEF Prepared
<1> QED
  BY <1>5, <1>7, <1>8

\* A new connection waits for its first unit (http_conn::init).
LEMMA FreshInv ==
    ASSUME NEW r \in Requests, Fresh(r) PROVE ReadInv'
BY SizeAssumption, RequestAssumption
   DEF Fresh, NewIn, ReadInv, InBufOK, Stats, Handed, StillReading, HeadSeen, VMHasIt, VMs,
       Whole, WhoWaits

\* What is handed on is whole (read_client and begin).
LEMMA HandedInv ==
    ASSUME ReadInv, NEW n \in Nat, ReadDone(n), link_stat' \in Stats, link_stat' # "read_ready",
           VMHasIt', WhoWaits'
    PROVE  ReadInv'
<1>1. /\ link_stat = "read_ready" /\ inBuf.curr + n <= inBuf.size /\ Complete(n)
      /\ request' = request /\ inBuf' = Prepared(Received(n))
  BY DEF ReadDone, Arrives
<1>2. /\ inBuf' \in [size : Nat, curr : Nat, more : Nat \ {0}]
      /\ inBuf'.curr = inBuf.curr + n /\ inBuf'.curr < inBuf'.size
  BY <1>1, RoomStays
<1>3. request.head \in Nat /\ request.length \in Int
  BY RequestAssumption DEF ReadInv, InBufOK
<1>4. inBuf'.curr >= request.head
  BY <1>1, <1>2, <1>3 DEF Complete, HeadSeen, ReadInv, InBufOK
<1>5. request.method = "POST" => inBuf'.curr = request.head + request.length
  BY <1>1, <1>2, <1>3 DEF Complete, ReadInv, InBufOK
<1> QED
  BY <1>1, <1>2, <1>4, <1>5
     DEF ReadInv, InBufOK, Stats, Handed, StillReading, Whole

\* What neither reads nor gives the slot to another client keeps the invariant.
LEMMA LaterInv ==
    ASSUME ReadInv, UNCHANGED <<request, inBuf>>, link_stat' \in Stats,
           link_stat' = "read_ready" => link_stat = "read_ready",
           Handed' => Handed, VMHasIt',
           link_stat' = "read_finished" => vm' # "idle" \/ UNCHANGED <<link_stat, vm, mFiles>>
    PROVE  ReadInv'
BY DEF ReadInv, InBufOK, Stats, Handed, StillReading, HeadSeen, Whole, WhoWaits, Open

\* The steps of vm_exec, and where they leave the connection.
VMStep ==
    \/ VMStart \/ (\E n \in Pieces : VMWrite(n)) \/ Redirect \/ VMCrash
    \/ VMFinish \/ VMRefuse \/ VMFail \/ VMMarkAgain \/ VMClose

LEMMA VMSteps ==
    ASSUME VMHasIt, VMStep
    PROVE  /\ vm # "idle" /\ VMHasIt'
           /\ link_stat' \in {"write_ready", "conn_finished", "crashed", "read_finished"}
           /\ link_stat' = "read_finished" => vm' = "run"
           /\ UNCHANGED <<request, inBuf, mFiles, sent>>
<1>1. CASE VMStart \/ Redirect \/ VMCrash
  BY <1>1 DEF VMStart, Redirect, VMCrash, Done, VMHasIt, VMs
<1>2. CASE \E n \in Pieces : VMWrite(n)
  BY <1>2 DEF VMWrite, Done, VMHasIt, VMs
<1>3. CASE VMFinish \/ VMRefuse
  <2>1. vm' \in {"idle", "close", "again"}
    BY <1>3 DEF VMFinish, VMRefuse, AfterMark
  <2> QED
    BY <1>3, <2>1 DEF VMFinish, VMRefuse, Done, VMHasIt, VMs
<1>4. CASE VMFail \/ VMMarkAgain \/ VMClose
  BY <1>4 DEF VMFail, VMMarkAgain, VMClose, Done, VMHasIt, VMs
<1> QED
  BY <1>1, <1>2, <1>3, <1>4 DEF VMStep

\* Each step of the connection keeps the invariant.
THEOREM ReadInvStep == ASSUME ReadInv, [Next]_vars PROVE ReadInv'
<1>1. ASSUME NEW n \in 1 .. IO_SIZE + MAX_PAGE_SIZE, ReadMore(n) PROVE ReadInv'
  <2>1. n \in Nat
    BY SizeAssumption
  <2>2. /\ link_stat = "read_ready" /\ inBuf.curr + n <= inBuf.size /\ ~Refused(n) /\ ~Complete(n)
        /\ UNCHANGED <<request, link_stat, vm>>
        /\ inBuf' = IF HeadSeen(inBuf.curr + n) THEN Prepared(Received(n)) ELSE Received(n)
    BY <1>1 DEF ReadMore, Arrives
  <2>3. /\ inBuf' \in [size : Nat, curr : Nat, more : Nat \ {0}]
        /\ inBuf'.curr = inBuf.curr + n /\ inBuf'.curr < inBuf'.size
    BY <2>1, <2>2, RoomStays
  <2>4. HeadSeen(inBuf.curr + n) => request.method = "POST" /\ inBuf.curr + n # request.head + request.length
    BY <2>2, RequestAssumption DEF Complete, ReadInv, InBufOK
  <2> QED
    BY <2>2, <2>3, <2>4
       DEF ReadInv, InBufOK, Stats, Handed, StillReading, HeadSeen, VMHasIt, VMs, Whole, WhoWaits
<1>2. ASSUME NEW n \in 1 .. IO_SIZE + MAX_PAGE_SIZE, ReadClose(n) PROVE ReadInv'
  <2>1. n \in Nat
    BY SizeAssumption
  <2>2. /\ link_stat = "read_ready" /\ inBuf.curr + n <= inBuf.size
        /\ UNCHANGED <<request, vm>> /\ link_stat' = "conn_finished" /\ vm = "idle"
        /\ inBuf' \in {[inBuf EXCEPT !.curr = @ + n], Received(n), Prepared(Received(n))}
    BY <1>2 DEF ReadClose, Arrives, ReadInv, VMHasIt, VMs
  <2>3. [inBuf EXCEPT !.curr = @ + n] \in [size : Nat, curr : Nat, more : Nat \ {0}]
    BY <2>1 DEF ReadInv, InBufOK
  <2>4. inBuf' \in [size : Nat, curr : Nat, more : Nat \ {0}]
    BY <2>1, <2>2, <2>3, RoomStays
  <2> QED
    BY <2>2, <2>4 DEF ReadInv, InBufOK, Stats, Handed, StillReading, VMHasIt, VMs, Whole, WhoWaits
<1>3. ASSUME NEW n \in 1 .. IO_SIZE + MAX_PAGE_SIZE,
             PushExcuting(n) \/ SendMessage(n) \/ SendFile(n) \/ HeadFound(n) \/ HeadMissing(n)
      PROVE ReadInv'
  <2>1. n \in Nat
    BY SizeAssumption
  <2>2. ReadDone(n) /\ link_stat' \in Stats /\ link_stat' # "read_ready"
    BY <1>3 DEF PushExcuting, SendMessage, SendFile, HeadFound, HeadMissing, Stats
  <2>3. vm = "idle" /\ request' = request
    BY <2>2 DEF ReadDone, Arrives, ReadInv, VMHasIt, VMs
  <2>4. VMHasIt'
    BY <1>3, <2>3 DEF PushExcuting, SendMessage, SendFile, HeadFound, HeadMissing, VMHasIt, VMs
  <2>5. WhoWaits'
    <3>1. CASE HeadFound(n)
      <4>1. PICK FileLength \in Files : mFiles' = [next |-> 1, left |-> FileLength]
        BY <3>1 DEF HeadFound
      <4>2. mFiles'.left = FileLength /\ FileLength \in Nat
        BY <4>1, SizeAssumption
      <4> QED
        BY <2>3, <3>1, <4>2 DEF HeadFound, WhoWaits, Open
    <3>2. CASE ~HeadFound(n)
      BY <1>3, <3>2 DEF PushExcuting, SendMessage, SendFile, HeadMissing, WhoWaits
    <3> QED
      BY <3>1, <3>2
  <2> QED
    BY <2>1, <2>2, <2>4, <2>5, HandedInv
<1>4. ASSUME NEW n \in 1 .. IO_SIZE + MAX_PAGE_SIZE, WriteSome(n) \/ WriteEnd(n) \/ WriteNext(n)
      PROVE ReadInv'
  <2>1. /\ link_stat = "write_ready" /\ link_stat' \in {"write_ready", "conn_finished"}
        /\ UNCHANGED <<request, inBuf, vm>>
    BY <1>4 DEF WriteSome, WriteEnd, WriteNext, Sends
  <2>2. VMHasIt'
    BY <2>1 DEF ReadInv, VMHasIt
  <2> QED
    BY <2>1, <2>2, LaterInv DEF Stats, Handed
<1>5. CASE ReadError \/ WriteError
  <2>1. /\ link_stat \in {"read_ready", "write_ready"} /\ link_stat' = "conn_finished"
        /\ (link_stat = "read_ready" => vm = "idle")
        /\ UNCHANGED <<request, inBuf, vm>>
    BY <1>5 DEF ReadError, WriteError, ReadInv, VMHasIt, VMs
  <2>2. VMHasIt'
    BY <2>1 DEF ReadInv, VMHasIt, VMs
  <2> QED
    BY <2>1, <2>2, LaterInv DEF Stats, Handed
<1>6. CASE VMStep
  <2>1. /\ vm # "idle" /\ link_stat' \in {"write_ready", "conn_finished", "crashed", "read_finished"}
        /\ (link_stat' = "read_finished" => vm' = "run")
        /\ UNCHANGED <<request, inBuf>> /\ VMHasIt'
    BY <1>6, VMSteps DEF ReadInv
  <2> QED
    BY <2>1, LaterInv DEF Stats, Handed
<1>7. CASE Close
  BY <1>7, FreshInv DEF Close
<1>8. CASE UNCHANGED vars
  <2>1. VMHasIt'
    BY <1>8 DEF vars, ReadInv, VMHasIt
  <2> QED
    BY <1>8, <2>1, LaterInv DEF vars, ReadInv, InBufOK, Handed
<1> QED
  BY <1>1, <1>2, <1>3, <1>4, <1>5, <1>6, <1>7, <1>8 DEF Next, VMStep

\* The invariant holds of every behaviour of the connection.
THEOREM ReadsStayInOrder == Spec => []ReadInv
<1>1. Init => ReadInv
  BY SizeAssumption, RequestAssumption
     DEF Init, NewIn, ReadInv, InBufOK, Stats, Handed, StillReading, HeadSeen, VMHasIt, VMs,
         Whole, WhoWaits
<1> QED
  BY <1>1, ReadInvStep, PTL DEF Spec

\* read_client hands a request on when its head and exactly its body are in the
\* buffer, and leaves room behind it, for every request and every way to cut it.
THEOREM RequestsAreWhole == Spec => []RequestWhole
<1>1. ReadInv => RequestWhole
  BY DEF ReadInv, InBufOK, Whole, Handed, RequestWhole
<1> QED
  BY <1>1, ReadsStayInOrder, PTL

\* No request that is well formed and has arrived waits for its time-out, but a HEAD
\* that found its file: read_client has seen its end, and vm_exec marks it.
THEOREM NobodyIsLeftWaiting == Spec => []NoneLeftWaiting
<1>1. ReadInv => NoneLeftWaiting
  BY RequestAssumption DEF ReadInv, InBufOK, StillReading, HeadSeen, WhoWaits, NoneLeftWaiting
<1> QED
  BY <1>1, ReadsStayInOrder, PTL
-----------------------------------------------------------------------------
(* Writing: the connection implements AnswerStream.  StreamInv types the    *)
(* buffer, the file and what was sent, and bounds buf_start.                *)

Unit == {"head", "blank", "out", "file", "message", "length"} \X Int

StreamInv ==
    /\ link_stat \in Stats /\ VMHasIt
    /\ outBuf \in [size : Nat, p : Seq(Unit), start : Nat, more : Nat]
    /\ outBuf.start <= Len(outBuf.p)
    /\ link_stat \in {"read_ready", "read_finished"} => outBuf.start = 0
    /\ mFiles \in [next : Nat, left : Int]
    /\ said \in Nat /\ sent \in Seq(Unit)

LEMMA UnitsSeq ==
    ASSUME NEW what \in {"head", "out", "file"}, NEW i \in Nat, NEW n \in Nat
    PROVE  /\ Units(what, i, n) \in Seq(Unit) /\ Len(Units(what, i, n)) = n
           /\ \A j \in 1 .. n : Units(what, i, n)[j] = <<what, i + j - 1>>
<1>1. Units(what, i, n) \in [1 .. n -> Unit]
  BY DEF Units, Unit
<1>2. Units(what, i, n) \in Seq(Unit)
  BY <1>1, SeqDef
<1>3. DOMAIN Units(what, i, n) = 1 .. Len(Units(what, i, n)) /\ Len(Units(what, i, n)) \in Nat
  BY <1>2, LenProperties
<1>4. DOMAIN Units(what, i, n) = 1 .. n
  BY DEF Units
<1>5. Len(Units(what, i, n)) = n
  <2>1. \A m \in Nat : 1 .. n = 1 .. m => m = n
    OBVIOUS
  <2> QED
    BY <1>3, <1>4, <2>1
<1> QED
  BY <1>2, <1>5 DEF Units

\* The part of a file that was read, and the part behind it, are the file.
LEMMA UnitsSplit ==
    ASSUME NEW what \in {"head", "out", "file"}, NEW i \in Nat, NEW a \in Nat, NEW b \in Nat
    PROVE  Units(what, i, a) \o Units(what, i + a, b) = Units(what, i, a + b)
<1> DEFINE u == Units(what, i, a)
           v == Units(what, i + a, b)
           w == Units(what, i, a + b)
<1>1. u \in Seq(Unit) /\ Len(u) = a /\ \A j \in 1 .. a : u[j] = <<what, i + j - 1>>
  BY UnitsSeq
<1>2. v \in Seq(Unit) /\ Len(v) = b /\ \A j \in 1 .. b : v[j] = <<what, i + a + j - 1>>
  BY UnitsSeq, i + a \in Nat
<1>3. w \in Seq(Unit) /\ Len(w) = a + b /\ \A j \in 1 .. a + b : w[j] = <<what, i + j - 1>>
  BY UnitsSeq, a + b \in Nat
<1> HIDE DEF u, v, w
<1>4. /\ u \o v \in Seq(Unit) /\ Len(u \o v) = a + b
      /\ \A j \in 1 .. a + b : (u \o v)[j] = IF j <= a THEN u[j] ELSE v[j - a]
  BY <1>1, <1>2, ConcatProperties
<1>5. ASSUME NEW j \in 1 .. a + b PROVE (u \o v)[j] = w[j]
  <2>1. w[j] = <<what, i + j - 1>>
    BY <1>3
  <2>2. CASE j <= a
    <3>1. j \in 1 .. a
      BY <2>2
    <3>2. u[j] = <<what, i + j - 1>>
      BY <1>1, <3>1
    <3>3. (u \o v)[j] = u[j]
      BY <1>4, <2>2
    <3> QED
      BY <2>1, <3>2, <3>3
  <2>3. CASE ~(j <= a)
    <3>1. j - a \in 1 .. b /\ i + a + (j - a) - 1 = i + j - 1
      BY <2>3
    <3>2. v[j - a] = <<what, i + a + (j - a) - 1>>
      BY <1>2, <3>1
    <3>3. (u \o v)[j] = v[j - a]
      BY <1>4, <2>3
    <3> QED
      BY <2>1, <3>1, <3>2, <3>3
  <2> QED
    BY <2>2, <2>3
<1>6. u \o v = w
  BY <1>3, <1>4, <1>5, SeqEqual
<1> QED
  BY <1>6 DEF u, v, w

LEMMA NoUnits == ASSUME NEW i \in Nat PROVE Units("file", i, 0) = <<>>
<1>1. Units("file", i, 0) \in Seq(Unit) /\ Len(Units("file", i, 0)) = 0
  BY UnitsSeq
<1> QED
  BY <1>1, EmptySeq

LEMMA PrefixOfConcat ==
    ASSUME NEW s \in Seq(Unit), NEW t \in Seq(Unit) PROVE Stream!IsPrefix(s, s \o t)
<1>1. s \o t \in Seq(Unit) /\ Len(s \o t) = Len(s) + Len(t) /\ Len(s) \in Nat /\ Len(t) \in Nat
  BY ConcatProperties, LenProperties
<1>2. SubSeq(s, 1, Len(s)) = SubSeq(s \o t, 1, Len(s))
  <2>1. CASE Len(s) = 0
    BY <2>1, SubSeqEmpty
  <2>2. CASE Len(s) # 0
    BY <1>1, <2>2, SubSeqOfConcat1
  <2> QED
    BY <2>1, <2>2
<1> QED
  BY <1>1, <1>2 DEF Stream!IsPrefix

\* What a call of send takes out of the buffer, and what it leaves there.
LEMMA CutRest ==
    ASSUME StreamInv, NEW n \in Nat, n <= Left
    PROVE  LET cut == SubSeq(outBuf.p, outBuf.start + 1, outBuf.start + n)
               rest == SubSeq(outBuf.p, outBuf.start + n + 1, Len(outBuf.p))
           IN /\ cut \in Seq(Unit) /\ rest \in Seq(Unit)
              /\ cut \o rest = SubSeq(outBuf.p, outBuf.start + 1, Len(outBuf.p))
              /\ n = Left => rest = <<>>
<1> DEFINE p == outBuf.p
           start == outBuf.start
<1>1. p \in Seq(Unit) /\ start \in Nat /\ Len(p) \in Nat /\ start + n <= Len(p)
  BY LenProperties DEF StreamInv, Left
<1>2. \A j \in 1 .. Len(p) : p[j] \in Unit
  BY <1>1, ElementOfSeq
<1> HIDE DEF p, start
<1>3. SubSeq(p, start + 1, start + n) \in Seq(Unit)
  <2>1. \A j \in start + 1 .. start + n : p[j] \in Unit
    BY <1>1, <1>2
  <2> QED
    BY <1>1, <2>1, SubSeqProperties
<1>4. SubSeq(p, start + n + 1, Len(p)) \in Seq(Unit)
  <2>1. \A j \in start + n + 1 .. Len(p) : p[j] \in Unit
    BY <1>1, <1>2
  <2> QED
    BY <1>1, <2>1, SubSeqProperties
<1>5. SubSeq(p, start + 1, start + n) \o SubSeq(p, start + n + 1, Len(p)) = SubSeq(p, start + 1, Len(p))
  <2>1. start + 1 \in 1 .. Len(p) + 1 /\ start + n \in (start + 1) - 1 .. Len(p) /\ Len(p) \in start + n .. Len(p)
    BY <1>1
  <2> QED
    BY <1>1, <2>1, ConcatAdjacentSubSeq
<1>6. n = Left => SubSeq(p, start + n + 1, Len(p)) = <<>>
  BY <1>1, SubSeqEmpty DEF Left, p, start
<1> QED
  BY <1>3, <1>4, <1>5, <1>6 DEF p, start

Out == [size : Nat, p : Seq(Unit), start : Nat, more : Nat]

LEMMA PutPage ==
    ASSUME NEW b \in Out, NEW q \in Seq(Unit)
    PROVE  LET put == [b EXCEPT !.p = q]
           IN put \in Out /\ put.p = q /\ put.start = b.start /\ put.size = b.size /\ put.more = b.more
BY DEF Out

LEMMA PutStart ==
    ASSUME NEW b \in Out, NEW i \in Nat
    PROVE  LET put == [b EXCEPT !.start = i]
           IN put \in Out /\ put.p = b.p /\ put.start = i /\ put.size = b.size /\ put.more = b.more
BY DEF Out

LEMMA HeadsAreUnits ==
    /\ PageHead \in Seq(Unit)
    /\ FileHead \in Seq(Unit) /\ Len(FileHead) = 2
    /\ <<<<"message", 0>>>> \in Seq(Unit)
<1>1. <<"head", 0>> \in Unit /\ <<"blank", 0>> \in Unit /\ <<"message", 0>> \in Unit
  BY DEF Unit
<1>2. PageHead \in Seq(Unit) /\ <<<<"message", 0>>>> \in Seq(Unit)
  BY <1>1 DEF PageHead
<1>3. FileHead \in Seq(Unit) /\ Len(FileHead) = 2
  BY UnitsSeq DEF FileHead
<1> QED
  BY <1>2, <1>3

\* Before anything is sent, buf_start is 0 and the buffer may be overwritten.
LEMMA BeforeWriting ==
    ASSUME StreamInv, link_stat = "read_ready",
           outBuf' \in Out, outBuf'.start = 0,
           link_stat' \in Stats, link_stat' # "read_ready" \/ vm' = "idle",
           mFiles' \in [next : Nat, left : Int], UNCHANGED <<vm, said, sent>>
    PROVE  StreamInv'
<1>1. outBuf'.p \in Seq(Unit)
  BY DEF Out
<1>2. Len(outBuf'.p) \in Nat
  BY <1>1, LenProperties
<1> QED
  BY <1>2 DEF StreamInv, VMHasIt, VMs, Out

LEMMA InitStream == Init => StreamInv
<1>1. <<>> \in Seq(Unit) /\ Len(<<>>) = 0
  BY EmptySeq
<1> QED
  BY <1>1, SizeAssumption DEF Init, NewOut, NoFile, StreamInv, Stats, VMHasIt, VMs

LEMMA FreshStream == ASSUME NEW r \in Requests, Fresh(r) PROVE StreamInv'
<1>1. <<>> \in Seq(Unit) /\ Len(<<>>) = 0
  BY EmptySeq
<1> QED
  BY <1>1, SizeAssumption DEF Fresh, NewOut, NoFile, StreamInv, Stats, VMHasIt, VMs

\* A buffer that grew holds what it held (resize).
LEMMA ResizedPage ==
    ASSUME NEW b \in Out
    PROVE  LET r == Resized(b, b.more)
           IN r \in Out /\ r.p = b.p /\ r.start = b.start /\ r.size = b.size + b.more /\ r.more = 2 * b.more
<1> DEFINE r == Resized(b, b.more)
           c == [b EXCEPT !.size = b.size + b.more]
<1>1. b.size \in Nat /\ b.more \in Nat /\ b.size + b.more \in Nat /\ 2 * b.more \in Nat
  BY DEF Out
<1>2. c \in Out /\ c.more = b.more /\ c.size = b.size + b.more /\ c.p = b.p /\ c.start = b.start
  BY <1>1 DEF Out
<1>3. r = [c EXCEPT !.more = 2 * b.more]
  BY <1>2 DEF Resized, Out
<1> HIDE DEF c, r
<1>4. r \in Out /\ r.p = c.p /\ r.start = c.start /\ r.size = c.size /\ r.more = 2 * b.more
  BY <1>1, <1>2, <1>3 DEF Out
<1> QED
  BY <1>2, <1>4 DEF r

\* What is appended lies behind what was there.
LEMMA PutGrows ==
    ASSUME NEW b \in Out, NEW data \in Seq(Unit)
    PROVE  /\ b.p \o data \in Seq(Unit) /\ Len(b.p) \in Nat /\ Len(data) \in Nat
           /\ Len(b.p \o data) = Len(b.p) + Len(data)
           /\ Put(b, data) \in Out /\ Put(b, data).p = b.p \o data
           /\ Put(b, data).start = b.start /\ Put(b, data).size = b.size /\ Put(b, data).more = b.more
<1>1. b.p \in Seq(Unit)
  BY DEF Out
<1>2. b.p \o data \in Seq(Unit) /\ Len(b.p \o data) = Len(b.p) + Len(data)
  BY <1>1, ConcatProperties
<1>3. Put(b, data) = [b EXCEPT !.p = b.p \o data]
  BY DEF Put
<1> DEFINE q == b.p \o data
<1>4. /\ [b EXCEPT !.p = q] \in Out /\ [b EXCEPT !.p = q].p = q /\ [b EXCEPT !.p = q].start = b.start
      /\ [b EXCEPT !.p = q].size = b.size /\ [b EXCEPT !.p = q].more = b.more
  <2> HIDE DEF q
  <2>1. q \in Seq(Unit)
    BY <1>2 DEF q
  <2> QED
    BY <2>1, PutPage
<1>5. Len(b.p) \in Nat /\ Len(data) \in Nat
  BY <1>1, LenProperties
<1> QED
  BY <1>2, <1>3, <1>4, <1>5

\* A block is dropped or appended, the buffer grown or not (direct_write).
LEMMA WrittenCases ==
    ASSUME NEW b \in Out, NEW data \in Seq(Unit)
    PROVE  LET w == Written(b, data)
           IN /\ w \in Out /\ w.start = b.start
              /\ \/ w.p = b.p \o data /\ w.size = b.size /\ w.more = b.more
                 \/ w.p = b.p \o data /\ w.size = b.size + b.more /\ w.more = 2 * b.more /\ CanGrow(b)
                 \/ w = b /\ ~CanGrow(b)
<1> DEFINE r == Resized(b, b.more)
<1>1. r \in Out /\ r.p = b.p /\ r.start = b.start /\ r.size = b.size + b.more /\ r.more = 2 * b.more
  BY ResizedPage
<1>2. \/ Written(b, data) = Put(b, data)
      \/ Written(b, data) = Put(r, data) /\ CanGrow(b)
      \/ Written(b, data) = b /\ ~CanGrow(b)
  BY DEF Written
<1> HIDE DEF r
<1>3. CASE Written(b, data) = Put(b, data)
  <2>1. /\ Put(b, data) \in Out /\ Put(b, data).p = b.p \o data /\ Put(b, data).start = b.start
        /\ Put(b, data).size = b.size /\ Put(b, data).more = b.more
    BY PutGrows
  <2> QED
    BY <1>3, <2>1
<1>4. CASE Written(b, data) = Put(r, data) /\ CanGrow(b)
  <2>1. /\ Put(r, data) \in Out /\ Put(r, data).p = r.p \o data /\ Put(r, data).start = r.start
        /\ Put(r, data).size = r.size /\ Put(r, data).more = r.more
    BY <1>1, PutGrows
  <2> QED
    BY <1>1, <1>4, <2>1
<1>5. CASE Written(b, data) = b /\ ~CanGrow(b)
  BY <1>5
<1> QED
  BY <1>2, <1>3, <1>4, <1>5

\* A character is appended, the buffer grown or not (direct_write).
LEMMA TextCases ==
    ASSUME NEW b \in Out, NEW char \in Unit
    PROVE  LET w == WrittenText(b, char)
           IN /\ w \in Out /\ w.start = b.start /\ w.p = b.p \o <<char>>
              /\ \/ w.size = b.size /\ w.more = b.more
                 \/ w.size = b.size + b.more /\ w.more = 2 * b.more /\ CanGrow(b)
<1> DEFINE c == Put(b, <<char>>)
           r == Resized(c, c.more)
<1>1. c \in Out /\ c.p = b.p \o <<char>> /\ c.start = b.start /\ c.size = b.size /\ c.more = b.more
  <2>1. <<char>> \in Seq(Unit)
    OBVIOUS
  <2> QED
    BY <2>1, PutGrows
<1> HIDE DEF c
<1>2. r \in Out /\ r.p = c.p /\ r.start = c.start /\ r.size = c.size + c.more /\ r.more = 2 * c.more
  BY <1>1, ResizedPage
<1>3. (WrittenText(b, char) = r /\ CanGrow(c)) \/ WrittenText(b, char) = c
  BY DEF WrittenText, c, r
<1> HIDE DEF r
<1>4. CanGrow(c) => CanGrow(b)
  BY <1>1 DEF CanGrow
<1> QED
  BY <1>1, <1>2, <1>3, <1>4

\* The number takes the place of a unit (vm_exec).
LEMMA NumberedPage ==
    ASSUME NEW b \in Out
    PROVE  /\ Numbered(b) \in Out /\ Numbered(b).start = b.start /\ Len(Numbered(b).p) = Len(b.p)
           /\ Numbered(b).size = b.size /\ Numbered(b).more = b.more
<1> DEFINE q == [b.p EXCEPT ![2] = <<"length", Len(b.p) - Len(PageHead)>>]
           m == [b.p EXCEPT ![1] = <<"message", 1>>]
<1>1. b.p \in Seq(Unit) /\ Len(b.p) \in Nat /\ Len(PageHead) \in Nat
  BY HeadsAreUnits, LenProperties DEF Out
<1>2. <<"length", Len(b.p) - Len(PageHead)>> \in Unit /\ <<"message", 1>> \in Unit
  BY <1>1 DEF Unit
<1>3. b.p \in [1 .. Len(b.p) -> Unit]
  BY <1>1, LenProperties
<1>4. q \in [1 .. Len(b.p) -> Unit] /\ m \in [1 .. Len(b.p) -> Unit]
  BY <1>2, <1>3
<1>5. \A f \in [1 .. Len(b.p) -> Unit] : f \in Seq(Unit) /\ Len(f) = Len(b.p)
  <2> SUFFICES ASSUME NEW f \in [1 .. Len(b.p) -> Unit] PROVE f \in Seq(Unit) /\ Len(f) = Len(b.p)
    OBVIOUS
  <2>1. f \in Seq(Unit)
    BY <1>1, SeqDef
  <2>2. DOMAIN f = 1 .. Len(f) /\ Len(f) \in Nat /\ DOMAIN f = 1 .. Len(b.p)
    BY <2>1, LenProperties
  <2>3. \A k, l \in Nat : 1 .. k = 1 .. l => k = l
    OBVIOUS
  <2> QED
    BY <1>1, <2>1, <2>2, <2>3
<1>6. q \in Seq(Unit) /\ Len(q) = Len(b.p) /\ m \in Seq(Unit) /\ Len(m) = Len(b.p)
  BY <1>4, <1>5
<1>7. Numbered(b) = [b EXCEPT !.p = q] \/ Numbered(b) = [b EXCEPT !.p = m]
  BY DEF Numbered
<1> HIDE DEF q, m
<1>8. \A u \in Seq(Unit) :
         /\ [b EXCEPT !.p = u] \in Out /\ [b EXCEPT !.p = u].p = u /\ [b EXCEPT !.p = u].start = b.start
         /\ [b EXCEPT !.p = u].size = b.size /\ [b EXCEPT !.p = u].more = b.more
  BY PutPage
<1>9. CASE Numbered(b) = [b EXCEPT !.p = q]
  BY <1>6, <1>8, <1>9
<1>10. CASE Numbered(b) = [b EXCEPT !.p = m]
  BY <1>6, <1>8, <1>10
<1> QED
  BY <1>7, <1>9, <1>10

\* What the VM does to the buffer: it may be made anew as long as nothing was marked,
\* and afterwards loses nothing that may have been sent.
LEMMA VMPages ==
    ASSUME StreamInv, VMStep
    PROVE  /\ outBuf' \in Out /\ outBuf'.start = outBuf.start /\ outBuf'.start <= Len(outBuf'.p)
           /\ said' \in Nat
<1>0. /\ outBuf \in Out /\ outBuf.start \in Nat /\ Len(outBuf.p) \in Nat /\ outBuf.p \in Seq(Unit)
      /\ outBuf.start <= Len(outBuf.p) /\ said \in Nat
  BY LenProperties DEF StreamInv, Out
<1>1. CASE VMStart
  <2>1. outBuf' = [outBuf EXCEPT !.p = PageHead] /\ outBuf.start = 0 /\ said' = said
    BY <1>1 DEF VMStart, hist, StreamInv, VMHasIt
  <2>2. outBuf' \in Out /\ outBuf'.start = 0 /\ Len(outBuf'.p) = 2
    <3>1. outBuf' \in Out /\ outBuf'.start = 0 /\ outBuf'.p = PageHead
      BY <1>0, <2>1, PutPage, HeadsAreUnits
    <3> QED
      BY <3>1 DEF PageHead
  <2> QED
    BY <1>0, <2>1, <2>2
<1>2. CASE Redirect \/ VMRefuse
  <2>1. outBuf' = [outBuf EXCEPT !.p = <<<<"message", 0>>>>] /\ outBuf.start = 0 /\ said' = said
    BY <1>2 DEF Redirect, VMRefuse, Message, hist, StreamInv, VMHasIt
  <2>2. outBuf' \in Out /\ outBuf'.start = 0 /\ Len(outBuf'.p) = 1
    <3>1. outBuf' \in Out /\ outBuf'.start = 0 /\ outBuf'.p = <<<<"message", 0>>>>
      BY <1>0, <2>1, PutPage, HeadsAreUnits
    <3> QED
      BY <3>1
  <2> QED
    BY <1>0, <2>1, <2>2
<1>3. ASSUME NEW n \in Pieces, VMWrite(n)
      PROVE  /\ outBuf' \in Out /\ outBuf'.start = outBuf.start /\ outBuf'.start <= Len(outBuf'.p)
             /\ said' \in Nat
  <2>1. Units("out", said + 1, n) \in Seq(Unit) /\ <<"out", said + 1>> \in Unit /\ said' \in Nat
    BY <1>0, <1>3, UnitsSeq, SizeAssumption, said + 1 \in Nat DEF VMWrite, Unit
  <2>2. CASE outBuf' = Written(outBuf, Units("out", said + 1, n))
    <3>1. outBuf' \in Out /\ outBuf'.start = outBuf.start
          /\ outBuf'.p \in {outBuf.p, outBuf.p \o Units("out", said + 1, n)}
      BY <1>0, <2>1, <2>2, WrittenCases
    <3> DEFINE data == Units("out", said + 1, n)
    <3>2. Len(outBuf.p \o data) >= Len(outBuf.p) /\ Len(outBuf.p \o data) \in Nat
      <4>1. data \in Seq(Unit)
        BY <2>1
      <4> HIDE DEF data
      <4>2. Len(outBuf.p \o data) = Len(outBuf.p) + Len(data) /\ Len(data) \in Nat
        BY <1>0, <4>1, PutGrows
      <4> QED
        BY <1>0, <4>2
    <3> HIDE DEF data
    <3>3. CASE outBuf'.p = outBuf.p
      BY <1>0, <2>1, <3>1, <3>3
    <3>4. CASE outBuf'.p = outBuf.p \o data
      BY <1>0, <2>1, <3>1, <3>2, <3>4
    <3> QED
      BY <3>1, <3>3, <3>4 DEF data
  <2>3. CASE outBuf' = WrittenText(outBuf, <<"out", said + 1>>)
    <3>1. outBuf' \in Out /\ outBuf'.start = outBuf.start /\ outBuf'.p = outBuf.p \o <<<<"out", said + 1>>>>
      BY <1>0, <2>1, <2>3, TextCases
    <3>2. Len(outBuf.p \o <<<<"out", said + 1>>>>) >= Len(outBuf.p)
      BY <1>0, <2>1, PutGrows, <<<<"out", said + 1>>>> \in Seq(Unit)
    <3> QED
      BY <1>0, <2>1, <3>1, <3>2
  <2> QED
    BY <1>3, <2>2, <2>3 DEF VMWrite
<1>4. CASE VMFinish
  <2>1. outBuf' \in {outBuf, Numbered(outBuf)} /\ said' = said
    BY <1>4 DEF VMFinish, hist
  <2> QED
    BY <1>0, <2>1, NumberedPage
<1>5. CASE VMCrash \/ VMFail \/ VMMarkAgain \/ VMClose
  BY <1>0, <1>5 DEF VMCrash, VMFail, VMMarkAgain, VMClose, hist
<1> QED
  BY <1>1, <1>2, <1>3, <1>4, <1>5 DEF VMStep

\* What a call of send takes goes behind what was sent.
LEMMA SentGrows ==
    ASSUME StreamInv, NEW n \in Nat, n <= Left PROVE Gone(n) \in Seq(Unit)
<1>1. SubSeq(outBuf.p, outBuf.start + 1, outBuf.start + n) \in Seq(Unit) /\ sent \in Seq(Unit)
  BY CutRest DEF StreamInv
<1> QED
  BY <1>1, ConcatProperties DEF Gone

LEMMA SendsInRest ==
    ASSUME StreamInv, NEW n \in Nat, Sends(n) PROVE n <= Left
<1>1. outBuf.start \in Nat /\ Len(outBuf.p) \in Nat
  BY LenProperties DEF StreamInv
<1> QED
  BY <1>1, SizeAssumption DEF Sends, TransSize, Left

\* Each step of the connection keeps the types and the bound of buf_start.
LEMMA StreamInvStep == ASSUME StreamInv, [Next]_vars PROVE StreamInv'
<1>0. /\ outBuf \in Out /\ outBuf.start \in Nat /\ Len(outBuf.p) \in Nat
      /\ outBuf.p \in Seq(Unit) /\ sent \in Seq(Unit)
  BY LenProperties DEF StreamInv, Out
<1>1. ASSUME NEW n \in 1 .. IO_SIZE + MAX_PAGE_SIZE,
             ReadClose(n) \/ ReadMore(n) \/ PushExcuting(n) PROVE StreamInv'
  BY <1>1 DEF ReadClose, ReadMore, PushExcuting, ReadDone, Arrives, hist, StreamInv, Stats, VMHasIt, VMs
<1>2. ASSUME NEW n \in 1 .. IO_SIZE + MAX_PAGE_SIZE, SendMessage(n) \/ HeadMissing(n) PROVE StreamInv'
  <2>1. outBuf' = [outBuf EXCEPT !.p = <<<<"message", 0>>>>] /\ UNCHANGED <<mFiles, vm, said, sent>>
    BY <1>2 DEF SendMessage, HeadMissing, ReadDone, Arrives, Message, hist
  <2>2. outBuf' \in Out /\ outBuf'.start = outBuf.start
    BY <1>0, <2>1, PutPage, HeadsAreUnits
  <2>3. link_stat = "read_ready" /\ link_stat' \in Stats
    BY <1>2 DEF SendMessage, HeadMissing, ReadDone, Arrives, Stats
  <2> QED
    BY <2>1, <2>2, <2>3, BeforeWriting DEF StreamInv, VMHasIt, VMs
<1>3. ASSUME NEW n \in 1 .. IO_SIZE + MAX_PAGE_SIZE, SendFile(n) PROVE StreamInv'
  <2>1. PICK FileLength \in Files :
           LET room == IO_SIZE - Len(FileHead)
               all == FileLength < room
           IN /\ outBuf' = [outBuf EXCEPT !.p = FileHead \o Units("file", 1, IF all THEN FileLength ELSE room)]
              /\ mFiles' = IF all THEN NoFile ELSE [next |-> room + 1, left |-> FileLength - room]
    BY <1>3 DEF SendFile
  <2> DEFINE room == IO_SIZE - Len(FileHead)
             k == IF FileLength < room THEN FileLength ELSE room
  <2>2. room \in Nat /\ k \in Nat /\ FileLength \in Nat
    BY SizeAssumption, HeadsAreUnits
  <2>3. Units("file", 1, k) \in Seq(Unit)
    BY <2>2, UnitsSeq
  <2>4. FileHead \o Units("file", 1, k) \in Seq(Unit)
    BY <2>3, HeadsAreUnits, ConcatProperties
  <2>5. outBuf' = [outBuf EXCEPT !.p = FileHead \o Units("file", 1, k)]
    BY <2>1
  <2>6. mFiles' \in [next : Nat, left : Int]
    BY <2>1, <2>2 DEF NoFile
  <2>7. outBuf' \in Out /\ outBuf'.start = outBuf.start
    BY <1>0, <2>4, <2>5, PutPage
  <2>8. link_stat = "read_ready" /\ link_stat' \in Stats /\ UNCHANGED <<vm, said, sent>>
    BY <1>3 DEF SendFile, ReadDone, Arrives, Stats, hist
  <2> QED
    BY <2>6, <2>7, <2>8, BeforeWriting DEF StreamInv, VMHasIt, VMs
<1>4. ASSUME NEW n \in 1 .. IO_SIZE + MAX_PAGE_SIZE, HeadFound(n) PROVE StreamInv'
  <2>1. outBuf' = [outBuf EXCEPT !.p = FileHead] /\ UNCHANGED <<vm, said, sent>>
        /\ mFiles' \in [next : Nat, left : Int]
        /\ link_stat = "read_ready" /\ link_stat' \in Stats
    BY <1>4, SizeAssumption DEF HeadFound, ReadDone, Arrives, Stats, hist
  <2>2. outBuf' \in Out /\ outBuf'.start = outBuf.start
    BY <1>0, <2>1, PutPage, HeadsAreUnits
  <2> QED
    BY <2>1, <2>2, BeforeWriting DEF StreamInv, VMHasIt, VMs
<1>5. CASE VMStep
  <2>1. /\ VMHasIt' /\ link_stat' \in Stats /\ UNCHANGED <<mFiles, sent>>
        /\ vm # "idle" /\ link_stat' \in {"read_ready", "read_finished"} => vm' = "run"
    BY <1>5, VMSteps DEF StreamInv, Stats
  <2>2. link_stat' \in {"read_ready", "read_finished"} => link_stat = "read_finished"
    BY <1>5 DEF VMStep, VMStart, VMWrite, Redirect, VMCrash, VMFinish, VMRefuse, VMFail, VMMarkAgain,
                VMClose, StreamInv, VMHasIt
  <2> QED
    BY <1>5, <2>1, <2>2, VMPages DEF StreamInv, Out
<1>6. ASSUME NEW n \in 1 .. IO_SIZE + MAX_PAGE_SIZE, WriteSome(n) \/ WriteEnd(n) \/ WriteNext(n)
      PROVE StreamInv'
  <2>1. n \in Nat /\ n <= Left /\ sent' \in Seq(Unit) /\ link_stat = "write_ready" /\ UNCHANGED <<vm, said>>
    BY <1>6, SizeAssumption, SendsInRest, SentGrows DEF WriteSome, WriteEnd, WriteNext, Sends
  <2>2. outBuf.start + n \in Nat /\ outBuf.start + n <= Len(outBuf.p)
    BY <1>0, <2>1 DEF Left
  <2>3. VMHasIt'
    <3>1. link_stat' \in {"write_ready", "conn_finished"} /\ vm' = vm
      BY <1>6, <2>1 DEF WriteSome, WriteEnd, WriteNext
    <3> QED
      BY <2>1, <3>1 DEF StreamInv, VMHasIt
  <2>4. CASE WriteSome(n)
    <3>1. outBuf' \in Out /\ outBuf'.start <= Len(outBuf'.p)
      BY <1>0, <2>2, <2>4, PutStart DEF WriteSome
    <3> QED
      BY <2>1, <2>3, <2>4, <3>1 DEF WriteSome, StreamInv, VMHasIt, Out
  <2>5. CASE WriteEnd(n)
    <3>1. \E i \in {0, outBuf.start + n} : outBuf' = [outBuf EXCEPT !.start = i]
      BY <2>5 DEF WriteEnd
    <3>2. outBuf' \in Out /\ outBuf'.start <= Len(outBuf'.p)
      <4>1. PICK i \in {0, outBuf.start + n} : outBuf' = [outBuf EXCEPT !.start = i]
        BY <3>1
      <4>2. i \in Nat /\ i <= Len(outBuf.p)
        BY <1>0, <2>2
      <4>3. outBuf' \in Out /\ outBuf'.start = i /\ outBuf'.p = outBuf.p
        BY <1>0, <4>1, <4>2, PutStart
      <4> QED
        BY <4>2, <4>3
    <3>3. link_stat' = "conn_finished" /\ mFiles' \in [next : Nat, left : Int]
      BY <2>5 DEF WriteEnd, NoFile
    <3> QED
      BY <2>1, <2>3, <3>2, <3>3 DEF StreamInv, VMHasIt, Out, Stats
  <2>6. CASE WriteNext(n)
    <3> DEFINE nRead == IF mFiles.left > IO_SIZE THEN IO_SIZE ELSE mFiles.left
    <3>1. nRead \in Nat /\ mFiles.next \in Nat /\ mFiles.left \in Int
      BY <2>6, SizeAssumption DEF WriteNext, StreamInv
    <3>2. Units("file", mFiles.next, nRead) \in Seq(Unit) /\ Len(Units("file", mFiles.next, nRead)) = nRead
      BY <3>1, UnitsSeq
    <3>3. CASE outBuf' = [outBuf EXCEPT !.start = 0]
      <4>1. outBuf' \in Out /\ outBuf'.start <= Len(outBuf'.p)
        BY <1>0, <3>3, PutStart
      <4>2. link_stat' \in {"conn_finished", "write_ready"} /\ mFiles' \in [next : Nat, left : Int]
        <5> HIDE DEF nRead
        <5>1. /\ link_stat' \in {link_stat, "conn_finished"}
              /\ mFiles' \in {mFiles, [next |-> mFiles.next + nRead, left |-> mFiles.left - nRead]}
          BY <2>6 DEF WriteNext, nRead
        <5>2. mFiles \in [next : Nat, left : Int]
          BY DEF StreamInv
        <5> QED
          BY <2>1, <3>1, <5>1, <5>2
      <4> QED
        BY <2>1, <2>3, <4>1, <4>2 DEF StreamInv, VMHasIt, Out, Stats
    <3>4. CASE outBuf' # [outBuf EXCEPT !.start = 0]
      <4>1. /\ outBuf' = [outBuf EXCEPT !.start = 0, !.p = Units("file", mFiles.next, nRead)]
            /\ mFiles' = [next |-> mFiles.next + nRead, left |-> mFiles.left - nRead]
            /\ UNCHANGED link_stat
        BY <2>6, <3>4 DEF WriteNext
      <4> HIDE DEF nRead
      <4>2. [outBuf EXCEPT !.start = 0] \in Out /\ [outBuf EXCEPT !.start = 0].start = 0
        BY <1>0, PutStart
      <4>3. outBuf' = [[outBuf EXCEPT !.start = 0] EXCEPT !.p = Units("file", mFiles.next, nRead)]
        BY <4>1
      <4>4. outBuf' \in Out /\ outBuf'.start = 0 /\ outBuf'.p = Units("file", mFiles.next, nRead)
        BY <3>2, <4>2, <4>3, PutPage
      <4>5. mFiles' \in [next : Nat, left : Int]
        <5>1. mFiles.next + nRead \in Nat /\ mFiles.left - nRead \in Int
          BY <3>1
        <5> QED
          BY <4>1, <5>1
      <4>6. 0 <= Len(outBuf'.p) /\ outBuf'.start = 0
        BY <3>2, <4>4, LenProperties
      <4> QED
        BY <2>1, <2>3, <4>1, <4>4, <4>5, <4>6 DEF StreamInv, VMHasIt, Out, Stats
    <3> QED
      BY <3>3, <3>4
  <2> QED
    BY <1>6, <2>4, <2>5, <2>6
<1>7. CASE ReadError \/ WriteError
  BY <1>7 DEF ReadError, WriteError, hist, StreamInv, Stats, VMHasIt, VMs
<1>8. CASE Close
  BY <1>8, FreshStream DEF Close
<1>9. CASE UNCHANGED vars
  BY <1>9 DEF vars, hist, StreamInv, VMHasIt
<1> QED
  BY <1>1, <1>2, <1>3, <1>4, <1>5, <1>6, <1>7, <1>8, <1>9 DEF Next, VMStep

-----------------------------------------------------------------------------
(* The steps of the connection as steps of AnswerStream.                    *)

\* The part of the file that is still to be read.
Behind == IF Open(mFiles) THEN Units("file", mFiles.next, mFiles.left) ELSE <<>>

LEMMA BehindSeq == ASSUME StreamInv PROVE Behind \in Seq(Unit)
<1>1. CASE Open(mFiles)
  BY <1>1, UnitsSeq DEF Behind, Open, StreamInv
<1>2. CASE ~Open(mFiles)
  BY <1>2, EmptySeq DEF Behind
<1> QED
  BY <1>1, <1>2

Groups(s, c, r) == (s \o c) \o r = s \o (c \o r)
Regroups(s, c, r, b) == (s \o c) \o (r \o b) = s \o ((c \o r) \o b)

LEMMA Group == \A s, c, r \in Seq(Unit) : Groups(s, c, r)
<1> SUFFICES ASSUME NEW s \in Seq(Unit), NEW c \in Seq(Unit), NEW r \in Seq(Unit)
             PROVE  (s \o c) \o r = s \o (c \o r)
  BY DEF Groups
<1> QED
  BY ConcatAssociative, SMT

LEMMA Regroup == \A s, c, r, b \in Seq(Unit) : Regroups(s, c, r, b)
<1> SUFFICES ASSUME NEW s \in Seq(Unit), NEW c \in Seq(Unit), NEW r \in Seq(Unit),
                    NEW b \in Seq(Unit)
             PROVE  Regroups(s, c, r, b)
  OBVIOUS
<1>1. r \o b \in Seq(Unit)
  BY ConcatProperties
<1>2. Groups(s, c, r \o b) /\ Groups(c, r, b)
  BY <1>1, Group, Zenon
<1> QED
  BY <1>2, Zenon DEF Groups, Regroups

\* The promise is off: an answer was taken up too soon or did not fit.
Marred == exposed \/ spilled

\* An answer that is made up may still be changed (http_conn's actions, vm_exec).
LEMMA MakeMaps ==
    ASSUME ~Marred, Making, link_stat' \in Stats, UNCHANGED sent,
           link_stat' \in {"conn_finished", "crashed"} /\ ~Making' => broken'
    PROVE  Stream!Make \/ Stream!Expose
<1>1. CASE Marred'
  BY <1>1 DEF Marred, Stream!Expose
<1>2. CASE ~Marred' /\ Making'
  BY <1>2 DEF Marred, Stream!Make
<1>3. CASE ~Marred' /\ ~Making'
  BY <1>3 DEF Marred, Making, Stats, Stream!Make
<1> QED
  BY <1>1, <1>2, <1>3

LEMMA ExposeMaps ==
    ASSUME Marred \/ Making, Marred' PROVE Stream!Expose
BY DEF Marred, Stream!Expose

\* What goes out is the next part of buffer and file, which stay the same answer
\* (write_client).
LEMMA SendMaps ==
    ASSUME StreamInv, NEW n \in Nat, ~Marred, ~Unfinished, WriteSome(n) \/ WriteEnd(n) \/ WriteNext(n)
    PROVE  Stream!Send \/ Stream!Break
<1> DEFINE p == outBuf.p
           cut == SubSeq(p, outBuf.start + 1, outBuf.start + n)
           rest == SubSeq(p, outBuf.start + n + 1, Len(p))
           left == Behind
<1>1. link_stat = "write_ready" /\ n <= Left /\ Sends(n)
  BY SendsInRest DEF WriteSome, WriteEnd, WriteNext, Sends
<1>0. /\ ~exposed /\ ~spilled /\ ~exposed' /\ ~spilled'
      /\ ~Making /\ (link_stat' \in {"write_ready", "conn_finished"} => ~Making')
  BY <1>1 DEF Marred, Sends, Unfinished, Making
<1>2. /\ cut \in Seq(Unit) /\ rest \in Seq(Unit) /\ left \in Seq(Unit) /\ sent \in Seq(Unit)
      /\ Rest = (cut \o rest) \o left
      /\ n = Left => rest = <<>>
  BY <1>1, CutRest, BehindSeq DEF Rest, Behind, StreamInv
<1>3. sent' = sent \o cut
  BY <1>1 DEF Sends, Gone
<1>4. /\ outBuf \in Out /\ outBuf.start \in Nat /\ p \in Seq(Unit) /\ Len(p) \in Nat
      /\ mFiles.next \in Nat /\ mFiles.left \in Int
  BY LenProperties DEF StreamInv, Out
<1> HIDE DEF cut, rest, left
<1>5. /\ rest \o left \in Seq(Unit) /\ sent \o cut \in Seq(Unit)
      /\ sent \o Rest = sent' \o (rest \o left)
  <2>1. cut \in Seq(Unit) /\ rest \in Seq(Unit) /\ left \in Seq(Unit) /\ sent \in Seq(Unit)
    BY <1>2
  <2>2. rest \o left \in Seq(Unit) /\ sent \o cut \in Seq(Unit)
    BY <2>1, ConcatProperties
  <2>3. (sent \o cut) \o (rest \o left) = sent \o ((cut \o rest) \o left)
    <3>1. Regroups(sent, cut, rest, left)
      BY <2>1, Regroup, Zenon
    <3> QED
      BY <3>1, Zenon DEF Regroups
  <2>4. sent \o Rest = sent \o ((cut \o rest) \o left)
    BY <1>2
  <2>5. sent' \o (rest \o left) = (sent \o cut) \o (rest \o left)
    BY <1>3
  <2> QED
    BY <2>2, <2>3, <2>4, <2>5
<1>6. Stream!IsPrefix(sent, sent') /\ Stream!IsPrefix(sent', sent \o Rest)
  BY <1>2, <1>3, <1>5, PrefixOfConcat
<1>7. CASE WriteSome(n)
  <2>1. outBuf' = [outBuf EXCEPT !.start = outBuf.start + n] /\ UNCHANGED <<link_stat, mFiles>>
    BY <1>7 DEF WriteSome
  <2>2. outBuf'.p = p /\ outBuf'.start = outBuf.start + n
    BY <1>4, <2>1, PutStart
  <2>3. Rest' = rest \o left
    BY <2>1, <2>2 DEF Rest, Behind, rest, left
  <2> QED
    BY <1>0, <1>1, <1>5, <1>6, <2>1, <2>3 DEF Stream!Send
<1>8. CASE WriteEnd(n)
  <2>1. n = Left /\ mFiles.left <= 0 /\ link_stat' = "conn_finished"
    BY <1>8 DEF WriteEnd
  <2>2. left = <<>>
    BY <1>4, <2>1, NoUnits DEF left, Behind, Open
  <2>3. sent \o Rest = sent'
    BY <1>2, <1>3, <1>5, <2>1, <2>2, ConcatEmptySeq, EmptySeq
  <2> QED
    BY <1>0, <1>1, <1>6, <2>1, <2>3 DEF Stream!Send
<1>9. CASE WriteNext(n)
  <2> DEFINE nRead == IF mFiles.left > IO_SIZE THEN IO_SIZE ELSE mFiles.left
             part == Units("file", mFiles.next, nRead)
             others == Units("file", mFiles.next + nRead, mFiles.left - nRead)
  <2>1. n = Left /\ mFiles.left > 0 /\ nRead \in Nat /\ mFiles.left - nRead \in Nat
    BY <1>4, <1>9, SizeAssumption DEF WriteNext
  <2>2. sent \o Rest = sent' \o left
    BY <1>2, <1>5, <2>1, ConcatEmptySeq
  <2>3. CASE broken' = TRUE /\ link_stat' = "conn_finished"
    BY <1>0, <1>1, <1>6, <2>3 DEF Stream!Break
  <2>4. CASE ~(broken' = TRUE /\ link_stat' = "conn_finished")
    <3>1. /\ outBuf' = [outBuf EXCEPT !.start = 0, !.p = part]
          /\ mFiles' = [next |-> mFiles.next + nRead, left |-> mFiles.left - nRead]
          /\ UNCHANGED link_stat
      BY <1>9, <2>4 DEF WriteNext
    <3> HIDE DEF nRead
    <3>2. part \in Seq(Unit) /\ others \in Seq(Unit)
      <4>1. mFiles.next + nRead \in Nat
        BY <1>4, <2>1
      <4> QED
        BY <1>4, <2>1, <4>1, UnitsSeq
    <3>3. left = part \o others
      <4>1. part \o others = Units("file", mFiles.next, nRead + (mFiles.left - nRead))
        <5>1. "file" \in {"head", "out", "file"}
          OBVIOUS
        <5>2. mFiles.next \in Nat /\ nRead \in Nat /\ mFiles.left - nRead \in Nat
          BY <1>4, <2>1
        <5> HIDE DEF nRead
        <5>3. \A i, a, b \in Nat : Units("file", i, a) \o Units("file", i + a, b) = Units("file", i, a + b)
          BY <5>1, UnitsSplit
        <5> QED
          BY <5>2, <5>3
      <4>2. nRead + (mFiles.left - nRead) = mFiles.left
        BY <1>4, <2>1
      <4> QED
        BY <2>1, <4>1, <4>2 DEF left, Behind, Open
    <3>4. Behind' = others
      BY <2>1, <3>1 DEF Behind, Open
    <3> HIDE DEF part, others
    <3>5. outBuf'.p = part /\ outBuf'.start = 0
      <4>1. outBuf' = [[outBuf EXCEPT !.start = 0] EXCEPT !.p = part]
        BY <3>1
      <4>2. [outBuf EXCEPT !.start = 0] \in Out /\ [outBuf EXCEPT !.start = 0].start = 0
        BY <1>4, PutStart
      <4> QED
        BY <3>2, <4>1, <4>2, PutPage
    <3>6. Rest' = SubSeq(part, 1, Len(part)) \o others
      <4>1. outBuf'.start + 1 = 1
        BY <3>5
      <4> QED
        BY <3>4, <3>5, <4>1 DEF Rest, Behind
    <3>7. Rest' = left
      BY <3>2, <3>3, <3>6, SubSeqFull
    <3> QED
      BY <1>0, <1>1, <1>6, <2>2, <3>1, <3>7 DEF Stream!Send
  <2> QED
    BY <2>3, <2>4
<1> QED
  BY <1>7, <1>8, <1>9

\* An error, or a page whose head said Connection: Close, ends the connection after
\* what was sent.
LEMMA ErrorMaps ==
    ASSUME StreamInv, ~Marred, ~Marred', ~Making, ~Making', UNCHANGED sent,
           link_stat = "write_ready", link_stat' = "conn_finished", broken'
    PROVE  Stream!Break
<1>1. SubSeq(outBuf.p, outBuf.start + 1, Len(outBuf.p)) \in Seq(Unit)
  <2>1. outBuf.start \in Nat /\ Len(outBuf.p) \in Nat /\ \A j \in 1 .. Len(outBuf.p) : outBuf.p[j] \in Unit
    BY LenProperties, ElementOfSeq DEF StreamInv
  <2>2. \A j \in outBuf.start + 1 .. Len(outBuf.p) : outBuf.p[j] \in Unit
    BY <2>1
  <2> QED
    BY <2>1, <2>2, SubSeqProperties
<1>2. Rest \in Seq(Unit) /\ sent \in Seq(Unit)
  BY <1>1, BehindSeq, ConcatProperties DEF Rest, Behind, StreamInv
<1>3. Stream!IsPrefix(sent, sent \o Rest) /\ Stream!IsPrefix(sent, sent)
  <2>1. Stream!IsPrefix(sent, sent \o Rest)
    BY <1>2, PrefixOfConcat
  <2>2. <<>> \in Seq(Unit) /\ sent \o <<>> = sent
    BY <1>2, ConcatEmptySeq, EmptySeq
  <2>3. Stream!IsPrefix(sent, sent \o <<>>)
    BY <1>2, <2>2, PrefixOfConcat
  <2> QED
    BY <2>1, <2>2, <2>3
<1> QED
  BY <1>3 DEF Marred, Stream!Break

LEMMA CloseMaps == ASSUME Close PROVE Stream!Close
BY DEF Close, Fresh, Making, Unfinished, Stream!Close

\* Once the promise is off it stays off until the slot gets its next client.
LEMMA StaysMarred ==
    ASSUME Marred, [Next]_vars PROVE Marred' \/ Close
<1>1. ASSUME NEW n \in 1 .. IO_SIZE + MAX_PAGE_SIZE,
             \/ ReadClose(n) \/ ReadMore(n)
             \/ PushExcuting(n) \/ SendMessage(n) \/ SendFile(n) \/ HeadFound(n) \/ HeadMissing(n)
      PROVE Marred'
  BY <1>1 DEF ReadClose, ReadMore, PushExcuting, SendMessage, SendFile, HeadFound, HeadMissing,
              ReadDone, Arrives, hist, Marred
<1>2. ASSUME NEW n \in 1 .. IO_SIZE + MAX_PAGE_SIZE, WriteSome(n) \/ WriteEnd(n) \/ WriteNext(n)
      PROVE Marred'
  BY <1>2 DEF WriteSome, WriteEnd, WriteNext, Sends, Marred
<1>3. CASE ReadError \/ WriteError \/ UNCHANGED vars
  BY <1>3 DEF ReadError, WriteError, vars, hist, Marred
<1>4. CASE VMStep
  BY <1>4 DEF VMStep, VMStart, VMWrite, Redirect, VMCrash, VMFinish, VMRefuse, VMFail, VMMarkAgain,
              VMClose, hist, Marred
<1> QED
  BY <1>1, <1>2, <1>3, <1>4 DEF Next, VMStep

\* What the VM does to an answer that it has not let go.
LEMMA VMMaps ==
    ASSUME StreamInv, ~Marred, VMStep
    PROVE  Stream!Next \/ UNCHANGED Stream!vars
<1>1. /\ UNCHANGED sent /\ vm # "idle" /\ VMHasIt' /\ link_stat' \in Stats
  BY VMSteps DEF StreamInv, Stats
<1>2. CASE ~VMClose
  <2>1. Making
    BY <1>1, <1>2 DEF VMStep, VMStart, VMWrite, Redirect, VMCrash, VMFinish, VMRefuse, VMFail, VMMarkAgain,
                      StreamInv, VMHasIt, VMs, Making, Unfinished
  <2>2. link_stat' \in {"conn_finished", "crashed"} /\ ~Making' => broken'
    <3>1. CASE VMCrash
      BY <3>1 DEF VMCrash
    <3>2. CASE ~VMCrash
      BY <1>2, <3>2 DEF VMStep, VMStart, VMWrite, Redirect, VMFinish, VMRefuse, VMFail, VMMarkAgain,
                        StreamInv, VMHasIt, Making, Unfinished
    <3> QED
      BY <3>1, <3>2
  <2> QED
    BY <1>1, <2>1, <2>2, MakeMaps DEF Stream!Next
<1>3. CASE VMClose
  <2>1. /\ link_stat' = "conn_finished" /\ vm = "close" /\ vm' = "idle" /\ UNCHANGED <<exposed, spilled>>
        /\ link_stat \in {"write_ready", "conn_finished"} /\ broken' = (broken \/ link_stat = "write_ready")
    BY <1>3 DEF VMClose, hist, StreamInv, VMHasIt
  <2>2. ~Marred' /\ ~Making /\ ~Making'
    BY <2>1 DEF Marred, Making, Unfinished
  <2>3. CASE link_stat = "write_ready"
    BY <1>1, <2>1, <2>2, <2>3, ErrorMaps DEF Stream!Next
  <2>4. CASE link_stat = "conn_finished"
    BY <1>1, <2>1, <2>2, <2>4 DEF Marred, Stream!vars
  <2> QED
    BY <2>1, <2>3, <2>4
<1> QED
  BY <1>2, <1>3

LEMMA StepMaps == StreamInv /\ [Next]_vars => [Stream!Next]_Stream!vars
<1> SUFFICES ASSUME StreamInv, [Next]_vars PROVE Stream!Next \/ UNCHANGED Stream!vars
  OBVIOUS
<1>1. CASE Close
  BY <1>1, CloseMaps DEF Stream!Next
<1>2. CASE Marred /\ ~Close
  BY <1>2, StaysMarred, ExposeMaps DEF Stream!Next
<1> SUFFICES ASSUME ~Marred, ~Close PROVE Stream!Next \/ UNCHANGED Stream!vars
  BY <1>1, <1>2
<1>3. ASSUME NEW n \in 1 .. IO_SIZE + MAX_PAGE_SIZE,
             \/ ReadClose(n) \/ ReadMore(n)
             \/ PushExcuting(n) \/ SendMessage(n) \/ SendFile(n) \/ HeadFound(n) \/ HeadMissing(n)
      PROVE Stream!Next
  <2>1. /\ link_stat = "read_ready" /\ UNCHANGED sent /\ link_stat' \in Stats
        /\ (link_stat' \in {"conn_finished", "crashed"} => broken')
    BY <1>3 DEF ReadClose, ReadMore, PushExcuting, SendMessage, SendFile, HeadFound, HeadMissing,
                ReadDone, Arrives, Stats
  <2> QED
    BY <2>1, MakeMaps DEF Making, Stream!Next
<1>4. CASE ReadError
  <2>1. link_stat = "read_ready" /\ link_stat' = "conn_finished" /\ broken' /\ UNCHANGED sent
    BY <1>4 DEF ReadError
  <2> QED
    BY <2>1, MakeMaps DEF Making, Stats, Stream!Next
<1>5. ASSUME NEW n \in 1 .. IO_SIZE + MAX_PAGE_SIZE, WriteSome(n) \/ WriteEnd(n) \/ WriteNext(n)
      PROVE Stream!Next
  <2>1. CASE Unfinished
    <3>1. exposed'
      BY <1>5, <2>1 DEF WriteSome, WriteEnd, WriteNext, Sends
    <3> QED
      BY <2>1, <3>1, ExposeMaps DEF Making, Marred, Stream!Next
  <2>2. CASE ~Unfinished
    BY <1>5, <2>2, SendMaps, SizeAssumption DEF Stream!Next
  <2> QED
    BY <2>1, <2>2
<1>6. CASE WriteError
  <2>1. /\ link_stat = "write_ready" /\ link_stat' = "conn_finished" /\ broken' /\ UNCHANGED <<vm, sent, spilled>>
        /\ exposed' = (exposed \/ Unfinished)
    BY <1>6 DEF WriteError
  <2>2. CASE Unfinished
    BY <2>1, <2>2, ExposeMaps DEF Making, Marred, Stream!Next
  <2>3. CASE ~Unfinished
    <3>1. ~Marred' /\ ~Making /\ ~Making'
      BY <2>1, <2>3 DEF Marred, Making, Unfinished
    <3> QED
      BY <2>1, <3>1, ErrorMaps DEF Stream!Next
  <2> QED
    BY <2>2, <2>3
<1>7. CASE VMStep
  BY <1>7, VMMaps
<1>8. CASE UNCHANGED vars
  BY <1>8 DEF vars, hist, Stream!vars, Rest, Open, Making, Unfinished
<1> QED
  BY <1>3, <1>4, <1>5, <1>6, <1>7, <1>8 DEF Next, VMStep

\* However recv and send cut what they are given, and although buffer and file are
\* sent by turns, read_client, the VM and write_client together are AnswerStream:
\* the client gets a growing beginning of one answer, and all of it unless there
\* was an error; but for what is sent while a redirecting script goes on or before
\* vm_exec's second mark, and for what a write past the end of the buffer spoils.
THEOREM AnswersStream == Spec => Implements
<1>1. Init => Stream!Init
  BY DEF Init, Making, Stream!Init
<1> QED
  BY <1>1, InitStream, StreamInvStep, StepMaps, PTL DEF Spec, Implements, Stream!Spec

-----------------------------------------------------------------------------
(* The length in the head of a script's answer.  While the script runs the  *)
(* page is all it wrote unless the buffer met its limit, and the number's   *)
(* place is still blank; a redirection or a message has no such place.      *)

ToldInv ==
    /\ link_stat = "read_ready" \/ vm = "queued" => said = 0
    /\ outBuf.more >= 2 * IO_SIZE /\ (NeverResized(outBuf) => outBuf.size = IO_SIZE)
    /\ vm = "run" =>
         /\ Len(outBuf.p) >= 2 /\ outBuf.p[1] = PageHead[1] /\ outBuf.p[2] = PageHead[2]
         /\ CanGrow(outBuf) => outBuf.p = PageHead \o Units("out", 1, said)
    /\ Unfinished => sent # <<>> \/ (Len(outBuf.p) >= 1 /\ outBuf.p[1] # PageHead[1])
    /\ LengthTold

LEMMA PageHeadParts ==
    /\ Len(PageHead) = 2 /\ PageHead \in Seq(Unit)
    /\ \A i \in Int : <<"message", i>> # PageHead[1]
BY HeadsAreUnits DEF PageHead

\* Appending to the page, and growing for it, keep what is in it (direct_write).
LEMMA WrittenKeeps ==
    ASSUME NEW b \in Out, NEW data \in Seq(Unit), NEW w \in Out, b.more >= 2 * IO_SIZE,
           NeverResized(b) => b.size = IO_SIZE,
           \/ w.p = b.p \o data /\ w.size = b.size /\ w.more = b.more
           \/ w.p = b.p \o data /\ w.size = b.size + b.more /\ w.more = 2 * b.more /\ CanGrow(b)
           \/ w = b /\ ~CanGrow(b)
    PROVE  /\ w.more >= 2 * IO_SIZE /\ (NeverResized(w) => w.size = IO_SIZE)
           /\ w.p \in {b.p, b.p \o data}
           /\ CanGrow(w) => CanGrow(b) /\ w.p = b.p \o data
<1>1. b.size \in Nat /\ b.more \in Nat /\ IO_SIZE \in Nat /\ IO_SIZE > 2 /\ MAX_PAGE_SIZE \in Nat
  BY SizeAssumption DEF Out
<1>2. CASE w.p = b.p \o data /\ w.size = b.size /\ w.more = b.more
  BY <1>2 DEF NeverResized, CanGrow
<1>3. CASE w.p = b.p \o data /\ w.size = b.size + b.more /\ w.more = 2 * b.more /\ CanGrow(b)
  <2>1. w.more # 2 * IO_SIZE /\ w.more >= 2 * IO_SIZE
    BY <1>1, <1>3
  <2> QED
    BY <1>3, <2>1 DEF NeverResized
<1>4. CASE w = b /\ ~CanGrow(b)
  BY <1>4
<1> QED
  BY <1>2, <1>3, <1>4

\* Appending moves nothing.
LEMMA FirstStay ==
    ASSUME NEW b \in Out, NEW data \in Seq(Unit), NEW i \in 1 .. Len(b.p)
    PROVE  (b.p \o data)[i] = b.p[i] /\ Len(b.p \o data) >= Len(b.p)
<1>1. b.p \in Seq(Unit) /\ Len(b.p) \in Nat /\ Len(data) \in Nat
  BY LenProperties DEF Out
<1>2. /\ Len(b.p \o data) = Len(b.p) + Len(data)
      /\ \A j \in 1 .. Len(b.p) + Len(data) :
           (b.p \o data)[j] = IF j <= Len(b.p) THEN b.p[j] ELSE data[j - Len(b.p)]
  BY <1>1, ConcatProperties
<1>3. i \in 1 .. Len(b.p) + Len(data) /\ i <= Len(b.p)
  BY <1>1
<1> QED
  BY <1>1, <1>2, <1>3

\* A character is a block of one.
LEMMA OneUnit == ASSUME NEW i \in Nat PROVE Units("out", i, 1) = <<<<"out", i>>>>
<1>1. <<"out", i>> \in Unit
  BY DEF Unit
<1>2. <<<<"out", i>>>> \in Seq(Unit) /\ Len(<<<<"out", i>>>>) = 1 /\ <<<<"out", i>>>>[1] = <<"out", i>>
  BY <1>1
<1>3. Units("out", i, 1) \in Seq(Unit) /\ Len(Units("out", i, 1)) = 1
      /\ Units("out", i, 1)[1] = <<"out", i + 1 - 1>>
  <2>1. 1 \in Nat /\ 1 \in 1 .. 1
    OBVIOUS
  <2> QED
    BY <2>1, UnitsSeq
<1>4. \A j \in 1 .. Len(Units("out", i, 1)) : Units("out", i, 1)[j] = <<<<"out", i>>>>[j]
  <2> SUFFICES ASSUME NEW j \in 1 .. Len(Units("out", i, 1))
               PROVE  Units("out", i, 1)[j] = <<<<"out", i>>>>[j]
    OBVIOUS
  <2>1. j = 1
    <3>1. Len(Units("out", i, 1)) = 1
      BY <1>3
    <3>2. j \in 1 .. 1
      BY <3>1, Zenon
    <3> QED
      BY <3>2
  <2>2. i + 1 - 1 = i
    OBVIOUS
  <2> QED
    BY <1>2, <1>3, <2>1, <2>2
<1> QED
  BY <1>2, <1>3, <1>4, SeqEqual

\* What a call of direct_write makes of the page.
LEMMA WriteCases ==
    ASSUME StreamInv, NEW n \in Pieces, VMWrite(n)
    PROVE  /\ Units("out", said + 1, n) \in Seq(Unit) /\ outBuf' \in Out /\ said' = said + n
           /\ \/ /\ outBuf'.p = outBuf.p \o Units("out", said + 1, n)
                 /\ outBuf'.size = outBuf.size /\ outBuf'.more = outBuf.more
              \/ /\ outBuf'.p = outBuf.p \o Units("out", said + 1, n)
                 /\ outBuf'.size = outBuf.size + outBuf.more /\ outBuf'.more = 2 * outBuf.more
                 /\ CanGrow(outBuf)
              \/ outBuf' = outBuf /\ ~CanGrow(outBuf)
<1>0. outBuf \in Out /\ said + 1 \in Nat /\ n \in Nat
  BY SizeAssumption DEF StreamInv, Out
<1>1. Units("out", said + 1, n) \in Seq(Unit) /\ <<"out", said + 1>> \in Unit
  BY <1>0, UnitsSeq DEF Unit
<1>2. CASE outBuf' = Written(outBuf, Units("out", said + 1, n))
  BY <1>0, <1>1, <1>2, WrittenCases DEF VMWrite
<1>3. CASE n = 1 /\ outBuf' = WrittenText(outBuf, <<"out", said + 1>>)
  <2>1. Units("out", said + 1, n) = <<<<"out", said + 1>>>>
    BY <1>0, <1>3, OneUnit
  <2> QED
    BY <1>0, <1>1, <1>3, <2>1, TextCases DEF VMWrite
<1> QED
  BY <1>2, <1>3 DEF VMWrite

\* What a piece of the script's output adds to the page.
LEMMA PageGrows ==
    ASSUME StreamInv, NEW n \in Nat
    PROVE  /\ Units("out", said + 1, n) \in Seq(Unit)
           /\ (PageHead \o Units("out", 1, said)) \o Units("out", said + 1, n)
              = PageHead \o Units("out", 1, said + n)
<1>1. said \in Nat /\ said + 1 \in Nat /\ 1 + said = said + 1
  BY DEF StreamInv
<1>2. Units("out", 1, said) \in Seq(Unit) /\ Units("out", said + 1, n) \in Seq(Unit)
  BY <1>1, UnitsSeq
<1>3. Units("out", 1, said) \o Units("out", said + 1, n) = Units("out", 1, said + n)
  <2>1. Units("out", 1, said) \o Units("out", 1 + said, n) = Units("out", 1, said + n)
    <3> SUFFICES ASSUME NEW m \in Nat
                 PROVE  Units("out", 1, m) \o Units("out", 1 + m, n) = Units("out", 1, m + n)
      BY <1>1
    <3>1. "out" \in {"head", "out", "file"} /\ 1 \in Nat
      OBVIOUS
    <3>2. \A i, a, b \in Nat : Units("out", i, a) \o Units("out", i + a, b) = Units("out", i, a + b)
      BY <3>1, UnitsSplit
    <3> QED
      BY <3>1, <3>2
  <2> QED
    BY <1>1, <2>1
<1>4. (PageHead \o Units("out", 1, said)) \o Units("out", said + 1, n)
      = PageHead \o (Units("out", 1, said) \o Units("out", said + 1, n))
  <2>1. PageHead \in Seq(Unit)
    BY PageHeadParts
  <2>2. Groups(PageHead, Units("out", 1, said), Units("out", said + 1, n))
    BY <1>2, <2>1, Group, Zenon
  <2> QED
    BY <2>2, Zenon DEF Groups
<1> QED
  BY <1>2, <1>3, <1>4

\* Writing into the second place of a head that something follows.
LEMMA FillIn ==
    ASSUME NEW h \in Seq(Unit), Len(h) = 2, NEW u \in Seq(Unit), NEW e \in Unit
    PROVE  [h \o u EXCEPT ![2] = e] = <<h[1], e>> \o u
<1> DEFINE s == h \o u
           q == [s EXCEPT ![2] = e]
           g == <<h[1], e>>
           n == Len(u)
<1>1. n \in Nat /\ s \in Seq(Unit) /\ Len(s) = 2 + n
      /\ \A j \in 1 .. 2 + n : s[j] = IF j <= 2 THEN h[j] ELSE u[j - 2]
  <2> HIDE DEF n
  <2>1. /\ s \in Seq(Unit) /\ Len(s) = Len(h) + Len(u)
        /\ \A j \in 1 .. Len(h) + Len(u) : s[j] = IF j <= Len(h) THEN h[j] ELSE u[j - Len(h)]
    BY ConcatProperties
  <2>2. Len(u) \in Nat /\ n = Len(u)
    BY LenProperties DEF n
  <2> HIDE DEF s
  <2> QED
    BY <2>1, <2>2
<1>2. h[1] \in Unit
  BY ElementOfSeq, 1 \in 1 .. 2
<1>3. g \in Seq(Unit) /\ Len(g) = 2 /\ g[1] = h[1] /\ g[2] = e
  BY <1>2
<1> HIDE DEF s, g
<1>4. g \o u \in Seq(Unit) /\ Len(g \o u) = 2 + n
      /\ \A j \in 1 .. 2 + n : (g \o u)[j] = IF j <= 2 THEN g[j] ELSE u[j - 2]
  <2>1. /\ g \o u \in Seq(Unit) /\ Len(g \o u) = Len(g) + Len(u)
        /\ \A j \in 1 .. Len(g) + Len(u) : (g \o u)[j] = IF j <= Len(g) THEN g[j] ELSE u[j - Len(g)]
    BY <1>3, ConcatProperties
  <2> QED
    BY <1>1, <1>3, <2>1
<1>5. 2 \in 1 .. Len(s)
  BY <1>1
<1>6. /\ q \in Seq(Unit) /\ Len(q) = Len(s)
      /\ \A j \in 1 .. Len(s) : q[j] = IF j = 2 THEN e ELSE s[j]
  BY <1>1, <1>5, ExceptSeq
<1> HIDE DEF q, n
<1>7. ASSUME NEW j \in 1 .. 2 + n PROVE q[j] = (g \o u)[j]
  <2>1. q[j] = (IF j = 2 THEN e ELSE s[j]) /\ j \in Nat
    BY <1>1, <1>6
  <2>2. s[j] = (IF j <= 2 THEN h[j] ELSE u[j - 2]) /\ (g \o u)[j] = (IF j <= 2 THEN g[j] ELSE u[j - 2])
    BY <1>1, <1>4
  <2>3. j = 1 \/ j = 2 \/ (j # 2 /\ ~(j <= 2))
    BY <1>1
  <2> QED
    BY <1>3, <2>1, <2>2, <2>3
<1>8. q = g \o u
  <2>1. Len(q) = 2 + n /\ Len(q) = Len(g \o u)
    BY <1>1, <1>4, <1>6
  <2>2. \A j \in 1 .. Len(q) : q[j] = (g \o u)[j]
    BY <1>7, <2>1
  <2> QED
    BY <1>4, <1>6, <2>1, <2>2, SeqEqual
<1> QED
  BY <1>8 DEF q, s, g

\* The number goes to the place kept for it (vm_exec).
LEMMA NumberTold ==
    ASSUME NEW b \in Out, NEW n \in Nat, b.p = PageHead \o Units("out", 1, n)
    PROVE  Numbered(b).p = <<PageHead[1], <<"length", n>>>> \o Units("out", 1, n)
<1> DEFINE u == Units("out", 1, n)
           num == <<"length", n>>
           q == [b.p EXCEPT ![2] = num]
<1>1. 1 \in Nat
  OBVIOUS
<1>2. u \in Seq(Unit) /\ Len(u) = n
  BY <1>1, UnitsSeq
<1>3. num \in Unit
  BY DEF Unit
<1>4. Len(b.p) - Len(PageHead) = n
  <2>1. Len(PageHead \o u) = Len(PageHead) + Len(u)
    BY <1>2, PageHeadParts, ConcatProperties
  <2> QED
    BY <1>2, <2>1, PageHeadParts
<1>5. q = <<PageHead[1], num>> \o u
  <2> HIDE DEF u, num
  <2>1. q = [PageHead \o u EXCEPT ![2] = num]
    BY DEF u
  <2> HIDE DEF q
  <2>2. PageHead \in Seq(Unit) /\ Len(PageHead) = 2 /\ u \in Seq(Unit) /\ num \in Unit
    BY <1>2, <1>3, PageHeadParts
  <2>3. [PageHead \o u EXCEPT ![2] = num] = <<PageHead[1], num>> \o u
    BY <2>2, FillIn
  <2> QED
    BY <2>1, <2>3
<1>6. Numbered(b) = [b EXCEPT !.p = q]
  <2>1. (PageHead \o u)[1] = PageHead[1]
    BY <1>2, PageHeadParts, ConcatProperties, 1 \in 1 .. Len(PageHead) + Len(u)
  <2> QED
    BY <1>4, <2>1 DEF Numbered
<1>7. [b EXCEPT !.p = q].p = q
  <2> HIDE DEF q
  <2> QED
    BY DEF Out
<1> QED
  BY <1>5, <1>6, <1>7

LEMMA ToldFresh == ASSUME NEW r \in Requests, Fresh(r) PROVE ToldInv'
<1>1. IO_SIZE \in Nat /\ 2 * IO_SIZE >= 2 * IO_SIZE
  BY SizeAssumption
<1> QED
  BY <1>1 DEF Fresh, NewOut, ToldInv, NeverResized, LengthTold, Unfinished

\* What is not about the answer, or comes before the script.
LEMMA ToldBefore ==
    ASSUME ToldInv, vm = "idle", vm' \in {"idle", "queued"}, said = 0, said' = 0,
           outBuf'.size = outBuf.size, outBuf'.more = outBuf.more
    PROVE  ToldInv'
<1>1. LengthTold'
  BY DEF LengthTold
<1> QED
  BY <1>1 DEF ToldInv, NeverResized, Unfinished

\* Once the sending began the property says nothing any more.
LEMMA ToldSending ==
    ASSUME StreamInv, ToldInv, NEW n \in Nat \ {0}, WriteSome(n) \/ WriteEnd(n) \/ WriteNext(n)
    PROVE  ToldInv'
<1>1. link_stat = "write_ready" /\ n <= Left /\ sent' = Gone(n) /\ vm \notin {"queued", "run"} /\ vm' = vm
  BY SendsInRest DEF WriteSome, WriteEnd, WriteNext, Sends, StreamInv, VMHasIt
<1>2. outBuf'.size = outBuf.size /\ outBuf'.more = outBuf.more
  BY DEF WriteSome, WriteEnd, WriteNext, StreamInv
<1>3. link_stat' # "read_ready"
  BY DEF WriteSome, WriteEnd, WriteNext, Sends
<1>4. sent' # <<>>
  <2> DEFINE cut == SubSeq(outBuf.p, outBuf.start + 1, outBuf.start + n)
  <2>1. outBuf.start \in Nat /\ Len(outBuf.p) \in Nat /\ outBuf.start + n <= Len(outBuf.p)
        /\ \A j \in 1 .. Len(outBuf.p) : outBuf.p[j] \in Unit
    BY <1>1, LenProperties, ElementOfSeq DEF StreamInv, Left
  <2>2. \A j \in outBuf.start + 1 .. outBuf.start + n : outBuf.p[j] \in Unit
    BY <2>1
  <2>3. cut \in Seq(Unit) /\ Len(cut) = n
    <3>1. outBuf.start + 1 \in Int /\ outBuf.start + n \in Int /\ outBuf.start + 1 <= outBuf.start + n
          /\ (outBuf.start + n) - (outBuf.start + 1) + 1 = n
      BY <2>1
    <3> QED
      BY <2>2, <3>1, SubSeqProperties
  <2>4. sent' = sent \o cut /\ sent \in Seq(Unit)
    BY <1>1 DEF Gone, StreamInv
  <2> HIDE DEF cut
  <2>5. cut # <<>>
    BY <2>3, EmptySeq
  <2> QED
    BY <2>3, <2>4, <2>5, ConcatEqualIffEmpty
<1>5. LengthTold'
  BY <1>4 DEF LengthTold
<1> QED
  BY <1>1, <1>2, <1>3, <1>4, <1>5 DEF ToldInv, NeverResized

\* What becomes of the length while the script writes (direct_write).
LEMMA ToldWriting ==
    ASSUME StreamInv, ToldInv, NEW n \in Pieces, VMWrite(n) PROVE ToldInv'
<1> DEFINE more == Units("out", said + 1, n)
           page == PageHead \o Units("out", 1, said)
<1>0. n \in Nat /\ outBuf \in Out /\ Len(outBuf.p) \in Nat
  BY SizeAssumption, LenProperties DEF StreamInv, Out
<1>1. page \o more = PageHead \o Units("out", 1, said + n)
  BY <1>0, PageGrows
<1>2. /\ more \in Seq(Unit) /\ outBuf' \in Out /\ said' = said + n
      /\ vm \in {"run", "sent"} /\ UNCHANGED <<vm, link_stat, sent>>
      /\ \/ outBuf'.p = outBuf.p \o more /\ outBuf'.size = outBuf.size /\ outBuf'.more = outBuf.more
         \/ /\ outBuf'.p = outBuf.p \o more /\ outBuf'.size = outBuf.size + outBuf.more
            /\ outBuf'.more = 2 * outBuf.more /\ CanGrow(outBuf)
         \/ outBuf' = outBuf /\ ~CanGrow(outBuf)
  BY WriteCases DEF VMWrite, Done
<1>3. /\ outBuf.more >= 2 * IO_SIZE /\ (NeverResized(outBuf) => outBuf.size = IO_SIZE)
      /\ vm = "run" => /\ Len(outBuf.p) >= 2 /\ outBuf.p[1] = PageHead[1] /\ outBuf.p[2] = PageHead[2]
                       /\ CanGrow(outBuf) => outBuf.p = page
      /\ vm = "sent" => sent # <<>> \/ (Len(outBuf.p) >= 1 /\ outBuf.p[1] # PageHead[1])
  BY DEF ToldInv, Unfinished
<1>4. link_stat # "read_ready" /\ (vm = "run" => link_stat = "read_finished")
  BY <1>2 DEF StreamInv, VMHasIt
<1> HIDE DEF more, page
<1>5. /\ outBuf'.more >= 2 * IO_SIZE /\ (NeverResized(outBuf') => outBuf'.size = IO_SIZE)
      /\ outBuf'.p \in {outBuf.p, outBuf.p \o more}
      /\ CanGrow(outBuf') => CanGrow(outBuf) /\ outBuf'.p = outBuf.p \o more
  BY <1>0, <1>2, <1>3, WrittenKeeps
<1>6. \A i \in 1 .. Len(outBuf.p) : outBuf'.p[i] = outBuf.p[i] /\ Len(outBuf'.p) >= Len(outBuf.p)
  BY <1>0, <1>2, <1>5, FirstStay
<1>7. CASE vm = "run"
  <2>1. Len(outBuf'.p) >= 2 /\ outBuf'.p[1] = PageHead[1] /\ outBuf'.p[2] = PageHead[2]
    <3>1. Len(outBuf'.p) \in Nat /\ 1 \in 1 .. Len(outBuf.p) /\ 2 \in 1 .. Len(outBuf.p)
      BY <1>0, <1>2, <1>3, <1>7, LenProperties DEF Out
    <3> QED
      BY <1>0, <1>3, <1>6, <1>7, <3>1
  <2>2. CanGrow(outBuf') => outBuf'.p = PageHead \o Units("out", 1, said')
    BY <1>1, <1>2, <1>3, <1>5, <1>7
  <2>3. LengthTold'
    BY <1>2, <1>4, <1>7 DEF LengthTold
  <2> QED
    BY <1>2, <1>4, <1>5, <1>7, <2>1, <2>2, <2>3 DEF ToldInv, NeverResized, CanGrow, Unfinished
<1>8. CASE vm = "sent"
  <2>1. sent # <<>> \/ (Len(outBuf'.p) >= 1 /\ outBuf'.p[1] # PageHead[1])
    <3>1. CASE sent # <<>>
      BY <3>1
    <3>2. CASE sent = <<>>
      <4>1. Len(outBuf'.p) \in Nat /\ 1 \in 1 .. Len(outBuf.p)
        BY <1>0, <1>2, <1>3, <1>8, <3>2, LenProperties DEF Out
      <4> QED
        BY <1>0, <1>3, <1>6, <1>8, <3>2, <4>1
    <3> QED
      BY <3>1, <3>2
  <2>2. LengthTold'
    BY <1>2, <1>8 DEF LengthTold, Unfinished
  <2> QED
    BY <1>2, <1>4, <1>5, <1>8, <2>1, <2>2 DEF ToldInv, NeverResized, Unfinished
<1> QED
  BY <1>2, <1>7, <1>8

\* And when the script has done: the number goes to its place, or there is none.
LEMMA ToldFinish == ASSUME StreamInv, ToldInv, VMFinish PROVE ToldInv'
<1>0. outBuf \in Out /\ said \in Nat /\ IO_SIZE \in Nat
  BY SizeAssumption DEF StreamInv, Out
<1>1. /\ vm \in {"run", "sent"} /\ vm' \in {"idle", "close"} /\ link_stat' = "write_ready"
      /\ outBuf' = (IF Reached(outBuf) THEN Numbered(outBuf) ELSE outBuf) /\ UNCHANGED <<request, said, sent>>
  BY DEF VMFinish, AfterMark, Done, hist
<1>2. outBuf'.size = outBuf.size /\ outBuf'.more = outBuf.more
  BY <1>0, <1>1, NumberedPage
<1>3. outBuf.more >= 2 * IO_SIZE /\ (NeverResized(outBuf) => outBuf.size = IO_SIZE)
  BY DEF ToldInv
<1>4. CASE vm = "run"
  <2>1. /\ outBuf.p[1] = PageHead[1] /\ outBuf.p[2] = PageHead[2]
        /\ CanGrow(outBuf) => outBuf.p = PageHead \o Units("out", 1, said)
    BY <1>4 DEF ToldInv
  <2>2. NeverResized(outBuf) => CanGrow(outBuf)
    BY <1>0, <1>3, SizeAssumption DEF NeverResized, CanGrow
  <2>3. CanGrow(outBuf) /\ Reached(outBuf) =>
           outBuf'.p = <<PageHead[1], <<"length", said>>>> \o Units("out", 1, said)
    BY <1>0, <1>1, <2>1, NumberTold
  <2>4. LengthTold'
    <3>1. CASE request.to = "page" /\ CanGrow(outBuf')
      BY <1>1, <1>2, <2>3, <3>1 DEF Reached, CanGrow, LengthTold
    <3>2. CASE request.to = "json" /\ outBuf'.p[2] # PageHead[2]
      <4>1. Reached(outBuf) /\ NeverResized(outBuf)
        BY <1>1, <2>1, <3>2 DEF Reached
      <4> QED
        BY <1>1, <2>2, <2>3, <4>1 DEF LengthTold
    <3> QED
      BY <1>1, <3>1, <3>2 DEF LengthTold
  <2> QED
    BY <1>1, <1>2, <1>3, <2>4 DEF ToldInv, NeverResized, Unfinished
<1>5. CASE vm = "sent"
  <2>1. sent # <<>> \/ outBuf'.p[1] # PageHead[1]
    <3>1. CASE sent = <<>>
      <4>1. Len(outBuf.p) >= 1 /\ outBuf.p[1] # PageHead[1]
        BY <1>5, <3>1 DEF ToldInv, Unfinished
      <4>2. Numbered(outBuf).p[1] = <<"message", 1>>
        <5>1. Numbered(outBuf) = [outBuf EXCEPT !.p[1] = <<"message", 1>>]
          BY <4>1 DEF Numbered
        <5>2. outBuf.p \in Seq(Unit) /\ Len(outBuf.p) \in Nat /\ 1 \in 1 .. Len(outBuf.p)
          BY <1>0, <4>1, LenProperties DEF Out
        <5>3. 1 \in DOMAIN outBuf.p
          BY <5>2, LenProperties
        <5> QED
          BY <1>0, <5>1, <5>3 DEF Out
      <4> QED
        BY <1>1, <4>1, <4>2, PageHeadParts
    <3> QED
      BY <3>1
  <2>2. LengthTold'
    BY <1>1, <2>1 DEF LengthTold
  <2> QED
    BY <1>1, <1>2, <1>3, <2>2 DEF ToldInv, NeverResized, Unfinished
<1> QED
  BY <1>1, <1>4, <1>5

LEMMA ToldInvStep == ASSUME StreamInv, ToldInv, [Next]_vars PROVE ToldInv'
<1>0. outBuf \in Out /\ said \in Nat /\ IO_SIZE \in Nat
  BY SizeAssumption DEF StreamInv, Out
<1>1. ASSUME NEW n \in 1 .. IO_SIZE + MAX_PAGE_SIZE,
             \/ ReadClose(n) \/ ReadMore(n)
             \/ PushExcuting(n) \/ SendMessage(n) \/ SendFile(n) \/ HeadFound(n) \/ HeadMissing(n)
      PROVE ToldInv'
  <2>1. link_stat = "read_ready" /\ said' = said /\ vm' \in {vm, "queued"} /\ vm = "idle" /\ said = 0
    BY <1>1 DEF ReadClose, ReadMore, PushExcuting, SendMessage, SendFile, HeadFound, HeadMissing,
                ReadDone, Arrives, hist, StreamInv, VMHasIt, VMs, ToldInv
  <2>2. outBuf'.size = outBuf.size /\ outBuf'.more = outBuf.more
    BY <1>0, <1>1 DEF ReadClose, ReadMore, PushExcuting, SendMessage, SendFile, HeadFound, HeadMissing,
                Message, Out
  <2> QED
    BY <2>1, <2>2, ToldBefore
<1>2. ASSUME NEW n \in 1 .. IO_SIZE + MAX_PAGE_SIZE, WriteSome(n) \/ WriteEnd(n) \/ WriteNext(n)
      PROVE ToldInv'
  BY <1>2, ToldSending, SizeAssumption
<1>3. CASE ReadError \/ WriteError
  <2>1. /\ link_stat' = "conn_finished" /\ UNCHANGED <<vm, outBuf, said, sent>>
        /\ vm \notin {"run", "queued"}
    BY <1>3 DEF ReadError, WriteError, hist, StreamInv, VMHasIt
  <2> QED
    BY <2>1 DEF ToldInv, LengthTold, Unfinished
<1>4. CASE VMStart
  <2>1. outBuf' = [outBuf EXCEPT !.p = PageHead] /\ said' = said /\ said = 0 /\ vm' = "run"
        /\ link_stat = "read_finished" /\ link_stat' = link_stat
    BY <1>4 DEF VMStart, hist, ToldInv, StreamInv, VMHasIt
  <2>2. outBuf'.p = PageHead /\ outBuf'.size = outBuf.size /\ outBuf'.more = outBuf.more
    BY <1>0, <2>1, PutPage, PageHeadParts
  <2>3. PageHead \o Units("out", 1, 0) = PageHead
    <3>1. Units("out", 1, 0) \in Seq(Unit) /\ Len(Units("out", 1, 0)) = 0
      BY UnitsSeq
    <3>2. Units("out", 1, 0) = <<>>
      BY <3>1, EmptySeq
    <3> QED
      BY <3>2, PageHeadParts, ConcatEmptySeq
  <2>4. outBuf'.p = PageHead \o Units("out", 1, said')
    BY <2>1, <2>2, <2>3
  <2>5. Len(outBuf'.p) >= 2 /\ outBuf'.p[1] = PageHead[1] /\ outBuf'.p[2] = PageHead[2]
    <3>1. Len(PageHead) >= 2
      BY PageHeadParts
    <3> QED
      BY <2>2, <3>1
  <2>6. LengthTold'
    BY <2>1 DEF LengthTold
  <2>7. outBuf'.more >= 2 * IO_SIZE /\ (NeverResized(outBuf') => outBuf'.size = IO_SIZE)
    BY <2>2 DEF ToldInv, NeverResized
  <2> QED
    BY <2>1, <2>4, <2>5, <2>6, <2>7 DEF ToldInv, Unfinished
<1>5. ASSUME NEW n \in Pieces, VMWrite(n) PROVE ToldInv'
  BY <1>5, ToldWriting
<1>6. CASE VMFinish
  BY <1>6, ToldFinish
<1>7. CASE Redirect \/ VMRefuse
  <2>1. /\ outBuf' = [outBuf EXCEPT !.p = <<<<"message", 0>>>>] /\ link_stat' = "write_ready" /\ said' = said
        /\ vm' = "sent" \/ (vm' \in {"again", "idle", "close"} /\ said = 0)
    BY <1>7 DEF Redirect, VMRefuse, Message, AfterMark, hist
  <2>2. outBuf'.p = <<<<"message", 0>>>> /\ outBuf'.size = outBuf.size /\ outBuf'.more = outBuf.more
    BY <1>0, <2>1, PutPage, HeadsAreUnits
  <2>3. Len(outBuf'.p) >= 1 /\ outBuf'.p[1] # PageHead[1]
    BY <2>2, PageHeadParts
  <2>4. LengthTold'
    BY <2>1, <2>3 DEF LengthTold
  <2> QED
    BY <2>1, <2>2, <2>3, <2>4 DEF ToldInv, NeverResized, Unfinished
<1>8. CASE VMFail \/ VMMarkAgain
  <2>1. /\ vm' = "idle" /\ link_stat' = "write_ready" /\ UNCHANGED <<outBuf, sent, said, request>>
        /\ Unfinished \/ (vm = "run" /\ request.to = "json")
    BY <1>8 DEF VMFail, VMMarkAgain, Done, hist, Unfinished
  <2>2. LengthTold'
    <3>1. CASE Unfinished
      BY <2>1, <3>1 DEF ToldInv, LengthTold
    <3>2. CASE vm = "run" /\ request.to = "json"
      BY <2>1, <3>2 DEF ToldInv, LengthTold
    <3> QED
      BY <2>1, <3>1, <3>2
  <2> QED
    BY <2>1, <2>2 DEF ToldInv, NeverResized, Unfinished
<1>9. CASE VMClose \/ VMCrash
  <2>1. vm' = "idle" /\ link_stat' \in {"conn_finished", "crashed"} /\ UNCHANGED <<outBuf, said>>
    BY <1>9 DEF VMClose, VMCrash, hist
  <2> QED
    BY <2>1 DEF ToldInv, LengthTold, NeverResized, Unfinished
<1>10. CASE Close
  BY <1>10, ToldFresh DEF Close
<1>11. CASE UNCHANGED vars
  BY <1>11 DEF vars, hist, ToldInv, LengthTold, Unfinished
<1> QED
  BY <1>1, <1>2, <1>3, <1>4, <1>5, <1>6, <1>7, <1>8, <1>9, <1>10, <1>11 DEF Next

\* vm_exec puts the true length into the head of what a script wrote, however the
\* buffer grew while it ran, for every size of the pieces, unless one went past the
\* end of the buffer; for JSON functions as far as the number reaches the head at all.
THEOREM LengthIsTold == Spec => []LengthTold
<1>1. Init => ToldInv
  BY SizeAssumption DEF Init, NewOut, ToldInv, NeverResized, LengthTold, Unfinished
<1>2. ToldInv => LengthTold
  BY DEF ToldInv
<1> QED
  BY <1>1, <1>2, InitStream, StreamInvStep, ToldInvStep, PTL DEF Spec

=============================================================================
