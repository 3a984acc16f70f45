--------------------------- MODULE FastCgiProofs ---------------------------
(***************************************************************************)
(* Safety of FastCgi for every set of ids and every size of the pool.      *)
(* The inductive invariant has five parts: the types; the free list and    *)
(* the slots in use make up the pool; the table and the pool agree; the    *)
(* link's state, which is what keeps the scan off a free slot 0; and the   *)
(* requests' marks and the queue, up to the first stray mark.              *)
(***************************************************************************)
EXTENDS FastCgi, TLAPS

\* The free list holds each slot that is not in use, once.
FreeOK ==
  /\ \A k \in 1 .. Len(free) : free[k] \notin used
  /\ \A s \in Slots : s \notin used => \E k \in 1 .. Len(free) : free[k] = s
  /\ \A k, l \in 1 .. Len(free) : free[k] = free[l] => k = l

\* A slot in use carries an id, and the table has it there.
TableOK ==
  /\ TableSound
  /\ \A s \in used : socket_id[s] \in Ids

\* One answer for each link; a link that has begun a request and not been
\* answered has slot 0 in use, because 0 is the next slot to be given out
\* whenever it is free.
LinkOK ==
  /\ answer # NoAnswer => pc \in {"accept", "select"} /\ (pc = "select" => link_stat = "write_ready")
  /\ \A i \in Ids : answer = NoAnswer /\ phase[i] # "none" =>
       /\ Request_Table[i] \in used
       /\ Request_Table[i] \in mine
       /\ 0 \in used
  /\ (link_stat = "read_finished" /\ pc \in {"select", "parse", "scan"}) => \E i \in Ids : phase[i] # "none"
  /\ pc = "scan" => link_stat = "read_finished" /\ at \in used
  /\ 0 \notin used => free # <<>> /\ free[1] = 0

\* The marks of the requests in use.
MarksOK ==
  /\ \A s \in used : flag_fcgi[s] = "read_finished" /\ phase[socket_id[s]] # "none" => phase[socket_id[s]] = "ended"
  /\ ~stray => \A s \in used :
       /\ stat[s] # "read_ready" => flag_fcgi[s] = "read_finished"
       /\ stat[s] = "write_ready" => s \in out

\* The queue: its first element is there while vm_exec runs it.
QueueOK ==
  /\ vm \in {"run", "sent", "again"} => m_que # <<>>
  /\ QueueSound

IInv == TypeOK /\ FreeOK /\ TableOK /\ LinkOK /\ MarksOK /\ QueueOK /\ OwnAnswers

-----------------------------------------------------------------------------
\* The initial state.
THEOREM InitOK == Init => IInv
<1> SUFFICES ASSUME Init PROVE IInv
  OBVIOUS
<1> USE SizesOK
<1>1. TypeOK
  <2>1. free \in Seq(Slots)
    BY DEF Init, Slots
  <2>2. 0 \in Slots /\ \A s \in Slots : s + 1 \in Nat
    BY DEF Slots
  <2>3. answer \in [id : Nat, slot : Slots \cup {NoSlot}, live : BOOLEAN, done : BOOLEAN, mine : BOOLEAN]
    BY DEF Init, NoAnswer, NoSlot
  <2>4. Request_Table \in [Ids -> Slots \cup {NoSlot}] /\ socket_id \in [Slots -> Nat]
    BY <2>2 DEF Init
  <2>5. m_que \in Seq(Slots) /\ used \subseteq Slots /\ mine \subseteq Slots /\ out \subseteq Slots
    BY DEF Init
  <2> QED
    BY <2>1, <2>2, <2>3, <2>4, <2>5 DEF Init, TypeOK, LinkStats
<1>2. FreeOK
  <2>1. Len(free) = NSlots /\ \A k \in 1 .. NSlots : free[k] = k - 1
    BY DEF Init
  <2>2. \A s \in Slots : s + 1 \in 1 .. NSlots /\ free[s + 1] = s
    BY <2>1 DEF Slots
  <2>3. \A k \in 1 .. Len(free) : free[k] \notin used
    BY DEF Init
  <2>4. \A s \in Slots : \E k \in 1 .. Len(free) : free[k] = s
    BY <2>1, <2>2
  <2>5. \A k, l \in 1 .. Len(free) : free[k] = free[l] => k = l
    BY <2>1
  <2> QED
    BY <2>3, <2>4, <2>5 DEF FreeOK
<1>3. TableOK
  BY DEF Init, TableOK, TableSound, Slots, NoSlot
<1>4. LinkOK
  BY DEF Init, LinkOK
<1>5. MarksOK
  BY DEF Init, MarksOK
<1>6. QueueOK
  BY DEF Init, QueueOK, QueueSound, Waiting
<1>7. OwnAnswers
  BY DEF Init, OwnAnswers
<1> QED
  BY <1>1, <1>2, <1>3, <1>4, <1>5, <1>6, <1>7 DEF IInv

-----------------------------------------------------------------------------
\* Where the table leads, for a request the parser looks up.
LEMMA Lookup ==
  ASSUME IInv, pc = "parse", NEW i \in Ids, phase[i] # "none"
  PROVE  /\ Request_Table[i] \in used
         /\ Request_Table[i] \in Slots
         /\ socket_id[Request_Table[i]] = i
<1>1. answer = NoAnswer
  BY DEF IInv, LinkOK
<1>2. Request_Table[i] \in used
  BY <1>1 DEF IInv, LinkOK
<1>3. Request_Table[i] \in Slots
  BY <1>2 DEF IInv, TypeOK
<1> QED
  BY <1>2, <1>3 DEF IInv, TableOK, TableSound

\* The slot the pool gives out.
LEMMA NextSlotFree ==
  ASSUME IInv, free # <<>>
  PROVE  /\ NextSlot \in Slots
         /\ NextSlot \notin used
         /\ NextSlot = free[1]
         /\ Len(free) \in Nat \ {0}
<1>1. free \in Seq(Slots)
  BY DEF IInv, TypeOK
<1>2. 1 \in 1 .. Len(free) /\ Len(free) \in Nat \ {0}
  BY <1>1
<1> QED
  BY <1>1, <1>2 DEF NextSlot, IInv, FreeOK

\* The first of the queue, when there is one.
LEMMA FirstOfQueue ==
  ASSUME IInv, m_que # <<>>
  PROVE  /\ Head(m_que) \in Slots
         /\ Head(m_que) = m_que[1]
         /\ Len(m_que) \in Nat \ {0}
         /\ Tail(m_que) \in Seq(Slots)
         /\ Len(Tail(m_que)) = Len(m_que) - 1
         /\ \A k \in 1 .. Len(m_que) - 1 : Tail(m_que)[k] = m_que[k + 1]
<1>1. m_que \in Seq(Slots)
  BY DEF IInv, TypeOK
<1> QED
  BY <1>1

\* The actions by what they do to pool, table and requests: nothing, except
\* for the six that the lemmas below take one by one.  Quiet are the loop's
\* steps that do nothing to them, Idles those of the VM thread.
Quiet ==
  /\ UNCHANGED <<reqs, pool, Request_Table, m_que, vm, event, stray>>
  /\ Write \/ Read \/ ReadFails \/ Timeout \/ BadRecord \/ ParseCut \/ ParseDone \/ ScanNext
     \/ \E i \in Ids : BeginKnown(i) \/ BeginThrows(i)

Idles ==
  /\ UNCHANGED <<link, reqs, pool, Request_Table, m_que, phase, mine, stray>>
  /\ vm \in {"enter", "waiting", "check"} /\ vm' \in {"enter", "waiting", "check"}

\* ... and a turn of the VM thread on the first of the queue.
Turn == VMStart \/ VMFinish \/ VMFail \/ VMRedirect \/ VMAgain

LEMMA Actions ==
  ASSUME [Next]_vars
  PROVE  \/ UNCHANGED vars
         \/ Quiet
         \/ Idles
         \/ Accept
         \/ \E i \in Ids : BeginNew(i) \/ Data(i) \/ ParamsEnd(i)
         \/ \E i \in Ids, registered \in BOOLEAN : StdinEnd(i, registered)
         \/ ScanHit
         \/ Turn
BY DEF Next, Loop, VM, VMWait, VMEmpty, SpuriousWakeup, Idles, Turn, Parse, Quiet, Write, Read, ReadFails, Timeout, BadRecord, ParseCut, ParseDone, ScanNext, BeginKnown, BeginThrows

\* Types.
LEMMA TypeStep == IInv /\ [Next]_vars => TypeOK'
<1> SUFFICES ASSUME IInv, [Next]_vars PROVE TypeOK'
  OBVIOUS
<1> USE SizesOK
<1>0. TypeOK
  BY DEF IInv
<1>1. CASE Accept
  BY <1>0, <1>1 DEF TypeOK, Accept, LinkStats, NoAnswer, reqs, pool, NoSlot
<1>2. CASE Write \/ Read \/ ReadFails \/ Timeout \/ BadRecord \/ ParseCut \/ ParseDone
  <2>1. 0 \in Slots
    BY DEF Slots
  <2> QED
    BY <1>0, <1>2, <2>1 DEF TypeOK, Write, Read, ReadFails, Timeout, BadRecord, ParseCut, ParseDone, ScanIfFinished, Close, LinkStats, reqs, pool
<1>3. ASSUME NEW i \in Ids, Parse(i) PROVE TypeOK'
  <2>1. CASE BeginNew(i)
    <3>1. NextSlot \in Slots /\ Tail(free) \in Seq(Slots)
      BY <1>0, <2>1, NextSlotFree DEF TypeOK, BeginNew
    <3>2. i \in Nat
      OBVIOUS
    <3> QED
      BY <1>0, <2>1, <3>1, <3>2 DEF TypeOK, BeginNew, link, ReqStats
  <2>2. CASE BeginKnown(i) \/ BeginThrows(i)
    BY <1>0, <2>2 DEF TypeOK, BeginKnown, BeginThrows, Close, LinkStats, reqs, pool
  <2>3. CASE Data(i) \/ ParamsEnd(i)
    BY <1>0, <2>3 DEF TypeOK, Data, ParamsEnd, link, pool
  <2>4. ASSUME NEW registered \in BOOLEAN, StdinEnd(i, registered) PROVE TypeOK'
    <3> DEFINE s == Request_Table[i]
    <3>1. s \in Slots
      BY <2>4, Lookup DEF StdinEnd
    <3>2. Append(m_que, s) \in Seq(Slots)
      BY <1>0, <3>1 DEF TypeOK
    <3> QED
      <4>1. m_que' \in Seq(Slots) /\ out' \subseteq Slots
        BY <1>0, <2>4, <3>1, <3>2 DEF TypeOK, StdinEnd, Push
      <4>2. stat' \in [Slots -> ReqStats]
        BY <1>0, <2>4, <3>1 DEF TypeOK, StdinEnd, ReqStats
      <4>3. /\ flag_fcgi' \in [Slots -> {"ready", "begin_request", "read_client", "read_finished"}]
            /\ phase' \in [Ids -> {"none", "params", "stdin", "ended"}]
        BY <1>0, <2>4, <3>1 DEF TypeOK, StdinEnd
      <4>4. /\ vm' \in {"enter", "waiting", "check", "run", "sent", "again"}
            /\ event' \in {"none", "clear", "set"}
        BY <1>0, <2>4 DEF TypeOK, StdinEnd, Push
      <4> QED
        BY <1>0, <2>4, <4>1, <4>2, <4>3, <4>4 DEF TypeOK, StdinEnd, pool, LinkStats
  <2> QED
    BY <1>3, <2>1, <2>2, <2>3, <2>4 DEF Parse
<1>4. CASE ScanHit
  <2>1. at \in used /\ at \in Slots
    BY <1>0, <1>4 DEF ScanHit, IInv, LinkOK, TypeOK
  <2>2. <<at>> \o free \in Seq(Slots) /\ FreeLoc \in Nat
    BY <1>0, <2>1 DEF TypeOK, FreeLoc, Slots, NoSlot
  <2>3. answer' \in [id : Nat, slot : Slots \cup {NoSlot}, live : BOOLEAN, done : BOOLEAN, mine : BOOLEAN]
    BY <1>0, <1>4, <2>1 DEF TypeOK, ScanHit
  <2>4. Request_Table' \in [Ids -> Slots \cup {NoSlot}]
    BY <1>0, <1>4 DEF TypeOK, ScanHit
  <2>5. used' \subseteq Slots /\ free' \in Seq(Slots) /\ socket_id' \in [Slots -> Nat]
    BY <1>0, <1>4, <2>1, <2>2 DEF TypeOK, ScanHit, Free
  <2>6. pc' = "select" /\ link_stat' = "write_ready" /\ UNCHANGED <<at, stat, flag_fcgi, out, m_que, vm, event, phase, mine, stray>>
    BY <1>4 DEF ScanHit
  <2> QED
    BY <1>0, <2>3, <2>4, <2>5, <2>6 DEF TypeOK, LinkStats
<1>5. CASE ScanNext
  BY <1>0, <1>5 DEF TypeOK, ScanNext, Later, reqs, pool
<1>6. CASE Turn
  <2>1. m_que # <<>>
    BY <1>6 DEF Turn, VMStart, VMFinish, VMFail, VMRedirect, Sends, VMAgain, IInv, QueueOK
  <2>2. Head(m_que) \in Slots /\ Tail(m_que) \in Seq(Slots)
    BY <2>1, FirstOfQueue
  <2> QED
    BY <1>0, <1>6, <2>2 DEF TypeOK, Turn, VMStart, VMFinish, VMFail, VMRedirect, Sends, VMAgain, link, reqs, pool, ReqStats
<1>7. CASE VMWait \/ VMEmpty \/ SpuriousWakeup
  BY <1>0, <1>7 DEF TypeOK, VMWait, VMEmpty, SpuriousWakeup, link, reqs, pool
<1>8. CASE UNCHANGED vars
  BY <1>0, <1>8 DEF TypeOK, vars, link, reqs, pool
<1> QED
  BY <1>1, <1>2, <1>3, <1>4, <1>5, <1>6, <1>7, <1>8 DEF Next, Loop, VM, Turn

\* The free list and the slots in use stay a partition of the pool.
LEMMA FreeStep == IInv /\ [Next]_vars => FreeOK'
<1> SUFFICES ASSUME IInv, [Next]_vars PROVE FreeOK'
  OBVIOUS
<1>0. FreeOK /\ free \in Seq(Slots)
  BY DEF IInv, TypeOK
<1>1. CASE UNCHANGED pool
  BY <1>0, <1>1 DEF FreeOK, pool
<1>2. ASSUME NEW i \in Ids, BeginNew(i) PROVE FreeOK'
  <2>1. free # <<>> /\ free' = Tail(free) /\ used' = used \cup {NextSlot}
    BY <1>2 DEF BeginNew
  <2>2. NextSlot = free[1] /\ Len(free) \in Nat \ {0}
    BY <2>1, NextSlotFree
  <2>3. Len(free') = Len(free) - 1 /\ \A k \in 1 .. Len(free) - 1 : free'[k] = free[k + 1]
    BY <1>0, <2>1, <2>2
  <2>4. \A k \in 1 .. Len(free') : free'[k] \notin used'
    BY <1>0, <2>1, <2>2, <2>3 DEF FreeOK
  <2>5. ASSUME NEW s \in Slots, s \notin used' PROVE \E k \in 1 .. Len(free') : free'[k] = s
    <3>1. PICK k \in 1 .. Len(free) : free[k] = s
      BY <1>0, <2>1, <2>5 DEF FreeOK
    <3>2. k # 1
      BY <2>1, <2>2, <2>5, <3>1
    <3>3. k - 1 \in 1 .. Len(free') /\ free'[k - 1] = s
      BY <2>2, <2>3, <3>1, <3>2
    <3> QED
      BY <3>3
  <2>6. \A k, l \in 1 .. Len(free') : free'[k] = free'[l] => k = l
    <3> SUFFICES ASSUME NEW k \in 1 .. Len(free'), NEW l \in 1 .. Len(free'), free'[k] = free'[l] PROVE k = l
      OBVIOUS
    <3>1. k + 1 \in 1 .. Len(free) /\ l + 1 \in 1 .. Len(free) /\ free[k + 1] = free[l + 1]
      BY <2>2, <2>3
    <3> QED
      BY <1>0, <3>1 DEF FreeOK
  <2> QED
    BY <2>4, <2>5, <2>6 DEF FreeOK
<1>3. CASE ScanHit
  <2>1. at \in used /\ at \in Slots
    BY <1>3 DEF ScanHit, IInv, LinkOK, TypeOK
  <2>2. used' = used \ {at} /\ free' = <<at>> \o free
    BY <1>3, <2>1 DEF ScanHit, Free
  <2>3. Len(free) \in Nat /\ Len(free') = Len(free) + 1 /\ free'[1] = at
    BY <1>0, <2>1, <2>2
  <2>4. \A k \in 1 .. Len(free) : free'[k + 1] = free[k]
    BY <1>0, <2>1, <2>2
  <2>5. \A k \in 1 .. Len(free') : k # 1 => k - 1 \in 1 .. Len(free) /\ free'[k] = free[k - 1]
    <3> SUFFICES ASSUME NEW k \in 1 .. Len(free'), k # 1 PROVE k - 1 \in 1 .. Len(free) /\ free'[k] = free[k - 1]
      OBVIOUS
    <3>1. k - 1 \in 1 .. Len(free) /\ (k - 1) + 1 = k
      BY <2>3
    <3> QED
      BY <2>4, <3>1
  <2>6. \A k \in 1 .. Len(free) : free[k] # at
    BY <1>0, <2>1 DEF FreeOK
  <2>7. \A k \in 1 .. Len(free') : free'[k] \notin used'
    BY <1>0, <2>2, <2>3, <2>5 DEF FreeOK
  <2>8. ASSUME NEW s \in Slots, s \notin used' PROVE \E k \in 1 .. Len(free') : free'[k] = s
    <3>1. CASE s = at
      BY <2>3, <3>1
    <3>2. CASE s # at
      <4>1. PICK k \in 1 .. Len(free) : free[k] = s
        BY <1>0, <2>2, <2>8, <3>2 DEF FreeOK
      <4>2. k + 1 \in 1 .. Len(free')
        BY <2>3
      <4> QED
        BY <2>4, <4>1, <4>2
    <3> QED
      BY <3>1, <3>2
  <2>9. \A k, l \in 1 .. Len(free') : free'[k] = free'[l] => k = l
    <3> SUFFICES ASSUME NEW k \in 1 .. Len(free'), NEW l \in 1 .. Len(free'), free'[k] = free'[l] PROVE k = l
      OBVIOUS
    <3>1. CASE k = 1 \/ l = 1
      BY <2>3, <2>5, <2>6, <3>1
    <3>2. CASE k # 1 /\ l # 1
      <4>1. k - 1 \in 1 .. Len(free) /\ l - 1 \in 1 .. Len(free) /\ free[k - 1] = free[l - 1]
        BY <2>5, <3>2
      <4>2. k - 1 = l - 1
        BY <1>0, <4>1 DEF FreeOK
      <4> QED
        BY <4>2, <2>3
    <3> QED
      BY <3>1, <3>2
  <2> QED
    BY <2>7, <2>8, <2>9 DEF FreeOK
<1> QED
  BY <1>1, <1>2, <1>3, Actions DEF Quiet, Accept, Data, ParamsEnd, StdinEnd, Idles, Turn, VMStart, VMFinish, VMFail, VMRedirect, Sends, VMAgain, vars

\* Table and pool stay in agreement.
LEMMA TableStep == IInv /\ [Next]_vars => TableOK'
<1> SUFFICES ASSUME IInv, [Next]_vars PROVE TableOK'
  OBVIOUS
<1>0. TypeOK /\ TableOK
  BY DEF IInv
<1>1. CASE UNCHANGED <<used, socket_id, Request_Table>>
  BY <1>0, <1>1 DEF TableOK, TableSound
<1>2. ASSUME NEW i \in Ids, BeginNew(i) PROVE TableOK'
  <2>1. NextSlot \in Slots /\ NextSlot \notin used
    BY <1>2, NextSlotFree DEF BeginNew
  <2>2. /\ Request_Table[i] = NoSlot
        /\ Request_Table' = [Request_Table EXCEPT ![i] = NextSlot]
        /\ used' = used \cup {NextSlot}
        /\ socket_id' = [socket_id EXCEPT ![NextSlot] = i]
    BY <1>2 DEF BeginNew, Admits
  <2>3. NoSlot \notin Slots
    BY SizesOK DEF NoSlot, Slots
  <2> QED
    BY <1>0, <2>1, <2>2, <2>3 DEF TableOK, TableSound, TypeOK
<1>3. CASE ScanHit
  <2>1. at \in used /\ at \in Slots
    BY <1>3 DEF ScanHit, IInv, LinkOK, TypeOK
  <2>2. /\ used' = used \ {at}
        /\ socket_id' = [socket_id EXCEPT ![at] = FreeLoc]
        /\ Request_Table' = [i \in Ids |-> IF i = socket_id[at] THEN NoSlot ELSE Request_Table[i]]
    BY <1>3, <2>1 DEF ScanHit, Free
  <2>3. NoSlot \notin Slots
    BY SizesOK DEF NoSlot, Slots
  <2> QED
    BY <1>0, <2>1, <2>2, <2>3 DEF TableOK, TableSound, TypeOK
<1> QED
  BY <1>1, <1>2, <1>3, Actions DEF Quiet, Accept, Data, ParamsEnd, StdinEnd, Idles, Turn, VMStart, VMFinish, VMFail, VMRedirect, Sends, VMAgain, vars, reqs, pool

\* The link: one answer, slot 0 in use while a request of the link waits, and
\* a scan that stands on a slot in use.
LEMMA LinkStep == IInv /\ [Next]_vars => LinkOK'
<1> SUFFICES ASSUME IInv, [Next]_vars PROVE LinkOK'
  OBVIOUS
<1>0. TypeOK /\ FreeOK /\ TableOK /\ LinkOK
  BY DEF IInv
<1>1. CASE UNCHANGED vars
  BY <1>0, <1>1 DEF LinkOK, vars, link, pool
<1>2. CASE Quiet
  <2>1. UNCHANGED <<used, free, Request_Table>>
    BY <1>2 DEF Quiet, pool
  <2>2. UNCHANGED <<answer, phase, mine>>
    BY <1>2 DEF Quiet, Write, Read, ReadFails, Timeout, BadRecord, ParseCut, ParseDone, ScanNext, BeginKnown, BeginThrows
  <2>3. answer # NoAnswer => pc' \in {"accept", "select"} /\ (pc' = "select" => link_stat' = "write_ready")
    BY <1>0, <1>2 DEF LinkOK, Quiet, Write, Read, ReadFails, Timeout, BadRecord, ParseCut, ParseDone, ScanNext, BeginKnown, BeginThrows, Close, ScanIfFinished
  <2>4. (link_stat' = "read_finished" /\ pc' \in {"select", "parse", "scan"}) => link_stat = "read_finished" /\ pc \in {"select", "parse", "scan"}
    BY <1>2 DEF Quiet, Write, Read, ReadFails, Timeout, BadRecord, ParseCut, ParseDone, ScanNext, BeginKnown, BeginThrows, Close, ScanIfFinished
  <2>5. pc' = "scan" => link_stat' = "read_finished" /\ at' \in used
    <3>1. CASE Timeout \/ ParseDone
      <4>1. pc' = "scan" => link_stat = "read_finished" /\ link_stat' = link_stat /\ at' = 0 /\ pc \in {"select", "parse"}
        BY <3>1 DEF Timeout, ParseDone, ScanIfFinished
      <4>2. (link_stat = "read_finished" /\ pc \in {"select", "parse"}) => answer = NoAnswer /\ \E i \in Ids : phase[i] # "none"
        BY <1>0 DEF LinkOK
      <4>3. (link_stat = "read_finished" /\ pc \in {"select", "parse"}) => 0 \in used
        BY <1>0, <4>2 DEF LinkOK
      <4> QED
        BY <4>1, <4>3
    <3>2. CASE ScanNext
      BY <1>0, <3>2 DEF LinkOK, ScanNext, Later
    <3>3. CASE Write \/ Read \/ ReadFails \/ BadRecord \/ ParseCut \/ \E i \in Ids : BeginKnown(i) \/ BeginThrows(i)
      BY <3>3 DEF Write, Read, ReadFails, BadRecord, ParseCut, BeginKnown, BeginThrows, Close
    <3> QED
      BY <1>2, <3>1, <3>2, <3>3 DEF Quiet
  <2> QED
    BY <1>0, <2>1, <2>2, <2>3, <2>4, <2>5 DEF LinkOK
<1>3. CASE Accept
  BY <1>0, <1>3 DEF LinkOK, Accept, pool
<1>4. ASSUME NEW i \in Ids, BeginNew(i) PROVE LinkOK'
  <2>1. NextSlot \in Slots /\ NextSlot \notin used /\ NextSlot = free[1]
    BY <1>4, NextSlotFree DEF BeginNew
  <2>2. answer = NoAnswer /\ pc = "parse"
    BY <1>0, <1>4 DEF BeginNew, LinkOK
  <2>3. 0 \in used'
    BY <1>0, <1>4, <2>1 DEF BeginNew, LinkOK
  <2>4. \A j \in Ids : phase'[j] # "none" => Request_Table'[j] \in used' /\ Request_Table'[j] \in mine'
    BY <1>0, <1>4, <2>2 DEF BeginNew, LinkOK, TypeOK
  <2>5. \E j \in Ids : phase'[j] # "none"
    BY <1>0, <1>4 DEF BeginNew, TypeOK
  <2>6. pc' = "parse" /\ answer' = NoAnswer
    BY <1>4, <2>2 DEF BeginNew, link
  <2> QED
    BY <2>3, <2>4, <2>5, <2>6 DEF LinkOK
<1>5. ASSUME NEW i \in Ids, Data(i) \/ ParamsEnd(i) PROVE LinkOK'
  <2>1. \A j \in Ids : phase'[j] # "none" <=> phase[j] # "none"
    BY <1>0, <1>5 DEF Data, ParamsEnd, TypeOK
  <2>2. UNCHANGED <<link, pool, Request_Table, mine>>
    BY <1>5 DEF Data, ParamsEnd
  <2> QED
    BY <1>0, <2>1, <2>2 DEF LinkOK, link, pool
<1>6. ASSUME NEW i \in Ids, NEW registered \in BOOLEAN, StdinEnd(i, registered) PROVE LinkOK'
  <2>1. \A j \in Ids : phase'[j] # "none" <=> phase[j] # "none"
    BY <1>0, <1>6 DEF StdinEnd, TypeOK
  <2>2. UNCHANGED <<pc, answer, pool, Request_Table, mine>> /\ pc = "parse" /\ phase[i] # "none"
    BY <1>6 DEF StdinEnd
  <2> QED
    BY <1>0, <2>1, <2>2 DEF LinkOK, pool
<1>7. CASE ScanHit
  <2>1. at \in used /\ at \in Slots /\ answer'.live = TRUE
    BY <1>0, <1>7 DEF ScanHit, LinkOK, TypeOK
  <2>2. answer' # NoAnswer /\ pc' = "select" /\ link_stat' = "write_ready"
    BY <1>7, <2>1 DEF ScanHit, NoAnswer
  <2>3. pc = "scan" /\ answer = NoAnswer /\ link_stat = "read_finished"
    BY <1>0, <1>7 DEF ScanHit, LinkOK
  <2>4. 0 \in used
    BY <1>0, <2>3 DEF LinkOK
  <2>5. free \in Seq(Slots) /\ free' = <<at>> \o free /\ used' = used \ {at}
    BY <1>0, <1>7, <2>1 DEF ScanHit, Free, TypeOK
  <2>6. free' # <<>> /\ free'[1] = at
    BY <2>1, <2>5
  <2>7. 0 \notin used' => free' # <<>> /\ free'[1] = 0
    BY <2>4, <2>5, <2>6
  <2> QED
    BY <2>2, <2>7 DEF LinkOK
<1>8. CASE Idles \/ Turn
  BY <1>0, <1>8 DEF LinkOK, Idles, Turn, VMStart, VMFinish, VMFail, VMRedirect, Sends, VMAgain, link, pool
<1> QED
  BY <1>1, <1>2, <1>3, <1>4, <1>5, <1>6, <1>7, <1>8, Actions

\* The marks of the requests.
LEMMA MarksStep == IInv /\ [Next]_vars => MarksOK'
<1> SUFFICES ASSUME IInv, [Next]_vars PROVE MarksOK'
  OBVIOUS
<1>0. TypeOK /\ TableOK /\ LinkOK /\ MarksOK /\ QueueOK
  BY DEF IInv
<1>1. CASE UNCHANGED vars \/ Quiet \/ Idles
  <2>1. UNCHANGED <<reqs, pool, phase, stray>>
    BY <1>1 DEF vars, Quiet, Idles, Write, Read, ReadFails, Timeout, BadRecord, ParseCut, ParseDone, ScanNext, BeginKnown, BeginThrows
  <2> QED
    BY <1>0, <2>1 DEF MarksOK, reqs, pool
<1>2. CASE Accept
  BY <1>0, <1>2 DEF MarksOK, TableOK, Accept, reqs, pool
<1>3. ASSUME NEW i \in Ids, BeginNew(i) PROVE MarksOK'
  <2>1. NextSlot \in Slots /\ NextSlot \notin used
    BY <1>3, NextSlotFree DEF BeginNew
  <2>2. \A s \in used : socket_id[s] \in Ids /\ socket_id[s] # i
    BY <1>0, <1>3, SizesOK DEF TableOK, TableSound, BeginNew, Admits, TypeOK, NoSlot, Slots
  <2>3. /\ used' = used \cup {NextSlot}
        /\ flag_fcgi'[NextSlot] = "begin_request" /\ stat'[NextSlot] = "read_ready"
        /\ ~stray' => ~stray
    BY <1>0, <1>3, <2>1 DEF BeginNew, TypeOK
  <2>4. \A s \in used :
          /\ phase'[socket_id'[s]] = phase[socket_id[s]]
          /\ flag_fcgi'[s] = flag_fcgi[s]
          /\ stat'[s] = stat[s]
          /\ (s \in out => s \in out')
    BY <1>0, <1>3, <2>1, <2>2 DEF BeginNew, TypeOK
  <2>5. \A s \in used' : s # NextSlot => s \in used
    BY <2>3
  <2>6. ASSUME NEW s \in used', flag_fcgi'[s] = "read_finished", phase'[socket_id'[s]] # "none"
        PROVE  phase'[socket_id'[s]] = "ended"
    <3>1. s \in used
      BY <2>3, <2>5, <2>6
    <3>2. flag_fcgi[s] = "read_finished" /\ phase[socket_id[s]] # "none"
      BY <2>4, <2>6, <3>1
    <3>3. phase[socket_id[s]] = "ended"
      BY <1>0, <3>1, <3>2 DEF MarksOK
    <3> QED
      BY <2>4, <3>1, <3>3
  <2>7. ASSUME ~stray', NEW s \in used'
        PROVE  /\ stat'[s] # "read_ready" => flag_fcgi'[s] = "read_finished"
               /\ stat'[s] = "write_ready" => s \in out'
    <3>1. CASE s = NextSlot
      BY <2>3, <3>1
    <3>2. CASE s # NextSlot
      <4>1. s \in used /\ ~stray
        BY <2>3, <2>5, <2>7, <3>2
      <4>2. /\ stat[s] # "read_ready" => flag_fcgi[s] = "read_finished"
            /\ stat[s] = "write_ready" => s \in out
        BY <1>0, <4>1 DEF MarksOK
      <4>3. flag_fcgi'[s] = flag_fcgi[s] /\ stat'[s] = stat[s] /\ (s \in out => s \in out')
        BY <2>4, <4>1
      <4> QED
        BY <4>2, <4>3
    <3> QED
      BY <3>1, <3>2
  <2> QED
    BY <2>6, <2>7 DEF MarksOK
<1>4. ASSUME NEW i \in Ids, Data(i) \/ ParamsEnd(i) PROVE MarksOK'
  <2> DEFINE t == Request_Table[i]
  <2>1. t \in used /\ t \in Slots /\ socket_id[t] = i
    BY <1>4, Lookup DEF Data, ParamsEnd
  <2>2. flag_fcgi[t] # "read_finished" /\ (~stray => stat[t] = "read_ready")
    BY <1>0, <1>4, <2>1 DEF MarksOK, Data, ParamsEnd
  <2>3. \A s \in used : s # t => socket_id[s] # i
    BY <1>0, <2>1 DEF TableOK, TableSound, TypeOK
  <2>4. \A s \in used : s # t => phase'[socket_id[s]] = phase[socket_id[s]] /\ flag_fcgi'[s] = flag_fcgi[s]
    BY <1>0, <1>4, <2>3 DEF Data, ParamsEnd, TypeOK, TableOK
  <2>5. flag_fcgi'[t] = "read_client" /\ UNCHANGED <<used, socket_id, stat, out, stray>>
    BY <1>0, <1>4, <2>1 DEF Data, ParamsEnd, TypeOK, pool
  <2> HIDE DEF t
  <2> QED
    BY <1>0, <2>1, <2>2, <2>4, <2>5 DEF MarksOK
<1>5. ASSUME NEW i \in Ids, NEW registered \in BOOLEAN, StdinEnd(i, registered) PROVE MarksOK'
  <2> DEFINE t == Request_Table[i]
  <2>1. t \in used /\ t \in Slots /\ socket_id[t] = i
    BY <1>5, Lookup DEF StdinEnd
  <2>2. \A s \in used : s # t => socket_id[s] # i
    BY <1>0, <2>1 DEF TableOK, TableSound, TypeOK
  <2>3. /\ flag_fcgi' = [flag_fcgi EXCEPT ![t] = "read_finished"]
        /\ phase' = [phase EXCEPT ![i] = "ended"]
        /\ UNCHANGED <<used, socket_id, stray>>
        /\ \/ stat' = [stat EXCEPT ![t] = "read_finished"] /\ out' = out
           \/ stat' = [stat EXCEPT ![t] = "write_ready"] /\ out' = out \cup {t}
    BY <1>5 DEF StdinEnd, pool
  <2> HIDE DEF t
  <2>4. \A s \in used : s # t => /\ phase'[socket_id[s]] = phase[socket_id[s]]
                                 /\ flag_fcgi'[s] = flag_fcgi[s]
                                 /\ stat'[s] = stat[s]
                                 /\ s \in out => s \in out'
    BY <1>0, <2>1, <2>2, <2>3 DEF TypeOK, TableOK
  <2>5. /\ phase'[socket_id[t]] = "ended"
        /\ flag_fcgi'[t] = "read_finished"
        /\ stat'[t] = "write_ready" => t \in out'
    BY <1>0, <2>1, <2>3 DEF TypeOK
  <2> QED
    BY <1>0, <2>1, <2>3, <2>4, <2>5 DEF MarksOK
<1>6. CASE ScanHit
  <2>1. at \in used /\ at \in Slots
    BY <1>0, <1>6 DEF ScanHit, LinkOK, TypeOK
  <2>2. /\ used' = used \ {at}
        /\ socket_id' = [socket_id EXCEPT ![at] = FreeLoc]
        /\ UNCHANGED <<stat, flag_fcgi, out, phase, stray>>
    BY <1>6, <2>1 DEF ScanHit, Free
  <2>3. \A s \in used' : s \in used /\ socket_id'[s] = socket_id[s]
    BY <1>0, <2>1, <2>2 DEF TypeOK
  <2> QED
    BY <1>0, <2>2, <2>3 DEF MarksOK
<1>7. CASE Turn
  <2> DEFINE h == Head(m_que)
  <2>1. m_que # <<>>
    BY <1>0, <1>7 DEF Turn, VMStart, VMFinish, VMFail, VMRedirect, Sends, VMAgain, QueueOK
  <2>2. h \in Slots /\ h = m_que[1] /\ Len(m_que) \in Nat \ {0}
    BY <2>1, FirstOfQueue
  <2>3. UNCHANGED <<used, socket_id, flag_fcgi, phase>>
    BY <1>7 DEF Turn, VMStart, VMFinish, VMFail, VMRedirect, Sends, VMAgain, reqs, pool
  <2>4. CASE VMStart
    BY <1>0, <2>3, <2>4 DEF VMStart, MarksOK, reqs
  <2>5. CASE VMFinish \/ VMFail \/ VMRedirect
    <3>1. ~stray => stat[h] = "read_finished" /\ h \in used
      BY <1>0, <2>2, <2>5 DEF VMFinish, VMFail, VMRedirect, Sends, QueueOK, QueueSound, Waiting
    <3>2. stat' = [stat EXCEPT ![h] = "write_ready"] /\ out' = out \cup {h} /\ stray' = stray
      BY <2>5 DEF VMFinish, VMFail, VMRedirect, Sends
    <3> HIDE DEF h
    <3> QED
      BY <1>0, <2>2, <2>3, <3>1, <3>2 DEF MarksOK, TypeOK
  <2>6. CASE VMAgain
    <3>1. ~stray' => ~stray /\ stat[h] = "write_ready"
      BY <2>6 DEF VMAgain
    <3>2. stat' = [stat EXCEPT ![h] = "write_ready"] /\ out' = out
      BY <2>6 DEF VMAgain
    <3> HIDE DEF h
    <3>3. ~stray' => stat' = stat
      BY <1>0, <2>2, <3>1, <3>2 DEF TypeOK
    <3> QED
      BY <1>0, <2>3, <3>1, <3>2, <3>3 DEF MarksOK
  <2> QED
    BY <1>7, <2>4, <2>5, <2>6 DEF Turn
<1> QED
  BY <1>1, <1>2, <1>3, <1>4, <1>5, <1>6, <1>7, Actions

\* The queue: what waits in it is in use, complete, and there once.
LEMMA QueueStep == IInv /\ [Next]_vars => QueueOK'
<1> SUFFICES ASSUME IInv, [Next]_vars PROVE QueueOK'
  OBVIOUS
<1>0. TypeOK /\ TableOK /\ LinkOK /\ MarksOK /\ QueueOK
  BY DEF IInv
<1>1. CASE UNCHANGED <<used, stat, m_que, vm, stray>>
  BY <1>0, <1>1 DEF QueueOK, QueueSound, Waiting
<1>2. ASSUME NEW i \in Ids, BeginNew(i) PROVE QueueOK'
  <2>1. NextSlot \in Slots /\ NextSlot \notin used
    BY <1>2, NextSlotFree DEF BeginNew
  <2>2. /\ used' = used \cup {NextSlot}
        /\ stat' = [stat EXCEPT ![NextSlot] = "read_ready"]
        /\ UNCHANGED <<m_que, vm>>
        /\ ~stray' => ~stray
    BY <1>2 DEF BeginNew
  <2>3. \A s \in used : s \in used' /\ stat'[s] = stat[s]
    BY <1>0, <2>1, <2>2 DEF TypeOK
  <2> QED
    BY <1>0, <2>2, <2>3 DEF QueueOK, QueueSound, Waiting
<1>3. ASSUME NEW i \in Ids, NEW registered \in BOOLEAN, StdinEnd(i, registered) PROVE QueueOK'
  <2> DEFINE t == Request_Table[i]
  <2>1. t \in used /\ t \in Slots
    BY <1>3, Lookup DEF StdinEnd
  <2>2. flag_fcgi[t] = "read_client" /\ (~stray => stat[t] = "read_ready")
    BY <1>0, <1>3, <2>1 DEF MarksOK, StdinEnd, Completes
  <2>3. /\ UNCHANGED <<used, stray>>
        /\ vm' = vm \/ (vm = "waiting" /\ vm' = "check")
        /\ \/ stat' = [stat EXCEPT ![t] = "read_finished"] /\ m_que' = Append(m_que, t)
           \/ stat' = [stat EXCEPT ![t] = "write_ready"] /\ m_que' = m_que
    BY <1>3 DEF StdinEnd, Push, pool
  <2> HIDE DEF t
  <2>4. m_que \in Seq(Slots) /\ Len(m_que) \in Nat
    BY <1>0 DEF TypeOK
  <2>5. Waiting \in Seq(Slots) /\ Len(Waiting) \in Nat
    <3>1. CASE vm \in {"again", "sent"}
      BY <1>0, <2>4, <3>1, FirstOfQueue DEF Waiting, QueueOK
    <3>2. CASE vm \notin {"again", "sent"}
      BY <2>4, <3>2 DEF Waiting
    <3> QED
      BY <3>1, <3>2
  <2>6. ~stray => \A k \in 1 .. Len(Waiting) : Waiting[k] # t /\ Waiting[k] \in used /\ stat'[Waiting[k]] = "read_finished"
    BY <1>0, <2>1, <2>2, <2>3, <2>5 DEF QueueOK, QueueSound, TypeOK
  <2>7. CASE m_que' = m_que
    <3>1. Waiting' = Waiting
      BY <2>3, <2>7 DEF Waiting
    <3> QED
      BY <1>0, <2>3, <2>6, <2>7, <3>1 DEF QueueOK, QueueSound
  <2>8. CASE m_que' = Append(m_que, t) /\ stat' = [stat EXCEPT ![t] = "read_finished"]
    <3>1. Waiting' = Append(Waiting, t)
      <4>1. CASE vm \in {"again", "sent"}
        <5>1. m_que # <<>>
          BY <1>0, <4>1 DEF QueueOK
        <5>2. Tail(Append(m_que, t)) = Append(Tail(m_que), t)
          BY <2>1, <2>4, <5>1
        <5> QED
          BY <2>3, <2>8, <4>1, <5>2 DEF Waiting
      <4>2. CASE vm \notin {"again", "sent"}
        BY <2>3, <2>8, <4>2 DEF Waiting
      <4> QED
        BY <4>1, <4>2
    <3>2. m_que' # <<>>
      BY <2>1, <2>4, <2>8
    <3>3. /\ Len(Waiting') = Len(Waiting) + 1
          /\ \A k \in 1 .. Len(Waiting) : Waiting'[k] = Waiting[k]
          /\ Waiting'[Len(Waiting) + 1] = t
      BY <2>1, <2>5, <3>1
    <3>4. stat'[t] = "read_finished"
      BY <1>0, <2>1, <2>8 DEF TypeOK
    <3>5. ~stray => \A k, l \in 1 .. Len(Waiting) : Waiting[k] = Waiting[l] => k = l
      BY <1>0 DEF QueueOK, QueueSound
    <3>6. \A k \in 1 .. Len(Waiting') : k \in 1 .. Len(Waiting) \/ k = Len(Waiting) + 1
      BY <2>5, <3>3
    <3>7. ~stray' => \A k \in 1 .. Len(Waiting') : Waiting'[k] \in used' /\ stat'[Waiting'[k]] = "read_finished"
      BY <2>1, <2>3, <2>6, <3>3, <3>4, <3>6
    <3>8. ~stray' => \A k, l \in 1 .. Len(Waiting') : Waiting'[k] = Waiting'[l] => k = l
      BY <2>3, <2>6, <3>3, <3>5, <3>6
    <3> QED
      BY <3>2, <3>7, <3>8 DEF QueueOK, QueueSound
  <2> QED
    BY <2>3, <2>7, <2>8
<1>4. CASE ScanHit
  <2>1. at \in used /\ at \in Slots /\ stat[at] = "write_ready"
    BY <1>0, <1>4 DEF ScanHit, LinkOK, TypeOK
  <2>2. used' = used \ {at} /\ UNCHANGED <<stat, m_que, vm, stray>>
    BY <1>4, <2>1 DEF ScanHit, Free
  <2> QED
    BY <1>0, <2>1, <2>2 DEF QueueOK, QueueSound, Waiting
<1>5. CASE Turn
  <2> DEFINE h == Head(m_que)
             rest == Tail(m_que)
  <2>1. m_que # <<>>
    BY <1>0, <1>5 DEF Turn, VMStart, VMFinish, VMFail, VMRedirect, Sends, VMAgain, QueueOK
  <2>2. /\ h \in Slots /\ h = m_que[1] /\ Len(m_que) \in Nat \ {0}
        /\ rest \in Seq(Slots) /\ Len(rest) = Len(m_que) - 1
        /\ \A k \in 1 .. Len(m_que) - 1 : rest[k] = m_que[k + 1]
    BY <2>1, FirstOfQueue
  <2>3. used' = used
    BY <1>5 DEF Turn, VMStart, VMFinish, VMFail, VMRedirect, Sends, VMAgain, pool
  <2> HIDE DEF h, rest
  <2>4. ASSUME vm \notin {"again", "sent"}, ~stray
        PROVE  /\ \A k \in 1 .. Len(rest) : rest[k] # h /\ rest[k] \in used /\ stat[rest[k]] = "read_finished"
               /\ \A k, l \in 1 .. Len(rest) : rest[k] = rest[l] => k = l
    <3>1. /\ \A k \in 1 .. Len(m_que) : m_que[k] \in used /\ stat[m_que[k]] = "read_finished"
          /\ \A k, l \in 1 .. Len(m_que) : m_que[k] = m_que[l] => k = l
      BY <1>0, <2>4 DEF QueueOK, QueueSound, Waiting
    <3>2. \A k \in 1 .. Len(rest) : k + 1 \in 1 .. Len(m_que) /\ k + 1 # 1 /\ rest[k] = m_que[k + 1]
      BY <2>2
    <3>3. 1 \in 1 .. Len(m_que)
      BY <2>2
    <3>4. ASSUME NEW k \in 1 .. Len(rest), NEW l \in 1 .. Len(rest), rest[k] = rest[l] PROVE k = l
      <4>1. k + 1 = l + 1
        BY <3>1, <3>2, <3>4
      <4> QED
        BY <4>1, <2>2
    <3> QED
      BY <2>2, <3>1, <3>2, <3>3, <3>4
  <2>5. CASE VMStart
    <3>1. CASE vm' = "run" /\ m_que' = m_que
      <4>1. UNCHANGED <<used, stat, m_que, stray>> /\ vm = "check"
        BY <2>3, <2>5, <3>1 DEF VMStart, reqs
      <4> QED
        BY <1>0, <2>1, <3>1, <4>1 DEF QueueOK, QueueSound, Waiting
    <3>2. CASE vm' = vm /\ m_que' = rest
      <4>1. UNCHANGED <<stat, stray>> /\ vm = "check"
        BY <2>5 DEF VMStart, reqs
      <4> QED
        BY <2>3, <2>4, <3>2, <4>1 DEF QueueOK, QueueSound, Waiting
    <3> QED
      BY <2>5, <3>1, <3>2 DEF VMStart, rest
  <2>6. CASE VMFinish
    <3>1. vm = "run" /\ vm' = "check" /\ m_que' = rest /\ stray' = stray /\ stat' = [stat EXCEPT ![h] = "write_ready"]
      BY <2>6 DEF VMFinish, h, rest
    <3>2. \A s \in used : s # h => stat'[s] = stat[s]
      BY <1>0, <3>1 DEF TypeOK
    <3> QED
      BY <2>3, <2>4, <3>1, <3>2 DEF QueueOK, QueueSound, Waiting
  <2>7. CASE VMFail \/ VMRedirect
    <3>1. vm = "run" /\ vm' \in {"again", "sent"} /\ m_que' = m_que /\ stray' = stray /\ stat' = [stat EXCEPT ![h] = "write_ready"]
      BY <2>7 DEF VMFail, VMRedirect, Sends, h
    <3>2. \A s \in used : s # h => stat'[s] = stat[s]
      BY <1>0, <3>1 DEF TypeOK
    <3>3. Waiting' = rest
      BY <3>1 DEF Waiting, rest
    <3> QED
      BY <2>1, <2>3, <2>4, <3>1, <3>2, <3>3 DEF QueueOK, QueueSound
  <2>8. CASE VMAgain
    <3>1. vm \in {"again", "sent"} /\ vm' = "check" /\ m_que' = rest /\ stat' = [stat EXCEPT ![h] = "write_ready"]
      BY <2>8 DEF VMAgain, h, rest
    <3>2. ~stray' => ~stray /\ stat[h] = "write_ready"
      BY <2>8 DEF VMAgain, h
    <3>3. ~stray' => stat' = stat
      BY <1>0, <2>2, <3>1, <3>2 DEF TypeOK
    <3>4. Waiting' = Waiting
      BY <3>1 DEF Waiting, rest
    <3> QED
      BY <1>0, <2>3, <3>1, <3>2, <3>3, <3>4 DEF QueueOK, QueueSound
  <2> QED
    BY <1>5, <2>5, <2>6, <2>7, <2>8 DEF Turn
<1>6. CASE Idles
  BY <1>0, <1>6 DEF QueueOK, QueueSound, Waiting, Idles, reqs, pool
<1> QED
  BY <1>1, <1>2, <1>3, <1>4, <1>5, <1>6, Actions DEF Quiet, Accept, Data, ParamsEnd, vars, reqs, pool

\* The link's answer.
LEMMA AnswerStep == IInv /\ [Next]_vars => OwnAnswers'
<1> SUFFICES ASSUME IInv, [Next]_vars PROVE OwnAnswers'
  OBVIOUS
<1>0. TypeOK /\ TableOK /\ LinkOK /\ MarksOK /\ OwnAnswers
  BY DEF IInv
<1>1. CASE UNCHANGED <<answer, phase>>
  <2>1. ~stray' => ~stray
    BY Actions DEF Quiet, Accept, BeginNew, Data, ParamsEnd, StdinEnd, ScanHit, Idles, Turn, VMStart, VMFinish, VMFail, VMRedirect, Sends, VMAgain, vars
  <2> QED
    BY <1>0, <1>1, <2>1 DEF OwnAnswers
<1>2. CASE answer' = NoAnswer
  BY <1>2 DEF OwnAnswers
<1>3. CASE ScanHit
  <2>1. at \in used /\ at \in Slots /\ stat[at] = "write_ready" /\ pc = "scan"
    BY <1>0, <1>3 DEF ScanHit, LinkOK, TypeOK
  <2>2. answer = NoAnswer /\ UNCHANGED <<phase, stray>>
    BY <1>0, <1>3, <2>1 DEF LinkOK, ScanHit
  <2> DEFINE i == socket_id[at]
  <2>3. i \in Ids /\ Request_Table[i] = at
    BY <1>0, <2>1 DEF TableOK, TableSound
  <2>4. answer'.id = i /\ answer'.live = TRUE /\ answer'.done = (at \in out) /\ answer'.mine = (at \in mine)
    BY <1>3, <2>1 DEF ScanHit
  <2>5. ~stray => at \in out /\ flag_fcgi[at] = "read_finished"
    BY <1>0, <2>1 DEF MarksOK
  <2>6. ~stray /\ phase[i] # "none" => phase[i] = "ended"
    BY <1>0, <2>1, <2>5 DEF MarksOK
  <2>7. phase[i] # "none" => at \in mine
    BY <1>0, <2>2, <2>3 DEF LinkOK
  <2> HIDE DEF i
  <2> QED
    BY <2>2, <2>3, <2>4, <2>5, <2>6, <2>7 DEF OwnAnswers
<1>4. CASE pc = "parse" /\ answer' = answer
  BY <1>0, <1>2, <1>4 DEF LinkOK
<1> QED
  BY <1>1, <1>2, <1>3, <1>4, Actions
     DEF Quiet, Write, Read, ReadFails, Timeout, BadRecord, ParseCut, ParseDone, ScanNext, BeginKnown, BeginThrows,
         Accept, BeginNew, Data, ParamsEnd, StdinEnd, Idles, Turn, VMStart, VMFinish, VMFail, VMRedirect, Sends, VMAgain, vars, link

-----------------------------------------------------------------------------
\* The inductive invariant of the FastCGI loop: the pool, the table, the link,
\* the marks and the queue fit together after every step of the two threads.
THEOREM FastCgiSafe == Spec => []IInv
<1>1. IInv /\ [Next]_vars => IInv'
  BY TypeStep, FreeStep, TableStep, LinkStep, MarksStep, QueueStep, AnswerStep DEF IInv
<1> QED
  BY InitOK, <1>1, PTL DEF Spec

\* Request_Table and the pool never disagree: no id leads to a slot that is
\* free or another request's, across any number of links.
THEOREM TableAlwaysSound == Spec => []TableSound
<1>1. IInv => TableSound
  BY DEF IInv, TableOK
<1> QED
  BY FastCgiSafe, <1>1, PTL

\* The loop never frees a request that waits for the VM thread, and none waits
\* twice, as long as no second mark has gone astray.
THEOREM QueueAlwaysSound == Spec => []QueueSound
<1>1. IInv => QueueSound
  BY DEF IInv, QueueOK
<1> QED
  BY FastCgiSafe, <1>1, PTL

\* What a link sends is the finished answer of a request in use, never one of
\* an old link under the id of a request of this one.
THEOREM AnswersAreOwn == Spec => []OwnAnswers
<1>1. IInv => OwnAnswers
  BY DEF IInv
<1> QED
  BY FastCgiSafe, <1>1, PTL

\* The variables keep their types.
THEOREM FastCgiTypes == Spec => []TypeOK
<1>1. IInv => TypeOK
  BY DEF IInv
<1> QED
  BY FastCgiSafe, <1>1, PTL

=============================================================================
