-------------------------- MODULE WebServerProofs --------------------------
(***************************************************************************)
(* Theorems about the threads of the web server, for any number of         *)
(* sockets, any pool size, time-out and keep-alive limit, and for both     *)
(* kinds of condition variable.                                            *)
(***************************************************************************)
EXTENDS WebServer, SequenceTheorems, TLAPS

(* Removing the i-th element shifts the later ones down by one.            *)
LEMMA RemoveAtFacts ==
    ASSUME NEW S, NEW q \in Seq(S), NEW i \in 1 .. Len(q)
    PROVE  /\ RemoveAt(q, i) \in Seq(S)
           /\ Len(RemoveAt(q, i)) = Len(q) - 1
           /\ \A k \in 1 .. Len(q) - 1 :
                 RemoveAt(q, i)[k] = IF k < i THEN q[k] ELSE q[k + 1]
<1> DEFINE a == SubSeq(q, 1, i - 1)
           b == SubSeq(q, i + 1, Len(q))
<1>1. /\ a \in Seq(S) /\ Len(a) = i - 1
      /\ \A k \in 1 .. i - 1 : a[k] = q[k]
  OBVIOUS
<1>2. /\ b \in Seq(S) /\ Len(b) = Len(q) - i
      /\ \A k \in 1 .. Len(q) - i : b[k] = q[k + i]
  OBVIOUS
<1> HIDE DEF a, b
<1>3. RemoveAt(q, i) = a \o b
  BY DEF RemoveAt, a, b
<1>4. /\ a \o b \in Seq(S)
      /\ Len(a \o b) = Len(q) - 1
      /\ \A k \in 1 .. Len(q) - 1 :
            (a \o b)[k] = IF k < i THEN a[k] ELSE b[k - (i - 1)]
  BY <1>1, <1>2
<1>5. \A k \in 1 .. Len(q) - 1 :
          (a \o b)[k] = IF k < i THEN q[k] ELSE q[k + 1]
  BY <1>1, <1>2, <1>4
<1>6. QED
  BY <1>3, <1>4, <1>5

-----------------------------------------------------------------------------
(* Type correctness.  Four facts are needed beside the types themselves:   *)
(* what was never a client's descriptor counts as closed, a slot in m_que  *)
(* has a socket, and the VM inside vm_exec, like insert_request at work,   *)
(* has a client.                                                           *)
Holds ==
    /\ None \in shut
    /\ \A i \in DOMAIN que : sock[que[i]] \in Socks
    /\ vmPc \in {"run", "sent", "close", "again", "erase"} => que # <<>>
    /\ vmPc \in {"run", "sent", "close", "again"} => vmFor \in Socks
    /\ accPc # "idle" => accFor \in Socks

TypeInv == TypeOK /\ Holds

(* The slot an I/O step works on.                                          *)
LEMMA ConnFacts ==
    ASSUME TypeInv, ioPos <= Len(connList)
    PROVE  /\ Conn \in Slots /\ sock[Conn] \in Socks \union {None}
           /\ Open(Conn) => sock[Conn] \in Socks
           /\ Owner(Conn) \in Socks \union {None}
BY DEF TypeInv, Holds, TypeOK, ConnTypeOK, IOTypeOK, AccTypeOK, Conn, Open, Owner, Inserting

(* The slot the VM works on.                                               *)
LEMMA CurrentFacts ==
    ASSUME TypeInv, que # <<>>
    PROVE  /\ Current \in Slots /\ sock[Current] \in Socks
           /\ Tail(que) \in Seq(Slots)
           /\ Len(Tail(que)) = Len(que) - 1
           /\ \A i \in 1 .. Len(que) - 1 : Tail(que)[i] = que[i + 1]
BY DEF TypeInv, Holds, TypeOK, ConnTypeOK, VMTypeOK, Current

LEMMA TypeInvInit == Init => TypeInv
<1> SUFFICES ASSUME Init PROVE TypeInv
  OBVIOUS
<1>1. free \in Seq(Slots)
  <2>1. \A i \in 1 .. NSlots : i - 1 \in Slots
    BY ConstantsAssumption DEF Slots
  <2>2. QED
    BY <2>1, ConstantsAssumption DEF Init
<1>2. ConnTypeOK
  <2>1. age \in [Slots -> 0 .. TimeOut + 1]
    BY ConstantsAssumption DEF Init
  <2>2. QED
    BY <1>1, <2>1, ConstantsAssumption DEF Init, ConnTypeOK
<1>3. IOTypeOK
  BY DEF Init, IOTypeOK
<1>4. VMTypeOK
  <2>1. event \in BOOLEAN /\ vmClose \in BOOLEAN
    BY Zenon DEF Init
  <2>2. que \in Seq(Slots) /\ vmPc = "enter" /\ vmFor = None
    BY DEF Init
  <2>3. QED
    BY <2>1, <2>2 DEF VMTypeOK
<1>5. AccTypeOK
  BY ConstantsAssumption DEF Init, AccTypeOK, Slots
<1>6. HistTypeOK
  BY DEF Init, HistTypeOK, Fate
<1>7. Holds
  BY DEF Init, Holds
<1>8. QED
  BY <1>2, <1>3, <1>4, <1>5, <1>6, <1>7 DEF TypeInv, TypeOK

LEMMA TypeInvNext == TypeInv /\ [Next]_vars => TypeInv'
<1> SUFFICES ASSUME TypeInv, [Next]_vars PROVE TypeInv'
  OBVIOUS
<1> USE ConstantsAssumption DEF TypeInv, TypeOK
<1>1. CASE Tick
  <2>1. ConnTypeOK'
    BY <1>1 DEF Tick, ConnTypeOK, connVars
  <2>2. IOTypeOK'
    BY <1>1 DEF Tick, IOTypeOK, ioVars
  <2>3. VMTypeOK'
    BY <1>1 DEF Tick, VMTypeOK, vmVars
  <2>4. AccTypeOK'
    BY <1>1 DEF Tick, AccTypeOK, accVars
  <2>5. HistTypeOK'
    BY <1>1 DEF Tick, HistTypeOK, hist
  <2>6. Holds'
    BY <1>1 DEF Tick, Holds, connVars, vmVars, accVars, hist
  <2>7. QED
    BY <2>1, <2>2, <2>3, <2>4, <2>5, <2>6
<1>2. ASSUME NEW c \in Socks, Insert(c) PROVE TypeInv'
  <2>0. Head(free) \in Slots /\ Tail(free) \in Seq(Slots) /\ connList' \in Seq(Slots)
    BY <1>2 DEF Insert, ConnTypeOK
  <2>1. ConnTypeOK'
    BY <1>2, <2>0 DEF Insert, ConnTypeOK, connVars
  <2>2. IOTypeOK'
    BY <1>2, <2>0 DEF Insert, IOTypeOK, ioVars
  <2>3. VMTypeOK'
    BY <1>2, <2>0 DEF Insert, VMTypeOK, vmVars
  <2>4. AccTypeOK'
    BY <1>2, <2>0 DEF Insert, AccTypeOK, accVars
  <2>5. HistTypeOK'
    BY <1>2 DEF Insert, HistTypeOK, Fate
  <2>6. Holds'
    BY <1>2, <2>0 DEF Insert, Holds, connVars, vmVars, accVars, hist
  <2>7. QED
    BY <2>1, <2>2, <2>3, <2>4, <2>5, <2>6
<1>3. CASE InitConn
  <2>1. ConnTypeOK'
    <3>1. 0 \in 0 .. TimeOut + 1 /\ 0 \in 0 .. MaxReads /\ 0 \in 0 .. MaxWrites
      OBVIOUS
    <3>2. accSlot \in Slots
      BY DEF AccTypeOK
    <3>3. QED
      BY <1>3, <3>1, <3>2 DEF InitConn, BufferInit, ConnTypeOK, LinkStat
  <2>2. IOTypeOK'
    BY <1>3 DEF InitConn, BufferInit, IOTypeOK, ioVars
  <2>3. VMTypeOK'
    BY <1>3 DEF InitConn, BufferInit, VMTypeOK, vmVars
  <2>4. AccTypeOK'
    BY <1>3 DEF InitConn, BufferInit, AccTypeOK, accVars
  <2>5. HistTypeOK'
    BY <1>3 DEF InitConn, BufferInit, HistTypeOK, hist
  <2>6. Holds'
    BY <1>3 DEF InitConn, BufferInit, Holds, connVars, vmVars, accVars, hist
  <2>7. QED
    BY <2>1, <2>2, <2>3, <2>4, <2>5, <2>6
<1>4. CASE SetSocket
  <2>0. /\ accSlot \in Slots /\ accFor \in Socks /\ 0 \in Slots
        /\ sock' = [sock EXCEPT ![accSlot] = accFor]
    BY <1>4 DEF SetSocket, AccTypeOK, Holds, Slots
  <2>1. ConnTypeOK'
    BY <1>4, <2>0 DEF SetSocket, ConnTypeOK, connVars
  <2>2. IOTypeOK'
    BY <1>4, <2>0 DEF SetSocket, IOTypeOK, ioVars
  <2>3. VMTypeOK'
    BY <1>4, <2>0 DEF SetSocket, VMTypeOK, vmVars
  <2>4. AccTypeOK'
    BY <1>4, <2>0 DEF SetSocket, AccTypeOK, accVars
  <2>5. HistTypeOK'
    BY <1>4, <2>0 DEF SetSocket, HistTypeOK, hist
  <2>6. Holds'
    <3>1. \A s \in Slots : sock[s] \in Socks => sock'[s] \in Socks
      BY <2>0 DEF ConnTypeOK
    <3>2. \A i \in DOMAIN que : que[i] \in Slots
      BY DEF VMTypeOK
    <3>3. QED
      BY <1>4, <3>1, <3>2 DEF SetSocket, Holds, vmVars, hist
  <2>7. QED
    BY <2>1, <2>2, <2>3, <2>4, <2>5, <2>6
<1>5. CASE CloseConn
  <2>0. /\ Conn \in Slots /\ sock[Conn] \in Socks \union {None}
        /\ ioPos \in 1 .. Len(connList)
    BY <1>5, ConnFacts DEF CloseConn, AtConn, IOTypeOK
  <2>1. ConnTypeOK'
    <3>1. connList' \in Seq(Slots)
      BY <1>5, <2>0, RemoveAtFacts DEF CloseConn, Erased, ConnTypeOK
    <3>2. free' \in Seq(Slots)
      BY <1>5, <2>0 DEF CloseConn, ConnTypeOK
    <3>3. QED
      BY <1>5, <3>1, <3>2 DEF CloseConn, ConnTypeOK
  <2>2. IOTypeOK'
    BY <1>5, <2>0 DEF CloseConn, Erased, Touch, IOTypeOK, ioVars
  <2>3. VMTypeOK'
    BY <1>5, <2>0 DEF CloseConn, Erased, Touch, VMTypeOK, vmVars
  <2>4. AccTypeOK'
    BY <1>5, <2>0 DEF CloseConn, Erased, Touch, AccTypeOK, accVars
  <2>5. HistTypeOK'
    <3>1. fate' \in [Socks -> Fate]
      BY <1>5 DEF CloseConn, HistTypeOK, Fate
    <3>2. InQueue(Conn) \in BOOLEAN /\ Inserting(Conn) \in BOOLEAN
      BY DEF InQueue, Inserting
    <3>3. overrun' \in BOOLEAN /\ torn' \in BOOLEAN
      BY <1>5, <3>2, Zenon DEF CloseConn, HistTypeOK
    <3>4. QED
      BY <1>5, <2>0, <3>1, <3>3 DEF CloseConn, HistTypeOK
  <2>6. Holds'
    BY <1>5, <2>0 DEF CloseConn, Erased, Touch, Holds, connVars, vmVars, accVars, hist
  <2>7. QED
    BY <2>1, <2>2, <2>3, <2>4, <2>5, <2>6
<1>6. CASE WatchConn
  <2>0. /\ Conn \in Slots /\ sock[Conn] \in Socks \union {None}
        /\ Open(Conn) => sock[Conn] \in Socks
    BY <1>6, ConnFacts DEF WatchConn, AtConn
  <2>1. ConnTypeOK'
    BY <1>6, <2>0 DEF WatchConn, ConnTypeOK, connVars
  <2>2. IOTypeOK'
    BY <1>6, <2>0 DEF WatchConn, IOTypeOK, ioVars
  <2>3. VMTypeOK'
    BY <1>6, <2>0 DEF WatchConn, VMTypeOK, vmVars
  <2>4. AccTypeOK'
    BY <1>6, <2>0 DEF WatchConn, AccTypeOK, accVars
  <2>5. HistTypeOK'
    BY <1>6, <2>0 DEF WatchConn, HistTypeOK, hist
  <2>6. Holds'
    BY <1>6, <2>0 DEF WatchConn, Holds, connVars, vmVars, accVars, hist
  <2>7. QED
    BY <2>1, <2>2, <2>3, <2>4, <2>5, <2>6
<1>7. CASE Select
  <2>1. ConnTypeOK'
    BY <1>7 DEF Select, ConnTypeOK, connVars
  <2>2. IOTypeOK'
    BY <1>7 DEF Select, IOTypeOK, ioVars
  <2>3. VMTypeOK'
    BY <1>7 DEF Select, VMTypeOK, vmVars
  <2>4. AccTypeOK'
    BY <1>7 DEF Select, AccTypeOK, accVars
  <2>5. HistTypeOK'
    BY <1>7 DEF Select, HistTypeOK, hist
  <2>6. Holds'
    BY <1>7 DEF Select, Holds, connVars, vmVars, accVars, hist
  <2>7. QED
    BY <2>1, <2>2, <2>3, <2>4, <2>5, <2>6
<1>8. CASE ReadError
  <2>0. /\ Conn \in Slots /\ sock[Conn] \in Socks \union {None}
        /\ Open(Conn) => sock[Conn] \in Socks
    BY <1>8, ConnFacts DEF ReadError, Readable, AtConn
  <2>1. ConnTypeOK'
    BY <1>8, <2>0 DEF ReadError, ConnTypeOK, LinkStat
  <2>2. IOTypeOK'
    BY <1>8, <2>0 DEF ReadError, IOTypeOK, ioVars
  <2>3. VMTypeOK'
    BY <1>8, <2>0 DEF ReadError, VMTypeOK, vmVars
  <2>4. AccTypeOK'
    BY <1>8, <2>0 DEF ReadError, AccTypeOK, accVars
  <2>5. HistTypeOK'
    <3>1. torn' \in BOOLEAN
      BY <1>8, Zenon DEF ReadError, Touch, Inserting, HistTypeOK
    <3>2. QED
      BY <1>8, <2>0, <3>1 DEF ReadError, HistTypeOK, Fate, Fails
  <2>6. Holds'
    BY <1>8, <2>0 DEF ReadError, Holds, connVars, vmVars, accVars, hist
  <2>7. QED
    BY <2>1, <2>2, <2>3, <2>4, <2>5, <2>6
<1>9. CASE ReadMore
  <2>0. /\ Conn \in Slots /\ sock[Conn] \in Socks \union {None}
        /\ Open(Conn) => sock[Conn] \in Socks
    BY <1>9, ConnFacts DEF ReadMore, Readable, AtConn
  <2>1. ConnTypeOK'
    <3>1. reads' \in [Slots -> 0 .. MaxReads]
      <4>1. reads[Conn] \in Nat /\ reads[Conn] + 1 \in 0 .. MaxReads
        BY <1>9, <2>0 DEF ReadMore, ConnTypeOK
      <4>2. QED
        BY <1>9, <4>1 DEF ReadMore, ConnTypeOK
    <3>2. age' \in [Slots -> 0 .. TimeOut + 1]
      <4>1. 0 \in 0 .. TimeOut + 1
        OBVIOUS
      <4>2. QED
        BY <1>9, <4>1 DEF ReadMore, ConnTypeOK
    <3>3. QED
      BY <1>9, <3>1, <3>2 DEF ReadMore, ConnTypeOK
  <2>2. IOTypeOK'
    BY <1>9, <2>0 DEF ReadMore, IOTypeOK, ioVars
  <2>3. VMTypeOK'
    BY <1>9, <2>0 DEF ReadMore, VMTypeOK, vmVars
  <2>4. AccTypeOK'
    BY <1>9, <2>0 DEF ReadMore, AccTypeOK, accVars
  <2>5. HistTypeOK'
    <3>1. torn' \in BOOLEAN
      BY <1>9, Zenon DEF ReadMore, Touch, Inserting, HistTypeOK
    <3>2. QED
      BY <1>9, <2>0, <3>1 DEF ReadMore, HistTypeOK, Fate
  <2>6. Holds'
    BY <1>9, <2>0 DEF ReadMore, Holds, connVars, vmVars, accVars, hist
  <2>7. QED
    BY <2>1, <2>2, <2>3, <2>4, <2>5, <2>6
<1>10. CASE ReadScript
  <2>0. /\ Conn \in Slots /\ sock[Conn] \in Socks \union {None}
        /\ Open(Conn) => sock[Conn] \in Socks
    BY <1>10, ConnFacts DEF ReadScript, Readable, AtConn
  <2>1. ConnTypeOK'
    BY <1>10, <2>0 DEF ReadScript, ConnTypeOK, LinkStat
  <2>2. IOTypeOK'
    BY <1>10, <2>0 DEF ReadScript, IOTypeOK, ioVars
  <2>3. VMTypeOK'
    BY <1>10, <2>0 DEF ReadScript, VMTypeOK, vmVars
  <2>4. AccTypeOK'
    BY <1>10, <2>0 DEF ReadScript, AccTypeOK, accVars
  <2>5. HistTypeOK'
    <3>1. torn' \in BOOLEAN
      BY <1>10, Zenon DEF ReadScript, Touch, Inserting, HistTypeOK
    <3>2. QED
      BY <1>10, <2>0, <3>1 DEF ReadScript, HistTypeOK, Fate
  <2>6. Holds'
    <3>1. /\ Len(que') = Len(que) + 1 /\ que' # <<>>
          /\ \A i \in 1 .. Len(que) + 1 :
                que'[i] = IF i <= Len(que) THEN que[i] ELSE Conn
      BY <1>10, <2>0 DEF ReadScript, VMTypeOK
    <3>2. sock[Conn] \in Socks
      BY <1>10, <2>0 DEF ReadScript
    <3>3. \A i \in DOMAIN que' : sock[que'[i]] \in Socks
      BY <2>3, <3>1, <3>2 DEF Holds, VMTypeOK
    <3>4. QED
      BY <1>10, <3>1, <3>3 DEF ReadScript, Holds, vmVars, accVars
  <2>7. QED
    BY <2>1, <2>2, <2>3, <2>4, <2>5, <2>6
<1>11. CASE Active
  <2>1. ConnTypeOK'
    BY <1>11 DEF Active, ConnTypeOK, connVars
  <2>2. IOTypeOK'
    BY <1>11 DEF Active, IOTypeOK, ioVars
  <2>3. VMTypeOK'
    BY <1>11 DEF Active, VMTypeOK, vmVars
  <2>4. AccTypeOK'
    BY <1>11 DEF Active, AccTypeOK, accVars
  <2>5. HistTypeOK'
    BY <1>11 DEF Active, HistTypeOK, hist
  <2>6. Holds'
    BY <1>11 DEF Active, Holds, connVars, vmVars, accVars, hist
  <2>7. QED
    BY <2>1, <2>2, <2>3, <2>4, <2>5, <2>6
<1>12. CASE ReadDefault
  <2>0. /\ Conn \in Slots /\ sock[Conn] \in Socks \union {None}
        /\ Open(Conn) => sock[Conn] \in Socks
    BY <1>12, ConnFacts DEF ReadDefault, Readable, AtConn
  <2>1. ConnTypeOK'
    <3>1. stat' \in [Slots -> LinkStat]
      BY <1>12, <2>0 DEF ReadDefault, ConnTypeOK, LinkStat
    <3>2. age' \in [Slots -> 0 .. TimeOut + 1]
      <4>1. 0 \in 0 .. TimeOut + 1
        OBVIOUS
      <4>2. QED
        BY <1>12, <4>1 DEF ReadDefault, ConnTypeOK
    <3>3. left' \in [Slots -> 0 .. MaxWrites]
      BY <1>12, <2>0 DEF ReadDefault, ConnTypeOK, AllSent
    <3>4. out' \in [Slots -> SUBSET Socks]
      BY <1>12, <2>0 DEF ReadDefault, ConnTypeOK
    <3>5. QED
      BY <1>12, <3>1, <3>2, <3>3, <3>4 DEF ReadDefault, ConnTypeOK
  <2>2. IOTypeOK'
    BY <1>12, <2>0 DEF ReadDefault, IOTypeOK, ioVars
  <2>3. VMTypeOK'
    BY <1>12, <2>0 DEF ReadDefault, VMTypeOK, vmVars
  <2>4. AccTypeOK'
    BY <1>12, <2>0 DEF ReadDefault, AccTypeOK, accVars
  <2>5. HistTypeOK'
    <3>1. torn' \in BOOLEAN
      BY <1>12, Zenon DEF ReadDefault, Touch, Inserting, HistTypeOK
    <3>2. QED
      BY <1>12, <2>0, <3>1 DEF ReadDefault, HistTypeOK, Fate
  <2>6. Holds'
    BY <1>12, <2>0 DEF ReadDefault, Holds, connVars, vmVars, accVars, hist
  <2>7. QED
    BY <2>1, <2>2, <2>3, <2>4, <2>5, <2>6
<1>13. CASE ReadHead
  <2>0. /\ Conn \in Slots /\ sock[Conn] \in Socks \union {None}
        /\ Open(Conn) => sock[Conn] \in Socks
    BY <1>13, ConnFacts DEF ReadHead, Readable, AtConn
  <2>1. ConnTypeOK'
    <3>1. stat' \in [Slots -> LinkStat]
      BY <1>13, <2>0 DEF ReadHead, ConnTypeOK, LinkStat
    <3>2. age' \in [Slots -> 0 .. TimeOut + 1]
      <4>1. 0 \in 0 .. TimeOut + 1
        OBVIOUS
      <4>2. QED
        BY <1>13, <4>1 DEF ReadHead, ConnTypeOK
    <3>3. left' \in [Slots -> 0 .. MaxWrites]
      BY <1>13, <2>0 DEF ReadHead, ConnTypeOK, AllSent
    <3>4. out' \in [Slots -> SUBSET Socks]
      BY <1>13, <2>0 DEF ReadHead, ConnTypeOK
    <3>5. QED
      BY <1>13, <3>1, <3>2, <3>3, <3>4 DEF ReadHead, ConnTypeOK
  <2>2. IOTypeOK'
    BY <1>13, <2>0 DEF ReadHead, IOTypeOK, ioVars
  <2>3. VMTypeOK'
    BY <1>13, <2>0 DEF ReadHead, VMTypeOK, vmVars
  <2>4. AccTypeOK'
    BY <1>13, <2>0 DEF ReadHead, AccTypeOK, accVars
  <2>5. HistTypeOK'
    <3>1. torn' \in BOOLEAN
      BY <1>13, Zenon DEF ReadHead, Touch, Inserting, HistTypeOK
    <3>2. QED
      BY <1>13, <2>0, <3>1 DEF ReadHead, HistTypeOK, Fate
  <2>6. Holds'
    BY <1>13, <2>0 DEF ReadHead, Holds, connVars, vmVars, accVars, hist
  <2>7. QED
    BY <2>1, <2>2, <2>3, <2>4, <2>5, <2>6
<1>14. CASE WriteMore
  <2>0. /\ Conn \in Slots /\ sock[Conn] \in Socks \union {None}
        /\ Open(Conn) => sock[Conn] \in Socks
    BY <1>14, ConnFacts DEF WriteMore, Writable, AtConn
  <2>1. ConnTypeOK'
    <3>1. stat' \in [Slots -> LinkStat]
      BY <1>14, <2>0 DEF WriteMore, ConnTypeOK, LinkStat
    <3>2. age' \in [Slots -> 0 .. TimeOut + 1]
      <4>1. 0 \in 0 .. TimeOut + 1
        OBVIOUS
      <4>2. QED
        BY <1>14, <4>1 DEF WriteMore, ConnTypeOK
    <3>3. left' \in [Slots -> 0 .. MaxWrites]
      BY <1>14, <2>0 DEF WriteMore, ConnTypeOK, AllSent
    <3>4. out' \in [Slots -> SUBSET Socks]
      BY <1>14, <2>0 DEF WriteMore, ConnTypeOK
    <3>5. QED
      BY <1>14, <3>1, <3>2, <3>3, <3>4 DEF WriteMore, ConnTypeOK
  <2>2. IOTypeOK'
    BY <1>14, <2>0 DEF WriteMore, AllSent, IOTypeOK, ioVars
  <2>3. VMTypeOK'
    BY <1>14, <2>0 DEF WriteMore, AllSent, VMTypeOK, vmVars
  <2>4. AccTypeOK'
    BY <1>14, <2>0 DEF WriteMore, AllSent, AccTypeOK, accVars
  <2>5. HistTypeOK'
    <3>1. torn' \in BOOLEAN
      BY <1>14, Zenon DEF WriteMore, Touch, Inserting, HistTypeOK
    <3>2. QED
      BY <1>14, <2>0, <3>1 DEF WriteMore, HistTypeOK, Fate
  <2>6. Holds'
    BY <1>14, <2>0 DEF WriteMore, AllSent, Holds, connVars, vmVars, accVars, hist
  <2>7. QED
    BY <2>1, <2>2, <2>3, <2>4, <2>5, <2>6
<1>15. CASE WriteDone
  <2>0. /\ Conn \in Slots /\ sock[Conn] \in Socks \union {None}
        /\ Open(Conn) => sock[Conn] \in Socks
    BY <1>15, ConnFacts DEF WriteDone, Writable, AtConn
  <2>1. ConnTypeOK'
    <3>1. stat' \in [Slots -> LinkStat]
      BY <1>15, <2>0 DEF WriteDone, ConnTypeOK, LinkStat
    <3>2. age' \in [Slots -> 0 .. TimeOut + 1]
      <4>1. 0 \in 0 .. TimeOut + 1
        OBVIOUS
      <4>2. QED
        BY <1>15, <4>1 DEF WriteDone, ConnTypeOK
    <3>3. left' \in [Slots -> 0 .. MaxWrites]
      BY <1>15, <2>0 DEF WriteDone, ConnTypeOK, AllSent
    <3>4. out' \in [Slots -> SUBSET Socks]
      BY <1>15, <2>0 DEF WriteDone, ConnTypeOK
    <3>5. QED
      BY <1>15, <3>1, <3>2, <3>3, <3>4 DEF WriteDone, ConnTypeOK
  <2>2. IOTypeOK'
    BY <1>15, <2>0 DEF WriteDone, AllSent, IOTypeOK, ioVars
  <2>3. VMTypeOK'
    BY <1>15, <2>0 DEF WriteDone, AllSent, VMTypeOK, vmVars
  <2>4. AccTypeOK'
    BY <1>15, <2>0 DEF WriteDone, AllSent, AccTypeOK, accVars
  <2>5. HistTypeOK'
    <3>1. torn' \in BOOLEAN
      BY <1>15, Zenon DEF WriteDone, Touch, Inserting, HistTypeOK
    <3>2. fate' \in [Socks -> Fate]
      BY <1>15, <2>0 DEF WriteDone, HistTypeOK, Fate
    <3>3. got' \in [Socks -> SUBSET Socks]
      <4>1. out[Conn] \subseteq Socks
        BY <2>0 DEF ConnTypeOK
      <4>2. QED
        BY <1>15, <2>0, <4>1 DEF WriteDone, HistTypeOK
    <3>4. QED
      BY <1>15, <3>1, <3>2, <3>3 DEF WriteDone, HistTypeOK
  <2>6. Holds'
    BY <1>15, <2>0 DEF WriteDone, AllSent, Holds, connVars, vmVars, accVars, hist
  <2>7. QED
    BY <2>1, <2>2, <2>3, <2>4, <2>5, <2>6
<1>16. CASE WriteError
  <2>0. /\ Conn \in Slots /\ sock[Conn] \in Socks \union {None}
        /\ Open(Conn) => sock[Conn] \in Socks
    BY <1>16, ConnFacts DEF WriteError, Writable, AtConn
  <2>1. ConnTypeOK'
    BY <1>16, <2>0 DEF WriteError, ConnTypeOK, LinkStat
  <2>2. IOTypeOK'
    BY <1>16, <2>0 DEF WriteError, IOTypeOK, ioVars
  <2>3. VMTypeOK'
    BY <1>16, <2>0 DEF WriteError, VMTypeOK, vmVars
  <2>4. AccTypeOK'
    BY <1>16, <2>0 DEF WriteError, AccTypeOK, accVars
  <2>5. HistTypeOK'
    <3>1. torn' \in BOOLEAN
      BY <1>16, Zenon DEF WriteError, Touch, Inserting, HistTypeOK
    <3>2. QED
      BY <1>16, <2>0, <3>1 DEF WriteError, HistTypeOK, Fate, Fails
  <2>6. Holds'
    BY <1>16, <2>0 DEF WriteError, Holds, connVars, vmVars, accVars, hist
  <2>7. QED
    BY <2>1, <2>2, <2>3, <2>4, <2>5, <2>6
<1>17. CASE SkipConn
  <2>1. ConnTypeOK'
    BY <1>17 DEF SkipConn, ConnTypeOK, connVars
  <2>2. IOTypeOK'
    BY <1>17 DEF SkipConn, IOTypeOK, ioVars
  <2>3. VMTypeOK'
    BY <1>17 DEF SkipConn, VMTypeOK, vmVars
  <2>4. AccTypeOK'
    BY <1>17 DEF SkipConn, AccTypeOK, accVars
  <2>5. HistTypeOK'
    BY <1>17 DEF SkipConn, HistTypeOK, hist
  <2>6. Holds'
    BY <1>17 DEF SkipConn, Holds, connVars, vmVars, accVars, hist
  <2>7. QED
    BY <2>1, <2>2, <2>3, <2>4, <2>5, <2>6
<1>18. CASE EndPass
  <2>1. ConnTypeOK'
    BY <1>18 DEF EndPass, ConnTypeOK, connVars
  <2>2. IOTypeOK'
    BY <1>18 DEF EndPass, IOTypeOK, ioVars
  <2>3. VMTypeOK'
    BY <1>18 DEF EndPass, VMTypeOK, vmVars
  <2>4. AccTypeOK'
    BY <1>18 DEF EndPass, AccTypeOK, accVars
  <2>5. HistTypeOK'
    BY <1>18 DEF EndPass, HistTypeOK, hist
  <2>6. Holds'
    BY <1>18 DEF EndPass, Holds, connVars, vmVars, accVars, hist
  <2>7. QED
    BY <2>1, <2>2, <2>3, <2>4, <2>5, <2>6
<1>19. CASE Wait
  <2>1. ConnTypeOK'
    BY <1>19 DEF Wait, ConnTypeOK, connVars
  <2>2. IOTypeOK'
    BY <1>19 DEF Wait, IOTypeOK, ioVars
  <2>3. VMTypeOK'
    BY <1>19 DEF Wait, VMTypeOK, vmVars
  <2>4. AccTypeOK'
    BY <1>19 DEF Wait, AccTypeOK, accVars
  <2>5. HistTypeOK'
    BY <1>19 DEF Wait, HistTypeOK, hist
  <2>6. Holds'
    BY <1>19 DEF Wait, Holds, connVars, vmVars, accVars, hist
  <2>7. QED
    BY <2>1, <2>2, <2>3, <2>4, <2>5, <2>6
<1>20. CASE SpuriousWakeup
  <2>1. ConnTypeOK'
    BY <1>20 DEF SpuriousWakeup, ConnTypeOK, connVars
  <2>2. IOTypeOK'
    BY <1>20 DEF SpuriousWakeup, IOTypeOK, ioVars
  <2>3. VMTypeOK'
    BY <1>20 DEF SpuriousWakeup, VMTypeOK, vmVars
  <2>4. AccTypeOK'
    BY <1>20 DEF SpuriousWakeup, AccTypeOK, accVars
  <2>5. HistTypeOK'
    BY <1>20 DEF SpuriousWakeup, HistTypeOK, hist
  <2>6. Holds'
    BY <1>20 DEF SpuriousWakeup, Holds, connVars, vmVars, accVars, hist
  <2>7. QED
    BY <2>1, <2>2, <2>3, <2>4, <2>5, <2>6
<1>21. CASE QueueEmpty
  <2>1. ConnTypeOK'
    BY <1>21 DEF QueueEmpty, ConnTypeOK, connVars
  <2>2. IOTypeOK'
    BY <1>21 DEF QueueEmpty, IOTypeOK, ioVars
  <2>3. VMTypeOK'
    BY <1>21 DEF QueueEmpty, VMTypeOK, vmVars
  <2>4. AccTypeOK'
    BY <1>21 DEF QueueEmpty, AccTypeOK, accVars
  <2>5. HistTypeOK'
    BY <1>21 DEF QueueEmpty, HistTypeOK, hist
  <2>6. Holds'
    BY <1>21 DEF QueueEmpty, Holds, connVars, vmVars, accVars, hist
  <2>7. QED
    BY <2>1, <2>2, <2>3, <2>4, <2>5, <2>6
<1>22. CASE SkipExec
  <2>0. /\ Current \in Slots /\ sock[Current] \in Socks /\ que # <<>>
        /\ Tail(que) \in Seq(Slots) /\ Len(Tail(que)) = Len(que) - 1
        /\ \A i \in 1 .. Len(que) - 1 : Tail(que)[i] = que[i + 1]
    BY <1>22, CurrentFacts DEF SkipExec, Holds
  <2>1. ConnTypeOK'
    BY <1>22, <2>0 DEF SkipExec, ConnTypeOK, connVars
  <2>2. IOTypeOK'
    BY <1>22, <2>0 DEF SkipExec, IOTypeOK, ioVars
  <2>3. VMTypeOK'
    BY <1>22, <2>0 DEF SkipExec, VMTypeOK, vmVars
  <2>4. AccTypeOK'
    BY <1>22, <2>0 DEF SkipExec, AccTypeOK, accVars
  <2>5. HistTypeOK'
    BY <1>22, <2>0 DEF SkipExec, HistTypeOK, hist
  <2>6. Holds'
    BY <1>22, <2>0 DEF SkipExec, Holds, connVars, vmVars, accVars, hist
  <2>7. QED
    BY <2>1, <2>2, <2>3, <2>4, <2>5, <2>6
<1>23. CASE StartExec
  <2>0. /\ Current \in Slots /\ sock[Current] \in Socks /\ que # <<>>
        /\ Tail(que) \in Seq(Slots) /\ Len(Tail(que)) = Len(que) - 1
        /\ \A i \in 1 .. Len(que) - 1 : Tail(que)[i] = que[i + 1]
    BY <1>23, CurrentFacts DEF StartExec, Holds
  <2>1. ConnTypeOK'
    BY <1>23, <2>0 DEF StartExec, ConnTypeOK, connVars
  <2>2. IOTypeOK'
    BY <1>23, <2>0 DEF StartExec, IOTypeOK, ioVars
  <2>3. VMTypeOK'
    <3>1. vmClose' \in BOOLEAN
      BY <1>23, Zenon DEF StartExec, HeadSaysClose
    <3>2. QED
      BY <1>23, <2>0, <3>1 DEF StartExec, VMTypeOK
  <2>4. AccTypeOK'
    BY <1>23, <2>0 DEF StartExec, AccTypeOK, accVars
  <2>5. HistTypeOK'
    BY <1>23, <2>0 DEF StartExec, HistTypeOK, hist
  <2>6. Holds'
    BY <1>23, <2>0 DEF StartExec, Holds, connVars, vmVars, accVars, hist
  <2>7. QED
    BY <2>1, <2>2, <2>3, <2>4, <2>5, <2>6
<1>24. CASE ExecDefault
  <2>0. /\ Current \in Slots /\ sock[Current] \in Socks /\ que # <<>>
        /\ Tail(que) \in Seq(Slots) /\ Len(Tail(que)) = Len(que) - 1
        /\ \A i \in 1 .. Len(que) - 1 : Tail(que)[i] = que[i + 1]
    BY <1>24, CurrentFacts DEF ExecDefault, Holds
  <2>1. ConnTypeOK'
    BY <1>24, <2>0 DEF ExecDefault, ConnTypeOK, connVars
  <2>2. IOTypeOK'
    BY <1>24, <2>0 DEF ExecDefault, IOTypeOK, ioVars
  <2>3. VMTypeOK'
    BY <1>24, <2>0 DEF ExecDefault, VMTypeOK, vmVars
  <2>4. AccTypeOK'
    BY <1>24, <2>0 DEF ExecDefault, AccTypeOK, accVars
  <2>5. HistTypeOK'
    BY <1>24, <2>0 DEF ExecDefault, HistTypeOK, hist
  <2>6. Holds'
    BY <1>24, <2>0 DEF ExecDefault, Holds, connVars, vmVars, accVars, hist
  <2>7. QED
    BY <2>1, <2>2, <2>3, <2>4, <2>5, <2>6
<1>25. CASE Redirect
  <2>0. /\ Current \in Slots /\ sock[Current] \in Socks /\ que # <<>>
        /\ Tail(que) \in Seq(Slots) /\ Len(Tail(que)) = Len(que) - 1
        /\ \A i \in 1 .. Len(que) - 1 : Tail(que)[i] = que[i + 1]
    BY <1>25, CurrentFacts DEF Redirect, Holds
  <2>1. ConnTypeOK'
    <3>1. stat' \in [Slots -> LinkStat]
      BY <1>25, <2>0 DEF Redirect, ConnTypeOK, LinkStat
    <3>2. out' \in [Slots -> SUBSET Socks]
      BY <1>25, <2>0 DEF Redirect, ConnTypeOK, Holds
    <3>3. left' \in [Slots -> 0 .. MaxWrites]
      BY <1>25, <2>0 DEF Redirect, ConnTypeOK
    <3>4. QED
      BY <1>25, <3>1, <3>2, <3>3 DEF Redirect, ConnTypeOK
  <2>2. IOTypeOK'
    BY <1>25, <2>0 DEF Redirect, IOTypeOK, ioVars
  <2>3. VMTypeOK'
    BY <1>25, <2>0 DEF Redirect, VMTypeOK, vmVars
  <2>4. AccTypeOK'
    BY <1>25, <2>0 DEF Redirect, AccTypeOK, accVars
  <2>5. HistTypeOK'
    BY <1>25, <2>0 DEF Redirect, HistTypeOK, hist
  <2>6. Holds'
    BY <1>25, <2>0 DEF Redirect, Holds, connVars, vmVars, accVars, hist
  <2>7. QED
    BY <2>1, <2>2, <2>3, <2>4, <2>5, <2>6
<1>26. CASE FinishExec
  <2>0. /\ Current \in Slots /\ sock[Current] \in Socks /\ que # <<>>
        /\ Tail(que) \in Seq(Slots) /\ Len(Tail(que)) = Len(que) - 1
        /\ \A i \in 1 .. Len(que) - 1 : Tail(que)[i] = que[i + 1]
    BY <1>26, CurrentFacts DEF FinishExec, Holds
  <2>1. ConnTypeOK'
    <3>1. stat' \in [Slots -> LinkStat]
      BY <1>26, <2>0 DEF FinishExec, ConnTypeOK, LinkStat
    <3>2. out' \in [Slots -> SUBSET Socks]
      BY <1>26, <2>0 DEF FinishExec, ConnTypeOK, Holds
    <3>3. left' \in [Slots -> 0 .. MaxWrites]
      BY <1>26, <2>0 DEF FinishExec, ConnTypeOK
    <3>4. QED
      BY <1>26, <3>1, <3>2, <3>3 DEF FinishExec, ConnTypeOK
  <2>2. IOTypeOK'
    BY <1>26, <2>0 DEF FinishExec, AfterExec, IOTypeOK, ioVars
  <2>3. VMTypeOK'
    BY <1>26, <2>0 DEF FinishExec, AfterExec, VMTypeOK, vmVars
  <2>4. AccTypeOK'
    BY <1>26, <2>0 DEF FinishExec, AfterExec, AccTypeOK, accVars
  <2>5. HistTypeOK'
    BY <1>26, <2>0 DEF FinishExec, AfterExec, HistTypeOK, hist
  <2>6. Holds'
    BY <1>26, <2>0 DEF FinishExec, AfterExec, Holds, connVars, vmVars, accVars, hist
  <2>7. QED
    BY <2>1, <2>2, <2>3, <2>4, <2>5, <2>6
<1>27. CASE CloseAfterExec
  <2>0. /\ Current \in Slots /\ sock[Current] \in Socks /\ que # <<>>
        /\ Tail(que) \in Seq(Slots) /\ Len(Tail(que)) = Len(que) - 1
        /\ \A i \in 1 .. Len(que) - 1 : Tail(que)[i] = que[i + 1]
    BY <1>27, CurrentFacts DEF CloseAfterExec, Holds
  <2>1. ConnTypeOK'
    BY <1>27, <2>0 DEF CloseAfterExec, LateMark, ConnTypeOK, LinkStat
  <2>2. IOTypeOK'
    BY <1>27, <2>0 DEF CloseAfterExec, LateMark, IOTypeOK, ioVars
  <2>3. VMTypeOK'
    BY <1>27, <2>0 DEF CloseAfterExec, LateMark, VMTypeOK, vmVars
  <2>4. AccTypeOK'
    BY <1>27, <2>0 DEF CloseAfterExec, LateMark, AccTypeOK, accVars
  <2>5. HistTypeOK'
    <3>1. stray' \in BOOLEAN
      BY <1>27, Zenon DEF CloseAfterExec, LateMark, HistTypeOK
    <3>2. QED
      BY <1>27, <3>1 DEF CloseAfterExec, LateMark, HistTypeOK
  <2>6. Holds'
    BY <1>27, <2>0 DEF CloseAfterExec, LateMark, Holds, connVars, vmVars, accVars, hist
  <2>7. QED
    BY <2>1, <2>2, <2>3, <2>4, <2>5, <2>6
<1>28. CASE MarkAgain
  <2>0. /\ Current \in Slots /\ sock[Current] \in Socks /\ que # <<>>
        /\ Tail(que) \in Seq(Slots) /\ Len(Tail(que)) = Len(que) - 1
        /\ \A i \in 1 .. Len(que) - 1 : Tail(que)[i] = que[i + 1]
    BY <1>28, CurrentFacts DEF MarkAgain, Holds
  <2>1. ConnTypeOK'
    BY <1>28, <2>0 DEF MarkAgain, LateMark, ConnTypeOK, LinkStat
  <2>2. IOTypeOK'
    BY <1>28, <2>0 DEF MarkAgain, LateMark, IOTypeOK, ioVars
  <2>3. VMTypeOK'
    BY <1>28, <2>0 DEF MarkAgain, LateMark, VMTypeOK, vmVars
  <2>4. AccTypeOK'
    BY <1>28, <2>0 DEF MarkAgain, LateMark, AccTypeOK, accVars
  <2>5. HistTypeOK'
    <3>1. stray' \in BOOLEAN
      BY <1>28, Zenon DEF MarkAgain, LateMark, HistTypeOK
    <3>2. QED
      BY <1>28, <3>1 DEF MarkAgain, LateMark, HistTypeOK
  <2>6. Holds'
    BY <1>28, <2>0 DEF MarkAgain, LateMark, Holds, connVars, vmVars, accVars, hist
  <2>7. QED
    BY <2>1, <2>2, <2>3, <2>4, <2>5, <2>6
<1>29. CASE EraseFront
  <2>0. /\ Current \in Slots /\ sock[Current] \in Socks /\ que # <<>>
        /\ Tail(que) \in Seq(Slots) /\ Len(Tail(que)) = Len(que) - 1
        /\ \A i \in 1 .. Len(que) - 1 : Tail(que)[i] = que[i + 1]
    BY <1>29, CurrentFacts DEF EraseFront, Holds
  <2>1. ConnTypeOK'
    BY <1>29, <2>0 DEF EraseFront, ConnTypeOK, connVars
  <2>2. IOTypeOK'
    BY <1>29, <2>0 DEF EraseFront, IOTypeOK, ioVars
  <2>3. VMTypeOK'
    BY <1>29, <2>0 DEF EraseFront, VMTypeOK, vmVars
  <2>4. AccTypeOK'
    BY <1>29, <2>0 DEF EraseFront, AccTypeOK, accVars
  <2>5. HistTypeOK'
    BY <1>29, <2>0 DEF EraseFront, HistTypeOK, hist
  <2>6. Holds'
    <3>1. \A i \in DOMAIN que' : sock[que'[i]] \in Socks
      BY <1>29, <2>0, <2>3 DEF EraseFront, Holds, VMTypeOK
    <3>2. QED
      BY <1>29, <3>1 DEF EraseFront, Holds, connVars, accVars, hist
  <2>7. QED
    BY <2>1, <2>2, <2>3, <2>4, <2>5, <2>6
<1>30. CASE UNCHANGED vars
  <2>1. ConnTypeOK'
    BY <1>30 DEF vars, connVars, ioVars, vmVars, accVars, hist, ConnTypeOK
  <2>2. IOTypeOK'
    BY <1>30 DEF vars, connVars, ioVars, vmVars, accVars, hist, IOTypeOK
  <2>3. VMTypeOK'
    BY <1>30 DEF vars, connVars, ioVars, vmVars, accVars, hist, VMTypeOK
  <2>4. AccTypeOK'
    BY <1>30 DEF vars, connVars, ioVars, vmVars, accVars, hist, AccTypeOK
  <2>5. HistTypeOK'
    BY <1>30 DEF vars, connVars, ioVars, vmVars, accVars, hist, HistTypeOK
  <2>6. Holds'
    BY <1>30 DEF vars, connVars, ioVars, vmVars, accVars, hist, Holds
  <2>7. QED
    BY <2>1, <2>2, <2>3, <2>4, <2>5, <2>6
<1>31. QED
  BY <1>1, <1>2, <1>3, <1>4, <1>5, <1>6, <1>7, <1>8, <1>9, <1>10, <1>11, <1>12, <1>13, <1>14, <1>15, <1>16, <1>17, <1>18, <1>19, <1>20, <1>21, <1>22, <1>23, <1>24, <1>25, <1>26, <1>27, <1>28, <1>29, <1>30 DEF Next, AcceptStep, IOStep, VMStep

(* Every variable keeps its type, for every value of the constants.        *)
THEOREM TypeCorrect == Spec => []TypeOK
<1>1. TypeInv => TypeOK
  BY DEF TypeInv
<1>2. QED
  BY <1>1, TypeInvInit, TypeInvNext, PTL DEF Spec

-----------------------------------------------------------------------------
(* A script runs at most once for each request.                            *)

(* torn is never reset.                                                    *)
LEMMA TornStays ==
    ASSUME [Next]_vars, torn PROVE torn'
<1>1. CASE Tick \/ (\E c \in Socks : Insert(c)) \/ AcceptStep \/ SpuriousWakeup \/ UNCHANGED vars
  BY <1>1 DEF Tick, Insert, AcceptStep, InitConn, SetSocket, SpuriousWakeup, vars, hist
<1>2. CASE CloseConn \/ WatchConn \/ Select \/ ReadError \/ ReadMore \/ ReadScript \/ Active
  BY <1>2 DEF CloseConn, WatchConn, Select, ReadError, ReadMore, ReadScript, Active, hist, Touch
<1>3. CASE ReadDefault \/ ReadHead \/ WriteMore \/ WriteDone \/ WriteError
             \/ SkipConn \/ EndPass
  BY <1>3 DEF ReadDefault, ReadHead, WriteMore, WriteDone, WriteError, SkipConn,
              EndPass, hist, Touch
<1>4. CASE VMStep
  BY <1>4 DEF VMStep, Wait, QueueEmpty, SkipExec, StartExec, ExecDefault, Redirect,
              FinishExec, CloseAfterExec, MarkAgain, LateMark, EraseFront, hist
<1>5. QED
  BY <1>1, <1>2, <1>3, <1>4 DEF Next, IOStep

(* What an I/O step works on while torn stays FALSE is not being inserted. *)
Works == \/ CloseConn \/ ReadError \/ ReadMore \/ ReadScript \/ ReadDefault
         \/ ReadHead \/ WriteMore \/ WriteDone \/ WriteError

LEMMA WorksOnItsOwn ==
    ASSUME TypeInv, Works, ~torn'
    PROVE  /\ ~Inserting(Conn) /\ Owner(Conn) = sock[Conn]
           /\ Conn \in Slots /\ sock[Conn] \in Socks \union {None}
           /\ Open(Conn) => sock[Conn] \in Socks
<1>1. ioPos <= Len(connList)
  BY DEF Works, CloseConn, ReadError, ReadMore, ReadScript, ReadDefault, ReadHead,
         WriteMore, WriteDone, WriteError, Readable, Writable, AtConn
<1>2. ~Inserting(Conn)
  BY DEF Works, CloseConn, ReadError, ReadMore, ReadScript, ReadDefault, ReadHead,
         WriteMore, WriteDone, WriteError, Touch
<1>3. QED
  BY <1>1, <1>2, ConnFacts DEF Owner

LEMMA OnceInit == Init => OnceInv
BY DEF Init, OnceInv, OnceSafe, InVM

(* A step that moves no socket and runs no script cannot break OnceSafe    *)
(* when it makes no client new and no slot ready to be read or run.        *)
LEMMA OnceFrame ==
    ASSUME TypeInv, OnceSafe,
           UNCHANGED <<sock, runs, vmPc, vmFor, accPc, accSlot, accFor>>,
           InVM => Current' = Current,
           \A d \in Socks : fate'[d] = "new" => fate[d] = "new",
           \A s \in Slots : stat'[s] \in {"read_ready", "read_finished"}
                              => stat[s] \in {"read_ready", "read_finished"},
           accPc = "sock" /\ stat'[accSlot] = "read_finished"
                              => stat[accSlot] = "read_finished"
    PROVE  OnceSafe'
<1> USE DEF TypeInv, TypeOK, ConnTypeOK, VMTypeOK, AccTypeOK, HistTypeOK, Holds, OnceSafe, InVM
<1>1. (\A s \in Slots : sock[s] # None => fate[sock[s]] # "new")'
  OBVIOUS
<1>2. /\ (\A s, t \in Slots : sock[s] = sock[t] /\ sock[s] # None => s = t)'
      /\ (\A c \in Socks : fate[c] = "new" => runs[c] = 0)'
      /\ (\A c \in Socks : runs[c] <= 1)'
  OBVIOUS
<1>3. (accPc # "idle" =>
          /\ fate[accFor] # "new" /\ runs[accFor] = 0
          /\ \A s \in Slots : sock[s] # accFor)'
  OBVIOUS
<1>4. (InVM => /\ fate[vmFor] # "new"
               /\ runs[vmFor] = 1
               /\ \A s \in Slots : sock[s] = vmFor => s = Current)'
  OBVIOUS
<1>5. (accPc = "sock" => stat[accSlot] # "read_finished")'
  OBVIOUS
<1>6. (\A s \in Slots :
          sock[s] # None /\ stat[s] \in {"read_ready", "read_finished"}
             => \/ runs[sock[s]] = 0
                \/ vmPc = "run" /\ vmFor = sock[s]
                \/ accPc = "sock" /\ accSlot = s)'
  OBVIOUS
<1> QED
  BY <1>1, <1>2, <1>3, <1>4, <1>5, <1>6

LEMMA OnceSafeNext ==
    ASSUME TypeInv, OnceSafe, [Next]_vars, ~torn' PROVE OnceSafe'
<1> USE ConstantsAssumption DEF TypeInv, TypeOK, ConnTypeOK, VMTypeOK, AccTypeOK, HistTypeOK,
        Holds, OnceSafe, InVM
<1>1. CASE Tick
  BY <1>1 DEF Tick, ioVars, vmVars, accVars, hist, Current
<1>2. ASSUME NEW c \in Socks, Insert(c) PROVE OnceSafe'
  <2>1. /\ fate[c] = "new" /\ accPc = "idle"
        /\ fate' = [fate EXCEPT ![c] = "open"]
        /\ accPc' = "init" /\ accFor' = c
        /\ UNCHANGED <<stat, sock, que, runs, vmPc, vmFor>>
    BY <1>2 DEF Insert, vmVars
  <2>2. /\ runs[c] = 0
        /\ \A s \in Slots : sock[s] # c
        /\ \A d \in Socks : fate'[d] = "new" => fate[d] = "new"
        /\ fate'[c] = "open"
    BY <2>1
  <2>3. Current' = Current
    BY <2>1 DEF Current
  <2> QED
    BY <2>1, <2>2, <2>3
<1>3. CASE InitConn
  <2>1. /\ accPc = "init" /\ accPc' = "sock" /\ accSlot \in Slots
        /\ stat' = [stat EXCEPT ![accSlot] = "read_ready"]
        /\ UNCHANGED <<sock, que, fate, runs, vmPc, vmFor, accSlot, accFor>>
    BY <1>3 DEF InitConn, vmVars, hist
  <2>2. Current' = Current
    BY <2>1 DEF Current
  <2> QED
    BY <2>1, <2>2
<1>4. CASE SetSocket
  <2>1. /\ accPc = "sock" /\ accPc' = "idle" /\ accSlot \in Slots /\ accFor \in Socks
        /\ sock' = [sock EXCEPT ![accSlot] = accFor]
        /\ UNCHANGED <<stat, que, fate, runs, vmPc, vmFor>>
    BY <1>4 DEF SetSocket, vmVars, hist
  <2>2. Current' = Current
    BY <2>1 DEF Current
  <2>3. /\ fate[accFor] # "new" /\ runs[accFor] = 0
        /\ \A s \in Slots : sock[s] # accFor
    BY <2>1
  <2>4. /\ sock'[accSlot] = accFor
        /\ \A s \in Slots : s # accSlot => sock'[s] = sock[s]
    BY <2>1
  <2>5. ASSUME NEW s \in Slots, NEW t \in Slots, sock'[s] = sock'[t], sock'[s] # None
        PROVE  s = t
    <3>1. CASE s = accSlot \/ t = accSlot
      BY <2>3, <2>4, <2>5, <3>1
    <3>2. CASE s # accSlot /\ t # accSlot
      BY <2>4, <2>5, <3>2
    <3> QED
      BY <3>1, <3>2
  <2>6. (\A s \in Slots : sock[s] # None => fate[sock[s]] # "new")'
    BY <2>1, <2>3, <2>4
  <2>7. (InVM => /\ fate[vmFor] # "new"
                 /\ runs[vmFor] = 1
                 /\ \A s \in Slots : sock[s] = vmFor => s = Current)'
    <3>1. InVM => vmFor # accFor
      BY <2>3
    <3> QED
      BY <2>1, <2>2, <2>4, <3>1
  <2>8. ASSUME NEW s \in Slots, sock'[s] # None, stat'[s] \in {"read_ready", "read_finished"}
        PROVE  runs[sock'[s]] = 0 \/ (vmPc = "run" /\ vmFor = sock'[s])
    <3>1. CASE s = accSlot
      BY <2>3, <2>4, <3>1
    <3>2. CASE s # accSlot
      BY <2>1, <2>4, <2>8, <3>2
    <3> QED
      BY <3>1, <3>2
  <2> QED
    BY <2>1, <2>5, <2>6, <2>7, <2>8
<1>5. CASE CloseConn
  <2>1. Conn \in Slots /\ Owner(Conn) = sock[Conn] /\ sock[Conn] \in Socks \union {None}
    BY <1>5, WorksOnItsOwn DEF Works
  <2>2. /\ UNCHANGED <<stat, sock, que, runs, vmPc, vmFor, accPc, accSlot, accFor>>
        /\ fate' = [fate EXCEPT ![sock[Conn]] =
              IF @ \notin {"open", "asked"} THEN @
              ELSE IF Inserting(Conn) THEN "lost"
              ELSE IF stat[Conn] = "conn_finished" THEN "dropped" ELSE "expired"]
    BY <1>5, <2>1 DEF CloseConn, vmVars, accVars
  <2>3. \A d \in Socks : fate'[d] = "new" <=> fate[d] = "new"
    BY <2>1, <2>2
  <2>4. Current' = Current
    BY <2>2 DEF Current
  <2> HIDE DEF OnceSafe
  <2> QED
    BY <2>2, <2>3, <2>4, OnceFrame
<1>6. CASE WatchConn
  BY <1>6 DEF WatchConn, connVars, vmVars, accVars, hist, Current
<1>7. CASE Select
  BY <1>7 DEF Select, connVars, vmVars, accVars, hist, Current
<1>8. CASE ReadError \/ WriteError
  <2>1. Conn \in Slots /\ sock[Conn] \in Socks \union {None}
    BY <1>8, WorksOnItsOwn DEF Works
  <2>2. /\ UNCHANGED <<sock, que, runs, vmPc, vmFor, accPc, accSlot, accFor>>
        /\ stat' = [stat EXCEPT ![Conn] = "conn_finished"]
        /\ fate' = [fate EXCEPT ![sock[Conn]] = IF @ \in {"open", "asked"} THEN "failed" ELSE @]
    BY <1>8 DEF ReadError, WriteError, Fails, vmVars, accVars
  <2>3. \A d \in Socks : fate'[d] = "new" <=> fate[d] = "new"
    BY <2>1, <2>2
  <2>4. Current' = Current
    BY <2>2 DEF Current
  <2>5. /\ \A s \in Slots : stat'[s] \in {"read_ready", "read_finished"} => stat'[s] = stat[s]
        /\ stat'[accSlot] = "read_finished" => stat[accSlot] = "read_finished"
    BY <2>1, <2>2
  <2> HIDE DEF OnceSafe
  <2> QED
    BY <2>2, <2>3, <2>4, <2>5, OnceFrame
<1>9. CASE ReadMore \/ WriteMore
  <2>1. UNCHANGED <<stat, sock, que, runs, fate, vmPc, vmFor, accPc, accSlot, accFor>>
    BY <1>9 DEF ReadMore, WriteMore, vmVars, accVars
  <2> QED
    BY <2>1 DEF Current
<1>10. CASE ReadScript
  <2>1. Conn \in Slots /\ sock[Conn] \in Socks /\ ~Inserting(Conn)
    BY <1>10, WorksOnItsOwn DEF Works, ReadScript
  <2>2. /\ UNCHANGED <<sock, runs, vmPc, vmFor, accPc, accSlot, accFor>>
        /\ stat[Conn] = "read_ready"
        /\ stat' = [stat EXCEPT ![Conn] = "read_finished"]
        /\ fate' = [fate EXCEPT ![sock[Conn]] = "asked"]
        /\ que' = Append(que, Conn)
    BY <1>10 DEF ReadScript, Readable, vmVars, accVars
  <2>3. InVM => Current' = Current
    BY <2>1, <2>2 DEF Current
  <2>4. /\ fate[sock[Conn]] # "new"
        /\ \A d \in Socks : fate'[d] = "new" <=> fate[d] = "new"
    BY <2>1, <2>2
  <2>5. \A s \in Slots : stat'[s] \in {"read_ready", "read_finished"}
                          => stat[s] \in {"read_ready", "read_finished"}
    BY <2>1, <2>2
  <2>6. accPc = "sock" => stat'[accSlot] = stat[accSlot]
    BY <2>1, <2>2 DEF Inserting
  <2> QED
    BY <2>2, <2>3, <2>4, <2>5, <2>6
<1>11. CASE Active
  BY <1>11 DEF Active, connVars, accVars, hist, Current
<1>12. CASE ReadDefault \/ ReadHead
  <2>1. Conn \in Slots /\ ~Inserting(Conn)
    BY <1>12, WorksOnItsOwn DEF Works
  <2>2. /\ UNCHANGED <<sock, que, runs, fate, vmPc, vmFor, accPc, accSlot, accFor>>
        /\ stat[Conn] = "read_ready"
        /\ \E x \in LinkStat : stat' = [stat EXCEPT ![Conn] = x]
    BY <1>12 DEF ReadDefault, ReadHead, Readable, LinkStat, vmVars, accVars
  <2>3. Current' = Current
    BY <2>2 DEF Current
  <2>4. accPc = "sock" => stat'[accSlot] = stat[accSlot]
    BY <2>1, <2>2 DEF Inserting
  <2>5. \A s \in Slots : stat'[s] \in {"read_ready", "read_finished"}
                          => stat[s] \in {"read_ready", "read_finished"}
    BY <2>1, <2>2
  <2> QED
    BY <2>2, <2>3, <2>4, <2>5
<1>13. CASE WriteDone
  <2>1. Conn \in Slots /\ sock[Conn] \in Socks
    BY <1>13, WorksOnItsOwn DEF Works, WriteDone
  <2>2. /\ UNCHANGED <<sock, que, runs, vmPc, vmFor, accPc, accSlot, accFor>>
        /\ stat' = [stat EXCEPT ![Conn] = "conn_finished"]
        /\ fate' = [fate EXCEPT ![sock[Conn]] = "answered"]
    BY <1>13 DEF WriteDone, vmVars, accVars
  <2>3. Current' = Current
    BY <2>2 DEF Current
  <2>4. /\ fate[sock[Conn]] # "new"
        /\ \A d \in Socks : fate'[d] = "new" <=> fate[d] = "new"
    BY <2>1, <2>2
  <2>5. /\ \A s \in Slots : stat'[s] \in {"read_ready", "read_finished"} => stat'[s] = stat[s]
        /\ stat'[accSlot] = "read_finished" => stat[accSlot] = "read_finished"
    BY <2>1, <2>2
  <2> HIDE DEF OnceSafe
  <2> QED
    BY <2>2, <2>3, <2>4, <2>5, OnceFrame
<1>14. CASE SkipConn
  BY <1>14 DEF SkipConn, connVars, vmVars, accVars, hist, Current
<1>15. CASE EndPass
  BY <1>15 DEF EndPass, connVars, vmVars, accVars, hist, Current
<1>16. CASE Wait \/ SpuriousWakeup \/ QueueEmpty
  <2>1. CASE Wait
    BY <2>1 DEF Wait, connVars, accVars, hist
  <2>2. CASE QueueEmpty
    BY <2>2 DEF QueueEmpty, connVars, accVars, hist
  <2>3. CASE SpuriousWakeup
    BY <2>3 DEF SpuriousWakeup, connVars, accVars, hist
  <2> QED
    BY <1>16, <2>1, <2>2, <2>3
<1>17. CASE SkipExec
  BY <1>17 DEF SkipExec, connVars, accVars, hist
<1>18. CASE StartExec
  <2>1. Current \in Slots /\ sock[Current] \in Socks
    BY <1>18, CurrentFacts DEF StartExec
  <2>2. /\ vmPc = "check" /\ stat[Current] = "read_finished"
        /\ vmPc' = "run" /\ vmFor' = sock[Current] /\ Current' = Current
        /\ runs' = [runs EXCEPT ![sock[Current]] = @ + 1]
        /\ UNCHANGED <<stat, sock, fate, accPc, accSlot, accFor>>
    BY <1>18 DEF StartExec, ToRun, connVars, accVars, Current
  <2>3. ~(accPc = "sock" /\ accSlot = Current)
    BY <2>2
  <2>4. runs[sock[Current]] = 0
    BY <2>1, <2>2, <2>3
  <2>5. runs'[sock[Current]] = 1
    BY <2>1, <2>2, <2>4
  <2>6. \A c \in Socks : c # sock[Current] => runs'[c] = runs[c]
    BY <2>1, <2>2
  <2>7. \A c \in Socks : runs'[c] <= 1 /\ (fate[c] = "new" => runs'[c] = 0)
    <3> SUFFICES ASSUME NEW c \in Socks
                 PROVE  runs'[c] <= 1 /\ (fate[c] = "new" => runs'[c] = 0)
      OBVIOUS
    <3>1. CASE c = sock[Current]
      <4>1. fate[c] # "new"
        BY <2>1, <3>1
      <4> QED
        BY <2>5, <3>1, <4>1
    <3>2. CASE c # sock[Current]
      BY <2>6, <3>2
    <3> QED
      BY <3>1, <3>2
  <2>8. \A s \in Slots : sock[s] = sock[Current] => s = Current
    BY <2>1
  <2>9. \A s \in Slots : sock[s] # None /\ stat[s] \in {"read_ready", "read_finished"}
          => \/ runs'[sock[s]] = 0
             \/ sock[Current] = sock[s]
             \/ accPc = "sock" /\ accSlot = s
    BY <2>1, <2>2, <2>6
  <2>10. accPc # "idle" => runs'[accFor] = 0
    BY <2>1, <2>6
  <2> QED
    BY <2>1, <2>2, <2>5, <2>7, <2>8, <2>9, <2>10
<1>19. CASE ExecDefault
  BY <1>19 DEF ExecDefault, accVars, hist
<1>20. CASE Redirect \/ FinishExec \/ CloseAfterExec \/ MarkAgain
  <2>1. Current \in Slots /\ vmFor \in Socks /\ InVM
    BY <1>20, CurrentFacts DEF Redirect, FinishExec, CloseAfterExec, MarkAgain
  <2>2. /\ \E x \in {"write_ready", "conn_finished"} : stat' = [stat EXCEPT ![Current] = x]
        /\ UNCHANGED <<sock, que, runs, fate, vmFor, accPc, accSlot, accFor>>
        /\ vmPc' # "run"
    BY <1>20 DEF Redirect, FinishExec, AfterExec, CloseAfterExec, MarkAgain, LateMark, accVars, hist
  <2>3. Current' = Current
    BY <2>2 DEF Current
  <2>4. \A s \in Slots : stat'[s] \in {"read_ready", "read_finished"} => stat'[s] = stat[s] /\ s # Current
    BY <2>1, <2>2
  <2>5. \A s \in Slots : vmPc = "run" /\ vmFor = sock[s] => s = Current
    OBVIOUS
  <2> HIDE DEF Current
  <2> QED
    BY <2>1, <2>2, <2>3, <2>4, <2>5
<1>21. CASE EraseFront
  BY <1>21 DEF EraseFront, connVars, accVars, hist
<1>22. CASE UNCHANGED vars
  BY <1>22 DEF vars, connVars, vmVars, accVars, hist, Current
<1>23. QED
  BY <1>1, <1>2, <1>3, <1>4, <1>5, <1>6, <1>7, <1>8, <1>9, <1>10, <1>11, <1>12, <1>13,
     <1>14, <1>15, <1>16, <1>17, <1>18, <1>19, <1>20, <1>21, <1>22
  DEF Next, AcceptStep, IOStep, VMStep

LEMMA OnceNext == TypeInv /\ OnceInv /\ [Next]_vars => OnceInv'
BY OnceSafeNext, TornStays DEF OnceInv

(* As long as the I/O thread works on no slot that is being inserted,      *)
(* vm_exec never runs the script of one request twice, although its queue  *)
(* may hold entries of freed slots and two entries of one slot.            *)
THEOREM RunsOnce == Spec => []ScriptRunsOnce
<1>1. TypeInv /\ OnceInv /\ [Next]_vars => (TypeInv /\ OnceInv)'
  BY TypeInvNext, OnceNext
<1>2. OnceInv => ScriptRunsOnce
  BY DEF OnceInv, OnceSafe, ScriptRunsOnce
<1>3. QED
  BY TypeInvInit, OnceInit, <1>1, <1>2, PTL DEF Spec

-----------------------------------------------------------------------------
(* The pool and the polled list stay in step.                              *)

LEMMA ListsInit == Init => ListsSound
<1> SUFFICES ASSUME Init PROVE ListsSound
  OBVIOUS
<1>1. /\ connList = <<>>
      /\ DOMAIN free = 1 .. NSlots
      /\ \A i \in 1 .. NSlots : free[i] = i - 1
  BY DEF Init
<1>2. NSlots \in Nat
  BY ConstantsAssumption
<1>3. Distinct(connList) /\ Distinct(free)
  BY <1>1, <1>2 DEF Distinct
<1>4. \A s \in Slots : s + 1 \in DOMAIN free /\ free[s + 1] = s
  BY <1>1, <1>2 DEF Slots
<1>5. QED
  BY <1>1, <1>3, <1>4 DEF ListsSound, Listed

(* Only inserting and closing a connection move slots.                     *)
LEMMA ListsUntouched ==
    ASSUME [Next]_vars, \A c \in Socks : ~Insert(c), ~CloseConn
    PROVE  UNCHANGED <<connList, free>>
<1>1. CASE Tick \/ AcceptStep \/ SpuriousWakeup \/ UNCHANGED vars
  BY <1>1 DEF Tick, AcceptStep, InitConn, SetSocket, SpuriousWakeup, vars, connVars
<1>2. CASE WatchConn \/ Select \/ ReadError \/ ReadMore \/ ReadScript \/ Active
  BY <1>2 DEF WatchConn, Select, ReadError, ReadMore, ReadScript, Active, connVars
<1>3. CASE ReadDefault \/ ReadHead \/ WriteMore \/ WriteDone \/ WriteError
             \/ SkipConn \/ EndPass
  BY <1>3 DEF ReadDefault, ReadHead, WriteMore, WriteDone, WriteError, SkipConn,
              EndPass, connVars
<1>4. CASE VMStep
  BY <1>4 DEF VMStep, Wait, QueueEmpty, SkipExec, StartExec, ExecDefault, Redirect,
              FinishExec, CloseAfterExec, MarkAgain, LateMark, EraseFront, connVars
<1>5. QED
  BY <1>1, <1>2, <1>3, <1>4 DEF Next, IOStep

LEMMA ListsNext == TypeInv /\ ListsSound /\ [Next]_vars => ListsSound'
<1> SUFFICES ASSUME TypeInv, ListsSound, [Next]_vars PROVE ListsSound'
  OBVIOUS
<1>t. connList \in Seq(Slots) /\ free \in Seq(Slots) /\ ioPos \in Nat \ {0}
  BY DEF TypeInv, TypeOK, ConnTypeOK, IOTypeOK
<1>1. ASSUME NEW c \in Socks, Insert(c) PROVE ListsSound'
  <2> DEFINE s == Head(free)
  <2>1. /\ free # <<>> /\ free' = Tail(free)
        /\ connList' = Append(connList, s)
    BY <1>1 DEF Insert
  <2>2. /\ Len(connList') = Len(connList) + 1
        /\ \A i \in 1 .. Len(connList) : connList'[i] = connList[i]
        /\ connList'[Len(connList) + 1] = s
        /\ DOMAIN connList' = 1 .. Len(connList) + 1
        /\ DOMAIN connList = 1 .. Len(connList)
    BY <1>t, <2>1
  <2>3. /\ Len(free) >= 1 /\ Len(free) \in Nat /\ s = free[1]
        /\ DOMAIN free = 1 .. Len(free)
        /\ DOMAIN free' = 1 .. Len(free) - 1
        /\ \A i \in 1 .. Len(free) - 1 : free'[i] = free[i + 1]
    BY <1>t, <2>1
  <2>4. \A i \in DOMAIN connList : connList[i] # s
    BY <2>3 DEF ListsSound
  <2>5. Distinct(connList')
    BY <2>2, <2>4, <1>t DEF ListsSound, Distinct
  <2>6. Distinct(free')
    <3>1. SUFFICES ASSUME NEW i \in DOMAIN free', NEW j \in DOMAIN free', free'[i] = free'[j]
                   PROVE  i = j
      BY DEF Distinct
    <3>2. i \in Int /\ j \in Int /\ i + 1 \in DOMAIN free /\ j + 1 \in DOMAIN free
      BY <2>3
    <3>3. free[i + 1] = free[j + 1]
      BY <3>1, <2>3
    <3>4. i + 1 = j + 1
      BY <3>2, <3>3 DEF ListsSound, Distinct
    <3>5. QED
      BY <3>2, <3>4
  <2>7. \A i \in DOMAIN connList', j \in DOMAIN free' : connList'[i] # free'[j]
    <3>1. ASSUME NEW j \in DOMAIN free' PROVE free'[j] # s
      BY <2>3 DEF ListsSound, Distinct
    <3>2. ASSUME NEW i \in DOMAIN connList, NEW j \in DOMAIN free'
          PROVE  connList[i] # free'[j]
      BY <2>3 DEF ListsSound
    <3>3. QED
      BY <3>1, <3>2, <2>2, <1>t
  <2>8. ASSUME NEW x \in Slots
        PROVE  Listed(x)' \/ \E j \in DOMAIN free' : free'[j] = x
    <3>1. CASE Listed(x)
      BY <3>1, <2>2, <1>t DEF Listed
    <3>2. CASE \E j \in DOMAIN free : free[j] = x
      <4>1. PICK j \in 1 .. Len(free) : free[j] = x
        BY <3>2, <2>3
      <4>2. CASE j = 1
        BY <4>1, <4>2, <2>2, <2>3, <1>t DEF Listed
      <4>3. CASE j # 1
        <5>1. j - 1 \in DOMAIN free' /\ free'[j - 1] = x
          BY <4>1, <4>3, <2>3
        <5>2. QED
          BY <5>1
      <4>4. QED
        BY <4>2, <4>3
    <3>3. QED
      BY <3>1, <3>2 DEF ListsSound
  <2>9. QED
    BY <2>5, <2>6, <2>7, <2>8 DEF ListsSound
<1>2. CASE CloseConn
  <2> DEFINE s == Conn
  <2>1. /\ ioPos \in 1 .. Len(connList)
        /\ connList' = RemoveAt(connList, ioPos)
        /\ free' = <<s>> \o free
    BY <1>2, <1>t DEF CloseConn, AtConn, Erased
  <2>2. /\ s \in Slots /\ s = connList[ioPos]
        /\ DOMAIN connList = 1 .. Len(connList) /\ Len(connList) \in Nat
    BY <2>1, <1>t DEF Conn
  <2>3. /\ connList' \in Seq(Slots)
        /\ Len(connList') = Len(connList) - 1
        /\ \A k \in 1 .. Len(connList) - 1 :
              connList'[k] = IF k < ioPos THEN connList[k] ELSE connList[k + 1]
    BY <2>1, <1>t, RemoveAtFacts
  <2>4. DOMAIN connList' = 1 .. Len(connList) - 1
    BY <2>3, <2>2
  <2>5. /\ DOMAIN free' = 1 .. Len(free) + 1 /\ DOMAIN free = 1 .. Len(free)
        /\ Len(free) \in Nat
        /\ free'[1] = s
        /\ \A k \in 1 .. Len(free) : free'[k + 1] = free[k]
    BY <2>1, <2>2, <1>t
  <2>6. ASSUME NEW i \in DOMAIN connList'
        PROVE  \E k \in 1 .. Len(connList) : k # ioPos /\ connList'[i] = connList[k]
    <3>1. CASE i < ioPos
      BY <3>1, <2>1, <2>3, <2>4
    <3>2. CASE i >= ioPos
      <4>1. i + 1 \in 1 .. Len(connList) /\ i + 1 # ioPos /\ connList'[i] = connList[i + 1]
        BY <3>2, <2>1, <2>2, <2>3, <2>4
      <4>2. QED
        BY <4>1
    <3>3. QED
      BY <3>1, <3>2, <2>1, <2>4
  <2>7. Distinct(connList')
    <3> DEFINE at(k) == IF k < ioPos THEN k ELSE k + 1
    <3>1. SUFFICES ASSUME NEW i \in DOMAIN connList', NEW j \in DOMAIN connList',
                          connList'[i] = connList'[j]
                   PROVE  i = j
      BY DEF Distinct
    <3>2. /\ i \in Int /\ j \in Int
          /\ at(i) \in DOMAIN connList /\ at(j) \in DOMAIN connList
      BY <2>1, <2>2, <2>4
    <3>3. connList'[i] = connList[at(i)] /\ connList'[j] = connList[at(j)]
      BY <2>3, <2>4
    <3> HIDE DEF at
    <3>4. at(i) = at(j)
      BY <3>1, <3>2, <3>3 DEF ListsSound, Distinct
    <3>5. QED
      BY <3>2, <3>4, <2>1 DEF at
  <2>8. Distinct(free')
    <3>1. \A j \in DOMAIN free : free[j] # s
      BY <2>1, <2>2 DEF ListsSound
    <3>2. ASSUME NEW j \in DOMAIN free' PROVE j = 1 \/ (j - 1 \in DOMAIN free /\ free'[j] = free[j - 1])
      <4>1. CASE j # 1
        <5>1. j - 1 \in 1 .. Len(free) /\ (j - 1) + 1 = j
          BY <4>1, <2>5
        <5>2. QED
          BY <5>1, <2>5
      <4>2. QED
        BY <4>1
    <3>3. QED
      BY <3>1, <3>2, <2>5 DEF ListsSound, Distinct
  <2>9. \A i \in DOMAIN connList', j \in DOMAIN free' : connList'[i] # free'[j]
    <3>1. SUFFICES ASSUME NEW i \in DOMAIN connList', NEW j \in DOMAIN free'
                   PROVE  connList'[i] # free'[j]
      OBVIOUS
    <3>2. PICK k \in 1 .. Len(connList) : k # ioPos /\ connList'[i] = connList[k]
      BY <2>6
    <3>3. CASE j = 1
      <4>1. connList[k] # connList[ioPos]
        BY <3>2, <2>1, <2>2 DEF ListsSound, Distinct
      <4>2. QED
        BY <4>1, <3>2, <3>3, <2>2, <2>5
    <3>4. CASE j # 1
      <4>1. j - 1 \in 1 .. Len(free) /\ free'[(j - 1) + 1] = free[j - 1] /\ (j - 1) + 1 = j
        BY <3>4, <2>5
      <4>2. QED
        BY <4>1, <3>2, <2>2, <2>5 DEF ListsSound
    <3>5. QED
      BY <3>3, <3>4
  <2>10. ASSUME NEW x \in Slots
         PROVE  Listed(x)' \/ \E j \in DOMAIN free' : free'[j] = x
    <3>1. ASSUME NEW j \in DOMAIN free, free[j] = x
          PROVE  \E k \in DOMAIN free' : free'[k] = x
      <4>1. j + 1 \in DOMAIN free' /\ free'[j + 1] = x
        BY <3>1, <2>5
      <4>2. QED
        BY <4>1
    <3>2. ASSUME NEW k \in DOMAIN connList, connList[k] = x, k # ioPos
          PROVE  Listed(x)'
      <4>1. CASE k < ioPos
        <5>1. k \in DOMAIN connList' /\ connList'[k] = x
          BY <4>1, <3>2, <2>1, <2>2, <2>3, <2>4
        <5>2. QED
          BY <5>1 DEF Listed
      <4>2. CASE k > ioPos
        <5>1. k - 1 \in DOMAIN connList' /\ ~(k - 1 < ioPos) /\ (k - 1) + 1 = k
          BY <4>2, <3>2, <2>1, <2>2, <2>4
        <5>2. connList'[k - 1] = x
          BY <5>1, <3>2, <2>3, <2>4
        <5>3. QED
          BY <5>1, <5>2 DEF Listed
      <4>3. QED
        BY <4>1, <4>2, <3>2, <2>1, <2>2
    <3>3. CASE x = s
      BY <3>3, <2>5
    <3>4. CASE x # s
      BY <3>4, <3>1, <3>2, <2>2 DEF ListsSound, Listed
    <3>5. QED
      BY <3>3, <3>4
  <2>11. QED
    BY <2>7, <2>8, <2>9, <2>10 DEF ListsSound
<1>3. CASE (\A c \in Socks : ~Insert(c)) /\ ~CloseConn
  <2>1. UNCHANGED <<connList, free>>
    BY <1>3, ListsUntouched
  <2>2. QED
    BY <2>1 DEF ListsSound, Distinct, Listed
<1>4. QED
  BY <1>1, <1>2, <1>3

(* A slot stays polled through any step but its own closing.               *)
LEMMA ListedStays ==
    ASSUME TypeInv, [Next]_vars, NEW x \in Slots, Listed(x), CloseConn => Conn # x
    PROVE  Listed(x)'
<1>t. connList \in Seq(Slots) /\ ioPos \in Nat \ {0}
  BY DEF TypeInv, TypeOK, ConnTypeOK, IOTypeOK
<1>k. PICK k \in 1 .. Len(connList) : connList[k] = x
  BY <1>t DEF Listed
<1>1. ASSUME NEW c \in Socks, Insert(c) PROVE Listed(x)'
  <2>1. Head(free) \in Slots /\ connList' = Append(connList, Head(free))
    BY <1>1 DEF Insert, TypeInv, TypeOK, ConnTypeOK
  <2>2. k \in DOMAIN connList' /\ connList'[k] = x
    BY <1>t, <1>k, <2>1
  <2>3. QED
    BY <2>2 DEF Listed
<1>2. CASE CloseConn
  <2>1. /\ ioPos \in 1 .. Len(connList) /\ connList' = RemoveAt(connList, ioPos)
        /\ k # ioPos
    BY <1>2, <1>t, <1>k DEF CloseConn, AtConn, Conn, Erased
  <2>2. /\ connList' \in Seq(Slots) /\ Len(connList') = Len(connList) - 1
        /\ \A j \in 1 .. Len(connList) - 1 :
              connList'[j] = IF j < ioPos THEN connList[j] ELSE connList[j + 1]
    BY <2>1, <1>t, RemoveAtFacts
  <2>3. DOMAIN connList' = 1 .. Len(connList) - 1 /\ Len(connList) \in Nat
    BY <2>2, <1>t
  <2>4. CASE k < ioPos
    <3>1. k \in DOMAIN connList' /\ connList'[k] = x
      BY <2>4, <1>k, <2>1, <2>2, <2>3
    <3>2. QED
      BY <3>1 DEF Listed
  <2>5. CASE k > ioPos
    <3>1. k - 1 \in DOMAIN connList' /\ ~(k - 1 < ioPos) /\ (k - 1) + 1 = k
      BY <2>5, <1>k, <2>1, <2>3
    <3>2. connList'[k - 1] = x
      BY <3>1, <1>k, <2>2, <2>3
    <3>3. QED
      BY <3>1, <3>2 DEF Listed
  <2>6. QED
    BY <2>1, <2>4, <2>5
<1>3. CASE (\A c \in Socks : ~Insert(c)) /\ ~CloseConn
  BY <1>3, ListsUntouched DEF Listed
<1>4. QED
  BY <1>1, <1>2, <1>3

(* Who a slot is meant for changes only by inserting a connection in it.   *)
LEMMA OwnerStays ==
    ASSUME TypeInv, ListsSound, [Next]_vars, NEW x \in Slots, Listed(x)
    PROVE  Owner(x)' = Owner(x)
<1> USE DEF Owner, Inserting
<1>1. ASSUME NEW c \in Socks, Insert(c) PROVE Owner(x)' = Owner(x)
  <2>1. free \in Seq(Slots) /\ free # <<>> /\ 1 \in DOMAIN free /\ Head(free) = free[1]
    BY <1>1 DEF Insert, TypeInv, TypeOK, ConnTypeOK
  <2>2. x # Head(free)
    BY <2>1 DEF ListsSound, Listed
  <2>3. QED
    BY <1>1, <2>2 DEF Insert
<1>2. CASE InitConn
  BY <1>2 DEF InitConn
<1>3. CASE SetSocket
  BY <1>3 DEF SetSocket, TypeInv, TypeOK, ConnTypeOK, AccTypeOK
<1>4. CASE UNCHANGED <<sock, accPc, accSlot, accFor>>
  BY <1>4
<1>5. CASE Tick \/ SpuriousWakeup \/ UNCHANGED vars \/ CloseConn \/ WatchConn \/ Select
  BY <1>5, <1>4 DEF Tick, SpuriousWakeup, vars, CloseConn, WatchConn, Select, connVars, accVars
<1>6. CASE ReadError \/ ReadMore \/ ReadScript \/ Active \/ ReadDefault \/ ReadHead
  BY <1>6, <1>4 DEF ReadError, ReadMore, ReadScript, Active, ReadDefault, ReadHead, connVars, accVars
<1>7. CASE WriteMore \/ WriteDone \/ WriteError \/ SkipConn \/ EndPass
  BY <1>7, <1>4 DEF WriteMore, WriteDone, WriteError, SkipConn, EndPass, connVars, accVars
<1>8. CASE VMStep
  BY <1>8, <1>4 DEF VMStep, Wait, QueueEmpty, SkipExec, StartExec, ExecDefault, Redirect, FinishExec,
                    CloseAfterExec, MarkAgain, LateMark, EraseFront, connVars, accVars
<1>9. QED
  BY <1>1, <1>2, <1>3, <1>5, <1>6, <1>7, <1>8 DEF Next, AcceptStep, IOStep

(* A client is served after a step when it was before and is not closed,   *)
(* when it is inserted, or when its request is read.                       *)
LEMMA ServedFrom ==
    ASSUME TypeInv, [Next]_vars, ~torn', NEW c \in Socks, fate'[c] \in {"open", "asked"}
    PROVE  \/ Insert(c)
           \/ ReadScript /\ sock[Conn] = c
           \/ fate[c] \in {"open", "asked"} /\ (CloseConn => Owner(Conn) # c)
<1>t. fate \in [Socks -> Fate]
  BY DEF TypeInv, TypeOK, HistTypeOK
<1>1. CASE UNCHANGED fate /\ ~CloseConn
  BY <1>1
<1>2. ASSUME NEW d \in Socks, Insert(d) PROVE Insert(c) \/ (fate[c] \in {"open", "asked"} /\ ~CloseConn)
  BY <1>2, <1>t DEF Insert, CloseConn, ioVars, connVars
<1>3. CASE CloseConn
  BY <1>3, <1>t DEF CloseConn
<1>4. CASE ReadError \/ WriteError
  <2>1. ~CloseConn
    BY <1>4 DEF ReadError, WriteError, Readable, Writable, CloseConn, AtConn
  <2>2. QED
    BY <1>4, <1>t, <2>1 DEF ReadError, WriteError, Fails
<1>5. CASE ReadScript
  <2>1. ~CloseConn
    BY <1>5 DEF ReadScript, Readable, CloseConn, AtConn
  <2>2. QED
    BY <1>5, <1>t, <2>1 DEF ReadScript
<1>6. CASE WriteDone
  <2>1. ~CloseConn
    BY <1>6 DEF WriteDone, Writable, CloseConn, AtConn
  <2>2. QED
    BY <1>6, <1>t, <2>1 DEF WriteDone
<1>7. CASE ~CloseConn
  <2>1. CASE Tick \/ AcceptStep \/ SpuriousWakeup \/ UNCHANGED vars \/ WatchConn \/ Select
    BY <1>7, <1>1, <2>1 DEF Tick, AcceptStep, InitConn, SetSocket, SpuriousWakeup, vars, WatchConn,
                            Select, hist
  <2>2. CASE ReadMore \/ Active \/ WriteMore \/ SkipConn \/ EndPass \/ ReadDefault \/ ReadHead
    BY <1>7, <1>1, <2>2 DEF ReadMore, Active, WriteMore, SkipConn, EndPass, ReadDefault, ReadHead, hist
  <2>3. CASE VMStep
    BY <1>7, <1>1, <2>3 DEF VMStep, Wait, QueueEmpty, SkipExec, StartExec, ExecDefault, Redirect,
                            FinishExec, CloseAfterExec, MarkAgain, LateMark, EraseFront, hist
  <2>4. QED
    BY <1>2, <1>3, <1>4, <1>5, <1>6, <1>7, <2>1, <2>2, <2>3 DEF Next, IOStep
<1>8. QED
  BY <1>3, <1>7

LEMMA ServedNext ==
    ASSUME TypeInv, ListsSound, ServedArePolled, [Next]_vars PROVE ServedArePolled'
<1>1. SUFFICES ASSUME ~torn', NEW c \in Socks, fate'[c] \in {"open", "asked"}
               PROVE  Polled(c)'
  BY DEF ServedArePolled
<1>t. connList \in Seq(Slots) /\ connList' \in Seq(Slots)
  BY TypeInvNext DEF TypeInv, TypeOK, ConnTypeOK
<1>2. CASE Insert(c)
  <2>1. /\ Head(free) \in Slots /\ connList' = Append(connList, Head(free))
        /\ accPc' # "idle" /\ accSlot' = Head(free) /\ accFor' = c
    BY <1>2 DEF Insert, TypeInv, TypeOK, ConnTypeOK
  <2>2. /\ Len(connList) + 1 \in DOMAIN connList'
        /\ connList'[Len(connList) + 1] = accSlot'
    BY <1>t, <2>1
  <2>3. QED
    BY <2>1, <2>2 DEF Polled, Owner, Inserting
<1>3. ASSUME NEW x \in Slots, Listed(x), Owner(x) = c, CloseConn => Conn # x
      PROVE  Polled(c)'
  <2>1. Listed(x)' /\ Owner(x)' = c
    BY <1>3, ListedStays, OwnerStays
  <2>2. PICK k \in DOMAIN connList' : connList'[k] = x
    BY <2>1 DEF Listed
  <2>3. Owner(connList[k])' = c
    BY <2>1, <2>2 DEF Owner, Inserting
  <2>4. QED
    BY <2>2, <2>3 DEF Polled
<1>4. CASE ReadScript /\ sock[Conn] = c
  <2>1. Conn \in Slots /\ Owner(Conn) = c
    BY <1>1, <1>4, WorksOnItsOwn DEF Works
  <2>2. ioPos \in DOMAIN connList /\ ~CloseConn
    BY <1>t, <1>4 DEF ReadScript, Readable, AtConn, CloseConn, TypeInv, TypeOK, IOTypeOK
  <2>3. Listed(Conn)
    BY <2>2 DEF Listed, Conn
  <2>4. QED
    BY <1>3, <2>1, <2>2, <2>3
<1>5. CASE fate[c] \in {"open", "asked"} /\ (CloseConn => Owner(Conn) # c)
  <2>1. Polled(c)
    BY <1>1, <1>5, TornStays DEF ServedArePolled
  <2>2. PICK i \in DOMAIN connList : Owner(connList[i]) = c
    BY <2>1 DEF Polled
  <2>3. connList[i] \in Slots /\ Listed(connList[i])
    BY <1>t, <2>2 DEF Listed
  <2>4. QED
    BY <1>3, <1>5, <2>2, <2>3
<1>6. QED
  BY <1>1, <1>2, <1>4, <1>5, ServedFrom

LEMMA PoolInit == Init => PoolSound
BY ListsInit DEF Init, PoolSound, ServedArePolled

LEMMA PoolNext == TypeInv /\ PoolSound /\ [Next]_vars => PoolSound'
BY ListsNext, ServedNext DEF PoolSound

(* The polled list and the free list share no slot, repeat none and lose   *)
(* none, whatever the I/O thread frees while insert_request is at work;    *)
(* and until it works on a slot being inserted, every client that was      *)
(* neither answered nor closed is polled.                                  *)
THEOREM PoolStaysSound == Spec => []PoolSound
<1>1. TypeInv /\ PoolSound /\ [Next]_vars => (TypeInv /\ PoolSound)'
  BY TypeInvNext, PoolNext
<1>2. QED
  BY TypeInvInit, PoolInit, <1>1, PTL DEF Spec

-----------------------------------------------------------------------------
(* Answers reach their askers.                                             *)

(* What a step does to the entries the VM has still to finish.             *)
LEMMA PendingStep ==
    ASSUME TypeInv, [Next]_vars
    PROVE  /\ Pending \in Seq(Slots)
           /\ \/ Pending' = Pending
              \/ ReadScript /\ Pending' = Append(Pending, Conn)
              \/ /\ SkipExec \/ ExecDefault \/ FinishExec
                 /\ Pending # <<>> /\ Current = Head(Pending)
                 /\ Pending' = Tail(Pending)
<1>t. que \in Seq(Slots) /\ (vmPc \in {"run", "sent", "close", "again", "erase"} => que # <<>>)
  BY DEF TypeInv, TypeOK, VMTypeOK, Holds
<1>s. Pending \in Seq(Slots)
  BY <1>t DEF Pending
<1>1. CASE UNCHANGED que /\ (vmPc' \in {"close", "again", "erase"} <=> vmPc \in {"close", "again", "erase"})
  BY <1>1, <1>s DEF Pending
<1>2. CASE ReadScript
  <2>1. Conn \in Slots /\ que' = Append(que, Conn) /\ vmPc' = vmPc
    BY <1>2, ConnFacts DEF ReadScript, Readable, AtConn, vmVars
  <2>2. vmPc \in {"close", "again", "erase"} => Tail(que') = Append(Tail(que), Conn)
    BY <2>1, <1>t
  <2>3. QED
    BY <1>2, <1>s, <2>1, <2>2 DEF Pending
<1>3. CASE SkipExec \/ ExecDefault \/ FinishExec
  <2>1. que # <<>> /\ que' = que /\ Pending = que
    BY <1>3, <1>t DEF SkipExec, ExecDefault, FinishExec, Pending
  <2>2. Pending' = Tail(que)
    BY <1>3, <2>1 DEF SkipExec, ExecDefault, FinishExec, AfterExec, Pending
  <2>3. QED
    BY <1>3, <1>s, <2>1, <2>2 DEF Current
<1>4. CASE EraseFront
  BY <1>4, <1>s DEF EraseFront, Pending
<1>5. CASE Tick \/ (\E c \in Socks : Insert(c)) \/ AcceptStep \/ SpuriousWakeup \/ UNCHANGED vars
  BY <1>5, <1>1 DEF Tick, Insert, AcceptStep, InitConn, SetSocket, SpuriousWakeup, vars, vmVars
<1>6. CASE CloseConn \/ WatchConn \/ Select \/ ReadError \/ ReadMore \/ Active
  BY <1>6, <1>1 DEF CloseConn, WatchConn, Select, ReadError, ReadMore, Active, vmVars
<1>7. CASE ReadDefault \/ ReadHead \/ WriteMore \/ WriteDone \/ WriteError
             \/ SkipConn \/ EndPass
  BY <1>7, <1>1 DEF ReadDefault, ReadHead, WriteMore, WriteDone, WriteError, SkipConn,
              EndPass, vmVars
<1>8. CASE Wait \/ QueueEmpty \/ StartExec \/ Redirect \/ CloseAfterExec \/ MarkAgain
  BY <1>8, <1>1 DEF Wait, QueueEmpty, StartExec, Redirect, CloseAfterExec, MarkAgain, LateMark
<1>9. QED
  BY <1>2, <1>3, <1>4, <1>5, <1>6, <1>7, <1>8 DEF Next, IOStep, VMStep

(* An entry the VM will still have to finish was one before, or is the     *)
(* connection the I/O thread has just queued.                              *)
LEMMA PendingFrom ==
    ASSUME TypeInv, [Next]_vars, NEW i \in DOMAIN Pending'
    PROVE  \/ \E j \in DOMAIN Pending : Pending'[i] = Pending[j]
           \/ ReadScript /\ Pending'[i] = Conn
<1>1. CASE Pending' = Pending
  BY <1>1
<1>2. CASE ReadScript /\ Pending' = Append(Pending, Conn)
  <2>1. Conn \in Slots
    BY <1>2, ConnFacts DEF ReadScript, Readable, AtConn
  <2>2. QED
    BY <1>2, <2>1, PendingStep
<1>3. CASE Pending # <<>> /\ Pending' = Tail(Pending)
  BY <1>3, PendingStep
<1>4. QED
  BY <1>1, <1>2, <1>3, PendingStep

(* overrun is set by CloseConn only, and never reset.                      *)
LEMMA OverrunStep ==
    ASSUME [Next]_vars
    PROVE  overrun' = overrun \/ (CloseConn /\ overrun' = (overrun \/ InQueue(Conn)))
<1>1. CASE Tick \/ (\E c \in Socks : Insert(c)) \/ AcceptStep \/ SpuriousWakeup \/ UNCHANGED vars
  BY <1>1 DEF Tick, Insert, AcceptStep, InitConn, SetSocket, SpuriousWakeup, vars, hist
<1>2. CASE CloseConn
  BY <1>2 DEF CloseConn
<1>3. CASE WatchConn \/ Select \/ ReadError \/ ReadMore \/ ReadScript \/ Active
  BY <1>3 DEF WatchConn, Select, ReadError, ReadMore, ReadScript, Active, hist
<1>4. CASE ReadDefault \/ ReadHead \/ WriteMore \/ WriteDone \/ WriteError
             \/ SkipConn \/ EndPass
  BY <1>4 DEF ReadDefault, ReadHead, WriteMore, WriteDone, WriteError, SkipConn,
              EndPass, hist
<1>5. CASE VMStep
  BY <1>5 DEF VMStep, Wait, QueueEmpty, SkipExec, StartExec, ExecDefault, Redirect,
              FinishExec, CloseAfterExec, MarkAgain, LateMark, EraseFront, hist
<1>6. QED
  BY <1>1, <1>2, <1>3, <1>4, <1>5 DEF Next, IOStep

LEMMA OverrunStays ==
    ASSUME [Next]_vars, overrun PROVE overrun'
BY OverrunStep

LEMMA OverrunOnlyCloses ==
    ASSUME [Next]_vars, ~overrun, overrun' PROVE CloseConn /\ InQueue(Conn)
BY OverrunStep

(* A polled slot comes under insert_request in no step.                    *)
LEMMA InsertingStays ==
    ASSUME TypeInv, ListsSound, [Next]_vars, NEW x \in Slots, Listed(x), ~Inserting(x)
    PROVE  ~Inserting(x)'
<1> USE DEF Inserting
<1>1. ASSUME NEW c \in Socks, Insert(c) PROVE ~Inserting(x)'
  <2>1. free \in Seq(Slots) /\ free # <<>> /\ 1 \in DOMAIN free /\ Head(free) = free[1]
    BY <1>1 DEF Insert, TypeInv, TypeOK, ConnTypeOK
  <2>2. x # Head(free)
    BY <2>1 DEF ListsSound, Listed
  <2>3. QED
    BY <1>1, <2>2 DEF Insert
<1>2. CASE AcceptStep
  BY <1>2 DEF AcceptStep, InitConn, SetSocket
<1>3. CASE UNCHANGED accVars
  BY <1>3 DEF accVars
<1>4. CASE Tick \/ SpuriousWakeup \/ UNCHANGED vars \/ CloseConn \/ WatchConn \/ Select
  BY <1>4, <1>3 DEF Tick, SpuriousWakeup, vars, CloseConn, WatchConn, Select
<1>5. CASE ReadError \/ ReadMore \/ ReadScript \/ Active \/ ReadDefault \/ ReadHead
  BY <1>5, <1>3 DEF ReadError, ReadMore, ReadScript, Active, ReadDefault, ReadHead
<1>6. CASE WriteMore \/ WriteDone \/ WriteError \/ SkipConn \/ EndPass
  BY <1>6, <1>3 DEF WriteMore, WriteDone, WriteError, SkipConn, EndPass
<1>7. CASE VMStep
  BY <1>7, <1>3 DEF VMStep, Wait, QueueEmpty, SkipExec, StartExec, ExecDefault, Redirect, FinishExec,
                    CloseAfterExec, MarkAgain, LateMark, EraseFront
<1>8. QED
  BY <1>1, <1>2, <1>4, <1>5, <1>6, <1>7 DEF Next, IOStep

LEMMA PendingListedNext ==
    ASSUME TypeInv, ListsSound, PendingListed, [Next]_vars, ~overrun', ~torn'
    PROVE  PendingListed'
<1> DEFINE kept(x) == /\ \E k \in DOMAIN connList' : connList'[k] = x
                      /\ ~(accPc' # "idle" /\ accSlot' = x)
<1>1. SUFFICES ASSUME NEW i \in DOMAIN Pending' PROVE kept(Pending'[i])
  BY DEF PendingListed, Listed, Inserting
<1>2. \A j \in DOMAIN Pending : Pending[j] \in Slots
  BY PendingStep
<1>3. ASSUME NEW j \in DOMAIN Pending PROVE kept(Pending[j])
  <2>1. PICK x \in Slots : x = Pending[j]
    BY <1>2
  <2>2. Listed(x) /\ ~Inserting(x)
    BY <2>1 DEF PendingListed
  <2>3. CloseConn => Conn # x
    BY <1>3, <2>1 DEF CloseConn, InQueue
  <2>4. Listed(x)' /\ ~Inserting(x)'
    BY <2>2, <2>3, ListedStays, InsertingStays
  <2>5. QED
    BY <2>1, <2>4 DEF Listed, Inserting
<1>4. ASSUME ReadScript PROVE kept(Conn)
  <2>1. ioPos \in DOMAIN connList
    BY <1>4 DEF ReadScript, Readable, AtConn, TypeInv, TypeOK, ConnTypeOK, IOTypeOK
  <2>2. UNCHANGED <<connList, accPc, accSlot>> /\ ~Inserting(Conn)
    BY <1>4, WorksOnItsOwn DEF Works, ReadScript, accVars
  <2>3. QED
    BY <2>1, <2>2 DEF Listed, Inserting, Conn
<1>5. QED
  BY <1>3, <1>4, PendingFrom

(* The slot whose script is running is polled and not being inserted.      *)
LEMMA RunningIsPolled ==
    ASSUME TypeInv, PendingListed, vmPc \in {"check", "run", "sent"}, que # <<>>
    PROVE  Current \in Slots /\ Listed(Current) /\ ~Inserting(Current)
<1>1. Pending = que /\ 1 \in DOMAIN que /\ Current = que[1]
  BY DEF TypeInv, TypeOK, VMTypeOK, Pending, Current
<1>2. QED
  BY <1>1, CurrentFacts DEF PendingListed

(* While the script runs, the I/O thread and the accept thread leave its   *)
(* slot alone: the slot is polled, and, until the script redirects, its    *)
(* connection is not to be read or written.                                *)
LEMMA RunsForOwnerNext ==
    ASSUME TypeInv, PendingListed, RunsForOwner, [Next]_vars
    PROVE  RunsForOwner'
<1> USE DEF RunsForOwner
<1>t. /\ que \in Seq(Slots) /\ (vmPc \in {"run", "sent"} => que # <<>> /\ Current \in Slots)
      /\ stat \in [Slots -> LinkStat] /\ sock \in [Slots -> Socks \union {None}]
  BY CurrentFacts DEF TypeInv, TypeOK, ConnTypeOK, VMTypeOK, Holds
<1>1. CASE UNCHANGED <<stat, sock, que>> /\ (vmPc' \in {"run", "sent"} => vmPc' = vmPc /\ vmFor' = vmFor)
  BY <1>1 DEF Current
<1>2. CASE AcceptStep
  <2>1. /\ accPc # "idle" /\ accSlot \in Slots
        /\ \A s \in Slots : s # accSlot => stat'[s] = stat[s] /\ sock'[s] = sock[s]
        /\ UNCHANGED <<que, vmPc, vmFor>>
    BY <1>2, <1>t DEF AcceptStep, InitConn, SetSocket, TypeInv, TypeOK, AccTypeOK, vmVars
  <2>2. CASE vmPc \in {"run", "sent"}
    <3>1. Current # accSlot
      BY <1>t, <2>1, <2>2, RunningIsPolled DEF Inserting
    <3>2. Current' = Current
      BY <2>1 DEF Current
    <3>3. QED
      BY <1>t, <2>1, <2>2, <3>1, <3>2
  <2>3. QED
    BY <2>1, <2>2
<1>3. CASE ReadScript
  <2>1. /\ Conn \in Slots /\ stat[Conn] = "read_ready"
        /\ stat' = [stat EXCEPT ![Conn] = "read_finished"]
        /\ que' = Append(que, Conn) /\ UNCHANGED <<sock, vmPc, vmFor>>
    BY <1>3, ConnFacts DEF ReadScript, Readable, AtConn, vmVars
  <2>2. CASE vmPc \in {"run", "sent"}
    <3>1. Current' = Current /\ Current \in Slots
      BY <1>t, <2>1, <2>2 DEF Current
    <3>2. QED
      BY <1>t, <2>1, <2>2, <3>1
  <2>3. QED
    BY <2>1, <2>2
<1>4. CASE ReadError \/ ReadDefault \/ ReadHead \/ WriteDone \/ WriteError
  <2>1. /\ Conn \in Slots /\ stat[Conn] # "read_finished"
        /\ \E x \in LinkStat : stat' = [stat EXCEPT ![Conn] = x]
        /\ UNCHANGED <<sock, que, vmPc, vmFor>>
    BY <1>4, ConnFacts DEF ReadError, ReadDefault, ReadHead, WriteDone, WriteError, Readable,
                           Writable, AtConn, vmVars, LinkStat
  <2>2. QED
    BY <1>t, <2>1 DEF Current
<1>5. CASE StartExec
  BY <1>5 DEF StartExec, Current, connVars, ToRun
<1>6. CASE Redirect
  BY <1>6 DEF Redirect, Current
<1>7. CASE Tick \/ (\E c \in Socks : Insert(c)) \/ SpuriousWakeup \/ UNCHANGED vars
  BY <1>7, <1>1 DEF Tick, Insert, SpuriousWakeup, vars, connVars, vmVars
<1>8. CASE CloseConn \/ WatchConn \/ Select \/ ReadMore \/ Active \/ WriteMore \/ SkipConn \/ EndPass
  BY <1>8, <1>1 DEF CloseConn, WatchConn, Select, ReadMore, Active, WriteMore, SkipConn, EndPass,
                    connVars, vmVars
<1>9. CASE VMStep /\ ~StartExec /\ ~Redirect
  BY <1>9 DEF VMStep, Wait, QueueEmpty, SkipExec, ExecDefault, FinishExec, AfterExec,
              CloseAfterExec, MarkAgain, LateMark, EraseFront
<1>10. QED
  BY <1>2, <1>3, <1>4, <1>5, <1>6, <1>7, <1>8, <1>9 DEF Next, IOStep

(* A slot that init has emptied stays so until it has its socket.          *)
InitEmpties == accPc = "sock" => out[accSlot] = {}

LEMMA BuffersOwnedNext ==
    ASSUME TypeInv, PendingListed, RunsForOwner, BuffersOwned, InitEmpties, [Next]_vars, ~torn'
    PROVE  BuffersOwned' /\ InitEmpties'
<1> USE DEF BuffersOwned, InitEmpties
<1>t. /\ out \in [Slots -> SUBSET Socks] /\ got \in [Socks -> SUBSET Socks]
      /\ sock \in [Slots -> Socks \union {None}] /\ accSlot \in Slots
  BY DEF TypeInv, TypeOK, ConnTypeOK, HistTypeOK, AccTypeOK
<1>1. CASE UNCHANGED <<out, got, sock, accPc, accSlot>>
  BY <1>1
<1>2. ASSUME NEW c \in Socks, Insert(c) PROVE BuffersOwned' /\ InitEmpties'
  BY <1>t, <1>2 DEF Insert, vmVars
<1>3. CASE InitConn
  BY <1>t, <1>3 DEF InitConn, BufferInit, hist
<1>4. CASE SetSocket
  BY <1>t, <1>4 DEF SetSocket, hist
<1>5. CASE ReadDefault \/ ReadHead
  <2>1. /\ Conn \in Slots /\ out' = [out EXCEPT ![Conn] = {sock[Conn]}]
        /\ UNCHANGED <<sock, got, accPc, accSlot>> /\ ~(accPc = "sock" /\ accSlot = Conn)
    BY <1>5, WorksOnItsOwn DEF Works, ReadDefault, ReadHead, Inserting, accVars
  <2>2. QED
    BY <1>t, <2>1
<1>6. CASE WriteDone
  <2>1. /\ Conn \in Slots /\ sock[Conn] \in Socks
        /\ got' = [got EXCEPT ![sock[Conn]] = @ \union out[Conn]]
        /\ UNCHANGED <<sock, out, accPc, accSlot>>
    BY <1>6, WorksOnItsOwn DEF Works, WriteDone, accVars
  <2>2. QED
    BY <1>t, <2>1
<1>7. CASE ExecDefault
  <2>1. /\ Current \in Slots /\ out' = [out EXCEPT ![Current] = {sock[Current]}]
        /\ UNCHANGED <<sock, got, accPc, accSlot>> /\ ~(accPc = "sock" /\ accSlot = Current)
    BY <1>7, RunningIsPolled DEF ExecDefault, Inserting, hist, accVars
  <2>2. QED
    BY <1>t, <2>1
<1>8. CASE Redirect \/ FinishExec
  <2>1. /\ Current \in Slots /\ vmFor = sock[Current]
        /\ \A s \in Slots : s # Current => out'[s] = out[s]
        /\ out'[Current] \subseteq out[Current] \union {vmFor}
        /\ UNCHANGED <<sock, got, accPc, accSlot>> /\ ~(accPc = "sock" /\ accSlot = Current)
    BY <1>8, <1>t, RunningIsPolled DEF Redirect, FinishExec, RunsForOwner, Inserting, hist, accVars,
       TypeInv, Holds
  <2>2. QED
    BY <1>t, <2>1
<1>9. CASE Tick \/ SpuriousWakeup \/ UNCHANGED vars
  BY <1>9, <1>1 DEF Tick, SpuriousWakeup, vars, connVars, accVars, hist
<1>10. CASE CloseConn \/ WatchConn \/ Select \/ ReadError \/ ReadMore \/ ReadScript \/ Active
  BY <1>10, <1>1 DEF CloseConn, WatchConn, Select, ReadError, ReadMore, ReadScript,
                     Active, connVars, accVars, hist
<1>11. CASE WriteMore \/ WriteError \/ SkipConn \/ EndPass
  BY <1>11, <1>1 DEF WriteMore, WriteError, SkipConn, EndPass, connVars, accVars, hist
<1>12. CASE VMStep /\ ~ExecDefault /\ ~Redirect /\ ~FinishExec
  BY <1>12, <1>1 DEF VMStep, Wait, QueueEmpty, SkipExec, StartExec, CloseAfterExec, MarkAgain, LateMark,
                     EraseFront, connVars, accVars, hist
<1>13. QED
  BY <1>2, <1>3, <1>4, <1>5, <1>6, <1>7, <1>8, <1>9, <1>10, <1>11, <1>12
  DEF Next, AcceptStep, IOStep

OwnIInv ==
    /\ TypeInv
    /\ PoolSound
    /\ OwnInv
    /\ ~overrun /\ ~torn => InitEmpties

LEMMA OwnIInvNext == OwnIInv /\ [Next]_vars => OwnIInv'
<1>1. SUFFICES ASSUME OwnIInv, [Next]_vars, ~overrun', ~torn'
               PROVE  (PendingListed /\ RunsForOwner /\ BuffersOwned /\ InitEmpties)'
  BY TypeInvNext, PoolNext DEF OwnIInv, OwnInv
<1>2. PendingListed /\ RunsForOwner /\ BuffersOwned /\ InitEmpties /\ TypeInv /\ ListsSound
  BY <1>1, OverrunStays, TornStays DEF OwnIInv, OwnInv, PoolSound
<1>3. QED
  BY <1>1, <1>2, PendingListedNext, RunsForOwnerNext, BuffersOwnedNext

LEMMA OwnIInvInit == Init => OwnIInv
<1>1. Init => OwnInv /\ InitEmpties
  BY DEF Init, OwnInv, PendingListed, Pending, RunsForOwner, BuffersOwned, InitEmpties
<1>2. QED
  BY TypeInvInit, PoolInit, <1>1 DEF OwnIInv

LEMMA OwnInvariant == Spec => []OwnIInv
BY OwnIInvInit, OwnIInvNext, PTL DEF Spec

(* Until the I/O thread frees a slot under the VM, or works on one that is *)
(* being inserted, no client is sent another client's answer.              *)
THEOREM AnswersReachTheirAskers == Spec => []OwnAnswer
<1>1. OwnIInv => OwnAnswer
  BY DEF OwnIInv, OwnInv, BuffersOwned, OwnAnswer
<1>2. QED
  BY OwnInvariant, <1>1, PTL

(* Until then a running script's slot is polled for its asker, and before  *)
(* the script redirects it the I/O thread also keeps away from the buffer  *)
(* the script is filling, although nothing locks it.                       *)
THEOREM ScriptHasItsBuffer == Spec => []BufferIsTheScripts
<1>1. OwnIInv => BufferIsTheScripts
  <2>1. SUFFICES ASSUME OwnIInv, vmPc \in {"run", "sent"}, ~overrun, ~torn
                 PROVE  RunsForOwner /\ Listed(Current)
    BY DEF BufferIsTheScripts, RunsForOwner
  <2>2. PendingListed /\ RunsForOwner /\ que # <<>>
    BY <2>1 DEF OwnIInv, OwnInv, TypeInv, Holds
  <2>3. QED
    BY <2>1, <2>2, RunningIsPolled DEF OwnIInv
<1>2. QED
  BY OwnInvariant, <1>1, PTL

-----------------------------------------------------------------------------
(* At the keep-alive limit the VM closes a connection whose answer it has  *)
(* just marked ready.  No answer is thrown away elsewhere, as long as the  *)
(* VM's late marks hit no other connection and none is hit while inserted. *)

(* A finished connection has been answered, has failed, or was told.       *)
FinishedIsTold ==
    \A s \in Slots : sock[s] # None /\ stat[s] = "conn_finished"
                        => fate[sock[s]] \notin {"open", "asked"} \/ sock[s] \in told

(* The VM closes for the client it ran for, and none finishes a slot that  *)
(* still waits for its socket.                                             *)
ClosesItsOwn ==
    /\ vmClose => vmFor \in told
    /\ vmPc = "close" => vmClose
    /\ accPc = "sock" => stat[accSlot] # "conn_finished"

DroppedTold == \A c \in Socks : fate[c] = "dropped" => c \in told

DropInv == ~stray /\ ~torn => FinishedIsTold /\ ClosesItsOwn /\ DroppedTold

(* stray, too, is never reset.                                             *)
LEMMA StrayStays ==
    ASSUME [Next]_vars, stray PROVE stray'
<1>1. CASE Tick \/ (\E c \in Socks : Insert(c)) \/ AcceptStep \/ SpuriousWakeup \/ UNCHANGED vars
  BY <1>1 DEF Tick, Insert, AcceptStep, InitConn, SetSocket, SpuriousWakeup, vars, hist
<1>2. CASE CloseConn \/ WatchConn \/ Select \/ ReadError \/ ReadMore \/ ReadScript \/ Active
  BY <1>2 DEF CloseConn, WatchConn, Select, ReadError, ReadMore, ReadScript, Active, hist
<1>3. CASE ReadDefault \/ ReadHead \/ WriteMore \/ WriteDone \/ WriteError
             \/ SkipConn \/ EndPass
  BY <1>3 DEF ReadDefault, ReadHead, WriteMore, WriteDone, WriteError, SkipConn,
              EndPass, hist
<1>4. CASE VMStep
  BY <1>4 DEF VMStep, Wait, QueueEmpty, SkipExec, StartExec, ExecDefault, Redirect,
              FinishExec, CloseAfterExec, MarkAgain, LateMark, EraseFront, hist
<1>5. QED
  BY <1>1, <1>2, <1>3, <1>4 DEF Next, IOStep

(* A late mark that is not stray hits the connection the VM ran.           *)
LEMMA LateMarkHits ==
    ASSUME TypeInv, OnceSafe, CloseAfterExec \/ MarkAgain, ~stray'
    PROVE  /\ Current \in Slots /\ vmFor \in Socks
           /\ ~Inserting(Current) /\ sock[Current] = vmFor
           /\ stat[Current] # "read_finished"
<1>1. /\ Current \in Slots /\ vmPc \in {"close", "again"} /\ vmFor \in Socks
  BY CurrentFacts DEF CloseAfterExec, MarkAgain, TypeInv, Holds
<1>2. Owner(Current) = vmFor
  BY <1>1 DEF CloseAfterExec, MarkAgain, LateMark
<1>3. runs[vmFor] = 1 /\ None \notin Socks /\ (accPc # "idle" => runs[accFor] = 0)
  BY <1>1, ConstantsAssumption DEF OnceSafe, InVM
<1>4. ~Inserting(Current) /\ sock[Current] = vmFor
  BY <1>2, <1>3 DEF Owner, Inserting
<1>5. stat[Current] # "read_finished"
  BY <1>1, <1>3, <1>4 DEF OnceSafe, InVM, Inserting
<1>6. QED
  BY <1>1, <1>4, <1>5

LEMMA DropNext ==
    ASSUME TypeInv, OnceSafe, FinishedIsTold, ClosesItsOwn, DroppedTold, [Next]_vars,
           ~stray', ~torn'
    PROVE  FinishedIsTold' /\ ClosesItsOwn' /\ DroppedTold'
<1> DEFINE Goal == FinishedIsTold' /\ ClosesItsOwn' /\ DroppedTold'
<1> USE DEF FinishedIsTold, ClosesItsOwn, DroppedTold
<1>t. /\ stat \in [Slots -> LinkStat] /\ sock \in [Slots -> Socks \union {None}]
      /\ fate \in [Socks -> Fate] /\ accSlot \in Slots /\ None \notin Socks
  BY ConstantsAssumption DEF TypeInv, TypeOK, ConnTypeOK, HistTypeOK, AccTypeOK
<1>u. /\ \A s, t \in Slots : sock[s] = sock[t] /\ sock[s] # None => s = t
      /\ \A s \in Slots : sock[s] # None => fate[sock[s]] # "new"
  BY DEF OnceSafe
<1>1. CASE UNCHANGED <<stat, sock, fate, told, vmFor, vmClose, accPc, accSlot>>
           /\ (vmPc' = "close" => vmPc = "close" \/ vmClose)
  BY <1>1
<1>2. ASSUME NEW c \in Socks, Insert(c) PROVE Goal
  <2>1. /\ fate[c] = "new" /\ fate' = [fate EXCEPT ![c] = "open"] /\ accPc' = "init"
        /\ UNCHANGED <<stat, sock, told, vmFor, vmClose, vmPc>>
    BY <1>2 DEF Insert, vmVars
  <2>2. QED
    BY <1>t, <1>u, <2>1
<1>3. CASE InitConn
  <2>1. /\ stat' = [stat EXCEPT ![accSlot] = "read_ready"]
        /\ UNCHANGED <<sock, fate, told, vmFor, vmClose, vmPc, accSlot>>
    BY <1>3 DEF InitConn, vmVars, hist
  <2>2. QED
    BY <1>t, <2>1
<1>4. CASE SetSocket
  <2>1. /\ stat[accSlot] # "conn_finished" /\ accPc' = "idle"
        /\ sock' = [sock EXCEPT ![accSlot] = accFor]
        /\ UNCHANGED <<stat, fate, told, vmFor, vmClose, vmPc>>
    BY <1>4 DEF SetSocket, vmVars, hist
  <2>2. QED
    BY <1>t, <2>1
<1>5. CASE CloseConn
  <2>1. /\ Conn \in Slots /\ sock[Conn] \in Socks \union {None}
        /\ ~Inserting(Conn) /\ Owner(Conn) = sock[Conn]
    BY <1>5, WorksOnItsOwn DEF Works
  <2>2. /\ UNCHANGED <<stat, sock, told, vmFor, vmClose, vmPc, accPc, accSlot>>
        /\ \A d \in Socks : d # sock[Conn] => fate'[d] = fate[d]
        /\ sock[Conn] \in Socks => fate'[sock[Conn]] =
              IF fate[sock[Conn]] \notin {"open", "asked"} THEN fate[sock[Conn]]
              ELSE IF stat[Conn] = "conn_finished" THEN "dropped" ELSE "expired"
    BY <1>5, <1>t, <2>1 DEF CloseConn, vmVars, accVars
  <2>3. FinishedIsTold'
    BY <1>t, <2>1, <2>2
  <2>4. DroppedTold'
    BY <1>t, <2>1, <2>2
  <2>5. QED
    BY <2>2, <2>3, <2>4
<1>6. CASE ReadError \/ WriteError
  <2>1. /\ Conn \in Slots /\ sock[Conn] \in Socks \union {None}
        /\ ~(accPc = "sock" /\ accSlot = Conn)
    BY <1>6, WorksOnItsOwn DEF Works, Inserting
  <2>2. /\ UNCHANGED <<sock, told, vmFor, vmClose, vmPc, accPc, accSlot>>
        /\ stat' = [stat EXCEPT ![Conn] = "conn_finished"]
        /\ \A d \in Socks : d # sock[Conn] => fate'[d] = fate[d]
        /\ sock[Conn] \in Socks => fate'[sock[Conn]] =
              IF fate[sock[Conn]] \in {"open", "asked"} THEN "failed" ELSE fate[sock[Conn]]
    BY <1>6, <1>t DEF ReadError, WriteError, Fails, vmVars, accVars
  <2>3. FinishedIsTold'
    BY <1>t, <2>1, <2>2
  <2>4. DroppedTold'
    BY <1>t, <2>1, <2>2
  <2>5. QED
    BY <1>t, <2>1, <2>2, <2>3, <2>4
<1>7. CASE WriteDone
  <2>1. /\ Conn \in Slots /\ sock[Conn] \in Socks /\ ~(accPc = "sock" /\ accSlot = Conn)
    BY <1>7, WorksOnItsOwn DEF Works, WriteDone, Inserting
  <2>2. /\ UNCHANGED <<sock, told, vmFor, vmClose, vmPc, accPc, accSlot>>
        /\ stat' = [stat EXCEPT ![Conn] = "conn_finished"]
        /\ fate' = [fate EXCEPT ![sock[Conn]] = "answered"]
    BY <1>7 DEF WriteDone, vmVars, accVars
  <2>3. QED
    BY <1>t, <2>1, <2>2
<1>8. CASE ReadScript
  <2>1. /\ Conn \in Slots /\ sock[Conn] \in Socks
    BY <1>8, WorksOnItsOwn DEF Works, ReadScript
  <2>2. /\ UNCHANGED <<sock, told, vmFor, vmClose, vmPc, accPc, accSlot>>
        /\ stat' = [stat EXCEPT ![Conn] = "read_finished"]
        /\ fate' = [fate EXCEPT ![sock[Conn]] = "asked"]
    BY <1>8 DEF ReadScript, vmVars, accVars
  <2>3. QED
    BY <1>t, <1>u, <2>1, <2>2
<1>9. CASE ReadDefault \/ ReadHead
  <2>1. /\ Conn \in Slots
        /\ \E x \in LinkStat \ {"conn_finished"} : stat' = [stat EXCEPT ![Conn] = x]
        /\ UNCHANGED <<sock, fate, told, vmFor, vmClose, vmPc, accPc, accSlot>>
    BY <1>9, WorksOnItsOwn DEF Works, ReadDefault, ReadHead, LinkStat, vmVars, accVars
  <2>2. QED
    BY <1>t, <2>1
<1>10. CASE StartExec
  <2>1. /\ UNCHANGED <<stat, sock, fate, accPc, accSlot>> /\ vmPc' = "run"
        /\ told \subseteq told' /\ (vmClose' => vmFor' \in told')
    BY <1>10 DEF StartExec, connVars, accVars
  <2>2. QED
    BY <2>1
<1>11. CASE Redirect \/ FinishExec
  <2>1. /\ Current \in Slots /\ stat' = [stat EXCEPT ![Current] = "write_ready"]
        /\ UNCHANGED <<sock, fate, told, vmFor, vmClose, accPc, accSlot>>
        /\ vmPc' = "close" => vmClose
    BY <1>11, CurrentFacts DEF Redirect, FinishExec, AfterExec, TypeInv, Holds, hist, accVars
  <2>2. QED
    BY <1>t, <2>1
<1>12. CASE CloseAfterExec \/ MarkAgain
  <2>1. /\ Current \in Slots /\ vmFor \in Socks
        /\ ~Inserting(Current) /\ sock[Current] = vmFor
    BY <1>12, LateMarkHits
  <2>2. /\ UNCHANGED <<sock, fate, told, vmFor, vmClose, accPc, accSlot>> /\ vmPc' = "erase"
        /\ \/ stat' = [stat EXCEPT ![Current] = "write_ready"]
           \/ stat' = [stat EXCEPT ![Current] = "conn_finished"] /\ vmPc = "close"
    BY <1>12 DEF CloseAfterExec, MarkAgain, LateMark, accVars
  <2>3. ~(accPc = "sock" /\ accSlot = Current)
    BY <2>1 DEF Inserting
  <2>4. FinishedIsTold'
    BY <1>t, <2>1, <2>2
  <2>5. QED
    BY <1>t, <2>1, <2>2, <2>3, <2>4
<1>13. CASE EraseFront
  BY <1>13 DEF EraseFront, connVars, hist, accVars
<1>14. CASE Tick \/ SpuriousWakeup \/ UNCHANGED vars \/ WatchConn \/ Select
  BY <1>14, <1>1 DEF Tick, SpuriousWakeup, vars, WatchConn, Select, connVars, vmVars, accVars, hist
<1>15. CASE ReadMore \/ Active \/ WriteMore \/ SkipConn \/ EndPass
  <2>1. /\ UNCHANGED <<stat, sock, fate, told, vmFor, vmClose, accPc, accSlot>>
        /\ vmPc' = "close" => vmPc = "close"
    BY <1>15 DEF ReadMore, Active, WriteMore, SkipConn, EndPass, connVars, vmVars, accVars, hist
  <2>2. QED
    BY <1>1, <2>1
<1>16. CASE Wait \/ QueueEmpty \/ SkipExec \/ ExecDefault
  BY <1>16, <1>1 DEF Wait, QueueEmpty, SkipExec, ExecDefault, connVars, accVars, hist
<1>17. QED
  BY <1>2, <1>3, <1>4, <1>5, <1>6, <1>7, <1>8, <1>9, <1>10, <1>11, <1>12, <1>13, <1>14, <1>15, <1>16
  DEF Next, AcceptStep, IOStep, VMStep

(* For any keep-alive limit and any pool: only an answer whose head told   *)
(* the client to close is closed unsent.                                   *)
THEOREM NoneDroppedUntold == Spec => []DroppedOnlyAtCap
<1> DEFINE Inv == TypeInv /\ OnceInv /\ DropInv
<1>1. Init => Inv
  <2>1. Init => DropInv
    BY DEF Init, DropInv, FinishedIsTold, ClosesItsOwn, DroppedTold
  <2>2. QED
    BY <2>1, TypeInvInit, OnceInit
<1>2. Inv /\ [Next]_vars => Inv'
  <2>1. SUFFICES ASSUME Inv, [Next]_vars PROVE Inv'
    OBVIOUS
  <2>2. TypeInv' /\ OnceInv'
    BY <2>1, TypeInvNext, OnceNext
  <2>3. ASSUME ~stray', ~torn' PROVE FinishedIsTold' /\ ClosesItsOwn' /\ DroppedTold'
    BY <2>1, <2>3, StrayStays, TornStays, DropNext DEF OnceInv, DropInv
  <2>4. QED
    BY <2>2, <2>3 DEF DropInv
<1>3. Inv => DroppedOnlyAtCap
  BY DEF DropInv, DroppedTold, DroppedOnlyAtCap
<1>4. QED
  BY <1>1, <1>2, <1>3, PTL DEF Spec

-----------------------------------------------------------------------------
(* Why a slot is freed under the VM.                                       *)

(* The entries the VM has to finish name different slots, each with a      *)
(* request read and not yet answered, but for one that is redirected.      *)
PendingFresh ==
    /\ Distinct(Pending)
    /\ \A i \in DOMAIN Pending :
          stat[Pending[i]] = "read_finished" \/ (vmPc = "sent" /\ Pending[i] = Current)
    /\ vmPc = "sent" => stat[Current] \in {"write_ready", "conn_finished"}

(* Who changes a slot's link_stat.                                         *)
LEMMA StatStep ==
    ASSUME TypeInv, [Next]_vars, NEW x \in Slots, stat'[x] # stat[x]
    PROVE  \/ AcceptStep /\ accSlot = x
           \/ ~VMStep /\ stat[x] = "read_ready"
           \/ ~VMStep /\ stat[x] = "write_ready" /\ stat'[x] = "conn_finished"
           \/ (Redirect \/ FinishExec \/ CloseAfterExec \/ MarkAgain) /\ Current = x
<1>t. stat \in [Slots -> LinkStat]
  BY DEF TypeInv, TypeOK, ConnTypeOK
<1>1. CASE AcceptStep
  BY <1>1, <1>t DEF AcceptStep, InitConn, SetSocket, TypeInv, TypeOK, AccTypeOK
<1>2. CASE ReadError \/ ReadScript \/ ReadDefault \/ ReadHead
  <2>1. stat[x] = "read_ready"
    BY <1>2, <1>t, ConnFacts DEF ReadError, ReadScript, ReadDefault, ReadHead, Readable, AtConn
  <2>2. ~VMStep
    <3>1. \/ ioPos' # ioPos
          \/ ioPc' # ioPc
      BY <1>2 DEF ReadError, ReadScript, ReadDefault, ReadHead, Readable, AtConn, TypeInv, TypeOK, IOTypeOK
    <3>2. VMStep => ioPos' = ioPos /\ ioPc' = ioPc
      BY DEF VMStep, Wait, QueueEmpty, SkipExec, StartExec, ExecDefault, Redirect, FinishExec,
             CloseAfterExec, MarkAgain, LateMark, EraseFront, ioVars
    <3>3. QED
      BY <3>1, <3>2
  <2>3. QED
    BY <2>1, <2>2
<1>3. CASE WriteDone \/ WriteError
  <2>1. stat[x] = "write_ready" /\ stat'[x] = "conn_finished"
    BY <1>3, <1>t, ConnFacts DEF WriteDone, WriteError, Writable, AtConn
  <2>2. ~VMStep
    <3>1. ioPos' # ioPos
      BY <1>3 DEF WriteDone, WriteError, TypeInv, TypeOK, IOTypeOK
    <3>2. VMStep => ioPos' = ioPos
      BY DEF VMStep, Wait, QueueEmpty, SkipExec, StartExec, ExecDefault, Redirect, FinishExec,
             CloseAfterExec, MarkAgain, LateMark, EraseFront, ioVars
    <3>3. QED
      BY <3>1, <3>2
  <2>3. QED
    BY <2>1, <2>2
<1>4. CASE Redirect \/ FinishExec
  BY <1>4, <1>t, CurrentFacts DEF Redirect, FinishExec, TypeInv, Holds
<1>5. CASE CloseAfterExec \/ MarkAgain
  BY <1>5, <1>t, CurrentFacts DEF CloseAfterExec, MarkAgain, LateMark, TypeInv, Holds
<1>6. CASE Tick \/ (\E c \in Socks : Insert(c)) \/ SpuriousWakeup \/ UNCHANGED vars
  BY <1>6 DEF Tick, Insert, SpuriousWakeup, vars, connVars
<1>7. CASE CloseConn \/ WatchConn \/ Select \/ ReadMore \/ Active \/ WriteMore \/ SkipConn \/ EndPass
  BY <1>7 DEF CloseConn, WatchConn, Select, ReadMore, Active, WriteMore, SkipConn, EndPass, connVars
<1>8. CASE Wait \/ QueueEmpty \/ SkipExec \/ StartExec \/ ExecDefault \/ EraseFront
  BY <1>8 DEF Wait, QueueEmpty, SkipExec, StartExec, ExecDefault, EraseFront, connVars
<1>9. QED
  BY <1>1, <1>2, <1>3, <1>4, <1>5, <1>6, <1>7, <1>8 DEF Next, IOStep, VMStep

(* Only FinishExec ends a redirected script, and only Redirect makes one.  *)
LEMMA SentStep ==
    ASSUME TypeInv, [Next]_vars
    PROVE  /\ vmPc' = "sent" => Redirect \/ vmPc = "sent"
           /\ vmPc = "sent" => FinishExec \/ (vmPc' = "sent" /\ Current' = Current)
           /\ Redirect => vmPc = "run" /\ vmPc' = "sent" /\ que' = que /\ Current' = Current
<1>1. CASE UNCHANGED <<que, vmPc>> /\ ~Redirect
  BY <1>1 DEF Current
<1>2. CASE ReadScript
  <2>1. Conn \in Slots /\ que' = Append(que, Conn) /\ vmPc' = vmPc /\ ioPc' # ioPc
    BY <1>2, ConnFacts DEF ReadScript, Readable, AtConn, vmVars
  <2>2. ~Redirect
    BY <2>1 DEF Redirect, ioVars
  <2>3. vmPc = "sent" => Current' = Current
    BY <2>1 DEF TypeInv, TypeOK, VMTypeOK, Holds, Current
  <2>4. QED
    BY <2>1, <2>2, <2>3
<1>3. CASE VMStep
  BY <1>3 DEF VMStep, Wait, QueueEmpty, SkipExec, StartExec, ExecDefault, Redirect, FinishExec,
              AfterExec, CloseAfterExec, MarkAgain, LateMark, EraseFront, Current
<1>4. CASE ~Redirect /\ UNCHANGED que /\ (vmPc' = vmPc \/ (vmPc = "waiting" /\ vmPc' = "check"))
  BY <1>4 DEF Current
<1>5. CASE Redirect
  BY <1>5 DEF Redirect, Current
<1>6. CASE Tick \/ (\E c \in Socks : Insert(c)) \/ AcceptStep \/ SpuriousWakeup \/ UNCHANGED vars
  BY <1>6, <1>4, <1>5 DEF Tick, Insert, AcceptStep, InitConn, SetSocket, SpuriousWakeup, vars, vmVars
<1>7. CASE CloseConn \/ WatchConn \/ Select \/ ReadError \/ ReadMore \/ Active
  BY <1>7, <1>4, <1>5 DEF CloseConn, WatchConn, Select, ReadError, ReadMore, Active, vmVars
<1>8. CASE ReadDefault \/ ReadHead \/ WriteMore \/ WriteDone \/ WriteError \/ SkipConn \/ EndPass
  BY <1>8, <1>4, <1>5 DEF ReadDefault, ReadHead, WriteMore, WriteDone, WriteError, SkipConn, EndPass,
                          vmVars
<1>9. QED
  BY <1>2, <1>3, <1>6, <1>7, <1>8 DEF Next, IOStep

LEMMA PendingFreshNext ==
    ASSUME TypeInv, OnceSafe, PendingListed, PendingFresh, [Next]_vars, ~stray'
    PROVE  PendingFresh'
<1>t. Pending \in Seq(Slots) /\ stat \in [Slots -> LinkStat]
  BY PendingStep DEF TypeInv, TypeOK, ConnTypeOK
<1>q. vmPc \in {"run", "sent"} => Current \in Slots /\ Listed(Current) /\ ~Inserting(Current)
  BY RunningIsPolled DEF TypeInv, Holds
<1>1. ASSUME NEW j \in DOMAIN Pending, stat[Pending[j]] = "read_finished",
             stat'[Pending[j]] # "read_finished"
      PROVE  (Redirect \/ FinishExec) /\ Pending[j] = Current
  <2>1. PICK x \in Slots : x = Pending[j]
    BY <1>t
  <2>2. ~(AcceptStep /\ accSlot = x)
    BY <2>1 DEF AcceptStep, InitConn, SetSocket, PendingListed, Inserting
  <2>3. ~((CloseAfterExec \/ MarkAgain) /\ Current = x)
    BY <1>1, <2>1, LateMarkHits
  <2>4. QED
    BY <1>1, <2>1, <2>2, <2>3, StatStep
<1>2. (vmPc = "sent" => stat[Current] \in {"write_ready", "conn_finished"})'
  <2>1. SUFFICES ASSUME vmPc' = "sent" PROVE stat'[Current'] \in {"write_ready", "conn_finished"}
    OBVIOUS
  <2>2. CASE Redirect
    BY <2>2, <1>t, <1>q, SentStep DEF Redirect
  <2>3. CASE vmPc = "sent" /\ Current' = Current
    <3>1. CASE stat'[Current] = stat[Current]
      BY <2>3, <3>1 DEF PendingFresh
    <3>2. CASE stat'[Current] # stat[Current]
      <4>1. ~(AcceptStep /\ accSlot = Current)
        BY <1>q, <2>3 DEF AcceptStep, InitConn, SetSocket, Inserting
      <4>2. stat[Current] # "read_ready"
        BY <2>3 DEF PendingFresh
      <4>3. ~Redirect /\ ~FinishExec /\ ~CloseAfterExec /\ ~MarkAgain
        BY <2>1, <2>3 DEF Redirect, FinishExec, AfterExec, CloseAfterExec, MarkAgain
      <4>4. QED
        BY <1>q, <2>3, <3>2, <4>1, <4>2, <4>3, StatStep
    <3>3. QED
      BY <3>1, <3>2
  <2>4. ~FinishExec
    BY <2>1 DEF FinishExec, AfterExec
  <2>5. QED
    BY <2>1, <2>2, <2>3, <2>4, SentStep
(* An entry that stays is still fresh.                                     *)
<1>3. ASSUME NEW j \in DOMAIN Pending, ~FinishExec
      PROVE  stat'[Pending[j]] = "read_finished" \/ (vmPc' = "sent" /\ Pending[j] = Current')
  <2>1. CASE stat[Pending[j]] = "read_finished"
    BY <1>1, <1>3, <2>1, SentStep
  <2>2. CASE vmPc = "sent" /\ Pending[j] = Current
    BY <1>3, <2>2, SentStep
  <2>3. QED
    BY <2>1, <2>2 DEF PendingFresh
<1>4. CASE Pending' = Pending
  <2>1. ~FinishExec
    <3>1. SUFFICES ASSUME FinishExec PROVE FALSE
      OBVIOUS
    <3>2. que \in Seq(Slots) /\ que # <<>> /\ Pending = que /\ que' = que
          /\ Pending' = Tail(que)
      BY <3>1 DEF FinishExec, AfterExec, Pending, TypeInv, TypeOK, VMTypeOK, Holds
    <3>3. Len(Tail(que)) = Len(que) - 1 /\ Len(que) \in Nat
      BY <3>2
    <3>4. QED
      BY <1>4, <3>2, <3>3
  <2>2. QED
    BY <1>2, <1>3, <1>4, <2>1 DEF PendingFresh
<1>5. CASE ReadScript /\ Pending' = Append(Pending, Conn)
  <2>1. Conn \in Slots /\ stat[Conn] = "read_ready" /\ stat'[Conn] = "read_finished"
    BY <1>5, <1>t, ConnFacts DEF ReadScript, Readable, AtConn
  <2>2. ~FinishExec
    BY <1>5 DEF ReadScript, FinishExec, AfterExec, vmVars
  <2>3. \A j \in DOMAIN Pending : Pending[j] # Conn
    BY <2>1 DEF PendingFresh
  <2>4. /\ DOMAIN Pending' = 1 .. Len(Pending) + 1 /\ Len(Pending) \in Nat
        /\ DOMAIN Pending = 1 .. Len(Pending)
        /\ Pending'[Len(Pending) + 1] = Conn
        /\ \A j \in 1 .. Len(Pending) : Pending'[j] = Pending[j]
    BY <1>5, <1>t, <2>1
  <2>5. Distinct(Pending')
    BY <2>3, <2>4 DEF PendingFresh, Distinct
  <2>6. ASSUME NEW j \in DOMAIN Pending'
        PROVE  stat'[Pending'[j]] = "read_finished" \/ (vmPc' = "sent" /\ Pending'[j] = Current')
    <3>1. CASE j \in DOMAIN Pending
      BY <3>1, <1>3, <2>2, <2>4
    <3>2. CASE j = Len(Pending) + 1
      BY <3>2, <2>1, <2>4
    <3>3. QED
      BY <3>1, <3>2, <2>4
  <2>7. QED
    BY <1>2, <2>5, <2>6 DEF PendingFresh
<1>6. CASE /\ SkipExec \/ ExecDefault \/ FinishExec
           /\ Pending # <<>> /\ Current = Head(Pending) /\ Pending' = Tail(Pending)
  <2>1. /\ DOMAIN Pending' = 1 .. Len(Pending) - 1 /\ Len(Pending) \in Nat
        /\ DOMAIN Pending = 1 .. Len(Pending) /\ 1 \in DOMAIN Pending
        /\ \A j \in 1 .. Len(Pending) - 1 : Pending'[j] = Pending[j + 1]
        /\ Current = Pending[1]
    BY <1>t, <1>6
  <2>2. ASSUME NEW i \in DOMAIN Pending', NEW j \in DOMAIN Pending', Pending'[i] = Pending'[j]
        PROVE  i = j
    <3>1. /\ i \in Int /\ j \in Int /\ i + 1 \in DOMAIN Pending /\ j + 1 \in DOMAIN Pending
          /\ Pending[i + 1] = Pending[j + 1]
      BY <2>1, <2>2
    <3>2. i + 1 = j + 1
      BY <3>1 DEF PendingFresh, Distinct
    <3>3. QED
      BY <3>1, <3>2
  <2>3. ASSUME NEW j \in DOMAIN Pending' PROVE stat'[Pending'[j]] = "read_finished"
    <3>1. /\ j \in Int /\ j + 1 \in DOMAIN Pending /\ j + 1 # 1
          /\ Pending'[j] = Pending[j + 1]
      BY <2>1, <2>3
    <3>2. Pending[j + 1] # Current
      BY <2>1, <3>1 DEF PendingFresh, Distinct
    <3>3. stat[Pending[j + 1]] = "read_finished"
      BY <3>1, <3>2 DEF PendingFresh
    <3>4. QED
      BY <1>1, <3>1, <3>2, <3>3
  <2>4. QED
    BY <1>2, <2>2, <2>3 DEF PendingFresh, Distinct
<1>7. QED
  BY <1>4, <1>5, <1>6, PendingStep

(* As long as the VM marks no slot that has passed to another connection,  *)
(* and none is hit while it is inserted, the I/O thread frees a slot whose *)
(* request is still in m_que, or running, only because its time is out, or *)
(* because its script has redirected the client and still runs.            *)
THEOREM OverrunsAreLateOrSent == Spec => OverrunOnlyLateOrSent
<1> DEFINE Fresh == ~overrun /\ ~stray /\ ~torn => PendingFresh
           Inv == OwnIInv /\ OnceInv /\ Fresh
<1>1. Init => Inv
  <2>1. Init => PendingFresh
    BY DEF Init, Pending, PendingFresh, Distinct
  <2>2. QED
    BY <2>1, OwnIInvInit, OnceInit
<1>2. Inv /\ [Next]_vars => Inv'
  <2>1. SUFFICES ASSUME Inv, [Next]_vars PROVE Inv'
    OBVIOUS
  <2>2. OwnIInv'
    BY <2>1, OwnIInvNext
  <2>3. OnceInv'
    BY <2>1, OnceNext DEF OwnIInv
  <2>4. ASSUME ~overrun', ~stray', ~torn' PROVE PendingFresh'
    <3>1. ~overrun /\ ~stray /\ ~torn
      BY <2>1, <2>4, OverrunStays, StrayStays, TornStays
    <3>2. QED
      BY <2>1, <2>4, <3>1, PendingFreshNext DEF OwnIInv, OwnInv, OnceInv
  <2>5. QED
    BY <2>2, <2>3, <2>4
<1>3. Inv /\ [Next]_vars => (~overrun /\ overrun' /\ ~stray /\ ~torn' =>
                                Expired(Conn) \/ (vmPc = "sent" /\ Conn = Current))
  <2>1. SUFFICES ASSUME Inv, [Next]_vars, ~overrun, overrun', ~stray, ~torn'
                 PROVE  Expired(Conn) \/ (vmPc = "sent" /\ Conn = Current)
    OBVIOUS
  <2>2. CloseConn /\ InQueue(Conn)
    BY <2>1, OverrunOnlyCloses
  <2>3. PendingFresh
    BY <2>1, TornStays
  <2>4. stat[Conn] = "read_finished" \/ (vmPc = "sent" /\ Conn = Current)
    BY <2>2, <2>3 DEF PendingFresh, InQueue
  <2>5. QED
    BY <2>2, <2>4 DEF CloseConn
<1>4. QED
  <2>1. Inv /\ Inv' /\ [Next]_vars
          => [~overrun /\ overrun' /\ ~stray /\ ~torn' =>
                 Expired(Conn) \/ (vmPc = "sent" /\ Conn = Current)]_vars
    BY <1>3
  <2>2. Spec => []Inv
    BY <1>1, <1>2, PTL DEF Spec
  <2>3. QED
    BY <2>1, <2>2, PTL DEF Spec, OverrunOnlyLateOrSent

-----------------------------------------------------------------------------
(* A buffer that is marked ready holds its connection's answer.            *)

ReadyHasAnswer ==
    /\ \A s \in Slots : sock[s] # None /\ stat[s] = "write_ready" => sock[s] \in out[s]
    /\ vmPc = "again" /\ Owner(Current) = vmFor => vmFor \in out[Current]
    /\ accPc = "sock" => stat[accSlot] = "read_ready"
    /\ \A c \in Socks : fate[c] = "answered" => c \in got[c]

LEMMA ReadyHasAnswerNext ==
    ASSUME TypeInv, OnceSafe, PendingListed, RunsForOwner, ReadyHasAnswer, [Next]_vars,
           ~stray', ~torn'
    PROVE  ReadyHasAnswer'
<1>t. /\ stat \in [Slots -> LinkStat] /\ sock \in [Slots -> Socks \union {None}]
      /\ out \in [Slots -> SUBSET Socks] /\ accSlot \in Slots
      /\ fate \in [Socks -> Fate] /\ got \in [Socks -> SUBSET Socks]
  BY DEF TypeInv, TypeOK, ConnTypeOK, AccTypeOK, HistTypeOK
<1>q. /\ vmPc \in {"run", "sent", "close", "again", "erase"} => Current \in Slots /\ que # <<>>
      /\ vmPc \in {"run", "sent", "close", "again"} => vmFor \in Socks
  BY CurrentFacts DEF TypeInv, Holds
<1>r. /\ \A c \in Socks : fate[c] = "new" => runs[c] = 0
      /\ accPc # "idle" => runs[accFor] = 0
      /\ vmPc = "again" => runs[vmFor] = 1
  BY DEF OnceSafe, InVM
<1>1. CASE UNCHANGED <<stat, sock, out, vmPc, vmFor, Current, fate, got, accPc, accSlot, accFor>>
  BY <1>1 DEF ReadyHasAnswer, Owner, Inserting
<1>2. ASSUME NEW c \in Socks, Insert(c) PROVE ReadyHasAnswer'
  <2>1. /\ Head(free) \in Slots /\ fate[c] = "new"
        /\ accPc = "idle" /\ accPc' = "init" /\ accSlot' = Head(free) /\ accFor' = c
        /\ UNCHANGED <<stat, sock, out, que, vmPc, vmFor, got>>
        /\ fate' = [fate EXCEPT ![c] = "open"]
    BY <1>2 DEF Insert, TypeInv, TypeOK, ConnTypeOK, vmVars
  <2>2. Current' = Current
    BY <2>1 DEF Current
  <2>3. vmPc = "again" => vmFor # c
    BY <1>r, <2>1
  <2>4. vmPc' = "again" /\ Owner(Current)' = vmFor' => Owner(Current) = vmFor
    BY <2>1, <2>2, <2>3 DEF Owner, Inserting
  <2>5. \A d \in Socks : fate'[d] = "answered" => fate[d] = "answered"
    BY <1>t, <2>1
  <2>6. QED
    BY <1>t, <2>1, <2>2, <2>4, <2>5 DEF ReadyHasAnswer
<1>3. CASE InitConn
  <2>1. /\ accPc = "init" /\ accPc' = "sock"
        /\ stat' = [stat EXCEPT ![accSlot] = "read_ready"]
        /\ out' = [out EXCEPT ![accSlot] = {}]
        /\ UNCHANGED <<sock, que, vmPc, vmFor, fate, got, accSlot, accFor>>
    BY <1>3 DEF InitConn, BufferInit, vmVars, hist
  <2>2. Current' = Current
    BY <2>1 DEF Current
  <2>3. vmPc' = "again" /\ Owner(Current)' = vmFor' => Owner(Current) = vmFor /\ Current # accSlot
    BY <1>r, <2>1, <2>2 DEF Owner, Inserting
  <2>4. QED
    BY <1>t, <1>q, <2>1, <2>2, <2>3 DEF ReadyHasAnswer
<1>4. CASE SetSocket
  <2>1. /\ accPc = "sock" /\ accPc' = "idle"
        /\ sock' = [sock EXCEPT ![accSlot] = accFor]
        /\ UNCHANGED <<stat, out, que, vmPc, vmFor, fate, got>>
    BY <1>4 DEF SetSocket, vmVars, hist
  <2>2. Current' = Current
    BY <2>1 DEF Current
  <2>3. vmPc' = "again" /\ Owner(Current)' = vmFor' => Owner(Current) = vmFor
    BY <1>t, <1>q, <1>r, <2>1, <2>2 DEF Owner, Inserting
  <2>4. QED
    BY <1>t, <2>1, <2>2, <2>3 DEF ReadyHasAnswer
<1>5. CASE CloseConn
  <2>1. /\ UNCHANGED <<stat, sock, out, que, vmPc, vmFor, got, accPc, accSlot, accFor>>
        /\ \A d \in Socks : fate'[d] = "answered" => fate[d] = "answered"
    BY <1>5, <1>t DEF CloseConn, vmVars, accVars
  <2>2. Current' = Current
    BY <2>1 DEF Current
  <2>3. QED
    BY <1>t, <2>1, <2>2 DEF ReadyHasAnswer, Owner, Inserting
<1>6. CASE ReadError \/ WriteError
  <2>1. /\ Conn \in Slots /\ ~(accPc = "sock" /\ accSlot = Conn)
        /\ stat' = [stat EXCEPT ![Conn] = "conn_finished"]
        /\ UNCHANGED <<sock, out, que, vmPc, vmFor, got, accPc, accSlot, accFor>>
    BY <1>6, WorksOnItsOwn DEF Works, ReadError, WriteError, Inserting, vmVars, accVars
  <2>2. \A d \in Socks : fate'[d] = "answered" => fate[d] = "answered"
    BY <1>6, <1>t DEF ReadError, WriteError, Fails
  <2>3. Current' = Current
    BY <2>1 DEF Current
  <2>4. QED
    BY <1>t, <2>1, <2>2, <2>3 DEF ReadyHasAnswer, Owner, Inserting
<1>7. CASE ReadScript
  <2>1. /\ Conn \in Slots /\ ~(accPc = "sock" /\ accSlot = Conn)
        /\ stat' = [stat EXCEPT ![Conn] = "read_finished"]
        /\ fate' = [fate EXCEPT ![sock[Conn]] = "asked"]
        /\ que' = Append(que, Conn)
        /\ UNCHANGED <<sock, out, vmPc, vmFor, got, accPc, accSlot, accFor>>
    BY <1>7, WorksOnItsOwn DEF Works, ReadScript, Inserting, vmVars, accVars
  <2>2. vmPc = "again" => Current' = Current
    BY <1>q, <2>1 DEF Current, TypeInv, TypeOK, VMTypeOK
  <2>3. \A d \in Socks : fate'[d] = "answered" => fate[d] = "answered"
    BY <1>t, <2>1
  <2>4. QED
    BY <1>t, <2>1, <2>2, <2>3 DEF ReadyHasAnswer, Owner, Inserting
<1>8. CASE ReadDefault \/ ReadHead
  <2>1. /\ Conn \in Slots /\ sock[Conn] \in Socks /\ ~Inserting(Conn)
        /\ \E x \in LinkStat : stat' = [stat EXCEPT ![Conn] = x]
        /\ out' = [out EXCEPT ![Conn] = {sock[Conn]}]
        /\ UNCHANGED <<sock, que, vmPc, vmFor, fate, got, accPc, accSlot, accFor>>
    BY <1>8, WorksOnItsOwn DEF Works, ReadDefault, ReadHead, LinkStat, vmVars, accVars, hist
  <2>2. Current' = Current
    BY <2>1 DEF Current
  <2>3. \A r \in Slots : sock'[r] # None /\ stat'[r] = "write_ready" => sock'[r] \in out'[r]
    BY <1>t, <2>1 DEF ReadyHasAnswer
  <2>4. vmPc' = "again" /\ Owner(Current)' = vmFor' => vmFor' \in out'[Current']
    <3>1. CASE Current = Conn
      BY <1>t, <2>1, <2>2, <3>1 DEF Owner, Inserting
    <3>2. CASE Current # Conn
      BY <1>t, <1>q, <2>1, <2>2, <3>2 DEF ReadyHasAnswer, Owner, Inserting
    <3>3. QED
      BY <3>1, <3>2
  <2>5. QED
    BY <1>t, <2>1, <2>3, <2>4 DEF ReadyHasAnswer, Inserting
<1>9. CASE WriteDone
  <2>1. /\ Conn \in Slots /\ sock[Conn] \in Socks /\ ~(accPc = "sock" /\ accSlot = Conn)
        /\ stat[Conn] = "write_ready"
        /\ stat' = [stat EXCEPT ![Conn] = "conn_finished"]
        /\ got' = [got EXCEPT ![sock[Conn]] = @ \union out[Conn]]
        /\ fate' = [fate EXCEPT ![sock[Conn]] = "answered"]
        /\ UNCHANGED <<sock, out, que, vmPc, vmFor, accPc, accSlot, accFor>>
    BY <1>9, WorksOnItsOwn DEF Works, WriteDone, Writable, Inserting, vmVars, accVars
  <2>2. Current' = Current
    BY <2>1 DEF Current
  <2>3. sock[Conn] \in out[Conn]
    BY <2>1, ConstantsAssumption DEF ReadyHasAnswer
  <2>4. \A d \in Socks : fate'[d] = "answered" => d \in got'[d]
    BY <1>t, <2>1, <2>3 DEF ReadyHasAnswer
  <2>5. \A r \in Slots : sock'[r] # None /\ stat'[r] = "write_ready" => sock'[r] \in out'[r]
    BY <1>t, <2>1 DEF ReadyHasAnswer
  <2>6. QED
    BY <1>t, <2>1, <2>2, <2>4, <2>5 DEF ReadyHasAnswer, Owner, Inserting
<1>10. CASE Redirect \/ FinishExec
  <2>1. /\ Current \in Slots /\ sock[Current] = vmFor /\ vmFor \in Socks
        /\ stat' = [stat EXCEPT ![Current] = "write_ready"]
        /\ \A s \in Slots : s # Current => out'[s] = out[s]
        /\ vmFor \in out'[Current]
        /\ UNCHANGED <<sock, que, vmFor, fate, got, accPc, accSlot, accFor>>
    BY <1>10, <1>q, <1>t DEF Redirect, FinishExec, RunsForOwner, accVars, hist
  <2>2. Current' = Current
    BY <2>1 DEF Current
  <2>3. ~Inserting(Current)
    BY <1>10, <1>q, RunningIsPolled DEF Redirect, FinishExec
  <2>4. QED
    BY <1>t, <2>1, <2>2, <2>3 DEF ReadyHasAnswer, Inserting
<1>11. CASE CloseAfterExec \/ MarkAgain
  <2>1. /\ Current \in Slots /\ vmFor \in Socks
        /\ ~Inserting(Current) /\ sock[Current] = vmFor
    BY <1>11, LateMarkHits
  <2>2. /\ vmPc' = "erase"
        /\ UNCHANGED <<sock, out, fate, got, accPc, accSlot>>
        /\ \/ stat' = [stat EXCEPT ![Current] = "conn_finished"]
           \/ vmPc = "again" /\ stat' = [stat EXCEPT ![Current] = "write_ready"]
    BY <1>11 DEF CloseAfterExec, MarkAgain, LateMark, accVars
  <2>3. Owner(Current) = vmFor
    BY <2>1 DEF Owner
  <2>4. QED
    BY <1>t, <2>1, <2>2, <2>3 DEF ReadyHasAnswer, Inserting
<1>12. CASE ExecDefault
  <2>1. /\ Current \in Slots /\ stat[Current] = "read_finished" /\ vmPc' = "erase"
        /\ UNCHANGED <<stat, sock, fate, got, accPc, accSlot>>
        /\ out' = [out EXCEPT ![Current] = {sock[Current]}]
    BY <1>12, CurrentFacts DEF ExecDefault, ToRun, hist, accVars
  <2>2. QED
    BY <1>t, <2>1 DEF ReadyHasAnswer
<1>13. CASE Tick \/ SpuriousWakeup \/ UNCHANGED vars \/ WatchConn \/ Select
  BY <1>13 DEF Tick, SpuriousWakeup, vars, WatchConn, Select, connVars, vmVars, accVars, hist, Current,
               ReadyHasAnswer, Owner, Inserting
<1>14. CASE ReadMore \/ Active \/ WriteMore \/ SkipConn \/ EndPass
  <2>1. /\ UNCHANGED <<stat, sock, out, que, vmFor, fate, got, accPc, accSlot, accFor>>
        /\ vmPc' = "again" => vmPc = "again"
    BY <1>14 DEF ReadMore, Active, WriteMore, SkipConn, EndPass, connVars, vmVars, accVars, hist
  <2>2. QED
    BY <2>1 DEF Current, ReadyHasAnswer, Owner, Inserting
<1>15. CASE Wait \/ QueueEmpty \/ SkipExec \/ StartExec \/ EraseFront
  BY <1>15 DEF Wait, QueueEmpty, SkipExec, StartExec, EraseFront, connVars, accVars, hist,
               ReadyHasAnswer
<1>16. QED
  BY <1>2, <1>3, <1>4, <1>5, <1>6, <1>7, <1>8, <1>9, <1>10, <1>11, <1>12, <1>13, <1>14, <1>15
  DEF Next, AcceptStep, IOStep, VMStep

(* As long as no slot was freed under the VM, hit while it was inserted or *)
(* marked by the VM for another connection, write_socket sends, of every   *)
(* connection it sends to the end, that connection's answer and not an     *)
(* empty or a stale buffer.                                                *)
THEOREM AnswersDoArrive == Spec => []AnswersArrive
<1> DEFINE Ready == ~overrun /\ ~stray /\ ~torn => ReadyHasAnswer
           Inv == OwnIInv /\ OnceInv /\ Ready
<1>1. Init => Inv
  <2>1. Init => Ready
    BY DEF Init, ReadyHasAnswer
  <2>2. QED
    BY <2>1, OwnIInvInit, OnceInit
<1>2. Inv /\ [Next]_vars => Inv'
  <2>1. SUFFICES ASSUME Inv, [Next]_vars PROVE Inv'
    OBVIOUS
  <2>2. OwnIInv'
    BY <2>1, OwnIInvNext
  <2>3. OnceInv'
    BY <2>1, OnceNext DEF OwnIInv
  <2>4. ASSUME ~overrun', ~stray', ~torn' PROVE ReadyHasAnswer'
    <3>1. ~overrun /\ ~stray /\ ~torn
      BY <2>1, <2>4, OverrunStays, StrayStays, TornStays
    <3>2. QED
      BY <2>1, <2>4, <3>1, ReadyHasAnswerNext DEF OwnIInv, OwnInv, OnceInv
  <2>5. QED
    BY <2>2, <2>3, <2>4
<1>3. Inv => AnswersArrive
  BY DEF ReadyHasAnswer, AnswersArrive
<1>4. QED
  BY <1>1, <1>2, <1>3, PTL DEF Spec

=============================================================================
