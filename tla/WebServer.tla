----------------------------- MODULE WebServer -----------------------------
(***************************************************************************)
(* The three threads of the web server (src/LigSP/LigCommon/lig_httpd.cpp) *)
(*                                                                         *)
(*   - the accept thread, lig_httpd::wait_connect, which advances          *)
(*     global_polling_clock and puts each new socket into m_connList;      *)
(*   - the I/O thread, lig_httpd::begin, a select loop of two passes over  *)
(*     m_connList: the first closes and frees connections and collects the *)
(*     descriptors to watch, the second reads requests and writes answers; *)
(*   - the VM thread, http_poll::begin, which takes connections from m_que *)
(*     and runs their script in the one Squirrel machine.                  *)
(*                                                                         *)
(* They share the connection objects without a lock: a connection is a     *)
(* slot of the pool m_connDB, m_que holds pointers to slots, and the only  *)
(* synchronisation is the condition variable excute_lock.                  *)
(*                                                                         *)
(* A request is identified by the client (socket) that sent it: the server *)
(* never returns a connection to read_ready, so a socket carries one       *)
(* request.  age[s] stands for global_polling_clock - time_stamp, counted  *)
(* up to TimeOut + 1.  Steps are cut where another thread can look: what   *)
(* the I/O thread does with one ready connection up to push_excuting's     *)
(* active is one, and so is each operation on a std::list.  Descriptor     *)
(* numbers are not used again: closing one closes no later client.         *)
(***************************************************************************)
EXTENDS Integers, Sequences, FiniteSets, SequencesExt

CONSTANTS Socks,        \* the sockets that may be accepted, one per client
          NSlots,       \* capacity of the connection pool m_connDB
          TimeOut,      \* time_out, in ticks of global_polling_clock
          MaxKeepAlive, \* MAX_KEEP_ALIVE
          MaxReads,     \* bound: incomplete reads per connection
          MaxWrites,    \* bound: send calls an answer may need
          StickyEvent,  \* TRUE: Windows event; FALSE: POSIX condition variable
          None          \* no socket

ASSUME ConstantsAssumption ==
    /\ NSlots \in Nat \ {0}
    /\ TimeOut \in Nat \ {0}
    /\ MaxKeepAlive \in Nat
    /\ MaxReads \in Nat
    /\ MaxWrites \in Nat \ {0}
    /\ StickyEvent \in BOOLEAN
    /\ None \notin Socks

Slots == 0 .. NSlots - 1

LinkStat == {"read_ready", "write_ready", "read_finished", "conn_finished"}

(* What became of a client: "expired" means closed by the time-out,        *)
(* "dropped" closed with no time-out, no socket error and no answer,       *)
(* "lost" that its slot was freed before it had been inserted.             *)
Fate == {"new", "open", "asked", "answered", "failed", "expired", "dropped", "lost"}

VARIABLES
    connList,   \* m_connList: the slots the I/O thread polls
    free,       \* m_connDB's free slots, the next one to be handed out first
    stat,       \* http_conn::link_stat of each slot (kept by a freed slot)
    age,        \* global_polling_clock - http_conn::time_stamp of each slot
    sock,       \* http_conn::socket_id of each slot
    mapped,     \* http_conn::pUrlMap of each slot is set: a script answers it
    reads,      \* how many incomplete reads the slot's connection had
    out,        \* the clients whose answers are in http_conn::outBuf
    left,       \* send calls the answer in outBuf still needs
    que,        \* http_poll::m_que
    event,      \* the Windows event object is signalled
    ioPc, ioPos, rdSet, wrSet,  \* I/O thread: pass, list iterator, fd sets
    vmPc, vmFor, vmClose,       \* VM thread: place, client served, close flag
    accPc, accSlot, accFor,     \* accept thread: place in insert_request, slot, socket
    \* history
    shut,       \* the descriptors that are closed
    told,       \* the clients whose answer's head says Connection: Close
    fate,       \* what became of each client
    got,        \* the clients whose answers each client has received
    runs,       \* how many times the script ran for each client's request
    overrun,    \* a slot was freed while its request waited for, or ran in, the VM
    stray,      \* the VM marked a slot that already held another connection
    torn        \* the I/O thread worked on a slot that was still being inserted

connVars == <<connList, free, stat, age, sock, mapped, reads, out, left>>
ioVars   == <<ioPc, ioPos, rdSet, wrSet>>
vmVars   == <<vmPc, vmFor, vmClose>>
accVars  == <<accPc, accSlot, accFor>>
hist     == <<shut, told, fate, got, runs, overrun, stray, torn>>
vars     == <<connVars, que, event, ioVars, vmVars, accVars, hist>>

(* The queue entries the VM has still to finish: its first entry is erased *)
(* only after vm_exec has returned.                                        *)
Pending == IF vmPc \in {"close", "again", "erase"} THEN Tail(que) ELSE que

Current == Head(que)

(* Slot s is on m_connList, but what its fields say is not yet all its own.*)
Inserting(s) == accPc # "idle" /\ accSlot = s

(* The client a slot is meant for.                                         *)
Owner(s) == IF Inserting(s) THEN accFor ELSE sock[s]

Listed(s) == \E i \in DOMAIN connList : connList[i] = s
InQueue(s) == \E i \in DOMAIN Pending : Pending[i] = s

(* The pool's memory is not initialised: a slot that was never used may    *)
(* hold any link_stat and time stamp, and its socket_id is nobody's.       *)
Init ==
    /\ connList = <<>>
    /\ free = [i \in 1 .. NSlots |-> i - 1]
    /\ stat \in [Slots -> LinkStat]
    /\ age \in [Slots -> {0, TimeOut + 1}]
    /\ sock = [s \in Slots |-> None]
    /\ mapped = [s \in Slots |-> FALSE]
    /\ reads = [s \in Slots |-> 0]
    /\ out = [s \in Slots |-> {}]
    /\ left = [s \in Slots |-> 0]
    /\ que = <<>>
    /\ event = FALSE
    /\ ioPc = "pass1" /\ ioPos = 1 /\ rdSet = {} /\ wrSet = {}
    /\ vmPc = "enter" /\ vmFor = None /\ vmClose = FALSE
    /\ accPc = "idle" /\ accSlot = 0 /\ accFor = None
    /\ shut = {None} /\ told = {}
    /\ fate = [c \in Socks |-> "new"]
    /\ got = [c \in Socks |-> {}]
    /\ runs = [c \in Socks |-> 0]
    /\ overrun = FALSE /\ stray = FALSE /\ torn = FALSE

-----------------------------------------------------------------------------
(* The accept thread.                                                      *)

(* Every turn of the accept loop reads the clock.                          *)
Tick ==
    /\ accPc = "idle"
    /\ age' = [s \in Slots |-> IF age[s] > TimeOut THEN age[s] ELSE age[s] + 1]
    /\ UNCHANGED <<connList, free, stat, sock, mapped, reads, out, left,
                   que, event, ioVars, vmVars, accVars, hist>>

(* accept() returns c; insert_request takes a slot from the pool and pushes*)
(* it on m_connList, where the I/O thread finds it as its last connection  *)
(* left it.  The pool throws when it is exhausted; here accept waits (a    *)
(* bound, not the code).                                                   *)
Insert(c) ==
    /\ accPc = "idle"
    /\ fate[c] = "new"
    /\ free # <<>>
    /\ free' = Tail(free)
    /\ connList' = Append(connList, Head(free))
    /\ accPc' = "init" /\ accSlot' = Head(free) /\ accFor' = c
    /\ fate' = [fate EXCEPT ![c] = "open"]
    /\ UNCHANGED <<stat, age, sock, mapped, reads, out, left, que, event, ioVars,
                   vmVars, shut, told, got, runs, overrun, stray, torn>>

(* http_conn::init empties the buffer the slot's last connection left.     *)
(* (Mutant: it does not.)                                                  *)
BufferKept(s) == out
BufferInit(s) == [out EXCEPT ![s] = {}]

(* pconn->init(this).                                                      *)
InitConn ==
    /\ accPc = "init"
    /\ stat' = [stat EXCEPT ![accSlot] = "read_ready"]
    /\ age' = [age EXCEPT ![accSlot] = 0]
    /\ mapped' = [mapped EXCEPT ![accSlot] = FALSE]
    /\ reads' = [reads EXCEPT ![accSlot] = 0]
    /\ out' = BufferInit(accSlot)
    /\ left' = [left EXCEPT ![accSlot] = 0]
    /\ accPc' = "sock"
    /\ UNCHANGED <<connList, free, sock, que, event, ioVars, vmVars,
                   accSlot, accFor, hist>>

(* pconn->socket_id=my_sock, until then the number the slot had before.    *)
SetSocket ==
    /\ accPc = "sock"
    /\ sock' = [sock EXCEPT ![accSlot] = accFor]
    /\ accPc' = "idle" /\ accSlot' = 0 /\ accFor' = None
    /\ UNCHANGED <<connList, free, stat, age, mapped, reads, out, left, que, event,
                   ioVars, vmVars, hist>>

AcceptStep == InitConn \/ SetSocket

-----------------------------------------------------------------------------
(* The I/O thread: first pass over m_connList.                             *)

AtConn(pass) == ioPc = pass /\ ioPos <= Len(connList)
AtEnd(pass)  == ioPc = pass /\ ioPos > Len(connList)

Conn == connList[ioPos]

Expired(s) == age[s] > TimeOut

(* m_connList.erase.  (Mutant: it is forgotten.)                           *)
NotErased == connList
Erased == RemoveAt(connList, ioPos)

(* A finished or timed-out connection is closed, freed and erased; nothing *)
(* looks whether the VM still holds it, or insert_request.                 *)
CloseConn ==
    /\ AtConn("pass1")
    /\ stat[Conn] = "conn_finished" \/ Expired(Conn)
    /\ connList' = Erased
    /\ free' = <<Conn>> \o free
    /\ shut' = shut \union {sock[Conn]}
    /\ overrun' = (overrun \/ InQueue(Conn))
    /\ torn' = (torn \/ Inserting(Conn))
    /\ fate' = [fate EXCEPT ![Owner(Conn)] =
          IF @ \notin {"open", "asked"} THEN @
          ELSE IF Inserting(Conn) THEN "lost"
          ELSE IF stat[Conn] = "conn_finished" THEN "dropped" ELSE "expired"]
    /\ UNCHANGED <<stat, age, sock, mapped, reads, out, left, que, event,
                   ioVars, vmVars, accVars, told, got, runs, stray>>

(* (Mutant: polling a connection renews its time stamp.)                   *)
WatchConnRenews ==
    /\ AtConn("pass1")
    /\ stat[Conn] # "conn_finished" /\ ~Expired(Conn)
    /\ age' = [age EXCEPT ![Conn] = 0]
    /\ rdSet' = IF stat[Conn] = "read_ready" THEN rdSet \union {sock[Conn]} ELSE rdSet
    /\ wrSet' = IF stat[Conn] = "write_ready" THEN wrSet \union {sock[Conn]} ELSE wrSet
    /\ ioPos' = ioPos + 1
    /\ UNCHANGED <<connList, free, stat, sock, mapped, reads, out, left,
                   que, event, ioPc, vmVars, accVars, hist>>

WatchConn ==
    /\ AtConn("pass1")
    /\ stat[Conn] # "conn_finished" /\ ~Expired(Conn)
    /\ rdSet' = IF stat[Conn] = "read_ready" THEN rdSet \union {sock[Conn]} ELSE rdSet
    /\ wrSet' = IF stat[Conn] = "write_ready" THEN wrSet \union {sock[Conn]} ELSE wrSet
    /\ ioPos' = ioPos + 1
    /\ UNCHANGED <<connVars, que, event, ioPc, vmVars, accVars, hist>>

(* With nothing to watch the loop sleeps and starts again, otherwise       *)
(* select leaves in the sets any of the watched descriptors.               *)
Select ==
    /\ AtEnd("pass1")
    /\ ioPos' = 1
    /\ IF rdSet \union wrSet = {}
       THEN UNCHANGED <<ioPc, rdSet, wrSet>>
       ELSE /\ ioPc' = "pass2"
            /\ rdSet' \in SUBSET rdSet
            /\ wrSet' \in SUBSET wrSet
    /\ UNCHANGED <<connVars, que, event, vmVars, accVars, hist>>

-----------------------------------------------------------------------------
(* The I/O thread: second pass.                                            *)

(* The descriptor alone does not tell: a connection whose request was just *)
(* read is still in the set.  (Mutant: the link_stat test is dropped.)     *)
ReadableInSet == AtConn("pass2") /\ sock[Conn] \in rdSet
Readable == AtConn("pass2") /\ stat[Conn] = "read_ready" /\ sock[Conn] \in rdSet
Writable == AtConn("pass2") /\ stat[Conn] = "write_ready" /\ sock[Conn] \in wrSet

(* recv and send on a closed descriptor fail.                              *)
Open(s) == sock[s] \notin shut

(* What the I/O thread does with the fields of a slot while insert_request *)
(* is still about to write them.                                           *)
Touch(s) == torn' = (torn \/ Inserting(s))

Fails(c) ==
    fate' = [fate EXCEPT ![c] = IF @ \in {"open", "asked"} THEN "failed" ELSE @]

(* recv failed, the client hung up, or the request is malformed.           *)
ReadError ==
    /\ Readable
    /\ stat' = [stat EXCEPT ![Conn] = "conn_finished"]
    /\ Touch(Conn) /\ Fails(sock[Conn])
    /\ ioPos' = ioPos + 1
    /\ UNCHANGED <<connList, free, age, sock, mapped, reads, out, left, que, event,
                   ioPc, rdSet, wrSet, vmVars, accVars, shut, told, got, runs,
                   overrun, stray>>

(* Part of the request arrived: the time stamp is renewed.                 *)
ReadMore ==
    /\ Readable /\ Open(Conn)
    /\ reads[Conn] < MaxReads
    /\ reads' = [reads EXCEPT ![Conn] = @ + 1]
    /\ age' = [age EXCEPT ![Conn] = 0]
    /\ Touch(Conn)
    /\ ioPos' = ioPos + 1
    /\ UNCHANGED <<connList, free, stat, sock, mapped, out, left, que, event,
                   ioPc, rdSet, wrSet, vmVars, accVars, shut, told, fate, got, runs,
                   overrun, stray>>

(* The request is complete and its URL is registered: push_excuting puts   *)
(* the connection into m_que.  The stamp is not renewed, and the iterator  *)
(* does not move: the connection is looked at again.                       *)
ReadScript ==
    /\ Readable /\ Open(Conn)
    /\ stat' = [stat EXCEPT ![Conn] = "read_finished"]
    /\ mapped' = [mapped EXCEPT ![Conn] = TRUE]
    /\ que' = Append(que, Conn)
    /\ Touch(Conn)
    /\ fate' = [fate EXCEPT ![sock[Conn]] = "asked"]
    /\ ioPc' = "active"
    /\ UNCHANGED <<connList, free, age, sock, reads, out, left, event,
                   ioPos, rdSet, wrSet, vmVars, accVars, shut, told, got, runs,
                   overrun, stray>>

(* (Mutant: only a waiting thread sees the event.)                         *)
ActiveMissed ==
    /\ ioPc = "active"
    /\ ioPc' = "pass2"
    /\ vmPc' = IF vmPc = "waiting" THEN "check" ELSE vmPc
    /\ UNCHANGED <<connVars, que, event, ioPos, rdSet, wrSet, vmFor, vmClose,
                   accVars, hist>>

(* excute_lock.active(): a broadcast reaches only a thread already waiting,*)
(* an event stays set until somebody waits for it.                         *)
Active ==
    /\ ioPc = "active"
    /\ ioPc' = "pass2"
    /\ IF StickyEvent
       THEN event' = TRUE /\ UNCHANGED vmPc
       ELSE vmPc' = (IF vmPc = "waiting" THEN "check" ELSE vmPc) /\ UNCHANGED event
    /\ UNCHANGED <<connVars, que, ioPos, rdSet, wrSet, vmFor, vmClose, accVars, hist>>

(* The request is complete and the built-in action answers it: a file, a   *)
(* 404, 304 or 400 page, or the fixed reply to a POST.                     *)
ReadDefault ==
    /\ Readable /\ Open(Conn)
    /\ stat' = [stat EXCEPT ![Conn] = "write_ready"]
    /\ out' = [out EXCEPT ![Conn] = {sock[Conn]}]
    /\ \E n \in 1 .. MaxWrites : left' = [left EXCEPT ![Conn] = n]
    /\ age' = [age EXCEPT ![Conn] = 0]
    /\ Touch(Conn)
    /\ ioPos' = ioPos + 1
    /\ UNCHANGED <<connList, free, sock, mapped, reads, que, event,
                   ioPc, rdSet, wrSet, vmVars, accVars, shut, told, fate, got, runs,
                   overrun, stray>>

(* HEAD of an existing file prepares a header and never asks to send it.   *)
ReadHead ==
    /\ Readable /\ Open(Conn)
    /\ stat' = [stat EXCEPT ![Conn] = "read_finished"]
    /\ out' = [out EXCEPT ![Conn] = {sock[Conn]}]
    /\ age' = [age EXCEPT ![Conn] = 0]
    /\ Touch(Conn)
    /\ ioPos' = ioPos + 1
    /\ UNCHANGED <<connList, free, sock, mapped, reads, left, que, event,
                   ioPc, rdSet, wrSet, vmVars, accVars, shut, told, fate, got, runs,
                   overrun, stray>>

(* write_socket returns 1 when it has sent all.                            *)
AllSent(s) == left[s] <= 1

WriteMore ==
    /\ Writable /\ Open(Conn)
    /\ ~AllSent(Conn)
    /\ left' = [left EXCEPT ![Conn] = @ - 1]
    /\ age' = [age EXCEPT ![Conn] = 0]
    /\ Touch(Conn)
    /\ ioPos' = ioPos + 1
    /\ UNCHANGED <<connList, free, stat, sock, mapped, reads, out, que, event,
                   ioPc, rdSet, wrSet, vmVars, accVars, shut, told, fate, got, runs,
                   overrun, stray>>

(* The last byte of outBuf is sent: the connection is to be closed.        *)
WriteDone ==
    /\ Writable /\ Open(Conn)
    /\ AllSent(Conn)
    /\ stat' = [stat EXCEPT ![Conn] = "conn_finished"]
    /\ left' = [left EXCEPT ![Conn] = 0]
    /\ age' = [age EXCEPT ![Conn] = 0]
    /\ got' = [got EXCEPT ![sock[Conn]] = @ \union out[Conn]]
    /\ fate' = [fate EXCEPT ![sock[Conn]] = "answered"]
    /\ Touch(Conn)
    /\ ioPos' = ioPos + 1
    /\ UNCHANGED <<connList, free, sock, mapped, reads, out, que, event,
                   ioPc, rdSet, wrSet, vmVars, accVars, shut, told, runs,
                   overrun, stray>>

(* send failed, or the file could not be read on.                          *)
WriteError ==
    /\ Writable
    /\ stat' = [stat EXCEPT ![Conn] = "conn_finished"]
    /\ Touch(Conn) /\ Fails(sock[Conn])
    /\ ioPos' = ioPos + 1
    /\ UNCHANGED <<connList, free, age, sock, mapped, reads, out, left, que, event,
                   ioPc, rdSet, wrSet, vmVars, accVars, shut, told, got, runs,
                   overrun, stray>>

SkipConn ==
    /\ AtConn("pass2")
    /\ ~Readable /\ ~Writable
    /\ ioPos' = ioPos + 1
    /\ UNCHANGED <<connVars, que, event, ioPc, rdSet, wrSet, vmVars, accVars, hist>>

EndPass ==
    /\ AtEnd("pass2")
    /\ ioPc' = "pass1" /\ ioPos' = 1 /\ rdSet' = {} /\ wrSet' = {}
    /\ UNCHANGED <<connVars, que, event, vmVars, accVars, hist>>

IOStep ==
    \/ CloseConn \/ WatchConn \/ Select
    \/ ReadError \/ ReadMore \/ ReadScript \/ Active \/ ReadDefault \/ ReadHead
    \/ WriteMore \/ WriteDone \/ WriteError \/ SkipConn \/ EndPass

-----------------------------------------------------------------------------
(* The VM thread.                                                          *)

(* excute_lock.wait(): pthread_cond_wait blocks whatever m_que holds; the  *)
(* auto-reset event is consumed by the wait it ends.                       *)
Wait ==
    /\ vmPc = "enter"
    /\ IF StickyEvent
       THEN event /\ event' = FALSE /\ vmPc' = "check"
       ELSE vmPc' = "waiting" /\ UNCHANGED event
    /\ UNCHANGED <<connVars, que, ioVars, vmFor, vmClose, accVars, hist>>

(* POSIX lets pthread_cond_wait return without a broadcast.                *)
SpuriousWakeup ==
    /\ vmPc = "waiting"
    /\ vmPc' = "check"
    /\ UNCHANGED <<connVars, que, event, ioVars, vmFor, vmClose, accVars, hist>>

QueueEmpty ==
    /\ vmPc = "check" /\ que = <<>>
    /\ vmPc' = "enter"
    /\ UNCHANGED <<connVars, que, event, ioVars, vmFor, vmClose, accVars, hist>>

(* vm_exec returns at once for a connection that is not read_finished.     *)
(* (Mutant: it does not look.)                                             *)
AlwaysToRun(s) == TRUE
ToRun(s) == stat[s] = "read_finished"

SkipExec ==
    /\ vmPc = "check" /\ que # <<>>
    /\ ~ToRun(Current)
    /\ vmPc' = "erase"
    /\ UNCHANGED <<connVars, que, event, ioVars, vmFor, vmClose, accVars, hist>>

(* write_callback_head tells the client to close.                          *)
HeadSaysClose == Len(connList) >= MaxKeepAlive

(* (Mutant: the connection is marked ready before its script has run.)     *)
StartExecReady ==
    /\ vmPc = "check" /\ que # <<>>
    /\ ToRun(Current) /\ mapped[Current]
    /\ stat' = [stat EXCEPT ![Current] = "write_ready"]
    /\ vmPc' = "run"
    /\ vmFor' = sock[Current]
    /\ vmClose' = FALSE
    /\ runs' = [runs EXCEPT ![sock[Current]] = @ + 1]
    /\ UNCHANGED <<connList, free, age, sock, mapped, reads, out, left, que, event,
                   ioVars, accVars, shut, told, fate, got, overrun, stray, torn>>

(* The script starts.  A page's head is written first and tells the client *)
(* to close when m_connList is full; a JSON request has no such head, and  *)
(* a C callback returns before the closing assignment.                     *)
StartExec ==
    /\ vmPc = "check" /\ que # <<>>
    /\ ToRun(Current) /\ mapped[Current]
    /\ vmPc' = "run"
    /\ vmFor' = sock[Current]
    /\ \E page \in BOOLEAN : vmClose' = (page /\ HeadSaysClose)
    /\ told' = (IF vmClose' THEN told \union {sock[Current]} ELSE told)
    /\ runs' = [runs EXCEPT ![sock[Current]] = @ + 1]
    /\ UNCHANGED <<connVars, que, event, ioVars, accVars, shut, fate, got,
                   overrun, stray, torn>>

(* A stale entry may name a slot that now holds a connection without a     *)
(* script: its built-in action, a HEAD, is run a second time.              *)
ExecDefault ==
    /\ vmPc = "check" /\ que # <<>>
    /\ ToRun(Current) /\ ~mapped[Current]
    /\ out' = [out EXCEPT ![Current] = {sock[Current]}]
    /\ vmPc' = "erase"
    /\ UNCHANGED <<connList, free, stat, age, sock, mapped, reads, left, que,
                   event, ioVars, vmFor, vmClose, accVars, hist>>

(* io.redirect: send_http_msg puts its message at the start of outBuf and  *)
(* marks the connection ready, while the script goes on.  (A bound: once   *)
(* for each script.)                                                       *)
Redirect ==
    /\ vmPc = "run"
    /\ stat' = [stat EXCEPT ![Current] = "write_ready"]
    /\ out' = [out EXCEPT ![Current] = {vmFor}]
    /\ \E n \in 1 .. MaxWrites : left' = [left EXCEPT ![Current] = n]
    /\ vmPc' = "sent"
    /\ UNCHANGED <<connList, free, age, sock, mapped, reads, que, event, ioVars,
                   vmFor, vmClose, accVars, hist>>

(* (Mutant: the connection is closed whatever its head said.)              *)
AlwaysToClose == {"close"}
AfterExec == IF vmClose THEN {"close"} ELSE {"again", "erase"}

(* The answer is in outBuf of the slot the VM was given, and the           *)
(* connection is marked ready to write.  When a JSON request fails its     *)
(* callback does so, in send_http_msg, and vm_exec does it once more.      *)
FinishExec ==
    /\ vmPc \in {"run", "sent"}
    /\ stat' = [stat EXCEPT ![Current] = "write_ready"]
    /\ out' = [out EXCEPT ![Current] = @ \union {vmFor}]
    /\ \E n \in 1 .. MaxWrites : left' = [left EXCEPT ![Current] = n]
    /\ vmPc' \in AfterExec
    /\ UNCHANGED <<connList, free, age, sock, mapped, reads, que, event, ioVars,
                   vmFor, vmClose, accVars, hist>>

(* What the VM still does to the slot after it was marked ready, when the  *)
(* I/O thread may have sent the answer, closed and even reused it.         *)
LateMark(mark) ==
    /\ stat' = [stat EXCEPT ![Current] = mark]
    /\ vmPc' = "erase"
    /\ stray' = (stray \/ Owner(Current) # vmFor)
    /\ UNCHANGED <<connList, free, age, sock, mapped, reads, out, left, que, event,
                   ioVars, vmFor, vmClose, accVars, shut, told, fate, got, runs,
                   overrun, torn>>

(* if(flag_close_socket) link_stat=conn_finished, after write_ready.       *)
CloseAfterExec == vmPc = "close" /\ LateMark("conn_finished")

MarkAgain == vmPc = "again" /\ LateMark("write_ready")

EraseFront ==
    /\ vmPc = "erase"
    /\ que' = Tail(que)
    /\ vmPc' = "check" /\ vmFor' = None /\ vmClose' = FALSE
    /\ UNCHANGED <<connVars, event, ioVars, accVars, hist>>

VMStep ==
    \/ Wait \/ QueueEmpty \/ SkipExec \/ StartExec \/ ExecDefault
    \/ Redirect \/ FinishExec \/ CloseAfterExec \/ MarkAgain \/ EraseFront

Next ==
    \/ Tick \/ (\E c \in Socks : Insert(c)) \/ AcceptStep
    \/ IOStep \/ VMStep \/ SpuriousWakeup

Spec == Init /\ [][Next]_vars

(* The operating system schedules every thread, and the accept loop's      *)
(* select returns at least every five seconds, so the clock advances.      *)
(* Clients connect, send and read as they please.                          *)
FairSpec ==
    /\ Spec
    /\ WF_vars(IOStep) /\ WF_vars(VMStep)
    /\ WF_vars(AcceptStep) /\ WF_vars(Tick)

-----------------------------------------------------------------------------
ConnTypeOK ==
    /\ connList \in Seq(Slots)
    /\ free \in Seq(Slots)
    /\ stat \in [Slots -> LinkStat]
    /\ age \in [Slots -> 0 .. TimeOut + 1]
    /\ sock \in [Slots -> Socks \union {None}]
    /\ mapped \in [Slots -> BOOLEAN]
    /\ reads \in [Slots -> 0 .. MaxReads]
    /\ out \in [Slots -> SUBSET Socks]
    /\ left \in [Slots -> 0 .. MaxWrites]

IOTypeOK ==
    /\ ioPc \in {"pass1", "pass2", "active"}
    /\ ioPos \in Nat \ {0}
    /\ rdSet \subseteq Socks \union {None}
    /\ wrSet \subseteq Socks \union {None}

VMTypeOK ==
    /\ que \in Seq(Slots)
    /\ event \in BOOLEAN
    /\ vmPc \in {"enter", "waiting", "check", "run", "sent", "close", "again", "erase"}
    /\ vmFor \in Socks \union {None}
    /\ vmClose \in BOOLEAN

AccTypeOK ==
    /\ accPc \in {"idle", "init", "sock"}
    /\ accSlot \in Slots
    /\ accFor \in Socks \union {None}

HistTypeOK ==
    /\ shut \subseteq Socks \union {None}
    /\ told \subseteq Socks
    /\ fate \in [Socks -> Fate]
    /\ got \in [Socks -> SUBSET Socks]
    /\ runs \in [Socks -> Nat]
    /\ overrun \in BOOLEAN
    /\ stray \in BOOLEAN
    /\ torn \in BOOLEAN

TypeOK == ConnTypeOK /\ IOTypeOK /\ VMTypeOK /\ AccTypeOK /\ HistTypeOK

-----------------------------------------------------------------------------
(* Properties.                                                             *)

Distinct(seq) == \A i, j \in DOMAIN seq : seq[i] = seq[j] => i = j

(* The I/O thread's list and the pool's free list never share a slot, hold *)
(* none twice and lose none, and every client whose request is awaited or  *)
(* not yet answered is polled, also while insert_request is at work on its *)
(* slot.  The one way out is torn: insert_request pushes the slot before   *)
(* it writes its fields, and the I/O thread may go by the old ones.        *)
ListsSound ==
    /\ Distinct(connList)
    /\ Distinct(free)
    /\ \A i \in DOMAIN connList, j \in DOMAIN free : connList[i] # free[j]
    /\ \A s \in Slots : Listed(s) \/ \E j \in DOMAIN free : free[j] = s

Polled(c) == \E i \in DOMAIN connList : Owner(connList[i]) = c

ServedArePolled ==
    torn \/ \A c \in Socks : fate[c] \in {"open", "asked"} => Polled(c)

PoolSound == ListsSound /\ ServedArePolled

(* Without the exception: no connection is lost while it is inserted.      *)
NoneLost == \A c \in Socks : fate[c] # "lost"

(* A client receives no answer but its own.  The only ways out are that a  *)
(* slot was freed, by the I/O thread, while the VM still had its request:  *)
(* then the next connection in that slot may be sent the old answer; and   *)
(* that a slot was worked on while it was being inserted.                  *)
OwnAnswer == overrun \/ torn \/ \A c \in Socks : got[c] \subseteq {c}

(* vm_exec's first line: a connection already executed is not executed     *)
(* again, whatever slots the entries of m_que have come to name.           *)
ScriptRunsOnce == torn \/ \A c \in Socks : runs[c] <= 1

(* While a script fills outBuf the slot is its asker's, and until the      *)
(* script redirects the client the I/O thread neither sends that buffer    *)
(* nor reads into that connection.                                         *)
BufferIsTheScripts ==
    vmPc \in {"run", "sent"} /\ ~overrun /\ ~torn =>
        /\ sock[Current] = vmFor
        /\ Listed(Current)
        /\ vmPc = "run" => stat[Current] = "read_finished"

(* An answer is thrown away unsent only where its head told the client to  *)
(* close: at MAX_KEEP_ALIVE, where conn_finished overwrites write_ready.   *)
DroppedOnlyAtCap ==
    stray \/ torn \/ \A c \in Socks : fate[c] = "dropped" => c \in told

(* "The response data is ready and can be sent": so it is, and no request  *)
(* that reached the VM is left without an answer for another reason than a *)
(* failing socket or the time-out.                                         *)
NeverDropped == stray \/ torn \/ \A c \in Socks : fate[c] # "dropped"

(* A client whose answer was sent got one: the I/O thread never sends the  *)
(* buffer of a connection nobody has answered.                             *)
AnswersArrive ==
    overrun \/ stray \/ torn \/ \A c \in Socks : fate[c] = "answered" => c \in got[c]

(* The I/O thread frees a slot under the VM only when its time is out, or  *)
(* when the script now running has redirected its client, as long as the   *)
(* VM's late marks hit no other connection and none is hit while inserted. *)
OverrunOnlyLateOrSent ==
    [][~overrun /\ overrun' /\ ~stray /\ ~torn' =>
          Expired(Conn) \/ (vmPc = "sent" /\ Conn = Current)]_vars

(* What makes ScriptRunsOnce inductive: a socket is in one slot only, even *)
(* counting freed slots, and one still to be read or run has not been run. *)
InVM == vmPc \in {"run", "sent", "close", "again"}

OnceSafe ==
    /\ \A s \in Slots : sock[s] # None => fate[sock[s]] # "new"
    /\ \A s, t \in Slots : sock[s] = sock[t] /\ sock[s] # None => s = t
    /\ \A c \in Socks : fate[c] = "new" => runs[c] = 0
    /\ accPc # "idle" =>
          /\ fate[accFor] # "new" /\ runs[accFor] = 0
          /\ \A s \in Slots : sock[s] # accFor
    /\ InVM =>
          /\ fate[vmFor] # "new"
          /\ runs[vmFor] = 1
          /\ \A s \in Slots : sock[s] = vmFor => s = Current
    /\ accPc = "sock" => stat[accSlot] # "read_finished"
    /\ \A s \in Slots :
          sock[s] # None /\ stat[s] \in {"read_ready", "read_finished"}
             => \/ runs[sock[s]] = 0
                \/ vmPc = "run" /\ vmFor = sock[s]
                \/ accPc = "sock" /\ accSlot = s
    /\ \A c \in Socks : runs[c] <= 1

OnceInv == ~torn => OnceSafe

(* What makes OwnAnswer and BufferIsTheScripts inductive: until a slot is  *)
(* freed under the VM, the entries of m_que the VM has still to finish     *)
(* name polled slots, the running script's slot is its asker's, and a      *)
(* buffer holds only its owner's answer.                                   *)
PendingListed ==
    \A i \in DOMAIN Pending : Listed(Pending[i]) /\ ~Inserting(Pending[i])

RunsForOwner ==
    /\ vmPc \in {"run", "sent"} => sock[Current] = vmFor
    /\ vmPc = "run" => stat[Current] = "read_finished"

BuffersOwned ==
    /\ \A s \in Slots : out[s] \subseteq {sock[s]}
    /\ \A c \in Socks : got[c] \subseteq {c}

OwnInv == ~overrun /\ ~torn => PendingListed /\ RunsForOwner /\ BuffersOwned

(* Every connection that is not lost in its insertion is closed in the     *)
(* end, even one whose request the VM thread never picks up.               *)
ConnectionsEnd ==
    \A c \in Socks : fate[c] = "open" ~> c \in shut \/ fate[c] = "lost"

(* Whatever is put into m_que is taken out: the VM thread blocks only      *)
(* while the queue is empty.                                               *)
QueueServed == que # <<>> ~> que = <<>>
=============================================================================
