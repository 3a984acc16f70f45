------------------------------ MODULE FastCgi ------------------------------
(***************************************************************************)
(* The FastCGI server: lig_httpd::wait_fcgi serves one link to a web       *)
(* server at a time.  parse_fastcgi hands the records of the link out to   *)
(* requests, which live in the pool m_connDB and are found by their id in  *)
(* Request_Table; complete requests go to the VM thread through m_que; and *)
(* the loop scans the pool for one that has its answer, wraps the answer   *)
(* up and frees the request.  The table, the pool and the queue outlive    *)
(* the link.                                                               *)
(*                                                                         *)
(* Abstracted.  Bytes: a request is an id, an answer says whose it is.     *)
(* The pool's free list is the sequence `free' (its links, and the pages   *)
(* of the pool, are MemAlloctor's); a free slot's first word, where        *)
(* socket_id was, holds the list's link.                                   *)
(*                                                                         *)
(* The web server sends the records of a request in order and only for     *)
(* requests it began on this link; it may send anything as a last record   *)
(* before the link is refused (BadRecord), and it may drop the link.       *)
(* Records of types parse_fastcgi does not know are left out: it would     *)
(* never come back from them.                                              *)
(*                                                                         *)
(* Each link carries one answer.  The stray semicolon after the test in    *)
(* wait_fcgi closes the link after its first write, whole or not.          *)
(***************************************************************************)
EXTENDS Naturals, Sequences

CONSTANTS Ids,      \* request ids
          NSlots    \* slots of the pool m_connDB

ASSUME SizesOK == NSlots \in Nat \ {0} /\ Ids \subseteq Nat

Slots == 0 .. NSlots - 1
NoSlot == NSlots                 \* a NULL pointer in Request_Table
NoAnswer == [id |-> 0, slot |-> NoSlot, live |-> FALSE, done |-> FALSE, mine |-> FALSE]

LinkStats == {"read_ready", "write_ready", "read_finished", "conn_finished", "write_finished"}
ReqStats == {"read_ready", "read_finished", "write_ready"}

VARIABLES
  pc,             \* where wait_fcgi is
  at,             \* the handle of its iterator over m_connDB
  link_stat,      \* link_stat of pConn, the object for the link
  answer,         \* what pConn->outBuf holds
  Request_Table,  \* the request's slot for each id, or NoSlot
  free,           \* m_connDB: its free list, first the slot FreeLoc names
  used,           \* m_connDB: the slots whose flag is set
  stat,           \* link_stat of the requests
  flag_fcgi,      \* flag_fcgi of the requests
  socket_id,      \* the id of the requests; in a free slot, the list's link
  m_que,          \* the queue of the VM thread; its first element is running
  vm,             \* where the VM thread is
  event,          \* "clear" or "set": the Windows event; "none": POSIX, where
                  \* a condition variable keeps no signal
  phase,          \* how far the web server has sent each id on this link
  mine,           \* the slots of requests that were begun on this link
  out,            \* the requests that have an answer in their outBuf
  stray           \* vm_exec has marked, or a script that has redirected may
                  \* have written into, a request it never ran

link == <<pc, at, link_stat, answer>>
reqs == <<stat, flag_fcgi, socket_id, out>>
pool == <<free, used>>
vars == <<link, reqs, pool, Request_Table, m_que, vm, event, phase, mine, stray>>

\* The memory of a slot is not cleared before its first use.
Init ==
  /\ pc = "accept"
  /\ at = 0
  /\ link_stat = "read_ready"
  /\ answer = NoAnswer
  /\ Request_Table = [i \in Ids |-> NoSlot]
  /\ free = [k \in 1 .. NSlots |-> k - 1]
  /\ used = {}
  /\ stat \in [Slots -> ReqStats]
  /\ flag_fcgi = [s \in Slots |-> "ready"]
  /\ socket_id = [s \in Slots |-> s + 1]
  /\ m_que = <<>>
  /\ vm = "enter"
  /\ event \in {"none", "clear"}
  /\ phase = [i \in Ids |-> "none"]
  /\ mine = {}
  /\ out = {}
  /\ stray = FALSE

-----------------------------------------------------------------------------
\* The pool: the next slot, and what freeing one does.  free() leaves the
\* object's link_stat as it was and writes the list's link over socket_id.
NextSlot == Head(free)

FreeLoc == IF free = <<>> THEN NoSlot ELSE Head(free)

Free(s) ==
  /\ used' = used \ {s}
  /\ free' = <<s>> \o free
  /\ socket_id' = [socket_id EXCEPT ![s] = FreeLoc]

\* The link to the web server is closed: wait_fcgi goes back to accept.
Close(ls) ==
  /\ pc' = "accept"
  /\ link_stat' = ls

-----------------------------------------------------------------------------
\* wait_fcgi takes the next link.
Accept ==
  /\ pc = "accept"
  /\ pc' = "select"
  /\ link_stat' = "write_finished"
  /\ answer' = NoAnswer
  /\ phase' = [i \in Ids |-> "none"]
  /\ mine' = {}
  /\ UNCHANGED <<at, reqs, pool, Request_Table, m_que, vm, event, stray>>

\* Mutant for OwnAnswers: without the stray semicolon, a link that is to be
\* kept goes on after its answer.
WriteKeeps ==
  /\ pc = "select"
  /\ link_stat = "write_ready"
  /\ link_stat' = "write_finished"
  /\ answer' = NoAnswer
  /\ phase' = [phase EXCEPT ![answer.id] = "none"]
  /\ UNCHANGED <<pc, at, reqs, pool, Request_Table, m_que, vm, event, mine, stray>>

\* select finds the link writable (nothing has been sent on it yet, so it is),
\* write_fcgi_server sends once, all of the answer or as much as the socket
\* takes or nothing, and the link is closed.
Write ==
  /\ pc = "select"
  /\ link_stat = "write_ready"
  /\ \E ls \in {"write_finished", "write_ready", "conn_finished"} : Close(ls)
  /\ UNCHANGED <<at, answer, reqs, pool, Request_Table, m_que, vm, event, phase, mine, stray>>

\* The link is readable and records are there.
Read ==
  /\ pc = "select"
  /\ link_stat # "write_ready"
  /\ pc' = "parse"
  /\ UNCHANGED <<at, link_stat, answer, reqs, pool, Request_Table, m_que, vm, event, phase, mine, stray>>

\* The link is readable because the web server has closed it.
ReadFails ==
  /\ pc = "select"
  /\ link_stat # "write_ready"
  /\ Close("conn_finished")
  /\ UNCHANGED <<at, answer, reqs, pool, Request_Table, m_que, vm, event, phase, mine, stray>>

\* After reading, or when select times out: a scan if a request is complete.
ScanIfFinished ==
  IF link_stat = "read_finished" THEN pc' = "scan" /\ at' = 0
                                 ELSE pc' = "select" /\ UNCHANGED at

Timeout ==
  /\ pc = "select"
  /\ link_stat = "read_finished"
  /\ ScanIfFinished
  /\ UNCHANGED <<link_stat, answer, reqs, pool, Request_Table, m_que, vm, event, phase, mine, stray>>

-----------------------------------------------------------------------------
\* BEGIN_REQUEST: a new request for an id that is not in the table; an id that
\* is there, begun on this link or on one that is gone, closes the link.  A
\* script that has redirected its request may still be writing into the slot.
Admits(i) == Request_Table[i] = NoSlot

BeginNew(i) ==
  /\ pc = "parse"
  /\ phase[i] = "none"
  /\ Admits(i)
  /\ free # <<>>
  /\ Request_Table' = [Request_Table EXCEPT ![i] = NextSlot]
  /\ free' = Tail(free)
  /\ used' = used \cup {NextSlot}
  /\ stat' = [stat EXCEPT ![NextSlot] = "read_ready"]
  /\ flag_fcgi' = [flag_fcgi EXCEPT ![NextSlot] = "begin_request"]
  /\ socket_id' = [socket_id EXCEPT ![NextSlot] = i]
  /\ out' = out \ {NextSlot}
  /\ phase' = [phase EXCEPT ![i] = "params"]
  /\ mine' = mine \cup {NextSlot}
  /\ stray' = (stray \/ (vm = "sent" /\ NextSlot = Head(m_que)))
  /\ UNCHANGED <<link, m_que, vm, event>>

BeginKnown(i) ==
  /\ pc = "parse"
  /\ phase[i] = "none"
  /\ ~Admits(i)
  /\ Close("conn_finished")
  /\ UNCHANGED <<at, answer, reqs, pool, Request_Table, m_que, vm, event, phase, mine, stray>>

\* The pool is full: alloc throws and nothing catches it.
BeginThrows(i) ==
  /\ pc = "parse"
  /\ phase[i] = "none"
  /\ Admits(i)
  /\ free = <<>>
  /\ pc' = "dead"
  /\ UNCHANGED <<at, link_stat, answer, reqs, pool, Request_Table, m_que, vm, event, phase, mine, stray>>

\* A record of another version, a role that is not a responder's, or data for
\* an id that is not in the table.
BadRecord ==
  /\ pc = "parse"
  /\ Close("conn_finished")
  /\ UNCHANGED <<at, answer, reqs, pool, Request_Table, m_que, vm, event, phase, mine, stray>>

\* PARAMS or STDIN with data in it.
Data(i) ==
  /\ pc = "parse"
  /\ phase[i] \in {"params", "stdin"}
  /\ flag_fcgi' = [flag_fcgi EXCEPT ![Request_Table[i]] = "read_client"]
  /\ UNCHANGED <<link, stat, socket_id, out, pool, Request_Table, m_que, vm, event, phase, mine, stray>>

\* The empty PARAMS record: the variables are complete and are decoded.
ParamsEnd(i) ==
  /\ pc = "parse"
  /\ phase[i] = "params"
  /\ flag_fcgi' = [flag_fcgi EXCEPT ![Request_Table[i]] = "read_client"]
  /\ phase' = [phase EXCEPT ![i] = "stdin"]
  /\ UNCHANGED <<link, stat, socket_id, out, pool, Request_Table, m_que, vm, event, mine, stray>>

\* Mutant for QueueSound: a second empty STDIN is not told from the first.
CompletesAgain(s) == TRUE

\* push_excuting: into the queue, and the VM thread is told.  The event stays
\* set until somebody waits for it; the broadcast wakes a thread that waits
\* and is lost when none does.
Push(s) ==
  /\ m_que' = Append(m_que, s)
  /\ IF event = "none"
       THEN vm' = (IF vm = "waiting" THEN "check" ELSE vm) /\ UNCHANGED event
       ELSE event' = "set" /\ UNCHANGED vm

\* The empty STDIN record: the request is complete.  A page the server knows
\* goes to the VM thread, any other gets 404 at once.
Completes(s) == flag_fcgi[s] = "read_client"

StdinEnd(i, registered) ==
  LET s == Request_Table[i] IN
  /\ pc = "parse"
  /\ phase[i] \in {"stdin", "ended"}
  /\ Completes(s)
  /\ flag_fcgi' = [flag_fcgi EXCEPT ![s] = "read_finished"]
  /\ IF registered
       THEN /\ stat' = [stat EXCEPT ![s] = "read_finished"]
            /\ Push(s)
            /\ UNCHANGED out
       ELSE /\ stat' = [stat EXCEPT ![s] = "write_ready"]
            /\ out' = out \cup {s}
            /\ UNCHANGED <<m_que, vm, event>>
  /\ link_stat' = "read_finished"
  /\ phase' = [phase EXCEPT ![i] = "ended"]
  /\ UNCHANGED <<pc, at, answer, socket_id, pool, Request_Table, mine, stray>>

\* What was read ends inside a record: it waits for the rest, and what
\* link_stat said before is gone.
ParseCut ==
  /\ pc = "parse"
  /\ pc' = "select"
  /\ link_stat' = "read_ready"
  /\ UNCHANGED <<at, answer, reqs, pool, Request_Table, m_que, vm, event, phase, mine, stray>>

\* What was read ends with a record (one may be a second empty STDIN, which
\* changes nothing).
ParseDone ==
  /\ pc = "parse"
  /\ ScanIfFinished
  /\ UNCHANGED <<link_stat, answer, reqs, pool, Request_Table, m_que, vm, event, phase, mine, stray>>

-----------------------------------------------------------------------------
\* Mutant for TableSound: the request is erased before its id is read.
ErasesFirst ==
  /\ pc = "scan"
  /\ stat[at] = "write_ready"
  /\ answer' = [id |-> socket_id[at], slot |-> at, live |-> at \in used,
                done |-> at \in out, mine |-> at \in mine]
  /\ link_stat' = "write_ready"
  /\ IF at \in used THEN Free(at) ELSE UNCHANGED <<used, free, socket_id>>
  /\ Request_Table' = [i \in Ids |-> IF i = socket_id'[at] THEN NoSlot ELSE Request_Table[i]]
  /\ pc' = "select"
  /\ UNCHANGED <<at, stat, flag_fcgi, out, m_que, vm, event, phase, mine, stray>>

\* The scan stands on a request that has its answer.
ScanHit ==
  /\ pc = "scan"
  /\ stat[at] = "write_ready"
  /\ answer' = [id |-> socket_id[at], slot |-> at, live |-> at \in used,
                done |-> at \in out, mine |-> at \in mine]
  /\ link_stat' = "write_ready"
  /\ Request_Table' = [i \in Ids |-> IF i = socket_id[at] THEN NoSlot ELSE Request_Table[i]]
  /\ IF at \in used THEN Free(at) ELSE UNCHANGED <<used, free, socket_id>>
  /\ pc' = "select"
  /\ UNCHANGED <<at, stat, flag_fcgi, out, m_que, vm, event, phase, mine, stray>>

\* Mutant for Answered: the iterator is advanced twice.
LaterSkips == {s \in used : s > at + 1}

\* It does not: on to the next slot in use, which begin() has not looked for.
Later == {s \in used : s > at}

ScanNext ==
  /\ pc = "scan"
  /\ stat[at] # "write_ready"
  /\ \/ /\ Later # {}
        /\ at' \in {s \in Later : \A t \in Later : s <= t}
        /\ UNCHANGED pc
     \/ /\ Later = {}
        /\ pc' = "select"
        /\ UNCHANGED at
  /\ UNCHANGED <<link_stat, answer, reqs, pool, Request_Table, m_que, vm, event, phase, mine, stray>>

-----------------------------------------------------------------------------
\* The VM thread between two turns: it waits until it is told, which ends an
\* auto-reset event, and goes back to waiting when the queue is empty.
VMWait ==
  /\ pc # "dead"
  /\ vm = "enter"
  /\ \/ event = "set" /\ event' = "clear" /\ vm' = "check"
     \/ event = "none" /\ vm' = "waiting" /\ UNCHANGED event
  /\ UNCHANGED <<link, reqs, pool, Request_Table, m_que, phase, mine, stray>>

VMEmpty ==
  /\ pc # "dead"
  /\ vm = "check" /\ m_que = <<>>
  /\ vm' = "enter"
  /\ UNCHANGED <<link, reqs, pool, Request_Table, m_que, event, phase, mine, stray>>

\* pthread_cond_wait may come back without a broadcast.
SpuriousWakeup ==
  /\ pc # "dead"
  /\ vm = "waiting"
  /\ vm' = "check"
  /\ UNCHANGED <<link, reqs, pool, Request_Table, m_que, event, phase, mine, stray>>

\* vm_exec on the first of m_que, which is erased afterwards.
VMStart ==
  /\ pc # "dead"
  /\ vm = "check" /\ m_que # <<>>
  /\ IF stat[Head(m_que)] = "read_finished"
       THEN vm' = "run" /\ UNCHANGED m_que
       ELSE m_que' = Tail(m_que) /\ UNCHANGED vm
  /\ UNCHANGED <<link, reqs, pool, Request_Table, event, phase, mine, stray>>

VMFinish ==
  /\ pc # "dead"
  /\ vm = "run"
  /\ stat' = [stat EXCEPT ![Head(m_que)] = "write_ready"]
  /\ out' = out \cup {Head(m_que)}
  /\ m_que' = Tail(m_que)
  /\ vm' = "check"
  /\ UNCHANGED <<link, flag_fcgi, socket_id, pool, Request_Table, event, phase, mine, stray>>

\* send_http_msg from within a script: it writes the answer and marks it.
\* (Bound: it does not happen once a request has gone stray, or m_que could
\* grow for ever.)
Sends(next) ==
  /\ pc # "dead"
  /\ vm = "run"
  /\ ~stray
  /\ stat' = [stat EXCEPT ![Head(m_que)] = "write_ready"]
  /\ out' = out \cup {Head(m_que)}
  /\ vm' = next
  /\ UNCHANGED <<link, flag_fcgi, socket_id, pool, Request_Table, m_que, event, phase, mine, stray>>

\* A JSON request that fails, and a page that redirects and goes on ...
VMFail == Sends("again")

VMRedirect == Sends("sent")

\* ... and vm_exec marks it once more, whatever lives in the slot by now.
VMAgain ==
  /\ pc # "dead"
  /\ vm \in {"again", "sent"}
  /\ stray' = (stray \/ stat[Head(m_que)] # "write_ready")
  /\ stat' = [stat EXCEPT ![Head(m_que)] = "write_ready"]
  /\ m_que' = Tail(m_que)
  /\ vm' = "check"
  /\ UNCHANGED <<link, flag_fcgi, socket_id, out, pool, Request_Table, event, phase, mine>>

Parse(i) ==
  \/ BeginNew(i) \/ BeginKnown(i) \/ BeginThrows(i) \/ Data(i) \/ ParamsEnd(i)
  \/ \E registered \in BOOLEAN : StdinEnd(i, registered)

Loop ==
  \/ Accept \/ Write \/ Read \/ ReadFails \/ Timeout
  \/ \E i \in Ids : Parse(i)
  \/ BadRecord \/ ParseCut \/ ParseDone \/ ScanHit \/ ScanNext

VM == VMWait \/ VMEmpty \/ VMStart \/ VMFinish \/ VMFail \/ VMRedirect \/ VMAgain

Next == Loop \/ VM \/ SpuriousWakeup

Spec == Init /\ [][Next]_vars

\* The two threads run, and select's time-out of a millisecond or a second
\* (five for the first) brings the loop back; the web server owes nothing,
\* and nothing obliges pthread_cond_wait to come back by itself.
Fairness ==
  /\ WF_vars(Write) /\ WF_vars(Timeout) /\ WF_vars(ParseDone)
  /\ WF_vars(ScanHit) /\ WF_vars(ScanNext) /\ WF_vars(VM)

FairSpec == Spec /\ Fairness

-----------------------------------------------------------------------------
TypeOK ==
  /\ pc \in {"accept", "select", "parse", "scan", "dead"}
  /\ at \in Slots
  /\ link_stat \in LinkStats
  /\ answer \in [id : Nat, slot : Slots \cup {NoSlot}, live : BOOLEAN, done : BOOLEAN, mine : BOOLEAN]
  /\ Request_Table \in [Ids -> Slots \cup {NoSlot}]
  /\ free \in Seq(Slots)
  /\ used \subseteq Slots
  /\ stat \in [Slots -> ReqStats]
  /\ flag_fcgi \in [Slots -> {"ready", "begin_request", "read_client", "read_finished"}]
  /\ socket_id \in [Slots -> Nat]
  /\ m_que \in Seq(Slots)
  /\ vm \in {"enter", "waiting", "check", "run", "sent", "again"}
  /\ event \in {"none", "clear", "set"}
  /\ phase \in [Ids -> {"none", "params", "stdin", "ended"}]
  /\ mine \subseteq Slots
  /\ out \subseteq Slots
  /\ stray \in BOOLEAN

\* Request_Table and the pool say the same: every slot in use is in the table
\* under the id it carries, and the table names no other slot.  (The scan
\* takes the id from the object it is about to free.)
TableSound ==
  \A i \in Ids, s \in Slots : Request_Table[i] = s <=> s \in used /\ socket_id[s] = i

\* Entries of m_que that vm_exec has yet to look at.
Waiting == IF vm \in {"again", "sent"} THEN Tail(m_que) ELSE m_que

\* What waits for the VM thread is there, complete and without an answer, and
\* waits once: the loop frees no request the VM has still to run, although
\* requests of a link that is gone stay in the queue.
QueueSound ==
  ~stray =>
    /\ \A k \in 1 .. Len(Waiting) : Waiting[k] \in used /\ stat[Waiting[k]] = "read_finished"
    /\ \A k, l \in 1 .. Len(Waiting) : Waiting[k] = Waiting[l] => k = l

\* What the link sends is the answer of a request in use that has one, and
\* never passes an old link's answer off as the answer of a request that has
\* the same id on this link.  (begin() stands on slot 0 whether or not it is
\* in use, and a freed slot still says write_ready.)
OwnAnswers ==
  (~stray /\ answer # NoAnswer) =>
    /\ answer.live
    /\ answer.done
    /\ answer.id \in Ids
    /\ phase[answer.id] # "none" => answer.mine /\ phase[answer.id] = "ended"

\* A link with a complete request gets an answer and is closed, unless the
\* start of a further record takes the mark away again.  Stated for Windows,
\* whose event stays set until the VM thread waits for it.
LinkWaits == link_stat = "read_finished" /\ pc = "select"

LinkLetGo == pc \in {"accept", "dead"} \/ link_stat = "read_ready"

Answered == (event # "none" /\ LinkWaits) ~> LinkLetGo

\* The same for POSIX, which is not so (TLC refutes it): a broadcast
\* sent after the VM thread has seen the queue empty and before it waits is
\* lost, the request stays in the queue and its link waits for ever.
AnsweredOnPosix == (event = "none" /\ LinkWaits) ~> LinkLetGo
=============================================================================
