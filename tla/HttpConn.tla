----------------------------- MODULE HttpConn -----------------------------
(***************************************************************************)
(* One connection of the web server (http_conn and page_buf in lig_httpd): *)
(* the request is read in pieces into inBuf, a default action or a script  *)
(* fills outBuf, and outBuf, refilled from the file, is sent in pieces.    *)
(*                                                                         *)
(* Lengths are counted in units; a unit of the answer is <<what, number>>. *)
(* The scripts of other connections, time and m_que are WebServer's.       *)
(***************************************************************************)
EXTENDS Integers, Sequences

CONSTANTS
    Requests,         \* what a client may send: records
                      \*   [method, to, head, lf, length, body], see MCHttpConn
    IO_SIZE, MAX_PAGE_SIZE, MAX_POSTLENGTH,
    Files,            \* lengths of the files in the web root
    Pieces,           \* bounds: the sizes of what a script writes at a time, and
    MaxSaid, MaxAfter \* how much it writes at most, before and after a redirection

ASSUME SizeAssumption ==
    /\ IO_SIZE \in Nat /\ IO_SIZE > 2    \* the head of an answer fits
    /\ MAX_PAGE_SIZE \in Nat /\ MAX_POSTLENGTH \in Nat
    /\ MAX_PAGE_SIZE >= 3 * IO_SIZE      \* a buffer can grow at least once
    /\ Files \subseteq Nat /\ Pieces \subseteq Nat

ASSUME RequestAssumption ==
    \A r \in Requests : r.head \in Nat \ {0} /\ r.body \in Nat /\ r.length \in Nat \cup {-1}

VARIABLES
    link_stat,
    request,          \* the client's request
    inBuf,            \* page_buf: buf_size, buf_curr and the next resize's bytes
    flag_header_ok,
    outBuf,           \* the same with what is in it (p) and buf_start
    mFiles,           \* the open file: its next unit and FileLength, or NoFile
    vm,               \* "idle", "queued" in m_que, "run", and, with the connection
                      \* marked write_ready: "sent" (a redirecting script goes on),
                      \* "again" (to be marked once more), "close" (to be finished)
    said,             \* history: the units the script has written
    sent,             \* what the client has received
    broken,           \* history: the connection ended without a whole answer
    exposed,          \* history: the I/O thread took up an answer that the VM had
                      \* marked and was not done with
    spilled           \* history: a write went past the end of the buffer

hist == <<said, exposed, spilled>>
vars == <<link_stat, request, inBuf, flag_header_ok, outBuf, mFiles, vm, sent, broken, hist>>

-----------------------------------------------------------------------------
(* page_buf.                                                               *)

NewIn == [size |-> IO_SIZE, curr |-> 0, more |-> 2 * IO_SIZE]
NewOut == [size |-> IO_SIZE, p |-> <<>>, start |-> 0, more |-> 2 * IO_SIZE]

\* resize() with no argument: (2<<resize_times)*IO_SIZE bytes more, within a limit.
CanGrow(b) == b.size + b.more <= MAX_PAGE_SIZE
Resized(b, n) == [b EXCEPT !.size = @ + n, !.more = 2 * @]
NeverResized(b) == b.more = 2 * IO_SIZE

Put(b, data) == [b EXCEPT !.p = @ \o data]

\* direct_write(data, length): what finds no room in a buffer at its limit is
\* dropped; otherwise it is copied after one resize(), be it enough or not.
Written(b, data) ==
    IF b.size - Len(b.p) >= Len(data) THEN Put(b, data)
    ELSE IF CanGrow(b) THEN Put(Resized(b, b.more), data)
    ELSE b

\* A character of direct_write(string): written first, and then room is made for the
\* next one.
WrittenText(b, char) ==
    LET c == Put(b, <<char>>)
    IN IF Len(c.p) >= c.size /\ CanGrow(c) THEN Resized(c, c.more) ELSE c

-----------------------------------------------------------------------------
NoFile == [next |-> 0, left |-> -1]
Open(f) == f.left >= 0

Fresh(r) ==
    /\ link_stat' = "read_ready"
    /\ request' = r
    /\ inBuf' = NewIn /\ flag_header_ok' = FALSE
    /\ outBuf' = NewOut /\ mFiles' = NoFile
    /\ vm' = "idle" /\ said' = 0
    /\ sent' = <<>> /\ broken' = FALSE /\ exposed' = FALSE /\ spilled' = FALSE

Init ==
    /\ link_stat = "read_ready"
    /\ request \in Requests
    /\ inBuf = NewIn /\ flag_header_ok = FALSE
    /\ outBuf = NewOut /\ mFiles = NoFile
    /\ vm = "idle" /\ said = 0
    /\ sent = <<>> /\ broken = FALSE /\ exposed = FALSE /\ spilled = FALSE

Units(what, i, n) == [j \in 1 .. n |-> <<what, i + j - 1>>]
PageHead == <<<<"head", 0>>, <<"blank", 0>>>>
FileHead == Units("head", 0, 2)

\* send_http_msg overwrites what is in the buffer.
Message(b) == [b EXCEPT !.p = <<<<"message", 0>>>>]

-----------------------------------------------------------------------------
(* Reading.                                                                *)

\* Mutant: the loop over the buffer ends one too early.
HeadSeenLate(n) == n > request.head + (IF request.lf THEN 2 ELSE 0)

\* parse_header finds the end of the head: its loop ends three bytes before the
\* buffer does, so two bare line feeds are seen only when two bytes follow them.
HeadSeen(n) == n >= request.head + (IF request.lf THEN 2 ELSE 0)

\* read_socket with n units, its buffer never left full.
Received(n) ==
    LET b == [inBuf EXCEPT !.curr = @ + n]
    IN IF b.curr = b.size THEN Resized(b, b.more) ELSE b

\* A body longer than the buffer gets its room at once.
Prepared(b) ==
    IF request.method = "POST" /\ b.size < request.length THEN Resized(b, request.length) ELSE b

ReadFails(n) == inBuf.curr + n = inBuf.size /\ ~CanGrow(inBuf)
Refused(n) ==
    /\ HeadSeen(inBuf.curr + n) /\ request.method = "POST"
    /\ request.length = -1 \/ request.length > MAX_POSTLENGTH

\* Mutant: more than the body is as good as the body.
AtLeast(n) ==
    /\ HeadSeen(inBuf.curr + n)
    /\ request.method = "POST" => inBuf.curr + n >= request.length + request.head

Complete(n) ==
    /\ HeadSeen(inBuf.curr + n)
    /\ request.method = "POST" => inBuf.curr + n = request.length + request.head

Arrives(n) ==
    /\ link_stat = "read_ready"
    /\ inBuf.curr + n <= request.head + request.body /\ inBuf.curr + n <= inBuf.size
    /\ UNCHANGED <<request, sent, hist>>

\* recv fails or the client has gone.
ReadError ==
    /\ link_stat = "read_ready"
    /\ link_stat' = "conn_finished" /\ broken' = TRUE
    /\ UNCHANGED <<request, inBuf, flag_header_ok, outBuf, mFiles, vm, sent, hist>>

ReadClose(n) ==
    /\ Arrives(n) /\ (ReadFails(n) \/ Refused(n))
    /\ link_stat' = "conn_finished" /\ broken' = TRUE
    /\ inBuf' = IF ReadFails(n) THEN [inBuf EXCEPT !.curr = @ + n]
                ELSE IF request.length = -1 THEN Received(n) ELSE Prepared(Received(n))
    /\ flag_header_ok' = (flag_header_ok \/ ~ReadFails(n))
    /\ UNCHANGED <<outBuf, mFiles, vm>>

ReadMore(n) ==
    /\ Arrives(n) /\ ~ReadFails(n) /\ ~Refused(n) /\ ~Complete(n)
    /\ inBuf' = IF HeadSeen(inBuf.curr + n) THEN Prepared(Received(n)) ELSE Received(n)
    /\ flag_header_ok' = HeadSeen(inBuf.curr + n)
    /\ UNCHANGED <<link_stat, outBuf, mFiles, vm, broken>>

\* The request is handed on: to the script its URL is registered for, or to the
\* default action of its method.
ReadDone(n) ==
    /\ Arrives(n) /\ ~ReadFails(n) /\ ~Refused(n) /\ Complete(n)
    /\ inBuf' = Prepared(Received(n)) /\ flag_header_ok' = TRUE

PushExcuting(n) ==
    /\ ReadDone(n) /\ request.to \in {"page", "json"}
    /\ link_stat' = "read_finished" /\ vm' = "queued"
    /\ UNCHANGED <<outBuf, mFiles, broken>>

\* POST and unknown methods, a file that is missing, cannot be opened or read, or
\* was not modified.
SendMessage(n) ==
    /\ ReadDone(n) /\ request.to = "file" /\ request.method # "HEAD"
    /\ link_stat' = "write_ready" /\ outBuf' = Message(outBuf)
    /\ UNCHANGED <<mFiles, vm, broken>>

\* create_getfile_header and write_file: the head and as much of the file as fits.
SendFile(n) ==
    /\ ReadDone(n) /\ request.to = "file" /\ request.method = "GET"
    /\ \E FileLength \in Files :
         LET room == IO_SIZE - Len(FileHead)
             all == FileLength < room
         IN /\ outBuf' = [outBuf EXCEPT !.p = FileHead \o Units("file", 1, IF all THEN FileLength ELSE room)]
            /\ mFiles' = IF all THEN NoFile ELSE [next |-> room + 1, left |-> FileLength - room]
    /\ link_stat' = "write_ready"
    /\ UNCHANGED <<vm, broken>>

\* action_HEAD prepares the head and never marks it ready; the file stays open.
\* Where there is none, fclose(NULL) either returns or ends the program.
HeadFound(n) ==
    /\ ReadDone(n) /\ request.to = "file" /\ request.method = "HEAD"
    /\ \E FileLength \in Files : mFiles' = [next |-> 1, left |-> FileLength]
    /\ outBuf' = [outBuf EXCEPT !.p = FileHead]
    /\ link_stat' = "read_finished"
    /\ UNCHANGED <<vm, broken>>

HeadMissing(n) ==
    /\ ReadDone(n) /\ request.to = "file" /\ request.method = "HEAD"
    /\ outBuf' = Message(outBuf)
    /\ \/ link_stat' = "write_ready" /\ UNCHANGED broken
       \/ link_stat' = "crashed" /\ broken' = TRUE
    /\ UNCHANGED <<mFiles, vm>>

-----------------------------------------------------------------------------
(* The VM thread: vm_exec.                                                 *)

Done == UNCHANGED <<request, inBuf, flag_header_ok, mFiles, sent>>

VMStart ==
    /\ vm = "queued" /\ vm' = "run"
    /\ outBuf' = [outBuf EXCEPT !.p = PageHead]
    /\ UNCHANGED <<link_stat, broken, hist>> /\ Done

\* A script writes a block, or a character of a string.  Past the end of the buffer
\* lies other memory.
VMWrite(n) ==
    /\ vm \in {"run", "sent"} /\ said + n <= (IF vm = "run" THEN MaxSaid ELSE MaxAfter)
    /\ \/ /\ outBuf' = Written(outBuf, Units("out", said + 1, n))
          /\ spilled' = (spilled \/ Len(outBuf'.p) > outBuf'.size)
       \/ /\ n = 1 /\ outBuf' = WrittenText(outBuf, <<"out", said + 1>>)
          /\ spilled' = (spilled \/ Len(outBuf.p) >= outBuf.size)
    /\ said' = said + n
    /\ UNCHANGED <<link_stat, vm, broken, exposed>> /\ Done

\* Sq2Redirect marks the connection and the script goes on.  It is done once: a
\* second one, over an answer that is being sent, is left out.
Redirect ==
    /\ vm = "run" /\ vm' = "sent"
    /\ outBuf' = Message(outBuf) /\ link_stat' = "write_ready"
    /\ UNCHANGED <<broken, hist>> /\ Done

\* What was written past the end may bring the program down; if it does not, no
\* property says anything of this answer (what it overwrote is not followed).
VMCrash ==
    /\ spilled /\ vm \in {"run", "sent"} /\ vm' = "idle"
    /\ link_stat' = "crashed" /\ broken' = TRUE
    /\ UNCHANGED <<outBuf, hist>> /\ Done

\* Mutant: a page's pointer too is taken before the script runs.
PointerBefore(b) == NeverResized(b)

\* The number is written into the head where pHeadBuf points, into a redirection's
\* text when that has taken the head's place.  A page's pointer is taken now, a JSON
\* request's before the script ran: it may point to the old block, which still
\* belongs to the connection.
Numbered(b) ==
    IF b.p[1] = PageHead[1] THEN [b EXCEPT !.p[2] = <<"length", Len(b.p) - Len(PageHead)>>]
    ELSE [b EXCEPT !.p[1] = <<"message", 1>>]
Reached(b) == request.to = "page" \/ NeverResized(b)

\* A page whose head said Connection: Close (with MAX_KEEP_ALIVE connections, see
\* WebServer) is finished after it was marked; a C callback never.
AfterMark == IF request.to = "page" THEN {"idle", "close"} ELSE {"idle"}

VMFinish ==
    /\ vm \in {"run", "sent"} /\ vm' \in AfterMark
    /\ outBuf' = IF Reached(outBuf) THEN Numbered(outBuf) ELSE outBuf
    /\ link_stat' = "write_ready"
    /\ UNCHANGED <<broken, hist>> /\ Done

\* No such page, no session, a JSON request whose body is not what its head said:
\* the message is marked, and vm_exec marks a JSON request's once more.
VMRefuse ==
    /\ vm = "run" /\ said = 0
    /\ vm' \in IF request.to = "json" THEN {"again"} ELSE AfterMark
    /\ outBuf' = Message(outBuf) /\ link_stat' = "write_ready"
    /\ UNCHANGED <<broken, hist>> /\ Done

\* A JSON callback that fails half way sends what there is.
VMFail ==
    /\ vm \in {"run", "sent"} /\ request.to = "json" /\ vm' = "idle"
    /\ link_stat' = "write_ready"
    /\ UNCHANGED <<outBuf, broken, hist>> /\ Done

VMMarkAgain ==
    /\ vm = "again" /\ vm' = "idle"
    /\ link_stat' = "write_ready"
    /\ UNCHANGED <<outBuf, broken, hist>> /\ Done

VMClose ==
    /\ vm = "close" /\ vm' = "idle"
    /\ link_stat' = "conn_finished" /\ broken' = (broken \/ link_stat = "write_ready")
    /\ UNCHANGED <<outBuf, hist>> /\ Done

-----------------------------------------------------------------------------
(* Sending: write_client, which asks link_stat alone.                      *)

Left == Len(outBuf.p) - outBuf.start
TransSize == IF Left > IO_SIZE THEN IO_SIZE ELSE Left
Gone(n) == sent \o SubSeq(outBuf.p, outBuf.start + 1, outBuf.start + n)

Unfinished == vm \in {"sent", "again"}

Sends(n) ==
    /\ link_stat = "write_ready" /\ n <= TransSize
    /\ sent' = Gone(n) /\ exposed' = (exposed \/ Unfinished)
    /\ UNCHANGED <<request, inBuf, flag_header_ok, vm, said, spilled>>

WriteSome(n) ==
    /\ Sends(n) /\ n < Left
    /\ outBuf' = [outBuf EXCEPT !.start = @ + n]
    /\ UNCHANGED <<link_stat, mFiles, broken>>

\* All of the buffer is out, and of the file if there is one.
WriteEnd(n) ==
    /\ Sends(n) /\ n = Left
    /\ mFiles.left <= 0 /\ mFiles' = NoFile
    /\ outBuf' = [outBuf EXCEPT !.start = IF Open(mFiles) THEN @ + n ELSE 0]
    /\ link_stat' = "conn_finished"
    /\ UNCHANGED broken

\* Mutant: the next part is read, but sent from where the last one ended.
WriteNextOn(n) ==
    /\ Sends(n) /\ n = Left /\ mFiles.left > 0
    /\ LET nRead == IF mFiles.left > IO_SIZE THEN IO_SIZE ELSE mFiles.left
       IN /\ outBuf' = [outBuf EXCEPT !.p = Units("file", mFiles.next, nRead)]
          /\ mFiles' = [next |-> mFiles.next + nRead, left |-> mFiles.left - nRead]
          /\ UNCHANGED <<link_stat, broken>>

\* The next part of the file, or fread fails.
WriteNext(n) ==
    /\ Sends(n) /\ n = Left /\ mFiles.left > 0
    /\ LET nRead == IF mFiles.left > IO_SIZE THEN IO_SIZE ELSE mFiles.left
       IN \/ /\ outBuf' = [outBuf EXCEPT !.start = 0, !.p = Units("file", mFiles.next, nRead)]
             /\ mFiles' = [next |-> mFiles.next + nRead, left |-> mFiles.left - nRead]
             /\ UNCHANGED <<link_stat, broken>>
          \/ /\ outBuf' = [outBuf EXCEPT !.start = 0]
             /\ link_stat' = "conn_finished" /\ broken' = TRUE
             /\ UNCHANGED mFiles

WriteError ==
    /\ link_stat = "write_ready"
    /\ link_stat' = "conn_finished" /\ broken' = TRUE /\ exposed' = (exposed \/ Unfinished)
    /\ UNCHANGED <<request, inBuf, flag_header_ok, outBuf, mFiles, vm, said, spilled, sent>>

\* lig_httpd::begin closes the connection, when it has ended or its time is out,
\* and the slot gets the next client; a crashed server is started again.  A slot
\* given away under the VM is WebServer's.
Close ==
    /\ vm = "idle"
    /\ \E r \in Requests : Fresh(r)

Next ==
    \/ \E n \in 1 .. IO_SIZE + MAX_PAGE_SIZE :
         \/ ReadClose(n) \/ ReadMore(n)
         \/ PushExcuting(n) \/ SendMessage(n) \/ SendFile(n) \/ HeadFound(n) \/ HeadMissing(n)
         \/ WriteSome(n) \/ WriteEnd(n) \/ WriteNext(n)
    \/ ReadError \/ WriteError
    \/ VMStart \/ (\E n \in Pieces : VMWrite(n)) \/ Redirect \/ VMCrash
    \/ VMFinish \/ VMRefuse \/ VMFail \/ VMMarkAgain \/ VMClose
    \/ Close

Spec == Init /\ [][Next]_vars

-----------------------------------------------------------------------------
(* Properties.                                                             *)

\* What is yet to be sent: the rest of the buffer, and of the file behind it.
Rest ==
    SubSeq(outBuf.p, outBuf.start + 1, Len(outBuf.p))
    \o (IF Open(mFiles) THEN Units("file", mFiles.next, mFiles.left) ELSE <<>>)

Making == link_stat \in {"read_ready", "read_finished"} \/ Unfinished

Stream == INSTANCE AnswerStream WITH
    phase <- IF exposed \/ spilled THEN "exposed"
             ELSE IF Making THEN "making"
             ELSE IF link_stat = "write_ready" THEN "sending"
             ELSE IF broken THEN "broken" ELSE "ended",
    answer <- IF ~exposed /\ ~spilled /\ Making THEN <<>>
              ELSE IF ~exposed /\ ~spilled /\ link_stat = "write_ready" THEN sent \o Rest
              ELSE sent

\* However the sends are cut, the client receives the answer from its first unit
\* to its last, in order, none twice, although buffer and file are read by turns:
\* a connection that ends without an error has sent everything.  But when the I/O
\* thread takes up what a redirecting script or a refused JSON request has marked
\* before the VM is done with it (see SentOnce), or a write went past the end of the
\* buffer, nothing is promised.
Implements == Stream!Spec

\* What Implements leaves out: this the code does not keep.  A redirection or a refused
\* JSON request's message that was sent before the VM marks it again is sent twice.
SentOnce == \A i, j \in 1 .. Len(sent) : sent[i] = sent[j] => i = j

\* A request is handed on when its head, and for a POST exactly the body the head
\* announces, is in the buffer, however it was cut, and the buffer has room for
\* the zero the JSON callback puts behind the body.
RequestWhole ==
    link_stat \in {"read_finished", "write_ready"} =>
        /\ inBuf.curr >= request.head
        /\ request.method = "POST" => inBuf.curr = request.head + request.length
        /\ inBuf.curr < inBuf.size

\* Of the clients that have sent a request with CRLF lines and the body its head
\* announces, none waits for its time-out, whatever the pieces the request came in
\* and whatever becomes of its script, but the one whose HEAD found its file:
\* action_HEAD makes its answer up and never marks it.
NoneLeftWaiting ==
    /\ inBuf.curr = request.head + request.body
    /\ ~request.lf /\ (request.method = "POST" => request.body = request.length)
    => /\ link_stat # "read_ready"
       /\ link_stat = "read_finished" => vm # "idle" \/ (request.method = "HEAD" /\ Open(mFiles))

\* The answer a script wrote goes out whole and its head tells its length, however
\* the buffer grew meanwhile, unless it met the limit, a write went past the end
\* of the buffer or a redirection took its place; of JSON answers only those that
\* never left the first block.
LengthTold ==
    /\ link_stat = "write_ready" /\ ~Unfinished /\ sent = <<>> /\ said > 0
    /\ ~spilled /\ outBuf.p[1] = PageHead[1]
    /\ \/ request.to = "page" /\ CanGrow(outBuf)
       \/ request.to = "json" /\ outBuf.p[2] # PageHead[2]
    => outBuf.p = <<PageHead[1], <<"length", said>>>> \o Units("out", 1, said)

=============================================================================
