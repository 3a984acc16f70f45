# A TLA+ verification of SqSP

SqSP (`src/LigSP`) is a web server whose pages are Squirrel scripts. This directory
holds TLA+ modules translated from its source, TLC configurations that check them on
small instances, and TLAPS proofs of their main properties for every value of the
constants. Source paths below are relative to `src/LigSP/LigCommon/`.

## 1. The system and its parts

| part | source | state it keeps | operations | speaks with |
|---|---|---|---|---|
| web server threads | `lig_httpd.cpp` 3373-3787, 1800-1910; `lig_httpd.h` | `m_connList`, `m_connDB`, `m_que`, `global_polling_clock`, each connection's `link_stat` | accept and insert; two-pass select loop; script queue and `vm_exec` | everything below; the three threads share connections without a lock |
| HTTP connection | `lig_httpd.cpp` 744-991, 1162-1327; `page_buf` | `inBuf`, `outBuf`, `header`, `link_stat`, file being sent | `init`, `read_client`, `parse_header`, `action_*`, `write_client` | I/O thread, VM thread |
| session manager | `lig_httpd.cpp` 535-722 | `session_database`, a table for each session in the VM registry | create (with sweep), get, delete | VM thread, clock |
| FastCGI server | `lig_httpd.cpp` 993-1160, 1329-1450, 3465-3650 | `Request_Table`, one link's buffers | parse records, answer, drop the link | VM thread, an outer web server |
| object pool | `sdl_memory.h` 95-480 | page table, free list through the slots, `LastHandle` | `alloc`, `free`, `del`, `clear`, `destroy`, iterator | connections, the parser's syntax trees, the string tree |
| thread primitives | `sdl_tcpstream.h` 1-420 | events, mutexes, a reader count | read-write lock, condition variable, mutex, thread | web server, public table |
| public shared table | `ScriptSupport.cpp` 2149-2423 | a map from names to objects, a time, two rwlocks, a condition variable | `_set`, `_get`, `_cmp`, `is_in`, get and set the time, wait, wake | the scripts of all VMs |
| script threads and support | `ScriptSupport.cpp`, `SqSupportUtil.cpp`, `sdl_script_support.h` | a VM for each thread | start, wait, register classes | public table |
| page compiler and `io` | `parser.cpp`; `lig_httpd.cpp` 2070-2461 | the tree of a page; the `io` object's switch and template stack; the global `pCstrLock` | compile a page; write a piece, call a template, call one for Ajax | web server, scripts |
| remote debugger | `sqdbgserver.cpp`, `.h`, `sqrdbg.cpp` | state, call count, breakpoints, watches, a socket | hook, error handler, commands, break | a script's VM, a debugger client |
| TCP streams | `sdl_tcpstream.cpp`, `.h` | socket, buffers, the server's handle table | blocking send and receive, accept loop | scripts |
| signals and slots | `sdl_signal.h` | list of slots, lock policy | connect, disconnect, emit | TCP server |
| serialisation | `sdl_state.h`, `serialize_state.inl` | none | objects to bytes and back | page cache |
| GDBM store | `win_gdbm.cpp` | header, directory, hash buckets, three levels of free space in a file; a bucket cache in memory | open, store, fetch, delete, close | scripts (`SqDBM` in `SqSupportUtil.cpp` opens, fetches, replaces and closes) |
| database wrapper, SQLite binding, parser and JSON helpers, Unicode, shell, program entry | the other files | | | scripts, console |
| Squirrel, SQLite, web root | `../SQUIRREL3`, `sqlite3.h`, `../root` | third-party code and assets | | |

How a request runs: the accept thread takes a free connection of `m_connDB`, puts it onto
`m_connList`, initialises it there and gives it the socket (`insert_request`, 993). The I/O thread reads it (`read_ready`), and when the
request is complete either answers it itself (`write_ready`) or, when its URL belongs to
a script, marks it `read_finished`, pushes a pointer on `m_que` and signals
`excute_lock`. The VM thread runs the script of the front entry, which fills `outBuf`,
marks the connection `write_ready` and erases the entry; `io.redirect` writes and marks
already while the script goes on (2525). The I/O thread sends `outBuf`,
marks the connection `conn_finished`, and in its next first pass closes it and frees the
slot. `link_stat` is the only protocol between the threads: nothing is locked.

What makes each part correct, and what is hard about it:

- *Web server threads.* Each client is sent its own answer, once; a script runs once for
  a request; slots are neither shared nor lost; the queue is emptied and connections end.
  Hard: the interleavings of three threads without locks, slots that are freed by the
  time-out while the queue still names them and are then reused, a connection that is listed before it is
  initialised, answers marked before their script has ended, the condition variable without a
  condition, the keep-alive limit.
- *HTTP connection.* A request is handed on whole, once, and as soon as it is there;
  partial writes neither lose nor repeat bytes; the head tells the length. Hard: resuming
  after any split of the data, sizes at a buffer's edge, buffers that move.
- *Session manager.* Entry and table exist together; a session lives as long as it is
  used and not longer. Hard: two stores changed by separate calls, expiry boundaries.
- *FastCGI.* Each request id has one request, answered to the link it came from. Hard:
  links that drop with requests outstanding, ids that come again, records cut in two.
- *Object pool.* A handle stands for one object; no slot is lost; walks miss nothing.
  Hard: links stored in the objects' own bytes, lazy pages, relinking.
- *Thread primitives.* Exclusion, no lock lost for ever. Hard: waits and resets that are
  separate calls.
- *Public table.* Each call sees one state; strings made and deleted by hand are neither
  lost nor shared; every way out of a lock unlocks. Hard: some twenty early returns.
- *GDBM.* The file is a map that survives the death of the process; no space has two
  owners. Hard: the order of writes, free space that moves between three lists, caches
  beside it, deletions that move elements around the end of a bucket.
- *Page compiler.* A page shows what its tags say. Hard: one switch for all the ifs and
  templates that are open, tags that take the place of text in the tree, a global lock
  that nested Ajax calls, script errors and further requests must hand back.
- *Debugger.* A script stops where it was asked to and goes on when it was told to. Hard:
  a call count that lives across commands, commands at any moment, frames that errors
  leave, a client that goes away.
- *Signals.* Slots may disconnect during an emit.

PROJECT.json lists the hazards one by one with their lines.

## 2. Plan

Order of work; (done) is in this directory now.

1. `WebServer`: the three threads, the core (done, proved).
2. `ObjectPool` and `MemAlloctor`: the abstract pool and the paged one, refinement (done, proved).
3. `SessionManager` (done, proved).
4. `RWLock` (done, proved for safety, liveness model-checked).
5. `HashBucket`: one bucket of the GDBM store, loop by loop (done, proved).
6. `KVStore` and `Gdbm`: the file, with a process that dies at any write; refinement
   (done, model-checked; space, caches, searches and returns proved).
7. `AnswerStream` and `HttpConn`: reading and writing of one connection; refinement
   (done, proved).
8. `FastCgi`: records, request table, dropped links, VM thread (done, proved for safety).
9. `SharedTable` and `PublicTable`: the shared map under its locks; refinement (done, proved).
10. `PageMeaning` and `PageScript`: what a page means and what is made of it; refinement
    (done, proved).
11. `Debugger`: hook, commands and client (done, proved for safety).
12. Left: the steps inside the unlocked pool and list operations, composing `WebServer`'s
    slots with `MemAlloctor`'s free list; the wait and
    wake pair of script threads; signals and slots; the
    TCP server's handle table and `sdl_timer`; uploads and their text search.

Theorems left: the invariants of the modules under 12. The updates' half of `Gdbm`'s refinement
of `KVStore` cannot be among them: as said with that module, it fails for some sizes.

## 3. Modules, and how they correspond to the code

### WebServer (`MCWebServer`, `WebServerProofs`)

A *slot* is a place in `m_connDB`; a *socket* stands for a client and, since the server
never returns a connection to `read_ready`, for its one request. `stat`, `age`, `sock`,
`mapped`, `out`, `left` are the fields of `http_conn` by slot: `link_stat`,
`global_polling_clock - time_stamp`, `socket_id`, `pUrlMap`, whose answers are in
`outBuf`, and the number of `send` calls it still needs. `connList`, `free` and `que` are
`m_connList`, the pool's free list and `m_que`. `ioPc`/`ioPos`, `vmPc` and `accPc` are the program
counters of the I/O, VM and accept threads. History: `shut` (closed descriptors), `told` (whose
head says Connection: Close), `fate`, `got`, `runs`, `overrun` (a slot was freed under the VM),
`stray` (the VM marked a slot that held another connection) and `torn` (the I/O thread worked on
a slot that was still being inserted).

| actions | code |
|---|---|
| `Tick`; `Insert`, `InitConn`, `SetSocket` | `wait_connect`; `insert_request` in its three steps: alloc and push (995, 997), `http_conn::init` (998), `socket_id` (999) |
| `CloseConn`, `WatchConn`, `Select` | first pass of `lig_httpd::begin` |
| `ReadError`, `ReadMore`, `ReadScript`, `ReadDefault`, `ReadHead` | `read_client` and what the second pass does with its result: failure, incomplete, `push_excuting`, built-in `action_GET` and `action_POST`, `action_HEAD` |
| `Active`, `Wait`, `SpuriousWakeup` | `_sdl_cond::active`, `wait`; the constant `StickyEvent` chooses the Windows event or the POSIX condition variable |
| `WriteMore`, `WriteDone`, `WriteError` | `write_client` |
| `QueueEmpty`, `SkipExec`, `StartExec`, `ExecDefault`, `Redirect`, `FinishExec`, `CloseAfterExec`, `MarkAgain`, `EraseFront` | `http_poll::begin` and `vm_exec`; `Redirect` is `io.redirect` in the middle of a script (2525, 951), `FinishExec` the `write_ready` at its end, `CloseAfterExec` the closing assignment after it, `MarkAgain` the second `write_ready` of a failed JSON request |

Steps are cut where another thread can look: between the push and the signal, between
the script's start and its end, between the two marks, between `vm_exec` and the erasure
of the queue entry, and between the steps of `insert_request`. One operation on a `std::list` or
on the pool is one step.

What the code does not promise is said by the history flags. Between the push and the end of
`insert_request` the I/O thread goes by what the slot's last connection left: it may close and free
the slot (the client is then `lost`, and the rest of the insertion initialises a slot that is on the free list), or read or send with the old socket; all of that sets `torn`, and what holds even
then is that no slot is lost, listed twice or both listed and free (`PoolSound`). After a redirection the
I/O thread may send the answer, free the slot and give it away under the running script:
`OverrunOnlyLateOrSent` says that this and the time-out are the only ways. At the keep-alive limit answers
are dropped (1872), and `DroppedOnlyAtCap` says that nowhere else they are.

### ObjectPool, MemAlloctor (`MCMemAlloctor`, `MemAlloctorProofs`)

`MemAlloctor` keeps the table of pages with memory, the link of each slot (which an
object's data overwrites, `Data`), the flags, `FreeLoc` and `LastHandle`, and one
iterator. `alloc`, `free`, `clear`, `destroy`, `begin`, `advance` (operator++) and
`endWalk` are its methods. `ObjectPool` is what users rely on: a handle stands for at most
one object. The history variable `held` counts the objects given each slot and not freed,
and refines `ObjectPool`'s `objects`.

### SessionManager (`MCSessionManager`, `MemAlloctorProofs`)

`session_database` and `tables` are the set of entries and the tables in the VM registry;
`age` the time since an entry's stamp. `create_session` includes the sweep over expired
entries, `get_session` stamps before it tests, as the code does. `SessionPage`, `FirstPage`,
`Sq2CreateSession` and `json_callback` are the requests that reach it. A hash key is a
fresh member of `Keys`: the code hashes again until insertion succeeds.

### RWLock (`MCRWLock`, proofs in `PublicTableProofs`)

`read_que`, `EventRd`, `EventWr` are the members; `MuWrToken` the owner of the writers'
mutex. Each call that another thread can tell apart is an action with the member
function's name. What happens under `MuRdToken` is one step, since nobody else reads what
it writes except `wait_read_queue`, which is one look.
Its specification is `LockSpec` and its threads `Lockers`, so that `PublicTableProofs` can extend
both the lock and the table; likewise `Debugger` has `DbgSpec` beside `PageScript`'s `Spec`.

### HashBucket (`MCHashBucket`, `HashBucketProofs`)

`h_table` of one bucket, with the key standing for the hash value and the place of the
record, and `count`. `Begin` starts a call to fetch, store or delete; the other actions are
one turn each of the loops of `_gdbm_findkey` (`ProbeNext`), `gdbm_delete` (`ShiftStep`),
`gdbm_store` (`SlotTaken`, `Place`) and `_gdbm_split_bucket` (`Split`, `MoveNext`). A key's
home is `home[k]`, any function of the keys. The loop of the deletion, which moves later elements of the probe sequence back
into the hole, is where a wrong bound would lose a key.

### Gdbm, KVStore (`MCGdbm`, proofs in `GdbmLayout`, `GdbmSteps`, `GdbmProofs`)

`Gdbm` has the file (`disk`: header, directory, buckets, blocks of free space), what the
process holds of it (header, directory, cache, the current bucket, the changed flags) and
the call in progress. A call's memory work is one step, and each write to the file a step
of its own, in the code's order (`write_data`, `_gdbm_write_bucket`, directory,
`_gdbm_end_update`); between two writes the process may die, and a new one opens what the
file holds. Space is counted in units; the free lists of a bucket, of the header and of
the file's stack of avail blocks are all there (`_gdbm_alloc`, `_gdbm_free`,
`get_elem`, `_gdbm_put_av_elem`, `push_avail_block`, `pop_avail_block`). `KVStore` is what
callers may rely on: a map whose updates take effect at one moment, between which a
process may die, with one exception the code makes, the value being replaced. What the
translation keeps of the code's habits:

- Death between the write of bucket or directory and of the header, when the header was to
  change, leaves space both used and free in the file. So does, already before those
  writes, a death after space that `pop_avail_block` took off the stack was written to,
  while the header in the file still names it as an avail block (895 with 2528). The model
  marks such a file `hurt` and checks reading only from then on; nothing in the code
  detects or repairs it.
- One call may double the directory twice, and frees both old ones before it writes any
  part (1373). When the header's table fills up with the first, the second pushes, and may
  push into the first: the directory the file's header names. Until the header is
  written the file is then unreadable (`NoDir`), and a death marks it `hurt`. This needs a
  table of free pieces all smaller than an avail block but one entry; no run gets
  there, and a run that did would refute `Implements`, whose map is the file's.
- A push halves the header's table, and the same call may then add to it three times: the
  pieces `adjust_bucket_avail` moves, the rest of the block pushed to and what was to be freed.
  `_gdbm_free` looks once. So `GdbmAssumption` asks that half a table has that room, which
  the code's has with 512 bytes or more to a block (2065, 2142); with a table of two elements
  TLC's random simulation overruns the array (`SpaceSound`) within some eighty steps.
- REPLACE frees the old record before the new one is written, and often gets the same
  place again, so death may leave the value torn; a full free list may be written into just
  that place (2486 with 959).
- `push_avail_block` drops one element when their count is odd (949): that space is lost,
  not shared, and `SpaceSound` speaks of sharing.
- More keys of one hash than a bucket holds would split for ever; `GdbmAssumption` rules
  them out. `gdbm_fetch` of an empty value works, `gdbm_fastget_key` reports it as absent.

`GdbmLayout` has the inductive invariant `GdbmInv`, `GdbmSteps` the predicates for what the parts
of a call leave, `GdbmProofs` the theorems (section 6). Neither of the first two models code.

### HttpConn, AnswerStream (`MCHttpConn`, `HttpConnProofs`)

One connection from `init` to its end. Requests and answers are lengths: where the head
ends, how long the body should be and is, what file or script answers. `ReadError`,
`ReadClose`, `ReadMore` and `ReadDone` are the cases of `read_client`, with `parse_header` and
the growth of `inBuf`, and what the I/O thread does with a whole request: `PushExcuting`,
`SendFile`, `SendMessage`, `HeadFound`, `HeadMissing`. The `VM` actions fill `outBuf`
and end as `vm_exec` and its callbacks do: `VMFinish`, a refusal (`VMRefuse`, with `VMMarkAgain` for JSON), a failed
JSON callback (`VMFail`), the closing mark (`VMClose`); `Redirect` marks the answer and the script
goes on. The `Write` actions are the cases of `write_client`, with its refill from the file (`WriteNext`). `AnswerStream` promises the
client the answer in order, once, to its end, unless it was *exposed*: taken up by the I/O thread before the
VM was done with it, or written past the end of its buffer. The code's habits here:

- a head whose lines end in LF alone is recognised two bytes late (the loop at 1169 ends three
  bytes before the buffer), so such a request waits for the time-out if it ends there; POST with bytes beyond its length may wait as well,
  depending on how it is cut;
- an answer to a JSON function that outgrows the first block goes out with an empty
  Content-Length, since `pHeadBuf` points into the buffer it left (1835): `LengthTold` is
  about the other answers;
- HEAD for an existing file prepares its head, is never marked ready and waits for the time-out
  (`NoneLeftWaiting` has it as its exception), and leaks the file; for a missing one a null file is closed. A
  write error leaves the file open;
- `direct_write` resizes once and then copies, be it enough or not (`lig_httpd.h` 285): a block
  longer than that runs past the end (`spilled`, after which the program may crash and no property
  speaks of the answer). The character-wise `direct_write` writes one byte past a full buffer
  before it asks for more (295);
- a redirection or a refused JSON request's message is marked ready before the VM is done, and
  marked again (1842, 1861): if the first was sent meanwhile the client gets it twice
  (`SentOnce`, section 4). A page's closing mark (1872) drops what is not yet sent (`VMClose`).

### FastCgi (`MCFastCgi`, `FastCgiProofs`)

`Request_Table`, the pool, the one link with its records, and for each slot the request's
id, link, state and marks. `Accept`, `Read`, `ReadFails`, `Write`, `Close`, `Timeout` are
the branches of `wait_fcgi`; `Parse` has one action for each record and outcome of
`parse_fastcgi`; `ScanHit`, `ScanNext` are the loop over the pool that looks for finished
answers; `VM` has the actions
of `http_poll::begin` and `vm_exec`, with the redirection in mid-script (`VMRedirect`) and the event (`event`: `"none"` on
POSIX, where a broadcast wakes only who waits; `"clear"` or `"set"` on Windows), of which `Init` chooses
the platform. Because of a stray `;` after the `if` at 3544
the link is closed after its first write, whole or not: answers longer than the socket takes
at once are cut, the keep-connection flag has no effect, and every request of a link but the
first finished one is left behind. Their ids stay in the table, where later links meet
them, and their slots fill the pool, until `alloc` throws (`BeginThrows`, after which the
process is gone: hence no deadlock check). The property `OwnAnswers` says that with the
code as it is no link gets another's answer, which hangs on this early closing: the mutant
`WriteKeeps` repairs it and the scan then meets a free slot 0.

### PublicTable, SharedTable (`MCPublicTable`, `PublicTableProofs`)

`GlobalTable` maps a key to type and value; strings are objects of their own (`heap`),
as in the code. A call takes its lock (`TakeLock`, a POSIX rwlock) and goes through its steps
(`FindSlot` to `SetReturns` for `_set`, `LookUp` and `ReadReturns` for the readers, the
time field by field). `GCcond` wakes whoever sleeps when it is sent. `SharedTable` has
one step for each call; the history variables `seen` and `seen_time`, set where the code
unlocks, are what it sees.

### PageScript, PageMeaning (`MCPageScript`, `PageScriptProofs`)

A page and its two templates are written segment by segment, and each segment is compiled
and run as it is written: that is sound because the compiler goes through a page once, and
lets the model explore every page up to `MaxSegs` segments. `Objs` are the compiled
templates, `onTemplate` the cases of a tag inside one (`Plain`, `Express`, `IfHead`, `IfElse`,
`IfEnd`, `Code`, `CodeCall`) and `analysis_csp` those outside. At run time `on` is the `io`
object's switch, the stack of calls is that of `Sq2GetTemplate` and
`Sq2AjaxInnerTemplate` (`Enter`, `EndTemplate`, `LastWrite`), and `pCstrLock` the global that
says who writes text as a JSON string. `ScriptError` leaves everything in the middle, and a
second `Request` follows with the same global. `PageMeaning` is what the table of tags at
`parser.cpp` 200-230 says: text shows when every if around it chose its branch, tags do
not show, and text inside an Ajax call is quoted. The constant `Slack` is the set of things an
author may do beyond what works: `nested` (an if inside an if), `pageElse` (an else outside
a template), `adjacent` (a tag right after another), `recursive` (an Ajax call of a
template from inside itself), `hidden` (a template called in a branch that is not taken),
`retest` (code in a branch changes its condition) and `raw` (code that writes with `io.handle`, which does not
escape, or with `io.ajax*`, which besides does not look at the switch, where an Ajax call is in
progress or an if has hidden the text). With none of them the page shows its
meaning; each of the first four and `raw` has a counterexample (section 4), `hidden` and `retest` break
`HiddenStaysHidden` as well, but no document says that they should work.

The code's habits here: `$@name()` inside a template is ignored, so it is `Plain`;
`getTemplate` may read `pLastStr` before anything set it, and may therefore fail
(a nondeterministic failure); `io.template` passes one argument too few to the template
(2463), whose call always fails, and is left out. The text an error adds to a page is not recorded, nor are the
head and tail that `io.ajaxTemplate` writes around a template (2445, 2458): these are never escaped, also
when the call is nested in another.

### Debugger (`MCDebugger`, proofs in `PageScriptProofs`)

`_state`, `_nestedcalls`, `_breakpoints` and `_ready` are the members of `SQDbgServer`. `Line`,
`EnterCall`, `Return` are `debug_hook` for the VM's three events, with `HookLine`, `HookCall`,
`HookReturn` the columns of `Hook`; `Unwind` is a caught error, which leaves frames without an
event (the VM's own code, external); `Error` is `error_handler`. `Update`, `BreakExecution` and
`WaitReady` are the three places that call `sq_rdbg_update`, which reads one message
(`ParseMsg`). The client sends any command at any time (`wild`, which then also lets
scripts leave frames by caught errors), or resumes only a script that stopped; it may close. `want` records what the last command that counted asked for, as a
depth no greater than which the script is to stop, and `told` the breakpoints the client was
told it has. A name is a sequence of characters, since `dbg_less` compares only as many as
the shorter name has; case and the direction of slashes, which it ignores, are left out.
Watches, texts that `Break` sends along, and the XML are not modelled.

## 4. Runs

| run | bounds | shows |
|---|---|---|
| `web_posix` | 2 clients, 2 slots, keep-alive limit 2, time-out 1 tick, 1 incomplete read, 2 sends | lists, slots, buffers, scripts and answers stay matched with the POSIX condition variable, through insertion, redirections and drops at the limit (9.0 million states) |
| `web_live` | 2 clients, 1 slot, no incomplete read, 1 send, at the limit | with the Windows event every connection ends and the queue is always emptied |
| `mem_pool` | 3 pages of 2 slots | list, exhaustion, walks, and the refinement of `ObjectPool` |
| `session_lives` | 3 keys, lifetime 2, ages to 4 | entries and tables match, no session in use is lost, none expired is revived |
| `lock_live` | 3 threads, 2 readers at a time, 2 rounds each | writers exclude each other, events come back, everyone goes on |
| `bucket_probe` | 4 keys with any homes, 3 locations | searches are right, every loop ends |
| `gdbm_store` | 2 keys of 3 hash bits, buckets of 1, free lists of 3 and 5, 5 updates and deaths | no space has two owners, memory and file agree between calls, the file implements `KVStore` |
| `http_conn` | first buffer 3, files of 0 to 7, writes of 1, 4 or 8 up to 20, 4 after a redirection, requests of every kind | requests are whole, none but a HEAD that found its file is left waiting, the length is told, and the client gets the stream of `AnswerStream` |
| `fastcgi_link` | 2 ids, 2 slots, any number of links | table, pool and queue agree, answers go to their own link, with the Windows event a complete request ends its link |
| `page_shows` | pages of up to 7 segments with 2 templates, 2 requests | without an author's vices a page shows its meaning, and the escape lock is given back |
| `debugger_steps` | 2 files, depth 3, 7 events, 1 message under way, a client that waits or one that does not | a script stops exactly when it was asked to, no step stops in a deeper call, no script hangs on a client that left |
| `table_shared` | 2 threads, 2 keys, 2 texts and a number, 4 calls | strings are owned, calls return, and the table implements `SharedTable` |

Why the bounds are enough. In `WebServer` the interesting cases need a slot that is freed under the VM, or during its insertion, and reused while an old queue entry or the accept thread
still names it, and another connection polled meanwhile: 2 clients in 2 slots have all of
these, since the pool hands out the slot that was freed last. Two connections reach the keep-alive
limit of 2. Ages beyond `TimeOut + 1` behave like
`TimeOut + 1`. The clients are symmetric and `web_posix`, which has no liveness property,
uses that. When the pool is exhausted the code throws in the accept thread; in the model
accept waits. In `MemAlloctor` six slots in three pages give lists that leave and re-enter
pages, holes on both sides of a page border, pages without memory above used ones and
exhaustion. In `SessionManager` three keys allow one session to be new, one on the verge
and one expired. In `RWLock` three threads fill a two-reader queue with a writer waiting.
In `HashBucket` three locations give probe sequences that wrap, holes in the middle of
them and a full table with a key to spare. In `Gdbm` the constants are chosen so that the
second key splits the bucket three times and doubles the directory twice, a huge value needs
blocks of its own, every free list overflows into the next and an avail block is
pushed, all within five updates; the table of five elements is the smallest that
`GdbmAssumption` allows with three in a bucket. `Gdbm_sharing.cfg` checks the same properties with
three keys of which two share a bucket until the third splits it (293 000 states). Popping an avail
block takes a header's table that is filled and used up again, beyond what can be enumerated: it
was only simulated, in random walks of 40 updates and some four million states with other sizes of
blocks and tables, which found `hurt` too narrow and the table of two elements too small, and
nothing since. In `HttpConn` the files lie on, before and
behind each multiple of the buffer; writes of 8 do not fit after one resize, and 20 units pass every resize
up to the limit. In `FastCgi` two slots are enough for a request of an
old link beside one of the new link, and for a full pool. In `PublicTable` two threads give
each pair of calls in every interleaving, and four calls every change of type under a reader.
In `PageScript` seven segments hold an if with an else, text in both branches and a call of a
template that calls another. In `Debugger` seven events are two calls down, up again and lines
between them; the script is longer than that only by repetition.

Deadlock is checked everywhere but in `RWLock` and `PublicTable`, whose threads stop after
their calls, in `FastCgi`, whose process dies when the pool is full, and in `PageScript` and
`Debugger`, where a page and a script come to an end.

Every property of a passing run has a *mutant*, an operator such as `FreeAgain` next to
`free`, which changes the code's definition as a plausible mistake would and makes TLC
find the property violated; mutants are named in the comments beside them.

Type invariants and a few counts (`TypeOK`, `CountIsReaders`, `CountIsUsed`,
`JsonServesValid`, `SweepComplete`) are theorems and no run repeats them;
an `INVARIANT TypeOK` added to a configuration checks it with TLC too.

Counterexample configurations. Eight more configurations are no part of the checks above:
each gives one property that a document, a comment or the code's own wording promises, and
TLC finds it violated (`tlc -config WebServer_lostwakeup.cfg MCWebServer`, the others alike).

| configuration | promise | what happens |
|---|---|---|
| `WebServer_lostwakeup` | a queued script is run (`QueueServed`) | with POSIX threads `_sdl_cond::wait` neither tests the queue nor is the push under its mutex: a broadcast sent while the VM is not waiting is lost. A later request's signal, or a spurious wake-up, serves the queue, so under load the fault hides |
| `RWLock_both` | readers or one writer (`ReadersOrWriter`) | with the Windows events each side waits on the other's event before resetting its own, and both come in |
| `PageScript_nested` | a hidden branch stays hidden (`HiddenStaysHidden`) | every end_if opens the one switch, so the end of an inner if shows the rest of a hidden branch |
| `PageScript_pageelse` | the same | the loop over a page's segments has no case for an else, which outside a template does nothing |
| `PageScript_adjacent` | no tag is written (`NoMarkup`) | a tag that has replaced its segment in the tree is taken for its own child |
| `PageScript_recursive` | Ajax text is quoted (`AjaxEscaped`) | the lock remembers the `io` object, one for each template, so the inner call of the same template gives back the outer one's |
| `Debugger_prefix` | a breakpoint announced is there (`ToldIsSet`) | `dbg_less` is not an order: a file whose name is the beginning of another's equals it |
| `Debugger_go` | a resumed script runs (`ResumedRuns`) | `select` gets no timeout, so the script waits for the client at each line |

Five more promises are refuted by configurations that are there, with one line added or changed:

| line | promise | what happens |
|---|---|---|
| `INVARIANT NeverDropped` in `WebServer_posix` | a ready answer is sent (`NeverDropped`; "the response data is ready and can be sent", comment at `lig_httpd.cpp` 1860) | with `MAX_KEEP_ALIVE` connections listed `conn_finished` overwrites `write_ready` |
| `INVARIANT NoneLost` in `WebServer_posix` | an accepted client is served (`NoneLost`) | the slot is listed before `init`: its last connection's `conn_finished`, or old time stamp, makes the I/O thread close and free it |
| `INVARIANT SentOnce` in `HttpConn_stream` | no unit is sent twice (`SentOnce`) | a redirection's message is sent while the script goes on, and the whole buffer again after the second mark |
| `PROPERTY AnsweredOnPosix` in `FastCgi_link` | a complete request ends its link (`AnsweredOnPosix`) | the lost broadcast again, on the FastCGI queue |
| `Slack = {"raw"}` in `PageScript_recursive` | Ajax text is quoted (`AjaxEscaped`) | `io.handle` writes without asking `pCstrLock` (2129), and so do parts of `io.ajax*` (2245-2428) |

Deviations met while modelling that have no configuration of their own: an LF head that is seen two
bytes late and a HEAD that waits for its time-out (`lig_httpd.cpp` 1169, 931); writes past the
end of the buffer (`lig_httpd.h` 285, 295); session pages look for the session's table only and so run in expired
sessions (1566, against the comment at `lig_httpd.h` 963); `begin()` of the pool's walk
stands on slot 0 used or not (`sdl_memory.h` 466 against 411); `destroy` on a pool
with a hole never clears it (357 against 346), and nothing in the repository calls it;
`wait_read_queue` looks at `read_que` without the mutex, so more than `Max_Read_Threads`
readers may come in; because the last read of a request does not renew `time_stamp`,
the time-out also closes connections that wait for the VM (`overrun` in `WebServer`
records it). Those of `Gdbm`, `HttpConn` and `FastCgi` are listed with the modules above. `sq_rdbg_waitforconnections` ignores the
failure of `sq_rdbg_update`: when the client leaves before it is ready the loop never ends
(`sqrdbg.cpp` 93), and `EndsWithoutClient` speaks of the time after.

## 5. Fairness

`WebServer!FairSpec` has weak fairness of the I/O thread, of the VM thread, of the
accept thread inside `insert_request` and of the clock: the operating system schedules threads, no step of theirs is a blocking one except
the wait for the condition variable (whose fairness the event, when set, justifies), and the
accept loop's `select` returns after five seconds at most. Spurious wake-ups, clients
connecting, and what `recv` and `send` return are not assumed. `RWLock!LockFairSpec` has weak
fairness for each thread's way into and out of the lock once it began: a signalled
manual-reset event stays signalled until a waiter runs, or is reset, and `Rounds` bounds how
often others can reset it. Asking for the lock is not assumed, nor is coming past
`wait_read_queue`, which polls.

`HashBucket!FairSpec` has weak fairness of the turns of a loop: one thread runs it.
`FastCgi!FairSpec` has weak fairness of the I/O thread's own steps (write, time-out, parse,
scan) and of the VM thread; the web server's records are not assumed. The VM's fairness is that of
a thread: it runs when it is not blocked, and blocks in `VMWait` until the event is set, or, on POSIX, until a
broadcast finds it waiting or it wakes up by itself, which is not assumed. So `Answered` is stated for
Windows only; for POSIX `AnsweredOnPosix` is refuted (section 4). `PublicTable!FairSpec` has weak fairness for each
thread once it made a call; `MaxCalls` bounds the calls, so nobody is kept out of a lock
for ever, and a thread that waits for a signal is promised nothing. `Debugger!DbgFairSpec` has
weak fairness of the script's thread, which runs unless it waits in `select`; `MaxEvents` is
the length of the script, and the client is not assumed to send anything.

## 6. Proofs

All proofs are for arbitrary constants satisfying the named `ASSUME`s: positive sizes and
bounds (`ConstantsAssumption`, `PoolAssumption`, `SessionAssumption`), a finite set of
threads (`LockAssumption`), finitely many keys and a table
of at least one location (`KeysAssumption`, `ElemsAssumption`), file tables with the room that
section 3 explains (`GdbmAssumption`), sizes and lengths that fit
together, with room for a buffer to grow once (`SizeAssumption`, `RequestAssumption`), and values that differ from the marks for
none (`TableAssumption`).

| theorem | statement | argument |
|---|---|---|
| `WebServerProofs!TypeCorrect` | `TypeOK` | `TypeInv`: polled and queued slots have sockets, and the queue is not empty while the VM is inside `vm_exec` |
| `PoolStaysSound` | `PoolSound`: the lists always, that every client in service is polled until `torn` | erasing and freeing, appending and allocating are paired, whatever `insert_request` has still to do to the slot; a slot still to be initialised belongs to its new client (`Owner`) |
| `RunsOnce` | `ScriptRunsOnce` | `OnceInv`: a socket is in one slot, counting freed ones, and a slot still to be read or run belongs to a client whose script has not run. Needed because stale queue entries may name any slot. As everything below it is said until `torn` |
| `AnswersReachTheirAskers`, `ScriptHasItsBuffer` | `OwnAnswer`, `BufferIsTheScripts` | `OwnInv`: until a slot is freed under the VM, unfinished entries name polled slots, the running script's slot is its asker's, and `read_finished` until it redirects, and buffers hold their owner's answers |
| `AnswersDoArrive` | `AnswersArrive` | a buffer marked ready holds its connection's answer, and so does one the VM is about to mark a second time, unless the slot has passed to another client |
| `NoneDroppedUntold` | `DroppedOnlyAtCap`, for every limit and pool | `DropInv`: a connection marked finished was answered, failed, or its head told it to close, and the VM closes only the connection whose head it wrote |
| `OverrunsAreLateOrSent` | `OverrunOnlyLateOrSent` | `PendingFresh`: unfinished entries name different connections that are `read_finished`, but for the first after its script has redirected |
| `MemAlloctorProofs!ListStaysSound`, `NoSlotIsLost`, `WalksMissNothing` | `ListOK`, `ExhaustedWhenFull`, `WalkReachesAll` | `PoolInv`: the list is injective, avoids used slots and has the identity link beyond `LastHandle`; *reachability* is said without recursion (`Chain`: a set of free slots closed under the list holds all of them), and the interval induction it needs is derived from the finite-injection theorem of the library |
| `PoolIsImplemented` | `PoolSpec`, the refinement | each method maps to `Make`, `Drop`, `DropAll` or a stutter |
| `MemAlloctorProofs!TablesStayMatched`, `SessionsInUseStay`, `JsonChecksValidity`, `SweepsAreComplete`, `ExpiredStaysExpired` | the session properties, and that no JSON function runs in an expired session and making one leaves none expired | `AgeOK`: an entry is never older than the time since its last use |
| `PublicTableProofs!WritersExclude`, `CountIsRight`, `EventsAlwaysComeBack` | `OneWriter`, `CountIsReaders`, `EventsComeBack` of `RWLock` | the writers' mutex is owned by exactly the thread between `get_write_token` and `release_write_token`; the count is the cardinality of the readers |
| `HashBucketProofs!SearchesAreRight`, `CountStaysRight` | `FindIsRight`, `CountIsUsed` | `BucketStaysSound`: from the home of an element to its place, around the end of the table, there is no hole but the one a deletion is filling; each turn of each loop keeps it |
| `GdbmProofs!FileAndMemorySound`, `SpaceIsSound` | `GdbmInv`, `SpaceSound` | see below |
| `MemoryIsTheFile`, `UpdatesLast` | `~hurt => CacheCoherent`; `KVStore`'s `Fetch`, `Return`, `Die` and `Forget`, which leave the file as it is | from `GdbmInv`: between calls the file is a whole layout, of which the cache holds parts; an update in progress has its record on the disk and its key in the one bucket the directory leads to (`Effect`), and no later write touches a record |
| `AllocMoves`, `FreeMoves`, `SplitRoomy`, `DeathLeaves` | what `_gdbm_alloc`, `_gdbm_free`, `_gdbm_split_bucket` and a death leave | the steps of that argument that say most by themselves |
| `HttpConnProofs!RequestsAreWhole`, `NobodyIsLeftWaiting` | `RequestWhole`, `NoneLeftWaiting` | `ReadsStayInOrder`: a connection still being read has not got all it waits for, and its buffer has room |
| `AnswersStream` | `Implements`, the refinement | `StreamInv` bounds `buf_start`; what `send` takes and the rest of buffer and file are always the same answer (`CutRest`, `UnitsSplit`), so each write is a `Send` of `AnswerStream` and everything before is its `Make`; a write under a VM that is not done, or past the end, is its `Expose` |
| `LengthIsTold` | `LengthTold` | `ToldInv`: while the script runs the buffer holds all it wrote unless it met its limit, ran past the end or was redirected, and the number's place is still blank |
| `FastCgiProofs!TableAlwaysSound`, `QueueAlwaysSound`, `AnswersAreOwn` | `TableSound`, `QueueSound`, `OwnAnswers` | `FastCgiSafe`: an entry of the table leads to the used slot with that id, of whatever link; a link that still reads has written nothing; an entry of the queue is used and complete until a second mark goes astray, or a slot is given out that a redirected script still writes to (`stray`) |
| `PublicTableProofs!StringsAlwaysOwned`, `TableShared` | `StringsOwned`, `Implements` | `TableSafe`: a writer is alone under its lock, so a half-done `_set` is seen by nobody; each unlocking step maps to a step of `SharedTable`, the others to none |
| `PageScriptProofs!LockAlwaysReleased` | `LockReleased`, for any `Slack` | `LockInv`: whoever holds the lock is the caller of an Ajax call in progress, so the end of the last call gives it back |
| `AlwaysEscaped` | with neither `recursive` nor `raw` in `Slack`, `AjaxEscaped`: each text and value written while an Ajax call was in progress was escaped | `HeldByFirst`: with no template called while it runs, the holder is the caller of the first Ajax call, and no later call is its; without `raw` all that is written then asks the lock |
| `PageShowsItsMeaning` | `Slack = {}` implies `ShowsItsMeaning`, the refinement | `CleanInv`: each call on the stack has at most one if open, its switch says what that if chose, and until an else its value is the condition's (`FrameOK`); so the switch of the top is what `PageMeaning` computes from the whole stack. First and last elements of a sequence are picked by least counterexample (`Least`, `Greatest`), which needs no induction over data |
| `NeverTooDeepEver` | `NeverTooDeep` | `AskInv`: in each state of the debugger `want` is what that state was asked for, and after a step over or out the script is no deeper than the depth asked for and the calls counted since |
| `StopsExactlyWhereAsked` | no name begins another implies `StopsWhereAsked` | `StopInv`: without caught errors the count is exact (`Precise`), and it is zero whenever a command resumes the script because a client that waits has nothing but one command, or a detachment and the go that ends it, under way (`Calm`, `Asked`); `ToldInv`: the breakpoints told are those set |

The hypotheses are those the code needs: `Slack` is the set of an author's vices, each of which
has a counterexample configuration that breaks the same property; two file names that are
the same to `dbg_less` are refuted by `Debugger_prefix`. `wild` is inside the property itself.

`GdbmInv`, and why it is needed. `SpaceSound` speaks of the file between updates and says nothing
of what an update under way holds. So the invariant has three parts, each for some functions
and layouts that the code does not store:

- `own` gives each unit of the file one owner: header, directory, a bucket, a record, the table
  of the header, of a bucket or of a block on the stack, an avail block, an old directory, a
  region held for use, or the end of the file. Free space is then sound when each table's
  elements are the units that it owns (`FreeOK`), and that two regions meet nowhere is the same
  as that each has a tag of its own. `_gdbm_alloc` and `_gdbm_free`, with pushes, pops and moves
  between tables, only change tags of free units (`Moves`).
- `B` gives for each address the bucket as it will be. The directory leads to each by the bits
  it uses (`DirOK`), the cache and the disk have it unless it is marked as changed (`Mem`). A call
  is in the middle of its changes (`Busy`), has its record to write (`Stored`), or the marked
  parts (`Commit`), or nothing (`Clean`).
- `o` is the layout that the file had. Until the bucket is written (or the directory, if
  no header follows: `Early`) it is whole in the file, since what is written lies in what was
  free, held or a record then (`NewSafe`, `Link`); from then on the new one is what the remaining
  writes complete. After a pop the file's header may name space that is written to, so all of
  this is said of `~m.popped`, which is what `hurt` remembers of a death.

The loop of a split ends because its turns are bounded by the hash bits: a bucket whose
keys agree in all of them is not full (`GdbmAssumption`). TLC cannot evaluate `GdbmInv`, which
quantifies over functions on `Nat`; it checks `SpaceSound`, `CacheCoherent` and `Implements`, its
consequences and more, on the small files of section 4. `GdbmAssumption` asks besides, for the
proofs, that the model value for what is torn is not the mark that directories begin with.

Only model-checked: the liveness properties (`ConnectionsEnd`, `QueueServed`,
`EveryoneGoesOn`, `LoopsEnd`, `Answered`, `CallsReturn`, `EndsWithoutClient`), since liveness
under fairness is beyond the prover; of `Gdbm`, `CacheCoherent` of a file that a death has hurt, and
of `Implements` the steps that write: while a call writes, a reader of the file may for some
sizes find a directory overwritten (section 3), so the refinement is no theorem for them all.
The counterexample configurations are TLC's alone. What a recursive definition computes is
proved nowhere: the proofs need least elements and finite sets only.

## 7. Not modelled, and why

Parts without a module are listed in PROJECT.json with their reasons. Of the modelled
parts: header syntax and MIME types; what `pHeader` points to after a second growth of `inBuf`
(1249); torn `std::list` links and the pool's
unlocked `alloc` and `free`, each of which is one step; descriptor numbers, which the system gives out again:
here a socket is one client's for good; what a write past the end of `outBuf` overwrites, the
escaping (`write_cstr`) and `printf` writers, a second redirection of one script; the head and tail of
`io.ajaxTemplate`; record types `parse_fastcgi` does not handle, with which the I/O thread loops
for ever (1058), and ids beyond `Request_Table` (12); in `FastCgi` no script redirects or fails once a mark has gone
astray; `gdbm_firstkey`, `gdbm_nextkey`,
`gdbm_setopt`, `gdbm_reorganize`, which nothing calls, and death while a file is created;
`FD_SETSIZE` and what the system calls do beyond their results; a script that never
returns; start-up and shutdown (`GlobalExitFlag`). The store's values, names and pages are
model values or lengths throughout.
