------------------------------ MODULE Debugger ------------------------------
(***************************************************************************)
(* The remote debugger: SQDbgServer (sqdbgserver.cpp) between the Squirrel *)
(* VM, which calls debug_hook for every line, call and return and          *)
(* error_handler for an error nothing catches (sqrdbg.cpp), and a client   *)
(* at the other end of a socket.  It is built for Windows only             *)
(* (debug_script, ScriptSupport.cpp:2832) and always with autoupdate.      *)
(*                                                                         *)
(* The script is any sequence of lines, calls and returns.  Break tells    *)
(* the client where the script is; BreakExecution then keeps the script    *)
(* inside the hook until a message changes the state.  Whatever the state, *)
(* debug_hook ends with sq_rdbg_update, which waits for one more message.  *)
(***************************************************************************)
EXTENDS Naturals, Sequences, FiniteSets

CONSTANTS
    Sources,        \* names of source files, as sequences of characters
    Lines,          \* line numbers
    MaxCalls,       \* bound on the call depth
    MaxEvents,      \* bound on the events of the script
    MaxInbox        \* bound on the messages under way

Places == [line : Lines, src : Sources]

\* dbg_less stops at the end of the shorter name: two names are the same to it
\* when one begins with the other.
SameName(s, t) == \A i \in DOMAIN s \cap DOMAIN t : s[i] = t[i]
SamePlace(p, q) == p.line = q.line /\ SameName(p.src, q.src)

\* std::set needs "the same" to be an equivalence; with names for which it is
\* not, what the set does is undefined.
ASSUME NamesAssumption ==
    /\ \A s \in Sources : s # <<>>
    /\ \A s, t, u \in Sources : SameName(s, t) /\ SameName(t, u) => SameName(s, u)

VARIABLES
    phase,          \* where the script's thread is
    _state,         \* eDbgState
    _nestedcalls,
    _breakpoints,
    _ready,
    depth,          \* calls the script is in
    events,         \* events of the script so far
    inbox,          \* messages the client has sent and nobody has read
    gone,           \* the client has closed the connection
    view,           \* what the client knows of the script
    wild,           \* the client does not wait for the script to stop before it
                    \* resumes it, and the script catches errors
    want,           \* history: what the last message that counted asked for
    told            \* history: breakpoints the client was told it has

script == <<phase, depth, events>>
server == <<_state, _nestedcalls, _breakpoints, _ready>>
client == <<inbox, gone, view, wild>>
history == <<want, told>>
dbgVars == <<script, server, client, history>>

\* eDbgState.
States == {"Running", "StepOver", "StepInto", "StepReturn", "Suspended", "Disabled"}

Commands == {"go", "sp", "so", "si", "sr", "di", "rd"}
Messages == [cmd : Commands] \cup [cmd : {"ab", "rb"}, bp : Places]

(***************************************************************************)
(* What was asked for, as where the next line to stop at is: "always",     *)
(* "never", at a breakpoint, or at a depth no greater than one, which      *)
(* comes down with the script.                                             *)
(***************************************************************************)
At(n) == [stop |-> "depth", depth |-> n]
Always == [stop |-> "always"]
AtBreakpoint == [stop |-> "breakpoint"]
Never == [stop |-> "never"]

Due(place) ==
    CASE want.stop = "always" -> TRUE
      [] want.stop = "never" -> FALSE
      [] want.stop = "breakpoint" -> place \in told
      [] want.stop = "depth" -> depth <= want.depth

Lowered(w, d) == IF w.stop = "depth" /\ d < w.depth THEN At(d) ELSE w
-----------------------------------------------------------------------------
(***************************************************************************)
(* SQDbgServer::ParseMsg.                                                  *)
(***************************************************************************)
Found(bp) == {q \in _breakpoints : SamePlace(bp, q)}

\* AddBreakpoint inserts into the set and tells the client that it did.
AddBreakpoint(bp) ==
    /\ _breakpoints' = IF Found(bp) = {} THEN _breakpoints \cup {bp} ELSE _breakpoints
    /\ told' = told \cup {bp}

RemoveBreakpoint(bp) ==
    /\ _breakpoints' = _breakpoints \ Found(bp)
    /\ told' = IF Found(bp) = {} THEN told ELSE told \ {bp}

\* The step commands count only in the suspended state.
Resume(state, asked) ==
    IF _state = "Suspended" THEN _state' = state /\ want' = asked
                            ELSE UNCHANGED <<_state, want>>

ParseMsg(msg) ==
    /\ CASE msg.cmd = "go" -> _state' = "Running" /\ want' = AtBreakpoint
         [] msg.cmd = "sp" ->
                /\ _state' = "Suspended"
                /\ want' = IF _state = "Suspended" THEN want ELSE Always
         [] msg.cmd = "so" -> Resume("StepOver", At(depth))
         [] msg.cmd = "si" -> Resume("StepInto", Always)
         [] msg.cmd = "sr" -> Resume("StepReturn", At(depth - 1))
         [] msg.cmd = "di" -> _state' = "Disabled" /\ want' = Never
         [] OTHER -> UNCHANGED <<_state, want>>
    /\ _ready' = (_ready \/ msg.cmd = "rd")
    /\ CASE msg.cmd = "ab" -> AddBreakpoint(msg.bp)
         [] msg.cmd = "rb" -> RemoveBreakpoint(msg.bp)
         [] OTHER -> UNCHANGED <<_breakpoints, told>>

\* sq_rdbg_update when there is a message to read.
ReadMessage ==
    /\ inbox # <<>>
    /\ ParseMsg(Head(inbox))
    /\ inbox' = Tail(inbox)
    /\ UNCHANGED <<depth, events, _nestedcalls, gone, view, wild>>

\* sq_rdbg_update when the client has closed the connection: it fails.
Disconnected == inbox = <<>> /\ gone
-----------------------------------------------------------------------------
(***************************************************************************)
(* SQDbgServer::Hook.  Break sends the place to the client, and            *)
(* BreakExecution takes the state to suspended.                            *)
(***************************************************************************)
BreakHere ==
    /\ _state' = "Suspended"
    /\ phase' = "break"
    /\ view' = "stopped"

HookLine(place) ==
    LET stops == \/ _state = "Running" /\ Found(place) # {}
                 \/ _state \in {"Suspended", "StepInto"}
                 \/ _state = "StepOver" /\ _nestedcalls = 0
    IN /\ IF stops THEN BreakHere ELSE phase' = "update" /\ UNCHANGED <<_state, view>>
       /\ _nestedcalls' = IF _state \in {"Suspended", "StepInto"} THEN 0 ELSE _nestedcalls

\* A suspended state outside BreakExecution forgets the calls counted so far.
Nested == IF _state = "Suspended" THEN 0 ELSE _nestedcalls

\* Mutant: the calls are not counted.
HookCallUncounted == _nestedcalls' = Nested

HookCall ==
    _nestedcalls' = IF _state \in {"StepOver", "StepReturn", "Suspended"}
                    THEN Nested + 1 ELSE _nestedcalls

\* Mutant: a step out goes on stepping out of every function.
HookReturnOn ==
    /\ _nestedcalls' = IF Nested = 0 THEN 0 ELSE Nested - 1
    /\ UNCHANGED _state

HookReturn ==
    IF _state \in {"StepOver", "StepReturn", "Suspended"}
    THEN /\ _nestedcalls' = IF Nested = 0 THEN 0 ELSE Nested - 1
         /\ _state' = IF _state = "StepReturn" /\ Nested = 0 THEN "StepOver" ELSE _state
    ELSE UNCHANGED <<_nestedcalls, _state>>

-----------------------------------------------------------------------------
(***************************************************************************)
(* The script.                                                             *)
(***************************************************************************)
Event == phase = "run" /\ depth > 0 /\ events < MaxEvents /\ events' = events + 1

Line ==
    /\ Event
    /\ \E place \in Places : HookLine(place)
    /\ UNCHANGED <<_breakpoints, _ready, depth, inbox, gone, wild, history>>

EnterCall ==
    /\ Event /\ depth < MaxCalls
    /\ HookCall
    /\ depth' = depth + 1
    /\ phase' = "update"
    /\ UNCHANGED <<_state, _breakpoints, _ready, client, history>>

Return ==
    /\ phase = "run" /\ depth > 0
    /\ HookReturn
    /\ depth' = depth - 1
    /\ want' = Lowered(want, depth - 1)
    /\ phase' = "update"
    /\ UNCHANGED <<events, _breakpoints, _ready, client, told>>

\* A caught error leaves frames without calling the hook.
Unwind ==
    /\ wild /\ Event
    /\ \E d \in 1 .. depth - 1 : depth' = d /\ want' = Lowered(want, d)
    /\ UNCHANGED <<phase, server, client, told>>

\* An error nothing catches: error_handler stops the script where it is, and
\* when it returns the VM leaves every frame.
Error ==
    /\ Event
    /\ BreakHere
    /\ depth' = 0
    /\ UNCHANGED <<_nestedcalls, _breakpoints, _ready, inbox, gone, wild, history>>

\* sq_rdbg_update at the end of debug_hook: its failure is an error of the hook,
\* which the VM does not look at.
Update ==
    /\ phase = "update"
    /\ phase' = "run"
    /\ \/ ReadMessage
       \/ Disconnected /\ UNCHANGED <<depth, events, server, client, history>>

\* The loop of BreakExecution.  After an error it is error_handler that returns.
BreakExecution ==
    /\ phase = "break"
    /\ ReadMessage
    /\ phase' = IF _state' = "Suspended" THEN "break" ELSE IF depth = 0 THEN "run" ELSE "update"

\* Mutant: the loop does not look at what update returns.
BreakGoesOn == phase = "break" /\ Disconnected /\ UNCHANGED dbgVars

BreakFails ==
    /\ phase = "break"
    /\ Disconnected
    /\ phase' = "exit"
    /\ UNCHANGED <<depth, events, server, client, history>>

\* sq_rdbg_waitforconnections, with a client connected.  A failure of update is
\* not looked at: with the client gone this goes on for ever.
WaitReady ==
    /\ phase = "waiting"
    /\ ReadMessage
    /\ phase' = IF _ready' THEN "run" ELSE "waiting"

Finish ==
    /\ phase = "run" /\ depth = 0
    /\ phase' = "done"
    /\ UNCHANGED <<depth, events, server, client, history>>

Script ==
    \/ Line \/ EnterCall \/ Return \/ Unwind \/ Error
    \/ Update \/ BreakExecution \/ BreakFails \/ WaitReady \/ Finish
-----------------------------------------------------------------------------
(***************************************************************************)
(* The client.                                                             *)
(***************************************************************************)
Resuming == {"go", "so", "si", "sr", "di"}

Send ==
    /\ ~gone
    /\ Len(inbox) < MaxInbox
    /\ \E msg \in Messages :
           /\ ~wild /\ msg.cmd \in Resuming =>
                  view = "stopped" \/ (view = "off" /\ msg.cmd = "go")
           /\ inbox' = Append(inbox, msg)
           /\ view' = CASE msg.cmd = "di" -> "off"
                        [] msg.cmd \in Resuming \ {"di"} -> "running"
                        [] msg.cmd = "sp" -> IF view = "off" THEN "running" ELSE view
                        [] OTHER -> view
    /\ UNCHANGED <<script, server, gone, wild, history>>

Close ==
    /\ ~gone
    /\ gone' = TRUE
    /\ UNCHANGED <<script, server, inbox, view, wild, history>>

DbgInit ==
    /\ phase = "waiting" /\ depth = 1 /\ events = 0
    /\ _state = "Running" /\ _nestedcalls = 0 /\ _breakpoints = {} /\ _ready = FALSE
    /\ inbox = <<>> /\ gone = FALSE /\ view = "running"
    /\ wild \in BOOLEAN
    /\ want = AtBreakpoint /\ told = {}

DbgNext == Script \/ Send \/ Close

DbgSpec == DbgInit /\ [][DbgNext]_dbgVars

\* The script's thread runs when it can, and MaxEvents is the script's length;
\* the client need not do anything.
DbgFairSpec == DbgSpec /\ WF_dbgVars(Script)
-----------------------------------------------------------------------------
DbgTypeOK ==
    /\ phase \in {"waiting", "run", "update", "break", "done", "exit"}
    /\ _state \in States
    /\ _nestedcalls \in Nat
    /\ _breakpoints \subseteq Places /\ told \subseteq Places
    /\ depth \in 0 .. MaxCalls

\* Whatever the client sends and however the script leaves its frames, a step
\* over or out never stops inside a call made after it was asked for: the calls
\* counted are at least those entered.
NeverTooDeep ==
    [][phase = "run" /\ phase' = "break" /\ depth' # 0 /\ want.stop = "depth"
           => depth <= want.depth]_dbgVars

\* A script that leaves frames only by returning, and a client that waits for
\* the script to stop before it steps: the script stops at a line exactly when
\* it is due by what the client last asked for.
StopsWhereAsked ==
    [][\A place \in Places :
           ~wild /\ phase = "run" /\ HookLine(place) /\ depth' = depth /\ events' = events + 1
               => (phase' = "break" <=> Due(place))]_dbgVars

\* A script past waiting for its client does not hang when the client leaves.
EndsWithoutClient ==
    (gone /\ phase # "waiting") ~> phase \in {"done", "exit"}

\* ParseMsg tells the client "added bp" and sends <addbreakpoint>: it is there.
ToldIsSet == told \subseteq _breakpoints

\* ParseMsg answers "go" with "go (execution resumed)": with no breakpoint left
\* and no message coming, the script runs to its end.
ResumedRuns ==
    <>[](phase # "waiting" /\ _state = "Running" /\ _breakpoints = {}) => <>(phase = "done")
=============================================================================
