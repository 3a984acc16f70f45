--------------------------- MODULE SessionManager ---------------------------
(***************************************************************************)
(* session_manager (src/LigSP/LigCommon/lig_httpd.cpp) and the requests    *)
(* that go through it.  A session is an entry of session_database with its *)
(* time stamp, and a table of the same key in the script VM's registry.    *)
(* Everything here runs on the VM thread, one request at a time; the clock *)
(* is advanced by the accept thread.                                       *)
(*                                                                         *)
(* Only how long ago a stamp was set matters, so the model keeps that age  *)
(* instead of the clock, up to MaxAge.  A key is an MD5 of a counter and a *)
(* random number, tried again until it is new: here, any key that is not   *)
(* in the database.  Bounds: Keys, MaxAge.                                 *)
(***************************************************************************)
EXTENDS Integers

CONSTANTS
    Keys,                        \* the session keys
    value_of_MAX_SESSION_ALIVE,  \* a session is valid until it is older than this
    MaxAge,                      \* ages are counted up to here
    AutoLogin                    \* AUTO_LOGIN_URI is not empty

ASSUME SessionAssumption ==
    /\ value_of_MAX_SESSION_ALIVE \in Nat
    /\ MaxAge \in Nat /\ MaxAge > value_of_MAX_SESSION_ALIVE
    /\ AutoLogin \in BOOLEAN

VARIABLES
    session_database,  \* the keys of the stored sessions
    age,               \* global_polling_clock - time_stamp, of each key
    tables,            \* the keys that have a session table in the registry
    answer,            \* what the last request got: a page with a session's table, or not
    \* history
    quiet,             \* ticks since it was made or last used by a JSON request
    dropped            \* the keys delete_session was called for since they were made

sessionVars == <<session_database, age, tables, answer, quiet, dropped>>

Nothing == [kind |-> "none", valid |-> TRUE]

(* A page or a JSON function that ran with a session's table; redirects    *)
(* and calls with null for a session are Nothing.                          *)
Answers == {Nothing} \union [kind : {"page", "json"}, valid : BOOLEAN]

SessionInit ==
    /\ session_database = {}
    /\ age = [k \in Keys |-> 0]
    /\ tables = {}
    /\ answer = Nothing
    /\ quiet = [k \in Keys |-> MaxAge]
    /\ dropped = {}

Older(a) == IF a < MaxAge THEN a + 1 ELSE a

(* The accept thread sets global_polling_clock.                            *)
Tick ==
    /\ age' = [k \in Keys |-> Older(age[k])]
    /\ quiet' = [k \in Keys |-> Older(quiet[k])]
    /\ answer' = Nothing
    /\ UNCHANGED <<session_database, tables, dropped>>

-----------------------------------------------------------------------------
(* time_span > value_of_MAX_SESSION_ALIVE.                                 *)
Expired(k) == age[k] > value_of_MAX_SESSION_ALIVE

(* The sessions that create_session's sweep removes; the new one has its   *)
(* stamp by then.  (Mutant: it takes those about to expire too.)           *)
SweptEarly(new) == {k \in session_database \ {new} : age[k] >= value_of_MAX_SESSION_ALIVE}
Swept(new) == {k \in session_database \ {new} : Expired(k)}

(* A session's time_stamp becomes the clock.                               *)
Stamped(k) == [age EXCEPT ![k] = 0]

(* create_session: a new key, its table, its stamp, and then the sweep.    *)
create_session(new) ==
    /\ new \notin session_database
    /\ session_database' = (session_database \union {new}) \ Swept(new)
    /\ tables' = (tables \union {new}) \ Swept(new)
    /\ age' = Stamped(new)
    /\ quiet' = [quiet EXCEPT ![new] = 0]
    /\ dropped' = dropped \ {new}

(* get_session stamps the session, and removes it if it had expired.       *)
(* (Mutant: it only says so.)                                              *)
GetLeaves(k) ==
    /\ age' = IF k \in session_database THEN Stamped(k) ELSE age
    /\ UNCHANGED <<session_database, tables>>
get_session(k) ==
    /\ IF k \in session_database /\ Expired(k)
       THEN session_database' = session_database \ {k} /\ tables' = tables \ {k}
       ELSE UNCHANGED <<session_database, tables>>
    /\ age' = IF k \in session_database THEN Stamped(k) ELSE age

(* delete_session; nothing in the server calls it.  (Mutant: the table     *)
(* stays.)                                                                 *)
DeleteEntryOnly(k) ==
    /\ k \in session_database
    /\ session_database' = session_database \ {k}
    /\ dropped' = dropped \union {k}
    /\ answer' = Nothing
    /\ UNCHANGED <<age, tables, quiet>>
delete_session(k) ==
    /\ k \in session_database
    /\ session_database' = session_database \ {k}
    /\ tables' = tables \ {k}
    /\ dropped' = dropped \union {k}
    /\ answer' = Nothing
    /\ UNCHANGED <<age, quiet>>

-----------------------------------------------------------------------------
(* A request for a session page, or a session function, with the key of a  *)
(* session: push_session_table looks for the table and for nothing else.   *)
(* A key without a table is redirected.                                    *)
SessionPage(k) ==
    /\ answer' = IF k \in tables THEN [kind |-> "page", valid |-> ~Expired(k)] ELSE Nothing
    /\ UNCHANGED <<session_database, age, tables, quiet, dropped>>

(* Without a key it gets a session, unless there is a page to log in at.   *)
FirstPage(new) ==
    /\ ~AutoLogin
    /\ create_session(new)
    /\ answer' = [kind |-> "page", valid |-> TRUE]

(* A script calls createSession.                                           *)
Sq2CreateSession(new) ==
    /\ create_session(new)
    /\ answer' = Nothing

(* A JSON request: get_session, then the table, or null when it is gone.   *)
json_callback(k) ==
    /\ get_session(k)
    /\ answer' = IF k \in tables' THEN [kind |-> "json", valid |-> ~Expired(k)] ELSE Nothing
    /\ quiet' = IF k \in tables' THEN [quiet EXCEPT ![k] = 0] ELSE quiet
    /\ UNCHANGED dropped

SessionNext ==
    \/ Tick
    \/ \E k \in Keys :
        \/ SessionPage(k)
        \/ FirstPage(k)
        \/ Sq2CreateSession(k)
        \/ json_callback(k)
        \/ delete_session(k)

SessionSpec == SessionInit /\ [][SessionNext]_sessionVars

-----------------------------------------------------------------------------
SessionTypeOK ==
    /\ session_database \subseteq Keys
    /\ age \in [Keys -> 0 .. MaxAge]
    /\ tables \subseteq Keys
    /\ answer \in Answers
    /\ quiet \in [Keys -> 0 .. MaxAge]
    /\ dropped \subseteq Keys

(* The registry holds a table for each stored session and for no other:    *)
(* the two are changed by separate calls, and pages look only at one of    *)
(* them.                                                                   *)
TablesMatch == tables = session_database

(* A session that a JSON request used, or that was made, no longer than    *)
(* MAX_SESSION_ALIVE ago still has its table, whatever other sessions were *)
(* made and swept since, unless it was deleted.                            *)
PromiseKept ==
    \A k \in Keys :
        k \in dropped \/ quiet[k] > value_of_MAX_SESSION_ALIVE \/ k \in tables

(* A JSON function never runs with the table of a session that had expired *)
(* when the request came.                                                  *)
JsonServesValid == answer.kind = "json" => answer.valid

(* "Prevent dead sessions from staying in memory": when a session is made, *)
(* no expired one is left.                                                 *)
SweepComplete ==
    [][\A new \in session_database' \ session_database :
         \A k \in session_database' : age'[k] <= value_of_MAX_SESSION_ALIVE]_sessionVars

(* A session that has expired is never given a fresh stamp: it grows older *)
(* until it is removed.                                                    *)
NeverRevived ==
    [][\A k \in session_database :
         Expired(k) /\ k \in session_database' => age'[k] >= age[k]]_sessionVars

(* The inductive invariant: a stored session is never older than the time  *)
(* since it was last used.                                                 *)
AgeOK == \A k \in session_database : age[k] <= quiet[k]
=============================================================================
