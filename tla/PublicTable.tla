---------------------------- MODULE PublicTable ----------------------------
(***************************************************************************)
(* PublicAgency: the table, the time and the signal that the scripts of    *)
(* all VMs, each in a thread of its own, share as the class Public.  The   *)
(* table maps a key to a small object; a string lives in an object of its  *)
(* own, which the table's object points to and which the code creates and  *)
(* deletes by hand.  A thread in a critical section takes one step at a    *)
(* time; the locks are pthread_rwlock_t, that is, several readers or one   *)
(* writer (the locks of the Windows build are RWLock's).                   *)
(*                                                                         *)
(* A string object is deleted and created with its text; assigning a text  *)
(* to one that is there is one step.  The three fields of the time are     *)
(* copied one by one: two stand for them.                                  *)
(***************************************************************************)
EXTENDS Naturals

CONSTANTS
  Threads,      \* threads that run a VM
  Keys,         \* keys scripts use
  Numbers,      \* values kept in the object itself: integers, floats, bools, pointers
  Texts,        \* values kept in a string object
  Times,        \* the global times scripts set
  Strs,         \* bound: string objects that can be live at once
  MaxCalls,     \* bound: calls made by all threads
  Missing, Nil, \* no key; the pointer of no string, and no answer yet
  Cmp(_, _)     \* the sign of stored value against given value, or Missing for different types

ASSUME TableAssumption ==
  /\ MaxCalls \in Nat
  /\ Numbers \cap Texts = {}
  /\ Missing \notin Numbers \cup Texts
  /\ Strs \cap Numbers = {} /\ Nil \notin Strs

Values == Numbers \cup Texts

\* A call: what it does and to what.
Calls ==
  [op : {"set", "cmp"}, k : Keys, v : Values]
  \cup [op : {"get", "is_in"}, k : Keys]
  \cup [op : {"set_time"}, x : Times]
  \cup [op : {"get_time", "wait", "activ"}]

Idle == [op |-> "idle"]

VARIABLES
  GlobalTable,  \* the keys there are, each with [type, val]: type "number" and the
                \* value, or "string" and the pointer to a string object
  heap,         \* the live string objects and their text
  global_time,  \* the fields of _the_global_time_here
  call,         \* the call of each thread, or Idle
  pc,           \* where it is in the call
  copied,       \* the field of the time it has copied
  result,       \* what its last call put on the script's stack, Nil while it runs
  calls,        \* how many calls were made
  seen,         \* history: the table as it was when no writer was in
  seen_time     \* history: the time as it was when no writer was in

shared == <<GlobalTable, heap, global_time>>
vars == <<shared, call, pc, copied, result, calls, seen, seen_time>>

\* The value under k, as a reader of the table finds it.
Value(k) ==
  LET o == GlobalTable[k] IN
  IF k \notin DOMAIN GlobalTable THEN Missing
  ELSE IF o.type = "number" THEN o.val ELSE heap[o.val]

Init ==
  /\ GlobalTable = [k \in {} |-> Nil]
  /\ heap = [s \in {} |-> Nil]
  /\ \E x \in Times : global_time = [sec |-> x, msec |-> x]
  /\ call = [t \in Threads |-> Idle]
  /\ pc = [t \in Threads |-> "idle"]
  /\ copied = [t \in Threads |-> Missing]
  /\ result = [t \in Threads |-> Missing]
  /\ calls = 0
  /\ seen = [k \in Keys |-> Missing]
  /\ seen_time = global_time.sec

-----------------------------------------------------------------------------
\* The locks: RwLck for the table, GTLck for the time.
\* Mutant: the time is read under the lock of the table.
WrongLock(t) == IF call[t].op = "set_time" THEN "GTLck" ELSE "RwLck"

Lock(t) == IF call[t].op \in {"set_time", "get_time"} THEN "GTLck" ELSE "RwLck"
Writes(t) == call[t].op \in {"set", "set_time"}
Inside(t) == pc[t] \notin {"idle", "called", "asleep"}

CanLock(t) ==
  \A u \in Threads : Inside(u) /\ Lock(u) = Lock(t) => ~Writes(u) /\ ~Writes(t)

Goes(t, to) == pc' = [pc EXCEPT ![t] = to]

\* write_unlock or read_unlock, and the call returns r.
Unlock(t, r) ==
  /\ Goes(t, "idle")
  /\ call' = [call EXCEPT ![t] = Idle]
  /\ result' = [result EXCEPT ![t] = r]
  /\ copied' = [copied EXCEPT ![t] = Missing]

\* A script calls; MaxCalls bounds the calls.
CallPublic(t, c) ==
  /\ pc[t] = "idle"
  /\ calls < MaxCalls
  /\ calls' = calls + 1
  /\ call' = [call EXCEPT ![t] = c]
  /\ Goes(t, "called")
  /\ result' = [result EXCEPT ![t] = Nil]
  /\ UNCHANGED <<shared, copied, seen, seen_time>>

TakeLock(t) ==
  /\ pc[t] = "called"
  /\ call[t].op \notin {"wait", "activ"}
  /\ CanLock(t)
  /\ Goes(t, "in")
  /\ UNCHANGED <<shared, call, copied, result, calls, seen, seen_time>>

-----------------------------------------------------------------------------
\* Sq2PublicTabNewSlot.  The key is found, or made with an empty object.
IsString(k) == GlobalTable[k].type = "string"

FindSlot(t) ==
  /\ pc[t] = "in" /\ call[t].op = "set"
  /\ LET k == call[t].k IN
       GlobalTable' = [j \in DOMAIN GlobalTable \cup {k} |->
                         IF j \in DOMAIN GlobalTable THEN GlobalTable[j]
                         ELSE [type |-> "none", val |-> Nil]]
  /\ Goes(t, "found")
  /\ UNCHANGED <<heap, global_time, call, copied, result, calls, seen, seen_time>>

\* A number over a string: the string is deleted and the pointer cleared.
DeleteString(t) ==
  /\ pc[t] = "found"
  /\ call[t].v \in Numbers
  /\ IsString(call[t].k)
  /\ LET k == call[t].k IN
       /\ heap' = [s \in DOMAIN heap \ {GlobalTable[k].val} |-> heap[s]]
       /\ GlobalTable' = [GlobalTable EXCEPT ![k].val = Nil]
  /\ Goes(t, "ready")
  /\ UNCHANGED <<global_time, call, copied, result, calls, seen, seen_time>>

\* A number: the object is overwritten, type and value.
\* Mutant: the old string is not deleted first.
OldStringKept(t) == pc[t] \in {"found", "ready"}

OldStringGone(t) == pc[t] = "ready" \/ (pc[t] = "found" /\ ~IsString(call[t].k))

StoreNumber(t) ==
  /\ pc[t] \in {"found", "ready"}
  /\ call[t].v \in Numbers
  /\ OldStringGone(t)
  /\ GlobalTable' = [GlobalTable EXCEPT ![call[t].k] = [type |-> "number", val |-> call[t].v]]
  /\ Goes(t, "stored")
  /\ UNCHANGED <<heap, global_time, call, copied, result, calls, seen, seen_time>>

\* A string over a string is assigned to it.
AssignString(t) ==
  /\ pc[t] = "found"
  /\ call[t].v \in Texts
  /\ IsString(call[t].k)
  /\ heap' = [heap EXCEPT ![GlobalTable[call[t].k].val] = call[t].v]
  /\ Goes(t, "stored")
  /\ UNCHANGED <<GlobalTable, global_time, call, copied, result, calls, seen, seen_time>>

\* A string over anything else: the type is changed first, then a new string
\* object is put there.
SetStringType(t) ==
  /\ pc[t] = "found"
  /\ call[t].v \in Texts
  /\ ~IsString(call[t].k)
  /\ GlobalTable' = [GlobalTable EXCEPT ![call[t].k].type = "string"]
  /\ Goes(t, "typed")
  /\ UNCHANGED <<heap, global_time, call, copied, result, calls, seen, seen_time>>

NewString(t) ==
  /\ pc[t] = "typed"
  /\ \E s \in Strs \ DOMAIN heap :
       /\ heap' = [r \in DOMAIN heap \cup {s} |-> IF r = s THEN call[t].v ELSE heap[r]]
       /\ GlobalTable' = [GlobalTable EXCEPT ![call[t].k].val = s]
  /\ Goes(t, "stored")
  /\ UNCHANGED <<global_time, call, copied, result, calls, seen, seen_time>>

SetReturns(t) ==
  /\ pc[t] = "stored"
  /\ Unlock(t, Missing)
  /\ seen' = [k \in Keys |-> Value(k)]
  /\ UNCHANGED <<shared, calls, seen_time>>

-----------------------------------------------------------------------------
\* Sq2PublicTabGet, Sq2PublicTabCompare and Sq2PublicTabIn: the lookup, and
\* then the use of what it found.
\* Mutant: the return for a key that is not there does not unlock.
LeavesLocked(t) ==
  /\ pc[t] = "in" /\ call[t].op \in {"get", "cmp", "is_in"}
  /\ Goes(t, IF call[t].k \notin DOMAIN GlobalTable THEN "left" ELSE "looked_up")
  /\ UNCHANGED <<shared, call, copied, result, calls, seen, seen_time>>

LookUp(t) ==
  /\ pc[t] = "in" /\ call[t].op \in {"get", "cmp", "is_in"}
  /\ IF call[t].k \notin DOMAIN GlobalTable
       THEN Unlock(t, IF call[t].op = "is_in" THEN FALSE ELSE Missing)
       ELSE /\ Goes(t, "looked_up")
            /\ UNCHANGED <<call, copied, result>>
  /\ UNCHANGED <<shared, calls, seen, seen_time>>

Answer(t) ==
  CASE call[t].op = "is_in" -> TRUE
    [] call[t].op = "get"   -> Value(call[t].k)
    [] call[t].op = "cmp"   -> Cmp(Value(call[t].k), call[t].v)

ReadReturns(t) ==
  /\ pc[t] = "looked_up"
  /\ Unlock(t, Answer(t))
  /\ UNCHANGED <<shared, calls, seen, seen_time>>

-----------------------------------------------------------------------------
\* Sq2PublicSetGlobalTime and Sq2PublicGetGlobalTime, field by field.
SetSeconds(t) ==
  /\ pc[t] = "in" /\ call[t].op = "set_time"
  /\ global_time' = [global_time EXCEPT !.sec = call[t].x]
  /\ Goes(t, "half")
  /\ UNCHANGED <<GlobalTable, heap, call, copied, result, calls, seen, seen_time>>

SetRest(t) ==
  /\ pc[t] = "half" /\ call[t].op = "set_time"
  /\ global_time' = [global_time EXCEPT !.msec = call[t].x]
  /\ Unlock(t, Missing)
  /\ seen_time' = call[t].x
  /\ UNCHANGED <<GlobalTable, heap, calls, seen>>

GetSeconds(t) ==
  /\ pc[t] = "in" /\ call[t].op = "get_time"
  /\ copied' = [copied EXCEPT ![t] = global_time.sec]
  /\ Goes(t, "half")
  /\ UNCHANGED <<shared, call, result, calls, seen, seen_time>>

GetRest(t) ==
  /\ pc[t] = "half" /\ call[t].op = "get_time"
  /\ Unlock(t, IF copied[t] = global_time.msec THEN copied[t] ELSE Nil)
  /\ UNCHANGED <<shared, calls, seen, seen_time>>

-----------------------------------------------------------------------------
\* Sq2WaitingForSignal and Sq2ActivtSignal: GCcond, a broadcast to those that
\* sleep at that moment.  POSIX lets a waiter wake on its own, and the code
\* does not look why it woke.
WaitForSignal(t) ==
  /\ pc[t] = "called" /\ call[t].op = "wait"
  /\ Goes(t, "asleep")
  /\ UNCHANGED <<shared, call, copied, result, calls, seen, seen_time>>

WakesByItself(t) ==
  /\ pc[t] = "asleep"
  /\ Goes(t, "idle")
  /\ call' = [call EXCEPT ![t] = Idle]
  /\ UNCHANGED <<shared, copied, result, calls, seen, seen_time>>

ActivSignal(t) ==
  LET Done == {t} \cup {u \in Threads : pc[u] = "asleep"} IN
  /\ pc[t] = "called" /\ call[t].op = "activ"
  /\ pc' = [u \in Threads |-> IF u \in Done THEN "idle" ELSE pc[u]]
  /\ call' = [u \in Threads |-> IF u \in Done THEN Idle ELSE call[u]]
  /\ UNCHANGED <<shared, copied, result, calls, seen, seen_time>>

-----------------------------------------------------------------------------
Step(t) ==
  \/ FindSlot(t) \/ DeleteString(t) \/ StoreNumber(t) \/ AssignString(t)
  \/ SetStringType(t) \/ NewString(t) \/ SetReturns(t)
  \/ LookUp(t) \/ ReadReturns(t)
  \/ SetSeconds(t) \/ SetRest(t) \/ GetSeconds(t) \/ GetRest(t)
  \/ WaitForSignal(t) \/ ActivSignal(t)

Next == \E t \in Threads : (\E c \in Calls : CallPublic(t, c)) \/ TakeLock(t) \/ Step(t) \/ WakesByItself(t)

Spec == Init /\ [][Next]_vars

\* Every thread runs; calls are finite in number, so no thread is passed over
\* for ever at a lock.
FairSpec == Spec /\ \A t \in Threads : WF_vars(TakeLock(t) \/ Step(t))

-----------------------------------------------------------------------------
HasString(k) == k \in DOMAIN GlobalTable /\ IsString(k)
Writing(k) == \E t \in Threads : Inside(t) /\ call[t].op = "set" /\ call[t].k = k

\* The string objects are the table's, one for one: no key that is not being
\* written points to a string that is not there, no two keys share one, and
\* none is left that no key points to.  (The code creates and deletes them by
\* hand when the type under a key changes.)
StringsOwned ==
  /\ \A k \in Keys : HasString(k) /\ ~Writing(k) => GlobalTable[k].val \in DOMAIN heap
  /\ \A s \in DOMAIN heap : \E k \in Keys : HasString(k) /\ GlobalTable[k].val = s
  /\ \A j, k \in Keys : HasString(j) /\ HasString(k) /\ GlobalTable[j].val = GlobalTable[k].val => j = k

\* Whatever the threads do between their steps, each call works on one state
\* of the table or of the time: the promise of SharedTable.
Shared == INSTANCE SharedTable WITH table <- seen, time <- seen_time, Pending <- Nil
Implements == Shared!Spec

\* Every call comes back, but one that waits for a signal: each way out of a
\* call unlocks.
CallsReturn == \A t \in Threads : pc[t] = "called" ~> pc[t] \in {"idle", "asleep"}
=============================================================================
