---------------------------- MODULE SharedTable ----------------------------
(***************************************************************************)
(* What the scripts of all VMs may rely on when they use the class Public: *)
(* one table and one time, which every call reads or changes at a single   *)
(* moment between its start and its end.                                   *)
(***************************************************************************)
CONSTANTS Threads, Keys, Values, Times, Calls,
          Missing,          \* no such key; the answer of a call that gives none
          Pending,          \* no answer yet
          Cmp(_, _)         \* what comparing a stored value with another gives

VARIABLES table,   \* the value of each key
          time,    \* the global time
          call,    \* the call each thread is in, or Idle
          result   \* the answer to its last call

vars == <<table, time, call, result>>

Idle == [op |-> "idle"]

Init ==
  /\ table = [k \in Keys |-> Missing]
  /\ time \in Times
  /\ call = [t \in Threads |-> Idle]
  /\ result = [t \in Threads |-> Missing]

Start(t, c) ==
  /\ call[t] = Idle
  /\ call' = [call EXCEPT ![t] = c]
  /\ result' = [result EXCEPT ![t] = Pending]
  /\ UNCHANGED <<table, time>>

Return(t, r) ==
  /\ call' = [call EXCEPT ![t] = Idle]
  /\ result' = [result EXCEPT ![t] = r]

Set(t) ==
  /\ call[t].op = "set"
  /\ table' = [table EXCEPT ![call[t].k] = call[t].v]
  /\ Return(t, Missing)
  /\ UNCHANGED time

Get(t) ==
  /\ call[t].op = "get"
  /\ Return(t, table[call[t].k])
  /\ UNCHANGED <<table, time>>

Compare(t) ==
  LET old == table[call[t].k] IN
  /\ call[t].op = "cmp"
  /\ Return(t, IF old = Missing THEN Missing ELSE Cmp(old, call[t].v))
  /\ UNCHANGED <<table, time>>

In(t) ==
  /\ call[t].op = "is_in"
  /\ Return(t, table[call[t].k] # Missing)
  /\ UNCHANGED <<table, time>>

SetTime(t) ==
  /\ call[t].op = "set_time"
  /\ time' = call[t].x
  /\ Return(t, Missing)
  /\ UNCHANGED table

GetTime(t) ==
  /\ call[t].op = "get_time"
  /\ Return(t, time)
  /\ UNCHANGED <<table, time>>

\* Calls of the signal return, several at once when they were woken.
Signals(done) ==
  /\ \A t \in done : call[t].op \in {"wait", "activ"}
  /\ call' = [t \in Threads |-> IF t \in done THEN Idle ELSE call[t]]
  /\ UNCHANGED <<table, time, result>>

Next ==
  \/ \E t \in Threads :
       \/ \E c \in Calls : Start(t, c)
       \/ Set(t) \/ Get(t) \/ Compare(t) \/ In(t) \/ SetTime(t) \/ GetTime(t)
  \/ \E done \in SUBSET Threads : Signals(done)

Spec == Init /\ [][Next]_vars
=============================================================================
