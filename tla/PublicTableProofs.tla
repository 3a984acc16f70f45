------------------------- MODULE PublicTableProofs -------------------------
(***************************************************************************)
(* The strings of the public table are owned, and the table with its locks *)
(* implements SharedTable, for any threads, keys, values and times.  IInv  *)
(* says that a writer is alone under its lock, what a half-done call has   *)
(* done to its key, and that everything else is complete and seen.  The    *)
(* lock the table stands on, RWLock, is at the end.                        *)
(***************************************************************************)
EXTENDS PublicTable, RWLock, FiniteSetTheorems, TLAPS

\* Where a thread is in which call.
SetPcs == {"found", "ready", "typed", "stored"}
Pcs == {"idle", "called", "asleep", "in", "looked_up", "half"} \cup SetPcs

Placed(t) ==
  /\ pc[t] = "idle" <=> call[t] = Idle
  /\ Inside(t) => call[t].op \notin {"wait", "activ"}
  /\ pc[t] = "asleep" => call[t].op = "wait"
  /\ pc[t] \in SetPcs => call[t].op = "set"
  /\ pc[t] = "looked_up" => call[t].op \in {"get", "cmp", "is_in"}
  /\ pc[t] = "half" => call[t].op \in {"set_time", "get_time"}

\* A writer is alone under its lock.
Alone == \A t, u \in Threads : t # u /\ Inside(t) /\ Inside(u) /\ Lock(t) = Lock(u) => ~Writes(t)

Typed ==
  /\ DOMAIN GlobalTable \subseteq Keys
  /\ GlobalTable \in [DOMAIN GlobalTable -> [type : {"none", "number", "string"}, val : Numbers \cup Strs \cup {Nil}]]
  /\ DOMAIN heap \subseteq Strs
  /\ heap \in [DOMAIN heap -> Texts]
  /\ global_time \in [sec : Times, msec : Times]
  /\ call \in [Threads -> Calls \cup {Idle}]
  /\ pc \in [Threads -> Pcs]
  /\ copied = [t \in Threads |-> copied[t]]
  /\ result = [t \in Threads |-> result[t]]
  /\ seen = [k \in Keys |-> seen[k]]
  /\ seen_time \in Times

\* An object of the table that is complete.
Whole(k) ==
  /\ GlobalTable[k].type # "none"
  /\ GlobalTable[k].type = "string" => GlobalTable[k].val \in DOMAIN heap
  /\ GlobalTable[k].type = "number" => GlobalTable[k].val \in Numbers

\* What a call has done so far to its key.
Halfway(t) ==
  LET k == call[t].k IN
  /\ pc[t] = "in" /\ call[t].op = "set" /\ k \in DOMAIN GlobalTable => Whole(k)
  /\ pc[t] \in SetPcs \cup {"looked_up"} => k \in DOMAIN GlobalTable
  /\ pc[t] = "found" => Whole(k) \/ (GlobalTable[k].type = "none" /\ GlobalTable[k].val = Nil)
  /\ pc[t] = "ready" => call[t].v \in Numbers /\ GlobalTable[k].type = "string" /\ GlobalTable[k].val = Nil
  /\ pc[t] = "typed" => call[t].v \in Texts /\ GlobalTable[k].type = "string" /\ GlobalTable[k].val \notin Strs
  /\ pc[t] = "stored" => Whole(k) /\ Value(k) = call[t].v

\* A key that nobody writes is complete, and seen.
Complete(k) ==
  ~Writing(k) => seen[k] = Value(k) /\ (k \in DOMAIN GlobalTable => Whole(k))

Owned ==
  /\ \A s \in DOMAIN heap : \E k \in Keys : HasString(k) /\ GlobalTable[k].val = s
  /\ \A j, k \in Keys : HasString(j) /\ HasString(k) /\ GlobalTable[j].val = GlobalTable[k].val => j = k

TimeSeen ==
  /\ global_time.msec = seen_time
  /\ (\A t \in Threads : pc[t] = "half" => call[t].op # "set_time") => global_time.sec = seen_time
  /\ \A t \in Threads : pc[t] = "half" =>
       /\ call[t].op = "set_time" => global_time.sec = call[t].x
       /\ call[t].op = "get_time" => copied[t] = seen_time

IInv ==
  /\ Typed
  /\ \A t \in Threads : Placed(t) /\ Halfway(t)
  /\ Alone
  /\ \A k \in Keys : Complete(k)
  /\ Owned
  /\ TimeSeen

-----------------------------------------------------------------------------
\* The ranges the proofs need of the parts of a call.
LEMMA CallParts ==
  ASSUME NEW c \in Calls \cup {Idle}
  PROVE  /\ c.op \in {"set", "cmp", "get", "is_in", "set_time", "get_time", "wait", "activ", "idle"}
         /\ c.op \in {"set", "cmp", "get", "is_in"} => c.k \in Keys
         /\ c.op \in {"set", "cmp"} => c.v \in Values
         /\ c.op = "set_time" => c.x \in Times
         /\ c.op = "idle" => c = Idle
  BY DEF Calls, Idle

LEMMA CallsAreNotIdle == \A c \in Calls : c.op # "idle" /\ c # Idle
  BY DEF Calls, Idle

\* While a thread writes, no other thread is inside under its lock.
LEMMA OthersOut ==
  ASSUME IInv, NEW t \in Threads, Inside(t), Writes(t), NEW u \in Threads, u # t
  PROVE  ~Inside(u) \/ Lock(u) # Lock(t)
  BY DEF IInv, Alone

\* While a thread changes the table, no other thread looks at it.
LEMMA TableMine ==
  ASSUME IInv, NEW t \in Threads, Inside(t), call[t].op = "set", NEW u \in Threads, u # t
  PROVE  /\ pc[u] \notin SetPcs \cup {"looked_up"}
         /\ ~(Inside(u) /\ call[u].op = "set")
  <1>1. ~Inside(u) \/ Lock(u) # Lock(t)
    BY OthersOut DEF Writes
  <1>2. Placed(u)
    BY DEF IInv
  <1> QED
    BY <1>1, <1>2 DEF Placed, Lock, Inside, SetPcs

\* Then only its own key is being written.
LEMMA OneKey ==
  ASSUME IInv, NEW t \in Threads, Inside(t), call[t].op = "set"
  PROVE  \A k \in Keys : Writing(k) <=> k = call[t].k
  BY TableMine DEF Writing

\* What holds of a key that is not being written.
LEMMA KeyComplete ==
  ASSUME IInv, NEW k \in DOMAIN GlobalTable, ~Writing(k)
  PROVE  /\ k \in Keys
         /\ GlobalTable[k].type \in {"number", "string"}
         /\ GlobalTable[k].type = "string" => GlobalTable[k].val \in DOMAIN heap /\ heap[GlobalTable[k].val] \in Texts
         /\ GlobalTable[k].type = "number" => GlobalTable[k].val \in Numbers
         /\ Value(k) \in Values
  BY DEF IInv, Typed, Complete, Whole, Value, Values

-----------------------------------------------------------------------------
\* The initial states.
LEMMA InitIInv == Init => IInv
  <1> SUFFICES ASSUME Init PROVE IInv
    OBVIOUS
  <1>1. Typed
    BY DEF Init, Typed, Pcs, SetPcs
  <1>2. \A t \in Threads : Placed(t) /\ Halfway(t)
    BY DEF Init, Placed, Halfway, Whole, Inside, SetPcs, Idle
  <1>3. Alone
    BY DEF Init, Alone, Inside
  <1>4. \A k \in Keys : Complete(k)
    BY DEF Init, Complete, Whole, Value
  <1>5. Owned
    BY DEF Init, Owned, HasString
  <1>6. TimeSeen
    BY DEF Init, TimeSeen
  <1> QED
    BY <1>1, <1>2, <1>3, <1>4, <1>5, <1>6 DEF IInv

\* A step that leaves the table, the strings and what was seen alone, and in
\* which no call stops writing, keeps the table complete and owned.
LEMMA TableKept ==
  ASSUME IInv, UNCHANGED <<GlobalTable, heap, seen>>, \A k \in Keys : Writing(k) => Writing(k)'
  PROVE  (\A k \in Keys : Complete(k))' /\ Owned'
  BY DEF IInv, Complete, Whole, Owned, Writing, HasString, IsString, Value

-----------------------------------------------------------------------------
\* The steps that do not change the table.

\* A thread that does not move while the table stays is where it was.
LEMMA OtherKeeps ==
  ASSUME IInv, NEW u \in Threads, pc'[u] = pc[u], call'[u] = call[u], UNCHANGED <<GlobalTable, heap>>
  PROVE  (Placed(u) /\ Halfway(u))'
  <1>1. Placed(u) /\ Halfway(u)
    BY DEF IInv
  <1>2. Placed(u)'
    BY <1>1 DEF Placed, Inside
  <1>3. Halfway(u)'
    BY <1>1 DEF Halfway, Whole, Value
  <1> QED
    BY <1>2, <1>3


LEMMA CallIInv ==
  ASSUME IInv, NEW t \in Threads, NEW c \in Calls, CallPublic(t, c)
  PROVE  IInv'
  <1> USE DEF CallPublic, Goes, shared
  <1>0. Typed /\ Placed(t) /\ Halfway(t)
    BY DEF IInv
  <1>1. Typed'
    BY <1>0, CallParts DEF Typed, Pcs, SetPcs
  <1>2. ASSUME NEW u \in Threads PROVE (Placed(u) /\ Halfway(u))'
    <2>1. CASE u = t
      BY <1>0, <2>1, CallsAreNotIdle DEF Typed, Placed, Halfway, Whole, Inside, SetPcs
    <2>2. CASE u # t
      <3>1. pc'[u] = pc[u] /\ call'[u] = call[u]
        BY <1>0, <2>2 DEF Typed
      <3> QED
        BY <3>1, OtherKeeps
    <2> QED
      BY <2>1, <2>2
  <1>3. Alone'
    BY <1>0 DEF IInv, Alone, Typed, Placed, Inside, Lock, Writes, SetPcs
  <1>4. (\A k \in Keys : Complete(k))' /\ Owned'
    <2>1. \A k \in Keys : Writing(k) => Writing(k)'
      BY <1>0 DEF Writing, Typed, Inside, Placed, SetPcs
    <2> QED
      BY <2>1, TableKept
  <1>5. TimeSeen'
    BY <1>0 DEF IInv, TimeSeen, Typed, Placed
  <1> QED
    BY <1>1, <1>2, <1>3, <1>4, <1>5 DEF IInv

LEMMA TakeLockIInv ==
  ASSUME IInv, NEW t \in Threads, TakeLock(t)
  PROVE  IInv'
  <1> USE DEF TakeLock, CanLock, Goes, shared
  <1>0. Typed /\ Placed(t) /\ Halfway(t)
    BY DEF IInv
  <1>1. Typed'
    BY <1>0, CallParts DEF Typed, Pcs, SetPcs
  <1>2. ASSUME NEW u \in Threads PROVE (Placed(u) /\ Halfway(u))'
    <2>1. CASE u = t
      <3>1. pc'[t] = "in" /\ call'[t] = call[t] /\ call[t].op # "idle"
        BY <1>0, CallParts DEF Typed, Placed, Idle
      <3>2. ASSUME call[t].op = "set", call[t].k \in DOMAIN GlobalTable PROVE Whole(call[t].k)
        <4>1. call[t].k \in Keys /\ ~Writing(call[t].k)
          BY <1>0, <3>2, CallParts DEF Typed, Writing, Writes, Lock
        <4> QED
          BY <3>2, <4>1 DEF IInv, Complete
      <3> QED
        BY <1>0, <2>1, <3>1, <3>2 DEF Placed, Halfway, Whole, Inside, SetPcs, Idle
    <2>2. CASE u # t
      <3>1. pc'[u] = pc[u] /\ call'[u] = call[u]
        BY <1>0, <2>2 DEF Typed
      <3> QED
        BY <3>1, OtherKeeps
    <2> QED
      BY <2>1, <2>2
  <1>3. Alone'
    BY <1>0 DEF IInv, Alone, Typed, Placed, Inside, Lock, Writes, SetPcs
  <1>4. (\A k \in Keys : Complete(k))' /\ Owned'
    <2>1. \A k \in Keys : Writing(k) => Writing(k)'
      BY <1>0 DEF Writing, Typed, Inside, Placed, SetPcs
    <2> QED
      BY <2>1, TableKept
  <1>5. TimeSeen'
    BY <1>0 DEF IInv, TimeSeen, Typed, Placed
  <1> QED
    BY <1>1, <1>2, <1>3, <1>4, <1>5 DEF IInv

LEMMA LookUpIInv ==
  ASSUME IInv, NEW t \in Threads, LookUp(t)
  PROVE  IInv'
  <1> USE DEF LookUp, Unlock, Goes, shared, Idle
  <1>0. Typed /\ Placed(t) /\ Halfway(t)
    BY DEF IInv
  <1>1. Typed'
    <2>1. pc' = [pc EXCEPT ![t] = pc'[t]] /\ pc'[t] \in {"idle", "looked_up"}
      BY <1>0 DEF Typed
    <2>2. pc' \in [Threads -> Pcs]
      BY <1>0, <2>1 DEF Typed, Pcs, SetPcs
    <2>3. call' \in [Threads -> Calls \cup {Idle}]
      BY <1>0 DEF Typed
    <2>4. /\ copied' = [u \in Threads |-> copied'[u]]
          /\ result' = [u \in Threads |-> result'[u]]
      BY <1>0 DEF Typed
    <2> QED
      BY <1>0, <2>2, <2>3, <2>4 DEF Typed
  <1>2. ASSUME NEW u \in Threads PROVE (Placed(u) /\ Halfway(u))'
    <2>1. CASE u = t
      BY <1>0, <2>1 DEF Typed, Placed, Halfway, Whole, Inside, SetPcs
    <2>2. CASE u # t
      <3>1. pc'[u] = pc[u] /\ call'[u] = call[u]
        BY <1>0, <2>2 DEF Typed
      <3> QED
        BY <3>1, OtherKeeps
    <2> QED
      BY <2>1, <2>2
  <1>3. Alone'
    <2> SUFFICES ASSUME NEW u \in Threads, NEW w \in Threads, u # w, Inside(u)', Inside(w)',
                        Lock(u)' = Lock(w)'
                 PROVE  ~Writes(u)'
      BY DEF Alone
    <2>1. Inside(u) /\ Inside(w) /\ call'[u] = call[u] /\ call'[w] = call[w]
      BY <1>0 DEF Typed, Inside
    <2> QED
      BY <2>1 DEF IInv, Alone, Lock, Writes
  <1>4. (\A k \in Keys : Complete(k))' /\ Owned'
    <2>1. \A k \in Keys : Writing(k) => Writing(k)'
      <3> SUFFICES ASSUME NEW k \in Keys, NEW u \in Threads, Inside(u),
                          call[u].op = "set", call[u].k = k
                   PROVE  Writing(k)'
        BY DEF Writing
      <3>1. u # t
        OBVIOUS
      <3>2. pc'[u] = pc[u] /\ call'[u] = call[u]
        BY <1>0, <3>1 DEF Typed
      <3> QED
        BY <3>2 DEF Writing, Inside
    <2> QED
      BY <2>1, TableKept
  <1>5. TimeSeen'
    <2>1. \A u \in Threads : pc[u] = "half" => u # t
      OBVIOUS
    <2>2. \A u \in Threads : pc'[u] = "half" <=> pc[u] = "half"
      BY <1>0 DEF Typed
    <2>3. \A u \in Threads : u # t => call'[u] = call[u] /\ copied'[u] = copied[u]
      BY <1>0 DEF Typed
    <2> QED
      BY <2>1, <2>2, <2>3 DEF IInv, TimeSeen
  <1> QED
    BY <1>1, <1>2, <1>3, <1>4, <1>5 DEF IInv

LEMMA ReadReturnsIInv ==
  ASSUME IInv, NEW t \in Threads, ReadReturns(t)
  PROVE  IInv'
  <1> USE DEF ReadReturns, Unlock, Goes, shared, Idle
  <1>0. Typed /\ Placed(t) /\ Halfway(t)
    BY DEF IInv
  <1>1. Typed'
    BY <1>0, CallParts DEF Typed, Pcs, SetPcs
  <1>2. ASSUME NEW u \in Threads PROVE (Placed(u) /\ Halfway(u))'
    <2>1. CASE u = t
      BY <1>0, <2>1, CallParts DEF Typed, Placed, Halfway, Inside, SetPcs
    <2>2. CASE u # t
      <3>1. pc'[u] = pc[u] /\ call'[u] = call[u]
        BY <1>0, <2>2 DEF Typed
      <3> QED
        BY <3>1, OtherKeeps
    <2> QED
      BY <2>1, <2>2
  <1>3. Alone'
    BY <1>0 DEF IInv, Alone, Typed, Placed, Inside, Lock, Writes, SetPcs
  <1>4. (\A k \in Keys : Complete(k))' /\ Owned'
    <2>1. \A k \in Keys : Writing(k) => Writing(k)'
      BY <1>0 DEF Writing, Typed, Inside, Placed, SetPcs
    <2> QED
      BY <2>1, TableKept
  <1>5. TimeSeen'
    BY <1>0 DEF IInv, TimeSeen, Typed, Placed
  <1> QED
    BY <1>1, <1>2, <1>3, <1>4, <1>5 DEF IInv

LEMMA SetSecondsIInv ==
  ASSUME IInv, NEW t \in Threads, SetSeconds(t)
  PROVE  IInv'
  <1> USE DEF SetSeconds, Goes
  <1>0. Typed /\ Placed(t) /\ Halfway(t)
    BY DEF IInv
  <1>1. Typed'
    BY <1>0, CallParts DEF Typed, Pcs, SetPcs
  <1>2. ASSUME NEW u \in Threads PROVE (Placed(u) /\ Halfway(u))'
    <2>1. CASE u = t
      BY <1>0, <2>1, CallParts DEF Typed, Placed, Halfway, Inside, SetPcs
    <2>2. CASE u # t
      <3>1. pc'[u] = pc[u] /\ call'[u] = call[u]
        BY <1>0, <2>2 DEF Typed
      <3> QED
        BY <3>1, OtherKeeps
    <2> QED
      BY <2>1, <2>2
  <1>3. Alone'
    BY <1>0 DEF IInv, Alone, Typed, Placed, Inside, Lock, Writes, SetPcs
  <1>4. (\A k \in Keys : Complete(k))' /\ Owned'
    <2>1. \A k \in Keys : Writing(k) => Writing(k)'
      BY <1>0 DEF Writing, Typed, Inside, Placed, SetPcs
    <2> QED
      BY <2>1, TableKept
  <1>5. TimeSeen'
    <2>1. \A u \in Threads : u # t => pc[u] # "half"
      <3>1. \A u \in Threads : u # t => ~Inside(u) \/ Lock(u) # Lock(t)
        BY OthersOut DEF Inside, Writes
      <3> QED
        BY <3>1 DEF IInv, Placed, Inside, Lock
    <2>2. pc'[t] = "half" /\ \A u \in Threads : u # t => pc'[u] # "half"
      BY <1>0, <2>1 DEF Typed
    <2>3. global_time'.sec = call[t].x /\ global_time'.msec = global_time.msec
      BY <1>0 DEF Typed
    <2> QED
      BY <2>2, <2>3 DEF IInv, TimeSeen
  <1> QED
    BY <1>1, <1>2, <1>3, <1>4, <1>5 DEF IInv

LEMMA SetRestIInv ==
  ASSUME IInv, NEW t \in Threads, SetRest(t)
  PROVE  IInv'
  <1> USE DEF SetRest, Unlock, Goes, Idle
  <1>0. Typed /\ Placed(t) /\ Halfway(t)
    BY DEF IInv
  <1>1. Typed'
    BY <1>0, CallParts DEF Typed, Pcs, SetPcs
  <1>2. ASSUME NEW u \in Threads PROVE (Placed(u) /\ Halfway(u))'
    <2>1. CASE u = t
      BY <1>0, <2>1, CallParts DEF Typed, Placed, Halfway, Inside, SetPcs
    <2>2. CASE u # t
      <3>1. pc'[u] = pc[u] /\ call'[u] = call[u]
        BY <1>0, <2>2 DEF Typed
      <3> QED
        BY <3>1, OtherKeeps
    <2> QED
      BY <2>1, <2>2
  <1>3. Alone'
    BY <1>0 DEF IInv, Alone, Typed, Placed, Inside, Lock, Writes, SetPcs
  <1>4. (\A k \in Keys : Complete(k))' /\ Owned'
    <2>1. \A k \in Keys : Writing(k) => Writing(k)'
      BY <1>0 DEF Writing, Typed, Inside, Placed, SetPcs
    <2> QED
      BY <2>1, TableKept
  <1>5. TimeSeen'
    <2>1. \A u \in Threads : u # t => pc[u] # "half"
      <3>1. \A u \in Threads : u # t => ~Inside(u) \/ Lock(u) # Lock(t)
        BY OthersOut DEF Inside, Writes
      <3> QED
        BY <3>1 DEF IInv, Placed, Inside, Lock
    <2>2. \A u \in Threads : pc'[u] # "half"
      BY <1>0, <2>1 DEF Typed
    <2>3. global_time'.sec = call[t].x /\ global_time'.msec = call[t].x
      BY <1>0 DEF IInv, TimeSeen, Typed
    <2> QED
      BY <2>2, <2>3 DEF TimeSeen
  <1> QED
    BY <1>1, <1>2, <1>3, <1>4, <1>5 DEF IInv

LEMMA GetSecondsIInv ==
  ASSUME IInv, NEW t \in Threads, GetSeconds(t)
  PROVE  IInv'
  <1> USE DEF GetSeconds, Goes, shared
  <1>0. Typed /\ Placed(t) /\ Halfway(t)
    BY DEF IInv
  <1>1. Typed'
    BY <1>0, CallParts DEF Typed, Pcs, SetPcs
  <1>2. ASSUME NEW u \in Threads PROVE (Placed(u) /\ Halfway(u))'
    <2>1. CASE u = t
      BY <1>0, <2>1, CallParts DEF Typed, Placed, Halfway, Inside, SetPcs
    <2>2. CASE u # t
      <3>1. pc'[u] = pc[u] /\ call'[u] = call[u]
        BY <1>0, <2>2 DEF Typed
      <3> QED
        BY <3>1, OtherKeeps
    <2> QED
      BY <2>1, <2>2
  <1>3. Alone'
    BY <1>0 DEF IInv, Alone, Typed, Placed, Inside, Lock, Writes, SetPcs
  <1>4. (\A k \in Keys : Complete(k))' /\ Owned'
    <2>1. \A k \in Keys : Writing(k) => Writing(k)'
      BY <1>0 DEF Writing, Typed, Inside, Placed, SetPcs
    <2> QED
      BY <2>1, TableKept
  <1>5. TimeSeen'
    <2>1. \A u \in Threads : pc[u] = "half" => call[u].op # "set_time"
      <3>1. \A u \in Threads : u # t /\ Inside(u) /\ Lock(u) = Lock(t) => ~Writes(u)
        BY DEF IInv, Alone, Inside
      <3> QED
        BY <3>1 DEF Inside, Lock, Writes
    <2>2. copied'[t] = seen_time /\ \A u \in Threads : u # t => copied'[u] = copied[u] /\ pc'[u] = pc[u]
      BY <1>0, <2>1 DEF IInv, TimeSeen, Typed
    <2> QED
      BY <2>1, <2>2 DEF IInv, TimeSeen
  <1> QED
    BY <1>1, <1>2, <1>3, <1>4, <1>5 DEF IInv

LEMMA GetRestIInv ==
  ASSUME IInv, NEW t \in Threads, GetRest(t)
  PROVE  IInv'
  <1> USE DEF GetRest, Unlock, Goes, shared, Idle
  <1>0. Typed /\ Placed(t) /\ Halfway(t)
    BY DEF IInv
  <1>1. Typed'
    BY <1>0, CallParts DEF Typed, Pcs, SetPcs
  <1>2. ASSUME NEW u \in Threads PROVE (Placed(u) /\ Halfway(u))'
    <2>1. CASE u = t
      BY <1>0, <2>1, CallParts DEF Typed, Placed, Halfway, Inside, SetPcs
    <2>2. CASE u # t
      <3>1. pc'[u] = pc[u] /\ call'[u] = call[u]
        BY <1>0, <2>2 DEF Typed
      <3> QED
        BY <3>1, OtherKeeps
    <2> QED
      BY <2>1, <2>2
  <1>3. Alone'
    BY <1>0 DEF IInv, Alone, Typed, Placed, Inside, Lock, Writes, SetPcs
  <1>4. (\A k \in Keys : Complete(k))' /\ Owned'
    <2>1. \A k \in Keys : Writing(k) => Writing(k)'
      BY <1>0 DEF Writing, Typed, Inside, Placed, SetPcs
    <2> QED
      BY <2>1, TableKept
  <1>5. TimeSeen'
    BY <1>0 DEF IInv, TimeSeen, Typed, Placed
  <1> QED
    BY <1>1, <1>2, <1>3, <1>4, <1>5 DEF IInv

LEMMA WaitIInv ==
  ASSUME IInv, NEW t \in Threads, WaitForSignal(t)
  PROVE  IInv'
  <1> USE DEF WaitForSignal, Goes, shared
  <1>0. Typed /\ Placed(t) /\ Halfway(t)
    BY DEF IInv
  <1>1. Typed'
    BY <1>0, CallParts DEF Typed, Pcs, SetPcs
  <1>2. ASSUME NEW u \in Threads PROVE (Placed(u) /\ Halfway(u))'
    <2>1. CASE u = t
      BY <1>0, <2>1, CallParts DEF Typed, Placed, Halfway, Inside, SetPcs
    <2>2. CASE u # t
      <3>1. pc'[u] = pc[u] /\ call'[u] = call[u]
        BY <1>0, <2>2 DEF Typed
      <3> QED
        BY <3>1, OtherKeeps
    <2> QED
      BY <2>1, <2>2
  <1>3. Alone'
    BY <1>0 DEF IInv, Alone, Typed, Placed, Inside, Lock, Writes, SetPcs
  <1>4. (\A k \in Keys : Complete(k))' /\ Owned'
    <2>1. \A k \in Keys : Writing(k) => Writing(k)'
      BY <1>0 DEF Writing, Typed, Inside, Placed, SetPcs
    <2> QED
      BY <2>1, TableKept
  <1>5. TimeSeen'
    BY <1>0 DEF IInv, TimeSeen, Typed, Placed
  <1> QED
    BY <1>1, <1>2, <1>3, <1>4, <1>5 DEF IInv

LEMMA WakesIInv ==
  ASSUME IInv, NEW t \in Threads, WakesByItself(t)
  PROVE  IInv'
  <1> USE DEF WakesByItself, Goes, shared, Idle
  <1>0. Typed /\ Placed(t) /\ Halfway(t)
    BY DEF IInv
  <1>1. Typed'
    BY <1>0, CallParts DEF Typed, Pcs, SetPcs
  <1>2. ASSUME NEW u \in Threads PROVE (Placed(u) /\ Halfway(u))'
    <2>1. CASE u = t
      BY <1>0, <2>1, CallParts DEF Typed, Placed, Halfway, Inside, SetPcs
    <2>2. CASE u # t
      <3>1. pc'[u] = pc[u] /\ call'[u] = call[u]
        BY <1>0, <2>2 DEF Typed
      <3> QED
        BY <3>1, OtherKeeps
    <2> QED
      BY <2>1, <2>2
  <1>3. Alone'
    BY <1>0 DEF IInv, Alone, Typed, Placed, Inside, Lock, Writes, SetPcs
  <1>4. (\A k \in Keys : Complete(k))' /\ Owned'
    <2>1. \A k \in Keys : Writing(k) => Writing(k)'
      BY <1>0 DEF Writing, Typed, Inside, Placed, SetPcs
    <2> QED
      BY <2>1, TableKept
  <1>5. TimeSeen'
    BY <1>0 DEF IInv, TimeSeen, Typed, Placed
  <1> QED
    BY <1>1, <1>2, <1>3, <1>4, <1>5 DEF IInv

LEMMA ActivIInv ==
  ASSUME IInv, NEW t \in Threads, ActivSignal(t)
  PROVE  IInv'
  <1> USE DEF ActivSignal, shared, Idle
  <1>0. Typed /\ Placed(t) /\ Halfway(t)
    BY DEF IInv
  <1>1. Typed'
    BY <1>0, CallParts DEF Typed, Pcs, SetPcs
  <1>2. ASSUME NEW u \in Threads PROVE (Placed(u) /\ Halfway(u))'
    <2>1. CASE u = t \/ pc[u] = "asleep"
      BY <1>0, <2>1, CallParts DEF Typed, Placed, Halfway, Inside, SetPcs
    <2>2. CASE u # t /\ pc[u] # "asleep"
      <3>1. pc'[u] = pc[u] /\ call'[u] = call[u]
        BY <1>0, <2>2 DEF Typed
      <3> QED
        BY <3>1, OtherKeeps
    <2> QED
      BY <2>1, <2>2
  <1>3. Alone'
    BY <1>0 DEF IInv, Alone, Typed, Placed, Inside, Lock, Writes, SetPcs
  <1>4. (\A k \in Keys : Complete(k))' /\ Owned'
    <2>1. \A k \in Keys : Writing(k) => Writing(k)'
      BY <1>0 DEF Writing, Typed, Inside, Placed, SetPcs
    <2> QED
      BY <2>1, TableKept
  <1>5. TimeSeen'
    BY <1>0 DEF IInv, TimeSeen, Typed, Placed
  <1> QED
    BY <1>1, <1>2, <1>3, <1>4, <1>5 DEF IInv

-----------------------------------------------------------------------------
\* The steps of _set.  What they have in common: the key is the caller's own,
\* and other threads stay where they are, outside the table.
OnlyKey(k) == \A j \in Keys \ {k} : (j \in DOMAIN GlobalTable)' = (j \in DOMAIN GlobalTable)
                                    /\ (j \in DOMAIN GlobalTable => GlobalTable'[j] = GlobalTable[j])

LEMMA SetStep ==
  ASSUME IInv, NEW t \in Threads, Inside(t), call[t].op = "set",
         NEW p \in SetPcs, pc' = [pc EXCEPT ![t] = p], UNCHANGED <<call, copied, result, seen, seen_time, global_time>>,
         Typed', Halfway(t)', Owned', OnlyKey(call[t].k),
         \A s \in DOMAIN heap : (\E j \in Keys \ {call[t].k} : HasString(j) /\ GlobalTable[j].val = s)
                                => s \in DOMAIN heap' /\ heap'[s] = heap[s]
  PROVE  IInv'
  <1>0. Typed /\ Placed(t) /\ call[t].k \in Keys
    BY CallParts DEF IInv, Typed
  <1>1. ASSUME NEW u \in Threads, u # t PROVE (Placed(u) /\ Halfway(u))'
    <2>1. pc'[u] = pc[u] /\ call'[u] = call[u]
      BY <1>0, <1>1 DEF Typed
    <2>2. Placed(u) /\ pc[u] \notin SetPcs \cup {"looked_up"} /\ ~(pc[u] = "in" /\ call[u].op = "set")
      BY <1>1, TableMine DEF IInv, Inside
    <2> QED
      BY <2>1, <2>2 DEF Placed, Halfway, Whole, Inside, SetPcs
  <1>2. Placed(t)'
    BY <1>0 DEF Placed, Typed, Inside, SetPcs
  <1>3. \A u \in Threads : (Inside(u))' = Inside(u) /\ (pc[u] = "half")' = (pc[u] = "half")
    BY <1>0 DEF Typed, Placed, Inside, SetPcs
  <1>4. Alone'
    BY <1>3 DEF IInv, Alone, Lock, Writes
  <1>5. TimeSeen'
    BY <1>3 DEF IInv, TimeSeen
  <1>6. ASSUME NEW k \in Keys PROVE Complete(k)'
    <2>1. Writing(k)' = (k = call[t].k)
      BY <1>3, OneKey DEF Writing
    <2>2. CASE k # call[t].k
      <3>1. ~Writing(k)
        BY <2>2, OneKey
      <3>2. Complete(k)
        BY DEF IInv
      <3>3. k \in DOMAIN GlobalTable /\ GlobalTable[k].type = "string" =>
               GlobalTable[k].val \in DOMAIN heap' /\ heap'[GlobalTable[k].val] = heap[GlobalTable[k].val]
        BY <3>1, <3>2, <2>2 DEF Complete, Whole, HasString, IsString
      <3>4. k \in DOMAIN GlobalTable => GlobalTable[k].type \in {"number", "string"}
        BY <3>1, KeyComplete
      <3> QED
        BY <2>2, <3>1, <3>2, <3>3, <3>4 DEF Complete, Whole, Value, OnlyKey
    <2> QED
      BY <2>1, <2>2 DEF Complete, Whole
  <1> QED
    BY <1>1, <1>2, <1>4, <1>5, <1>6 DEF IInv

LEMMA FindSlotIInv ==
  ASSUME IInv, NEW t \in Threads, FindSlot(t)
  PROVE  IInv'
  <1> DEFINE k == call[t].k
  <1> USE DEF FindSlot, Goes
  <1>0. Typed /\ Placed(t) /\ Halfway(t) /\ k \in Keys /\ call[t].v \in Values /\ Inside(t) /\ call[t].op = "set"
    BY CallParts DEF IInv, Typed, Placed, Inside, SetPcs
  <1>1. \A j \in Keys \ {k} : j \in DOMAIN GlobalTable =>
           /\ GlobalTable[j].type \in {"number", "string"}
           /\ HasString(j) => GlobalTable[j].val \in DOMAIN heap
    BY <1>0, OneKey, KeyComplete DEF HasString, IsString
  <1>2. Owned
    BY DEF IInv
  <1>3. Typed'
    BY <1>0 DEF Typed, Pcs, SetPcs, Values, OldStringGone, IsString, Halfway, Whole
  <1>4. Halfway(t)'
    BY <1>0, TableAssumption DEF Typed, Halfway, Whole, SetPcs, Values, OldStringGone, IsString, Value
  <1>5. Owned' /\ OnlyKey(k)
    BY <1>0, <1>1, <1>2, TableAssumption DEF Typed, Owned, OnlyKey, HasString, Halfway, Whole, SetPcs, OldStringGone, IsString
  <1>6. \A s \in DOMAIN heap : (\E j \in Keys \ {k} : HasString(j) /\ GlobalTable[j].val = s)
                               => s \in DOMAIN heap' /\ heap'[s] = heap[s]
    BY <1>0, <1>2 DEF Owned, HasString, Typed, Halfway, Whole, SetPcs, IsString
  <1> QED
    BY <1>0, <1>3, <1>4, <1>5, <1>6, SetStep DEF SetPcs

LEMMA DeleteStringIInv ==
  ASSUME IInv, NEW t \in Threads, DeleteString(t)
  PROVE  IInv'
  <1> DEFINE k == call[t].k
  <1> USE DEF DeleteString, Goes
  <1>0. Typed /\ Placed(t) /\ Halfway(t) /\ k \in Keys /\ call[t].v \in Values /\ Inside(t) /\ call[t].op = "set"
    BY CallParts DEF IInv, Typed, Placed, Inside, SetPcs
  <1>1. \A j \in Keys \ {k} : j \in DOMAIN GlobalTable =>
           /\ GlobalTable[j].type \in {"number", "string"}
           /\ HasString(j) => GlobalTable[j].val \in DOMAIN heap
    BY <1>0, OneKey, KeyComplete DEF HasString, IsString
  <1>2. Owned
    BY DEF IInv
  <1>3. Typed'
    BY <1>0 DEF Typed, Pcs, SetPcs, Values, OldStringGone, IsString, Halfway, Whole
  <1>4. Halfway(t)'
    BY <1>0, TableAssumption DEF Typed, Halfway, Whole, SetPcs, Values, OldStringGone, IsString, Value
  <1>5. Owned' /\ OnlyKey(k)
    BY <1>0, <1>1, <1>2, TableAssumption DEF Typed, Owned, OnlyKey, HasString, Halfway, Whole, SetPcs, OldStringGone, IsString
  <1>6. \A s \in DOMAIN heap : (\E j \in Keys \ {k} : HasString(j) /\ GlobalTable[j].val = s)
                               => s \in DOMAIN heap' /\ heap'[s] = heap[s]
    BY <1>0, <1>2 DEF Owned, HasString, Typed, Halfway, Whole, SetPcs, IsString
  <1> QED
    BY <1>0, <1>3, <1>4, <1>5, <1>6, SetStep DEF SetPcs

LEMMA StoreNumberIInv ==
  ASSUME IInv, NEW t \in Threads, StoreNumber(t)
  PROVE  IInv'
  <1> DEFINE k == call[t].k
  <1> USE DEF StoreNumber, Goes
  <1>0. Typed /\ Placed(t) /\ Halfway(t) /\ k \in Keys /\ call[t].v \in Values /\ Inside(t) /\ call[t].op = "set"
    BY CallParts DEF IInv, Typed, Placed, Inside, SetPcs
  <1>1. \A j \in Keys \ {k} : j \in DOMAIN GlobalTable =>
           /\ GlobalTable[j].type \in {"number", "string"}
           /\ HasString(j) => GlobalTable[j].val \in DOMAIN heap
    BY <1>0, OneKey, KeyComplete DEF HasString, IsString
  <1>2. Owned
    BY DEF IInv
  <1>3. Typed'
    BY <1>0 DEF Typed, Pcs, SetPcs, Values, OldStringGone, IsString, Halfway, Whole
  <1>4. Halfway(t)'
    BY <1>0, TableAssumption DEF Typed, Halfway, Whole, SetPcs, Values, OldStringGone, IsString, Value
  <1>5. Owned' /\ OnlyKey(k)
    BY <1>0, <1>1, <1>2, TableAssumption DEF Typed, Owned, OnlyKey, HasString, Halfway, Whole, SetPcs, OldStringGone, IsString
  <1>6. \A s \in DOMAIN heap : (\E j \in Keys \ {k} : HasString(j) /\ GlobalTable[j].val = s)
                               => s \in DOMAIN heap' /\ heap'[s] = heap[s]
    BY <1>0, <1>2 DEF Owned, HasString, Typed, Halfway, Whole, SetPcs, IsString
  <1> QED
    BY <1>0, <1>3, <1>4, <1>5, <1>6, SetStep DEF SetPcs

LEMMA AssignStringIInv ==
  ASSUME IInv, NEW t \in Threads, AssignString(t)
  PROVE  IInv'
  <1> DEFINE k == call[t].k
  <1> USE DEF AssignString, Goes
  <1>0. Typed /\ Placed(t) /\ Halfway(t) /\ k \in Keys /\ call[t].v \in Values /\ Inside(t) /\ call[t].op = "set"
    BY CallParts DEF IInv, Typed, Placed, Inside, SetPcs
  <1>1. \A j \in Keys \ {k} : j \in DOMAIN GlobalTable =>
           /\ GlobalTable[j].type \in {"number", "string"}
           /\ HasString(j) => GlobalTable[j].val \in DOMAIN heap
    BY <1>0, OneKey, KeyComplete DEF HasString, IsString
  <1>2. Owned
    BY DEF IInv
  <1>3. Typed'
    BY <1>0 DEF Typed, Pcs, SetPcs, Values, OldStringGone, IsString, Halfway, Whole
  <1>4. Halfway(t)'
    BY <1>0, TableAssumption DEF Typed, Halfway, Whole, SetPcs, Values, OldStringGone, IsString, Value
  <1>5. Owned' /\ OnlyKey(k)
    BY <1>0, <1>1, <1>2, TableAssumption DEF Typed, Owned, OnlyKey, HasString, Halfway, Whole, SetPcs, OldStringGone, IsString
  <1>6. \A s \in DOMAIN heap : (\E j \in Keys \ {k} : HasString(j) /\ GlobalTable[j].val = s)
                               => s \in DOMAIN heap' /\ heap'[s] = heap[s]
    BY <1>0, <1>2 DEF Owned, HasString, Typed, Halfway, Whole, SetPcs, IsString
  <1> QED
    BY <1>0, <1>3, <1>4, <1>5, <1>6, SetStep DEF SetPcs

LEMMA SetStringTypeIInv ==
  ASSUME IInv, NEW t \in Threads, SetStringType(t)
  PROVE  IInv'
  <1> DEFINE k == call[t].k
  <1> USE DEF SetStringType, Goes
  <1>0. Typed /\ Placed(t) /\ Halfway(t) /\ k \in Keys /\ call[t].v \in Values /\ Inside(t) /\ call[t].op = "set"
    BY CallParts DEF IInv, Typed, Placed, Inside, SetPcs
  <1>1. \A j \in Keys \ {k} : j \in DOMAIN GlobalTable =>
           /\ GlobalTable[j].type \in {"number", "string"}
           /\ HasString(j) => GlobalTable[j].val \in DOMAIN heap
    BY <1>0, OneKey, KeyComplete DEF HasString, IsString
  <1>2. Owned
    BY DEF IInv
  <1>3. Typed'
    BY <1>0 DEF Typed, Pcs, SetPcs, Values, OldStringGone, IsString, Halfway, Whole
  <1>4. Halfway(t)'
    BY <1>0, TableAssumption DEF Typed, Halfway, Whole, SetPcs, Values, OldStringGone, IsString, Value
  <1>5. Owned' /\ OnlyKey(k)
    BY <1>0, <1>1, <1>2, TableAssumption DEF Typed, Owned, OnlyKey, HasString, Halfway, Whole, SetPcs, OldStringGone, IsString
  <1>6. \A s \in DOMAIN heap : (\E j \in Keys \ {k} : HasString(j) /\ GlobalTable[j].val = s)
                               => s \in DOMAIN heap' /\ heap'[s] = heap[s]
    BY <1>0, <1>2 DEF Owned, HasString, Typed, Halfway, Whole, SetPcs, IsString
  <1> QED
    BY <1>0, <1>3, <1>4, <1>5, <1>6, SetStep DEF SetPcs

LEMMA NewStringIInv ==
  ASSUME IInv, NEW t \in Threads, NewString(t)
  PROVE  IInv'
  <1> DEFINE k == call[t].k
  <1> USE DEF NewString, Goes
  <1>0. Typed /\ Placed(t) /\ Halfway(t) /\ k \in Keys /\ call[t].v \in Values /\ Inside(t) /\ call[t].op = "set"
    BY CallParts DEF IInv, Typed, Placed, Inside, SetPcs
  <1>1. \A j \in Keys \ {k} : j \in DOMAIN GlobalTable =>
           /\ GlobalTable[j].type \in {"number", "string"}
           /\ HasString(j) => GlobalTable[j].val \in DOMAIN heap
    BY <1>0, OneKey, KeyComplete DEF HasString, IsString
  <1>2. Owned
    BY DEF IInv
  <1>3. Typed'
    BY <1>0 DEF Typed, Pcs, SetPcs, Values, OldStringGone, IsString, Halfway, Whole
  <1>4. Halfway(t)'
    BY <1>0, TableAssumption DEF Typed, Halfway, Whole, SetPcs, Values, OldStringGone, IsString, Value
  <1>5. Owned' /\ OnlyKey(k)
    BY <1>0, <1>1, <1>2, TableAssumption DEF Typed, Owned, OnlyKey, HasString, Halfway, Whole, SetPcs, OldStringGone, IsString
  <1>6. \A s \in DOMAIN heap : (\E j \in Keys \ {k} : HasString(j) /\ GlobalTable[j].val = s)
                               => s \in DOMAIN heap' /\ heap'[s] = heap[s]
    BY <1>0, <1>2 DEF Owned, HasString, Typed, Halfway, Whole, SetPcs, IsString
  <1> QED
    BY <1>0, <1>3, <1>4, <1>5, <1>6, SetStep DEF SetPcs

\* When the call returns, the table is what it was with the caller's key set.
LEMMA SetDone ==
  ASSUME IInv, NEW t \in Threads, SetReturns(t)
  PROVE  /\ \A k \in Keys : k \in DOMAIN GlobalTable => Whole(k)
         /\ call[t].op = "set" /\ call[t].k \in Keys
         /\ seen' = [seen EXCEPT ![call[t].k] = call[t].v]
  <1>1. Typed /\ Placed(t) /\ Halfway(t) /\ Inside(t) /\ call[t].op = "set" /\ call[t].k \in Keys
    BY CallParts DEF IInv, Typed, Placed, Inside, SetPcs, SetReturns
  <1>2. \A k \in Keys : k # call[t].k => Complete(k) /\ ~Writing(k)
    BY <1>1, OneKey DEF IInv
  <1>3. Whole(call[t].k) /\ Value(call[t].k) = call[t].v
    BY <1>1 DEF Halfway, SetReturns
  <1> QED
    BY <1>1, <1>2, <1>3 DEF Complete, SetReturns, Typed

LEMMA SetReturnsIInv ==
  ASSUME IInv, NEW t \in Threads, SetReturns(t)
  PROVE  IInv'
  <1> USE DEF SetReturns, Unlock, Goes, shared
  <1>0. Typed /\ Placed(t) /\ Halfway(t)
    BY DEF IInv
  <1>1. Typed'
    BY <1>0 DEF Typed, Pcs, SetPcs
  <1>2. ASSUME NEW u \in Threads PROVE (Placed(u) /\ Halfway(u))'
    <2>1. CASE u = t
      BY <1>0, <2>1 DEF Typed, Placed, Halfway, Inside, SetPcs, Idle
    <2>2. CASE u # t
      <3>1. pc'[u] = pc[u] /\ call'[u] = call[u]
        BY <1>0, <2>2 DEF Typed
      <3> QED
        BY <3>1, OtherKeeps
    <2> QED
      BY <2>1, <2>2
  <1>3. Alone'
    BY <1>0 DEF IInv, Alone, Typed, Inside, Lock, Writes
  <1>4. (\A k \in Keys : Complete(k))'
    BY SetDone DEF Complete, Whole, Value
  <1>5. Owned'
    BY DEF IInv, Owned, HasString, IsString
  <1>6. TimeSeen'
    <2>1. \A u \in Threads : (pc[u] = "half" <=> pc'[u] = "half") /\ (pc[u] = "half" => call'[u] = call[u] /\ copied'[u] = copied[u])
      BY <1>0 DEF Typed
    <2> QED
      BY <2>1 DEF IInv, TimeSeen
  <1> QED
    BY <1>1, <1>2, <1>3, <1>4, <1>5, <1>6 DEF IInv

-----------------------------------------------------------------------------
\* Every step keeps the invariant.
LEMMA NextIInv == IInv /\ [Next]_vars => IInv'
  <1> SUFFICES ASSUME IInv, [Next]_vars PROVE IInv'
    OBVIOUS
  <1>1. CASE UNCHANGED vars
    <2> USE <1>1 DEF vars, shared
    <2>1. Typed'
      BY DEF IInv, Typed
    <2>2. \A u \in Threads : (Placed(u) /\ Halfway(u))'
      BY OtherKeeps
    <2>3. Alone'
      BY DEF IInv, Alone, Inside, Lock, Writes
    <2>4. (\A k \in Keys : Complete(k))' /\ Owned'
      BY TableKept DEF Writing, Inside
    <2>5. TimeSeen'
      BY DEF IInv, TimeSeen
    <2> QED
      BY <2>1, <2>2, <2>3, <2>4, <2>5 DEF IInv
  <1>2. ASSUME NEW t \in Threads, NEW c \in Calls, CallPublic(t, c) PROVE IInv'
    BY <1>2, CallIInv
  <1>3. ASSUME NEW t \in Threads, TakeLock(t) PROVE IInv'
    BY <1>3, TakeLockIInv
  <1>4. ASSUME NEW t \in Threads, WakesByItself(t) PROVE IInv'
    BY <1>4, WakesIInv
  <1>5. ASSUME NEW t \in Threads, Step(t) PROVE IInv'
    BY <1>5, FindSlotIInv, DeleteStringIInv, StoreNumberIInv, AssignStringIInv, SetStringTypeIInv,
       NewStringIInv, SetReturnsIInv, LookUpIInv, ReadReturnsIInv, SetSecondsIInv, SetRestIInv,
       GetSecondsIInv, GetRestIInv, WaitIInv, ActivIInv DEF Step
  <1> QED
    BY <1>1, <1>2, <1>3, <1>4, <1>5 DEF Next

\* The invariant of the table and its locks, for the code of PublicAgency.
THEOREM TableSafe == Spec => []IInv
  BY InitIInv, NextIInv, PTL DEF Spec

\* Sq2PublicTabNewSlot creates and deletes the strings so that the table's keys
\* own them one for one.
THEOREM StringsAlwaysOwned == Spec => []StringsOwned
  <1>1. IInv => StringsOwned
    BY KeyComplete DEF IInv, Owned, StringsOwned, HasString, IsString
  <1> QED
    BY <1>1, TableSafe, PTL

-----------------------------------------------------------------------------
\* Each step of the table is a step of SharedTable or none.
LEMMA StartMaps ==
  ASSUME IInv, NEW t \in Threads, NEW c \in Calls, CallPublic(t, c)
  PROVE  Shared!Start(t, c)
  BY DEF IInv, Placed, CallPublic, Idle, Shared!Start, Shared!Idle

LEMMA SetMaps ==
  ASSUME IInv, NEW t \in Threads, SetReturns(t)
  PROVE  Shared!Set(t)
  BY SetDone DEF SetReturns, Unlock, Idle, Shared!Set, Shared!Return, Shared!Idle

\* A reader finds under its key what was seen there.
LEMMA ReaderSees ==
  ASSUME IInv, NEW t \in Threads, Inside(t), call[t].op \in {"get", "cmp", "is_in"}
  PROVE  /\ call[t].k \in Keys
         /\ seen[call[t].k] = Value(call[t].k)
         /\ call[t].k \in DOMAIN GlobalTable => Value(call[t].k) # Missing
  <1>1. call[t].k \in Keys
    BY CallParts DEF IInv, Typed
  <1>2. ~Writing(call[t].k)
    BY DEF Writing, IInv, Alone, Lock, Writes
  <1> QED
    BY <1>1, <1>2, KeyComplete, TableAssumption DEF IInv, Complete, Values

LEMMA LookUpMaps ==
  ASSUME IInv, NEW t \in Threads, LookUp(t)
  PROVE  Shared!Next \/ UNCHANGED Shared!vars
  <1>1. Inside(t)
    BY DEF LookUp, Inside
  <1>2. CASE call[t].k \in DOMAIN GlobalTable
    BY <1>2 DEF LookUp, Shared!vars
  <1>3. CASE call[t].k \notin DOMAIN GlobalTable
    <2>1. seen[call[t].k] = Missing
      BY <1>1, <1>3, ReaderSees DEF LookUp, Value
    <2>2. Shared!Get(t) \/ Shared!Compare(t) \/ Shared!In(t)
      BY <1>3, <2>1 DEF LookUp, Unlock, Idle, shared, Shared!Get, Shared!Compare, Shared!In, Shared!Return, Shared!Idle
    <2> QED
      BY <2>2 DEF Shared!Next
  <1> QED
    BY <1>2, <1>3

LEMMA ReadMaps ==
  ASSUME IInv, NEW t \in Threads, ReadReturns(t)
  PROVE  Shared!Get(t) \/ Shared!Compare(t) \/ Shared!In(t)
  <1>1. call[t].op \in {"get", "cmp", "is_in"} /\ Inside(t) /\ call[t].k \in DOMAIN GlobalTable
    BY DEF IInv, Placed, Halfway, Inside, ReadReturns
  <1>2. seen[call[t].k] = Value(call[t].k) /\ Value(call[t].k) # Missing
    BY <1>1, ReaderSees
  <1> QED
    BY <1>1, <1>2 DEF ReadReturns, Answer, Unlock, Idle, shared,
                      Shared!Get, Shared!Compare, Shared!In, Shared!Return, Shared!Idle

LEMMA TimeMaps ==
  ASSUME IInv, NEW t \in Threads, SetRest(t) \/ GetRest(t)
  PROVE  Shared!SetTime(t) \/ Shared!GetTime(t)
  BY DEF IInv, TimeSeen, SetRest, GetRest, Unlock, Idle, shared, Shared!SetTime, Shared!GetTime, Shared!Return, Shared!Idle

LEMMA SignalMaps ==
  ASSUME IInv, NEW t \in Threads, WaitForSignal(t) \/ WakesByItself(t) \/ ActivSignal(t)
  PROVE  (\E done \in SUBSET Threads : Shared!Signals(done)) \/ UNCHANGED Shared!vars
  <1>1. CASE WaitForSignal(t)
    BY <1>1 DEF WaitForSignal, Shared!vars
  <1>2. CASE WakesByItself(t)
    <2>1. Shared!Signals({t})
      BY <1>2 DEF WakesByItself, IInv, Placed, Typed, Idle, shared, Shared!Signals, Shared!Idle
    <2> QED
      BY <2>1
  <1>3. CASE ActivSignal(t)
    <2> DEFINE done == {t} \cup {u \in Threads : pc[u] = "asleep"}
    <2>1. Shared!Signals(done)
      BY <1>3 DEF ActivSignal, IInv, Placed, Idle, shared, Shared!Signals, Shared!Idle
    <2> QED
      BY <2>1
  <1> QED
    BY <1>1, <1>2, <1>3

LEMMA StepMaps == IInv /\ [Next]_vars => [Shared!Next]_Shared!vars
  <1> SUFFICES ASSUME IInv, [Next]_vars PROVE Shared!Next \/ UNCHANGED Shared!vars
    BY DEF Shared!vars
  <1>1. CASE UNCHANGED vars
    BY <1>1 DEF vars, Shared!vars
  <1>2. ASSUME NEW t \in Threads, NEW c \in Calls, CallPublic(t, c) PROVE Shared!Next
    BY <1>2, StartMaps DEF Shared!Next
  <1>3. ASSUME NEW t \in Threads, TakeLock(t) PROVE UNCHANGED Shared!vars
    BY <1>3 DEF TakeLock, Shared!vars
  <1>4. ASSUME NEW t \in Threads, Step(t) \/ WakesByItself(t) PROVE Shared!Next \/ UNCHANGED Shared!vars
    <2>1. CASE FindSlot(t) \/ DeleteString(t) \/ StoreNumber(t) \/ AssignString(t) \/ SetStringType(t)
               \/ NewString(t) \/ SetSeconds(t) \/ GetSeconds(t)
      BY <2>1 DEF FindSlot, DeleteString, StoreNumber, AssignString, SetStringType, NewString, SetSeconds,
                  GetSeconds, Shared!vars
    <2>2. CASE SetReturns(t)
      BY <2>2, SetMaps DEF Shared!Next
    <2>3. CASE LookUp(t)
      BY <2>3, LookUpMaps
    <2>4. CASE ReadReturns(t)
      BY <2>4, ReadMaps DEF Shared!Next
    <2>5. CASE SetRest(t) \/ GetRest(t)
      BY <2>5, TimeMaps DEF Shared!Next
    <2>6. CASE WaitForSignal(t) \/ WakesByItself(t) \/ ActivSignal(t)
      BY <2>6, SignalMaps DEF Shared!Next
    <2> QED
      BY <1>4, <2>1, <2>2, <2>3, <2>4, <2>5, <2>6 DEF Step
  <1> QED
    BY <1>1, <1>2, <1>3, <1>4 DEF Next

LEMMA InitMaps == Init => Shared!Init
  BY DEF Init, Idle, Shared!Init, Shared!Idle

\* Whatever the threads do in Sq2PublicTabNewSlot, Get, Compare, In and with the
\* time, each call works at one moment: the two locks make the class Public the
\* shared table that SharedTable promises.
THEOREM TableShared == Spec => Implements
  BY InitMaps, StepMaps, TableSafe, PTL DEF Spec, Implements, Shared!Spec

-----------------------------------------------------------------------------
(***************************************************************************)
(* The lock of the Windows build (RWLock), which stands where the table's  *)
(* lock is: for any set of threads one writer at a time, a count that is   *)
(* right, and events that are always set again, so that nobody waits for   *)
(* ever.                                                                   *)
(***************************************************************************)

(* A thread owns the writers' mutex exactly between taking and releasing   *)
(* it, and EventWr is reset exactly while a writer is in.                  *)
TokenOK ==
    /\ \A t, u \in MuWrToken : t = u
    /\ \A t \in Lockers : t \in MuWrToken <=> at[t] \in {"token", "waited", "writing", "released"}
    /\ EventWr <=> Writers = {}

LockInv == LockTypeOK /\ TokenOK /\ CountIsReaders /\ (Readers = {} => EventRd)

USE DEF Readers, Writers, At

LEMMA ReadersFinite == ASSUME LockInv PROVE IsFiniteSet(Readers)
BY LockAssumption, FS_Subset

LEMMA LockStarts == ASSUME LockInit PROVE LockInv
<1>1. Readers = {} /\ Writers = {}
  BY DEF LockInit
<1>2. LockTypeOK
  BY LockAssumption DEF LockInit, LockTypeOK, Places
<1>3. TokenOK
  BY <1>1 DEF LockInit, TokenOK
<1>4. CountIsReaders
  BY <1>1, FS_EmptySet DEF LockInit, CountIsReaders
<1> QED
  BY <1>2, <1>3, <1>4 DEF LockInit, LockInv

(* A step of a thread that neither becomes nor stops being a reader.       *)
LEMMA SameReaders ==
    ASSUME LockInv, UNCHANGED read_que, Readers' = Readers, EventRd => EventRd'
    PROVE  CountIsReaders' /\ (Readers' = {} => EventRd')
BY DEF LockInv, CountIsReaders

(* A step of a thread that neither becomes nor stops being a writer.       *)
LEMMA SameWriters ==
    ASSUME LockInv, UNCHANGED <<EventWr, MuWrToken>>, NEW t \in Lockers,
           NEW p \in {"idle", "queued", "counted", "passed", "reading"},
           at' = [at EXCEPT ![t] = p],
           at[t] \in {"idle", "queued", "counted", "passed", "reading"}
    PROVE  TokenOK'
<1>1. at \in [Lockers -> Places]
  BY DEF LockInv, LockTypeOK
<1>2. Writers' = Writers
  BY <1>1
<1>3. \A u \in Lockers : u \in MuWrToken' <=> at'[u] \in {"token", "waited", "writing", "released"}
  BY <1>1 DEF LockInv, TokenOK
<1> QED
  BY <1>2, <1>3 DEF LockInv, TokenOK

LEMMA LockReadInv ==
    ASSUME LockInv, NEW t \in Lockers, wait_read_queue(t) \/ ReadStep(t)
    PROVE  LockInv'
<1>1. LockTypeOK /\ CountIsReaders
  BY DEF LockInv
<1>2. at \in [Lockers -> Places] /\ read_que \in Nat
  BY <1>1 DEF LockTypeOK
<1>3. CASE wait_read_queue(t)
  <2>1. LockTypeOK'
    BY <1>1, <1>3, LockAssumption DEF wait_read_queue, Move, Again, LockTypeOK, Places
  <2>2. Readers' = Readers /\ TokenOK'
    BY <1>2, <1>3, SameWriters DEF wait_read_queue, Move
  <2> QED
    BY <1>3, <2>1, <2>2, SameReaders DEF wait_read_queue, LockInv
<1>4. CASE CountReader(t)
  <2>1. LockTypeOK'
    BY <1>1, <1>4 DEF CountReader, Move, LockTypeOK, Places
  <2>2. Readers' = Readers \union {t} /\ t \notin Readers
    BY <1>2, <1>4 DEF CountReader, Move
  <2>3. CountIsReaders'
    BY <1>1, <1>4, <2>2, ReadersFinite, FS_AddElement DEF CountReader, CountIsReaders
  <2>4. TokenOK'
    BY <1>4, SameWriters DEF CountReader, Move
  <2> QED
    BY <2>1, <2>2, <2>3, <2>4 DEF LockInv
<1>5. CASE wait_write_free(t)
  <2>1. LockTypeOK'
    BY <1>1, <1>5 DEF wait_write_free, Move, LockTypeOK, Places
  <2>2. Readers' = Readers /\ TokenOK'
    BY <1>2, <1>5, SameWriters DEF wait_write_free, Move
  <2> QED
    BY <1>5, <2>1, <2>2, SameReaders DEF wait_write_free, LockInv
<1>6. CASE set_read_busy(t)
  <2>1. LockTypeOK'
    BY <1>1, <1>6 DEF set_read_busy, Move, LockTypeOK, Places
  <2>2. Readers' = Readers /\ t \in Readers /\ TokenOK'
    BY <1>2, <1>6, SameWriters DEF set_read_busy, Move
  <2>3. CountIsReaders'
    BY <1>1, <1>6, <2>2 DEF set_read_busy, CountIsReaders
  <2> QED
    BY <2>1, <2>2, <2>3 DEF LockInv
<1>7. CASE read_unlock(t)
  <2>1. Readers' = Readers \ {t} /\ t \in Readers
    BY <1>2, <1>7 DEF read_unlock, Move
  <2>2. /\ IsFiniteSet(Readers')
        /\ read_que' = Cardinality(Readers') /\ read_que' \in Nat
        /\ read_que' = 0 <=> Readers' = {}
    <3>1. IsFiniteSet(Readers \ {t}) /\ Cardinality(Readers \ {t}) = Cardinality(Readers) - 1
      BY <2>1, ReadersFinite, FS_RemoveElement
    <3>2. Cardinality(Readers \ {t}) \in Nat
      BY <3>1, FS_CardinalityType
    <3>3. Cardinality(Readers \ {t}) = 0 <=> Readers \ {t} = {}
      BY <3>1, FS_EmptySet
    <3>4. read_que' = Cardinality(Readers) - 1
      BY <1>1, <1>7 DEF read_unlock, CountIsReaders
    <3> QED
      BY <2>1, <3>1, <3>2, <3>3, <3>4
  <2>3. LockTypeOK'
    <3>1. EventRd' \in BOOLEAN
      BY <1>7 DEF read_unlock
    <3>2. at' \in [Lockers -> Places]
      BY <1>2, <1>7 DEF read_unlock, Move, Places
    <3> QED
      BY <1>1, <1>7, <2>2, <3>1, <3>2 DEF read_unlock, LockTypeOK
  <2>4. TokenOK'
    BY <1>7, SameWriters DEF read_unlock, Move
  <2>5. Readers' = {} => EventRd'
    BY <1>7, <2>2 DEF read_unlock, LastOut
  <2> QED
    BY <2>2, <2>3, <2>4, <2>5 DEF LockInv, CountIsReaders
<1> QED
  BY <1>3, <1>4, <1>5, <1>6, <1>7 DEF ReadStep

LEMMA LockWriteInv ==
    ASSUME LockInv, NEW t \in Lockers, get_write_token(t) \/ WriteStep(t)
    PROVE  LockInv'
<1>1. LockTypeOK /\ TokenOK
  BY DEF LockInv
<1>2. at \in [Lockers -> Places]
  BY <1>1 DEF LockTypeOK
<1>3. CASE get_write_token(t)
  <2>1. LockTypeOK'
    BY <1>1, <1>3, LockAssumption DEF get_write_token, Move, Again, LockTypeOK, Places
  <2>2. Readers' = Readers /\ Writers' = Writers
    BY <1>2, <1>3 DEF get_write_token, Move
  <2>3. TokenOK'
    BY <1>1, <1>2, <1>3, <2>2 DEF get_write_token, Move, TokenOK
  <2> QED
    BY <1>3, <2>1, <2>2, <2>3, SameReaders DEF get_write_token, LockInv
<1>4. CASE wait_read_free(t)
  <2>1. LockTypeOK'
    BY <1>1, <1>4 DEF wait_read_free, Move, LockTypeOK, Places
  <2>2. Readers' = Readers /\ Writers' = Writers
    BY <1>2, <1>4 DEF wait_read_free, Move
  <2>3. TokenOK'
    BY <1>1, <1>2, <1>4, <2>2 DEF wait_read_free, Move, TokenOK
  <2> QED
    BY <1>4, <2>1, <2>2, <2>3, SameReaders DEF wait_read_free, LockInv
<1>5. CASE set_write_busy(t)
  <2>1. LockTypeOK'
    BY <1>1, <1>5 DEF set_write_busy, Move, LockTypeOK, Places
  <2>2. Readers' = Readers /\ Writers' = Writers \union {t}
    BY <1>2, <1>5 DEF set_write_busy, Move
  <2>3. TokenOK'
    BY <1>1, <1>2, <1>5, <2>2 DEF set_write_busy, Move, TokenOK
  <2> QED
    BY <1>5, <2>1, <2>2, <2>3, SameReaders DEF set_write_busy, LockInv
<1>6. CASE set_write_free(t)
  <2>1. LockTypeOK'
    BY <1>1, <1>6 DEF set_write_free, Move, LockTypeOK, Places
  <2>2. Readers' = Readers /\ Writers' = Writers \ {t}
    BY <1>2, <1>6 DEF set_write_free, Move
  <2>3. \A u \in Writers : u = t
    BY <1>1, <1>6 DEF set_write_free, Move, TokenOK
  <2>4. TokenOK'
    BY <1>1, <1>2, <1>6, <2>2, <2>3 DEF set_write_free, Move, TokenOK
  <2> QED
    BY <1>6, <2>1, <2>2, <2>4, SameReaders DEF set_write_free, LockInv
<1>7. CASE release_write_token(t)
  <2>1. LockTypeOK'
    BY <1>1, <1>7 DEF release_write_token, Move, LockTypeOK, Places
  <2>2. Readers' = Readers /\ Writers' = Writers
    BY <1>2, <1>7 DEF release_write_token, Move
  <2>3. TokenOK'
    BY <1>1, <1>2, <1>7, <2>2 DEF release_write_token, Move, TokenOK
  <2> QED
    BY <1>7, <2>1, <2>2, <2>3, SameReaders DEF release_write_token, LockInv
<1> QED
  BY <1>3, <1>4, <1>5, <1>6, <1>7 DEF WriteStep

LEMMA LockStep == LockInv /\ [LockNext]_lockVars => LockInv'
<1> SUFFICES ASSUME LockInv, [LockNext]_lockVars
             PROVE  LockInv'
  OBVIOUS
<1>1. ASSUME NEW t \in Lockers, wait_read_queue(t) \/ ReadStep(t) PROVE LockInv'
  BY <1>1, LockReadInv
<1>2. ASSUME NEW t \in Lockers, get_write_token(t) \/ WriteStep(t) PROVE LockInv'
  BY <1>2, LockWriteInv
<1>3. CASE UNCHANGED lockVars
  BY <1>3 DEF lockVars, LockInv, LockTypeOK, TokenOK, CountIsReaders
<1> QED
  BY <1>1, <1>2, <1>3 DEF LockNext

LEMMA LockInvariance == LockSpec => []LockInv
BY LockStarts, LockStep, PTL DEF LockSpec

-----------------------------------------------------------------------------
(* Every variable of the lock keeps its type.                              *)
THEOREM LockTypes == LockSpec => []LockTypeOK
<1>1. LockInv => LockTypeOK
  BY DEF LockInv
<1> QED
  BY <1>1, LockInvariance, PTL

(* Writers exclude each other, and hold new readers back.                  *)
THEOREM WritersExclude == LockSpec => []OneWriter
<1>1. LockInv => OneWriter
  BY DEF LockInv, TokenOK, OneWriter
<1> QED
  BY <1>1, LockInvariance, PTL

(* read_que is the number of readers that came in and have not left.       *)
THEOREM CountIsRight == LockSpec => []CountIsReaders
<1>1. LockInv => CountIsReaders
  BY DEF LockInv
<1> QED
  BY <1>1, LockInvariance, PTL

(* Each event is set whenever those it waits for are gone.                 *)
THEOREM EventsAlwaysComeBack == LockSpec => []EventsComeBack
<1>1. LockInv => EventsComeBack
  BY DEF LockInv, TokenOK, EventsComeBack
<1> QED
  BY <1>1, LockInvariance, PTL
=============================================================================
