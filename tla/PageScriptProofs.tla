-------------------------- MODULE PageScriptProofs --------------------------
(***************************************************************************)
(* Dynamic pages, for any templates, conditions and bounds.  Whatever the  *)
(* authors do, pCstrLock is free once no Ajax call is in progress; with no *)
(* template called while it runs, all text inside an Ajax call is escaped; *)
(* and with no vice in Slack a page shows what it is meant to show.        *)
(* The debugger of such scripts is at the end: it never stops deeper than  *)
(* was asked for, and stops exactly where it was asked to.                 *)
(***************************************************************************)
EXTENDS PageScript, Debugger, Integers, SequenceTheorems, WellFoundedInduction, TLAPS

Branch == [cond : Conds, value : BOOLEAN, turned : BOOLEAN]
CallRecord ==
    [obj : Objs, ajax : BOOLEAN, on : BOOLEAN, expr : SUBSET Conds, ifs : Seq(Branch), base : BOOLEAN]
Kinds == {"text", "markup", "value"}
Written1 == [what : Kinds, seg : Nat, esc : BOOLEAN, hidden : BOOLEAN, quoted : BOOLEAN]

\* The calls: the page first, templates after it.
Calls(stk) ==
    /\ stk \in Seq(CallRecord)
    /\ \A i \in 1 .. Len(stk) : (stk[i].obj = Page <=> i = 1) /\ (i = 1 => ~stk[i].ajax)

Typed ==
    /\ Calls(stack)
    /\ flag_switch \in [Objs -> BOOLEAN]
    /\ pCstrLock \in Objs \cup {NoObj}
    /\ env \in [Conds -> BOOLEAN]
    /\ out \in Seq(Written1)
    /\ seg \in Nat

\* Who holds the lock: the caller of an Ajax call that is in progress.
Holder(stk, lock, i) == i \in AjaxCalls(stk) /\ stk[i - 1].obj = lock
Held(stk, lock) == lock # NoObj => \E i \in AjaxCalls(stk) : Holder(stk, lock, i)

LockInv == Typed /\ Held(stack, pCstrLock)

\* With no template called while it runs: the caller of the first of them.
Apart(stk) == \A i, j \in 1 .. Len(stk) : stk[i].obj = stk[j].obj => i = j
FirstAjax(stk, i) == i \in AjaxCalls(stk) /\ \A j \in AjaxCalls(stk) : i <= j
HeldByFirst(stk, lock) ==
    /\ Apart(stk)
    /\ AjaxCalls(stk) = {} => lock = NoObj
    /\ AjaxCalls(stk) # {} => lock # NoObj /\ \E i \in AjaxCalls(stk) : FirstAjax(stk, i) /\ stk[i - 1].obj = lock

\* With no vice: at most one if at a time, whose value the switch has.
FrameOK(c, flags, values) ==
    /\ c.base /\ Len(c.ifs) <= 1
    /\ flags[c.obj] = (c.ifs = <<>> \/ c.ifs[1].value)
    /\ c.ifs # <<>> /\ ~c.ifs[1].turned =>
          c.expr = {c.ifs[1].cond} /\ values[c.ifs[1].cond] = c.ifs[1].value
CleanInv ==
    /\ LockInv /\ HeldByFirst(stack, pCstrLock)
    /\ \A i \in 1 .. Len(stack) : FrameOK(stack[i], flag_switch, env)

-----------------------------------------------------------------------------
(* Stacks of calls: the top replaced, a call pushed, calls left.           *)

LEMMA Indices ==
    ASSUME NEW stk, Calls(stk)
    PROVE  /\ Len(stk) \in Nat /\ DOMAIN stk = 1 .. Len(stk)
           /\ \A i \in 1 .. Len(stk) : stk[i] \in CallRecord
           /\ AjaxCalls(stk) = {i \in 1 .. Len(stk) : stk[i].ajax}
           /\ \A i \in AjaxCalls(stk) : i \in 2 .. Len(stk) /\ i - 1 \in 1 .. Len(stk)
<1>1. stk \in Seq(CallRecord)
  BY DEF Calls
<1>2. Len(stk) \in Nat /\ DOMAIN stk = 1 .. Len(stk)
  BY <1>1, LenProperties
<1>3. \A i \in 1 .. Len(stk) : stk[i] \in CallRecord
  BY <1>1, ElementOfSeq
<1>4. AjaxCalls(stk) = {i \in 1 .. Len(stk) : stk[i].ajax}
  BY <1>2 DEF AjaxCalls
<1>5. ASSUME NEW i \in AjaxCalls(stk) PROVE i \in 2 .. Len(stk) /\ i - 1 \in 1 .. Len(stk)
  <2>1. i \in 1 .. Len(stk) /\ stk[i].ajax
    BY <1>4
  <2>2. i # 1
    BY <2>1 DEF Calls
  <2> QED
    BY <1>2, <2>1, <2>2
<1> QED
  BY <1>2, <1>3, <1>4, <1>5

LEMMA TopIndex ==
    ASSUME NEW stk, Calls(stk), stk # <<>>
    PROVE  Len(stk) \in 1 .. Len(stk) /\ Last(stk) = stk[Len(stk)] /\ Last(stk) \in CallRecord
<1>1. stk \in Seq(CallRecord) /\ Len(stk) \in Nat
  BY Indices DEF Calls
<1>2. Len(stk) \in Nat \ {0}
  BY <1>1, EmptySeq
<1> QED
  BY <1>2, Indices DEF Last

\* The same calls, seen by the lock.
Alike(new, old) ==
    /\ Len(new) = Len(old)
    /\ \A i \in 1 .. Len(old) : new[i].obj = old[i].obj /\ new[i].ajax = old[i].ajax

LEMMA PutTop ==
    ASSUME NEW stk, Calls(stk), stk # <<>>,
           NEW f \in CallRecord, f.obj = Last(stk).obj, f.ajax = Last(stk).ajax
    PROVE  LET new == [stk EXCEPT ![Len(stk)] = f] IN
           /\ Calls(new) /\ Alike(new, stk) /\ new # <<>>
           /\ new[Len(new)] = f
           /\ \A i \in 1 .. Len(stk) : i # Len(stk) => new[i] = stk[i]
<1> DEFINE new == [stk EXCEPT ![Len(stk)] = f]
<1>1. stk \in Seq(CallRecord) /\ Len(stk) \in 1 .. Len(stk) /\ Len(stk) \in Nat
  BY TopIndex, Indices DEF Calls
<1>2. /\ new \in Seq(CallRecord) /\ Len(new) = Len(stk)
      /\ \A j \in 1 .. Len(stk) : new[j] = IF j = Len(stk) THEN f ELSE stk[j]
  BY <1>1, ExceptSeq
<1> HIDE DEF new
<1>3. Alike(new, stk)
  BY <1>2, TopIndex DEF Alike
<1>4. new # <<>>
  BY <1>1, <1>2, EmptySeq
<1>5. Calls(new)
  BY <1>2, <1>3 DEF Calls, Alike
<1> QED
  BY <1>1, <1>2, <1>3, <1>4, <1>5 DEF new

LEMMA AlikeKeeps ==
    ASSUME NEW new, NEW old, NEW lock, Calls(new), Calls(old), Alike(new, old)
    PROVE  /\ AjaxCalls(new) = AjaxCalls(old)
           /\ Held(old, lock) => Held(new, lock)
           /\ HeldByFirst(old, lock) => HeldByFirst(new, lock)
<1>1. AjaxCalls(new) = AjaxCalls(old)
  BY Indices DEF Alike
<1>2. \A i \in AjaxCalls(old) : new[i - 1].obj = old[i - 1].obj
  BY Indices DEF Alike
<1>3. Held(old, lock) => Held(new, lock)
  BY <1>1, <1>2 DEF Held, Holder
<1>4. Apart(old) => Apart(new)
  BY DEF Apart, Alike
<1> QED
  BY <1>1, <1>2, <1>3, <1>4 DEF HeldByFirst, FirstAjax

LEMMA Pushed ==
    ASSUME NEW stk, Calls(stk), stk # <<>>, NEW c \in CallRecord, c.obj \in Templates
    PROVE  LET new == Append(stk, c) IN
           /\ Calls(new) /\ Len(new) = Len(stk) + 1 /\ new # <<>>
           /\ new[Len(stk) + 1] = c
           /\ \A i \in 1 .. Len(stk) : new[i] = stk[i]
           /\ AjaxCalls(new) = AjaxCalls(stk) \cup (IF c.ajax THEN {Len(stk) + 1} ELSE {})
<1> DEFINE new == Append(stk, c)
<1>1. stk \in Seq(CallRecord) /\ Len(stk) \in 1 .. Len(stk) /\ Len(stk) \in Nat
  BY TopIndex, Indices DEF Calls
<1>2. /\ new \in Seq(CallRecord) /\ new # <<>> /\ Len(new) = Len(stk) + 1
      /\ \A i \in 1 .. Len(stk) : new[i] = stk[i]
      /\ new[Len(stk) + 1] = c
  BY <1>1, AppendProperties
<1>3. c.obj # Page
  BY PageAssumption
<1> HIDE DEF new
<1>4. Calls(new)
  <2> SUFFICES ASSUME NEW i \in 1 .. Len(stk) + 1
               PROVE  (new[i].obj = Page <=> i = 1) /\ (i = 1 => ~new[i].ajax)
    BY <1>2 DEF Calls
  <2>1. CASE i = Len(stk) + 1
    BY <1>1, <1>2, <1>3, <2>1
  <2>2. CASE i \in 1 .. Len(stk)
    BY <1>2, <2>2 DEF Calls
  <2> QED
    BY <1>1, <2>1, <2>2
<1>5. AjaxCalls(new) = AjaxCalls(stk) \cup (IF c.ajax THEN {Len(stk) + 1} ELSE {})
  <2>1. AjaxCalls(new) = {i \in 1 .. Len(stk) + 1 : new[i].ajax}
    BY <1>2, <1>4, Indices
  <2>2. AjaxCalls(stk) = {i \in 1 .. Len(stk) : stk[i].ajax}
    BY Indices
  <2> HIDE DEF AjaxCalls
  <2>3. \A i \in 1 .. Len(stk) + 1 : i \in 1 .. Len(stk) \/ i = Len(stk) + 1
    BY <1>1
  <2> QED
    BY <1>1, <1>2, <2>1, <2>2, <2>3
<1> QED
  BY <1>2, <1>4, <1>5 DEF new

LEMMA Cut ==
    ASSUME NEW stk, Calls(stk), NEW n \in 0 .. Len(stk)
    PROVE  LET new == SubSeq(stk, 1, n) IN
           /\ Calls(new) /\ Len(new) = n
           /\ \A i \in 1 .. n : new[i] = stk[i]
           /\ AjaxCalls(new) = {i \in AjaxCalls(stk) : i <= n}
<1> DEFINE new == SubSeq(stk, 1, n)
<1>1. Len(stk) \in Nat /\ n \in Nat /\ \A i \in 1 .. n : i \in 1 .. Len(stk) /\ stk[i] \in CallRecord
  BY Indices
<1>2. /\ new \in Seq(CallRecord) /\ Len(new) = n
      /\ \A i \in 1 .. n : new[i] = stk[i]
  <2>1. /\ SubSeq(stk, 1, n) \in Seq(CallRecord)
        /\ Len(SubSeq(stk, 1, n)) = IF 1 <= n THEN n - 1 + 1 ELSE 0
        /\ \A i \in 1 .. n - 1 + 1 : SubSeq(stk, 1, n)[i] = stk[1 + i - 1]
    BY <1>1, SubSeqProperties
  <2> QED
    BY <1>1, <2>1
<1> HIDE DEF new
<1>3. Calls(new)
  BY <1>1, <1>2 DEF Calls
<1>4. AjaxCalls(new) = {i \in 1 .. n : new[i].ajax}
  BY <1>2, <1>3, Indices
<1> QED
  BY <1>1, <1>2, <1>3, <1>4, Indices DEF new

-----------------------------------------------------------------------------
(* Least and greatest elements, from the order of Nat being well founded.  *)

Less == {p \in Nat \X Nat : p[1] < p[2]}

LEMMA Least == ASSUME NEW T, T \subseteq Nat, T # {} PROVE \E x \in T : \A y \in T : x <= y
<1>1. IsWellFoundedOn(Less, Nat)
  BY NatLessThanWellFounded DEF Less, OpToRel
<1>2. PICK x \in T : \A y \in T : ~ (<<y, x>> \in Less)
  BY <1>1, WFMin
<1>3. ASSUME NEW y \in T PROVE x <= y
  <2>1. <<y, x>> \in Nat \X Nat /\ x \in Nat /\ y \in Nat
    OBVIOUS
  <2>2. ~ (y < x)
    BY <1>2, <2>1 DEF Less
  <2> QED
    BY <2>1, <2>2
<1> QED
  BY <1>3

LEMMA Greatest ==
    ASSUME NEW n \in Nat, NEW T, T \subseteq 0 .. n, T # {}
    PROVE  \E x \in T : \A y \in T : y <= x
<1> DEFINE U == {n - x : x \in T}
<1>1. \A x \in T : x \in Nat /\ n - x \in Nat
  OBVIOUS
<1>2. U \subseteq Nat /\ U # {}
  BY <1>1
<1>3. PICK u \in U : \A y \in U : u <= y
  BY <1>2, Least
<1>4. PICK x \in T : u = n - x
  OBVIOUS
<1>5. \A y \in T : n - x <= n - y
  BY <1>3, <1>4
<1> QED
  BY <1>1, <1>5

LEMMA InnermostIsLast ==
    ASSUME NEW stk, Calls(stk), AjaxCalls(stk) # {}
    PROVE  /\ Innermost(AjaxCalls(stk)) \in AjaxCalls(stk)
           /\ \A j \in AjaxCalls(stk) : j <= Innermost(AjaxCalls(stk))
<1>1. Len(stk) \in Nat /\ AjaxCalls(stk) \subseteq 0 .. Len(stk)
  BY Indices
<1>2. \E i \in AjaxCalls(stk) : \A j \in AjaxCalls(stk) : j <= i
  BY <1>1, Greatest
<1> QED
  BY <1>2 DEF Innermost

LEMMA OutermostIsFirst ==
    ASSUME NEW stk, Calls(stk), AjaxCalls(stk) # {}
    PROVE  \E i \in AjaxCalls(stk) : FirstAjax(stk, i)
<1>1. AjaxCalls(stk) \subseteq Nat
  BY Indices
<1> QED
  BY <1>1, Least DEF FirstAjax

-----------------------------------------------------------------------------
(* The lock as calls come and go.                                          *)

\* pCstrLock as ajaxTemplate leaves it, or any other call.
Locked(lock, c, caller) == IF c.ajax /\ lock = NoObj THEN caller ELSE lock

LEMMA PushKeeps ==
    ASSUME NEW stk, Calls(stk), stk # <<>>, NEW c \in CallRecord, c.obj \in Templates,
           NEW lock
    PROVE  LET new == Append(stk, c) IN
           /\ Held(stk, lock) => Held(new, Locked(lock, c, Last(stk).obj))
           /\ HeldByFirst(stk, lock) /\ (\A i \in 1 .. Len(stk) : stk[i].obj # c.obj)
                => HeldByFirst(new, Locked(lock, c, Last(stk).obj))
<1> DEFINE new == Append(stk, c)
           n == Len(stk)
           lock1 == Locked(lock, c, Last(stk).obj)
<1>0. /\ Calls(new) /\ Len(new) = Len(stk) + 1 /\ new[Len(stk) + 1] = c
      /\ \A i \in 1 .. Len(stk) : new[i] = stk[i]
      /\ AjaxCalls(new) = AjaxCalls(stk) \cup (IF c.ajax THEN {Len(stk) + 1} ELSE {})
  BY Pushed
<1>1. /\ Calls(new) /\ Len(new) = n + 1 /\ new[n + 1] = c
      /\ \A i \in 1 .. n : new[i] = stk[i]
      /\ AjaxCalls(new) = AjaxCalls(stk) \cup (IF c.ajax THEN {n + 1} ELSE {})
  BY <1>0
<1>2. n \in Nat /\ n \in 1 .. n /\ Last(stk) = stk[n] /\ Last(stk).obj \in Objs
  BY TopIndex, Indices DEF CallRecord
<1>3. \A i \in AjaxCalls(stk) : i \in 2 .. n /\ i - 1 \in 1 .. n /\ new[i - 1] = stk[i - 1]
  BY <1>1, Indices
<1>4. c.ajax => n + 1 \in AjaxCalls(new) /\ new[(n + 1) - 1].obj = Last(stk).obj
  BY <1>1, <1>2
<1>5. Last(stk).obj # NoObj
  BY <1>2, PageAssumption DEF Objs
<1> HIDE DEF n, new
<1>6. Held(stk, lock) => Held(new, lock1)
  BY <1>1, <1>3, <1>4 DEF Held, Holder, Locked
<1>7. ASSUME HeldByFirst(stk, lock), \A i \in 1 .. n : stk[i].obj # c.obj
      PROVE  HeldByFirst(new, lock1)
  <2>1. Apart(new)
    <3>1. \A i, j \in 1 .. n : new[i].obj = new[j].obj => i = j
      BY <1>1, <1>7 DEF HeldByFirst, Apart, n
    <3>2. \A i \in 1 .. n : new[i].obj # new[n + 1].obj
      BY <1>1, <1>7
    <3>3. \A i \in 1 .. n + 1 : i \in 1 .. n \/ i = n + 1
      BY <1>2
    <3> QED
      BY <1>1, <3>1, <3>2, <3>3 DEF Apart
  <2>2. CASE AjaxCalls(stk) # {}
    <3>1. PICK i \in AjaxCalls(stk) : FirstAjax(stk, i) /\ stk[i - 1].obj = lock
      BY <1>7, <2>2 DEF HeldByFirst
    <3>2. lock # NoObj /\ lock1 = lock
      BY <1>7, <2>2 DEF HeldByFirst, Locked
    <3>3. FirstAjax(new, i) /\ new[i - 1].obj = lock
      BY <1>1, <1>2, <1>3, <3>1 DEF FirstAjax
    <3> QED
      BY <1>1, <2>1, <2>2, <3>2, <3>3 DEF HeldByFirst
  <2>3. CASE AjaxCalls(stk) = {} /\ c.ajax
    <3>1. AjaxCalls(new) = {n + 1} /\ lock = NoObj /\ lock1 = Last(stk).obj
      BY <1>1, <1>7, <2>3 DEF HeldByFirst, Locked
    <3>2. FirstAjax(new, n + 1) /\ new[(n + 1) - 1].obj = lock1
      <4>1. n + 1 \in AjaxCalls(new) /\ \A k \in AjaxCalls(new) : n + 1 <= k
        BY <1>2, <3>1
      <4> QED
        BY <1>4, <2>3, <3>1, <4>1 DEF FirstAjax
    <3> QED
      BY <1>5, <2>1, <3>1, <3>2 DEF HeldByFirst
  <2>4. CASE AjaxCalls(stk) = {} /\ ~c.ajax
    <3>1. AjaxCalls(new) = {} /\ lock1 = NoObj
      BY <1>1, <1>7, <2>4 DEF HeldByFirst, Locked
    <3> QED
      BY <2>1, <3>1 DEF HeldByFirst
  <2> QED
    BY <2>2, <2>3, <2>4
<1> QED
  BY <1>6, <1>7 DEF n, new

\* Calls that are not Ajax calls are left.
LEMMA DropKeeps ==
    ASSUME NEW stk, Calls(stk), NEW lock, NEW n \in 0 .. Len(stk),
           \A i \in AjaxCalls(stk) : i <= n, NEW new, new = SubSeq(stk, 1, n)
    PROVE  /\ Held(stk, lock) => Held(new, lock)
           /\ HeldByFirst(stk, lock) => HeldByFirst(new, lock)
<1>0. /\ Calls(new) /\ Len(new) = n /\ \A i \in 1 .. n : new[i] = stk[i]
      /\ AjaxCalls(new) = {i \in AjaxCalls(stk) : i <= n}
  BY Cut
<1>1. /\ Calls(new) /\ Len(new) = n /\ \A i \in 1 .. n : new[i] = stk[i]
      /\ AjaxCalls(new) = AjaxCalls(stk)
  BY <1>0
<1>2. \A i \in AjaxCalls(stk) : new[i - 1] = stk[i - 1]
  BY <1>1, Indices
<1>3. Held(stk, lock) => Held(new, lock)
  BY <1>1, <1>2 DEF Held, Holder
<1>4. Apart(stk) => Apart(new)
  <2>1. \A i \in 1 .. n : i \in 1 .. Len(stk)
    BY Indices
  <2> QED
    BY <1>1, <2>1 DEF Apart
<1> QED
  BY <1>1, <1>2, <1>3, <1>4 DEF HeldByFirst, FirstAjax

\* The innermost Ajax call j is left, and its caller releases the lock.
LEMMA LeaveKeeps ==
    ASSUME NEW stk, Calls(stk), NEW lock, NEW j \in AjaxCalls(stk),
           \A i \in AjaxCalls(stk) : i <= j, NEW new, new = SubSeq(stk, 1, j - 1)
    PROVE  /\ Held(stk, lock) => Held(new, Release(lock, stk[j - 1].obj))
           /\ HeldByFirst(stk, lock) => HeldByFirst(new, Release(lock, stk[j - 1].obj))
<1> DEFINE obj == stk[j - 1].obj
<1>1. j \in 2 .. Len(stk) /\ j - 1 \in 0 .. Len(stk) /\ Len(stk) \in Nat
      /\ \A i \in AjaxCalls(stk) : i \in 2 .. Len(stk) /\ i - 1 \in 1 .. Len(stk)
  BY Indices
<1>2. /\ Calls(new) /\ Len(new) = j - 1 /\ \A i \in 1 .. j - 1 : new[i] = stk[i]
      /\ AjaxCalls(new) = {i \in AjaxCalls(stk) : i <= j - 1}
  BY <1>1, Cut
<1>3. AjaxCalls(new) = AjaxCalls(stk) \ {j}
  <2>1. \A i \in AjaxCalls(stk) : i \in Nat /\ i <= j
    BY <1>1
  <2>2. \A i \in AjaxCalls(stk) : i <= j - 1 <=> i # j
    BY <1>1, <2>1
  <2> QED
    BY <1>2, <2>2
<1>4. \A i \in AjaxCalls(new) : new[i - 1] = stk[i - 1]
  BY <1>1, <1>2
<1>5. Held(stk, lock) => Held(new, Release(lock, obj))
  BY <1>3, <1>4 DEF Held, Holder, Release
<1>6. ASSUME HeldByFirst(stk, lock) PROVE HeldByFirst(new, Release(lock, obj))
  <2>1. PICK i \in AjaxCalls(stk) : FirstAjax(stk, i) /\ stk[i - 1].obj = lock /\ lock # NoObj
    BY <1>6 DEF HeldByFirst
  <2>2. Apart(new)
    <3>1. \A k \in 1 .. j - 1 : k \in 1 .. Len(stk)
      BY <1>1
    <3> QED
      BY <1>2, <1>6, <3>1 DEF HeldByFirst, Apart
  <2>3. CASE i = j
    <3>1. AjaxCalls(new) = {}
      <4>1. \A k \in AjaxCalls(stk) : k <= j /\ j <= k
        BY <2>1, <2>3 DEF FirstAjax
      <4>2. \A k \in AjaxCalls(stk) : k = j
        BY <1>1, <4>1
      <4> QED
        BY <1>3, <4>2
    <3> QED
      BY <2>1, <2>2, <2>3, <3>1 DEF HeldByFirst, Release
  <2>4. CASE i # j
    <3>1. i \in AjaxCalls(new) /\ FirstAjax(new, i) /\ new[i - 1].obj = lock
      BY <1>3, <1>4, <2>1, <2>4 DEF FirstAjax
    <3>2. obj # lock
      <4>1. i - 1 # j - 1
        BY <1>1, <2>4
      <4> QED
        BY <1>1, <1>6, <2>1, <4>1 DEF HeldByFirst, Apart
    <3> QED
      BY <2>1, <2>2, <3>1, <3>2 DEF HeldByFirst, Release
  <2> QED
    BY <2>3, <2>4
<1> QED
  BY <1>5, <1>6

-----------------------------------------------------------------------------
(* What a segment writes, and the records it puts on the stack.            *)

LEMMA TopIs ==
    ASSUME Typed, stack # <<>>
    PROVE  /\ Top \in CallRecord /\ Top = stack[Len(stack)] /\ Len(stack) \in 1 .. Len(stack)
           /\ Top.obj \in Objs /\ Top.ajax \in BOOLEAN /\ Top.on \in BOOLEAN
           /\ Top.expr \subseteq Conds /\ Top.ifs \in Seq(Branch) /\ Top.base \in BOOLEAN
<1>1. Top \in CallRecord /\ Top = stack[Len(stack)] /\ Len(stack) \in 1 .. Len(stack)
  BY TopIndex DEF Typed, Top
<1> QED
  BY <1>1 DEF CallRecord

LEMMA PieceType ==
    ASSUME Typed, NEW what \in Kinds
    PROVE  Piece(what) \in Written1
BY DEF Typed, Piece, Written1, Hidden

LEMMA WrittenType ==
    ASSUME Typed, NEW whats \in Seq(Kinds)
    PROVE  Written(whats) \in Seq(Written1)
<1>1. DOMAIN whats = 1 .. Len(whats) /\ Len(whats) \in Nat /\ \A i \in 1 .. Len(whats) : whats[i] \in Kinds
  BY LenProperties, ElementOfSeq
<1>2. <<>> \in Seq(Written1)
  BY EmptySeq
<1>3. [i \in DOMAIN whats |-> Piece(whats[i])] \in Seq(Written1)
  <2>1. \A i \in 1 .. Len(whats) : Piece(whats[i]) \in Written1
    BY <1>1, PieceType
  <2> HIDE DEF Written1
  <2> QED
    BY <1>1, <2>1
<1> QED
  BY <1>2, <1>3 DEF Written

LEMMA IdxWriteType == ASSUME NEW kind, NEW text PROVE IdxWrite(kind, text) \in Seq(Kinds)
<1>1. "text" \in Kinds /\ "markup" \in Kinds
  BY DEF Kinds
<1> QED
  BY <1>1 DEF IdxWrite

LEMMA WritesTypes ==
    ASSUME Typed, NEW kind, NEW text, NEW more \in Seq(Kinds), Writes(kind, text, more)
    PROVE  stack # <<>> /\ out' \in Seq(Written1) /\ seg' \in Nat
<1>1. stack # <<>> /\ seg' \in Nat
  BY DEF Writes, Reach, Typed
<1>2. IdxWrite(kind, text) \o more \in Seq(Kinds)
  BY IdxWriteType, ConcatProperties
<1>3. Written(IdxWrite(kind, text) \o more) \in Seq(Written1) /\ <<>> \in Seq(Written1)
  BY <1>2, WrittenType, EmptySeq
<1>4. out \in Seq(Written1)
  BY DEF Typed
<1>5. PICK w \in Seq(Written1) : out' = out \o w
  BY <1>3 DEF Writes
<1> QED
  BY <1>1, <1>4, <1>5, ConcatProperties

\* A record that takes the place of the top: the same call to the lock.
ForTop(f) == f \in CallRecord /\ f.obj = Top.obj /\ f.ajax = Top.ajax

LEMMA OnIs ==
    ASSUME Typed, stack # <<>>, NEW text \in BOOLEAN
    PROVE  /\ ForTop(On(text))
           /\ On(text).ifs = Top.ifs /\ On(text).base = Top.base /\ On(text).expr = Top.expr
BY TopIs DEF ForTop, On, CallRecord

WithIfs(text, e, b) == [On(text) EXCEPT !.expr = e, !.ifs = b]

LEMMA IfsChanged ==
    ASSUME Typed, stack # <<>>, NEW text \in BOOLEAN,
           NEW e \in SUBSET Conds, NEW b \in Seq(Branch)
    PROVE  LET f == WithIfs(text, e, b) IN
           /\ ForTop(f) /\ f.ifs = b /\ f.expr = e /\ f.base = Top.base
           /\ f.on = On(text).on
<1>1. On(text) \in CallRecord
  BY OnIs DEF ForTop
<1> QED
  BY <1>1, OnIs DEF ForTop, CallRecord, WithIfs

LEMMA OnlyIfsChanged ==
    ASSUME Typed, stack # <<>>, NEW text \in BOOLEAN, NEW b \in Seq(Branch)
    PROVE  [On(text) EXCEPT !.ifs = b] = WithIfs(text, Top.expr, b)
<1>1. On(text) \in CallRecord /\ On(text).expr = Top.expr
  BY OnIs DEF ForTop
<1> QED
  BY <1>1 DEF CallRecord, WithIfs

-----------------------------------------------------------------------------
(* What a step does to the calls and to the lock.                          *)

Carries(stk, lock, stk1, lock1) ==
    /\ Calls(stk1) /\ lock1 \in Objs \cup {NoObj}
    /\ Held(stk, lock) => Held(stk1, lock1)
    /\ "recursive" \notin Slack /\ HeldByFirst(stk, lock) => HeldByFirst(stk1, lock1)

LEMMA TopReplaced ==
    ASSUME Typed, stack # <<>>, NEW f, ForTop(f), stack' = SetTop(f), pCstrLock' = pCstrLock
    PROVE  Carries(stack, pCstrLock, stack', pCstrLock')
<1>1. Calls(stack) /\ f \in CallRecord /\ f.obj = Last(stack).obj /\ f.ajax = Last(stack).ajax
  BY DEF Typed, ForTop, Top
<1>2. Calls(SetTop(f)) /\ Alike(SetTop(f), stack)
  BY <1>1, PutTop DEF SetTop
<1>3. pCstrLock \in Objs \cup {NoObj}
  BY DEF Typed
<1> QED
  BY <1>1, <1>2, <1>3, AlikeKeeps DEF Carries

LEMMA Raised ==
    ASSUME NEW stk, Calls(stk), NEW lock \in Objs \cup {NoObj}, Raise(stk, lock)
    PROVE  Carries(stk, lock, stack', pCstrLock')
<1>1. CASE AjaxCalls(stk) = {}
  <2>1. stack' = <<>> /\ pCstrLock' = lock
    BY <1>1 DEF Raise
  <2>2. Len(stk) \in Nat /\ 0 \in 0 .. Len(stk) /\ SubSeq(stk, 1, 0) = <<>>
    BY Indices
  <2>3. Calls(<<>>)
    BY <2>2, Cut
  <2>4. \A i \in AjaxCalls(stk) : i <= 0
    BY <1>1
  <2>5. /\ Held(stk, lock) => Held(<<>>, lock)
        /\ HeldByFirst(stk, lock) => HeldByFirst(<<>>, lock)
    BY <2>2, <2>4, DropKeeps
  <2> QED
    BY <2>1, <2>3, <2>5 DEF Carries
<1>2. CASE AjaxCalls(stk) # {}
  <2> DEFINE j == Innermost(AjaxCalls(stk))
  <2>1. j \in AjaxCalls(stk) /\ \A i \in AjaxCalls(stk) : i <= j
    BY <1>2, InnermostIsLast
  <2>2. stack' = SubSeq(stk, 1, j - 1) /\ pCstrLock' = Release(lock, stk[j - 1].obj)
    BY <1>2 DEF Raise
  <2> HIDE DEF j
  <2>3. j - 1 \in 0 .. Len(stk)
    BY <2>1, Indices
  <2>4. Calls(SubSeq(stk, 1, j - 1))
    BY <2>3, Cut
  <2>5. /\ Held(stk, lock) => Held(stack', pCstrLock')
        /\ HeldByFirst(stk, lock) => HeldByFirst(stack', pCstrLock')
    BY <2>1, <2>2, LeaveKeeps
  <2>6. pCstrLock' \in Objs \cup {NoObj}
    BY <2>2 DEF Release
  <2> QED
    BY <2>2, <2>4, <2>5, <2>6 DEF Carries
<1> QED
  BY <1>1, <1>2

LEMMA CalleeIs ==
    ASSUME NEW t \in Templates, NEW ajax \in BOOLEAN, NEW base \in BOOLEAN
    PROVE  /\ Call(t, ajax, base) \in CallRecord
           /\ Call(t, ajax, base).obj = t /\ Call(t, ajax, base).ajax = ajax
           /\ Call(t, ajax, base).ifs = <<>> /\ Call(t, ajax, base).base = base
<1>1. t \in Objs /\ t # Page
  BY PageAssumption DEF Objs
<1>2. <<>> \in Seq(Branch)
  BY EmptySeq
<1> HIDE DEF Branch
<1> QED
  BY <1>1, <1>2 DEF Call, CallRecord

\* A call, which may turn out not to find the io object of its template.
LEMMA Entered ==
    ASSUME Typed, stack # <<>>, NEW t \in Templates, NEW ajax \in BOOLEAN, MayCall(t),
           NEW caller, ForTop(caller),
           Enter(t, ajax, IF ajax /\ pCstrLock = NoObj THEN Top.obj ELSE pCstrLock, caller)
    PROVE  Carries(stack, pCstrLock, stack', pCstrLock')
<1> DEFINE callee == Call(t, ajax, ~Hidden)
           mid == SetTop(caller)
           lock1 == Locked(pCstrLock, callee, Top.obj)
           pushed == Append(mid, callee)
<1>1. /\ callee \in CallRecord /\ callee.obj = t /\ callee.ajax = ajax
      /\ lock1 = IF ajax /\ pCstrLock = NoObj THEN Top.obj ELSE pCstrLock
  BY CalleeIs DEF Hidden, Locked
<1>2. /\ Calls(mid) /\ Alike(mid, stack) /\ mid # <<>> /\ Last(mid).obj = Top.obj
  <2>1. Calls(stack) /\ caller \in CallRecord /\ caller.obj = Last(stack).obj /\ caller.ajax = Last(stack).ajax
    BY DEF Typed, ForTop, Top
  <2>2. Calls(mid) /\ Alike(mid, stack) /\ mid # <<>> /\ mid[Len(mid)] = caller
    BY <2>1, PutTop DEF SetTop
  <2> HIDE DEF mid
  <2> QED
    BY <2>1, <2>2, TopIndex DEF Top
<1>3. \E got \in BOOLEAN :
         IF got THEN stack' = pushed /\ pCstrLock' = lock1 ELSE Raise(pushed, lock1)
  BY <1>1 DEF Enter
<1>4. lock1 \in Objs \cup {NoObj}
  BY TopIs DEF Locked, Typed
<1>5. Calls(stack)
  BY DEF Typed
<1> HIDE DEF callee, mid, lock1
<1>6. /\ Held(stack, pCstrLock) => Held(mid, pCstrLock)
      /\ HeldByFirst(stack, pCstrLock) => HeldByFirst(mid, pCstrLock)
  BY <1>2, <1>5, AlikeKeeps
<1>7. Calls(pushed) /\ (Held(mid, pCstrLock) => Held(pushed, lock1))
  <2>1. lock1 = Locked(pCstrLock, callee, Last(mid).obj)
    BY <1>2 DEF lock1
  <2> QED
    BY <1>1, <1>2, <2>1, Pushed, PushKeeps
<1>8. "recursive" \notin Slack /\ HeldByFirst(mid, pCstrLock) => HeldByFirst(pushed, lock1)
  <2>1. lock1 = Locked(pCstrLock, callee, Last(mid).obj)
    BY <1>2 DEF lock1
  <2>2. ASSUME "recursive" \notin Slack PROVE \A i \in 1 .. Len(mid) : mid[i].obj # callee.obj
    <3>1. \A i \in 1 .. Len(stack) : stack[i].obj # t
      BY <1>5, <2>2, Indices DEF MayCall, Allowed
    <3> QED
      BY <1>1, <1>2, <3>1 DEF Alike
  <2> QED
    BY <1>1, <1>2, <2>1, <2>2, PushKeeps
<1>9. Carries(stack, pCstrLock, pushed, lock1)
  BY <1>4, <1>6, <1>7, <1>8 DEF Carries
<1>10. Raise(pushed, lock1) => Carries(pushed, lock1, stack', pCstrLock')
  BY <1>4, <1>7, Raised
<1> HIDE DEF pushed
<1> QED
  BY <1>3, <1>9, <1>10 DEF Carries

Stepped == Typed' /\ Carries(stack, pCstrLock, stack', pCstrLock')

\* Of a segment that only changes the top, what is left to show.
LEMMA SegmentStep ==
    ASSUME Typed, NEW kind, NEW text \in BOOLEAN, NEW more \in Seq(Kinds), Writes(kind, text, more),
           flag_switch' \in [Objs -> BOOLEAN], env' \in [Conds -> BOOLEAN],
           Carries(stack, pCstrLock, stack', pCstrLock')
    PROVE  Stepped
<1>1. out' \in Seq(Written1) /\ seg' \in Nat
  BY WritesTypes
<1> QED
  BY <1>1 DEF Stepped, Typed, Carries

LEMMA NoMore == <<>> \in Seq(Kinds) /\ <<"value">> \in Seq(Kinds)
<1>1. "value" \in Kinds
  BY DEF Kinds
<1> QED
  BY <1>1

LEMMA TextStep ==
    ASSUME Typed, stack # <<>>, Plain \/ Express
    PROVE  Stepped
<1>0. flag_switch \in [Objs -> BOOLEAN] /\ env \in [Conds -> BOOLEAN]
  BY DEF Typed
<1> DEFINE Tags == {"memo", "html_macro", "exec_macro", "sq_express", "var_express"}
<1>1. \E kind \in Tags, text \in BOOLEAN, more \in {<<>>, <<"value">>} :
          /\ Writes(kind, text, more) /\ stack' = SetTop(On(text))
          /\ UNCHANGED <<flag_switch, pCstrLock>> /\ env' \in [Conds -> BOOLEAN]
  <2>1. CASE Plain
    BY <1>0, <2>1 DEF Plain
  <2>2. CASE Express
    BY <1>0, <2>2 DEF Express
  <2> QED
    BY <2>1, <2>2
<1>2. PICK kind \in Tags, text \in BOOLEAN, more \in {<<>>, <<"value">>} :
          /\ Writes(kind, text, more) /\ stack' = SetTop(On(text))
          /\ UNCHANGED <<flag_switch, pCstrLock>> /\ env' \in [Conds -> BOOLEAN]
  BY <1>1
<1>3. more \in Seq(Kinds)
  BY NoMore
<1>4. Carries(stack, pCstrLock, stack', pCstrLock')
  BY <1>2, OnIs, TopReplaced
<1> QED
  BY <1>0, <1>2, <1>3, <1>4, SegmentStep

\* What code adds to the output.
LEMMA CodeWrites ==
    ASSUME Typed, NEW text \in BOOLEAN,
           \/ \E more \in {<<>>, <<"value">>} : Writes("script_code", text, more)
           \/ WritesRaw(text)
    PROVE  out' \in Seq(Written1) /\ seg' \in Nat
<1>1. CASE \E more \in {<<>>, <<"value">>} : Writes("script_code", text, more)
  BY <1>1, NoMore, WritesTypes
<1>2. CASE WritesRaw(text)
  <2> DEFINE raw == [Piece("value") EXCEPT !.esc = FALSE]
             said == Written(IdxWrite("script_code", text))
  <2>1. seg' \in Nat
    BY <1>2 DEF WritesRaw, Reach, Typed
  <2>2. raw \in Written1
    <3>1. Piece("value") \in Written1
      BY PieceType DEF Kinds
    <3> QED
      BY <3>1 DEF Written1
  <2>3. said \in Seq(Written1) /\ out \in Seq(Written1)
    BY IdxWriteType, WrittenType DEF Typed
  <2>4. \E handle \in BOOLEAN :
           out' = out \o (IF Compiled(text)
                          THEN said \o (IF handle /\ ~flag_switch[Top.obj] THEN <<>> ELSE <<raw>>)
                          ELSE <<>>)
    BY <1>2 DEF WritesRaw
  <2> HIDE DEF raw, said, Written1
  <2>5. <<raw>> \in Seq(Written1) /\ <<>> \in Seq(Written1)
    BY <2>2
  <2>6. said \o <<raw>> \in Seq(Written1) /\ said \o <<>> \in Seq(Written1)
    BY <2>3, <2>5, ConcatProperties
  <2>7. PICK w \in Seq(Written1) : out' = out \o w
    BY <2>4, <2>5, <2>6
  <2> QED
    BY <2>1, <2>3, <2>7, ConcatProperties
<1> QED
  BY <1>1, <1>2

LEMMA CodeStep == ASSUME Typed, stack # <<>>, Code PROVE Stepped
<1>1. PICK text \in BOOLEAN :
        /\ \/ \E more \in {<<>>, <<"value">>} : Writes("script_code", text, more)
           \/ WritesRaw(text)
        /\ UNCHANGED env \/ \E c \in Conds : Flips(c)
        /\ stack' = SetTop(On(text))
        /\ UNCHANGED <<flag_switch, pCstrLock>>
  BY DEF Code
<1>2. env' \in [Conds -> BOOLEAN] /\ flag_switch' \in [Objs -> BOOLEAN]
  BY <1>1 DEF Flips, Typed
<1>3. out' \in Seq(Written1) /\ seg' \in Nat
  BY <1>1, CodeWrites
<1>4. Carries(stack, pCstrLock, stack', pCstrLock')
  BY <1>1, OnIs, TopReplaced
<1> QED
  BY <1>2, <1>3, <1>4 DEF Stepped, Typed, Carries

\* The ifs of a call as its tags change them.
LEMMA Branches ==
    ASSUME NEW ifs \in Seq(Branch)
    PROVE  /\ \A c \in Conds, v \in BOOLEAN :
                  Append(ifs, [cond |-> c, value |-> v, turned |-> FALSE]) \in Seq(Branch)
           /\ ifs # <<>> => /\ Len(ifs) \in 1 .. Len(ifs) /\ Last(ifs) = ifs[Len(ifs)] /\ Last(ifs) \in Branch
                            /\ Front(ifs) \in Seq(Branch)
                            /\ \A b \in Branch : [ifs EXCEPT ![Len(ifs)] = b] \in Seq(Branch)
<1>1. \A c \in Conds, v \in BOOLEAN : [cond |-> c, value |-> v, turned |-> FALSE] \in Branch
  BY DEF Branch
<1>2. Len(ifs) \in Nat /\ (ifs # <<>> => Len(ifs) \in 1 .. Len(ifs))
  BY LenProperties, EmptySeq
<1> HIDE DEF Branch
<1>3. \A c \in Conds, v \in BOOLEAN :
         Append(ifs, [cond |-> c, value |-> v, turned |-> FALSE]) \in Seq(Branch)
  BY <1>1, AppendProperties
<1>4. ASSUME ifs # <<>> PROVE Front(ifs) \in Seq(Branch)
  <2>1. \A i \in 1 .. Len(ifs) - 1 : ifs[i] \in Branch
    BY <1>2, ElementOfSeq
  <2> QED
    BY <1>2, <2>1, SubSeqProperties DEF Front
<1>5. ASSUME ifs # <<>> PROVE Last(ifs) = ifs[Len(ifs)] /\ Last(ifs) \in Branch
  BY <1>2, <1>5, ElementOfSeq DEF Last
<1>6. ASSUME ifs # <<>>, NEW b \in Branch PROVE [ifs EXCEPT ![Len(ifs)] = b] \in Seq(Branch)
  BY <1>2, <1>6, ExceptSeq
<1> QED
  BY <1>2, <1>3, <1>4, <1>5, <1>6

LEMMA IfsReplaced ==
    ASSUME Typed, stack # <<>>, NEW text \in BOOLEAN, NEW e \in SUBSET Conds, NEW b \in Seq(Branch),
           stack' = SetTop(WithIfs(text, e, b)), pCstrLock' = pCstrLock
    PROVE  Carries(stack, pCstrLock, stack', pCstrLock')
<1> DEFINE f == WithIfs(text, e, b)
<1>1. ForTop(f) /\ stack' = SetTop(f)
  BY IfsChanged
<1> HIDE DEF f
<1> QED
  BY <1>1, TopReplaced

LEMMA IfHeadStep == ASSUME Typed, stack # <<>>, IfHead PROVE Stepped
<1>1. PICK c \in Conds, text \in BOOLEAN :
         /\ Writes("if_head", text, <<>>)
         /\ flag_switch' = [flag_switch EXCEPT ![Top.obj] = @ /\ (Compiled(text) => env[c])]
         /\ stack' = SetTop([On(text) EXCEPT
                               !.expr = IF Compiled(text) THEN {c} ELSE @,
                               !.ifs = Append(@, [cond |-> c, value |-> env[c], turned |-> FALSE])])
         /\ UNCHANGED <<pCstrLock, env>>
  BY DEF IfHead
<1>2. flag_switch' \in [Objs -> BOOLEAN] /\ env' \in [Conds -> BOOLEAN]
  BY <1>1 DEF Typed
<1>3. \E e \in SUBSET Conds, b \in Seq(Branch) :
          stack' = SetTop(WithIfs(text, e, b))
  <2>1. Append(Top.ifs, [cond |-> c, value |-> env[c], turned |-> FALSE]) \in Seq(Branch)
    BY TopIs, Branches DEF Typed
  <2>2. (IF Compiled(text) THEN {c} ELSE Top.expr) \in SUBSET Conds
    BY TopIs
  <2>3. On(text).ifs = Top.ifs /\ On(text).expr = Top.expr
    BY OnIs
  <2> QED
    BY <1>1, <2>1, <2>2, <2>3 DEF WithIfs
<1>4. Carries(stack, pCstrLock, stack', pCstrLock')
  BY <1>1, <1>3, IfsReplaced
<1> QED
  BY <1>1, <1>2, <1>4, NoMore, SegmentStep

LEMMA IfElseStep == ASSUME Typed, stack # <<>>, IfElse PROVE Stepped
<1>1. PICK text \in BOOLEAN :
         /\ Top.ifs # <<>>
         /\ Writes("if_else", text, <<>>)
         /\ flag_switch' = IF InTemplate /\ Compiled(text)
               THEN [flag_switch EXCEPT ![Top.obj] = \A c \in Top.expr : ~env[c]]
               ELSE flag_switch
         /\ stack' = SetTop([On(text) EXCEPT
                               !.ifs[Len(Top.ifs)] = Turned(@)])
         /\ UNCHANGED <<pCstrLock, env>>
  BY DEF IfElse
<1>2. flag_switch' \in [Objs -> BOOLEAN] /\ env' \in [Conds -> BOOLEAN]
  BY <1>1 DEF Typed
<1>3. \E e \in SUBSET Conds, b \in Seq(Branch) :
          stack' = SetTop(WithIfs(text, e, b))
  <2> DEFINE turn == Turned(Last(Top.ifs))
             b == [Top.ifs EXCEPT ![Len(Top.ifs)] = turn]
  <2>1. Top.ifs \in Seq(Branch) /\ Last(Top.ifs) = Top.ifs[Len(Top.ifs)] /\ Last(Top.ifs) \in Branch
    BY <1>1, TopIs, Branches
  <2>2. turn \in Branch
    BY <2>1 DEF Branch, Turned
  <2>3. b \in Seq(Branch)
    BY <1>1, <2>1, <2>2, Branches
  <2>4. On(text).ifs = Top.ifs
    BY OnIs
  <2>5. stack' = SetTop([On(text) EXCEPT !.ifs = b])
    <3>1. On(text).ifs[Len(Top.ifs)] = Last(Top.ifs)
      BY <2>1, <2>4
    <3>2. [On(text) EXCEPT !.ifs[Len(Top.ifs)] = Turned(@)] = [On(text) EXCEPT !.ifs = b]
      BY <2>4, <3>1
    <3> QED
      BY <1>1, <3>2
  <2> HIDE DEF b, turn
  <2>6. stack' = SetTop(WithIfs(text, Top.expr, b))
    BY <2>3, <2>5, OnlyIfsChanged
  <2> QED
    BY <2>3, <2>6, TopIs
<1>4. Carries(stack, pCstrLock, stack', pCstrLock')
  BY <1>1, <1>3, IfsReplaced
<1> QED
  BY <1>1, <1>2, <1>4, NoMore, SegmentStep

LEMMA IfEndStep == ASSUME Typed, stack # <<>>, IfEnd PROVE Stepped
<1>1. PICK text \in BOOLEAN :
         /\ Top.ifs # <<>>
         /\ Writes("if_end", text, <<>>)
         /\ flag_switch' = [flag_switch EXCEPT ![Top.obj] = Compiled(text) \/ @]
         /\ stack' = SetTop([On(text) EXCEPT !.ifs = Front(@)])
         /\ UNCHANGED <<pCstrLock, env>>
  BY DEF IfEnd
<1>2. flag_switch' \in [Objs -> BOOLEAN] /\ env' \in [Conds -> BOOLEAN]
  BY <1>1 DEF Typed, Compiled
<1>3. \E e \in SUBSET Conds, b \in Seq(Branch) :
          stack' = SetTop(WithIfs(text, e, b))
  <2>1. Front(Top.ifs) \in Seq(Branch) /\ On(text).ifs = Top.ifs
    BY <1>1, TopIs, OnIs, Branches
  <2>2. stack' = SetTop(WithIfs(text, Top.expr, Front(Top.ifs)))
    BY <1>1, <2>1, OnlyIfsChanged
  <2> QED
    BY <2>1, <2>2, TopIs
<1>4. Carries(stack, pCstrLock, stack', pCstrLock')
  BY <1>1, <1>3, IfsReplaced
<1> QED
  BY <1>1, <1>2, <1>4, NoMore, SegmentStep

LEMMA CallStep ==
    ASSUME Typed, ExecMacro \/ CodeCall \/ AjaxInnerTemplate
    PROVE  Stepped
<1> DEFINE Lock(ajax) == IF ajax /\ pCstrLock = NoObj THEN Top.obj ELSE pCstrLock
<1>1. PICK kind \in {"exec_macro", "script_code"}, t \in Templates, text \in BOOLEAN, ajax \in BOOLEAN :
         /\ stack # <<>> /\ MayCall(t)
         /\ Writes(kind, text, <<>>)
         /\ Enter(t, ajax, Lock(ajax), On(text))
         /\ UNCHANGED env
  <2>1. CASE ExecMacro
    <3>1. PICK t \in Templates, text \in BOOLEAN :
             /\ stack # <<>> /\ MayCall(t) /\ Writes("exec_macro", text, <<>>)
             /\ Enter(t, FALSE, pCstrLock, On(text)) /\ UNCHANGED env
      BY <2>1 DEF ExecMacro
    <3>2. Lock(FALSE) = pCstrLock
      OBVIOUS
    <3> QED
      BY <3>1, <3>2
  <2>2. CASE CodeCall
    <3>1. PICK t \in Templates, text \in BOOLEAN :
             /\ stack # <<>> /\ MayCall(t) /\ Writes("script_code", text, <<>>)
             /\ Enter(t, FALSE, pCstrLock, On(text)) /\ UNCHANGED env
      BY <2>2 DEF CodeCall
    <3>2. Lock(FALSE) = pCstrLock
      OBVIOUS
    <3> QED
      BY <3>1, <3>2
  <2>3. CASE AjaxInnerTemplate
    <3>1. PICK t \in Templates, text \in BOOLEAN :
             /\ stack # <<>> /\ MayCall(t) /\ Writes("script_code", text, <<>>)
             /\ Enter(t, TRUE, IF pCstrLock = NoObj THEN Top.obj ELSE pCstrLock, On(text)) /\ UNCHANGED env
      BY <2>3 DEF AjaxInnerTemplate
    <3>2. Lock(TRUE) = IF pCstrLock = NoObj THEN Top.obj ELSE pCstrLock
      OBVIOUS
    <3> QED
      BY <3>1, <3>2
  <2> QED
    BY <2>1, <2>2, <2>3
<1>2. Carries(stack, pCstrLock, stack', pCstrLock')
  BY <1>1, OnIs, Entered
<1>3. flag_switch' \in [Objs -> BOOLEAN] /\ env' \in [Conds -> BOOLEAN]
  BY <1>1 DEF Typed, Enter
<1> QED
  BY <1>1, <1>2, <1>3, NoMore, SegmentStep

\* The calls without the last, which is no Ajax call or releases the lock.
LEMMA TopLeft ==
    ASSUME Typed, stack # <<>>, stack' = Front(stack),
           pCstrLock' = IF Top.ajax THEN Release(pCstrLock, stack[Len(stack) - 1].obj) ELSE pCstrLock
    PROVE  Carries(stack, pCstrLock, stack', pCstrLock')
<1> DEFINE n == Len(stack)
<1>1. Calls(stack) /\ n \in Nat /\ n \in 1 .. n /\ Top = stack[n]
  BY TopIs, Indices DEF Typed
<1>2. stack' = SubSeq(stack, 1, n - 1)
  BY DEF Front
<1>3. n - 1 \in 0 .. n
  BY <1>1
<1>4. Calls(stack')
  BY <1>1, <1>2, <1>3, Cut
<1>5. \A i \in AjaxCalls(stack) : i \in Nat /\ i <= n
  BY <1>1, Indices
<1>6. CASE Top.ajax
  <2>1. n \in AjaxCalls(stack)
    BY <1>1, <1>6, Indices
  <2>2. /\ Held(stack, pCstrLock) => Held(stack', Release(pCstrLock, stack[n - 1].obj))
        /\ HeldByFirst(stack, pCstrLock) => HeldByFirst(stack', Release(pCstrLock, stack[n - 1].obj))
    BY <1>1, <1>2, <1>5, <2>1, LeaveKeeps
  <2> QED
    BY <1>4, <1>6, <2>2 DEF Carries, Release, Typed
<1>7. CASE ~Top.ajax
  <2>1. \A i \in AjaxCalls(stack) : i <= n - 1
    <3>1. n \notin AjaxCalls(stack)
      BY <1>1, <1>7, Indices
    <3>2. \A i \in AjaxCalls(stack) : i # n
      BY <3>1
    <3> QED
      BY <1>1, <1>5, <3>2
  <2>2. /\ Held(stack, pCstrLock) => Held(stack', pCstrLock)
        /\ HeldByFirst(stack, pCstrLock) => HeldByFirst(stack', pCstrLock)
    BY <1>1, <1>2, <1>3, <2>1, DropKeeps
  <2> QED
    BY <1>4, <1>7, <2>2 DEF Carries, Typed
<1> QED
  BY <1>6, <1>7

LEMMA EndStep == ASSUME Typed, EndTemplate PROVE Stepped
<1>1. PICK text \in BOOLEAN :
        /\ stack # <<>> /\ Writes("macro_end", text, <<>>)
        /\ stack' = Front(stack)
        /\ pCstrLock' = IF Top.ajax THEN Release(pCstrLock, stack[Len(stack) - 1].obj) ELSE pCstrLock
        /\ UNCHANGED <<flag_switch, env>>
  BY DEF EndTemplate
<1>2. Carries(stack, pCstrLock, stack', pCstrLock')
  BY <1>1, TopLeft
<1>3. flag_switch' \in [Objs -> BOOLEAN] /\ env' \in [Conds -> BOOLEAN]
  BY <1>1 DEF Typed
<1> QED
  BY <1>1, <1>2, <1>3, NoMore, SegmentStep

LEMMA ErrorStep == ASSUME Typed, ScriptError PROVE Stepped
<1>1. PICK text \in BOOLEAN :
        /\ stack # <<>> /\ Writes("script_code", text, <<>>)
        /\ Raise(stack, pCstrLock)
        /\ UNCHANGED <<flag_switch, env>>
  BY DEF ScriptError
<1>2. Carries(stack, pCstrLock, stack', pCstrLock')
  BY <1>1, Raised DEF Typed
<1>3. flag_switch' \in [Objs -> BOOLEAN] /\ env' \in [Conds -> BOOLEAN]
  BY <1>1 DEF Typed
<1> QED
  BY <1>1, <1>2, <1>3, NoMore, SegmentStep

\* The page itself is at the bottom, so that it ends with no call in progress.
LEMMA PageAlone ==
    ASSUME Typed, stack # <<>>, ~InTemplate
    PROVE  Len(stack) = 1 /\ ~Top.ajax
BY TopIs DEF InTemplate, Typed, Calls

LEMMA LastStep == ASSUME Typed, LastWrite PROVE Stepped
<1>1. /\ stack # <<>> /\ ~InTemplate /\ seg' \in Nat /\ out' = Append(out, Piece("text"))
      /\ stack' = <<>> /\ UNCHANGED <<flag_switch, pCstrLock, env>>
  BY DEF LastWrite, Reach, Typed
<1>2. Len(stack) = 1 /\ ~Top.ajax
  BY <1>1, PageAlone
<1>3. Front(stack) = <<>>
  BY <1>2 DEF Front
<1>4. Carries(stack, pCstrLock, stack', pCstrLock')
  BY <1>1, <1>2, <1>3, TopLeft
<1>5. out' \in Seq(Written1)
  <2>1. Piece("text") \in Written1 /\ out \in Seq(Written1)
    BY PieceType DEF Kinds, Typed
  <2> QED
    BY <1>1, <2>1, AppendProperties
<1> QED
  BY <1>1, <1>4, <1>5 DEF Stepped, Typed, Carries

LEMMA PageIs ==
    /\ Call(Page, FALSE, TRUE) \in CallRecord /\ Call(Page, FALSE, TRUE).obj = Page
    /\ ~Call(Page, FALSE, TRUE).ajax
    /\ Call(Page, FALSE, TRUE).ifs = <<>> /\ Call(Page, FALSE, TRUE).base
<1>1. <<>> \in Seq(Branch)
  BY EmptySeq
<1> HIDE DEF Branch
<1> QED
  BY <1>1 DEF Call, CallRecord, Objs

LEMMA PageCall ==
    LET stk == <<Call(Page, FALSE, TRUE)>> IN
    Calls(stk) /\ Len(stk) = 1 /\ stk[1] = Call(Page, FALSE, TRUE) /\ AjaxCalls(stk) = {}
<1> DEFINE c == Call(Page, FALSE, TRUE)
           stk == <<c>>
<1>1. c \in CallRecord /\ c.obj = Page /\ ~c.ajax
  BY PageIs
<1> HIDE DEF c
<1>2. stk \in Seq(CallRecord) /\ Len(stk) = 1 /\ stk[1] = c
  BY <1>1
<1>3. Calls(stk)
  BY <1>1, <1>2 DEF Calls
<1>4. AjaxCalls(stk) = {}
  BY <1>1, <1>2, <1>3, Indices
<1> QED
  BY <1>2, <1>3, <1>4 DEF c

LEMMA RequestStep == ASSUME Typed, Request PROVE Stepped
<1> DEFINE stk == <<Call(Page, FALSE, TRUE)>>
<1>1. /\ stack = <<>> /\ stack' = stk /\ out' = <<>> /\ seg' = 0
      /\ flag_switch' \in [Objs -> BOOLEAN] /\ env' = env /\ pCstrLock' = pCstrLock
  BY DEF Request, Typed
<1>2. Calls(stk) /\ Len(stk) = 1 /\ AjaxCalls(stk) = {}
  BY PageCall
<1>3. AjaxCalls(<<>>) = {}
  BY DEF AjaxCalls
<1> HIDE DEF stk
<1>4. Held(stack, pCstrLock) => Held(stack', pCstrLock')
  BY <1>1, <1>2, <1>3 DEF Held
<1>5. HeldByFirst(stack, pCstrLock) => HeldByFirst(stack', pCstrLock')
  BY <1>1, <1>2, <1>3 DEF HeldByFirst, Apart
<1> QED
  BY <1>1, <1>2, <1>4, <1>5, EmptySeq DEF Stepped, Typed, Carries

LEMMA AnyStep == ASSUME Typed, [Next]_vars PROVE Stepped
<1>1. CASE Request
  BY <1>1, RequestStep
<1>2. CASE stack # <<>> /\ (Plain \/ Express \/ Code)
  BY <1>2, TextStep, CodeStep
<1>3. CASE stack # <<>> /\ (IfHead \/ IfElse \/ IfEnd)
  BY <1>3, IfHeadStep, IfElseStep, IfEndStep
<1>4. CASE ExecMacro \/ CodeCall \/ AjaxInnerTemplate
  BY <1>4, CallStep
<1>5. CASE EndTemplate \/ LastWrite \/ ScriptError
  BY <1>5, EndStep, LastStep, ErrorStep
<1>6. CASE UNCHANGED vars
  BY <1>6 DEF vars, Stepped, Typed, Carries
<1> QED
  BY <1>1, <1>2, <1>3, <1>4, <1>5, <1>6 DEF Next

-----------------------------------------------------------------------------
(* Types, and the lock.                                                    *)

LEMMA Start == ASSUME Init PROVE Typed /\ Held(stack, pCstrLock) /\ HeldByFirst(stack, pCstrLock)
<1>1. Calls(<<>>) /\ AjaxCalls(<<>>) = {}
  BY EmptySeq DEF Calls, AjaxCalls
<1> QED
  BY <1>1, EmptySeq DEF Init, Typed, Held, HeldByFirst, Apart

\* Every variable has its type, and only the first call is the page's own.
THEOREM PageTypes == Spec => []TypeOK
<1>1. Init => LockInv
  BY Start DEF LockInv
<1>2. LockInv /\ [Next]_vars => LockInv'
  BY AnyStep DEF LockInv, Stepped, Carries
<1>3. LockInv => TypeOK
  BY Indices DEF LockInv, Typed, TypeOK, Calls, CallRecord
<1> QED
  BY <1>1, <1>2, <1>3, PTL DEF Spec

\* The global pCstrLock is free whenever no Ajax call is in progress: however
\* calls nest and repeat, and wherever errors end them (Sq2AjaxInnerTemplate).
THEOREM LockAlwaysReleased == Spec => []LockReleased
<1>1. Init => LockInv
  BY Start DEF LockInv
<1>2. LockInv /\ [Next]_vars => LockInv'
  BY AnyStep DEF LockInv, Stepped, Carries
<1>3. LockInv => LockReleased
  BY DEF LockInv, Held, LockReleased
<1> QED
  BY <1>1, <1>2, <1>3, PTL DEF Spec

Escaped(o) == \A i \in 1 .. Len(o) : o[i].quoted => o[i].esc

\* While the lock is held wherever an Ajax call is in progress, what idxWrite
\* and io.write write there is escaped.
LEMMA WrittenEscaped ==
    ASSUME Typed, HeldByFirst(stack, pCstrLock), NEW whats \in Seq(Kinds)
    PROVE  Escaped(Written(whats)) /\ \A what : Piece(what).quoted => Piece(what).esc
<1>1. \A what : Piece(what).quoted => Piece(what).esc
  BY DEF Piece, HeldByFirst
<1>2. CASE flag_switch[Top.obj]
  <2>1. Len(whats) \in Nat /\ DOMAIN whats = 1 .. Len(whats)
    BY LenProperties
  <2>2. Written(whats) = [i \in 1 .. Len(whats) |-> Piece(whats[i])]
    BY <1>2, <2>1 DEF Written
  <2>3. Len(Written(whats)) = Len(whats)
    BY <2>1, <2>2, WrittenType, LenProperties
  <2>4. ASSUME NEW i \in 1 .. Len(whats) PROVE Written(whats)[i] = Piece(whats[i])
    BY <2>2
  <2> QED
    BY <1>1, <2>3, <2>4 DEF Escaped
<1>3. CASE ~flag_switch[Top.obj]
  <2>1. Len(Written(whats)) = 0
    BY <1>3 DEF Written
  <2> QED
    BY <1>1, <2>1 DEF Escaped
<1> QED
  BY <1>2, <1>3

LEMMA JoinEscaped ==
    ASSUME NEW o \in Seq(Written1), NEW w \in Seq(Written1), Escaped(o), Escaped(w)
    PROVE  Escaped(o \o w)
<1>1. Len(o) \in Nat /\ Len(w) \in Nat /\ Len(o \o w) = Len(o) + Len(w)
      /\ \A i \in 1 .. Len(o) + Len(w) : (o \o w)[i] = IF i <= Len(o) THEN o[i] ELSE w[i - Len(o)]
  BY LenProperties, ConcatProperties
<1> SUFFICES ASSUME NEW i \in 1 .. Len(o) + Len(w), (o \o w)[i].quoted PROVE (o \o w)[i].esc
  BY <1>1 DEF Escaped
<1>2. CASE i <= Len(o)
  <2>1. i \in 1 .. Len(o) /\ (o \o w)[i] = o[i]
    BY <1>1, <1>2
  <2> QED
    BY <2>1 DEF Escaped
<1>3. CASE ~(i <= Len(o))
  <2>1. i - Len(o) \in 1 .. Len(w) /\ (o \o w)[i] = w[i - Len(o)]
    BY <1>1, <1>3
  <2> QED
    BY <2>1 DEF Escaped
<1> QED
  BY <1>2, <1>3

\* What each step does to the output: nothing, a new page, the text and the
\* value of a segment, or the last text of the page.
LEMMA Outputs ==
    ASSUME [Next]_vars, "raw" \notin Slack
    PROVE  \/ out' = out \/ out' = <<>>
           \/ out' = Append(out, Piece("text"))
           \/ \E kind \in Parents \cup {"memo", "sq_express", "script_code", "if_else", "if_end", "macro_end"},
                 text \in BOOLEAN, more \in {<<>>, <<"value">>} : Writes(kind, text, more)
<1> DEFINE Tags == Parents \cup {"memo", "sq_express", "script_code", "if_else", "if_end", "macro_end"}
           ASegment == \E kind \in Tags, text \in BOOLEAN, more \in {<<>>, <<"value">>} : Writes(kind, text, more)
<1>0. {"memo", "html_macro", "exec_macro", "sq_express", "var_express", "if_head", "script_code",
       "if_else", "if_end", "macro_end"} \subseteq Tags
  BY DEF Parents
<1>11. \A kind \in Tags, text \in BOOLEAN, more \in {<<>>, <<"value">>} : Writes(kind, text, more) => ASegment
  OBVIOUS
<1> HIDE DEF Tags, ASegment
<1>1. ASSUME Plain PROVE ASegment
  <2>1. PICK kind \in {"memo", "html_macro", "exec_macro"}, text \in BOOLEAN : Writes(kind, text, <<>>)
    BY <1>1 DEF Plain
  <2> QED
    BY <1>0, <1>11, <2>1
<1>2. ASSUME Express PROVE ASegment
  <2>1. PICK kind \in {"sq_express", "var_express"}, text \in BOOLEAN : Writes(kind, text, <<"value">>)
    BY <1>2 DEF Express
  <2> QED
    BY <1>0, <1>11, <2>1
<1>3. ASSUME IfHead PROVE ASegment
  <2>1. PICK text \in BOOLEAN : Writes("if_head", text, <<>>)
    BY <1>3 DEF IfHead
  <2> QED
    BY <1>0, <1>11, <2>1
<1>4. ASSUME IfElse PROVE ASegment
  BY <1>0, <1>11, <1>4 DEF IfElse
<1>5. ASSUME IfEnd PROVE ASegment
  BY <1>0, <1>11, <1>5 DEF IfEnd
<1>6. ASSUME Code PROVE ASegment
  BY <1>0, <1>11, <1>6 DEF Code, Allowed
<1>7. ASSUME ExecMacro \/ CodeCall \/ AjaxInnerTemplate PROVE ASegment
  <2>1. PICK kind \in {"exec_macro", "script_code"}, text \in BOOLEAN : Writes(kind, text, <<>>)
    <3>1. CASE ExecMacro
      BY <3>1 DEF ExecMacro
    <3>2. CASE CodeCall
      BY <3>2 DEF CodeCall
    <3>3. CASE AjaxInnerTemplate
      BY <3>3 DEF AjaxInnerTemplate
    <3> QED
      BY <1>7, <3>1, <3>2, <3>3
  <2> QED
    BY <1>0, <1>11, <2>1
<1>8. ASSUME EndTemplate PROVE ASegment
  BY <1>0, <1>11, <1>8 DEF EndTemplate
<1>9. ASSUME ScriptError PROVE ASegment
  BY <1>0, <1>11, <1>9 DEF ScriptError
<1>10. CASE LastWrite \/ Request \/ UNCHANGED vars
  BY <1>10 DEF LastWrite, Request, vars
<1> USE DEF Tags, ASegment
<1> QED
  BY <1>1, <1>2, <1>3, <1>4, <1>5, <1>6, <1>7, <1>8, <1>9, <1>10 DEF Next

LEMMA EscapedStep ==
    ASSUME Typed, HeldByFirst(stack, pCstrLock), Escaped(out), "raw" \notin Slack, [Next]_vars
    PROVE  Escaped(out')
<1>0. out \in Seq(Written1) /\ Len(out) \in Nat
  BY LenProperties DEF Typed
<1>1. CASE out' = out \/ out' = <<>>
  BY <1>0, <1>1 DEF Escaped
<1>2. CASE out' = Append(out, Piece("text"))
  <2>1. Piece("text") \in Written1
    BY PieceType DEF Kinds
  <2> DEFINE p == Piece("text")
  <2>2. p.quoted => p.esc
    BY WrittenEscaped, NoMore
  <2> HIDE DEF p
  <2>3. Len(out') = Len(out) + 1 /\ out'[Len(out) + 1] = p /\ \A i \in 1 .. Len(out) : out'[i] = out[i]
    BY <1>0, <1>2, <2>1, AppendProperties DEF p
  <2>4. \A i \in 1 .. Len(out') : i \in 1 .. Len(out) \/ i = Len(out) + 1
    BY <1>0, <2>3
  <2> QED
    BY <2>2, <2>3, <2>4 DEF Escaped
<1>3. ASSUME NEW kind, NEW text \in BOOLEAN, NEW more \in {<<>>, <<"value">>}, Writes(kind, text, more)
      PROVE  Escaped(out')
  <2>1. IdxWrite(kind, text) \o more \in Seq(Kinds)
    BY NoMore, IdxWriteType, ConcatProperties
  <2> DEFINE w == Written(IdxWrite(kind, text) \o more)
  <2>2. w \in Seq(Written1) /\ Escaped(w)
    BY <2>1, WrittenType, WrittenEscaped
  <2>3. out' = out \o w \/ out' = out \o <<>>
    BY <1>3 DEF Writes
  <2> HIDE DEF w
  <2>4. out \o <<>> = out
    BY <1>0, ConcatEmptySeq
  <2> QED
    BY <1>0, <2>2, <2>3, <2>4, JoinEscaped
<1> QED
  BY <1>1, <1>2, <1>3, Outputs

\* With no template called while it runs, no call but the first takes the lock
\* or gives it back; so the text and the values written while an Ajax call is
\* in progress are escaped, all but what code writes with io.handle or io.ajax*.
THEOREM AlwaysEscaped == {"recursive", "raw"} \cap Slack = {} => (Spec => []AjaxEscaped)
<1> DEFINE Inv == Typed /\ HeldByFirst(stack, pCstrLock) /\ Escaped(out)
<1> SUFFICES ASSUME {"recursive", "raw"} \cap Slack = {} PROVE Spec => []AjaxEscaped
  OBVIOUS
<1>0. "recursive" \notin Slack /\ "raw" \notin Slack
  OBVIOUS
<1>1. Init => Inv
  BY Start DEF Init, Escaped
<1>2. Inv /\ [Next]_vars => Inv'
  BY <1>0, AnyStep, EscapedStep DEF Stepped, Carries
<1>3. Inv => AjaxEscaped
  BY LenProperties DEF Typed, Escaped, AjaxEscaped
<1> QED
  BY <1>1, <1>2, <1>3, PTL DEF Spec

-----------------------------------------------------------------------------
(* The calls and the output as the page means them.                        *)

FrameRecord == [base : BOOLEAN, ajax : BOOLEAN, branches : Seq(BOOLEAN)]
FrameOf(c) ==
    [base |-> c.base, ajax |-> c.ajax, branches |-> [j \in DOMAIN c.ifs |-> c.ifs[j].value]]
Frames(stk) == [i \in DOMAIN stk |-> FrameOf(stk[i])]

Meant(p) == [what |-> p.what, seg |-> p.seg, esc |-> p.esc]
Strip(o) == [i \in DOMAIN o |-> Meant(o[i])]

LEMMA FrameOfIs ==
    ASSUME NEW c \in CallRecord
    PROVE  /\ FrameOf(c) \in FrameRecord
           /\ FrameOf(c).base = c.base /\ FrameOf(c).ajax = c.ajax
           /\ FrameOf(c).branches \in Seq(BOOLEAN) /\ Len(FrameOf(c).branches) = Len(c.ifs)
           /\ \A j \in 1 .. Len(c.ifs) : FrameOf(c).branches[j] = c.ifs[j].value
<1>1. /\ c.ifs \in Seq(Branch) /\ c.base \in BOOLEAN /\ c.ajax \in BOOLEAN
  BY DEF CallRecord
<1>2. DOMAIN c.ifs = 1 .. Len(c.ifs) /\ Len(c.ifs) \in Nat /\ \A j \in 1 .. Len(c.ifs) : c.ifs[j].value \in BOOLEAN
  <2>1. DOMAIN c.ifs = 1 .. Len(c.ifs) /\ Len(c.ifs) \in Nat /\ \A j \in 1 .. Len(c.ifs) : c.ifs[j] \in Branch
    BY <1>1, LenProperties, ElementOfSeq
  <2> QED
    BY <2>1 DEF Branch
<1> DEFINE b == [j \in DOMAIN c.ifs |-> c.ifs[j].value]
<1>3. b \in Seq(BOOLEAN) /\ Len(b) = Len(c.ifs) /\ \A j \in 1 .. Len(c.ifs) : b[j] = c.ifs[j].value
  BY <1>2
<1>4. FrameOf(c) = [base |-> c.base, ajax |-> c.ajax, branches |-> b]
  BY DEF FrameOf
<1> HIDE DEF b
<1> QED
  BY <1>1, <1>3, <1>4 DEF FrameRecord

LEMMA FramesAre ==
    ASSUME NEW stk, Calls(stk)
    PROVE  /\ Frames(stk) \in Seq(FrameRecord) /\ Len(Frames(stk)) = Len(stk)
           /\ DOMAIN Frames(stk) = 1 .. Len(stk)
           /\ \A i \in 1 .. Len(stk) : Frames(stk)[i] = FrameOf(stk[i])
<1>1. Len(stk) \in Nat /\ DOMAIN stk = 1 .. Len(stk) /\ \A i \in 1 .. Len(stk) : stk[i] \in CallRecord
  BY Indices
<1>2. \A i \in 1 .. Len(stk) : FrameOf(stk[i]) \in FrameRecord
  BY <1>1, FrameOfIs
<1>3. Frames(stk) = [i \in 1 .. Len(stk) |-> FrameOf(stk[i])]
  BY <1>1 DEF Frames
<1> QED
  BY <1>1, <1>2, <1>3

LEMMA SameSequence ==
    ASSUME NEW s, NEW t, NEW S, s \in Seq(S), t \in Seq(S), Len(s) = Len(t),
           \A i \in 1 .. Len(s) : s[i] = t[i]
    PROVE  s = t
BY SeqEqual

\* What a call stack that changes does to its frames.
LEMMA FramesTop ==
    ASSUME NEW stk, Calls(stk), stk # <<>>
    PROVE  /\ Frames(stk) # <<>> /\ Last(Frames(stk)) = FrameOf(Last(stk))
           /\ Frames(stk)[Len(stk)] = FrameOf(Last(stk))
<1>1. Len(stk) \in 1 .. Len(stk) /\ Len(stk) \in Nat /\ Last(stk) = stk[Len(stk)]
  BY TopIndex, Indices
<1>2. Len(Frames(stk)) = Len(stk) /\ Frames(stk)[Len(stk)] = FrameOf(Last(stk))
  BY <1>1, FramesAre
<1>3. Frames(stk) # <<>>
  BY <1>1, <1>2
<1> QED
  BY <1>2, <1>3 DEF Last

LEMMA FramesPut ==
    ASSUME NEW stk, Calls(stk), stk # <<>>,
           NEW f \in CallRecord, f.obj = Last(stk).obj, f.ajax = Last(stk).ajax
    PROVE  Frames([stk EXCEPT ![Len(stk)] = f]) = [Frames(stk) EXCEPT ![Len(stk)] = FrameOf(f)]
<1> DEFINE new == [stk EXCEPT ![Len(stk)] = f]
           fr == [Frames(stk) EXCEPT ![Len(stk)] = FrameOf(f)]
<1>1. /\ Calls(new) /\ Len(new) = Len(stk) /\ new[Len(stk)] = f
      /\ \A i \in 1 .. Len(stk) : i # Len(stk) => new[i] = stk[i]
  <2>1. Calls(new) /\ Alike(new, stk) /\ new[Len(new)] = f
        /\ \A i \in 1 .. Len(stk) : i # Len(stk) => new[i] = stk[i]
    BY PutTop
  <2> QED
    BY <2>1 DEF Alike
<1>2. Len(stk) \in 1 .. Len(stk) /\ Len(stk) \in Nat /\ FrameOf(f) \in FrameRecord
  BY TopIndex, Indices, FrameOfIs
<1>3. /\ fr \in Seq(FrameRecord) /\ Len(fr) = Len(stk)
      /\ \A i \in 1 .. Len(stk) : fr[i] = IF i = Len(stk) THEN FrameOf(f) ELSE Frames(stk)[i]
  BY <1>2, FramesAre, ExceptSeq
<1> HIDE DEF new, fr
<1>4. Frames(new) \in Seq(FrameRecord) /\ Len(Frames(new)) = Len(stk)
      /\ \A i \in 1 .. Len(stk) : Frames(new)[i] = FrameOf(new[i])
  BY <1>1, FramesAre
<1>5. \A i \in 1 .. Len(stk) : Frames(stk)[i] = FrameOf(stk[i])
  BY FramesAre
<1>6. \A i \in 1 .. Len(stk) : Frames(new)[i] = fr[i]
  BY <1>1, <1>3, <1>4, <1>5
<1>7. Frames(new) = fr
  BY <1>3, <1>4, <1>6, SameSequence
<1> QED
  BY <1>7 DEF new, fr

LEMMA FramesPush ==
    ASSUME NEW stk, Calls(stk), stk # <<>>, NEW c \in CallRecord, c.obj \in Templates
    PROVE  Frames(Append(stk, c)) = Append(Frames(stk), FrameOf(c))
<1> DEFINE new == Append(stk, c)
           fr == Append(Frames(stk), FrameOf(c))
<1>1. /\ Calls(new) /\ Len(new) = Len(stk) + 1 /\ new[Len(stk) + 1] = c
      /\ \A i \in 1 .. Len(stk) : new[i] = stk[i]
  BY Pushed
<1>2. Len(stk) \in Nat /\ FrameOf(c) \in FrameRecord
  BY Indices, FrameOfIs
<1>3. /\ fr \in Seq(FrameRecord) /\ Len(fr) = Len(stk) + 1 /\ fr[Len(stk) + 1] = FrameOf(c)
      /\ \A i \in 1 .. Len(stk) : fr[i] = Frames(stk)[i]
  BY <1>2, FramesAre, AppendProperties
<1> HIDE DEF new, fr
<1>4. Frames(new) \in Seq(FrameRecord) /\ Len(Frames(new)) = Len(stk) + 1
      /\ \A i \in 1 .. Len(stk) + 1 : Frames(new)[i] = FrameOf(new[i])
  BY <1>1, FramesAre
<1>5. \A i \in 1 .. Len(stk) : Frames(stk)[i] = FrameOf(stk[i])
  BY FramesAre
<1>6. \A i \in 1 .. Len(stk) + 1 : i \in 1 .. Len(stk) \/ i = Len(stk) + 1
  BY <1>2
<1>7. \A i \in 1 .. Len(stk) + 1 : Frames(new)[i] = fr[i]
  BY <1>1, <1>3, <1>4, <1>5, <1>6
<1>8. Frames(new) = fr
  BY <1>3, <1>4, <1>7, SameSequence
<1> QED
  BY <1>8 DEF new, fr

LEMMA FramesCut ==
    ASSUME NEW stk, Calls(stk), NEW n \in 0 .. Len(stk)
    PROVE  Frames(SubSeq(stk, 1, n)) = SubSeq(Frames(stk), 1, n)
<1> DEFINE new == SubSeq(stk, 1, n)
           fr == SubSeq(Frames(stk), 1, n)
<1>1. Calls(new) /\ Len(new) = n /\ \A i \in 1 .. n : new[i] = stk[i]
  BY Cut
<1>2. Len(stk) \in Nat /\ n \in Nat /\ \A i \in 1 .. n : i \in 1 .. Len(stk)
  BY Indices
<1>3. fr \in Seq(FrameRecord) /\ Len(fr) = n /\ \A i \in 1 .. n : fr[i] = Frames(stk)[i]
  <2>1. /\ Frames(stk) \in Seq(FrameRecord) /\ Len(Frames(stk)) = Len(stk)
        /\ \A i \in 1 .. n : Frames(stk)[i] \in FrameRecord
    BY <1>2, FramesAre, ElementOfSeq
  <2>2. /\ fr \in Seq(FrameRecord) /\ Len(fr) = IF 1 <= n THEN n - 1 + 1 ELSE 0
        /\ \A i \in 1 .. n - 1 + 1 : fr[i] = Frames(stk)[1 + i - 1]
    BY <1>2, <2>1, SubSeqProperties
  <2> HIDE DEF fr
  <2> QED
    BY <1>2, <2>2
<1> HIDE DEF new, fr
<1>4. Frames(new) \in Seq(FrameRecord) /\ Len(Frames(new)) = n
      /\ \A i \in 1 .. n : Frames(new)[i] = FrameOf(new[i])
  BY <1>1, FramesAre
<1>5. \A i \in 1 .. n : Frames(stk)[i] = FrameOf(stk[i])
  BY <1>2, FramesAre
<1>6. \A i \in 1 .. n : Frames(new)[i] = fr[i]
  BY <1>1, <1>3, <1>4, <1>5
<1>7. Frames(new) = fr
  BY <1>3, <1>4, <1>6, SameSequence
<1> QED
  BY <1>7 DEF new, fr

LEMMA StripIs ==
    ASSUME NEW o \in Seq(Written1)
    PROVE  /\ Strip(o) \in Seq([what : Kinds, seg : Nat, esc : BOOLEAN]) /\ Len(Strip(o)) = Len(o)
           /\ \A i \in 1 .. Len(o) : Strip(o)[i] = Meant(o[i])
<1>1. Len(o) \in Nat /\ DOMAIN o = 1 .. Len(o) /\ \A i \in 1 .. Len(o) : o[i] \in Written1
  BY LenProperties, ElementOfSeq
<1>2. \A i \in 1 .. Len(o) : Meant(o[i]) \in [what : Kinds, seg : Nat, esc : BOOLEAN]
  BY <1>1 DEF Meant, Written1
<1>3. Strip(o) = [i \in 1 .. Len(o) |-> Meant(o[i])]
  BY <1>1 DEF Strip
<1> QED
  BY <1>1, <1>2, <1>3

LEMMA StripJoin ==
    ASSUME NEW a \in Seq(Written1), NEW b \in Seq(Written1)
    PROVE  Strip(a \o b) = Strip(a) \o Strip(b)
<1> DEFINE S == [what : Kinds, seg : Nat, esc : BOOLEAN]
           n == Len(a) + Len(b)
<1>1. Len(a) \in Nat /\ Len(b) \in Nat
  BY LenProperties
<1>2. /\ a \o b \in Seq(Written1) /\ Len(a \o b) = n
      /\ \A i \in 1 .. n : (a \o b)[i] = IF i <= Len(a) THEN a[i] ELSE b[i - Len(a)]
  BY ConcatProperties
<1>3. Strip(a) \in Seq(S) /\ Strip(b) \in Seq(S) /\ Len(Strip(a)) = Len(a) /\ Len(Strip(b)) = Len(b)
  BY StripIs
<1>4. /\ Strip(a) \o Strip(b) \in Seq(S) /\ Len(Strip(a) \o Strip(b)) = n
      /\ \A i \in 1 .. n : (Strip(a) \o Strip(b))[i] =
             IF i <= Len(a) THEN Strip(a)[i] ELSE Strip(b)[i - Len(a)]
  <2> HIDE DEF S
  <2>1. /\ Strip(a) \o Strip(b) \in Seq(S)
        /\ Len(Strip(a) \o Strip(b)) = Len(Strip(a)) + Len(Strip(b))
        /\ \A i \in 1 .. Len(Strip(a)) + Len(Strip(b)) : (Strip(a) \o Strip(b))[i] =
               IF i <= Len(Strip(a)) THEN Strip(a)[i] ELSE Strip(b)[i - Len(Strip(a))]
    BY <1>3, ConcatProperties
  <2> QED
    BY <1>3, <2>1
<1>5. /\ Strip(a \o b) \in Seq(S) /\ Len(Strip(a \o b)) = n
      /\ \A i \in 1 .. n : Strip(a \o b)[i] = Meant((a \o b)[i])
  BY <1>2, StripIs
<1>6. ASSUME NEW i \in 1 .. n PROVE Strip(a \o b)[i] = (Strip(a) \o Strip(b))[i]
  <2>1. CASE i <= Len(a)
    <3>1. i \in 1 .. Len(a)
      BY <1>1, <2>1
    <3>2. Strip(a)[i] = Meant(a[i])
      BY <3>1, StripIs
    <3> QED
      BY <1>2, <1>4, <1>5, <2>1, <3>2
  <2>2. CASE ~ (i <= Len(a))
    <3>1. i - Len(a) \in 1 .. Len(b)
      BY <1>1, <2>2
    <3>2. Strip(b)[i - Len(a)] = Meant(b[i - Len(a)])
      BY <3>1, StripIs
    <3> QED
      BY <1>2, <1>4, <1>5, <2>2, <3>2
  <2> QED
    BY <2>1, <2>2
<1> HIDE DEF S, n
<1> QED
  BY <1>4, <1>5, <1>6, SameSequence

\* What is shown in a state of the page as it is meant: PageMeaning's operators
\* on the frames as a value.
ShownBy(fr) ==
    Last(fr).base /\ \A j \in DOMAIN Last(fr).branches : Last(fr).branches[j]
QuotedBy(fr) == \E i \in DOMAIN fr : fr[i].ajax
PutBy(fr, o, whats) ==
    IF ShownBy(fr)
    THEN o \o [i \in DOMAIN whats |-> [what |-> whats[i], seg |-> seg, esc |-> QuotedBy(fr)]]
    ELSE o

LEMMA TopShown ==
    ASSUME CleanInv, stack # <<>>
    PROVE  flag_switch[Top.obj] = ShownBy(Frames(stack))
<1>1. Typed /\ Calls(stack)
  BY DEF CleanInv, LockInv, Typed
<1>2. /\ Top \in CallRecord /\ Top = stack[Len(stack)] /\ Len(stack) \in 1 .. Len(stack)
      /\ Top.obj \in Objs /\ Top.ifs \in Seq(Branch)
  BY <1>1, TopIs
<1>3. Last(Frames(stack)) = FrameOf(Top)
  BY <1>1, FramesTop DEF Top
<1>4. /\ FrameOf(Top).base = Top.base
      /\ FrameOf(Top).branches \in Seq(BOOLEAN) /\ Len(FrameOf(Top).branches) = Len(Top.ifs)
      /\ \A j \in 1 .. Len(Top.ifs) : FrameOf(Top).branches[j] = Top.ifs[j].value
  BY <1>2, FrameOfIs
<1>5. DOMAIN FrameOf(Top).branches = 1 .. Len(Top.ifs) /\ Len(Top.ifs) \in Nat
  BY <1>2, <1>4, LenProperties
<1>6. FrameOK(Top, flag_switch, env)
  BY <1>2 DEF CleanInv
<1>7. ShownBy(Frames(stack)) <=> \A j \in 1 .. Len(Top.ifs) : Top.ifs[j].value
  BY <1>3, <1>4, <1>5, <1>6 DEF ShownBy, FrameOK
<1>8. flag_switch[Top.obj] \in BOOLEAN
  BY <1>1, <1>2 DEF Typed
<1>9. Top.ifs = <<>> <=> Len(Top.ifs) = 0
  BY <1>2, EmptySeq
<1>10. CASE Top.ifs = <<>>
  BY <1>6, <1>7, <1>8, <1>9, <1>10 DEF FrameOK, ShownBy
<1>11. CASE Top.ifs # <<>>
  <2>0. Len(Top.ifs) <= 1
    BY <1>6 DEF FrameOK
  <2>1. Len(Top.ifs) = 1
    <3>1. Len(Top.ifs) \in Nat /\ Len(Top.ifs) # 0
      BY <1>5, <1>9, <1>11
    <3>2. \A k \in Nat : k <= 1 /\ k # 0 => k = 1
      OBVIOUS
    <3> QED
      BY <2>0, <3>1, <3>2, Zenon
  <2>2. flag_switch[Top.obj] <=> Top.ifs[1].value
    BY <1>6, <1>8, <1>11 DEF FrameOK
  <2> QED
    BY <1>7, <1>8, <2>1, <2>2 DEF ShownBy
<1> QED
  BY <1>10, <1>11

LEMMA Escaping ==
    ASSUME CleanInv
    PROVE  (pCstrLock # NoObj) = QuotedBy(Frames(stack))
<1>1. Calls(stack)
  BY DEF CleanInv, LockInv, Typed
<1>2. pCstrLock # NoObj <=> AjaxCalls(stack) # {}
  BY DEF CleanInv, HeldByFirst
<1>3. AjaxCalls(stack) = {i \in 1 .. Len(stack) : stack[i].ajax}
  BY <1>1, Indices
<1>4. /\ DOMAIN Frames(stack) = 1 .. Len(stack)
      /\ \A i \in 1 .. Len(stack) : Frames(stack)[i].ajax = stack[i].ajax
  BY <1>1, FramesAre, Indices, FrameOfIs
<1>5. QuotedBy(Frames(stack)) <=> AjaxCalls(stack) # {}
  BY <1>3, <1>4 DEF QuotedBy
<1> QED
  BY <1>2, <1>5 DEF QuotedBy

LEMMA WrittenIsPut ==
    ASSUME CleanInv, stack # <<>>, NEW whats \in Seq(Kinds)
    PROVE  Strip(out \o Written(whats)) = PutBy(Frames(stack), Strip(out), whats)
<1>1. Typed
  BY DEF CleanInv, LockInv
<1>2. out \in Seq(Written1) /\ Written(whats) \in Seq(Written1)
  BY <1>1, WrittenType DEF Typed
<1>3. Strip(out \o Written(whats)) = Strip(out) \o Strip(Written(whats))
  BY <1>2, StripJoin
<1>4. CASE flag_switch[Top.obj]
  <2> DEFINE w == [i \in DOMAIN whats |-> Piece(whats[i])]
             p == [i \in DOMAIN whats |-> [what |-> whats[i], seg |-> seg, esc |-> QuotedBy(Frames(stack))]]
  <2>1. Written(whats) = w
    BY <1>4 DEF Written
  <2>2. \A i \in DOMAIN whats : Meant(Piece(whats[i])) =
           [what |-> whats[i], seg |-> seg, esc |-> QuotedBy(Frames(stack))]
    BY Escaping DEF Meant, Piece
  <2>3. Strip(w) = p
    BY <2>2 DEF Strip
  <2>4. PutBy(Frames(stack), Strip(out), whats) = Strip(out) \o p
    BY <1>4, TopShown DEF PutBy
  <2> HIDE DEF w, p
  <2> QED
    BY <1>3, <2>1, <2>3, <2>4
<1>5. CASE ~flag_switch[Top.obj]
  <2>1. Written(whats) = <<>>
    BY <1>5 DEF Written
  <2>2. PutBy(Frames(stack), Strip(out), whats) = Strip(out)
    BY <1>5, TopShown DEF PutBy
  <2>3. out \o <<>> = out
    BY <1>2, ConcatEmptySeq
  <2> QED
    BY <2>1, <2>2, <2>3
<1> QED
  BY <1>4, <1>5

WithBranchesBy(fr, b) == [fr EXCEPT ![Len(fr)].branches = b]
SegmentBy(fr, o, fr1, o1) ==
    LET top == Last(fr).branches IN
    /\ fr # <<>>
    /\ \/ /\ \E whats \in {<<>>, <<"text">>, <<"value">>, <<"text", "value">>} : o1 = PutBy(fr, o, whats)
          /\ fr1 = fr
       \/ /\ o1 \in {o, PutBy(fr, o, <<"text">>)}
          /\ \/ \E b \in BOOLEAN : fr1 = WithBranchesBy(fr, Append(top, b))
             \/ /\ top # <<>>
                /\ \/ fr1 = WithBranchesBy(fr, Append(Front(top), ~Last(top)))
                   \/ fr1 = WithBranchesBy(fr, Front(top))
             \/ \E ajax \in BOOLEAN : fr1 = Append(fr, Meaning!Frame(ShownBy(fr), ajax))
             \/ fr1 = Front(fr)
             \/ \E i \in DOMAIN fr : fr1 = SubSeq(fr, 1, i - 1)

LEMMA SegmentIs ==
    ASSUME SegmentBy(Frames(stack), Strip(out), Frames(stack'), Strip(out')), seg' = seg + 1
    PROVE  Meaning!Segment
BY DEF SegmentBy, Meaning!Segment, Frames, FrameOf, Strip, Meant, PutBy, ShownBy, QuotedBy, WithBranchesBy,
       Meaning!Put, Meaning!Shown, Meaning!ShownIn, Meaning!Quoted, Meaning!Piece, Meaning!WithBranches,
       Meaning!Last, Meaning!Front, Last, Front

-----------------------------------------------------------------------------
(* With no vice in Slack, each step is a step of the page as it is meant.  *)

AllOK(stk, flags, values) == \A i \in 1 .. Len(stk) : FrameOK(stk[i], flags, values)
Simulates ==
    /\ AllOK(stack', flag_switch', env')
    /\ SegmentBy(Frames(stack), Strip(out), Frames(stack'), Strip(out')) /\ seg' = seg + 1

LEMMA CleanIs ==
    ASSUME CleanInv
    PROVE  /\ Typed /\ Calls(stack) /\ Apart(stack) /\ AllOK(stack, flag_switch, env)
           /\ stack # <<>> => FrameOK(Top, flag_switch, env)
<1>1. Typed /\ Calls(stack) /\ Apart(stack) /\ AllOK(stack, flag_switch, env)
  BY DEF CleanInv, LockInv, Typed, HeldByFirst, AllOK
<1> QED
  BY <1>1, TopIs DEF AllOK

\* Every segment has text, and it is written as it is meant to be.
LEMMA TextWritten ==
    ASSUME CleanInv, Slack = {}, NEW kind, NEW text \in BOOLEAN, NEW more \in Seq(Kinds), Writes(kind, text, more)
    PROVE  /\ text /\ Compiled(text) /\ stack # <<>> /\ seg' = seg + 1
           /\ Strip(out') = PutBy(Frames(stack), Strip(out), <<"text">> \o more)
<1>1. text /\ Compiled(text) /\ stack # <<>> /\ seg' = seg + 1
  BY DEF Writes, Reach, Allowed, Compiled
<1>2. IdxWrite(kind, text) = <<"text">>
  BY <1>1 DEF IdxWrite
<1>3. <<"text">> \o more \in Seq(Kinds)
  BY <1>2, IdxWriteType, ConcatProperties
<1>4. out' = out \o Written(<<"text">> \o more)
  BY <1>1, <1>2 DEF Writes
<1> QED
  BY <1>1, <1>3, <1>4, WrittenIsPut

LEMMA JustText ==
    ASSUME CleanInv, Slack = {}, NEW kind, NEW text \in BOOLEAN, Writes(kind, text, <<>>)
    PROVE  /\ text /\ Compiled(text) /\ stack # <<>> /\ seg' = seg + 1
           /\ Strip(out') = PutBy(Frames(stack), Strip(out), <<"text">>)
<1>1. <<"text">> \o <<>> = <<"text">>
  OBVIOUS
<1> QED
  BY <1>1, NoMore, TextWritten

\* The top replaced by a record of the same call that is in order.
LEMMA TopOK ==
    ASSUME CleanInv, stack # <<>>, NEW f, ForTop(f), NEW flags, NEW values, FrameOK(f, flags, values),
           \A obj \in Objs : obj # Top.obj => flags[obj] = flag_switch[obj],
           AllOK(stack, flag_switch, values)
    PROVE  AllOK(SetTop(f), flags, values)
<1>1. Calls(stack) /\ f \in CallRecord /\ f.obj = Last(stack).obj /\ f.ajax = Last(stack).ajax
  BY CleanIs DEF ForTop, Top
<1>2. /\ Alike(SetTop(f), stack) /\ SetTop(f)[Len(SetTop(f))] = f
      /\ \A i \in 1 .. Len(stack) : i # Len(stack) => SetTop(f)[i] = stack[i]
  BY <1>1, PutTop DEF SetTop
<1>3. Len(stack) \in 1 .. Len(stack) /\ Top = stack[Len(stack)] /\ Len(SetTop(f)) = Len(stack)
  BY <1>2, TopIs, CleanIs DEF Alike
<1>4. ASSUME NEW i \in 1 .. Len(stack), i # Len(stack) PROVE FrameOK(stack[i], flags, values)
  <2>1. stack[i].obj \in Objs /\ stack[i].obj # Top.obj
    <3>1. stack[i] \in CallRecord
      BY <1>1, Indices
    <3>2. stack[i].obj # stack[Len(stack)].obj
      BY <1>3, <1>4, CleanIs DEF Apart
    <3> QED
      BY <1>3, <3>1, <3>2 DEF CallRecord
  <2>2. FrameOK(stack[i], flag_switch, values)
    BY DEF AllOK
  <2>3. flags[stack[i].obj] = flag_switch[stack[i].obj]
    BY <2>1
  <2> QED
    BY <2>2, <2>3 DEF FrameOK
<1> QED
  BY <1>2, <1>3, <1>4 DEF AllOK

LEMMA TopMeant ==
    ASSUME Typed, stack # <<>>, NEW f, ForTop(f), f.base = Top.base
    PROVE  /\ Frames(SetTop(f)) = WithBranchesBy(Frames(stack), FrameOf(f).branches)
           /\ f.ifs = Top.ifs => Frames(SetTop(f)) = Frames(stack)
<1>1. Calls(stack) /\ f \in CallRecord /\ f.obj = Last(stack).obj /\ f.ajax = Last(stack).ajax
  BY DEF Typed, ForTop, Top
<1>2. Frames(SetTop(f)) = [Frames(stack) EXCEPT ![Len(stack)] = FrameOf(f)]
  BY <1>1, FramesPut DEF SetTop
<1>3. /\ Len(Frames(stack)) = Len(stack) /\ Frames(stack)[Len(stack)] = FrameOf(Top)
      /\ Frames(stack) \in Seq(FrameRecord)
  BY <1>1, FramesAre, FramesTop DEF Top
<1>4. FrameOf(f) = [FrameOf(Top) EXCEPT !.branches = FrameOf(f).branches]
  <2>1. f.base = Top.base /\ f.ajax = Top.ajax
    BY DEF ForTop
  <2> DEFINE b == FrameOf(f).branches
             c == FrameOf(Top).branches
  <2>2. FrameOf(f) = [base |-> Top.base, ajax |-> Top.ajax, branches |-> b]
    BY <2>1 DEF FrameOf
  <2>3. FrameOf(Top) = [base |-> Top.base, ajax |-> Top.ajax, branches |-> c]
    BY DEF FrameOf
  <2> HIDE DEF b, c
  <2>4. FrameOf(f) = [FrameOf(Top) EXCEPT !.branches = b]
    BY <2>2, <2>3
  <2> QED
    BY <2>4 DEF b
<1>5. Frames(SetTop(f)) = WithBranchesBy(Frames(stack), FrameOf(f).branches)
  BY <1>2, <1>3, <1>4 DEF WithBranchesBy
<1>6. ASSUME f.ifs = Top.ifs PROVE Frames(SetTop(f)) = Frames(stack)
  <2>1. FrameOf(f) = FrameOf(Top)
    BY <1>6 DEF FrameOf, ForTop
  <2>2. [Frames(stack) EXCEPT ![Len(stack)] = Frames(stack)[Len(stack)]] = Frames(stack)
    BY <1>3
  <2> QED
    BY <1>2, <1>3, <2>1, <2>2
<1> QED
  BY <1>5, <1>6

\* A segment that changes no frame.
LEMMA ShowsSegment ==
    ASSUME Typed, stack # <<>>, Frames(stack') = Frames(stack),
           NEW whats \in {<<"text">>, <<"text", "value">>},
           Strip(out') = PutBy(Frames(stack), Strip(out), whats)
    PROVE  SegmentBy(Frames(stack), Strip(out), Frames(stack'), Strip(out'))
<1>1. Frames(stack) # <<>>
  BY FramesTop DEF Typed
<1> QED
  BY <1>1 DEF SegmentBy

LEMMA Pair == ASSUME NEW a \in Kinds, NEW b \in Kinds PROVE <<a>> \o <<b>> = <<a, b>>
<1>1. <<a>> \in Seq(Kinds) /\ <<b>> \in Seq(Kinds) /\ Len(<<a>>) = 1 /\ Len(<<b>>) = 1
  OBVIOUS
<1>2. <<a, b>> \in Seq(Kinds) /\ Len(<<a, b>>) = 2
  OBVIOUS
<1>3. <<a>> \o <<b>> \in Seq(Kinds) /\ Len(<<a>> \o <<b>>) = 2
      /\ \A i \in 1 .. 2 : (<<a>> \o <<b>>)[i] = IF i <= 1 THEN <<a>>[i] ELSE <<b>>[i - 1]
  BY <1>1, ConcatProperties
<1>4. \A i \in 1 .. 2 : (<<a>> \o <<b>>)[i] = <<a, b>>[i]
  BY <1>3
<1> QED
  BY <1>2, <1>3, <1>4, SameSequence

LEMMA TextOrMore ==
    ASSUME NEW more \in {<<>>, <<"value">>}
    PROVE  more \in Seq(Kinds) /\ <<"text">> \o more \in {<<"text">>, <<"text", "value">>}
<1>1. CASE more = <<>>
  BY <1>1, NoMore
<1>2. CASE more = <<"value">>
  <2>1. <<"text">> \o <<"value">> = <<"text", "value">>
    BY Pair DEF Kinds
  <2> QED
    BY <1>2, <2>1, NoMore
<1> QED
  BY <1>1, <1>2

LEMMA TextMeans ==
    ASSUME CleanInv, Slack = {}, Plain \/ Express
    PROVE  Simulates
<1>1. \E kind \in {"memo", "html_macro", "exec_macro", "sq_express", "var_express"},
        text \in BOOLEAN, more \in {<<>>, <<"value">>} :
          /\ Writes(kind, text, more) /\ stack' = SetTop(On(text))
          /\ UNCHANGED <<flag_switch, pCstrLock, env>>
  BY DEF Plain, Express
<1>2. PICK kind \in {"memo", "html_macro", "exec_macro", "sq_express", "var_express"},
        text \in BOOLEAN, more \in {<<>>, <<"value">>} :
          /\ Writes(kind, text, more) /\ stack' = SetTop(On(text))
          /\ UNCHANGED <<flag_switch, pCstrLock, env>>
  BY <1>1
<1>3. more \in Seq(Kinds) /\ <<"text">> \o more \in {<<"text">>, <<"text", "value">>}
  BY <1>2, TextOrMore
<1>4. /\ stack # <<>> /\ seg' = seg + 1
      /\ Strip(out') = PutBy(Frames(stack), Strip(out), <<"text">> \o more)
  BY <1>2, <1>3, TextWritten
<1>5. ForTop(On(text)) /\ On(text).ifs = Top.ifs /\ On(text).base = Top.base /\ On(text).expr = Top.expr
  BY <1>4, CleanIs, OnIs
<1>6. AllOK(stack', flag_switch', env')
  <2>1. FrameOK(On(text), flag_switch', env')
    BY <1>2, <1>4, <1>5, CleanIs DEF FrameOK, ForTop
  <2> QED
    BY <1>2, <1>4, <1>5, <2>1, CleanIs, TopOK
<1>7. Frames(stack') = Frames(stack)
  BY <1>2, <1>4, <1>5, CleanIs, TopMeant
<1> QED
  BY <1>3, <1>4, <1>6, <1>7, CleanIs, ShowsSegment DEF Simulates

\* Code changes conditions only of ifs that are not open.
LEMMA CodeMeans == ASSUME CleanInv, Slack = {}, Code PROVE Simulates
<1>1. PICK text \in BOOLEAN, more \in {<<>>, <<"value">>} :
        /\ Writes("script_code", text, more)
        /\ UNCHANGED env \/ \E c \in Conds : Flips(c)
        /\ stack' = SetTop(On(text))
        /\ UNCHANGED <<flag_switch, pCstrLock>>
  BY DEF Code, Allowed
<1>7. more \in Seq(Kinds) /\ <<"text">> \o more \in {<<"text">>, <<"text", "value">>}
  BY TextOrMore
<1>2. /\ stack # <<>> /\ seg' = seg + 1
      /\ Strip(out') = PutBy(Frames(stack), Strip(out), <<"text">> \o more)
  BY <1>1, <1>7, TextWritten
<1>3. ForTop(On(text)) /\ On(text).ifs = Top.ifs /\ On(text).base = Top.base /\ On(text).expr = Top.expr
  BY <1>2, CleanIs, OnIs
<1>4. Frames(stack') = Frames(stack)
  BY <1>1, <1>2, <1>3, CleanIs, TopMeant
<1>5. AllOK(stack, flag_switch, env')
  <2> SUFFICES ASSUME NEW i \in 1 .. Len(stack) PROVE FrameOK(stack[i], flag_switch, env')
    BY DEF AllOK
  <2>1. FrameOK(stack[i], flag_switch, env) /\ i \in DOMAIN stack /\ stack[i] \in CallRecord
    BY CleanIs, Indices DEF AllOK
  <2>2. stack[i].ifs \in Seq(Branch)
    BY <2>1 DEF CallRecord
  <2>3. ASSUME stack[i].ifs # <<>>
        PROVE  env'[stack[i].ifs[1].cond] = env[stack[i].ifs[1].cond]
    <3>1. 1 \in DOMAIN stack[i].ifs /\ stack[i].ifs[1] \in Branch
      BY <2>2, <2>3, EmptySeq, LenProperties, ElementOfSeq
    <3>2. stack[i].ifs[1].cond \in Conds
      BY <3>1 DEF Branch
    <3>3. env \in [Conds -> BOOLEAN]
      BY CleanIs DEF Typed
    <3>4. ASSUME NEW c \in Conds, Flips(c) PROVE env'[stack[i].ifs[1].cond] = env[stack[i].ifs[1].cond]
      <4>1. stack[i].ifs[1].cond # c /\ env' = [env EXCEPT ![c] = ~@]
        BY <2>1, <3>1, <3>4 DEF Flips, Allowed
      <4> QED
        BY <3>2, <3>3, <4>1
    <3> QED
      BY <1>1, <3>4
  <2> QED
    BY <2>1, <2>3 DEF FrameOK
<1>6. AllOK(stack', flag_switch', env')
  <2>1. FrameOK(On(text), flag_switch', env')
    <3>1. FrameOK(Top, flag_switch, env')
      BY <1>2, <1>5, CleanIs, TopIs DEF AllOK
    <3> QED
      BY <1>1, <1>3, <3>1 DEF FrameOK, ForTop
  <2> QED
    BY <1>1, <1>2, <1>3, <1>5, <2>1, TopOK
<1> QED
  BY <1>2, <1>4, <1>6, <1>7, CleanIs, ShowsSegment DEF Simulates

\* A segment that opens, turns over or closes a branch of the top frame.
LEMMA BranchSegment ==
    ASSUME Typed, stack # <<>>, NEW f, ForTop(f), f.base = Top.base, stack' = SetTop(f),
           Strip(out') = PutBy(Frames(stack), Strip(out), <<"text">>),
           NEW v \in BOOLEAN,
           \/ FrameOf(f).branches = Append(FrameOf(Top).branches, v)
           \/ /\ FrameOf(Top).branches # <<>>
              /\ \/ FrameOf(f).branches =
                       Append(Front(FrameOf(Top).branches), ~Last(FrameOf(Top).branches))
                 \/ FrameOf(f).branches = Front(FrameOf(Top).branches)
    PROVE  SegmentBy(Frames(stack), Strip(out), Frames(stack'), Strip(out'))
<1>1. Frames(stack) # <<>> /\ Last(Frames(stack)) = FrameOf(Top)
  BY FramesTop DEF Typed, Top
<1>2. Frames(stack') = WithBranchesBy(Frames(stack), FrameOf(f).branches)
  BY TopMeant
<1> QED
  BY <1>1, <1>2 DEF SegmentBy

LEMMA TopBranches ==
    ASSUME CleanInv, stack # <<>>
    PROVE  /\ Top.ifs \in Seq(Branch) /\ Len(Top.ifs) \in {0, 1}
           /\ Top.ifs = <<>> => FrameOf(Top).branches = <<>>
           /\ Top.ifs # <<>> => /\ Len(Top.ifs) = 1 /\ Top.ifs[1] \in Branch
                                /\ FrameOf(Top).branches = <<Top.ifs[1].value>>
                                /\ Last(Top.ifs) = Top.ifs[1] /\ Front(Top.ifs) = <<>>
<1>1. Top \in CallRecord /\ Top.ifs \in Seq(Branch) /\ Len(Top.ifs) \in Nat
  BY CleanIs, TopIs, LenProperties
<1>2. Len(Top.ifs) <= 1
  BY CleanIs DEF FrameOK
<1>3. \A k \in Nat : k <= 1 => k \in {0, 1}
  OBVIOUS
<1>4. Len(Top.ifs) \in {0, 1}
  BY <1>1, <1>2, <1>3, Zenon
<1>5. /\ FrameOf(Top).branches \in Seq(BOOLEAN) /\ Len(FrameOf(Top).branches) = Len(Top.ifs)
      /\ \A j \in 1 .. Len(Top.ifs) : FrameOf(Top).branches[j] = Top.ifs[j].value
  BY <1>1, FrameOfIs
<1>6. ASSUME Top.ifs = <<>> PROVE FrameOf(Top).branches = <<>>
  BY <1>5, <1>6, EmptySeq
<1>7. ASSUME Top.ifs # <<>>
      PROVE  /\ Len(Top.ifs) = 1 /\ Top.ifs[1] \in Branch
             /\ FrameOf(Top).branches = <<Top.ifs[1].value>>
             /\ Last(Top.ifs) = Top.ifs[1] /\ Front(Top.ifs) = <<>>
  <2>1. Len(Top.ifs) = 1
    BY <1>1, <1>4, <1>7, EmptySeq
  <2>2. Top.ifs[1] \in Branch
    BY <1>1, <2>1, ElementOfSeq
  <2>3. Top.ifs[1].value \in BOOLEAN
    BY <2>2 DEF Branch
  <2>4. <<Top.ifs[1].value>> \in Seq(BOOLEAN) /\ Len(<<Top.ifs[1].value>>) = 1
    BY <2>3
  <2>5. \A j \in 1 .. 1 : FrameOf(Top).branches[j] = <<Top.ifs[1].value>>[j]
    BY <1>5, <2>1
  <2>6. FrameOf(Top).branches = <<Top.ifs[1].value>>
    BY <1>5, <2>1, <2>4, <2>5, SameSequence
  <2>7. Last(Top.ifs) = Top.ifs[1] /\ Front(Top.ifs) = <<>>
    BY <2>1 DEF Last, Front
  <2> QED
    BY <2>1, <2>2, <2>6, <2>7
<1> QED
  BY <1>1, <1>4, <1>6, <1>7

LEMMA OneBranch ==
    ASSUME NEW c, c.ifs \in Seq(Branch), NEW b \in Branch, c.ifs = <<b>>
    PROVE  FrameOf(c).branches = <<b.value>> /\ Len(c.ifs) = 1 /\ c.ifs # <<>> /\ c.ifs[1] = b
<1>1. Len(c.ifs) = 1 /\ c.ifs # <<>> /\ c.ifs[1] = b /\ DOMAIN c.ifs = 1 .. 1
  OBVIOUS
<1>2. FrameOf(c).branches = [j \in 1 .. 1 |-> c.ifs[j].value]
  BY <1>1 DEF FrameOf
<1>3. [j \in 1 .. 1 |-> c.ifs[j].value] = <<b.value>>
  <2>1. [j \in 1 .. 1 |-> c.ifs[j].value] = [j \in 1 .. 1 |-> b.value]
    BY <1>1
  <2>2. [j \in 1 .. 1 |-> b.value] = <<b.value>>
    OBVIOUS
  <2> QED
    BY <2>1, <2>2
<1> QED
  BY <1>1, <1>2, <1>3

\* What the three tags of an if share: f takes the place of the top.
LEMMA IfMeans ==
    ASSUME CleanInv, stack # <<>>, NEW f, ForTop(f), f.base = Top.base, stack' = SetTop(f),
           FrameOK(f, flag_switch', env'), env' = env,
           \A obj \in Objs : obj # Top.obj => flag_switch'[obj] = flag_switch[obj],
           Strip(out') = PutBy(Frames(stack), Strip(out), <<"text">>), seg' = seg + 1,
           NEW v \in BOOLEAN,
           \/ FrameOf(f).branches = Append(FrameOf(Top).branches, v)
           \/ /\ FrameOf(Top).branches # <<>>
              /\ \/ FrameOf(f).branches =
                       Append(Front(FrameOf(Top).branches), ~Last(FrameOf(Top).branches))
                 \/ FrameOf(f).branches = Front(FrameOf(Top).branches)
    PROVE  Simulates
<1>1. AllOK(stack', flag_switch', env')
  BY CleanIs, TopOK
<1>2. SegmentBy(Frames(stack), Strip(out), Frames(stack'), Strip(out'))
  BY CleanIs, BranchSegment
<1> QED
  BY <1>1, <1>2 DEF Simulates

LEMMA IfHeadMeans == ASSUME CleanInv, Slack = {}, IfHead PROVE Simulates
<1>1. PICK c \in Conds, text \in BOOLEAN :
         /\ Top.ifs = <<>>
         /\ Writes("if_head", text, <<>>)
         /\ flag_switch' = [flag_switch EXCEPT ![Top.obj] = @ /\ (Compiled(text) => env[c])]
         /\ stack' = SetTop([On(text) EXCEPT
                               !.expr = IF Compiled(text) THEN {c} ELSE @,
                               !.ifs = Append(@, [cond |-> c, value |-> env[c], turned |-> FALSE])])
         /\ UNCHANGED <<pCstrLock, env>>
  BY DEF IfHead, Allowed
<1>2. /\ text /\ Compiled(text) /\ stack # <<>> /\ seg' = seg + 1
      /\ Strip(out') = PutBy(Frames(stack), Strip(out), <<"text">>)
  BY <1>1, JustText
<1> DEFINE b == [cond |-> c, value |-> env[c], turned |-> FALSE]
           f == WithIfs(text, {c}, <<b>>)
<1>3. /\ env[c] \in BOOLEAN /\ b \in Branch
      /\ b.cond = c /\ b.value = env[c] /\ ~b.turned
  BY CleanIs DEF Typed, Branch
<1> HIDE DEF b
<1>4. <<b>> \in Seq(Branch)
  BY <1>3
<1>5. /\ ForTop(f) /\ f.ifs = <<b>> /\ f.expr = {c} /\ f.base = Top.base /\ f.obj = Top.obj
  <2>1. {c} \in SUBSET Conds /\ Typed
    BY CleanIs
  <2>2. ForTop(f) /\ f.ifs = <<b>> /\ f.expr = {c} /\ f.base = Top.base
    BY <1>2, <1>4, <2>1, IfsChanged
  <2> QED
    BY <2>2 DEF ForTop
<1>6. stack' = SetTop(f)
  <2>1. Append(On(text).ifs, b) = <<b>>
    <3>1. On(text).ifs = <<>>
      BY <1>1, <1>2, CleanIs, OnIs
    <3> QED
      BY <3>1
  <2> QED
    BY <1>1, <1>2, <2>1 DEF b, WithIfs
<1>7. /\ flag_switch'[Top.obj] = env[c]
      /\ \A obj \in Objs : obj # Top.obj => flag_switch'[obj] = flag_switch[obj]
  <2>1. flag_switch[Top.obj] = TRUE
    BY <1>1, <1>2, CleanIs DEF FrameOK
  <2>2. flag_switch \in [Objs -> BOOLEAN] /\ Top.obj \in Objs
    BY <1>2, CleanIs, TopIs DEF Typed
  <2>3. flag_switch'[Top.obj] = (flag_switch[Top.obj] /\ (Compiled(text) => env[c]))
    BY <1>1, <2>2
  <2> QED
    BY <1>1, <1>2, <1>3, <2>1, <2>2, <2>3
<1> HIDE DEF f
<1>8. FrameOf(f).branches = <<env[c]>> /\ Len(f.ifs) = 1 /\ f.ifs # <<>> /\ f.ifs[1] = b
  BY <1>3, <1>4, <1>5, OneBranch
<1>9. FrameOK(f, flag_switch', env')
  BY <1>1, <1>2, <1>3, <1>5, <1>7, <1>8, CleanIs DEF FrameOK
<1>10. FrameOf(f).branches = Append(FrameOf(Top).branches, env[c])
  BY <1>1, <1>2, <1>8, TopBranches
<1> QED
  BY <1>1, <1>2, <1>3, <1>5, <1>6, <1>7, <1>9, <1>10, IfMeans

LEMMA IfElseMeans == ASSUME CleanInv, Slack = {}, IfElse PROVE Simulates
<1>1. PICK text \in BOOLEAN :
         /\ Top.ifs # <<>> /\ ~Last(Top.ifs).turned
         /\ InTemplate
         /\ Writes("if_else", text, <<>>)
         /\ flag_switch' = IF InTemplate /\ Compiled(text)
               THEN [flag_switch EXCEPT ![Top.obj] = \A c \in Top.expr : ~env[c]]
               ELSE flag_switch
         /\ stack' = SetTop([On(text) EXCEPT
                               !.ifs[Len(Top.ifs)] = Turned(@)])
         /\ UNCHANGED <<pCstrLock, env>>
  BY DEF IfElse, Allowed
<1>2. /\ text /\ Compiled(text) /\ stack # <<>> /\ seg' = seg + 1
      /\ Strip(out') = PutBy(Frames(stack), Strip(out), <<"text">>)
  BY <1>1, JustText
<1> DEFINE old == Top.ifs[1]
           b == Turned(old)
           f == WithIfs(text, Top.expr, <<b>>)
<1>3. /\ old \in Branch /\ Len(Top.ifs) = 1 /\ Top.ifs \in Seq(Branch) /\ ~old.turned
      /\ FrameOf(Top).branches = <<old.value>>
  BY <1>1, <1>2, TopBranches
<1>4. /\ b \in Branch /\ b.value = ~old.value /\ b.turned
      /\ old.value \in BOOLEAN /\ old.cond \in Conds
  BY <1>3 DEF Branch, Turned
<1>5. /\ Top.expr = {old.cond} /\ env[old.cond] = old.value
  BY <1>1, <1>2, <1>3, CleanIs DEF FrameOK
<1> HIDE DEF b, old
<1>6. <<b>> \in Seq(Branch)
  BY <1>4
<1>7. ForTop(f) /\ f.ifs = <<b>> /\ f.expr = Top.expr /\ f.base = Top.base /\ f.obj = Top.obj
  <2>1. Top.expr \in SUBSET Conds /\ Typed
    BY <1>2, CleanIs, TopIs
  <2>2. ForTop(f) /\ f.ifs = <<b>> /\ f.expr = Top.expr /\ f.base = Top.base
    BY <1>2, <1>6, <2>1, IfsChanged
  <2> QED
    BY <2>2 DEF ForTop
<1>8. stack' = SetTop(f)
  <2>1. On(text).ifs = Top.ifs
    BY <1>2, CleanIs, OnIs
  <2>2. [On(text).ifs EXCEPT ![1] = Turned(@)] = <<b>>
    <3>1. [Top.ifs EXCEPT ![1] = b] \in Seq(Branch) /\ Len([Top.ifs EXCEPT ![1] = b]) = 1
          /\ [Top.ifs EXCEPT ![1] = b][1] = b
      BY <1>3, <1>4, ExceptSeq
    <3>2. [Top.ifs EXCEPT ![1] = b] = <<b>>
      BY <1>6, <3>1, SameSequence
    <3> QED
      BY <2>1, <3>2 DEF b, old
  <2>3. [On(text) EXCEPT !.ifs[1] = Turned(@)] = [On(text) EXCEPT !.ifs = <<b>>]
    BY <2>2
  <2>4. [On(text) EXCEPT !.ifs = <<b>>] = f
    BY <1>2, <1>6, CleanIs, OnlyIfsChanged
  <2> QED
    BY <1>1, <1>3, <2>3, <2>4
<1>9. /\ flag_switch'[Top.obj] = (~old.value)
      /\ \A obj \in Objs : obj # Top.obj => flag_switch'[obj] = flag_switch[obj]
  <2>1. flag_switch \in [Objs -> BOOLEAN] /\ Top.obj \in Objs
    BY <1>2, CleanIs, TopIs DEF Typed
  <2>2. (\A c \in Top.expr : ~env[c]) = (~old.value)
    BY <1>4, <1>5
  <2> QED
    BY <1>1, <1>2, <2>1, <2>2
<1> HIDE DEF f
<1>10. FrameOf(f).branches = <<b.value>> /\ Len(f.ifs) = 1 /\ f.ifs # <<>> /\ f.ifs[1] = b
  BY <1>4, <1>6, <1>7, OneBranch
<1>11. FrameOK(f, flag_switch', env')
  <2>1. f.base
    BY <1>2, <1>7, CleanIs DEF FrameOK
  <2>2. flag_switch'[f.obj] = f.ifs[1].value
    BY <1>4, <1>7, <1>9, <1>10
  <2>3. (f.ifs = <<>> \/ f.ifs[1].value) = f.ifs[1].value
    BY <1>4, <1>10
  <2> QED
    BY <1>4, <1>10, <2>1, <2>2, <2>3 DEF FrameOK
<1>12. /\ FrameOf(Top).branches # <<>>
       /\ FrameOf(f).branches = Append(Front(FrameOf(Top).branches), ~Last(FrameOf(Top).branches))
  <2>1. Front(<<old.value>>) = <<>> /\ Last(<<old.value>>) = old.value /\ <<old.value>> # <<>>
    BY DEF Front, Last
  <2>2. FrameOf(f).branches = <<~old.value>>
    BY <1>4, <1>10
  <2> QED
    BY <1>3, <2>1, <2>2
<1> QED
  BY <1>1, <1>2, <1>7, <1>8, <1>9, <1>11, <1>12, IfMeans

LEMMA IfEndMeans == ASSUME CleanInv, Slack = {}, IfEnd PROVE Simulates
<1>1. PICK text \in BOOLEAN :
         /\ Top.ifs # <<>>
         /\ Writes("if_end", text, <<>>)
         /\ flag_switch' = [flag_switch EXCEPT ![Top.obj] = Compiled(text) \/ @]
         /\ stack' = SetTop([On(text) EXCEPT !.ifs = Front(@)])
         /\ UNCHANGED <<pCstrLock, env>>
  BY DEF IfEnd
<1>2. /\ text /\ Compiled(text) /\ stack # <<>> /\ seg' = seg + 1
      /\ Strip(out') = PutBy(Frames(stack), Strip(out), <<"text">>)
  BY <1>1, JustText
<1> DEFINE f == WithIfs(text, Top.expr, <<>>)
<1>3. Front(Top.ifs) = <<>> /\ FrameOf(Top).branches = <<Top.ifs[1].value>> /\ On(text).ifs = Top.ifs
  BY <1>1, <1>2, TopBranches, CleanIs, OnIs
<1>4. <<>> \in Seq(Branch)
  BY EmptySeq
<1>5. ForTop(f) /\ f.ifs = <<>> /\ f.base = Top.base /\ f.obj = Top.obj
  <2>1. Top.expr \in SUBSET Conds /\ Typed
    BY <1>2, CleanIs, TopIs
  <2>2. ForTop(f) /\ f.ifs = <<>> /\ f.base = Top.base
    BY <1>2, <1>4, <2>1, IfsChanged
  <2> QED
    BY <2>2 DEF ForTop
<1>6. stack' = SetTop(f)
  <2>1. [On(text) EXCEPT !.ifs = <<>>] = f
    BY <1>2, <1>4, CleanIs, OnlyIfsChanged
  <2> QED
    BY <1>1, <1>3, <2>1
<1>7. /\ flag_switch'[Top.obj] = TRUE
      /\ \A obj \in Objs : obj # Top.obj => flag_switch'[obj] = flag_switch[obj]
  <2>1. flag_switch \in [Objs -> BOOLEAN] /\ Top.obj \in Objs
    BY <1>2, CleanIs, TopIs DEF Typed
  <2> QED
    BY <1>1, <1>2, <2>1
<1> HIDE DEF f
<1>8. FrameOK(f, flag_switch', env')
  <2>1. Len(f.ifs) <= 1
    BY <1>5
  <2>2. f.base
    BY <1>2, <1>5, CleanIs DEF FrameOK
  <2> QED
    BY <1>5, <1>7, <2>1, <2>2 DEF FrameOK
<1>9. /\ FrameOf(Top).branches # <<>>
      /\ FrameOf(f).branches = Front(FrameOf(Top).branches)
  <2>1. Front(<<Top.ifs[1].value>>) = <<>> /\ <<Top.ifs[1].value>> # <<>>
    BY DEF Front
  <2>2. FrameOf(f).branches = <<>>
    BY <1>5 DEF FrameOf
  <2> QED
    BY <1>3, <2>1, <2>2
<1> QED
  BY <1>1, <1>2, <1>5, <1>6, <1>7, <1>8, <1>9, IfMeans

\* The end of a call, of the page or by an error: the first n frames are left.
LEMMA CutMeans ==
    ASSUME CleanInv, stack # <<>>, NEW mid, Calls(mid), Frames(mid) = Frames(stack),
           AllOK(mid, flag_switch', env'), NEW n \in 0 .. Len(mid), stack' = SubSeq(mid, 1, n),
           Strip(out') = PutBy(Frames(stack), Strip(out), <<"text">>), seg' = seg + 1
    PROVE  Simulates
<1>1. Len(mid) \in Nat /\ n \in Nat
  BY Indices
<1>2. Calls(stack') /\ Len(stack') = n /\ \A i \in 1 .. n : stack'[i] = mid[i]
  BY Cut
<1>3. AllOK(stack', flag_switch', env')
  BY <1>1, <1>2 DEF AllOK
<1>4. Frames(stack') = SubSeq(Frames(stack), 1, n)
  BY FramesCut
<1>5. CASE n = Len(mid)
  <2>1. mid \in Seq(CallRecord) /\ stack' \in Seq(CallRecord)
    BY <1>2 DEF Calls
  <2>2. stack' = mid
    BY <1>2, <1>5, <2>1, SameSequence
  <2> QED
    BY <1>3, <2>2, CleanIs, ShowsSegment DEF Simulates
<1>6. CASE n # Len(mid)
  <2>1. n + 1 \in 1 .. Len(mid) /\ (n + 1) - 1 = n
    BY <1>1, <1>6
  <2>2. DOMAIN Frames(stack) = 1 .. Len(mid)
    BY FramesAre
  <2>3. \E i \in DOMAIN Frames(stack) : Frames(stack') = SubSeq(Frames(stack), 1, i - 1)
    BY <1>4, <2>1, <2>2
  <2>4. Frames(stack) # <<>>
    BY CleanIs, FramesTop
  <2> QED
    BY <1>3, <2>3, <2>4 DEF Simulates, SegmentBy
<1> QED
  BY <1>5, <1>6

LEMMA RaiseCuts ==
    ASSUME NEW stk, Calls(stk), stk # <<>>, NEW lock, Raise(stk, lock)
    PROVE  \E n \in 0 .. Len(stk) : n # Len(stk) /\ stack' = SubSeq(stk, 1, n)
<1>1. Len(stk) \in Nat /\ Len(stk) # 0
  BY TopIndex, Indices
<1>2. CASE AjaxCalls(stk) = {}
  <2>1. stack' = SubSeq(stk, 1, 0)
    BY <1>2 DEF Raise
  <2> QED
    BY <1>1, <2>1
<1>3. CASE AjaxCalls(stk) # {}
  <2> DEFINE j == Innermost(AjaxCalls(stk))
  <2>1. j \in AjaxCalls(stk) /\ stack' = SubSeq(stk, 1, j - 1)
    BY <1>3, InnermostIsLast DEF Raise
  <2> HIDE DEF j
  <2>2. j - 1 \in 0 .. Len(stk) /\ j - 1 # Len(stk)
    BY <1>1, <2>1, Indices
  <2> QED
    BY <2>1, <2>2
<1> QED
  BY <1>2, <1>3

LEMMA TextTop ==
    ASSUME CleanInv, stack # <<>>, NEW text \in BOOLEAN
    PROVE  LET mid == SetTop(On(text)) IN
           /\ Calls(mid) /\ Alike(mid, stack) /\ mid # <<>> /\ Frames(mid) = Frames(stack)
           /\ AllOK(mid, flag_switch, env)
<1>1. ForTop(On(text)) /\ On(text).ifs = Top.ifs /\ On(text).base = Top.base /\ On(text).expr = Top.expr
  BY CleanIs, OnIs
<1>2. Frames(SetTop(On(text))) = Frames(stack)
  BY <1>1, CleanIs, TopMeant
<1>3. FrameOK(On(text), flag_switch, env)
  BY <1>1, CleanIs DEF FrameOK, ForTop
<1>4. AllOK(SetTop(On(text)), flag_switch, env)
  BY <1>1, <1>3, CleanIs, TopOK
<1>5. Calls(SetTop(On(text))) /\ Alike(SetTop(On(text)), stack) /\ SetTop(On(text)) # <<>>
  <2>1. Calls(stack) /\ On(text) \in CallRecord /\ On(text).obj = Last(stack).obj /\ On(text).ajax = Last(stack).ajax
    BY <1>1, CleanIs DEF ForTop, Top
  <2> QED
    BY <2>1, PutTop DEF SetTop
<1> QED
  BY <1>2, <1>4, <1>5

LEMMA CalledWhereShown ==
    ASSUME CleanInv, stack # <<>>, ~Hidden
    PROVE  ShownBy(Frames(stack)) = TRUE
<1>1. Top.ifs # <<>> => Top.ifs[1].value
  <2>1. ASSUME Top.ifs # <<>> PROVE 1 \in DOMAIN Top.ifs
    BY <2>1, TopBranches, LenProperties
  <2> QED
    BY <2>1 DEF Hidden
<1>2. flag_switch[Top.obj] = (Top.ifs = <<>> \/ Top.ifs[1].value)
  BY CleanIs DEF FrameOK
<1>3. ShownBy(Frames(stack)) = (Top.ifs = <<>> \/ Top.ifs[1].value)
  BY <1>2, TopShown
<1> QED
  BY <1>1, <1>3

LEMMA EnterMeans ==
    ASSUME CleanInv, Slack = {}, stack # <<>>, NEW t \in Templates, NEW ajax \in BOOLEAN, MayCall(t),
           NEW lock, NEW text \in BOOLEAN, Enter(t, ajax, lock, On(text)), env' = env,
           Strip(out') = PutBy(Frames(stack), Strip(out), <<"text">>), seg' = seg + 1
    PROVE  Simulates
<1> DEFINE callee == Call(t, ajax, ~Hidden)
           mid == SetTop(On(text))
           pushed == Append(mid, callee)
<1>1. /\ Calls(mid) /\ Alike(mid, stack) /\ mid # <<>> /\ Frames(mid) = Frames(stack)
      /\ AllOK(mid, flag_switch, env)
  BY TextTop
<1>2. ~Hidden
  BY DEF MayCall, Allowed
<1>3. /\ callee \in CallRecord /\ callee.obj = t /\ callee.ajax = ajax
      /\ callee.ifs = <<>> /\ callee.base = TRUE
  BY <1>2, CalleeIs
<1>4. \/ stack' = pushed /\ flag_switch' = [flag_switch EXCEPT ![t] = TRUE]
      \/ Raise(pushed, lock) /\ flag_switch' = flag_switch
  BY DEF Enter
<1> HIDE DEF callee, mid
<1>5. /\ Calls(pushed) /\ Len(pushed) = Len(mid) + 1 /\ pushed # <<>>
      /\ pushed[Len(mid) + 1] = callee
      /\ \A i \in 1 .. Len(mid) : pushed[i] = mid[i]
  BY <1>1, <1>3, Pushed
<1>6. Len(mid) \in Nat /\ Len(mid) = Len(stack)
  BY <1>1, Indices DEF Alike
<1>7. CASE stack' = pushed /\ flag_switch' = [flag_switch EXCEPT ![t] = TRUE]
  <2>1. flag_switch \in [Objs -> BOOLEAN] /\ t \in Objs
    BY CleanIs DEF Typed, Objs
  <2>2. FrameOK(callee, flag_switch', env')
    <3>1. flag_switch'[t] = TRUE
      BY <1>7, <2>1
    <3>2. Len(<<>>) <= 1
      OBVIOUS
    <3> QED
      BY <1>3, <3>1, <3>2 DEF FrameOK
  <2>3. ASSUME NEW i \in 1 .. Len(mid) PROVE FrameOK(mid[i], flag_switch', env')
    <3>1. mid[i].obj # t /\ mid[i].obj \in Objs
      <4>1. mid[i].obj = stack[i].obj /\ i \in DOMAIN stack
        BY <1>1, <1>6, CleanIs, Indices DEF Alike
      <4>2. mid[i] \in CallRecord
        BY <1>1, Indices
      <4> QED
        BY <4>1, <4>2 DEF MayCall, Allowed, CallRecord
    <3>2. flag_switch'[mid[i].obj] = flag_switch[mid[i].obj]
      BY <1>7, <2>1, <3>1
    <3> QED
      BY <1>1, <3>2 DEF FrameOK, AllOK
  <2>4. AllOK(stack', flag_switch', env')
    <3>1. \A i \in 1 .. Len(mid) + 1 : i \in 1 .. Len(mid) \/ i = Len(mid) + 1
      BY <1>6
    <3> QED
      BY <1>5, <1>7, <2>2, <2>3, <3>1 DEF AllOK
  <2>5. Frames(stack') = Append(Frames(stack), FrameOf(callee))
    BY <1>1, <1>3, <1>7, FramesPush
  <2>6. FrameOf(callee) = Meaning!Frame(ShownBy(Frames(stack)), ajax)
    <3>1. [j \in DOMAIN callee.ifs |-> callee.ifs[j].value] = <<>>
      BY <1>3
    <3>2. FrameOf(callee) = [base |-> TRUE, ajax |-> ajax, branches |-> <<>>]
      BY <1>3, <3>1 DEF FrameOf
    <3> QED
      BY <1>2, <3>2, CalledWhereShown DEF Meaning!Frame
  <2>7. Frames(stack) # <<>>
    BY CleanIs, FramesTop
  <2>8. Strip(out') \in {Strip(out), PutBy(Frames(stack), Strip(out), <<"text">>)}
    OBVIOUS
  <2> QED
    BY <2>4, <2>5, <2>6, <2>7, <2>8 DEF Simulates, SegmentBy
<1>8. CASE Raise(pushed, lock) /\ flag_switch' = flag_switch
  <2>1. PICK n \in 0 .. Len(pushed) : n # Len(pushed) /\ stack' = SubSeq(pushed, 1, n)
    BY <1>5, <1>8, RaiseCuts
  <2>2. n \in 0 .. Len(mid)
    BY <1>5, <1>6, <2>1
  <2>3. SubSeq(pushed, 1, n) = SubSeq(mid, 1, n)
    <3>1. /\ Calls(SubSeq(pushed, 1, n)) /\ Len(SubSeq(pushed, 1, n)) = n
          /\ \A i \in 1 .. n : SubSeq(pushed, 1, n)[i] = pushed[i]
      BY <1>5, <2>1, Cut
    <3>2. /\ Calls(SubSeq(mid, 1, n)) /\ Len(SubSeq(mid, 1, n)) = n
          /\ \A i \in 1 .. n : SubSeq(mid, 1, n)[i] = mid[i]
      BY <1>1, <2>2, Cut
    <3>3. \A i \in 1 .. n : pushed[i] = mid[i]
      BY <1>5, <1>6, <2>2
    <3> QED
      BY <3>1, <3>2, <3>3, SameSequence DEF Calls
  <2> HIDE DEF pushed
  <2>4. stack' = SubSeq(mid, 1, n) /\ AllOK(mid, flag_switch', env')
    BY <1>1, <1>8, <2>1, <2>3
  <2> QED
    BY <1>1, <2>2, <2>4, CutMeans
<1> QED
  BY <1>4, <1>7, <1>8

LEMMA CallMeans ==
    ASSUME CleanInv, Slack = {}, ExecMacro \/ CodeCall \/ AjaxInnerTemplate
    PROVE  Simulates
<1>1. PICK kind \in {"exec_macro", "script_code"}, t \in Templates, text \in BOOLEAN, ajax \in BOOLEAN,
           lock \in {pCstrLock, Top.obj} :
         /\ stack # <<>> /\ MayCall(t)
         /\ Writes(kind, text, <<>>)
         /\ Enter(t, ajax, lock, On(text))
         /\ UNCHANGED env
  <2>1. CASE ExecMacro
    BY <2>1 DEF ExecMacro
  <2>2. CASE CodeCall
    BY <2>2 DEF CodeCall
  <2>3. CASE AjaxInnerTemplate
    <3>1. PICK t \in Templates, text \in BOOLEAN :
             /\ stack # <<>> /\ MayCall(t) /\ Writes("script_code", text, <<>>)
             /\ Enter(t, TRUE, IF pCstrLock = NoObj THEN Top.obj ELSE pCstrLock, On(text)) /\ UNCHANGED env
      BY <2>3 DEF AjaxInnerTemplate
    <3>2. (IF pCstrLock = NoObj THEN Top.obj ELSE pCstrLock) \in {pCstrLock, Top.obj}
      OBVIOUS
    <3> QED
      BY <3>1, <3>2
  <2> QED
    BY <2>1, <2>2, <2>3
<1> QED
  BY <1>1, JustText, EnterMeans

LEMMA EndMeans == ASSUME CleanInv, Slack = {}, EndTemplate PROVE Simulates
<1>1. PICK text \in BOOLEAN :
        /\ Writes("macro_end", text, <<>>)
        /\ stack' = Front(stack) /\ UNCHANGED <<flag_switch, env>>
  BY DEF EndTemplate
<1>2. /\ stack # <<>> /\ seg' = seg + 1 /\ Strip(out') = PutBy(Frames(stack), Strip(out), <<"text">>)
  BY <1>1, JustText
<1>3. Len(stack) - 1 \in 0 .. Len(stack) /\ stack' = SubSeq(stack, 1, Len(stack) - 1)
  BY <1>1, <1>2, CleanIs, TopIs, Indices DEF Front
<1>4. Calls(stack) /\ AllOK(stack, flag_switch', env')
  BY <1>1, CleanIs
<1> QED
  BY <1>2, <1>3, <1>4, CutMeans

LEMMA ErrorMeans == ASSUME CleanInv, Slack = {}, ScriptError PROVE Simulates
<1>1. PICK text \in BOOLEAN :
        /\ Writes("script_code", text, <<>>)
        /\ Raise(stack, pCstrLock) /\ UNCHANGED <<flag_switch, env>>
  BY DEF ScriptError
<1>2. /\ stack # <<>> /\ seg' = seg + 1 /\ Strip(out') = PutBy(Frames(stack), Strip(out), <<"text">>)
  BY <1>1, JustText
<1>3. Calls(stack) /\ AllOK(stack, flag_switch', env')
  BY <1>1, CleanIs
<1>4. \E n \in 0 .. Len(stack) : stack' = SubSeq(stack, 1, n)
  BY <1>1, <1>2, <1>3, RaiseCuts
<1> QED
  BY <1>2, <1>3, <1>4, CutMeans

\* lastWrite does not look at the switch, which is on where the page ends.
LEMMA LastMeans == ASSUME CleanInv, Slack = {}, LastWrite PROVE Simulates
<1>1. /\ stack # <<>> /\ ~InTemplate /\ Top.ifs = <<>> /\ seg' = seg + 1
      /\ out' = Append(out, Piece("text")) /\ stack' = <<>> /\ UNCHANGED <<flag_switch, env>>
  BY DEF LastWrite, Reach
<1>2. Written(<<"text">>) = <<Piece("text")>>
  <2>1. flag_switch[Top.obj]
    BY <1>1, CleanIs DEF FrameOK
  <2>2. [i \in DOMAIN <<"text">> |-> Piece(<<"text">>[i])] = <<Piece("text")>>
    OBVIOUS
  <2> QED
    BY <2>1, <2>2 DEF Written
<1>3. Piece("text") \in Written1 /\ out \in Seq(Written1)
  BY CleanIs, PieceType DEF Kinds, Typed
<1>4. out' = out \o Written(<<"text">>)
  BY <1>1, <1>2, <1>3, AppendIsConcat
<1>5. <<"text">> \in Seq(Kinds)
  <2>1. "text" \in Kinds
    BY DEF Kinds
  <2> QED
    BY <2>1
<1>6. Strip(out') = PutBy(Frames(stack), Strip(out), <<"text">>)
  BY <1>1, <1>4, <1>5, WrittenIsPut
<1>7. 0 \in 0 .. Len(stack) /\ stack' = SubSeq(stack, 1, 0)
  BY <1>1, CleanIs, Indices
<1>8. Calls(stack) /\ AllOK(stack, flag_switch', env')
  BY <1>1, CleanIs
<1> QED
  BY <1>1, <1>6, <1>7, <1>8, CutMeans

LEMMA StartMeans ==
    ASSUME CleanInv, Request
    PROVE  Meaning!Start /\ AllOK(stack', flag_switch', env')
<1> DEFINE c == Call(Page, FALSE, TRUE)
           stk == <<c>>
<1>1. /\ stack = <<>> /\ stack' = stk /\ out' = <<>> /\ seg' = 0
      /\ flag_switch' = [flag_switch EXCEPT ![Page] = TRUE] /\ env' = env
  BY DEF Request
<1>2. c \in CallRecord /\ c.obj = Page /\ ~c.ajax /\ c.ifs = <<>> /\ c.base
  BY PageIs
<1>3. Calls(stk) /\ Len(stk) = 1 /\ stk[1] = c
  BY PageCall
<1>4. AllOK(stk, flag_switch', env')
  <2>1. flag_switch'[Page] = TRUE
    BY <1>1, CleanIs DEF Typed, Objs
  <2>2. Len(<<>>) <= 1
    OBVIOUS
  <2> HIDE DEF c
  <2>3. FrameOK(c, flag_switch', env')
    BY <1>2, <2>1, <2>2 DEF FrameOK
  <2> HIDE DEF stk
  <2> QED
    BY <1>3, <2>3 DEF AllOK
<1>5. Frames(stk) = <<[base |-> TRUE, ajax |-> FALSE, branches |-> <<>>]>>
  <2>1. c.base = TRUE /\ c.ajax = FALSE /\ [j \in DOMAIN c.ifs |-> c.ifs[j].value] = <<>>
    <3> HIDE DEF c
    <3>1. c.base \in BOOLEAN /\ c.ajax \in BOOLEAN
      BY <1>2 DEF CallRecord
    <3>2. [j \in DOMAIN c.ifs |-> c.ifs[j].value] = <<>>
      BY <1>2
    <3> QED
      BY <1>2, <3>1, <3>2
  <2>2. FrameOf(c) = [base |-> TRUE, ajax |-> FALSE, branches |-> <<>>]
    BY <2>1 DEF FrameOf
  <2> HIDE DEF c
  <2>3. Frames(stk) = <<FrameOf(c)>>
    BY DEF Frames
  <2> QED
    BY <2>2, <2>3
<1> HIDE DEF stk, c
<1>6. Frames(stack) = <<>> /\ Frames(stack') = <<[base |-> TRUE, ajax |-> FALSE, branches |-> <<>>]>>
      /\ Strip(out') = <<>>
  BY <1>1, <1>5 DEF Frames, Strip
<1>7. Meaning!Start
  BY <1>1, <1>6 DEF Meaning!Start, Meaning!Frame, Frames, FrameOf, Strip, Meant
<1> QED
  BY <1>1, <1>4, <1>7

LEMMA CleanStep ==
    ASSUME CleanInv, Slack = {}, [Next]_vars
    PROVE  CleanInv' /\ (Meaning!Next \/ UNCHANGED Meaning!vars)
<1>1. Typed /\ Held(stack, pCstrLock) /\ HeldByFirst(stack, pCstrLock) /\ "recursive" \notin Slack
  BY DEF CleanInv, LockInv
<1>2. Typed' /\ Held(stack', pCstrLock') /\ HeldByFirst(stack', pCstrLock')
  BY <1>1, AnyStep DEF Stepped, Carries
<1>3. AllOK(stack', flag_switch', env') => CleanInv'
  BY <1>2 DEF AllOK, CleanInv, LockInv
<1>4. Simulates => Meaning!Next
  BY SegmentIs DEF Simulates, Meaning!Next
<1>5. CASE Request
  BY <1>3, <1>5, StartMeans DEF Meaning!Next
<1>6. CASE stack # <<>> /\ (Plain \/ Express \/ Code)
  BY <1>3, <1>4, <1>6, TextMeans, CodeMeans DEF Simulates
<1>7. CASE stack # <<>> /\ (IfHead \/ IfElse \/ IfEnd)
  BY <1>3, <1>4, <1>7, IfHeadMeans, IfElseMeans, IfEndMeans DEF Simulates
<1>8. CASE ExecMacro \/ CodeCall \/ AjaxInnerTemplate
  BY <1>3, <1>4, <1>8, CallMeans DEF Simulates
<1>9. CASE EndTemplate \/ LastWrite \/ ScriptError
  BY <1>3, <1>4, <1>9, EndMeans, LastMeans, ErrorMeans DEF Simulates
<1>10. CASE UNCHANGED vars
  <2>1. AllOK(stack', flag_switch', env')
    BY <1>10, CleanIs DEF vars
  <2> QED
    BY <1>3, <1>10, <2>1 DEF vars, Meaning!vars
<1> QED
  BY <1>5, <1>6, <1>7, <1>8, <1>9, <1>10 DEF Next

LEMMA CleanStart == ASSUME Init PROVE CleanInv /\ Meaning!Init
<1>1. CleanInv
  BY Start DEF CleanInv, LockInv, Init
<1> QED
  BY <1>1 DEF Init, Meaning!Init

\* A page with no vice in Slack shows what it is meant to show: each step of
\* the compiled page is a step of PageMeaning, whatever the templates, the
\* conditions, the calls, the errors and the requests before.
THEOREM PageShowsItsMeaning == Slack = {} => (Spec => ShowsItsMeaning)
<1> SUFFICES ASSUME Slack = {} PROVE Spec => ShowsItsMeaning
  OBVIOUS
<1>1. Init => CleanInv /\ Meaning!Init
  BY CleanStart
<1>2. CleanInv /\ [Next]_vars => CleanInv' /\ (Meaning!Next \/ UNCHANGED Meaning!vars)
  BY CleanStep
<1> QED
  BY <1>1, <1>2, PTL DEF Spec, ShowsItsMeaning, Meaning!Spec
-----------------------------------------------------------------------------
(* The remote debugger, for any script, any client and any bounds.         *)

Server ==
    /\ _state \in States /\ _nestedcalls \in Nat /\ depth \in Nat
    /\ inbox \in Seq(Messages)
    /\ phase = "break" => _state = "Suspended"

\* Inside a call made since a step was asked for, the calls counted say at least
\* how deep the script is; in the other states what was asked for is plain.
Going == phase \in {"waiting", "run", "update"}
Steps == {"StepOver", "StepReturn"}
Counted == want.depth + (IF _state = "StepReturn" THEN 1 ELSE 0) + _nestedcalls
AskedFor ==
    /\ _state = "Running" => want = AtBreakpoint
    /\ _state \in {"Suspended", "StepInto"} => want = Always
    /\ _state = "Disabled" => want = Never
    /\ _state \in Steps => want.stop = "depth" /\ want.depth \in Int /\ depth <= Counted

AskInv == Server /\ (depth > 0 /\ Going => AskedFor)

LEMMA Asks ==
    ASSUME Server, NEW msg, ParseMsg(msg), UNCHANGED <<depth, _nestedcalls>>, AskedFor \/ _state = "Suspended"
    PROVE  /\ _state' \in States
           /\ (_state' = "Suspended" /\ _state = "Suspended") \/ AskedFor'
<1>1. msg.cmd \in {"go", "sp", "so", "si", "sr", "di"} \/ UNCHANGED <<_state, want>>
  BY DEF ParseMsg
<1>2. CASE msg.cmd = "go"
  BY <1>2 DEF ParseMsg, AskedFor, States, Steps
<1>3. CASE msg.cmd = "sp"
  BY <1>3 DEF ParseMsg, AskedFor, States, Steps
<1>4. CASE msg.cmd = "di"
  BY <1>4 DEF ParseMsg, AskedFor, States, Steps
<1>5. CASE UNCHANGED <<_state, want>>
  BY <1>5 DEF AskedFor, States, Steps, Counted, Server
<1>6. CASE msg.cmd = "so"
  <2>1. Resume("StepOver", At(depth))
    BY <1>6 DEF ParseMsg
  <2>2. CASE _state = "Suspended"
    BY <2>1, <2>2 DEF Resume, AskedFor, States, Steps, Counted, Server, At
  <2> QED
    BY <1>5, <2>1, <2>2 DEF Resume
<1>7. CASE msg.cmd = "si"
  <2>1. Resume("StepInto", Always)
    BY <1>7 DEF ParseMsg
  <2>2. CASE _state = "Suspended"
    BY <2>1, <2>2 DEF Resume, AskedFor, States, Steps
  <2> QED
    BY <1>5, <2>1, <2>2 DEF Resume
<1>8. CASE msg.cmd = "sr"
  <2>1. Resume("StepReturn", At(depth - 1))
    BY <1>8 DEF ParseMsg
  <2>2. CASE _state = "Suspended"
    BY <2>1, <2>2 DEF Resume, AskedFor, States, Steps, Counted, Server, At
  <2> QED
    BY <1>5, <2>1, <2>2 DEF Resume
<1> QED
  BY <1>1, <1>2, <1>3, <1>4, <1>5, <1>6, <1>7, <1>8

\* The script gets to depth d by returns or unwinding.
LEMMA Lowers ==
    ASSUME want.stop = "depth", want.depth \in Int, NEW d \in Int
    PROVE  LET w == Lowered(want, d) IN
           /\ w.stop = "depth" /\ w.depth \in Int
           /\ w.depth = IF d < want.depth THEN d ELSE want.depth
BY DEF Lowered, At

LEMMA LowersNot ==
    ASSUME NEW d, want \in {Always, AtBreakpoint, Never}
    PROVE  Lowered(want, d) = want
BY DEF Lowered, Always, AtBreakpoint, Never

LEMMA ReturnAsks ==
    ASSUME Server, AskedFor, depth > 0, HookReturn, depth' = depth - 1,
           want' = Lowered(want, depth - 1)
    PROVE  _state' \in States /\ _nestedcalls' \in Nat /\ AskedFor'
<1>1. Nested \in Nat /\ (_state # "Suspended" => Nested = _nestedcalls)
  BY DEF Nested, Server
<1>2. _nestedcalls' \in Nat /\ _state' \in States
  BY <1>1 DEF HookReturn, Server, States
<1>3. CASE _state \notin Steps
  <2>1. want' = want
    BY <1>3, LowersNot DEF AskedFor, Server, States, Steps
  <2>2. _state' = _state
    BY <1>3 DEF HookReturn, Steps
  <2> QED
    BY <1>2, <1>3, <2>1, <2>2 DEF AskedFor
<1>4. CASE _state \in Steps
  <2>1. /\ want'.stop = "depth" /\ want'.depth \in Int
        /\ want'.depth = IF depth - 1 < want.depth THEN depth - 1 ELSE want.depth
    BY <1>4, Lowers DEF AskedFor, Server
  <2>2. _nestedcalls' = IF _nestedcalls = 0 THEN 0 ELSE _nestedcalls - 1
    BY <1>1, <1>4 DEF HookReturn, Steps
  <2>3. _state' = IF _state = "StepReturn" /\ _nestedcalls = 0 THEN "StepOver" ELSE _state
    BY <1>1, <1>4 DEF HookReturn, Steps
  <2> QED
    BY <1>2, <1>4, <2>1, <2>2, <2>3 DEF AskedFor, Counted, Steps, Server
<1> QED
  BY <1>2, <1>3, <1>4

LEMMA CallAsks ==
    ASSUME Server, AskedFor, HookCall, depth' = depth + 1, UNCHANGED <<_state, want>>
    PROVE  _nestedcalls' \in Nat /\ AskedFor'
<1>1. Nested \in Nat /\ (_state # "Suspended" => Nested = _nestedcalls)
  BY DEF Nested, Server
<1>2. _nestedcalls' \in Nat
  BY <1>1 DEF HookCall, Server
<1>3. CASE _state \in Steps
  BY <1>1, <1>2, <1>3 DEF HookCall, AskedFor, Counted, Steps, Server
<1>4. CASE _state \notin Steps
  <2>1. want' = want /\ _state' = _state /\ AskedFor
    OBVIOUS
  <2> QED
    BY <1>2, <1>4, <2>1 DEF AskedFor, Steps
<1> QED
  BY <1>2, <1>3, <1>4

LEMMA UnwindAsks ==
    ASSUME Server, AskedFor, NEW d \in 1 .. depth - 1, depth' = d, want' = Lowered(want, d),
           UNCHANGED <<_state, _nestedcalls>>
    PROVE  AskedFor'
<1>1. CASE _state \in Steps
  BY <1>1, Lowers DEF AskedFor, Counted, Steps, Server
<1>2. CASE _state \notin Steps
  BY <1>2, LowersNot DEF AskedFor, Steps, Server, States
<1> QED
  BY <1>1, <1>2

\* A line stops the script, or leaves all as it is.
LEMMA LineDoes ==
    ASSUME Server, NEW place, HookLine(place)
    PROVE  /\ _nestedcalls' \in Nat
           /\ \/ phase' = "break" /\ _state' = "Suspended" /\ view' = "stopped"
              \/ phase' = "update" /\ UNCHANGED <<_state, view, _nestedcalls>>
<1>1. _nestedcalls' \in Nat
  BY DEF HookLine, Server
<1> QED
  BY <1>1 DEF HookLine, BreakHere, Server, States

LEMMA ReadDoes ==
    ASSUME Server, ReadMessage
    PROVE  /\ inbox # <<>> /\ ParseMsg(Head(inbox)) /\ Head(inbox) \in Messages
           /\ inbox' = Tail(inbox) /\ inbox' \in Seq(Messages)
           /\ UNCHANGED <<depth, events, _nestedcalls, gone, view, wild>>
BY HeadTailProperties DEF ReadMessage, Server

LEMMA AskStep == ASSUME AskInv, [DbgNext]_dbgVars PROVE AskInv'
<1> USE DEF AskInv
<1>1. CASE Line
  <2>1. PICK place \in Places : HookLine(place)
    BY <1>1 DEF Line
  <2>2. /\ phase = "run" /\ depth > 0 /\ UNCHANGED <<depth, inbox, want>>
    BY <1>1 DEF Line, Event, history
  <2>3. /\ _nestedcalls' \in Nat
        /\ \/ phase' = "break" /\ _state' = "Suspended" /\ view' = "stopped"
           \/ phase' = "update" /\ UNCHANGED <<_state, view, _nestedcalls>>
    BY <2>1, LineDoes
  <2>4. Server'
    BY <2>2, <2>3 DEF Server, States
  <2> QED
    BY <2>2, <2>3, <2>4 DEF Going, AskedFor, Counted
<1>2. CASE EnterCall
  <2>1. /\ phase = "run" /\ phase' = "update" /\ depth > 0 /\ HookCall /\ depth' = depth + 1
        /\ UNCHANGED <<_state, want, inbox>>
    BY <1>2 DEF EnterCall, Event, client, history
  <2>2. _nestedcalls' \in Nat /\ AskedFor'
    BY <2>1, CallAsks DEF Going
  <2> QED
    BY <2>1, <2>2 DEF Server
<1>3. CASE Return
  <2>1. /\ phase = "run" /\ phase' = "update" /\ depth > 0 /\ HookReturn /\ depth' = depth - 1
        /\ want' = Lowered(want, depth - 1) /\ UNCHANGED inbox
    BY <1>3 DEF Return, client
  <2>2. _state' \in States /\ _nestedcalls' \in Nat /\ AskedFor'
    BY <2>1, ReturnAsks DEF Going
  <2> QED
    BY <2>1, <2>2 DEF Server
<1>4. CASE Unwind
  <2>1. PICK d \in 1 .. depth - 1 : depth' = d /\ want' = Lowered(want, d)
    BY <1>4 DEF Unwind
  <2>2. phase = "run" /\ phase' = "run" /\ depth > 0 /\ UNCHANGED <<_state, _nestedcalls, inbox>>
    BY <1>4 DEF Unwind, Event, server, client
  <2>3. AskedFor'
    BY <2>1, <2>2, UnwindAsks DEF Going
  <2> QED
    BY <2>1, <2>2, <2>3 DEF Server
<1>5. CASE Error
  <2>1. phase' = "break" /\ _state' = "Suspended" /\ depth' = 0 /\ UNCHANGED <<_nestedcalls, inbox>>
    BY <1>5 DEF Error, BreakHere
  <2> QED
    BY <2>1 DEF Server, States
<1>6. CASE Update \/ WaitReady \/ BreakExecution
  <2>1. CASE ReadMessage
    <3>1. /\ ParseMsg(Head(inbox)) /\ inbox' \in Seq(Messages)
          /\ UNCHANGED <<depth, _nestedcalls>>
      BY <2>1, ReadDoes
    <3>2. depth > 0 => AskedFor \/ _state = "Suspended"
      BY <1>6 DEF Update, WaitReady, BreakExecution, Going, Server
    <3>3. _state' \in States
      <4>1. CASE depth > 0
        BY <3>1, <3>2, <4>1, Asks
      <4>2. CASE ~(depth > 0)
        BY <3>1 DEF ParseMsg, Resume, Server, States
      <4> QED
        BY <4>1, <4>2
    <3>4. phase' = "break" => _state' = "Suspended"
      BY <1>6 DEF Update, WaitReady, BreakExecution
    <3>5. Server'
      BY <3>1, <3>3, <3>4 DEF Server
    <3>6. ASSUME depth > 0, Going' PROVE AskedFor'
      <4>1. (_state' = "Suspended" /\ _state = "Suspended") \/ AskedFor'
        BY <3>1, <3>2, <3>6, Asks
      <4>2. CASE _state = "Suspended" /\ _state' = "Suspended"
        <5>1. AskedFor
          BY <1>6, <3>6, <4>2 DEF Update, WaitReady, BreakExecution, Going
        <5>2. want' = want
          BY <3>1, <4>2 DEF ParseMsg, Resume
        <5> QED
          BY <4>2, <5>1, <5>2 DEF AskedFor, Steps
      <4> QED
        BY <4>1, <4>2
    <3> QED
      BY <3>1, <3>5, <3>6
  <2>2. CASE Update /\ UNCHANGED <<depth, server, client, history>>
    BY <2>2 DEF Update, server, client, history, Server, Going, AskedFor, Counted
  <2> QED
    BY <1>6, <2>1, <2>2 DEF Update, WaitReady, BreakExecution
<1>7. CASE BreakFails \/ Finish
  BY <1>7 DEF BreakFails, Finish, server, client, Server, Going
<1>8. CASE Send
  <2>1. \E msg \in Messages : inbox' = Append(inbox, msg)
    BY <1>8 DEF Send
  <2>2. inbox' \in Seq(Messages)
    BY <2>1, AppendProperties DEF Server
  <2>3. UNCHANGED <<phase, depth, _state, _nestedcalls, want>>
    BY <1>8 DEF Send, script, server, history
  <2> QED
    BY <2>2, <2>3 DEF Server, Going, AskedFor, Counted
<1>9. CASE Close \/ UNCHANGED dbgVars
  <2>1. UNCHANGED <<phase, depth, _state, _nestedcalls, want, inbox>>
    BY <1>9 DEF Close, dbgVars, script, server, client, history
  <2> QED
    BY <2>1 DEF Server, Going, AskedFor, Counted
<1> QED
  BY <1>1, <1>2, <1>3, <1>4, <1>5, <1>6, <1>7, <1>8, <1>9 DEF DbgNext, Script

LEMMA AskInit == ASSUME DbgInit PROVE AskInv
BY EmptySeq DEF DbgInit, AskInv, Server, AskedFor, Going, Counted, Steps, States, AtBreakpoint

LEMMA StopsNoDeeper ==
    ASSUME AskInv, DbgNext, phase = "run", phase' = "break", depth' # 0, want.stop = "depth"
    PROVE  depth <= want.depth
<1>1. Line
  BY DEF DbgNext, Script, EnterCall, Return, Unwind, Error, Update, BreakExecution,
         BreakFails, WaitReady, Finish, Send, Close, script, Event
<1>2. PICK place \in Places : HookLine(place)
  BY <1>1 DEF Line
<1>3. AskedFor /\ Server
  BY <1>1 DEF AskInv, Going, Line, Event
<1>4. want \notin {AtBreakpoint, Always}
  BY DEF AtBreakpoint, Always
<1>5. _state = "StepOver" /\ _nestedcalls = 0
  BY <1>2, <1>3, <1>4 DEF HookLine, AskedFor
<1> QED
  BY <1>3, <1>5 DEF AskedFor, Counted, Steps, Server

\* A step over or out never stops deeper than where it was asked for,
\* whatever the client sends and however the script leaves its frames.
THEOREM NeverTooDeepEver == DbgSpec => NeverTooDeep
<1>1. DbgInit => AskInv
  BY AskInit
<1>2. AskInv /\ [DbgNext]_dbgVars => AskInv'
  BY AskStep
<1>3. AskInv /\ [DbgNext]_dbgVars =>
        [phase = "run" /\ phase' = "break" /\ depth' # 0 /\ want.stop = "depth"
            => depth <= want.depth]_dbgVars
  BY StopsNoDeeper
<1> QED
  BY <1>1, <1>2, <1>3, PTL DEF DbgSpec, NeverTooDeep
-----------------------------------------------------------------------------
(* A client that waits for the script to stop before it steps: what is     *)
(* under way then fits what the script does.                               *)
Views == {"running", "stopped", "off"}
Resumes(q) == {i \in 1 .. Len(q) : q[i].cmd \in Resuming}
Suspends(q) == {i \in 1 .. Len(q) : q[i].cmd = "sp"}

\* With the script going: at most a go that ends a detachment is under way.
Calm(q, state, seen) ==
    /\ seen # "stopped"
    /\ \A i \in Resumes(q) :
           /\ q[i].cmd = "go" /\ state = "Disabled" /\ seen = "running"
           /\ \A j \in Resumes(q) : j = i
           /\ \A j \in Suspends(q) : i < j
    /\ seen = "off" => state = "Disabled" /\ Suspends(q) = {}

\* With the script stopped: the command that resumes it, or none yet, and after
\* a detachment the go that ends it.
Asked(q, seen) ==
    /\ seen = "stopped" => Resumes(q) = {}
    /\ \A i, j \in Resumes(q) : i < j =>
           /\ q[i].cmd = "di" /\ q[j].cmd = "go" /\ seen = "running"
           /\ \A k \in Resumes(q) : k = i \/ k = j
           /\ \A k \in Suspends(q) : k < i \/ j < k
    /\ seen = "off" =>
           \E i \in Resumes(q) :
               /\ q[i].cmd = "di"
               /\ \A j \in Resumes(q) : j = i
               /\ \A j \in Suspends(q) : j < i

\* The queue without its head, and with one more message.
LEMMA QueueTail ==
    ASSUME NEW q \in Seq(Messages), q # <<>>
    PROVE  /\ Len(q) \in Nat /\ 1 \in 1 .. Len(q) /\ q[1] = Head(q)
           /\ \A i \in Nat : i \in Resumes(Tail(q)) => i + 1 \in Resumes(q) /\ Tail(q)[i] = q[i + 1]
           /\ \A i \in Nat : i \in Suspends(Tail(q)) => i + 1 \in Suspends(q)
           /\ \A i \in Nat : i + 1 \in Resumes(q) /\ i > 0 => i \in Resumes(Tail(q))
<1>1. Len(q) \in Nat /\ Len(q) > 0 /\ Len(Tail(q)) = Len(q) - 1 /\ q[1] = Head(q)
  BY EmptySeq, LenProperties, HeadTailProperties
<1>2. \A i \in 1 .. Len(q) - 1 : Tail(q)[i] = q[i + 1]
  BY <1>1, HeadTailProperties
<1> QED
  BY <1>1, <1>2 DEF Resumes, Suspends

LEMMA OneMore ==
    ASSUME NEW A, NEW B, NEW n, NEW r, NEW q, NEW C,
           \A i : i \in A <=> i \in B \/ i = n, n \notin B, \A i \in B : r[i] = q[i]
    PROVE  \A i : i \in {j \in A : r[j].cmd \in C} <=>
                       i \in {j \in B : q[j].cmd \in C} \/ (i = n /\ r[n].cmd \in C)
<1> SUFFICES ASSUME NEW i
             PROVE  i \in A /\ r[i].cmd \in C <=>
                        (i \in B /\ q[i].cmd \in C) \/ (i = n /\ r[n].cmd \in C)
  OBVIOUS
<1>1. CASE i = n
  BY <1>1
<1>2. CASE i # n /\ i \in B
  <2>1. r[i] = q[i]
    BY <1>2
  <2> QED
    BY <1>2, <2>1
<1>3. CASE i # n /\ i \notin B
  BY <1>3
<1> QED
  BY <1>1, <1>2, <1>3

LEMMA QueueAppend ==
    ASSUME NEW q \in Seq(Messages), NEW m
    PROVE  LET r == Append(q, m) IN
           /\ Len(q) \in Nat /\ r[Len(q) + 1] = m
           /\ \A i : i \in Resumes(r) <=> i \in Resumes(q) \/ (i = Len(q) + 1 /\ m.cmd \in Resuming)
           /\ \A i : i \in Suspends(r) <=> i \in Suspends(q) \/ (i = Len(q) + 1 /\ m.cmd = "sp")
           /\ \A i \in Resumes(q) : r[i] = q[i]
<1>1. Len(q) \in Nat /\ Len(Append(q, m)) = Len(q) + 1 /\ Append(q, m)[Len(q) + 1] = m
  BY LenProperties, AppendProperties
<1>2. \A i \in 1 .. Len(q) : Append(q, m)[i] = q[i]
  BY AppendProperties
<1> DEFINE r == Append(q, m)
<1>3. /\ \A i : i \in 1 .. Len(r) <=> i \in 1 .. Len(q) \/ i = Len(q) + 1
      /\ r[Len(q) + 1] = m /\ Len(q) + 1 \notin 1 .. Len(q)
      /\ \A i \in 1 .. Len(q) : r[i] = q[i]
  BY <1>1, <1>2
<1> HIDE DEF r
<1>4. \A i : i \in Resumes(r) <=> i \in Resumes(q) \/ (i = Len(q) + 1 /\ m.cmd \in Resuming)
  <2>1. \A i : i \in Resumes(r) <=> \/ i \in Resumes(q)
                                    \/ i = Len(q) + 1 /\ r[Len(q) + 1].cmd \in Resuming
    BY ONLY <1>3, OneMore DEF Resumes
  <2> QED
    BY <1>3, <2>1
<1>5. \A i : i \in Suspends(r) <=> i \in Suspends(q) \/ (i = Len(q) + 1 /\ m.cmd = "sp")
  <2>1. \A i : i \in {j \in 1 .. Len(r) : r[j].cmd \in {"sp"}} <=>
                 \/ i \in {j \in 1 .. Len(q) : q[j].cmd \in {"sp"}}
                 \/ i = Len(q) + 1 /\ r[Len(q) + 1].cmd \in {"sp"}
    BY <1>3, OneMore
  <2>2. \A i : i \in Suspends(r) <=> \/ i \in Suspends(q)
                                     \/ i = Len(q) + 1 /\ r[Len(q) + 1].cmd = "sp"
    BY ONLY <2>1 DEF Suspends
  <2> QED
    BY <1>3, <2>2
<1> QED
  BY <1>1, <1>2, <1>4, <1>5 DEF Resumes, r

LEMMA QueueSets == \A q : \A i \in Resumes(q) \cup Suspends(q) : i \in Nat /\ i > 0
BY DEF Resumes, Suspends

LEMMA CalmRead ==
    ASSUME NEW q \in Seq(Messages), q # <<>>, NEW state, NEW seen \in Views, Calm(q, state, seen),
           NEW after, Head(q).cmd \notin Resuming \cup {"sp"} => after = state
    PROVE  /\ Calm(Tail(q), after, seen)
           /\ Head(q).cmd \in Resuming => Head(q).cmd = "go" /\ state = "Disabled"
<1> DEFINE t == Tail(q)
<1>1. /\ \A i \in Resumes(t) : i + 1 \in Resumes(q) /\ t[i] = q[i + 1] /\ i \in Nat /\ i > 0
      /\ \A i \in Suspends(t) : i + 1 \in Suspends(q) /\ i \in Nat
  BY QueueTail, QueueSets
<1>2. 1 \in 1 .. Len(q) /\ q[1] = Head(q)
  BY QueueTail
<1> HIDE DEF t
<1>3. CASE Head(q).cmd \in Resuming
  <2>1. 1 \in Resumes(q)
    BY <1>2, <1>3 DEF Resumes
  <2>2. Resumes(t) = {} /\ seen = "running" /\ Head(q).cmd = "go" /\ state = "Disabled"
    BY <1>1, <1>2, <2>1 DEF Calm
  <2> QED
    BY <2>2 DEF Calm, t
<1>4. CASE Head(q).cmd = "sp"
  <2>1. 1 \in Suspends(q)
    BY <1>2, <1>4 DEF Suspends
  <2>2. Resumes(t) = {} /\ seen \notin {"stopped", "off"}
    BY <1>1, <2>1, QueueSets DEF Calm
  <2> QED
    BY <1>4, <2>2 DEF Calm, t, Resuming
<1>5. CASE Head(q).cmd \notin Resuming \cup {"sp"}
  <2>1. ASSUME NEW i \in Resumes(t)
        PROVE  /\ t[i].cmd = "go" /\ state = "Disabled" /\ seen = "running"
               /\ \A j \in Resumes(t) : j = i
               /\ \A j \in Suspends(t) : i < j
    <3>1. i + 1 \in Resumes(q) /\ t[i] = q[i + 1] /\ i \in Nat
      BY <1>1
    <3>2. /\ q[i + 1].cmd = "go" /\ state = "Disabled" /\ seen = "running"
          /\ \A j \in Resumes(q) : j = i + 1
          /\ \A j \in Suspends(q) : i + 1 < j
      BY <3>1 DEF Calm
    <3> QED
      BY <1>1, <3>1, <3>2
  <2>2. seen # "stopped" /\ (seen = "off" => state = "Disabled" /\ Suspends(t) = {})
    BY <1>1 DEF Calm
  <2> QED
    BY <1>5, <2>1, <2>2 DEF Calm, t
<1> QED
  BY <1>3, <1>4, <1>5

LEMMA AskedRead ==
    ASSUME NEW q \in Seq(Messages), q # <<>>, NEW seen \in Views, Asked(q, seen), NEW after
    PROVE  IF Head(q).cmd \in Resuming
           THEN (Head(q).cmd = "di" => after = "Disabled") => Calm(Tail(q), after, seen)
           ELSE Asked(Tail(q), seen)
<1> DEFINE t == Tail(q)
<1>1. /\ \A i \in Resumes(t) : i + 1 \in Resumes(q) /\ t[i] = q[i + 1] /\ i \in Nat /\ i > 0
      /\ \A i \in Suspends(t) : i + 1 \in Suspends(q) /\ i \in Nat /\ i > 0
      /\ \A i \in Nat : i + 1 \in Resumes(q) /\ i > 0 => i \in Resumes(t)
  BY QueueTail, QueueSets
<1>2. 1 \in 1 .. Len(q) /\ q[1] = Head(q)
  BY QueueTail
<1> HIDE DEF t
<1>3. ASSUME Head(q).cmd \in Resuming, Head(q).cmd = "di" => after = "Disabled"
      PROVE  Calm(t, after, seen)
  <2>1. 1 \in Resumes(q)
    BY <1>2, <1>3 DEF Resumes
  <2>2. seen # "stopped"
    BY <2>1 DEF Asked
  <2>3. ASSUME NEW i \in Resumes(t)
        PROVE  /\ t[i].cmd = "go" /\ after = "Disabled" /\ seen = "running"
               /\ \A j \in Resumes(t) : j = i
               /\ \A j \in Suspends(t) : i < j
    <3>1. i + 1 \in Resumes(q) /\ t[i] = q[i + 1] /\ i \in Nat /\ 1 < i + 1
      BY <1>1
    <3>2. /\ q[1].cmd = "di" /\ q[i + 1].cmd = "go" /\ seen = "running"
          /\ \A k \in Resumes(q) : k = 1 \/ k = i + 1
          /\ \A k \in Suspends(q) : k < 1 \/ i + 1 < k
      BY <2>1, <3>1 DEF Asked
    <3>3. \A j \in Resumes(t) : j = i
      BY <1>1, <3>1, <3>2
    <3>4. \A j \in Suspends(t) : i < j
      BY <1>1, <3>1, <3>2
    <3> QED
      BY <1>2, <1>3, <3>1, <3>2, <3>3, <3>4
  <2>4. ASSUME seen = "off" PROVE after = "Disabled" /\ Suspends(t) = {}
    <3>1. PICK i \in Resumes(q) : /\ q[i].cmd = "di"
                                  /\ \A j \in Resumes(q) : j = i
                                  /\ \A j \in Suspends(q) : j < i
      BY <2>4 DEF Asked
    <3>2. i = 1
      BY <2>1, <3>1
    <3> QED
      BY <1>1, <1>2, <1>3, <3>1, <3>2
  <2> QED
    BY <2>2, <2>3, <2>4 DEF Calm
<1>4. ASSUME Head(q).cmd \notin Resuming
      PROVE  Asked(t, seen)
  <2>1. seen = "stopped" => Resumes(t) = {}
    BY <1>1 DEF Asked
  <2>2. ASSUME NEW i \in Resumes(t), NEW j \in Resumes(t), i < j
        PROVE  /\ t[i].cmd = "di" /\ t[j].cmd = "go" /\ seen = "running"
               /\ \A k \in Resumes(t) : k = i \/ k = j
               /\ \A k \in Suspends(t) : k < i \/ j < k
    <3>1. /\ i + 1 \in Resumes(q) /\ t[i] = q[i + 1] /\ i \in Nat
          /\ j + 1 \in Resumes(q) /\ t[j] = q[j + 1] /\ j \in Nat
      BY <1>1
    <3>2. i + 1 < j + 1
      BY <2>2, <3>1
    <3>3. /\ q[i + 1].cmd = "di" /\ q[j + 1].cmd = "go" /\ seen = "running"
          /\ \A k \in Resumes(q) : k = i + 1 \/ k = j + 1
          /\ \A k \in Suspends(q) : k < i + 1 \/ j + 1 < k
      BY <3>1, <3>2 DEF Asked
    <3>4. \A k \in Resumes(t) : k = i \/ k = j
      BY <1>1, <3>1, <3>3
    <3>5. \A k \in Suspends(t) : k < i \/ j < k
      BY <1>1, <3>1, <3>3
    <3> QED
      BY <3>1, <3>3, <3>4, <3>5
  <2>3. ASSUME seen = "off"
        PROVE  \E i \in Resumes(t) : /\ t[i].cmd = "di"
                                     /\ \A j \in Resumes(t) : j = i
                                     /\ \A j \in Suspends(t) : j < i
    <3>1. PICK n \in Resumes(q) : /\ q[n].cmd = "di"
                                  /\ \A j \in Resumes(q) : j = n
                                  /\ \A j \in Suspends(q) : j < n
      BY <2>3 DEF Asked
    <3>2. n \in Nat /\ n > 0 /\ n # 1
      BY <1>2, <1>4, <3>1, QueueSets DEF Resumes
    <3>3. PICK i \in Nat : i + 1 = n /\ i > 0
      <4>1. n - 1 \in Nat /\ (n - 1) + 1 = n /\ n - 1 > 0
        BY <3>2
      <4> QED
        BY <4>1
    <3>4. i \in Resumes(t) /\ t[i] = q[n]
      BY <1>1, <3>3
    <3>5. \A j \in Resumes(t) : j = i
      BY <1>1, <3>1, <3>3
    <3>6. \A j \in Suspends(t) : j < i
      BY <1>1, <3>1, <3>3
    <3> QED
      BY <3>1, <3>4, <3>5, <3>6
  <2> QED
    BY <2>1, <2>2, <2>3 DEF Asked
<1> QED
  BY <1>3, <1>4 DEF t

\* What a client that waits may send, and what it knows of the script then.
MaySend(m, seen) == m.cmd \in Resuming => seen = "stopped" \/ (seen = "off" /\ m.cmd = "go")
SeenAfter(m, seen) ==
    IF m.cmd = "di" THEN "off"
    ELSE IF m.cmd \in Resuming \/ (m.cmd = "sp" /\ seen = "off") THEN "running" ELSE seen

LEMMA CalmSend ==
    ASSUME NEW q \in Seq(Messages), NEW m, NEW state, NEW seen \in Views,
           Calm(q, state, seen), MaySend(m, seen)
    PROVE  Calm(Append(q, m), state, SeenAfter(m, seen))
<1> DEFINE r == Append(q, m)
           n == Len(q) + 1
<1>1. /\ \A i : i \in Resumes(r) <=> i \in Resumes(q) \/ (i = n /\ m.cmd \in Resuming)
      /\ \A i : i \in Suspends(r) <=> i \in Suspends(q) \/ (i = n /\ m.cmd = "sp")
      /\ \A i \in Resumes(q) : r[i] = q[i] /\ i < n
      /\ r[n] = m
  BY QueueAppend DEF Resumes
<1> HIDE DEF r, n
<1>2. CASE m.cmd \in Resuming
  <2>1. seen = "off" /\ m.cmd = "go" /\ state = "Disabled" /\ Suspends(q) = {} /\ Resumes(q) = {}
    BY <1>2 DEF MaySend, Calm
  <2>2. Suspends(r) = {} /\ \A i \in Resumes(r) : i = n
    BY <1>1, <2>1
  <2> QED
    BY <1>1, <1>2, <2>1, <2>2 DEF Calm, SeenAfter, r
<1>3. CASE m.cmd = "sp"
  <2>1. SeenAfter(m, seen) = "running" /\ m.cmd \notin Resuming
    BY <1>3 DEF SeenAfter, Calm, Views, Resuming
  <2>2. ASSUME NEW i \in Resumes(r)
        PROVE  /\ r[i].cmd = "go" /\ state = "Disabled"
               /\ \A j \in Resumes(r) : j = i
               /\ \A j \in Suspends(r) : i < j
    <3>1. i \in Resumes(q) /\ r[i] = q[i] /\ i < n
      BY <1>1, <2>1
    <3>2. /\ q[i].cmd = "go" /\ state = "Disabled"
          /\ \A j \in Resumes(q) : j = i
          /\ \A j \in Suspends(q) : i < j
      BY <3>1 DEF Calm
    <3> QED
      BY <1>1, <2>1, <3>1, <3>2
  <2> QED
    BY <2>1, <2>2 DEF Calm, r
<1>4. CASE m.cmd \notin Resuming /\ m.cmd # "sp"
  <2>1. SeenAfter(m, seen) = seen
    BY <1>4 DEF SeenAfter, Resuming
  <2> QED
    BY <1>1, <1>4, <2>1 DEF Calm, r
<1> QED
  BY <1>2, <1>3, <1>4

LEMMA AskedSend ==
    ASSUME NEW q \in Seq(Messages), NEW m, NEW seen \in Views, Asked(q, seen), MaySend(m, seen)
    PROVE  Asked(Append(q, m), SeenAfter(m, seen))
<1> DEFINE r == Append(q, m)
           n == Len(q) + 1
           after == SeenAfter(m, seen)
<1>1. /\ \A i : i \in Resumes(r) <=> i \in Resumes(q) \/ (i = n /\ m.cmd \in Resuming)
      /\ \A i : i \in Suspends(r) <=> i \in Suspends(q) \/ (i = n /\ m.cmd = "sp")
      /\ r[n] = m /\ n \in Nat
  BY QueueAppend
<1>2. /\ \A i \in Resumes(q) : r[i] = q[i] /\ i < n /\ i \in Nat
      /\ \A i \in Suspends(q) : i < n /\ i \in Nat
  BY QueueAppend DEF Resumes, Suspends
<1> HIDE DEF r, n, after
<1>3. CASE m.cmd \in Resuming /\ seen = "stopped"
  <2>1. \A i \in Resumes(r) : i = n
    BY <1>1, <1>3 DEF Asked
  <2>2. n \in Resumes(r) /\ \A i \in Suspends(r) : i < n
    BY <1>1, <1>2, <1>3 DEF Resuming
  <2>3. after # "stopped" /\ (after = "off" => m.cmd = "di")
    BY <1>3 DEF SeenAfter, after
  <2>4. \A i, j \in Resumes(r) : ~(i < j)
    BY <1>1, <2>1
  <2> QED
    BY <1>1, <2>1, <2>2, <2>3, <2>4 DEF Asked, r, after
<1>4. CASE m.cmd = "go" /\ seen = "off"
  <2>1. PICK i \in Resumes(q) : /\ q[i].cmd = "di"
                                /\ \A j \in Resumes(q) : j = i
                                /\ \A j \in Suspends(q) : j < i
    BY <1>4 DEF Asked
  <2>2. /\ \A j \in Resumes(r) : j = i \/ j = n
        /\ \A j \in Suspends(r) : j < i
    BY <1>1, <1>4, <2>1
  <2>3. after = "running"
    BY <1>4 DEF SeenAfter, after, Resuming
  <2>4. i < n /\ i \in Nat /\ r[i].cmd = "di" /\ r[n].cmd = "go"
    BY <1>1, <1>2, <1>4, <2>1
  <2>5. ASSUME NEW x \in Resumes(r), NEW y \in Resumes(r), x < y 
        PROVE  /\ r[x].cmd = "di" /\ r[y].cmd = "go" /\ after = "running"
               /\ \A k \in Resumes(r) : k = x \/ k = y
               /\ \A k \in Suspends(r) : k < x \/ y < k
    <3>1. x = i /\ y = n
      BY <1>1, <2>2, <2>4, <2>5
    <3> QED
      BY <2>2, <2>3, <2>4, <3>1
  <2> QED
    BY <2>3, <2>5 DEF Asked, r, after
<1>5. CASE m.cmd \notin Resuming
  <2>1. \A i : i \in Resumes(r) <=> i \in Resumes(q)
    BY <1>1, <1>5
  <2>2. CASE seen = "off" /\ m.cmd = "sp"
    <3>1. \A i, j \in Resumes(r) : i = j
      BY <2>1, <2>2 DEF Asked
    <3>2. after = "running"
      BY <2>2 DEF SeenAfter, after
    <3> QED
      BY <1>2, <2>1, <3>1, <3>2 DEF Asked, r, after
  <2>3. CASE ~(seen = "off" /\ m.cmd = "sp")
    <3>1. after = seen
      BY <1>5, <2>3 DEF SeenAfter, after, Resuming
    <3>2. \A i \in Resumes(r) : r[i] = q[i]
      BY <1>2, <2>1
    <3>3. ASSUME seen = "off"
          PROVE  \E i \in Resumes(r) : /\ r[i].cmd = "di"
                                       /\ \A j \in Resumes(r) : j = i
                                       /\ \A j \in Suspends(r) : j < i
      BY <1>1, <2>1, <2>3, <3>2, <3>3 DEF Asked
    <3>4. ASSUME NEW i \in Resumes(r), NEW j \in Resumes(r), i < j
          PROVE  /\ r[i].cmd = "di" /\ r[j].cmd = "go" /\ seen = "running"
                 /\ \A k \in Resumes(r) : k = i \/ k = j
                 /\ \A k \in Suspends(r) : k < i \/ j < k
      BY <1>1, <1>2, <2>1, <3>2, <3>4 DEF Asked
    <3>5. seen = "stopped" => Resumes(r) = {}
      BY <2>1 DEF Asked
    <3> QED
      BY <3>1, <3>3, <3>4, <3>5 DEF Asked, r, after
  <2> QED
    BY <2>2, <2>3
<1> QED
  BY <1>3, <1>4, <1>5 DEF MaySend

LEMMA CalmStops ==
    ASSUME NEW q, NEW state, NEW seen, Calm(q, state, seen), state # "Disabled"
    PROVE  Asked(q, "stopped")
BY DEF Calm, Asked

LEMMA CalmState ==
    ASSUME NEW q, NEW state, NEW after, NEW seen, Calm(q, state, seen), state = "Disabled" => after = "Disabled"
    PROVE  Calm(q, after, seen)
BY DEF Calm

\* The calls counted say exactly how deep the script is, and a script that runs
\* has none left over.
Precise ==
    /\ _state \in Steps => depth = Counted
    /\ _state \in {"Running", "Disabled"} => _nestedcalls = 0

InTurn ==
    ~wild /\ depth > 0 =>
        /\ Going => Precise /\ Calm(inbox, _state, view)
        /\ phase = "break" => _nestedcalls = 0 /\ Asked(inbox, view)

StopInv == AskInv /\ view \in Views /\ InTurn

LEMMA LineInTurn ==
    ASSUME Server, Precise, NEW place, HookLine(place), Calm(inbox, _state, view)
    PROVE  phase' = "break" => _nestedcalls' = 0 /\ Asked(inbox, view')
<1> SUFFICES ASSUME phase' = "break" PROVE _nestedcalls' = 0 /\ Asked(inbox, view')
  OBVIOUS
<1>1. _state # "Disabled" /\ view' = "stopped" /\ _nestedcalls' = 0
  BY DEF HookLine, BreakHere, Precise, Steps, Server, States
<1> QED
  BY <1>1, CalmStops

LEMMA CallPrecise ==
    ASSUME Server, AskedFor, Precise, HookCall, depth' = depth + 1, UNCHANGED <<_state, want>>
    PROVE  Precise'
<1>1. Nested \in Nat /\ (_state # "Suspended" => Nested = _nestedcalls)
  BY DEF Nested, Server
<1>2. CASE _state \in Steps
  <2>1. _nestedcalls' = _nestedcalls + 1
    BY <1>1, <1>2 DEF HookCall, Steps
  <2> QED
    BY <1>2, <2>1 DEF Precise, AskedFor, Counted, Steps, Server
<1>3. CASE _state \notin Steps
  BY <1>3 DEF HookCall, Precise, Steps
<1> QED
  BY <1>2, <1>3

LEMMA ReturnPrecise ==
    ASSUME Server, AskedFor, Precise, HookReturn, depth' = depth - 1,
           want' = Lowered(want, depth - 1)
    PROVE  Precise' /\ (_state = "Disabled" => _state' = "Disabled")
<1>1. Nested \in Nat /\ (_state # "Suspended" => Nested = _nestedcalls)
  BY DEF Nested, Server
<1>2. CASE _state \in Steps
  <2>1. /\ want'.stop = "depth" /\ want'.depth \in Int
        /\ want'.depth = IF depth - 1 < want.depth THEN depth - 1 ELSE want.depth
    BY <1>2, Lowers DEF AskedFor, Server
  <2>2. _nestedcalls' = IF _nestedcalls = 0 THEN 0 ELSE _nestedcalls - 1
    BY <1>1, <1>2 DEF HookReturn, Steps
  <2>3. _state' = IF _state = "StepReturn" /\ _nestedcalls = 0 THEN "StepOver" ELSE _state
    BY <1>1, <1>2 DEF HookReturn, Steps
  <2> QED
    BY <1>2, <2>1, <2>2, <2>3 DEF Precise, AskedFor, Counted, Steps, Server
<1>3. CASE _state = "Suspended"
  BY <1>3 DEF HookReturn, Precise, Steps
<1>4. CASE _state \in {"Running", "StepInto", "Disabled"}
  BY <1>4 DEF HookReturn, Precise, Steps
<1> QED
  BY <1>2, <1>3, <1>4 DEF Server, States, Steps

\* A message read while the script goes on.
LEMMA ReadInTurn ==
    ASSUME Server, AskedFor, Precise, view \in Views, Calm(inbox, _state, view), ReadMessage
    PROVE  Precise' /\ Calm(inbox', _state', view')
<1>1. /\ inbox # <<>> /\ ParseMsg(Head(inbox)) /\ inbox' = Tail(inbox)
      /\ UNCHANGED <<depth, _nestedcalls, view>>
  BY ReadDoes
<1> DEFINE cmd == Head(inbox).cmd
<1>2. cmd \in Resuming => cmd = "go" /\ _state = "Disabled"
  BY <1>1, CalmRead DEF Server
<1>3. cmd \notin {"go", "sp"} => UNCHANGED <<_state, want>>
  BY <1>1, <1>2 DEF ParseMsg, Resuming
<1>4. Calm(inbox', _state', view')
  <2>1. cmd \notin Resuming \cup {"sp"} => _state' = _state
    BY <1>3 DEF Resuming
  <2> QED
    BY <1>1, <2>1, CalmRead DEF Server
<1>5. Precise'
  <2>1. CASE cmd = "go"
    <3>1. _state' = "Running" /\ _nestedcalls' = 0
      BY <1>1, <1>2, <2>1 DEF ParseMsg, Precise, Resuming
    <3> QED
      BY <3>1 DEF Precise, Steps
  <2>2. CASE cmd = "sp"
    <3>1. _state' = "Suspended"
      BY <1>1, <2>2 DEF ParseMsg
    <3> QED
      BY <3>1 DEF Precise, Steps
  <2>3. CASE cmd \notin {"go", "sp"}
    BY <1>1, <1>3, <2>3 DEF Precise, Counted, Steps
  <2> QED
    BY <2>1, <2>2, <2>3
<1> QED
  BY <1>4, <1>5

\* A message read while the script is stopped.
LEMMA BreakInTurn ==
    ASSUME Server, _state = "Suspended", _nestedcalls = 0, view \in Views, Asked(inbox, view), ReadMessage
    PROVE  IF _state' = "Suspended" THEN _nestedcalls' = 0 /\ Asked(inbox', view')
                                    ELSE Precise' /\ Calm(inbox', _state', view')
<1>1. /\ inbox # <<>> /\ ParseMsg(Head(inbox)) /\ inbox' = Tail(inbox)
      /\ UNCHANGED <<depth, _nestedcalls, view>>
  BY ReadDoes
<1> DEFINE cmd == Head(inbox).cmd
<1>2. CASE cmd \in Resuming
  <2>1. /\ _state' # "Suspended" /\ (cmd = "di" => _state' = "Disabled")
        /\ _state' = "StepOver" => want' = At(depth)
        /\ _state' = "StepReturn" => want' = At(depth - 1)
    BY <1>1, <1>2 DEF ParseMsg, Resume, Resuming
  <2>2. Calm(inbox', _state', view')
    BY <1>1, <1>2, <2>1, AskedRead DEF Server
  <2>3. Precise'
    BY <1>1, <2>1 DEF Precise, Counted, Steps, Server, At
  <2> QED
    BY <2>1, <2>2, <2>3
<1>3. CASE cmd \notin Resuming
  <2>1. _state' = "Suspended"
    BY <1>1, <1>3 DEF ParseMsg, Resuming
  <2> QED
    BY <1>1, <1>3, <2>1, AskedRead DEF Server
<1> QED
  BY <1>2, <1>3

LEMMA SendDoes ==
    ASSUME Send, ~wild
    PROVE  \E msg \in Messages :
               /\ MaySend(msg, view)
               /\ inbox' = Append(inbox, msg) /\ view' = SeenAfter(msg, view)
<1>1. PICK msg \in Messages :
          /\ ~wild /\ msg.cmd \in Resuming =>
                 view = "stopped" \/ (view = "off" /\ msg.cmd = "go")
          /\ inbox' = Append(inbox, msg)
          /\ view' = CASE msg.cmd = "di" -> "off"
                       [] msg.cmd \in Resuming \ {"di"} -> "running"
                       [] msg.cmd = "sp" -> IF view = "off" THEN "running" ELSE view
                       [] OTHER -> view
  BY DEF Send
<1>2. view' = SeenAfter(msg, view)
  BY <1>1 DEF SeenAfter, Resuming
<1> QED
  BY <1>1, <1>2 DEF MaySend

LEMMA SendViews ==
    ASSUME Send, view \in Views PROVE view' \in Views
BY DEF Send, Views

LEMMA StopStep == ASSUME StopInv, [DbgNext]_dbgVars PROVE StopInv'
<1>1. AskInv'
  BY AskStep DEF StopInv
<1>2. AskInv /\ Server /\ view \in Views
  BY DEF StopInv, AskInv
<1>3. ASSUME view' \in Views,
             ASSUME ~wild, depth > 0, depth' > 0
             PROVE  (Going' => Precise' /\ Calm(inbox', _state', view'))
                    /\ (phase' = "break" => _nestedcalls' = 0 /\ Asked(inbox', view')),
             wild' = wild, depth' > 0 => depth > 0
      PROVE  StopInv'
  BY <1>1, <1>3 DEF StopInv, InTurn
<1>4. ASSUME ~wild, depth > 0
      PROVE  /\ Going => Precise /\ Calm(inbox, _state, view) /\ AskedFor
             /\ phase = "break" => _nestedcalls = 0 /\ Asked(inbox, view) /\ _state = "Suspended"
  BY <1>2, <1>4 DEF StopInv, InTurn, AskInv, Server
<1>5. CASE Line
  <2>1. PICK place \in Places : HookLine(place)
    BY <1>5 DEF Line
  <2>2. phase = "run" /\ UNCHANGED <<depth, inbox, wild, want>>
    BY <1>5 DEF Line, Event, history
  <2>3. \/ phase' = "break" /\ _state' = "Suspended" /\ view' = "stopped"
        \/ phase' = "update" /\ UNCHANGED <<_state, view, _nestedcalls>>
    BY <1>2, <2>1, LineDoes
  <2>4. ASSUME ~wild, depth > 0
        PROVE  (Going' => Precise' /\ Calm(inbox', _state', view'))
               /\ (phase' = "break" => _nestedcalls' = 0 /\ Asked(inbox', view'))
    <3>1. Precise /\ Calm(inbox, _state, view)
      BY <1>4, <2>2, <2>4 DEF Going
    <3>2. CASE phase' = "break"
      BY <1>2, <2>1, <2>2, <3>1, <3>2, LineInTurn DEF Going
    <3>3. CASE phase' = "update"
      BY <2>2, <2>3, <3>1, <3>3 DEF Precise, Counted, Steps
    <3> QED
      BY <2>3, <3>2, <3>3
  <2> QED
    BY <1>2, <1>3, <2>2, <2>3, <2>4 DEF Views
<1>6. CASE EnterCall
  <2>1. /\ phase = "run" /\ phase' = "update" /\ HookCall /\ depth > 0 /\ depth' = depth + 1
        /\ UNCHANGED <<_state, want, inbox, view, wild>>
    BY <1>6 DEF EnterCall, Event, client, history
  <2>2. ASSUME ~wild PROVE Precise' /\ Calm(inbox', _state', view')
    BY <1>2, <1>4, <2>1, <2>2, CallPrecise DEF Going
  <2> QED
    BY <1>2, <1>3, <2>1, <2>2
<1>7. CASE Return
  <2>1. /\ phase = "run" /\ phase' = "update" /\ HookReturn /\ depth > 0 /\ depth' = depth - 1
        /\ want' = Lowered(want, depth - 1) /\ UNCHANGED <<inbox, view, wild>>
    BY <1>7 DEF Return, client
  <2>2. ASSUME ~wild PROVE Precise' /\ Calm(inbox', _state', view')
    <3>1. Precise /\ Calm(inbox, _state, view) /\ AskedFor
      BY <1>4, <2>1, <2>2 DEF Going
    <3>2. Precise' /\ (_state = "Disabled" => _state' = "Disabled")
      BY <1>2, <2>1, <3>1, ReturnPrecise
    <3> QED
      BY <2>1, <3>1, <3>2, CalmState
  <2> QED
    BY <1>2, <1>3, <2>1, <2>2
<1>8. CASE Unwind
  <2>1. wild /\ depth > 0 /\ UNCHANGED <<wild, view>>
    BY <1>8 DEF Unwind, Event, client
  <2> QED
    BY <1>2, <1>3, <2>1
<1>9. CASE Error
  <2>1. depth' = 0 /\ view' = "stopped" /\ wild' = wild
    BY <1>9 DEF Error, BreakHere
  <2>2. ~(depth' > 0) /\ view' \in Views
    BY <2>1 DEF Views
  <2> QED
    BY <1>3, <2>1, <2>2
<1>10. CASE ReadMessage /\ (Update \/ WaitReady)
  <2>1. Going /\ phase' # "break" /\ UNCHANGED <<depth, view, wild>>
    BY <1>2, <1>10, ReadDoes DEF Update, WaitReady, Going
  <2>2. ASSUME ~wild, depth > 0 PROVE Precise' /\ Calm(inbox', _state', view')
    BY <1>2, <1>4, <1>10, <2>1, <2>2, ReadInTurn
  <2> QED
    BY <1>2, <1>3, <2>1, <2>2
<1>11. CASE BreakExecution
  <2>1. /\ phase = "break" /\ ReadMessage
        /\ phase' = IF _state' = "Suspended" THEN "break" ELSE IF depth = 0 THEN "run" ELSE "update"
        /\ UNCHANGED <<depth, view, wild>>
    BY <1>2, <1>11, ReadDoes DEF BreakExecution
  <2>2. ASSUME ~wild, depth > 0
        PROVE  IF _state' = "Suspended" THEN _nestedcalls' = 0 /\ Asked(inbox', view')
                                        ELSE Precise' /\ Calm(inbox', _state', view')
    BY <1>2, <1>4, <2>1, <2>2, BreakInTurn
  <2> QED
    BY <1>2, <1>3, <2>1, <2>2 DEF Going
<1>12. CASE Update /\ UNCHANGED <<depth, server, client, history>>
  <2>1. phase = "update" /\ phase' = "run" /\ UNCHANGED <<depth, _state, _nestedcalls, want, inbox, view, wild>>
    BY <1>12 DEF Update, server, client, history
  <2>2. ASSUME ~wild, depth > 0 PROVE Precise' /\ Calm(inbox', _state', view')
    BY <1>4, <2>1, <2>2 DEF Going, Precise, Counted, Steps
  <2> QED
    BY <1>2, <1>3, <2>1, <2>2
<1>13. CASE BreakFails \/ Finish
  <2>1. phase' \in {"exit", "done"} /\ UNCHANGED <<depth, view, wild>>
    BY <1>13 DEF BreakFails, Finish, client
  <2> QED
    BY <1>2, <1>3, <2>1 DEF Going
<1>14. CASE Send
  <2>1. UNCHANGED <<phase, depth, _state, _nestedcalls, want, wild>>
    BY <1>14 DEF Send, script, server, history
  <2>2. view' \in Views
    BY <1>2, <1>14, SendViews
  <2>3. ASSUME ~wild, depth > 0
        PROVE  (Going' => Precise' /\ Calm(inbox', _state', view'))
               /\ (phase' = "break" => _nestedcalls' = 0 /\ Asked(inbox', view'))
    <3>1. PICK msg \in Messages :
              MaySend(msg, view) /\ inbox' = Append(inbox, msg) /\ view' = SeenAfter(msg, view)
      BY <1>14, <2>3, SendDoes
    <3>2. ASSUME Going PROVE Precise' /\ Calm(inbox', _state', view')
      <4>1. Precise /\ Calm(inbox, _state, view)
        BY <1>4, <2>3, <3>2
      <4>2. Precise'
        BY <2>1, <4>1 DEF Precise, Counted, Steps
      <4> QED
        BY <1>2, <2>1, <3>1, <4>1, <4>2, CalmSend DEF Server
    <3>3. ASSUME phase = "break" PROVE _nestedcalls' = 0 /\ Asked(inbox', view')
      BY <1>2, <1>4, <2>1, <2>3, <3>1, <3>3, AskedSend DEF Server
    <3> QED
      BY <2>1, <3>2, <3>3 DEF Going
  <2> QED
    BY <1>3, <2>1, <2>2, <2>3
<1>15. CASE Close \/ UNCHANGED dbgVars
  <2>1. UNCHANGED <<phase, depth, _state, _nestedcalls, want, inbox, view, wild>>
    BY <1>15 DEF Close, dbgVars, script, server, client, history
  <2>2. ASSUME ~wild, depth > 0
        PROVE  (Going' => Precise' /\ Calm(inbox', _state', view'))
               /\ (phase' = "break" => _nestedcalls' = 0 /\ Asked(inbox', view'))
    BY <1>4, <2>1, <2>2 DEF Going, Precise, Counted, Steps
  <2> QED
    BY <1>2, <1>3, <2>1, <2>2
<1> QED
  BY <1>5, <1>6, <1>7, <1>8, <1>9, <1>10, <1>11, <1>12, <1>13, <1>14, <1>15
  DEF DbgNext, Script, Update, WaitReady

LEMMA StopInit == ASSUME DbgInit PROVE StopInv
<1>1. AskInv
  BY AskInit
<1>2. Resumes(inbox) = {} /\ Suspends(inbox) = {}
  BY DEF DbgInit, Resumes, Suspends
<1> QED
  BY <1>1, <1>2 DEF DbgInit, StopInv, InTurn, Going, Precise, Steps, Calm, Views

\* With names of which none begins another, the client is told what is set.
NamesApart == \A s, t \in Sources : SameName(s, t) => s = t

ToldInv == told = _breakpoints /\ _breakpoints \subseteq Places /\ inbox \in Seq(Messages)

LEMMA FoundApart ==
    ASSUME NamesApart, _breakpoints \subseteq Places, NEW place \in Places
    PROVE  Found(place) = {place} \cap _breakpoints
<1>1. \A q \in _breakpoints : SamePlace(place, q) <=> q = place
  BY DEF NamesApart, SamePlace, SameName, Places
<1> QED
  BY <1>1 DEF Found

LEMMA ToldRead ==
    ASSUME NamesApart, ToldInv, ReadMessage PROVE ToldInv'
<1>1. inbox # <<>> /\ ParseMsg(Head(inbox)) /\ inbox' = Tail(inbox)
  BY DEF ReadMessage
<1>2. inbox' \in Seq(Messages) /\ Head(inbox) \in Messages
  BY <1>1, HeadTailProperties DEF ToldInv
<1> DEFINE msg == Head(inbox)
<1>3. CASE msg.cmd \in {"ab", "rb"}
  <2>1. msg.bp \in Places
    BY <1>2, <1>3 DEF Messages, Commands
  <2>2. Found(msg.bp) = {msg.bp} \cap _breakpoints
    BY <2>1, FoundApart DEF ToldInv
  <2>3. IF msg.cmd = "ab" THEN AddBreakpoint(msg.bp) ELSE RemoveBreakpoint(msg.bp)
    BY <1>1, <1>3 DEF ParseMsg
  <2> QED
    BY <1>2, <2>1, <2>2, <2>3 DEF ToldInv, AddBreakpoint, RemoveBreakpoint
<1>4. CASE msg.cmd \notin {"ab", "rb"}
  <2>1. UNCHANGED <<_breakpoints, told>>
    BY <1>1, <1>4 DEF ParseMsg
  <2> QED
    BY <1>2, <2>1 DEF ToldInv
<1> QED
  BY <1>3, <1>4

LEMMA ToldStep ==
    ASSUME NamesApart, ToldInv, [DbgNext]_dbgVars PROVE ToldInv'
<1>1. CASE ReadMessage
  BY <1>1, ToldRead
<1>2. CASE Send
  <2>1. PICK msg \in Messages : inbox' = Append(inbox, msg)
    BY <1>2 DEF Send
  <2>2. inbox' \in Seq(Messages)
    BY <2>1, AppendProperties DEF ToldInv
  <2> QED
    BY <1>2, <2>2 DEF Send, server, history, ToldInv
<1>3. CASE UNCHANGED <<told, _breakpoints, inbox>>
  BY <1>3 DEF ToldInv
<1> QED
  BY <1>1, <1>2, <1>3
  DEF DbgNext, Script, Line, EnterCall, Return, Unwind, Error, Update, BreakExecution,
      BreakFails, WaitReady, Finish, Close, dbgVars, server, client, history

\* What a line does in each state is what was asked for.
LEMMA LineDue ==
    ASSUME NamesApart, ToldInv, Server, AskedFor, Precise, NEW place \in Places, HookLine(place)
    PROVE  phase' = "break" <=> Due(place)
<1>1. Found(place) # {} <=> place \in told
  BY FoundApart DEF ToldInv
<1>2. phase' = "break" <=> (\/ _state = "Running" /\ Found(place) # {}
                            \/ _state \in {"Suspended", "StepInto"}
                            \/ _state = "StepOver" /\ _nestedcalls = 0)
  BY DEF HookLine, BreakHere
<1>3. CASE _state = "Running"
  <2>1. want.stop = "breakpoint"
    BY <1>3 DEF AskedFor, AtBreakpoint
  <2>2. Due(place) <=> place \in told
    BY <2>1 DEF Due
  <2> QED
    BY <1>1, <1>2, <1>3, <2>2
<1>4. CASE _state \in {"Suspended", "StepInto"}
  <2>1. want.stop = "always"
    BY <1>4 DEF AskedFor, Always
  <2>2. Due(place) <=> TRUE
    BY <2>1 DEF Due
  <2> QED
    BY <1>2, <1>4, <2>2
<1>5. CASE _state = "Disabled"
  <2>1. want.stop = "never"
    BY <1>5 DEF AskedFor, Never
  <2>2. Due(place) <=> FALSE
    BY <2>1 DEF Due
  <2> QED
    BY <1>2, <1>5, <2>2
<1>6. CASE _state \in Steps
  <2>1. Due(place) <=> depth <= want.depth
    BY <1>6 DEF AskedFor, Due
  <2>2. depth <= want.depth <=> _state = "StepOver" /\ _nestedcalls = 0
    BY <1>6 DEF AskedFor, Precise, Counted, Steps, Server
  <2> QED
    BY <1>2, <1>6, <2>1, <2>2 DEF Steps
<1> QED
  BY <1>3, <1>4, <1>5, <1>6 DEF Server, States, Steps

LEMMA StopsAsAsked ==
    ASSUME NamesApart, StopInv, ToldInv, [DbgNext]_dbgVars,
           NEW place \in Places, ~wild, phase = "run", HookLine(place), depth' = depth
    PROVE  phase' = "break" <=> Due(place)
<1>1. phase' \in {"break", "update"}
  BY DEF HookLine, BreakHere
<1>2. Server /\ depth \in Nat
  BY DEF StopInv, AskInv, Server
<1>3. Line
  BY <1>1, <1>2 DEF DbgNext, Script, EnterCall, Return, Unwind, Error, Update, BreakExecution,
                BreakFails, WaitReady, Finish, Send, Close, dbgVars, script, Event
<1>4. depth > 0
  BY <1>3 DEF Line, Event
<1> QED
  BY <1>2, <1>4, LineDue DEF StopInv, AskInv, InTurn, Going

\* A script that leaves its functions only by returning, debugged by a client
\* that waits for it to stop, stops at a line exactly when it is due by what
\* the client last asked for, if no source's name begins another's.
THEOREM StopsExactlyWhereAsked ==
    ASSUME NamesApart PROVE DbgSpec => StopsWhereAsked
<1>1. DbgInit => StopInv /\ ToldInv
  BY StopInit, EmptySeq DEF DbgInit, ToldInv
<1>2. StopInv /\ ToldInv /\ [DbgNext]_dbgVars => StopInv' /\ ToldInv'
  BY NamesApart, StopStep, ToldStep
<1>3. StopInv /\ ToldInv /\ [DbgNext]_dbgVars =>
        [\A place \in Places :
            ~wild /\ phase = "run" /\ HookLine(place) /\ depth' = depth /\ events' = events + 1
                => (phase' = "break" <=> Due(place))]_dbgVars
  BY NamesApart, StopsAsAsked
<1> QED
  BY <1>1, <1>2, <1>3, PTL DEF DbgSpec, StopsWhereAsked
=============================================================================
