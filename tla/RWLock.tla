------------------------------- MODULE RWLock -------------------------------
(***************************************************************************)
(* _sdl_rwlock of the Windows build (src/LigSP/LigCommon/sdl_tcpstream.h), *)
(* made of two mutexes, two manual-reset events and a count.  On POSIX the *)
(* class is pthread_rwlock_t.  It guards the table and the time that the   *)
(* scripts of all VMs share (PublicAgency, ScriptSupport.cpp).             *)
(*                                                                         *)
(* One action per call that another thread can tell apart.  What a thread  *)
(* does between taking and releasing MuRdToken is one action: it cannot    *)
(* block there, and every other use of read_que but the look of            *)
(* wait_read_queue is under that mutex.  A thread takes the lock Rounds    *)
(* times at most (a bound).                                                *)
(***************************************************************************)
EXTENDS Integers, FiniteSets

CONSTANTS
    Lockers,           \* the threads that take the lock
    Max_Read_Threads,  \* readers let in at a time
    Rounds             \* bound: how often a thread takes the lock

ASSUME LockAssumption ==
    /\ IsFiniteSet(Lockers)
    /\ Max_Read_Threads \in Nat \ {0}
    /\ Rounds \in Nat

VARIABLES
    read_que,    \* the readers that came in
    EventRd,     \* set: no reader is in, a writer may go
    EventWr,     \* set: no writer is in, readers may go
    MuWrToken,   \* the thread that owns the writers' mutex, if any
    at,          \* where each thread is
    rounds       \* how often it has taken the lock

lockVars == <<read_que, EventRd, EventWr, MuWrToken, at, rounds>>

(* read_lock():  queued -> counted -> passed -> reading.                   *)
(* write_lock(): token -> waited -> writing, write_unlock(): released.     *)
Places == {"idle", "queued", "counted", "passed", "reading",
           "token", "waited", "writing", "released"}

LockInit ==
    /\ read_que = 0
    /\ EventRd = TRUE /\ EventWr = TRUE
    /\ MuWrToken = {}
    /\ at = [t \in Lockers |-> "idle"]
    /\ rounds = [t \in Lockers |-> 0]

Move(t, from, to) == at[t] = from /\ at' = [at EXCEPT ![t] = to]

Again(t) == rounds[t] < Rounds /\ rounds' = [rounds EXCEPT ![t] = @ + 1]

-----------------------------------------------------------------------------
(* wait_read_queue() looks at read_que without the mutex.                  *)
wait_read_queue(t) ==
    /\ Move(t, "idle", "queued") /\ Again(t)
    /\ read_que < Max_Read_Threads
    /\ UNCHANGED <<read_que, EventRd, EventWr, MuWrToken>>

(* read_que++ under MuRdToken.                                             *)
CountReader(t) ==
    /\ Move(t, "queued", "counted")
    /\ read_que' = read_que + 1
    /\ UNCHANGED <<EventRd, EventWr, MuWrToken, rounds>>

wait_write_free(t) ==
    /\ Move(t, "counted", "passed")
    /\ EventWr
    /\ UNCHANGED <<read_que, EventRd, EventWr, MuWrToken, rounds>>

set_read_busy(t) ==
    /\ Move(t, "passed", "reading")
    /\ EventRd' = FALSE
    /\ UNCHANGED <<read_que, EventWr, MuWrToken, rounds>>

(* The last reader out lets the writers go.  (Mutant: the count is tested  *)
(* before it is taken down.)                                               *)
TestedBefore(n) == n + 1 = 0
LastOut(n) == n = 0

read_unlock(t) ==
    /\ Move(t, "reading", "idle")
    /\ read_que' = read_que - 1
    /\ EventRd' = (EventRd \/ LastOut(read_que'))
    /\ UNCHANGED <<EventWr, MuWrToken, rounds>>

-----------------------------------------------------------------------------
(* (Mutant: the writer does not own the mutex while it writes.)            *)
TakeNoToken(t) ==
    /\ Move(t, "idle", "token") /\ Again(t)
    /\ MuWrToken = {}
    /\ UNCHANGED <<read_que, EventRd, EventWr, MuWrToken>>
get_write_token(t) ==
    /\ Move(t, "idle", "token") /\ Again(t)
    /\ MuWrToken = {}
    /\ MuWrToken' = {t}
    /\ UNCHANGED <<read_que, EventRd, EventWr>>

wait_read_free(t) ==
    /\ Move(t, "token", "waited")
    /\ EventRd
    /\ UNCHANGED <<read_que, EventRd, EventWr, MuWrToken, rounds>>

set_write_busy(t) ==
    /\ Move(t, "waited", "writing")
    /\ EventWr' = FALSE
    /\ UNCHANGED <<read_que, EventRd, MuWrToken, rounds>>

set_write_free(t) ==
    /\ Move(t, "writing", "released")
    /\ EventWr' = TRUE
    /\ UNCHANGED <<read_que, EventRd, MuWrToken, rounds>>

release_write_token(t) ==
    /\ Move(t, "released", "idle")
    /\ MuWrToken' = {}
    /\ UNCHANGED <<read_que, EventRd, EventWr, rounds>>

ReadStep(t) ==
    \/ CountReader(t)
    \/ wait_write_free(t) \/ set_read_busy(t) \/ read_unlock(t)

WriteStep(t) ==
    \/ wait_read_free(t) \/ set_write_busy(t)
    \/ set_write_free(t) \/ release_write_token(t)

LockNext ==
    \E t \in Lockers :
        wait_read_queue(t) \/ get_write_token(t) \/ ReadStep(t) \/ WriteStep(t)

LockSpec == LockInit /\ [][LockNext]_lockVars

(* A thread that has begun to take the lock goes on, and leaves it.        *)
LockFairSpec == LockSpec /\ \A t \in Lockers : WF_lockVars(ReadStep(t)) /\ WF_lockVars(WriteStep(t))

-----------------------------------------------------------------------------
LockTypeOK ==
    /\ read_que \in Nat
    /\ EventRd \in BOOLEAN /\ EventWr \in BOOLEAN
    /\ MuWrToken \subseteq Lockers
    /\ at \in [Lockers -> Places]
    /\ rounds \in [Lockers -> 0 .. Rounds]

At(p) == {t \in Lockers : at[t] \in p}
Readers == At({"counted", "passed", "reading"})
Writers == At({"writing"})

(* There is one writer at a time, and readers are held back while it       *)
(* writes, up to those that were past their wait already.                  *)
OneWriter ==
    /\ \A t, u \in Writers : t = u
    /\ Writers # {} => ~EventWr

(* Nobody waits for an event that no one is left to set: EventRd is set    *)
(* when no reader is in, EventWr when no writer is.                        *)
EventsComeBack ==
    /\ Readers = {} => EventRd
    /\ Writers = {} => EventWr

(* The count is that of the readers.                                       *)
CountIsReaders == read_que = Cardinality(Readers)

(* Every call to take the lock returns and the lock is given back, once    *)
(* the stream of other calls ends (Rounds bounds it).                      *)
EveryoneGoesOn == \A t \in Lockers : at[t] # "idle" ~> at[t] = "idle"

(* "16 readers or one writer": a writer and a reader are never in together.*)
ReadersOrWriter == Writers = {} \/ At({"reading"}) = {}
=============================================================================
