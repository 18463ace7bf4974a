---------------------------- MODULE RateLimiter ----------------------------
(* AsyncRateLimiter of infra/http/client.py: callers (tasks of one event    *)
(* loop) share a minimum interval between grants.  The lock is an            *)
(* asyncio.Lock: its waiters are served first come, first served, a newcomer *)
(* takes it only when it is free with no waiter, and a release wakes the     *)
(* head of the queue, which takes the lock in a step of its own.  So "the    *)
(* lock is free and c heads the queue" says that c has been woken.           *)
(* A task may be cancelled wherever it is suspended (client disconnect,      *)
(* Ctrl-C): queued for the lock, or asleep while it holds the lock.          *)
EXTENDS Naturals, Sequences, SequencesExt

CONSTANTS
    Callers,    \* tasks that share the limiter
    NoCaller,   \* the lock's owner when it is free
    Intervals,  \* what 60 / per_minute may be, in clock units; 0: no limit
    Starts,     \* what time.monotonic() may read when the process starts
    Horizon     \* bound: the clock passes it only while a sleeper needs it

ASSUME LimiterAssumption ==
    /\ NoCaller \notin Callers
    /\ Intervals \subseteq Nat
    /\ Starts \subseteq Nat
    /\ Horizon \in Nat

VARIABLES
    interval,  \* _min_interval, fixed by __init__
    now,    \* time.monotonic()
    last,   \* _last
    owner,  \* who holds _lock
    queue,  \* _lock's waiters
    pc,     \* where each caller is in acquire()
    wake    \* when a sleeping caller's sleep ends

lvars == <<interval, now, last, owner, queue, pc, wake>>

LimiterTypeOK ==
    /\ interval \in Nat
    /\ now \in Nat
    /\ last \in Nat
    /\ owner \in Callers \cup {NoCaller}
    /\ queue \in Seq(Callers)
    /\ pc \in [Callers -> {"out", "queued", "sleeping"}]
    /\ wake \in [Callers -> Nat]

LimiterInit ==
    /\ interval \in Intervals
    /\ now \in Starts
    /\ last = 0
    /\ owner = NoCaller
    /\ queue = <<>>
    /\ pc = [c \in Callers |-> "out"]
    /\ wake = [c \in Callers |-> 0]

(* Mutant: the rest of the interval is subtracted the wrong way round. *)
ProceedSwapped(c) ==
    \/ /\ now >= last + interval
       /\ last' = now /\ owner' = NoCaller
       /\ pc' = [pc EXCEPT ![c] = "out"] /\ wake' = wake
    \/ /\ now < last + interval
       /\ owner' = c /\ last' = last
       /\ pc' = [pc EXCEPT ![c] = "sleeping"]
       /\ wake' = [wake EXCEPT ![c] = now + (now - (last + interval))]

(* What acquire() does from the moment it holds the lock to its next await   *)
(* or its return: sleep out the rest of the interval, or stamp and release.  *)
Proceed(c) ==
    \/ /\ now >= last + interval
       /\ last' = now
       /\ owner' = NoCaller
       /\ pc' = [pc EXCEPT ![c] = "out"]
       /\ wake' = wake
    \/ /\ now < last + interval
       /\ owner' = c
       /\ pc' = [pc EXCEPT ![c] = "sleeping"]
       /\ wake' = [wake EXCEPT ![c] = last + interval]
       /\ last' = last

(* acquire() without a configured rate: it returns at once. *)
Unlimited(c) ==
    /\ pc[c] = "out"
    /\ interval = 0
    /\ UNCHANGED lvars

(* Mutant: a newcomer does not look whether others wait. *)
TakeLockBarging(c) ==
    /\ pc[c] = "out" /\ interval > 0
    /\ owner = NoCaller
    /\ Proceed(c)
    /\ UNCHANGED <<interval, now, queue>>

(* acquire() that finds the lock free and nobody waiting for it. *)
TakeLock(c) ==
    /\ pc[c] = "out"
    /\ interval > 0
    /\ owner = NoCaller /\ queue = <<>>
    /\ Proceed(c)
    /\ UNCHANGED <<interval, now, queue>>

(* acquire() that has to wait for the lock. *)
JoinQueue(c) ==
    /\ pc[c] = "out"
    /\ interval > 0
    /\ owner # NoCaller \/ queue # <<>>
    /\ queue' = Append(queue, c)
    /\ pc' = [pc EXCEPT ![c] = "queued"]
    /\ UNCHANGED <<interval, now, last, owner, wake>>

(* The waiter a release has woken takes the lock. *)
Woken(c) ==
    /\ owner = NoCaller
    /\ queue # <<>> /\ Head(queue) = c
    /\ queue' = Tail(queue)
    /\ Proceed(c)
    /\ UNCHANGED <<interval, now>>

(* Mutant: the grant after a sleep is not stamped. *)
SleepDoneUnstamped(c) ==
    /\ pc[c] = "sleeping" /\ now >= wake[c]
    /\ owner' = NoCaller
    /\ pc' = [pc EXCEPT ![c] = "out"] /\ wake' = [wake EXCEPT ![c] = 0]
    /\ UNCHANGED <<interval, now, last, queue>>

(* The sleep ends, not before its time but maybe later; stamp and release.   *)
SleepDone(c) ==
    /\ pc[c] = "sleeping"
    /\ now >= wake[c]
    /\ last' = now
    /\ owner' = NoCaller
    /\ pc' = [pc EXCEPT ![c] = "out"]
    /\ wake' = [wake EXCEPT ![c] = 0]
    /\ UNCHANGED <<interval, now, queue>>

(* Mutant: a sleeper that is cancelled keeps the lock. *)
CancelKeepsLock(c) ==
    /\ \/ \E k \in 1..Len(queue) : queue[k] = c /\ queue' = RemoveAt(queue, k)
       \/ pc[c] = "sleeping" /\ UNCHANGED queue
    /\ pc' = [pc EXCEPT ![c] = "out"]
    /\ UNCHANGED <<interval, now, last, owner, wake>>

(* CancelledError at an await of acquire(): a waiter leaves the queue, a     *)
(* sleeper releases the lock on its way out, and _last keeps its old value.  *)
Cancel(c) ==
    /\ \/ \E k \in 1..Len(queue) :
             queue[k] = c /\ queue' = RemoveAt(queue, k) /\ UNCHANGED <<owner, wake>>
       \/ /\ pc[c] = "sleeping"
          /\ owner' = NoCaller
          /\ wake' = [wake EXCEPT ![c] = 0]
          /\ UNCHANGED queue
    /\ pc' = [pc EXCEPT ![c] = "out"]
    /\ UNCHANGED <<interval, now, last>>

(* A task in acquire() that is suspended and not yet due. *)
Sleeping(c) == pc[c] = "sleeping" /\ now < wake[c]

Tick ==
    /\ now < Horizon \/ \E c \in Callers : Sleeping(c)
    /\ now' = now + 1
    /\ UNCHANGED <<interval, last, owner, queue, pc, wake>>

Acquire(c) == Unlimited(c) \/ TakeLock(c) \/ JoinQueue(c)

(* In a step in which c runs acquire(): it returns now. *)
Granted(c) == pc'[c] = "out"

LimiterNext ==
    \/ \E c \in Callers : Acquire(c) \/ Woken(c) \/ SleepDone(c) \/ Cancel(c)
    \/ Tick

LimiterSafe == LimiterInit /\ [][LimiterNext]_lvars

(* The event loop runs every ready task, and the clock goes on: nothing is   *)
(* assumed about acquire() being called or a task being cancelled.           *)
LimiterFairness ==
    /\ \A c \in Callers : WF_lvars(Woken(c)) /\ WF_lvars(SleepDone(c))
    /\ WF_lvars(Tick)

-----------------------------------------------------------------------------
(* The lock is held exactly across a sleep: no caller leaves acquire(), by   *)
(* return or by cancellation, with the lock still held, and no two sleep at  *)
(* a time; who waits is in the queue exactly once.                           *)
LockDiscipline ==
    /\ \A c \in Callers : (owner = c) <=> (pc[c] = "sleeping")
    /\ \A c \in Callers :
          (pc[c] = "queued") <=> (\E k \in 1..Len(queue) : queue[k] = c)
    /\ \A j, k \in 1..Len(queue) : queue[j] = queue[k] => j = k

(* Every call of acquire() ends: no wake-up is lost, whatever is cancelled.  *)
EveryCallerLeaves == \A c \in Callers : pc[c] # "out" ~> pc[c] = "out"
=============================================================================
