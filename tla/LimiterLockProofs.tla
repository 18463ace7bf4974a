------------------------- MODULE LimiterLockProofs -------------------------
(* The lock of RateLimiter, for any number of callers, any interval and any  *)
(* run of the clock: what every component that goes through acquire() can    *)
(* count on.                                                                 *)
EXTENDS RateLimiter, SequenceTheorems, TLAPS

(* A sleeper holds the lock, so _last cannot move before it wakes; callers   *)
(* wait only for a limiter that limits.                                      *)
SleepInv ==
    /\ \A c \in Callers : pc[c] = "sleeping" => wake[c] >= last + interval
    /\ interval = 0 => \A c \in Callers : pc[c] = "out"

LockInv == LimiterTypeOK /\ LockDiscipline /\ SleepInv

-----------------------------------------------------------------------------
(* Removing the k-th element of a sequence, as asyncio's deque.remove(fut).  *)
LEMMA RemoveAtProperties ==
    ASSUME NEW S, NEW s \in Seq(S), NEW k \in 1..Len(s)
    PROVE  /\ RemoveAt(s, k) \in Seq(S)
           /\ Len(RemoveAt(s, k)) = Len(s) - 1
           /\ \A i \in 1..Len(s) - 1 :
                 RemoveAt(s, k)[i] = IF i < k THEN s[i] ELSE s[i + 1]
<1> DEFINE front == SubSeq(s, 1, k - 1)
           back == SubSeq(s, k + 1, Len(s))
<1>0. Len(s) \in Nat /\ k \in Nat /\ \A i \in 1..Len(s) : s[i] \in S
    BY LenProperties, ElementOfSeq
<1>1. /\ front \in Seq(S) /\ Len(front) = k - 1
      /\ \A i \in 1..k - 1 : front[i] = s[i]
    BY <1>0, SubSeqProperties
<1>2. /\ back \in Seq(S) /\ Len(back) = Len(s) - k
      /\ \A i \in 1..Len(s) - k : back[i] = s[k + i]
    BY <1>0, SubSeqProperties
<1>3. RemoveAt(s, k) = front \o back
    BY DEF RemoveAt
<1> HIDE DEF front, back
<1>4. /\ front \o back \in Seq(S)
      /\ Len(front \o back) = Len(front) + Len(back)
      /\ \A i \in 1..Len(front) + Len(back) :
            (front \o back)[i] = IF i <= Len(front) THEN front[i]
                                ELSE back[i - Len(front)]
    BY <1>1, <1>2, ConcatProperties
<1>5. Len(front) + Len(back) = Len(s) - 1
    BY <1>0, <1>1, <1>2
<1>6. ASSUME NEW i \in 1..Len(s) - 1
      PROVE  (front \o back)[i] = IF i < k THEN s[i] ELSE s[i + 1]
    <2>1. CASE i < k
        BY <1>0, <1>1, <1>4, <1>5, <2>1
    <2>2. CASE ~(i < k)
        <3>1. i - (k - 1) \in 1..Len(s) - k
            BY <1>0, <2>2
        <3>2. back[i - (k - 1)] = s[k + (i - (k - 1))]
            BY <1>2, <3>1
        <3> QED
            BY <1>0, <1>1, <1>4, <1>5, <2>2, <3>2
    <2> QED BY <2>1, <2>2
<1> QED
    BY <1>3, <1>4, <1>5, <1>6

(* A queue that loses the waiter at position k; Tail loses the first one.    *)
Without(q, k, rest) ==
    /\ rest \in Seq(Callers)
    /\ Len(rest) = Len(q) - 1
    /\ \A i \in 1..Len(q) - 1 : rest[i] = IF i < k THEN q[i] ELSE q[i + 1]

LEMMA TailIsWithout ==
    ASSUME NEW q \in Seq(Callers), q # <<>>
    PROVE  Without(q, 1, Tail(q)) /\ Head(q) = q[1] /\ 1 \in 1..Len(q)
BY HeadTailProperties, LenProperties, EmptySeq DEF Without

(* In a queue without repetition, exactly the waiter at position k is gone.  *)
LEMMA WithoutMembers ==
    ASSUME NEW q \in Seq(Callers), NEW rest, NEW k \in 1..Len(q),
           Without(q, k, rest),
           \A i, j \in 1..Len(q) : q[i] = q[j] => i = j
    PROVE  /\ \A i, j \in 1..Len(rest) : rest[i] = rest[j] => i = j
           /\ \A d \in Callers :
                 (\E j \in 1..Len(rest) : rest[j] = d)
                     <=> (d # q[k] /\ \E j \in 1..Len(q) : q[j] = d)
<1>0. Len(q) \in Nat /\ k \in Nat /\ Len(rest) = Len(q) - 1
    BY LenProperties DEF Without
<1>1. \A i \in 1..Len(rest) :
         \E j \in 1..Len(q) : j # k /\ rest[i] = q[j] /\ (j = i \/ j = i + 1)
                               /\ (i < k <=> j = i)
    BY <1>0 DEF Without
<1>2. \A j \in 1..Len(q) :
         j # k => \E i \in 1..Len(rest) : rest[i] = q[j]
    <2>1. TAKE j \in 1..Len(q)
    <2>2. HAVE j # k
    <2>3. CASE j < k
        <3>1. j \in 1..Len(rest) /\ rest[j] = q[j]
            BY <1>0, <2>3 DEF Without
        <3> QED BY <3>1
    <2>4. CASE j > k
        <3>1. j - 1 \in 1..Len(rest) /\ rest[j - 1] = q[j]
            BY <1>0, <2>4 DEF Without
        <3> QED BY <3>1
    <2> QED BY <1>0, <2>2, <2>3, <2>4
<1>3. \A i, j \in 1..Len(rest) : rest[i] = rest[j] => i = j
    BY <1>0, <1>1
<1>4. ASSUME NEW d \in Callers
      PROVE  (\E j \in 1..Len(rest) : rest[j] = d)
                 <=> (d # q[k] /\ \E j \in 1..Len(q) : q[j] = d)
    <2>1. ASSUME NEW i \in 1..Len(rest), rest[i] = d
          PROVE  d # q[k] /\ \E j \in 1..Len(q) : q[j] = d
        <3>1. PICK j \in 1..Len(q) : j # k /\ rest[i] = q[j]
            BY <1>1
        <3>2. q[j] # q[k]
            BY <3>1
        <3> QED BY <2>1, <3>1, <3>2
    <2>2. ASSUME NEW j \in 1..Len(q), q[j] = d, d # q[k]
          PROVE  \E i \in 1..Len(rest) : rest[i] = d
        <3>1. j # k
            BY <2>2
        <3> QED BY <1>2, <2>2, <3>1
    <2> QED BY <2>1, <2>2
<1> QED BY <1>3, <1>4

(* What a step does to the limiter, in the terms of the invariant.  Time     *)
(* passes; c is granted without a limit, granted and stamped, put to sleep   *)
(* or queued; or c leaves the queue, or drops the lock, cancelled.           *)
Passes ==
    /\ UNCHANGED <<interval, last, owner, queue, pc, wake>>
    /\ now' \in Nat /\ now' >= now

Free(c) == interval = 0 /\ pc[c] = "out" /\ UNCHANGED lvars

Served(c) ==     \* c leaves the queue's head, or was not in the queue
    \/ Without(queue, 1, queue') /\ queue[1] = c /\ 1 \in 1..Len(queue)
    \/ queue' = queue /\ queue = <<>>
    \/ queue' = queue /\ owner = c

Stamped(c) ==
    /\ interval > 0 /\ now >= last + interval
    /\ owner \in {NoCaller, c} /\ owner' = NoCaller
    /\ Served(c)
    /\ last' = now
    /\ pc' = [pc EXCEPT ![c] = "out"]
    /\ wake' \in {wake, [wake EXCEPT ![c] = 0]}
    /\ UNCHANGED <<interval, now>>

Slept(c) ==
    /\ interval > 0
    /\ owner = NoCaller /\ owner' = c
    /\ Served(c)
    /\ pc' = [pc EXCEPT ![c] = "sleeping"]
    /\ wake' = [wake EXCEPT ![c] = last + interval]
    /\ UNCHANGED <<interval, now, last>>

Queued(c) ==
    /\ interval > 0
    /\ pc[c] = "out"
    /\ queue' = Append(queue, c)
    /\ pc' = [pc EXCEPT ![c] = "queued"]
    /\ UNCHANGED <<interval, now, last, owner, wake>>

Unqueued(c) ==
    /\ \E k \in 1..Len(queue) : queue[k] = c /\ Without(queue, k, queue')
    /\ pc' = [pc EXCEPT ![c] = "out"]
    /\ UNCHANGED <<interval, now, last, owner, wake>>

Unlocked(c) ==
    /\ owner = c /\ owner' = NoCaller
    /\ pc' = [pc EXCEPT ![c] = "out"]
    /\ wake' = [wake EXCEPT ![c] = 0]
    /\ UNCHANGED <<interval, now, last, queue>>

(* A caller that goes on in acquire() ... *)
LEMMA GoingOn ==
    ASSUME LockInv, NEW c \in Callers, Acquire(c) \/ Woken(c) \/ SleepDone(c)
    PROVE  Free(c) \/ Stamped(c) \/ Slept(c) \/ Queued(c)
<1> USE DEF LockInv, LimiterTypeOK
<1>1. CASE Acquire(c)
    <2>1. CASE Unlimited(c)
        BY <2>1 DEF Unlimited, Free
    <2>2. CASE TakeLock(c)
        BY <2>2 DEF TakeLock, Proceed, Stamped, Slept, Served
    <2>3. CASE JoinQueue(c)
        BY <2>3 DEF JoinQueue, Queued
    <2> QED BY <1>1, <2>1, <2>2, <2>3 DEF Acquire
<1>2. CASE Woken(c)
    <2>1. Without(queue, 1, queue') /\ queue[1] = c /\ 1 \in 1..Len(queue)
        BY <1>2, TailIsWithout DEF Woken
    <2>2. pc[c] = "queued"
        BY <2>1 DEF LockDiscipline
    <2>3. interval > 0
        BY <2>2 DEF SleepInv
    <2> QED
        BY <1>2, <2>1, <2>2, <2>3 DEF Woken, Proceed, Stamped, Slept, Served
<1>3. CASE SleepDone(c)
    <2>1. owner = c /\ wake[c] >= last + interval /\ interval > 0
        BY <1>3 DEF SleepDone, LockDiscipline, SleepInv
    <2> QED
        BY <1>3, <2>1 DEF SleepDone, Stamped, Served
<1> QED
    BY <1>1, <1>2, <1>3

(* ... and one that is cancelled there. *)
LEMMA GivingUp ==
    ASSUME LockInv, NEW c \in Callers, Cancel(c)
    PROVE  Unqueued(c) \/ Unlocked(c)
<1>1. ASSUME NEW k \in 1..Len(queue), queue[k] = c, queue' = RemoveAt(queue, k)
      PROVE  Without(queue, k, queue')
    BY <1>1, RemoveAtProperties DEF Without, LockInv, LimiterTypeOK
<1>2. pc[c] = "sleeping" => owner = c
    BY DEF LockInv, LockDiscipline
<1> QED
    BY <1>1, <1>2 DEF Cancel, Unqueued, Unlocked

LimiterStepOf(c) ==
    Free(c) \/ Stamped(c) \/ Slept(c) \/ Queued(c) \/ Unqueued(c) \/ Unlocked(c)

-----------------------------------------------------------------------------
LEMMA LockTypeStep ==
    ASSUME LockInv, NEW c \in Callers, LimiterStepOf(c)
    PROVE  LimiterTypeOK'
<1> USE LimiterAssumption DEF LockInv, LimiterTypeOK
<1>1. CASE Free(c)
    BY <1>1 DEF Free, lvars
<1>2. CASE Stamped(c)
    <2>1. queue' \in Seq(Callers)
        BY <1>2 DEF Stamped, Served, Without
    <2> QED BY <1>2, <2>1 DEF Stamped
<1>3. CASE Slept(c)
    BY <1>3 DEF Slept, Served, Without
<1>4. CASE Queued(c)
    BY <1>4 DEF Queued
<1>5. CASE Unqueued(c)
    BY <1>5 DEF Unqueued, Without
<1>6. CASE Unlocked(c)
    BY <1>6 DEF Unlocked
<1> QED
    BY <1>1, <1>2, <1>3, <1>4, <1>5, <1>6 DEF LimiterStepOf

LEMMA LockDisciplineStep ==
    ASSUME LockInv, NEW c \in Callers, LimiterStepOf(c)
    PROVE  LockDiscipline'
<1>0. ASSUME NEW k \in 1..Len(queue), queue[k] = c,
             Without(queue, k, queue'),
             pc'[c] # "queued", \A d \in Callers \ {c} : pc'[d] = pc[d]
      PROVE  /\ \A d \in Callers :
                   (pc[d] = "queued")' <=> (\E j \in 1..Len(queue) : queue[j] = d)'
             /\ (\A i, j \in 1..Len(queue) : queue[i] = queue[j] => i = j)'
    <2>0. \A d \in Callers :
             (pc[d] = "queued") <=> (\E j \in 1..Len(queue) : queue[j] = d)
        BY DEF LockInv, LimiterTypeOK, LockDiscipline
    <2>1. /\ \A i, j \in 1..Len(queue') : queue'[i] = queue'[j] => i = j
          /\ \A d \in Callers :
                (\E j \in 1..Len(queue') : queue'[j] = d)
                    <=> (d # queue[k] /\ \E j \in 1..Len(queue) : queue[j] = d)
        <3>1. queue \in Seq(Callers)
            BY DEF LockInv, LimiterTypeOK
        <3>2. \A i, j \in 1..Len(queue) : queue[i] = queue[j] => i = j
            BY DEF LockInv, LockDiscipline
        <3>3. Without(queue, k, queue')
            BY <1>0
        <3> QED BY <3>1, <3>2, <3>3, WithoutMembers
    <2>2. ASSUME NEW d \in Callers
          PROVE  (pc[d] = "queued")' <=> (\E j \in 1..Len(queue) : queue[j] = d)'
        <3>1. CASE d = c
            BY <1>0, <2>0, <2>1, <3>1
        <3>2. CASE d # c
            BY <1>0, <2>0, <2>1, <3>2
        <3> QED BY <3>1, <3>2
    <2> QED BY <2>1, <2>2
<1> USE LimiterAssumption DEF LockInv, LimiterTypeOK, LockDiscipline
<1>1. CASE Free(c)
    BY <1>1 DEF Free, lvars
<1>2. CASE Stamped(c)
    <2>1. \A d \in Callers : (owner' = d) <=> (pc'[d] = "sleeping")
        BY <1>2 DEF Stamped
    <2>2. CASE Without(queue, 1, queue') /\ queue[1] = c /\ 1 \in 1..Len(queue)
        BY <1>2, <1>0, <2>1, <2>2 DEF Stamped
    <2>3. CASE queue' = queue /\ (queue = <<>> \/ owner = c)
        <3>1. pc[c] # "queued"
            BY <2>3, EmptySeq
        <3> QED BY <1>2, <2>1, <2>3, <3>1 DEF Stamped
    <2> QED BY <1>2, <2>2, <2>3 DEF Stamped, Served
<1>3. CASE Slept(c)
    <2>1. \A d \in Callers : (owner' = d) <=> (pc'[d] = "sleeping")
        BY <1>3 DEF Slept
    <2>2. CASE Without(queue, 1, queue') /\ queue[1] = c /\ 1 \in 1..Len(queue)
        BY <1>3, <1>0, <2>1, <2>2 DEF Slept
    <2>3. CASE queue' = queue /\ (queue = <<>> \/ owner = c)
        <3>1. pc[c] # "queued"
            BY <2>3, EmptySeq
        <3> QED BY <1>3, <2>1, <2>3, <3>1 DEF Slept
    <2> QED BY <1>3, <2>2, <2>3 DEF Slept, Served
<1>4. CASE Queued(c)
    BY <1>4 DEF Queued
<1>5. CASE Unqueued(c)
    <2>1. \A d \in Callers : (owner' = d) <=> (pc'[d] = "sleeping")
        BY <1>5 DEF Unqueued
    <2> QED BY <1>5, <1>0, <2>1 DEF Unqueued
<1>6. CASE Unlocked(c)
    BY <1>6 DEF Unlocked
<1> QED
    BY <1>1, <1>2, <1>3, <1>4, <1>5, <1>6 DEF LimiterStepOf

LEMMA SleepStep ==
    ASSUME LockInv, NEW c \in Callers, LimiterStepOf(c)
    PROVE  SleepInv'
<1> USE LimiterAssumption DEF LockInv, LimiterTypeOK, LockDiscipline, SleepInv
<1>1. CASE Free(c)
    BY <1>1 DEF Free, lvars
<1>2. CASE Stamped(c)
    BY <1>2 DEF Stamped
<1>3. CASE Slept(c)
    BY <1>3 DEF Slept
<1>4. CASE Queued(c)
    BY <1>4 DEF Queued
<1>5. CASE Unqueued(c)
    BY <1>5 DEF Unqueued
<1>6. CASE Unlocked(c)
    BY <1>6 DEF Unlocked
<1> QED
    BY <1>1, <1>2, <1>3, <1>4, <1>5, <1>6 DEF LimiterStepOf

(* The invariant of the lock: it holds at first, and survives every step of  *)
(* a caller and every step of the clock.                                     *)
LEMMA LockInvInit == LimiterInit => LockInv
BY LimiterAssumption, EmptySeq
DEF LimiterInit, LockInv, LimiterTypeOK, LockDiscipline, SleepInv

LEMMA LockInvStep ==
    ASSUME LockInv, NEW c \in Callers, LimiterStepOf(c)
    PROVE  LockInv'
BY LockTypeStep, LockDisciplineStep, SleepStep DEF LockInv

LEMMA LockInvPasses ==
    ASSUME LockInv, Passes
    PROVE  LockInv'
BY DEF Passes, LockInv, LimiterTypeOK, LockDiscipline, SleepInv
=============================================================================
