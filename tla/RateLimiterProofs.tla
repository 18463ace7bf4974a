------------------------- MODULE RateLimiterProofs -------------------------
(* The promises of RateLimiterHistory, for any number of callers, any        *)
(* interval and any run of the clock, on top of the discipline of the lock.  *)
EXTENDS RateLimiterHistory, LimiterLockProofs

(* _last is the time of the last grant, and no grant is in the future. *)
StampInv ==
    /\ \A i \in 1..Len(sent) : sent[i].at <= now
    /\ sent # <<>> /\ interval > 0 => sent[Len(sent)].at = last

(* Whoever was granted since c joined the queue is not before c any more. *)
BehindInv ==
    \A p \in 1..Len(queue) :
        /\ since[queue[p]] <= Len(sent)
        /\ \A k \in since[queue[p]] + 1 .. Len(sent) :
              /\ sent[k].by # owner
              /\ \A q \in 1..p - 1 : queue[q] # sent[k].by

LimiterInv ==
    /\ HistoryTypeOK
    /\ LockInv
    /\ StampInv
    /\ BehindInv
    /\ Spacing
    /\ BoundedOvertaking

-----------------------------------------------------------------------------
(* The steps of LimiterLockProofs, with what each adds to the history. *)
Quiet == Passes /\ UNCHANGED <<sent, since>>

FreeGrant(c) ==
    /\ Free(c)
    /\ sent' = Append(sent, [at |-> now, by |-> c])
    /\ since' = [since EXCEPT ![c] = 0]

PacedGrant(c) ==
    /\ Stamped(c)
    /\ sent' = Append(sent, [at |-> now, by |-> c])
    /\ since' = [since EXCEPT ![c] = 0]

FallAsleep(c) == Slept(c) /\ sent' = sent /\ since' = [since EXCEPT ![c] = 0]

Join(c) == Queued(c) /\ sent' = sent /\ since' = [since EXCEPT ![c] = Len(sent)]

LeaveQueue(c) == Unqueued(c) /\ sent' = sent /\ since' = [since EXCEPT ![c] = 0]

DropLock(c) == Unlocked(c) /\ sent' = sent /\ since' = [since EXCEPT ![c] = 0]

(* Every step is one of these seven. *)
LEMMA StepCases ==
    ASSUME LimiterInv, [HistoryNext]_hlvars
    PROVE  \/ Quiet
           \/ \E c \in Callers : \/ FreeGrant(c) \/ PacedGrant(c) \/ FallAsleep(c)
                                 \/ Join(c) \/ LeaveQueue(c) \/ DropLock(c)
<1> USE DEF LimiterInv, LockInv, LimiterTypeOK
<1>1. ASSUME NEW c \in Callers, Run(c)
      PROVE  FreeGrant(c) \/ PacedGrant(c) \/ FallAsleep(c) \/ Join(c)
    <2>1. Free(c) \/ Stamped(c) \/ Slept(c) \/ Queued(c)
        BY <1>1, GoingOn DEF Run
    <2>2. CASE Free(c)
        BY <1>1, <2>2 DEF Run, Granted, Free, lvars, FreeGrant
    <2>3. CASE Stamped(c)
        BY <1>1, <2>3 DEF Run, Granted, Stamped, PacedGrant
    <2>4. CASE Slept(c)
        BY <1>1, <2>4 DEF Run, Granted, Slept, FallAsleep
    <2>5. CASE Queued(c)
        BY <1>1, <2>5 DEF Run, Granted, Queued, Join
    <2> QED BY <2>1, <2>2, <2>3, <2>4, <2>5
<1>2. ASSUME NEW c \in Callers, GiveUp(c)
      PROVE  LeaveQueue(c) \/ DropLock(c)
    BY <1>2, GivingUp DEF GiveUp, LeaveQueue, DropLock
<1>3. CASE Idle \/ Finished \/ UNCHANGED hlvars
    BY <1>3 DEF Idle, Tick, Finished, hlvars, lvars, Quiet, Passes
<1> QED
    BY <1>1, <1>2, <1>3 DEF HistoryNext

-----------------------------------------------------------------------------
LEMMA InitInv == HistoryInit => LimiterInv
<1> SUFFICES ASSUME HistoryInit PROVE LimiterInv
    OBVIOUS
<1>1. LockInv
    BY LockInvInit DEF HistoryInit
<1>2. HistoryTypeOK
    BY <1>1, EmptySeq DEF HistoryInit, HistoryTypeOK, LockInv
<1>3. StampInv /\ BehindInv /\ Spacing /\ BoundedOvertaking
    BY DEF HistoryInit, LimiterInit, StampInv, BehindInv, Spacing, BoundedOvertaking
<1> QED
    BY <1>1, <1>2, <1>3 DEF LimiterInv

LEMMA LockStep ==
    ASSUME LimiterInv, [HistoryNext]_hlvars
    PROVE  LockInv'
<1>1. LockInv
    BY DEF LimiterInv
<1>2. Passes \/ \E c \in Callers : LimiterStepOf(c)
    BY StepCases
    DEF Quiet, FreeGrant, PacedGrant, FallAsleep, Join, LeaveQueue, DropLock, LimiterStepOf
<1> QED BY <1>1, <1>2, LockInvStep, LockInvPasses

LEMMA TypeStep ==
    ASSUME LimiterInv, [HistoryNext]_hlvars
    PROVE  HistoryTypeOK'
<1>1. LimiterTypeOK' /\ sent \in Seq(Grant) /\ since \in [Callers -> Nat] /\ now \in Nat
    BY LockStep DEF LimiterInv, LockInv, HistoryTypeOK, LimiterTypeOK
<1>2. \A c \in Callers : [at |-> now, by |-> c] \in Grant
    BY <1>1 DEF Grant
<1>3. sent' \in Seq(Grant)
    <2>1. sent' = sent \/ \E c \in Callers : sent' = Append(sent, [at |-> now, by |-> c])
        BY StepCases
        DEF Quiet, FreeGrant, PacedGrant, FallAsleep, Join, LeaveQueue, DropLock
    <2>2. ASSUME NEW c \in Callers
          PROVE  Append(sent, [at |-> now, by |-> c]) \in Seq(Grant)
        BY <1>1, <1>2, AppendProperties
    <2> QED BY <1>1, <2>1, <2>2
<1>4. since' \in [Callers -> Nat]
    <2>1. Len(sent) \in Nat
        BY <1>1, LenProperties
    <2>2. since' = since \/ \E c \in Callers : \E n \in Nat : since' = [since EXCEPT ![c] = n]
        BY <2>1, StepCases
        DEF Quiet, FreeGrant, PacedGrant, FallAsleep, Join, LeaveQueue, DropLock
    <2> QED BY <1>1, <2>2
<1> QED BY <1>1, <1>3, <1>4 DEF HistoryTypeOK

(* A grant lands an interval after the one before it. *)
LEMMA GrantStep ==
    ASSUME LimiterInv, NEW c \in Callers, sent' = Append(sent, [at |-> now, by |-> c]),
           interval' = interval, now' = now,
           interval > 0 => now >= last + interval /\ last' = now
    PROVE  StampInv' /\ Spacing'
<1> DEFINE n == Len(sent)
<1>0. /\ interval \in Nat /\ now \in Nat /\ last \in Nat
      /\ sent \in Seq(Grant) /\ StampInv /\ Spacing
    BY DEF LimiterInv, LockInv, HistoryTypeOK, LimiterTypeOK
<1>1. /\ n \in Nat /\ n = Len(sent) /\ Len(sent') = n + 1 /\ sent' # <<>>
      /\ sent'[n + 1] = [at |-> now, by |-> c]
      /\ \A i \in 1..n : sent'[i] = sent[i]
    <2>1. [at |-> now, by |-> c] \in Grant
        BY <1>0 DEF Grant
    <2> QED BY <1>0, <2>1, AppendProperties, LenProperties
<1>2. \A i \in 1..n : sent[i].at \in Nat
    <2>1. \A i \in 1..n : sent[i] \in Grant
        BY <1>0, ElementOfSeq
    <2> QED BY <2>1 DEF Grant
<1>3. /\ \A i \in 1..n : sent[i].at <= now
      /\ n > 0 /\ interval > 0 => sent[n].at = last
      /\ \A i, j \in 1..n : i < j => sent[j].at >= sent[i].at + (j - i) * interval
    BY <1>0, <1>1, EmptySeq DEF StampInv, Spacing
<1> HIDE DEF n
<1>4. StampInv'
    BY <1>0, <1>1, <1>2, <1>3 DEF StampInv
<1>5. ASSUME NEW i \in 1..n
      PROVE  now >= sent[i].at + ((n + 1) - i) * interval
    <2> DEFINE gap == (n - i) * interval
               next == ((n + 1) - i) * interval
               first == sent[i].at
               latest == sent[n].at
    <2>1. n \in 1..n
        BY <1>1, <1>5
    <2>2. latest \in Nat /\ first \in Nat /\ now >= latest + interval
        BY <1>0, <1>2, <1>3, <1>5, <2>1
    <2>3. gap \in Nat /\ next = gap + interval
        BY <1>0, <1>1, <1>5
    <2>4. latest >= first + gap
        <3>1. CASE i = n
            <4>1. gap = 0
                BY <1>0, <1>1, <3>1
            <4> HIDE DEF gap
            <4> QED BY <2>2, <3>1, <4>1
        <3>2. CASE i # n
            BY <1>1, <1>3, <1>5, <2>1, <3>2
        <3> QED BY <3>1, <3>2
    <2> HIDE DEF gap, next, first, latest
    <2>5. now >= first + next
        BY <1>0, <2>2, <2>3, <2>4
    <2> QED BY <2>5 DEF first, next
<1>6. Spacing'
    <2> SUFFICES ASSUME NEW i \in 1..n + 1, NEW j \in 1..n + 1, i < j
                 PROVE  sent'[j].at >= sent'[i].at + (j - i) * interval
        BY <1>1 DEF Spacing
    <2>0. i \in 1..n
        BY <1>1
    <2>1. CASE j = n + 1
        BY <1>1, <1>5, <2>0, <2>1
    <2>2. CASE j # n + 1
        <3>1. j \in 1..n
            BY <1>1, <2>2
        <3> QED BY <1>1, <1>3, <2>0, <3>1
    <2> QED BY <2>1, <2>2
<1> QED BY <1>4, <1>6

LEMMA SpacingStep ==
    ASSUME LimiterInv, [HistoryNext]_hlvars
    PROVE  StampInv' /\ Spacing'
<1> USE DEF LimiterInv, LockInv
<1>1. ASSUME UNCHANGED <<interval, last, sent>>, now' \in Nat, now' >= now
      PROVE  StampInv' /\ Spacing'
    <2>1. \A i \in 1..Len(sent) : sent[i].at \in Nat
        <3>1. sent \in Seq(Grant)
            BY DEF HistoryTypeOK
        <3>2. \A i \in 1..Len(sent) : sent[i] \in Grant
            BY <3>1, ElementOfSeq
        <3> QED BY <3>2 DEF Grant
    <2>2. StampInv'
        BY <1>1, <2>1 DEF StampInv, HistoryTypeOK, LimiterTypeOK
    <2>3. Spacing'
        BY <1>1 DEF Spacing
    <2> QED BY <2>2, <2>3
<1>2. CASE Quiet
    BY <1>1, <1>2 DEF Quiet, Passes
<1>3. ASSUME NEW c \in Callers, FreeGrant(c) PROVE StampInv' /\ Spacing'
    BY <1>3, GrantStep DEF FreeGrant, Free, lvars
<1>4. ASSUME NEW c \in Callers, PacedGrant(c) PROVE StampInv' /\ Spacing'
    BY <1>4, GrantStep DEF PacedGrant, Stamped
<1>5. ASSUME NEW c \in Callers,
             FallAsleep(c) \/ Join(c) \/ LeaveQueue(c) \/ DropLock(c)
      PROVE  StampInv' /\ Spacing'
    <2>1. UNCHANGED <<interval, last, sent>> /\ now' = now
        BY <1>5 DEF FallAsleep, Slept, Join, Queued, LeaveQueue, Unqueued, DropLock, Unlocked
    <2> QED BY <1>1, <2>1 DEF HistoryTypeOK, LimiterTypeOK
<1> QED
    BY StepCases, <1>2, <1>3, <1>4, <1>5

(* Who stays in the queue stays in order. *)
WasAt(q, k, rest, p) ==
    \E r \in 1..Len(q) :
        /\ rest[p] = q[r] /\ r # k /\ (k = 1 => r > 1)
        /\ \A i \in 1..p - 1 : \E t \in 1..r - 1 : rest[i] = q[t]

LEMMA WithoutOrder ==
    ASSUME NEW q \in Seq(Callers), NEW rest, NEW k \in 1..Len(q),
           Without(q, k, rest), NEW p \in 1..Len(rest)
    PROVE  WasAt(q, k, rest, p)
<1> USE DEF WasAt
<1>0. /\ Len(q) \in Nat /\ k \in Nat /\ Len(rest) = Len(q) - 1
      /\ \A i \in 1..Len(q) - 1 : rest[i] = IF i < k THEN q[i] ELSE q[i + 1]
    BY LenProperties DEF Without
<1>1. CASE p < k
    <2>1. \A i \in 1..p - 1 : rest[i] = q[i]
        BY <1>0, <1>1
    <2>2. p \in 1..Len(q) /\ rest[p] = q[p] /\ p # k /\ k # 1
        BY <1>0, <1>1
    <2> QED BY <2>1, <2>2
<1>2. CASE ~(p < k)
    <2>1. \A i \in 1..p - 1 : \E t \in 1..p : rest[i] = q[t]
        <3>1. TAKE i \in 1..p - 1
        <3>2. i \in 1..p /\ i + 1 \in 1..p /\ i \in 1..Len(q) - 1
            BY <1>0
        <3>3. rest[i] = q[i] \/ rest[i] = q[i + 1]
            BY <1>0, <3>2
        <3> QED BY <3>2, <3>3
    <2>2. p + 1 \in 1..Len(q) /\ rest[p] = q[p + 1] /\ p + 1 # k /\ p + 1 > 1
        BY <1>0, <1>2
    <2>3. (p + 1) - 1 = p
        BY <1>0
    <2> QED BY <2>1, <2>2, <2>3
<1> QED BY <1>1, <1>2

LEMMA OvertakingStep ==
    ASSUME LimiterInv, [HistoryNext]_hlvars
    PROVE  BehindInv' /\ BoundedOvertaking'
<1> DEFINE n == Len(sent)
<1>0. /\ NoCaller \notin Callers
      /\ queue \in Seq(Callers) /\ sent \in Seq(Grant) /\ now \in Nat
      /\ pc \in [Callers -> {"out", "queued", "sleeping"}]
      /\ since \in [Callers -> Nat]
    BY LimiterAssumption DEF LimiterInv, LockInv, HistoryTypeOK, LimiterTypeOK
<1>1. /\ n \in Nat /\ Len(queue) \in Nat
      /\ \A k \in 1..n : sent[k] \in Grant
      /\ \A p \in 1..Len(queue) : queue[p] \in Callers
    BY <1>0, LenProperties, ElementOfSeq
<1>2. /\ \A c \in Callers : (owner = c) <=> (pc[c] = "sleeping")
      /\ \A c \in Callers :
            (pc[c] = "queued") <=> (\E k \in 1..Len(queue) : queue[k] = c)
    BY DEF LimiterInv, LockInv, LockDiscipline
<1>3. \A p \in 1..Len(queue) :
        /\ since[queue[p]] <= n
        /\ \A k \in since[queue[p]] + 1 .. n :
              sent[k].by # owner /\ \A q \in 1..p - 1 : queue[q] # sent[k].by
    BY DEF LimiterInv, LockInv, BehindInv
<1>4. \A c \in Callers :
        pc[c] = "queued" =>
            \A j, k \in since[c] + 1 .. n : sent[j].by = sent[k].by => j = k
    BY DEF LimiterInv, LockInv, BoundedOvertaking
<1>5. LockDiscipline' /\ queue' \in Seq(Callers)
    BY LockStep DEF LockInv, LimiterTypeOK
<1>6. /\ Len(queue') \in Nat
      /\ \A p \in 1..Len(queue') : queue'[p] \in Callers /\ pc'[queue'[p]] = "queued"
    <2>1. \A p \in 1..Len(queue') : queue'[p] \in Callers
        BY <1>5, ElementOfSeq
    <2> QED BY <1>5, <2>1, LenProperties DEF LockDiscipline
<1> HIDE DEF n
<1>7. CASE Quiet
    BY <1>7 DEF Quiet, Passes, LimiterInv, LockInv, BehindInv, BoundedOvertaking
<1>8. ASSUME NEW c \in Callers, FreeGrant(c)
      PROVE  BehindInv' /\ BoundedOvertaking'
    <2>1. pc' = pc /\ \A d \in Callers : pc[d] = "out"
        BY <1>8 DEF FreeGrant, Free, lvars, LimiterInv, LockInv, SleepInv
    <2>2. \A p \in 1..Len(queue') : FALSE
        BY <1>6, <2>1
    <2> QED BY <2>1, <2>2 DEF BehindInv, BoundedOvertaking
<1>9. ASSUME NEW c \in Callers, PacedGrant(c)
      PROVE  BehindInv' /\ BoundedOvertaking'
    <2>1. /\ Len(sent') = n + 1 /\ sent'[n + 1].by = c
          /\ \A k \in 1..n : sent'[k] = sent[k]
        <3>1. [at |-> now, by |-> c] \in Grant
            BY <1>0 DEF Grant
        <3>2. sent' = Append(sent, [at |-> now, by |-> c])
            BY <1>9 DEF PacedGrant, Stamped
        <3> QED BY <1>0, <3>1, <3>2, AppendProperties DEF n
    <2>2. /\ owner' = NoCaller
          /\ \A d \in Callers \ {c} : pc'[d] = pc[d] /\ since'[d] = since[d]
          /\ pc'[c] = "out"
        BY <1>0, <1>9 DEF PacedGrant, Stamped
    <2>3. \A k \in 1..n : sent[k].by \in Callers
        BY <1>1 DEF Grant
    <2>4. ASSUME NEW p \in 1..Len(queue')
          PROVE  \E r \in 1..Len(queue) :
                    /\ queue'[p] = queue[r]
                    /\ \A i \in 1..p - 1 : \E t \in 1..r - 1 : queue'[i] = queue[t]
        <3>1. CASE queue' = queue
            BY <1>1, <3>1
        <3>2. CASE Without(queue, 1, queue') /\ 1 \in 1..Len(queue)
            <4>1. queue \in Seq(Callers)
                BY <1>0
            <4>2. WasAt(queue, 1, queue', p)
                BY <3>2, <4>1, WithoutOrder
            <4> QED BY <4>2 DEF WasAt
        <3> QED BY <1>9, <3>1, <3>2 DEF PacedGrant, Stamped, Served
    <2>5. ASSUME NEW p \in 1..Len(queue')
          PROVE  /\ since'[queue'[p]] <= n
                 /\ \A k \in since'[queue'[p]] + 1 .. n + 1 :
                       /\ sent'[k].by # NoCaller
                       /\ \A q \in 1..p - 1 : queue'[q] # sent'[k].by
        <3> DEFINE e == queue'[p]
        <3>1. e \in Callers \ {c} /\ since'[e] = since[e] /\ since[e] \in Nat
            BY <1>0, <1>6, <2>2
        <3>2. PICK r \in 1..Len(queue) :
                 /\ e = queue[r]
                 /\ \A i \in 1..p - 1 : \E t \in 1..r - 1 : queue'[i] = queue[t]
            BY <2>4
        <3> HIDE DEF e
        <3>3. since[e] <= n
            BY <1>3, <3>2
        <3>4. ASSUME NEW k \in since[e] + 1 .. n + 1
              PROVE  /\ sent'[k].by # NoCaller
                     /\ \A q \in 1..p - 1 : queue'[q] # sent'[k].by
            <4>1. CASE k = n + 1
                <5>1. \A q \in 1..p - 1 : queue'[q] # c
                    BY <1>6, <2>2
                <5> QED BY <1>0, <2>1, <4>1, <5>1
            <4>2. CASE k # n + 1
                <5>1. k \in since[e] + 1 .. n /\ k \in 1..n
                    BY <1>1, <3>1, <4>2
                <5>2. \A t \in 1..r - 1 : queue[t] # sent[k].by
                    BY <1>3, <3>2, <5>1
                <5> QED BY <1>0, <2>1, <2>3, <3>2, <5>1, <5>2
            <4> QED BY <4>1, <4>2
        <3> QED BY <3>1, <3>3, <3>4 DEF e
    <2>6. BehindInv'
        <3>1. \A p \in 1..Len(queue') : since'[queue'[p]] <= n + 1
            <4>1. TAKE p \in 1..Len(queue')
            <4>2. since'[queue'[p]] \in Nat
                BY <1>0, <1>6, <2>2
            <4> QED BY <1>1, <2>5, <4>2
        <3> QED BY <2>1, <2>2, <2>5, <3>1 DEF BehindInv
    <2>7. ASSUME NEW e \in Callers, pc'[e] = "queued"
          PROVE  \A j, k \in since'[e] + 1 .. n + 1 : sent'[j].by = sent'[k].by => j = k
        <3>1. e # c /\ pc[e] = "queued" /\ since'[e] = since[e] /\ since[e] \in Nat
            BY <1>0, <2>2, <2>7
        <3>2. PICK r \in 1..Len(queue) : queue[r] = e
            BY <1>2, <3>1
        <3>3. \A k \in since[e] + 1 .. n : sent[k].by # c
            <4>1. CASE owner = c
                BY <1>3, <3>2, <4>1
            <4>2. CASE queue[1] = c /\ 1 \in 1..Len(queue)
                <5>1. 1 \in 1..r - 1
                    BY <1>1, <3>1, <3>2, <4>2
                <5> QED BY <1>3, <3>2, <4>2, <5>1
            <4>3. CASE queue = <<>>
                BY <3>2, <4>3, EmptySeq
            <4> QED BY <1>9, <4>1, <4>2, <4>3 DEF PacedGrant, Stamped, Served
        <3>4. ASSUME NEW j \in since[e] + 1 .. n + 1, NEW k \in since[e] + 1 .. n + 1,
                     sent'[j].by = sent'[k].by
              PROVE  j = k
            <4>1. \A i \in since[e] + 1 .. n : i \in 1..n /\ sent'[i] = sent[i]
                BY <1>1, <2>1, <3>1
            <4>2. \A i \in since[e] + 1 .. n + 1 : i = n + 1 \/ i \in since[e] + 1 .. n
                BY <1>1, <3>1
            <4> QED BY <1>4, <2>1, <3>1, <3>3, <3>4, <4>1, <4>2
        <3> QED BY <3>1, <3>4
    <2>8. BoundedOvertaking'
        BY <2>1, <2>7 DEF BoundedOvertaking
    <2> QED BY <2>6, <2>8
<1>10. ASSUME NEW c \in Callers, sent' = sent, pc'[c] # "queued",
              \A d \in Callers \ {c} : pc'[d] = pc[d] /\ since'[d] = since[d],
              \/ queue' = queue
              \/ \E k \in 1..Len(queue) : Without(queue, k, queue'),
              \A r \in 1..Len(queue) : queue[r] # c =>
                  \A k \in since[queue[r]] + 1 .. n : sent[k].by # owner'
       PROVE  BehindInv' /\ BoundedOvertaking'
    <2>1. ASSUME NEW p \in 1..Len(queue')
          PROVE  \E r \in 1..Len(queue) :
                    /\ queue'[p] = queue[r]
                    /\ \A i \in 1..p - 1 : \E t \in 1..r - 1 : queue'[i] = queue[t]
        <3>1. CASE queue' = queue
            BY <1>1, <3>1
        <3>2. ASSUME NEW k \in 1..Len(queue), Without(queue, k, queue')
              PROVE  \E r \in 1..Len(queue) :
                       /\ queue'[p] = queue[r]
                       /\ \A i \in 1..p - 1 : \E t \in 1..r - 1 : queue'[i] = queue[t]
            <4>1. queue \in Seq(Callers)
                BY <1>0
            <4>2. WasAt(queue, k, queue', p)
                BY <3>2, <4>1, WithoutOrder
            <4> QED BY <4>2 DEF WasAt
        <3> QED BY <1>10, <3>1, <3>2
    <2>2. ASSUME NEW p \in 1..Len(queue')
          PROVE  /\ since'[queue'[p]] <= n
                 /\ \A k \in since'[queue'[p]] + 1 .. n :
                       /\ sent[k].by # owner'
                       /\ \A q \in 1..p - 1 : queue'[q] # sent[k].by
        <3>1. PICK r \in 1..Len(queue) :
                 /\ queue'[p] = queue[r]
                 /\ \A i \in 1..p - 1 : \E t \in 1..r - 1 : queue'[i] = queue[t]
            BY <2>1
        <3>2. queue[r] # c /\ since'[queue[r]] = since[queue[r]]
            BY <1>6, <1>10, <3>1
        <3> QED BY <1>3, <1>10, <3>1, <3>2
    <2>3. BehindInv'
        BY <1>10, <2>2 DEF BehindInv, n
    <2>4. ASSUME NEW e \in Callers, pc'[e] = "queued"
          PROVE  pc[e] = "queued" /\ since'[e] = since[e]
        BY <1>10, <2>4
    <2>5. BoundedOvertaking'
        BY <1>4, <1>10, <2>4 DEF BoundedOvertaking, n
    <2> QED BY <2>3, <2>5
<1>11. \A k \in 1..n : sent[k].by # NoCaller
    BY <1>0, <1>1 DEF Grant
<1>12. \A r \in 1..Len(queue) : \A k \in since[queue[r]] + 1 .. n :
          k \in 1..n
    BY <1>0, <1>1
<1>13. ASSUME NEW c \in Callers, FallAsleep(c)
       PROVE  BehindInv' /\ BoundedOvertaking'
    <2>1. ASSUME NEW r \in 1..Len(queue), queue[r] # c,
                 NEW k \in since[queue[r]] + 1 .. n
          PROVE  sent[k].by # c
        <3>1. CASE queue[1] = c
            <4>1. 1 \in 1..r - 1
                BY <1>1, <2>1, <3>1
            <4> QED BY <1>3, <3>1, <4>1
        <3>2. CASE queue = <<>>
            BY <3>2, EmptySeq
        <3>3. CASE owner = c
            BY <1>0, <1>13, <3>3 DEF FallAsleep, Slept
        <3> QED BY <1>13, <3>1, <3>2, <3>3 DEF FallAsleep, Slept, Served
    <2>2. /\ sent' = sent /\ pc'[c] # "queued" /\ owner' = c
          /\ \A d \in Callers \ {c} : pc'[d] = pc[d] /\ since'[d] = since[d]
        BY <1>0, <1>13 DEF FallAsleep, Slept
    <2>3. queue' = queue \/ \E k \in 1..Len(queue) : Without(queue, k, queue')
        BY <1>13 DEF FallAsleep, Slept, Served
    <2> QED BY <1>10, <2>1, <2>2, <2>3
<1>14. ASSUME NEW c \in Callers, LeaveQueue(c)
       PROVE  BehindInv' /\ BoundedOvertaking'
    <2>1. /\ sent' = sent /\ pc'[c] # "queued" /\ owner' = owner
          /\ \A d \in Callers \ {c} : pc'[d] = pc[d] /\ since'[d] = since[d]
          /\ \E k \in 1..Len(queue) : Without(queue, k, queue')
        BY <1>0, <1>14 DEF LeaveQueue, Unqueued
    <2> QED BY <1>3, <1>10, <2>1
<1>15. ASSUME NEW c \in Callers, DropLock(c)
       PROVE  BehindInv' /\ BoundedOvertaking'
    <2>1. /\ sent' = sent /\ pc'[c] # "queued" /\ owner' = NoCaller
          /\ \A d \in Callers \ {c} : pc'[d] = pc[d] /\ since'[d] = since[d]
          /\ queue' = queue
        BY <1>0, <1>15 DEF DropLock, Unlocked
    <2> QED BY <1>10, <1>11, <1>12, <2>1
<1>16. ASSUME NEW c \in Callers, Join(c)
       PROVE  BehindInv' /\ BoundedOvertaking'
    <2> DEFINE m == Len(queue)
    <2>1. /\ Len(queue') = m + 1 /\ queue'[m + 1] = c
          /\ \A p \in 1..m : queue'[p] = queue[p]
        BY <1>0, <1>16, AppendProperties DEF Join, Queued
    <2>2. /\ sent' = sent /\ owner' = owner /\ since'[c] = n /\ pc[c] = "out"
          /\ \A d \in Callers \ {c} : pc'[d] = pc[d] /\ since'[d] = since[d]
        BY <1>0, <1>16 DEF Join, Queued, n
    <2>3. \A p \in 1..m : queue[p] # c /\ since'[queue[p]] = since[queue[p]]
        BY <1>1, <1>2, <2>2
    <2>4. \A k \in n + 1 .. n : FALSE
        BY <1>1
    <2> HIDE DEF m
    <2>5. ASSUME NEW p \in 1..m + 1
          PROVE  /\ since'[queue'[p]] <= n
                 /\ \A k \in since'[queue'[p]] + 1 .. n :
                       /\ sent[k].by # owner
                       /\ \A q \in 1..p - 1 : queue'[q] # sent[k].by
        <3>1. CASE p = m + 1
            BY <1>1, <2>1, <2>2, <2>4, <3>1
        <3>2. CASE p # m + 1
            <4>1. p \in 1..m /\ \A q \in 1..p - 1 : q \in 1..m
                BY <1>1, <3>2 DEF m
            <4> QED BY <1>3, <2>1, <2>3, <4>1 DEF m
        <3> QED BY <3>1, <3>2
    <2>6. BehindInv'
        BY <2>1, <2>2, <2>5 DEF BehindInv, n
    <2>7. ASSUME NEW e \in Callers, pc'[e] = "queued"
          PROVE  \A j, k \in since'[e] + 1 .. n : sent[j].by = sent[k].by => j = k
        <3>1. CASE e = c
            BY <2>2, <2>4, <3>1
        <3>2. CASE e # c
            BY <1>4, <2>2, <2>7, <3>2
        <3> QED BY <3>1, <3>2
    <2>8. BoundedOvertaking'
        BY <2>2, <2>7 DEF BoundedOvertaking, n
    <2> QED BY <2>6, <2>8
<1> QED
    BY StepCases, <1>7, <1>8, <1>9, <1>13, <1>14, <1>15, <1>16

-----------------------------------------------------------------------------
LEMMA NextInv == LimiterInv /\ [HistoryNext]_hlvars => LimiterInv'
BY TypeStep, LockStep, SpacingStep, OvertakingStep DEF LimiterInv, LockInv

(* Type correctness of acquire()'s state. *)
THEOREM LimiterTypeCorrect == HistorySafe => []HistoryTypeOK
<1>1. LimiterInv => HistoryTypeOK
    BY DEF LimiterInv, LockInv
<1> QED
    BY InitInv, NextInv, <1>1, PTL DEF HistorySafe

(* Any number of callers, with any cancellations, keep the configured rate:  *)
(* client.py:52-59 stamps _last under the lock, after the sleep.             *)
THEOREM LimiterKeepsRate == HistorySafe => []Spacing
<1>1. LimiterInv => Spacing
    BY DEF LimiterInv, LockInv
<1> QED
    BY InitInv, NextInv, <1>1, PTL DEF HistorySafe

(* The lock of client.py:50 is held across a sleep and at no other await. *)
THEOREM LimiterLockDiscipline == HistorySafe => []LockDiscipline
<1>1. LimiterInv => LockDiscipline
    BY DEF LimiterInv, LockInv
<1> QED
    BY InitInv, NextInv, <1>1, PTL DEF HistorySafe

(* A caller that waits for the lock is overtaken at most once by each other  *)
(* caller, whatever the others ask for meanwhile.                            *)
THEOREM LimiterIsFair == HistorySafe => []BoundedOvertaking
<1>1. LimiterInv => BoundedOvertaking
    BY DEF LimiterInv, LockInv
<1> QED
    BY InitInv, NextInv, <1>1, PTL DEF HistorySafe
=============================================================================
