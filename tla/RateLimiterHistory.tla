------------------------- MODULE RateLimiterHistory -------------------------
(* RateLimiter with what its promises speak of: the grants given so far.     *)
EXTENDS RateLimiter

CONSTANT MaxGrants  \* bound: no new acquire() once this many were granted

ASSUME MaxGrantsAssumption == MaxGrants \in Nat

VARIABLES
    sent,   \* the grants, in order, each [at |-> time, by |-> caller]
    since   \* how many grants there were when a caller joined the queue

hlvars == <<lvars, sent, since>>

Grant == [at : Nat, by : Callers]

HistoryTypeOK ==
    /\ LimiterTypeOK
    /\ sent \in Seq(Grant)
    /\ since \in [Callers -> Nat]

HistoryInit ==
    /\ LimiterInit
    /\ sent = <<>>
    /\ since = [c \in Callers |-> 0]

Run(c) ==
    /\ \/ Len(sent) < MaxGrants /\ Acquire(c)
       \/ Woken(c)
       \/ SleepDone(c)
    /\ sent' = IF Granted(c) THEN Append(sent, [at |-> now, by |-> c]) ELSE sent
    /\ since' = [since EXCEPT ![c] = IF pc'[c] = "queued" THEN Len(sent) ELSE 0]

GiveUp(c) == Cancel(c) /\ sent' = sent /\ since' = [since EXCEPT ![c] = 0]

Idle == Tick /\ UNCHANGED <<sent, since>>

(* Every call has returned and the bounds are used up. *)
Finished ==
    /\ \A c \in Callers : pc[c] = "out"
    /\ Len(sent) >= MaxGrants /\ now >= Horizon
    /\ UNCHANGED hlvars

HistoryNext ==
    \/ \E c \in Callers : Run(c) \/ GiveUp(c)
    \/ Idle
    \/ Finished

HistorySafe == HistoryInit /\ [][HistoryNext]_hlvars
HistorySpec == HistorySafe /\ LimiterFairness

-----------------------------------------------------------------------------
(* The rate an upstream sees: grants j - i places apart are at least         *)
(* (j - i) intervals apart, however the callers interleave, oversleep or are *)
(* cancelled.  N intervals make a minute, so a half-open minute never sees   *)
(* more than N grants under a quota of N per minute (client.py:44-59).       *)
Spacing ==
    \A i, j \in 1..Len(sent) :
        i < j => sent[j].at >= sent[i].at + (j - i) * interval

(* No starvation by busy callers: while c waits for the lock, every other    *)
(* caller is granted at most once, for the call it was in when c arrived.    *)
(* What it asks for next, as a retry does, comes behind c.                   *)
BoundedOvertaking ==
    \A c \in Callers :
        pc[c] = "queued" =>
            \A j, k \in since[c] + 1 .. Len(sent) : sent[j].by = sent[k].by => j = k
=============================================================================
