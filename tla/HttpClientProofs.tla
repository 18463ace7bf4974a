--------------------------- MODULE HttpClientProofs --------------------------
(* The safety of HttpClient and its refinement of UpstreamCall, for any      *)
(* number of callers, keys and retries, any backoff, Ttl and rate.           *)
EXTENDS HttpClient, LimiterLockProofs, FiniteSetTheorems

(* How many attempts of a log leave in doubt whether they were carried out.  *)
DoubtsIn(s) == Cardinality({i \in 1..Len(s) : s[i] # "429"})

(* Whether a request may be open or carried out that no doubt of the log     *)
(* stands for: the one under way unless it was refused, or the last.         *)
Share(c) ==
    IF \/ verdict[c] \in {"data", "JSONDecode"} \/ phase[c] = "left"
       \/ phase[c] = "inflight" /\ reply[c] \notin {"429", "fatal"}
    THEN 1 ELSE 0

(* A caller's attempts and what became of them: every attempt but the one    *)
(* under way is in the log, and the requests that were carried out or still  *)
(* may be are at most one for every doubt of the log, and the Share.         *)
CallerInv(c) ==
    LET n == Len(log[c]) IN
    /\ phase[c] = "idle" => tries[c] = 0 /\ log[c] = <<>> /\ open[c] = 0 /\ applied[c] = 0
    /\ phase[c] # "idle" => request[c] \in Request
    /\ phase[c] \in {"limiter", "inflight"} => tries[c] = n + 1
    /\ phase[c] = "backoff" => tries[c] = n /\ n <= MaxRetries
    /\ phase[c] # "done" => verdict[c] = "none"
    /\ phase[c] = "done" =>
           IF verdict[c] \in {"RateLimited", "Upstream", "NetworkFailure"}
           THEN n = MaxRetries + 1 /\ verdict[c] = Exhausted(log[c][n])
           ELSE n <= MaxRetries
    /\ reply[c] # "none" => phase[c] = "inflight"
    /\ reply[c] \in {"ok", "garbled"} => applied[c] > 0
    /\ Waiting(c) => open[c] > 0
    /\ applied[c] + open[c] <= DoubtsIn(log[c]) + Share(c)

(* An entry of the cache is good for Ttl from when it was received. *)
CacheInv == \A k \in Keys : cache[k] # None => cache[k].expires = cache[k].got + Ttl

HttpInv ==
    /\ LockInv
    /\ HttpTypeOK
    /\ \A c \in Callers : CallerInv(c)
    /\ CacheInv

-----------------------------------------------------------------------------
LEMMA DoubtsInNone == DoubtsIn(<<>>) = 0 /\ Len(<<>>) = 0
<1>1. {i \in 1..Len(<<>>) : <<>>[i] # "429"} = {}
    BY EmptySeq
<1> QED BY <1>1, FS_EmptySet, EmptySeq DEF DoubtsIn

(* Another failed attempt leaves one more doubt, unless it was a 429. *)
LEMMA DoubtsInMore ==
    ASSUME NEW s \in Seq(Retryable), NEW o \in Retryable
    PROVE  /\ DoubtsIn(s) \in Nat /\ Len(s) \in Nat /\ DoubtsIn(s) <= Len(s)
           /\ Append(s, o) \in Seq(Retryable) /\ Len(Append(s, o)) = Len(s) + 1
           /\ Append(s, o)[Len(s) + 1] = o
           /\ DoubtsIn(Append(s, o)) = DoubtsIn(s) + (IF o = "429" THEN 0 ELSE 1)
<1> DEFINE n == Len(s)
           D == {i \in 1..n : s[i] # "429"}
           t == Append(s, o)
           E == {i \in 1..n + 1 : t[i] # "429"}
<1>1. /\ n \in Nat /\ t \in Seq(Retryable) /\ Len(t) = n + 1 /\ t[n + 1] = o
      /\ \A i \in 1..n : t[i] = s[i]
    BY LenProperties, AppendProperties
<1>2. IsFiniteSet(1..n) /\ Cardinality(1..n) = n
    BY <1>1, FS_Interval
<1>3. IsFiniteSet(D) /\ Cardinality(D) <= n
    BY <1>2, FS_Subset
<1>4. Cardinality(D) \in Nat
    BY <1>3, FS_CardinalityType
<1>5. E = IF o = "429" THEN D ELSE D \cup {n + 1}
    BY <1>1
<1>6. n + 1 \notin D
    BY <1>1
<1> HIDE DEF D, t, E
<1>7. Cardinality(E) = Cardinality(D) + (IF o = "429" THEN 0 ELSE 1)
    <2>1. CASE o = "429"
        BY <1>4, <1>5, <2>1
    <2>2. CASE o # "429"
        <3>1. Cardinality(D \cup {n + 1}) = Cardinality(D) + 1
            BY <1>3, <1>6, FS_AddElement
        <3> QED BY <1>5, <2>2, <3>1
    <2> QED BY <2>1, <2>2
<1> QED
    BY <1>1, <1>3, <1>4, <1>7 DEF DoubtsIn, D, t, E

(* tenacity's backoff is a number, whatever the attempt. *)
LEMMA BackoffType == \A n \in Nat \ {0} : Backoff(n) \in Nat
<1>1. ASSUME NEW m \in Nat PROVE 2 ^ m \in Nat
    <2>1. IsFiniteSet(1..m) /\ Cardinality(1..m) = m
        BY FS_Interval
    <2>2. IsFiniteSet(SUBSET (1..m)) /\ Cardinality(SUBSET (1..m)) = 2 ^ m
        BY <2>1, FS_SUBSET
    <2> QED BY <2>2, FS_CardinalityType
<1>2. ASSUME NEW n \in Nat \ {0} PROVE Backoff(n) \in Nat
    <2> DEFINE p == 2 ^ (n - 1)
    <2>1. n - 1 \in Nat
        OBVIOUS
    <2>2. p \in Nat
        BY <1>1, <2>1
    <2> HIDE DEF p
    <2>3. BackoffBase * p \in Nat
        BY <2>2, HttpAssumption
    <2>4. Least(BackoffMax, BackoffBase * p) \in Nat
        BY <2>3, HttpAssumption DEF Least
    <2> QED BY <2>4 DEF p, Backoff
<1> QED BY <1>2

(* A step of c leaves the other callers where they are. *)
OthersOf(c) ==
    \A d \in Callers \ {c} :
        /\ phase'[d] = phase[d] /\ request'[d] = request[d] /\ tries'[d] = tries[d]
        /\ log'[d] = log[d] /\ due'[d] = due[d] /\ reply'[d] = reply[d]
        /\ open'[d] = open[d] /\ applied'[d] = applied[d] /\ verdict'[d] = verdict[d]

LEMMA OthersKeepInv ==
    ASSUME HttpInv, NEW c \in Callers, OthersOf(c), CallerInv(c)'
    PROVE  \A d \in Callers : CallerInv(d)'
<1>1. ASSUME NEW d \in Callers \ {c}
      PROVE  CallerInv(d)'
    BY <1>1 DEF HttpInv, OthersOf, CallerInv, Share, Waiting
<1> QED BY <1>1

(* What an attempt that begins does, once it got past the limiter or into it. *)
LEMMA AttemptStep ==
    ASSUME HttpInv, NEW c \in Callers, Acquire(c) \/ Woken(c) \/ SleepDone(c), AfterLimiter(c)
    PROVE  /\ LockInv' /\ now' = now
           /\ phase' = [phase EXCEPT ![c] = phase'[c]]
           /\ open' = [open EXCEPT ![c] = open'[c]] /\ open'[c] \in Nat
           /\ \/ phase'[c] = "limiter" /\ open'[c] = open[c]
              \/ /\ phase'[c] = "inflight" /\ open'[c] = open[c] + 1
                 /\ interval > 0 => last' = now /\ now >= last + interval
<1>1. /\ LockInv /\ phase \in [Callers -> Phases] /\ open \in [Callers -> Nat]
      /\ pc \in [Callers -> {"out", "queued", "sleeping"}]
    BY DEF HttpInv, HttpTypeOK, LockInv, LimiterTypeOK
<1>2. Free(c) \/ Stamped(c) \/ Slept(c) \/ Queued(c)
    BY <1>1, GoingOn
<1>3. LockInv' /\ now' = now
    BY <1>1, <1>2, LockInvStep DEF LimiterStepOf, Free, Stamped, Slept, Queued, lvars
<1>4. /\ phase' = [phase EXCEPT ![c] = phase'[c]]
      /\ open' = [open EXCEPT ![c] = open'[c]] /\ open'[c] \in Nat
      /\ \/ pc'[c] = "out" /\ phase'[c] = "inflight" /\ open'[c] = open[c] + 1
         \/ pc'[c] # "out" /\ phase'[c] = "limiter" /\ open'[c] = open[c]
    BY <1>1 DEF AfterLimiter, Leaves, Granted
<1>5. pc'[c] = "out" /\ interval > 0 => last' = now /\ now >= last + interval
    BY <1>1, <1>2 DEF Free, Stamped, Slept, Queued
<1> QED BY <1>3, <1>4, <1>5
LEMMA LimiterAtRest ==
    ASSUME HttpInv, UNCHANGED lvars
    PROVE  LockInv'
<1>1. LockInv /\ Passes
    BY DEF HttpInv, LockInv, LimiterTypeOK, Passes, lvars
<1> QED BY <1>1, LockInvPasses

(* The counts of a call are numbers. *)
LEMMA CountsAreNumbers ==
    ASSUME HttpInv, NEW c \in Callers
    PROVE  /\ open[c] \in Nat /\ applied[c] \in Nat /\ log[c] \in Seq(Retryable)
           /\ DoubtsIn(log[c]) \in Nat /\ Len(log[c]) \in Nat /\ DoubtsIn(log[c]) <= Len(log[c])
BY DoubtsInMore DEF HttpInv, HttpTypeOK, Retryable

-----------------------------------------------------------------------------
LEMMA CallKeepsInv ==
    ASSUME HttpInv, NEW c \in Callers, NEW r \in Request, Call(c, r)
    PROVE  HttpInv'
<1>0. HttpTypeOK /\ CallerInv(c) /\ CacheInv
    BY DEF HttpInv
<1>1. /\ phase[c] = "idle"
      /\ request' = [request EXCEPT ![c] = r]
      /\ UNCHANGED <<log, due, reply, applied, cache>>
    BY DEF Call
<1>2. \/ /\ phase' = [phase EXCEPT ![c] = "done"] /\ UNCHANGED <<tries, open>>
         /\ verdict' = [verdict EXCEPT ![c] = "data"] /\ LockInv'
      \/ /\ phase' = [phase EXCEPT ![c] = phase'[c]]
         /\ open' = [open EXCEPT ![c] = open'[c]] /\ open'[c] \in Nat
         /\ \/ phase'[c] = "limiter" /\ open'[c] = open[c]
            \/ phase'[c] = "inflight" /\ open'[c] = open[c] + 1
         /\ tries' = [tries EXCEPT ![c] = @ + 1] /\ UNCHANGED verdict /\ LockInv'
    <2>1. CASE Hit(r) /\ phase' = [phase EXCEPT ![c] = "done"] /\ UNCHANGED <<lvars, tries, open>>
               /\ verdict' = [verdict EXCEPT ![c] = "data"]
        BY <2>1, LimiterAtRest
    <2>2. CASE Attempt(c) /\ UNCHANGED verdict
        BY <2>2, AttemptStep DEF Attempt
    <2> QED BY <2>1, <2>2 DEF Call
<1>3. /\ tries[c] = 0 /\ log[c] = <<>> /\ open[c] = 0 /\ applied[c] = 0 /\ reply[c] = "none"
      /\ verdict[c] = "none"
      /\ Len(log[c]) = 0 /\ DoubtsIn(log[c]) = 0
    BY <1>0, <1>1, DoubtsInNone DEF CallerInv
<1>4. /\ tries' \in [Callers -> 0..MaxRetries + 1] /\ open' \in [Callers -> Nat]
      /\ \/ phase'[c] = "done" /\ verdict'[c] = "data" /\ open'[c] = 0
         \/ /\ tries'[c] = 1 /\ verdict'[c] = "none"
            /\ \/ phase'[c] = "limiter" /\ open'[c] = 0
               \/ phase'[c] = "inflight" /\ open'[c] = 1
    <2>1. open' \in [Callers -> Nat]
        BY <1>0, <1>2 DEF HttpTypeOK
    <2>2. tries' \in [Callers -> 0..MaxRetries + 1]
        <3>1. tries' = tries \/ tries' = [tries EXCEPT ![c] = 1]
            BY <1>2, <1>3
        <3>2. 1 \in 0..MaxRetries + 1
            BY HttpAssumption
        <3> QED BY <1>0, <3>1, <3>2 DEF HttpTypeOK
    <2>3. \/ phase'[c] = "done" /\ verdict'[c] = "data" /\ open'[c] = 0
          \/ /\ tries'[c] = 1 /\ verdict'[c] = "none"
             /\ \/ phase'[c] = "limiter" /\ open'[c] = 0
                \/ phase'[c] = "inflight" /\ open'[c] = 1
        BY <1>0, <1>2, <1>3 DEF HttpTypeOK
    <2> QED BY <2>1, <2>2, <2>3
<1>5. HttpTypeOK'
    <2>1. phase' \in [Callers -> Phases] /\ verdict' \in [Callers -> Verdicts]
        <3>1. phase \in [Callers -> Phases] /\ verdict \in [Callers -> Verdicts]
            BY <1>0 DEF HttpTypeOK
        <3>2. \E x \in Phases : phase' = [phase EXCEPT ![c] = x]
            BY <1>2 DEF Phases
        <3>3. verdict' = verdict \/ verdict' = [verdict EXCEPT ![c] = "data"]
            BY <1>2
        <3> QED BY <3>1, <3>2, <3>3 DEF Verdicts
    <2>2. request' \in [Callers -> Request \cup {None}]
        BY <1>0, <1>1 DEF HttpTypeOK
    <2> QED BY <1>0, <1>1, <1>4, <2>1, <2>2 DEF HttpTypeOK
<1>6. OthersOf(c)
    BY <1>0, <1>1, <1>2 DEF OthersOf, HttpTypeOK
<1>7. CallerInv(c)'
    <2>1. /\ log'[c] = log[c] /\ applied'[c] = 0 /\ reply'[c] = "none"
          /\ request'[c] \in Request
        BY <1>0, <1>1, <1>3 DEF HttpTypeOK
    <2> QED BY <1>3, <1>4, <2>1, HttpAssumption DEF CallerInv, Share, Waiting
<1> QED
    BY <1>0, <1>1, <1>2, <1>5, <1>6, <1>7, OthersKeepInv DEF HttpInv, CacheInv

LEMMA LimiterStepKeepsInv ==
    ASSUME HttpInv, NEW c \in Callers, LimiterStep(c)
    PROVE  HttpInv'
<1>0. HttpTypeOK /\ CallerInv(c) /\ CacheInv
    BY DEF HttpInv
<1>1. /\ phase[c] = "limiter" /\ LockInv'
      /\ phase' = [phase EXCEPT ![c] = phase'[c]]
      /\ open' = [open EXCEPT ![c] = open'[c]] /\ open'[c] \in Nat
      /\ \/ phase'[c] = "limiter" /\ open'[c] = open[c]
         \/ phase'[c] = "inflight" /\ open'[c] = open[c] + 1
      /\ UNCHANGED <<request, tries, log, due, reply, applied, verdict, cache>>
    BY AttemptStep DEF LimiterStep
<1>2. HttpTypeOK'
    BY <1>0, <1>1 DEF HttpTypeOK, Phases
<1>3. OthersOf(c)
    BY <1>0, <1>1 DEF OthersOf, HttpTypeOK
<1>4. CallerInv(c)'
    BY <1>0, <1>1, CountsAreNumbers DEF CallerInv, HttpTypeOK, Share, Waiting
<1> QED
    BY <1>0, <1>1, <1>2, <1>3, <1>4, OthersKeepInv DEF HttpInv, CacheInv

LEMMA RetryKeepsInv ==
    ASSUME HttpInv, NEW c \in Callers, Retry(c)
    PROVE  HttpInv'
<1>0. HttpTypeOK /\ CallerInv(c) /\ CacheInv
    BY DEF HttpInv
<1>1. /\ phase[c] = "backoff" /\ LockInv'
      /\ phase' = [phase EXCEPT ![c] = phase'[c]]
      /\ open' = [open EXCEPT ![c] = open'[c]] /\ open'[c] \in Nat
      /\ \/ phase'[c] = "limiter" /\ open'[c] = open[c]
         \/ phase'[c] = "inflight" /\ open'[c] = open[c] + 1
      /\ tries' = [tries EXCEPT ![c] = @ + 1] /\ due' = [due EXCEPT ![c] = 0]
      /\ UNCHANGED <<request, log, reply, applied, verdict, cache>>
    BY AttemptStep DEF Retry, Attempt
<1>2. tries[c] = Len(log[c]) /\ tries[c] <= MaxRetries /\ tries[c] \in Nat
    BY <1>0, <1>1 DEF CallerInv, HttpTypeOK
<1>3. HttpTypeOK'
    <2>1. tries' \in [Callers -> 0..MaxRetries + 1]
        <3>1. tries[c] + 1 \in 0..MaxRetries + 1
            BY <1>2, HttpAssumption
        <3> QED BY <1>0, <1>1, <3>1 DEF HttpTypeOK
    <2> QED BY <1>0, <1>1, <2>1 DEF HttpTypeOK, Phases
<1>4. OthersOf(c)
    BY <1>0, <1>1 DEF OthersOf, HttpTypeOK
<1>5. CallerInv(c)'
    BY <1>0, <1>1, <1>2, CountsAreNumbers DEF CallerInv, HttpTypeOK, Share, Waiting
<1> QED
    BY <1>0, <1>1, <1>3, <1>4, <1>5, OthersKeepInv DEF HttpInv, CacheInv

LEMMA ServeKeepsInv ==
    ASSUME HttpInv, NEW c \in Callers, NEW s \in Status, Serve(c, s)
    PROVE  HttpInv'
<1>0. HttpTypeOK /\ CallerInv(c) /\ CacheInv
    BY DEF HttpInv
<1>1. /\ phase[c] = "inflight" /\ reply[c] = "none" /\ open[c] > 0
      /\ reply' = [reply EXCEPT ![c] = s]
      /\ UNCHANGED <<lvars, phase, request, tries, log, due, verdict, cache>>
    BY <1>0 DEF Serve, Waiting, CallerInv
<1>2. /\ open' \in [Callers -> Nat] /\ applied' \in [Callers -> Nat]
      /\ open' = [open EXCEPT ![c] = open'[c]] /\ applied' = [applied EXCEPT ![c] = applied'[c]]
      /\ \/ /\ s \in {"ok", "garbled", "5xx"}
            /\ applied'[c] = applied[c] + 1 /\ open'[c] = open[c] - 1
         \/ /\ s \in {"429", "fatal"}
            /\ applied'[c] = applied[c] /\ open'[c] = open[c] - 1
         \/ s = "5xx" /\ applied'[c] = applied[c] /\ open'[c] = open[c]
    <2>1. open[c] - 1 \in Nat /\ applied[c] + 1 \in Nat /\ applied[c] + 0 = applied[c]
        BY <1>1, CountsAreNumbers
    <2>2. open \in [Callers -> Nat] /\ applied \in [Callers -> Nat]
        BY <1>0 DEF HttpTypeOK
    <2>3. CASE s \in {"ok", "garbled", "5xx"} /\ Handle(c, 1, 1)
        BY <2>1, <2>2, <2>3 DEF Handle
    <2>4. CASE s \in {"429", "fatal"} /\ Handle(c, 0, 1)
        BY <2>1, <2>2, <2>4 DEF Handle
    <2>5. CASE s = "5xx" /\ UNCHANGED <<open, applied>>
        BY <2>2, <2>5
    <2> QED BY <2>3, <2>4, <2>5 DEF Serve
<1>3. HttpTypeOK'
    BY <1>0, <1>1, <1>2 DEF HttpTypeOK
<1>4. OthersOf(c)
    BY <1>0, <1>1, <1>2 DEF OthersOf, HttpTypeOK
<1>5. CallerInv(c)'
    <2>1. /\ phase'[c] = "inflight" /\ reply'[c] = s /\ s # "none" /\ verdict'[c] = "none"
          /\ log'[c] = log[c] /\ tries'[c] = tries[c] /\ request'[c] = request[c]
        BY <1>0, <1>1 DEF HttpTypeOK, CallerInv, Status
    <2>2. applied[c] + open[c] <= DoubtsIn(log[c]) + 1
        BY <1>0, <1>1, CountsAreNumbers DEF CallerInv, Share
    <2>3. applied'[c] + open'[c] <= DoubtsIn(log[c]) + (IF s \in {"429", "fatal"} THEN 0 ELSE 1)
        BY <1>1, <1>2, <2>2, CountsAreNumbers
    <2>4. Share(c)' = IF s \in {"429", "fatal"} THEN 0 ELSE 1
        BY <2>1 DEF Share
    <2>5. s \in {"ok", "garbled"} => applied'[c] > 0
        BY <1>2, CountsAreNumbers
    <2> QED BY <1>0, <1>1, <2>1, <2>3, <2>4, <2>5 DEF CallerInv, Waiting
<1> QED
    BY <1>0, <1>1, <1>3, <1>4, <1>5, LimiterAtRest, OthersKeepInv DEF HttpInv, CacheInv

LEMMA CarryOutLateKeepsInv ==
    ASSUME HttpInv, NEW c \in Callers, CarryOutLate(c)
    PROVE  HttpInv'
<1>0. HttpTypeOK /\ CallerInv(c) /\ CacheInv
    BY DEF HttpInv
<1>1. UNCHANGED <<lvars, phase, request, tries, log, due, reply, verdict, cache>>
    BY DEF CarryOutLate
<1>2. /\ open' \in [Callers -> Nat] /\ applied' \in [Callers -> Nat]
      /\ open' = [open EXCEPT ![c] = @ - 1] /\ applied' = [applied EXCEPT ![c] = @ + 1]
      /\ open'[c] = open[c] - 1 /\ applied'[c] = applied[c] + 1
      /\ open[c] > 0 /\ (Waiting(c) => open[c] > 1)
    <2>1. open[c] > 0 /\ (Waiting(c) => open[c] > 1)
        BY CountsAreNumbers DEF CarryOutLate
    <2>2. open[c] - 1 \in Nat /\ applied[c] + 1 \in Nat
        BY <2>1, CountsAreNumbers
    <2> QED BY <1>0, <2>1, <2>2 DEF CarryOutLate, Handle, HttpTypeOK
<1>3. HttpTypeOK'
    BY <1>0, <1>1, <1>2 DEF HttpTypeOK
<1>4. OthersOf(c)
    BY <1>0, <1>1, <1>2 DEF OthersOf, HttpTypeOK
<1>5. CallerInv(c)'
    <2>1. applied'[c] + open'[c] = applied[c] + open[c] /\ applied'[c] > 0
        <3>1. open[c] \in Nat /\ applied[c] \in Nat
            BY CountsAreNumbers
        <3>2. open'[c] = open[c] - 1 /\ applied'[c] = applied[c] + 1
            BY <1>2
        <3> QED BY <3>1, <3>2
    <2>2. Share(c)' = Share(c) /\ Waiting(c)' = Waiting(c)
        BY <1>1 DEF Share, Waiting
    <2>3. Waiting(c) => open'[c] > 0
        BY <1>2, CountsAreNumbers
    <2>4. phase[c] # "idle"
        BY <1>0, <1>2 DEF CallerInv
    <2> QED BY <1>0, <1>1, <2>1, <2>2, <2>3, <2>4 DEF CallerInv
<1> QED
    BY <1>0, <1>1, <1>3, <1>4, <1>5, LimiterAtRest, OthersKeepInv DEF HttpInv, CacheInv

(* The attempt under way failed: it goes to the log, and the caller backs    *)
(* off or is done.                                                           *)
LEMMA FailedKeepsInv ==
    ASSUME HttpInv, NEW c \in Callers, NEW outcome \in Retryable,
           phase[c] = "inflight", Failed(c, outcome),
           outcome = "429" => reply[c] = "429",
           reply' = [reply EXCEPT ![c] = "none"],
           UNCHANGED <<lvars, request, tries, open, applied>>
    PROVE  HttpInv'
<1> DEFINE n == Len(log[c])
           more == Append(log[c], outcome)
<1>0. HttpTypeOK /\ CallerInv(c) /\ CacheInv /\ now \in Nat
    BY DEF HttpInv, LockInv, LimiterTypeOK
<1>1. /\ DoubtsIn(log[c]) \in Nat /\ n \in Nat
      /\ more \in Seq(Retryable) /\ Len(more) = n + 1 /\ more[n + 1] = outcome
      /\ DoubtsIn(more) = DoubtsIn(log[c]) + (IF outcome = "429" THEN 0 ELSE 1)
    BY <1>0, DoubtsInMore DEF HttpTypeOK
<1> HIDE DEF n, more
<1>2. /\ tries[c] = n + 1 /\ tries[c] \in 1..MaxRetries + 1 /\ request[c] \in Request
      /\ applied[c] \in Nat /\ open[c] \in Nat /\ applied[c] + open[c] <= DoubtsIn(more)
      /\ verdict[c] = "none"
    BY <1>0, <1>1 DEF CallerInv, HttpTypeOK, Share, n
<1>3. /\ log' = [log EXCEPT ![c] = more] /\ UNCHANGED cache
      /\ \/ /\ phase' = [phase EXCEPT ![c] = "backoff"] /\ tries[c] <= MaxRetries
            /\ due' = [due EXCEPT ![c] = now + Backoff(tries[c])] /\ UNCHANGED verdict
         \/ /\ phase' = [phase EXCEPT ![c] = "done"] /\ tries[c] = MaxRetries + 1
            /\ verdict' = [verdict EXCEPT ![c] = Exhausted(outcome)] /\ UNCHANGED due
    BY <1>2, HttpAssumption DEF Failed, LastTry, Finish, more
<1>4. now + Backoff(tries[c]) \in Nat
    BY <1>0, <1>2, BackoffType
<1>5. Exhausted(outcome) \in {"RateLimited", "Upstream", "NetworkFailure"}
    BY DEF Exhausted, Retryable
<1>6. HttpTypeOK'
    <2>1. phase' \in [Callers -> Phases] /\ verdict' \in [Callers -> Verdicts]
        BY <1>0, <1>3, <1>5 DEF HttpTypeOK, Phases, Verdicts
    <2>2. due' \in [Callers -> Nat] /\ log' \in [Callers -> Seq(Retryable)]
        BY <1>0, <1>1, <1>3, <1>4 DEF HttpTypeOK
    <2>3. reply' \in [Callers -> Status \cup {"none"}]
        BY <1>0 DEF HttpTypeOK
    <2> QED BY <1>0, <1>3, <2>1, <2>2, <2>3 DEF HttpTypeOK
<1>7. OthersOf(c)
    BY <1>0, <1>3 DEF OthersOf, HttpTypeOK
<1>8. CallerInv(c)'
    <2>1. /\ log'[c] = more /\ applied'[c] = applied[c] /\ reply'[c] = "none"
          /\ open'[c] = open[c] /\ tries'[c] = n + 1 /\ request'[c] \in Request
        BY <1>0, <1>2, <1>3 DEF HttpTypeOK
    <2>2. CASE phase'[c] = "backoff" /\ n + 1 <= MaxRetries /\ verdict'[c] = "none"
        BY <1>1, <1>2, <2>1, <2>2 DEF CallerInv, Share, Waiting
    <2>3. CASE phase'[c] = "done" /\ n + 1 = MaxRetries + 1 /\ verdict'[c] = Exhausted(outcome)
        BY <1>1, <1>2, <1>5, <2>1, <2>3 DEF CallerInv, Share, Waiting
    <2> QED BY <1>0, <1>2, <1>3, <2>2, <2>3 DEF HttpTypeOK
<1> QED
    BY <1>0, <1>3, <1>6, <1>7, <1>8, LimiterAtRest, OthersKeepInv DEF HttpInv, CacheInv
(* The attempt under way is the last: its answer is handed on. *)
LEMMA AnsweredKeepsInv ==
    ASSUME HttpInv, NEW c \in Callers, NEW v \in {"data", "JSONDecode", "ClientOrServer"},
           phase[c] = "inflight", Finish(c, v), v = "ClientOrServer" => reply[c] = "fatal",
           reply' = [reply EXCEPT ![c] = "none"],
           UNCHANGED <<lvars, request, tries, open, applied, log, due>>,
           cache' \in [Keys -> Entry \cup {None}], CacheInv'
    PROVE  HttpInv'
<1>0. HttpTypeOK /\ CallerInv(c) /\ log[c] \in Seq(Retryable)
    BY DEF HttpInv, HttpTypeOK
<1>1. /\ phase' = [phase EXCEPT ![c] = "done"] /\ verdict' = [verdict EXCEPT ![c] = v]
      /\ tries[c] = Len(log[c]) + 1 /\ tries[c] \in 0..MaxRetries + 1
    BY <1>0 DEF Finish, CallerInv, HttpTypeOK
<1>2. HttpTypeOK'
    BY <1>0, <1>1 DEF HttpTypeOK, Phases, Verdicts
<1>3. OthersOf(c)
    BY <1>0, <1>1 DEF OthersOf, HttpTypeOK
<1>4. CallerInv(c)'
    <2>1. /\ log'[c] = log[c] /\ applied'[c] = applied[c] /\ open'[c] = open[c]
          /\ reply'[c] = "none" /\ request'[c] = request[c]
          /\ phase'[c] = "done" /\ verdict'[c] = v
        BY <1>0, <1>1 DEF HttpTypeOK
    <2>2. applied[c] + open[c] <= DoubtsIn(log[c]) + (IF v = "ClientOrServer" THEN 0 ELSE 1)
        BY <1>0, CountsAreNumbers DEF CallerInv, Share
    <2>3. Share(c)' = IF v = "ClientOrServer" THEN 0 ELSE 1
        BY <2>1 DEF Share
    <2>4. Len(log[c]) \in Nat /\ Len(log[c]) <= MaxRetries
        BY <1>1, CountsAreNumbers, HttpAssumption
    <2> QED BY <1>0, <1>1, <2>1, <2>2, <2>3, <2>4 DEF CallerInv, Waiting
<1> QED
    BY <1>2, <1>3, <1>4, LimiterAtRest, OthersKeepInv DEF HttpInv

LEMMA ReceiveKeepsInv ==
    ASSUME HttpInv, NEW c \in Callers, Receive(c)
    PROVE  HttpInv'
<1>0. /\ phase[c] = "inflight" /\ reply' = [reply EXCEPT ![c] = "none"]
      /\ UNCHANGED <<lvars, request, tries, open, applied>>
      /\ HttpTypeOK /\ CallerInv(c) /\ CacheInv /\ now \in Nat
    BY DEF Receive, HttpInv, LockInv, LimiterTypeOK
<1>1. CASE reply[c] \in Retryable /\ Failed(c, reply[c])
    BY <1>0, <1>1, FailedKeepsInv
<1>2. ASSUME NEW v \in {"JSONDecode", "ClientOrServer"}, Refuse(c, v),
             v = "ClientOrServer" => reply[c] = "fatal"
      PROVE  HttpInv'
    BY <1>0, <1>2, AnsweredKeepsInv DEF Refuse, HttpTypeOK, CacheInv
<1>3. CASE reply[c] = "ok" /\ Accept(c)
    <2>1. Finish(c, "data") /\ UNCHANGED <<log, due>>
        BY <1>3 DEF Accept
    <2>2. cache' \in [Keys -> Entry \cup {None}] /\ CacheInv'
        <3>1. CASE request[c].cached /\ Ttl > 0
            <4> DEFINE e == [expires |-> now + Ttl, got |-> now]
            <4>1. request[c].key \in Keys
                BY <1>0, <3>1 DEF CallerInv, Request
            <4>2. cache' = [cache EXCEPT ![request[c].key] = e]
                BY <1>3, <3>1 DEF Accept
            <4>3. e \in Entry /\ e.expires = e.got + Ttl
                BY <1>0, HttpAssumption DEF Entry
            <4> HIDE DEF e
            <4> QED BY <1>0, <4>1, <4>2, <4>3 DEF HttpTypeOK, CacheInv
        <3>2. CASE ~(request[c].cached /\ Ttl > 0)
            <4>1. cache' = cache
                BY <1>3, <3>2 DEF Accept
            <4> QED BY <1>0, <4>1 DEF HttpTypeOK, CacheInv
        <3> QED BY <3>1, <3>2
    <2> QED BY <1>0, <2>1, <2>2, AnsweredKeepsInv
<1> QED BY <1>1, <1>2, <1>3 DEF Receive, Garbled

LEMMA LoseConnectionKeepsInv ==
    ASSUME HttpInv, NEW c \in Callers, LoseConnection(c)
    PROVE  HttpInv'
BY FailedKeepsInv DEF LoseConnection, Retryable

LEMMA AbandonKeepsInv ==
    ASSUME HttpInv, NEW c \in Callers, Abandon(c)
    PROVE  HttpInv'
<1>0. HttpTypeOK /\ CallerInv(c) /\ CacheInv /\ LockInv
    BY DEF HttpInv
<1>1. LockInv'
    <2>1. Cancel(c) \/ UNCHANGED lvars
        BY DEF Abandon, LeaveLimiter
    <2> QED BY <1>0, <2>1, GivingUp, LockInvStep, LimiterAtRest DEF LimiterStepOf
<1>2. /\ phase[c] \notin {"idle", "done"} /\ phase' = [phase EXCEPT ![c] = "left"]
      /\ reply' = [reply EXCEPT ![c] = "none"]
      /\ UNCHANGED <<request, tries, log, due, open, applied, verdict, cache>>
    BY DEF Abandon
<1>3. HttpTypeOK'
    BY <1>0, <1>2 DEF HttpTypeOK, Phases
<1>4. OthersOf(c)
    BY <1>0, <1>2 DEF OthersOf, HttpTypeOK
<1>5. CallerInv(c)'
    <2>1. phase'[c] = "left" /\ reply'[c] = "none"
        BY <1>0, <1>2 DEF HttpTypeOK
    <2>2. applied[c] + open[c] <= DoubtsIn(log[c]) + 1 /\ Share(c)' = 1
        BY <1>0, <2>1, CountsAreNumbers DEF CallerInv, Share
    <2> QED BY <1>0, <1>2, <2>1, <2>2 DEF CallerInv, Waiting
<1> QED
    BY <1>0, <1>1, <1>2, <1>3, <1>4, <1>5, OthersKeepInv DEF HttpInv, CacheInv

-----------------------------------------------------------------------------
LEMMA HttpInvInit == HttpInit => HttpInv
<1> SUFFICES ASSUME HttpInit PROVE HttpInv
    OBVIOUS
<1>1. LockInv
    BY LockInvInit DEF HttpInit
<1>2. HttpTypeOK
    BY EmptySeq, HttpAssumption DEF HttpInit, HttpTypeOK, Phases, Verdicts, Status
<1>3. ASSUME NEW c \in Callers PROVE CallerInv(c)
    BY DoubtsInNone DEF HttpInit, CallerInv, Share, Waiting
<1> QED BY <1>1, <1>2, <1>3 DEF HttpInv, HttpInit, CacheInv

LEMMA HttpInvNext == HttpInv /\ [HttpNext]_vars => HttpInv'
<1> SUFFICES ASSUME HttpInv, [HttpNext]_vars PROVE HttpInv'
    OBVIOUS
<1>1. CASE Clock \/ AllDone \/ UNCHANGED vars
    <2>1. Passes /\ UNCHANGED hvars
        BY <1>1 DEF Clock, AllDone, vars, lvars, Passes, HttpInv, LockInv, LimiterTypeOK
    <2>2. LockInv'
        BY <2>1, LockInvPasses DEF HttpInv
    <2> QED BY <2>1, <2>2 DEF hvars, HttpInv, HttpTypeOK, CallerInv, CacheInv, Share, Waiting
<1> QED
    BY <1>1, CallKeepsInv, LimiterStepKeepsInv, ServeKeepsInv, ReceiveKeepsInv,
       CarryOutLateKeepsInv, LoseConnectionKeepsInv, RetryKeepsInv, AbandonKeepsInv DEF HttpNext

LEMMA HttpInvHolds == HttpSafe => []HttpInv
BY HttpInvInit, HttpInvNext, PTL DEF HttpSafe

(* Every variable of the client and of its limiter keeps its type, and the   *)
(* limiter's lock its discipline, whatever is cancelled where.               *)
THEOREM HttpTypeCorrect == HttpSafe => [](HttpTypeOK /\ LimiterTypeOK /\ LockDiscipline)
<1>1. HttpInv => HttpTypeOK /\ LimiterTypeOK /\ LockDiscipline
    BY DEF HttpInv, LockInv
<1> QED BY <1>1, HttpInvHolds, PTL

(* RateLimitedError, UpstreamError and NetworkError are raised after exactly *)
(* max_retries + 1 failed attempts, and tell the last of them.               *)
THEOREM VerdictsTellTheLastAttempt == HttpSafe => []VerdictFromLastAttempt
<1>1. HttpInv => VerdictFromLastAttempt
    <2> SUFFICES ASSUME HttpInv, NEW c \in Callers, phase[c] = "done"
                 PROVE  LET n == Len(log[c])
                            v == verdict[c]
                            final == [RateLimited |-> "429", Upstream |-> "5xx",
                                      NetworkFailure |-> "network"]
                        IN IF v \in DOMAIN final
                           THEN n = MaxRetries + 1 /\ log[c][n] = final[v]
                           ELSE n <= MaxRetries
        BY DEF VerdictFromLastAttempt
    <2> DEFINE n == Len(log[c])
               final == [RateLimited |-> "429", Upstream |-> "5xx",
                         NetworkFailure |-> "network"]
    <2>1. DOMAIN final = {"RateLimited", "Upstream", "NetworkFailure"}
        OBVIOUS
    <2>2. IF verdict[c] \in {"RateLimited", "Upstream", "NetworkFailure"}
          THEN n = MaxRetries + 1 /\ verdict[c] = Exhausted(log[c][n])
          ELSE n <= MaxRetries
        BY DEF HttpInv, CallerInv
    <2>3. ASSUME NEW o \in Retryable, verdict[c] = Exhausted(o)
          PROVE  o = final[verdict[c]]
        BY <2>3 DEF Exhausted, Retryable
    <2>4. n = MaxRetries + 1 => log[c][n] \in Retryable
        BY HttpAssumption, ElementOfSeq DEF HttpInv, HttpTypeOK
    <2> HIDE DEF n, final
    <2>5. IF verdict[c] \in DOMAIN final
          THEN n = MaxRetries + 1 /\ log[c][n] = final[verdict[c]]
          ELSE n <= MaxRetries
        BY <2>1, <2>2, <2>3, <2>4
    <2> QED BY <2>5 DEF n, final
<1> QED BY <1>1, HttpInvHolds, PTL

(* A request is carried out again, in time or late, only after an attempt    *)
(* that was lost or ended in a 5xx.                                          *)
THEOREM DuplicatesNeedDoubt == HttpSafe => []DuplicatesOnlyAfterDoubt
<1>1. HttpInv => DuplicatesOnlyAfterDoubt
    <2> SUFFICES ASSUME HttpInv, NEW c \in Callers
                 PROVE  applied[c] + open[c] <= DoubtsIn(log[c])
                            + (IF \/ phase[c] \in {"inflight", "left"}
                                  \/ verdict[c] \in {"data", "JSONDecode"}
                               THEN 1 ELSE 0)
        BY DEF DuplicatesOnlyAfterDoubt, DoubtsIn
    <2> QED BY CountsAreNumbers DEF HttpInv, CallerInv, Share
<1> QED BY <1>1, HttpInvHolds, PTL
(* A step of one caller, and that the others do not notice it. *)
CallerStep(c) ==
    \/ \E r \in Request : Call(c, r)
    \/ LimiterStep(c)
    \/ \E s \in Status : Serve(c, s)
    \/ CarryOutLate(c)
    \/ Receive(c) \/ LoseConnection(c) \/ Retry(c) \/ Abandon(c)

LEMMA OthersStay ==
    ASSUME HttpInv, NEW c \in Callers, CallerStep(c)
    PROVE  OthersOf(c)
<1> USE DEF HttpInv, HttpTypeOK, OthersOf
<1>1. ASSUME NEW r \in Request, Call(c, r) PROVE OthersOf(c)
    BY <1>1 DEF Call, Attempt, AfterLimiter, Leaves
<1>2. CASE LimiterStep(c) \/ Retry(c)
    BY <1>2 DEF LimiterStep, Retry, Attempt, AfterLimiter, Leaves
<1>3. CASE CarryOutLate(c) \/ \E s \in Status : Serve(c, s)
    BY <1>3 DEF CarryOutLate, Serve, Handle
<1>4. CASE Receive(c)
    BY <1>4 DEF Receive, Failed, Refuse, Accept, Garbled, Finish
<1>5. CASE LoseConnection(c)
    BY <1>5 DEF LoseConnection, Failed, Finish
<1>6. CASE Abandon(c)
    BY <1>6 DEF Abandon
<1> QED BY <1>1, <1>2, <1>3, <1>4, <1>5, <1>6 DEF CallerStep

LEMMA WhoMoves ==
    ASSUME HttpInv, HttpNext, NEW c \in Callers, phase'[c] # phase[c]
    PROVE  CallerStep(c)
<1>1. ~(Clock \/ AllDone)
    BY DEF Clock, AllDone, vars, hvars
<1>2. PICK d \in Callers : CallerStep(d)
    BY <1>1 DEF HttpNext, CallerStep
<1> QED BY <1>2, OthersStay DEF OthersOf

(* The age of what a hit hands out, whoever stored it.                       *)
THEOREM HitsAreAlwaysFresh == HttpSafe => HitsAreFresh
<1>1. HttpInv /\ [HttpNext]_vars =>
        [\A c \in Callers :
            (phase[c] = "idle" /\ phase'[c] = "done") =>
                now < cache[request'[c].key].got + Ttl]_vars
    <2> SUFFICES ASSUME HttpInv, HttpNext, NEW c \in Callers,
                        phase[c] = "idle", phase'[c] = "done"
                 PROVE  now < cache[request'[c].key].got + Ttl
        OBVIOUS
    <2>0. phase \in [Callers -> Phases] /\ request \in [Callers -> Request \cup {None}]
        BY DEF HttpInv, HttpTypeOK
    <2>1. PICK r \in Request : Call(c, r)
        <3>1. CallerStep(c)
            BY WhoMoves
        <3> QED
            BY <3>1 DEF CallerStep, LimiterStep, Serve, Waiting, CarryOutLate, Receive,
                        LoseConnection, Retry, Abandon
    <2>2. Hit(r) /\ request'[c] = r
        <3>1. ~Attempt(c)
            BY <2>0 DEF Attempt, AfterLimiter, Leaves
        <3> QED BY <2>0, <2>1, <3>1 DEF Call
    <2>3. cache[r.key] \in Entry /\ cache[r.key].expires = cache[r.key].got + Ttl
        <3>1. r.key \in Keys
            BY <2>2 DEF Hit, Request
        <3> QED BY <2>2, <3>1 DEF Hit, HttpInv, HttpTypeOK, CacheInv
    <2> QED
        BY <2>2, <2>3, HttpAssumption DEF Hit, Entry, HttpInv, LockInv, LimiterTypeOK
<1> QED BY <1>1, HttpInvHolds, PTL DEF HttpSafe, HitsAreFresh

(* Retries are metered like first attempts: no request leaves but an         *)
(* interval after the one before.                                            *)
THEOREM RequestsAreAlwaysSpaced == HttpSafe => RequestsAreSpaced
<1>1. HttpInv /\ [HttpNext]_vars =>
        [\A c \in Callers :
            (interval > 0 /\ phase[c] # "inflight" /\ phase'[c] = "inflight") =>
                last' = now /\ now >= last + interval]_vars
    <2> SUFFICES ASSUME HttpInv, HttpNext, NEW c \in Callers,
                        interval > 0, phase[c] # "inflight", phase'[c] = "inflight"
                 PROVE  last' = now /\ now >= last + interval
        OBVIOUS
    <2>0. phase \in [Callers -> Phases]
        BY DEF HttpInv, HttpTypeOK
    <2>1. (\E r \in Request : Call(c, r)) \/ LimiterStep(c) \/ Retry(c)
        <3>1. CallerStep(c)
            BY WhoMoves
        <3> QED
            BY <2>0, <3>1
            DEF CallerStep, Serve, CarryOutLate, Receive, LoseConnection, Abandon
    <2>2. (Acquire(c) \/ Woken(c) \/ SleepDone(c)) /\ AfterLimiter(c)
        <3>1. ASSUME NEW r \in Request, Call(c, r)
              PROVE  Attempt(c)
            BY <2>0, <3>1 DEF Call
        <3> QED BY <2>1, <3>1 DEF Attempt, LimiterStep, Retry
    <2> QED BY <2>2, AttemptStep
<1> QED BY <1>1, HttpInvHolds, PTL DEF HttpSafe, RequestsAreSpaced
-----------------------------------------------------------------------------
(* The states of the calls, as UpstreamCall sees them. *)
StatesOfCalls == [c \in Callers |-> CallState(c)]

(* A step of a caller moves its own call only. *)
LEMMA MoveOfACall ==
    ASSUME HttpInv, NEW c \in Callers, CallerStep(c)
    PROVE  /\ StatesOfCalls[c] = CallState(c)
           /\ StatesOfCalls' = [StatesOfCalls EXCEPT ![c] = CallState(c)']
           /\ CallState(c)' = CallState(c) => StatesOfCalls' = StatesOfCalls
<1>1. OthersOf(c)
    BY OthersStay
<1>2. \A d \in Callers \ {c} : CallState(d)' = CallState(d)
    BY <1>1 DEF OthersOf, CallState
<1> QED BY <1>2 DEF StatesOfCalls

(* Before a request leaves there is room for it: every request of before is  *)
(* in the log, and there is an attempt left.                                 *)
LEMMA RoomForARequest ==
    ASSUME HttpInv, NEW c \in Callers, phase[c] \in {"idle", "limiter", "backoff"}
    PROVE  open[c] + applied[c] < MaxRetries + 1
<1>1. CallerInv(c) /\ tries[c] \in 0..MaxRetries + 1 /\ phase[c] \in Phases
    BY DEF HttpInv, HttpTypeOK
<1>2. CASE phase[c] = "idle"
    BY <1>1, <1>2, HttpAssumption DEF CallerInv
<1>3. CASE phase[c] # "idle"
    <2>1. applied[c] + open[c] <= DoubtsIn(log[c])
        <3>1. Share(c) = 0
            BY <1>1 DEF CallerInv, Share
        <3> QED BY <1>1, <3>1, CountsAreNumbers DEF CallerInv
    <2>2. Len(log[c]) <= MaxRetries
        BY <1>1, <1>3, CountsAreNumbers, HttpAssumption DEF CallerInv
    <2> QED BY <2>1, <2>2, CountsAreNumbers, HttpAssumption
<1> QED BY <1>2, <1>3

(* What a step of c is to UpstreamCall, given what became of its requests.   *)
LEMMA CallBegins ==
    ASSUME HttpInv, NEW c \in Callers, NEW r \in Request, Call(c, r)
    PROVE  Promise!Begin(c)
<1>0. phase \in [Callers -> Phases] /\ verdict \in [Callers -> Verdicts] /\ tries[c] = 0
      /\ phase[c] = "idle" /\ applied' = applied
    BY DEF HttpInv, HttpTypeOK, CallerInv, Call
<1>1. /\ StatesOfCalls[c] = CallState(c)
      /\ StatesOfCalls' = [StatesOfCalls EXCEPT ![c] = CallState(c)']
    BY MoveOfACall DEF CallerStep
<1>2. CallState(c) = "none"
    BY <1>0 DEF CallState
<1>3. CASE phase' = [phase EXCEPT ![c] = "done"] /\ verdict' = [verdict EXCEPT ![c] = "data"]
           /\ UNCHANGED <<lvars, tries, open>>
    <2>1. CallState(c)' = "cached" /\ open' = open
        BY <1>0, <1>3 DEF CallState
    <2>2. Promise!Move(c, "none", "cached")
        BY <1>1, <1>2, <2>1 DEF Promise!Move, StatesOfCalls
    <2> QED BY <1>0, <2>1, <2>2 DEF Promise!Begin
<1>4. CASE Attempt(c)
    <2>1. \/ phase' = [phase EXCEPT ![c] = "inflight"] /\ open' = [open EXCEPT ![c] = @ + 1]
          \/ phase' = [phase EXCEPT ![c] = "limiter"] /\ open' = open
        BY <1>4 DEF Attempt, AfterLimiter, Leaves
    <2>2. CallState(c)' = "calling"
        BY <1>0, <2>1 DEF CallState
    <2>3. Promise!Move(c, "none", "calling")
        BY <1>1, <1>2, <2>2 DEF Promise!Move, StatesOfCalls
    <2>4. Promise!Out(c) \/ open' = open
        BY <1>0, <2>1, RoomForARequest DEF Promise!Out
    <2> QED BY <1>0, <2>3, <2>4 DEF Promise!Begin
<1> QED BY <1>3, <1>4 DEF Call

(* Nothing, as far as UpstreamCall can see. *)
Unseen == StatesOfCalls' = StatesOfCalls /\ open' = open /\ applied' = applied

LEMMA AttemptSends ==
    ASSUME HttpInv, NEW c \in Callers, LimiterStep(c) \/ Retry(c)
    PROVE  Promise!Send(c) \/ Unseen
<1>0. phase \in [Callers -> Phases] /\ phase[c] \in {"limiter", "backoff"} /\ applied' = applied
    BY DEF HttpInv, HttpTypeOK, LimiterStep, Retry
<1>1. \/ phase' = [phase EXCEPT ![c] = "inflight"] /\ open' = [open EXCEPT ![c] = @ + 1]
      \/ phase' = [phase EXCEPT ![c] = "limiter"] /\ open' = open
    BY DEF LimiterStep, Retry, Attempt, AfterLimiter, Leaves
<1>2. CallState(c) = "calling" /\ CallState(c)' = "calling"
    BY <1>0, <1>1 DEF CallState
<1>3. StatesOfCalls[c] = CallState(c) /\ StatesOfCalls' = StatesOfCalls
    BY <1>2, MoveOfACall DEF CallerStep
<1>4. CASE open' = [open EXCEPT ![c] = @ + 1]
    <2>1. Promise!Out(c)
        BY <1>0, <1>4, RoomForARequest DEF Promise!Out
    <2> QED BY <1>0, <1>2, <1>3, <2>1 DEF Promise!Send, StatesOfCalls
<1>5. CASE open' = open
    BY <1>0, <1>3, <1>5 DEF Unseen
<1> QED BY <1>1, <1>4, <1>5

LEMMA UpstreamActs ==
    ASSUME HttpInv, NEW c \in Callers, CarryOutLate(c) \/ \E s \in Status : Serve(c, s)
    PROVE  Promise!CarryOut(c) \/ Promise!Refused(c) \/ Unseen
<1>1. open[c] > 0
    BY CountsAreNumbers DEF HttpInv, CallerInv, CarryOutLate, Serve
<1>2. UNCHANGED <<phase, verdict, tries>>
    BY DEF CarryOutLate, Serve
<1>3. StatesOfCalls' = StatesOfCalls
    <2>1. CallState(c)' = CallState(c)
        BY <1>2 DEF CallState
    <2> QED BY <2>1, MoveOfACall DEF CallerStep
<1>4. /\ open \in [Callers -> Nat] /\ applied \in [Callers -> Nat]
      /\ Handle(c, 1, 1) \/ Handle(c, 0, 1) \/ UNCHANGED <<open, applied>>
    BY DEF CarryOutLate, Serve, HttpInv, HttpTypeOK
<1>5. CASE Handle(c, 1, 1)
    BY <1>1, <1>3, <1>5 DEF Handle, Promise!CarryOut, StatesOfCalls
<1>6. CASE Handle(c, 0, 1)
    <2>1. applied' = applied
        <3>1. applied[c] + 0 = applied[c]
            BY CountsAreNumbers
        <3> QED BY <1>4, <1>6, <3>1 DEF Handle
    <2> QED BY <1>1, <1>3, <1>6, <2>1 DEF Handle, Promise!Refused, StatesOfCalls
<1>7. CASE UNCHANGED <<open, applied>>
    BY <1>3, <1>7 DEF Unseen
<1> QED BY <1>4, <1>5, <1>6, <1>7

LEMMA AttemptEnds ==
    ASSUME HttpInv, NEW c \in Callers, Receive(c) \/ LoseConnection(c)
    PROVE  Promise!Answer(c) \/ Promise!Fail(c) \/ Unseen
<1>0. /\ phase \in [Callers -> Phases] /\ verdict \in [Callers -> Verdicts]
      /\ phase[c] = "inflight" /\ UNCHANGED <<tries, open, applied>>
      /\ tries[c] # 0 /\ CallerInv(c)
    <2>1. CallerInv(c) /\ phase[c] = "inflight"
        BY DEF HttpInv, Receive, LoseConnection
    <2>2. tries[c] # 0
        BY <2>1, CountsAreNumbers DEF CallerInv
    <2> QED BY <2>1, <2>2 DEF HttpInv, HttpTypeOK, Receive, LoseConnection
<1>1. /\ CallState(c) = "calling" /\ StatesOfCalls[c] = CallState(c)
      /\ StatesOfCalls' = [StatesOfCalls EXCEPT ![c] = CallState(c)']
      /\ CallState(c)' = CallState(c) => StatesOfCalls' = StatesOfCalls
    BY <1>0, MoveOfACall DEF CallState, CallerStep
<1>2. CASE CallState(c)' = "calling"
    BY <1>0, <1>1, <1>2 DEF Unseen
<1>3. CASE CallState(c)' = "failed"
    <2>1. Promise!Move(c, "calling", "failed")
        BY <1>1, <1>3 DEF Promise!Move, StatesOfCalls
    <2> QED BY <1>0, <2>1 DEF Promise!Fail
<1>4. CASE CallState(c)' = "answered" /\ applied[c] > 0
    <2>1. Promise!Move(c, "calling", "answered")
        BY <1>1, <1>4 DEF Promise!Move, StatesOfCalls
    <2> QED BY <1>0, <1>4, <2>1 DEF Promise!Answer
<1>5. ASSUME NEW outcome \in Retryable, Failed(c, outcome)
      PROVE  CallState(c)' \in {"calling", "failed"}
    <2>1. \/ phase'[c] = "backoff"
          \/ phase'[c] = "done" /\ verdict'[c] = Exhausted(outcome)
        BY <1>0, <1>5 DEF Failed, Finish
    <2>2. Exhausted(outcome) \in {"RateLimited", "Upstream", "NetworkFailure"}
        BY DEF Exhausted, Retryable
    <2> QED BY <2>1, <2>2 DEF CallState
<1>6. ASSUME NEW v \in {"JSONDecode", "ClientOrServer"}, Refuse(c, v)
      PROVE  CallState(c)' = "failed"
    BY <1>0, <1>6 DEF Refuse, Finish, CallState
<1>7. ASSUME reply[c] = "ok", Accept(c)
      PROVE  CallState(c)' = "answered" /\ applied[c] > 0
    BY <1>0, <1>7 DEF Accept, Finish, CallState, CallerInv
<1>8. \/ \E o \in Retryable : Failed(c, o)
      \/ \E v \in {"JSONDecode", "ClientOrServer"} : Refuse(c, v)
      \/ reply[c] = "ok" /\ Accept(c)
    BY DEF Receive, LoseConnection, Garbled, Retryable
<1> QED BY <1>2, <1>3, <1>4, <1>5, <1>6, <1>7, <1>8

LEMMA CallerLeaves ==
    ASSUME HttpInv, NEW c \in Callers, Abandon(c)
    PROVE  Promise!Leave(c)
<1>1. /\ phase \in [Callers -> Phases] /\ phase[c] \in {"limiter", "inflight", "backoff"}
      /\ phase' = [phase EXCEPT ![c] = "left"] /\ UNCHANGED <<open, applied>>
    BY DEF HttpInv, HttpTypeOK, Abandon
<1>2. CallState(c) = "calling" /\ CallState(c)' = "left"
    BY <1>1 DEF CallState
<1>3. Promise!Move(c, "calling", "left")
    BY <1>2, MoveOfACall DEF CallerStep, Promise!Move, StatesOfCalls
<1> QED BY <1>1, <1>3 DEF Promise!Leave

(* request_json() keeps UpstreamCall's promise: at most max_retries + 1      *)
(* requests of a call are or will be carried out, none leaves when the call  *)
(* is over, only an executed call is answered (or one out of the cache), and *)
(* one that failed, a body that is no JSON included, may have been executed. *)
THEOREM HttpKeepsThePromise == HttpSafe => ImplementsUpstreamCall
<1>1. HttpInit => Promise!UInit
    BY DEF HttpInit, Promise!UInit, CallState
<1>2. HttpInv /\ [HttpNext]_vars => [Promise!UNext]_(Promise!uvars)
    <2> SUFFICES ASSUME HttpInv, [HttpNext]_vars
                 PROVE  Promise!UNext \/ Unseen
        BY DEF Promise!uvars, StatesOfCalls, Unseen
    <2>1. ASSUME NEW c \in Callers, CallerStep(c)
          PROVE  Promise!UNext \/ Unseen
        <3>1. \/ Promise!Begin(c) \/ Promise!Send(c) \/ Promise!CarryOut(c) \/ Promise!Refused(c)
              \/ Promise!Answer(c) \/ Promise!Fail(c) \/ Promise!Leave(c) \/ Unseen
            BY <2>1, CallBegins, AttemptSends, UpstreamActs, AttemptEnds, CallerLeaves DEF CallerStep
        <3> QED BY <3>1 DEF Promise!UNext
    <2>2. CASE Clock \/ AllDone \/ UNCHANGED vars
        <3>1. UNCHANGED <<phase, tries, verdict, open, applied>>
            BY <2>2 DEF Clock, AllDone, vars, hvars
        <3>2. \A c \in Callers : CallState(c)' = CallState(c)
            BY <3>1 DEF CallState
        <3> QED BY <3>1, <3>2 DEF StatesOfCalls, Unseen
    <2> QED BY <2>1, <2>2 DEF HttpNext, CallerStep
<1> QED
    BY <1>1, <1>2, HttpInvHolds, PTL
    DEF HttpSafe, ImplementsUpstreamCall, Promise!UpstreamCallSpec
=============================================================================
