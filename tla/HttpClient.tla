---------------------------- MODULE HttpClient -----------------------------
(* AsyncHttpClient.request_json of infra/http/client.py: tasks of one event  *)
(* loop call one client, which meters every attempt through its limiter      *)
(* (RateLimiter), retries transient failures with exponential backoff, and   *)
(* keeps a short-lived cache of the GETs that ask for it.  The upstream is   *)
(* the environment: it carries a request out or not, answers, or is never    *)
(* heard of again (connection lost, or httpx's timeout); what was given up   *)
(* it may still carry out, be the call long over.  Each caller makes one     *)
(* call: the next call of the same task is another caller, since a task has  *)
(* nothing in the client between two calls.                                  *)
EXTENDS RateLimiter, FiniteSets

CONSTANTS
    Keys,         \* cache keys: a path with its sorted parameters
    MaxRetries,   \* settings.max_retries
    BackoffBase,  \* settings.backoff_base, in clock units
    BackoffMax,   \* settings.backoff_max
    Ttl           \* settings.cache_ttl_seconds; 0: no cache

ASSUME HttpAssumption ==
    /\ MaxRetries \in Nat
    /\ BackoffBase \in Nat /\ BackoffMax \in Nat
    /\ Ttl \in Nat

(* What a call can be: a cached GET of a key, as the CoinGecko client makes, *)
(* or a request of any method without cache, as the Sui client makes.        *)
Request == [cached : {TRUE}, key : Keys] \cup [cached : {FALSE}]

VARIABLES
    phase,    \* where each caller is in request_json()
    request,  \* its method, path and parameters
    tries,    \* attempt_number of its current attempt
    log,      \* history: the outcomes of its failed attempts that were retried
              \* or exhausted the retries
    due,      \* when its backoff ends
    reply,    \* the response on its way to it
    open,     \* history: how many of its requests the upstream may yet carry out
    applied,  \* history: how often the upstream carried its call out
    verdict,  \* what request_json() returned or raised
    cache     \* _cache

hvars == <<phase, request, tries, log, due, reply, open, applied, verdict, cache>>
vars == <<lvars, hvars>>

Retryable == {"429", "5xx", "network"}
(* A 2xx whose body is not JSON is "garbled"; "fatal" is every other status: *)
(* response.raise_for_status() raises on it.                                 *)
Status == {"ok", "garbled", "429", "5xx", "fatal"}
None == [kind |-> "none"]
Entry == [expires : Nat, got : Nat]   \* got: history, when it was received
Verdicts == {"none", "data", "RateLimited", "Upstream", "NetworkFailure",
             "ClientOrServer", "JSONDecode"}

(* "done": it returned or raised; "left": its caller was cancelled. *)
Phases == {"idle", "limiter", "inflight", "backoff", "done", "left"}

HttpTypeOK ==
    /\ phase \in [Callers -> Phases]
    /\ request \in [Callers -> Request \cup {None}]
    /\ tries \in [Callers -> 0..MaxRetries + 1]
    /\ log \in [Callers -> Seq(Retryable)]
    /\ due \in [Callers -> Nat]
    /\ reply \in [Callers -> Status \cup {"none"}]
    /\ open \in [Callers -> Nat]
    /\ applied \in [Callers -> Nat]
    /\ verdict \in [Callers -> Verdicts]
    /\ cache \in [Keys -> Entry \cup {None}]

HttpInit ==
    /\ LimiterInit
    /\ phase = [c \in Callers |-> "idle"]
    /\ request = [c \in Callers |-> None]
    /\ tries = [c \in Callers |-> 0]
    /\ log = [c \in Callers |-> <<>>]
    /\ due = [c \in Callers |-> 0]
    /\ reply = [c \in Callers |-> "none"]
    /\ open = [c \in Callers |-> 0]
    /\ applied = [c \in Callers |-> 0]
    /\ verdict = [c \in Callers |-> "none"]
    /\ cache = [k \in Keys |-> None]

(* tenacity's wait_exponential after attempt n. *)
Least(a, b) == IF a < b THEN a ELSE b
Backoff(n) == Least(BackoffMax, BackoffBase * 2 ^ (n - 1))

(* Mutant: an entry is used whatever its age. *)
HitStale(r) == r.cached /\ Ttl > 0 /\ cache[r.key] # None

(* `cached and cached[0] > time.monotonic()` *)
Hit(r) == /\ r.cached /\ Ttl > 0
          /\ cache[r.key] # None /\ cache[r.key].expires > now

Leaves(c) ==
    /\ phase' = [phase EXCEPT ![c] = "inflight"]
    /\ open' = [open EXCEPT ![c] = @ + 1]

(* A caller in acquire() moves on: granted, it sends its request at once.    *)
AfterLimiter(c) ==
    \/ Granted(c) /\ Leaves(c)
    \/ ~Granted(c) /\ phase' = [phase EXCEPT ![c] = "limiter"] /\ UNCHANGED open

(* Mutant: only the first attempt asks the limiter. *)
AttemptUnmetered(c) ==
    IF tries[c] = 0
    THEN Acquire(c) /\ AfterLimiter(c) /\ tries' = [tries EXCEPT ![c] = 1]
    ELSE /\ Leaves(c)
         /\ tries' = [tries EXCEPT ![c] = @ + 1] /\ UNCHANGED lvars

(* _do() up to its first suspension. *)
Attempt(c) ==
    /\ Acquire(c)
    /\ AfterLimiter(c)
    /\ tries' = [tries EXCEPT ![c] = @ + 1]

(* request_json(): answered from the cache, or the first attempt. *)
Call(c, r) ==
    /\ phase[c] = "idle"
    /\ request' = [request EXCEPT ![c] = r]
    /\ \/ /\ Hit(r)
          /\ phase' = [phase EXCEPT ![c] = "done"]
          /\ verdict' = [verdict EXCEPT ![c] = "data"]
          /\ UNCHANGED <<lvars, tries, open>>
       \/ ~Hit(r) /\ Attempt(c) /\ UNCHANGED verdict
    /\ UNCHANGED <<log, due, reply, applied, cache>>

LimiterStep(c) ==
    /\ phase[c] = "limiter"
    /\ Woken(c) \/ SleepDone(c)
    /\ AfterLimiter(c)
    /\ UNCHANGED <<request, tries, log, due, reply, applied, verdict, cache>>

Waiting(c) == phase[c] = "inflight" /\ reply[c] = "none"

(* The upstream carries out n requests more and is done with m of those open. *)
Handle(c, n, m) ==
    /\ applied' = [applied EXCEPT ![c] = @ + n]
    /\ open' = [open EXCEPT ![c] = @ - m]

(* The upstream handles the request that is waited for, and answers.  It     *)
(* carried out what it answers with a 2xx, and did not with a 429 or an      *)
(* error that is not retried; behind a gateway's 502 or 504 the request was  *)
(* carried out, or still is open.                                            *)
Serve(c, s) ==
    /\ Waiting(c)
    /\ reply' = [reply EXCEPT ![c] = s]
    /\ \/ s \in {"ok", "garbled", "5xx"} /\ Handle(c, 1, 1)
       \/ s \in {"429", "fatal"} /\ Handle(c, 0, 1)
       \/ s = "5xx" /\ UNCHANGED <<open, applied>>
    /\ UNCHANGED <<lvars, phase, request, tries, log, due, verdict, cache>>

(* The upstream carries out a request nobody waits for any more: during the  *)
(* backoff, beside a later attempt, or after the call is over.               *)
CarryOutLate(c) ==
    /\ open[c] > IF Waiting(c) THEN 1 ELSE 0
    /\ Handle(c, 1, 1)
    /\ UNCHANGED <<lvars, phase, request, tries, log, due, reply, verdict, cache>>

Finish(c, v) ==
    /\ phase' = [phase EXCEPT ![c] = "done"]
    /\ verdict' = [verdict EXCEPT ![c] = v]

(* Mutant: a rate limit that outlasts the retries is not told apart. *)
ExhaustedBlind(outcome) == IF outcome = "network" THEN "NetworkFailure" ELSE "Upstream"

(* What _with_retry raises once stop_after_attempt stops it. *)
Exhausted(outcome) ==
    CASE outcome = "429"     -> "RateLimited"
      [] outcome = "5xx"     -> "Upstream"
      [] outcome = "network" -> "NetworkFailure"

(* Mutant: one attempt more than max_retries + 1. *)
LastTryLate(c) == tries[c] > MaxRetries + 1

(* stop_after_attempt(max_retries + 1) *)
LastTry(c) == tries[c] >= MaxRetries + 1

(* An attempt failed in a way worth retrying. *)
Failed(c, outcome) ==
    /\ log' = [log EXCEPT ![c] = Append(@, outcome)]
    /\ \/ /\ ~LastTry(c)
          /\ phase' = [phase EXCEPT ![c] = "backoff"]
          /\ due' = [due EXCEPT ![c] = now + Backoff(tries[c])]
          /\ UNCHANGED verdict
       \/ LastTry(c) /\ Finish(c, Exhausted(outcome)) /\ UNCHANGED due
    /\ UNCHANGED cache

(* response.json() and, for a cached GET, the store into the cache. *)
Accept(c) ==
    /\ Finish(c, "data")
    /\ cache' = IF request[c].cached /\ Ttl > 0
                THEN [cache EXCEPT ![request[c].key] =
                        [expires |-> now + Ttl, got |-> now]]
                ELSE cache
    /\ UNCHANGED <<log, due>>

Refuse(c, kind) ==
    /\ Finish(c, kind)
    /\ UNCHANGED <<log, due, cache>>

(* Mutant: a page that is not JSON is taken for a throttling page. *)
GarbledRetried(c) == Failed(c, "429")

(* A 2xx whose body response.json() cannot read. *)
Garbled(c) == Refuse(c, "JSONDecode")

(* The response arrives. *)
Receive(c) ==
    /\ phase[c] = "inflight" /\ reply[c] # "none"
    /\ LET s == reply[c] IN
          \/ s \in Retryable /\ Failed(c, s)
          \/ s = "fatal" /\ Refuse(c, "ClientOrServer")
          \/ s = "garbled" /\ Garbled(c)
          \/ s = "ok" /\ Accept(c)
    /\ reply' = [reply EXCEPT ![c] = "none"]
    /\ UNCHANGED <<lvars, request, tries, open, applied>>

(* The connection breaks, or httpx's timeout expires, before or after the    *)
(* upstream handled the request: one it has not handled stays open.          *)
LoseConnection(c) ==
    /\ phase[c] = "inflight"
    /\ Failed(c, "network")
    /\ reply' = [reply EXCEPT ![c] = "none"]
    /\ UNCHANGED <<lvars, request, tries, open, applied>>

(* The backoff has been slept out: the next attempt. *)
Retry(c) ==
    /\ phase[c] = "backoff" /\ now >= due[c]
    /\ Attempt(c)
    /\ due' = [due EXCEPT ![c] = 0]
    /\ UNCHANGED <<request, log, reply, applied, verdict, cache>>

(* Mutant: who is cancelled in the limiter keeps its place there. *)
LeaveLimiterNever(c) == UNCHANGED lvars

LeaveLimiter(c) == IF phase[c] = "limiter" THEN Cancel(c) ELSE UNCHANGED lvars

(* The calling task is cancelled at an await of request_json(): a request    *)
(* that is out stays open.                                                   *)
Abandon(c) ==
    /\ phase[c] \in {"limiter", "inflight", "backoff"}
    /\ phase' = [phase EXCEPT ![c] = "left"]
    /\ reply' = [reply EXCEPT ![c] = "none"]
    /\ LeaveLimiter(c)
    /\ UNCHANGED <<request, tries, log, due, open, applied, verdict, cache>>

(* The clock, bounded by Horizon unless some sleep or backoff needs it. *)
BackingOff(c) == phase[c] = "backoff" /\ now < due[c]
Clock ==
    /\ now < Horizon \/ \E c \in Callers : Sleeping(c) \/ BackingOff(c)
    /\ now' = now + 1
    /\ UNCHANGED <<interval, last, owner, queue, pc, wake, hvars>>

AllDone ==
    /\ \A c \in Callers : phase[c] \in {"done", "left"}
    /\ now >= Horizon
    /\ UNCHANGED vars

HttpNext ==
    \/ \E c \in Callers :
          \/ \E r \in Request : Call(c, r)
          \/ LimiterStep(c)
          \/ \E s \in Status : Serve(c, s)
          \/ CarryOutLate(c)
          \/ Receive(c) \/ LoseConnection(c) \/ Retry(c) \/ Abandon(c)
    \/ Clock \/ AllDone

HttpSafe == HttpInit /\ [][HttpNext]_vars

(* The event loop runs ready tasks and time passes.  An upstream need not    *)
(* answer: httpx's timeout then raises, so an attempt in flight does end.    *)
HttpSpec ==
    /\ HttpSafe
    /\ \A c \in Callers :
          /\ WF_vars(LimiterStep(c)) /\ WF_vars(Retry(c))
          /\ WF_vars(Receive(c) \/ LoseConnection(c))
    /\ WF_vars(Clock)

-----------------------------------------------------------------------------
(* What request_json() raises is decided by the last attempt alone, and it   *)
(* raises a retryable failure only when all MaxRetries + 1 attempts failed   *)
(* so: RateLimitedError exactly when the last of them was a 429, which is    *)
(* what CoinGeckoService.search_coin_market relies on to stop its fallbacks. *)
VerdictFromLastAttempt ==
    \A c \in Callers : phase[c] = "done" =>
        LET n == Len(log[c])
            v == verdict[c]
            final == [RateLimited |-> "429", Upstream |-> "5xx",
                      NetworkFailure |-> "network"]
        IN IF v \in DOMAIN final
           THEN n = MaxRetries + 1 /\ log[c][n] = final[v]
           ELSE n <= MaxRetries

(* Of a call the upstream carries out, during it and ever after, at most one *)
(* request for each attempt that was lost or ended in a 5xx, and one for the *)
(* attempt it was answered by or left in: a 429 or a good answer never leads *)
(* to a second execution, and what failed on 429s alone is never carried     *)
(* out.  This bounds the harm of retrying the Sui service's POSTs.           *)
DuplicatesOnlyAfterDoubt ==
    \A c \in Callers :
        applied[c] + open[c] <=
            Cardinality({i \in 1..Len(log[c]) : log[c][i] # "429"})
              + (IF phase[c] \in {"inflight", "left"} \/ verdict[c] \in {"data", "JSONDecode"}
                 THEN 1 ELSE 0)

(* Data handed out from the cache was received less than Ttl ago, whoever    *)
(* stored or read the entry in between.                                      *)
HitsAreFresh ==
    [][\A c \in Callers :
          (phase[c] = "idle" /\ phase'[c] = "done") =>
              now < cache[request'[c].key].got + Ttl]_vars

(* Every request that leaves, a retry too, has a grant of its own: it leaves *)
(* when the limiter stamps it, and an interval after the one before, so that *)
(* retries and backoffs cannot exceed the upstream's quota.                  *)
RequestsAreSpaced ==
    [][\A c \in Callers :
          (interval > 0 /\ phase[c] # "inflight" /\ phase'[c] = "inflight") =>
              last' = now /\ now >= last + interval]_vars

(* What client.py:8 says: failures of HTTP and transport are mapped to the   *)
(* domain's exceptions, which the API and the CLI tell from all others.      *)
FailuresAreDomainErrors == \A c \in Callers : verdict[c] # "JSONDecode"

(* Every call ends in a result or an error, in spite of lost answers, queues *)
(* and backoffs.                                                             *)
EveryCallEnds ==
    \A c \in Callers :
        phase[c] \in {"limiter", "inflight", "backoff"} ~> phase[c] \in {"done", "left"}

(* The calls refine what UpstreamCall promises.  A body that is not JSON     *)
(* raises, so that its call has failed although it was carried out.          *)
CallState(c) ==
    CASE phase[c] = "idle" -> "none"
      [] phase[c] \in {"limiter", "inflight", "backoff"} -> "calling"
      [] phase[c] = "left" -> "left"
      [] phase[c] = "done" ->
            IF verdict[c] # "data" THEN "failed"
            ELSE IF tries[c] = 0 THEN "cached" ELSE "answered"

Promise == INSTANCE UpstreamCall WITH
    Calls <- Callers,
    MaxAttempts <- MaxRetries + 1,
    state <- [c \in Callers |-> CallState(c)]

ImplementsUpstreamCall == Promise!UpstreamCallSpec
=============================================================================
