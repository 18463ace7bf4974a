-------------------------- MODULE ClientLifecycle --------------------------
(* The process-wide singletons of the upstream clients, their connection     *)
(* pools and their limiters' locks, over the lives of a process: each life   *)
(* is an event loop, on which the API's lifespan or the CLI's asyncio.run()  *)
(* serves turns and ends.  A service (CoinGeckoService, GeckoTerminal-       *)
(* Service, SuiService) is built at its first use and keeps for ever the     *)
(* client it then finds; close_clients() closes and forgets the clients the  *)
(* modules still name, and knows nothing of the services.                    *)
EXTENDS Naturals, Sequences, FiniteSets

CONSTANTS
    Tasks,      \* tool calls under way at the same time
    MaxLoops    \* bound: how many event loops the process lives through

ASSUME LifecycleAssumption == MaxLoops \in Nat

Families == {"coingecko", "sui"}                  \* client.py of each
Services == {"coingecko", "geckoterminal", "sui"} \* service.py of each
FamilyOf(s) == IF s = "sui" THEN "sui" ELSE "coingecko"

VARIABLES
    app,        \* "api" or "cli"
    loop,       \* the running event loop, or the last one; 0 before the first
    stage,      \* "down", "serving", or the family close_clients() is at
    singleton,  \* _client of each family; 0 is None
    held,       \* the client each service holds; 0: service not built yet
    born,       \* clients in order of creation: history, the loop it was on
    pool,       \* _http of each client: the loop it was made on; 0 is None
    open,       \* the clients whose pool on the running loop is not closed
    bound,      \* the loop each client's limiter lock is bound to; 0: none yet
    task,       \* each task's client, and where it is with its request
    released    \* history: did the last life end with close_clients() done?

vars == <<app, loop, stage, singleton, held, born, pool, open, bound, task, released>>

(* A task has its client, waits for the limiter's lock or sleeps holding it, *)
(* has its request out, or was refused by the lock.                          *)
Places == {"none", "ready", "queued", "pacing", "sent", "refused"}
NoTask == [client |-> 0, at |-> "none"]
Clients == 1..Len(born)
At(t, places) == task[t].at \in places

LifecycleTypeOK ==
    /\ app \in {"api", "cli"}
    /\ loop \in 0..MaxLoops
    /\ stage \in {"down", "serving"} \cup Families
    /\ born \in Seq(1..MaxLoops)
    /\ singleton \in [Families -> 0..Len(born)]
    /\ held \in [Services -> 0..Len(born)]
    /\ pool \in [Clients -> 0..MaxLoops]
    /\ open \subseteq Clients
    /\ bound \in [Clients -> 0..MaxLoops]
    /\ task \in [Tasks -> [client : 0..Len(born), at : Places]]
    /\ released \in BOOLEAN

LifecycleInit ==
    /\ app \in {"api", "cli"}
    /\ loop = 0
    /\ stage = "down"
    /\ singleton = [f \in Families |-> 0]
    /\ held = [s \in Services |-> 0]
    /\ born = <<>>
    /\ pool = <<>>
    /\ open = {}
    /\ bound = <<>>
    /\ task = [t \in Tasks |-> NoTask]
    /\ released = FALSE

(* The API's process may run its lifespan again; the CLI's command ends.     *)
Start ==
    /\ stage = "down"
    /\ loop < MaxLoops /\ (app = "cli" => loop = 0)
    /\ loop' = loop + 1
    /\ stage' = "serving"
    /\ open' = {}
    /\ released' = FALSE
    /\ UNCHANGED <<app, singleton, held, born, pool, bound, task>>

(* Mutant: a client is made whenever one is asked for. *)
GetClientAnew(f) == Len(born) + 1

(* get_..._client(): the singleton, made now if there is none. *)
GetClient(f) ==
    IF singleton[f] # 0
    THEN singleton[f]
    ELSE Len(born) + 1

(* Mutant: the module names a client only once it has served a task. *)
NamedLate(f, c) == UNCHANGED <<singleton, born, pool, bound>>

(* A client that is made becomes the singleton; its pool comes later.        *)
Named(f, c) ==
    IF c \in Clients
    THEN UNCHANGED <<singleton, born, pool, bound>>
    ELSE /\ singleton' = [singleton EXCEPT ![f] = c]
         /\ born' = Append(born, loop)
         /\ pool' = Append(pool, 0)
         /\ bound' = Append(bound, 0)

(* A tool gets its service, which is built with the client there is now.     *)
Bind(t, s) ==
    LET c == IF held[s] # 0 THEN held[s] ELSE GetClient(FamilyOf(s)) IN
    /\ stage = "serving" /\ task[t] = NoTask
    /\ held' = [held EXCEPT ![s] = c]
    /\ task' = [task EXCEPT ![t] = [client |-> c, at |-> "ready"]]
    /\ Named(FamilyOf(s), c)
    /\ UNCHANGED <<app, loop, stage, open, released>>

Moves(t, place) == task' = [task EXCEPT ![t].at = place]

(* -- the limiter's lock -------------------------------------------------- *)
(* Mutant: one limiter for all clients, made with the first. *)
LimiterShared(c) == 1

(* AsyncHttpClient._limiter: each client has its own. *)
Limiter(c) == c

Using(l, places) ==
    \E t \in Tasks : At(t, places) /\ Limiter(task[t].client) = l

(* The lock is free and nobody waits, or it is free and the task is woken.   *)
Admitted(t) ==
    LET l == Limiter(task[t].client) IN
    \/ At(t, {"ready"}) /\ ~Using(l, {"pacing", "queued"})
    \/ At(t, {"queued"}) /\ ~Using(l, {"pacing"})

(* acquire() has to sleep first, and holds the lock meanwhile. *)
Pace(t) ==
    /\ Admitted(t)
    /\ Moves(t, "pacing")
    /\ UNCHANGED <<app, loop, stage, singleton, held, born, pool, open, bound, released>>

(* acquire() has to wait for the lock.  Only now asyncio.Lock looks at the   *)
(* event loop: it stays bound to the first it waits on, and raises a         *)
(* RuntimeError on any other.                                                *)
Queue(t) ==
    LET l == Limiter(task[t].client) IN
    /\ At(t, {"ready"}) /\ Using(l, {"pacing", "queued"})
    /\ \/ bound[l] \in {0, loop} /\ Moves(t, "queued") /\ bound' = [bound EXCEPT ![l] = loop]
       \/ bound[l] \notin {0, loop} /\ Moves(t, "refused") /\ UNCHANGED bound
    /\ UNCHANGED <<app, loop, stage, singleton, held, born, pool, open, released>>

(* -- the pool ------------------------------------------------------------ *)
(* Mutant: a pool is used on whatever loop it was made. *)
ReusableAnywhere(c) == pool[c] # 0

(* `self._http is None ... or self._loop is not loop` *)
Reusable(c) == pool[c] = loop

(* AsyncHttpClient._client(), once the limiter lets the task through: a pool *)
(* of another loop is dropped without being closed.                          *)
Send(t) ==
    LET c == task[t].client IN
    /\ Admitted(t) \/ At(t, {"pacing"})
    /\ Moves(t, "sent")
    /\ IF Reusable(c)
       THEN UNCHANGED <<pool, open>>
       ELSE /\ pool' = [pool EXCEPT ![c] = loop]
            /\ open' = open \cup {c}
    /\ UNCHANGED <<app, loop, stage, singleton, held, born, bound, released>>

(* The next attempt, or the tool's next request. *)
Again(t) ==
    /\ At(t, {"sent"})
    /\ Moves(t, "ready")
    /\ UNCHANGED <<app, loop, stage, singleton, held, born, pool, open, bound, released>>

(* The call is over, or was cancelled at any await. *)
Finish(t) ==
    /\ task[t] # NoTask
    /\ task' = [task EXCEPT ![t] = NoTask]
    /\ UNCHANGED <<app, loop, stage, singleton, held, born, pool, open, bound, released>>

Quiet == stage = "serving" /\ \A t \in Tasks : task[t] = NoTask

(* The CLI's asyncio.run() returns: nothing is closed. *)
Exit ==
    /\ app = "cli" /\ Quiet
    /\ stage' = "down"
    /\ UNCHANGED <<app, loop, singleton, held, born, pool, open, bound, task, released>>

(* The server has drained its requests and ends the lifespan; if leaving the *)
(* checkpointer's context raises, close_clients() is not reached.            *)
Shutdown ==
    /\ app = "api" /\ Quiet
    /\ stage' \in {"coingecko", "down"}
    /\ UNCHANGED <<app, loop, singleton, held, born, pool, open, bound, task, released>>

(* Mutant: a pool is forgotten without being closed. *)
ClosedLeft(c) == open

Closed(c) == open \ {c}

(* aclose_..._client(), of CoinGecko and then of Sui.  A pool left over from *)
(* a loop that is closed may refuse to be closed: the exception ends the     *)
(* shutdown there, and the singleton stays.                                  *)
Close(f) ==
    LET c == singleton[f] IN
    /\ stage = f
    /\ \/ /\ singleton' = [singleton EXCEPT ![f] = 0]
          /\ pool' = IF c = 0 THEN pool ELSE [pool EXCEPT ![c] = 0]
          /\ open' = Closed(c)
          /\ stage' = IF f = "coingecko" THEN "sui" ELSE "down"
          /\ released' = (f = "sui")
       \/ /\ c # 0 /\ pool[c] \notin {0, loop}
          /\ pool' = [pool EXCEPT ![c] = 0]
          /\ stage' = "down"
          /\ UNCHANGED <<singleton, open, released>>
    /\ UNCHANGED <<app, loop, held, born, bound, task>>

LifecycleNext ==
    \/ Start
    \/ \E t \in Tasks : \/ \E s \in Services : Bind(t, s)
                        \/ Pace(t) \/ Queue(t) \/ Send(t)
                        \/ Again(t) \/ Finish(t)
    \/ Exit \/ Shutdown
    \/ \E f \in Families : Close(f)

LifecycleSpec == LifecycleInit /\ [][LifecycleNext]_vars

-----------------------------------------------------------------------------
(* A request never leaves through a pool of a dead event loop or through a   *)
(* closed one, whatever the client went through before (http/client.py:86).  *)
PoolOnOwnLoop ==
    \A t \in Tasks :
        At(t, {"sent"}) => pool[task[t].client] = loop /\ task[t].client \in open

(* "Process-wide CoinGecko client singleton" (coingecko/client.py:49) holds  *)
(* of one life: while the process serves, a client made in this life is the  *)
(* one its module names, which all services built in this life share, with   *)
(* its limiter and cache, and which close_clients() will close.  Across      *)
(* lives it does not hold: a service brings its old client along, so that    *)
(* two clients and two limiters of one upstream are in use at once.          *)
SingletonWithinALife ==
    stage = "serving" =>
        \A s \in Services : held[s] # 0 =>
            held[s] = singleton[FamilyOf(s)] \/ born[held[s]] < loop

(* A limiter's lock that is bound to a dead event loop fails the calls that  *)
(* have to wait for it.  Only clients a service brought along from an        *)
(* earlier life can do that: within the life it was made in, a client never  *)
(* refuses a call, whatever other clients met before (client.py:50).         *)
OnlyVeteransRefuse ==
    \A t \in Tasks :
        LET c == task[t].client IN
        At(t, {"refused"}) => born[c] < loop /\ bound[c] \in born[c]..loop - 1

(* A pool of the running loop, or of the last one, that is open is in reach  *)
(* of close_clients(), since the module names its client, except where a     *)
(* service brought the client along from an earlier life: a shutdown that    *)
(* failed half way (Close) leaves the clients it did not close named, and    *)
(* after one that went through the exceptions are all that is open.          *)
ReleasedButForgotten ==
    \A c \in open :
        \/ \E f \in Families : singleton[f] = c /\ ~(stage = "down" /\ released)
        \/ born[c] < loop /\ \E s \in Services : held[s] = c

(* What coingecko/client.py:57 and sui/client.py:81 say: the clients are     *)
(* closed on app and CLI shutdown, to release the pools.  Taken for the CLI. *)
ReleasedByCli == (app = "cli" /\ stage = "down") => open = {}
=============================================================================
