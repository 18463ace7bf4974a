------------------------------ MODULE Lifespan ------------------------------
(* A process from its start to its end: the lifespan of the API              *)
(* (interfaces/api/app.py) and the chat command of the CLI                   *)
(* (interfaces/cli/app.py), with the checkpointer of memory/checkpoint.py,   *)
(* the swarm (SwarmAssembly) and its tracing (Langfuse).  An API process may *)
(* run its lifespan again, with the settings, the Langfuse client and        *)
(* app.state it has from before.  stage goes from "down" by "starting"       *)
(* (Langfuse was configured), "opened" (the checkpointer is there) and       *)
(* "serving" to "leaving" (the checkpointer's context), "closing" (the       *)
(* clients), "flushing", and "down".                                         *)
EXTENDS SwarmAssembly, Langfuse

CONSTANT MaxLives   \* bound: how often the process runs its lifespan

ASSUME LifespanAssumption == MaxLives \in Nat

VARIABLES
    life,    \* which run of the lifespan this is
    saver,   \* the run whose checkpointer is open, or 0
    graph    \* the run that made app.state.graph, or 0

avars == <<env, swarm, tools, models>>
allvars == <<vars, lvars, life, saver, graph>>

LifespanInit ==
    /\ AssemblyInit /\ LangfuseInit
    /\ life = 0 /\ saver = 0 /\ graph = 0

Goes(to) == stage' = to /\ UNCHANGED failure

Start ==
    /\ stage = "down" /\ life < MaxLives /\ (env.app = "cli" => life = 0)
    /\ life' = life + 1
    /\ stage' = "starting" /\ failure' = "none" /\ calls' = {}
    /\ ConfigureLangfuse(Enabled.langfuse)
    /\ UNCHANGED <<avars, unsent, flush, saver, graph>>

(* Entering checkpointer_context: the memory backend cannot fail; Postgres   *)
(* needs its DSN and its package; a database may not open, or its setup may  *)
(* fail, and then what was opened is closed.                                 *)
OpenStore ==
    /\ stage = "starting"
    /\ \/ /\ env.backend = "postgres" => env.dsn = "text"
          /\ saver' = life /\ Goes("opened")
       \/ /\ env.backend = "postgres"
          /\ Fails("ConfigError") /\ UNCHANGED saver
       \/ /\ env.backend # "memory" /\ (env.backend = "postgres" => env.dsn = "text")
          /\ Fails("StoreError") /\ UNCHANGED saver
    /\ UNCHANGED <<avars, calls, lvars, life, graph>>

(* The graph is built on the checkpointer; app.state names it only if that   *)
(* worked.                                                                   *)
Build ==
    /\ \E provider, tavily \in BOOLEAN : BuildGraph(provider, tavily)
    /\ graph' = IF stage' = "serving" THEN life ELSE graph
    /\ UNCHANGED <<lvars, life, saver>>

Turn ==
    /\ stage = "serving"
    /\ TracedTurn(Enabled.langfuse)
    /\ UNCHANGED <<vars, life, saver, graph>>

UseTool == CallTool /\ UNCHANGED <<lvars, life, saver, graph>>

Stop ==
    /\ stage = "serving" /\ Goes("leaving")
    /\ UNCHANGED <<avars, calls, lvars, life, saver, graph>>

(* Mutant: only a checkpointer that served is closed. *)
LeftOpen == IF failure = "none" THEN 0 ELSE saver

(* What is open after the checkpointer's context was left. *)
Left == 0

(* The CLI flushes whatever was raised; the API goes on only if nothing was. *)
After(raised) ==
    CASE env.app = "cli" -> "flushing"
      [] env.app = "api" -> IF raised = "none" THEN "closing" ELSE "down"

(* Leaving the context closes a database, which may raise instead. *)
LeaveStore ==
    /\ stage = "leaving"
    /\ saver' = Left
    /\ \/ UNCHANGED failure
       \/ saver # 0 /\ env.backend # "memory" /\ failure' = "CloseError"
    /\ stage' = After(failure')
    /\ UNCHANGED <<avars, calls, lvars, life, graph>>

(* close_clients(): ClientLifecycle has the details. *)
CloseClients ==
    /\ stage = "closing"
    /\ \/ Goes("flushing")
       \/ stage' = "down" /\ failure' = "CloseError"
    /\ UNCHANGED <<avars, calls, lvars, life, saver, graph>>

Flush ==
    /\ stage = "flushing" /\ FlushLangfuse /\ Goes("down")
    /\ UNCHANGED <<avars, calls, life, saver, graph>>

BackgroundExport == Export /\ UNCHANGED <<vars, life, saver, graph>>

LifespanNext ==
    \/ Start \/ OpenStore \/ Build \/ Turn \/ UseTool \/ Stop
    \/ LeaveStore \/ CloseClients \/ Flush \/ BackgroundExport

LifespanSpec == LifespanInit /\ [][LifespanNext]_allvars

-----------------------------------------------------------------------------
LifespanTypeOK ==
    /\ AssemblyTypeOK /\ LangfuseTypeOK
    /\ life \in 0..MaxLives /\ saver \in 0..life /\ graph \in 0..life

(* The traces of a process that ended were sent, unless the flush itself     *)
(* failed or, in the API, what comes before it raised: an initialisation     *)
(* that failed and was tried again at a later turn, or a second life, loses  *)
(* none (app.py:28-39, cli/app.py:166-169).                                  *)
TracesAreFlushed ==
    stage = "down" /\ unsent =>
        \/ flush = "failed"
        \/ env.app = "api" /\ failure # "none"

(* Turns run on a graph of this life, whose checkpointer is open; whatever   *)
(* failed, no checkpointer is left open, though app.state still names the    *)
(* graph of an earlier life.                                                 *)
GraphOnOpenSaver ==
    /\ stage = "serving" => graph = life /\ saver = life
    /\ stage \in {"closing", "flushing", "down"} => saver = 0
=============================================================================
