--------------------------- MODULE SwarmAssembly ---------------------------
(* How a configuration becomes a swarm, and what its tools may then do: the  *)
(* bridge of config/settings.py, _enabled_agents and build_graph of          *)
(* agent/graph.py, the conditional groups of tools/registry.py, and the      *)
(* gates of the CoinGecko and the Sui client, which look at the same         *)
(* settings again when a tool is called.  Lifespan says when.                *)
EXTENDS ChatModels, Sequences, FiniteSets

CONSTANTS
    Names,        \* what AGENT__ENABLED_AGENTS may list
    Environments  \* what the process may find when it starts

Known == {"market", "research", "sui"}   \* _BUILDERS

(* A secret or URL of the environment: not set, set to nothing, or set. *)
Values == {"unset", "blank", "text"}
Keys == {"llm", "coingecko", "tavily", "langfuse_public", "langfuse_secret"}

(* The application, the command's flags, and the environment as              *)
(* pydantic-settings reads it.                                               *)
IsEnvironment(e) ==
    /\ e.app \in {"api", "cli"} /\ e.flags \in Flags
    /\ e.app = "api" => e.flags = NoFlags
    /\ e.nested \in [Keys -> Values] /\ e.alias \in [Keys -> Values]
    /\ e.sui \in Values /\ e.allow_writes \in BOOLEAN
    /\ e.enabled_agents \in Seq(Names)
    /\ e.llm \in Llm
    /\ e.backend \in {"memory", "sqlite", "postgres"} /\ e.dsn \in Values

ASSUME AssemblyAssumption ==
    /\ Known \subseteq Names
    /\ \A e \in Environments : IsEnvironment(e)

VARIABLES
    env,      \* a member of Environments
    stage,    \* where the process is: see Lifespan
    failure,  \* what its start or its end failed with
    swarm,    \* the agents of the supervisor, in order
    tools,    \* the tools of each agent
    models,   \* the chat model of each role
    calls     \* history: what came of the tool calls

vars == <<env, stage, failure, swarm, tools, models, calls>>

(* _bridge_conventional_secrets: a blank nested secret counts as none, and   *)
(* the conventional name's value is taken as it is.                          *)
Bridge(nested, alias) == IF nested = "text" THEN nested ELSE alias
Secret(k) == Bridge(env.nested[k], env.alias[k])

(* The enabled properties: `is not None`. *)
Enabled == [coingecko |-> Secret("coingecko") # "unset",
            tavily |-> Secret("tavily") # "unset",
            sui_service |-> env.sui # "unset",
            langfuse |-> Secret("langfuse_public") # "unset" /\ Secret("langfuse_secret") # "unset"]
Capability == [market |-> "coingecko", research |-> "tavily", sui |-> "sui_service"]
Gate(agent) == Enabled[Capability[agent]]

(* The methods the model may choose among; all but GET write. *)
Methods == {"GET", "POST", "PUT", "PATCH", "DELETE"}

(* Mutant: POST alone is taken for a write. *)
WritesPost == {"POST"}

Writes == Methods \ {"GET"}

(* Mutant: the report looks at the nested settings before the bridge.        *)
ReportedUnbridged(capability) ==
    CASE capability = "llm" -> env.nested["llm"] # "unset"
      [] OTHER -> Enabled[capability]

(* Settings.capabilities(), which /healthz and `config` show. *)
Reported(capability) ==
    CASE capability = "llm" -> Secret("llm") # "unset"
      [] OTHER -> Enabled[capability]

AssemblyInit ==
    /\ env \in Environments
    /\ stage = "down" /\ failure = "none"
    /\ swarm = <<>>
    /\ tools = [a \in Known |-> {}]
    /\ models = <<>>
    /\ calls = {}

(* _enabled_agents: what is listed, and Sui if its service is configured;    *)
(* unknown names and agents without their credential are skipped.            *)
Requested ==
    LET listed == env.enabled_agents
    IN IF Enabled.sui_service /\ \A i \in 1..Len(listed) : listed[i] # "sui"
       THEN Append(listed, "sui") ELSE listed

(* Mutant: an unknown name is warned of, and kept. *)
KeptUnknown(name) == IF name \in Known THEN Gate(name) ELSE TRUE

(* Mutant: an agent is taken without its credential. *)
KeptUngated(name) == name \in Known

Kept(name) == IF name \in Known THEN Gate(name) ELSE FALSE

(* Mutant: no agent stands in when none has its credential. *)
FallbackNone == <<>>

Fallback == <<"research">>

(* The loop that builds the agents: those of the first i names. *)
AgentsUpTo(names) ==
    LET agents[i \in 0..Len(names)] ==
            IF i = 0 THEN <<>>
            ELSE IF Kept(names[i]) THEN Append(agents[i - 1], names[i]) ELSE agents[i - 1]
    IN agents

EnabledAgents ==
    LET agents == AgentsUpTo(Requested)[Len(Requested)]
    IN IF agents = <<>> THEN Fallback ELSE agents

Distinct(s) == \A i, j \in 1..Len(s) : s[i] = s[j] => i = j

(* The groups of tools/registry.py; a Tavily tool that cannot be built is    *)
(* left out with a warning.                                                  *)
Group(agent, tavily) ==
    CASE agent = "market"   -> IF Enabled.coingecko THEN {"market"} ELSE {}
      [] agent = "research" -> IF Enabled.tavily /\ tavily THEN {"web"} ELSE {}
      [] agent = "sui"      -> IF Enabled.sui_service THEN {"sui"} ELSE {}

Fails(with) ==
    /\ stage' = "leaving" /\ failure' = with
    /\ UNCHANGED <<env, swarm, tools, models, calls>>

(* build_graph: every agent and the supervisor ask for a chat model, which   *)
(* needs a key (blank will do for the check, not for the provider); then     *)
(* create_supervisor refuses two agents of one name.                         *)
BuildGraph(provider, tavily) ==
    /\ stage = "opened"
    /\ (Secret("llm") = "unset") => ~provider
    /\ \/ ~provider /\ Secret("llm") = "unset" /\ Fails("ConfigError")
       \/ ~provider /\ Secret("llm") # "unset" /\ Fails("LLMError")
       \/ provider /\ ~Distinct(EnabledAgents) /\ Fails("ValueError")
       \/ /\ provider /\ Distinct(EnabledAgents)
          /\ stage' = "serving"
          /\ swarm' = EnabledAgents
          /\ models' = [role \in Roles |->
                ChatModel(Overridden(Normalised(env.llm), env.flags), role)]
          /\ tools' = [a \in Known |->
                IF \E i \in 1..Len(swarm') : swarm'[i] = a
                THEN Group(a, tavily) \cup {"system"} ELSE {}]
          /\ UNCHANGED <<env, failure, calls>>

Called(tool, method, result) ==
    /\ calls' = calls \cup {[tool |-> tool, method |-> method, result |-> result]}
    /\ UNCHANGED <<env, stage, failure, swarm, tools, models>>

(* What AsyncHttpClient ends in: HttpClient's verdicts. *)
Ends == {"data", "RateLimitedError", "UpstreamAPIError", "JSONDecodeError"}

(* CoinGeckoClient.get *)
AskMarket(end) ==
    /\ stage = "serving" /\ "market" \in tools["market"]
    /\ Called("market", "GET", IF Enabled.coingecko THEN end ELSE "ConfigError")

(* SuiServiceClient.request: the domain error of any failed answer is the    *)
(* same, a rate limit's too.                                                 *)
SuiServiceRequest(method, end) ==
    /\ stage = "serving" /\ "sui" \in tools["sui"]
    /\ Called("sui", method,
              IF ~Enabled.sui_service \/ (method \in Writes /\ ~env.allow_writes)
              THEN "ConfigError"
              ELSE IF end \in {"RateLimitedError", "UpstreamAPIError"}
                   THEN "SuiServiceError" ELSE end)

(* A tool is called; one call is enough, they do not depend on each other.   *)
CallTool ==
    /\ calls = {}
    /\ \E end \in Ends : \/ AskMarket(end)
                         \/ \E method \in Methods : SuiServiceRequest(method, end)

-----------------------------------------------------------------------------
Results == Ends \cup {"ConfigError", "SuiServiceError"}

AssemblyTypeOK ==
    /\ env \in Environments
    /\ stage \in {"down", "starting", "opened", "serving", "leaving", "closing", "flushing"}
    /\ failure \in {"none", "ConfigError", "LLMError", "ValueError", "StoreError", "CloseError"}
    /\ models \in [Roles -> ChatModelType] \cup {<<>>}
    /\ swarm \in Seq(Known)
    /\ tools \in [Known -> SUBSET {"market", "web", "sui", "system"}]
    /\ calls \subseteq [tool : {"market", "sui"}, method : Methods, result : Results]

Members == {swarm[i] : i \in 1..Len(swarm)}

(* The swarm that serves is the one the configuration asks for: each agent   *)
(* that is listed, or Sui, and that has its credential, and no other; if     *)
(* that is nobody, the research agent alone (graph.py:48-75).  (What         *)
(* docs/huong-dan/them-sub-agent.md:158-159 says of that case, a             *)
(* ConfigError, the code does not do: graph.py:66-71 falls back.)            *)
SwarmIsAsConfigured ==
    stage = "serving" =>
        LET listed == {env.enabled_agents[i] : i \in 1..Len(env.enabled_agents)}
            due == {a \in Known : Gate(a) /\ (a = "sui" \/ a \in listed)}
        IN /\ Members = IF due = {} THEN {"research"} ELSE due
           /\ Len(swarm) = Cardinality(Members)

(* registry.py:3-5, "no mid-run surprises": the registry's gates and the     *)
(* clients' agree.  A registered tool never fails for want of configuration, *)
(* but for a Sui write where the operator forbids writes; and there every    *)
(* write fails so, before it gets out.                                       *)
NoMidRunSurprise ==
    \A call \in calls :
        (call.result = "ConfigError")
            <=> (call.tool = "sui" /\ call.method # "GET" /\ ~env.allow_writes)

(* The supervisor is never given an agent that can do nothing of its trade:  *)
(* the gates of graph.py and of registry.py agree.  Only the research agent  *)
(* may be left with the system tools, as the fallback or if the Tavily tool  *)
(* could not be built.                                                       *)
AgentsHaveTheirTools ==
    stage = "serving" => \A a \in Members : a = "research" \/ a \in tools[a]

(* What registry.py:3-5 says: tools are there only when the credential is    *)
(* configured, and a missing key means that the group is absent.             *)
ToolsNeedACredential ==
    stage = "serving" =>
        /\ "market" \in tools["market"] => \E v \in {env.nested, env.alias} : v["coingecko"] = "text"
        /\ "sui" \in tools["sui"] => env.sui = "text"

(* Every role has the model it is configured with: the provider never gets a *)
(* name with its own prefix, but from --model; --temperature changes the     *)
(* workers' temperature, to 0 as well, and never the supervisor's, which     *)
(* routes (them-llm-provider.md:130-131, trien-khai.md:132).                 *)
ModelsAsConfigured ==
    stage = "serving" =>
        /\ \A role \in Roles : models[role].prefix = "own" => env.flags.model = "own"
        /\ models["supervisor"].temperature = env.llm.temperature["supervisor"]
        /\ models["worker"].temperature =
               IF env.flags.temperature >= 0 THEN env.flags.temperature
               ELSE env.llm.temperature["worker"]

(* What the process reports of itself (/healthz, `config`) is what it does:  *)
(* it serves only if it reports a model, an agent works with an upstream     *)
(* only if the upstream is reported, and one that is listed and reported has *)
(* its tools, but for a Tavily tool that could not be built.                 *)
ReportTellsTheSwarm ==
    stage = "serving" =>
        /\ Reported("llm")
        /\ \A a \in Known : a \in Members /\ ~Reported(Capability[a]) => tools[a] = {"system"}
        /\ \A a \in Known \ {"research"} :
              (/\ Reported(Capability[a])
               /\ a = "sui" \/ \E i \in 1..Len(env.enabled_agents) : env.enabled_agents[i] = a)
                  => a \in tools[a]
=============================================================================
