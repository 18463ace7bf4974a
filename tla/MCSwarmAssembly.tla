-------------------------- MODULE MCSwarmAssembly --------------------------
(* Environments of two kinds.  MCTools: a chat command with its default      *)
(* model and store, every key of the tools and of the model unset, blank or  *)
(* given under either name, and every list of up to two agents, an unknown   *)
(* name among them.  MCProcesses: both applications with every backend, key  *)
(* of Langfuse, model and flag, and one or no upstream.                      *)
EXTENDS Lifespan

MCNames == {"market", "research", "sui", "typo"}
ToolKeys == {"llm", "coingecko", "tavily"}
Holding(f) == [k \in Keys |-> IF k \in DOMAIN f THEN f[k] ELSE "unset"]
Plain == [prefix |-> "none", temperature |-> [supervisor |-> 0, worker |-> 2]]

MCTools ==
    [app : {"cli"}, flags : {NoFlags},
     nested : {Holding(f) : f \in [ToolKeys -> Values]},
     alias : {Holding(f) : f \in [ToolKeys -> Values]},
     sui : Values, allow_writes : BOOLEAN,
     enabled_agents : UNION {[1..n -> MCNames] : n \in 0..2},
     llm : {Plain}, backend : {"memory"}, dsn : {"unset"}]

Traced == {Holding([langfuse_public |-> p, langfuse_secret |-> q]) : p, q \in {"unset", "text"}}
Processes(app, flags, llm, backend) ==
    [app : {app}, flags : flags,
     nested : Traced,
     alias : {Holding([llm |-> key, coingecko |-> "text"]) : key \in {"unset", "text"}},
     sui : {"unset"}, allow_writes : {TRUE}, enabled_agents : {<<"market", "research">>},
     llm : llm, backend : backend, dsn : {"unset", "blank", "text"}]

MCProcesses ==
    LET backends == {"memory", "sqlite", "postgres"}
        llms == {[Plain EXCEPT !.prefix = p] : p \in Prefixes}
    IN UNION {Processes("api", {NoFlags}, llms, backends),
              Processes("cli", {NoFlags}, {Plain}, backends),
              Processes("cli", Flags, llms, {"memory"})}

MCEnvironments == MCTools \cup MCProcesses
=============================================================================
