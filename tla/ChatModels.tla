---------------------------- MODULE ChatModels -----------------------------
(* The chat models of the swarm: the LLM settings and their validator        *)
(* (config/settings.py), the CLI's flags (interfaces/cli/app.py), and        *)
(* get_chat_model() of llm/factory.py, which the supervisor and every agent  *)
(* ask with their role.                                                      *)
EXTENDS Integers

CONSTANT Temperatures   \* temperatures a role may be given, 0 among them

ASSUME ChatModelsAssumption == 0 \in Temperatures /\ Temperatures \subseteq Nat

(* A model's name has no prefix, its provider's own, or another's, which     *)
(* belongs to the name ("openai/...", given to an OpenAI-compatible router). *)
Prefixes == {"none", "own", "other"}
Roles == {"supervisor", "worker"}   \* nothing in src/ asks for "default"
NotGiven == -1

Llm == [prefix : Prefixes, temperature : [Roles -> Temperatures]]
Flags == [model : Prefixes \cup {"absent", "blank"},
          temperature : Temperatures \cup {NotGiven}]
NoFlags == [model |-> "absent", temperature |-> NotGiven]

(* _normalize_model: the provider's own prefix is stripped.                  *)
Normalised(llm) == IF llm.prefix = "own" THEN [llm EXCEPT !.prefix = "none"] ELSE llm

(* Mutant: 0 is taken for a flag that is not given. *)
GivenIfTrue(temperature) == temperature \notin {NotGiven, 0}

Given(temperature) == temperature # NotGiven

(* _apply_overrides, after the settings were validated: a model that is not  *)
(* blank, taken as it is; a temperature, for the workers.                    *)
Overridden(llm, flags) ==
    [prefix |-> IF flags.model \in Prefixes THEN flags.model ELSE llm.prefix,
     temperature |-> IF Given(flags.temperature)
                     THEN [llm.temperature EXCEPT !["worker"] = flags.temperature]
                     ELSE llm.temperature]

(* What init_chat_model() is asked for. *)
ChatModel(llm, role) == [prefix |-> llm.prefix, temperature |-> llm.temperature[role]]
ChatModelType == [prefix : Prefixes, temperature : Temperatures]
=============================================================================
