---------------------------- MODULE LifespanProofs ----------------------------
(* The safety of Lifespan, and of SwarmAssembly and Langfuse in it: for any  *)
(* set of environments, names and temperatures, and any number of lives.     *)
EXTENDS Lifespan, SequenceTheorems, FiniteSetTheorems, WellFoundedInduction, TLAPS

(* What serves is what build_graph makes of the environment: all that is     *)
(* said of the swarm follows from this.                                      *)
AssembledInv ==
    stage = "serving" =>
        /\ Secret("llm") # "unset"
        /\ swarm = EnabledAgents /\ Distinct(swarm)
        /\ \E tavily \in BOOLEAN :
              tools = [a \in Known |->
                          IF \E i \in 1..Len(swarm) : swarm[i] = a
                          THEN Group(a, tavily) \cup {"system"} ELSE {}]
        /\ models = [role \in Roles |->
                        ChatModel(Overridden(Normalised(env.llm), env.flags), role)]

(* The checkpointer is open from OpenStore to LeaveStore, if it opened. *)
StoreInv ==
    /\ GraphOnOpenSaver
    /\ stage = "starting" => saver = 0
    /\ stage = "opened" => saver = life

(* There are traces only where there is a client, and only the API closes    *)
(* clients before it flushes.                                                *)
TraceInv ==
    /\ TracesAreFlushed
    /\ unsent => configured
    /\ stage = "closing" => env.app = "api"

LifespanInv ==
    /\ LifespanTypeOK
    /\ AssembledInv
    /\ NoMidRunSurprise
    /\ StoreInv
    /\ TraceInv

-----------------------------------------------------------------------------
(* Induction, for a set: a least number outside would have no predecessor.   *)
LEMMA SetInduction ==
    ASSUME NEW S, 0 \in S, \A n \in Nat : n \in S => n + 1 \in S
    PROVE  Nat \subseteq S
<1> DEFINE R == {ss \in Nat \X Nat : ss[1] < ss[2]}
<1>1. IsWellFoundedOn(R, Nat)
    BY NatLessThanWellFounded DEF OpToRel
<1>2. SUFFICES ASSUME Nat \ S # {} PROVE FALSE
    OBVIOUS
<1>3. PICK x \in Nat \ S : \A y \in Nat \ S : ~(<<y, x>> \in R)
    BY <1>1, <1>2, WFMin
<1>4. x # 0 /\ x - 1 \in Nat \ S /\ x - 1 < x
    BY <1>3
<1>5. <<x - 1, x>> \in R
    BY <1>4
<1> QED BY <1>3, <1>4, <1>5

(* The loop over the names is what its definition says: the function exists, *)
(* since that for m names can be extended to one more.                       *)
LEMMA AgentsUpToDef ==
    ASSUME NEW names, Len(names) \in Nat
    PROVE  \A i \in 0..Len(names) :
              AgentsUpTo(names)[i] =
                  IF i = 0 THEN <<>>
                  ELSE IF Kept(names[i]) THEN Append(AgentsUpTo(names)[i - 1], names[i])
                       ELSE AgentsUpTo(names)[i - 1]
<1> DEFINE S == {m \in Nat : \E f : f = [i \in 0..m |->
                    IF i = 0 THEN <<>>
                    ELSE IF Kept(names[i]) THEN Append(f[i - 1], names[i]) ELSE f[i - 1]]}
<1>1. 0 \in S
    <2> DEFINE g == [i \in 0..0 |-> <<>>]
    <2>1. g = [i \in 0..0 |->
                  IF i = 0 THEN <<>>
                  ELSE IF Kept(names[i]) THEN Append(g[i - 1], names[i]) ELSE g[i - 1]]
        OBVIOUS
    <2> QED BY <2>1
<1>2. ASSUME NEW m \in Nat, m \in S PROVE m + 1 \in S
    <2>1. PICK f : f = [i \in 0..m |->
                  IF i = 0 THEN <<>>
                  ELSE IF Kept(names[i]) THEN Append(f[i - 1], names[i]) ELSE f[i - 1]]
        BY <1>2
    <2> DEFINE step(i) == IF Kept(names[i]) THEN Append(f[i - 1], names[i]) ELSE f[i - 1]
               g == [i \in 0..m + 1 |-> IF i = m + 1 THEN step(m + 1) ELSE f[i]]
    <2>2. \A i \in 0..m : g[i] = f[i]
        OBVIOUS
    <2>3. g = [i \in 0..m + 1 |->
                  IF i = 0 THEN <<>>
                  ELSE IF Kept(names[i]) THEN Append(g[i - 1], names[i]) ELSE g[i - 1]]
        <3>1. ASSUME NEW i \in 0..m + 1
              PROVE  g[i] = IF i = 0 THEN <<>>
                            ELSE IF Kept(names[i]) THEN Append(g[i - 1], names[i])
                                 ELSE g[i - 1]
            <4>1. CASE i = m + 1
                <5>1. i # 0 /\ i - 1 \in 0..m /\ g[i] = step(i)
                    BY <4>1
                <5>2. g[i - 1] = f[i - 1]
                    BY <5>1, <2>2
                <5> QED BY <5>1, <5>2
            <4>2. CASE i # m + 1
                <5>1. i \in 0..m /\ g[i] = f[i] /\ (i # 0 => i - 1 \in 0..m)
                    BY <4>2
                <5>2. i # 0 => g[i - 1] = f[i - 1]
                    BY <5>1, <2>2
                <5>3. f[i] = IF i = 0 THEN <<>> ELSE step(i)
                    BY <5>1, <2>1
                <5> QED BY <5>1, <5>2, <5>3
            <4> QED BY <4>1, <4>2
        <3> QED BY <3>1
    <2> HIDE DEF g
    <2> QED BY <2>3
<1> HIDE DEF S
<1>3. Len(names) \in S
    BY <1>1, <1>2, SetInduction
<1> DEFINE agents == AgentsUpTo(names)
<1>4. agents = [i \in 0..Len(names) |->
                  IF i = 0 THEN <<>>
                  ELSE IF Kept(names[i]) THEN Append(agents[i - 1], names[i])
                       ELSE agents[i - 1]]
    BY <1>3, Zenon DEF S, AgentsUpTo
<1> HIDE DEF agents
<1>5. \A i \in 0..Len(names) :
         agents[i] = IF i = 0 THEN <<>>
                     ELSE IF Kept(names[i]) THEN Append(agents[i - 1], names[i])
                          ELSE agents[i - 1]
    BY <1>4
<1> QED BY <1>5 DEF agents

(* It keeps of the names those that are known and have their credential.     *)
LEMMA AgentsUpToMembers ==
    ASSUME NEW names \in Seq(Names), NEW n, n = Len(names),
           NEW agents, agents = AgentsUpTo(names)
    PROVE  /\ agents[n] \in Seq(Known)
           /\ \A a : (\E j \in 1..Len(agents[n]) : agents[n][j] = a)
                        <=> \E j \in 1..n : names[j] = a /\ Kept(a)
<1> DEFINE Good(m) ==
              /\ agents[m] \in Seq(Known)
              /\ \A a : (\E j \in 1..Len(agents[m]) : agents[m][j] = a)
                           <=> \E j \in 1..m : names[j] = a /\ Kept(a)
           S == {m \in Nat : m <= n => Good(m)}
<1>0. n \in Nat
    BY LenProperties
<1>1. \A i \in 0..n : agents[i] =
          IF i = 0 THEN <<>>
          ELSE IF Kept(names[i]) THEN Append(agents[i - 1], names[i]) ELSE agents[i - 1]
    BY <1>0, AgentsUpToDef
<1>2. Good(0)
    <2>1. agents[0] = <<>> /\ <<>> \in Seq(Known) /\ Len(<<>>) = 0
        BY <1>0, <1>1, EmptySeq
    <2> QED BY <2>1
<1>3. ASSUME NEW m \in Nat, m + 1 <= n, Good(m) PROVE Good(m + 1)
    <2>1. m + 1 \in 0..n /\ m + 1 # 0 /\ m + 1 - 1 = m
        BY <1>0, <1>3
    <2>2. agents[m + 1] = IF Kept(names[m + 1]) THEN Append(agents[m], names[m + 1])
                          ELSE agents[m]
        BY <1>1, <2>1
    <2>3. CASE ~Kept(names[m + 1])
        <3>1. agents[m + 1] = agents[m]
            BY <2>2, <2>3
        <3>2. \A a : (\E j \in 1..m + 1 : names[j] = a /\ Kept(a))
                        <=> \E j \in 1..m : names[j] = a /\ Kept(a)
            BY <2>3
        <3> HIDE DEF Kept
        <3> QED BY <1>3, <3>1, <3>2
    <2>4. CASE Kept(names[m + 1])
        <3> DEFINE old == agents[m]
                   x == names[m + 1]
        <3>1. x \in Known /\ old \in Seq(Known) /\ Len(old) \in Nat
            BY <1>3, <2>4, LenProperties DEF Kept
        <3>2. /\ agents[m + 1] \in Seq(Known)
              /\ Len(agents[m + 1]) = Len(old) + 1
              /\ \A j \in 1..Len(old) : agents[m + 1][j] = old[j]
              /\ agents[m + 1][Len(old) + 1] = x
            BY <2>2, <2>4, <3>1, AppendProperties
        <3>3. ASSUME NEW a
              PROVE  (\E j \in 1..Len(agents[m + 1]) : agents[m + 1][j] = a)
                        <=> (a = x \/ \E j \in 1..Len(old) : old[j] = a)
            <4> HIDE DEF old, x
            <4>1. \A j \in 1..Len(old) + 1 : j = Len(old) + 1 \/ j \in 1..Len(old)
                BY <3>1
            <4>2. Len(old) + 1 \in 1..Len(old) + 1 /\ \A j \in 1..Len(old) : j \in 1..Len(old) + 1
                BY <3>1
            <4> QED BY <3>2, <4>1, <4>2
        <3>4. ASSUME NEW a
              PROVE  (\E j \in 1..m + 1 : names[j] = a /\ Kept(a))
                        <=> (a = x \/ \E j \in 1..m : names[j] = a /\ Kept(a))
            BY <2>4
        <3> QED BY <1>3, <3>2, <3>3, <3>4
    <2> QED BY <2>3, <2>4
<1> HIDE DEF Good
<1>4. \A m \in Nat : m \in S => m + 1 \in S
    BY <1>0, <1>3
<1>5. n \in S
    BY <1>0, <1>2, <1>4, SetInduction
<1> QED BY <1>0, <1>5 DEF Good

(* What the configuration asks for. *)
Listed == {env.enabled_agents[i] : i \in 1..Len(env.enabled_agents)}
Due == {a \in Known : Gate(a) /\ (a = "sui" \/ a \in Listed)}

LEMMA RequestedMembers ==
    ASSUME env \in Environments
    PROVE  /\ Requested \in Seq(Names)
           /\ \A a : (\E j \in 1..Len(Requested) : Requested[j] = a)
                        <=> (a \in Listed \/ (a = "sui" /\ Enabled.sui_service))
<1> DEFINE listed == env.enabled_agents
<1>1. listed \in Seq(Names) /\ "sui" \in Names /\ Len(listed) \in Nat
    BY AssemblyAssumption, LenProperties DEF IsEnvironment, Known
<1>2. CASE Enabled.sui_service /\ \A i \in 1..Len(listed) : listed[i] # "sui"
    <2>1. Requested = Append(listed, "sui")
        BY <1>2 DEF Requested
    <2>2. /\ Requested \in Seq(Names) /\ Len(Requested) = Len(listed) + 1
          /\ \A j \in 1..Len(listed) : Requested[j] = listed[j]
          /\ Requested[Len(listed) + 1] = "sui"
        BY <1>1, <2>1, AppendProperties
    <2> HIDE DEF listed
    <2>3. ASSUME NEW a
          PROVE  (\E j \in 1..Len(Requested) : Requested[j] = a)
                    <=> (a = "sui" \/ \E j \in 1..Len(listed) : listed[j] = a)
        BY <1>1, <2>2
    <2> QED BY <1>2, <2>2, <2>3 DEF Listed, listed
<1>3. CASE ~(Enabled.sui_service /\ \A i \in 1..Len(listed) : listed[i] # "sui")
    <2>1. Requested = listed
        BY <1>3 DEF Requested
    <2> QED BY <1>1, <1>3, <2>1 DEF Listed
<1> QED BY <1>2, <1>3

(* The agents of the swarm, as a set. *)
LEMMA EnabledAgentsMembers ==
    ASSUME env \in Environments
    PROVE  /\ EnabledAgents \in Seq(Known)
           /\ {EnabledAgents[i] : i \in 1..Len(EnabledAgents)}
                 = IF Due = {} THEN {"research"} ELSE Due
<1> DEFINE names == Requested
           agents == AgentsUpTo(names)[Len(names)]
<1>1. /\ agents \in Seq(Known)
      /\ \A a : (\E j \in 1..Len(agents) : agents[j] = a)
                   <=> \E j \in 1..Len(names) : names[j] = a /\ Kept(a)
    BY RequestedMembers, AgentsUpToMembers
<1>2. \A a : Kept(a) <=> a \in Known /\ Gate(a)
    BY DEF Kept, Gate, Enabled, Capability, Known
<1>3. Gate("sui") = Enabled.sui_service
    BY DEF Gate, Capability
<1>4. \A a : (\E j \in 1..Len(names) : names[j] = a /\ Kept(a)) <=> a \in Due
    BY <1>2, <1>3, RequestedMembers DEF Due
<1>5. EnabledAgents = IF agents = <<>> THEN Fallback ELSE agents
    BY DEF EnabledAgents
<1> HIDE DEF agents, names
<1>6. {agents[j] : j \in 1..Len(agents)} = Due
    BY <1>1, <1>4
<1>7. CASE agents = <<>>
    <2>1. Due = {}
        BY <1>6, <1>7
    <2>2. EnabledAgents = <<"research">> /\ Len(EnabledAgents) = 1
          /\ EnabledAgents[1] = "research"
        BY <1>5, <1>7 DEF Fallback
    <2>3. {EnabledAgents[i] : i \in 1..Len(EnabledAgents)} = {"research"}
        BY <2>2
    <2> QED BY <2>1, <2>2, <2>3 DEF Known
<1>8. CASE agents # <<>>
    <2>1. Len(agents) \in Nat /\ Len(agents) # 0
        BY <1>1, <1>8, LenProperties, EmptySeq
    <2>2. agents[1] \in Due
        BY <1>6, <2>1
    <2> QED BY <1>1, <1>5, <1>6, <1>8, <2>2
<1> QED BY <1>7, <1>8

-----------------------------------------------------------------------------
(* What follows from the swarm being assembled as it should be.              *)
LEMMA AssembledAsConfigured ==
    ASSUME AssemblyTypeOK, AssembledInv
    PROVE  SwarmIsAsConfigured
<1> SUFFICES ASSUME stage = "serving"
             PROVE  /\ Members = IF Due = {} THEN {"research"} ELSE Due
                    /\ Len(swarm) = Cardinality(Members)
    BY DEF SwarmIsAsConfigured, Due, Listed
<1>1. env \in Environments /\ swarm = EnabledAgents /\ Distinct(swarm) /\ swarm \in Seq(Known)
    BY DEF AssemblyTypeOK, AssembledInv
<1>2. Members = IF Due = {} THEN {"research"} ELSE Due
    BY <1>1, EnabledAgentsMembers DEF Members
<1> DEFINE n == Len(swarm)
<1>3. n \in Nat /\ swarm \in [1..n -> Known]
    BY <1>1, LenProperties
<1>4. swarm \in Injection(1..n, Members) /\ swarm \in Surjection(1..n, Members)
    BY <1>1, <1>3 DEF Distinct, Members, Injection, IsInjective, Surjection
<1>5. IsFiniteSet(1..n) /\ Cardinality(1..n) = n
    BY <1>3, FS_Interval
<1>6. Cardinality(Members) = n
    BY <1>4, <1>5, FS_Surjection
<1> QED BY <1>2, <1>6

(* The tools of a member are its group and the system tools. *)
LEMMA ToolsOfMembers ==
    ASSUME AssembledInv, stage = "serving", NEW a \in Known
    PROVE  /\ a \in Members => \E tavily \in BOOLEAN : tools[a] = Group(a, tavily) \cup {"system"}
           /\ a \notin Members => tools[a] = {}
BY DEF AssembledInv, Members

LEMMA AssembledHasTools ==
    ASSUME AssemblyTypeOK, AssembledInv
    PROVE  AgentsHaveTheirTools
<1> SUFFICES ASSUME stage = "serving", NEW a \in Members, a # "research"
             PROVE  a \in tools[a]
    BY DEF AgentsHaveTheirTools
<1>1. a \in Due
    BY AssembledAsConfigured DEF SwarmIsAsConfigured, Due, Listed
<1>2. PICK tavily \in BOOLEAN : tools[a] = Group(a, tavily) \cup {"system"}
    BY <1>1, ToolsOfMembers DEF Due
<1>3. a \in {"market", "sui"} /\ Gate(a)
    BY <1>1 DEF Due, Known
<1> QED BY <1>2, <1>3 DEF Group, Gate, Capability

LEMMA AssembledReports ==
    ASSUME AssemblyTypeOK, AssembledInv
    PROVE  ReportTellsTheSwarm
<1> SUFFICES ASSUME stage = "serving" PROVE ReportTellsTheSwarm!2
    BY DEF ReportTellsTheSwarm
<1>1. Reported("llm")
    BY DEF AssembledInv, Reported
<1>2. \A a \in Known : Reported(Capability[a]) = Gate(a)
    BY DEF Reported, Capability, Gate, Known
<1>3. ASSUME NEW a \in Known, a \in Members, ~Gate(a)
      PROVE  tools[a] = {"system"}
    <2>1. PICK tavily \in BOOLEAN : tools[a] = Group(a, tavily) \cup {"system"}
        BY <1>3, ToolsOfMembers
    <2>2. Group(a, tavily) = {}
        BY <1>3 DEF Group, Gate, Capability, Known
    <2> QED BY <2>1, <2>2
<1>4. ASSUME NEW a \in Known \ {"research"}, Gate(a), a = "sui" \/ a \in Listed
      PROVE  a \in tools[a]
    <2>1. a \in Due
        BY <1>4 DEF Due
    <2>2. a \in Members
        BY <2>1, AssembledAsConfigured DEF SwarmIsAsConfigured, Due, Listed
    <2> QED BY <2>2, AssembledHasTools DEF AgentsHaveTheirTools
<1> QED BY <1>1, <1>2, <1>3, <1>4 DEF Listed

LEMMA AssembledModels ==
    ASSUME AssemblyTypeOK, AssembledInv
    PROVE  ModelsAsConfigured
<1> SUFFICES ASSUME stage = "serving" PROVE ModelsAsConfigured!2
    BY DEF ModelsAsConfigured
<1> DEFINE llm == Overridden(Normalised(env.llm), env.flags)
<1>1. env.llm \in Llm /\ env.flags \in Flags
    BY AssemblyAssumption DEF AssemblyTypeOK, IsEnvironment
<1>2. models = [role \in Roles |-> [prefix |-> llm.prefix, temperature |-> llm.temperature[role]]]
    BY DEF AssembledInv, ChatModel
<1>3. Normalised(env.llm) \in Llm /\ Normalised(env.llm).prefix # "own"
      /\ Normalised(env.llm).temperature = env.llm.temperature
    BY <1>1 DEF Normalised, Llm, Prefixes
<1>4. llm.prefix = "own" => env.flags.model = "own"
    BY <1>3 DEF Overridden
<1>5. env.flags.temperature >= 0 <=> Given(env.flags.temperature)
    <2>1. env.flags.temperature \in Nat \cup {NotGiven}
        BY <1>1, ChatModelsAssumption DEF Flags
    <2> QED BY <2>1 DEF Given, NotGiven
<1>6. /\ llm.temperature["supervisor"] = env.llm.temperature["supervisor"]
      /\ llm.temperature["worker"] =
            IF Given(env.flags.temperature) THEN env.flags.temperature
            ELSE env.llm.temperature["worker"]
    <2>1. env.llm.temperature \in [Roles -> Temperatures]
        BY <1>1 DEF Llm
    <2> QED BY <1>3, <2>1 DEF Overridden, Roles
<1> HIDE DEF llm
<1> QED BY <1>2, <1>4, <1>5, <1>6 DEF Roles

-----------------------------------------------------------------------------
(* What is read off the environment stays as it is. *)
LEMMA EnvironmentStays ==
    ASSUME env' = env
    PROVE  /\ EnabledAgents' = EnabledAgents
           /\ \A k : Secret(k)' = Secret(k)
           /\ \A a, tavily : Group(a, tavily)' = Group(a, tavily)
           /\ Enabled' = Enabled
BY DEF EnabledAgents, AgentsUpTo, Requested, Kept, Gate, Enabled, Secret, Group, Capability

LEMMA StaysAssembled ==
    ASSUME AssembledInv, UNCHANGED <<env, stage, swarm, tools, models>>
    PROVE  AssembledInv'
BY EnvironmentStays DEF AssembledInv, Distinct

(* A step of the tracing or of the store while nothing of the assembly moves *)
(* but, perhaps, where the process is.                                       *)
LEMMA NotServing ==
    ASSUME LifespanInv, UNCHANGED <<env, swarm, tools, models, calls>>,
           stage' \in {"starting", "opened", "leaving", "closing", "flushing", "down"},
           failure' \in {"none", "ConfigError", "LLMError", "ValueError", "StoreError", "CloseError"}
    PROVE  AssemblyTypeOK' /\ AssembledInv' /\ NoMidRunSurprise'
BY DEF LifespanInv, LifespanTypeOK, AssemblyTypeOK, AssembledInv, NoMidRunSurprise

LEMMA StartKeepsInv ==
    ASSUME LifespanInv, Start PROVE LifespanInv'
<1>1. /\ LifespanTypeOK /\ GraphOnOpenSaver /\ stage = "down" /\ saver = 0
      /\ stage' = "starting" /\ failure' = "none" /\ calls' = {}
      /\ UNCHANGED <<env, swarm, tools, models, unsent, flush, saver, graph>>
      /\ life' = life + 1 /\ life < MaxLives
    BY DEF LifespanInv, StoreInv, GraphOnOpenSaver, Start, avars
<1>2. AssemblyTypeOK' /\ AssembledInv' /\ NoMidRunSurprise'
    BY <1>1 DEF LifespanTypeOK, AssemblyTypeOK, AssembledInv, NoMidRunSurprise
<1>3. configured' \in BOOLEAN /\ (configured => configured')
    BY <1>1 DEF LifespanTypeOK, LangfuseTypeOK, Start, ConfigureLangfuse, StaysConfigured
<1>4. LifespanTypeOK'
    BY <1>1, <1>2, <1>3, LifespanAssumption DEF LifespanTypeOK, LangfuseTypeOK
<1>5. StoreInv' /\ TraceInv'
    BY <1>1, <1>3
    DEF LifespanInv, StoreInv, GraphOnOpenSaver, TraceInv, TracesAreFlushed
<1> QED BY <1>2, <1>4, <1>5 DEF LifespanInv

LEMMA OpenStoreKeepsInv ==
    ASSUME LifespanInv, OpenStore PROVE LifespanInv'
<1>1. /\ LifespanTypeOK /\ GraphOnOpenSaver /\ TraceInv /\ stage = "starting" /\ saver = 0
      /\ stage' \in {"opened", "leaving"}
      /\ failure' \in {failure, "ConfigError", "StoreError"}
      /\ UNCHANGED <<env, swarm, tools, models, calls, configured, unsent, flush, life, graph>>
      /\ saver' \in {saver, life} /\ (stage' = "opened" => saver' = life)
    BY DEF LifespanInv, StoreInv, GraphOnOpenSaver, OpenStore, Goes, Fails, avars, lvars
<1>2. AssemblyTypeOK' /\ AssembledInv' /\ NoMidRunSurprise'
    BY <1>1, NotServing DEF LifespanTypeOK, AssemblyTypeOK
<1>3. LifespanTypeOK'
    BY <1>1, <1>2, LifespanAssumption DEF LifespanTypeOK, LangfuseTypeOK
<1>4. StoreInv' /\ TraceInv'
    BY <1>1 DEF StoreInv, GraphOnOpenSaver, TraceInv, TracesAreFlushed
<1> QED BY <1>2, <1>3, <1>4 DEF LifespanInv

(* The graph is built, or the start fails. *)
LEMMA BuildKeepsInv ==
    ASSUME LifespanInv, Build PROVE LifespanInv'
<1>0. /\ LifespanTypeOK /\ AssemblyTypeOK /\ GraphOnOpenSaver /\ TraceInv /\ stage = "opened"
      /\ saver = life /\ UNCHANGED <<env, calls, configured, unsent, flush, life, saver>>
      /\ NoMidRunSurprise
    BY DEF LifespanInv, LifespanTypeOK, StoreInv, GraphOnOpenSaver, Build, BuildGraph, Fails, lvars
<1>1. \/ /\ stage' = "leaving" /\ failure' \in {"ConfigError", "LLMError", "ValueError"}
         /\ UNCHANGED <<swarm, tools, models, graph>>
      \/ /\ stage' = "serving" /\ failure' = failure /\ graph' = life
         /\ Secret("llm") # "unset" /\ Distinct(EnabledAgents) /\ swarm' = EnabledAgents
         /\ models' = [role \in Roles |->
               ChatModel(Overridden(Normalised(env.llm), env.flags), role)]
         /\ \E tavily \in BOOLEAN :
               tools' = [a \in Known |->
                            IF \E i \in 1..Len(swarm') : swarm'[i] = a
                            THEN Group(a, tavily) \cup {"system"} ELSE {}]
    BY DEF Build, BuildGraph, Fails
<1>2. StoreInv' /\ TraceInv'
    BY <1>0, <1>1 DEF StoreInv, GraphOnOpenSaver, TraceInv, TracesAreFlushed
<1>3. CASE stage' = "leaving"
    <2>1. AssemblyTypeOK' /\ AssembledInv' /\ NoMidRunSurprise'
        BY <1>0, <1>1, <1>3, NotServing
    <2>2. LifespanTypeOK'
        BY <1>0, <1>1, <1>3, <2>1 DEF LifespanTypeOK, LangfuseTypeOK
    <2> QED BY <1>2, <2>1, <2>2 DEF LifespanInv
<1>4. CASE stage' = "serving"
    <2>1. AssembledInv'
        BY <1>0, <1>1, <1>4, EnvironmentStays DEF AssembledInv, Distinct
    <2>2. swarm' \in Seq(Known)
        BY <1>0, <1>1, <1>4, EnabledAgentsMembers DEF AssemblyTypeOK
    <2>3. models' \in [Roles -> ChatModelType]
        <3>1. env.llm \in Llm /\ env.flags \in Flags
            BY <1>0, AssemblyAssumption DEF AssemblyTypeOK, IsEnvironment
        <3> DEFINE llm == Overridden(Normalised(env.llm), env.flags)
        <3>2. Normalised(env.llm) \in Llm
            BY <3>1 DEF Normalised, Llm, Prefixes
        <3>3. env.flags.temperature \in Temperatures \cup {NotGiven}
              /\ env.flags.model \in Prefixes \cup {"absent", "blank"}
            BY <3>1 DEF Flags
        <3>4. llm.prefix \in Prefixes
            BY <3>2, <3>3 DEF Overridden, Llm
        <3>5. llm.temperature \in [Roles -> Temperatures]
            BY <3>2, <3>3 DEF Overridden, Llm, Given
        <3> HIDE DEF llm
        <3> QED BY <1>1, <1>4, <3>4, <3>5 DEF ChatModel, ChatModelType, llm
    <2>4. tools' \in [Known -> SUBSET {"market", "web", "sui", "system"}]
        <3>1. \A a \in Known, tavily \in BOOLEAN : Group(a, tavily) \subseteq {"market", "web", "sui"}
            BY DEF Group, Known
        <3> QED BY <1>1, <1>4, <3>1
    <2>5. AssemblyTypeOK' /\ NoMidRunSurprise'
        BY <1>0, <1>1, <1>4, <2>2, <2>3, <2>4 DEF AssemblyTypeOK, NoMidRunSurprise
    <2>6. LifespanTypeOK'
        BY <1>0, <1>1, <1>4, <2>5, LifespanAssumption DEF LifespanTypeOK, LangfuseTypeOK
    <2> QED BY <1>2, <2>1, <2>5, <2>6 DEF LifespanInv
<1> QED BY <1>1, <1>3, <1>4

(* Nothing moves but the traces: a turn, or the client's own export. *)
LEMMA TracesKeepInv ==
    ASSUME LifespanInv, Turn \/ BackgroundExport PROVE LifespanInv'
<1>1. /\ LifespanTypeOK /\ TraceInv
      /\ UNCHANGED <<env, stage, failure, swarm, tools, models, calls, flush, life, saver, graph>>
    BY DEF LifespanInv, Turn, TracedTurn, BackgroundExport, Export, vars
<1>2. AssemblyTypeOK' /\ AssembledInv' /\ NoMidRunSurprise' /\ StoreInv'
    BY <1>1, StaysAssembled
    DEF LifespanInv, LifespanTypeOK, AssemblyTypeOK, NoMidRunSurprise, StoreInv, GraphOnOpenSaver
<1>3. /\ configured' \in BOOLEAN /\ (configured => configured')
      /\ unsent' \in BOOLEAN /\ (unsent' => configured')
      /\ stage = "serving" \/ (unsent' => unsent)
    <2>0. configured \in BOOLEAN /\ unsent \in BOOLEAN /\ (unsent => configured)
        BY <1>1 DEF LifespanTypeOK, LangfuseTypeOK, TraceInv
    <2>1. CASE Turn
        <3>1. stage = "serving" /\ TracedTurn(Enabled.langfuse)
            BY <2>1 DEF Turn
        <3>2. configured' \in IF ~Enabled.langfuse THEN {configured}
                              ELSE IF configured THEN {TRUE} ELSE BOOLEAN
            BY <3>1 DEF TracedTurn, ConfigureLangfuse, StaysConfigured
        <3>3. configured' \in BOOLEAN /\ (configured => configured')
            BY <2>0, <3>2
        <3>4. (configured' /\ unsent' = TRUE) \/ unsent' = unsent
            BY <3>1 DEF TracedTurn
        <3>5. unsent' \in BOOLEAN /\ (unsent' => configured')
            <4>1. CASE configured' /\ unsent' = TRUE
                BY <4>1
            <4>2. CASE unsent' = unsent
                BY <2>0, <3>3, <4>2, Zenon
            <4> QED BY <3>4, <4>1, <4>2
        <3> QED BY <3>1, <3>3, <3>5
    <2>2. CASE BackgroundExport
        BY <2>0, <2>2 DEF BackgroundExport, Export
    <2> QED BY <2>1, <2>2
<1>4. LifespanTypeOK'
    BY <1>1, <1>2, <1>3 DEF LifespanTypeOK, LangfuseTypeOK
<1>5. TraceInv'
    BY <1>1, <1>3 DEF TraceInv, TracesAreFlushed
<1> QED BY <1>2, <1>4, <1>5 DEF LifespanInv

(* A tool that is registered passes its client's gate: both look at the same *)
(* settings, which stay.                                                     *)
LEMMA UseToolKeepsInv ==
    ASSUME LifespanInv, UseTool PROVE LifespanInv'
<1>1. /\ LifespanTypeOK /\ AssemblyTypeOK /\ AssembledInv /\ NoMidRunSurprise /\ StoreInv /\ TraceInv
      /\ UNCHANGED <<env, stage, failure, swarm, tools, models>>
      /\ UNCHANGED <<configured, unsent, flush, life, saver, graph>>
    BY DEF LifespanInv, LifespanTypeOK, UseTool, CallTool, AskMarket, SuiServiceRequest, Called, lvars
<1> DEFINE Honest == {call \in [tool : {"market", "sui"}, method : Methods, result : Results] :
                      (call.result = "ConfigError")
                         <=> (call.tool = "sui" /\ call.method # "GET" /\ ~env.allow_writes)}
<1>2. \E call \in Honest : calls' = calls \cup {call}
    <2>1. ASSUME NEW end \in Ends, AskMarket(end) PROVE \E call \in Honest : calls' = calls \cup {call}
        <3>1. stage = "serving" /\ "market" \in tools["market"]
            BY <2>1 DEF AskMarket
        <3>2. Enabled.coingecko
            <4>1. PICK tavily \in BOOLEAN : tools["market"] = Group("market", tavily) \cup {"system"}
                BY <1>1, <3>1, ToolsOfMembers DEF Known
            <4> QED BY <3>1, <4>1 DEF Group
        <3>3. calls' = calls \cup {[tool |-> "market", method |-> "GET", result |-> end]}
            BY <2>1, <3>2 DEF AskMarket, Called
        <3>4. [tool |-> "market", method |-> "GET", result |-> end] \in Honest
            BY DEF Ends, Results, Methods
        <3> QED BY <3>3, <3>4
    <2>2. ASSUME NEW end \in Ends, NEW method \in Methods, SuiServiceRequest(method, end)
          PROVE  \E call \in Honest : calls' = calls \cup {call}
        <3>1. stage = "serving" /\ "sui" \in tools["sui"]
            BY <2>2 DEF SuiServiceRequest
        <3>2. Enabled.sui_service
            <4>1. PICK tavily \in BOOLEAN : tools["sui"] = Group("sui", tavily) \cup {"system"}
                BY <1>1, <3>1, ToolsOfMembers DEF Known
            <4> QED BY <3>1, <4>1 DEF Group
        <3> DEFINE result == IF method \in Writes /\ ~env.allow_writes THEN "ConfigError"
                             ELSE IF end \in {"RateLimitedError", "UpstreamAPIError"}
                                  THEN "SuiServiceError" ELSE end
        <3>3. calls' = calls \cup {[tool |-> "sui", method |-> method, result |-> result]}
            BY <2>2, <3>2 DEF SuiServiceRequest, Called
        <3>4. /\ result \in Results
              /\ result = "ConfigError" <=> (method # "GET" /\ ~env.allow_writes)
            BY DEF Ends, Results, Writes, Methods
        <3> HIDE DEF result
        <3>5. [tool |-> "sui", method |-> method, result |-> result] \in Honest
            BY <3>4
        <3> QED BY <3>3, <3>5
    <2> QED BY <2>1, <2>2 DEF UseTool, CallTool
<1>3. NoMidRunSurprise' /\ AssemblyTypeOK'
    BY <1>1, <1>2 DEF NoMidRunSurprise, AssemblyTypeOK
<1>4. LifespanTypeOK' /\ StoreInv' /\ TraceInv'
    BY <1>1, <1>3
    DEF LifespanTypeOK, LangfuseTypeOK, StoreInv, GraphOnOpenSaver, TraceInv, TracesAreFlushed
<1> QED BY <1>1, <1>3, <1>4, StaysAssembled DEF LifespanInv

(* The way down: the checkpointer is closed whatever happens; where the API  *)
(* skips the flush, something was raised.                                    *)
LEMMA WayDownKeepsInv ==
    ASSUME LifespanInv, Stop \/ LeaveStore \/ CloseClients \/ Flush PROVE LifespanInv'
<1>1. /\ LifespanTypeOK /\ AssemblyTypeOK /\ StoreInv /\ TraceInv /\ env.app \in {"api", "cli"}
      /\ UNCHANGED <<env, swarm, tools, models, calls, life, graph>>
    BY AssemblyAssumption
    DEF LifespanInv, LifespanTypeOK, AssemblyTypeOK, IsEnvironment, Stop, LeaveStore, CloseClients, Flush, avars
<1>2. /\ stage' \in {"leaving", "closing", "flushing", "down"}
      /\ failure' \in {failure, "CloseError"} /\ saver' \in {saver, 0}
      /\ stage' # "leaving" => saver' = 0
      /\ stage' = "closing" => env.app = "api"
    BY <1>1
    DEF Stop, LeaveStore, CloseClients, Flush, Goes, After, Left, StoreInv, GraphOnOpenSaver, TraceInv
<1>3. /\ flush' \in {"none", "done", "failed"} /\ unsent' \in BOOLEAN /\ configured' = configured
      /\ unsent' => unsent
    <2>0. LangfuseTypeOK
        BY <1>1 DEF LifespanTypeOK
    <2>1. CASE Flush
        <3>1. configured' = configured /\ flush' \in {"none", "done", "failed"}
            BY <2>1 DEF Flush, FlushLangfuse
        <3>2. unsent' = FALSE \/ unsent' = unsent
            BY <2>1 DEF Flush, FlushLangfuse
        <3>3. unsent' \in BOOLEAN /\ (unsent' => unsent)
            <4>1. CASE unsent' = FALSE
                BY <4>1
            <4>2. CASE unsent' = unsent
                BY <2>0, <4>2, Zenon DEF LangfuseTypeOK
            <4> QED BY <3>2, <4>1, <4>2
        <3> QED BY <3>1, <3>3
    <2>2. CASE UNCHANGED <<configured, unsent, flush>>
        BY <2>0, <2>2 DEF LangfuseTypeOK
    <2> QED BY <2>1, <2>2 DEF Stop, LeaveStore, CloseClients, lvars
<1>4. stage' = "down" /\ unsent' => flush' = "failed" \/ (env.app = "api" /\ failure' # "none")
    <2>1. CASE Flush
        BY <1>1, <2>1 DEF Flush, FlushLangfuse, TraceInv
    <2>2. CASE LeaveStore
        BY <1>1, <2>2 DEF LeaveStore, After
    <2>3. CASE CloseClients
        BY <1>1, <2>3 DEF CloseClients, Goes, TraceInv
    <2>4. CASE Stop
        BY <2>4 DEF Stop, Goes
    <2> QED BY <2>1, <2>2, <2>3, <2>4
<1>5. AssemblyTypeOK' /\ AssembledInv' /\ NoMidRunSurprise'
    BY <1>1, <1>2, NotServing DEF AssemblyTypeOK
<1>6. LifespanTypeOK'
    BY <1>1, <1>2, <1>3, <1>5, LifespanAssumption DEF LifespanTypeOK, LangfuseTypeOK
<1>7. StoreInv' /\ TraceInv'
    BY <1>1, <1>2, <1>3, <1>4 DEF StoreInv, GraphOnOpenSaver, TraceInv, TracesAreFlushed
<1> QED BY <1>5, <1>6, <1>7 DEF LifespanInv

LEMMA LifespanInvInit == LifespanInit => LifespanInv
<1> SUFFICES ASSUME LifespanInit PROVE LifespanInv
    OBVIOUS
<1>1. AssemblyTypeOK /\ LangfuseTypeOK
    BY EmptySeq DEF LifespanInit, AssemblyInit, LangfuseInit, AssemblyTypeOK, LangfuseTypeOK
<1>2. LifespanTypeOK
    BY <1>1, LifespanAssumption DEF LifespanInit, LifespanTypeOK
<1>3. AssembledInv /\ NoMidRunSurprise /\ StoreInv /\ TraceInv
    BY DEF LifespanInit, AssemblyInit, LangfuseInit, AssembledInv, NoMidRunSurprise, StoreInv,
           GraphOnOpenSaver, TraceInv, TracesAreFlushed
<1> QED BY <1>2, <1>3 DEF LifespanInv

LEMMA LifespanInvStep == LifespanInv /\ [LifespanNext]_allvars => LifespanInv'
<1> SUFFICES ASSUME LifespanInv, [LifespanNext]_allvars PROVE LifespanInv'
    OBVIOUS
<1>1. CASE LifespanNext
    BY <1>1, StartKeepsInv, OpenStoreKeepsInv, BuildKeepsInv, TracesKeepInv, UseToolKeepsInv,
       WayDownKeepsInv
    DEF LifespanNext
<1>2. CASE UNCHANGED allvars
    BY <1>2, StaysAssembled
    DEF allvars, vars, lvars, LifespanInv, LifespanTypeOK, AssemblyTypeOK, LangfuseTypeOK,
        NoMidRunSurprise, StoreInv, GraphOnOpenSaver, TraceInv, TracesAreFlushed
<1> QED BY <1>1, <1>2

LEMMA LifespanInvHolds == LifespanSpec => []LifespanInv
BY LifespanInvInit, LifespanInvStep, PTL DEF LifespanSpec

-----------------------------------------------------------------------------
(* The variables keep their types: what build_graph makes of any environment *)
(* is a sequence of known agents, with tools and models of the kinds there   *)
(* are.                                                                      *)
THEOREM LifespanTypeCorrect == LifespanSpec => []LifespanTypeOK
<1>1. LifespanInv => LifespanTypeOK
    BY DEF LifespanInv
<1> QED BY <1>1, LifespanInvHolds, PTL

(* For every list of names and every set of credentials, the swarm has       *)
(* exactly the agents it should have, each once.                             *)
THEOREM SwarmIsTheConfigured == LifespanSpec => []SwarmIsAsConfigured
<1>1. LifespanInv => SwarmIsAsConfigured
    BY AssembledAsConfigured DEF LifespanInv, LifespanTypeOK
<1> QED BY <1>1, LifespanInvHolds, PTL

(* A registered tool fails for want of configuration only where writes are   *)
(* forbidden.                                                                *)
THEOREM GatesAgreeWithClients == LifespanSpec => []NoMidRunSurprise
<1>1. LifespanInv => NoMidRunSurprise
    BY DEF LifespanInv
<1> QED BY <1>1, LifespanInvHolds, PTL

(* Every agent but the research agent has the tools of its trade. *)
THEOREM GatesAgreeWithTools == LifespanSpec => []AgentsHaveTheirTools
<1>1. LifespanInv => AgentsHaveTheirTools
    BY AssembledHasTools DEF LifespanInv, LifespanTypeOK
<1> QED BY <1>1, LifespanInvHolds, PTL

(* The models are those that the settings and the flags name. *)
THEOREM RolesHaveTheirModels == LifespanSpec => []ModelsAsConfigured
<1>1. LifespanInv => ModelsAsConfigured
    BY AssembledModels DEF LifespanInv, LifespanTypeOK
<1> QED BY <1>1, LifespanInvHolds, PTL

(* /healthz and `config` tell what the swarm can do. *)
THEOREM ReportIsTrue == LifespanSpec => []ReportTellsTheSwarm
<1>1. LifespanInv => ReportTellsTheSwarm
    BY AssembledReports DEF LifespanInv, LifespanTypeOK
<1> QED BY <1>1, LifespanInvHolds, PTL

(* Unsent traces at the end are due to a failed flush or a failed shutdown.  *)
THEOREM NoTraceIsForgotten == LifespanSpec => []TracesAreFlushed
<1>1. LifespanInv => TracesAreFlushed
    BY DEF LifespanInv, TraceInv
<1> QED BY <1>1, LifespanInvHolds, PTL

(* Turns run on this life's graph and open checkpointer, which is closed     *)
(* before anything else is.                                                  *)
THEOREM CheckpointersAreClosed == LifespanSpec => []GraphOnOpenSaver
<1>1. LifespanInv => GraphOnOpenSaver
    BY DEF LifespanInv, StoreInv
<1> QED BY <1>1, LifespanInvHolds, PTL
=============================================================================
