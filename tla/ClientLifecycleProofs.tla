------------------------ MODULE ClientLifecycleProofs ------------------------
(* The safety of ClientLifecycle, for any number of tasks and of lives of    *)
(* the process.                                                              *)
EXTENDS ClientLifecycle, SequenceTheorems, TLAPS

(* A task has a client exactly while it is under way, and a life ends only   *)
(* when none is.                                                             *)
TaskInv ==
    /\ \A t \in Tasks : task[t].at = "none" \/ task[t].client = 0 => task[t] = NoTask
    /\ stage # "serving" => \A t \in Tasks : task[t] = NoTask
    /\ stage # "down" => loop > 0

(* No client, pool or lock comes from a loop that is still to run; a pool is *)
(* open exactly when it is of this loop.                                     *)
AgeInv ==
    \A c \in Clients :
        /\ born[c] <= loop
        /\ bound[c] # 0 => bound[c] \in born[c]..loop
        /\ pool[c] <= loop /\ (c \in open <=> pool[c] = loop)

(* close_clients() has not yet come to the family in this life. *)
Unclosed(f) == stage \in {"serving", "coingecko", f}

(* Every client has a service that holds it.  A singleton is younger than    *)
(* the other clients its family's services hold; where there is none, they   *)
(* are of earlier lives, until the family is closed.                         *)
HeldInv ==
    /\ \A c \in Clients : \E s \in Services : held[s] = c
    /\ \A s \in Services :
          LET f == FamilyOf(s) IN
          held[s] # 0 =>
              /\ singleton[f] # 0 =>
                     held[s] = singleton[f] \/ born[held[s]] < born[singleton[f]]
              /\ singleton[f] = 0 /\ Unclosed(f) => born[held[s]] < loop

(* Where a family's client was closed and forgotten, what is still open of   *)
(* the family is of an earlier life.                                         *)
ClosedInv ==
    /\ stage = "sui" => singleton["coingecko"] = 0
    /\ released => stage = "down" /\ \A f \in Families : singleton[f] = 0
    /\ \A s \in Services :
          singleton[FamilyOf(s)] = 0 /\ held[s] \in open => born[held[s]] < loop

LifecycleInv ==
    /\ LifecycleTypeOK
    /\ TaskInv
    /\ AgeInv
    /\ HeldInv
    /\ ClosedInv
    /\ PoolOnOwnLoop
    /\ OnlyVeteransRefuse

-----------------------------------------------------------------------------
(* The clients as they are numbered: born, pool and bound grow together.     *)
Grown(g, f, n, S, x) ==
    g \in [1..n + 1 -> S] /\ g[n + 1] = x /\ \A i \in 1..n : g[i] = f[i]

LEMMA AppendToTable ==
    ASSUME NEW n \in Nat, NEW S, NEW f \in [1..n -> S], NEW x \in S
    PROVE  Grown(Append(f, x), f, n, S, x)
<1>1. f \in Seq(S) /\ Len(f) = n
    BY IsASeq, LenProperties
<1>2. /\ Append(f, x) \in Seq(S) /\ Len(Append(f, x)) = n + 1
      /\ Append(f, x)[n + 1] = x /\ \A i \in 1..n : Append(f, x)[i] = f[i]
    BY <1>1, AppendProperties
<1> QED BY <1>2, LenProperties DEF Grown

LEMMA ClientsAreNumbered ==
    ASSUME LifecycleTypeOK
    PROVE  /\ Len(born) \in Nat /\ Clients = 1..Len(born)
           /\ born \in [1..Len(born) -> 1..MaxLoops]
           /\ loop \in Nat
BY LenProperties, LifecycleAssumption DEF LifecycleTypeOK, Clients

(* A client that is held and not the singleton is of an earlier life, unless *)
(* its family was closed in this one.                                        *)
LEMMA HeldAreOlder ==
    ASSUME LifecycleInv, NEW s \in Services, held[s] # 0,
           held[s] # singleton[FamilyOf(s)],
           singleton[FamilyOf(s)] # 0 \/ Unclosed(FamilyOf(s))
    PROVE  born[held[s]] < loop
<1> DEFINE one == singleton[FamilyOf(s)]
<1>0. LifecycleTypeOK /\ AgeInv /\ HeldInv
    BY DEF LifecycleInv
<1>1. /\ one \in 0..Len(born) /\ held[s] \in Clients /\ Clients = 1..Len(born)
      /\ born \in [1..Len(born) -> 1..MaxLoops] /\ loop \in Nat /\ Len(born) \in Nat
    BY <1>0, ClientsAreNumbered DEF LifecycleTypeOK, FamilyOf, Families
<1>2. CASE one = 0
    BY <1>0, <1>2 DEF HeldInv
<1>3. CASE one # 0
    <2>1. born[held[s]] < born[one]
        BY <1>0, <1>3 DEF HeldInv
    <2>2. one \in Clients /\ born[one] \in Nat /\ born[held[s]] \in Nat
        BY <1>1, <1>3
    <2>3. born[one] <= loop
        BY <1>0, <2>2 DEF AgeInv
    <2> QED BY <1>1, <2>1, <2>2, <2>3
<1> QED BY <1>2, <1>3

(* Where a task is, after it moved. *)
LEMMA TaskMoves ==
    ASSUME LifecycleTypeOK, TaskInv, NEW t \in Tasks, task[t] # NoTask,
           NEW at \in Places, task' = [task EXCEPT ![t].at = at]
    PROVE  /\ task' \in [Tasks -> [client : 0..Len(born), at : Places]]
           /\ task'[t].at = at /\ task'[t].client = task[t].client
           /\ \A u \in Tasks \ {t} : task'[u] = task[u]
           /\ task[t].client \in Clients
<1>1. task[t] \in [client : 0..Len(born), at : Places] /\ task[t].client # 0
    BY DEF LifecycleTypeOK, TaskInv
<1>2. task[t].client \in Clients
    BY <1>1, ClientsAreNumbered
<1> QED BY <1>1, <1>2 DEF LifecycleTypeOK

(* A step that moves tasks, and neither makes, closes nor forgets a client.  *)
LEMMA TaskStep ==
    ASSUME LifecycleInv, NEW t \in Tasks,
           NEW at \in Places, task' = [task EXCEPT ![t].at = at],
           task[t] # NoTask, at # "none",
           at = "sent" => pool[task[t].client] = loop /\ task[t].client \in open,
           at = "refused" => bound[task[t].client] \notin {0, loop},
           UNCHANGED <<app, loop, stage, singleton, held, born, pool, open, bound, released>>
    PROVE  LifecycleInv'
<1>0. /\ LifecycleTypeOK /\ TaskInv /\ AgeInv /\ HeldInv /\ ClosedInv
      /\ PoolOnOwnLoop /\ OnlyVeteransRefuse
      /\ Len(born) \in Nat /\ Clients = 1..Len(born) /\ loop \in Nat
    BY ClientsAreNumbered DEF LifecycleInv
<1>1. /\ task' \in [Tasks -> [client : 0..Len(born), at : Places]]
      /\ task'[t].at = at /\ task'[t].client = task[t].client
      /\ \A u \in Tasks \ {t} : task'[u] = task[u]
      /\ task[t].client \in Clients
    BY <1>0, TaskMoves
<1>2. LifecycleTypeOK'
    BY <1>0, <1>1 DEF LifecycleTypeOK, Clients
<1>3. TaskInv'
    BY <1>0, <1>1 DEF TaskInv, NoTask
<1>4. PoolOnOwnLoop'
    BY <1>0, <1>1 DEF PoolOnOwnLoop, At
<1>5. OnlyVeteransRefuse'
    <2>1. ASSUME NEW u \in Tasks, task'[u].at = "refused"
          PROVE  born[task'[u].client] < loop
                 /\ bound[task'[u].client] \in born[task'[u].client]..loop - 1
        <3>1. CASE u = t
            <4> DEFINE c == task[t].client
            <4>1. bound[c] \in born[c]..loop /\ bound[c] # loop
                BY <1>0, <1>1, <2>1, <3>1 DEF AgeInv
            <4>2. born[c] \in Nat
                BY <1>0, <1>1, ClientsAreNumbered
            <4> QED BY <1>0, <1>1, <3>1, <4>1, <4>2
        <3>2. CASE u # t
            BY <1>0, <1>1, <2>1, <3>2 DEF OnlyVeteransRefuse, At
        <3> QED BY <3>1, <3>2
    <2> QED BY <2>1 DEF OnlyVeteransRefuse, At
<1>6. AgeInv' /\ HeldInv' /\ ClosedInv'
    BY <1>0 DEF AgeInv, HeldInv, ClosedInv, Unclosed, Clients
<1> QED BY <1>2, <1>3, <1>4, <1>5, <1>6 DEF LifecycleInv

LEMMA PaceAgainKeepInv ==
    ASSUME LifecycleInv, NEW t \in Tasks, Pace(t) \/ Again(t)
    PROVE  LifecycleInv'
<1>1. task[t] # NoTask
    BY DEF Pace, Admitted, Again, At, NoTask
<1>2. \E at \in {"pacing", "ready"} : task' = [task EXCEPT ![t].at = at]
    BY DEF Pace, Again, Moves
<1> QED BY <1>1, <1>2, TaskStep DEF Pace, Again, Places

LEMMA FinishKeepsInv ==
    ASSUME LifecycleInv, NEW t \in Tasks, Finish(t)
    PROVE  LifecycleInv'
<1>0. /\ LifecycleTypeOK /\ TaskInv /\ AgeInv /\ HeldInv /\ ClosedInv
      /\ PoolOnOwnLoop /\ OnlyVeteransRefuse
      /\ Len(born) \in Nat
    BY ClientsAreNumbered DEF LifecycleInv
<1>1. /\ task' = [task EXCEPT ![t] = NoTask] /\ task'[t] = NoTask
      /\ UNCHANGED <<app, loop, stage, singleton, held, born, pool, open, bound, released>>
      /\ NoTask \in [client : 0..Len(born), at : Places]
      /\ \A u \in Tasks \ {t} : task'[u] = task[u]
    BY <1>0 DEF Finish, LifecycleTypeOK, NoTask, Places
<1>2. LifecycleTypeOK'
    BY <1>0, <1>1 DEF LifecycleTypeOK, Clients
<1>3. TaskInv' /\ PoolOnOwnLoop' /\ OnlyVeteransRefuse'
    BY <1>0, <1>1 DEF TaskInv, PoolOnOwnLoop, OnlyVeteransRefuse, At, NoTask
<1>4. AgeInv' /\ HeldInv' /\ ClosedInv'
    BY <1>0, <1>1 DEF AgeInv, HeldInv, ClosedInv, Unclosed, Clients
<1> QED BY <1>2, <1>3, <1>4 DEF LifecycleInv

LEMMA QueueKeepsInv ==
    ASSUME LifecycleInv, NEW t \in Tasks, Queue(t)
    PROVE  LifecycleInv'
<1> DEFINE c == task[t].client
<1>0. /\ LifecycleTypeOK /\ TaskInv /\ AgeInv /\ HeldInv /\ ClosedInv
      /\ PoolOnOwnLoop /\ OnlyVeteransRefuse
      /\ Len(born) \in Nat /\ Clients = 1..Len(born) /\ loop \in Nat
    BY ClientsAreNumbered DEF LifecycleInv
<1>1. task[t] # NoTask
    BY DEF Queue, At, NoTask
<1>2. CASE Moves(t, "refused") /\ bound[c] \notin {0, loop} /\ UNCHANGED bound
    BY <1>1, <1>2, TaskStep DEF Queue, Moves, Places
<1>3. CASE /\ Moves(t, "queued") /\ bound[c] \in {0, loop}
           /\ bound' = [bound EXCEPT ![c] = loop]
    <2>1. /\ task' \in [Tasks -> [client : 0..Len(born), at : Places]]
          /\ task'[t].at = "queued" /\ task'[t].client = task[t].client
          /\ \A u \in Tasks \ {t} : task'[u] = task[u]
          /\ task[t].client \in Clients
        BY <1>0, <1>1, <1>3, TaskMoves DEF Moves, Places
    <2>2. UNCHANGED <<app, loop, stage, singleton, held, born, pool, open, released>>
        BY DEF Queue
    <2>3. /\ bound' \in [Clients -> 0..MaxLoops] /\ bound'[c] = loop
          /\ \A d \in Clients \ {c} : bound'[d] = bound[d]
        BY <1>0, <1>3, <2>1 DEF LifecycleTypeOK
    <2>4. LifecycleTypeOK'
        BY <1>0, <2>1, <2>2, <2>3 DEF LifecycleTypeOK, Clients
    <2>5. TaskInv' /\ PoolOnOwnLoop'
        BY <1>0, <1>1, <2>1, <2>2 DEF TaskInv, PoolOnOwnLoop, At, NoTask
    <2>6. born \in [Clients -> 1..MaxLoops]
        BY <1>0, ClientsAreNumbered
    <2>7. ASSUME NEW u \in Tasks, task'[u].at = "refused"
          PROVE  u # t /\ task[u].client # c /\ task[u].client \in Clients
        <3>1. u # t /\ task'[u] = task[u]
            BY <2>1, <2>7
        <3>2. task[u].client \in Clients
            BY <1>0, <2>7, <3>1, TaskMoves DEF LifecycleTypeOK, TaskInv, NoTask
        <3>3. bound[task[u].client] \in born[task[u].client]..loop - 1
            BY <1>0, <2>7, <3>1 DEF OnlyVeteransRefuse, At
        <3>4. born[task[u].client] > 0 /\ born[task[u].client] \in Nat
            BY <2>6, <3>2
        <3> QED BY <1>0, <1>3, <3>1, <3>2, <3>3, <3>4
    <2>8. OnlyVeteransRefuse'
        BY <1>0, <2>1, <2>2, <2>3, <2>7 DEF OnlyVeteransRefuse, At
    <2>9. AgeInv'
        <3>1. born[c] \in Nat /\ born[c] <= loop
            BY <1>0, <2>1, <2>6 DEF AgeInv
        <3> QED BY <1>0, <2>1, <2>2, <2>3, <3>1 DEF AgeInv, Clients
    <2>10. HeldInv' /\ ClosedInv'
        BY <1>0, <2>2 DEF HeldInv, ClosedInv, Unclosed, Clients
    <2> QED BY <2>4, <2>5, <2>8, <2>9, <2>10 DEF LifecycleInv
<1> QED BY <1>2, <1>3 DEF Queue, Limiter

LEMMA SendKeepsInv ==
    ASSUME LifecycleInv, NEW t \in Tasks, Send(t)
    PROVE  LifecycleInv'
<1> DEFINE c == task[t].client
<1>0. /\ LifecycleTypeOK /\ TaskInv /\ AgeInv /\ HeldInv /\ ClosedInv
      /\ PoolOnOwnLoop /\ OnlyVeteransRefuse
      /\ Len(born) \in Nat /\ Clients = 1..Len(born) /\ loop \in Nat
    BY ClientsAreNumbered DEF LifecycleInv
<1>1. /\ task[t] # NoTask /\ Moves(t, "sent")
      /\ UNCHANGED <<app, loop, stage, singleton, held, born, bound, released>>
    BY DEF Send, Admitted, At, NoTask
<1>2. /\ task' \in [Tasks -> [client : 0..Len(born), at : Places]]
      /\ task'[t].at = "sent" /\ task'[t].client = c
      /\ \A u \in Tasks \ {t} : task'[u] = task[u]
      /\ c \in Clients /\ stage = "serving"
    BY <1>0, <1>1, TaskMoves DEF Moves, Places, TaskInv
<1>3. CASE Reusable(c) /\ UNCHANGED <<pool, open>>
    <2>1. pool[c] = loop /\ c \in open
        BY <1>0, <1>2, <1>3 DEF Reusable, AgeInv
    <2> QED BY <1>1, <1>3, <2>1, TaskStep DEF Moves, Places
<1>4. CASE pool' = [pool EXCEPT ![c] = loop] /\ open' = open \cup {c}
    <2>1. /\ pool' \in [Clients -> 0..MaxLoops] /\ pool'[c] = loop
          /\ \A d \in Clients \ {c} : pool'[d] = pool[d]
          /\ open' \subseteq Clients
        BY <1>0, <1>2, <1>4 DEF LifecycleTypeOK
    <2>2. LifecycleTypeOK'
        BY <1>0, <1>1, <1>2, <2>1 DEF LifecycleTypeOK, Clients
    <2>3. TaskInv' /\ OnlyVeteransRefuse'
        BY <1>0, <1>1, <1>2 DEF TaskInv, OnlyVeteransRefuse, At, NoTask
    <2>4. PoolOnOwnLoop'
        <3>1. ASSUME NEW u \in Tasks, task'[u].at = "sent"
              PROVE  task'[u].client \in open' /\ pool'[task'[u].client] = loop
            <4>1. CASE task'[u].client = c
                BY <1>4, <2>1, <4>1
            <4>2. CASE task'[u].client # c
                <5>1. pool[task'[u].client] = loop /\ task'[u].client \in open
                    BY <1>0, <1>2, <3>1, <4>2 DEF PoolOnOwnLoop, At
                <5> QED BY <1>0, <1>4, <2>1, <4>2, <5>1 DEF LifecycleTypeOK
            <4> QED BY <4>1, <4>2
        <3> QED BY <1>1, <3>1 DEF PoolOnOwnLoop, At
    <2>5. AgeInv'
        BY <1>0, <1>1, <1>2, <1>4, <2>1 DEF AgeInv, Clients
    <2>6. HeldInv'
        BY <1>0, <1>1, <1>2 DEF HeldInv, Unclosed, Clients
    <2>7. ClosedInv'
        <3>1. ASSUME NEW s \in Services, singleton[FamilyOf(s)] = 0, held[s] = c
              PROVE  born[held[s]] < loop
            <4>1. held[s] # 0
                BY <1>0, <1>2, <3>1
            <4> QED BY <1>0, <1>2, <3>1, <4>1 DEF HeldInv, Unclosed
        <3>2. ASSUME NEW s \in Services, singleton[FamilyOf(s)] = 0, held[s] \in open
              PROVE  born[held[s]] < loop
            BY <1>0, <3>2 DEF ClosedInv
        <3>3. ~released
            BY <1>0, <1>2 DEF ClosedInv
        <3> QED BY <1>1, <1>2, <1>4, <3>1, <3>2, <3>3 DEF ClosedInv
    <2> QED BY <2>2, <2>3, <2>4, <2>5, <2>6, <2>7 DEF LifecycleInv
<1> QED BY <1>3, <1>4 DEF Send

(* The process goes down or comes up. *)
LEMMA StageKeepsInv ==
    ASSUME LifecycleInv, Start \/ Exit \/ Shutdown
    PROVE  LifecycleInv'
<1>0. /\ LifecycleTypeOK /\ TaskInv /\ AgeInv /\ HeldInv /\ ClosedInv
      /\ PoolOnOwnLoop /\ OnlyVeteransRefuse
      /\ Len(born) \in Nat /\ Clients = 1..Len(born) /\ loop \in Nat
      /\ born \in [1..Len(born) -> 1..MaxLoops]
    BY ClientsAreNumbered DEF LifecycleInv
<1>1. /\ \A t \in Tasks : task[t] = NoTask
      /\ UNCHANGED <<app, singleton, held, born, pool, bound, task>>
    BY <1>0 DEF Start, Exit, Shutdown, Quiet, TaskInv
<1>2. TaskInv' /\ PoolOnOwnLoop' /\ OnlyVeteransRefuse'
    BY <1>0, <1>1
    DEF Start, Exit, Shutdown, Quiet, TaskInv, PoolOnOwnLoop, OnlyVeteransRefuse, At, NoTask
<1>3. CASE Start
    <2>1. /\ loop' = loop + 1 /\ loop' \in 0..MaxLoops /\ stage' = "serving"
          /\ open' = {} /\ released' = FALSE
        BY <1>0, <1>3, LifecycleAssumption DEF Start
    <2>2. LifecycleTypeOK'
        BY <1>0, <1>1, <2>1 DEF LifecycleTypeOK, Clients
    <2>3. AgeInv'
        <3>1. ASSUME NEW c \in Clients
              PROVE  /\ born[c] <= loop + 1 /\ (bound[c] # 0 => bound[c] \in born[c]..loop + 1)
                     /\ pool[c] <= loop + 1 /\ pool[c] # loop + 1
            <4>1. born[c] \in Nat /\ bound[c] \in Nat /\ pool[c] \in Nat
                BY <1>0, LifecycleAssumption DEF LifecycleTypeOK
            <4> QED BY <1>0, <4>1 DEF AgeInv
        <3> QED BY <1>1, <2>1, <3>1 DEF AgeInv, Clients
    <2>4. HeldInv'
        <3>1. ASSUME NEW s \in Services, held[s] # 0 PROVE born[held[s]] < loop + 1
            <4>1. held[s] \in Clients
                BY <1>0, <3>1 DEF LifecycleTypeOK
            <4>2. born[held[s]] <= loop /\ born[held[s]] \in Nat
                BY <1>0, <4>1 DEF AgeInv
            <4> QED BY <1>0, <4>2
        <3> QED BY <1>0, <1>1, <2>1, <3>1 DEF HeldInv, Unclosed, Clients
    <2>5. ClosedInv'
        BY <2>1 DEF ClosedInv
    <2> QED BY <1>2, <2>2, <2>3, <2>4, <2>5 DEF LifecycleInv
<1>4. CASE Exit \/ Shutdown
    <2>1. /\ UNCHANGED <<loop, open, released>> /\ stage = "serving"
          /\ stage' \in {"coingecko", "down"}
        BY <1>4 DEF Exit, Shutdown, Quiet
    <2>2. LifecycleTypeOK' /\ AgeInv'
        BY <1>0, <1>1, <2>1 DEF LifecycleTypeOK, AgeInv, Clients, Families
    <2>3. HeldInv' /\ ClosedInv'
        BY <1>0, <1>1, <2>1 DEF HeldInv, ClosedInv, Unclosed, Clients, FamilyOf
    <2> QED BY <1>2, <2>2, <2>3 DEF LifecycleInv
<1> QED BY <1>3, <1>4

(* The client a service is found or given: the one it holds, its family's    *)
(* singleton, or a new one.                                                  *)
LEMMA BindCases ==
    ASSUME LifecycleInv, NEW t \in Tasks, NEW s \in Services, Bind(t, s)
    PROVE  LET f == FamilyOf(s)
               new == Len(born) + 1
           IN \/ \E c \in Clients :
                    /\ c = held[s] \/ (held[s] = 0 /\ c = singleton[f])
                    /\ held' = [held EXCEPT ![s] = c]
                    /\ task' = [task EXCEPT ![t] = [client |-> c, at |-> "ready"]]
                    /\ UNCHANGED <<singleton, born, pool, bound>>
              \/ /\ held[s] = 0 /\ singleton[f] = 0
                 /\ held' = [held EXCEPT ![s] = new]
                 /\ task' = [task EXCEPT ![t] = [client |-> new, at |-> "ready"]]
                 /\ singleton' = [singleton EXCEPT ![f] = new]
                 /\ born' = Append(born, loop) /\ pool' = Append(pool, 0)
                 /\ bound' = Append(bound, 0)
<1> DEFINE f == FamilyOf(s)
           new == Len(born) + 1
           c == IF held[s] # 0 THEN held[s] ELSE GetClient(f)
<1>0. /\ Len(born) \in Nat /\ Clients = 1..Len(born) /\ f \in Families
      /\ held[s] \in 0..Len(born) /\ singleton[f] \in 0..Len(born)
    BY ClientsAreNumbered DEF LifecycleInv, LifecycleTypeOK, FamilyOf, Families
<1>1. /\ held' = [held EXCEPT ![s] = c]
      /\ task' = [task EXCEPT ![t] = [client |-> c, at |-> "ready"]]
      /\ Named(f, c)
    BY DEF Bind
<1>2. \/ c \in Clients /\ (c = held[s] \/ (held[s] = 0 /\ c = singleton[f]))
      \/ c = new /\ c \notin Clients /\ held[s] = 0 /\ singleton[f] = 0
    BY <1>0 DEF GetClient
<1> HIDE DEF c, f, new
<1>3. CASE c \in Clients /\ (c = held[s] \/ (held[s] = 0 /\ c = singleton[f]))
    BY <1>1, <1>3 DEF Named, f
<1>4. CASE c = new /\ c \notin Clients /\ held[s] = 0 /\ singleton[f] = 0
    BY <1>1, <1>4 DEF Named, f, new
<1> QED BY <1>2, <1>3, <1>4

(* A service finds its client. *)
LEMMA BindOldKeepsInv ==
    ASSUME LifecycleInv, NEW t \in Tasks, NEW s \in Services, NEW c \in Clients,
           task[t] = NoTask, stage = "serving",
           c = held[s] \/ (held[s] = 0 /\ c = singleton[FamilyOf(s)]),
           held' = [held EXCEPT ![s] = c],
           task' = [task EXCEPT ![t] = [client |-> c, at |-> "ready"]],
           UNCHANGED <<app, loop, stage, singleton, born, pool, open, bound, released>>
    PROVE  LifecycleInv'
<1>0. /\ LifecycleTypeOK /\ TaskInv /\ AgeInv /\ HeldInv /\ ClosedInv
      /\ PoolOnOwnLoop /\ OnlyVeteransRefuse
      /\ Len(born) \in Nat /\ Clients = 1..Len(born) /\ loop \in Nat
      /\ born \in [1..Len(born) -> 1..MaxLoops]
    BY ClientsAreNumbered DEF LifecycleInv
<1>1. /\ held' \in [Services -> 0..Len(born)] /\ held'[s] = c
      /\ \A r \in Services \ {s} : held'[r] = held[r]
      /\ task' \in [Tasks -> [client : 0..Len(born), at : Places]]
      /\ task'[t] = [client |-> c, at |-> "ready"]
      /\ \A u \in Tasks \ {t} : task'[u] = task[u]
    BY <1>0 DEF LifecycleTypeOK, Places
<1>2. LifecycleTypeOK' /\ AgeInv'
    BY <1>0, <1>1 DEF LifecycleTypeOK, AgeInv, Clients
<1>3. TaskInv' /\ PoolOnOwnLoop' /\ OnlyVeteransRefuse'
    BY <1>0, <1>1 DEF TaskInv, PoolOnOwnLoop, OnlyVeteransRefuse, At, NoTask
<1>4. \A r \in Services : held[r] # 0 => held'[r] = held[r]
    BY <1>1
<1>5. HeldInv'
    <2>1. \A d \in Clients : \E r \in Services : held'[r] = d
        <3>1. TAKE d \in Clients
        <3>2. PICK r \in Services : held[r] = d
            BY <1>0 DEF HeldInv
        <3> QED BY <1>0, <1>4, <3>2
    <2>2. ASSUME NEW r \in Services, held'[r] # 0
          PROVE  LET f == FamilyOf(r) IN
                 /\ singleton[f] # 0 =>
                        held'[r] = singleton[f] \/ born[held'[r]] < born[singleton[f]]
                 /\ singleton[f] = 0 /\ Unclosed(f) => born[held'[r]] < loop
        <3>1. CASE held[r] # 0
            BY <1>0, <1>4, <3>1 DEF HeldInv
        <3>2. CASE held[r] = 0
            <4>1. r = s /\ c = singleton[FamilyOf(s)] /\ c # 0
                BY <1>0, <1>1, <2>2, <3>2
            <4> QED BY <1>1, <4>1
        <3> QED BY <3>1, <3>2
    <2> QED BY <1>0, <2>1, <2>2 DEF HeldInv, Unclosed, Clients
<1>6. ClosedInv'
    BY <1>0 DEF ClosedInv
<1> QED BY <1>2, <1>3, <1>5, <1>6 DEF LifecycleInv

(* A service is given a client made for it, the youngest of all. *)
LEMMA BindNewKeepsInv ==
    ASSUME LifecycleInv, NEW t \in Tasks, NEW s \in Services,
           NEW c, c = Len(born) + 1,
           task[t] = NoTask, stage = "serving",
           held[s] = 0, singleton[FamilyOf(s)] = 0,
           held' = [held EXCEPT ![s] = c],
           task' = [task EXCEPT ![t] = [client |-> c, at |-> "ready"]],
           singleton' = [singleton EXCEPT ![FamilyOf(s)] = c],
           born' = Append(born, loop), pool' = Append(pool, 0), bound' = Append(bound, 0),
           UNCHANGED <<app, loop, stage, open, released>>
    PROVE  LifecycleInv'
<1> DEFINE n == Len(born)
<1>0. /\ LifecycleTypeOK /\ TaskInv /\ AgeInv /\ HeldInv /\ ClosedInv
      /\ PoolOnOwnLoop /\ OnlyVeteransRefuse
      /\ n \in Nat /\ Clients = 1..n /\ loop \in 1..MaxLoops
      /\ born \in [1..n -> 1..MaxLoops]
    BY ClientsAreNumbered DEF LifecycleInv, TaskInv, LifecycleTypeOK
<1>a. /\ born \in [1..n -> 1..MaxLoops] /\ pool \in [1..n -> 0..MaxLoops]
      /\ bound \in [1..n -> 0..MaxLoops] /\ 0 \in 0..MaxLoops /\ c = n + 1
    BY <1>0, LifecycleAssumption DEF LifecycleTypeOK
<1>b. n \in Nat /\ loop \in 1..MaxLoops
    BY <1>0
<1>c. n = Len(born)
    OBVIOUS
<1> HIDE DEF n
<1>1. /\ born' \in [1..n + 1 -> 1..MaxLoops] /\ born'[c] = loop
      /\ \A d \in 1..n : born'[d] = born[d]
    <2>1. Grown(Append(born, loop), born, n, 1..MaxLoops, loop)
        BY <1>a, <1>b, AppendToTable
    <2>2. Grown(born', born, n, 1..MaxLoops, loop)
        BY <2>1, Zenon
    <2> QED BY <1>a, <2>2 DEF Grown
<1>2. /\ pool' \in [1..n + 1 -> 0..MaxLoops] /\ pool'[c] = 0
      /\ \A d \in 1..n : pool'[d] = pool[d]
    <2>1. Grown(Append(pool, 0), pool, n, 0..MaxLoops, 0)
        BY <1>a, <1>b, AppendToTable
    <2>2. Grown(pool', pool, n, 0..MaxLoops, 0)
        BY <2>1, Zenon
    <2> QED BY <1>a, <2>2 DEF Grown
<1>3. /\ bound' \in [1..n + 1 -> 0..MaxLoops] /\ bound'[c] = 0
      /\ \A d \in 1..n : bound'[d] = bound[d]
    <2>1. Grown(Append(bound, 0), bound, n, 0..MaxLoops, 0)
        BY <1>a, <1>b, AppendToTable
    <2>2. Grown(bound', bound, n, 0..MaxLoops, 0)
        BY <2>1, Zenon
    <2> QED BY <1>a, <2>2 DEF Grown
<1>4. /\ Len(born') = n + 1 /\ Clients' = 1..n + 1 /\ born' \in Seq(1..MaxLoops)
      /\ c = n + 1
    <2>1. born \in Seq(1..MaxLoops) /\ loop \in 1..MaxLoops
        BY <1>0 DEF LifecycleTypeOK
    <2> QED BY <1>0, <1>c, <2>1, AppendProperties DEF Clients
<1>5. /\ held \in [Services -> 0..n] /\ singleton \in [Families -> 0..n]
      /\ task \in [Tasks -> [client : 0..n, at : Places]]
      /\ FamilyOf(s) \in Families
    BY <1>0, <1>c DEF LifecycleTypeOK, FamilyOf, Families
<1>6. /\ \A d \in 0..n : d \in 0..n + 1 /\ d # c
      /\ \A d \in 0..n : d # 0 => d \in 1..n
      /\ \A d \in 1..n + 1 : d = c \/ d \in 1..n
      /\ c \in 0..n + 1
    BY <1>0, <1>4
<1>7. /\ held' \in [Services -> 0..n + 1] /\ held'[s] = c
      /\ \A r \in Services \ {s} : held'[r] = held[r]
      /\ singleton' \in [Families -> 0..n + 1] /\ singleton'[FamilyOf(s)] = c
      /\ \A f \in Families \ {FamilyOf(s)} : singleton'[f] = singleton[f]
    BY <1>5, <1>6
<1>8. /\ task' \in [Tasks -> [client : 0..n + 1, at : Places]]
      /\ task'[t] = [client |-> c, at |-> "ready"]
      /\ \A u \in Tasks \ {t} : task'[u] = task[u]
    BY <1>5, <1>6 DEF Places
<1>9. LifecycleTypeOK'
    BY <1>0, <1>1, <1>2, <1>3, <1>4, <1>6, <1>7, <1>8 DEF LifecycleTypeOK
<1>10. TaskInv'
    BY <1>0, <1>4, <1>8 DEF TaskInv, NoTask
<1>11. \A u \in Tasks : task[u].at # "none" => task[u].client \in 1..n
    BY <1>0, <1>5, <1>6 DEF TaskInv, NoTask
<1>12. PoolOnOwnLoop'
    <2>1. ASSUME NEW u \in Tasks, task'[u].at = "sent"
          PROVE  pool'[task'[u].client] = loop /\ task'[u].client \in open
        <3>1. u # t /\ task'[u] = task[u] /\ task[u].at = "sent"
            BY <1>8, <2>1
        <3>2. pool[task[u].client] = loop /\ task[u].client \in open
            BY <1>0, <3>1 DEF PoolOnOwnLoop, At
        <3> QED BY <1>2, <1>11, <3>1, <3>2
    <2> QED BY <2>1 DEF PoolOnOwnLoop, At
<1>13. OnlyVeteransRefuse'
    <2>1. ASSUME NEW u \in Tasks, task'[u].at = "refused"
          PROVE  born'[task'[u].client] < loop
                 /\ bound'[task'[u].client] \in born'[task'[u].client]..loop - 1
        <3>1. u # t /\ task'[u] = task[u] /\ task[u].at = "refused"
            BY <1>8, <2>1
        <3>2. born[task[u].client] < loop
              /\ bound[task[u].client] \in born[task[u].client]..loop - 1
            BY <1>0, <3>1 DEF OnlyVeteransRefuse, At
        <3> QED BY <1>1, <1>3, <1>11, <3>1, <3>2
    <2> QED BY <2>1 DEF OnlyVeteransRefuse, At
<1>14. AgeInv'
    <2>1. ASSUME NEW d \in 1..n + 1
          PROVE  /\ born'[d] <= loop /\ (bound'[d] # 0 => bound'[d] \in born'[d]..loop)
                 /\ pool'[d] <= loop /\ (d \in open <=> pool'[d] = loop)
        <3>1. CASE d = c
            <4>1. c \notin open
                BY <1>0, <1>4 DEF LifecycleTypeOK
            <4> QED BY <1>0, <1>1, <1>2, <1>3, <3>1, <4>1
        <3>2. CASE d # c
            <4>1. d \in 1..n
                BY <1>6, <3>2
            <4> QED BY <1>0, <1>1, <1>2, <1>3, <4>1 DEF AgeInv
        <3> QED BY <3>1, <3>2
    <2> QED BY <1>4, <2>1 DEF AgeInv
<1>15. \A r \in Services \ {s} :
          held[r] # 0 => held[r] \in 1..n /\ held[r] # c /\ born'[held[r]] = born[held[r]]
                         /\ born[held[r]] \in Nat
    <2>1. TAKE r \in Services \ {s}
    <2>2. HAVE held[r] # 0
    <2>3. held[r] \in 1..n /\ held[r] # c
        BY <1>5, <1>6, <2>2
    <2>4. born[held[r]] \in 1..MaxLoops
        BY <1>a, <2>3
    <2>5. born[held[r]] \in Nat
        BY <2>4, LifecycleAssumption
    <2>6. born'[held[r]] = born[held[r]]
        BY <1>1, <2>3, Zenon
    <2> QED BY <2>3, <2>5, <2>6
<1>16. \A r \in Services \ {s} :
          held[r] # 0 /\ FamilyOf(r) = FamilyOf(s) => born[held[r]] < loop
    BY <1>0 DEF HeldInv, Unclosed
<1>17. HeldInv'
    <2>1. \A d \in 1..n + 1 : \E r \in Services : held'[r] = d
        <3>1. TAKE d \in 1..n + 1
        <3>2. CASE d = c
            BY <1>7, <3>2
        <3>3. CASE d \in 1..n
            <4>1. PICK r \in Services : held[r] = d
                BY <1>0, <3>3 DEF HeldInv
            <4>2. r # s
                BY <3>3, <4>1
            <4> QED BY <1>7, <4>1, <4>2
        <3> QED BY <1>6, <3>2, <3>3
    <2>2. ASSUME NEW r \in Services, held'[r] # 0
          PROVE  LET f == FamilyOf(r) IN
                 /\ singleton'[f] # 0 =>
                        held'[r] = singleton'[f] \/ born'[held'[r]] < born'[singleton'[f]]
                 /\ singleton'[f] = 0 /\ Unclosed(f)' => born'[held'[r]] < loop
        <3> DEFINE f == FamilyOf(r)
        <3>0. f \in Families /\ c # 0
            BY <1>0, <1>4 DEF FamilyOf, Families
        <3>1. CASE r = s
            BY <1>7, <3>0, <3>1
        <3>2. CASE r # s /\ f = FamilyOf(s)
            <4>1. singleton'[f] = c /\ held'[r] = held[r] /\ r \in Services \ {s}
                BY <1>7, <3>2
            <4>2. born'[held[r]] = born[held[r]] /\ born[held[r]] < loop /\ born'[c] = loop
                BY <1>1, <1>15, <1>16, <2>2, <3>2, <4>1
            <4> QED BY <3>0, <4>1, <4>2
        <3>3. CASE r # s /\ f # FamilyOf(s)
            <4>1. singleton'[f] = singleton[f] /\ held'[r] = held[r]
                  /\ born'[held[r]] = born[held[r]]
                BY <1>7, <1>15, <2>2, <3>0, <3>3
            <4>2. singleton[f] # 0 => born'[singleton[f]] = born[singleton[f]]
                BY <1>1, <1>5, <1>6, <3>0
            <4> QED BY <1>0, <2>2, <4>1, <4>2 DEF HeldInv, Unclosed
        <3> QED BY <3>1, <3>2, <3>3
    <2> QED BY <1>4, <2>1, <2>2 DEF HeldInv
<1>18. ClosedInv'
    <2>1. ASSUME NEW r \in Services, singleton'[FamilyOf(r)] = 0, held'[r] \in open
          PROVE  born'[held'[r]] < loop
        <3>1. FamilyOf(r) \in Families /\ c # 0
            BY <1>0, <1>4 DEF FamilyOf, Families
        <3>2. FamilyOf(r) # FamilyOf(s) /\ singleton[FamilyOf(r)] = 0
            BY <1>7, <2>1, <3>1
        <3>3. held'[r] = held[r] /\ held[r] \in 1..n
            BY <1>0, <1>7, <2>1, <3>2 DEF LifecycleTypeOK
        <3>4. born[held[r]] < loop
            BY <1>0, <2>1, <3>2, <3>3 DEF ClosedInv
        <3> QED BY <1>1, <3>3, <3>4
    <2>2. ~released
        BY <1>0 DEF ClosedInv
    <2> QED BY <2>1, <2>2 DEF ClosedInv
<1> QED
    BY <1>9, <1>10, <1>12, <1>13, <1>14, <1>17, <1>18 DEF LifecycleInv

LEMMA BindKeepsInv ==
    ASSUME LifecycleInv, NEW t \in Tasks, NEW s \in Services, Bind(t, s)
    PROVE  LifecycleInv'
<1> DEFINE new == Len(born) + 1
<1>1. /\ stage = "serving" /\ task[t] = NoTask
      /\ UNCHANGED <<app, loop, stage, open, released>>
    BY DEF Bind
<1>2. CASE \E c \in Clients :
              /\ c = held[s] \/ (held[s] = 0 /\ c = singleton[FamilyOf(s)])
              /\ held' = [held EXCEPT ![s] = c]
              /\ task' = [task EXCEPT ![t] = [client |-> c, at |-> "ready"]]
              /\ UNCHANGED <<singleton, born, pool, bound>>
    BY <1>1, <1>2, BindOldKeepsInv
<1>3. CASE /\ held[s] = 0 /\ singleton[FamilyOf(s)] = 0
           /\ held' = [held EXCEPT ![s] = new]
           /\ task' = [task EXCEPT ![t] = [client |-> new, at |-> "ready"]]
           /\ singleton' = [singleton EXCEPT ![FamilyOf(s)] = new]
           /\ born' = Append(born, loop) /\ pool' = Append(pool, 0)
           /\ bound' = Append(bound, 0)
    BY <1>1, <1>3, BindNewKeepsInv
<1> QED BY <1>2, <1>3, BindCases

(* aclose_..._client() of a family.  The branches: closed and forgotten, or  *)
(* the pool of a dead loop refuses and ends the shutdown.                    *)
LEMMA CloseKeepsInv ==
    ASSUME LifecycleInv, NEW f \in Families, Close(f)
    PROVE  LifecycleInv'
<1> DEFINE c == singleton[f]
<1>0. /\ LifecycleTypeOK /\ TaskInv /\ AgeInv /\ HeldInv /\ ClosedInv
      /\ PoolOnOwnLoop /\ OnlyVeteransRefuse
      /\ Len(born) \in Nat /\ Clients = 1..Len(born)
      /\ born \in [1..Len(born) -> 1..MaxLoops]
    BY ClientsAreNumbered DEF LifecycleInv
<1>1. /\ stage = f /\ loop > 0 /\ loop \in Nat
      /\ \A t \in Tasks : task[t] = NoTask
      /\ UNCHANGED <<app, loop, held, born, bound, task>>
      /\ stage' \in {"sui", "down"}
    BY <1>0 DEF Close, TaskInv, Families, LifecycleTypeOK
<1>2. c \in 0..Len(born) /\ (c # 0 => c \in Clients)
    BY <1>0 DEF LifecycleTypeOK
<1>3. TaskInv' /\ PoolOnOwnLoop' /\ OnlyVeteransRefuse'
    BY <1>0, <1>1
    DEF TaskInv, PoolOnOwnLoop, OnlyVeteransRefuse, At, NoTask
<1>4. CASE /\ singleton' = [singleton EXCEPT ![f] = 0]
           /\ pool' = IF c = 0 THEN pool ELSE [pool EXCEPT ![c] = 0]
           /\ open' = open \ {c}
           /\ stage' = IF f = "coingecko" THEN "sui" ELSE "down"
           /\ released' = (f = "sui")
    <2>1. /\ pool' \in [Clients -> 0..MaxLoops] /\ (c # 0 => pool'[c] = 0)
          /\ \A d \in Clients \ {c} : pool'[d] = pool[d]
        BY <1>0, <1>2, <1>4, LifecycleAssumption DEF LifecycleTypeOK
    <2>2. /\ singleton' \in [Families -> 0..Len(born)] /\ singleton'[f] = 0
          /\ \A g \in Families \ {f} : singleton'[g] = singleton[g]
        BY <1>0, <1>4 DEF LifecycleTypeOK
    <2>3. LifecycleTypeOK'
        BY <1>0, <1>1, <1>4, <2>1, <2>2 DEF LifecycleTypeOK, Clients, Families
    <2>4. AgeInv'
        <3>1. ASSUME NEW d \in Clients
              PROVE  pool'[d] <= loop /\ (d \in open' <=> pool'[d] = loop)
            <4>1. CASE d = c
                BY <1>1, <1>4, <2>1, <4>1, <1>0
            <4>2. CASE d # c
                BY <1>0, <1>4, <2>1, <4>2 DEF AgeInv
            <4> QED BY <4>1, <4>2
        <3> QED BY <1>0, <1>1, <3>1 DEF AgeInv, Clients
    <2>5. HeldInv'
        <3>1. \A g \in Families : singleton'[g] # 0 \/ Unclosed(g)' => g # f
            BY <1>1, <1>4, <2>2 DEF Unclosed, Families
        <3>2. \A g \in Families : Unclosed(g)' => Unclosed(g)
            BY <1>1, <1>4 DEF Unclosed, Families
        <3>3. \A r \in Services : FamilyOf(r) \in Families
            BY DEF FamilyOf, Families
        <3>4. ASSUME NEW r \in Services, held[r] # 0
              PROVE  LET g == FamilyOf(r) IN
                     /\ singleton'[g] # 0 =>
                            held[r] = singleton'[g] \/ born[held[r]] < born[singleton'[g]]
                     /\ singleton'[g] = 0 /\ Unclosed(g)' => born[held[r]] < loop
            BY <1>0, <2>2, <3>1, <3>2, <3>3, <3>4 DEF HeldInv
        <3> QED BY <1>0, <1>1, <3>4 DEF HeldInv, Unclosed, Clients
    <2>6. ClosedInv'
        <3>1. ASSUME NEW r \in Services, held[r] \in open', FamilyOf(r) = f
              PROVE  born[held[r]] < loop
            <4>1. held[r] \in open /\ held[r] # c /\ held[r] # 0 /\ held[r] \in Clients
                BY <1>0, <1>4, <3>1 DEF LifecycleTypeOK
            <4>2. CASE c = 0
                BY <1>0, <1>1, <3>1, <4>1, <4>2 DEF HeldInv, Unclosed
            <4>3. CASE c # 0
                <5>1. born[held[r]] < born[c]
                    BY <1>0, <3>1, <4>1, <4>3 DEF HeldInv
                <5>2. born[c] <= loop /\ born[c] \in Nat /\ born[held[r]] \in Nat
                    BY <1>0, <1>2, <4>1, <4>3 DEF AgeInv
                <5> QED BY <1>1, <5>1, <5>2
            <4> QED BY <4>2, <4>3
        <3>2. ASSUME NEW r \in Services, held[r] \in open', FamilyOf(r) # f,
                     singleton'[FamilyOf(r)] = 0
              PROVE  born[held[r]] < loop
            <4>1. held[r] \in open /\ singleton[FamilyOf(r)] = 0
                BY <1>4, <2>2, <3>2 DEF FamilyOf, Families
            <4> QED BY <1>0, <4>1 DEF ClosedInv
        <3>3. stage' = "sui" => singleton'["coingecko"] = 0
            BY <1>4, <2>2
        <3>4. released' => stage' = "down" /\ \A g \in Families : singleton'[g] = 0
            BY <1>0, <1>1, <1>4, <2>2 DEF ClosedInv, Families
        <3> QED BY <1>1, <3>1, <3>2, <3>3, <3>4 DEF ClosedInv
    <2> QED BY <1>3, <2>3, <2>4, <2>5, <2>6 DEF LifecycleInv
<1>5. CASE /\ c # 0 /\ pool[c] \notin {0, loop}
           /\ pool' = [pool EXCEPT ![c] = 0] /\ stage' = "down"
           /\ UNCHANGED <<singleton, open, released>>
    <2>1. /\ pool' \in [Clients -> 0..MaxLoops] /\ pool'[c] = 0
          /\ \A d \in Clients \ {c} : pool'[d] = pool[d]
        BY <1>0, <1>2, <1>5, LifecycleAssumption DEF LifecycleTypeOK
    <2>2. LifecycleTypeOK'
        BY <1>0, <1>1, <1>5, <2>1 DEF LifecycleTypeOK, Clients
    <2>3. c \notin open /\ c \in Clients
        BY <1>0, <1>2, <1>5 DEF AgeInv
    <2>4. AgeInv'
        BY <1>0, <1>1, <1>5, <2>1, <2>3 DEF AgeInv, Clients
    <2>5. HeldInv'
        BY <1>0, <1>1, <1>5 DEF HeldInv, Unclosed, Clients, FamilyOf
    <2>6. released = FALSE
        BY <1>0, <1>1 DEF ClosedInv, LifecycleTypeOK, Families
    <2>7. ClosedInv'
        BY <1>0, <1>1, <1>5, <2>6 DEF ClosedInv
    <2> QED BY <1>3, <2>2, <2>4, <2>5, <2>7 DEF LifecycleInv
<1> QED BY <1>4, <1>5 DEF Close, Closed

LEMMA LifecycleInvInit == LifecycleInit => LifecycleInv
<1> SUFFICES ASSUME LifecycleInit PROVE LifecycleInv
    OBVIOUS
<1>1. born = <<>> /\ Len(born) = 0 /\ Clients = {} /\ born \in Seq(1..MaxLoops)
    <2>1. <<>> \in Seq(1..MaxLoops) /\ Len(<<>>) = 0
        BY EmptySeq
    <2> QED BY <2>1 DEF LifecycleInit, Clients
<1>2. pool \in [Clients -> 0..MaxLoops] /\ bound \in [Clients -> 0..MaxLoops]
    <2>1. pool = <<>> /\ bound = <<>> /\ <<>> \in Seq(0..MaxLoops) /\ Len(<<>>) = 0
        BY EmptySeq DEF LifecycleInit
    <2>2. <<>> \in [1..0 -> 0..MaxLoops]
        BY <2>1, LenProperties
    <2> QED BY <1>1, <2>1, <2>2
<1>3. LifecycleTypeOK
    <2>1. /\ app \in {"api", "cli"} /\ stage \in {"down", "serving"} \cup Families
          /\ released \in BOOLEAN
        BY DEF LifecycleInit
    <2>3. loop \in 0..MaxLoops /\ open \subseteq Clients
        BY LifecycleAssumption DEF LifecycleInit
    <2>2. /\ singleton \in [Families -> 0..0] /\ held \in [Services -> 0..0]
          /\ task \in [Tasks -> [client : 0..0, at : Places]]
        BY DEF LifecycleInit, NoTask, Places
    <2> QED BY <1>1, <1>2, <2>1, <2>2, <2>3 DEF LifecycleTypeOK
<1>4. TaskInv /\ AgeInv /\ HeldInv /\ ClosedInv
    BY <1>1 DEF LifecycleInit, TaskInv, AgeInv, HeldInv, ClosedInv
<1>5. PoolOnOwnLoop /\ OnlyVeteransRefuse
    BY DEF LifecycleInit, PoolOnOwnLoop, OnlyVeteransRefuse, At, NoTask
<1> QED BY <1>3, <1>4, <1>5 DEF LifecycleInv

LEMMA LifecycleInvStep == LifecycleInv /\ [LifecycleNext]_vars => LifecycleInv'
<1> SUFFICES ASSUME LifecycleInv, [LifecycleNext]_vars PROVE LifecycleInv'
    OBVIOUS
<1>1. CASE Start \/ Exit \/ Shutdown
    BY <1>1, StageKeepsInv
<1>2. ASSUME NEW t \in Tasks, NEW s \in Services, Bind(t, s) PROVE LifecycleInv'
    BY <1>2, BindKeepsInv
<1>3. ASSUME NEW t \in Tasks, Pace(t) \/ Again(t) PROVE LifecycleInv'
    BY <1>3, PaceAgainKeepInv
<1>4. ASSUME NEW t \in Tasks, Queue(t) PROVE LifecycleInv'
    BY <1>4, QueueKeepsInv
<1>5. ASSUME NEW t \in Tasks, Send(t) PROVE LifecycleInv'
    BY <1>5, SendKeepsInv
<1>6. ASSUME NEW t \in Tasks, Finish(t) PROVE LifecycleInv'
    BY <1>6, FinishKeepsInv
<1>7. ASSUME NEW f \in Families, Close(f) PROVE LifecycleInv'
    BY <1>7, CloseKeepsInv
<1>8. CASE UNCHANGED vars
    BY <1>8 DEF vars, LifecycleInv, LifecycleTypeOK, TaskInv, AgeInv, HeldInv, ClosedInv,
               PoolOnOwnLoop, OnlyVeteransRefuse, Clients, Unclosed, At
<1> QED BY <1>1, <1>2, <1>3, <1>4, <1>5, <1>6, <1>7, <1>8 DEF LifecycleNext

LEMMA LifecycleInvHolds == LifecycleSpec => []LifecycleInv
BY LifecycleInvInit, LifecycleInvStep, PTL DEF LifecycleSpec

-----------------------------------------------------------------------------
(* The variables keep their types, and pools, locks and clients their ages.  *)
THEOREM LifecycleTypeCorrect == LifecycleSpec => []LifecycleTypeOK
<1>1. LifecycleInv => LifecycleTypeOK
    BY DEF LifecycleInv
<1> QED BY <1>1, LifecycleInvHolds, PTL

(* A request leaves only through a pool of the running loop that is open.    *)
THEOREM PoolsStayOnTheirLoop == LifecycleSpec => []PoolOnOwnLoop
<1>1. LifecycleInv => PoolOnOwnLoop
    BY DEF LifecycleInv
<1> QED BY <1>1, LifecycleInvHolds, PTL

(* A client made in this life is the one its module names, so that the       *)
(* services of an upstream that are built in one life share it; any other    *)
(* client a service holds is from an earlier life.                           *)
THEOREM SingletonsAreOfALife == LifecycleSpec => []SingletonWithinALife
<1>1. LifecycleInv => SingletonWithinALife
    <2> SUFFICES ASSUME LifecycleInv, stage = "serving", NEW s \in Services, held[s] # 0,
                        held[s] # singleton[FamilyOf(s)]
                 PROVE  born[held[s]] < loop
        BY DEF SingletonWithinALife
    <2> QED BY HeldAreOlder DEF Unclosed
<1> QED BY <1>1, LifecycleInvHolds, PTL

(* The lock of a limiter refuses a call only when its client is from an      *)
(* earlier life and waited in one.                                           *)
THEOREM NewClientsNeverRefuse == LifecycleSpec => []OnlyVeteransRefuse
<1>1. LifecycleInv => OnlyVeteransRefuse
    BY DEF LifecycleInv
<1> QED BY <1>1, LifecycleInvHolds, PTL

(* What close_clients() does not reach and is open is a client a service     *)
(* brought along from an earlier life, whether or not a shutdown failed.     *)
THEOREM OnlyVeteransAreOutOfReach == LifecycleSpec => []ReleasedButForgotten
<1>1. LifecycleInv => ReleasedButForgotten
    <2> SUFFICES ASSUME LifecycleInv, NEW c \in open,
                        ~\E f \in Families : singleton[f] = c /\ ~(stage = "down" /\ released)
                 PROVE  born[c] < loop /\ \E s \in Services : held[s] = c
        BY DEF ReleasedButForgotten
    <2>1. c \in 1..Len(born)
        BY DEF LifecycleInv, LifecycleTypeOK, Clients
    <2>2. PICK s \in Services : held[s] = c
        BY <2>1 DEF LifecycleInv, HeldInv, Clients
    <2>3. FamilyOf(s) \in Families
        BY DEF FamilyOf, Families
    <2>4. CASE singleton[FamilyOf(s)] = 0
        BY <2>2, <2>4 DEF LifecycleInv, ClosedInv
    <2>5. CASE singleton[FamilyOf(s)] # 0
        <3>1. ~released
            BY <2>3, <2>5 DEF LifecycleInv, ClosedInv
        <3>2. held[s] # 0 /\ held[s] # singleton[FamilyOf(s)]
            BY <2>1, <2>2, <2>3, <3>1
        <3> QED BY <2>2, <2>5, <3>2, HeldAreOlder
    <2> QED BY <2>2, <2>4, <2>5
<1> QED BY <1>1, LifecycleInvHolds, PTL
=============================================================================
