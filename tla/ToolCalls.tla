----------------------------- MODULE ToolCalls -----------------------------
(* One run of the Sui agent (agent/agents/base.py): its model asks for tool  *)
(* calls, which run in parallel, is told what came of them, and goes on to   *)
(* the next round or answers.  Each call passes the gate of tools/sui and    *)
(* then is a call of AsyncHttpClient, of which only UpstreamCall's promise   *)
(* is used.  LangGraph is external: a tool that raises ends the run, since   *)
(* nothing in src/ asks its ToolNode to handle errors; the other calls of    *)
(* the round are cancelled, and the run ends when all of them are over.      *)
EXTENDS UpstreamCall

ASSUME ToolCallsAssumption == MaxAttempts \in Nat

VARIABLES
    allow_writes,  \* settings.sui_service.allow_writes
    run,           \* "thinking", "acting", "failing", "answered" or "failed"
    book           \* what the model asked for, and what became of it

vars == <<uvars, allow_writes, run, book>>

(* Calls is the set of calls the model can ask for in the run, some in each  *)
(* round: it bounds the rounds, too.                                         *)
Asks == {"read", "write"}
Ends == {"unasked", "asked", "running", "reported", "rejected", "raised", "cancelled"}
Call == [asks : Asks \cup {"nothing"}, end : Ends]

(* The calls that may have one in the HTTP client. *)
Begun == {"running", "reported", "raised", "cancelled"}

ToolCallsTypeOK ==
    /\ state \in [Calls -> CallStates]
    /\ open \in [Calls -> 0..MaxAttempts]
    /\ applied \in [Calls -> 0..MaxAttempts]
    /\ allow_writes \in BOOLEAN
    /\ run \in {"thinking", "acting", "failing", "answered", "failed"}
    /\ book \in [Calls -> Call]
    /\ \A c \in Calls : /\ state[c] # "none" => book[c].end \in Begun
                        /\ state[c] = "calling" => book[c].end = "running"

ToolCallsInit ==
    /\ UInit
    /\ allow_writes \in BOOLEAN
    /\ run = "thinking"
    /\ book = [c \in Calls |-> [asks |-> "nothing", end |-> "unasked"]]

Is(c, end) == run \in {"acting", "failing"} /\ book[c].end = end

(* The model asks for calls, those of asks ... *)
Ask(asks) ==
    /\ run = "thinking" /\ run' = "acting"
    /\ DOMAIN asks # {} /\ \A c \in DOMAIN asks : book[c].end = "unasked"
    /\ book' = [c \in Calls |-> IF c \in DOMAIN asks
                               THEN [asks |-> asks[c], end |-> "asked"] ELSE book[c]]
    /\ UNCHANGED <<uvars, allow_writes>>

(* ... or answers, or fails. *)
Conclude ==
    /\ run = "thinking" /\ run' \in {"answered", "failed"}
    /\ UNCHANGED <<uvars, allow_writes, book>>

(* A call is over, or begins; the run is to fail, if it raised. *)
Ended(c, end) ==
    /\ book' = [book EXCEPT ![c].end = end]
    /\ run' = IF end = "raised" THEN "failing" ELSE run
    /\ UNCHANGED allow_writes

(* The model's arguments do not fit the tool: the model is told so.          *)
Reject(c) == Is(c, "asked") /\ Ended(c, "rejected") /\ UNCHANGED uvars

(* Mutant: nobody looks at allow_writes. *)
ForbiddenNever(c) == FALSE

Forbidden(c) == book[c].asks = "write" /\ ~allow_writes

(* Mutant: the gate comes after the HTTP call was begun. *)
StartThenGate(c) ==
    /\ Is(c, "asked")
    /\ Begin(c)
    /\ IF Forbidden(c) THEN Ended(c, "raised")
       ELSE Ended(c, "running")

(* SuiServiceClient.request up to the HTTP call: a write that is forbidden   *)
(* raises.  Only reads may be answered from a cache.                         *)
Start(c) ==
    /\ Is(c, "asked")
    /\ IF Forbidden(c)
       THEN Ended(c, "raised") /\ UNCHANGED uvars
       ELSE /\ Begin(c)
            /\ book[c].asks = "write" => state'[c] = "calling"
            /\ Ended(c, "running")

(* The HTTP client, as UpstreamCall has it ... *)
Progress(c) ==
    /\ Send(c) \/ Answer(c) \/ Fail(c)
    /\ UNCHANGED <<allow_writes, run, book>>

(* ... and the upstream, which may carry out a request that was given up     *)
(* when its call was reported long ago, or the run is over.                  *)
Upstream(c) ==
    /\ CarryOut(c) \/ Refused(c)
    /\ UNCHANGED <<allow_writes, run, book>>

(* Mutant: the tool asks again until it has an answer. *)
ReturnAnswers(c) ==
    /\ Is(c, "running")
    /\ \/ state[c] \in {"answered", "cached"} /\ Ended(c, "reported") /\ UNCHANGED uvars
       \/ /\ state[c] = "failed" /\ state' = [state EXCEPT ![c] = "calling"]
          /\ UNCHANGED <<open, applied, allow_writes, run, book>>

(* The tool returns or raises. *)
Return(c) ==
    /\ Is(c, "running") /\ state[c] \in {"answered", "cached", "failed"}
    /\ Ended(c, IF state[c] = "failed" THEN "raised" ELSE "reported")
    /\ UNCHANGED uvars

(* The run is failing: the calls that are not over are cancelled, before     *)
(* they begin or at any await; a request that is out stays out.              *)
Cancel(c) ==
    /\ run = "failing" /\ (Is(c, "asked") \/ Is(c, "running"))
    /\ \/ Leave(c)
       \/ state[c] # "calling" /\ UNCHANGED uvars
    /\ Ended(c, "cancelled")

(* The reader of the stream hangs up, or the command is interrupted. *)
HangUp ==
    /\ run = "acting" /\ run' = "failing"
    /\ UNCHANGED <<uvars, allow_writes, book>>

Over(c) == book[c].end \notin {"asked", "running"}

(* The round is over: the model is told, or the run ends. *)
Settle ==
    /\ run \in {"acting", "failing"} /\ \A c \in Calls : Over(c)
    /\ run' = IF run = "acting" THEN "thinking" ELSE "failed"
    /\ UNCHANGED <<uvars, allow_writes, book>>

ToolCallsNext ==
    \/ \E D \in SUBSET Calls : \E asks \in [D -> Asks] : Ask(asks)
    \/ Conclude \/ HangUp \/ Settle
    \/ \E c \in Calls :
          Reject(c) \/ Start(c) \/ Progress(c) \/ Upstream(c) \/ Return(c) \/ Cancel(c)

(* The event loop runs what is ready, and every call ends: HttpClient's      *)
(* EveryCallEnds.                                                            *)
ToolCallsSpec ==
    /\ ToolCallsInit /\ [][ToolCallsNext]_vars
    /\ WF_vars(Settle)
    /\ \A c \in Calls : /\ WF_vars(Start(c)) /\ WF_vars(Return(c)) /\ WF_vars(Cancel(c))
                        /\ WF_vars((Answer(c) \/ Fail(c)) /\ Progress(c))

-----------------------------------------------------------------------------
(* What the model may rely on when it is asked again and when it answers,    *)
(* then and ever after: each call it made was reported or rejected; a write  *)
(* that was reported was allowed and was carried out, though perhaps more    *)
(* than once, and up to MaxAttempts times in all when requests that were     *)
(* given up are carried out late; and a write that was rejected is not, nor  *)
(* is one that is forbidden, however the run ends.                           *)
AnswersRestOnReports ==
    \A c \in Calls :
        /\ run \in {"thinking", "answered"} => book[c].end \in {"unasked", "reported", "rejected"}
        /\ book[c].asks = "write" =>
              /\ book[c].end = "reported" =>
                    /\ allow_writes
                    /\ applied[c] > 0 /\ applied[c] + open[c] <= MaxAttempts
              /\ book[c].end = "rejected" \/ ~allow_writes => applied[c] + open[c] = 0

(* Every round comes to an end, whichever of its calls fail or are cancelled *)
(* and in whatever order: no run waits for a call that will not report.      *)
EveryRoundSettles == run \in {"acting", "failing"} ~> run \in {"thinking", "answered", "failed"}
=============================================================================
