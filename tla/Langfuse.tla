------------------------------ MODULE Langfuse ------------------------------
(* infra/observability/langfuse.py: a global client that is made once, a     *)
(* callback for each turn, and a flush at the end.  Nothing here may fail    *)
(* for its callers.  The client is external: it keeps the traces it is given *)
(* and sends them in the background or when it is flushed.                   *)
VARIABLES
    configured,  \* _configured: there is a client
    unsent,      \* does the client have traces that were not sent?
    flush        \* what came of the last flush: "none", "done" or "failed"

lvars == <<configured, unsent, flush>>

LangfuseTypeOK ==
    /\ configured \in BOOLEAN /\ unsent \in BOOLEAN
    /\ flush \in {"none", "done", "failed"}

LangfuseInit == configured = FALSE /\ unsent = FALSE /\ flush = "none"

(* Mutant: the client is made again whenever it is asked for. *)
StaysConfiguredNever == FALSE

(* `if _configured: return True` *)
StaysConfigured == configured

(* configure_langfuse(): to make the client may work or not.                 *)
ConfigureLangfuse(enabled) ==
    configured' \in IF ~enabled THEN {configured}
                    ELSE IF StaysConfigured THEN {TRUE} ELSE BOOLEAN

(* langfuse_run_config(), and the turn it is for: traced, if there is a      *)
(* client and the callback could be made.                                    *)
TracedTurn(enabled) ==
    /\ ConfigureLangfuse(enabled)
    /\ \/ enabled /\ configured' /\ unsent' = TRUE
       \/ UNCHANGED unsent
    /\ UNCHANGED flush

(* The client's own background export. *)
Export == unsent /\ unsent' = FALSE /\ UNCHANGED <<configured, flush>>

(* flush_langfuse() *)
FlushLangfuse ==
    /\ \/ configured /\ flush' = "done" /\ unsent' = FALSE
       \/ configured /\ flush' = "failed" /\ UNCHANGED unsent
       \/ ~configured /\ flush' = "none" /\ UNCHANGED unsent
    /\ UNCHANGED configured
=============================================================================
