--------------------------- MODULE UpstreamCall ----------------------------
(* What AsyncHttpClient.request_json promises its callers.  A call that is   *)
(* not served from the cache sends at most MaxAttempts requests that are or  *)
(* may be carried out, and none once it is over; it is answered only when    *)
(* one was carried out.  A request that was given up (its answer was lost,   *)
(* its caller gone) stays open: the upstream may carry it out while the call *)
(* goes on or at any time after it was answered, failed or was left.  No     *)
(* exactly-once is promised, and who is answered or has failed does not know *)
(* how often the call was carried out, or will have been.                    *)
EXTENDS Naturals

CONSTANTS
    Calls,        \* the calls of request_json(), each made once
    MaxAttempts   \* max_retries + 1

VARIABLES
    state,    \* where each is, one of CallStates
    open,     \* how many of its requests the upstream may yet carry out
    applied   \* how often the upstream carried it out

uvars == <<state, open, applied>>

(* A call that ended was served from the cache, was answered, failed, or was *)
(* left by its cancelled caller.                                             *)
CallStates == {"none", "calling", "cached", "answered", "failed", "left"}

UInit ==
    /\ state = [c \in Calls |-> "none"]
    /\ open = [c \in Calls |-> 0]
    /\ applied = [c \in Calls |-> 0]

Move(c, from, to) == state[c] = from /\ state' = [state EXCEPT ![c] = to]

(* A request of the call leaves. *)
Out(c) ==
    /\ open[c] + applied[c] < MaxAttempts
    /\ open' = [open EXCEPT ![c] = @ + 1]

(* The first request may leave at once. *)
Begin(c) ==
    /\ \/ Move(c, "none", "cached") /\ UNCHANGED open
       \/ Move(c, "none", "calling") /\ (Out(c) \/ UNCHANGED open)
    /\ UNCHANGED applied

Send(c) == state[c] = "calling" /\ Out(c) /\ UNCHANGED <<state, applied>>

(* The upstream carries a request out, or refuses it, whatever has become of *)
(* the call.                                                                 *)
CarryOut(c) ==
    /\ open[c] > 0
    /\ open' = [open EXCEPT ![c] = @ - 1]
    /\ applied' = [applied EXCEPT ![c] = @ + 1]
    /\ UNCHANGED state

Refused(c) ==
    /\ open[c] > 0
    /\ open' = [open EXCEPT ![c] = @ - 1]
    /\ UNCHANGED <<state, applied>>

Answer(c) == Move(c, "calling", "answered") /\ applied[c] > 0 /\ UNCHANGED <<open, applied>>

Fail(c) == Move(c, "calling", "failed") /\ UNCHANGED <<open, applied>>

(* The caller was cancelled. *)
Leave(c) == Move(c, "calling", "left") /\ UNCHANGED <<open, applied>>

UNext ==
    \E c \in Calls : \/ Begin(c) \/ Send(c) \/ CarryOut(c) \/ Refused(c)
                     \/ Answer(c) \/ Fail(c) \/ Leave(c)

UpstreamCallSpec == UInit /\ [][UNext]_uvars
=============================================================================
