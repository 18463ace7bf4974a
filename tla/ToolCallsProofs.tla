--------------------------- MODULE ToolCallsProofs ---------------------------
(* The safety of ToolCalls, for any number of calls and rounds and of        *)
(* attempts.                                                                 *)
EXTENDS ToolCalls, TLAPS

(* What is known of one call.  Only a call that was begun has requests, at   *)
(* most MaxAttempts that are or may be carried out; a write is begun only    *)
(* when the gate let it pass, is never served from the cache, and is         *)
(* reported only when it was answered, hence carried out.                    *)
CallInv(c) ==
    /\ open[c] + applied[c] <= MaxAttempts
    /\ state[c] = "none" => open[c] = 0 /\ applied[c] = 0
    /\ state[c] = "answered" => applied[c] > 0
    /\ book[c].end = "running" => state[c] # "none"
    /\ book[c].asks = "write" => /\ state[c] # "cached"
                                 /\ state[c] # "none" => allow_writes
                                 /\ book[c].end = "reported" => state[c] = "answered"

(* A call that raised or was cancelled fails the run, and the model is only  *)
(* asked when every call it asked for is over; so is every call of a run     *)
(* that ended.                                                               *)
RunInv ==
    /\ run \notin {"acting", "failing"} => \A c \in Calls : Over(c)
    /\ run \in {"thinking", "acting", "answered"} =>
           \A c \in Calls : book[c].end \notin {"raised", "cancelled"}

ToolCallsInv == ToolCallsTypeOK /\ RunInv /\ \A c \in Calls : CallInv(c)

(* The types of what is known of one call. *)
CallTypeOK(c) ==
    /\ state[c] \in CallStates
    /\ open[c] \in 0..MaxAttempts /\ applied[c] \in 0..MaxAttempts
    /\ book[c] \in Call
    /\ state[c] # "none" => book[c].end \in Begun
    /\ state[c] = "calling" => book[c].end = "running"

-----------------------------------------------------------------------------
(* A step of one call: the others keep what they have.                       *)
StepOf(c) ==
    /\ state' = [state EXCEPT ![c] = state'[c]]
    /\ open' = [open EXCEPT ![c] = open'[c]]
    /\ applied' = [applied EXCEPT ![c] = applied'[c]]
    /\ book' = [book EXCEPT ![c] = book'[c]]
    /\ UNCHANGED allow_writes

(* A step of one call keeps the invariant if it keeps it for that call and   *)
(* for the run.                                                              *)
LEMMA StepOfOneCall ==
    ASSUME ToolCallsInv, NEW c \in Calls, StepOf(c), CallTypeOK(c)', CallInv(c)',
           \/ run' = run /\ book'[c].end = book[c].end
           \/ /\ run \in {"acting", "failing"} /\ run' \in {"acting", "failing"}
              /\ run' = "acting" => run = "acting" /\ book'[c].end \notin {"raised", "cancelled"}
    PROVE  ToolCallsInv'
<1>1. /\ state \in [Calls -> CallStates] /\ open \in [Calls -> 0..MaxAttempts]
      /\ applied \in [Calls -> 0..MaxAttempts] /\ book \in [Calls -> Call]
    BY DEF ToolCallsInv, ToolCallsTypeOK
<1>2. \A d \in Calls \ {c} : /\ state'[d] = state[d] /\ open'[d] = open[d]
                             /\ applied'[d] = applied[d] /\ book'[d] = book[d]
    BY <1>1 DEF StepOf
<1>3. /\ state' \in [Calls -> CallStates] /\ open' \in [Calls -> 0..MaxAttempts]
      /\ applied' \in [Calls -> 0..MaxAttempts] /\ book' \in [Calls -> Call]
    BY <1>1 DEF StepOf, CallTypeOK
<1>4. ToolCallsTypeOK'
    BY <1>2, <1>3 DEF ToolCallsInv, ToolCallsTypeOK, StepOf, CallTypeOK
<1>5. ASSUME NEW d \in Calls PROVE CallInv(d)'
    BY <1>2 DEF ToolCallsInv, StepOf, CallInv
<1>6. RunInv'
    BY <1>2 DEF ToolCallsInv, RunInv, Over
<1> QED BY <1>4, <1>5, <1>6 DEF ToolCallsInv

(* What the invariant says of one call. *)
LEMMA OneCall ==
    ASSUME ToolCallsInv, NEW c \in Calls
    PROVE  /\ CallTypeOK(c) /\ CallInv(c)
           /\ open[c] \in Nat /\ applied[c] \in Nat /\ MaxAttempts \in Nat
           /\ state \in [Calls -> CallStates] /\ open \in [Calls -> 0..MaxAttempts]
           /\ applied \in [Calls -> 0..MaxAttempts] /\ book \in [Calls -> Call]
BY ToolCallsAssumption DEF ToolCallsInv, ToolCallsTypeOK, CallTypeOK

(* What Ended(c, end) does. *)
LEMMA EndOfACall ==
    ASSUME ToolCallsInv, NEW c \in Calls, NEW end \in Ends, Ended(c, end)
    PROVE  /\ book' = [book EXCEPT ![c] = book'[c]] /\ book'[c] \in Call
           /\ book'[c].asks = book[c].asks /\ book'[c].end = end
           /\ run' = IF end = "raised" THEN "failing" ELSE run
           /\ UNCHANGED allow_writes
BY DEF ToolCallsInv, ToolCallsTypeOK, Ended, Call

LEMMA RejectKeepsInv ==
    ASSUME ToolCallsInv, NEW c \in Calls, Reject(c)
    PROVE  ToolCallsInv'
<1>1. Is(c, "asked") /\ Ended(c, "rejected") /\ UNCHANGED <<state, open, applied>>
    BY DEF Reject, uvars
<1>2. state[c] = "none"
    BY <1>1, OneCall DEF CallTypeOK, Begun, Is
<1>3. StepOf(c) /\ run' = run /\ book'[c].end = "rejected" /\ book'[c] \in Call
    BY <1>1, OneCall, EndOfACall DEF StepOf, Ends
<1>4. CallTypeOK(c)' /\ CallInv(c)'
    BY <1>1, <1>2, <1>3, OneCall DEF CallTypeOK, CallInv
<1> QED BY <1>1, <1>3, <1>4, StepOfOneCall DEF Is

LEMMA StartKeepsInv ==
    ASSUME ToolCallsInv, NEW c \in Calls, Start(c)
    PROVE  ToolCallsInv'
<1>1. Is(c, "asked") /\ state[c] = "none" /\ open[c] = 0 /\ applied[c] = 0
    BY OneCall DEF Start, CallTypeOK, CallInv, Begun, Is
<1>2. CASE Forbidden(c)
    <2>1. Ended(c, "raised") /\ UNCHANGED <<state, open, applied>>
        BY <1>2 DEF Start, uvars
    <2>2. StepOf(c) /\ book'[c].end = "raised" /\ book'[c] \in Call /\ run' = "failing"
        BY <2>1, OneCall, EndOfACall DEF StepOf, Ends
    <2>3. CallTypeOK(c)' /\ CallInv(c)'
        BY <1>1, <2>1, <2>2, OneCall DEF CallTypeOK, CallInv
    <2> QED BY <1>1, <2>2, <2>3, StepOfOneCall DEF Is
<1>3. CASE ~Forbidden(c)
    <2>1. /\ Ended(c, "running") /\ applied' = applied
          /\ state' = [state EXCEPT ![c] = "cached"] \/ state' = [state EXCEPT ![c] = "calling"]
          /\ open' = open \/ (Out(c) /\ open' = [open EXCEPT ![c] = @ + 1])
          /\ book[c].asks = "write" => state'[c] = "calling" /\ allow_writes
        BY <1>3 DEF Start, Begin, Move, Out, Forbidden
    <2>2. /\ state' = [state EXCEPT ![c] = state'[c]] /\ state'[c] \in {"cached", "calling"}
          /\ open' = [open EXCEPT ![c] = open'[c]]
          /\ open'[c] \in 0..MaxAttempts /\ open'[c] + applied[c] <= MaxAttempts
          /\ applied'[c] = applied[c]
        BY <1>1, <2>1, OneCall DEF Out
    <2>3. /\ StepOf(c) /\ run' = run /\ book'[c].end = "running" /\ book'[c] \in Call
          /\ book'[c].asks = book[c].asks
        BY <2>1, <2>2, OneCall, EndOfACall DEF StepOf, Ends
    <2>4. CallTypeOK(c)'
        BY <2>1, <2>2, <2>3, OneCall DEF CallTypeOK, CallStates, Begun
    <2>5. CallInv(c)'
        BY <2>1, <2>2, <2>3, OneCall DEF CallInv, Ended
    <2> QED BY <1>1, <2>3, <2>4, <2>5, StepOfOneCall DEF Is
<1> QED BY <1>2, <1>3

(* A step of the HTTP client or of the upstream leaves the book alone.       *)
LEMMA HttpKeepsInv ==
    ASSUME ToolCallsInv, NEW c \in Calls, Progress(c) \/ Upstream(c)
    PROVE  ToolCallsInv'
<1>1. UNCHANGED <<allow_writes, run, book>>
    BY DEF Progress, Upstream
<1>2. \/ Send(c) \/ Answer(c) \/ Fail(c) \/ CarryOut(c) \/ Refused(c)
    BY DEF Progress, Upstream
<1>3. /\ state' = [state EXCEPT ![c] = state'[c]]
      /\ \/ state'[c] = state[c]
         \/ state[c] = "calling" /\ state'[c] = "failed"
         \/ state[c] = "calling" /\ state'[c] = "answered" /\ applied[c] > 0
    BY <1>2, OneCall DEF Send, Answer, Fail, CarryOut, Refused, Move
<1>4. /\ open' = [open EXCEPT ![c] = open'[c]] /\ applied' = [applied EXCEPT ![c] = applied'[c]]
      /\ open'[c] \in Nat /\ applied'[c] \in Nat /\ applied'[c] >= applied[c]
      /\ open'[c] + applied'[c] <= MaxAttempts
      /\ state[c] = "none" => open'[c] = open[c] /\ applied'[c] = applied[c]
    <2>0. /\ open \in [Calls -> 0..MaxAttempts] /\ applied \in [Calls -> 0..MaxAttempts]
          /\ open[c] \in Nat /\ applied[c] \in Nat /\ open[c] + applied[c] <= MaxAttempts
          /\ MaxAttempts \in Nat
          /\ state[c] = "none" => open[c] = 0
        BY OneCall DEF CallInv
    <2>1. CASE Send(c)
        BY <2>0, <2>1 DEF Send, Out
    <2>2. CASE Answer(c) \/ Fail(c)
        BY <2>0, <2>2 DEF Answer, Fail
    <2>3. CASE CarryOut(c)
        <3>1. /\ open[c] > 0 /\ applied' = [applied EXCEPT ![c] = @ + 1]
              /\ open' = [open EXCEPT ![c] = @ - 1]
            BY <2>3 DEF CarryOut
        <3>2. open'[c] = open[c] - 1 /\ applied'[c] = applied[c] + 1 /\ state[c] # "none"
            BY <2>0, <3>1
        <3>3. open[c] - 1 \in Nat /\ open[c] - 1 + (applied[c] + 1) <= MaxAttempts
            BY <2>0, <3>1
        <3> QED BY <2>0, <3>1, <3>2, <3>3
    <2>4. CASE Refused(c)
        <3>1. open[c] > 0 /\ applied' = applied /\ open' = [open EXCEPT ![c] = @ - 1]
            BY <2>4 DEF Refused
        <3>2. open'[c] = open[c] - 1 /\ applied'[c] = applied[c] /\ state[c] # "none"
            BY <2>0, <3>1
        <3>3. open[c] - 1 \in Nat /\ open[c] - 1 + applied[c] <= MaxAttempts
            BY <2>0, <3>1
        <3> QED BY <2>0, <3>1, <3>2, <3>3
    <2> QED BY <1>2, <2>1, <2>2, <2>3, <2>4
<1>5. open'[c] \in 0..MaxAttempts /\ applied'[c] \in 0..MaxAttempts
    BY <1>4, OneCall
<1>6. StepOf(c)
    BY <1>1, <1>3, <1>4, OneCall DEF StepOf
<1>7. CallTypeOK(c)'
    BY <1>1, <1>3, <1>5, OneCall DEF CallTypeOK, CallStates, Begun
<1>8. CallInv(c)'
    <2>1. book[c].asks = "write" => state'[c] # "cached"
        BY <1>3, OneCall DEF CallInv
    <2>2. state[c] = "calling" => book[c].end = "running"
        BY OneCall DEF CallTypeOK
    <2>3. applied[c] > 0 => applied'[c] > 0
        BY <1>4, OneCall
    <2> QED BY <1>1, <1>3, <1>4, <2>1, <2>2, <2>3, OneCall DEF CallInv
<1> QED BY <1>1, <1>6, <1>7, <1>8, StepOfOneCall

LEMMA ReturnKeepsInv ==
    ASSUME ToolCallsInv, NEW c \in Calls, Return(c)
    PROVE  ToolCallsInv'
<1> DEFINE end == IF state[c] = "failed" THEN "raised" ELSE "reported"
<1>1. /\ Is(c, "running") /\ state[c] \in {"answered", "cached", "failed"}
      /\ Ended(c, end) /\ UNCHANGED <<state, open, applied>>
    BY DEF Return, uvars
<1>2. /\ end \in {"raised", "reported"} /\ end \in Ends
      /\ end = "reported" => state[c] \in {"answered", "cached"}
    BY <1>1 DEF Ends
<1> HIDE DEF end
<1>3. /\ StepOf(c) /\ book'[c].end = end /\ book'[c].asks = book[c].asks /\ book'[c] \in Call
      /\ run' = IF end = "raised" THEN "failing" ELSE run
    BY <1>1, <1>2, OneCall, EndOfACall DEF StepOf
<1>4. CallTypeOK(c)'
    BY <1>1, <1>2, <1>3, OneCall DEF CallTypeOK, Begun
<1>5. CallInv(c)'
    BY <1>1, <1>2, <1>3, OneCall DEF CallInv, StepOf
<1> QED BY <1>1, <1>2, <1>3, <1>4, <1>5, StepOfOneCall DEF Is

LEMMA CancelKeepsInv ==
    ASSUME ToolCallsInv, NEW c \in Calls, Cancel(c)
    PROVE  ToolCallsInv'
<1>1. /\ run = "failing" /\ Ended(c, "cancelled") /\ UNCHANGED <<open, applied>>
      /\ state' = [state EXCEPT ![c] = state'[c]]
      /\ \/ state[c] = "calling" /\ state'[c] = "left"
         \/ state[c] # "calling" /\ state'[c] = state[c]
    BY OneCall DEF Cancel, Leave, Move, uvars
<1>2. /\ StepOf(c) /\ book'[c].end = "cancelled" /\ book'[c].asks = book[c].asks
      /\ book'[c] \in Call /\ run' = run
    BY <1>1, OneCall, EndOfACall DEF StepOf, Ends
<1>3. CallTypeOK(c)'
    BY <1>1, <1>2, OneCall DEF CallTypeOK, CallStates, Begun
<1>4. CallInv(c)'
    BY <1>1, <1>2, OneCall DEF CallInv, StepOf
<1> QED BY <1>1, <1>2, <1>3, <1>4, StepOfOneCall

LEMMA AskKeepsInv ==
    ASSUME ToolCallsInv, NEW D \in SUBSET Calls, NEW asks \in [D -> Asks], Ask(asks)
    PROVE  ToolCallsInv'
<1>1. /\ run = "thinking" /\ run' = "acting"
      /\ \A c \in D : book[c].end = "unasked"
      /\ book' = [c \in Calls |-> IF c \in D THEN [asks |-> asks[c], end |-> "asked"]
                                  ELSE book[c]]
      /\ UNCHANGED <<state, open, applied, allow_writes>>
    BY DEF Ask, uvars
<1>2. ASSUME NEW c \in D
      PROVE  state[c] = "none" /\ book'[c] \in Call /\ book'[c].end = "asked"
    BY <1>1, OneCall DEF CallTypeOK, Begun, Call, Asks, Ends
<1>3. \A c \in Calls \ D : book'[c] = book[c]
    BY <1>1
<1>4. book' \in [Calls -> Call]
    BY <1>1, <1>2, <1>3 DEF ToolCallsInv, ToolCallsTypeOK
<1>5. ToolCallsTypeOK'
    BY <1>1, <1>2, <1>3, <1>4 DEF ToolCallsInv, ToolCallsTypeOK
<1>6. ASSUME NEW c \in Calls PROVE CallInv(c)'
    BY <1>1, <1>2, <1>3 DEF ToolCallsInv, CallInv
<1>7. RunInv'
    BY <1>1, <1>2, <1>3 DEF ToolCallsInv, RunInv
<1> QED BY <1>5, <1>6, <1>7 DEF ToolCallsInv

(* The steps of the run itself. *)
LEMMA RunKeepsInv ==
    ASSUME ToolCallsInv, Conclude \/ HangUp \/ Settle
    PROVE  ToolCallsInv'
<1>1. UNCHANGED <<state, open, applied, allow_writes, book>>
    BY DEF Conclude, HangUp, Settle, uvars
<1>2. ToolCallsTypeOK'
    BY <1>1 DEF Conclude, HangUp, Settle, ToolCallsInv, ToolCallsTypeOK
<1>3. ASSUME NEW c \in Calls PROVE CallInv(c)'
    BY <1>1 DEF ToolCallsInv, CallInv
<1>4. RunInv'
    <2>1. CASE Conclude
        BY <1>1, <2>1 DEF Conclude, ToolCallsInv, RunInv, Over
    <2>2. CASE HangUp
        BY <1>1, <2>2 DEF HangUp, RunInv, Over
    <2>3. CASE Settle
        BY <1>1, <2>3 DEF Settle, Over, ToolCallsInv, RunInv
    <2> QED BY <2>1, <2>2, <2>3
<1> QED BY <1>2, <1>3, <1>4 DEF ToolCallsInv

-----------------------------------------------------------------------------
LEMMA ToolCallsInvHolds == ToolCallsSpec => []ToolCallsInv
<1>1. ToolCallsInit => ToolCallsInv
    <2> SUFFICES ASSUME ToolCallsInit PROVE ToolCallsInv
        OBVIOUS
    <2>1. ToolCallsTypeOK
        BY ToolCallsAssumption
        DEF ToolCallsInit, UInit, ToolCallsTypeOK, CallStates, Call, Asks, Ends
    <2>2. ASSUME NEW c \in Calls PROVE CallInv(c) /\ Over(c) /\ book[c].end = "unasked"
        BY ToolCallsAssumption DEF ToolCallsInit, UInit, CallInv, Over
    <2> QED BY <2>1, <2>2 DEF ToolCallsInv, RunInv
<1>2. ToolCallsInv /\ [ToolCallsNext]_vars => ToolCallsInv'
    <2> SUFFICES ASSUME ToolCallsInv, [ToolCallsNext]_vars PROVE ToolCallsInv'
        OBVIOUS
    <2>1. CASE UNCHANGED vars
        BY <2>1 DEF vars, uvars, ToolCallsInv, ToolCallsTypeOK, CallInv, RunInv, Over
    <2>2. CASE ToolCallsNext
        BY <2>2, AskKeepsInv, RunKeepsInv, RejectKeepsInv, StartKeepsInv, HttpKeepsInv,
           ReturnKeepsInv, CancelKeepsInv DEF ToolCallsNext
    <2> QED BY <2>1, <2>2
<1> QED BY <1>1, <1>2, PTL DEF ToolCallsSpec

(* Only a call that was begun has one in the HTTP client, and it is under    *)
(* way there only while the round counts it as running, whatever is          *)
(* rejected, raised or cancelled beside it.                                  *)
THEOREM ToolCallsTypeCorrect == ToolCallsSpec => []ToolCallsTypeOK
<1>1. ToolCallsInv => ToolCallsTypeOK
    BY DEF ToolCallsInv
<1> QED BY <1>1, ToolCallsInvHolds, PTL

(* The agent never answers, nor asks again, on top of a call it was not told *)
(* of; a write it was told of was allowed and was carried out, at most       *)
(* MaxAttempts times even when requests of it are carried out afterwards;    *)
(* and what is forbidden or was rejected is never carried out.               *)
THEOREM AnswersAlwaysRestOnReports == ToolCallsSpec => []AnswersRestOnReports
<1>1. ToolCallsInv => AnswersRestOnReports
    <2> SUFFICES ASSUME ToolCallsInv, NEW c \in Calls
                 PROVE  /\ run \in {"thinking", "answered"} =>
                               book[c].end \in {"unasked", "reported", "rejected"}
                        /\ book[c].asks = "write" =>
                              /\ book[c].end = "reported" =>
                                    /\ allow_writes
                                    /\ applied[c] > 0 /\ applied[c] + open[c] <= MaxAttempts
                              /\ book[c].end = "rejected" \/ ~allow_writes =>
                                    applied[c] + open[c] = 0
        BY DEF AnswersRestOnReports
    <2>1. run \in {"thinking", "answered"} =>
              book[c].end \in {"unasked", "reported", "rejected"}
        BY OneCall DEF ToolCallsInv, RunInv, Over, CallTypeOK, Call, Ends
    <2>2. ASSUME book[c].asks = "write", book[c].end = "reported"
          PROVE  allow_writes /\ applied[c] > 0 /\ applied[c] + open[c] <= MaxAttempts
        BY <2>2, OneCall DEF CallInv
    <2>3. ASSUME book[c].asks = "write", book[c].end = "rejected" \/ ~allow_writes
          PROVE  applied[c] + open[c] = 0
        <3>1. state[c] = "none"
            BY <2>3, OneCall DEF CallInv, CallTypeOK, Begun
        <3> QED BY <3>1, OneCall DEF CallInv
    <2> QED BY <2>1, <2>2, <2>3
<1> QED BY <1>1, ToolCallsInvHolds, PTL
=============================================================================
