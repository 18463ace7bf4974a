---------------------------- MODULE Conversation ----------------------------
(* Turns of conversations: POST /chat and /chat/stream (interfaces/api), the *)
(* chat command (interfaces/cli), the swarm's graph they run, and the store  *)
(* of memory/checkpoint.py that carries a conversation from one turn to the  *)
(* next.  LangGraph is external, modelled from how src/ uses it: a run of    *)
(* the graph loads the newest checkpoint of its thread, adds its input, and  *)
(* goes from superstep to superstep; each makes a checkpoint that a          *)
(* background task saves, in order, while the run goes on; whichever way the *)
(* run ends, it ends after its last save.  The newest checkpoint is the one  *)
(* made last, not the one saved last.                                        *)
EXTENDS Naturals, Sequences, SequencesExt

CONSTANTS
    MaxTurns,     \* bound: how many turns are made
    Sessions,     \* session ids: the API's, the CLI's, given or generated
    Setups,       \* how the system may be set up and used, and what befalls it
    MaxBadSaves   \* bound: how many saves fail

(* settings.agent.recursion_limit; does a client wait for a turn of its      *)
(* session to end?  bound: how often the process ends and is started again.  *)
Setup == [limit : Nat, patient : BOOLEAN, restarts : Nat]

ASSUME ConversationAssumption ==
    /\ Setups \subseteq Setup
    /\ MaxTurns \in Nat /\ MaxBadSaves \in Nat

VARIABLES
    app,       \* "api" or "cli"
    setup,     \* a member of Setups
    backend,   \* "memory", or "durable": sqlite and postgres
    restarts,  \* how often the process was started again
    badSaves,  \* how many saves failed
    clock,     \* checkpoints made so far, the stamp of the newest
    store,     \* the newest saved checkpoint of each session
    turn       \* where each turn is, and what it carries

fixed == <<app, setup, backend>>
vars == <<fixed, restarts, badSaves, clock, store, turn>>

Turns == 1..MaxTurns                 \* in the order they begin
Modes == IF app = "api" THEN {"chat", "chat_stream"} ELSE {"invoke", "stream"}
Streaming == {"chat_stream", "stream"}
Kinds == {"human", "handoff", "work", "answer"}
Message == [turn : Turns, kind : Kinds]
Checkpoint == [stamp : Nat, messages : Seq(Message)]
Blank == [stamp |-> 0, messages |-> <<>>]
Faults == {"none", "SuiSwarmError", "other"}
(* What a client is told: a token, by the message it belongs to; the end of  *)
(* the turn, with the answer if it carries one.                              *)
Endings == {"done", "SuiSwarmError", "other"}
Told == [kind : {"token", "shown"}, message : Message] \cup [kind : Endings]

Unborn == [stage |-> "idle"]
Lost == [stage |-> "lost"]
Live == {"loading", "entering", "running", "closing"}
Turn == [stage : Live \cup {"ended"},
         session : Sessions, mode : {"chat", "chat_stream", "invoke", "stream"},
         vocal : BOOLEAN,       \* does the graph stream the supervisor's text?
         seen : Seq(Message),   \* the messages the run works on
         node : {"supervisor", "agent", "end"},
         steps : 0..setup.limit,
         queue : Seq(Checkpoint),  \* made and not saved yet
         fault : Faults,        \* what the run will raise
         gone : BOOLEAN,        \* has the client hung up?
         told : Seq(Told),
         life : 0..setup.restarts] \* history: in which life of the process

ConversationTypeOK ==
    /\ app \in {"api", "cli"} /\ setup \in Setups /\ backend \in {"memory", "durable"}
    /\ restarts \in 0..setup.restarts
    /\ badSaves \in 0..MaxBadSaves
    /\ clock \in Nat
    /\ store \in [Sessions -> Checkpoint]
    /\ turn \in [Turns -> Turn \cup {Unborn, Lost}]

ConversationInit ==
    /\ app \in {"api", "cli"} /\ setup \in Setups /\ backend \in {"memory", "durable"}
    /\ restarts = 0
    /\ badSaves = 0
    /\ clock = 0
    /\ store = [s \in Sessions |-> Blank]
    /\ turn = [t \in Turns |-> Unborn]

In(t, stages) == turn[t].stage \in stages

(* A turn that may still add to its session. *)
Adding(t, s) == In(t, Live) /\ turn[t].session = s /\ ~(turn[t].gone /\ In(t, {"closing"}))

(* The API takes turns as they come; the CLI takes one after the other. *)
Admitted(s) ==
    /\ app = "cli" => \A t \in Turns : ~In(t, Live)
    /\ setup.patient => \A t \in Turns : ~Adding(t, s)

Begin(t, s, mode, vocal) ==
    /\ In(t, {"idle"}) /\ (\A u \in 1..t - 1 : ~In(u, {"idle"})) /\ Admitted(s)
    /\ mode \in Modes /\ (vocal => mode \in Streaming)
    /\ turn' = [turn EXCEPT ![t] =
            [stage |-> "loading", session |-> s, mode |-> mode, vocal |-> vocal,
             seen |-> <<>>, node |-> "supervisor", steps |-> 0, queue |-> <<>>,
             fault |-> "none", gone |-> FALSE, told |-> <<>>, life |-> restarts]]
    /\ UNCHANGED <<fixed, restarts, badSaves, clock, store>>

(* The run reads the newest checkpoint of its thread ... *)
Load(t) ==
    /\ In(t, {"loading"})
    /\ turn' = [turn EXCEPT ![t].seen = store[turn[t].session].messages,
                            ![t].stage = "entering"]
    /\ UNCHANGED <<fixed, restarts, badSaves, clock, store>>

(* The messages with one more, the checkpoint of it made and queued. *)
Add(t, kind, next, tokens) ==
    LET r == turn[t]
        messages == Append(r.seen, [turn |-> t, kind |-> kind])
    IN /\ clock' = clock + 1
       /\ turn' = [turn EXCEPT ![t] =
            [r EXCEPT !.seen = messages, !.node = next,
                      !.stage = IF next = "end" THEN "closing" ELSE "running",
                      !.steps = IF kind = "human" THEN 0 ELSE r.steps + 1,
                      !.queue = Append(r.queue, [stamp |-> clock', messages |-> messages]),
                      !.told = r.told \o tokens]]
       /\ UNCHANGED <<fixed, restarts, badSaves, store>>

(* ... and, back from the read, adds the user's message to what it read. *)
Enter(t) == In(t, {"entering"}) /\ Add(t, "human", "supervisor", <<>>)

(* Mutant: the settings' limit is not passed on, and LangGraph's own holds.  *)
LimitDefault == 25

(* The recursion limit of a run's config. *)
Limit == setup.limit

Within(t) == turn[t].steps < Limit

(* A superstep at a node of the graph, within the recursion limit. *)
At(t, node) == In(t, {"running"}) /\ turn[t].node = node /\ Within(t)

(* The text of the supervisor's message, if it is streamed and not empty. *)
Tokens(t, kind, text) ==
    IF turn[t].mode \in Streaming /\ turn[t].vocal /\ text
    THEN <<[kind |-> "token", message |-> [turn |-> t, kind |-> kind]]>>
    ELSE <<>>

(* The supervisor's model answers, or hands over to a sub-agent, with or     *)
(* without a word about it.                                                  *)
Answer(t) == At(t, "supervisor") /\ Add(t, "answer", "end", Tokens(t, "answer", TRUE))

HandOver(t, text) ==
    At(t, "supervisor") /\ Add(t, "handoff", "agent", Tokens(t, "handoff", text))

(* The sub-agent works and reports back; its chunks are not the supervisor's *)
(* and are passed over.                                                      *)
Report(t) == At(t, "agent") /\ Add(t, "work", "supervisor", <<>>)

Close(t, fault) ==
    /\ turn' = [turn EXCEPT ![t].stage = "closing", ![t].fault = fault]
    /\ UNCHANGED <<fixed, restarts, badSaves, clock, store>>

(* Mutant: the limit is looked for one step too late. *)
ExceededLate(t) == turn[t].steps > Limit

Exceeded(t) == turn[t].steps >= Limit

(* GraphRecursionError, which is no SuiSwarmError. *)
OutOfSteps(t) == In(t, {"running"}) /\ Exceeded(t) /\ Close(t, "other")

(* The load fails, or the model or a tool in a superstep. *)
Raise(t, fault) ==
    /\ In(t, {"loading", "running"})
    /\ In(t, {"loading"}) => backend = "durable" /\ fault = "other"
    /\ In(t, {"running"}) => Within(t)
    /\ Close(t, fault)

(* The oldest checkpoint not saved is saved.  The store's newest is the one  *)
(* with the latest stamp.                                                    *)
Save(t) ==
    LET s == turn[t].session
        checkpoint == Head(turn[t].queue)
    IN /\ In(t, {"running", "closing"}) /\ turn[t].queue # <<>>
       /\ store' = IF checkpoint.stamp > store[s].stamp
                   THEN [store EXCEPT ![s] = checkpoint] ELSE store
       /\ turn' = [turn EXCEPT ![t].queue = Tail(@)]
       /\ UNCHANGED <<fixed, restarts, badSaves, clock>>

(* A save to a database fails: the next is tried, and the run will raise the *)
(* failure, unless it raises another.                                        *)
SaveFails(t) ==
    /\ backend = "durable" /\ badSaves < MaxBadSaves
    /\ In(t, {"running", "closing"}) /\ turn[t].queue # <<>>
    /\ badSaves' = badSaves + 1
    /\ turn' = [turn EXCEPT ![t].queue = Tail(@),
                            ![t].fault = IF @ = "none" THEN "other" ELSE @]
    /\ UNCHANGED <<fixed, restarts, clock, store>>

(* The reader of a stream hangs up: the response's task is cancelled, and    *)
(* with it the run.  (A client of /chat that hangs up changes nothing.)      *)
HangUp(t) ==
    /\ In(t, Live) /\ turn[t].mode = "chat_stream" /\ ~turn[t].gone
    /\ turn' = [turn EXCEPT ![t].gone = TRUE, ![t].stage = "closing"]
    /\ UNCHANGED <<fixed, restarts, badSaves, clock, store>>

(* Mutant: a stream ends in "done" whatever happened. *)
OutcomeDone(t) == "done"

Outcome(t) == IF turn[t].fault = "none" THEN "done" ELSE turn[t].fault

(* Mutant: the CLI relies on the stream. *)
UnstreamedNever(t) == FALSE

(* `not answer.strip()` *)
Unstreamed(t) == turn[t].told = <<>>

(* /chat and the CLI show the last message of the run; a CLI that streamed   *)
(* nothing shows the last message the store has.                             *)
Shown(t) ==
    LET r == turn[t]
        LastOf(messages) ==
            IF messages = <<>> THEN <<>> ELSE <<[kind |-> "shown", message |-> Last(messages)]>>
    IN CASE r.mode \in {"chat", "invoke"} -> LastOf(r.seen)
         [] r.mode = "stream" /\ Unstreamed(t) -> LastOf(store[r.session].messages)
         [] OTHER -> <<>>

(* What a client that is still there gets at the end: what is shown, if the  *)
(* run did not fail, and how it ended: 200, 502 or 500 of /chat, the last    *)
(* event of a stream, the CLI's error messages.                              *)
Ending(t) ==
    IF turn[t].gone THEN <<>>
    ELSE (IF turn[t].fault = "none" THEN Shown(t) ELSE <<>>) \o <<[kind |-> Outcome(t)]>>

Saved(t) == turn[t].queue = <<>>

(* Mutant: the CLI asks the graph again when nothing was streamed. *)
AfterAsksAgain(t) ==
    IF turn[t].mode = "stream" /\ turn[t].told = <<>> THEN "loading" ELSE "ended"

(* What comes of a turn that is told its ending. *)
After(t) == "ended"

End(t) ==
    /\ In(t, {"closing"}) /\ Saved(t)
    /\ turn' = [turn EXCEPT ![t] =
            [turn[t] EXCEPT !.stage = After(t), !.told = turn[t].told \o Ending(t),
                            !.vocal = FALSE, !.queue = <<>>, !.seen = <<>>,
                            !.steps = 0, !.fault = "none"]]
    /\ UNCHANGED <<fixed, restarts, badSaves, clock, store>>

(* Mutant: every store is an InMemorySaver. *)
ReopenedEmpty == [s \in Sessions |-> Blank]

(* What the checkpointer of a new life of the process finds. *)
Reopened == IF backend = "memory" THEN [s \in Sessions |-> Blank] ELSE store

(* The process is killed, or shut down, and started again: its turns are     *)
(* lost, with the saves that were due; InMemorySaver loses all it has.       *)
Restart ==
    /\ restarts < setup.restarts
    /\ restarts' = restarts + 1
    /\ turn' = [t \in Turns |->
            IF In(t, Live) THEN Lost ELSE turn[t]]
    /\ store' = Reopened
    /\ UNCHANGED <<fixed, badSaves, clock>>

AllOver == (\A t \in Turns : In(t, {"ended", "lost"})) /\ UNCHANGED vars

Step(t) ==
    \/ Load(t) \/ Enter(t) \/ Answer(t) \/ Report(t) \/ OutOfSteps(t)
    \/ \E text \in BOOLEAN : HandOver(t, text)
    \/ \E fault \in Faults \ {"none"} : Raise(t, fault)
    \/ Save(t) \/ SaveFails(t) \/ End(t)

ConversationNext ==
    \/ \E t \in Turns : \/ \E s \in Sessions, mode \in Modes, vocal \in BOOLEAN :
                              Begin(t, s, mode, vocal)
                        \/ Step(t)
                        \/ HangUp(t)
    \/ Restart
    \/ AllOver

(* The event loop resumes what is ready; a model or a tool answers or runs   *)
(* into its timeout; a save succeeds or fails.                               *)
ConversationSafe == ConversationInit /\ [][ConversationNext]_vars

ConversationSpec ==
    /\ ConversationSafe
    /\ \A t \in Turns : WF_vars(Step(t))

-----------------------------------------------------------------------------
Finished(t) == In(t, {"ended"}) /\ \E i \in 1..Len(turn[t].told) : turn[t].told[i] = [kind |-> "done"]
Messages(s) == store[s].messages
Has(messages, t, kind) ==
    \E i \in 1..Len(messages) : messages[i] = [turn |-> t, kind |-> kind]

(* If turns of a session follow one another, then whatever crashed, failed   *)
(* or hung up meanwhile the store holds the question and the answer of every *)
(* turn whose client was told that it is done; with InMemorySaver, of every  *)
(* such turn of this life of the process.                                    *)
AnsweredTurnsAreRemembered ==
    \A t \in Turns :
        (/\ setup.patient /\ Finished(t)
         /\ backend = "durable" \/ turn[t].life = restarts) =>
            LET m == Messages(turn[t].session)
            IN Has(m, t, "human") /\ Has(m, t, "answer")

(* What trien-khai.md:277-279 says, of clients of any kind: with sqlite or   *)
(* postgres, to use a session id again goes on with its conversation.        *)
SessionGoesOn ==
    \A t \in Turns :
        (Finished(t) /\ backend = "durable") => Has(Messages(turn[t].session), t, "answer")

(* A conversation reads as one: every turn in it is one block that starts    *)
(* with the question, and only the block's last message is an answer, even   *)
(* if turns overlapped or were cut short.                                    *)
HistoryReadsAsConversation ==
    \A s \in Sessions :
        LET m == Messages(s) IN
        /\ m # <<>> => m[1].kind = "human"
        /\ \A i \in 1..Len(m) - 1 :
              /\ (m[i + 1].kind = "human") <=> (m[i + 1].turn # m[i].turn)
              /\ m[i].kind = "answer" => m[i + 1].kind = "human"
        /\ \A i, j \in 1..Len(m) : (m[i] = m[j] /\ m[i].kind = "human") => i = j

(* A turn ends for its client exactly once and truly: "done" only when the   *)
(* run answered; nothing comes after the end; and only a client that hung up *)
(* or lost the process is left without one.                                  *)
EndsOnceAndTruly ==
    \A t \in {u \in Turns : ~In(u, {"idle", "lost"})} :
        LET told == turn[t].told
            ends == {i \in 1..Len(told) : told[i].kind \in Endings}
        IN /\ \A i \in ends : i = Len(told) /\ In(t, {"ended"})
           /\ In(t, {"ended"}) /\ ~turn[t].gone => ends # {}
           /\ Finished(t) => turn[t].node = "end"

(* The CLI shows the answer of a turn that is done, and shows it once:       *)
(* streamed, or printed, or read back from the store, never another turn's.  *)
CliShowsTheAnswer ==
    \A t \in Turns :
        (Finished(t) /\ turn[t].mode \in {"invoke", "stream"}) =>
            LET told == turn[t].told
                answer == [turn |-> t, kind |-> "answer"]
                texts == {i \in 1..Len(told) : told[i].kind \notin Endings}
            IN /\ \E i \in texts : told[i].message = answer
               /\ \A i \in texts : told[i].message.turn = t
               /\ \A i, j \in texts : told[i].message = answer /\ told[j].message = answer => i = j

(* Every turn comes to an end: the supervisor and the agents cannot hand     *)
(* over to each other for ever, and no failure leaves a client waiting.      *)
EveryTurnEnds ==
    \A t \in Turns : In(t, {"loading"}) ~> In(t, {"ended", "lost"})
=============================================================================
