-------------------------- MODULE ConversationProofs --------------------------
(* The safety of Conversation: for any number of turns, sessions, restarts   *)
(* and saves that fail, any recursion limit, and patient clients or not.     *)
EXTENDS Conversation, SequenceTheorems, TLAPS

(* A list of messages reads as a conversation of turns among T. *)
Reads(m, T) ==
    /\ m # <<>> => m[1].kind = "human"
    /\ \A i \in 1..Len(m) - 1 :
          /\ (m[i + 1].kind = "human") <=> (m[i + 1].turn # m[i].turn)
          /\ m[i].kind = "answer" => m[i + 1].kind = "human"
    /\ \A i, j \in 1..Len(m) : (m[i] = m[j] /\ m[i].kind = "human") => i = j
    /\ \A i \in 1..Len(m) : m[i].turn \in T

(* The turns whose question is in no list yet, and the others. *)
Early == {"idle", "loading", "entering"}
Known == {t \in Turns : ~In(t, Early)}

(* What is stored, what a run works on, and what it still has to save, reads *)
(* as a conversation; of a turn that is only entering, nothing is there.     *)
ListsInv ==
    /\ \A s \in Sessions : Reads(store[s].messages, Known)
    /\ \A t \in Turns : In(t, Live) =>
          /\ Reads(turn[t].seen, Known)
          /\ \A k \in 1..Len(turn[t].queue) : Reads(turn[t].queue[k].messages, Known)

(* A run that added its question and did not fail. *)
Entered(r) == r.stage = "running" \/ (r.stage = "closing" /\ r.node = "end")

(* The record r of a run of turn t: what it has seen ends in a message of    *)
(* its own, the answer if it is at its end; what its client was told are     *)
(* tokens of this turn, the answer's once and only with the answer.          *)
RunOK(r, t) ==
    /\ r.stage \in {"loading", "entering"} =>
          r.queue = <<>> /\ r.told = <<>> /\ r.fault = "none" /\ r.node = "supervisor"
    /\ Entered(r) =>
          /\ r.seen # <<>> /\ r.seen[Len(r.seen)].turn = t /\ Has(r.seen, t, "human")
    /\ r.stage = "running" => r.node # "end" /\ r.seen[Len(r.seen)].kind # "answer"
    /\ r.node = "end" =>
          /\ r.stage = "closing" /\ r.seen[Len(r.seen)].kind = "answer"
          /\ r.vocal => \E i \in 1..Len(r.told) : r.told[i].message.kind = "answer"
    /\ r.stage = "closing" /\ r.fault = "none" => r.gone \/ r.node = "end"
    /\ r.gone => r.stage = "closing" /\ r.mode = "chat_stream"
    /\ r.vocal => r.mode \in Streaming
    /\ r.told # <<>> => r.vocal
    /\ \A i \in 1..Len(r.told) :
          /\ r.told[i] \in [kind : {"token"}, message : Message]
          /\ r.told[i].message.turn = t
          /\ r.told[i].message.kind = "answer" => r.node = "end" /\ i = Len(r.told)

(* The record of a turn that ended: one ending, unless the client hung up;   *)
(* and what the CLI showed before it, if that was "done".                    *)
EndOK(r, t) ==
    LET ends == {i \in 1..Len(r.told) : r.told[i].kind \in Endings}
        texts == {i \in 1..Len(r.told) : r.told[i].kind \notin Endings}
        answers == {i \in texts : r.told[i].message = [turn |-> t, kind |-> "answer"]}
    IN /\ \A i \in ends : i = Len(r.told)
       /\ ~r.gone => ends # {}
       /\ (\E i \in ends : r.told[i] = [kind |-> "done"]) =>
             /\ r.node = "end"
             /\ r.mode \in {"invoke", "stream"} =>
                   /\ answers # {} /\ \A i, j \in answers : i = j
                   /\ \A i \in texts : r.told[i].message.turn = t

RunInv ==
    \A t \in Turns : /\ In(t, Live) => RunOK(turn[t], t) /\ turn[t].mode \in Modes
                     /\ In(t, {"ended"}) => EndOK(turn[t], t)

(* The stamps of checkpoints, which say what is newest; and no turn is of a  *)
(* life to come.                                                             *)
StampInv ==
    /\ \A t \in Turns : In(t, Live \cup {"ended"}) => turn[t].life <= restarts
    /\ \A s \in Sessions : store[s].stamp <= clock
    /\ \A t \in Turns : In(t, Live) =>
          \A k \in 1..Len(turn[t].queue) :
             /\ turn[t].queue[k].stamp <= clock
             /\ \A j \in 1..k - 1 : turn[t].queue[j].stamp < turn[t].queue[k].stamp

(* Turns of a session follow one another: another that is still live was     *)
(* hung up before, and what it has to save is older than all of this turn's; *)
(* and as long as nothing failed, the newest checkpoint of this turn is the  *)
(* newest of the session.  Of records: r's turn may add to its session whose *)
(* newest checkpoint is saved, and q's turn is live in it, too.              *)
Serial == setup.patient \/ app = "cli"
Adds(r) == r.stage \in Live /\ ~(r.gone /\ r.stage = "closing")
Clean(r) == r.fault = "none" /\ Entered(r)

Behind(q, r, saved) ==
    /\ q.gone
    /\ \A k \in 1..Len(q.queue) :
          /\ \A j \in 1..Len(r.queue) : q.queue[k].stamp < r.queue[j].stamp
          /\ Clean(r) /\ r.queue = <<>> => q.queue[k].stamp < saved.stamp

Newest(r, saved) ==
    /\ r.queue = <<>> => saved.messages = r.seen
    /\ r.queue # <<>> => r.queue[Len(r.queue)].messages = r.seen
    /\ \A k \in 1..Len(r.queue) : r.queue[k].stamp > saved.stamp

SerialInv ==
    Serial => \A u \in Turns : Adds(turn[u]) =>
        LET saved == store[turn[u].session]
        IN /\ \A v \in Turns \ {u} :
                 In(v, Live) /\ turn[v].session = turn[u].session =>
                     Behind(turn[v], turn[u], saved)
           /\ Clean(turn[u]) => Newest(turn[u], saved)

(* What a turn that is done left is kept by all that may replace it. *)
Kept(u) == Finished(u) /\ (backend = "durable" \/ turn[u].life = restarts)
HasTurn(m, u) == Has(m, u, "human") /\ Has(m, u, "answer")

Keeps(r, saved, u) ==
    /\ r.stage \in {"entering", "running"} => HasTurn(r.seen, u)
    /\ \A k \in 1..Len(r.queue) :
          r.queue[k].stamp > saved.stamp => HasTurn(r.queue[k].messages, u)

KeptInv ==
    setup.patient => \A u \in Turns : Kept(u) =>
        LET saved == store[turn[u].session]
        IN /\ HasTurn(saved.messages, u)
           /\ \A v \in Turns : In(v, Live) /\ turn[v].session = turn[u].session =>
                 Keeps(turn[v], saved, u)

ConversationInv ==
    /\ ConversationTypeOK
    /\ ListsInv
    /\ RunInv
    /\ StampInv
    /\ SerialInv
    /\ KeptInv

-----------------------------------------------------------------------------
(* Lists of messages. *)
LEMMA ReadsMore ==
    ASSUME NEW m, NEW T, NEW U, T \subseteq U, Reads(m, T)
    PROVE  Reads(m, U)
BY DEF Reads

LEMMA ReadsNothing == \A T : Reads(<<>>, T) /\ <<>> \in Seq(Message) /\ Len(<<>>) = 0
BY EmptySeq DEF Reads

(* The message that is added is the last, and the others stay. *)
LEMMA AddedMessage ==
    ASSUME NEW m \in Seq(Message), NEW x \in Message
    PROVE  /\ Append(m, x) \in Seq(Message) /\ Len(m) \in Nat
           /\ Len(Append(m, x)) = Len(m) + 1
           /\ \A i \in 1..Len(m) : Append(m, x)[i] = m[i]
           /\ Append(m, x)[Len(m) + 1] = x
BY AppendProperties, LenProperties

(* A question of a new turn may follow anything that reads so far. *)
LEMMA ReadsQuestion ==
    ASSUME NEW m \in Seq(Message), NEW T, NEW t \in Turns, t \notin T, Reads(m, T)
    PROVE  Reads(Append(m, [turn |-> t, kind |-> "human"]), T \cup {t})
<1> DEFINE x == [turn |-> t, kind |-> "human"]
           n == Len(m)
           a == Append(m, x)
<1>1. x \in Message
    BY DEF Message, Kinds
<1>2. /\ n \in Nat /\ Len(a) = n + 1 /\ a[n + 1] = x
      /\ \A i \in 1..n : a[i] = m[i] /\ a[i].turn \in T
    BY <1>1, AddedMessage DEF Reads
<1>3. x.turn = t /\ x.kind = "human"
    OBVIOUS
<1>4. n = 0 \/ m # <<>>
    BY <1>2, EmptySeq
<1> HIDE DEF a, x, n
<1>5. a[1].kind = "human"
    BY <1>2, <1>3, <1>4 DEF Reads, n
<1>6. ASSUME NEW i \in 1..Len(a) - 1
      PROVE  /\ (a[i + 1].kind = "human") <=> (a[i + 1].turn # a[i].turn)
             /\ a[i].kind = "answer" => a[i + 1].kind = "human"
    <2>1. CASE i = n
        BY <1>2, <1>3, <2>1
    <2>2. CASE i # n
        <3>1. i \in 1..n - 1 /\ i \in 1..n /\ i + 1 \in 1..n
            BY <1>2, <2>2
        <3>2. a[i] = m[i] /\ a[i + 1] = m[i + 1]
            BY <1>2, <3>1
        <3> QED BY <3>1, <3>2 DEF Reads, n
    <2> QED BY <2>1, <2>2
<1>7. ASSUME NEW i \in 1..Len(a), NEW j \in 1..Len(a), a[i] = a[j], a[i].kind = "human"
      PROVE  i = j
    <2>1. \A k \in 1..Len(a) : k \in 1..n \/ k = n + 1
        BY <1>2
    <2>2. CASE i \in 1..n /\ j \in 1..n
        BY <1>2, <1>7, <2>2 DEF Reads, n
    <2>3. CASE i = n + 1 \/ j = n + 1
        BY <1>2, <1>3, <1>7, <2>1, <2>3
    <2> QED BY <2>1, <2>2, <2>3
<1>8. \A i \in 1..Len(a) : a[i].turn \in T \cup {t}
    <2>1. \A k \in 1..Len(a) : k \in 1..n \/ k = n + 1
        BY <1>2
    <2> QED BY <1>2, <1>3, <2>1
<1> QED BY <1>5, <1>6, <1>7, <1>8 DEF Reads, a, x

(* A turn goes on after a message of its own that is no answer. *)
LEMMA ReadsOn ==
    ASSUME NEW m \in Seq(Message), NEW T, NEW t \in Turns, Reads(m, T),
           NEW kind \in Kinds \ {"human"},
           m # <<>>, m[Len(m)].turn = t, m[Len(m)].kind # "answer"
    PROVE  Reads(Append(m, [turn |-> t, kind |-> kind]), T)
<1> DEFINE x == [turn |-> t, kind |-> kind]
           n == Len(m)
           a == Append(m, x)
<1>1. x \in Message
    BY DEF Message
<1>2. /\ n \in Nat /\ n # 0 /\ Len(a) = n + 1 /\ a[n + 1] = x
      /\ \A i \in 1..n : a[i] = m[i] /\ a[i].turn \in T
    BY <1>1, AddedMessage, EmptySeq DEF Reads
<1>3. x.turn = t /\ x.kind = kind /\ kind # "human" /\ a[n].turn = t /\ a[n].kind # "answer"
    BY <1>2
<1> HIDE DEF a, x, n
<1>5. a[1].kind = "human"
    BY <1>2 DEF Reads
<1>6. ASSUME NEW i \in 1..Len(a) - 1
      PROVE  /\ (a[i + 1].kind = "human") <=> (a[i + 1].turn # a[i].turn)
             /\ a[i].kind = "answer" => a[i + 1].kind = "human"
    <2>1. CASE i = n
        BY <1>2, <1>3, <2>1
    <2>2. CASE i # n
        <3>1. i \in 1..n - 1 /\ i \in 1..n /\ i + 1 \in 1..n
            BY <1>2, <2>2
        <3>2. a[i] = m[i] /\ a[i + 1] = m[i + 1]
            BY <1>2, <3>1
        <3> QED BY <3>1, <3>2 DEF Reads, n
    <2> QED BY <2>1, <2>2
<1>7. ASSUME NEW i \in 1..Len(a), NEW j \in 1..Len(a), a[i] = a[j], a[i].kind = "human"
      PROVE  i = j
    <2>1. \A k \in 1..Len(a) : k \in 1..n \/ k = n + 1
        BY <1>2
    <2>2. i \in 1..n /\ j \in 1..n
        BY <1>2, <1>3, <1>7, <2>1
    <2> QED BY <1>2, <1>7, <2>2 DEF Reads, n
<1>8. \A i \in 1..Len(a) : a[i].turn \in T
    <2>1. \A k \in 1..Len(a) : k \in 1..n \/ k = n + 1
        BY <1>2
    <2>2. t \in T
        BY <1>2, <1>3
    <2> QED BY <1>2, <1>3, <2>1, <2>2
<1> QED BY <1>5, <1>6, <1>7, <1>8 DEF Reads, a, x

LEMMA HasMore ==
    ASSUME NEW m \in Seq(Message), NEW x \in Message
    PROVE  /\ \A t, kind : Has(m, t, kind) => Has(Append(m, x), t, kind)
           /\ \A t, kind : x = [turn |-> t, kind |-> kind] => Has(Append(m, x), t, kind)
<1> DEFINE a == Append(m, x)
<1>1. /\ Len(m) \in Nat /\ Len(a) = Len(m) + 1 /\ a[Len(m) + 1] = x
      /\ \A i \in 1..Len(m) : a[i] = m[i]
    BY AddedMessage
<1> HIDE DEF a
<1>2. \A i \in 1..Len(m) : i \in 1..Len(a)
    BY <1>1
<1>3. Len(m) + 1 \in 1..Len(a)
    BY <1>1
<1> QED BY <1>1, <1>2, <1>3, Zenon DEF Has, a

-----------------------------------------------------------------------------
(* A step that moves turn t alone, to the record r. *)
OnlyMoves(t, r) ==
    /\ turn' \in [Turns -> Turn \cup {Unborn, Lost}]
    /\ turn'[t] = r
    /\ \A u \in Turns \ {t} : turn'[u] = turn[u]

(* A turn that runs or ended has a record. *)
LEMMA Records ==
    ASSUME ConversationTypeOK, NEW t \in Turns, In(t, Live \cup {"ended"})
    PROVE  turn[t] \in Turn
BY DEF ConversationTypeOK, In, Live, Unborn, Lost

LEMMA RecordFields ==
    ASSUME NEW r \in Turn
    PROVE  /\ r.stage \in Live \cup {"ended"} /\ r.session \in Sessions
           /\ r.mode \in {"chat", "chat_stream", "invoke", "stream"} /\ r.vocal \in BOOLEAN
           /\ r.seen \in Seq(Message) /\ r.node \in {"supervisor", "agent", "end"}
           /\ r.steps \in 0..setup.limit /\ r.queue \in Seq(Checkpoint) /\ r.fault \in Faults
           /\ r.gone \in BOOLEAN /\ r.told \in Seq(Told) /\ r.life \in 0..setup.restarts
BY DEF Turn

LEMMA CheckpointFields ==
    ASSUME NEW q \in Seq(Checkpoint)
    PROVE  /\ Len(q) \in Nat
           /\ \A k \in 1..Len(q) : /\ q[k] \in Checkpoint /\ q[k].stamp \in Nat
                                   /\ q[k].messages \in Seq(Message)
<1>1. Len(q) \in Nat /\ \A k \in 1..Len(q) : q[k] \in Checkpoint
    BY ElementOfSeq, LenProperties
<1>2. \A c \in Checkpoint : c.stamp \in Nat /\ c.messages \in Seq(Message)
    BY DEF Checkpoint
<1> QED BY <1>1, <1>2

LEMMA SetupFacts ==
    ASSUME ConversationTypeOK
    PROVE  /\ setup.limit \in Nat /\ setup.restarts \in Nat /\ setup.patient \in BOOLEAN
           /\ restarts \in Nat /\ clock \in Nat
BY ConversationAssumption DEF ConversationTypeOK, Setup

LEMMA Moves ==
    ASSUME ConversationTypeOK, NEW t \in Turns, NEW r \in Turn, turn' = [turn EXCEPT ![t] = r]
    PROVE  OnlyMoves(t, r)
BY DEF ConversationTypeOK, OnlyMoves

LEMMA TypeMoves ==
    ASSUME ConversationTypeOK, NEW t \in Turns, NEW r \in Turn, OnlyMoves(t, r),
           UNCHANGED <<fixed, restarts>>, badSaves' \in 0..MaxBadSaves, clock' \in Nat,
           store' \in [Sessions -> Checkpoint]
    PROVE  ConversationTypeOK'
BY DEF ConversationTypeOK, OnlyMoves, fixed, Turn

(* The records stay as they should be, if r is. *)
LEMMA RunMoves ==
    ASSUME RunInv, NEW t \in Turns, NEW r, OnlyMoves(t, r), UNCHANGED app,
           r.stage \in Live => RunOK(r, t) /\ r.mode \in Modes,
           r.stage = "ended" => EndOK(r, t)
    PROVE  RunInv'
<1>1. Modes' = Modes
    BY DEF Modes
<1>2. ASSUME NEW u \in Turns
      PROVE  /\ In(u, Live)' => RunOK(turn'[u], u) /\ turn'[u].mode \in Modes
             /\ In(u, {"ended"})' => EndOK(turn'[u], u)
    <2>1. CASE u = t
        BY <2>1 DEF OnlyMoves, In
    <2>2. CASE u # t
        BY <2>2 DEF OnlyMoves, In, RunInv
    <2> QED BY <2>1, <2>2
<1> QED BY <1>1, <1>2 DEF RunInv

(* No list is lost or new but those given here. *)
LEMMA ListsMove ==
    ASSUME ListsInv, NEW t \in Turns, NEW r, OnlyMoves(t, r),
           r.stage \in Early => turn[t].stage \in Early,
           \A s \in Sessions : Reads(store'[s].messages, Known \cup Known'),
           r.stage \in Live =>
               /\ Reads(r.seen, Known \cup Known')
               /\ \A k \in 1..Len(r.queue) : Reads(r.queue[k].messages, Known \cup Known')
    PROVE  ListsInv'
<1>1. Known \subseteq Known'
    BY DEF Known, In, OnlyMoves
<1>2. Known \cup Known' = Known'
    BY <1>1
<1>3. ASSUME NEW u \in Turns, In(u, Live)'
      PROVE  /\ Reads(turn'[u].seen, Known')
             /\ \A k \in 1..Len(turn'[u].queue) : Reads(turn'[u].queue[k].messages, Known')
    <2>1. CASE u = t
        BY <1>2, <1>3, <2>1 DEF OnlyMoves, In
    <2>2. CASE u # t
        <3>1. turn'[u] = turn[u] /\ In(u, Live)
            BY <1>3, <2>2 DEF OnlyMoves, In
        <3>2. /\ Reads(turn[u].seen, Known)
              /\ \A k \in 1..Len(turn[u].queue) : Reads(turn[u].queue[k].messages, Known)
            BY <3>1 DEF ListsInv
        <3> QED BY <1>1, <3>1, <3>2, ReadsMore
    <2> QED BY <2>1, <2>2
<1> QED BY <1>2, <1>3 DEF ListsInv

(* The stamps. *)
InOrder(queue, last) ==
    \A k \in 1..Len(queue) :
        /\ queue[k].stamp <= last
        /\ \A j \in 1..k - 1 : queue[j].stamp < queue[k].stamp

LEMMA StampsMove ==
    ASSUME ConversationTypeOK, StampInv, NEW t \in Turns, NEW r, OnlyMoves(t, r), UNCHANGED restarts,
           clock' \in Nat, clock' >= clock,
           \A s \in Sessions : store'[s].stamp <= clock',
           r.stage \in Live \cup {"ended"} => r.life <= restarts,
           r.stage \in Live => InOrder(r.queue, clock')
    PROVE  StampInv'
<1>1. ASSUME NEW u \in Turns, In(u, Live)'
      PROVE  InOrder(turn'[u].queue, clock')
    <2>1. CASE u = t
        BY <1>1, <2>1 DEF OnlyMoves, In
    <2>2. CASE u # t
        <3>1. turn'[u] = turn[u] /\ In(u, Live) /\ turn[u] \in Turn
            BY <1>1, <2>2, Records DEF OnlyMoves, In
        <3>2. InOrder(turn[u].queue, clock)
            BY <3>1 DEF StampInv, InOrder
        <3>3. clock \in Nat /\ turn[u].queue \in Seq(Checkpoint)
            BY <3>1, SetupFacts, RecordFields
        <3>4. \A k \in 1..Len(turn[u].queue) : turn[u].queue[k].stamp \in Nat
            BY <3>3, CheckpointFields
        <3> QED BY <3>1, <3>2, <3>3, <3>4 DEF InOrder
    <2> QED BY <2>1, <2>2
<1>2. \A u \in Turns : In(u, Live \cup {"ended"})' => turn'[u].life <= restarts'
    BY DEF OnlyMoves, In, StampInv
<1> QED BY <1>1, <1>2 DEF StampInv, InOrder

(* Turns that follow one another: what may become of the others, and of t.   *)
LEMMA SerialMoves ==
    ASSUME SerialInv, NEW t \in Turns, NEW r, OnlyMoves(t, r), UNCHANGED <<setup, app>>,
           ASSUME Serial, NEW u \in Turns \ {t}, Adds(turn[u]),
                  NEW s, s = turn[u].session
           PROVE  /\ \A v \in Turns \ {u, t} :
                        In(v, Live) /\ turn[v].session = s
                           /\ Behind(turn[v], turn[u], store[s]) => Behind(turn[v], turn[u], store'[s])
                  /\ r.stage \in Live /\ r.session = s => Behind(r, turn[u], store'[s])
                  /\ Clean(turn[u]) /\ Newest(turn[u], store[s]) => Newest(turn[u], store'[s]),
           Serial /\ Adds(r) =>
               /\ \A v \in Turns \ {t} :
                     In(v, Live) /\ turn[v].session = r.session =>
                         Behind(turn[v], r, store'[r.session])
               /\ Clean(r) => Newest(r, store'[r.session])
    PROVE  SerialInv'
<1> SUFFICES ASSUME Serial, NEW u \in Turns, Adds(turn'[u])
             PROVE  /\ \A v \in Turns \ {u} :
                          In(v, Live)' /\ turn'[v].session = turn'[u].session =>
                              Behind(turn'[v], turn'[u], store'[turn'[u].session])
                    /\ Clean(turn'[u]) => Newest(turn'[u], store'[turn'[u].session])
    BY DEF SerialInv, Serial
<1>1. \A v \in Turns \ {t} : turn'[v] = turn[v] /\ (In(v, Live)' <=> In(v, Live))
    BY DEF OnlyMoves, In
<1>2. turn'[t] = r /\ (In(t, Live)' <=> r.stage \in Live)
    BY DEF OnlyMoves, In
<1>3. CASE u = t
    BY <1>1, <1>2, <1>3
<1>4. CASE u # t
    <2>1. Adds(turn[u])
        BY <1>1, <1>4
    <2> DEFINE s == turn[u].session
    <2>2. /\ \A v \in Turns \ {u, t} :
                In(v, Live) /\ turn[v].session = s
                   /\ Behind(turn[v], turn[u], store[s]) => Behind(turn[v], turn[u], store'[s])
          /\ r.stage \in Live /\ r.session = s => Behind(r, turn[u], store'[s])
          /\ Clean(turn[u]) /\ Newest(turn[u], store[s]) => Newest(turn[u], store'[s])
        BY <1>4, <2>1
    <2>3. /\ \A v \in Turns \ {u} :
                In(v, Live) /\ turn[v].session = s => Behind(turn[v], turn[u], store[s])
          /\ Clean(turn[u]) => Newest(turn[u], store[s])
        BY <2>1 DEF SerialInv
    <2> QED BY <1>1, <1>2, <1>4, <2>2, <2>3
<1> QED BY <1>3, <1>4

(* What is kept of the turns that are done, and of t when it is.             *)
LEMMA KeptMoves ==
    ASSUME KeptInv, NEW t \in Turns, ~In(t, {"ended"}), NEW r, OnlyMoves(t, r),
           UNCHANGED <<setup, backend, restarts>>,
           ASSUME setup.patient, NEW u \in Turns \ {t}, Kept(u), NEW s, s = turn[u].session,
                  HasTurn(store[s].messages, u),
                  \A v \in Turns : In(v, Live) /\ turn[v].session = s => Keeps(turn[v], store[s], u)
           PROVE  /\ HasTurn(store'[s].messages, u)
                  /\ \A v \in Turns \ {t} :
                        In(v, Live) /\ turn[v].session = s /\ Keeps(turn[v], store[s], u)
                           => Keeps(turn[v], store'[s], u)
                  /\ r.stage \in Live /\ r.session = s => Keeps(r, store'[s], u),
           setup.patient /\ Kept(t)' =>
               /\ HasTurn(store'[r.session].messages, t)
               /\ \A v \in Turns \ {t} :
                     In(v, Live) /\ turn[v].session = r.session => Keeps(turn[v], store'[r.session], t)
    PROVE  KeptInv'
<1> SUFFICES ASSUME setup.patient, NEW u \in Turns, Kept(u)'
             PROVE  /\ HasTurn(store'[turn'[u].session].messages, u)
                    /\ \A v \in Turns : In(v, Live)' /\ turn'[v].session = turn'[u].session =>
                          Keeps(turn'[v], store'[turn'[u].session], u)
    BY DEF KeptInv
<1>1. \A v \in Turns \ {t} : turn'[v] = turn[v] /\ (In(v, Live)' <=> In(v, Live))
    BY DEF OnlyMoves, In
<1>2. turn'[t] = r /\ (In(t, Live)' <=> r.stage \in Live)
    BY DEF OnlyMoves, In
<1>3. CASE u = t
    <2>1. r.stage = "ended" /\ r.stage \notin Live
        BY <1>2, <1>3 DEF Kept, Finished, In, Live
    <2> QED BY <1>1, <1>2, <1>3, <2>1
<1>4. CASE u # t
    <2>1. Kept(u)
        BY <1>1, <1>4 DEF Kept, Finished, In
    <2> DEFINE s == turn[u].session
    <2>2. /\ HasTurn(store[s].messages, u)
          /\ \A v \in Turns : In(v, Live) /\ turn[v].session = s => Keeps(turn[v], store[s], u)
        BY <2>1 DEF KeptInv
    <2>3. /\ HasTurn(store'[s].messages, u)
          /\ \A v \in Turns \ {t} :
                In(v, Live) /\ turn[v].session = s /\ Keeps(turn[v], store[s], u)
                   => Keeps(turn[v], store'[s], u)
          /\ r.stage \in Live /\ r.session = s => Keeps(r, store'[s], u)
        BY <1>4, <2>1, <2>2
    <2> QED BY <1>1, <1>2, <1>4, <2>2, <2>3
<1> QED BY <1>3, <1>4
-----------------------------------------------------------------------------
(* A run that is on its way to its end without another message: it failed,   *)
(* or its client hung up.                                                    *)
LEMMA QuietStep ==
    ASSUME ConversationInv, NEW t \in Turns, In(t, Live), NEW r \in Turn,
           turn' = [turn EXCEPT ![t] = r], UNCHANGED <<fixed, restarts, badSaves, clock, store>>,
           r.stage = "closing", r.session = turn[t].session, r.queue = turn[t].queue,
           r.seen = turn[t].seen, r.life = turn[t].life, r.mode = turn[t].mode,
           turn[t].gone => r.gone, r.gone \/ r.fault # "none", RunOK(r, t)
    PROVE  ConversationInv'
<1> USE DEF ConversationInv
<1>1. OnlyMoves(t, r)
    BY Moves
<1>2. turn[t] \in Turn /\ turn[t].stage \in Live /\ r.stage \in Live /\ r.stage \notin Early
    BY Records DEF In, Live, Early
<1>3. ConversationTypeOK'
    BY <1>1, TypeMoves DEF ConversationTypeOK
<1>4. ListsInv'
    <2>1. /\ Reads(turn[t].seen, Known)
          /\ \A k \in 1..Len(turn[t].queue) : Reads(turn[t].queue[k].messages, Known)
          /\ \A s \in Sessions : Reads(store[s].messages, Known)
        BY DEF ListsInv
    <2>2. Known \subseteq Known \cup Known'
        OBVIOUS
    <2> QED BY <1>1, <1>2, <2>1, <2>2, ReadsMore, ListsMove
<1>5. RunInv'
    <2>1. r.mode \in Modes /\ UNCHANGED app
        BY DEF RunInv, fixed
    <2> QED BY <1>1, <1>2, <2>1, RunMoves DEF Live
<1>6. StampInv'
    <2>1. /\ \A s \in Sessions : store[s].stamp <= clock
          /\ r.life <= restarts /\ InOrder(r.queue, clock)
        BY <1>2 DEF StampInv, InOrder, In
    <2>2. clock \in Nat /\ clock' = clock /\ clock' >= clock
        BY SetupFacts
    <2> QED BY <1>1, <2>1, <2>2, StampsMove
<1>7. SerialInv'
    <2>1. ASSUME Serial, NEW u \in Turns \ {t}, Adds(turn[u]), r.session = turn[u].session
          PROVE  Behind(r, turn[u], store[turn[u].session])
        <3>1. Behind(turn[t], turn[u], store[turn[u].session])
            BY <1>2, <2>1 DEF SerialInv
        <3> QED BY <3>1 DEF Behind
    <2>2. ASSUME Serial, Adds(r)
          PROVE  ~Clean(r) /\ \A v \in Turns \ {t} :
                     In(v, Live) /\ turn[v].session = r.session =>
                         Behind(turn[v], r, store[r.session])
        <3>1. ~Clean(r) /\ Adds(turn[t])
            BY <1>2, <2>2 DEF Clean, Adds
        <3>2. \A v \in Turns \ {t} :
                  In(v, Live) /\ turn[v].session = r.session =>
                      Behind(turn[v], turn[t], store[r.session])
            BY <2>2, <3>1 DEF SerialInv
        <3> QED BY <3>1, <3>2 DEF Behind
    <2> QED BY <1>1, <2>1, <2>2, SerialMoves DEF fixed
<1>8. KeptInv'
    <2>1. ~In(t, {"ended"}) /\ ~Kept(t)'
        BY <1>1, <1>2 DEF In, Live, OnlyMoves, Kept, Finished
    <2>2. ASSUME NEW saved, NEW u, Keeps(turn[t], saved, u)
          PROVE  Keeps(r, saved, u)
        BY <2>2 DEF Keeps
    <2>3. turn[t].session = r.session
        OBVIOUS
    <2> QED BY <1>1, <1>2, <2>1, <2>2, <2>3, KeptMoves DEF fixed, In
<1> QED BY <1>3, <1>4, <1>5, <1>6, <1>7, <1>8

LEMMA CloseStep ==
    ASSUME ConversationInv, NEW t \in Turns, In(t, {"loading", "running"}),
           NEW fault \in Faults \ {"none"}, Close(t, fault)
    PROVE  ConversationInv'
<1> DEFINE r == [turn[t] EXCEPT !.stage = "closing", !.fault = fault]
<1>1. In(t, Live) /\ turn[t] \in Turn
    BY Records DEF In, Live, ConversationInv
<1>2. turn' = [turn EXCEPT ![t] = r]
    BY <1>1 DEF Close
<1>3. RunOK(turn[t], t) /\ turn[t].stage \in {"loading", "running"}
    BY <1>1 DEF ConversationInv, RunInv, In
<1>4. /\ r \in Turn /\ r.stage = "closing" /\ r.session = turn[t].session
      /\ r.queue = turn[t].queue /\ r.seen = turn[t].seen /\ r.life = turn[t].life
      /\ r.mode = turn[t].mode /\ r.gone = turn[t].gone /\ r.fault # "none"
      /\ r.told = turn[t].told /\ r.node = turn[t].node /\ r.vocal = turn[t].vocal
    BY <1>1 DEF Turn, Live
<1> HIDE DEF r
<1>5. RunOK(r, t)
    BY <1>3, <1>4 DEF RunOK, Entered
<1> QED BY <1>1, <1>2, <1>4, <1>5, QuietStep DEF Close

LEMMA HangUpStep ==
    ASSUME ConversationInv, NEW t \in Turns, HangUp(t)
    PROVE  ConversationInv'
<1> DEFINE r == [turn[t] EXCEPT !.gone = TRUE, !.stage = "closing"]
<1>1. In(t, Live) /\ turn[t] \in Turn
    BY Records DEF In, Live, ConversationInv, HangUp
<1>2. turn' = [turn EXCEPT ![t] = r]
    BY <1>1 DEF HangUp
<1>3. RunOK(turn[t], t) /\ turn[t].mode = "chat_stream"
    BY <1>1 DEF ConversationInv, RunInv, HangUp
<1>4. /\ r \in Turn /\ r.stage = "closing" /\ r.session = turn[t].session
      /\ r.queue = turn[t].queue /\ r.seen = turn[t].seen /\ r.life = turn[t].life
      /\ r.mode = turn[t].mode /\ r.gone /\ r.fault = turn[t].fault
      /\ r.told = turn[t].told /\ r.node = turn[t].node /\ r.vocal = turn[t].vocal
    BY <1>1 DEF Turn, Live
<1> HIDE DEF r
<1>5. RunOK(r, t)
    BY <1>3, <1>4 DEF RunOK, Entered
<1> QED BY <1>1, <1>2, <1>4, <1>5, QuietStep DEF HangUp

(* A turn that begins has said and saved nothing; by Admitted the others of  *)
(* its session add nothing more, if turns follow one another.                *)
LEMMA BeginStep ==
    ASSUME ConversationInv, NEW t \in Turns, NEW s \in Sessions, NEW mode \in Modes,
           NEW vocal \in BOOLEAN, Begin(t, s, mode, vocal)
    PROVE  ConversationInv'
<1> USE DEF ConversationInv
<1> DEFINE r == [stage |-> "loading", session |-> s, mode |-> mode, vocal |-> vocal,
                 seen |-> <<>>, node |-> "supervisor", steps |-> 0, queue |-> <<>>,
                 fault |-> "none", gone |-> FALSE, told |-> <<>>, life |-> restarts]
<1>1. turn' = [turn EXCEPT ![t] = r] /\ In(t, {"idle"}) /\ Admitted(s)
      /\ UNCHANGED <<fixed, restarts, badSaves, clock, store>> /\ (vocal => mode \in Streaming)
    BY DEF Begin
<1>2. r \in Turn
    <2>1. mode \in {"chat", "chat_stream", "invoke", "stream"}
        BY DEF Modes
    <2>2. /\ 0 \in 0..setup.limit /\ restarts \in 0..setup.restarts
          /\ <<>> \in Seq(Message) /\ <<>> \in Seq(Checkpoint) /\ <<>> \in Seq(Told)
        BY SetupFacts, EmptySeq DEF ConversationTypeOK
    <2> QED BY <2>1, <2>2 DEF Turn, Live, Faults
<1>3. /\ r.stage = "loading" /\ r.session = s /\ r.mode = mode /\ r.seen = <<>>
      /\ r.queue = <<>> /\ Len(r.queue) = 0 /\ r.life = restarts /\ RunOK(r, t)
    BY <1>1, EmptySeq DEF RunOK, Entered
<1> HIDE DEF r
<1>4. OnlyMoves(t, r)
    BY <1>1, <1>2, Moves
<1>5. ~In(t, Live) /\ ~In(t, {"ended"}) /\ turn[t].stage \in Early
      /\ r.stage \in Live /\ r.stage # "ended" /\ ~Clean(r)
    BY <1>1, <1>3 DEF In, Live, Early, Clean, Entered
<1>6. ConversationTypeOK'
    BY <1>1, <1>2, <1>4, TypeMoves DEF ConversationTypeOK
<1>7. ListsInv'
    <2>1. \A x \in Sessions : Reads(store[x].messages, Known)
        BY DEF ListsInv
    <2>2. Known \subseteq Known \cup Known'
        OBVIOUS
    <2> QED BY <1>1, <1>3, <1>4, <1>5, <2>1, <2>2, ReadsMore, ReadsNothing, ListsMove
<1>8. RunInv'
    BY <1>1, <1>3, <1>4, <1>5, RunMoves DEF fixed
<1>9. StampInv'
    <2>1. /\ \A x \in Sessions : store[x].stamp <= clock
          /\ clock \in Nat /\ clock' = clock /\ clock' >= clock
          /\ restarts \in Nat /\ restarts <= restarts
        BY <1>1, SetupFacts DEF StampInv
    <2>2. InOrder(r.queue, clock)
        BY <1>3 DEF InOrder
    <2> QED BY <1>1, <1>3, <1>4, <2>1, <2>2, StampsMove
<1>10. SerialInv'
    <2>1. ASSUME Serial, NEW u \in Turns \ {t}, In(u, Live), turn[u].session = s
          PROVE  ~Adds(turn[u]) /\ turn[u].gone
        <3>1. ~Adding(u, s) /\ setup.patient
            BY <1>1, <2>1 DEF Admitted, Serial
        <3> QED BY <2>1, <3>1 DEF Adding, Adds, In
    <2>2. ASSUME Serial, NEW u \in Turns \ {t}, Adds(turn[u])
          PROVE  turn[u].session # s
        BY <2>1, <2>2 DEF Adds, In
    <2>3. \A v \in Turns \ {t} :
              Serial /\ In(v, Live) /\ turn[v].session = s => Behind(turn[v], r, store[s])
        BY <1>3, <1>5, <2>1 DEF Behind
    <2> QED BY <1>1, <1>3, <1>4, <1>5, <2>2, <2>3, SerialMoves DEF fixed
<1>11. KeptInv'
    <2>1. ~Kept(t)'
        BY <1>3, <1>4 DEF Kept, Finished, OnlyMoves, In
    <2>2. \A saved, u : Keeps(r, saved, u)
        BY <1>3 DEF Keeps
    <2> QED BY <1>1, <1>4, <1>5, <2>1, <2>2, KeptMoves DEF fixed
<1> QED BY <1>6, <1>7, <1>8, <1>9, <1>10, <1>11

(* What a run reads is all that is kept in the store.                        *)
LEMMA LoadStep ==
    ASSUME ConversationInv, NEW t \in Turns, Load(t)
    PROVE  ConversationInv'
<1> USE DEF ConversationInv
<1> DEFINE s == turn[t].session
           r == [turn[t] EXCEPT !.seen = store[s].messages, !.stage = "entering"]
<1>1. turn[t] \in Turn /\ turn[t].stage = "loading" /\ In(t, Live) /\ ~In(t, {"ended"})
      /\ UNCHANGED <<fixed, restarts, badSaves, clock, store>>
    BY Records DEF In, Live, Load
<1>2. turn' = [turn EXCEPT ![t] = r]
    BY <1>1 DEF Load
<1>3. s \in Sessions /\ store[s] \in Checkpoint /\ store[s].messages \in Seq(Message)
    BY <1>1, RecordFields DEF ConversationTypeOK, Checkpoint
<1>4. /\ r \in Turn /\ r.stage = "entering" /\ r.session = s
      /\ r.queue = turn[t].queue /\ r.seen = store[s].messages /\ r.life = turn[t].life
      /\ r.mode = turn[t].mode /\ r.gone = turn[t].gone /\ r.fault = turn[t].fault
      /\ r.told = turn[t].told /\ r.node = turn[t].node /\ r.vocal = turn[t].vocal
    BY <1>1, <1>3 DEF Turn, Live
<1>5. s = turn[t].session
    OBVIOUS
<1> HIDE DEF r, s
<1>6. RunOK(turn[t], t) /\ turn[t].mode \in Modes
    BY <1>1 DEF RunInv
<1>7. /\ RunOK(r, t) /\ r.queue = <<>> /\ Len(r.queue) = 0 /\ ~turn[t].gone /\ ~Clean(r)
      /\ r.stage \in Live /\ r.stage # "ended" /\ turn[t].stage \in Early
    BY <1>1, <1>4, <1>6, EmptySeq DEF RunOK, Entered, Clean, Live, Early
<1>8. OnlyMoves(t, r)
    BY <1>2, <1>4, Moves
<1>9. ConversationTypeOK'
    BY <1>1, <1>4, <1>8, TypeMoves DEF ConversationTypeOK
<1>10. ListsInv'
    <2>1. \A x \in Sessions : Reads(store[x].messages, Known)
        BY DEF ListsInv
    <2>2. Known \subseteq Known \cup Known'
        OBVIOUS
    <2> QED BY <1>1, <1>3, <1>4, <1>7, <1>8, <2>1, <2>2, ReadsMore, ListsMove
<1>11. RunInv'
    BY <1>1, <1>4, <1>6, <1>7, <1>8, RunMoves DEF fixed
<1>12. StampInv'
    <2>1. /\ \A x \in Sessions : store[x].stamp <= clock
          /\ clock \in Nat /\ clock' = clock /\ clock' >= clock
          /\ r.life <= restarts
        BY <1>1, <1>4, SetupFacts DEF StampInv, In
    <2>2. InOrder(r.queue, clock)
        BY <1>7 DEF InOrder
    <2> QED BY <1>1, <1>4, <1>8, <2>1, <2>2, StampsMove
<1>13. SerialInv'
    <2>1. ASSUME Serial, NEW u \in Turns \ {t}, Adds(turn[u])
          PROVE  turn[u].session # s
        BY <1>1, <1>5, <1>7, <2>1 DEF SerialInv, Behind
    <2>2. ASSUME Serial, NEW v \in Turns \ {t}, In(v, Live), turn[v].session = s
          PROVE  Behind(turn[v], r, store[s])
        <3>1. Adds(turn[t])
            BY <1>1, <1>7 DEF Adds, In
        <3>2. Behind(turn[v], turn[t], store[s])
            BY <1>5, <2>2, <3>1 DEF SerialInv
        <3> QED BY <1>7, <3>2 DEF Behind
    <2> QED BY <1>1, <1>4, <1>7, <1>8, <2>1, <2>2, SerialMoves DEF fixed
<1>14. KeptInv'
    <2>1. ~Kept(t)'
        BY <1>7, <1>8 DEF Kept, Finished, OnlyMoves, In
    <2>2. \A u : HasTurn(store[s].messages, u) => Keeps(r, store[s], u)
        BY <1>4, <1>7 DEF Keeps
    <2> QED BY <1>1, <1>4, <1>8, <2>1, <2>2, KeptMoves DEF fixed
<1> QED BY <1>9, <1>10, <1>11, <1>12, <1>13, <1>14

-----------------------------------------------------------------------------
(* What Add makes of a record: the message x with its checkpoint c, and the  *)
(* tokens y, if any.                                                         *)
Added(q, r, x, c, y) ==
    /\ Len(q.seen) \in Nat /\ Len(r.seen) = Len(q.seen) + 1
    /\ r.seen # <<>> /\ r.seen[Len(r.seen)] = x
    /\ Len(q.queue) \in Nat /\ Len(r.queue) = Len(q.queue) + 1 /\ r.queue # <<>>
    /\ \A k \in 1..Len(q.queue) : r.queue[k] = q.queue[k]
    /\ r.queue[Len(r.queue)] = c
    /\ Len(q.told) \in Nat /\ Len(y) \in {0, 1} /\ Len(r.told) = Len(q.told) + Len(y)
    /\ \A i \in 1..Len(q.told) : r.told[i] = q.told[i]
    /\ Len(y) = 1 => r.told[Len(r.told)] = y[1]

OneMore(m, a, x) ==
    /\ Len(m) \in Nat /\ Len(a) = Len(m) + 1 /\ a # <<>> /\ a[Len(a)] = x
    /\ \A i \in 1..Len(m) : a[i] = m[i]

LEMMA Appended ==
    ASSUME NEW S, NEW m \in Seq(S), NEW x \in S
    PROVE  OneMore(m, Append(m, x), x)
<1> DEFINE a == Append(m, x)
<1>1. /\ Len(m) \in Nat /\ Len(a) = Len(m) + 1 /\ a[Len(m) + 1] = x
      /\ \A i \in 1..Len(m) : a[i] = m[i]
    BY AppendProperties, LenProperties
<1>2. Len(a) # 0
    BY <1>1
<1> HIDE DEF a
<1>3. a # <<>>
    BY <1>2, EmptySeq
<1>4. OneMore(m, a, x)
    BY <1>1, <1>3 DEF OneMore
<1> QED BY <1>4 DEF a

LEMMA AddedFacts ==
    ASSUME NEW q \in Turn, NEW r \in Turn, NEW x \in Message, NEW c \in Checkpoint,
           NEW y \in Seq(Told), Len(y) \in {0, 1},
           r.seen = Append(q.seen, x), r.queue = Append(q.queue, c), r.told = q.told \o y
    PROVE  Added(q, r, x, c, y)
<1>1. q.seen \in Seq(Message) /\ q.queue \in Seq(Checkpoint) /\ q.told \in Seq(Told)
    BY RecordFields
<1>2. OneMore(q.seen, r.seen, x)
    <2>1. OneMore(q.seen, Append(q.seen, x), x)
        BY <1>1, Appended
    <2> QED BY <2>1, Zenon
<1>3. OneMore(q.queue, r.queue, c)
    <2>1. OneMore(q.queue, Append(q.queue, c), c)
        BY <1>1, Appended
    <2> QED BY <2>1, Zenon
<1>4. /\ Len(q.told) \in Nat /\ Len(r.told) = Len(q.told) + Len(y)
      /\ \A i \in 1..Len(q.told) : r.told[i] = q.told[i]
      /\ Len(y) = 1 => r.told[Len(r.told)] = y[1]
    BY <1>1, ConcatProperties, LenProperties
<1> QED BY <1>2, <1>3, <1>4 DEF Added, OneMore

LEMMA AddStep ==
    ASSUME ConversationInv, NEW t \in Turns, NEW kind \in Kinds,
           NEW next \in {"supervisor", "agent", "end"}, NEW y,
           In(t, {"entering", "running"}), Add(t, kind, next, y),
           (kind = "human") <=> In(t, {"entering"}), In(t, {"running"}) => Within(t),
           kind = "human" => next = "supervisor", (kind = "answer") <=> (next = "end"),
           \/ y = <<>>
           \/ y = <<[kind |-> "token", message |-> [turn |-> t, kind |-> kind]]>>
              /\ turn[t].vocal /\ In(t, {"running"}),
           kind = "answer" /\ turn[t].vocal => y # <<>>
    PROVE  ConversationInv'
<1> USE DEF ConversationInv
<1> DEFINE q == turn[t]
           x == [turn |-> t, kind |-> kind]
           m == Append(q.seen, x)
           c == [stamp |-> clock + 1, messages |-> m]
           r == [q EXCEPT !.seen = m, !.node = next,
                      !.stage = IF next = "end" THEN "closing" ELSE "running",
                      !.steps = IF kind = "human" THEN 0 ELSE q.steps + 1,
                      !.queue = Append(q.queue, c), !.told = q.told \o y]
<1>1. q \in Turn /\ q.stage \in {"entering", "running"} /\ In(t, Live) /\ ~In(t, {"ended"})
      /\ UNCHANGED <<fixed, restarts, badSaves, store>> /\ clock' = clock + 1
    BY Records DEF In, Live, Add
<1>2. clock \in Nat /\ x \in Message /\ setup.limit \in Nat
    BY SetupFacts DEF Message
<1>3. turn' = [turn EXCEPT ![t] = r]
    BY <1>1 DEF Add
<1>4. m \in Seq(Message) /\ c \in Checkpoint
    BY <1>1, <1>2, RecordFields, AddedMessage DEF Checkpoint
<1>5. y \in Seq(Told) /\ Len(y) \in {0, 1}
      /\ (Len(y) = 1 => y[1] = [kind |-> "token", message |-> x] /\ q.vocal /\ In(t, {"running"}))
      /\ (Len(y) = 0 <=> y = <<>>)
    <2>1. [kind |-> "token", message |-> x] \in Told
        BY <1>2 DEF Told
    <2>2. CASE y = <<>>
        BY <2>2, EmptySeq
    <2>3. CASE y # <<>>
        <3> DEFINE e == [kind |-> "token", message |-> x]
        <3>1. y = <<e>> /\ q.vocal /\ In(t, {"running"}) /\ e \in Told
            BY <2>1, <2>3
        <3> HIDE DEF e
        <3>2. y \in Seq(Told) /\ Len(y) = 1 /\ y[1] = e
            BY <3>1
        <3> QED BY <2>3, <3>1, <3>2 DEF e
    <2> QED BY <2>2, <2>3
<1>6. r \in Turn
    <2>1. (IF kind = "human" THEN 0 ELSE q.steps + 1) \in 0..setup.limit
        <3>1. q.steps \in 0..setup.limit
            BY <1>1, RecordFields
        <3>2. kind # "human" => q.steps < setup.limit
            BY <1>1 DEF Within, Limit, In
        <3> QED BY <1>2, <3>1, <3>2
    <2>2. /\ Append(q.queue, c) \in Seq(Checkpoint) /\ q.told \o y \in Seq(Told)
        BY <1>1, <1>4, <1>5, RecordFields, AppendProperties, ConcatProperties
    <2> QED BY <1>1, <1>4, <2>1, <2>2 DEF Turn, Live
<1>7. /\ r.stage = (IF next = "end" THEN "closing" ELSE "running") /\ r.session = q.session
      /\ r.seen = m /\ r.queue = Append(q.queue, c) /\ r.told = q.told \o y
      /\ r.life = q.life /\ r.mode = q.mode /\ r.gone = q.gone /\ r.fault = q.fault
      /\ r.node = next /\ r.vocal = q.vocal
    BY <1>1 DEF Turn
<1>8. c.stamp = clock + 1 /\ c.messages = m /\ x.turn = t /\ x.kind = kind
    OBVIOUS
<1>9. q = turn[t] /\ (In(t, {"running"}) <=> q.stage = "running")
      /\ (In(t, {"entering"}) <=> q.stage = "entering")
    BY DEF In
<1> HIDE DEF r, c, q
<1>10. Added(q, r, x, c, y)
    BY <1>1, <1>2, <1>4, <1>5, <1>6, <1>7, AddedFacts
<1>11. RunOK(q, t) /\ q.mode \in Modes
    BY <1>1, <1>9 DEF RunInv
<1>12. q.seen \in Seq(Message) /\ q.queue \in Seq(Checkpoint)
    BY <1>1, RecordFields
<1>13. \A u, k : Has(q.seen, u, k) => Has(m, u, k)
    BY <1>2, <1>12, HasMore
<1>14. Has(m, t, kind)
    BY <1>2, <1>12, HasMore
<1> HIDE DEF m, x
<1>15. OnlyMoves(t, r)
    BY <1>3, <1>6, Moves
<1>16. ~q.gone /\ r.stage \in Live /\ r.stage \notin Early /\ Adds(q) /\ r.stage # "ended"
    BY <1>1, <1>7, <1>11 DEF RunOK, Live, Early, Adds
<1>17. (q.stage = "entering" => q.queue = <<>> /\ Len(q.queue) = 0)
       /\ (q.stage = "running" => Entered(q))
    BY <1>11, EmptySeq DEF RunOK, Entered
<1>18. ConversationTypeOK'
    <2>1. badSaves' \in 0..MaxBadSaves /\ clock' \in Nat /\ store' \in [Sessions -> Checkpoint]
          /\ UNCHANGED <<fixed, restarts>>
        BY <1>1, <1>2 DEF ConversationTypeOK
    <2> QED BY <1>6, <1>15, <2>1, TypeMoves
<1>19. \A k \in 1..Len(r.queue) : k \in 1..Len(q.queue) \/ k = Len(r.queue)
    BY <1>10 DEF Added
<1>20. ListsInv'
    <2>1. /\ Reads(q.seen, Known) /\ \A k \in 1..Len(q.queue) : Reads(q.queue[k].messages, Known)
          /\ \A s \in Sessions : Reads(store[s].messages, Known)
        BY <1>1, <1>9 DEF ListsInv
    <2>2. Known \subseteq Known \cup Known'
        OBVIOUS
    <2>3. Reads(m, Known \cup Known')
        <3>1. CASE q.stage = "entering"
            <4>1. kind = "human" /\ t \notin Known /\ t \in Known'
                BY <1>9, <1>15, <1>16, <3>1 DEF Known, In, Early, OnlyMoves
            <4>2. Reads(m, Known \cup {t})
                BY <1>12, <2>1, <4>1, ReadsQuestion DEF m, x
            <4>3. Known \cup {t} \subseteq Known \cup Known'
                BY <4>1
            <4> QED BY <4>2, <4>3, ReadsMore
        <3>2. CASE q.stage = "running"
            <4>1. /\ kind \in Kinds \ {"human"} /\ q.seen # <<>>
                  /\ q.seen[Len(q.seen)].turn = t /\ q.seen[Len(q.seen)].kind # "answer"
                BY <1>9, <1>11, <3>2 DEF RunOK, Entered, In
            <4>2. Reads(m, Known)
                BY <1>12, <2>1, <4>1, ReadsOn DEF m, x
            <4> QED BY <2>2, <4>2, ReadsMore
        <3> QED BY <1>1, <3>1, <3>2
    <2>4. ASSUME NEW k \in 1..Len(r.queue)
          PROVE  Reads(r.queue[k].messages, Known \cup Known')
        <3>1. CASE k \in 1..Len(q.queue)
            BY <1>10, <2>1, <2>2, <3>1, ReadsMore DEF Added
        <3>2. CASE k = Len(r.queue)
            BY <1>8, <1>10, <2>3, <3>2 DEF Added
        <3>3. k \in 1..Len(q.queue) \/ k = Len(r.queue)
            BY <1>10 DEF Added
        <3> QED BY <3>1, <3>2, <3>3
    <2>5. \A s \in Sessions : Reads(store'[s].messages, Known \cup Known')
        BY <1>1, <2>1, <2>2, ReadsMore
    <2> QED BY <1>7, <1>15, <1>16, <2>3, <2>4, <2>5, ListsMove
<1>21. RunInv'
    <2>1. r.seen[Len(r.seen)].turn = t /\ r.seen[Len(r.seen)].kind = kind /\ r.seen # <<>>
        BY <1>8, <1>10 DEF Added
    <2>2. Has(r.seen, t, "human")
        <3>1. CASE q.stage = "entering"
            BY <1>7, <1>9, <1>14, <3>1
        <3>2. CASE q.stage = "running"
            BY <1>7, <1>11, <1>13, <3>2 DEF RunOK, Entered
        <3> QED BY <1>1, <3>1, <3>2
    <2>3. \A i \in 1..Len(q.told) :
              /\ q.told[i] \in [kind : {"token"}, message : Message]
              /\ q.told[i].message.turn = t /\ q.told[i].message.kind # "answer"
        <3>1. q.node # "end"
            BY <1>1, <1>11 DEF RunOK
        <3> QED BY <1>11, <3>1 DEF RunOK
    <2>4. ASSUME Len(y) = 1
          PROVE  LET z == r.told[Len(r.told)] IN
                 /\ z \in [kind : {"token"}, message : Message]
                 /\ z.message.turn = t /\ z.message.kind = kind
        BY <1>2, <1>5, <1>8, <1>10, <2>4 DEF Added
    <2>5. ASSUME NEW i \in 1..Len(r.told)
          PROVE  /\ r.told[i] \in [kind : {"token"}, message : Message]
                 /\ r.told[i].message.turn = t
                 /\ r.told[i].message.kind = "answer" => r.node = "end" /\ i = Len(r.told)
        <3>1. CASE i \in 1..Len(q.told)
            BY <1>10, <2>3, <3>1 DEF Added
        <3>2. CASE i = Len(r.told) /\ Len(y) = 1
            BY <1>7, <2>4, <3>2
        <3>3. i \in 1..Len(q.told) \/ (i = Len(r.told) /\ Len(y) = 1)
            <4>1. /\ Len(q.told) \in Nat /\ Len(y) \in {0, 1}
                  /\ Len(r.told) = Len(q.told) + Len(y)
                BY <1>10 DEF Added
            <4>2. CASE Len(y) = 0
                BY <4>1, <4>2
            <4>3. CASE Len(y) = 1
                BY <4>1, <4>3
            <4> QED BY <4>1, <4>2, <4>3
        <3> QED BY <3>1, <3>2, <3>3
    <2>6. r.told # <<>> => r.vocal
        <3>1. CASE Len(y) = 1
            BY <1>5, <1>7, <3>1
        <3>2. CASE Len(y) = 0
            <4>1. y = <<>> /\ q.told \in Seq(Told) /\ q.told \o <<>> = q.told
                BY <1>1, <1>5, <3>2, RecordFields, ConcatEmptySeq
            <4> QED BY <1>7, <1>11, <4>1 DEF RunOK
        <3> QED BY <1>10, <3>1, <3>2 DEF Added
    <2>7. ASSUME r.node = "end", r.vocal
          PROVE  \E i \in 1..Len(r.told) : r.told[i].message.kind = "answer"
        <3>1. kind = "answer" /\ Len(y) = 1
            BY <1>5, <1>7, <1>9, <1>10, <2>7 DEF Added
        <3>2. Len(r.told) \in 1..Len(r.told)
            BY <1>10, <3>1 DEF Added
        <3> QED BY <2>4, <3>1, <3>2
    <2>8. /\ r.stage = "running" => r.node # "end" /\ kind # "answer"
          /\ r.node = "end" => r.stage = "closing" /\ kind = "answer"
          /\ r.stage = "closing" => r.node = "end"
          /\ r.stage \notin {"loading", "entering"} /\ ~r.gone
          /\ r.vocal => r.mode \in Streaming
        BY <1>7, <1>11, <1>16 DEF RunOK
    <2>9. RunOK(r, t)
        BY <2>1, <2>2, <2>5, <2>6, <2>7, <2>8 DEF RunOK
    <2> QED BY <1>1, <1>7, <1>11, <1>15, <1>16, <2>9, RunMoves DEF fixed
<1>22. StampInv'
    <2>1. /\ \A s \in Sessions : store[s] \in Checkpoint /\ store[s].stamp <= clock
          /\ r.life <= restarts /\ InOrder(q.queue, clock)
        BY <1>1, <1>7, <1>9 DEF StampInv, InOrder, In, ConversationTypeOK
    <2>2. \A k \in 1..Len(q.queue) : q.queue[k].stamp \in Nat
        BY <1>12, CheckpointFields
    <2>3. InOrder(r.queue, clock + 1)
        <3> SUFFICES ASSUME NEW k \in 1..Len(r.queue)
                     PROVE  /\ r.queue[k].stamp <= clock + 1
                            /\ \A j \in 1..k - 1 : r.queue[j].stamp < r.queue[k].stamp
            BY DEF InOrder
        <3>1. \A j \in 1..Len(q.queue) : r.queue[j] = q.queue[j] /\ q.queue[j].stamp <= clock
            BY <1>10, <2>1 DEF InOrder, Added
        <3>2. CASE k \in 1..Len(q.queue)
            <4>1. \A j \in 1..k - 1 : j \in 1..Len(q.queue)
                BY <1>10, <3>2 DEF Added
            <4>2. \A j \in 1..k - 1 : q.queue[j].stamp < q.queue[k].stamp
                BY <2>1, <3>2 DEF InOrder
            <4>3. r.queue[k] = q.queue[k] /\ q.queue[k].stamp <= clock /\ q.queue[k].stamp \in Nat
                BY <2>2, <3>1, <3>2
            <4>4. \A j \in 1..k - 1 : r.queue[j].stamp < r.queue[k].stamp
                BY <3>1, <4>1, <4>2, <4>3
            <4> QED BY <1>2, <4>3, <4>4
        <3>3. CASE k = Len(r.queue)
            <4>1. \A j \in 1..k - 1 : j \in 1..Len(q.queue)
                BY <1>10, <3>3 DEF Added
            <4>2. r.queue[k].stamp = clock + 1
                BY <1>8, <1>10, <3>3 DEF Added
            <4> QED BY <1>2, <2>2, <3>1, <4>1, <4>2
        <3> QED BY <1>19, <3>2, <3>3
    <2>4. \A s \in Sessions : store'[s].stamp <= clock'
        BY <1>1, <1>2, <2>1 DEF Checkpoint
    <2> QED BY <1>1, <1>2, <1>15, <2>1, <2>3, <2>4, StampsMove
<1>23. SerialInv'
    <2>1. ASSUME Serial, NEW u \in Turns \ {t}, Adds(turn[u])
          PROVE  turn[u].session # q.session
        BY <1>1, <1>9, <1>16, <2>1 DEF SerialInv, Behind
    <2>2. ASSUME Serial, NEW v \in Turns \ {t}, In(v, Live), turn[v].session = q.session
          PROVE  Behind(turn[v], r, store[q.session])
        <3>1. Behind(turn[v], q, store[q.session])
            BY <1>9, <1>16, <2>2 DEF SerialInv
        <3>2. turn[v] \in Turn /\ turn[v].queue \in Seq(Checkpoint)
            BY <2>2, Records, RecordFields DEF In
        <3>3. \A k \in 1..Len(turn[v].queue) :
                  turn[v].queue[k].stamp <= clock /\ turn[v].queue[k].stamp \in Nat
            BY <2>2, <3>2, CheckpointFields DEF StampInv
        <3>4. \A j \in 1..Len(q.queue) : r.queue[j] = q.queue[j]
            BY <1>10 DEF Added
        <3>5. r.queue # <<>> /\ r.queue[Len(r.queue)].stamp = clock + 1
            BY <1>8, <1>10 DEF Added
        <3>6. \A k \in 1..Len(turn[v].queue), j \in 1..Len(r.queue) :
                  turn[v].queue[k].stamp < r.queue[j].stamp
            <4> TAKE k \in 1..Len(turn[v].queue), j \in 1..Len(r.queue)
            <4>1. CASE j \in 1..Len(q.queue)
                BY <3>1, <3>4, <4>1 DEF Behind
            <4>2. CASE j = Len(r.queue)
                BY <1>2, <3>3, <3>5, <4>2
            <4> QED BY <1>19, <4>1, <4>2
        <3> QED BY <3>1, <3>5, <3>6 DEF Behind
    <2>3. ASSUME Serial, Clean(r)
          PROVE  Newest(r, store[q.session])
        <3>1. /\ store[q.session].stamp \in Nat /\ store[q.session].stamp <= clock
            BY <1>1, RecordFields DEF StampInv, ConversationTypeOK, Checkpoint
        <3>2. \A k \in 1..Len(q.queue) : q.queue[k].stamp > store[q.session].stamp
            <4>1. CASE q.stage = "entering"
                BY <1>17, <4>1
            <4>2. CASE q.stage = "running"
                <5>1. Clean(q)
                    BY <1>7, <1>17, <2>3, <4>2 DEF Clean
                <5> QED BY <1>9, <1>16, <2>3, <5>1 DEF SerialInv, Newest
            <4> QED BY <1>1, <4>1, <4>2
        <3> QED BY <1>2, <1>7, <1>8, <1>10, <3>1, <3>2 DEF Newest, Added
    <2>4. UNCHANGED <<setup, app>> /\ store' = store
        BY <1>1 DEF fixed
    <2> QED BY <1>7, <1>15, <2>1, <2>2, <2>3, <2>4, SerialMoves
<1>24. KeptInv'
    <2>1. ~Kept(t)'
        BY <1>15, <1>16 DEF Kept, Finished, OnlyMoves, In
    <2>2. ASSUME NEW u, NEW saved, Keeps(q, saved, u)
          PROVE  Keeps(r, saved, u)
        <3>1. HasTurn(m, u)
            BY <1>1, <1>13, <2>2 DEF Keeps, HasTurn
        <3> QED BY <1>7, <1>8, <1>10, <2>2, <3>1 DEF Keeps, Added
    <2>3. UNCHANGED <<setup, backend, restarts>> /\ store' = store
        BY <1>1 DEF fixed
    <2> QED BY <1>1, <1>7, <1>9, <1>15, <2>1, <2>2, <2>3, KeptMoves
<1> QED BY <1>18, <1>20, <1>21, <1>22, <1>23, <1>24

-----------------------------------------------------------------------------
(* r is q without its oldest checkpoint that is not saved.                   *)
Popped(q, r) ==
    /\ Len(q.queue) \in Nat /\ 1 \in 1..Len(q.queue) /\ Len(r.queue) = Len(q.queue) - 1
    /\ (r.queue = <<>> <=> Len(q.queue) = 1)
    /\ \A k \in 1..Len(r.queue) : k + 1 \in 1..Len(q.queue) /\ r.queue[k] = q.queue[k + 1]
    /\ Head(q.queue) = q.queue[1]

LEMMA PoppedFacts ==
    ASSUME NEW q \in Turn, NEW r \in Turn, q.queue # <<>>, r.queue = Tail(q.queue)
    PROVE  Popped(q, r)
<1> DEFINE w == q.queue
           z == Tail(w)
<1>1. w \in Seq(Checkpoint) /\ w # <<>> /\ r.queue \in Seq(Checkpoint)
    BY RecordFields
<1>2. /\ Len(w) \in Nat /\ Len(w) # 0 /\ Len(z) = Len(w) - 1 /\ Head(w) = w[1]
      /\ \A k \in 1..Len(w) - 1 : z[k] = w[k + 1]
    BY <1>1, EmptySeq, LenProperties, HeadTailProperties
<1> HIDE DEF z
<1>3. r.queue = z
    BY DEF z
<1>4. z = <<>> <=> Len(z) = 0
    BY <1>1, <1>3, EmptySeq
<1> HIDE DEF w
<1>5. Popped([queue |-> w], [queue |-> z])
    BY <1>2, <1>4 DEF Popped
<1> QED BY <1>3, <1>5 DEF Popped, w

LEMMA PoppedOrder ==
    ASSUME NEW q \in Turn, NEW r \in Turn, Popped(q, r), NEW last \in Nat, InOrder(q.queue, last)
    PROVE  /\ InOrder(r.queue, last)
           /\ \A k \in 1..Len(r.queue) : q.queue[1].stamp < r.queue[k].stamp
<1>1. ASSUME NEW k \in 1..Len(r.queue)
      PROVE  /\ r.queue[k].stamp <= last /\ q.queue[1].stamp < r.queue[k].stamp
             /\ \A j \in 1..k - 1 : r.queue[j].stamp < r.queue[k].stamp
    <2>1. k + 1 \in 1..Len(q.queue) /\ r.queue[k] = q.queue[k + 1]
        BY DEF Popped
    <2>2. 1 \in 1..(k + 1) - 1
        OBVIOUS
    <2>3. ASSUME NEW j \in 1..k - 1
          PROVE  j + 1 \in 1..(k + 1) - 1 /\ r.queue[j] = q.queue[j + 1]
        BY <2>1 DEF Popped
    <2> QED BY <2>1, <2>2, <2>3 DEF InOrder
<1> QED BY <1>1 DEF InOrder

LEMMA SaveFailsStep ==
    ASSUME ConversationInv, NEW t \in Turns, SaveFails(t)
    PROVE  ConversationInv'
<1> USE DEF ConversationInv
<1> DEFINE q == turn[t]
           r == [q EXCEPT !.queue = Tail(q.queue),
                          !.fault = IF q.fault = "none" THEN "other" ELSE q.fault]
<1>1. /\ q \in Turn /\ q.stage \in {"running", "closing"} /\ In(t, Live) /\ ~In(t, {"ended"})
      /\ q.queue # <<>> /\ badSaves < MaxBadSaves /\ badSaves' = badSaves + 1
      /\ UNCHANGED <<fixed, restarts, clock, store>> /\ turn' = [turn EXCEPT ![t] = r]
    BY Records DEF In, Live, SaveFails
<1>2. q.queue \in Seq(Checkpoint) /\ Tail(q.queue) \in Seq(Checkpoint) /\ q.fault \in Faults
    BY <1>1, RecordFields, HeadTailProperties
<1>3. r \in Turn
    BY <1>1, <1>2 DEF Turn, Faults
<1>4. /\ r.stage = q.stage /\ r.session = q.session /\ r.queue = Tail(q.queue)
      /\ r.seen = q.seen /\ r.life = q.life /\ r.mode = q.mode /\ r.gone = q.gone
      /\ r.fault # "none" /\ r.told = q.told /\ r.node = q.node /\ r.vocal = q.vocal
    BY <1>1 DEF Turn
<1>5. q = turn[t]
    OBVIOUS
<1> HIDE DEF r, q
<1>6. Popped(q, r) /\ r.stage \in Live /\ r.stage \notin Early /\ r.stage # "ended"
    BY <1>1, <1>3, <1>4, PoppedFacts DEF Live, Early
<1>7. OnlyMoves(t, r)
    BY <1>1, <1>3, Moves
<1>8. ConversationTypeOK'
    <2>1. badSaves' \in 0..MaxBadSaves
        BY <1>1, ConversationAssumption DEF ConversationTypeOK
    <2> QED BY <1>1, <1>3, <1>7, <2>1, TypeMoves DEF ConversationTypeOK
<1>9. ListsInv'
    <2>1. /\ Reads(q.seen, Known) /\ \A k \in 1..Len(q.queue) : Reads(q.queue[k].messages, Known)
          /\ \A s \in Sessions : Reads(store[s].messages, Known)
        BY <1>1, <1>5 DEF ListsInv
    <2>2. Known \subseteq Known \cup Known'
        OBVIOUS
    <2>3. \A k \in 1..Len(r.queue) : Reads(r.queue[k].messages, Known \cup Known')
        BY <1>6, <2>1, <2>2, ReadsMore DEF Popped
    <2> QED BY <1>1, <1>4, <1>6, <1>7, <2>1, <2>2, <2>3, ReadsMore, ListsMove
<1>10. RunInv'
    <2>1. RunOK(q, t) /\ q.mode \in Modes
        BY <1>1, <1>5 DEF RunInv
    <2>2. RunOK(r, t)
        BY <1>1, <1>4, <2>1 DEF RunOK, Entered
    <2> QED BY <1>1, <1>4, <1>6, <1>7, <2>1, <2>2, RunMoves DEF fixed
<1>11. StampInv'
    <2>1. /\ \A x \in Sessions : store[x].stamp <= clock
          /\ clock \in Nat /\ clock' = clock /\ clock' >= clock
          /\ r.life <= restarts /\ InOrder(q.queue, clock)
        BY <1>1, <1>4, <1>5, SetupFacts DEF StampInv, In, InOrder
    <2> QED BY <1>1, <1>3, <1>6, <1>7, <2>1, PoppedOrder, StampsMove
<1>12. SerialInv'
    <2>1. ASSUME NEW u \in Turns, NEW saved, Behind(q, turn[u], saved)
          PROVE  Behind(r, turn[u], saved)
        BY <1>4, <1>6, <2>1 DEF Behind, Popped
    <2>2. ASSUME Serial, NEW u \in Turns \ {t}, Adds(turn[u]), turn[u].session = q.session
          PROVE  Behind(r, turn[u], store[q.session])
        BY <1>1, <1>5, <2>1, <2>2 DEF SerialInv
    <2>3. ASSUME Serial, Adds(r), NEW v \in Turns \ {t}, In(v, Live), turn[v].session = q.session
          PROVE  Behind(turn[v], r, store[q.session])
        <3>1. Adds(q) /\ ~Clean(r)
            BY <1>4, <2>3 DEF Adds, Clean
        <3>2. Behind(turn[v], q, store[q.session])
            BY <1>5, <2>3, <3>1 DEF SerialInv
        <3> QED BY <1>6, <3>1, <3>2 DEF Behind, Popped
    <2>4. ~Clean(r) /\ UNCHANGED <<setup, app>>
        BY <1>1, <1>4 DEF Clean, fixed
    <2> QED BY <1>1, <1>4, <1>7, <2>2, <2>3, <2>4, SerialMoves
<1>13. KeptInv'
    <2>1. ~Kept(t)'
        BY <1>6, <1>7 DEF Kept, Finished, OnlyMoves, In
    <2>2. ASSUME NEW u, NEW saved, Keeps(q, saved, u)
          PROVE  Keeps(r, saved, u)
        BY <1>4, <1>6, <2>2 DEF Keeps, Popped
    <2>3. UNCHANGED <<setup, backend, restarts>> /\ store' = store
        BY <1>1 DEF fixed
    <2> QED BY <1>1, <1>4, <1>5, <1>7, <2>1, <2>2, <2>3, KeptMoves
<1> QED BY <1>8, <1>9, <1>10, <1>11, <1>12, <1>13

(* A checkpoint of a turn that was hung up and is behind another changes     *)
(* nothing that matters to that other; its own head, saved, is the newest.   *)
LEMMA SaveStep ==
    ASSUME ConversationInv, NEW t \in Turns, Save(t)
    PROVE  ConversationInv'
<1> USE DEF ConversationInv
<1> DEFINE q == turn[t]
           s == q.session
           h == q.queue[1]
           r == [q EXCEPT !.queue = Tail(q.queue)]
<1>1. /\ q \in Turn /\ q.stage \in {"running", "closing"} /\ In(t, Live) /\ ~In(t, {"ended"})
      /\ q.queue # <<>> /\ UNCHANGED <<fixed, restarts, badSaves, clock>>
      /\ turn' = [turn EXCEPT ![t] = r]
    BY Records DEF In, Live, Save
<1>2. q.queue \in Seq(Checkpoint) /\ Tail(q.queue) \in Seq(Checkpoint)
    BY <1>1, RecordFields, HeadTailProperties
<1>3. r \in Turn
    BY <1>1, <1>2 DEF Turn
<1>4. /\ r.stage = q.stage /\ r.session = q.session /\ r.queue = Tail(q.queue)
      /\ r.seen = q.seen /\ r.life = q.life /\ r.mode = q.mode /\ r.gone = q.gone
      /\ r.fault = q.fault /\ r.told = q.told /\ r.node = q.node /\ r.vocal = q.vocal
    BY <1>1 DEF Turn
<1>5. Popped(q, r)
    BY <1>1, <1>3, <1>4, PoppedFacts
<1>6. s \in Sessions /\ h \in Checkpoint /\ h.stamp \in Nat /\ store[s].stamp \in Nat
      /\ store \in [Sessions -> Checkpoint]
    <2>1. 1 \in 1..Len(q.queue)
        BY <1>5 DEF Popped
    <2> QED BY <1>1, <1>2, <2>1, RecordFields, CheckpointFields DEF ConversationTypeOK, Checkpoint
<1>7. store' = IF h.stamp > store[s].stamp THEN [store EXCEPT ![s] = h] ELSE store
    BY <1>5 DEF Save, Popped
<1>8. /\ store' \in [Sessions -> Checkpoint]
      /\ \A x \in Sessions : x # s => store'[x] = store[x]
      /\ h.stamp > store[s].stamp => store'[s] = h
      /\ ~(h.stamp > store[s].stamp) => store'[s] = store[s]
      /\ store'[s].stamp \in Nat /\ store'[s].stamp >= h.stamp
      /\ store'[s].stamp >= store[s].stamp
    <2>1. CASE h.stamp > store[s].stamp
        BY <1>6, <1>7, <2>1
    <2>2. CASE ~(h.stamp > store[s].stamp)
        BY <1>6, <1>7, <2>2
    <2> QED BY <2>1, <2>2
<1>9. q = turn[t] /\ s = q.session /\ h = q.queue[1] /\ 1 \in 1..Len(q.queue)
    BY <1>5 DEF Popped
<1> HIDE DEF r, q, s, h
<1>10. r.stage \in Live /\ r.stage \notin Early /\ r.stage # "ended"
    BY <1>1, <1>4 DEF Live, Early
<1>11. OnlyMoves(t, r)
    BY <1>1, <1>3, Moves
<1>12. InOrder(q.queue, clock) /\ clock \in Nat /\ h.stamp <= clock
    BY <1>1, <1>9, SetupFacts DEF StampInv, InOrder
<1>13. InOrder(r.queue, clock) /\ \A k \in 1..Len(r.queue) : h.stamp < r.queue[k].stamp
    BY <1>1, <1>3, <1>5, <1>9, <1>12, PoppedOrder
<1>14. ConversationTypeOK'
    BY <1>1, <1>3, <1>8, <1>11, TypeMoves DEF ConversationTypeOK
<1>15. ListsInv'
    <2>1. /\ Reads(q.seen, Known) /\ \A k \in 1..Len(q.queue) : Reads(q.queue[k].messages, Known)
          /\ \A x \in Sessions : Reads(store[x].messages, Known)
        BY <1>1, <1>9 DEF ListsInv
    <2>2. Known \subseteq Known \cup Known'
        OBVIOUS
    <2>3. \A k \in 1..Len(r.queue) : Reads(r.queue[k].messages, Known \cup Known')
        BY <1>5, <2>1, <2>2, ReadsMore DEF Popped
    <2>4. \A x \in Sessions : Reads(store'[x].messages, Known)
        BY <1>8, <1>9, <2>1
    <2> QED BY <1>1, <1>4, <1>10, <1>11, <2>1, <2>2, <2>3, <2>4, ReadsMore, ListsMove
<1>16. RunInv'
    <2>1. RunOK(q, t) /\ q.mode \in Modes
        BY <1>1, <1>9 DEF RunInv
    <2>2. RunOK(r, t)
        BY <1>1, <1>4, <2>1 DEF RunOK, Entered
    <2> QED BY <1>1, <1>4, <1>10, <1>11, <2>1, <2>2, RunMoves DEF fixed
<1>17. StampInv'
    <2>1. /\ \A x \in Sessions : store'[x].stamp <= clock
          /\ clock' = clock /\ clock' >= clock /\ r.life <= restarts
        BY <1>1, <1>4, <1>8, <1>9, <1>12 DEF StampInv, In
    <2> QED BY <1>1, <1>11, <1>12, <1>13, <2>1, StampsMove
<1>18. SerialInv'
    <2>1. ASSUME NEW v \in Turns, In(v, Live)
          PROVE  \A k \in 1..Len(turn[v].queue) : turn[v].queue[k].stamp \in Nat
        BY <2>1, Records, RecordFields, CheckpointFields DEF In
    <2>2. ASSUME Serial, NEW u \in Turns \ {t}, Adds(turn[u]), turn[u].session = s
          PROVE  /\ \A v \in Turns \ {u, t} :
                       In(v, Live) /\ turn[v].session = s
                          /\ Behind(turn[v], turn[u], store[s]) => Behind(turn[v], turn[u], store'[s])
                 /\ Behind(r, turn[u], store'[s])
                 /\ Clean(turn[u]) /\ Newest(turn[u], store[s]) => Newest(turn[u], store'[s])
        <3>1. Behind(q, turn[u], store[s])
            BY <1>1, <1>9, <2>2 DEF SerialInv
        <3>2. In(u, Live)
            BY <2>2 DEF Adds, In
        <3>3. ASSUME NEW v \in Turns, In(v, Live), Behind(turn[v], turn[u], store[s])
              PROVE  Behind(turn[v], turn[u], store'[s])
            BY <1>6, <1>8, <2>1, <3>3 DEF Behind
        <3>4. Behind(q, turn[u], store'[s])
            BY <1>1, <1>9, <3>1, <3>3
        <3>5. Behind(r, turn[u], store'[s])
            BY <1>4, <1>5, <3>4 DEF Behind, Popped
        <3>6. ASSUME Clean(turn[u]), Newest(turn[u], store[s])
              PROVE  Newest(turn[u], store'[s])
            <4>1. CASE turn[u].queue = <<>>
                <5>1. h.stamp < store[s].stamp
                    BY <1>9, <3>1, <3>6, <4>1 DEF Behind
                <5>2. store'[s] = store[s]
                    BY <1>6, <1>8, <5>1
                <5> QED BY <3>6, <5>2
            <4>2. CASE turn[u].queue # <<>>
                <5>1. \A j \in 1..Len(turn[u].queue) :
                          h.stamp < turn[u].queue[j].stamp /\ store[s].stamp < turn[u].queue[j].stamp
                    BY <1>6, <1>9, <2>1, <3>1, <3>2, <3>6 DEF Behind, Newest
                <5>2. \A j \in 1..Len(turn[u].queue) : turn[u].queue[j].stamp > store'[s].stamp
                    BY <1>6, <1>8, <2>1, <3>2, <5>1
                <5> QED BY <3>6, <4>2, <5>2 DEF Newest
            <4> QED BY <4>1, <4>2
        <3> QED BY <3>3, <3>5, <3>6
    <2>3. ASSUME Serial, Adds(r), NEW v \in Turns \ {t}, In(v, Live), turn[v].session = s
          PROVE  Behind(turn[v], r, store'[s])
        <3>1. Adds(q)
            BY <1>4, <2>3 DEF Adds
        <3>2. Behind(turn[v], q, store[s])
            BY <1>9, <2>3, <3>1 DEF SerialInv
        <3>3. \A k \in 1..Len(turn[v].queue) : turn[v].queue[k].stamp < h.stamp
            BY <1>9, <3>2 DEF Behind
        <3>4. \A k \in 1..Len(turn[v].queue) : turn[v].queue[k].stamp < store'[s].stamp
            BY <1>6, <1>8, <2>1, <2>3, <3>3
        <3> QED BY <1>5, <3>2, <3>4 DEF Behind, Popped
    <2>4. ASSUME Serial, Adds(r), Clean(r)
          PROVE  Newest(r, store'[s])
        <3>1. Newest(q, store[s])
            BY <1>4, <1>9, <2>4 DEF SerialInv, Adds, Clean, Entered
        <3>2. store'[s] = h
            BY <1>8, <1>9, <3>1 DEF Newest
        <3>3. \A k \in 1..Len(r.queue) : r.queue[k].stamp > store'[s].stamp
            <4>1. \A k \in 1..Len(r.queue) : r.queue[k].stamp \in Nat
                BY <1>3, RecordFields, CheckpointFields
            <4> QED BY <1>6, <1>13, <3>2, <4>1
        <3>4. q.queue # <<>> /\ q.queue[Len(q.queue)].messages = r.seen
            BY <1>1, <1>4, <3>1 DEF Newest
        <3>5. ASSUME r.queue # <<>>
              PROVE  r.queue[Len(r.queue)] = q.queue[Len(q.queue)]
            <4>1. Len(r.queue) = Len(q.queue) - 1 /\ Len(q.queue) \in Nat /\ Len(q.queue) # 1
                  /\ 1 \in 1..Len(q.queue)
                BY <1>5, <3>5 DEF Popped
            <4>2. Len(r.queue) \in 1..Len(r.queue) /\ Len(r.queue) + 1 = Len(q.queue)
                <5>1. \A n, k : n \in Nat /\ k = n - 1 /\ n # 1 /\ 1 \in 1..n
                              => k \in 1..k /\ k + 1 = n
                    OBVIOUS
                <5> QED BY <4>1, <5>1
            <4>3. r.queue[Len(r.queue)] = q.queue[Len(r.queue) + 1]
                BY <1>5, <4>2 DEF Popped
            <4> QED BY <4>2, <4>3
        <3>6. r.queue = <<>> => Len(q.queue) = 1
            BY <1>5 DEF Popped
        <3> QED BY <1>9, <3>2, <3>3, <3>4, <3>5, <3>6 DEF Newest
    <2>5. ASSUME NEW u \in Turns, Adds(turn[u])
          PROVE  turn[u].session \in Sessions
        <3>1. In(u, Live \cup {"ended"})
            BY <2>5 DEF Adds, In
        <3> QED BY <3>1, Records, RecordFields
    <2>6. UNCHANGED <<setup, app>> /\ r.session = s
        BY <1>1, <1>4, <1>9 DEF fixed
    <2>7. ASSUME Serial, NEW u \in Turns \ {t}, Adds(turn[u]), turn[u].session # s
          PROVE  store'[turn[u].session] = store[turn[u].session]
        BY <1>8, <2>5, <2>7
    <2> QED BY <1>11, <2>2, <2>3, <2>4, <2>6, <2>7, SerialMoves
<1>19. KeptInv'
    <2>1. ~Kept(t)'
        BY <1>10, <1>11 DEF Kept, Finished, OnlyMoves, In
    <2>2. ASSUME NEW u, HasTurn(store[s].messages, u), Keeps(q, store[s], u)
          PROVE  /\ HasTurn(store'[s].messages, u)
                 /\ Keeps(r, store'[s], u)
        <3>1. HasTurn(store'[s].messages, u)
            BY <1>8, <1>9, <2>2 DEF Keeps
        <3>2. \A k \in 1..Len(r.queue) : r.queue[k].stamp > store'[s].stamp =>
                  HasTurn(r.queue[k].messages, u)
            <4>1. \A k \in 1..Len(q.queue) : q.queue[k].stamp \in Nat
                BY <1>1, RecordFields, CheckpointFields
            <4>2. \A k \in 1..Len(q.queue) : q.queue[k].stamp > store'[s].stamp =>
                      HasTurn(q.queue[k].messages, u)
                BY <1>6, <1>8, <2>2, <4>1 DEF Keeps
            <4> QED BY <1>5, <4>2 DEF Popped
        <3> QED BY <1>4, <2>2, <3>1, <3>2 DEF Keeps
    <2>3. ASSUME NEW u, NEW v \in Turns, In(v, Live), Keeps(turn[v], store[s], u)
          PROVE  Keeps(turn[v], store'[s], u)
        <3>1. \A k \in 1..Len(turn[v].queue) : turn[v].queue[k].stamp \in Nat
            BY <2>3, Records, RecordFields, CheckpointFields DEF In
        <3> QED BY <1>6, <1>8, <2>3, <3>1 DEF Keeps
    <2>4. ASSUME NEW u \in Turns, Kept(u)
          PROVE  turn[u].session \in Sessions
        <3>1. In(u, Live \cup {"ended"})
            BY <2>4 DEF Kept, Finished, In
        <3> QED BY <3>1, Records, RecordFields
    <2>5. UNCHANGED <<setup, backend, restarts>> /\ r.session = s
        BY <1>1, <1>4, <1>9 DEF fixed
    <2>6. ASSUME NEW u \in Turns, Kept(u), turn[u].session # s
          PROVE  store'[turn[u].session] = store[turn[u].session]
        BY <1>8, <2>4, <2>6
    <2> QED BY <1>1, <1>9, <1>11, <2>1, <2>2, <2>3, <2>5, <2>6, KeptMoves
<1> QED BY <1>14, <1>15, <1>16, <1>17, <1>18, <1>19

-----------------------------------------------------------------------------
(* What the last word to the client of q's turn makes of what it was told:   *)
(* nothing if it hung up, the answer and the end, or the end alone.          *)
Answered(q) == ~q.gone /\ q.fault = "none" /\ q.node = "end"

Ends(q, told, t) ==
    \/ /\ q.gone /\ told = q.told
    \/ \E z \in Told, e \in Told :
          /\ ~q.gone /\ Answered(q) /\ q.told = <<>>
          /\ Len(told) = 2 /\ told[1] = z /\ told[2] = e
          /\ z = [kind |-> "shown", message |-> [turn |-> t, kind |-> "answer"]]
          /\ e = [kind |-> "done"]
    \/ \E e \in Told :
          /\ ~q.gone /\ OneMore(q.told, told, e)
          /\ e.kind \in Endings
          /\ \/ q.fault # "none" /\ e.kind = q.fault
             \/ /\ Answered(q) /\ e = [kind |-> "done"]
                /\ q.mode = "chat_stream" \/ (q.mode = "stream" /\ q.told # <<>>)

LEMMA EndsAs ==
    ASSUME ConversationInv, NEW t \in Turns, End(t)
    PROVE  /\ turn[t].told \o Ending(t) \in Seq(Told)
           /\ Ends(turn[t], turn[t].told \o Ending(t), t)
<1> USE DEF ConversationInv
<1> DEFINE q == turn[t]
           s == q.session
           told == q.told \o Ending(t)
           x == [turn |-> t, kind |-> "answer"]
           z == [kind |-> "shown", message |-> x]
           e == [kind |-> Outcome(t)]
<1>1. /\ q \in Turn /\ q.stage = "closing" /\ In(t, Live) /\ q.queue = <<>>
    BY Records DEF In, Live, End, Saved
<1>2. RunOK(q, t) /\ q.mode \in Modes /\ q.told \in Seq(Told) /\ q.fault \in Faults
      /\ q.seen \in Seq(Message) /\ q.gone \in BOOLEAN
    BY <1>1, RecordFields DEF RunInv
<1>3. x \in Message /\ z \in Told /\ e \in Told
      /\ e.kind = (IF q.fault = "none" THEN "done" ELSE q.fault) /\ e.kind \in Endings
    <2>1. Outcome(t) \in Endings /\ Outcome(t) = (IF q.fault = "none" THEN "done" ELSE q.fault)
        BY <1>2 DEF Outcome, Endings, Faults
    <2> QED BY <2>1 DEF Told, Message, Kinds
<1>4. \A y : Ending(t) = y => told = q.told \o y
    OBVIOUS
<1>5. q = turn[t] /\ s = q.session
    OBVIOUS
<1> HIDE DEF told, q, x, z, s
<1>6. CASE q.gone
    <2>1. Ending(t) = <<>>
        BY <1>5, <1>6 DEF Ending
    <2>2. told = q.told
        BY <1>2, <1>4, <2>1, ConcatEmptySeq
    <2> QED BY <1>2, <1>6, <2>2 DEF Ends, told, q
<1>7. ASSUME NEW y \in Seq(Told), ~q.gone, Ending(t) = <<e>>
      PROVE  told \in Seq(Told) /\ OneMore(q.told, told, e)
    <2>1. told = q.told \o <<e>>
        BY <1>4, <1>7
    <2>2. told = Append(q.told, e)
        BY <1>2, <1>3, <2>1, AppendIsConcat
    <2>3. OneMore(q.told, Append(q.told, e), e) /\ Append(q.told, e) \in Seq(Told)
        BY <1>2, <1>3, Appended, AppendProperties
    <2> HIDE DEF e
    <2> QED BY <2>2, <2>3, Zenon
<1>8. CASE ~q.gone /\ q.fault # "none"
    <2>1. Ending(t) = <<>> \o <<e>>
        BY <1>5, <1>8 DEF Ending, e
    <2>2. <<e>> \in Seq(Told)
        BY <1>3
    <2>3. <<>> \o <<e>> = <<e>>
        BY <2>2, ConcatEmptySeq
    <2>4. told \in Seq(Told) /\ OneMore(q.told, told, e)
        BY <1>7, <1>8, <2>1, <2>2, <2>3
    <2> HIDE DEF e
    <2> QED BY <1>3, <1>8, <2>4 DEF Ends, told, q
<1>9. CASE ~q.gone /\ q.fault = "none"
    <2>1. Answered(q) /\ Entered(q)
        BY <1>1, <1>2, <1>9 DEF RunOK, Answered, Entered
    <2>2. e = [kind |-> "done"] /\ <<e>> \in Seq(Told) /\ <<z>> \in Seq(Told)
        BY <1>3, <1>5, <1>9 DEF Outcome
    <2>3. Ending(t) = Shown(t) \o <<e>>
        BY <1>5, <1>9 DEF Ending, e
    <2>4. q.seen # <<>> /\ Last(q.seen) = x
        <3>1. q.seen # <<>> /\ q.seen[Len(q.seen)].turn = t /\ q.seen[Len(q.seen)].kind = "answer"
            BY <1>2, <2>1 DEF RunOK, Answered
        <3>2. q.seen[Len(q.seen)] \in Message
            <4>1. Len(q.seen) \in Nat /\ Len(q.seen) # 0
                BY <1>2, <3>1, EmptySeq, LenProperties
            <4>2. Len(q.seen) \in 1..Len(q.seen)
                BY <4>1
            <4> QED BY <1>2, <4>2, ElementOfSeq
        <3>3. q.seen[Len(q.seen)] = x
            BY <3>1, <3>2 DEF Message, x
        <3> QED BY <3>1, <3>3 DEF Last
    <2>5. ASSUME q.told = <<>>, Shown(t) = <<z>>
          PROVE  told \in Seq(Told) /\ Ends(q, told, t)
        <3>1. told = <<>> \o (<<z>> \o <<e>>)
            BY <1>4, <2>3, <2>5
        <3> DEFINE w == <<z>> \o <<e>>
        <3>2. w \in Seq(Told) /\ Len(w) = 2 /\ w[1] = z /\ w[2] = e
            <4> HIDE DEF e
            <4> QED BY <2>2, ConcatProperties
        <3>3. <<>> \o w = w
            BY <3>2, ConcatEmptySeq
        <3> HIDE DEF w
        <3>4. told = w
            BY <3>1, <3>3 DEF w
        <3> HIDE DEF e
        <3> QED BY <1>3, <1>9, <2>1, <2>2, <2>5, <3>2, <3>4 DEF Ends, z, x
    <2>6. CASE q.mode \in {"chat", "invoke"}
        <3>1. q.told = <<>>
            BY <1>2, <2>6 DEF RunOK, Streaming
        <3>2. Shown(t) = <<z>>
            BY <1>5, <2>4, <2>6 DEF Shown, z
        <3> QED BY <2>5, <3>1, <3>2 DEF told, q
    <2>7. CASE q.mode = "stream" /\ q.told = <<>>
        <3>1. Serial
            BY <1>2, <2>7 DEF Modes, Serial, ConversationTypeOK
        <3>2. Adds(q) /\ Clean(q)
            BY <1>1, <1>9, <2>1 DEF Adds, Clean, Live
        <3>3. Newest(q, store[s])
            BY <1>5, <3>1, <3>2 DEF SerialInv
        <3>4. store[s].messages = q.seen
            BY <1>1, <1>5, <3>3 DEF Newest, q
        <3>5. Shown(t) = <<z>>
            BY <1>5, <2>4, <2>7, <3>4 DEF Shown, Unstreamed, z
        <3> QED BY <2>5, <2>7, <3>5 DEF told, q
    <2>8. CASE q.mode = "chat_stream" \/ (q.mode = "stream" /\ q.told # <<>>)
        <3>1. Shown(t) = <<>>
            BY <1>5, <2>8 DEF Shown, Unstreamed
        <3>2. Ending(t) = <<e>>
            <4>1. <<>> \o <<e>> = <<e>>
                BY <2>2, ConcatEmptySeq
            <4> QED BY <2>3, <3>1, <4>1
        <3>3. told \in Seq(Told) /\ OneMore(q.told, told, e)
            BY <1>7, <1>9, <2>2, <3>2
        <3> HIDE DEF e
        <3> QED BY <1>3, <1>9, <2>1, <2>2, <2>8, <3>3 DEF Ends, told, q
    <2> QED BY <1>2, <2>6, <2>7, <2>8 DEF Modes, told, q
<1> QED BY <1>6, <1>8, <1>9 DEF told, q

LEMMA EndsWell ==
    ASSUME NEW t \in Turns, NEW q \in Turn, NEW r \in Turn, RunOK(q, t), Ends(q, r.told, t),
           r.gone = q.gone, r.node = q.node, r.mode = q.mode
    PROVE  /\ EndOK(r, t)
           /\ (\E i \in 1..Len(r.told) : r.told[i] = [kind |-> "done"]) => Answered(q)
<1> DEFINE done == [kind |-> "done"]
           x == [turn |-> t, kind |-> "answer"]
           ends == {i \in 1..Len(r.told) : r.told[i].kind \in Endings}
           texts == {i \in 1..Len(r.told) : r.told[i].kind \notin Endings}
           answers == {i \in texts : r.told[i].message = x}
<1> SUFFICES /\ \A i \in ends : i = Len(r.told)
             /\ ~q.gone => ends # {}
             /\ (\E i \in ends : r.told[i] = done) =>
                   /\ Answered(q)
                   /\ q.mode \in {"invoke", "stream"} =>
                         /\ answers # {} /\ \A i, j \in answers : i = j
                         /\ \A i \in texts : r.told[i].message.turn = t
    <2>1. done.kind \in Endings
        BY DEF Endings
    <2> QED BY <2>1 DEF EndOK, Answered
<1>1. \A i \in 1..Len(q.told) :
          /\ q.told[i].kind \notin Endings /\ q.told[i].message.turn = t
          /\ q.told[i].message \in Message
          /\ q.told[i].message.kind = "answer" => i = Len(q.told)
    BY DEF RunOK, Endings
<1>2. done.kind \in Endings /\ done.kind = "done"
    BY DEF Endings
<1>3. CASE q.gone /\ r.told = q.told
    BY <1>1, <1>2, <1>3
<1>4. ASSUME NEW z \in Told, NEW e \in Told, ~q.gone, Answered(q),
             Len(r.told) = 2, r.told[1] = z, r.told[2] = e,
             z = [kind |-> "shown", message |-> x], e = done
      PROVE  /\ \A i \in ends : i = Len(r.told)
             /\ ends # {} /\ Answered(q) /\ answers # {} /\ \A i, j \in answers : i = j
             /\ \A i \in texts : r.told[i].message.turn = t
    <2>1. z.kind \notin Endings /\ z.message = x /\ e.kind \in Endings /\ x.turn = t
        BY <1>2, <1>4 DEF Endings
    <2>2. 1..Len(r.told) = {1, 2}
        BY <1>4
    <2>3. ends = {2} /\ texts = {1} /\ answers = {1}
        BY <1>4, <2>1, <2>2
    <2> QED BY <1>4, <2>1, <2>3
<1>5. ASSUME NEW e \in Told, ~q.gone, OneMore(q.told, r.told, e), e.kind \in Endings
      PROVE  /\ \A i \in ends : i = Len(r.told)
             /\ ends # {} /\ texts = 1..Len(q.told)
             /\ \A i \in 1..Len(q.told) : r.told[i] = q.told[i]
             /\ r.told[Len(r.told)] = e
    <2>1. /\ Len(q.told) \in Nat /\ Len(r.told) = Len(q.told) + 1
          /\ \A i \in 1..Len(q.told) : r.told[i] = q.told[i]
          /\ r.told[Len(r.told)] = e
        BY <1>5 DEF OneMore
    <2>2. \A i \in 1..Len(r.told) : i \in 1..Len(q.told) \/ i = Len(r.told)
        BY <2>1
    <2>3. /\ Len(r.told) \in 1..Len(r.told) /\ Len(r.told) \notin 1..Len(q.told)
          /\ \A i \in 1..Len(q.told) : i \in 1..Len(r.told)
        BY <2>1
    <2> QED BY <1>1, <1>5, <2>1, <2>2, <2>3
<1>6. ASSUME NEW e \in Told, ~q.gone, OneMore(q.told, r.told, e), e.kind \in Endings,
             q.fault # "none" /\ e.kind = q.fault
      PROVE  ~\E i \in ends : r.told[i] = done
    <2>1. e.kind # "done"
        BY <1>6, RecordFields DEF Faults
    <2> QED BY <1>2, <1>5, <1>6, <2>1
<1>7. ASSUME NEW e \in Told, ~q.gone, OneMore(q.told, r.told, e), e.kind \in Endings,
             Answered(q), q.mode = "chat_stream" \/ (q.mode = "stream" /\ q.told # <<>>),
             q.mode \in {"invoke", "stream"}
      PROVE  /\ answers # {} /\ \A i, j \in answers : i = j
             /\ \A i \in texts : r.told[i].message.turn = t
    <2>1. \E i \in 1..Len(q.told) : q.told[i].message.kind = "answer"
        BY <1>7 DEF RunOK, Answered
    <2>2. PICK i \in 1..Len(q.told) : q.told[i].message.kind = "answer"
        BY <2>1
    <2>3. q.told[i].message = x
        BY <1>1, <2>2 DEF Message
    <2>4. i \in answers
        BY <1>5, <1>7, <2>3
    <2>5. \A j \in answers : j = Len(q.told)
        BY <1>1, <1>5, <1>7
    <2> QED BY <1>1, <1>5, <1>7, <2>4, <2>5
<1> HIDE DEF ends, texts, answers, done, x
<1> QED BY <1>3, <1>4, <1>5, <1>6, <1>7 DEF Ends, done, x

(* A turn that ends well leaves its answer in the newest checkpoint, and it  *)
(* is saved.                                                                 *)
LEMMA EndStep ==
    ASSUME ConversationInv, NEW t \in Turns, End(t)
    PROVE  ConversationInv'
<1> USE DEF ConversationInv
<1> DEFINE q == turn[t]
           s == q.session
           told == q.told \o Ending(t)
           r == [q EXCEPT !.stage = "ended", !.told = told, !.vocal = FALSE,
                          !.queue = <<>>, !.seen = <<>>, !.steps = 0, !.fault = "none"]
<1>1. /\ q \in Turn /\ q.stage = "closing" /\ In(t, Live) /\ ~In(t, {"ended"}) /\ q.queue = <<>>
      /\ UNCHANGED <<fixed, restarts, badSaves, clock, store>>
    BY Records DEF In, Live, End, Saved
<1>2. turn' = [turn EXCEPT ![t] = r]
    BY <1>1 DEF End, After
<1>3. told \in Seq(Told) /\ Ends(q, told, t)
    BY EndsAs
<1>4. q = turn[t] /\ s = q.session
    OBVIOUS
<1> HIDE DEF told
<1>5. r \in Turn
    <2>1. /\ 0 \in 0..setup.limit /\ <<>> \in Seq(Message) /\ <<>> \in Seq(Checkpoint)
        BY SetupFacts, EmptySeq
    <2> QED BY <1>1, <1>3, <2>1 DEF Turn, Faults
<1>6. /\ r.stage = "ended" /\ r.session = q.session /\ r.life = q.life /\ r.mode = q.mode
      /\ r.gone = q.gone /\ r.told = told /\ r.node = q.node
    BY <1>1 DEF Turn
<1> HIDE DEF r, q, s
<1>7. RunOK(q, t)
    BY <1>1, <1>4 DEF RunInv
<1>8. EndOK(r, t)
      /\ ((\E i \in 1..Len(r.told) : r.told[i] = [kind |-> "done"]) => Answered(q))
    BY <1>1, <1>3, <1>5, <1>6, <1>7, EndsWell
<1>9. OnlyMoves(t, r)
    BY <1>2, <1>5, Moves
<1>10. r.stage \notin Live /\ r.stage \notin Early
    BY <1>6 DEF Live, Early
<1>11. ConversationTypeOK'
    BY <1>1, <1>5, <1>9, TypeMoves DEF ConversationTypeOK
<1>12. ListsInv'
    <2>1. \A x \in Sessions : Reads(store[x].messages, Known)
        BY DEF ListsInv
    <2>2. Known \subseteq Known \cup Known'
        OBVIOUS
    <2> QED BY <1>1, <1>9, <1>10, <2>1, <2>2, ReadsMore, ListsMove
<1>13. RunInv'
    BY <1>1, <1>8, <1>9, <1>10, RunMoves DEF fixed
<1>14. StampInv'
    <2>1. /\ \A x \in Sessions : store[x].stamp <= clock
          /\ clock \in Nat /\ clock' = clock /\ clock' >= clock /\ r.life <= restarts
        BY <1>1, <1>4, <1>6, SetupFacts DEF StampInv, In
    <2> QED BY <1>1, <1>9, <1>10, <2>1, StampsMove
<1>15. SerialInv'
    <2>1. ~Adds(r) /\ UNCHANGED <<setup, app>> /\ store' = store
        BY <1>1, <1>10 DEF Adds, fixed
    <2> QED BY <1>9, <1>10, <2>1, SerialMoves
<1>16. KeptInv'
    <2>1. UNCHANGED <<setup, backend, restarts>> /\ store' = store
        BY <1>1 DEF fixed
    <2>2. ASSUME setup.patient, Kept(t)'
          PROVE  /\ HasTurn(store[s].messages, t)
                 /\ \A v \in Turns \ {t} :
                       In(v, Live) /\ turn[v].session = s => Keeps(turn[v], store[s], t)
        <3>1. Answered(q)
            BY <1>8, <1>9, <2>2 DEF Kept, Finished, OnlyMoves
        <3>2. Adds(q) /\ Clean(q) /\ Entered(q) /\ Serial
            BY <1>1, <2>2, <3>1 DEF Answered, Adds, Clean, Entered, Live, Serial
        <3>3. /\ Newest(q, store[s])
              /\ \A v \in Turns \ {t} :
                    In(v, Live) /\ turn[v].session = s => Behind(turn[v], q, store[s])
            BY <1>4, <3>2 DEF SerialInv
        <3>4. store[s].messages = q.seen
            BY <1>1, <3>3 DEF Newest
        <3>5. HasTurn(q.seen, t)
            <4>1. q.seen # <<>> /\ q.seen[Len(q.seen)].turn = t
                  /\ q.seen[Len(q.seen)].kind = "answer" /\ Has(q.seen, t, "human")
                BY <1>7, <3>1, <3>2 DEF RunOK, Answered
            <4>2. q.seen \in Seq(Message) /\ Len(q.seen) \in Nat /\ Len(q.seen) # 0
                BY <1>1, <4>1, RecordFields, EmptySeq, LenProperties
            <4>3. Len(q.seen) \in 1..Len(q.seen)
                BY <4>2
            <4>4. q.seen[Len(q.seen)] \in Message
                BY <4>2, <4>3, ElementOfSeq
            <4>5. q.seen[Len(q.seen)] = [turn |-> t, kind |-> "answer"]
                BY <4>1, <4>4 DEF Message
            <4> QED BY <4>1, <4>3, <4>5 DEF HasTurn, Has
        <3>6. ASSUME NEW v \in Turns \ {t}, In(v, Live), turn[v].session = s
              PROVE  Keeps(turn[v], store[s], t)
            <4>1. Behind(turn[v], q, store[s])
                BY <3>3, <3>6
            <4>2. turn[v].stage = "closing"
                BY <3>6, <4>1 DEF Behind, RunInv, RunOK
            <4>3. store[s].stamp \in Nat
                BY <1>1, <1>4, RecordFields DEF ConversationTypeOK, Checkpoint
            <4>4. \A k \in 1..Len(turn[v].queue) : turn[v].queue[k].stamp \in Nat
                BY <3>6, Records, RecordFields, CheckpointFields DEF In
            <4>5. \A k \in 1..Len(turn[v].queue) : ~(turn[v].queue[k].stamp > store[s].stamp)
                BY <1>1, <3>2, <4>1, <4>3, <4>4 DEF Behind
            <4> QED BY <4>2, <4>5 DEF Keeps
        <3> QED BY <3>4, <3>5, <3>6
    <2> QED BY <1>1, <1>4, <1>6, <1>9, <1>10, <2>1, <2>2, KeptMoves
<1> QED BY <1>11, <1>12, <1>13, <1>14, <1>15, <1>16

LEMMA LivesSoFar ==
    ASSUME ConversationTypeOK, StampInv, NEW u \in Turns, In(u, Live \cup {"ended"})
    PROVE  turn[u].life <= restarts /\ turn[u].life \in Nat
<1>1. turn[u].life \in 0..setup.restarts
    BY Records, RecordFields
<1>2. turn[u].life <= restarts
    BY DEF StampInv
<1> QED BY <1>1, <1>2, SetupFacts

(* A new life of the process has no runs, and forgets or keeps all.          *)
LEMMA RestartStep ==
    ASSUME ConversationInv, Restart
    PROVE  ConversationInv'
<1> USE DEF ConversationInv
<1>1. /\ \A u \in Turns : turn'[u] = IF In(u, Live) THEN Lost ELSE turn[u]
      /\ UNCHANGED <<fixed, badSaves, clock>> /\ restarts' = restarts + 1
      /\ restarts < setup.restarts /\ restarts \in Nat /\ setup.restarts \in Nat
      /\ store' = Reopened
    BY SetupFacts DEF Restart
<1>2. \A u \in Turns : ~In(u, Live)' /\ (In(u, {"ended"})' => turn'[u] = turn[u] /\ In(u, {"ended"}))
    BY <1>1 DEF In, Live, Lost
<1>3. Blank \in Checkpoint /\ Blank.messages = <<>> /\ Blank.stamp = 0
    BY EmptySeq DEF Blank, Checkpoint
<1>4. /\ store' \in [Sessions -> Checkpoint]
      /\ backend = "durable" => store' = store
      /\ \A x \in Sessions : store'[x] = store[x] \/ store'[x] = Blank
    BY <1>1, <1>3 DEF Reopened, ConversationTypeOK
<1>5. ConversationTypeOK'
    <2>1. turn' \in [Turns -> Turn \cup {Unborn, Lost}]
        <3>1. turn' = [u \in Turns |-> IF In(u, Live) THEN Lost ELSE turn[u]]
            BY DEF Restart
        <3> QED BY <3>1 DEF ConversationTypeOK
    <2>2. (Turn \cup {Unborn, Lost})' = Turn \cup {Unborn, Lost}
        BY <1>1 DEF Turn, fixed
    <2>3. restarts' \in 0..setup.restarts
        BY <1>1
    <2> QED BY <1>1, <1>4, <2>1, <2>2, <2>3 DEF ConversationTypeOK, fixed
<1>6. ListsInv'
    <2>1. Known \subseteq Known'
        BY <1>1 DEF Known, In, Early, Lost
    <2>2. \A x \in Sessions : Reads(store[x].messages, Known)
        BY DEF ListsInv
    <2> QED BY <1>2, <1>3, <1>4, <2>1, <2>2, ReadsMore, ReadsNothing DEF ListsInv
<1>7. RunInv'
    BY <1>2 DEF RunInv
<1>8. StampInv'
    <2>1. \A u \in Turns : In(u, Live \cup {"ended"})' =>
              turn'[u] = turn[u] /\ turn[u].life <= restarts /\ turn[u].life \in Nat
        <3>1. ASSUME NEW u \in Turns, In(u, Live \cup {"ended"})'
              PROVE  turn'[u] = turn[u] /\ In(u, Live \cup {"ended"})
            BY <1>2, <3>1 DEF In
        <3> QED BY <3>1, LivesSoFar
    <2>2. \A x \in Sessions : store'[x].stamp <= clock'
        BY <1>1, <1>3, <1>4, SetupFacts DEF StampInv
    <2>3. \A u \in Turns : In(u, Live \cup {"ended"})' => turn'[u].life <= restarts'
        BY <1>1, <2>1
    <2> QED BY <1>2, <2>2, <2>3 DEF StampInv
<1>9. SerialInv'
    BY <1>2 DEF SerialInv, Adds, In
<1>10. KeptInv'
    <2>1. ASSUME setup'.patient, NEW u \in Turns, Kept(u)'
          PROVE  HasTurn(store'[turn'[u].session].messages, u)
        <3>1. turn'[u] = turn[u] /\ Finished(u) /\ In(u, {"ended"})
            BY <1>2, <2>1 DEF Kept, Finished, In
        <3>2. turn[u].life <= restarts /\ turn[u].life \in Nat
            <4>1. In(u, Live \cup {"ended"})
                BY <3>1 DEF In
            <4> QED BY <4>1, LivesSoFar
        <3>3. backend = "durable"
            BY <1>1, <2>1, <3>1, <3>2 DEF Kept, fixed
        <3>4. Kept(u) /\ setup.patient
            BY <1>1, <2>1, <3>1, <3>3 DEF Kept, fixed
        <3> QED BY <1>4, <3>1, <3>3, <3>4 DEF KeptInv
    <2> QED BY <1>2, <2>1 DEF KeptInv
<1> QED BY <1>5, <1>6, <1>7, <1>8, <1>9, <1>10

-----------------------------------------------------------------------------
LEMMA TokenFacts ==
    ASSUME NEW t \in Turns, NEW kind \in Kinds, NEW text \in BOOLEAN, RunInv, In(t, {"running"})
    PROVE  /\ \/ Tokens(t, kind, text) = <<>>
              \/ /\ Tokens(t, kind, text) =
                        <<[kind |-> "token", message |-> [turn |-> t, kind |-> kind]]>>
                 /\ turn[t].vocal /\ In(t, {"running"})
           /\ turn[t].vocal /\ text => Tokens(t, kind, text) # <<>>
<1>1. In(t, Live)
    BY DEF In, Live
<1>2. turn[t].vocal => turn[t].mode \in Streaming
    BY <1>1 DEF RunInv, RunOK
<1>3. \A z : <<z>> # <<>>
    OBVIOUS
<1> QED BY <1>2, <1>3 DEF Tokens

LEMMA StepStep ==
    ASSUME ConversationInv, NEW t \in Turns, Step(t)
    PROVE  ConversationInv'
<1>1. CASE Load(t)
    BY <1>1, LoadStep
<1>2. CASE Enter(t)
    <2>1. In(t, {"entering"}) /\ In(t, {"entering", "running"}) /\ ~In(t, {"running"})
          /\ Add(t, "human", "supervisor", <<>>) /\ "human" \in Kinds
        BY <1>2 DEF Enter, In, Kinds
    <2> QED BY <2>1, AddStep
<1>3. CASE Answer(t)
    <2>1. In(t, {"running"}) /\ In(t, {"entering", "running"}) /\ ~In(t, {"entering"}) /\ Within(t)
          /\ Add(t, "answer", "end", Tokens(t, "answer", TRUE)) /\ "answer" \in Kinds
        BY <1>3 DEF Answer, At, In, Kinds
    <2> QED BY <2>1, TokenFacts, AddStep DEF ConversationInv
<1>4. ASSUME NEW text \in BOOLEAN, HandOver(t, text)
      PROVE  ConversationInv'
    <2>1. In(t, {"running"}) /\ In(t, {"entering", "running"}) /\ ~In(t, {"entering"}) /\ Within(t)
          /\ Add(t, "handoff", "agent", Tokens(t, "handoff", text)) /\ "handoff" \in Kinds
        BY <1>4 DEF HandOver, At, In, Kinds
    <2> QED BY <2>1, TokenFacts, AddStep DEF ConversationInv
<1>5. CASE Report(t)
    <2>1. In(t, {"running"}) /\ In(t, {"entering", "running"}) /\ ~In(t, {"entering"}) /\ Within(t)
          /\ Add(t, "work", "supervisor", <<>>) /\ "work" \in Kinds
        BY <1>5 DEF Report, At, In, Kinds
    <2> QED BY <2>1, AddStep
<1>6. CASE OutOfSteps(t)
    BY <1>6, CloseStep DEF OutOfSteps, Faults, In
<1>7. ASSUME NEW fault \in Faults \ {"none"}, Raise(t, fault)
      PROVE  ConversationInv'
    BY <1>7, CloseStep DEF Raise
<1>8. CASE Save(t)
    BY <1>8, SaveStep
<1>9. CASE SaveFails(t)
    BY <1>9, SaveFailsStep
<1>10. CASE End(t)
    BY <1>10, EndStep
<1> QED BY <1>1, <1>2, <1>3, <1>4, <1>5, <1>6, <1>7, <1>8, <1>9, <1>10 DEF Step

LEMMA ConversationInvInit ==
    ASSUME ConversationInit
    PROVE  ConversationInv
<1>1. /\ \A t \in Turns : turn[t] = Unborn
      /\ \A s \in Sessions : store[s] = Blank
    BY DEF ConversationInit
<1>2. Blank \in Checkpoint /\ Blank.messages = <<>> /\ Blank.stamp = 0
    BY EmptySeq DEF Blank, Checkpoint
<1>3. \A t \in Turns : ~In(t, Live) /\ ~In(t, {"ended"})
    BY <1>1 DEF In, Live, Unborn
<1>4. ConversationTypeOK
    <2>1. setup \in Setup /\ setup.restarts \in Nat /\ MaxBadSaves \in Nat
        BY ConversationAssumption DEF ConversationInit, Setup
    <2> QED BY <1>2, <2>1 DEF ConversationInit, ConversationTypeOK
<1>5. ListsInv
    BY <1>1, <1>2, <1>3, ReadsNothing DEF ListsInv
<1>6. RunInv
    BY <1>3 DEF RunInv
<1>7. StampInv
    BY <1>1, <1>2, <1>3 DEF StampInv, ConversationInit, In
<1>8. SerialInv
    BY <1>3 DEF SerialInv, Adds, In
<1>9. KeptInv
    BY <1>3 DEF KeptInv, Kept, Finished
<1> QED BY <1>4, <1>5, <1>6, <1>7, <1>8, <1>9 DEF ConversationInv

LEMMA ConversationInvStep ==
    ConversationInv /\ [ConversationNext]_vars => ConversationInv'
<1> SUFFICES ASSUME ConversationInv, [ConversationNext]_vars
             PROVE  ConversationInv'
    OBVIOUS
<1>1. ASSUME NEW t \in Turns, NEW s \in Sessions, NEW mode \in Modes, NEW vocal \in BOOLEAN,
             Begin(t, s, mode, vocal)
      PROVE  ConversationInv'
    BY <1>1, BeginStep
<1>2. ASSUME NEW t \in Turns, Step(t)
      PROVE  ConversationInv'
    BY <1>2, StepStep
<1>3. ASSUME NEW t \in Turns, HangUp(t)
      PROVE  ConversationInv'
    BY <1>3, HangUpStep
<1>4. CASE Restart
    BY <1>4, RestartStep
<1>5. CASE UNCHANGED vars
    <2>1. \A t \in Turns : \A stages : In(t, stages)' <=> In(t, stages)
        BY <1>5 DEF vars, In
    <2>2. ConversationTypeOK'
        BY <1>5 DEF vars, fixed, ConversationInv, ConversationTypeOK, Turn
    <2>3. Known' = Known
        BY <2>1 DEF Known
    <2>4. ListsInv' /\ StampInv'
        BY <1>5, <2>1, <2>3 DEF vars, fixed, ConversationInv, ListsInv, StampInv
    <2>5. RunInv'
        BY <1>5, <2>1 DEF vars, fixed, ConversationInv, RunInv, Modes
    <2>6. SerialInv'
        BY <1>5, <2>1 DEF vars, fixed, ConversationInv, SerialInv, Serial
    <2>7. KeptInv'
        <3>1. \A u \in Turns : Kept(u)' <=> Kept(u)
            BY <1>5, <2>1 DEF vars, fixed, Kept, Finished
        <3> QED BY <1>5, <2>1, <3>1 DEF vars, fixed, ConversationInv, KeptInv
    <2> QED BY <2>2, <2>4, <2>5, <2>6, <2>7 DEF ConversationInv
<1> QED BY <1>1, <1>2, <1>3, <1>4, <1>5 DEF ConversationNext, AllOver

LEMMA ConversationInvHolds == ConversationSafe => []ConversationInv
<1>1. ConversationInit => ConversationInv
    BY ConversationInvInit
<1> QED BY <1>1, ConversationInvStep, PTL DEF ConversationSafe

(* A turn has the fields it should have, a run no more steps than its limit, *)
(* and what is saved are checkpoints.                                        *)
THEOREM ConversationTypeCorrect == ConversationSafe => []ConversationTypeOK
<1>1. ConversationInv => ConversationTypeOK
    BY DEF ConversationInv
<1> QED BY <1>1, ConversationInvHolds, PTL

(* However turns overlap, fail and are cut short, the store's list of        *)
(* messages reads as a conversation: the reducer of the graph only appends,  *)
(* and a checkpoint is written whole.                                        *)
THEOREM HistoriesRead == ConversationSafe => []HistoryReadsAsConversation
<1>1. ConversationInv => HistoryReadsAsConversation
    BY DEF ConversationInv, ListsInv, Reads, HistoryReadsAsConversation, Messages
<1> QED BY <1>1, ConversationInvHolds, PTL

(* What a client was told is done is in the store for good, if the clients   *)
(* of its session wait: nothing older that is still being saved replaces it. *)
THEOREM AnswersAreRemembered == ConversationSafe => []AnsweredTurnsAreRemembered
<1>1. ConversationInv => AnsweredTurnsAreRemembered
    BY DEF ConversationInv, KeptInv, Kept, HasTurn, AnsweredTurnsAreRemembered, Messages
<1> QED BY <1>1, ConversationInvHolds, PTL

(* The generator of /chat/stream and the CLI's loop say the end once, last,  *)
(* and "done" only of a run whose supervisor answered.                       *)
THEOREM TurnsEndOnceAndTruly == ConversationSafe => []EndsOnceAndTruly
<1>1. ConversationInv => EndsOnceAndTruly
    <2> SUFFICES ASSUME ConversationInv, NEW t \in Turns, ~In(t, {"idle", "lost"})
                 PROVE  LET told == turn[t].told
                            ends == {i \in 1..Len(told) : told[i].kind \in Endings}
                        IN /\ \A i \in ends : i = Len(told) /\ In(t, {"ended"})
                           /\ In(t, {"ended"}) /\ ~turn[t].gone => ends # {}
                           /\ Finished(t) => turn[t].node = "end"
        BY DEF EndsOnceAndTruly
    <2>1. turn[t].stage \in Live \cup {"ended"}
        BY DEF ConversationInv, ConversationTypeOK, Turn, Unborn, Lost, In
    <2>2. CASE turn[t].stage \in Live
        <3>1. RunOK(turn[t], t) /\ ~In(t, {"ended"})
            BY <2>2 DEF ConversationInv, RunInv, In, Live
        <3> QED BY <3>1 DEF RunOK, Endings, Finished
    <2>3. CASE turn[t].stage = "ended"
        <3>1. EndOK(turn[t], t) /\ In(t, {"ended"})
            BY <2>3 DEF ConversationInv, RunInv, In
        <3>2. [kind |-> "done"].kind \in Endings
            BY DEF Endings
        <3> QED BY <3>1, <3>2 DEF EndOK, Finished
    <2> QED BY <2>1, <2>2, <2>3
<1> QED BY <1>1, ConversationInvHolds, PTL

(* The CLI never leaves a turn that is done without its answer, nor shows    *)
(* it twice or another turn's: what it reads back is what this turn left.    *)
THEOREM CliShowsAnswers == ConversationSafe => []CliShowsTheAnswer
<1>1. ConversationInv => CliShowsTheAnswer
    <2> SUFFICES ASSUME ConversationInv, NEW t \in Turns, Finished(t),
                        turn[t].mode \in {"invoke", "stream"}
                 PROVE  LET told == turn[t].told
                            answer == [turn |-> t, kind |-> "answer"]
                            texts == {i \in 1..Len(told) : told[i].kind \notin Endings}
                        IN /\ \E i \in texts : told[i].message = answer
                           /\ \A i \in texts : told[i].message.turn = t
                           /\ \A i, j \in texts :
                                 told[i].message = answer /\ told[j].message = answer => i = j
        BY DEF CliShowsTheAnswer
    <2>1. EndOK(turn[t], t)
        BY DEF ConversationInv, RunInv, Finished
    <2>2. [kind |-> "done"].kind \in Endings
        BY DEF Endings
    <2> QED BY <2>1, <2>2 DEF EndOK, Finished
<1> QED BY <1>1, ConversationInvHolds, PTL
=============================================================================
