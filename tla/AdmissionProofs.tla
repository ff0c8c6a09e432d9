-------------------------- MODULE AdmissionProofs --------------------------
(***************************************************************************)
(* Theorems about Admission, for any number of agents and messages, any     *)
(* policy of the chat and any wirings.                                      *)
(***************************************************************************)
EXTENDS Admission, WellFoundedInduction, TLAPS

\* What is in flight or held for a decision has arrived, and asks for an agent of the chat.
HeldArrived ==
    /\ \A r \in routes : r.m \in arrived
    /\ \A q \in asks : q.m \in arrived /\ q.a \in wired
    /\ \A q \in senderRow : q.m \in arrived /\ q.a \in wired
    /\ chanAsks \subseteq arrived
    /\ \A q \in chanRow : q.m \in arrived

Invariant == TypeOK /\ HeldArrived /\ TriggersAreAdmitted

SenderRow == [m : Message, a : Agent, card : Card]
ChanRow == [m : Mentions, card : Card]

-----------------------------------------------------------------------------
\* A nonempty set of naturals has a least element.
LEMMA MinIn ==
    ASSUME NEW S \in SUBSET Nat, S # {}
    PROVE  Min(S) \in S /\ \A i \in S : Min(S) <= i
<1>. DEFINE R == OpToRel(<, Nat)
<1>1. IsWellFoundedOn(R, Nat)
  BY NatLessThanWellFounded
<1>. HIDE DEF R
<1>2. PICK k \in S : \A i \in S : ~ (<<i, k>> \in R)
  BY <1>1, WFMin
<1>3. \A i \in S : ~(i < k)
  BY <1>2 DEF R, OpToRel
<1>4. \A i \in S : k <= i
  BY <1>3
<1>. QED
  BY <1>4 DEF Min

\* A row of a table that holds one at most.
LEMMA RowTyped ==
    ASSUME NEW S, NEW T \in AtMostOne(S), NEW q \in T
    PROVE  q \in S /\ T = {q}
BY DEF AtMostOne, NoRow

\* The rows that are held for a decision.
LEMMA HeldTyped ==
    ASSUME Invariant
    PROVE  /\ senderRow \in AtMostOne(SenderRow) /\ chanRow \in AtMostOne(ChanRow)
           /\ \A q \in senderRow : /\ q \in SenderRow /\ senderRow = {q}
                                   /\ q.m \in Message /\ q.a \in Agent
                                   /\ q.m \in arrived /\ q.a \in wired
           /\ \A q \in chanRow : /\ q \in ChanRow /\ chanRow = {q}
                                 /\ q.m \in Message /\ q.m \in arrived
<1>1. senderRow \in AtMostOne(SenderRow) /\ chanRow \in AtMostOne(ChanRow)
  BY DEF Invariant, TypeOK, SenderRow, ChanRow
<1>2. \A q \in senderRow : q \in SenderRow /\ senderRow = {q}
  BY <1>1, RowTyped
<1>3. \A q \in chanRow : q \in ChanRow /\ chanRow = {q}
  BY <1>1, RowTyped
<1>4. \A q \in SenderRow : q.m \in Message /\ q.a \in Agent
  BY DEF SenderRow
<1>5. \A q \in ChanRow : q.m \in Message
  BY ConstantsAssumption DEF ChanRow
<1>. QED
  BY <1>1, <1>2, <1>3, <1>4, <1>5 DEF Invariant, HeldArrived

\* The invariant holds initially.
LEMMA InitInvariant == Init => Invariant
<1>1. SUFFICES ASSUME Init PROVE Invariant
  OBVIOUS
<1>2. 1 \in Agent
  BY ConstantsAssumption DEF Agent
<1>3. ConnectWiring \in Wiring
  BY ConstantsAssumption DEF ConnectWiring, Wiring
<1>4. wiring \in [Agent -> Wiring]
  BY <1>1, <1>3 DEF Init
<1>5. groups \in (SUBSET Agent) \ {{}} /\ wired \subseteq groups
  BY <1>1, <1>2 DEF Init
<1>6. NoRow \in AtMostOne([m : Message, a : Agent, card : Card])
      /\ NoRow \in AtMostOne([m : Mentions, card : Card])
  BY DEF AtMostOne
<1>7. command \subseteq Message /\ policy \in {"strict", "request_approval", "public"}
  BY <1>1, ConstantsAssumption DEF Init
<1>8. replays \in 0 .. MaxReplays /\ crashes \in 0 .. MaxCrashes
  BY <1>1, ConstantsAssumption DEF Init
<1>9. /\ rows \in [Message \X Agent -> {"none", "context", "trigger"}]
      /\ \A m \in Message, a \in Agent : rows[m, a] = "none"
  BY <1>1 DEF Init
<1>10. TypeOK
  BY <1>1, <1>4, <1>5, <1>6, <1>7, <1>8, <1>9 DEF Init, TypeOK
<1>. QED
  BY <1>1, <1>9, <1>10 DEF Init, Invariant, HeldArrived, NoRow, TriggersAreAdmitted

-----------------------------------------------------------------------------
\* What reaches the router: a message of the platform, and the delivery adapter.
LEMMA ArriveInvariant ==
    ASSUME Invariant, (\E m \in Message : Arrive(m)) \/ SetAdapter \/ UNCHANGED vars
    PROVE  Invariant'
<1>1. UNCHANGED <<chatVars, session, rows, humanVars, boundVars, promised>>
  BY DEF Arrive, SetAdapter, vars
<1>2. arrived \subseteq arrived' /\ arrived' \subseteq Message /\ adapter' \in BOOLEAN
  BY DEF Arrive, SetAdapter, vars, Invariant, TypeOK
<1>3. routes' \subseteq Route /\ (\A r \in routes' : r.todo \subseteq wired /\ r.m \in arrived')
  <2>1. CASE UNCHANGED <<routes, arrived>>
    BY <2>1 DEF Invariant, TypeOK, HeldArrived
  <2>2. CASE \E m \in Message : Arrive(m)
    <3>1. PICK m \in Message : Arrive(m)
      BY <2>2
    <3>2. Fanout(m, 0) \in Route /\ Fanout(m, 0).todo = {} /\ Fanout(m, 0).m = m
      BY ConstantsAssumption DEF Fanout, Route
    <3>. QED
      BY <3>1, <3>2 DEF Arrive, Invariant, TypeOK, HeldArrived
  <2>. QED
    BY <2>1, <2>2 DEF SetAdapter, vars
<1>. USE DEF Invariant, chatVars, humanVars, boundVars
<1>4. TypeOK'
  BY <1>1, <1>2, <1>3 DEF TypeOK
<1>5. HeldArrived'
  BY <1>1, <1>2, <1>3 DEF HeldArrived
<1>6. TriggersAreAdmitted'
  BY <1>1 DEF TriggersAreAdmitted
<1>. QED
  BY <1>4, <1>5, <1>6

\* The agent the fan-out comes to next is one that takes the message.
LEMMA NextTaker ==
    ASSUME TypeOK, NEW r \in routes, Takers(r) # {}
    PROVE  Min(Takers(r)) \in Takers(r) /\ Min(Takers(r)) \in wired
<1>1. Takers(r) \subseteq wired
  BY DEF TypeOK, Takers, Todo
<1>2. wired \subseteq Agent
  BY DEF TypeOK
<1>3. Agent \subseteq Nat
  BY DEF Agent
<1>4. Takers(r) \in SUBSET Nat
  BY <1>1, <1>2, <1>3
<1>. QED
  BY <1>1, <1>4, MinIn

\* A fan-out of a chat with no agent ends.
LEMMA UnwiredInvariant ==
    ASSUME Invariant, NEW r \in routes, Unwired(r)
    PROVE  Invariant'
<1>. USE DEF Invariant, chatVars, boundVars
<1>1. UNCHANGED <<chatVars, session, rows, adapter, arrived, asks, senderRow, chanRow, naming,
                  boundVars, promised>>
  BY DEF Unwired
<1>2. routes' \subseteq routes
  BY DEF Unwired
<1>3. chanAsks' \subseteq Mentions /\ chanAsks' \subseteq arrived
  BY DEF Unwired, TypeOK, HeldArrived
<1>4. TypeOK'
  BY <1>1, <1>2, <1>3 DEF TypeOK
<1>5. HeldArrived'
  BY <1>1, <1>2, <1>3 DEF HeldArrived
<1>6. TriggersAreAdmitted'
  BY <1>1 DEF TriggersAreAdmitted
<1>. QED
  BY <1>4, <1>5, <1>6

\* The gate asks for agents of the chat.
LEMMA AskedTyped ==
    ASSUME Invariant, NEW r \in routes, NEW last
    PROVE  /\ Asked(r, last) \subseteq [m : Message, a : Agent, n : 0 .. MaxReplays]
           /\ \A q \in Asked(r, last) : q.m \in arrived /\ q.a \in wired
<1>1. r \in Route /\ Todo(r) \subseteq wired /\ r.m \in arrived
  BY DEF Invariant, TypeOK, HeldArrived, Todo
<1>2. wired \subseteq Agent
  BY DEF Invariant, TypeOK
<1>3. r.m \in Message /\ r.n \in 0 .. MaxReplays
  BY <1>1 DEF Route
<1>4. ASSUME NEW q \in Asked(r, last)
      PROVE  \E a \in Todo(r) : q = [m |-> r.m, a |-> a, n |-> r.n]
  BY DEF Asked, Passed
<1>. QED
  BY <1>1, <1>2, <1>3, <1>4

\* A fan-out goes on to the next agent that takes the message: what it stores there as a
\* trigger has passed the gates of that agent.
LEMMA FanOnInvariant ==
    ASSUME Invariant, NEW r \in routes, FanOn(r)
    PROVE  Invariant'
<1>. USE DEF Invariant, chatVars, boundVars
<1>1. UNCHANGED <<chatVars, adapter, arrived, senderRow, chanAsks, chanRow, naming, boundVars,
                  promised>>
  BY DEF FanOn
<1>2. /\ asks' \subseteq [m : Message, a : Agent, n : 0 .. MaxReplays]
      /\ \A q \in asks' : q.m \in arrived /\ q.a \in wired
  <2>1. \E last : asks' = asks \cup Asked(r, last)
    BY DEF FanOn
  <2>. QED
    BY <2>1, AskedTyped DEF TypeOK, HeldArrived
<1>3. r \in Route /\ r.m \in arrived /\ r.m \in Message
  BY DEF TypeOK, HeldArrived, Route
<1>4. CASE Takers(r) = {}
  <2>1. routes' \subseteq routes /\ UNCHANGED <<session, rows>>
    BY <1>4 DEF FanOn
  <2>2. TypeOK'
    BY <1>1, <1>2, <2>1 DEF TypeOK
  <2>3. HeldArrived'
    BY <1>1, <1>2, <2>1 DEF HeldArrived
  <2>4. TriggersAreAdmitted'
    BY <1>1, <2>1 DEF TriggersAreAdmitted
  <2>. QED
    BY <2>2, <2>3, <2>4
<1>5. CASE Takers(r) # {}
  <2>1. PICK a \in wired : a \in Takers(r) /\ DeliverTo(r, a)
    BY <1>5, NextTaker DEF FanOn
  <2>2. session' = session \cup {a}
    BY <2>1 DEF DeliverTo
  <2>3. \/ rows' = rows
        \/ /\ rows' = [rows EXCEPT ![<<r.m, a>>] = "trigger"] /\ Triggers(a, r.m)
        \/ rows' = [rows EXCEPT ![<<r.m, a>>] = "context"]
    BY <2>1 DEF DeliverTo
  <2>4. a \in Agent
    BY <2>1 DEF TypeOK
  <2>5. routes' \subseteq Route /\ \A q \in routes' : q.todo \subseteq wired /\ q.m \in arrived
    <3>. DEFINE todo == Todo(r) \ (Passed(r, a) \cup {a})
                on == [r EXCEPT !.fresh = FALSE, !.todo = todo]
    <3>1. todo \subseteq wired /\ todo \subseteq Agent
      BY DEF Todo, TypeOK
    <3>2. on \in Route /\ on.todo \subseteq wired /\ on.m = r.m
      <4>. HIDE DEF todo
      <4>. QED
        BY <1>3, <3>1 DEF Route
    <3>3. routes' \subseteq routes \cup {on}
      BY <2>1 DEF DeliverTo
    <3>. HIDE DEF on
    <3>. QED
      BY <1>3, <3>2, <3>3 DEF TypeOK, HeldArrived
  <2>6. /\ rows' \in [Message \X Agent -> {"none", "context", "trigger"}]
        /\ \A m \in Message, b \in Agent : rows'[m, b] # "none" => m \in arrived /\ b \in session'
    BY <1>3, <2>2, <2>3, <2>4 DEF TypeOK
  <2>7. TypeOK'
    BY <1>1, <1>2, <2>1, <2>2, <2>5, <2>6 DEF TypeOK
  <2>8. HeldArrived'
    BY <1>1, <1>2, <2>5 DEF HeldArrived
  <2>9. TriggersAreAdmitted'
    BY <1>1, <1>3, <2>3, <2>4 DEF TypeOK, TriggersAreAdmitted, Triggers, Access, Scope
  <2>. QED
    BY <2>7, <2>8, <2>9
<1>. QED
  BY <1>4, <1>5

-----------------------------------------------------------------------------
\* The requests to an approver: what is asked for stays a message that arrived.
LEMMA AskInvariant ==
    ASSUME Invariant, Ask
    PROVE  Invariant'
<1>. USE DEF Invariant, chatVars, boundVars
<1>1. UNCHANGED <<chatVars, session, rows, adapter, arrived, routes, naming, boundVars, promised>>
      /\ asks' \subseteq asks /\ chanAsks' \subseteq chanAsks
  BY DEF Ask, AskStored, AskFails, ChanAskStored, ChanAskFails, SenderCard, ChanCard
<1>2. senderRow' \in AtMostOne(SenderRow) /\ \A q \in senderRow' : q.m \in arrived /\ q.a \in wired
  <2>0. senderRow \in AtMostOne(SenderRow) /\ \A q \in senderRow : q.m \in arrived /\ q.a \in wired
    BY DEF TypeOK, HeldArrived, SenderRow
  <2>1. CASE UNCHANGED senderRow
    BY <2>0, <2>1
  <2>2. CASE \E q \in asks : AskStored(q)
    <3>1. PICK q \in asks : AskStored(q)
      BY <2>2
    <3>. DEFINE new == [m |-> q.m, a |-> q.a, card |-> IF adapter THEN "due" ELSE "gone"]
    <3>2. new \in SenderRow /\ new.m \in arrived /\ new.a \in wired
      BY DEF TypeOK, HeldArrived, SenderRow, Card
    <3>3. senderRow' = senderRow \/ senderRow' = {new}
      BY <3>1 DEF AskStored
    <3>. HIDE DEF new
    <3>. QED
      BY <2>0, <3>2, <3>3 DEF AtMostOne
  <2>3. CASE \E c \in {"shown", "gone"} : SenderCard(c)
    <3>1. PICK c \in {"shown", "gone"}, q \in senderRow : senderRow' = {[q EXCEPT !.card = c]}
      BY <2>3 DEF SenderCard
    <3>2. q \in SenderRow
      BY <2>0, RowTyped
    <3>3. [q EXCEPT !.card = c] \in SenderRow
          /\ [q EXCEPT !.card = c].m = q.m /\ [q EXCEPT !.card = c].a = q.a
      BY <3>2 DEF SenderRow, Card
    <3>. QED
      BY <2>0, <3>1, <3>3 DEF AtMostOne
  <2>. QED
    BY <2>1, <2>2, <2>3 DEF Ask, AskFails, ChanAskStored, ChanAskFails, ChanCard
<1>3. chanRow' \in AtMostOne(ChanRow) /\ \A q \in chanRow' : q.m \in arrived
  <2>0. chanRow \in AtMostOne(ChanRow) /\ \A q \in chanRow : q.m \in arrived
    BY DEF TypeOK, HeldArrived, ChanRow
  <2>1. CASE UNCHANGED chanRow
    BY <2>0, <2>1
  <2>2. CASE \E m \in chanAsks : ChanAskStored(m)
    <3>1. PICK m \in chanAsks : ChanAskStored(m)
      BY <2>2
    <3>. DEFINE new == [m |-> m, card |-> IF adapter THEN "due" ELSE "gone"]
    <3>2. new \in ChanRow /\ new.m \in arrived
      BY DEF TypeOK, HeldArrived, ChanRow, Card
    <3>3. chanRow' = chanRow \/ chanRow' = {new}
      BY <3>1 DEF ChanAskStored
    <3>. HIDE DEF new
    <3>. QED
      BY <2>0, <3>2, <3>3 DEF AtMostOne
  <2>3. CASE \E c \in {"shown", "gone"} : ChanCard(c)
    <3>1. PICK c \in {"shown", "gone"}, q \in chanRow : chanRow' = {[q EXCEPT !.card = c]}
      BY <2>3 DEF ChanCard
    <3>2. q \in ChanRow
      BY <2>0, RowTyped
    <3>3. [q EXCEPT !.card = c] \in ChanRow /\ [q EXCEPT !.card = c].m = q.m
      BY <3>2 DEF ChanRow, Card
    <3>. QED
      BY <2>0, <3>1, <3>3 DEF AtMostOne
  <2>. QED
    BY <2>1, <2>2, <2>3 DEF Ask, AskStored, AskFails, ChanAskFails, SenderCard
<1>4. TypeOK'
  BY <1>1, <1>2, <1>3 DEF TypeOK, SenderRow, ChanRow
<1>5. HeldArrived'
  BY <1>1, <1>2, <1>3 DEF HeldArrived
<1>6. TriggersAreAdmitted'
  BY <1>1 DEF TriggersAreAdmitted
<1>. QED
  BY <1>4, <1>5, <1>6

\* What a decision that replays a message adds to the fan-outs.
LEMMA ReplayTyped ==
    ASSUME Invariant, NEW m \in Message, m \in arrived, NEW a \in Agent, Replay(m, a)
    PROVE  /\ replays' \in 0 .. MaxReplays /\ promised' \subseteq Promise
           /\ routes' \subseteq Route
           /\ \A r \in routes' : r.todo \subseteq wired /\ r.m \in arrived
<1>1. replays' = replays + 1 /\ replays' \in 0 .. MaxReplays
  <2>1. replays \in 0 .. MaxReplays /\ MaxReplays \in Nat
    BY ConstantsAssumption DEF Invariant, TypeOK
  <2>2. replays < MaxReplays /\ replays' = replays + 1
    BY DEF Replay
  <2>. QED
    BY <2>1, <2>2
<1>2. promised' \subseteq Promise
  <2>1. PICK clear \in BOOLEAN : promised' = promised
                                 \/ promised' = promised \cup {[m |-> m, a |-> a, clear |-> clear]}
    BY DEF Replay
  <2>. DEFINE new == [m |-> m, a |-> a, clear |-> clear]
  <2>2. new \in Promise
    BY DEF Promise
  <2>3. promised \subseteq Promise
    BY DEF Invariant, TypeOK
  <2>. HIDE DEF new
  <2>4. promised' = promised \/ promised' = promised \cup {new}
    BY <2>1 DEF new
  <2>. QED
    BY <2>2, <2>3, <2>4
<1>3. Fanout(m, replays + 1) \in Route /\ Fanout(m, replays + 1).todo = {}
      /\ Fanout(m, replays + 1).m = m
  BY <1>1 DEF Fanout, Route
<1>4. routes' = routes \cup {Fanout(m, replays + 1)}
  BY DEF Replay
<1>5. routes' \subseteq Route /\ \A r \in routes' : r.todo \subseteq wired /\ r.m \in arrived
  BY <1>3, <1>4 DEF Invariant, TypeOK, HeldArrived
<1>. QED
  BY <1>1, <1>2, <1>5

\* An agent is wired to the chat: the sender is a member of it from then on.
LEMMA WireInvariant ==
    ASSUME Invariant, NEW q \in chanRow, NEW a \in Agent, Wire(q, a),
           groups' = groups \cup {a}, naming' \in BOOLEAN,
           UNCHANGED <<command, policy, denied, session, rows, adapter, arrived, asks, senderRow,
                       chanAsks, crashes>>
    PROVE  Invariant'
<1>. USE DEF Invariant
<1>1. q.m \in Message /\ q.m \in arrived
  BY HeldTyped
<1>2. /\ wired' = wired \cup {a} /\ member' = member \cup {a} /\ chanRow' = NoRow
      /\ wiring' = [wiring EXCEPT ![a] = ConnectWiring] /\ Replay(q.m, a)
  BY DEF Wire
<1>3. /\ replays' \in 0 .. MaxReplays /\ promised' \subseteq Promise
      /\ routes' \subseteq Route
      /\ \A r \in routes' : r.todo \subseteq wired /\ r.m \in arrived
  BY <1>1, <1>2, ReplayTyped
<1>4. wiring' \in [Agent -> Wiring]
  BY <1>2, ConstantsAssumption DEF TypeOK, ConnectWiring, Wiring
<1>5. chanRow' \in AtMostOne([m : Mentions, card : Card])
  BY <1>2 DEF AtMostOne
<1>6. groups' \in (SUBSET Agent) \ {{}} /\ wired' \subseteq groups' /\ member' \subseteq wired'
      /\ wired \subseteq wired'
  BY <1>2 DEF TypeOK
<1>7. TypeOK'
  BY <1>3, <1>4, <1>5, <1>6 DEF TypeOK
<1>8. HeldArrived'
  BY <1>2, <1>3, <1>6 DEF HeldArrived, NoRow
<1>9. TriggersAreAdmitted'
  BY <1>2 DEF TypeOK, TriggersAreAdmitted
<1>. QED
  BY <1>7, <1>8, <1>9

\* The answers to the two cards, and the name for a new agent.
LEMMA HumanInvariant ==
    ASSUME Invariant, Human
    PROVE  Invariant'
<1>1. ASSUME Allow PROVE Invariant'
  <2>1. PICK q \in senderRow : /\ member' = member \cup {q.a} /\ Replay(q.m, q.a)
                               /\ UNCHANGED <<command, policy, wiring, groups, wired, denied>>
    BY <1>1 DEF Allow
  <2>2. UNCHANGED <<session, rows, adapter, arrived, asks, chanAsks, chanRow, naming, crashes>>
        /\ senderRow' = NoRow
    BY <1>1 DEF Allow
  <2>3. q.m \in Message /\ q.a \in Agent /\ q.m \in arrived /\ q.a \in wired
    BY HeldTyped
  <2>4. /\ replays' \in 0 .. MaxReplays /\ promised' \subseteq Promise
        /\ routes' \subseteq Route
        /\ \A r \in routes' : r.todo \subseteq wired /\ r.m \in arrived
    BY <2>1, <2>3, ReplayTyped
  <2>5. TypeOK'
    BY <2>1, <2>2, <2>3, <2>4 DEF Invariant, TypeOK, AtMostOne
  <2>6. HeldArrived'
    BY <2>1, <2>2, <2>4 DEF Invariant, HeldArrived, NoRow
  <2>7. TriggersAreAdmitted'
    BY <2>1, <2>2 DEF Invariant, TriggersAreAdmitted
  <2>. QED
    BY <2>5, <2>6, <2>7 DEF Invariant
<1>2. ASSUME NEW a \in Agent, Connect(a) PROVE Invariant'
  <2>1. CASE a \notin wired
    <3>1. PICK q \in chanRow : Wire(q, a)
      BY <1>2, <2>1 DEF Connect
    <3>. QED
      BY <1>2, <3>1, WireInvariant DEF Connect, Invariant, TypeOK
  <2>2. CASE a \in wired
    <3>1. PICK q \in chanRow, c \in {"shown", "gone"} : chanRow' = {[q EXCEPT !.card = c]}
      BY <1>2, <2>2 DEF Connect
    <3>2. q \in ChanRow /\ q.m \in arrived
      BY HeldTyped
    <3>3. [q EXCEPT !.card = c] \in ChanRow /\ [q EXCEPT !.card = c].m = q.m
      BY <3>2 DEF ChanRow, Card
    <3>4. chanRow' \in AtMostOne(ChanRow) /\ \A x \in chanRow' : x.m \in arrived
      BY <3>1, <3>2, <3>3 DEF AtMostOne
    <3>5. UNCHANGED <<command, policy, groups, denied, session, rows, adapter, arrived, asks,
                      senderRow, chanAsks, naming, crashes, wired, wiring, member, replays,
                      routes, promised>>
      BY <1>2, <2>2 DEF Connect
    <3>. QED
      BY <3>4, <3>5 DEF Invariant, TypeOK, HeldArrived, TriggersAreAdmitted, ChanRow
  <2>. QED
    BY <2>1, <2>2
<1>3. ASSUME NewAgent PROVE Invariant'
  <2>1. PICK q \in chanRow, c \in {"shown", "gone"} : chanRow' = {[q EXCEPT !.card = c]}
    BY <1>3 DEF NewAgent
  <2>2. q \in ChanRow /\ q.m \in arrived
    BY HeldTyped
  <2>3. [q EXCEPT !.card = c] \in ChanRow /\ [q EXCEPT !.card = c].m = q.m
    BY <2>2 DEF ChanRow, Card
  <2>4. chanRow' \in AtMostOne(ChanRow) /\ \A x \in chanRow' : x.m \in arrived
    BY <2>1, <2>2, <2>3 DEF AtMostOne
  <2>. QED
    BY <1>3, <2>4 DEF NewAgent, Invariant, TypeOK, HeldArrived, TriggersAreAdmitted, ChanRow,
       chatVars, boundVars
<1>4. ASSUME NameReply PROVE Invariant'
  <2>1. CASE UNCHANGED <<groups, wired, wiring, member, chanRow, replays, routes, promised>>
    BY <1>4, <2>1 DEF NameReply, Invariant, TypeOK, HeldArrived, TriggersAreAdmitted
  <2>2. CASE \E q \in chanRow, a \in Agent \ groups : groups' = groups \cup {a} /\ Wire(q, a)
    BY <1>4, <2>2, WireInvariant DEF NameReply
  <2>. QED
    BY <1>4, <2>1, <2>2 DEF NameReply
<1>5. ASSUME Deny \/ RejectChannel \/ EmptyReply PROVE Invariant'
  BY <1>5 DEF Deny, RejectChannel, EmptyReply, Invariant, TypeOK, HeldArrived,
     TriggersAreAdmitted, chatVars, boundVars, AtMostOne, NoRow
<1>. QED
  BY <1>1, <1>2, <1>3, <1>4, <1>5 DEF Human

\* A restart keeps the rows, and what is a row of none stays one.
LEMMA RestartInvariant ==
    ASSUME Invariant, Restart
    PROVE  Invariant'
<1>1. /\ UNCHANGED <<chatVars, session, rows, arrived, replays>>
      /\ adapter' = FALSE /\ routes' = {} /\ asks' = {} /\ chanAsks' = {} /\ naming' = FALSE
      /\ promised' = {} /\ crashes' \in 0 .. MaxCrashes
  <2>1. crashes \in 0 .. MaxCrashes /\ MaxCrashes \in Nat
    BY ConstantsAssumption DEF Invariant, TypeOK
  <2>. QED
    BY <2>1 DEF Restart
<1>2. senderRow' \in AtMostOne(SenderRow) /\ \A q \in senderRow' : q.m \in arrived /\ q.a \in wired
  <2>0. senderRow \in AtMostOne(SenderRow) /\ senderRow' = Undelivered(senderRow)
    BY DEF Restart, Invariant, TypeOK, SenderRow
  <2>1. CASE senderRow = {}
    BY <2>0, <2>1 DEF Undelivered, AtMostOne, NoRow
  <2>2. CASE senderRow # {}
    <3>1. PICK q \in senderRow : q \in SenderRow /\ senderRow = {q}
      BY <2>0, <2>2, RowTyped
    <3>. DEFINE new == [q EXCEPT !.card = IF @ = "due" THEN "gone" ELSE @]
    <3>2. senderRow' = {new}
      BY <2>0, <3>1 DEF Undelivered
    <3>3. new \in SenderRow /\ new.m = q.m /\ new.a = q.a
      BY <3>1 DEF SenderRow, Card
    <3>. HIDE DEF new
    <3>. QED
      BY <3>1, <3>2, <3>3 DEF AtMostOne, Invariant, HeldArrived
  <2>. QED
    BY <2>1, <2>2
<1>3. chanRow' \in AtMostOne(ChanRow) /\ \A q \in chanRow' : q.m \in arrived
  <2>0. chanRow \in AtMostOne(ChanRow) /\ chanRow' = Undelivered(chanRow)
    BY DEF Restart, Invariant, TypeOK, ChanRow
  <2>1. CASE chanRow = {}
    BY <2>0, <2>1 DEF Undelivered, AtMostOne, NoRow
  <2>2. CASE chanRow # {}
    <3>1. PICK q \in chanRow : q \in ChanRow /\ chanRow = {q}
      BY <2>0, <2>2, RowTyped
    <3>. DEFINE new == [q EXCEPT !.card = IF @ = "due" THEN "gone" ELSE @]
    <3>2. chanRow' = {new}
      BY <2>0, <3>1 DEF Undelivered
    <3>3. new \in ChanRow /\ new.m = q.m
      BY <3>1 DEF ChanRow, Card
    <3>. HIDE DEF new
    <3>. QED
      BY <3>1, <3>2, <3>3 DEF AtMostOne, Invariant, HeldArrived
  <2>. QED
    BY <2>1, <2>2
<1>4. TypeOK'
  BY <1>1, <1>2, <1>3 DEF Invariant, TypeOK, chatVars, SenderRow, ChanRow
<1>5. HeldArrived'
  BY <1>1, <1>2, <1>3 DEF HeldArrived, chatVars
<1>6. TriggersAreAdmitted'
  BY <1>1 DEF Invariant, TriggersAreAdmitted, chatVars
<1>. QED
  BY <1>4, <1>5, <1>6 DEF Invariant

-----------------------------------------------------------------------------
\* The invariant is inductive: what an agent holds as a trigger passed its gates, whatever
\* is wired and decided while the fan-out waits.
THEOREM Invariance == Spec => []Invariant
<1>1. ASSUME Invariant, [Next]_vars PROVE Invariant'
  BY <1>1, ArriveInvariant, UnwiredInvariant, FanOnInvariant, AskInvariant, HumanInvariant,
     RestartInvariant DEF Next
<1>. QED
  BY <1>1, InitInvariant, PTL DEF Spec

\* Every reachable state is well typed: sessions, members and fan-outs are of wired agents.
THEOREM TypeCorrectness == Spec => []TypeOK
BY Invariance, PTL DEF Invariant

\* What wakes an agent was admitted to it, or came to a public chat over a wiring open to
\* all (router.ts, the access and the scope gate).
THEOREM TriggersAdmitted == Spec => []TriggersAreAdmitted
BY Invariance, PTL DEF Invariant

=============================================================================
