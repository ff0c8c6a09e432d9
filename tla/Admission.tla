----------------------------- MODULE Admission -----------------------------
(***************************************************************************)
(* Who may talk to which agent in one group chat: the fan-out of the router *)
(* (router.ts), the access and scope gates, the card that asks an approver  *)
(* to admit an unknown sender, the card that asks which agent a new channel *)
(* goes to, and the replay of the message that was held for the decision    *)
(* (modules/permissions).                                                   *)
(*                                                                          *)
(* One sender who is nobody's member or admin writes in one thread; an agent*)
(* has one session there (an agent-shared session, found by another key, is *)
(* left out).  The agents are numbered in the order of the fan-out.  What   *)
(* runs between two awaits is one step: a fan-out passes over the agents it *)
(* does not deliver to without a pause and awaits each delivery.            *)
(***************************************************************************)
EXTENDS Integers, FiniteSets, FiniteSetsExt

CONSTANTS
    MaxAgents,      \* bound: agent groups
    Message,        \* what the sender writes, each once
    Mentions,       \* the messages that mention the bot
    Commands,       \* which messages may be filtered commands, or admin commands of a
                    \* sender who is no admin: a set of sets
    Policies, Modes,\* bound: policies of the chat and modes of the wirings made by hand
    ConnectMode,    \* engage mode the channel declares for a new wiring
    MaxReplays,     \* bound: decisions that replay a message
    MaxCrashes      \* bound: deaths of the host

ASSUME ConstantsAssumption ==
    /\ MaxAgents \in Nat \ {0} /\ MaxReplays \in Nat /\ MaxCrashes \in Nat
    /\ Mentions \subseteq Message /\ Commands \subseteq SUBSET Message
    /\ Policies \subseteq {"strict", "request_approval", "public"}
    /\ Modes \subseteq {"mention", "sticky", "all"}
    /\ ConnectMode \in {"mention", "sticky", "all"}

Agent == 1 .. MaxAgents
Wiring == [mode : {"mention", "sticky", "all"}, accumulate : BOOLEAN,
           scope : {"all", "known"}]
ConnectWiring == [mode |-> ConnectMode, accumulate |-> TRUE, scope |-> "known"]

VARIABLES
    command,    \* the messages that are such commands
    policy,     \* unknown_sender_policy of the chat
    wiring,     \* the wiring of each agent, once it is wired
    groups,     \* agents that exist
    wired,      \* agents wired to the chat
    denied,     \* denied_at
    member,     \* agents the sender is a member of
    session,    \* agents with a session in the chat
    rows,       \* messages_in of each: "none", "context" (trigger 0), "trigger"
    adapter,    \* the delivery adapter is set
    arrived,    \* messages the platform delivered
    routes,     \* fan-outs in flight
    asks,       \* requestSenderApproval before its row
    senderRow,  \* pending_sender_approvals: {[message, agent, card]} or none
    chanAsks,   \* messages in requestChannelApproval before its row
    chanRow,    \* pending_channel_approvals: {[message, card]} or none
    naming,     \* awaitingNameInput
    replays, crashes,
    promised    \* history: decisions whose replay is to reach an agent

humanVars == <<asks, senderRow, chanAsks, chanRow, naming>>
chatVars == <<command, policy, wiring, groups, wired, denied, member>>
boundVars == <<replays, crashes>>
vars == <<chatVars, session, rows, adapter, arrived, routes, humanVars, boundVars, promised>>

Card == {"due", "shown", "gone"}
Route == [m : Message, n : 0 .. MaxReplays, fresh : BOOLEAN, todo : SUBSET Agent]
NoRow == {}
AtMostOne(S) == {NoRow} \cup {{x} : x \in S}
Promise == [m : Message, a : Agent, clear : BOOLEAN]

TypeOK ==
    /\ command \subseteq Message
    /\ policy \in {"strict", "request_approval", "public"}
    /\ wiring \in [Agent -> Wiring]
    /\ groups \in (SUBSET Agent) \ {{}} /\ wired \subseteq groups /\ denied \in BOOLEAN
    /\ member \subseteq wired /\ session \subseteq wired
    /\ rows \in [Message \X Agent -> {"none", "context", "trigger"}]
    /\ \A m \in Message, a \in Agent : rows[m, a] # "none" => m \in arrived /\ a \in session
    /\ adapter \in BOOLEAN /\ arrived \subseteq Message
    /\ routes \subseteq Route /\ \A r \in routes : r.todo \subseteq wired
    /\ asks \subseteq [m : Message, a : Agent, n : 0 .. MaxReplays]
    /\ senderRow \in AtMostOne([m : Message, a : Agent, card : Card])
    /\ chanAsks \subseteq Mentions
    /\ chanRow \in AtMostOne([m : Mentions, card : Card])
    /\ naming \in BOOLEAN
    /\ replays \in 0 .. MaxReplays /\ crashes \in 0 .. MaxCrashes
    /\ promised \subseteq Promise

(* An installation with an agent; the chat is unwired, or was wired by hand. *)
Init ==
    /\ command \in Commands /\ policy \in Policies
    /\ \/ /\ wired = {} /\ groups = {1}
          /\ wiring = [a \in Agent |-> ConnectWiring]
       \/ /\ wired = Agent /\ groups = Agent
          /\ wiring \in [Agent -> {w \in Wiring : w.mode \in Modes}]
    /\ denied = FALSE /\ member = {} /\ session = {}
    /\ rows = [x \in Message \X Agent |-> "none"]
    /\ adapter = FALSE /\ arrived = {} /\ routes = {}
    /\ asks = {} /\ senderRow = NoRow /\ chanAsks = {} /\ chanRow = NoRow /\ naming = FALSE
    /\ replays = 0 /\ crashes = 0 /\ promised = {}

----------------------------------------------------------------------------
(* The router. *)

Fanout(m, n) == [m |-> m, n |-> n, fresh |-> TRUE, todo |-> {}]

Arrive(m) ==
    /\ m \notin arrived
    /\ arrived' = arrived \cup {m}
    /\ routes' = routes \cup {Fanout(m, 0)}
    /\ UNCHANGED <<chatVars, session, rows, adapter, humanVars, boundVars, promised>>

(* Step 3 of main: adapters take messages before the delivery adapter is set. *)
SetAdapter ==
    /\ adapter = FALSE /\ adapter' = TRUE
    /\ UNCHANGED <<chatVars, session, rows, arrived, routes, humanVars, boundVars, promised>>

(* A fan-out whose chat has no agent: dropped, or escalated. *)
Unwired(r) ==
    /\ r \in routes /\ r.fresh /\ wired = {}
    /\ routes' = routes \ {r}
    /\ chanAsks' = IF r.m \in Mentions /\ denied = FALSE /\ chanRow = NoRow
                   THEN chanAsks \cup {r.m} ELSE chanAsks
    /\ UNCHANGED <<chatVars, session, rows, adapter, arrived, asks, senderRow, chanRow,
                   naming, boundVars, promised>>

Engages(a, m) ==
    \/ wiring[a].mode = "all"
    \/ m \in Mentions
    \/ wiring[a].mode = "sticky" /\ a \in session

Access(a) == policy = "public" \/ a \in member
Scope(a) == wiring[a].scope = "all" \/ a \in member

(* Mutant: the scope of the wiring is not asked for.                          *)
TriggersMutant(a, m) == Engages(a, m) /\ Access(a)

Triggers(a, m) == Engages(a, m) /\ Access(a) /\ Scope(a)
Refuses(a, m) == Engages(a, m) /\ ~(Access(a) /\ Scope(a))

Accumulates(a, m) == wiring[a].accumulate /\ ~Triggers(a, m) /\ ~Refuses(a, m)

Todo(r) == IF r.fresh THEN wired ELSE r.todo
Takers(r) == {a \in Todo(r) : Triggers(a, r.m) \/ Accumulates(a, r.m)}

(* The agents a fan-out passes over before `last`; the gate asks for those it *)
(* refuses, unless a card is already pending.                                *)
Passed(r, last) == {a \in Todo(r) : a < last}
Asked(r, last) ==
    {[m |-> r.m, a |-> a, n |-> r.n] : a \in {b \in Passed(r, last) :
        /\ Engages(b, r.m) /\ ~Access(b)
        /\ policy = "request_approval" /\ senderRow = NoRow}}

(* The command gate and the row, whose id is a key of the session's table:   *)
(* a message the session holds makes the insert throw and ends the fan-out.  *)
DeliverTo(r, a) ==
    LET stored == rows[r.m, a] # "none"
        on == [r EXCEPT !.fresh = FALSE, !.todo = Todo(r) \ (Passed(r, a) \cup {a})]
    IN  /\ session' = session \cup {a}
        /\ rows' = IF r.m \in command \/ stored THEN rows
                   ELSE [rows EXCEPT ![<<r.m, a>>] =
                           IF Triggers(a, r.m) THEN "trigger" ELSE "context"]
        /\ routes' = IF r.m \notin command /\ stored THEN routes \ {r}
                     ELSE (routes \ {r}) \cup {on}

FanOn(r) ==
    /\ r \in routes /\ (r.fresh => wired # {})
    /\ IF Takers(r) = {}
       THEN /\ asks' = asks \cup Asked(r, MaxAgents + 1)
            /\ routes' = routes \ {r}
            /\ UNCHANGED <<session, rows>>
       ELSE LET a == Min(Takers(r))
            IN  asks' = asks \cup Asked(r, a) /\ DeliverTo(r, a)
    /\ UNCHANGED <<chatVars, adapter, arrived, senderRow, chanAsks, chanRow, naming,
                   boundVars, promised>>

----------------------------------------------------------------------------
(* An unknown sender: requestSenderApproval after the await that looks for   *)
(* an approver's DM, and the answer to its card.                             *)

AskFails(q) ==
    /\ q \in asks /\ asks' = asks \ {q}
    /\ UNCHANGED <<chatVars, session, rows, adapter, arrived, routes, senderRow, chanAsks,
                   chanRow, naming, boundVars, promised>>

(* The row is unique for the sender: the insert of a second request throws.  *)
(* Without a delivery adapter the row stays, with no card.                   *)
AskStored(q) ==
    /\ q \in asks /\ asks' = asks \ {q}
    /\ senderRow' = IF senderRow # NoRow THEN senderRow
                    ELSE {[m |-> q.m, a |-> q.a, card |-> IF adapter THEN "due" ELSE "gone"]}
    /\ UNCHANGED <<chatVars, session, rows, adapter, arrived, routes, chanAsks, chanRow,
                   naming, boundVars, promised>>

SenderCard(c) ==
    /\ \E q \in senderRow : q.card = "due" /\ senderRow' = {[q EXCEPT !.card = c]}
    /\ UNCHANGED <<chatVars, session, rows, adapter, arrived, routes, asks, chanAsks,
                   chanRow, naming, boundVars, promised>>

(* A decision to let message m in replays it.  The replay is owed to agent a *)
(* unless m is a command; it is clear when no agent up to a holds m.         *)
Replay(m, a) ==
    /\ replays < MaxReplays /\ replays' = replays + 1
    /\ routes' = routes \cup {Fanout(m, replays + 1)}
    /\ promised' = IF m \in command THEN promised
                   ELSE promised \cup
                        {[m |-> m, a |-> a,
                          clear |-> \A b \in wired' : b <= a => rows[m, b] = "none"]}

(* Mutant: the replay goes off without the membership.                        *)
AllowMutant ==
    /\ UNCHANGED chatVars
    /\ \E q \in senderRow : q.card = "shown" /\ Replay(q.m, q.a)
    /\ senderRow' = NoRow
    /\ UNCHANGED <<session, rows, adapter, arrived, asks, chanAsks, chanRow, naming, crashes>>

Allow ==
    /\ \E q \in senderRow :
           /\ q.card = "shown"
           /\ member' = member \cup {q.a}
           /\ UNCHANGED <<command, policy, wiring, groups, wired, denied>>
           /\ Replay(q.m, q.a)
    /\ senderRow' = NoRow
    /\ UNCHANGED <<session, rows, adapter, arrived, asks, chanAsks, chanRow, naming, crashes>>

Deny ==
    /\ \E q \in senderRow : q.card = "shown"
    /\ senderRow' = NoRow
    /\ UNCHANGED <<chatVars, session, rows, adapter, arrived, routes, asks, chanAsks,
                   chanRow, naming, boundVars, promised>>

----------------------------------------------------------------------------
(* A new channel: requestChannelApproval after the awaits that look for the   *)
(* channel's name and an approver's DM, and the answers to its card.          *)

ChanAskFails(m) ==
    /\ m \in chanAsks /\ chanAsks' = chanAsks \ {m}
    /\ UNCHANGED <<chatVars, session, rows, adapter, arrived, routes, asks, senderRow,
                   chanRow, naming, boundVars, promised>>

ChanAskStored(m) ==
    /\ m \in chanAsks /\ chanAsks' = chanAsks \ {m}
    /\ chanRow' = IF chanRow # NoRow THEN chanRow
                  ELSE {[m |-> m, card |-> IF adapter THEN "due" ELSE "gone"]}
    /\ UNCHANGED <<chatVars, session, rows, adapter, arrived, routes, asks, senderRow,
                   naming, boundVars, promised>>

ChanCard(c) ==
    /\ \E q \in chanRow : q.card = "due" /\ chanRow' = {[q EXCEPT !.card = c]}
    /\ UNCHANGED <<chatVars, session, rows, adapter, arrived, routes, asks, senderRow,
                   chanAsks, naming, boundVars, promised>>

(* Mutant: the sender becomes a member of an agent that is not wired.         *)
WireMutant(q, a) ==
    /\ member' = member \cup {a} /\ chanRow' = NoRow
    /\ UNCHANGED <<wired, wiring>> /\ Replay(q.m, a)

(* wireApprovedChannel: the wiring, the membership of the sender, the row,   *)
(* the replay.                                                               *)
Wire(q, a) ==
    /\ wired' = wired \cup {a} /\ wiring' = [wiring EXCEPT ![a] = ConnectWiring]
    /\ member' = member \cup {a}
    /\ chanRow' = NoRow
    /\ Replay(q.m, a)

(* A pair that is wired already makes the insert throw: the row stays.       *)
Connect(a) ==
    /\ a \in groups
    /\ \E q \in chanRow :
           /\ q.card = "shown"
           /\ IF a \notin wired
              THEN Wire(q, a)
              ELSE /\ \E c \in {"shown", "gone"} : chanRow' = {[q EXCEPT !.card = c]}
                   /\ UNCHANGED <<wired, wiring, member, replays, routes, promised>>
    /\ UNCHANGED <<command, policy, groups, denied, session, rows, adapter, arrived, asks, senderRow,
                   chanAsks, naming, crashes>>

RejectChannel ==
    /\ \E q \in chanRow : q.card = "shown"
    /\ chanRow' = NoRow /\ denied' = TRUE
    /\ UNCHANGED <<command, policy, wiring, groups, wired, member, session, rows, adapter, arrived,
                   routes, asks, senderRow, chanAsks, naming, boundVars, promised>>

(* The click takes the buttons off the card, unless the edit fails; the      *)
(* prompt for the name may not get through.                                  *)
NewAgent ==
    /\ adapter
    /\ \E q \in chanRow, c \in {"shown", "gone"} :
           q.card = "shown" /\ chanRow' = {[q EXCEPT !.card = c]}
    /\ naming' \in BOOLEAN
    /\ UNCHANGED <<chatVars, session, rows, adapter, arrived, routes, asks, senderRow,
                   chanAsks, boundVars, promised>>

(* The approver's next DM, which the interceptor consumes.                   *)
NameReply ==
    /\ naming /\ naming' = FALSE
    /\ \/ \E q \in chanRow, a \in Agent \ groups :
              /\ \A b \in Agent : b < a => b \in groups
              /\ groups' = groups \cup {a}
              /\ Wire(q, a)
       \/ /\ chanRow = NoRow
          /\ UNCHANGED <<groups, wired, wiring, member, chanRow, replays, routes, promised>>
    /\ UNCHANGED <<command, policy, denied, session, rows, adapter, arrived, asks, senderRow,
                   chanAsks, crashes>>

EmptyReply ==
    /\ naming /\ naming' = FALSE
    /\ UNCHANGED <<chatVars, session, rows, adapter, arrived, routes, asks, senderRow,
                   chanAsks, chanRow, boundVars, promised>>

Undelivered(rowsOf) == {[q EXCEPT !.card = IF @ = "due" THEN "gone" ELSE @] : q \in rowsOf}

Restart ==
    /\ crashes < MaxCrashes /\ crashes' = crashes + 1
    /\ adapter' = FALSE /\ routes' = {} /\ asks' = {} /\ chanAsks' = {} /\ naming' = FALSE
    /\ senderRow' = Undelivered(senderRow) /\ chanRow' = Undelivered(chanRow)
    /\ promised' = {}
    /\ UNCHANGED <<chatVars, session, rows, arrived, replays>>

Human == Allow \/ Deny \/ (\E a \in Agent : Connect(a)) \/ RejectChannel \/ NewAgent
         \/ NameReply \/ EmptyReply
Ask == \/ \E q \in asks : AskStored(q) \/ AskFails(q)
       \/ \E m \in chanAsks : ChanAskStored(m) \/ ChanAskFails(m)
       \/ \E c \in {"shown", "gone"} : SenderCard(c) \/ ChanCard(c)

Next ==
    \/ \E m \in Message : Arrive(m)
    \/ SetAdapter
    \/ \E r \in routes : Unwired(r) \/ FanOn(r)
    \/ Ask \/ Human \/ Restart

Spec == Init /\ [][Next]_vars

(* A fan-out that runs gets its next turn of the event loop: wakeContainer,   *)
(* the only await in it, always comes back.                                   *)
FairSpec == Spec /\ WF_vars(\E r \in routes : Unwired(r) \/ FanOn(r))

----------------------------------------------------------------------------
(* What wakes an agent is a message of a sender an approver admitted to that  *)
(* agent, or one to a public chat on a wiring open to all: neither an         *)
(* admission to another agent of the chat nor a replay lets it in.            *)
TriggersAreAdmitted ==
    \A m \in Message, a \in Agent :
        rows[m, a] = "trigger" =>
            a \in member \/ (policy = "public" /\ wiring[a].scope = "all")

(* A message that was held for a decision reaches the agent it was let in to, *)
(* as a trigger, if no agent the fan-out comes to first holds it already and  *)
(* the host does not die on the way.                                          *)
ApprovedIsDelivered ==
    \A m \in Message, a \in Agent :
        [m |-> m, a |-> a, clear |-> TRUE] \in promised
            ~> (rows[m, a] = "trigger" \/ promised = {})

-----------------------------------------------------------------------------
(* Said of the code by comments or documents, and refuted by TLC: no run    *)
(* claims what follows (README.md, "Disagreements met").                    *)

(* "the second routing attempt passes the gate because the user is now a      *)
(* member" (sender-approval.ts), whoever else got the message before.         *)
ReplayReaches ==
    \A m \in Message, a \in Agent :
        [m |-> m, a |-> a, clear |-> FALSE] \in promised
            ~> (rows[m, a] = "trigger" \/ promised = {})

=============================================================================
