----------------------------- MODULE AgentRoute -----------------------------
(***************************************************************************)
(* Messages from agent to agent (modules/agent-to-agent): the destination   *)
(* rows that allow them, the policies that hold them for a human, the       *)
(* session of the other agent they land in, and the reply that is to find   *)
(* its way back.  The sending side is the runner of the container: the      *)
(* stamp current_in_reply_to that a turn leaves for send_message, and the   *)
(* lookup a final <message to> block is stamped with.                       *)
(*                                                                          *)
(* Sessions are numbered in the order of their creation.  Of the delivery   *)
(* loop the module keeps which rows a drain has taken up, and what a crash  *)
(* can cut in two; its retries over other kinds of rows are Delivery's, and *)
(* the clicks that race on a card are Approvals'.                           *)
(***************************************************************************)
EXTENDS Integers, Sequences, FiniteSets, FiniteSetsExt

CONSTANTS
    Owner,          \* the agent group of each session, in order of creation
    TaskSession,    \* the sessions of task series
    Starts,         \* bound: which sessions exist at the start, a set of sets
    MaxWrites,      \* bound: messages an agent writes in a session
    Watched,        \* bound: the connections whose rows an operator changes
    MaxEdits,       \* bound: how often
    MaxCrashes      \* bound: deaths of the host

Session == DOMAIN Owner
Group == {Owner[s] : s \in Session}
Edge == {e \in Group \X Group : e[1] # e[2]}

ASSUME ConstantsAssumption ==
    /\ Owner \in Seq(Group)
    /\ TaskSession \subseteq Session /\ Starts \subseteq SUBSET Session /\ Watched \subseteq Edge
    /\ MaxWrites \in Nat /\ MaxEdits \in Nat /\ MaxCrashes \in Nat

None == 0
Host == 0
MaxTries == 3       \* MAX_DELIVERY_ATTEMPTS

VARIABLES
    status,         \* sessions.status
    dest,           \* agent_destinations: who may write to whom
    policy,         \* agent_message_policies: which of them is held for approval
    inbox,          \* messages_in of each session: [from, msg], in order of seq
    stamp,          \* current_in_reply_to: the row the last turn began with
    sent,           \* messages_out of all sessions: [by, to, re]
    place,          \* of each: "due", "done", "failed"
    tries,          \* deliveryAttempts of the host process
    drain,          \* messages that drainSession has taken up and not come to yet
    card,           \* the approval of a held message: "none", "out", "approved", "rejected"
    edits, crashes,
    told            \* history: messages whose sender was told what became of them

bounds == <<edits, crashes>>
vars == <<status, dest, policy, inbox, stamp, sent, place, tries, drain, card, bounds, told>>

Message == 1 .. MaxWrites * Len(Owner)
Written == 1 .. Len(sent)
Rows(s) == 1 .. Len(inbox[s])

TypeOK ==
    /\ status \in [Session -> {"none", "active", "closed"}]
    /\ dest \subseteq Edge /\ policy \subseteq Edge
    /\ inbox \in [Session -> Seq([from : Session \cup {Host}, msg : Nat])]
    /\ stamp \in [Session -> Nat] /\ \A s \in Session : stamp[s] \in {None} \cup Rows(s)
    /\ sent \in Seq([by : Session, to : Group, re : Nat])
    /\ place \in Seq({"due", "done", "failed"}) /\ Len(place) = Len(sent)
    /\ tries \in Seq(0 .. MaxTries - 1) /\ Len(tries) = Len(sent)
    /\ card \in Seq({"none", "out", "approved", "rejected"}) /\ Len(card) = Len(sent)
    /\ \A m \in Written : sent[m].re \in Rows(sent[m].by) /\ status[sent[m].by] # "none"
    /\ edits \in 0 .. MaxEdits /\ crashes \in 0 .. MaxCrashes
    /\ told \subseteq Written /\ drain \subseteq Written

\* A human has written in each session; all may write to all, and the watched
\* connections are held or not.
Init ==
    /\ \E start \in Starts :
        /\ status = [s \in Session |-> IF s \in start THEN "active" ELSE "none"]
        /\ inbox = [s \in Session |-> IF s \in start THEN <<[from |-> Host, msg |-> None]>>
                                                     ELSE <<>>]
    /\ dest = Edge /\ policy \in {{}, Watched}
    /\ stamp = [s \in Session |-> None]
    /\ sent = <<>> /\ place = <<>> /\ tries = <<>> /\ card = <<>> /\ drain = {}
    /\ edits = 0 /\ crashes = 0
    /\ told = {}

-----------------------------------------------------------------------------
(* The runner.                                                              *)

\* A turn begins with the rows that wait, and extractRouting takes the first of them; rows
\* that come later are pushed into the turn, or wait for the next one.  The stamp stays as
\* long as the turn, so it moves on to any later row.
BeginTurn(s) ==
    /\ status[s] = "active"
    /\ \E i \in Rows(s) : i > stamp[s] /\ stamp' = [stamp EXCEPT ![s] = i]
    /\ UNCHANGED <<status, dest, policy, inbox, sent, place, tries, drain, card, bounds, told>>

ArrivedIn(m) == {t \in Session : \E i \in Rows(t) : inbox[t][i].msg = m}

FromGroup(s, g) == {i \in Rows(s) : inbox[s][i].from # Host /\ Owner[inbox[s][i].from] = g}

\* resolveDestinationThread: the newest row of that agent, seen by the turn or not
LatestOf(s, g) == IF FromGroup(s, g) = {} THEN stamp[s] ELSE Max(FromGroup(s, g))

\* sendMessage and sendFile stamp the row the turn began with, a final block its own lookup.
Write(s, g) ==
    /\ status[s] = "active" /\ stamp[s] # None /\ g # Owner[s]
    /\ Cardinality({m \in Written : sent[m].by = s}) < MaxWrites
    /\ \E row \in {stamp[s], LatestOf(s, g)} : sent' = Append(sent, [by |-> s, to |-> g, re |-> row])
    /\ place' = Append(place, "due") /\ tries' = Append(tries, 0) /\ card' = Append(card, "none")
    /\ UNCHANGED <<status, dest, policy, inbox, stamp, drain, bounds, told>>

-----------------------------------------------------------------------------
(* The route.                                                               *)

EdgeOf(m) == <<Owner[sent[m].by], sent[m].to>>

\* the guard's decision, in the order of its checks
Denied(m) == EdgeOf(m) \notin dest
Held(m) == ~Denied(m) /\ EdgeOf(m) \in policy
FreeMutant(m) == EdgeOf(m) \in dest
Free(m) == ~Denied(m) /\ EdgeOf(m) \notin policy

\* findSessionByAgentGroup
Chats(g) == {t \in Session \ TaskSession : Owner[t] = g /\ status[t] = "active"}
Unused(g) == {t \in Session \ TaskSession : Owner[t] = g /\ status[t] = "none"}

OriginMutant(m) ==
    LET asker == inbox[sent[m].by][sent[m].re].from IN IF asker # Host THEN asker ELSE None
OriginNewestMutant(m) ==
    LET s == sent[m].by
    IN IF FromGroup(s, sent[m].to) = {} THEN None ELSE inbox[s][Max(FromGroup(s, sent[m].to))].from
\* resolveTargetSession: the session the answered row came from, or else the one in which
\* the other agent last wrote here
Origin(m) ==
    LET s == sent[m].by
        asker == inbox[s][sent[m].re].from
        peer == FromGroup(s, sent[m].to)
    IN IF asker # Host THEN asker
       ELSE IF peer # {} THEN inbox[s][Max(peer)].from ELSE None

Returns(m, t) == t = Origin(m) /\ Owner[t] = sent[m].to /\ status[t] = "active"

\* or the newest chat session of the agent, made when there is none
Target(m, t) ==
    \/ /\ Origin(m) # None /\ Returns(m, t)
    \/ /\ ~\E u \in Session : Returns(m, u)
       /\ IF Chats(sent[m].to) # {} THEN t = Max(Chats(sent[m].to))
          ELSE Unused(sent[m].to) # {} /\ t = Min(Unused(sent[m].to))

\* performAgentRoute
Arrive(m) ==
    \E t \in Session :
        /\ Target(m, t)
        /\ status' = [status EXCEPT ![t] = "active"]
        /\ inbox' = [inbox EXCEPT ![t] = Append(@, [from |-> sent[m].by, msg |-> m])]

\* drainSession: of a session that the poll lists, the rows that are due
Enter(s) ==
    LET due == {m \in Written : sent[m].by = s /\ place[m] = "due"}
    IN  /\ status[s] = "active"
        /\ due # {} /\ due \cap drain = {}
        /\ drain' = drain \cup due
        /\ UNCHANGED <<status, dest, policy, inbox, stamp, sent, place, tries, card, bounds, told>>

\* the next of the rows that the drain of m's session has taken up, be it closed by now
AtHand(m) == m \in drain /\ \A n \in drain : sent[n].by = sent[m].by => m <= n

\* What follows the effect: the row is marked delivered, or the host dies before that and
\* finds it due again.
Marked(m, cut) ==
    IF cut THEN /\ crashes < MaxCrashes /\ crashes' = crashes + 1
                /\ tries' = [n \in Written |-> 0] /\ drain' = {}
                /\ UNCHANGED place
    ELSE /\ place' = [place EXCEPT ![m] = "done"]
         /\ tries' = [tries EXCEPT ![m] = 0] /\ drain' = drain \ {m}
         /\ UNCHANGED crashes

RefuseMutant(m) ==
    /\ AtHand(m) /\ Denied(m)
    /\ drain' = drain \ {m}
    /\ IF tries[m] = MaxTries
       THEN place' = [place EXCEPT ![m] = "failed"] /\ tries' = [tries EXCEPT ![m] = 0]
       ELSE tries' = [tries EXCEPT ![m] = @ + 1] /\ UNCHANGED place
    /\ UNCHANGED <<status, dest, policy, inbox, stamp, sent, card, bounds, told>>

Refuse(m) ==
    /\ AtHand(m) /\ Denied(m)
    /\ drain' = drain \ {m}
    /\ IF tries[m] + 1 = MaxTries
       THEN place' = [place EXCEPT ![m] = "failed"] /\ tries' = [tries EXCEPT ![m] = 0]
       ELSE tries' = [tries EXCEPT ![m] = @ + 1] /\ UNCHANGED place
    /\ UNCHANGED <<status, dest, policy, inbox, stamp, sent, card, bounds, told>>

\* requestApproval, awaited before the row is marked
Hold(m, cut) ==
    /\ AtHand(m) /\ Held(m)
    /\ card' = [card EXCEPT ![m] = "out"]
    /\ Marked(m, cut)
    /\ UNCHANGED <<status, dest, policy, inbox, stamp, sent, edits, told>>

CardFailsMutant(m, cut) ==
    /\ AtHand(m) /\ Held(m)
    /\ Marked(m, cut)
    /\ UNCHANGED <<status, dest, policy, inbox, stamp, sent, card, edits, told>>

\* no approver, nobody to reach, or a card that could not be sent: the sender is told
CardFails(m, cut) ==
    /\ AtHand(m) /\ Held(m)
    /\ told' = told \cup {m}
    /\ Marked(m, cut)
    /\ UNCHANGED <<status, dest, policy, inbox, stamp, sent, card, edits>>

Route(m, cut) ==
    /\ AtHand(m) /\ Free(m)
    /\ Arrive(m)
    /\ Marked(m, cut)
    /\ UNCHANGED <<dest, policy, stamp, sent, card, edits, told>>

-----------------------------------------------------------------------------
(* The human, and the replay of what was approved.                          *)

\* applyA2aMessageGate: the guard passes with the grant, whatever the policy is by now, ...
Approve(m) ==
    /\ card[m] = "out" /\ ~Denied(m)
    /\ Arrive(m)
    /\ card' = [card EXCEPT ![m] = "approved"]
    /\ UNCHANGED <<dest, policy, stamp, sent, place, tries, drain, bounds, told>>

ApproveDeniedMutant(m) ==
    /\ card[m] = "out" /\ Denied(m)
    /\ Arrive(m)
    /\ card' = [card EXCEPT ![m] = "approved"]
    /\ UNCHANGED <<dest, policy, stamp, sent, place, tries, drain, bounds, told>>

\* ... unless the destination is gone: the sender is told
ApproveDenied(m) ==
    /\ card[m] = "out" /\ Denied(m)
    /\ told' = told \cup {m}
    /\ card' = [card EXCEPT ![m] = "approved"]
    /\ UNCHANGED <<status, dest, policy, inbox, stamp, sent, place, tries, drain, bounds>>

Reject(m) ==
    /\ card[m] = "out"
    /\ told' = told \cup {m}
    /\ card' = [card EXCEPT ![m] = "rejected"]
    /\ UNCHANGED <<status, dest, policy, inbox, stamp, sent, place, tries, drain, bounds>>

-----------------------------------------------------------------------------
(* Operators, task sessions, crashes.                                       *)

\* area51 destinations add and remove (which leaves the policy), policies set and remove
Edit ==
    /\ edits < MaxEdits
    /\ edits' = edits + 1
    /\ \E e \in Watched :
        \/ dest' = dest \ {e} /\ e \in dest /\ UNCHANGED policy
        \/ dest' = dest \cup {e} /\ e \notin dest /\ UNCHANGED policy
        \/ policy' = policy \ {e} /\ e \in policy /\ UNCHANGED dest
        \/ policy' = policy \cup {e} /\ e \notin policy /\ UNCHANGED dest
    /\ UNCHANGED <<status, inbox, stamp, sent, place, tries, drain, card, crashes, told>>

\* the sweep closes the session of a series that has no row left
CloseTask(s) ==
    /\ s \in TaskSession /\ status[s] = "active" /\ stamp[s] # None
    /\ status' = [status EXCEPT ![s] = "closed"]
    /\ UNCHANGED <<dest, policy, inbox, stamp, sent, place, tries, drain, card, bounds, told>>

\* a crash at any other moment costs the attempts that were counted
Crash ==
    /\ crashes < MaxCrashes
    /\ crashes' = crashes + 1
    /\ tries' = [m \in Written |-> 0] /\ drain' = {}
    /\ UNCHANGED <<status, dest, policy, inbox, stamp, sent, place, card, edits, told>>

Runner == \E s \in Session :
    BeginTurn(s) \/ \E g \in Group : Write(s, g)

Deliver(m) ==
    \/ Refuse(m)
    \/ \E cut \in BOOLEAN : Hold(m, cut) \/ CardFails(m, cut) \/ Route(m, cut)

Human(m) == Approve(m) \/ ApproveDenied(m) \/ Reject(m)

Next ==
    \/ Runner
    \/ \E m \in Written : Deliver(m) \/ Human(m)
    \/ Edit
    \/ \E s \in Session : Enter(s) \/ CloseTask(s)
    \/ Crash

Spec == Init /\ [][Next]_vars

\* The delivery polls never stop while the host lives, and list the sessions that are
\* active; a drain comes to an end; a human need not answer.
FairSpec ==
    /\ Spec
    /\ \A s \in Session : WF_vars(Enter(s))
    /\ \A m \in Message : WF_vars(m \in Written /\ Deliver(m))

-----------------------------------------------------------------------------
(* Safety: a message that answers the row of a session of the agent it goes *)
(* to comes back to that very session, while that is active: whatever other *)
(* sessions of that agent wrote since, after a hold and an approval, and    *)
(* when a crash made the host route it again.                               *)
RepliesReturn ==
    \A m \in Written :
        LET asker == inbox[sent[m].by][sent[m].re].from
        IN asker # Host /\ Owner[asker] = sent[m].to /\ status[asker] = "active"
           => ArrivedIn(m) \subseteq {asker}

(* Action property: no message reaches another agent's session over an edge *)
(* that is not there, and none over an edge with a policy unless a human    *)
(* approved that message: an approval does not outlive the destination, and *)
(* a retry after a crash does not go round the policy set meanwhile.        *)
CrossingsAreAllowed ==
    [][\A s \in Session : Len(inbox'[s]) > Len(inbox[s]) =>
          LET m == inbox'[s][Len(inbox'[s])].msg
          IN EdgeOf(m) \in dest /\ (EdgeOf(m) \in policy => card'[m] = "approved")]_vars

(* Liveness: a message an agent wrote arrives, or its sender is told, or it *)
(* is marked failed, or a human has its card: no crash between the card and *)
(* the mark, and no card that cannot be sent, makes it vanish.  What a task *)
(* session had not handed to a drain when it was closed is the exception    *)
(* (ClosedSessionsAreDrained of Delivery).                                  *)
SendsSettle ==
    \A m \in Message :
        m \in Written ~> /\ m \in Written
                         /\ \/ ArrivedIn(m) # {}
                            \/ m \in told \/ place[m] = "failed" \/ card[m] = "out"
                            \/ /\ status[sent[m].by] = "closed"
                               /\ place[m] = "due" /\ m \notin drain

\* The sessions of agents that wrote to session s.
Askers(s) == {inbox[s][i].from : i \in Rows(s)} \ {Host}

(* Action property: a message to an agent whose sessions wrote here, where  *)
(* no other agent did, lands in one of those sessions as long as they are   *)
(* all active, also when it answers the row of a human: never in a session  *)
(* of that agent that knows nothing of the matter.  (With rows of a third   *)
(* agent it may: a stamp that names its session leads to the newest one.)   *)
ArrivesWithAnAsker ==
    [][\A m \in Written : \A t \in Session :
          LET s == sent[m].by
          IN /\ inbox'[t] = Append(inbox[t], [from |-> s, msg |-> m])
             /\ Askers(s) # {}
             /\ \A u \in Askers(s) : Owner[u] = sent[m].to /\ status[u] = "active"
             => t \in Askers(s)]_vars
=============================================================================
