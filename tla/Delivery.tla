------------------------------ MODULE Delivery ------------------------------
(***************************************************************************)
(* One session's outbound queue: the rows of outbound.db messages_out, the  *)
(* host's two delivery polls that drain it, the handling of each row, and   *)
(* the rows of inbound.db delivered that record its outcome (delivery.ts).  *)
(*                                                                          *)
(* A poll lists sessions, and a drain works through the rows it found due   *)
(* and unrecorded when it began, awaiting the outside world for each one.   *)
(* The two polls and every await interleave; the host may die anywhere.     *)
(***************************************************************************)
EXTENDS Integers, FiniteSets, FiniteSetsExt

CONSTANTS
    Msg,            \* outbound rows, in the order of their timestamps
    Mute,           \* rows handled without any effect (no routing, unknown action)
    Commands,       \* cli_request rows: run a command, then insert its response
    Logs,           \* task_log rows: appended to the log file of a task series
    MaxAttempts,    \* MAX_DELIVERY_ATTEMPTS
    MaxLives        \* bound: how many host processes a behaviour has

ASSUME MsgAssumption == Msg \subseteq Nat \ {0} /\ IsFiniteSet(Msg)
ASSUME KindAssumption ==
    /\ Mute \subseteq Msg /\ Commands \subseteq Msg /\ Logs \subseteq Msg
    /\ Mute \cap Commands = {} /\ Mute \cap Logs = {} /\ Commands \cap Logs = {}
ASSUME BoundAssumption == MaxAttempts \in Nat \ {0} /\ MaxLives \in Nat \ {0}

Poll == {"active", "sweep"}

VARIABLES
    out,            \* messages_out: "absent", "deferred" (deliver_after ahead), "due"
    record,         \* delivered: "none", "delivered", "failed"
    responded,      \* commands whose response row is in messages_in
    task,           \* is it a per-task session, which the host closes when spent?
    running,        \* container_status is running or idle
    open,           \* sessions.status is active
    inflight,       \* inflightDeliveries.has(session)
    queue,          \* per poll: what is left of the rows its drain took up
    stage,          \* per poll: where the row at hand stands
    attempts,       \* deliveryAttempts, lost with the host process
    lives,          \* history: host processes so far
    effects         \* history: how often a row took effect in the world

tables == <<out, record, responded>>
session == <<task, running, open>>
drains == <<inflight, queue, stage>>
vars == <<tables, session, drains, attempts, lives, effects>>

TypeOK ==
    /\ out \in [Msg -> {"absent", "deferred", "due"}]
    /\ record \in [Msg -> {"none", "delivered", "failed"}]
    /\ responded \in SUBSET Commands
    /\ task \in BOOLEAN /\ running \in BOOLEAN /\ open \in BOOLEAN
    /\ inflight \in BOOLEAN
    /\ queue \in [Poll -> SUBSET Msg]
    /\ stage \in [Poll -> {"idle", "calling", "accepted", "responded"}]
    /\ attempts \in [Msg -> 0 .. MaxAttempts - 1]
    /\ lives \in 1 .. MaxLives
    /\ effects \in [Msg -> 0 .. MaxAttempts * MaxLives]

Init ==
    /\ out = [m \in Msg |-> "absent"]
    /\ record = [m \in Msg |-> "none"]
    /\ responded = {}
    /\ task \in BOOLEAN /\ running = FALSE /\ open = TRUE
    /\ inflight = FALSE
    /\ queue = [p \in Poll |-> {}]
    /\ stage = [p \in Poll |-> "idle"]
    /\ attempts = [m \in Msg |-> 0]
    /\ lives = 1
    /\ effects = [m \in Msg |-> 0]

-----------------------------------------------------------------------------
\* drainSession: due rows without a record
Undelivered == {m \in Msg : out[m] = "due" /\ record[m] = "none"}

\* the row at hand, in timestamp order
Head(p) == Min(queue[p])

ListedMutant(p) == IF p = "active" THEN running ELSE open /\ running

\* getRunningSessions, getActiveSessions
Listed(p) == IF p = "active" THEN running ELSE open

\* the row at hand is done with
Advance(p) ==
    /\ queue' = [queue EXCEPT ![p] = @ \ {Head(p)}]
    /\ stage' = [stage EXCEPT ![p] = "idle"]

\* INSERT OR IGNORE INTO delivered
Record(m, outcome) == record' = [record EXCEPT ![m] = IF @ = "none" THEN outcome ELSE @]

-----------------------------------------------------------------------------
(* The session.                                                             *)

\* the container writes a row, to be delivered at once or later; in a chat session the
\* host itself may (writeOutboundDirect)
Write(m) ==
    /\ running \/ (open /\ ~task)
    /\ out[m] = "absent"
    /\ \A n \in Msg : n < m => out[n] # "absent"
    /\ \E due \in {"due", "deferred"} : out' = [out EXCEPT ![m] = due]
    /\ UNCHANGED <<record, responded, session, drains, attempts, lives, effects>>

\* deliver_after passes
ComeDue(m) ==
    /\ out[m] = "deferred"
    /\ out' = [out EXCEPT ![m] = "due"]
    /\ UNCHANGED <<record, responded, session, drains, attempts, lives, effects>>

ContainerStart ==
    /\ open /\ ~running
    /\ running' = TRUE
    /\ UNCHANGED <<tables, task, open, drains, attempts, lives, effects>>

ContainerStop ==
    /\ running
    /\ running' = FALSE
    /\ UNCHANGED <<tables, task, open, drains, attempts, lives, effects>>

\* the host sweep closes a spent task session
CloseSession ==
    /\ task /\ open /\ ~running
    /\ open' = FALSE
    /\ UNCHANGED <<tables, task, running, drains, attempts, lives, effects>>

-----------------------------------------------------------------------------
(* Draining.                                                                *)

EnterMutant(p) ==
    /\ stage[p] = "idle" /\ queue[p] = {}
    /\ Listed(p)
    /\ Undelivered # {}
    /\ inflight' = TRUE
    /\ queue' = [queue EXCEPT ![p] = Undelivered]
    /\ UNCHANGED <<tables, session, stage, attempts, lives, effects>>

\* deliverSessionMessages: a poll that meets a drain in flight skips the session
Enter(p) ==
    /\ Listed(p) /\ ~inflight
    /\ Undelivered # {}
    /\ inflight' = TRUE
    /\ queue' = [queue EXCEPT ![p] = Undelivered]
    /\ UNCHANGED <<tables, session, stage, attempts, lives, effects>>

\* deliverMessage is called on the next row
Call(p) ==
    /\ stage[p] = "idle" /\ queue[p] # {}
    /\ stage' = [stage EXCEPT ![p] = "calling"]
    /\ UNCHANGED <<tables, session, inflight, queue, attempts, lives, effects>>

\* the platform takes the message, the command runs, the peer gets it, the log is appended
\* to (for a task session only)
Accept(p) ==
    /\ stage[p] = "calling" /\ Head(p) \notin Mute
    /\ Head(p) \in Logs => task
    /\ stage' = [stage EXCEPT ![p] = "accepted"]
    /\ effects' = [effects EXCEPT ![Head(p)] = @ + 1]
    /\ UNCHANGED <<tables, session, inflight, queue, attempts, lives>>

\* cli_request: the response row is inserted under an id made of the request's
Respond(p) ==
    /\ stage[p] = "accepted" /\ Head(p) \in Commands \ responded
    /\ responded' = responded \cup {Head(p)}
    /\ stage' = [stage EXCEPT ![p] = "responded"]
    /\ UNCHANGED <<out, record, session, inflight, queue, attempts, lives, effects>>

\* where deliverMessage returns
ReturnsAt(m) ==
    CASE m \in Mute -> {"calling"}
      [] m \in Commands -> {"responded"}
      \* appendRunLog may fail, and what it throws is caught
      [] m \in Logs -> {"calling", "accepted"}
      [] OTHER -> {"accepted"}

SettleMutant(p) ==
    /\ queue[p] # {} /\ stage[p] \in {"calling"} \cup ReturnsAt(Head(p))
    /\ Record(Head(p), "delivered")
    /\ attempts' = [attempts EXCEPT ![Head(p)] = 0]
    /\ Advance(p)
    /\ UNCHANGED <<out, responded, session, inflight, lives, effects>>

\* markDelivered, deliveryAttempts.delete
Settle(p) ==
    /\ queue[p] # {} /\ stage[p] \in ReturnsAt(Head(p))
    /\ Record(Head(p), "delivered")
    /\ attempts' = [attempts EXCEPT ![Head(p)] = 0]
    /\ Advance(p)
    /\ UNCHANGED <<out, responded, session, inflight, lives, effects>>

ExhaustedMutant(n) == n > MaxAttempts

\* attempts >= MAX_DELIVERY_ATTEMPTS
Exhausted(n) == n >= MaxAttempts

\* deliverMessage or markDelivered threw: before anything happened, after the platform
\* took the message, or because a command's response is there already
Fail(p) ==
    /\ stage[p] \in {"calling", "accepted"}
    /\ stage[p] = "accepted" /\ Head(p) \in Commands => Head(p) \in responded
    /\ LET m == Head(p)
           n == attempts[m] + 1
       IN  /\ Record(m, IF Exhausted(n) THEN "failed" ELSE "none")
           /\ attempts' = [attempts EXCEPT ![m] = IF Exhausted(n) THEN 0 ELSE n]
    /\ Advance(p)
    /\ UNCHANGED <<out, responded, session, inflight, lives, effects>>

\* the finally of deliverSessionMessages
Leave(p) ==
    /\ inflight /\ \A q \in Poll : queue[q] = {}
    /\ inflight' = FALSE
    /\ UNCHANGED <<tables, session, queue, stage, attempts, lives, effects>>

\* the host process dies and a new one starts
Restart ==
    /\ lives < MaxLives
    /\ lives' = lives + 1
    /\ inflight' = FALSE
    /\ queue' = [p \in Poll |-> {}]
    /\ stage' = [p \in Poll |-> "idle"]
    /\ attempts' = [m \in Msg |-> 0]
    /\ UNCHANGED <<tables, session, effects>>

-----------------------------------------------------------------------------
Drain(p) ==
    Enter(p) \/ Call(p) \/ Accept(p) \/ Respond(p) \/ Settle(p) \/ Fail(p) \/ Leave(p)

Next ==
    \/ \E m \in Msg : Write(m) \/ ComeDue(m)
    \/ ContainerStart \/ ContainerStop \/ CloseSession
    \/ \E p \in Poll : Drain(p)
    \/ Restart

Spec == Init /\ [][Next]_vars

(***************************************************************************)
(* The polls come round for ever (each timer re-arms itself whatever        *)
(* happened) and every await settles, one way or the other.                 *)
(***************************************************************************)
FairSpec ==
    /\ Spec
    /\ \A m \in Msg : WF_vars(ComeDue(m))
    /\ WF_vars(Enter("sweep"))
    /\ \A p \in Poll :
        WF_vars(Call(p)) /\ WF_vars(Leave(p)) /\ WF_vars(Respond(p) \/ Settle(p) \/ Fail(p))

-----------------------------------------------------------------------------
(* Properties.                                                              *)

\* A row with a record takes no effect any more: without inflightDeliveries the two
\* timer chains "can race on the same outbound row" (delivery.ts).
NoEffectAfterRecord ==
    [][\A m \in Msg : record[m] # "none" => effects'[m] = effects[m]]_vars

\* However awaits fail, before or after the effect, one host process tries a row at
\* most MAX_DELIVERY_ATTEMPTS times, and a restart grants it that many again
\* ("Resets on process restart", delivery.ts).
EffectsAreBounded == \A m \in Msg : effects[m] <= MaxAttempts * lives

\* A row recorded as delivered took effect, and a command's response was inserted, "instead
\* of marking it delivered when nothing was actually delivered" (delivery.ts
\* deliverMessage).  Lines of a task's log are the exception (LogsAreKept).
DeliveredTookEffect ==
    \A m \in Msg \ (Mute \cup Logs) :
        record[m] = "delivered" => effects[m] > 0 /\ (m \in Commands => m \in responded)

\* Every row that is written is delivered or given up on, whether or not its container
\* is still running: the sweep poll reaches the sessions the active poll does not.  Task
\* sessions that are closed meanwhile are the exception (ClosedSessionsAreDrained).
EveryRowIsRecorded ==
    \A m \in Msg : (out[m] # "absent") ~> (record[m] # "none" \/ (task /\ ~open))

-----------------------------------------------------------------------------
(* Said of the code by comments or documents, and refuted by TLC: no run    *)
(* claims what follows (README.md, "Disagreements met").                    *)

\* "The per-task log file in the workspace is the durable history and survives the
\* close" (host-sweep.ts): a session that is closed has no row left that no drain holds,
\* such as the final text that delivery would have appended to that log.
ClosedSessionsAreDrained ==
    ~open => \A m \in Msg :
                out[m] # "absent" => record[m] # "none" \/ \E p \in Poll : m \in queue[p]

\* "The per-task log file in the workspace is the durable history" (host-sweep.ts): the
\* final text of a task's run that is recorded as delivered stands in that log.
LogsAreKept == \A m \in Logs : task /\ record[m] = "delivered" => effects[m] > 0
=============================================================================
