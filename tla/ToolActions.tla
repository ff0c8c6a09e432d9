---------------------------- MODULE ToolActions ----------------------------
(***************************************************************************)
(* Tool actions: an agent asks by an outbound row that the host calls a     *)
(* fixed HTTP destination.  The delivery action (modules/tool-actions)      *)
(* reserves the request in the central database, then calls at once, or     *)
(* holds the request in memory (session-tool-actions.ts and its broker) and *)
(* asks an administrator.  Deliveries are retried, clicks overlap, deadlines*)
(* pass, the configuration changes under a held request, and the host dies. *)
(*                                                                          *)
(* Every request is of a session of its own: the two requests of one        *)
(* session only meet in the order in which the drain takes them.            *)
(***************************************************************************)
EXTENDS Integers, FiniteSets

CONSTANTS
    Request,        \* request ids
    MaxPending,     \* the limit of 100 held requests
    Polls,          \* drains that run at the same time: the active and the sweep poll
    MaxAttempts,    \* MAX_DELIVERY_ATTEMPTS
    MaxFaults,      \* bound: answers that could not be written at first
    MaxCrashes      \* bound: deaths of the host

ASSUME BoundAssumption ==
    /\ MaxPending \in Nat \ {0} /\ Polls \in Nat \ {0} /\ MaxAttempts \in Nat \ {0}
    /\ MaxFaults \in Nat /\ MaxCrashes \in Nat

VARIABLES
    out,        \* the outbound row: "none", "due", "delivered", "failed"
    attempts,   \* failed deliveries of this host process
    at,         \* the delivery action: "idle", "bound" to the broker, "asking", "calling", "told"
    reserved,   \* tool_action_requests
    pending,    \* SessionToolActions.pending, lost with the process
    late,       \* requests whose deadline has passed
    stale,      \* requests taken under an earlier revision of the configuration, or for a
                \* session that is not active any more
    card,       \* requestApproval: "none", "opening" the DM, "sending", "out", "failed"
    rows,       \* pending_approvals
    clicked,    \* approved requests whose call is in flight
    faults, crashes,
    \* history: calls dispatched; what the agent heard: "nothing" against the call, "no", or
    \* something else than the true answer, which could not be written
    sent, heard

bounds == <<faults, crashes>>
vars == <<out, attempts, at, reserved, pending, late, stale, card, rows,
          clicked, bounds, sent, heard>>

No == {"denied", "expired", "failed"}
InFlight == {r \in Request : at[r] # "idle"}

TypeOK ==
    /\ out \in [Request -> {"none", "due", "delivered", "failed"}]
    /\ attempts \in [Request -> 0 .. MaxAttempts]
    /\ at \in [Request -> {"idle", "bound", "asking", "calling", "told"}]
    /\ reserved \in SUBSET Request /\ pending \in SUBSET reserved /\ late \in SUBSET Request
    /\ stale \in SUBSET reserved
    /\ card \in [Request -> {"none", "opening", "sending", "out", "failed"}]
    /\ rows \in SUBSET Request /\ clicked \in SUBSET Request
    /\ faults \in 0 .. MaxFaults /\ crashes \in 0 .. MaxCrashes
    /\ sent \in [Request -> Nat] /\ heard \in [Request -> {"nothing", "no", "else"}]

Init ==
    /\ out = [r \in Request |-> "none"] /\ attempts = [r \in Request |-> 0]
    /\ at = [r \in Request |-> "idle"]
    /\ reserved = {} /\ pending = {} /\ late = {}
    /\ stale = {}
    /\ card = [r \in Request |-> "none"] /\ rows = {} /\ clicked = {}
    /\ faults = 0 /\ crashes = 0
    /\ sent = [r \in Request |-> 0] /\ heard = [r \in Request |-> "nothing"]

-----------------------------------------------------------------------------
(* Answers.                                                                 *)

Tell(r, a) ==
    heard' = [heard EXCEPT ![r] = IF @ = "nothing" /\ a \in No THEN "no" ELSE @]

\* the true answer is not written
TellElse(r) == heard' = [heard EXCEPT ![r] = "else"]

\* notifyAgent(a), then the drain records the row
Told(r, a) ==
    /\ Tell(r, a)
    /\ at' = [at EXCEPT ![r] = "told"]
    /\ UNCHANGED <<out, attempts, faults>>

\* notifyAgent threw and the catch said "failed; no automatic retry" instead, ...
Mistold(r) ==
    /\ faults < MaxFaults /\ faults' = faults + 1
    /\ TellElse(r)
    /\ at' = [at EXCEPT ![r] = "told"]
    /\ UNCHANGED <<out, attempts>>

\* ... or threw as well: the drain counts a failed attempt
Untold(r) ==
    /\ faults < MaxFaults /\ faults' = faults + 1
    /\ attempts' = [attempts EXCEPT ![r] = @ + 1]
    /\ out' = [out EXCEPT ![r] = IF attempts'[r] >= MaxAttempts THEN "failed" ELSE @]
    /\ at' = [at EXCEPT ![r] = "idle"]
    /\ TellElse(r)

Finish(r, a) == Told(r, a) \/ Mistold(r) \/ Untold(r)

Send(r) == sent' = [sent EXCEPT ![r] = @ + 1]

-----------------------------------------------------------------------------
(* The delivery action.                                                     *)

Submit(r) ==
    /\ out[r] = "none"
    /\ out' = [out EXCEPT ![r] = "due"]
    /\ UNCHANGED <<attempts, at, reserved, pending, late, stale, card, rows,
                   clicked, bounds, sent, heard>>

Taken(r) ==
    /\ out[r] = "due" /\ at[r] = "idle"
    /\ Cardinality(InFlight) < Polls

\* a request that was reserved before, whatever came of it
Refuse(r) ==
    /\ Taken(r) /\ r \in reserved
    /\ Finish(r, "denied")
    /\ UNCHANGED <<reserved, pending, late, stale, card, rows, clicked,
                   crashes, sent>>

ReserveMutant(r) ==
    /\ Taken(r)
    /\ reserved' = reserved \cup {r}

ReserveNothingMutant(r) ==
    /\ Taken(r) /\ r \notin reserved
    /\ UNCHANGED reserved

\* the durable reservation precedes everything else
Reserve(r) ==
    /\ Taken(r) /\ r \notin reserved
    /\ reserved' = reserved \cup {r}

\* prune
Prune == pending' = pending \ late /\ UNCHANGED late

\* no configuration, a denied or unknown tool, arguments out of its schema, or an
\* unreadable configuration file.  (An inactive session is refused before the reservation;
\* it stays inactive, so that no later step tells the two apart.)
Deny(r) ==
    /\ Reserve(r)
    /\ \/ Prune
       \/ UNCHANGED <<pending, late>>
    /\ \E a \in {"denied", "failed"} : Finish(r, a)
    /\ UNCHANGED <<stale, card, rows, clicked, crashes, sent>>

TooMany == Cardinality(pending \ late) >= MaxPending

Full(r) ==
    /\ Reserve(r) /\ Prune /\ TooMany
    /\ Finish(r, "denied")
    /\ UNCHANGED <<stale, card, rows, clicked, crashes, sent>>

\* the policy allows the tool: the call is dispatched before anything is awaited
Call(r) ==
    /\ Reserve(r) /\ Prune /\ ~TooMany
    /\ Send(r)
    /\ at' = [at EXCEPT ![r] = "calling"]
    /\ UNCHANGED <<out, attempts, stale, card, rows, clicked, bounds, heard>>

\* the call answers, is refused upstream, or is given up after ten seconds
Called(r) ==
    /\ at[r] = "calling"
    /\ \E a \in {"executed", "failed"} : Finish(r, a)
    /\ UNCHANGED <<reserved, pending, late, stale, card, rows, clicked,
                   crashes, sent>>

\* the policy wants an approval: the broker holds the request, and its answer is awaited
Bind(r) ==
    /\ Reserve(r) /\ Prune /\ ~TooMany
    /\ at' = [at EXCEPT ![r] = "bound"]
    /\ UNCHANGED <<out, attempts, stale, card, rows, clicked, bounds, sent, heard>>

\* the preview is too long for a card
Unshowable(r) ==
    /\ at[r] = "bound"
    /\ Finish(r, "denied")
    /\ UNCHANGED <<reserved, pending, late, stale, card, rows, clicked,
                   crashes, sent>>

\* the session's map holds the broker, and requestApproval runs against the deadline
Hold(r) ==
    /\ at[r] = "bound"
    /\ at' = [at EXCEPT ![r] = "asking"]
    /\ pending' = pending \cup {r}
    /\ card' = [card EXCEPT ![r] = "opening"]
    /\ UNCHANGED <<out, attempts, reserved, late, stale, rows, clicked,
                   bounds, sent, heard>>

\* requestApproval has found a DM: the row, and the card on its way
CardSent(r) ==
    /\ card[r] = "opening"
    /\ card' = [card EXCEPT ![r] = "sending"]
    /\ rows' = rows \cup {r}
    /\ UNCHANGED <<out, attempts, at, reserved, pending, late, stale, clicked,
                   bounds, sent, heard>>

CardOut(r) ==
    /\ card[r] = "sending"
    /\ card' = [card EXCEPT ![r] = "out"]
    /\ UNCHANGED <<out, attempts, at, reserved, pending, late, stale, rows,
                   clicked, bounds, sent, heard>>

\* nobody to ask, no DM, or the adapter threw, perhaps after the card was posted
CardFails(r) ==
    /\ card[r] \in {"opening", "sending"}
    /\ card' = [card EXCEPT ![r] = "failed"]
    /\ rows' = rows \ {r}
    /\ UNCHANGED <<out, attempts, at, reserved, pending, late, stale, clicked,
                   bounds, sent, heard>>

Shown(r) ==
    /\ at[r] = "asking" /\ card[r] = "out"
    /\ Finish(r, "pending")
    /\ UNCHANGED <<reserved, pending, late, stale, card, rows, clicked,
                   crashes, sent>>

NotShownMutant(r) ==
    /\ at[r] = "asking" /\ card[r] = "failed"
    /\ pending' = pending \ {r}
    /\ Finish(r, "denied")
    /\ UNCHANGED <<reserved, late, stale, card, rows, clicked, crashes, sent>>

\* the card failed, or the deadline came first: nothing executable is left behind
NotShown(r) ==
    /\ at[r] = "asking"
    /\ card[r] = "failed" \/ r \in late
    /\ pending' = pending \ {r}
    /\ Finish(r, "denied")
    /\ UNCHANGED <<reserved, late, stale, card, rows, clicked, crashes, sent>>

\* markDelivered
Mark(r) ==
    /\ at[r] = "told"
    /\ at' = [at EXCEPT ![r] = "idle"]
    /\ out' = [out EXCEPT ![r] = "delivered"]
    /\ UNCHANGED <<attempts, reserved, pending, late, stale, card, rows,
                   clicked, bounds, sent, heard>>

-----------------------------------------------------------------------------
(* The administrator.                                                       *)

Clickable(r) == r \in rows /\ card[r] \in {"sending", "out"}

ConsumeMutant(r) == UNCHANGED pending

\* consumed before anything is awaited, so that concurrent clicks find nothing
Consume(r) == pending' = pending \ {r}

Executable(r) == r \in pending /\ r \notin stale /\ r \notin late

\* the approval handler finds a live request: the call is dispatched
Approve(r) ==
    /\ Clickable(r) /\ Executable(r)
    /\ Consume(r)
    /\ Send(r)
    /\ clicked' = clicked \cup {r}
    /\ UNCHANGED <<out, attempts, at, reserved, late, stale, card, rows, bounds,
                   heard>>

\* a request that is unknown, stale, expired, or already being called; the row goes
ApproveDead(r) ==
    /\ Clickable(r) /\ ~Executable(r)
    /\ Consume(r)
    /\ rows' = rows \ {r}
    /\ Tell(r, IF r \in late \ stale THEN "expired"
                                                                       ELSE "denied")
    /\ UNCHANGED <<out, attempts, at, reserved, late, stale, card, clicked, bounds,
                   sent>>

Approved(r) ==
    /\ r \in clicked
    /\ clicked' = clicked \ {r}
    /\ rows' = rows \ {r}
    /\ \E a \in {"executed", "failed"} : Tell(r, a)
    /\ UNCHANGED <<out, attempts, at, reserved, pending, late, stale, card,
                   bounds, sent>>

\* finalizeReject, and the resolved handler that cancels what is held
Reject(r) ==
    /\ Clickable(r)
    /\ Consume(r)
    /\ rows' = rows \ {r}
    /\ Tell(r, "denied")
    /\ UNCHANGED <<out, attempts, at, reserved, late, stale, card, clicked, bounds,
                   sent>>

-----------------------------------------------------------------------------
(* Time, the operator, and the end of the process.                          *)

Deadline(r) ==
    /\ r \in pending \/ at[r] = "asking"
    /\ r \notin late
    /\ late' = late \cup {r}
    /\ UNCHANGED <<out, attempts, at, reserved, pending, stale, card, rows,
                   clicked, bounds, sent, heard>>

\* the configuration file is edited, or a session is closed
GoStale(r) ==
    /\ r \in pending \/ at[r] = "bound"
    /\ stale' = stale \cup {r}
    /\ UNCHANGED <<out, attempts, at, reserved, pending, late, card, rows,
                   clicked, bounds, sent, heard>>

\* a shutdown cancels what is held, a crash forgets it; a call in flight may have been
\* made, and a card on its way may have been posted
Restart ==
    /\ crashes < MaxCrashes
    /\ crashes' = crashes + 1
    /\ at' = [r \in Request |-> "idle"] /\ attempts' = [r \in Request |-> 0]
    /\ pending' = {} /\ clicked' = {}
    /\ \E fate \in {"out", "failed"} :
          card' = [r \in Request |-> CASE card[r] = "opening" -> "failed"
                                       [] card[r] = "sending" -> fate
                                       [] OTHER -> card[r]]
    /\ UNCHANGED <<out, reserved, late, stale, rows, faults, sent, heard>>

-----------------------------------------------------------------------------
Deliver(r) ==
    \/ Refuse(r) \/ Deny(r) \/ Full(r) \/ Call(r) \/ Called(r) \/ Bind(r)
    \/ Unshowable(r) \/ Hold(r) \/ Shown(r) \/ NotShown(r) \/ Mark(r)

Ask(r) == CardSent(r) \/ CardOut(r) \/ CardFails(r)

Decide(r) == Approve(r) \/ ApproveDead(r) \/ Approved(r) \/ Reject(r)

Next ==
    \/ \E r \in Request : Submit(r) \/ Deliver(r) \/ Ask(r) \/ Decide(r)
    \/ \E r \in Request : Deadline(r) \/ GoStale(r)
    \/ Restart

Spec == Init /\ [][Next]_vars

\* the polls come round to the session, calls have a timeout and questions a
\* deadline; nothing says that a card is ever delivered, or that anybody clicks
FairSpec ==
    /\ Spec
    /\ \A r \in Request :
        /\ WF_vars(Deliver(r))
        /\ WF_vars(Deadline(r))

-----------------------------------------------------------------------------
(* Properties.                                                              *)

\* "Crashed/ambiguous operations are never automatically retried" (session-tool-actions.ts):
\* however often the row is delivered again, the host dies and the administrators click,
\* a request is called at most once.
CalledOnce == \A r \in Request : sent[r] <= 1

\* An agent that was told no is not surprised by the call: nothing is dispatched for a
\* request after a denial, an expiry or a failure was told.  Requests whose true answer
\* could not be written are the exception: the catch tells "failed", and the repeated
\* delivery "denied", while the question is still with the administrator.
NoCallAfterNo ==
    [][\A r \in Request :
          sent'[r] # sent[r] =>
              heard[r] # "no"]_vars

\* The delivery of a request of an active session ends, although no adapter has
\* to answer: the deadline that races the card ends the wait (session-tool-actions.ts).
RequestsSettle ==
    \A r \in Request : (out[r] = "due") ~> (out[r] \in {"delivered", "failed"})
=============================================================================
