----------------------------- MODULE Approvals -----------------------------
(***************************************************************************)
(* Held actions: the pending_approvals rows of the central database, the    *)
(* card an admin clicks, the handlers of clicks (response-handler.ts), the  *)
(* reject-with-reason hold (reason-capture.ts), its finalizer in the host   *)
(* sweep, and the guard that an approved action passes again (guard.ts).    *)
(*                                                                          *)
(* Handlers are async: between the row being read and the row being deleted *)
(* other clicks, replies, revocations and the sweep run, and the host may   *)
(* die.  All requests of the model go to one admin, on one DM channel.      *)
(***************************************************************************)
EXTENDS Integers, FiniteSets

CONSTANTS
    Request,        \* approval ids
    Slot,           \* click handlers that can be in flight at the same time
    None,           \* no request
    MaxClicks,      \* bound: clicks in a behaviour
    MaxCrashes      \* bound: crashes of the host process

ASSUME NoneAssumption == None \notin Request
ASSUME BoundAssumption == MaxClicks \in Nat /\ MaxCrashes \in Nat

VARIABLES
    card,           \* requestApproval: "none", "sending", "out", "failed", "lost" in a crash
    row,            \* the row: "none", "pending", "awaiting" (a reason), "gone"
    expired,        \* awaiting rows whose expires_at has passed
    revoked,        \* what the guard's structural checks would now deny
    at, of,         \* per handler in flight: where it stands, and its request
    armed,          \* awaitingReason of the admin's DM, lost with the host process
    sweeping,       \* rows the finalizer of the sweep has listed and not done yet
    clicks, crashes,
    \* history: executions, rejection notes, other notes; rejections a crash cut in two
    executed, rejected, told, torn

handlers == <<at, of>>
bounds == <<clicks, crashes>>
history == <<executed, rejected, told, torn>>
vars == <<card, row, expired, revoked, handlers, armed, sweeping, bounds, history>>

Cap == MaxClicks + MaxCrashes + 2
Times == 0 .. Cap

Asked == {r \in Request : row[r] # "none"}

TypeOK ==
    /\ card \in [Request -> {"none", "sending", "out", "failed", "lost"}]
    /\ row \in [Request -> {"none", "pending", "awaiting", "gone"}]
    /\ expired \in SUBSET Request /\ revoked \in SUBSET Request
    /\ at \in [Slot -> {"free", "guard", "apply", "prompt"}]
    /\ of \in [Slot -> Asked \cup {None}]
    /\ armed \in Asked \cup {None}
    /\ sweeping \in SUBSET Asked
    /\ clicks \in 0 .. MaxClicks /\ crashes \in 0 .. MaxCrashes
    /\ executed \in [Request -> Times] /\ rejected \in [Request -> Times]
    /\ told \in [Request -> Times] /\ torn \in SUBSET Request
    /\ \A r \in Request :
        /\ row[r] = "none" <=> card[r] = "none"
        /\ card[r] = "failed" => row[r] = "gone"
        /\ r \in expired => row[r] = "awaiting"
    /\ \A s \in Slot : at[s] = "free" <=> of[s] = None

Init ==
    /\ card = [r \in Request |-> "none"] /\ row = [r \in Request |-> "none"]
    /\ expired = {} /\ revoked = {}
    /\ at = [s \in Slot |-> "free"] /\ of = [s \in Slot |-> None]
    /\ armed = None /\ sweeping = {}
    /\ clicks = 0 /\ crashes = 0
    /\ executed = [r \in Request |-> 0] /\ rejected = [r \in Request |-> 0]
    /\ told = [r \in Request |-> 0] /\ torn = {}

-----------------------------------------------------------------------------
Live(r) == row[r] \in {"pending", "awaiting"}

OneMore(f, r) == [f EXCEPT ![r] = IF @ < Cap THEN @ + 1 ELSE @]

\* deletePendingApproval
Delete(r) == row' = [row EXCEPT ![r] = "gone"] /\ expired' = expired \ {r}

\* finalizeReject: the note to the agent, then the row
FinalizeReject(r) ==
    /\ rejected' = OneMore(rejected, r)
    /\ Delete(r)

Free(s) == at' = [at EXCEPT ![s] = "free"] /\ of' = [of EXCEPT ![s] = None]
Busy(s, where, r) == at' = [at EXCEPT ![s] = where] /\ of' = [of EXCEPT ![s] = r]

\* what a host process forgets when it dies; a card being sent may or may not be out
HostDies ==
    /\ crashes < MaxCrashes
    /\ crashes' = crashes + 1
    /\ at' = [s \in Slot |-> "free"] /\ of' = [s \in Slot |-> None]
    /\ armed' = None /\ sweeping' = {}
    /\ \E fate \in {"out", "lost"} :
          card' = [r \in Request |-> IF card[r] = "sending" THEN fate ELSE card[r]]

-----------------------------------------------------------------------------
(* Asking.                                                                  *)

\* requestApproval: the row is there before the card is delivered, ...
Ask(r) ==
    /\ card[r] = "none"
    /\ card' = [card EXCEPT ![r] = "sending"]
    /\ row' = [row EXCEPT ![r] = "pending"]
    /\ UNCHANGED <<expired, revoked, handlers, armed, sweeping, bounds, history>>

CardOut(r) ==
    /\ card[r] = "sending"
    /\ card' = [card EXCEPT ![r] = "out"]
    /\ UNCHANGED <<row, expired, revoked, handlers, armed, sweeping, bounds, history>>

\* ... and dropped, and the agent told, when the delivery throws
CardFails(r) ==
    /\ card[r] = "sending"
    /\ card' = [card EXCEPT ![r] = "failed"]
    /\ Delete(r)
    /\ told' = OneMore(told, r)
    /\ UNCHANGED <<revoked, handlers, armed, sweeping, bounds, executed, rejected, torn>>

-----------------------------------------------------------------------------
(* Clicking.                                                                *)

\* handleApprovalsResponse: an authorized click that finds the row, in either status
Click(s, r) ==
    /\ clicks < MaxClicks
    /\ at[s] = "free"
    /\ card[r] \in {"sending", "out"} /\ Live(r)
    /\ clicks' = clicks + 1

\* Approve: on to the handler, which consults the guard again
ClickApprove(s, r) ==
    /\ Click(s, r)
    /\ Busy(s, "guard", r)
    /\ UNCHANGED <<card, row, expired, revoked, armed, sweeping, crashes, history>>

\* Reject: finalized within the click
ClickReject(s, r) ==
    /\ Click(s, r)
    /\ FinalizeReject(r)
    /\ UNCHANGED <<card, revoked, handlers, armed, sweeping, crashes, executed, told, torn>>

\* Reject with reason: armReasonCapture opens the DM and sends the prompt
ClickReason(s, r) ==
    /\ Click(s, r)
    /\ Busy(s, "prompt", r)
    /\ UNCHANGED <<card, row, expired, revoked, armed, sweeping, crashes, history>>

GuardMutant(s) ==
    /\ at[s] = "guard"
    /\ Busy(s, "apply", of[s])
    /\ IF of[s] \in revoked
       THEN told' = OneMore(told, of[s]) /\ UNCHANGED executed
       ELSE executed' = OneMore(executed, of[s]) /\ UNCHANGED told
    /\ UNCHANGED <<card, row, expired, revoked, armed, sweeping, bounds, rejected, torn>>

\* the approved action re-enters its guard with the row as its grant: a live row
\* satisfies the hold, a structural deny or a dead row refuses, and the agent is told
Guard(s) ==
    /\ at[s] = "guard"
    /\ Busy(s, "apply", of[s])
    /\ IF of[s] \in revoked \/ ~Live(of[s])
       THEN told' = OneMore(told, of[s]) /\ UNCHANGED executed
       ELSE executed' = OneMore(executed, of[s]) /\ UNCHANGED told
    /\ UNCHANGED <<card, row, expired, revoked, armed, sweeping, bounds, rejected, torn>>

\* the handler has returned, or thrown and the agent is told: the row is dropped
Applied(s) ==
    /\ at[s] = "apply"
    /\ Delete(of[s])
    /\ told' \in {told, OneMore(told, of[s])}
    /\ Free(s)
    /\ UNCHANGED <<card, revoked, armed, sweeping, bounds, executed, rejected, torn>>

\* markApprovalAwaitingReason with a new deadline, and the arming of the DM; the
\* UPDATE touches nothing when the row is gone
PromptSent(s) ==
    /\ at[s] = "prompt"
    /\ IF Live(of[s])
       THEN row' = [row EXCEPT ![of[s]] = "awaiting"] /\ expired' = expired \ {of[s]}
       ELSE UNCHANGED <<row, expired>>
    /\ armed' = of[s]
    /\ Free(s)
    /\ UNCHANGED <<card, revoked, sweeping, bounds, history>>

\* no DM, no adapter, or the prompt could not be delivered
PromptFails(s) ==
    /\ at[s] = "prompt"
    /\ FinalizeReject(of[s])
    /\ Free(s)
    /\ UNCHANGED <<card, revoked, armed, sweeping, bounds, executed, told, torn>>

\* captureReasonReply: the admin's next DM disarms, and finalizes a row still awaiting
Reply ==
    /\ armed # None
    /\ armed' = None
    /\ IF row[armed] = "awaiting"
       THEN FinalizeReject(armed)
       ELSE UNCHANGED <<row, expired, rejected>>
    /\ UNCHANGED <<card, revoked, handlers, sweeping, bounds, executed, told, torn>>

-----------------------------------------------------------------------------
(* The window of a hold, and the finalizer in the host sweep.               *)

Expire(r) ==
    /\ row[r] = "awaiting" /\ r \notin expired
    /\ expired' = expired \cup {r}
    /\ UNCHANGED <<card, row, revoked, handlers, armed, sweeping, bounds, history>>

SweepListMutant ==
    /\ sweeping = {}
    /\ sweeping' = IF armed = None THEN {} ELSE expired \cap {armed}
    /\ sweeping' # {}
    /\ UNCHANGED <<card, row, expired, revoked, handlers, armed, bounds, history>>

\* getExpiredAwaitingReasonApprovals
SweepList ==
    /\ sweeping = {}
    /\ sweeping' = {r \in expired : row[r] = "awaiting"}
    /\ sweeping' # {}
    /\ UNCHANGED <<card, row, expired, revoked, handlers, armed, bounds, history>>

\* each listed row is finalized as it was when listed
SweepOne(r) ==
    /\ r \in sweeping
    /\ sweeping' = sweeping \ {r}
    /\ FinalizeReject(r)
    /\ UNCHANGED <<card, revoked, handlers, armed, bounds, executed, told, torn>>

-----------------------------------------------------------------------------
\* a destination or a membership the action depends on is removed
Revoke(r) ==
    /\ row[r] # "none" /\ r \notin revoked
    /\ revoked' = revoked \cup {r}
    /\ UNCHANGED <<card, row, expired, handlers, armed, sweeping, bounds, history>>

Restart ==
    /\ HostDies
    /\ UNCHANGED <<row, expired, revoked, clicks, history>>

TearRejectMutant(r) ==
    /\ Live(r) /\ card[r] \in {"sending", "out"}
    /\ HostDies
    /\ Delete(r)
    /\ torn' = torn \cup {r}
    /\ UNCHANGED <<revoked, clicks, executed, rejected, told>>

\* the host dies within finalizeReject: the note is in the session's database, the row
\* still in the central one
TearReject(r) ==
    /\ Live(r) /\ card[r] \in {"sending", "out"}
    /\ HostDies
    /\ rejected' = OneMore(rejected, r)
    /\ torn' = torn \cup {r}
    /\ UNCHANGED <<row, expired, revoked, clicks, executed, told>>

-----------------------------------------------------------------------------
Handle(s) ==
    \/ \E r \in Request : ClickApprove(s, r) \/ ClickReject(s, r) \/ ClickReason(s, r)
    \/ Guard(s) \/ Applied(s) \/ PromptSent(s) \/ PromptFails(s)

Next ==
    \/ \E r \in Request : Ask(r) \/ CardOut(r) \/ CardFails(r) \/ Expire(r)
    \/ \E s \in Slot : Handle(s)
    \/ Reply \/ SweepList
    \/ \E r \in Request : SweepOne(r) \/ Revoke(r) \/ TearReject(r)
    \/ Restart

Spec == Init /\ [][Next]_vars

\* the sweep comes round, time passes, and awaited deliveries and handlers settle
FairSpec ==
    /\ Spec
    /\ WF_vars(SweepList)
    /\ \A r \in Request : WF_vars(Expire(r)) /\ WF_vars(SweepOne(r))
    /\ \A s \in Slot : WF_vars(Guard(s)) /\ WF_vars(Applied(s)) /\ WF_vars(PromptSent(s) \/ PromptFails(s))

-----------------------------------------------------------------------------
(* Properties.                                                              *)

\* A request leaves the table only after its agent heard of a rejection or a failure,
\* or the action ran: wherever the host dies, "the requesting agent always gets its
\* decision" (reason-capture.ts), because notes are written before rows are deleted.
DecisionReachesAgent ==
    \A r \in Request : row[r] = "gone" => executed[r] + rejected[r] + told[r] > 0

\* An agent that was told of a rejection never sees the action run after all: a second
\* click that was already on its way meets a dead grant (guard.ts grantSatisfies).  A
\* rejection that a crash cut in two is the exception: its row can still be approved.
NoExecutionAfterReject ==
    [][\A r \in Request :
          executed'[r] > executed[r] => rejected[r] = 0 \/ r \in torn]_vars

\* "The hold is a durable row, so the requesting agent always gets its decision"
\* (reason-capture.ts): though the arming is in memory and another prompt replaces it,
\* a hold ends.
HoldsAreDecided == \A r \in Request : (row[r] = "awaiting") ~> (row[r] = "gone")

-----------------------------------------------------------------------------
(* Said of the code by comments or documents, and refuted by TLC: no run    *)
(* claims what follows (README.md, "Disagreements met").                    *)

\* "resolution deletes it after the handler returns, so a grant executes exactly once"
\* (primitive.ts).
GrantExecutesOnce == \A r \in Request : executed[r] <= 1

\* "The agent is notified exactly once: after the reason arrives, or after the sweep's
\* timeout if the admin ghosts" (response-handler.ts).
RejectedOnce == \A r \in Request : rejected[r] <= 1
=============================================================================
