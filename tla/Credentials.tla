---------------------------- MODULE Credentials ----------------------------
(***************************************************************************)
(* Credential requests of agents: the OneCLI gateway holds an HTTP request  *)
(* and asks the host, which posts a card, stores a pending_approvals row and*)
(* waits in memory for a click or for its own timer, just before the        *)
(* gateway's deadline (modules/approvals/onecli-approvals.ts).  A click     *)
(* edits the card first and is dispatched after that await                  *)
(* (channels/chat-sdk-bridge.ts, modules/approvals/response-handler.ts).    *)
(***************************************************************************)
EXTENDS Integers

CONSTANTS
    Request,        \* requests the gateway holds
    MaxClicks,      \* bound: clicks
    MaxDeaths       \* bound: processes that end

ASSUME CredentialsBoundAssumption == MaxClicks \in Nat /\ MaxDeaths \in Nat

VARIABLES
    host,       \* "boot", "on" (handler started), "stopped" (stop handler, exit is due)
    phase,      \* handleRequest: "idle", "asking" (await the DM), "posting" (await the
                \* card), "waiting" (await the promise), "done", "lost" (with the process)
    answer,     \* what the gateway was told: "none", "approve", "deny"
    overdue,    \* requests the gateway gave up
    late,       \* requests whose timer was armed after that
    pending,    \* the map of resolvers and timers
    row,        \* pending_approvals: "none", "pending", "expired"
    card,       \* "none", "shown" (with buttons), "approve", "deny", "timeout"
    clicks,     \* clicks whose card is edited and that are not yet dispatched
    expiring,   \* expireApproval awaits the edit of the card
    sweep,      \* rows the start-up sweep has to go through
    clicked, deaths

requestVars == <<phase, answer, overdue, late>>
storeVars == <<row, card>>
boundVars == <<clicked, deaths>>
credentialVars == <<host, requestVars, pending, storeVars, clicks, expiring, sweep, boundVars>>

Decision == {"approve", "deny"}
Live == {"asking", "posting", "waiting"}
InFlight == {r \in Request : phase[r] \in Live}

CredentialsTypeOK ==
    /\ host \in {"boot", "on", "stopped"}
    /\ phase \in [Request -> Live \cup {"idle", "done", "lost"}]
    /\ answer \in [Request -> Decision \cup {"none"}]
    /\ row \in [Request -> {"none", "pending", "expired"}]
    /\ card \in [Request -> Decision \cup {"none", "shown", "timeout"}]
    /\ overdue \subseteq Request /\ late \subseteq overdue
    /\ pending \subseteq {r \in Request : phase[r] = "waiting" /\ answer[r] = "none"}
    /\ clicks \subseteq Request \X Decision
    /\ expiring \subseteq {r \in Request : phase[r] = "done"}
    /\ sweep \subseteq {r \in Request : phase[r] \in {"done", "lost"}}
    /\ \A r \in Request : (phase[r] = "done") = (answer[r] # "none")
    /\ clicked \in 0 .. MaxClicks /\ deaths \in 0 .. MaxDeaths

CredentialsInit ==
    /\ host = "boot" /\ phase = [r \in Request |-> "idle"]
    /\ answer = [r \in Request |-> "none"] /\ overdue = {} /\ late = {} /\ pending = {}
    /\ row = [r \in Request |-> "none"] /\ card = [r \in Request |-> "none"]
    /\ clicks = {} /\ expiring = {} /\ sweep = {} /\ clicked = 0 /\ deaths = 0

----------------------------------------------------------------------------
(* startOneCLIApprovalHandler: the sweep reads the rows before the handler    *)
(* takes its first request.                                                   *)
Start ==
    /\ host = "boot" /\ host' = "on"
    /\ sweep' = {r \in Request : row[r] # "none"}
    /\ UNCHANGED <<requestVars, pending, storeVars, clicks, expiring, boundVars>>

(* Mutant: the sweep takes the rows it finds when it gets to them.            *)
SweepMutant(r) ==
    /\ sweep # {} /\ row[r] # "none" /\ sweep' = sweep \ {r}
    /\ row' = [row EXCEPT ![r] = "none"]
    /\ UNCHANGED <<host, requestVars, pending, card, clicks, expiring, boundVars>>

Sweep(r) ==
    /\ r \in sweep /\ sweep' = sweep \ {r}
    /\ row' = [row EXCEPT ![r] = "none"]
    /\ \E c \in {card[r]} \cup (IF host = "on" THEN {"timeout"} ELSE {}) :
           card' = [card EXCEPT ![r] = c]
    /\ UNCHANGED <<host, requestVars, pending, clicks, expiring, boundVars>>

(* stopOneCLIApprovalHandler: the waiting requests are never resolved.        *)
StopHandler ==
    /\ host = "on" /\ deaths < MaxDeaths /\ host' = "stopped" /\ pending' = {}
    /\ UNCHANGED <<requestVars, storeVars, clicks, expiring, sweep, boundVars>>

Die ==
    /\ deaths < MaxDeaths /\ deaths' = deaths + 1
    /\ host' = "boot" /\ pending' = {} /\ clicks' = {} /\ expiring' = {} /\ sweep' = {}
    /\ phase' = [r \in Request |-> IF r \in InFlight THEN "lost" ELSE phase[r]]
    /\ UNCHANGED <<answer, overdue, late, storeVars, clicked>>

----------------------------------------------------------------------------
(* handleRequest.                                                             *)

Ask(r) ==
    /\ host = "on" /\ phase[r] = "idle"
    /\ phase' = [phase EXCEPT ![r] = "asking"]
    /\ UNCHANGED <<host, answer, overdue, late, pending, storeVars, clicks, expiring, sweep,
                   boundVars>>

Answer(r, d) ==
    /\ phase' = [phase EXCEPT ![r] = "done"] /\ answer' = [answer EXCEPT ![r] = d]
    /\ UNCHANGED <<overdue, late>>

(* No approver, no DM, or no adapter any more.                                *)
NobodyToAsk(r) ==
    /\ phase[r] = "asking" /\ Answer(r, "deny")
    /\ UNCHANGED <<host, pending, storeVars, clicks, expiring, sweep, boundVars>>

Post(r) ==
    /\ host = "on" /\ phase[r] = "asking"
    /\ phase' = [phase EXCEPT ![r] = "posting"]
    /\ UNCHANGED <<host, answer, overdue, late, pending, storeVars, clicks, expiring, sweep,
                   boundVars>>

(* The approver sees the card before deliver returns, or even when it fails.  *)
CardOut(r) ==
    /\ phase[r] = "posting" /\ card[r] = "none"
    /\ card' = [card EXCEPT ![r] = "shown"]
    /\ UNCHANGED <<host, requestVars, pending, row, clicks, expiring, sweep, boundVars>>

CardFails(r) ==
    /\ phase[r] = "posting" /\ Answer(r, "deny")
    /\ UNCHANGED <<host, pending, storeVars, clicks, expiring, sweep, boundVars>>

(* Mutant: the resolver is not entered into the map.                          *)
StoredMutant(r) ==
    /\ phase[r] = "posting" /\ card[r] # "none"
    /\ phase' = [phase EXCEPT ![r] = "waiting"] /\ row' = [row EXCEPT ![r] = "pending"]
    /\ UNCHANGED <<host, pending, answer, overdue, late, card, clicks, expiring, sweep,
                   boundVars>>

Stored(r) ==
    /\ phase[r] = "posting" /\ card[r] # "none"
    /\ phase' = [phase EXCEPT ![r] = "waiting"]
    /\ row' = [row EXCEPT ![r] = "pending"] /\ pending' = pending \cup {r}
    /\ late' = IF r \in overdue THEN late \cup {r} ELSE late
    /\ UNCHANGED <<host, answer, overdue, card, clicks, expiring, sweep, boundVars>>

(* The gateway's deadline comes after the timer, unless the timer was armed   *)
(* when it had passed.                                                        *)
GiveUp(r) ==
    /\ r \notin overdue /\ phase[r] # "idle" /\ r \notin pending
    /\ overdue' = overdue \cup {r}
    /\ UNCHANGED <<host, phase, answer, late, pending, storeVars, clicks, expiring, sweep,
                   boundVars>>

(* Mutant: the timer leaves the resolver in the map.                          *)
TimerMutant(r) ==
    /\ r \in pending /\ pending' = pending /\ Answer(r, "deny")
    /\ row' = [row EXCEPT ![r] = "expired"] /\ expiring' = expiring \cup {r}
    /\ UNCHANGED <<host, card, clicks, sweep, boundVars>>

(* expireApproval starts when the row is still there.                         *)
Timer(r) ==
    /\ r \in pending /\ pending' = pending \ {r}
    /\ Answer(r, "deny")
    /\ row' = [row EXCEPT ![r] = IF @ = "none" THEN "none" ELSE "expired"]
    /\ expiring' = IF row[r] = "none" THEN expiring ELSE expiring \cup {r}
    /\ UNCHANGED <<host, card, clicks, sweep, boundVars>>

(* Mutant: the row stays when the card cannot be edited.                      *)
ExpiredMutant(r) ==
    /\ r \in expiring /\ expiring' = expiring \ {r}
    /\ \/ card' = [card EXCEPT ![r] = "timeout"] /\ row' = [row EXCEPT ![r] = "none"]
       \/ UNCHANGED storeVars
    /\ UNCHANGED <<host, requestVars, pending, clicks, sweep, boundVars>>

Expired(r) ==
    /\ r \in expiring /\ expiring' = expiring \ {r}
    /\ row' = [row EXCEPT ![r] = "none"]
    /\ \E c \in {card[r]} \cup (IF host = "on" THEN {"timeout"} ELSE {}) :
           card' = [card EXCEPT ![r] = c]
    /\ UNCHANGED <<host, requestVars, pending, clicks, sweep, boundVars>>

----------------------------------------------------------------------------
(* A click on a card with buttons: the edit of the card, which may fail.      *)
Click(r, d) ==
    /\ card[r] = "shown" /\ clicked < MaxClicks /\ clicked' = clicked + 1
    /\ clicks' = clicks \cup {<<r, d>>}
    /\ \E c \in {d, "shown"} : card' = [card EXCEPT ![r] = c]
    /\ UNCHANGED <<host, requestVars, pending, row, expiring, sweep, deaths>>

(* resolveOneCLIApproval, or a row whose resolver is gone, or no row.         *)
Dispatch(r, d) ==
    /\ <<r, d>> \in clicks /\ clicks' = clicks \ {<<r, d>>}
    /\ row' = [row EXCEPT ![r] = "none"]
    /\ IF r \in pending /\ row[r] # "none"
       THEN pending' = pending \ {r} /\ Answer(r, d)
       ELSE UNCHANGED <<requestVars, pending>>
    /\ UNCHANGED <<host, card, expiring, sweep, boundVars>>

HandleRequest(r) == NobodyToAsk(r) \/ Post(r) \/ CardOut(r) \/ CardFails(r) \/ Stored(r)

CredentialsNext ==
    \/ Start \/ StopHandler \/ Die
    \/ \E r \in Request :
           \/ Ask(r) \/ HandleRequest(r) \/ Timer(r) \/ Expired(r) \/ Sweep(r) \/ GiveUp(r)
           \/ \E d \in Decision : Click(r, d) \/ Dispatch(r, d)

CredentialsSpec == CredentialsInit /\ [][CredentialsNext]_credentialVars

(* Calls to the platform return, timers fire, and a host that stops exits and *)
(* is started again.                                                          *)
CredentialsFairSpec ==
    /\ CredentialsSpec
    /\ WF_credentialVars(Start) /\ WF_credentialVars(host = "stopped" /\ Die)
    /\ \A r \in Request :
           /\ WF_credentialVars(HandleRequest(r)) /\ WF_credentialVars(Timer(r))
           /\ WF_credentialVars(Expired(r)) /\ WF_credentialVars(Sweep(r))

----------------------------------------------------------------------------
(* While a request waits its row is there and pending: the response handler   *)
(* claims a click by the row, so without it no answer could reach the request.*)
(* Neither the sweep of what an earlier process left, which runs along with   *)
(* new requests, nor a click before the row existed takes it away.            *)
WaitingIsAnswerable == \A r \in pending : row[r] = "pending"

(* The gateway gets an answer to a request the host took, whoever does not    *)
(* click, unless the process ends first.                                      *)
RequestsAreAnswered ==
    \A r \in Request : phase[r] \in Live ~> phase[r] \in {"done", "lost"}

(* No row outlives its request for good, whether the request was answered,    *)
(* timed out, or was lost with its process ("Startup sweep marks leftover     *)
(* cards as timed out after a host restart and drops the rows").              *)
RowsGo == \A r \in Request : row[r] # "none" ~> row[r] = "none"

=============================================================================
