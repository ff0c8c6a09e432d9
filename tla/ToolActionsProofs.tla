-------------------------- MODULE ToolActionsProofs --------------------------
(***************************************************************************)
(* Theorems about ToolActions, for any number of requests, held requests,   *)
(* drains, attempts and deaths of the host.                                 *)
(***************************************************************************)
EXTENDS ToolActions, TLAPS

\* A request can still come to a call: it was never reserved, the broker has it, or it is
\* held for an administrator.
Callable(r) == r \notin reserved \/ at[r] = "bound" \/ r \in pending

\* A delivery in flight is of a reserved row that is due; a row not written yet was not
\* reserved; and a row that may be tried has attempts left.
DeliveryFits ==
    \A r \in Request :
        /\ at[r] # "idle" => r \in reserved /\ out[r] = "due"
        /\ out[r] = "none" => r \notin reserved
        /\ out[r] \in {"none", "due"} => attempts[r] < MaxAttempts

\* A request is in one hand: with the broker, held, being called by the delivery, or being
\* called by a click.
OneHand ==
    \A r \in Request :
        /\ at[r] \in {"bound", "calling"} => r \notin pending
        /\ r \in clicked => ~Callable(r)

\* What can still be called was not called, and its agent was not told no; if its row is to
\* be delivered again, then because the agent's answer could not be written.
Unspent ==
    \A r \in Request :
        /\ Callable(r) => sent[r] = 0 /\ heard[r] # "no"
        /\ r \in pending /\ at[r] = "idle" /\ out[r] = "due" => heard[r] = "else"

\* A card and its row are of a request that the broker gave away.
CardFits == \A r \in Request : card[r] # "none" \/ r \in rows => r \in reserved /\ at[r] # "bound"

Invariant == TypeOK /\ DeliveryFits /\ OneHand /\ CardFits /\ Unspent /\ CalledOnce

\* The invariant holds initially.
LEMMA InitInvariant == Init => Invariant
BY BoundAssumption DEF Init, Invariant, TypeOK, DeliveryFits, OneHand, CardFits, Unspent,
   Callable, CalledOnce

\* The steps of the delivery action that reserve the request.
LEMMA ReserveInvariant ==
    ASSUME Invariant, NEW r \in Request, Deny(r) \/ Full(r) \/ Call(r) \/ Bind(r)
    PROVE  Invariant'
<1>. USE BoundAssumption DEF Invariant, TypeOK, DeliveryFits, OneHand, CardFits, Unspent, Callable,
         CalledOnce, bounds, Taken, Reserve, Prune, No
<1>1. CASE Deny(r)
  <2>. PICK a \in {"denied", "failed"} : Finish(r, a)
    BY <1>1 DEF Deny
  <2>1. CASE Told(r, a)
    BY <1>1, <2>1 DEF Deny, Told, Tell
  <2>2. CASE Mistold(r)
    BY <1>1, <2>2 DEF Deny, Mistold, TellElse
  <2>3. CASE Untold(r)
    BY <1>1, <2>3 DEF Deny, Untold, TellElse
  <2>. QED
    BY <2>1, <2>2, <2>3 DEF Finish
<1>2. CASE Full(r)
  <2>1. CASE Told(r, "denied")
    BY <1>2, <2>1 DEF Full, Told, Tell
  <2>2. CASE Mistold(r)
    BY <1>2, <2>2 DEF Full, Mistold, TellElse
  <2>3. CASE Untold(r)
    BY <1>2, <2>3 DEF Full, Untold, TellElse
  <2>. QED
    BY <1>2, <2>1, <2>2, <2>3 DEF Full, Finish
<1>3. CASE Call(r)
  BY <1>3 DEF Call, Send
<1>4. CASE Bind(r)
  BY <1>4 DEF Bind
<1>. QED
  BY <1>1, <1>2, <1>3, <1>4

\* The other answers of the delivery action, each of which may be told, told wrongly, or not
\* told.
LEMMA AnswerInvariant ==
    ASSUME Invariant, NEW r \in Request,
           Refuse(r) \/ Called(r) \/ Unshowable(r) \/ Shown(r) \/ NotShown(r)
    PROVE  Invariant'
<1>. USE BoundAssumption DEF Invariant, TypeOK, DeliveryFits, OneHand, CardFits, Unspent, Callable,
         CalledOnce, bounds, No
<1>. DEFINE Frame == /\ UNCHANGED <<reserved, late, stale, card, rows, clicked, crashes, sent>>
                     /\ pending' \in {pending, pending \ {r}}
<1>1. ASSUME NEW a \in {"denied", "executed", "failed", "pending"}, Finish(r, a), Frame,
             at[r] # "idle" \/ Taken(r),
             r \in reserved,
             r \notin pending' \/ heard[r] = "else" \/ a = "pending",
             at[r] = "bound" => r \notin pending'
      PROVE  Invariant'
  <2>1. CASE Told(r, a)
    BY <1>1, <2>1 DEF Told, Tell, Taken
  <2>2. CASE Mistold(r)
    BY <1>1, <2>2 DEF Mistold, TellElse, Taken
  <2>3. CASE Untold(r)
    BY <1>1, <2>3 DEF Untold, TellElse, Taken
  <2>. QED
    BY <1>1, <2>1, <2>2, <2>3 DEF Finish
<1>2. CASE Refuse(r)
  BY <1>1, <1>2 DEF Refuse, Taken
<1>3. CASE Called(r)
  BY <1>1, <1>3 DEF Called
<1>4. CASE Unshowable(r)
  BY <1>1, <1>4 DEF Unshowable
<1>5. CASE Shown(r)
  BY <1>1, <1>5 DEF Shown
<1>6. CASE NotShown(r)
  BY <1>1, <1>6 DEF NotShown
<1>. QED
  BY <1>2, <1>3, <1>4, <1>5, <1>6

\* What tells the agent nothing: submission, hold, card, mark, deadline, staleness, restart.
LEMMA QuietInvariant ==
    ASSUME Invariant,
           \/ \E r \in Request : \/ Submit(r) \/ Hold(r) \/ Mark(r) \/ Ask(r)
                                 \/ Deadline(r) \/ GoStale(r)
           \/ Restart
    PROVE  Invariant'
<1>. USE BoundAssumption DEF Invariant, TypeOK, DeliveryFits, OneHand, CardFits, Unspent, Callable,
         CalledOnce, bounds
<1>1. ASSUME NEW r \in Request, Submit(r) PROVE Invariant'
  BY <1>1 DEF Submit
<1>2. ASSUME NEW r \in Request, Hold(r) PROVE Invariant'
  BY <1>2 DEF Hold
<1>3. ASSUME NEW r \in Request, Mark(r) PROVE Invariant'
  BY <1>3 DEF Mark
<1>4. ASSUME NEW r \in Request, Ask(r) PROVE Invariant'
  BY <1>4 DEF Ask, CardSent, CardOut, CardFails
<1>5. ASSUME NEW r \in Request, Deadline(r) \/ GoStale(r) PROVE Invariant'
  BY <1>5 DEF Deadline, GoStale
<1>6. CASE Restart
  BY <1>6 DEF Restart
<1>. QED
  BY <1>1, <1>2, <1>3, <1>4, <1>5, <1>6

\* The administrator's clicks: the request is consumed before the call is awaited.
LEMMA DecideInvariant ==
    ASSUME Invariant, NEW r \in Request, Decide(r)
    PROVE  Invariant'
<1>. USE BoundAssumption DEF Invariant, TypeOK, DeliveryFits, OneHand, CardFits, Unspent, Callable,
         CalledOnce, bounds, No, Consume, Clickable
<1>1. CASE Approve(r)
  BY <1>1 DEF Approve, Executable, Send
<1>2. CASE ApproveDead(r)
  BY <1>2 DEF ApproveDead, Tell
<1>3. CASE Approved(r)
  BY <1>3 DEF Approved, Tell
<1>4. CASE Reject(r)
  BY <1>4 DEF Reject, Tell
<1>. QED
  BY <1>1, <1>2, <1>3, <1>4 DEF Decide

\* The invariant is inductive.
THEOREM Invariance == Spec => []Invariant
<1>1. ASSUME Invariant, [Next]_vars PROVE Invariant'
  <2>1. ASSUME NEW r \in Request, Deliver(r) PROVE Invariant'
    BY <1>1, <2>1, ReserveInvariant, AnswerInvariant, QuietInvariant DEF Deliver
  <2>2. ASSUME NEW r \in Request, Submit(r) \/ Ask(r) \/ Deadline(r) \/ GoStale(r) PROVE Invariant'
    BY <1>1, <2>2, QuietInvariant
  <2>3. ASSUME NEW r \in Request, Decide(r) PROVE Invariant'
    BY <1>1, <2>3, DecideInvariant
  <2>4. CASE Restart
    BY <1>1, <2>4, QuietInvariant
  <2>5. CASE UNCHANGED vars
    BY <1>1, <2>5 DEF vars, bounds, Invariant, TypeOK, DeliveryFits, OneHand, CardFits, Unspent,
       Callable, CalledOnce
  <2>. QED
    BY <1>1, <2>1, <2>2, <2>3, <2>4, <2>5 DEF Next
<1>. QED
  BY <1>1, InitInvariant, PTL DEF Spec

\* Every reachable state is well typed: what is held was reserved, and no row is tried more
\* often than MAX_DELIVERY_ATTEMPTS.
THEOREM TypeCorrectness == Spec => []TypeOK
BY Invariance, PTL DEF Invariant

\* No request is ever called twice (session-tool-actions.ts: "Crashed/ambiguous operations
\* are never automatically retried").
THEOREM NeverCalledTwice == Spec => []CalledOnce
BY Invariance, PTL DEF Invariant

\* Nothing is called after its agent was told no.
THEOREM NoCallAfterwards == Spec => NoCallAfterNo
<1>1. ASSUME Invariant, [Next]_vars
      PROVE  [\A r \in Request : sent'[r] # sent[r] => heard[r] # "no"]_vars
  <2>. SUFFICES ASSUME Next, NEW q \in Request, sent'[q] # sent[q] PROVE heard[q] # "no"
    BY <1>1
  <2>. USE <1>1 DEF Invariant, TypeOK, Unspent, Callable
  <2>1. ASSUME NEW r \in Request, Call(r) \/ Approve(r) PROVE heard[q] # "no"
    BY <2>1 DEF Call, Approve, Send, Reserve, Executable
  <2>2. ASSUME NEW r \in Request,
               \/ Submit(r) \/ Refuse(r) \/ Deny(r) \/ Full(r) \/ Called(r) \/ Bind(r)
               \/ Unshowable(r) \/ Hold(r) \/ Shown(r) \/ NotShown(r) \/ Mark(r) \/ Ask(r)
               \/ ApproveDead(r) \/ Approved(r) \/ Reject(r) \/ Deadline(r) \/ GoStale(r)
        PROVE  UNCHANGED sent
    BY <2>2 DEF Submit, Refuse, Deny, Full, Called, Bind, Unshowable, Hold, Shown, NotShown, Mark,
       Ask, CardSent, CardOut, CardFails, ApproveDead, Approved, Reject, Deadline, GoStale
  <2>3. CASE Restart
    BY <2>3 DEF Restart
  <2>. QED
    BY <2>1, <2>2, <2>3 DEF Next, Deliver, Decide
<1>. QED
  BY <1>1, Invariance, PTL DEF Spec, NoCallAfterNo
=============================================================================
