-------------------------- MODULE ApprovalsProofs --------------------------
(***************************************************************************)
(* What holds of held actions for every set of requests, any number of      *)
(* handlers in flight, clicks and crashes.  IInv is inductive relative to   *)
(* TypeOK: it adds to DecisionReachesAgent what a handler about to drop the *)
(* row has already done, and what a rejection has done to its row.          *)
(***************************************************************************)
EXTENDS Approvals, TLAPS

\* a handler that is about to drop its row has run the action or told the agent
AppliedIsHeard ==
    \A s \in Slot : at[s] = "apply" => executed[of[s]] + told[of[s]] > 0

\* a rejection takes its row along, unless a crash cut it in two
RejectedIsGone ==
    \A r \in Request : rejected[r] > 0 => row[r] = "gone" \/ r \in torn

IInv == DecisionReachesAgent /\ AppliedIsHeard /\ RejectedIsGone

-----------------------------------------------------------------------------
\* The bound of the counters is a positive number.
LEMMA CapType == Cap \in Nat /\ Cap > 0 /\ 0 \in Times
  BY BoundAssumption DEF Cap, Times

\* Counting keeps the type, never counts down, and leaves a positive count.
LEMMA OneMoreTypes ==
    ASSUME NEW f \in [Request -> Times], NEW r \in Request
    PROVE  /\ OneMore(f, r) \in [Request -> Times]
           /\ OneMore(f, r)[r] > 0
           /\ \A q \in Request : q # r => OneMore(f, r)[q] = f[q]
           /\ \A q \in Request : OneMore(f, r)[q] >= f[q]
<1>1. Cap \in Nat /\ Cap > 0
  BY CapType
<1>2. \A q \in Request : f[q] \in 0 .. Cap
  BY DEF Times
<1>3. (IF f[r] < Cap THEN f[r] + 1 ELSE f[r]) \in 0 .. Cap
  BY <1>1, <1>2
<1> QED
  BY <1>1, <1>2, <1>3 DEF OneMore, Times

\* Every variable is of its type initially, ...
LEMMA InitTypes == Init => TypeOK
  BY CapType, BoundAssumption DEF Init, TypeOK

\* ... and every handler keeps it so.
LEMMA NextTypes == TypeOK /\ [Next]_vars => TypeOK'
<1> SUFFICES ASSUME TypeOK, [Next]_vars PROVE TypeOK'
  OBVIOUS
<1>0. \A s \in Slot : at[s] # "free" => of[s] \in Asked /\ of[s] \in Request
  BY DEF TypeOK, Asked
<1> USE <1>0, OneMoreTypes, NoneAssumption, BoundAssumption DEF TypeOK, Asked
<1>1. ASSUME NEW r \in Request, Ask(r) PROVE TypeOK'
  BY <1>1 DEF Ask, handlers, bounds, history
<1>2. ASSUME NEW r \in Request, CardOut(r) PROVE TypeOK'
  BY <1>2 DEF CardOut, handlers, bounds, history
<1>3. ASSUME NEW r \in Request, CardFails(r) PROVE TypeOK'
  BY <1>3, Z3 DEF CardFails, Delete, handlers, bounds
<1>4. ASSUME NEW r \in Request, Expire(r) PROVE TypeOK'
  BY <1>4 DEF Expire, handlers, bounds, history
<1>5. ASSUME NEW s \in Slot, NEW r \in Request, ClickApprove(s, r) PROVE TypeOK'
  BY <1>5 DEF ClickApprove, Click, Busy, history
<1>6. ASSUME NEW s \in Slot, NEW r \in Request, ClickReject(s, r) PROVE TypeOK'
  BY <1>6, Z3 DEF ClickReject, Click, FinalizeReject, Delete, Live, handlers
<1>7. ASSUME NEW s \in Slot, NEW r \in Request, ClickReason(s, r) PROVE TypeOK'
  BY <1>7 DEF ClickReason, Click, Busy, history
<1>8. ASSUME NEW s \in Slot, Guard(s) PROVE TypeOK'
  BY <1>8 DEF Guard, Busy, bounds
<1>9. ASSUME NEW s \in Slot, Applied(s) PROVE TypeOK'
  BY <1>9 DEF Applied, Free, Delete, bounds
<1>10. ASSUME NEW s \in Slot, PromptSent(s) PROVE TypeOK'
  BY <1>10 DEF PromptSent, Free, Live, bounds, history
<1>11. ASSUME NEW s \in Slot, PromptFails(s) PROVE TypeOK'
  BY <1>11 DEF PromptFails, Free, FinalizeReject, Delete, bounds
<1>12. CASE Reply
  <2>1. armed \in Request
    BY <1>12 DEF Reply
  <2>2. CASE row[armed] = "awaiting"
    <3>1. FinalizeReject(armed) /\ armed' = None
      BY <1>12, <2>2 DEF Reply
    <3>2. rejected' \in [Request -> Times]
      BY <2>1, <3>1 DEF FinalizeReject
    <3>3. row' = [row EXCEPT ![armed] = "gone"] /\ expired' = expired \ {armed}
      BY <3>1 DEF FinalizeReject, Delete
    <3>4. Asked' = Asked /\ row' \in [Request -> {"none", "pending", "awaiting", "gone"}]
      BY <2>1, <2>2, <3>3
    <3>5. \A r \in Request : /\ row'[r] = "none" <=> card[r] = "none"
                             /\ card[r] = "failed" => row'[r] = "gone"
                             /\ r \in expired' => row'[r] = "awaiting"
      BY <2>1, <2>2, <3>3
    <3> HIDE DEF Asked
    <3> QED
      BY <1>12, <3>1, <3>2, <3>3, <3>4, <3>5 DEF Reply, handlers, bounds
  <2>3. CASE row[armed] # "awaiting"
    BY <1>12, <2>3 DEF Reply, handlers, bounds
  <2> QED
    BY <2>2, <2>3
<1>13. CASE SweepList
  BY <1>13 DEF SweepList, handlers, bounds, history
<1>14. ASSUME NEW r \in Request, SweepOne(r) PROVE TypeOK'
  BY <1>14 DEF SweepOne, FinalizeReject, Delete, handlers, bounds
<1>15. ASSUME NEW r \in Request, Revoke(r) PROVE TypeOK'
  BY <1>15 DEF Revoke, handlers, bounds, history
<1>16. ASSUME NEW r \in Request, TearReject(r) PROVE TypeOK'
  BY <1>16 DEF TearReject, HostDies
<1>17. CASE Restart
  BY <1>17 DEF Restart, HostDies, history
<1>18. CASE UNCHANGED vars
  BY <1>18 DEF vars, handlers, bounds, history
<1> QED
  BY <1>1, <1>2, <1>3, <1>4, <1>5, <1>6, <1>7, <1>8, <1>9, <1>10, <1>11, <1>12, <1>13, <1>14,
     <1>15, <1>16, <1>17, <1>18 DEF Next, Handle

\* The tables and the handlers keep their types: in particular no row outlives a card
\* that could not be delivered, and only a hold that waits for a reason can expire.
THEOREM TypeCorrectness == Spec => []TypeOK
  BY InitTypes, NextTypes, PTL DEF Spec

-----------------------------------------------------------------------------
\* The invariant holds initially, ...
LEMMA InitInvariant == Init => IInv
  BY DEF Init, IInv, DecisionReachesAgent, AppliedIsHeard, RejectedIsGone

\* A rejection that is finalized counts, whoever is in flight meanwhile.
LEMMA FinalizeKeeps ==
    ASSUME TypeOK, IInv, NEW r \in Request, FinalizeReject(r),
           UNCHANGED <<executed, told, torn>>,
           \A s \in Slot : at'[s] = "apply" => at[s] = "apply" /\ of'[s] = of[s]
    PROVE  IInv'
<1>1. /\ rejected' \in [Request -> Times] /\ rejected'[r] > 0
      /\ \A q \in Request : q # r => rejected'[q] = rejected[q]
      /\ \A q \in Request : rejected'[q] >= rejected[q]
  BY OneMoreTypes DEF TypeOK, FinalizeReject
<1>2. row'[r] = "gone" /\ \A q \in Request : q # r => row'[q] = row[q]
  BY DEF TypeOK, FinalizeReject, Delete
<1>3. DecisionReachesAgent'
  BY <1>1, <1>2 DEF IInv, DecisionReachesAgent, TypeOK, Times
<1>4. AppliedIsHeard'
  BY DEF IInv, AppliedIsHeard, TypeOK
<1>5. RejectedIsGone'
  BY <1>1, <1>2 DEF IInv, RejectedIsGone
<1> QED
  BY <1>3, <1>4, <1>5 DEF IInv

\* A step that changes no count, drops no row and hands no row to its handler.
LEMMA QuietKeeps ==
    ASSUME TypeOK, IInv, UNCHANGED history,
           \A r \in Request : row'[r] = "gone" <=> row[r] = "gone",
           \A s \in Slot : at'[s] = "apply" => at[s] = "apply" /\ of'[s] = of[s]
    PROVE  IInv'
  BY DEF IInv, DecisionReachesAgent, AppliedIsHeard, RejectedIsGone, history

\* ... and every handler keeps it.
LEMMA InductiveStep == TypeOK /\ IInv /\ [Next]_vars => IInv'
<1> SUFFICES ASSUME TypeOK, IInv, [Next]_vars PROVE IInv'
  OBVIOUS
<1>0. \A s \in Slot : at[s] # "free" => of[s] \in Request
  BY DEF TypeOK, Asked
<1>1. ASSUME NEW r \in Request, Ask(r) \/ CardOut(r) \/ Expire(r) \/ Revoke(r) PROVE IInv'
  BY <1>1, QuietKeeps DEF Ask, CardOut, Expire, Revoke, TypeOK, handlers
<1>2. ASSUME NEW s \in Slot, NEW r \in Request, ClickApprove(s, r) \/ ClickReason(s, r)
      PROVE  IInv'
  BY <1>2, QuietKeeps DEF ClickApprove, ClickReason, Click, Busy, TypeOK
<1>3. ASSUME NEW s \in Slot, PromptSent(s) PROVE IInv'
  BY <1>0, <1>3, QuietKeeps DEF PromptSent, Free, Live, TypeOK
<1>4. CASE SweepList \/ Restart \/ UNCHANGED vars
  BY <1>4, QuietKeeps DEF SweepList, Restart, HostDies, vars, handlers
<1>5. ASSUME NEW s \in Slot, NEW r \in Request, ClickReject(s, r) PROVE IInv'
  BY <1>5, FinalizeKeeps DEF ClickReject, handlers
<1>6. ASSUME NEW s \in Slot, PromptFails(s) PROVE IInv'
  BY <1>0, <1>6, FinalizeKeeps DEF PromptFails, Free, TypeOK
<1>7. ASSUME NEW r \in Request, SweepOne(r) PROVE IInv'
  BY <1>7, FinalizeKeeps DEF SweepOne, handlers
<1>8. CASE Reply
  <2>1. armed \in Request
    BY <1>8 DEF Reply, TypeOK, Asked
  <2>2. CASE row[armed] = "awaiting"
    BY <1>8, <2>1, <2>2, FinalizeKeeps DEF Reply, handlers
  <2>3. CASE row[armed] # "awaiting"
    BY <1>8, <2>3, QuietKeeps DEF Reply, handlers, history
  <2> QED
    BY <2>2, <2>3
<1>9. ASSUME NEW r \in Request, CardFails(r) PROVE IInv'
  <2>1. /\ told' \in [Request -> Times] /\ told'[r] > 0
        /\ \A q \in Request : told'[q] >= told[q]
    BY <1>9, OneMoreTypes DEF TypeOK, CardFails
  <2>2. row'[r] = "gone" /\ \A q \in Request : q # r => row'[q] = row[q]
    BY <1>9 DEF TypeOK, CardFails, Delete
  <2>3. /\ executed' = executed /\ rejected' = rejected
        /\ executed \in [Request -> Times] /\ rejected \in [Request -> Times]
        /\ told \in [Request -> Times]
    BY <1>9 DEF CardFails, TypeOK
  <2>4. \A q \in Request : executed[q] + told'[q] >= executed[q] + told[q]
    BY <2>1, <2>3 DEF Times
  <2>5. executed[r] + rejected[r] + told'[r] > 0
    BY <2>1, <2>3 DEF Times
  <2>6. \A q \in Request : executed[q] + rejected[q] + told'[q]
                            >= executed[q] + rejected[q] + told[q]
    BY <2>1, <2>3 DEF Times
  <2>7. DecisionReachesAgent'
    BY <2>1, <2>2, <2>3, <2>5, <2>6 DEF IInv, DecisionReachesAgent, Times
  <2>8. AppliedIsHeard'
    BY <1>0, <1>9, <2>1, <2>3, <2>4 DEF CardFails, handlers, IInv, AppliedIsHeard, Times
  <2>9. RejectedIsGone'
    BY <1>9, <2>2 DEF CardFails, IInv, RejectedIsGone
  <2> QED
    BY <2>7, <2>8, <2>9 DEF IInv
<1>10. ASSUME NEW s \in Slot, Guard(s) PROVE IInv'
  <2>1. of[s] \in Request
    BY <1>0, <1>10 DEF Guard
  <2>2. /\ told' \in [Request -> Times] /\ executed' \in [Request -> Times]
        /\ executed'[of[s]] > 0 \/ told'[of[s]] > 0
        /\ \A q \in Request : told'[q] >= told[q] /\ executed'[q] >= executed[q]
    <3>1. told \in [Request -> Times] /\ executed \in [Request -> Times]
      BY DEF TypeOK
    <3>2. \A n \in Times : n >= n
      BY CapType DEF Times
    <3>3. \A q \in Request : told[q] >= told[q] /\ executed[q] >= executed[q]
      BY <3>1, <3>2
    <3>4. CASE of[s] \in revoked \/ ~Live(of[s])
      BY <1>10, <2>1, <3>1, <3>3, <3>4, OneMoreTypes DEF Guard
    <3>5. CASE ~(of[s] \in revoked \/ ~Live(of[s]))
      BY <1>10, <2>1, <3>1, <3>3, <3>5, OneMoreTypes DEF Guard
    <3> QED
      BY <3>4, <3>5
  <2>3. DecisionReachesAgent'
    BY <1>10, <2>2 DEF Guard, IInv, DecisionReachesAgent, TypeOK, Times
  <2>4. \A t \in Slot : at'[t] = "apply" => of'[t] = of[t] /\ (t = s \/ at[t] = "apply")
    BY <1>10 DEF Guard, Busy, TypeOK
  <2>5. AppliedIsHeard'
    BY <1>0, <2>1, <2>2, <2>4 DEF IInv, AppliedIsHeard, TypeOK, Times
  <2>6. RejectedIsGone'
    BY <1>10 DEF Guard, IInv, RejectedIsGone
  <2> QED
    BY <2>3, <2>5, <2>6 DEF IInv
<1>11. ASSUME NEW s \in Slot, Applied(s) PROVE IInv'
  <2>1. of[s] \in Request /\ executed[of[s]] + told[of[s]] > 0
    BY <1>0, <1>11 DEF Applied, IInv, AppliedIsHeard
  <2>2. told' \in [Request -> Times] /\ \A q \in Request : told'[q] >= told[q]
    BY <1>11, <2>1, OneMoreTypes DEF TypeOK, Applied, Times
  <2>3. row'[of[s]] = "gone" /\ \A q \in Request : q # of[s] => row'[q] = row[q]
    BY <1>11, <2>1 DEF TypeOK, Applied, Delete
  <2>4. DecisionReachesAgent'
    BY <1>11, <2>1, <2>2, <2>3 DEF Applied, IInv, DecisionReachesAgent, TypeOK, Times
  <2>5. \A t \in Slot : at'[t] = "apply" => of'[t] = of[t] /\ at[t] = "apply"
    BY <1>11 DEF Applied, Free, TypeOK
  <2>6. AppliedIsHeard'
    BY <1>0, <1>11, <2>2, <2>5 DEF Applied, IInv, AppliedIsHeard, TypeOK, Times
  <2>7. RejectedIsGone'
    BY <1>11, <2>3 DEF Applied, IInv, RejectedIsGone
  <2> QED
    BY <2>4, <2>6, <2>7 DEF IInv
<1>12. ASSUME NEW r \in Request, TearReject(r) PROVE IInv'
  <2>1. /\ rejected' \in [Request -> Times]
        /\ \A q \in Request : rejected'[q] >= rejected[q]
        /\ \A q \in Request : q # r => rejected'[q] = rejected[q]
    BY <1>12, OneMoreTypes DEF TypeOK, TearReject
  <2>2. DecisionReachesAgent'
    BY <1>12, <2>1 DEF TearReject, IInv, DecisionReachesAgent, TypeOK, Times
  <2>3. AppliedIsHeard'
    BY <1>12 DEF TearReject, HostDies, AppliedIsHeard
  <2>4. RejectedIsGone'
    BY <1>12, <2>1 DEF TearReject, IInv, RejectedIsGone
  <2> QED
    BY <2>2, <2>3, <2>4 DEF IInv
<1> QED
  BY <1>1, <1>2, <1>3, <1>4, <1>5, <1>6, <1>7, <1>8, <1>9, <1>10, <1>11, <1>12
     DEF Next, Handle

\* The inductive invariant holds in every reachable state.
THEOREM Invariance == Spec => []IInv
  BY InitInvariant, InductiveStep, TypeCorrectness, PTL DEF Spec

\* No request disappears without its agent having been told or the action having run
\* (finalize.ts finalizeReject, primitive.ts requestApproval, response-handler.ts).
THEOREM DecisionsReachAgents == Spec => []DecisionReachesAgent
<1>1. IInv => DecisionReachesAgent
  BY DEF IInv
<1> QED
  BY <1>1, Invariance, PTL

\* Whatever clicks, replies, sweeps and crashes overlap, an action its agent was told is
\* rejected does not run, unless a crash left the rejected row behind (guard.ts).
THEOREM RejectionsStand == Spec => NoExecutionAfterReject
<1> DEFINE StepOK == \A r \in Request :
                        executed'[r] > executed[r] => rejected[r] = 0 \/ r \in torn
<1>1. TypeOK /\ IInv /\ [Next]_vars => StepOK
  <2> SUFFICES ASSUME TypeOK, IInv, [Next]_vars, NEW r \in Request, executed'[r] > executed[r]
               PROVE  rejected[r] = 0 \/ r \in torn
    OBVIOUS
  <2>1. ~UNCHANGED executed
    BY DEF TypeOK, Times
  <2>2. PICK s \in Slot : Guard(s)
    BY <2>1 DEF Next, Handle, vars, history, Ask, CardOut, CardFails, Expire, ClickApprove,
                ClickReject, ClickReason, Applied, PromptSent, PromptFails, Reply, SweepList,
                SweepOne, Revoke, TearReject, Restart
  <2>3. of[s] \in Request
    BY <2>2 DEF Guard, TypeOK, Asked
  <2>4. r = of[s] /\ Live(of[s])
    BY <2>1, <2>2, <2>3, OneMoreTypes DEF Guard, TypeOK, Times
  <2>5. row[r] # "gone"
    BY <2>4 DEF Live
  <2> QED
    BY <2>5 DEF IInv, RejectedIsGone, TypeOK, Times
<1>2. TypeOK /\ IInv /\ [Next]_vars => [StepOK]_vars
  BY <1>1
<1> QED
  BY <1>2, TypeCorrectness, Invariance, PTL DEF Spec, NoExecutionAfterReject
=============================================================================
