--------------------------- MODULE OutboundProofs ---------------------------
(***************************************************************************)
(* What holds of the messages on their way out: of the queue of a session   *)
(* and its drains (Delivery), for any set of rows, any number of attempts   *)
(* and of host processes, and of the numbers that messages are known by     *)
(* (SeqSpace), for any rows, any processes of the container and any highest *)
(* number.  The two modules have no name in common and are extended side by *)
(* side; every theorem is about one of them.                                *)
(***************************************************************************)
EXTENDS Delivery, SeqSpace, FiniteSetTheorems, WellFoundedInduction, TLAPS

-----------------------------------------------------------------------------
(* The queue.                                                               *)

\* A row that a drain holds is due and has no record, and one drain at most holds rows.
QueuedIsOpen ==
    \A p \in Poll : \A m \in queue[p] : out[m] = "due" /\ record[m] = "none"
QueuedIsInflight == \A p \in Poll : queue[p] # {} => inflight
OneDrain == \A p, q \in Poll : queue[p] # {} /\ queue[q] # {} => p = q
StagedIsQueued == \A p \in Poll : stage[p] # "idle" => queue[p] # {}

\* The row at hand has taken effect, and been responded to, and is not settled.
Taken(p) == stage[p] \in {"accepted", "responded"}
TakenTookEffect ==
    \A p \in Poll : /\ Taken(p) => effects[Head(p)] > 0
                    /\ stage[p] = "responded" => Head(p) \in responded

\* What the host processes before this one may have done, and this one has done.
Before == MaxAttempts * (lives - 1)
AtHand(m) == \E p \in Poll : Taken(p) /\ Head(p) = m
Budget ==
    \A m \in Msg :
        IF record[m] # "none" THEN effects[m] <= Before + MaxAttempts
        ELSE IF AtHand(m) THEN effects[m] <= Before + attempts[m] + 1
        ELSE effects[m] <= Before + attempts[m]

Typed ==
    /\ out \in [Msg -> {"absent", "deferred", "due"}]
    /\ record \in [Msg -> {"none", "delivered", "failed"}]
    /\ responded \in SUBSET Commands
    /\ task \in BOOLEAN /\ running \in BOOLEAN /\ open \in BOOLEAN
    /\ inflight \in BOOLEAN
    /\ queue \in [Poll -> SUBSET Msg]
    /\ stage \in [Poll -> {"idle", "calling", "accepted", "responded"}]
    /\ attempts \in [Msg -> 0 .. MaxAttempts - 1]
    /\ lives \in 1 .. MaxLives
    /\ effects \in [Msg -> Nat]

Held ==
    /\ QueuedIsOpen /\ QueuedIsInflight /\ OneDrain /\ StagedIsQueued
    /\ TakenTookEffect /\ Budget /\ DeliveredTookEffect

Invariant == Typed /\ Held

-----------------------------------------------------------------------------
\* A nonempty finite set of naturals has a least element: the sets of the numbers up to
\* one of it are well-founded by strict inclusion.
LEMMA LeastExists ==
    ASSUME NEW S, S \subseteq Nat, S # {}, IsFiniteSet(S)
    PROVE  \E x \in S : \A y \in S : x <= y
<1>. DEFINE Upto(x) == {y \in S : y <= x}
            T == {Upto(x) : x \in S}
            R == StrictSubsetOrdering(S)
<1>1. T # {} /\ T \subseteq SUBSET S
  OBVIOUS
<1>2. T \subseteq FiniteSubsetsOf(S)
  BY <1>1, FS_FiniteSubsetsOfFinite
<1>3. IsWellFoundedOn(R, FiniteSubsetsOf(S))
  BY FS_StrictSubsetOrderingWellFounded
<1>. HIDE DEF R, T
<1>4. PICK D \in T : \A E \in T : ~ (<<E, D>> \in R)
  BY <1>1, <1>2, <1>3, WFMin
<1>5. PICK x \in S : D = Upto(x)
  BY <1>4 DEF T
<1>6. ASSUME NEW y \in S PROVE x <= y
  <2>1. SUFFICES ASSUME y < x PROVE FALSE
    BY <1>6
  <2>2. Upto(y) \in T
    BY DEF T
  <2>3. x \in Int /\ y \in Int /\ \A z \in S : z \in Int
    OBVIOUS
  <2>4. x <= x /\ ~(x <= y) /\ \A z \in S : z <= y => z <= x
    BY <2>1, <2>3
  <2>5. Upto(y) \subseteq Upto(x) /\ x \in Upto(x) /\ x \notin Upto(y)
    BY <2>4, Zenon
  <2>6. Upto(y) # Upto(x)
    BY <2>5, Zenon
  <2>7. Upto(y) \in SUBSET S /\ Upto(x) \in SUBSET S
    OBVIOUS
  <2>8. <<Upto(y), Upto(x)>> \in R
    <3>. HIDE DEF Upto
    <3>. QED
      BY <2>5, <2>6, <2>7 DEF R, StrictSubsetOrdering
  <2>. QED
    BY <2>2, <2>8, <1>4, <1>5
<1>. QED
  BY <1>6

\* The row at hand is one of the drain's.
LEMMA HeadQueued ==
    ASSUME NEW p \in Poll, queue \in [Poll -> SUBSET Msg], queue[p] # {}
    PROVE  Head(p) \in queue[p]
<1>1. queue[p] \subseteq Nat /\ IsFiniteSet(queue[p])
  BY MsgAssumption, FS_Subset
<1>2. \E x \in queue[p] : \A y \in queue[p] : x <= y
  BY <1>1, LeastExists
<1>. QED
  BY <1>2 DEF Head, Min

\* What the processes before did is a natural number, and the next process adds to it.
LEMMA BeforeIsNat ==
    ASSUME lives \in 1 .. MaxLives
    PROVE  /\ Before \in Nat
           /\ Before + MaxAttempts = MaxAttempts * lives
           /\ Before + MaxAttempts <= MaxAttempts * MaxLives
<1>1. MaxAttempts \in Nat /\ lives \in Nat /\ MaxLives \in Nat /\ lives - 1 \in Nat
  BY BoundAssumption
<1>2. \A a, b \in Nat : a * b \in Nat
  OBVIOUS
<1>3. MaxAttempts * (lives - 1) + MaxAttempts = MaxAttempts * lives
  BY <1>1
<1>4. MaxAttempts * lives <= MaxAttempts * MaxLives
  <2>1. PICK d \in Nat : MaxLives = lives + d
    BY <1>1
  <2>2. MaxAttempts * MaxLives = MaxAttempts * lives + MaxAttempts * d
    BY <1>1, <2>1
  <2>3. MaxAttempts * d \in Nat /\ MaxAttempts * lives \in Nat
    BY <1>1, <1>2
  <2>. QED
    BY <2>2, <2>3
<1>. QED
  BY <1>1, <1>2, <1>3, <1>4 DEF Before

\* The invariant holds initially.
LEMMA InitInvariant == Init => Invariant
<1>1. SUFFICES ASSUME Init PROVE Invariant
  OBVIOUS
<1>2. Typed
  <2>1. 0 \in 0 .. MaxAttempts - 1 /\ 1 \in 1 .. MaxLives
    BY BoundAssumption
  <2>. QED
    BY <1>1, <2>1 DEF Init, Typed
<1>3. Before = 0
  BY <1>1, BoundAssumption DEF Init, Before
<1>. QED
  BY <1>1, <1>2, <1>3, BoundAssumption DEF Init, Invariant, Held, QueuedIsOpen, QueuedIsInflight,
     OneDrain, StagedIsQueued, TakenTookEffect, Taken, Budget, AtHand, DeliveredTookEffect

-----------------------------------------------------------------------------
\* What a step that leaves the drains alone keeps.
LEMMA SessionInvariant ==
    ASSUME Invariant,
           \/ \E m \in Msg : Write(m) \/ ComeDue(m)
           \/ ContainerStart \/ ContainerStop \/ CloseSession
           \/ UNCHANGED vars
    PROVE  Invariant'
<1>1. UNCHANGED <<record, responded, drains, attempts, lives, effects>>
  BY DEF Write, ComeDue, ContainerStart, ContainerStop, CloseSession, vars, tables
<1>2. Typed'
  <2>1. out' \in [Msg -> {"absent", "deferred", "due"}] /\ responded' \in SUBSET Commands
    BY DEF Invariant, Typed, Write, ComeDue, ContainerStart, ContainerStop, CloseSession, vars,
       tables, session
  <2>2. task' \in BOOLEAN /\ running' \in BOOLEAN /\ open' \in BOOLEAN
    BY DEF Invariant, Typed, Write, ComeDue, ContainerStart, ContainerStop, CloseSession, vars,
       tables, session
  <2>. QED
    BY <1>1, <2>1, <2>2 DEF Invariant, Typed, drains
<1>3. \A m \in Msg : out[m] = "due" => out'[m] = "due"
  BY DEF Invariant, Typed, Write, ComeDue, ContainerStart, ContainerStop, CloseSession, vars,
     tables, session, drains
<1>4. QueuedIsOpen'
  BY <1>1, <1>3 DEF Invariant, Held, Typed, QueuedIsOpen, drains
<1>5. (QueuedIsInflight /\ OneDrain /\ StagedIsQueued)'
  BY <1>1 DEF Invariant, Held, QueuedIsInflight, OneDrain, StagedIsQueued, drains
<1>6. (TakenTookEffect /\ Budget /\ DeliveredTookEffect)'
  BY <1>1 DEF Invariant, Held, TakenTookEffect, Taken, Head, Budget, Before, AtHand,
     DeliveredTookEffect, drains
<1>. QED
  BY <1>2, <1>4, <1>5, <1>6 DEF Invariant, Held

\* A drain takes up rows: only one that finds no other at work does.
LEMMA EnterInvariant ==
    ASSUME Invariant, NEW p \in Poll, Enter(p)
    PROVE  Invariant'
<1>. USE DEF Invariant, Held, Typed, tables, session
<1>1. \A q \in Poll : queue[q] = {} /\ stage[q] = "idle"
  BY DEF Enter, QueuedIsInflight, StagedIsQueued
<1>2. Typed'
  BY DEF Enter, Undelivered
<1>3. QueuedIsOpen' /\ QueuedIsInflight' /\ OneDrain' /\ StagedIsQueued'
  BY <1>1 DEF Enter, Undelivered, QueuedIsOpen, QueuedIsInflight, OneDrain, StagedIsQueued
<1>4. \A q \in Poll : ~Taken(q) /\ ~Taken(q)'
  BY <1>1 DEF Enter, Taken
<1>5. TakenTookEffect'
  BY <1>4 DEF TakenTookEffect, Taken
<1>6. Budget' /\ DeliveredTookEffect'
  BY <1>4 DEF Enter, Budget, Before, AtHand, DeliveredTookEffect
<1>. QED
  BY <1>2, <1>3, <1>5, <1>6

\* The row at hand moves on without a record: called, taken by the world, responded to.
LEMMA AtWorkInvariant ==
    ASSUME Invariant, NEW p \in Poll, Call(p) \/ Accept(p) \/ Respond(p)
    PROVE  Invariant'
<1>. USE DEF Invariant, Held, Typed, tables, session
<1>1. queue[p] # {} /\ Head(p) \in queue[p] /\ Head(p) \in Msg
  BY HeadQueued DEF Call, Accept, Respond, StagedIsQueued
<1>2. UNCHANGED <<out, record, inflight, queue, attempts, lives>>
  BY DEF Call, Accept, Respond
<1>3. \A q \in Poll : UNCHANGED Head(q)
  BY <1>2 DEF Head
<1>4. \A q \in Poll \ {p} : queue[q] = {} /\ stage[q] = "idle" /\ stage'[q] = "idle"
  BY <1>1 DEF OneDrain, StagedIsQueued, Call, Accept, Respond
<1>5. Typed'
  BY <1>1 DEF Call, Accept, Respond
<1>6. QueuedIsOpen' /\ QueuedIsInflight' /\ OneDrain'
  BY <1>2 DEF QueuedIsOpen, QueuedIsInflight, OneDrain
<1>7. StagedIsQueued'
  BY <1>1, <1>2, <1>4 DEF StagedIsQueued
<1>8. record[Head(p)] = "none"
  BY <1>1 DEF QueuedIsOpen
<1>9. \A m \in Msg : (AtHand(m) <=> Taken(p) /\ Head(p) = m)
                   /\ (AtHand(m)' <=> Taken(p)' /\ Head(p) = m)
  BY <1>3, <1>4 DEF AtHand, Taken
<1>10. Before \in Nat /\ UNCHANGED Before
  BY <1>2, BeforeIsNat DEF Before
<1>11. CASE Accept(p)
  <2>1. ~Taken(p) /\ Taken(p)'
    BY <1>11 DEF Accept, Taken
  <2>2. effects' = [effects EXCEPT ![Head(p)] = @ + 1]
    BY <1>11 DEF Accept
  <2>3. TakenTookEffect'
    BY <1>1, <1>3, <1>4, <1>11, <2>2 DEF TakenTookEffect, Taken, Accept
  <2>4. Budget'
    BY <1>1, <1>2, <1>8, <1>9, <1>10, <2>1, <2>2 DEF Budget
  <2>5. DeliveredTookEffect'
    BY <1>1, <1>2, <1>11, <2>2 DEF DeliveredTookEffect, Accept
  <2>. QED
    BY <1>5, <1>6, <1>7, <2>3, <2>4, <2>5
<1>12. CASE Call(p) \/ Respond(p)
  <2>1. effects' = effects /\ (Taken(p) <=> Taken(p)')
    BY <1>12 DEF Call, Respond, Taken
  <2>2. TakenTookEffect'
    BY <1>1, <1>3, <1>4, <1>12, <2>1 DEF TakenTookEffect, Taken, Call, Respond
  <2>3. Budget'
    BY <1>2, <1>9, <1>10, <2>1 DEF Budget
  <2>4. DeliveredTookEffect'
    BY <1>2, <1>12, <2>1 DEF DeliveredTookEffect, Call, Respond
  <2>. QED
    BY <1>5, <1>6, <1>7, <2>2, <2>3, <2>4
<1>. QED
  BY <1>11, <1>12

\* The row at hand is done with: delivered, failed for this time, or failed for good.
LEMMA DoneInvariant ==
    ASSUME Invariant, NEW p \in Poll, Settle(p) \/ Fail(p)
    PROVE  Invariant'
<1>. USE DEF Invariant, Held, Typed, tables, session
<1>1. queue[p] # {} /\ Head(p) \in queue[p] /\ Head(p) \in Msg /\ stage[p] # "idle"
  BY HeadQueued DEF Settle, Fail, StagedIsQueued, ReturnsAt
<1>2. UNCHANGED <<out, responded, inflight, lives, effects>> /\ Advance(p)
  BY DEF Settle, Fail
<1>3. record[Head(p)] = "none"
  BY <1>1 DEF QueuedIsOpen
<1>4. PICK outcome \in {"none", "delivered", "failed"} :
         record' = [record EXCEPT ![Head(p)] = outcome]
  BY <1>1, <1>3 DEF Settle, Fail, Record
<1>5. PICK n \in 0 .. MaxAttempts - 1 : attempts' = [attempts EXCEPT ![Head(p)] = n]
  BY <1>1, BoundAssumption DEF Settle, Fail, Exhausted
<1>6. \A q \in Poll : q # p => queue[q] = {} /\ stage[q] = "idle"
  BY <1>1 DEF OneDrain, StagedIsQueued
<1>7. \A q \in Poll : stage'[q] = "idle" /\ (q # p => queue'[q] = {})
  BY <1>2, <1>6 DEF Advance
<1>8. Typed'
  BY <1>1, <1>2, <1>4, <1>5 DEF Settle, Fail, Advance
<1>9. queue'[p] = queue[p] \ {Head(p)}
  BY <1>2 DEF Advance
<1>10. QueuedIsOpen'
  BY <1>2, <1>4, <1>7, <1>9 DEF QueuedIsOpen
<1>11. QueuedIsInflight' /\ OneDrain' /\ StagedIsQueued'
  BY <1>1, <1>2, <1>7 DEF QueuedIsInflight, OneDrain, StagedIsQueued
<1>12. TakenTookEffect' /\ \A m \in Msg : ~AtHand(m)'
  BY <1>7 DEF TakenTookEffect, Taken, AtHand
<1>13. \A m \in Msg : m # Head(p) => ~AtHand(m)
  BY <1>6 DEF AtHand, Taken
<1>14. Before \in Nat /\ UNCHANGED Before
  BY <1>2, BeforeIsNat DEF Before
<1>15. outcome = "none" => n = attempts[Head(p)] + 1
  BY <1>1, <1>3, <1>4, <1>5 DEF Settle, Fail, Record, Exhausted
<1>16. Budget'
  <2>1. ASSUME NEW m \in Msg, m # Head(p)
        PROVE  effects'[m] = effects[m] /\ record'[m] = record[m] /\ attempts'[m] = attempts[m]
    BY <2>1, <1>2, <1>4, <1>5
  <2>2. effects[Head(p)] <= Before + attempts[Head(p)] + 1
    BY <1>1, <1>3, <1>14 DEF Budget
  <2>3. IF outcome # "none" THEN effects'[Head(p)] <= Before + MaxAttempts
        ELSE effects'[Head(p)] <= Before + n
    BY <1>1, <1>2, <1>14, <1>15, <2>2, BoundAssumption
  <2>4. record'[Head(p)] = outcome /\ attempts'[Head(p)] = n
    BY <1>1, <1>4, <1>5
  <2>. QED
    BY <1>12, <1>13, <1>14, <2>1, <2>3, <2>4 DEF Budget
<1>17. DeliveredTookEffect'
  <2>1. Head(p) \notin Mute \cup Logs /\ outcome = "delivered"
          => Taken(p) /\ (Head(p) \in Commands => stage[p] = "responded")
    BY <1>1, <1>3, <1>4, KindAssumption DEF Settle, Fail, Record, ReturnsAt, Taken
  <2>2. Taken(p) => effects[Head(p)] > 0
    BY DEF TakenTookEffect
  <2>3. stage[p] = "responded" => Head(p) \in responded
    BY DEF TakenTookEffect
  <2>4. record'[Head(p)] = outcome /\ \A m \in Msg : m # Head(p) => record'[m] = record[m]
    BY <1>1, <1>4
  <2>5. Head(p) \notin Mute \cup Logs /\ record'[Head(p)] = "delivered"
          => effects[Head(p)] > 0 /\ (Head(p) \in Commands => Head(p) \in responded)
    BY <2>1, <2>2, <2>3, <2>4
  <2>6. \A m \in Msg \ (Mute \cup Logs) :
            record'[m] = "delivered" => effects[m] > 0 /\ (m \in Commands => m \in responded)
    <3>1. ASSUME NEW m \in Msg \ (Mute \cup Logs), record'[m] = "delivered", m # Head(p)
          PROVE  effects[m] > 0 /\ (m \in Commands => m \in responded)
      <4>1. DeliveredTookEffect
        OBVIOUS
      <4>2. record[m] = "delivered"
        BY <2>4, <3>1
      <4>. QED
        BY <4>1, <4>2 DEF DeliveredTookEffect
    <3>. QED
      BY <2>5, <3>1
  <2>. QED
    BY <1>2, <2>6 DEF DeliveredTookEffect
<1>. QED
  BY <1>8, <1>10, <1>11, <1>12, <1>16, <1>17

\* The drain is over, or the host process is.
LEMMA OverInvariant ==
    ASSUME Invariant, Restart \/ \E p \in Poll : Leave(p)
    PROVE  Invariant'
<1>. USE DEF Invariant, Held, Typed, tables, session
<1>1. \A q \in Poll : queue'[q] = {} /\ stage'[q] = "idle"
  BY DEF Restart, Leave, StagedIsQueued
<1>2. UNCHANGED <<out, record, responded, effects>>
  BY DEF Restart, Leave
<1>3. Typed'
  <2>1. CASE Restart
    <3>1. 0 \in 0 .. MaxAttempts - 1 /\ lives + 1 \in 1 .. MaxLives
      BY <2>1, BoundAssumption DEF Restart
    <3>. QED
      BY <2>1, <3>1 DEF Restart
  <2>2. CASE \E p \in Poll : Leave(p)
    BY <2>2 DEF Leave
  <2>. QED
    BY <2>1, <2>2
<1>4. QueuedIsOpen' /\ QueuedIsInflight' /\ OneDrain' /\ StagedIsQueued'
  BY <1>1 DEF QueuedIsOpen, QueuedIsInflight, OneDrain, StagedIsQueued
<1>5. \A q \in Poll : ~Taken(q)'
  BY <1>1 DEF Taken
<1>6. TakenTookEffect' /\ DeliveredTookEffect'
  BY <1>2, <1>5 DEF TakenTookEffect, Taken, DeliveredTookEffect
<1>7. Budget'
  <2>1. CASE \E p \in Poll : Leave(p)
    <3>1. \A q \in Poll : ~Taken(q)
      BY <2>1 DEF Leave, StagedIsQueued, Taken
    <3>2. UNCHANGED <<record, effects, attempts, lives>>
      BY <2>1 DEF Leave
    <3>. QED
      BY <1>5, <3>1, <3>2 DEF Budget, Before, AtHand
  <2>2. CASE Restart
    <3>1. Before \in Nat /\ Before' = Before + MaxAttempts
      BY <2>2, BeforeIsNat, BoundAssumption DEF Restart, Before
    <3>2. \A m \in Msg : attempts'[m] = 0 /\ effects[m] <= Before + MaxAttempts
      BY <2>2, <3>1, BoundAssumption DEF Restart, Budget
    <3>. QED
      BY <1>2, <1>5, <3>1, <3>2, BoundAssumption DEF Budget, AtHand
  <2>. QED
    BY <2>1, <2>2
<1>. QED
  BY <1>3, <1>4, <1>6, <1>7

-----------------------------------------------------------------------------
\* The invariant is inductive: one drain holds the rows, each unrecorded, and what a row
\* did in the world is paid for by the attempts counted since the host process began.
THEOREM Invariance == Spec => []Invariant
<1>1. ASSUME Invariant, [Next]_vars PROVE Invariant'
  <2>1. ASSUME NEW p \in Poll, Drain(p) PROVE Invariant'
    BY <1>1, <2>1, EnterInvariant, AtWorkInvariant, DoneInvariant, OverInvariant DEF Drain
  <2>. QED
    BY <1>1, <2>1, SessionInvariant, OverInvariant DEF Next
<1>. QED
  BY <1>1, InitInvariant, PTL DEF Spec

\* However the awaits of a drain fail, before or after the effect, a host process lets
\* a row take effect at most MAX_DELIVERY_ATTEMPTS times (delivery.ts deliveryAttempts).
THEOREM EffectsBounded == Spec => []EffectsAreBounded
<1>1. Invariant => EffectsAreBounded
  <2>1. SUFFICES ASSUME Invariant, NEW m \in Msg PROVE effects[m] <= MaxAttempts * lives
    BY DEF EffectsAreBounded
  <2>2. Before \in Nat /\ Before + MaxAttempts = MaxAttempts * lives
    BY <2>1, BeforeIsNat DEF Invariant, Typed
  <2>3. effects[m] <= Before + MaxAttempts
    BY <2>1, <2>2, BoundAssumption DEF Invariant, Typed, Held, Budget
  <2>. QED
    BY <2>2, <2>3
<1>. QED
  BY <1>1, Invariance, PTL

\* Every reachable state is well typed; that effects keep to their range is the bound
\* on the attempts of every process together.
THEOREM TypeCorrectness == Spec => []TypeOK
<1>1. Invariant => TypeOK
  <2>1. SUFFICES ASSUME Invariant PROVE TypeOK
    OBVIOUS
  <2>2. /\ Before \in Nat
        /\ Before + MaxAttempts <= MaxAttempts * MaxLives
        /\ MaxAttempts * MaxLives \in Nat
    BY <2>1, BeforeIsNat, BoundAssumption DEF Invariant, Typed
  <2>3. \A m \in Msg : effects[m] <= Before + MaxAttempts
    BY <2>1, <2>2, BoundAssumption DEF Invariant, Typed, Held, Budget
  <2>4. effects \in [Msg -> 0 .. MaxAttempts * MaxLives]
    BY <2>1, <2>2, <2>3, BoundAssumption DEF Invariant, Typed
  <2>. QED
    BY <2>1, <2>4 DEF Invariant, Typed, TypeOK
<1>. QED
  BY <1>1, Invariance, PTL

\* What is recorded as delivered took effect, lines of a task's log aside, and a command
\* so recorded has its response ("instead of marking it delivered when nothing was
\* actually delivered", delivery.ts).
THEOREM DeliveredIsTrue == Spec => []DeliveredTookEffect
BY Invariance, PTL DEF Invariant, Held

\* Two timer chains never take a row up again that has its record (inflightDeliveries).
THEOREM NoSecondEffect == Spec => NoEffectAfterRecord
<1>1. ASSUME Invariant, [Next]_vars
      PROVE  [\A m \in Msg : record[m] # "none" => effects'[m] = effects[m]]_vars
  <2>1. SUFFICES ASSUME NEW m \in Msg, record[m] # "none" PROVE effects'[m] = effects[m]
    OBVIOUS
  <2>2. ASSUME NEW p \in Poll, Accept(p) PROVE effects'[m] = effects[m]
    <3>1. Head(p) \in queue[p]
      BY <1>1, <2>2, HeadQueued DEF Accept, Invariant, Typed, Held, StagedIsQueued
    <3>2. Head(p) # m
      BY <1>1, <2>1, <3>1 DEF Invariant, Held, QueuedIsOpen
    <3>. QED
      BY <1>1, <2>2, <3>2 DEF Accept, Invariant, Typed
  <2>3. CASE ~ \E p \in Poll : Accept(p)
    BY <1>1, <2>3 DEF Next, Write, ComeDue, ContainerStart, ContainerStop, CloseSession, Drain,
       Enter, Call, Respond, Settle, Fail, Leave, Restart, vars
  <2>. QED
    BY <2>2, <2>3
<1>. QED
  BY <1>1, Invariance, PTL DEF Spec, NoEffectAfterRecord

-----------------------------------------------------------------------------
(* The numbers.                                                             *)

\* Each table numbers its rows apart, the host's numbers are even, and those the agent was
\* given of its own rows are odd.
Unique(table) == \A r, s \in table : r[2] = s[2] => r = s
HostIsEven == \A r \in inSeq : r[2] % 2 = 0
ShownIsOdd == \A r \in shown \cap outSeq : r[2] % 2 = 1

NumberInvariant == SeqTypeOK /\ Unique(inSeq) /\ Unique(outSeq) /\ HostIsEven /\ ShownIsOdd

-----------------------------------------------------------------------------
\* A nonempty finite set of naturals has a greatest element: the sets of the numbers from
\* one of it on are well-founded by strict inclusion.
LEMMA GreatestExists ==
    ASSUME NEW S, S \subseteq Nat, S # {}, IsFiniteSet(S)
    PROVE  \E x \in S : \A y \in S : x >= y
<1>. DEFINE From(x) == {y \in S : x <= y}
            T == {From(x) : x \in S}
            R == StrictSubsetOrdering(S)
<1>1. T # {} /\ T \subseteq SUBSET S
  OBVIOUS
<1>2. T \subseteq FiniteSubsetsOf(S)
  BY <1>1, FS_FiniteSubsetsOfFinite
<1>3. IsWellFoundedOn(R, FiniteSubsetsOf(S))
  BY FS_StrictSubsetOrderingWellFounded
<1>. HIDE DEF R, T
<1>4. PICK D \in T : \A E \in T : ~ (<<E, D>> \in R)
  BY <1>1, <1>2, <1>3, WFMin
<1>5. PICK x \in S : D = From(x)
  BY <1>4 DEF T
<1>6. ASSUME NEW y \in S PROVE x >= y
  <2>1. SUFFICES ASSUME x < y PROVE FALSE
    BY <1>6
  <2>2. From(y) \in T
    BY DEF T
  <2>3. x \in Int /\ y \in Int /\ \A z \in S : z \in Int
    OBVIOUS
  <2>4. x <= x /\ ~(y <= x) /\ \A z \in S : y <= z => x <= z
    BY <2>1, <2>3
  <2>5. From(y) \subseteq From(x) /\ x \in From(x) /\ x \notin From(y)
    BY <2>4, Zenon
  <2>6. From(y) # From(x)
    BY <2>5, Zenon
  <2>7. From(y) \in SUBSET S /\ From(x) \in SUBSET S
    OBVIOUS
  <2>8. <<From(y), From(x)>> \in R
    <3>. HIDE DEF From
    <3>. QED
      BY <2>5, <2>6, <2>7 DEF R, StrictSubsetOrdering
  <2>. QED
    BY <2>2, <2>8, <1>4, <1>5
<1>. QED
  BY <1>6

\* COALESCE(MAX(seq), 0) is a natural number that no number of the table exceeds.
LEMMA TopBounds ==
    ASSUME NEW table, table \subseteq Row
    PROVE  Top(table) \in 0 .. MaxSeq /\ \A r \in table : Top(table) >= r[2]
<1>. DEFINE S == {0} \cup Seqs(table)
<1>1. S # {} /\ S \subseteq 0 .. MaxSeq
  BY MaxSeqAssumption DEF Row, Seqs
<1>2. IsFiniteSet(0 .. MaxSeq)
  BY MaxSeqAssumption, FS_Interval
<1>. HIDE DEF S
<1>3. IsFiniteSet(S) /\ S \subseteq Nat
  <2>1. S \subseteq Nat
    BY <1>1
  <2>. QED
    BY <1>1, <1>2, <2>1, FS_Subset
<1>4. \E x \in S : \A y \in S : x >= y
  BY <1>1, <1>3, GreatestExists
<1>5. Max(S) \in S /\ \A y \in S : Max(S) >= y
  BY <1>4 DEF Max
<1>. QED
  BY <1>1, <1>5 DEF S, Top, Seqs

\* nextEvenSeq and writeMessageOut give numbers above what they read, of their parity.
LEMMA NumberParity ==
    ASSUME NEW n \in Nat
    PROVE  /\ NextEven(n) \in Nat /\ NextEven(n) > n /\ NextEven(n) % 2 = 0
           /\ NextOdd(n) \in Nat /\ NextOdd(n) > n /\ NextOdd(n) % 2 = 1
BY DEF NextEven, NextOdd

\* The greater of two numbers read.
LEMMA MaxOfTwo ==
    ASSUME NEW a \in Nat, NEW b \in Nat
    PROVE  Max({a, b}) \in Nat /\ Max({a, b}) >= a /\ Max({a, b}) >= b
<1>1. \E x \in {a, b} : \A y \in {a, b} : x >= y
  OBVIOUS
<1>2. Max({a, b}) \in {a, b} /\ \A y \in {a, b} : Max({a, b}) >= y
  BY <1>1 DEF Max
<1>. QED
  BY <1>2

\* A table that numbers its rows apart still does with a row of a number it lacks.
LEMMA StaysUnique ==
    ASSUME NEW table, Unique(table), NEW id \in Id, NEW n \in Nat,
           \A r \in table : r[2] # n
    PROVE  Unique(table \cup {<<id, n>>})
BY DEF Unique

-----------------------------------------------------------------------------
\* The invariant holds initially.
LEMMA NumberInit == SeqInit => NumberInvariant
BY MaxSeqAssumption DEF SeqInit, NumberInvariant, SeqTypeOK, Unique, HostIsEven, ShownIsOdd

\* The host's rows: in either table its next number is above every other.
LEMMA HostKeeps ==
    ASSUME NumberInvariant,
           \/ \E id \in Id : HostInsert(id) \/ Deny(id) \/ CliRequest(id)
           \/ \E r \in Row : HostDelete(r)
    PROVE  NumberInvariant'
<1>. USE DEF NumberInvariant, SeqTypeOK, writers
<1>1. /\ Top(inSeq) \in Nat /\ \A r \in inSeq : Top(inSeq) >= r[2]
      /\ Top(outSeq) \in Nat /\ \A r \in outSeq : Top(outSeq) >= r[2]
  BY TopBounds, MaxSeqAssumption
<1>2. \A r \in inSeq \cup outSeq \cup shown : r[2] \in Nat
  BY DEF Row
<1>3. ASSUME NEW id \in Id, HostInsert(id) PROVE NumberInvariant'
  <2>. DEFINE seq == NextEven(Top(inSeq))
  <2>1. seq \in Nat /\ seq > Top(inSeq) /\ seq % 2 = 0
    BY <1>1, NumberParity
  <2>2. /\ id \in Fresh /\ seq <= MaxSeq
        /\ inSeq' = inSeq \cup {<<id, seq>>}
        /\ shown' = shown \cup {<<id, seq>>}
        /\ UNCHANGED <<outSeq, writers>>
    BY <1>3 DEF HostInsert
  <2>. HIDE DEF seq
  <2>3. <<id, seq>> \in Row
    BY <1>1, <2>1, <2>2, MaxSeqAssumption DEF Row
  <2>4. Unique(inSeq')
    BY <1>1, <1>2, <2>1, <2>2, StaysUnique, Z3
  <2>5. <<id, seq>> \notin outSeq
    BY <2>2 DEF Fresh
  <2>. QED
    BY <2>1, <2>2, <2>3, <2>4, <2>5 DEF HostIsEven, ShownIsOdd
<1>4. ASSUME NEW id \in Id, Deny(id) \/ CliRequest(id) PROVE NumberInvariant'
  <2>1. PICK seq \in Nat :
           /\ seq > Top(outSeq) /\ id \in Fresh /\ seq <= MaxSeq
           /\ outSeq' = outSeq \cup {<<id, seq>>}
           /\ UNCHANGED <<inSeq, shown, writers>>
    <3>1. CASE Deny(id)
      BY <1>1, <3>1 DEF Deny
    <3>2. CASE CliRequest(id)
      <4>. DEFINE seq == OutNumber(Top(outSeq), Top(inSeq))
      <4>1. seq \in Nat /\ seq > Top(outSeq)
        <5>1. /\ Max({Top(outSeq), Top(inSeq)}) \in Nat
              /\ Max({Top(outSeq), Top(inSeq)}) >= Top(outSeq)
          BY <1>1, MaxOfTwo
        <5>. QED
          BY <1>1, <5>1, NumberParity DEF OutNumber
      <4>2. /\ id \in Fresh /\ seq <= MaxSeq
            /\ outSeq' = outSeq \cup {<<id, seq>>}
            /\ UNCHANGED <<inSeq, shown, writers>>
        BY <3>2 DEF CliRequest
      <4>. QED
        BY <4>1, <4>2
    <3>. QED
      BY <1>4, <3>1, <3>2
  <2>2. <<id, seq>> \in Row
    BY <1>1, <2>1, MaxSeqAssumption DEF Row
  <2>3. Unique(outSeq')
    BY <1>1, <1>2, <2>1, StaysUnique
  <2>4. <<id, seq>> \notin shown
    BY <2>1 DEF Fresh
  <2>. QED
    BY <2>1, <2>2, <2>3, <2>4 DEF HostIsEven, ShownIsOdd
<1>5. ASSUME NEW r \in Row, HostDelete(r) PROVE NumberInvariant'
  BY <1>5 DEF HostDelete, Unique, HostIsEven, ShownIsOdd
<1>. QED
  BY <1>3, <1>4, <1>5

\* The container's rows: whatever a writer read, and whoever wrote meanwhile, what it
\* inserts is odd and was not there.
LEMMA WriterKeeps ==
    ASSUME NumberInvariant, NEW w \in Writer,
           ReadOut(w) \/ ReadIn(w) \/ \E id \in Id : Insert(w, id)
    PROVE  NumberInvariant'
<1>. USE DEF NumberInvariant, SeqTypeOK
<1>1. Top(inSeq) \in 0 .. MaxSeq /\ Top(outSeq) \in 0 .. MaxSeq
  BY TopBounds
<1>2. CASE ReadOut(w)
  BY <1>1, <1>2 DEF ReadOut, seqTables, Unique, HostIsEven, ShownIsOdd
<1>3. CASE ReadIn(w)
  BY <1>1, <1>3 DEF ReadIn, seqTables, Unique, HostIsEven, ShownIsOdd
<1>4. ASSUME NEW id \in Id, Insert(w, id) PROVE NumberInvariant'
  <2>. DEFINE seq == Planned(w)
  <2>1. maxOut[w] \in Nat /\ maxIn[w] \in Nat
    BY MaxSeqAssumption
  <2>2. Max({maxOut[w], maxIn[w]}) \in Nat
    BY <2>1, MaxOfTwo
  <2>3. seq \in Nat /\ seq > 0 /\ seq % 2 = 1
    BY <2>2, NumberParity DEF Planned, OutNumber
  <2>4. /\ id \in Fresh /\ seq <= MaxSeq
        /\ write' = [write EXCEPT ![w] = "idle"]
        /\ UNCHANGED <<inSeq, maxOut, maxIn>>
        /\ IF seq \in Seqs(outSeq)
           THEN UNCHANGED <<outSeq, shown>>
           ELSE /\ outSeq' = outSeq \cup {<<id, seq>>}
                /\ shown' = shown \cup {<<id, seq>>}
    BY <1>4 DEF Insert
  <2>. HIDE DEF seq
  <2>5. <<id, seq>> \in Row
    BY <2>3, <2>4, MaxSeqAssumption DEF Row
  <2>6. CASE seq \in Seqs(outSeq)
    BY <2>4, <2>6 DEF Unique, HostIsEven, ShownIsOdd
  <2>7. CASE seq \notin Seqs(outSeq)
    <3>1. Unique(outSeq')
      BY <2>3, <2>4, <2>7, StaysUnique DEF Seqs
    <3>. QED
      BY <2>3, <2>4, <2>5, <2>7, <3>1 DEF Unique, HostIsEven, ShownIsOdd
  <2>. QED
    BY <2>6, <2>7
<1>. QED
  BY <1>2, <1>3, <1>4

-----------------------------------------------------------------------------
\* The invariant is inductive: the writers of messages_out race, and the denials of the
\* host share the container's table, yet each table numbers its rows apart and what the
\* agent was given of the container's rows keeps the parity of its side.
THEOREM NumberInvariance == SeqSpec => []NumberInvariant
<1>1. ASSUME NumberInvariant, [SeqNext]_seqVars PROVE NumberInvariant'
  <2>1. CASE UNCHANGED seqVars
    BY <1>1, <2>1 DEF seqVars, seqTables, writers, NumberInvariant, SeqTypeOK,
       Unique, HostIsEven, ShownIsOdd
  <2>. QED
    BY <1>1, <2>1, HostKeeps, WriterKeeps DEF SeqNext
<1>. QED
  BY <1>1, NumberInit, PTL DEF SeqSpec

\* Every reachable state is well typed.
THEOREM NumberTypes == SeqSpec => []SeqTypeOK
BY NumberInvariance, PTL DEF NumberInvariant

\* A number the agent was given resolves to the row it was given with, as long as that row
\* exists (getMessageIdBySeq, getRoutingBySeq).
THEOREM NumbersResolve == SeqSpec => []NumbersNameRows
<1>1. NumberInvariant => NumbersNameRows
  <2>1. SUFFICES ASSUME NumberInvariant, NEW r \in shown, r \in inSeq \cup outSeq
                 PROVE  Resolve(r[2]) = {r[1]}
    BY DEF NumbersNameRows
  <2>2. CASE r \in inSeq
    <3>1. Resolve(r[2]) = {s[1] : s \in {x \in inSeq : x[2] = r[2]}}
      BY <2>2 DEF Resolve, Seqs
    <3>2. {x \in inSeq : x[2] = r[2]} = {r}
      BY <2>1, <2>2 DEF NumberInvariant, Unique
    <3>. QED
      BY <3>1, <3>2
  <2>3. CASE r \in outSeq /\ r \notin inSeq
    <3>1. r[2] \notin Seqs(inSeq)
      BY <2>1, <2>3 DEF NumberInvariant, HostIsEven, ShownIsOdd, Seqs
    <3>2. Resolve(r[2]) = {s[1] : s \in {x \in outSeq : x[2] = r[2]}}
      BY <3>1 DEF Resolve
    <3>3. {x \in outSeq : x[2] = r[2]} = {r}
      BY <2>1, <2>3 DEF NumberInvariant, Unique
    <3>. QED
      BY <3>2, <3>3
  <2>. QED
    BY <2>1, <2>2, <2>3
<1>. QED
  BY <1>1, NumberInvariance, PTL
=============================================================================
