------------------------- MODULE SessionQueueProofs -------------------------
(***************************************************************************)
(* What holds of a session's queue for every set of messages, every prompt  *)
(* window and every retry bound.  IInv is inductive relative to TypeOK; the *)
(* safety invariants and ClaimsClearedAlone follow from it.                 *)
(***************************************************************************)
EXTENDS SessionQueue, TLAPS

\* a spawn needs a host that has no container on record, and such a host has none alive
OneContainer ==
    /\ waking => hostUp /\ ~active
    /\ hostUp /\ ~active => phase = "none"

\* what the runner holds in memory fits its phase
HandsFitPhase ==
    /\ phase \in {"none", "boot"} => batch = {} /\ follow = {} /\ stray = {}
    /\ phase = "poll" => batch = {}
    /\ follow # {} => phase = "query"

\* the runner acked whatever it holds
HeldIsAcked == \A m \in batch \cup follow \cup stray : ack[m] # "none"

\* a claim without an owner has been lost once more than it has been counted
OrphansAreOwed ==
    FALSE \notin ClearOutcomes =>
        \A m \in Msg : tries[m] <= lost[m] /\ (m \in Orphans => tries[m] < lost[m])

\* what the runner holds is still its to finish: only the batch may have been answered, and
\* the host has not settled a claim that a container remembers; a row that is not there yet
\* was never acked
HeldIsOpen ==
    /\ \A m \in batch : ack[m] \in {"processing", "completed"}
    /\ phase = "prep" => batch \subseteq Claims
    /\ follow \cup stray \subseteq Claims
    /\ Held \subseteq Pending
    /\ \A m \in Msg : status[m] = "absent" => ack[m] = "none"

\* what one container is owed holds as long as no failed stop has left a second one
WhenAlone == left = {} => HeldIsAcked /\ NoDoubleHandling /\ OrphansAreOwed /\ HeldIsOpen

IInv == OneContainer /\ HandsFitPhase /\ WhenAlone

-----------------------------------------------------------------------------
(* The reset, and the end of a process, keep the types of what they change. *)

\* what resetStuckProcessingRows changes
LEMMA ResetTypes ==
    ASSUME TypeOK, ResetStuck
    PROVE  /\ status' \in [Msg -> {"absent", "pending"} \cup Settled]
           /\ tries' \in [Msg -> 0 .. MaxTries]
           /\ later' \in SUBSET Msg
           /\ ack' \in [Msg -> {"none", "processing"} \cup AckFinal]
           /\ aged' \in SUBSET Msg /\ quiet' \in SUBSET Msg
<1> DEFINE stuck == (Claims \cap Pending) \ later
<1>1. \A m \in stuck \ Spent(stuck) : tries[m] + 1 \in 0 .. MaxTries
  BY BoundAssumption DEF TypeOK, Spent, Claims, Pending
<1>2. tries' \in [Msg -> 0 .. MaxTries]
  BY <1>1 DEF TypeOK, ResetStuck
<1>3. status' \in [Msg -> {"absent", "pending"} \cup Settled]
  BY DEF TypeOK, ResetStuck, Settled
<1>4. ack' \in [Msg -> {"none", "processing"} \cup AckFinal]
  BY DEF TypeOK, ResetStuck, SetAck
<1>5. later' \in SUBSET Msg
  BY DEF TypeOK, ResetStuck, Claims
<1>6. aged' \in SUBSET Msg /\ quiet' \in SUBSET Msg
  BY DEF TypeOK, ResetStuck, Ages
<1> QED
  BY <1>2, <1>3, <1>4, <1>5, <1>6

\* counting a loss keeps the bound and only rises
LEMMA CountTypes == ASSUME NEW n \in 0 .. MaxTries + 1
                    PROVE  Count(n) \in 0 .. MaxTries + 1 /\ n <= Count(n)
                           /\ (n <= MaxTries => n < Count(n))
  BY BoundAssumption DEF Count

\* abandoned claims are counted within the bound
LEMMA LoseTypes ==
    ASSUME TypeOK, NEW STATE S, Lose(S)
    PROVE  /\ lost' \in [Msg -> 0 .. MaxTries + 1]
           /\ \A m \in Msg : lost[m] <= lost'[m]
           /\ \A m \in Msg \cap S : lost[m] <= MaxTries => lost[m] < lost'[m]
  BY CountTypes, BoundAssumption DEF TypeOK, Lose

\* what the end of a process leaves, and a stop that fails
LEMMA GoneTypes ==
    ASSUME TypeOK, Stop
    PROVE  /\ phase' = "none" /\ firstPoll' \in BOOLEAN /\ turnOpen' \in BOOLEAN
           /\ batch' = {} /\ follow' = {} /\ stray' = {}
           /\ lost' \in [Msg -> 0 .. MaxTries + 1]
           /\ left' \in SUBSET {"boot", "polls", "gone"} /\ leftHeld' \in SUBSET Msg
<1>1. CASE ProcessGone
  <2>1. lost' \in [Msg -> 0 .. MaxTries + 1]
    BY <1>1, LoseTypes DEF ProcessGone
  <2> QED
    BY <1>1, <2>1 DEF ProcessGone, TypeOK, leftVars
<1>2. CASE ProcessLeft
  BY <1>2 DEF ProcessLeft, TypeOK
<1> QED
  BY <1>1, <1>2 DEF Stop

\* a stop that leaves no container behind has ended the session's
LEMMA StopEnds == ASSUME Stop, left' = {} PROVE ProcessGone
  BY DEF Stop, ProcessLeft

\* and without one left behind there is none to act
LEMMA NoneLeft == ASSUME left = {} PROVE ~LeftNext
  BY DEF LeftNext, LeftBoot, LeftClaims, LeftAnswers, LeftEnds

\* every variable is of its type initially, ...
LEMMA InitTypes == Init => TypeOK
<1> SUFFICES ASSUME Init PROVE TypeOK
  OBVIOUS
<1>1. 0 \in 0 .. MaxTries /\ 0 \in 0 .. MaxTries + 1
  BY BoundAssumption
<1>2. tries \in [Msg -> 0 .. MaxTries] /\ lost \in [Msg -> 0 .. MaxTries + 1]
  BY <1>1 DEF Init
<1>3. /\ status \in [Msg -> {"absent", "pending"} \cup Settled]
      /\ ack \in [Msg -> {"none", "processing"} \cup AckFinal]
  BY DEF Init
<1>4. /\ {trigger, onWake, later, aged, quiet, batch, follow, stray, leftHeld} \subseteq SUBSET Msg
      /\ left \in SUBSET {"boot", "polls", "gone"}
      /\ heartbeat \in {"none", "recent", "silent"}
      /\ host \in {"idle", "wake", "check", "kill", "restart"}
      /\ phase \in {"none", "boot", "poll", "prep", "query"}
  BY DEF Init
<1>5. {hostUp, active, waking, respawn, firstPoll, turnOpen} \subseteq BOOLEAN
  BY DEF Init
<1> QED
  BY <1>2, <1>3, <1>4, <1>5 DEF TypeOK

\* a container left behind writes acks, claims and the heartbeat, ...
LEMMA LeftTypes == TypeOK /\ LeftNext => TypeOK'
<1> SUFFICES ASSUME TypeOK, LeftNext PROVE TypeOK'
  OBVIOUS
<1>1. UNCHANGED <<inVars, hostVars, contVars, lost>>
  BY DEF LeftNext, LeftBoot, LeftClaims, LeftAnswers, LeftEnds
<1>2. left' \in SUBSET {"boot", "polls", "gone"}
  BY DEF LeftNext, LeftBoot, LeftClaims, LeftAnswers, LeftEnds, TypeOK
<1>3. \A first \in BOOLEAN : PendingMessages(first) \in SUBSET Msg
  BY DEF PendingMessages, Newest, Visible, Pending
<1>4. leftHeld' \in SUBSET Msg
  BY <1>3 DEF LeftNext, LeftBoot, LeftClaims, LeftAnswers, LeftEnds, TypeOK
<1>5. ack' \in [Msg -> {"none", "processing"} \cup AckFinal]
  BY DEF LeftNext, LeftBoot, LeftClaims, LeftAnswers, LeftEnds, TypeOK, MarkProcessing, SetAck,
     AckFinal, outVars
<1>6. aged' \in SUBSET Msg /\ quiet' \in SUBSET Msg
  <2>1. \A A, Q : Ages(A, Q) => aged' \in SUBSET Msg /\ quiet' \in SUBSET Msg
    BY DEF Ages, Claims
  <2> QED
    BY <2>1 DEF LeftNext, LeftBoot, LeftClaims, LeftAnswers, LeftEnds, TypeOK, MarkProcessing, outVars
<1>7. heartbeat' \in {"none", "recent", "silent"}
  BY DEF LeftNext, LeftBoot, LeftClaims, LeftAnswers, LeftEnds, TypeOK, outVars
<1> QED
  BY <1>1, <1>2, <1>4, <1>5, <1>6, <1>7 DEF TypeOK, inVars, hostVars, contVars

\* ... and every step of host and container keeps it so
LEMMA NextTypes == TypeOK /\ [Next]_vars => TypeOK'
<1> SUFFICES ASSUME TypeOK, [Next]_vars PROVE TypeOK'
  OBVIOUS
<1> USE BoundAssumption, KindAssumption DEF TypeOK, Settled, AckFinal, leftVars
<1>1. ASSUME NEW m \in Msg, Arrive(m) PROVE TypeOK'
  BY <1>1 DEF Arrive, outVars, hostVars, contVars
<1>2. CASE Wake
  BY <1>2 DEF Wake, inVars, outVars, contVars
<1>3. CASE Spawn
  BY <1>3 DEF Spawn, inVars, Claims
<1>4. CASE SpawnFail
  <2>1. /\ waking' \in BOOLEAN
        /\ UNCHANGED <<inVars, outVars, hostUp, active, respawn, host, contVars, lost, leftVars>>
    BY <1>4 DEF SpawnFail
  <2> QED
    BY <2>1 DEF inVars, outVars, contVars
<1>5. CASE Close
  BY <1>5 DEF Close, inVars, outVars, contVars
<1>6. CASE HostCrash
  BY <1>6 DEF HostCrash, inVars, outVars, contVars
<1>7. CASE HostStart
  BY <1>7, GoneTypes DEF HostStart, inVars, outVars
<1>8. CASE RestartWrite
  BY <1>8 DEF RestartWrite, inVars, outVars, contVars
<1>9. CASE RestartKill
  BY <1>9, GoneTypes DEF RestartKill, inVars, outVars
<1>10. CASE SweepSync
  BY <1>10 DEF SweepSync, outVars, contVars
<1>11. CASE SweepWoken
  BY <1>11, ResetTypes DEF SweepWoken, ResetStuck, inVars, outVars, contVars
<1>12. CASE SweepCheck
  <2>1. /\ UNCHANGED <<hostUp, active, waking, respawn, contVars, lost, leftVars>>
        /\ host' \in {"idle", "kill"}
    BY <1>12 DEF SweepCheck
  <2>2. CASE UNCHANGED <<inVars, outVars>>
    BY <2>1, <2>2 DEF inVars, outVars, contVars
  <2>3. CASE ResetStuck
    <3>1. UNCHANGED <<trigger, onWake, heartbeat>>
      BY <2>3 DEF ResetStuck
    <3> QED
      BY <2>1, <2>3, <3>1, ResetTypes DEF contVars
  <2> QED
    BY <1>12, <2>2, <2>3 DEF SweepCheck
<1>13. CASE SweepKill
  BY <1>13, ResetTypes, GoneTypes DEF SweepKill, ResetStuck
<1>14. CASE Boot
  BY <1>14 DEF Boot, SetAck, Ages, inVars, hostVars
<1>15. CASE PollIdle
  BY <1>15 DEF PollIdle, inVars, outVars, hostVars
<1>16. CASE Claim
  BY <1>16 DEF Claim, MarkProcessing, SetAck, Ages, PendingMessages, Newest, Visible, Pending,
               inVars, hostVars
<1>17. CASE Prepare
  BY <1>17 DEF Prepare, ScriptAcks, Ages, inVars, hostVars
<1>18. CASE Event
  BY <1>18 DEF Event, inVars, hostVars, contVars
<1>19. CASE Result
  BY <1>19 DEF Result, SetAck, Ages, inVars, hostVars
<1>20. CASE EndQuery
  BY <1>20 DEF EndQuery, SetAck, Ages, inVars, hostVars
<1>21. CASE FollowClaim
  BY <1>21 DEF FollowClaim, MarkProcessing, SetAck, Ages, PendingMessages, Newest, Visible,
               Pending, inVars, hostVars
<1>22. CASE FollowPush
  BY <1>22 DEF FollowPush, ScriptAcks, Ages, inVars, hostVars
<1>23. CASE FollowDrop
  BY <1>23 DEF FollowDrop, ScriptAcks, Ages, Lose, Count, inVars, hostVars
<1>24. CASE Crash
  BY <1>24, GoneTypes DEF Crash, Stop, inVars, outVars, hostVars
<1>25. CASE TimeNext
  <2>1. CASE GoSilent
    BY <2>1 DEF GoSilent, Claims, inVars, hostVars, contVars
  <2>2. ASSUME NEW m \in Msg, Elapse(m) PROVE TypeOK'
    BY <2>2 DEF Elapse, outVars, hostVars, contVars
  <2>3. ASSUME NEW m \in Msg, Age(m) PROVE TypeOK'
    BY <2>3 DEF Age, inVars, hostVars, contVars
  <2> QED
    BY <1>25, <2>1, <2>2, <2>3 DEF TimeNext
<1>26. CASE UNCHANGED vars
  BY <1>26 DEF vars, inVars, outVars, hostVars, contVars
<1>27. CASE LeftNext
  BY <1>27, LeftTypes
<1> QED
  BY <1>1, <1>2, <1>3, <1>4, <1>5, <1>6, <1>7, <1>8, <1>9, <1>10, <1>11, <1>12, <1>13, <1>14,
     <1>15, <1>16, <1>17, <1>18, <1>19, <1>20, <1>21, <1>22, <1>23, <1>24, <1>25, <1>26,
     <1>27 DEF Next, HostNext, ContainerNext

\* Every variable of the queue keeps its type, whatever the constants are: in
\* particular tries never passes MAX_TRIES (host-sweep.ts resetStuckProcessingRows).
THEOREM TypeCorrectness == Spec => []TypeOK
  BY InitTypes, NextTypes, PTL DEF Spec

-----------------------------------------------------------------------------
(* What the handlers share, seen from the invariant.                        *)

\* a reset touches no claim when no container holds any, and afterwards none is left
LEMMA ResetClears ==
    ASSUME TypeOK, ResetStuck, FALSE \notin ClearOutcomes
    PROVE  Claims' = {}
  BY ClearAssumption DEF TypeOK, ResetStuck, SetAck, Claims

\* a reset counts at most one try, and only for a claimed message
LEMMA ResetCounts ==
    ASSUME TypeOK, ResetStuck, NEW m \in Msg
    PROVE  tries'[m] = tries[m] \/ (m \in Claims /\ tries[m] < MaxTries /\ tries'[m] = tries[m] + 1)
  BY BoundAssumption DEF TypeOK, ResetStuck, Spent, Pending

\* getPendingMessages returns messages that nobody acked
LEMMA PendingUnacked ==
    ASSUME NEW first \in BOOLEAN
    PROVE  /\ PendingMessages(first) \subseteq Msg
           /\ \A m \in PendingMessages(first) : ack[m] = "none"
  BY DEF PendingMessages, Newest, Visible, Pending

\* scripts only turn claims of S into final acks
LEMMA ScriptAcksFinal ==
    ASSUME TypeOK, NEW STATE S, NEW STATE done, NEW gated, NEW broken,
           ScriptAcks(S, done, gated, broken)
    PROVE  \A m \in Msg : ack'[m] = ack[m] \/ ack'[m] \in AckFinal
  BY DEF TypeOK, ScriptAcks, AckFinal

\* and they leave every other ack alone
LEMMA ScriptAcksOnly ==
    ASSUME NEW STATE S, NEW STATE done, NEW gated, NEW broken,
           ScriptAcks(S, done, gated, broken), done \subseteq S
    PROVE  \A m \in Msg : ack'[m] = ack[m] \/ (m \in S /\ ack'[m] \in AckFinal)
<1>1. gated \subseteq S /\ broken \subseteq S
  BY DEF ScriptAcks
<1>2. \A m \in Msg : ack'[m] = IF m \in done \cup gated THEN "completed"
                             ELSE IF m \in broken THEN "script-skip:error" ELSE ack[m]
  BY DEF ScriptAcks
<1> QED
  BY <1>1, <1>2 DEF AckFinal

-----------------------------------------------------------------------------
(* The six parts of the invariant, each preserved by every step.           *)

\* no step starts a second container
LEMMA KeepsOneContainer ==
    ASSUME TypeOK, OneContainer, HandsFitPhase, [Next]_vars
    PROVE  OneContainer'
<1> USE DEF TypeOK, OneContainer
<1>1. ASSUME NEW m \in Msg, Arrive(m) PROVE OneContainer'
  BY <1>1 DEF Arrive, hostVars, contVars
<1>2. CASE Wake \/ Spawn \/ SpawnFail \/ Close
  BY <1>2 DEF Wake, Spawn, SpawnFail, Close, HostFree, contVars
<1>3. CASE HostCrash \/ HostStart \/ RestartWrite \/ RestartKill
  BY <1>3, GoneTypes DEF HostCrash, HostStart, RestartWrite, RestartKill, contVars
<1>4. CASE SweepSync \/ SweepWoken \/ SweepCheck \/ SweepKill
  BY <1>4, GoneTypes DEF SweepSync, SweepWoken, SweepCheck, SweepKill, contVars
<1>5. CASE ContainerNext
  <2>1. UNCHANGED hostVars
    BY <1>5 DEF ContainerNext, Boot, PollIdle, Claim, Prepare, Event, Result, EndQuery,
                FollowClaim, FollowPush, FollowDrop, Crash
  <2>2. phase = "none" => phase' = "none"
    BY <1>5 DEF ContainerNext, Boot, PollIdle, Claim, Prepare, Event, Result, EndQuery,
                FollowClaim, FollowPush, FollowDrop, Crash, ProcessGone, contVars
  <2> QED
    BY <2>1, <2>2 DEF hostVars
<1>6. CASE TimeNext
  BY <1>6 DEF TimeNext, GoSilent, Elapse, Age, hostVars, contVars
<1>7. CASE UNCHANGED vars
  BY <1>7 DEF vars, hostVars, contVars
<1>8. CASE LeftNext
  BY <1>8 DEF LeftNext, LeftBoot, LeftClaims, LeftAnswers, LeftEnds, hostVars, contVars
<1> QED
  BY <1>1, <1>2, <1>3, <1>4, <1>5, <1>6, <1>7, <1>8 DEF Next, HostNext

\* the runner picks up and puts down in the phases that allow it
LEMMA KeepsHandsFitPhase ==
    ASSUME TypeOK, OneContainer, HandsFitPhase, [Next]_vars
    PROVE  HandsFitPhase'
<1> USE DEF TypeOK, HandsFitPhase
<1>1. ASSUME NEW m \in Msg, Arrive(m) PROVE HandsFitPhase'
  BY <1>1 DEF Arrive, contVars
<1>2. CASE Wake \/ SpawnFail \/ Close \/ HostCrash \/ RestartWrite
  BY <1>2 DEF Wake, SpawnFail, Close, HostCrash, RestartWrite, contVars
<1>3. CASE HostStart \/ RestartKill \/ SweepKill \/ Crash
  BY <1>3 DEF HostStart, RestartKill, SweepKill, Crash, Stop, ProcessGone, ProcessLeft
<1>4. CASE SweepSync \/ SweepWoken \/ SweepCheck
  BY <1>4 DEF SweepSync, SweepWoken, SweepCheck, contVars
<1>5. CASE Boot \/ PollIdle \/ Claim \/ Prepare \/ Event \/ Result \/ EndQuery
  BY <1>5 DEF Boot, PollIdle, Claim, Prepare, Event, Result, EndQuery, contVars
<1>6. CASE FollowClaim \/ FollowPush \/ FollowDrop
  BY <1>6 DEF FollowClaim, FollowPush, FollowDrop
<1>7. CASE TimeNext
  BY <1>7 DEF TimeNext, GoSilent, Elapse, Age, contVars
<1>8. CASE UNCHANGED vars
  BY <1>8 DEF vars, contVars
<1>9. CASE Spawn
  <2>1. phase = "none"
    BY <1>9 DEF Spawn, OneContainer
  <2> QED
    BY <1>9, <2>1 DEF Spawn
<1>10. CASE LeftNext
  BY <1>10 DEF LeftNext, LeftBoot, LeftClaims, LeftAnswers, LeftEnds, contVars
<1> QED
  BY <1>1, <1>2, <1>3, <1>4, <1>5, <1>6, <1>7, <1>8, <1>9, <1>10 DEF Next, HostNext, ContainerNext

\* no ack of a row in hand is taken away
LEMMA KeepsHeldIsAcked ==
    ASSUME TypeOK, OneContainer, HandsFitPhase, HeldIsAcked, [Next]_vars, left = {}, left' = {}
    PROVE  HeldIsAcked'
<1> USE DEF TypeOK, HeldIsAcked
<1> DEFINE hands == batch \cup follow \cup stray
<1>1. ASSUME hands' \subseteq hands, \A m \in Msg : ack'[m] = "none" => ack[m] = "none"
      PROVE  HeldIsAcked'
  BY <1>1
<1>2. ASSUME hands' = {} PROVE HeldIsAcked'
  BY <1>2
<1>3. ASSUME NEW m \in Msg, Arrive(m) PROVE HeldIsAcked'
  BY <1>3 DEF Arrive, outVars, contVars
<1>4. CASE Wake \/ SpawnFail \/ Close \/ HostCrash \/ RestartWrite \/ SweepSync
  BY <1>4 DEF Wake, SpawnFail, Close, HostCrash, RestartWrite, SweepSync, outVars, contVars
<1>5. CASE Spawn
  BY <1>5 DEF Spawn
<1>6. CASE HostStart \/ RestartKill \/ SweepKill \/ Crash
  BY <1>2, <1>6, StopEnds DEF HostStart, RestartKill, SweepKill, Crash, ProcessGone
<1>7. CASE SweepWoken \/ SweepCheck
  <2>1. CASE active
    BY <1>7, <2>1 DEF SweepWoken, SweepCheck, outVars, contVars
  <2>2. CASE ~active
    BY <1>2, <1>7, <2>2 DEF SweepWoken, SweepCheck, contVars, OneContainer, HandsFitPhase
  <2> QED
    BY <2>1, <2>2
<1>8. CASE Boot
  BY <1>2, <1>8 DEF Boot, HandsFitPhase
<1>9. CASE PollIdle \/ Event
  BY <1>9 DEF PollIdle, Event, outVars, contVars
<1>10. CASE Claim
  <2>1. ack' = [m \in Msg |-> IF m \in batch' THEN "processing" ELSE ack[m]]
    BY <1>10 DEF Claim, MarkProcessing, SetAck
  <2>2. follow' = follow /\ stray' = stray
    BY <1>10 DEF Claim
  <2>3. batch' \subseteq Msg
    BY <1>10, PendingUnacked DEF Claim
  <2> QED
    BY <2>1, <2>2, <2>3
<1>11. CASE Prepare
  <2>1. hands' \subseteq hands
    BY <1>11 DEF Prepare
  <2>2. \A m \in Msg : ack'[m] = "none" => ack[m] = "none"
    BY <1>11 DEF Prepare, ScriptAcks
  <2> QED
    BY <1>1, <2>1, <2>2
<1>12. CASE Result
  BY <1>12 DEF Result, SetAck
<1>13. CASE EndQuery
  BY <1>13 DEF EndQuery, SetAck
<1>14. CASE FollowClaim
  <2>1. ack' = [m \in Msg |-> IF m \in follow' THEN "processing" ELSE ack[m]]
    BY <1>14 DEF FollowClaim, MarkProcessing, SetAck
  <2>2. batch' = batch /\ stray' = stray
    BY <1>14 DEF FollowClaim
  <2>3. follow' \subseteq Msg
    BY <1>14, PendingUnacked DEF FollowClaim
  <2> QED
    BY <2>1, <2>2, <2>3
<1>15. CASE FollowPush \/ FollowDrop
  <2>1. hands' \subseteq hands
    BY <1>15 DEF FollowPush, FollowDrop
  <2>2. \A m \in Msg : ack'[m] = "none" => ack[m] = "none"
    BY <1>15 DEF FollowPush, FollowDrop, ScriptAcks
  <2> QED
    BY <1>1, <2>1, <2>2
<1>16. CASE TimeNext
  BY <1>16 DEF TimeNext, GoSilent, Elapse, Age, outVars, contVars
<1>17. CASE UNCHANGED vars
  BY <1>17 DEF vars, outVars, contVars
<1> QED
  BY <1>3, <1>4, <1>5, <1>6, <1>7, <1>8, <1>9, <1>10, <1>11, <1>12, <1>13, <1>14, <1>15, <1>16,
     <1>17, NoneLeft DEF Next, HostNext, ContainerNext

\* a poll reads unacked rows only, so none that is in hand
LEMMA KeepsNoDoubleHandling ==
    ASSUME TypeOK, HandsFitPhase, HeldIsAcked, NoDoubleHandling, [Next]_vars,
           left = {}, left' = {}
    PROVE  NoDoubleHandling'
<1> USE DEF TypeOK, NoDoubleHandling
<1>1. CASE UNCHANGED contVars
  BY <1>1 DEF contVars
<1>2. CASE UNCHANGED <<batch, follow, stray>>
  BY <1>2
<1>3. CASE ProcessGone
  BY <1>3 DEF ProcessGone
<1>4. CASE Claim
  <2>1. batch' \cap stray = {}
    BY <1>4, PendingUnacked DEF Claim, HeldIsAcked
  <2> QED
    BY <1>4, <2>1 DEF Claim, HandsFitPhase
<1>5. CASE Prepare
  BY <1>5 DEF Prepare
<1>6. CASE EndQuery
  BY <1>6 DEF EndQuery
<1>7. CASE FollowClaim
  <2>1. follow' \cap (batch \cup stray) = {}
    BY <1>7, PendingUnacked DEF FollowClaim, HeldIsAcked
  <2> QED
    BY <1>7, <2>1 DEF FollowClaim
<1>8. CASE FollowPush \/ FollowDrop
  BY <1>8 DEF FollowPush, FollowDrop
<1>9. CASE HostNext
  <2>1. HostNext => UNCHANGED <<batch, follow, stray>> \/ ProcessGone
    BY StopEnds DEF HostNext, Arrive, Wake, Spawn, SpawnFail, Close, HostCrash, HostStart,
           RestartWrite, RestartKill, SweepSync, SweepWoken, SweepCheck, SweepKill, contVars
  <2> QED
    BY <1>2, <1>3, <1>9, <2>1
<1>10. CASE Boot \/ PollIdle \/ Event \/ Result
  BY <1>2, <1>10 DEF Boot, PollIdle, Event, Result, contVars
<1>11. CASE TimeNext
  BY <1>1, <1>11 DEF TimeNext, GoSilent, Elapse, Age
<1>12. CASE UNCHANGED vars
  BY <1>1, <1>12 DEF vars
<1> QED
  BY <1>3, <1>4, <1>5, <1>6, <1>7, <1>8, <1>9, <1>10, <1>11, <1>12, NoneLeft
     DEF Next, ContainerNext, Crash

\* tries and claims as they were, nothing let go: nothing new is owed
LEMMA NothingOwed ==
    ASSUME TypeOK, OrphansAreOwed, tries' = tries, lost' = lost, Orphans' \subseteq Orphans
    PROVE  OrphansAreOwed'
  BY DEF OrphansAreOwed

\* everything newly let go is counted as lost
LEMMA LossPaid ==
    ASSUME TypeOK, OrphansAreOwed, NEW STATE S, Lose(S), tries' = tries,
           Orphans' \subseteq Orphans \cup S
    PROVE  OrphansAreOwed'
<1> SUFFICES ASSUME FALSE \notin ClearOutcomes, NEW m \in Msg
             PROVE  tries[m] <= lost'[m] /\ (m \in Orphans' => tries[m] < lost'[m])
  BY DEF OrphansAreOwed
<1>1. tries[m] \in 0 .. MaxTries /\ lost[m] \in 0 .. MaxTries + 1 /\ lost'[m] \in 0 .. MaxTries + 1
  BY LoseTypes DEF TypeOK
<1>2. lost[m] <= lost'[m] /\ (m \in S /\ lost[m] <= MaxTries => lost[m] < lost'[m])
  BY LoseTypes
<1>3. tries[m] <= lost[m] /\ (m \in Orphans => tries[m] < lost[m])
  BY DEF OrphansAreOwed
<1> QED
  BY <1>1, <1>2, <1>3, BoundAssumption

\* the end of a process counts a loss for every claim it leaves
LEMMA GonePays ==
    ASSUME TypeOK, OrphansAreOwed, ProcessGone, UNCHANGED <<tries, ack>>
    PROVE  OrphansAreOwed'
<1>1. Orphans' \subseteq Orphans \cup Held
  BY DEF ProcessGone, Orphans, Held, Claims
<1> QED
  BY <1>1, LossPaid DEF ProcessGone

\* a reset with no container alive counts only claims that were lost
LEMMA ResetPays ==
    ASSUME TypeOK, OrphansAreOwed, ResetStuck, lost' = lost,
           batch = {}, follow = {}, stray = {}
    PROVE  OrphansAreOwed'
<1> SUFFICES ASSUME FALSE \notin ClearOutcomes, NEW m \in Msg
             PROVE  tries'[m] <= lost[m] /\ m \notin Orphans'
  BY DEF OrphansAreOwed
<1>1. m \notin Orphans'
  BY ResetClears DEF Orphans
<1>2. Orphans = Claims
  BY DEF Orphans
<1>3. tries[m] \in Nat /\ lost[m] \in Nat
  BY BoundAssumption DEF TypeOK
<1> QED
  BY <1>1, <1>2, <1>3, ResetCounts DEF OrphansAreOwed

\* a kill turns what the container held into losses before the reset counts them
LEMMA KillPays ==
    ASSUME TypeOK, OrphansAreOwed, ProcessGone, ResetStuck
    PROVE  OrphansAreOwed'
<1> SUFFICES ASSUME FALSE \notin ClearOutcomes, NEW m \in Msg
             PROVE  tries'[m] <= lost'[m] /\ m \notin Orphans'
  BY DEF OrphansAreOwed
<1>1. m \notin Orphans'
  BY ResetClears DEF Orphans
<1>2. /\ tries[m] \in 0 .. MaxTries
      /\ lost[m] \in 0 .. MaxTries + 1
      /\ lost'[m] \in 0 .. MaxTries + 1
  BY LoseTypes DEF TypeOK, ProcessGone
<1>3. lost[m] <= lost'[m] /\ (m \in Held /\ lost[m] <= MaxTries => lost[m] < lost'[m])
  BY LoseTypes DEF ProcessGone
<1>4. m \in Claims => m \in Orphans \/ m \in Held
  BY DEF Orphans, Held
<1>5. tries[m] <= lost[m] /\ (m \in Orphans => tries[m] < lost[m])
  BY DEF OrphansAreOwed
<1>6. tries'[m] = tries[m] \/ (m \in Claims /\ tries[m] < MaxTries /\ tries'[m] = tries[m] + 1)
  BY ResetCounts
<1> QED
  BY <1>1, <1>2, <1>3, <1>4, <1>5, <1>6, BoundAssumption

\* a try is counted for a claim that was lost once more
LEMMA KeepsOrphansAreOwed ==
    ASSUME TypeOK, OneContainer, HandsFitPhase, OrphansAreOwed, [Next]_vars, left = {}, left' = {}
    PROVE  OrphansAreOwed'
<1> USE DEF TypeOK
<1> DEFINE hands == batch \cup follow \cup stray
<1>1. CASE UNCHANGED <<tries, ack, batch, follow, stray, lost>>
  BY <1>1, NothingOwed DEF Orphans, Claims
<1>2. CASE UNCHANGED <<tries, ack>> /\ ProcessGone
  BY <1>2, GonePays
<1>3. CASE HostStart \/ RestartKill \/ Crash
  BY <1>2, <1>3, StopEnds DEF HostStart, RestartKill, Crash, inVars, outVars
<1>4. ASSUME NEW m \in Msg, Arrive(m) PROVE OrphansAreOwed'
  BY <1>1, <1>4 DEF Arrive, outVars, contVars
<1>5. CASE Wake \/ Spawn \/ SpawnFail \/ Close \/ HostCrash \/ RestartWrite \/ SweepSync
  BY <1>1, <1>5 DEF Wake, Spawn, SpawnFail, Close, HostCrash, RestartWrite, SweepSync,
                    inVars, outVars, contVars
<1>6. CASE SweepWoken \/ SweepCheck
  <2>1. CASE active
    BY <1>1, <1>6, <2>1 DEF SweepWoken, SweepCheck, inVars, outVars, contVars
  <2>2. CASE ~active
    <3>1. ResetStuck /\ lost' = lost
      BY <1>6, <2>2 DEF SweepWoken, SweepCheck
    <3>2. batch = {} /\ follow = {} /\ stray = {}
      BY <1>6, <2>2 DEF SweepWoken, SweepCheck, OneContainer, HandsFitPhase
    <3> QED
      BY <3>1, <3>2, ResetPays
  <2> QED
    BY <2>1, <2>2
<1>7. CASE SweepKill
  BY <1>7, KillPays, StopEnds DEF SweepKill
<1>8. CASE Boot
  <2>1. Claims' = {}
    BY <1>8 DEF Boot, SetAck, Claims
  <2> QED
    BY <1>8, <2>1, NothingOwed DEF Boot, Orphans, inVars
<1>9. CASE PollIdle \/ Event
  BY <1>1, <1>9 DEF PollIdle, Event, inVars, outVars, contVars
<1>10. CASE Claim
  <2>1. ack' = [m \in Msg |-> IF m \in batch' THEN "processing" ELSE ack[m]]
    BY <1>10 DEF Claim, MarkProcessing, SetAck
  <2>2. batch = {} /\ follow' = follow /\ stray' = stray /\ tries' = tries /\ lost' = lost
    BY <1>10 DEF Claim, HandsFitPhase, inVars
  <2>3. Orphans' \subseteq Orphans
    BY <2>1, <2>2 DEF Orphans, Claims
  <2> QED
    BY <2>2, <2>3, NothingOwed
<1>11. CASE Prepare
  <2>1. tries' = tries /\ lost' = lost /\ follow' = follow /\ stray' = stray
    BY <1>11 DEF Prepare, inVars
  <2>2. Claims' \subseteq Claims /\ \A m \in batch \ batch' : m \notin Claims'
    BY <1>11, KindAssumption DEF Prepare, ScriptAcks, Claims
  <2>3. Orphans' \subseteq Orphans
    BY <2>1, <2>2 DEF Orphans
  <2> QED
    BY <2>1, <2>3, NothingOwed
<1>12. CASE Result
  BY <1>12, NothingOwed DEF Result, SetAck, Orphans, Claims, inVars
<1>13. CASE EndQuery
  BY <1>13, NothingOwed DEF EndQuery, SetAck, Orphans, Claims, inVars
<1>14. CASE FollowClaim
  <2>1. ack' = [m \in Msg |-> IF m \in follow' THEN "processing" ELSE ack[m]]
    BY <1>14 DEF FollowClaim, MarkProcessing, SetAck
  <2>2. follow = {} /\ batch' = batch /\ stray' = stray /\ tries' = tries /\ lost' = lost
    BY <1>14 DEF FollowClaim, inVars
  <2>3. Orphans' \subseteq Orphans
    BY <2>1, <2>2 DEF Orphans, Claims
  <2> QED
    BY <2>2, <2>3, NothingOwed
<1>15. CASE FollowPush
  <2>1. tries' = tries /\ lost' = lost /\ batch' = batch /\ stray' = stray /\ follow' = {}
    BY <1>15 DEF FollowPush, inVars
  <2>2. Claims' \subseteq Claims /\ \A m \in follow : m \notin Claims'
    BY <1>15 DEF FollowPush, ScriptAcks, Claims
  <2>3. Orphans' \subseteq Orphans
    BY <2>1, <2>2 DEF Orphans
  <2> QED
    BY <2>1, <2>3, NothingOwed
<1>16. CASE FollowDrop
  <2>1. PICK gated \in SUBSET Tasks, broken \in SUBSET Tasks :
            ScriptAcks(stray, {}, gated, broken) /\ Lose(stray \ (gated \cup broken))
    BY <1>16 DEF FollowDrop
  <2>2. tries' = tries /\ batch' = batch /\ follow' = follow /\ stray' = {}
    BY <1>16 DEF FollowDrop, inVars
  <2>3. Claims' \subseteq Claims /\ \A m \in gated \cup broken : m \notin Claims'
    BY <2>1 DEF ScriptAcks, Claims
  <2>4. Orphans' \subseteq Orphans \cup (stray \ (gated \cup broken))
    BY <2>2, <2>3 DEF Orphans
  <2> QED
    BY <2>1, <2>2, <2>4, LossPaid
<1>17. CASE TimeNext
  BY <1>1, <1>17 DEF TimeNext, GoSilent, Elapse, Age, inVars, outVars, contVars
<1>18. CASE UNCHANGED vars
  BY <1>1, <1>18 DEF vars, inVars, outVars, contVars
<1> QED
  BY <1>3, <1>4, <1>5, <1>6, <1>7, <1>8, <1>9, <1>10, <1>11, <1>12, <1>13, <1>14, <1>15, <1>16,
     <1>17, <1>18, NoneLeft DEF Next, HostNext, ContainerNext

\* a reset with no container alive settles pending rows and deletes claims
LEMMA ResetOpens ==
    ASSUME TypeOK, HeldIsOpen, ResetStuck, batch' = {}, follow' = {}, stray' = {}
    PROVE  HeldIsOpen'
<1>1. Held' = {} /\ follow' \cup stray' \subseteq Claims' /\ batch' \subseteq Claims'
  BY DEF Held
<1>2. \A m \in Msg : status'[m] = "absent" => status[m] = "absent"
  BY DEF ResetStuck, TypeOK
<1>3. \A m \in Msg : ack[m] = "none" => ack'[m] = "none"
  BY DEF ResetStuck, SetAck, TypeOK
<1> QED
  BY <1>1, <1>2, <1>3 DEF HeldIsOpen

\* what the runner holds stays its own to settle
LEMMA KeepsHeldIsOpen ==
    ASSUME TypeOK, OneContainer, HandsFitPhase, HeldIsAcked, NoDoubleHandling, HeldIsOpen,
           [Next]_vars, left = {}, left' = {}
    PROVE  HeldIsOpen'
<1> USE DEF TypeOK, Settled, AckFinal
<1>1. CASE UNCHANGED <<status, ack, batch, follow, stray, phase>>
  BY <1>1 DEF HeldIsOpen, Held, Claims, Pending
<1>2. CASE UNCHANGED <<status, ack>> /\ ProcessGone
  BY <1>2 DEF ProcessGone, HeldIsOpen, Held, Claims
<1>3. CASE HostStart \/ RestartKill \/ Crash
  BY <1>2, <1>3, StopEnds DEF HostStart, RestartKill, Crash, inVars, outVars
<1>4. CASE Wake \/ SpawnFail \/ Close \/ HostCrash \/ Event \/ PollIdle \/ TimeNext \/ UNCHANGED vars
  BY <1>1, <1>4 DEF Wake, SpawnFail, Close, HostCrash, Event, PollIdle, TimeNext, GoSilent,
     Elapse, Age, vars, inVars, outVars, contVars
<1>5. ASSUME NEW m \in Msg, Arrive(m) PROVE HeldIsOpen'
  BY <1>5 DEF Arrive, outVars, contVars, HeldIsOpen, Held, Claims, Pending
<1>6. CASE Spawn
  BY <1>6 DEF Spawn, inVars, OneContainer, HandsFitPhase, HeldIsOpen, Held, Claims, Pending
<1>7. CASE RestartWrite
  BY <1>7 DEF RestartWrite, inVars, outVars, contVars, HeldIsOpen, Held, Claims, Pending
<1>8. CASE SweepSync
  BY <1>8 DEF SweepSync, outVars, contVars, HeldIsOpen, Held, Claims, Pending
<1>9. CASE SweepWoken \/ SweepCheck
  <2>1. CASE active
    BY <1>1, <1>9, <2>1 DEF SweepWoken, SweepCheck, inVars, outVars, contVars
  <2>2. CASE ~active
    <3>1. ResetStuck /\ batch' = {} /\ follow' = {} /\ stray' = {}
      BY <1>9, <2>2 DEF SweepWoken, SweepCheck, OneContainer, HandsFitPhase, contVars
    <3> QED
      BY <3>1, ResetOpens
  <2> QED
    BY <2>1, <2>2
<1>10. CASE SweepKill
  BY <1>10, ResetOpens, StopEnds DEF SweepKill, ProcessGone
<1>11. CASE Boot
  BY <1>11 DEF Boot, SetAck, inVars, HandsFitPhase, HeldIsOpen, Held, Claims
<1>12. CASE Claim
  <2>1. batch = {} /\ UNCHANGED <<status, follow, stray>> /\ phase' = "prep"
    BY <1>12 DEF Claim, inVars, HandsFitPhase
  <2>2. batch' \subseteq Pending /\ \A m \in batch' : ack[m] = "none"
    BY <1>12 DEF Claim, PendingMessages, Newest, Visible
  <2>3. \A m \in Msg : ack'[m] = IF m \in batch' THEN "processing" ELSE ack[m]
    BY <1>12 DEF Claim, MarkProcessing, SetAck
  <2> QED
    BY <2>1, <2>2, <2>3 DEF HeldIsOpen, Held, Claims, Pending
<1>13. CASE FollowClaim
  <2>1. follow = {} /\ UNCHANGED <<status, batch, stray, phase>> /\ phase = "query"
    BY <1>13 DEF FollowClaim, inVars
  <2>2. follow' \subseteq Pending /\ \A m \in follow' : ack[m] = "none"
    BY <1>13 DEF FollowClaim, PendingMessages, Newest, Visible
  <2>3. \A m \in Msg : ack'[m] = IF m \in follow' THEN "processing" ELSE ack[m]
    BY <1>13 DEF FollowClaim, MarkProcessing, SetAck
  <2> QED
    BY <2>1, <2>2, <2>3 DEF HeldIsOpen, Held, Claims, Pending
<1>14. CASE Prepare
  <2>1. PICK gated \in SUBSET Tasks, broken \in SUBSET Tasks :
            /\ ScriptAcks(batch, batch \cap Commands, gated, broken)
            /\ batch' = batch \ (Commands \cup gated \cup broken)
    BY <1>14 DEF Prepare
  <2>2. /\ UNCHANGED <<status, follow, stray>> /\ phase' # "prep"
        /\ batch \subseteq Claims
    BY <1>14 DEF Prepare, inVars, HeldIsOpen
  <2>3. \A m \in Msg : ack'[m] = ack[m] \/ m \in batch \ batch'
    BY <2>1, KindAssumption DEF ScriptAcks
  <2> QED
    BY <2>1, <2>2, <2>3 DEF HeldIsOpen, Held, Claims, Pending, NoDoubleHandling
<1>15. CASE Result \/ EndQuery
  <2>1. UNCHANGED status /\ batch' \subseteq batch
        /\ follow' \cup stray' \subseteq follow \cup stray /\ phase' # "prep"
    BY <1>15 DEF Result, EndQuery, inVars
  <2>2. \A m \in Msg : ack'[m] = IF m \in batch THEN "completed" ELSE ack[m]
    BY <1>15 DEF Result, EndQuery, SetAck
  <2> QED
    BY <2>1, <2>2 DEF HeldIsOpen, Held, Claims, Pending, NoDoubleHandling
<1>16. CASE FollowPush
  <2>0. PICK gated \in SUBSET Tasks, broken \in SUBSET Tasks :
            ScriptAcks(follow, follow \ (gated \cup broken), gated, broken)
    BY <1>16 DEF FollowPush
  <2>1. UNCHANGED <<status, batch, stray, phase>> /\ follow' = {}
    BY <1>16 DEF FollowPush, inVars
  <2>2. \A m \in Msg : ack'[m] = ack[m] \/ (m \in follow /\ ack'[m] \in AckFinal)
    BY <2>0, ScriptAcksOnly
  <2>3. \A m \in batch \cup stray : ack'[m] = ack[m]
    BY <2>2 DEF NoDoubleHandling
  <2>4. Claims' \subseteq Claims /\ \A m \in Msg : ack[m] = "none" => ack'[m] = "none"
    BY <2>2 DEF Claims, HeldIsOpen
  <2> QED
    BY <2>1, <2>3, <2>4 DEF HeldIsOpen, Held, Claims, Pending
<1>17. CASE FollowDrop
  <2>0. PICK gated \in SUBSET Tasks, broken \in SUBSET Tasks :
            ScriptAcks(stray, {}, gated, broken)
    BY <1>17 DEF FollowDrop
  <2>1. UNCHANGED <<status, batch, follow, phase>> /\ stray' = {}
    BY <1>17 DEF FollowDrop, inVars
  <2>2. \A m \in Msg : ack'[m] = ack[m] \/ (m \in stray /\ ack'[m] \in AckFinal)
    BY <2>0, ScriptAcksOnly
  <2>3. \A m \in batch \cup follow : ack'[m] = ack[m]
    BY <2>2 DEF NoDoubleHandling
  <2>4. Claims' \subseteq Claims /\ \A m \in Msg : ack[m] = "none" => ack'[m] = "none"
    BY <2>2 DEF Claims, HeldIsOpen
  <2> QED
    BY <2>1, <2>3, <2>4 DEF HeldIsOpen, Held, Claims, Pending
<1> QED
  BY <1>3, <1>4, <1>5, <1>6, <1>7, <1>8, <1>9, <1>10, <1>11, <1>12, <1>13, <1>14, <1>15, <1>16,
     <1>17, NoneLeft DEF Next, HostNext, ContainerNext

-----------------------------------------------------------------------------
(* The theorems.                                                            *)

\* the invariant holds initially, ...
LEMMA InitInv == Init => IInv
<1> SUFFICES ASSUME Init PROVE IInv
  OBVIOUS
<1>1. OneContainer
  BY DEF Init, OneContainer
<1>2. HandsFitPhase /\ HeldIsAcked /\ NoDoubleHandling
  BY DEF Init, HandsFitPhase, HeldIsAcked, NoDoubleHandling
<1>3. OrphansAreOwed
  BY DEF Init, OrphansAreOwed, Orphans, Claims
<1>4. HeldIsOpen
  BY DEF Init, HeldIsOpen, Held, Claims
<1> QED
  BY <1>1, <1>2, <1>3, <1>4 DEF IInv, WhenAlone

\* only a stop, and a container left behind, touch what is left behind
LEMMA StepLeaves == ASSUME [Next]_vars PROVE Stop \/ LeftNext \/ UNCHANGED leftVars
<1>1. Crash => Stop
  BY DEF Crash, Stop
<1> QED
  BY <1>1 DEF Next, HostNext, ContainerNext, TimeNext, vars, Arrive, Wake, Spawn, SpawnFail, Close,
     HostCrash, HostStart, RestartWrite, RestartKill, SweepSync, SweepWoken, SweepCheck, SweepKill,
     Boot, PollIdle, Claim, Prepare, Event, Result, EndQuery, FollowClaim, FollowPush, FollowDrop,
     GoSilent, Elapse, Age

\* a container left behind leaves its mark for good
LEMMA LeftStays == ASSUME [Next]_vars, left' = {} PROVE left = {}
<1>1. CASE Stop
  BY <1>1, StopEnds DEF ProcessGone, leftVars
<1>2. CASE LeftNext
  BY <1>2 DEF LeftNext, LeftBoot, LeftClaims, LeftAnswers, LeftEnds
<1>3. CASE UNCHANGED leftVars
  BY <1>3 DEF leftVars
<1> QED
  BY <1>1, <1>2, <1>3, StepLeaves

\* ... and every step keeps it
LEMMA NextInv == TypeOK /\ IInv /\ [Next]_vars => IInv'
<1> SUFFICES ASSUME TypeOK, IInv, [Next]_vars PROVE IInv'
  OBVIOUS
<1>1. OneContainer' /\ HandsFitPhase'
  BY KeepsOneContainer, KeepsHandsFitPhase DEF IInv
<1>2. ASSUME left' = {} PROVE HeldIsAcked' /\ NoDoubleHandling' /\ OrphansAreOwed' /\ HeldIsOpen'
  <2>1. left = {}
    BY <1>2, LeftStays
  <2> QED
    BY <1>2, <2>1, KeepsHeldIsAcked, KeepsNoDoubleHandling, KeepsOrphansAreOwed, KeepsHeldIsOpen
       DEF IInv, WhenAlone
<1> QED
  BY <1>1, <1>2 DEF IInv, WhenAlone

\* The inductive invariant holds in every reachable state.
THEOREM Invariance == Spec => []IInv
  BY InitInv, NextInv, TypeCorrectness, PTL DEF Spec

\* However the sweep, the router's wakes and the restarts interleave, and whenever the
\* host crashes, no second container is started for a session that has one alive
\* (container-runner.ts wakeContainer, index.ts cleanupOrphans before the first sweep).
THEOREM OneContainerAtATime == Spec => []NoSecondContainer
<1>1. IInv => NoSecondContainer
  BY DEF IInv, OneContainer, NoSecondContainer
<1> QED
  BY <1>1, Invariance, PTL

\* The batch, the follow-ups and the leftovers of finished queries never share a
\* message (poll-loop.ts markProcessing before anything is awaited).
THEOREM HandledOnce == Spec => []NoDoubleHandling
<1>1. IInv => NoDoubleHandling
  BY DEF IInv, WhenAlone, NoDoubleHandling
<1> QED
  BY <1>1, Invariance, PTL

\* When leftover claims can be deleted, tries never exceeds the number of times a
\* container lost the message (host-sweep.ts resetStuckProcessingRows).
THEOREM TriesEarned == Spec => []TriesAreEarned
<1>1. IInv => TriesAreEarned
  BY DEF IInv, WhenAlone, OrphansAreOwed, TriesAreEarned
<1> QED
  BY <1>1, Invariance, PTL

\* Stops that fail included: a claim is only ever taken away by a container that starts up,
\* or by the host when it has stopped, or tried to stop, every container it started
\* (host-sweep.ts resetStuckProcessingRows).
THEOREM ClaimsStand == Spec => ClaimsClearedAlone
<1> DEFINE StepOK == \A m \in Msg : ack[m] = "processing" /\ ack'[m] = "none"
                        => phase = "boot" \/ "boot" \in left \/ phase' = "none"
<1>1. TypeOK /\ IInv /\ [Next]_vars => StepOK
  <2> SUFFICES ASSUME TypeOK, IInv, [Next]_vars, NEW m \in Msg,
                      ack[m] = "processing", ack'[m] = "none", phase # "boot",
                      "boot" \notin left
               PROVE  phase' = "none"
    OBVIOUS
  <2> USE DEF TypeOK
  <2>1. CASE Boot
    BY <2>1 DEF Boot
  <2>2. CASE SweepKill
    BY <2>2 DEF SweepKill, Stop, ProcessGone, ProcessLeft
  <2>3. CASE SweepWoken \/ SweepCheck
    BY <2>3 DEF SweepWoken, SweepCheck, IInv, OneContainer, outVars, contVars
  <2>4. CASE Claim \/ FollowClaim
    BY <2>4 DEF Claim, FollowClaim, MarkProcessing, SetAck
  <2>5. CASE Prepare \/ FollowPush \/ FollowDrop
    BY <2>5 DEF Prepare, FollowPush, FollowDrop, ScriptAcks
  <2>6. CASE Result \/ EndQuery
    BY <2>6 DEF Result, EndQuery, SetAck
  <2>7. CASE UNCHANGED ack
    BY <2>7
  <2>8. ASSUME NEW n \in Msg, Arrive(n) PROVE UNCHANGED ack
    BY <2>8 DEF Arrive, outVars
  <2>9. CASE Wake \/ Spawn \/ SpawnFail \/ Close \/ HostCrash \/ HostStart \/ RestartWrite
             \/ RestartKill \/ SweepSync \/ PollIdle \/ Event \/ Crash \/ TimeNext
    BY <2>7, <2>9 DEF Wake, Spawn, SpawnFail, Close, HostCrash, HostStart, RestartWrite,
                      RestartKill, SweepSync, PollIdle, Event, Crash, TimeNext, GoSilent,
                      Elapse, Age, outVars
  <2>10. CASE UNCHANGED vars
    BY <2>7, <2>10 DEF vars, outVars
  <2>11. CASE LeftNext
    <3>1. CASE LeftClaims
      BY <3>1 DEF LeftClaims, MarkProcessing, SetAck
    <3>2. CASE LeftAnswers
      BY <3>2 DEF LeftAnswers
    <3>3. CASE LeftEnds
      BY <2>7, <3>3 DEF LeftEnds, outVars
    <3> QED
      BY <2>11, <3>1, <3>2, <3>3 DEF LeftNext, LeftBoot
  <2> QED
    BY <2>1, <2>2, <2>3, <2>4, <2>5, <2>6, <2>7, <2>8, <2>9, <2>10, <2>11
       DEF Next, HostNext, ContainerNext
<1>2. TypeOK /\ IInv /\ [Next]_vars => [StepOK]_vars
  BY <1>1
<1> QED
  BY <1>2, TypeCorrectness, Invariance, PTL DEF Spec, ClaimsClearedAlone
-----------------------------------------------------------------------------
(* The queue implements the promise of Inbox.                               *)

\* the message goes along one arrow of Inbox, seen from the queue's variables
Goes(m, from, to) == StandsAt(m) = from /\ StandsAt(m)' = to /\ lost'[m] = lost[m]

Arrow(m) ==
    \/ StandsAt(m)' = StandsAt(m) /\ lost'[m] = lost[m]
    \/ Goes(m, "absent", "queued") \/ Goes(m, "queued", "taken")
    \/ Goes(m, "taken", "done") \/ Goes(m, "taken", "failed")
    \/ Goes(m, "queued", "failed") /\ lost[m] = MaxTries + 1
    \/ /\ StandsAt(m) = "taken" /\ lost'[m] = Count(lost[m])
       /\ \/ StandsAt(m)' = "queued"
          \/ StandsAt(m)' = "failed" /\ lost'[m] = MaxTries + 1

\* a message that takes an arrow makes a step of Inbox
LEMMA ArrowMoves ==
    ASSUME TypeOK, NEW m \in Msg, Arrow(m)
    PROVE  Ibx!Move(m)
<1> DEFINE at == [n \in Msg |-> StandsAt(n)]
<1>1. at[m] = StandsAt(m) /\ at'[m] = StandsAt(m)'
  OBVIOUS
<1>2. lost[m] \in 0 .. MaxTries + 1
  BY DEF TypeOK
<1>3. Count(lost[m]) = IF lost[m] < MaxTries + 1 THEN lost[m] + 1 ELSE lost[m]
  BY <1>2, BoundAssumption DEF Count
<1> HIDE DEF at
<1> QED
  BY <1>1, <1>3 DEF Arrow, Goes, Ibx!Move, Ibx!To, Ibx!Post, Ibx!Take, Ibx!Finish,
     Ibx!ScriptFails, Ibx!GiveUp, Ibx!GiveBack, at

\* nothing about the message changes
LEMMA Stays ==
    ASSUME NEW m \in Msg, status'[m] = status[m], ack'[m] = ack[m], lost'[m] = lost[m],
           m \in Held' <=> m \in Held
    PROVE  Arrow(m)
  BY DEF Arrow, StandsAt

\* the end of a process gives back what it held
LEMMA GoneArrow ==
    ASSUME TypeOK, HeldIsOpen, NEW m \in Msg, ProcessGone, UNCHANGED <<status, ack>>
    PROVE  Arrow(m)
<1>1. m \notin Held' /\ status'[m] = status[m] /\ ack'[m] = ack[m]
  BY DEF ProcessGone, Held
<1>2. lost'[m] = IF m \in Held THEN Count(lost[m]) ELSE lost[m]
  BY DEF ProcessGone, Lose
<1>3. CASE m \in Held
  BY <1>1, <1>2, <1>3 DEF Arrow, StandsAt, Held, Claims, Pending, HeldIsOpen
<1>4. CASE m \notin Held
  BY <1>1, <1>2, <1>4 DEF Arrow, StandsAt
<1> QED
  BY <1>3, <1>4

\* what the reset makes of a message, the claims being deleted
LEMMA ResetSettles ==
    ASSUME TypeOK, ResetStuck, FALSE \notin ClearOutcomes, NEW m \in Msg
    PROVE  /\ ack'[m] = IF ack[m] = "processing" THEN "none" ELSE ack[m]
           /\ m \notin Claims'
           /\ \/ status'[m] = status[m]
              \/ /\ status'[m] = "failed" /\ status[m] = "pending"
                 /\ ack[m] = "processing" /\ tries[m] = MaxTries
<1>1. ClearOutcomes = {TRUE}
  BY ClearAssumption
<1>2. ack'[m] = IF ack[m] = "processing" THEN "none" ELSE ack[m]
  BY <1>1 DEF ResetStuck, SetAck, Claims
<1>3. m \notin Claims'
  BY <1>2 DEF Claims
<1>4. tries[m] \in 0 .. MaxTries
  BY DEF TypeOK
<1> QED
  BY <1>2, <1>3, <1>4, BoundAssumption DEF ResetStuck, Spent, Claims, Pending

\* a reset gives back or fails what it finds claimed
LEMMA ResetArrow ==
    ASSUME TypeOK, OrphansAreOwed, FALSE \notin ClearOutcomes, NEW m \in Msg, ResetStuck, lost' = lost,
           batch = {}, follow = {}, stray = {}
    PROVE  Arrow(m)
<1>1. m \notin Held /\ m \notin Held'
  BY ResetSettles DEF Held
<1>2. ack[m] = "processing" /\ tries[m] = MaxTries => lost[m] = MaxTries + 1
  <2>1. m \in Claims => m \in Orphans
    BY DEF Orphans
  <2>2. m \in Claims => tries[m] < lost[m]
    BY <2>1 DEF OrphansAreOwed
  <2> QED
    BY <2>2, BoundAssumption DEF TypeOK, Claims
<1> QED
  BY <1>1, <1>2, ResetSettles DEF Arrow, Goes, StandsAt, TypeOK, AckFinal

\* so does a kill with the reset after it
LEMMA KillArrow ==
    ASSUME TypeOK, IInv, left = {}, FALSE \notin ClearOutcomes, NEW m \in Msg,
           ProcessGone, ResetStuck
    PROVE  Arrow(m)
<1>1. m \notin Held'
  BY ResetSettles DEF Held
<1>2. lost'[m] = IF m \in Held THEN Count(lost[m]) ELSE lost[m]
  BY DEF ProcessGone, Lose
<1>3. /\ tries[m] \in 0 .. MaxTries /\ lost[m] \in 0 .. MaxTries + 1
      /\ tries[m] <= lost[m] /\ (m \in Orphans => tries[m] < lost[m])
  BY DEF TypeOK, IInv, WhenAlone, OrphansAreOwed
<1>4. CASE m \in Held
  <2>1. ack[m] = "processing" /\ status[m] = "pending"
    BY <1>4 DEF Held, Claims, IInv, WhenAlone, HeldIsOpen, Pending
  <2>2. tries[m] = MaxTries => lost'[m] = MaxTries + 1
    BY <1>2, <1>3, <1>4, BoundAssumption DEF Count
  <2> QED
    BY <1>1, <1>2, <1>4, <2>1, <2>2, ResetSettles DEF Arrow, StandsAt
<1>5. CASE m \notin Held
  <2>1. ack[m] = "processing" /\ tries[m] = MaxTries => lost[m] = MaxTries + 1
    BY <1>3, <1>5, BoundAssumption DEF Orphans, Held, Claims
  <2> QED
    BY <1>1, <1>2, <1>5, <2>1, ResetSettles DEF Arrow, Goes, StandsAt, TypeOK, AckFinal
<1> QED
  BY <1>4, <1>5

\* what pre-task scripts make of the messages they gate, and of the others
LEMMA ScriptArrow ==
    ASSUME TypeOK, NEW m \in Msg, NEW STATE S, NEW STATE done, NEW gated, NEW broken,
           ScriptAcks(S, done, gated, broken), done \subseteq S, S \subseteq Held, Held \subseteq Pending,
           status' = status, lost'[m] = lost[m],
           m \in S /\ m \notin done \cup gated \cup broken => m \in Held',
           m \notin S => (m \in Held' <=> m \in Held)
    PROVE  Arrow(m)
<1>1. gated \subseteq S /\ broken \subseteq S
  BY DEF ScriptAcks
<1>2. ack'[m] = IF m \in done \cup gated THEN "completed"
               ELSE IF m \in broken THEN "script-skip:error" ELSE ack[m]
  BY DEF ScriptAcks
<1>3. m \in S => status[m] = "pending" /\ ack[m] = "processing"
  BY DEF Held, Claims, Pending
<1> QED
  BY <1>1, <1>2, <1>3 DEF Arrow, Goes, StandsAt

\* every step moves every message along an arrow or leaves it
LEMMA StepArrow ==
    ASSUME TypeOK, IInv, left = {}, left' = {}, FALSE \notin ClearOutcomes, [Next]_vars,
           NEW m \in Msg
    PROVE  Arrow(m)
<1> USE DEF AckFinal, Settled
<1>1. CASE UNCHANGED <<status, ack, batch, follow, stray, lost>>
  BY <1>1, Stays DEF Held, Claims
<1>2. CASE HostStart \/ RestartKill \/ Crash
  BY <1>2, GoneArrow, StopEnds DEF HostStart, RestartKill, Crash, IInv, WhenAlone, inVars, outVars
<1>3. CASE \/ Wake \/ Spawn \/ SpawnFail \/ Close \/ HostCrash \/ Event \/ PollIdle \/ TimeNext
           \/ UNCHANGED vars
  BY <1>1, <1>3 DEF Wake, Spawn, SpawnFail, Close, HostCrash, Event, PollIdle, TimeNext, GoSilent,
     Elapse, Age, vars, inVars, outVars, contVars
<1>4. ASSUME NEW n \in Msg, status[n] = "absent", status' = [status EXCEPT ![n] = "pending"],
             UNCHANGED <<ack, batch, follow, stray, lost>>
      PROVE  Arrow(m)
  <2>1. Held' = Held
    BY <1>4 DEF Held, Claims
  <2>2. CASE m = n
    <3>1. ack[m] = "none" /\ m \notin Held
      BY <1>4, <2>2 DEF IInv, WhenAlone, HeldIsOpen, Held, Claims
    <3> QED
      BY <1>4, <2>1, <2>2, <3>1 DEF Arrow, Goes, StandsAt, TypeOK
  <2>3. CASE m # n
    BY <1>4, <2>1, <2>3, Stays DEF TypeOK
  <2> QED
    BY <2>2, <2>3
<1>5. ASSUME NEW n \in Msg, Arrive(n) PROVE Arrow(m)
  BY <1>4, <1>5 DEF Arrive, outVars, contVars
<1>6. CASE RestartWrite
  BY <1>1, <1>4, <1>6 DEF RestartWrite, inVars, outVars, contVars
<1>7. CASE SweepSync
  <2>1. UNCHANGED <<ack, batch, follow, stray, lost>> /\ Held' = Held
    BY <1>7 DEF SweepSync, outVars, contVars, Held, Claims
  <2>2. status'[m] = IF ack[m] \in AckFinal /\ status[m] \notin Settled
                     THEN IF ack[m] = "completed" THEN "completed" ELSE "failed"
                     ELSE status[m]
    BY <1>7 DEF SweepSync
  <2>3. status[m] = "absent" => ack[m] = "none"
    BY DEF IInv, WhenAlone, HeldIsOpen
  <2> QED
    BY <2>1, <2>2, <2>3 DEF Arrow, StandsAt
<1>8. CASE SweepWoken \/ SweepCheck
  <2>1. CASE active
    BY <1>1, <1>8, <2>1 DEF SweepWoken, SweepCheck, inVars, outVars, contVars
  <2>2. CASE ~active
    <3>1. ResetStuck /\ lost' = lost
      BY <1>8, <2>2 DEF SweepWoken, SweepCheck
    <3>2. batch = {} /\ follow = {} /\ stray = {}
      BY <1>8, <2>2 DEF SweepWoken, SweepCheck, IInv, OneContainer, HandsFitPhase
    <3> QED
      BY <3>1, <3>2, ResetArrow DEF IInv, WhenAlone
  <2> QED
    BY <2>1, <2>2
<1>9. CASE SweepKill
  BY <1>9, KillArrow, StopEnds DEF SweepKill
<1>10. CASE Boot
  <2>1. /\ UNCHANGED <<status, lost>> /\ m \notin Held /\ m \notin Held'
        /\ ack'[m] = IF ack[m] = "processing" THEN "none" ELSE ack[m]
    BY <1>10 DEF Boot, SetAck, inVars, IInv, HandsFitPhase, Held, Claims
  <2> QED
    BY <2>1 DEF Arrow, StandsAt
<1>11. ASSUME NEW STATE S, S \subseteq Pending, \A n \in S : ack[n] = "none",
              UNCHANGED <<status, lost>>, MarkProcessing(S), S \subseteq batch' \cup follow' \cup stray',
              (batch' \cup follow' \cup stray') \ S = batch \cup follow \cup stray
       PROVE  Arrow(m)
  <2>1. ack'[m] = IF m \in S THEN "processing" ELSE ack[m]
    BY <1>11 DEF MarkProcessing, SetAck
  <2>2. CASE m \in S
    BY <1>11, <2>1, <2>2 DEF Arrow, Goes, StandsAt, Held, Claims, Pending
  <2>3. CASE m \notin S
    BY <1>11, <2>1, <2>3, Stays DEF Held, Claims
  <2> QED
    BY <2>2, <2>3
<1>12. CASE Claim
  <2>1. batch = {} /\ UNCHANGED <<status, follow, stray, lost>> /\ MarkProcessing(batch')
    BY <1>12 DEF Claim, inVars, IInv, HandsFitPhase
  <2>2. batch' \subseteq Pending /\ \A n \in batch' : ack[n] = "none"
    BY <1>12 DEF Claim, PendingMessages, Newest, Visible
  <2>3. batch' \cap (follow \cup stray) = {}
    BY <2>2 DEF IInv, WhenAlone, HeldIsAcked
  <2> QED
    BY <1>11, <2>1, <2>2, <2>3
<1>13. CASE FollowClaim
  <2>1. follow = {} /\ UNCHANGED <<status, batch, stray, lost>> /\ MarkProcessing(follow')
    BY <1>13 DEF FollowClaim, inVars
  <2>2. follow' \subseteq Pending /\ \A n \in follow' : ack[n] = "none"
    BY <1>13 DEF FollowClaim, PendingMessages, Newest, Visible
  <2>3. follow' \cap (batch \cup stray) = {}
    BY <2>2 DEF IInv, WhenAlone, HeldIsAcked
  <2> QED
    BY <1>11, <2>1, <2>2, <2>3
<1>14. CASE Prepare
  <2>1. PICK gated \in SUBSET Tasks, broken \in SUBSET Tasks :
            /\ ScriptAcks(batch, batch \cap Commands, gated, broken)
            /\ batch' = batch \ (Commands \cup gated \cup broken)
    BY <1>14 DEF Prepare
  <2>2. UNCHANGED <<status, follow, stray, lost>> /\ batch \subseteq Claims
    BY <1>14 DEF Prepare, inVars, IInv, WhenAlone, HeldIsOpen
  <2>3. batch \subseteq Held /\ Held \subseteq Pending
    BY <2>2 DEF Held, IInv, WhenAlone, HeldIsOpen
  <2>4. \A n \in Msg : ack'[n] = ack[n] \/ (n \in batch /\ ack'[n] \in AckFinal)
    BY <2>1, ScriptAcksOnly
  <2>5. m \in batch /\ m \notin (batch \cap Commands) \cup gated \cup broken => m \in Held'
    <3>1. m \notin (batch \cap Commands) \cup gated \cup broken => ack'[m] = ack[m]
      BY <2>1 DEF ScriptAcks
    <3> QED
      BY <2>1, <2>2, <3>1 DEF Held, Claims
  <2>6. m \notin batch => (m \in Held' <=> m \in Held)
    BY <2>1, <2>2, <2>4 DEF Held, Claims
  <2> QED
    BY <2>1, <2>2, <2>3, <2>5, <2>6, ScriptArrow
<1>15. CASE Result \/ EndQuery
  <2>1. /\ UNCHANGED <<status, lost>> /\ batch' \subseteq batch
        /\ follow' \cup stray' = follow \cup stray
        /\ \A n \in Msg : ack'[n] = IF n \in batch THEN "completed" ELSE ack[n]
    BY <1>15 DEF Result, EndQuery, SetAck, inVars
  <2>2. CASE m \in batch
    <3>1. ack[m] = "completed" \/ m \in Held
      BY <2>2 DEF IInv, WhenAlone, HeldIsOpen, Held, Claims
    <3>3. m \in Held => status[m] = "pending"
      BY DEF IInv, WhenAlone, HeldIsOpen, Pending
    <3>2. status[m] # "absent"
      BY <2>2 DEF IInv, WhenAlone, HeldIsOpen
    <3> QED
      BY <2>1, <2>2, <3>1, <3>2, <3>3 DEF Arrow, Goes, StandsAt, Held, Claims
  <2>3. CASE m \notin batch
    BY <2>1, <2>3, Stays DEF Held, Claims
  <2> QED
    BY <2>2, <2>3
<1>16. CASE FollowPush
  <2>1. PICK gated \in SUBSET Tasks, broken \in SUBSET Tasks :
            ScriptAcks(follow, follow \ (gated \cup broken), gated, broken)
    BY <1>16 DEF FollowPush
  <2>2. UNCHANGED <<status, batch, stray, lost>> /\ follow' = {}
    BY <1>16 DEF FollowPush, inVars
  <2>3. follow \subseteq Held /\ Held \subseteq Pending
    BY DEF Held, IInv, WhenAlone, HeldIsOpen
  <2>4. \A n \in Msg : ack'[n] = ack[n] \/ (n \in follow /\ ack'[n] \in AckFinal)
    BY <2>1, ScriptAcksOnly
  <2>5. m \notin follow => (m \in Held' <=> m \in Held)
    BY <2>2, <2>4 DEF Held, Claims
  <2> QED
    BY <2>1, <2>2, <2>3, <2>5, ScriptArrow
<1>17. CASE FollowDrop
  <2>1. PICK gated \in SUBSET Tasks, broken \in SUBSET Tasks :
            ScriptAcks(stray, {}, gated, broken) /\ Lose(stray \ (gated \cup broken))
    BY <1>17 DEF FollowDrop
  <2>2. UNCHANGED <<status, batch, follow>> /\ stray' = {}
    BY <1>17 DEF FollowDrop, inVars
  <2>3. stray \subseteq Held /\ Held \subseteq Pending
    BY DEF Held, IInv, WhenAlone, HeldIsOpen
  <2>4. \A n \in Msg : ack'[n] = ack[n] \/ (n \in stray /\ ack'[n] \in AckFinal)
    BY <2>1, ScriptAcksOnly
  <2>5. m \notin stray => (m \in Held' <=> m \in Held)
    BY <2>2, <2>4 DEF Held, Claims
  <2>6. lost'[m] = IF m \in stray \ (gated \cup broken) THEN Count(lost[m]) ELSE lost[m]
    BY <2>1 DEF Lose
  <2>7. CASE m \in stray \ (gated \cup broken)
    <3>1. ack'[m] = ack[m] /\ m \notin Held'
      BY <2>1, <2>2, <2>7 DEF ScriptAcks, Held, IInv, WhenAlone, NoDoubleHandling
    <3> QED
      BY <2>2, <2>3, <2>6, <2>7, <3>1 DEF Arrow, StandsAt, Held, Claims, Pending
  <2>8. CASE m \notin stray \ (gated \cup broken)
    BY <2>1, <2>2, <2>3, <2>5, <2>6, <2>8, ScriptArrow
  <2> QED
    BY <2>7, <2>8
<1> QED
  BY <1>2, <1>3, <1>5, <1>6, <1>7, <1>8, <1>9, <1>10, <1>12, <1>13, <1>14, <1>15, <1>16, <1>17,
     NoneLeft DEF Next, HostNext, ContainerNext

\* an empty queue is an empty inbox
LEMMA InitRefines == Init => Ibx!InboxInit
<1> SUFFICES ASSUME Init PROVE Ibx!InboxInit
  OBVIOUS
<1> DEFINE at == [m \in Msg |-> StandsAt(m)]
<1>1. ASSUME NEW m \in Msg PROVE StandsAt(m) = "absent"
  <2>1. status[m] = "absent" /\ ack[m] = "none" /\ m \notin Held
    BY DEF Init, Held
  <2> QED
    BY <2>1 DEF StandsAt
<1>2. at = [m \in Msg |-> "absent"]
  BY <1>1
<1> QED
  BY <1>2 DEF Init, Ibx!InboxInit

\* every step of the queue is a step of Inbox, or leaves it as it is
LEMMA NextRefines ==
    ASSUME TypeOK, TypeOK', IInv, left = {}, left' = {}, FALSE \notin ClearOutcomes, [Next]_vars
    PROVE  [Ibx!InboxNext]_(Ibx!inboxVars)
<1>1. \A m \in Msg : Ibx!Move(m)
  BY StepArrow, ArrowMoves
<1>2. [m \in Msg |-> StandsAt(m)]' \in [Msg -> Ibx!Places]
  <2>1. \A m \in Msg : StandsAt(m)' \in Ibx!Places
    BY DEF StandsAt, Ibx!Places
  <2> QED
    BY <2>1
<1>3. lost' \in [Msg -> 0 .. MaxTries + 1]
  BY DEF TypeOK
<1> QED
  BY <1>1, <1>2, <1>3 DEF Ibx!InboxNext

\* stops that work leave nothing behind
LEMMA NoneIsLeft ==
    ASSUME FALSE \notin StopOutcomes
    PROVE  Spec => [](left = {})
<1>1. Init => left = {}
  BY DEF Init
<1>2. left = {} /\ [Next]_vars => (left = {})'
  <2> SUFFICES ASSUME left = {}, [Next]_vars PROVE left' = {}
    OBVIOUS
  <2>1. Stop => UNCHANGED leftVars
    BY DEF Stop, ProcessGone, ProcessLeft
  <2> QED
    BY <2>1, StepLeaves, NoneLeft DEF leftVars
<1> QED
  BY <1>1, <1>2, PTL DEF Spec

\* The queue implements the promise of Inbox, for every set of messages, prompt window and
\* retry bound, when stops work and leftover claims can be deleted: a reset that counts a loss and cannot
\* delete its claim counts it again (host-sweep.ts resetStuckProcessingRows), and a message
\* then fails before its time.
THEOREM QueueKeepsInbox ==
    ASSUME FALSE \notin ClearOutcomes, FALSE \notin StopOutcomes
    PROVE  Spec => KeepsInbox
<1>1. Spec => [](TypeOK /\ IInv)
  BY TypeCorrectness, Invariance, PTL
<1>4. Spec => [](left = {})
  BY NoneIsLeft
<1>2. Init => Ibx!InboxInit
  BY InitRefines
<1>3. TypeOK /\ IInv /\ left = {} /\ TypeOK' /\ (left = {})' /\ [Next]_vars
         => [Ibx!InboxNext]_(Ibx!inboxVars)
  BY NextRefines
<1> QED
  BY <1>1, <1>2, <1>3, <1>4, PTL DEF Spec, KeepsInbox, Ibx!InboxSpec

=============================================================================
