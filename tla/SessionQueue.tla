---------------------------- MODULE SessionQueue ----------------------------
(***************************************************************************)
(* One session's inbound queue: the rows of inbound.db messages_in (written *)
(* by the host only), the rows of outbound.db processing_ack (written by    *)
(* the container), the container process that claims and answers messages   *)
(* (agent-runner poll-loop), and the host that wakes, watches, kills and    *)
(* retries it (host-sweep, container-runner, container-restart).            *)
(*                                                                          *)
(* Time is not a number here.  What the code compares is kept as sets:      *)
(* "later" are the rows whose process_after lies ahead, "aged" the claims   *)
(* older than the stuck tolerance, "quiet" the claims the heartbeat file    *)
(* was not touched since, and heartbeat is absent, recent, or past the      *)
(* absolute ceiling.  Elapse, Age and GoSilent are the passing of time.     *)
(*                                                                          *)
(* A definition named "...Mutant" is a bug somebody could write into the    *)
(* definition that follows it; nothing uses it, and the properties named in *)
(* PROJECT.json must fail when it takes that definition's place.            *)
(***************************************************************************)
EXTENDS Integers, FiniteSets

CONSTANTS
    Msg,            \* the messages; a message is its seq, so n > m is "newer"
    Commands,       \* messages the runner answers itself (/clear, /upload-trace)
    Tasks,          \* task rows with a pre-task script
    Limit,          \* maxMessagesPerPrompt
    MaxTries,       \* MAX_TRIES
    ClearOutcomes,  \* can the host delete leftover claims? {TRUE}, or BOOLEAN
    StopOutcomes    \* does a stop end the container? {TRUE}, or BOOLEAN

ASSUME MsgAssumption == Msg \subseteq Nat /\ IsFiniteSet(Msg)
ASSUME KindAssumption == Commands \subseteq Msg /\ Tasks \subseteq Msg /\ Commands \cap Tasks = {}
ASSUME BoundAssumption == Limit \in Nat \ {0} /\ MaxTries \in Nat
ASSUME ClearAssumption == ClearOutcomes \subseteq BOOLEAN /\ TRUE \in ClearOutcomes
ASSUME StopAssumption == StopOutcomes \subseteq BOOLEAN /\ TRUE \in StopOutcomes

VARIABLES
    \* inbound.db, messages_in
    status, trigger, onWake, later, tries,
    \* outbound.db, processing_ack; the claims' ages; the heartbeat file
    ack, aged, quiet, heartbeat,
    \* the host: is it up, activeContainers.has(session), wakePromises.has(session),
    \* an onExit wake registered by a restart, and where the sweep stands
    hostUp, active, waking, respawn, host,
    \* the container: its phase, isFirstPoll, the batch of the current query, the
    \* follow-ups being gated by scripts, those whose query ended meanwhile, and
    \* whether a prompt is still unanswered
    phase, firstPoll, batch, follow, stray, turnOpen,
    \* history: how often a claim on the message was abandoned (saturating)
    lost,
    \* the containers a failed stop left alive: how far they are ("gone": they have ended),
    \* and the messages they hold
    left, leftHeld

inVars == <<status, trigger, onWake, later, tries>>
outVars == <<ack, aged, quiet, heartbeat>>
hostVars == <<hostUp, active, waking, respawn, host>>
contVars == <<phase, firstPoll, batch, follow, stray, turnOpen>>
leftVars == <<left, leftHeld>>
vars == <<inVars, outVars, hostVars, contVars, lost, leftVars>>

Settled == {"completed", "failed"}
AckFinal == {"completed", "script-skip:error"}

TypeOK ==
    /\ status \in [Msg -> {"absent", "pending"} \cup Settled]
    /\ trigger \in SUBSET Msg
    /\ onWake \in SUBSET Msg
    /\ later \in SUBSET Msg
    /\ tries \in [Msg -> 0 .. MaxTries]
    /\ ack \in [Msg -> {"none", "processing"} \cup AckFinal]
    /\ aged \in SUBSET Msg
    /\ quiet \in SUBSET Msg
    /\ heartbeat \in {"none", "recent", "silent"}
    /\ hostUp \in BOOLEAN
    /\ active \in BOOLEAN
    /\ waking \in BOOLEAN
    /\ respawn \in BOOLEAN
    /\ host \in {"idle", "wake", "check", "kill", "restart"}
    /\ phase \in {"none", "boot", "poll", "prep", "query"}
    /\ firstPoll \in BOOLEAN
    /\ batch \in SUBSET Msg
    /\ follow \in SUBSET Msg
    /\ stray \in SUBSET Msg
    /\ turnOpen \in BOOLEAN
    /\ lost \in [Msg -> 0 .. MaxTries + 1]
    /\ left \in SUBSET {"boot", "polls", "gone"}
    /\ leftHeld \in SUBSET Msg

Init ==
    /\ status = [m \in Msg |-> "absent"]
    /\ trigger = {} /\ onWake = {} /\ later = {}
    /\ tries = [m \in Msg |-> 0]
    /\ ack = [m \in Msg |-> "none"]
    /\ aged = {} /\ quiet = {} /\ heartbeat = "none"
    /\ hostUp = TRUE /\ active = FALSE /\ waking = FALSE /\ respawn = FALSE
    /\ host = "idle"
    /\ phase = "none" /\ firstPoll = TRUE
    /\ batch = {} /\ follow = {} /\ stray = {} /\ turnOpen = FALSE
    /\ lost = [m \in Msg |-> 0]
    /\ left = {} /\ leftHeld = {}

-----------------------------------------------------------------------------
(* Reading the two tables.                                                  *)

Pending == {m \in Msg : status[m] = "pending"}
Claims == {m \in Msg : ack[m] = "processing"}      \* getProcessingClaims

\* claims a live container still remembers, and those nobody does
Held == Claims \cap (batch \cup follow \cup stray)
Orphans == Claims \ (batch \cup follow \cup stray)

\* countDueMessages > 0, over the statuses st
WorkDue(st) == \E m \in Msg : st[m] = "pending" /\ m \in trigger /\ m \notin later

\* ORDER BY seq DESC LIMIT maxMessagesPerPrompt
Newest(S) == {m \in S : Cardinality({n \in S : n > m}) < Limit}

\* the rows the SELECT of getPendingMessages ranges over
Visible(first) == {m \in Pending \ later : m \in onWake => first}

PendingMessagesMutant(first) == {m \in Newest(Visible(first)) : ack[m] \notin AckFinal}

\* getPendingMessages: the window is cut before the acked rows are dropped
PendingMessages(first) == {m \in Newest(Visible(first)) : ack[m] = "none"}

-----------------------------------------------------------------------------
(* Effects shared by several handlers.                                      *)

\* only claims have an age: A of them are old, Q of them quiet
Ages(A, Q) == aged' = A \cap Claims' /\ quiet' = Q \cap Claims'

\* INSERT OR REPLACE INTO processing_ack for every message of S
SetAck(S, a) == ack' = [m \in Msg |-> IF m \in S THEN a ELSE ack[m]]

\* markProcessing: fresh claims, made after the last touch of the heartbeat
MarkProcessing(S) ==
    /\ SetAck(S, "processing")
    /\ Ages(aged \ S, quiet \cup S)

Count(n) == IF n > MaxTries THEN n ELSE n + 1

\* the claims of S are abandoned
Lose(S) == lost' = [m \in Msg |-> IF m \in S THEN Count(lost[m]) ELSE lost[m]]

\* the container process is gone, and with it all it held in memory
ProcessGone ==
    /\ phase' = "none" /\ firstPoll' = TRUE
    /\ batch' = {} /\ follow' = {} /\ stray' = {} /\ turnOpen' = FALSE
    /\ Lose(Held)
    /\ UNCHANGED leftVars

\* docker stop fails and only its client is killed: for the host the process has ended,
\* the container goes on with what it holds
ProcessLeft ==
    /\ FALSE \in StopOutcomes /\ phase # "none"
    /\ phase' = "none" /\ firstPoll' = TRUE
    /\ batch' = {} /\ follow' = {} /\ stray' = {} /\ turnOpen' = FALSE
    /\ left' = left \cup {IF phase = "boot" THEN "boot" ELSE "polls"}
    /\ leftHeld' = leftHeld \cup batch \cup follow \cup stray
    /\ UNCHANGED lost

\* killContainer swallows what stopping the container throws
Stop == ProcessGone \/ ProcessLeft

SpentEarlyMutant(stuck) == {m \in stuck : tries[m] + 1 >= MaxTries}

\* the rows that have used up their tries
Spent(stuck) == {m \in stuck : tries[m] >= MaxTries}

\* resetStuckProcessingRows: claimed rows that are still pending and not already
\* rescheduled fail after MaxTries, or are retried later; then every claim is dropped,
\* unless outbound.db cannot be opened for writing
ResetStuck ==
    LET stuck == (Claims \cap Pending) \ later
        spent == Spent(stuck)
    IN  /\ status' = [m \in Msg |-> IF m \in spent THEN "failed" ELSE status[m]]
        /\ tries' = [m \in Msg |-> IF m \in stuck \ spent THEN tries[m] + 1 ELSE tries[m]]
        /\ later' = later \cup (stuck \ spent)
        /\ \E cleared \in ClearOutcomes :
              SetAck(IF cleared THEN Claims ELSE {}, "none")
        /\ Ages(aged, quiet)
        /\ UNCHANGED <<trigger, onWake, heartbeat>>

\* decideStuckAction # ok: past the ceiling, or a claim that is old and quiet
Stuck == heartbeat = "silent" \/ \E m \in Claims : m \in aged /\ m \in quiet

\* the host runs one handler at a time: nothing of the host's runs between the
\* synchronous steps of a sweep or of a restart
HostFree == hostUp /\ host \in {"idle", "wake"}

-----------------------------------------------------------------------------
(* The host: new messages, waking, exits, crashes.                          *)

\* writeSessionMessage / insertTaskRow: a pending row, wake-eligible or context
\* only, due now or later
Arrive(m) ==
    /\ HostFree
    /\ status[m] = "absent"
    /\ \A n \in Msg : n < m => status[n] # "absent"
    /\ status' = [status EXCEPT ![m] = "pending"]
    /\ \/ trigger' = trigger \cup {m} /\ later' \in {later, later \cup {m}}
       \/ trigger' = trigger /\ later' = later
    /\ UNCHANGED <<onWake, tries, outVars, hostVars, contVars, lost, leftVars>>

\* the router, a delivery or a command wakes the session; an active container or a
\* wake in flight makes the call a no-op
Wake ==
    /\ HostFree /\ ~active /\ ~waking
    /\ WorkDue(status)
    /\ waking' = TRUE
    /\ UNCHANGED <<inVars, outVars, hostUp, active, respawn, host, contVars, lost, leftVars>>

\* spawnContainer ran to its end: heartbeat file removed, process started
Spawn ==
    /\ HostFree /\ waking
    /\ waking' = FALSE /\ active' = TRUE
    /\ heartbeat' = "none" /\ quiet' = Claims
    /\ phase' = "boot" /\ firstPoll' = TRUE
    /\ UNCHANGED <<inVars, ack, aged, hostUp, respawn, host, batch, follow, stray, turnOpen, lost, leftVars>>

\* spawnContainer threw: wakeContainer resolves false
SpawnFail ==
    /\ HostFree /\ waking
    /\ waking' = FALSE
    /\ UNCHANGED <<inVars, outVars, hostUp, active, respawn, host, contVars, lost, leftVars>>

\* the 'close' event of a process that has ended, and the onExit wake of a restart
Close ==
    /\ HostFree /\ active /\ phase = "none"
    /\ active' = FALSE
    /\ waking' = (waking \/ respawn)
    /\ respawn' = FALSE
    /\ UNCHANGED <<inVars, outVars, hostUp, host, contVars, lost, leftVars>>

\* the host process dies; a container it started keeps running
HostCrash ==
    /\ hostUp
    /\ hostUp' = FALSE /\ active' = FALSE /\ waking' = FALSE /\ respawn' = FALSE
    /\ host' = "idle"
    /\ UNCHANGED <<inVars, outVars, contVars, lost, leftVars>>

HostStartMutant ==
    /\ ~hostUp
    /\ hostUp' = TRUE
    /\ UNCHANGED <<inVars, outVars, active, waking, respawn, host, contVars, lost, leftVars>>

\* startup: cleanupOrphans stops the containers of the previous run, or fails to
HostStart ==
    /\ ~hostUp
    /\ hostUp' = TRUE
    /\ Stop
    /\ UNCHANGED <<inVars, outVars, active, waking, respawn, host>>

\* restartAgentGroupContainers: writes the on_wake row (wakeMessage), ...
RestartWrite ==
    /\ hostUp /\ host = "idle" /\ active
    /\ host' = "restart"
    /\ \/ UNCHANGED inVars /\ respawn' = (respawn \/ WorkDue(status))
       \/ \E m \in Msg \ (Commands \cup Tasks) :
            /\ status[m] = "absent"
            /\ \A n \in Msg : n < m => status[n] # "absent"
            /\ status' = [status EXCEPT ![m] = "pending"]
            /\ trigger' = trigger \cup {m}
            /\ onWake' = onWake \cup {m}
            /\ respawn' = TRUE
            /\ UNCHANGED <<later, tries>>
    /\ UNCHANGED <<outVars, hostUp, active, waking, contVars, lost, leftVars>>

\* ... then stops the container; claims are left for the next one to clear
RestartKill ==
    /\ hostUp /\ host = "restart"
    /\ host' = "idle"
    /\ Stop
    /\ UNCHANGED <<inVars, outVars, hostUp, active, waking, respawn>>

-----------------------------------------------------------------------------
(* The host sweep of this session.                                          *)

SweepSyncMutant ==
    /\ hostUp /\ host = "idle"
    /\ status' = [m \in Msg |->
                    IF ack[m] \in AckFinal /\ status[m] \notin Settled
                    THEN IF ack[m] = "completed" THEN "completed" ELSE "failed"
                    ELSE status[m]]
    /\ host' = "check"
    /\ UNCHANGED <<trigger, onWake, later, tries, outVars, hostUp, active, waking, respawn,
                   contVars, lost, leftVars>>

\* steps 1 and 2: mirror final acks onto messages_in, wake if work is due
SweepSync ==
    /\ hostUp /\ host = "idle"
    /\ status' = [m \in Msg |->
                    IF ack[m] \in AckFinal /\ status[m] \notin Settled
                    THEN IF ack[m] = "completed" THEN "completed" ELSE "failed"
                    ELSE status[m]]
    /\ IF WorkDue(status') /\ ~active
       THEN host' = "wake" /\ waking' = TRUE
       ELSE host' = "check" /\ waking' = waking
    /\ UNCHANGED <<trigger, onWake, later, tries, outVars, hostUp, active, respawn, contVars, lost, leftVars>>

SweepWokenMutant ==
    /\ hostUp /\ host = "wake" /\ ~waking
    /\ host' = "idle"
    /\ ResetStuck
    /\ UNCHANGED <<hostUp, active, waking, respawn, contVars, lost, leftVars>>

\* the awaited wake settled: a container just woken is spared (step 3 is skipped), a
\* failed wake falls through to the cleanup of step 4
SweepWoken ==
    /\ hostUp /\ host = "wake" /\ ~waking
    /\ host' = "idle"
    /\ IF active THEN UNCHANGED <<inVars, outVars>> ELSE ResetStuck
    /\ UNCHANGED <<hostUp, active, waking, respawn, contVars, lost, leftVars>>

SweepCheckMutant ==
    /\ hostUp /\ host = "check"
    /\ host' = (IF active /\ Stuck THEN "kill" ELSE "idle")
    /\ ResetStuck
    /\ UNCHANGED <<hostUp, active, waking, respawn, contVars, lost, leftVars>>

\* steps 3 and 4 without a wake: decide on a running container, clean up after a
\* stopped one
SweepCheck ==
    /\ hostUp /\ host = "check"
    /\ host' = (IF active /\ Stuck THEN "kill" ELSE "idle")
    /\ IF active THEN UNCHANGED <<inVars, outVars>> ELSE ResetStuck
    /\ UNCHANGED <<hostUp, active, waking, respawn, contVars, lost, leftVars>>

\* killContainer, then resetStuckProcessingRows on the claims found after the stop
SweepKill ==
    /\ hostUp /\ host = "kill"
    /\ host' = "idle"
    /\ Stop
    /\ ResetStuck
    /\ UNCHANGED <<hostUp, active, waking, respawn>>

-----------------------------------------------------------------------------
(* The container: agent-runner's poll loop.                                 *)

\* clearStaleProcessingAcks at the start of runPollLoop
Boot ==
    /\ phase = "boot"
    /\ phase' = "poll"
    /\ SetAck(Claims, "none")
    /\ Ages({}, {})
    /\ UNCHANGED <<inVars, heartbeat, hostVars, firstPoll, batch, follow, stray,
                   turnOpen, lost, leftVars>>

\* an outer poll that finds nothing to wake for
PollIdle ==
    /\ phase = "poll" /\ firstPoll
    /\ PendingMessages(TRUE) \cap trigger = {}
    /\ firstPoll' = FALSE
    /\ UNCHANGED <<inVars, outVars, hostVars, phase, batch, follow, stray, turnOpen, lost, leftVars>>

\* an outer poll with a wake-eligible row claims the whole window
Claim ==
    /\ phase = "poll"
    /\ PendingMessages(firstPoll) \cap trigger # {}
    /\ batch' = PendingMessages(firstPoll)
    /\ MarkProcessing(batch')
    /\ phase' = "prep" /\ firstPoll' = FALSE
    /\ UNCHANGED <<inVars, heartbeat, hostVars, follow, stray, turnOpen, lost, leftVars>>

\* applyPreTaskScripts and markScriptSkipped on S: any of its tasks may be gated or in
\* error; done are messages answered without a script
ScriptAcks(S, done, gated, broken) ==
    /\ gated \subseteq S \cap Tasks /\ broken \subseteq (S \cap Tasks) \ gated
    /\ ack' = [m \in Msg |-> IF m \in done \cup gated THEN "completed"
                             ELSE IF m \in broken THEN "script-skip:error" ELSE ack[m]]
    /\ IF S \cap Tasks = {}
       THEN Ages(aged, quiet) /\ heartbeat' = heartbeat
       ELSE Ages(aged, {}) /\ heartbeat' = "recent"

\* commands and pre-task scripts of the batch; the rest becomes a query
Prepare ==
    /\ phase = "prep"
    /\ \E gated \in SUBSET Tasks, broken \in SUBSET Tasks :
        /\ ScriptAcks(batch, batch \cap Commands, gated, broken)
        /\ batch' = batch \ (Commands \cup gated \cup broken)
    /\ phase' = (IF batch' = {} THEN "poll" ELSE "query")
    /\ turnOpen' = (batch' # {})
    /\ UNCHANGED <<inVars, hostVars, firstPoll, follow, stray, lost, leftVars>>

\* an event of the query's stream that is not a result
Event ==
    /\ phase = "query" /\ turnOpen
    /\ heartbeat' = "recent" /\ quiet' = {}
    /\ UNCHANGED <<inVars, ack, aged, hostVars, contVars, lost, leftVars>>

\* a 'result' event: the initial batch is answered, the stream stays open
Result ==
    /\ phase = "query" /\ turnOpen
    /\ heartbeat' = "recent"
    /\ SetAck(batch, "completed")
    /\ Ages(aged, {})
    /\ turnOpen' = FALSE
    /\ UNCHANGED <<inVars, hostVars, phase, firstPoll, batch, follow, stray, lost, leftVars>>

\* the stream ends or throws: the batch is acked whatever the outcome, and a
\* follow-up still waiting for its scripts belongs to a query that is done
EndQuery ==
    /\ phase = "query"
    /\ phase' = "poll" /\ turnOpen' = FALSE
    /\ SetAck(batch, "completed")
    /\ Ages(aged, quiet)
    /\ batch' = {} /\ follow' = {} /\ stray' = stray \cup follow
    /\ UNCHANGED <<inVars, heartbeat, hostVars, firstPoll, lost, leftVars>>

\* a pending runner command makes the follow-up poll abort the query
AbortForCommand == PendingMessages(FALSE) \cap Commands # {} /\ follow = {} /\ EndQuery

\* the follow-up poll claims what is pending and starts its scripts
FollowClaim ==
    /\ phase = "query" /\ follow = {}
    /\ PendingMessages(FALSE) \cap Commands = {}
    /\ PendingMessages(FALSE) \cap trigger # {}
    /\ follow' = PendingMessages(FALSE)
    /\ MarkProcessing(follow')
    /\ UNCHANGED <<inVars, heartbeat, hostVars, phase, firstPoll, batch, stray, turnOpen, lost, leftVars>>

\* scripts done, query still open: push what was kept and ack it
FollowPush ==
    /\ follow # {}
    /\ \E gated \in SUBSET Tasks, broken \in SUBSET Tasks :
        /\ ScriptAcks(follow, follow \ (gated \cup broken), gated, broken)
        /\ turnOpen' = (turnOpen \/ follow # gated \cup broken)
    /\ follow' = {}
    /\ UNCHANGED <<inVars, hostVars, phase, firstPoll, batch, stray, lost, leftVars>>

\* scripts done, query ended meanwhile: "if (done) return" leaves the claims behind
FollowDrop ==
    /\ stray # {}
    /\ \E gated \in SUBSET Tasks, broken \in SUBSET Tasks :
        /\ ScriptAcks(stray, {}, gated, broken)
        /\ Lose(stray \ (gated \cup broken))
    /\ stray' = {}
    /\ UNCHANGED <<inVars, hostVars, phase, firstPoll, batch, follow, turnOpen, leftVars>>

\* the process dies on its own: crash, out of memory, exit(75) on a poisoned mount
Crash ==
    /\ phase # "none"
    /\ ProcessGone
    /\ UNCHANGED <<inVars, outVars, hostVars>>

-----------------------------------------------------------------------------
(* A container that a failed stop left behind, polling the same two files.  *)

\* it had just been started: it clears every claim there is
LeftBoot ==
    /\ "boot" \in left
    /\ left' = (left \ {"boot"}) \cup {"polls"}
    /\ SetAck(Claims, "none")
    /\ Ages({}, {})
    /\ UNCHANGED <<inVars, heartbeat, hostVars, contVars, lost, leftHeld>>

\* one of its polls
LeftClaims ==
    /\ "polls" \in left
    /\ \E first \in BOOLEAN :
        /\ PendingMessages(first) \cap trigger # {}
        /\ MarkProcessing(PendingMessages(first))
        /\ leftHeld' = leftHeld \cup PendingMessages(first)
    /\ UNCHANGED <<inVars, heartbeat, hostVars, contVars, lost, left>>

\* it answers, or gives up on, some of what it holds, touching the heartbeat or not
LeftAnswers ==
    /\ "polls" \in left
    /\ \E done, broken, kept \in SUBSET leftHeld, touched \in BOOLEAN :
        /\ broken \subseteq Tasks \ done
        /\ ack' = [m \in Msg |-> IF m \in done THEN "completed"
                                 ELSE IF m \in broken THEN "script-skip:error" ELSE ack[m]]
        /\ heartbeat' = (IF touched THEN "recent" ELSE heartbeat)
        /\ Ages(aged, IF touched THEN {} ELSE quiet)
        /\ leftHeld' = kept
    /\ UNCHANGED <<inVars, hostVars, contVars, lost, left>>

\* it ends at last
LeftEnds ==
    /\ left \cap {"boot", "polls"} # {}
    /\ left' = {"gone"} /\ leftHeld' = {}
    /\ UNCHANGED <<inVars, outVars, hostVars, contVars, lost>>

LeftNext == LeftBoot \/ LeftClaims \/ LeftAnswers \/ LeftEnds

-----------------------------------------------------------------------------
(* Time.                                                                    *)

\* process_after passes
Elapse(m) ==
    /\ m \in later
    /\ later' = later \ {m}
    /\ UNCHANGED <<status, trigger, onWake, tries, outVars, hostVars, contVars, lost, leftVars>>

\* a claim grows older than the tolerance
Age(m) ==
    /\ m \in Claims \ aged
    /\ aged' = aged \cup {m}
    /\ UNCHANGED <<inVars, ack, quiet, heartbeat, hostVars, contVars, lost, leftVars>>

\* no touch for longer than the ceiling, so claims made before it are old too
GoSilent ==
    /\ heartbeat = "recent"
    /\ heartbeat' = "silent"
    /\ aged' = aged \cup (Claims \ quiet)
    /\ UNCHANGED <<inVars, ack, quiet, hostVars, contVars, lost, leftVars>>

-----------------------------------------------------------------------------
HostNext ==
    \/ \E m \in Msg : Arrive(m)
    \/ Wake \/ Spawn \/ SpawnFail \/ Close
    \/ HostCrash \/ HostStart
    \/ RestartWrite \/ RestartKill
    \/ SweepSync \/ SweepWoken \/ SweepCheck \/ SweepKill

ContainerNext ==
    \/ Boot \/ PollIdle \/ Claim \/ Prepare
    \/ Event \/ Result \/ EndQuery
    \/ FollowClaim \/ FollowPush \/ FollowDrop
    \/ Crash

TimeNext == GoSilent \/ \E m \in Msg : Elapse(m) \/ Age(m)

Next == HostNext \/ ContainerNext \/ LeftNext \/ TimeNext

Spec == Init /\ [][Next]_vars

(***************************************************************************)
(* Fairness.  Timers fire (the sweep, process_after, the heartbeat's age),  *)
(* a process that has exited is reported, promises settle, and the runner   *)
(* keeps polling.  Turns answer in the end; whether the stream then closes, *)
(* whether anybody wakes the session before the sweep does, and every fault *)
(* are left open.                                                           *)
(***************************************************************************)
HostFairness ==
    /\ SF_vars(Spawn) /\ SF_vars(Close) /\ WF_vars(HostStart) /\ WF_vars(RestartKill)
    /\ WF_vars(SweepSync) /\ WF_vars(SweepWoken) /\ WF_vars(SweepCheck) /\ WF_vars(SweepKill)

RunnerFairness ==
    /\ WF_vars(Boot) /\ WF_vars(PollIdle) /\ WF_vars(Claim) /\ WF_vars(Prepare)
    /\ WF_vars(AbortForCommand)
    /\ WF_vars(FollowClaim) /\ WF_vars(FollowPush) /\ WF_vars(FollowDrop)

\* with no turn open nothing touches the heartbeat, so it grows old
TimeFairness ==
    /\ WF_vars(~turnOpen /\ GoSilent)
    /\ \A m \in Msg : WF_vars(Elapse(m)) /\ WF_vars(Age(m))

\* a turn may go on for ever, touching the heartbeat with every event, ...
BusySpec == Spec /\ HostFairness /\ RunnerFairness /\ TimeFairness

\* ... or it answers in the end
FairSpec == BusySpec /\ WF_vars(Result)

\* what the environment may do to the session, but not for ever
Faults == Crash \/ SpawnFail \/ HostCrash \/ RestartWrite
FaultsCease == <>[][~Faults]_vars

-----------------------------------------------------------------------------
(* Properties.                                                              *)

\* wakePromises and activeContainers together keep a session to one container: no
\* spawn is under way while a container that nobody tried to stop is alive
\* (container-runner.ts wakeContainer, host-sweep.ts step 2, container-restart.ts onExit).
NoSecondContainer == waking => phase = "none"

\* One runner never handles a message twice at the same time: the batch of the
\* query, the follow-ups waiting for scripts and those a finished query left behind
\* never overlap, because getPendingMessages drops every row already acked. (A second
\* container, left by a failed stop, could clear the acks under its feet.)
NoDoubleHandling ==
    left = {} =>
        batch \cap follow = {} /\ batch \cap stray = {} /\ follow \cap stray = {}

\* The retry counter never runs ahead of what happened: every increment of tries by
\* resetStuckProcessingRows is paid for by a claim some container really abandoned,
\* so a message is failed by the host only after MaxTries + 1 of them.
TriesAreEarned ==
    left = {} /\ FALSE \notin ClearOutcomes => \A m \in Msg : tries[m] <= lost[m]

\* The claims of a container that nobody has tried to stop are its own: a claim is deleted
\* by a container that starts up (the session's, or one that a failed stop left behind), or
\* by the host after it has stopped, or tried to stop, every container it started
\* (host-sweep.ts resetStuckProcessingRows after killContainer, which swallows a failure).
ClaimsClearedAlone ==
    [][\A m \in Msg : ack[m] = "processing" /\ ack'[m] = "none"
          => phase = "boot" \/ "boot" \in left \/ phase' = "none"]_vars

\* Where the promise of Inbox sees a message: an ack counts before the host has mirrored it,
\* and a claim that no container remembers is queued again, whatever its row still says.
StandsAt(m) ==
    CASE status[m] = "absent" -> "absent"
      [] status[m] = "completed" \/ ack[m] = "completed" -> "done"
      [] status[m] = "failed" \/ ack[m] = "script-skip:error" -> "failed"
      [] m \in Held -> "taken"
      [] OTHER -> "queued"

Ibx == INSTANCE Inbox WITH Patience <- MaxTries + 1, inbox <- [m \in Msg |-> StandsAt(m)]

\* The queue implements the promise of Inbox: whatever crashes, kills, restarts and sweeps
\* do, a message is taken by one container, finished at most once, never comes back from
\* done, and fails only for a broken script or after MaxTries + 1 losses.
KeepsInbox == Ibx!InboxSpec

\* Once faults cease, a wake-eligible message in the queue is completed or failed:
\* waking, sweeping, retrying and the stuck rules leave none behind.
EveryMessageSettles ==
    FaultsCease =>
        \A m \in Msg : (status[m] = "pending" /\ m \in trigger) ~> (status[m] \in Settled)

-----------------------------------------------------------------------------
(* Said of the code by comments or documents, and refuted by TLC: no run    *)
(* claims what follows (README.md, "Disagreements met").                    *)

\* "failed: set by the host when retries are exhausted" (docs/architecture.md): a
\* message that was in the hands of MaxTries + 1 containers that died is not handed
\* to yet another one.
RetriesAreBounded ==
    [][\A m \in Msg : ack[m] = "none" /\ ack'[m] = "processing" => lost[m] <= MaxTries]_vars

\* The sweep spares a container that has not cleared the claims of a crashed
\* predecessor yet: "it hasn't had a chance to clear stale processing_ack rows from a
\* previous crash yet" (host-sweep.ts step 3).
FreshContainerSpared == host = "kill" => phase # "boot"

\* "the host only writes to outbound.db when no container is running (we just killed it)"
\* (db/session-db.ts deleteOrphanProcessingClaims): no claim is deleted while a container
\* that a failed stop left is alive.
ClearedWhenStopped ==
    [][(\E m \in Claims : ack'[m] = "none")
          => "boot" \in {phase} \cup left \/ (phase' = "none" /\ left' \subseteq {"gone"})]_vars
=============================================================================
