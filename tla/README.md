# Area51: TLA+ models, checks and proofs

Area51 is a host process that runs AI agents in containers. People write to it on chat
platforms; a router puts each message into a *session* (an agent group on a channel or
thread); the host wakes a container for the session; the agent-runner inside answers; the
host delivers the answers. Everything host and container say to each other goes through two
SQLite files per session: `inbound.db`, written by the host, and `outbound.db`, written by
the container. There is no lock, no queue broker and no connection between the two sides,
so what makes the system correct is the protocol of rows, acks, claims, heartbeats and
timers. That protocol, its failures and its races are what these modules are about.

## Inventory

| Component | State | Operations | Interacts with |
|---|---|---|---|
| Session inbound queue (`host-sweep.ts`, `container-runner.ts`, `container-restart.ts`, `db/session-db.ts`, agent-runner `poll-loop.ts`, `db/messages-in.ts`) | `messages_in` rows (status, tries, process_after, trigger, on_wake), `processing_ack`, heartbeat file, `activeContainers`, `wakePromises`, the runner's batch | write, wake, spawn, claim, script gate, answer, follow-up, kill, restart, sweep, retry | router, tasks, delivery (all write rows and wake) |
| Outbound delivery (`delivery.ts`) | `messages_out`, `delivered`, `inflightDeliveries`, `deliveryAttempts` | two polls, drain, deliver, record, give up | adapters, delivery actions, approvals |
| Message numbers (`nextEvenSeq`, `writeMessageOut`, `writeOutboundDirect`, `cli/area51.ts`) | `seq` of both tables | number a row, look a number up | agent tools edit_message and add_reaction |
| Held actions (`modules/approvals`, `guard`) | `pending_approvals`, `awaitingReason` | request, approve, reject, reject with reason, expire, replay | delivery actions, admins' DMs, host sweep |
| Task series (`modules/scheduling`, `cli/resources/tasks.ts`) | task rows, `recurrence`, session status | create, pause, resume, cancel, update, run now, delete, re-arm, close | session queue, host sweep |
| Tool actions (`tool-action-*.ts`, `session-tool-actions.ts`, `modules/tool-actions`) | `tool_action_requests`, broker, held requests in memory | reserve, call, hold, approve, reject, expire | delivery, approvals |
| Router, engage rules, command gate (`router.ts`, `command-gate.ts`) | wirings, sessions | fan out, engage, accumulate, filter, deny | sessions, admission |
| Admission (`modules/permissions`) | members, `pending_sender_approvals`, `pending_channel_approvals`, `awaitingNameInput` | request, approve, deny, name an agent, replay | router, cards |
| Agent-to-agent (`modules/agent-to-agent`) | destinations, policies, return paths | stamp, route, hold, approve, reject | guard, approvals, sessions |
| Credential approvals (`onecli-approvals.ts`) | row, card, in-memory resolver and timer | request, decide, expire, sweep at start | OneCLI gateway, admins |
| Container lifecycle and dependency hold (`container-runner.ts`, `incus-*.ts`, `dependency-monitor.ts`) | registry entry, client process, Incus instance, database replica, hold file | wake, spawn, sync, kill, exit, quarantine, hold, clean up | session queue, restarts |
| Recovery (`recovery-*.ts`) | snapshot, manifest, staging with its hold and audit | capture, verify, restore, prepare, gate | all files of the host |
| Questions (`modules/interactive`) | `pending_questions` | ask, answer | delivery, runner's MCP server |
| Runtime policy, quarantine policy, agent gate | declared and measured facts | decide | container lifecycle |
| Circuit breaker, host lifecycle | crash count file, started modules | start, back off, stop | everything |
| CLI, adapters, webhooks, typing, providers, memory, mounts, templates, migrations, setup | - | I/O and text | - |

What is hard in it:

* **Interleaving.** Every handler of the host is async. Two delivery polls, the sweep,
  clicks, inbound messages and process events interleave at each await. The runner's
  follow-up poll interleaves with the event stream of the query it feeds. Three processes of
  a container write to `outbound.db`.
* **Crashes.** Containers outlive a host that dies; claims outlive a container that dies;
  notes and rows live in different databases, so a step of a handler can be torn.
* **Timeouts and retries.** Stuck rules compare a heartbeat, claim ages and tolerances; tries
  and backoff are charged after the fact by a sweep that may come late or not first.
* **Liveness.** A message must be woken for, claimed, answered and synced, and every rule
  that protects one of these steps can starve another.

What makes each component correct: a message is handled by one container at a time, settles,
and is given up only when its tries are spent (inbound queue); a row is sent a bounded number
of times, never after it was recorded, and never forgotten (delivery); a number means one
message (numbers); a decision reaches the agent, and the action runs only if it stands
(held actions); a series is armed once, stays stopped, and goes on when it is not (tasks); an
action is called once or not at all (tool actions); a stranger triggers nobody before an
approver let him in (router, admission); a reply finds the session that asked, over an edge
that is allowed (agent-to-agent); a gateway that waits gets an answer (credentials); one
agent per session, none while it is held, and its evidence and data stay (containers);
restored state is what was captured and does not start by itself (recovery).

## Modules

| Module | Models | Extended by |
|---|---|---|
| `SessionQueue` | one session's inbound queue, host and container, and its refinement mapping to `Inbox` | `SessionQueueProofs` |
| `MCSessionQueue` | a bound on what follows a failed stop | |
| `Inbox` | abstract: what the queue promises for each message | (instance in `SessionQueue`) |
| `Delivery` | one session's outbound queue and the host's two polls | `OutboundProofs` |
| `SeqSpace` | the numbers of both tables and their writers | `OutboundProofs` |
| `Approvals` | held actions | `ApprovalsProofs` |
| `ToolActions` | tool action requests from the row to the call | `ToolActionsProofs` |
| `TaskSeries` | one task series in its session | `TaskSeriesProofs` |
| `Containers` | the runtime of one session on three backends, and its hold | `HostProofs` |
| `Admission` | router, gates and the two approval flows of one chat | `AdmissionProofs` |
| `Credentials` | credential requests | `HostProofs` |
| `AgentRoute` | messages between the sessions of several agents | `MCAgentRoute`, `AgentRouteProofs` |
| `MCAgentRoute` | three sessions of two agents | |
| `Recovery` | snapshots, restores, preparations, the boot gate | `HostProofs` |

A proof module that extends several modules keeps their variables apart: no name is common to
`Delivery` and `SeqSpace`, nor to `Containers`, `Credentials` and `Recovery`, which is why the
specifications of the smaller ones are called `SeqSpec`, `CredentialsSpec` and `RecoverySpec`.

Each module says in its comments which function an action stands for; `PROJECT.json` gives
file and lines for every definition. A definition called `...Mutant` is a plausible bug in
the definition after it; the property it is listed with fails when it takes that
definition's place, so the property depends on what the code does.

### SessionQueue

`status`, `trigger`, `onWake`, `later`, `tries` are the columns of `messages_in`; `ack` is
`processing_ack`. Time is abstracted to what the code compares: `later` holds the rows whose
`process_after` is ahead, `aged` the claims older than the stuck tolerance, `quiet` the
claims the heartbeat was not touched since, and `heartbeat` is absent, recent or past the
absolute ceiling. `Elapse`, `Age` and `GoSilent` let time pass.

The host is single-threaded: `host` says where the sweep or a restart stands, and only an
await (`"wake"`) lets other handlers of the host run. The container's steps interleave with
all of them. `Spawn` removes the heartbeat file and starts a process; `Boot` is
`clearStaleProcessingAcks`; `Claim`, `Prepare`, `Result`, `EndQuery` are the outer loop and
its query; `FollowClaim`, `FollowPush`, `FollowDrop` the follow-up poll around its awaited
scripts; `SweepSync`, `SweepWoken`, `SweepCheck`, `SweepKill` are steps 1 to 4 of
`sweepSession`. `HostCrash` forgets the host's maps and leaves the container running until
`HostStart` stops it. `lost` is history: how often a claim was abandoned.

`killContainer` and the start-up clean-up swallow the error of a stop that fails. With
`StopOutcomes` = `BOOLEAN`, `Stop` may leave the container alive: for the host it has ended,
and `left` and `leftHeld` follow what such containers go on doing to the same two files
(`LeftBoot`, `LeftClaims`, `LeftAnswers`) until they end. `SessionQueueSafety` has such stops,
bounded by `LeftBound` in `MCSessionQueue`. With them the host does delete claims of a container
that is alive, which `ClaimsClearedAlone` allows for that container only and
`ClearedWhenStopped`, the comment's version, denies. `NoDoubleHandling` and `TriesAreEarned` are
about states before the first such stop, and `SessionQueueLive` has none: how a second container
comes to be is the subject of `OneWorker` in `Containers`.

Abstractions: one session; commands' acks and pre-task scripts of a batch are one step
(`Prepare`); follow-ups left by several finished queries are dropped together
(`FollowDrop`); rows of kind `system` are left out (the outer loop ignores them); a declared
Bash timeout only widens tolerances and is covered by `Age` happening later; a container left
by a failed stop reads and claims in one step, and several of them count as one that holds
what any holds; the hold on sessions whose dependencies changed is left out.

### Inbox

Each message is absent, queued, taken, done or failed, and `InboxNext` moves any number of
messages along the arrows. `StandsAt` in `SessionQueue` maps the two tables and the
runner's memory to these places: an acked row is done although the host has not mirrored the
ack yet, and a claim whose container has died is queued again although its row still says
`processing`. `KeepsInbox` says that `SessionQueue` implements this: messages do not come
back from done, and fail only for a broken script or after `MaxTries + 1` losses.

### Delivery

`out` and `record` are `messages_out` and `delivered`; `queue` and `stage` say, for each of
the two polls, which rows its drain holds and where the awaited call for the first of them
stands. `Accept` is the effect in the world (the platform takes the message, the command
runs); `Fail` may happen before or after it, which is what a lost response looks like.
`Restart` forgets `inflightDeliveries` and `deliveryAttempts`. `task` is fixed initially:
a session of a chat or of a task series, whose sessions the sweep closes. What
`deliverMessage` does by kind of row is one effect, except that a `cli_request` also inserts
a response whose id is unique, and that a line for the log of a task's runs (`Logs`) may not be
written: the error of `appendRunLog` is swallowed and the row recorded as delivered. The other
way to drop a row, a host without an adapter, does not occur: `index.ts` sets the adapter before
the polls start.

### SeqSpace

`inSeq` and `outSeq` are the two tables as sets of (id, number). `ReadOut`, `ReadIn` and
`Insert` are the three statements of `writeMessageOut`, for each process that uses it;
`CliRequest` is the command line tool's transaction, `Deny` the command gate's single
statement, `HostInsert` the host's rows, `HostDelete` a deleted task. `shown` is history:
the numbers the agent knows.

### Approvals

`row` is `pending_approvals`, `card` the delivery of the card, `at`/`of` the click handlers
in flight, `armed` the in-memory arming of the one admin's DM, `sweeping` the rows the
finalizer has listed. `Guard` is the approved action re-entering `guard()` with the row as
its grant; `Applied` the deletion after the handler returned. `TearReject` is a crash between
the two databases `finalizeReject` writes to. Counters `executed`, `rejected`, `told` are
history. All requests go to one admin, which makes every arming collide; the choice and
authorization of approvers are left out, so every click is one that the code accepts.

### ToolActions

`out` and `attempts` are the outbound row and its deliveries, `at` the delivery action's
place across its awaits, `reserved` the durable `tool_action_requests`, `pending` the
requests held in memory, `card` and `rows` the approval, `clicked` the approvals whose call
is under way. `Deliver` runs one delivery action on; `Reserve` is the insert that everything
rests on; `Consume` takes a held request out of the map before the call. The HTTP call's
outcome is a choice, a configuration allows, holds or denies by choice, and it may change
while a request is held (`stale`). `MaxFaults` answers cannot be written at first: the
delivery then fails, the row is tried again, and the agent may hear "denied" of a request
that is still with the administrator (`Mistold`); `NoCallAfterNo` says so. Not modelled:
what the destination does, and the size limits of arguments. The limit of held requests is
read before the reservation is awaited, as in the code.

### TaskSeries

`rows` are the task rows of the series in the order of their seq; `sweep` is the place of
the host sweep between its steps, which commands may come between; `running` a container and
`read` the rows it has read and not claimed yet: `Read` and `Claim` are statements on two
databases, and a command may fall between them. `Fanout` is `handleRecurrence`: `Successor` the
row it inserts for a finished one that recurs, `Cleared` what becomes of those, `Streak` the
count of failed runs that pauses the series. Its loop catches errors row by row, so `SweepRecur`
may insert no successor for a row, or clear no recurrence, and still close the session.
`MaxFaults` bounds such errors together with crashes; a cron expression that never parses is
therefore a fault only as often. `Room` bounds the rows: what may still be re-armed (`ToCome`)
finds a place. Times are left out: a pending row may be due. `forked`, `stopped`, `burn` and
`ended` are history. Exceptions the code has, and the properties name: a crash between the two
statements of a re-arm, or an error of the second, arms a series twice; a re-arm that fails in
the sweep that closes the session ends the series (`ended`); `update --recurrence` reaches a
waiting run-now row, which then becomes a series of its own; a pause does not reach a row that is
read or in hand. `--session` naming a closed session is left out.

### Containers

`entry` is the session's slot in `activeContainers`, `client` the docker or incus process
behind it, `wake` the wake in flight across its awaits, `watch` and `scans` the dependency
monitor, `held` and `hold` the two holds (memory and file), `inst` and `marked` the Incus
instance and its quarantine, `guest` and `replica` the rows on both sides of a virtual
machine, and `direct` the rows that the host's own denials of commands add to its copy (`Deny`),
which the next synchronisation replaces. Every command of a backend may fail (`MaxFaults`), and
an agent that a failed stop left running is `leaked`.

`Unsafe` sets the hold and begins a containment, a chain of synchronous commands that may take
minutes: `StopDocker`, or `SetReason`, `Freeze` (with the snapshot) and `PowerOff`
(`containing`). No handler of the host comes in between, but the guest writes on and the host may
die (`Crash`). The next start then deletes an instance that has no mark yet, and passes over one
that has: if it was not frozen, its agent runs on beside a host that holds the session (`cut`),
which `HeldMeansStopped` excepts and `HeldIsStopped` denies. `GateQuarantine`, the same commands
at a spawn, is one step: no agent runs there yet. Not modelled: arguments, mounts, networks and
images; rows that a guest writes between the last synchronisation and the deletion of its machine
are lost, as in the code.

### Admission

One sender, one thread, agents in the order of the fan-out. A fan-out (`routes`) passes over
the agents it does not deliver to at once and awaits each delivery; `Engages`, `Access`,
`Scope` are the rules it reads at each agent at that time. `asks`, `senderRow`, `chanAsks`,
`chanRow` are the two request flows before and after their rows, with `Card` for what became
of the card; `naming` is the in-memory wait for a new agent's name. Cards may never arrive,
and the host may die. Consequences of the code that hold in the model too: a sticky wiring
with accumulation gets a session without a mention; a sender row whose card was not sent
keeps the sender out; a restart during naming leaves the channel row; an armed naming takes
the approver's next DM, whatever it is about. Left out: agent-shared sessions; edits of wirings,
policies and members by command, which a fan-out under way, whose list of wirings was read before
its awaits, would see in part; wirings of a channel that declares a pattern a replayed mention
need not match (`channel-defaults.ts`).

### Credentials

`phase` is the handler of one gateway request across its awaits, `pending` its resolver and
timer in memory, `row` and `card` what outlives the process, `sweep` the rows that the
clean-up at start has read. A click edits the card first and is dispatched later. Not every
card is cleared: a click between card and row has no effect, and a host that dies between
them leaves a card without a row; the gateway is answered anyway. Left out: the deletion of an
agent group by command, which takes the rows of waiting requests along.

### AgentRoute

`stamp` is the row a turn began with, `inbox` the rows of each session with their sender,
`sent` what agents wrote, `place` and `card` what became of it. `Target` is
`resolveTargetSession` with its three ways back, `Denied`/`Held`/`Free` the guard over
destinations and policies, and `Arrive`/`Marked` the two steps a crash can part. A reply is
stamped with the first row of the turn, also when a follow-up caused it: the properties are
about the row it was stamped with. `drain` holds the messages that a drain of a poll has read
(`Enter`): the polls list active sessions only, so what a task session had not handed over when
the sweep closed it (`CloseTask`) is never routed. A poll that listed a session before it was
closed and drains it after is left out. `destinations remove` leaves the policy row, as in the
code. Two cards that a crash makes of one message are one.

### Recovery

A file is its content, a number that never comes back once replaced. `Inspect` reads one
file of an inventory, `Copy` and `Stage` copy one, so that writers, drifts and the medium
come between any two of them; `base` and `seen` are the two inventories that are compared.
`stagingHold` is the marker that keeps a restored installation from booting. `Abort` ends a
command anywhere, a transaction with it. Assumed, and said by the docs ("cannot
guarantee a cross-file point-in-time snapshot with live writers"): no content comes back and
no file is deleted during a capture. Left out: file modes, links and schemas, whose checks
end a command; a hold that the source itself carries, which a restore replaces; an operator
who deletes markers. A drift before the first preparation is not found, since the manifest
is not compared again.

## Runs

| Run | Properties | Distinct states |
|---|---|---|
| `SessionQueueSafety` | `NoSecondContainer`, `NoDoubleHandling`, `TriesAreEarned`, `ClaimsClearedAlone` | 4.1 million |
| `SessionQueueLive` | the promise of `Inbox`: `KeepsInbox`; and, when turns answer, `EveryMessageSettles` | 99 000 |
| `DeliveryQueue` | `EffectsAreBounded`, `DeliveredTookEffect`, `NoEffectAfterRecord`, `EveryRowIsRecorded` | 711 000 |
| `SeqSpaceNames` | `NumbersNameRows` | 1.3 million |
| `ApprovalsHolds` | `DecisionReachesAgent`, `NoExecutionAfterReject`, `HoldsAreDecided` | 93 000 |
| `ToolActionsOnce` | `CalledOnce`, `NoCallAfterNo`, `RequestsSettle` | 230 000 |
| `TaskSeriesArmed` | `OneArmed`, `FailuresAreCapped`, `StopHolds`, `SeriesGoesOn` | 219 000 |
| `ContainersHeld` | `OneWorker`, `HeldMeansStopped`, `HeldEvidenceKept`, `HeldDataFrozen`, `ReplicaGrows`, `RestartsRespawn` | 1.0 million |
| `AdmissionGates` | `TriggersAreAdmitted`, `ApprovedIsDelivered` | 286 000 |
| `CredentialsEnd` | `WaitingIsAnswerable`, `RequestsAreAnswered`, `RowsGo` | 122 000 |
| `AgentRouteReplies` | `RepliesReturn`, `CrossingsAreAllowed`, `ArrivesWithAnAsker`, `SendsSettle` | 306 000 |
| `RecoveryRestores` | `HeldNeverBoots`, `RestoredIsOneInstant`, `ReportIsTrue` | 1.5 million |

All pass. Run one with `tlc -workers 2 -config <run>.cfg <module>`, the module as in
`PROJECT.json`; `AgentRouteReplies` uses `MCAgentRoute`, `SessionQueueSafety` `MCSessionQueue`. The type invariants are not in the
runs: they are theorems.

### Disagreements met

Some statements of comments and documents do not hold of the code. They are kept at the
end of their modules and belong to no run; named under INVARIANT or PROPERTY of the run's cfg
in the last column, TLC finds a behaviour against each of them.

| Statement | What the code does | cfg |
|---|---|---|
| `RetriesAreBounded` | `tries` is not charged for a crash when a wake comes before the clean-up, so a message that kills its container is retried without limit ("Set by the host ... when retries are exhausted", `docs/architecture.md`) | `SessionQueueSafety` |
| `FreshContainerSpared` | only a container woken by the sweep itself is spared by its stuck rules on that tick (`host-sweep.ts` step 3) | `SessionQueueSafety` |
| `ClearedWhenStopped` | a stop that fails is swallowed, and the reset that follows deletes the claims of a container that is alive ("the host only writes to outbound.db when no container is running", `db/session-db.ts`) | `SessionQueueSafety` |
| `LogsAreKept` | a line that cannot be appended to the log of a task's runs is recorded as delivered ("The per-task log file in the workspace is the durable history", `host-sweep.ts`) | `DeliveryQueue` |
| `ClosedSessionsAreDrained` | a spent task session is closed with undelivered rows in its outbound queue (`host-sweep.ts`: the log "survives the close") | `DeliveryQueue` |
| `WritesLand` | the command line tool's `BEGIN IMMEDIATE` does not prevent the collisions it is there for, because `writeMessageOut` reads and inserts outside of a transaction (`cli/area51.ts`) | `SeqSpaceNames` |
| `GrantExecutesOnce` | two overlapping approvals of one row execute twice ("a grant can only execute once", `guard/guard.ts`); tool actions consume their request themselves and do not | `ApprovalsHolds` |
| `RejectedOnce` | a rejection that overtakes another in flight is told twice ("notified exactly once", `response-handler.ts`) | `ApprovalsHolds` |
| `StopsAreFinal` | a row that the runner has read or claimed runs although the series was paused, and its ack overwrites the pause; so does a successor of a row that had finished ("Pause a pending task by series id", `cli/resources/tasks.ts`) | `TaskSeriesArmed` |
| `FiredSeriesAreKept` | an error that the re-arming loop catches leaves a fired series without a successor, and the same sweep closes its session ("a just-fired recurring series has already re-armed its next pending row and is never collected", `host-sweep.ts`) | `TaskSeriesArmed` |
| `QuarantineIsFinal` | the next spawn of a session removes and starts again an instance that was quarantined without a hold (`docs/SECURITY.md`: neither removed nor restarted) | `ContainersHeld` |
| `HeldIsStopped` | a host that dies in a containment, between the mark and the freeze, leaves the held session's agent running, and the next start passes the marked instance over ("The hold survives host restart", `docs/automatic-security-migration.md`) | `ContainersHeld` |
| `HostRowsStay` | a denial written to the host's copy of a virtual machine's `outbound.db` is lost when the next copy replaces it ("safe even with a container running", `session-manager.ts`) | `ContainersHeld` |
| `ReplayReaches` | the replay of an approved message throws at the first agent that already holds it, and ends before the agent it was approved for ("the second routing attempt passes the gate", `sender-approval.ts`) | `AdmissionGates` |

One more needs no statement: a claim that the follow-up poll leaves behind is not released
while the next query stays busy, although its comment relies on the sweep (`poll-loop.ts`).
`FairSpec` assumes that turns answer, and `EveryMessageSettles` holds then; under `BusySpec`,
which does not, it is violated.

### Bounds, and why they are enough

* *SessionQueue*: three messages in `SessionQueueSafety`, for a window of two: chat, a task
  with a script and a runner command, so the window hides a row and every pair of kinds
  meets. Two in `SessionQueueLive`, chat and a task: the first makes a query, the second may
  become a follow-up that this query drops. `MaxTries` = 1 (5 in the code): a first loss that
  is retried and a second that is final. `Limit` = 2, in `SessionQueueLive` the whole queue: a
  smaller window hides pending rows behind acked or context rows, and `EveryMessageSettles`
  is then violated (set `Limit = 1` to see it). After a stop that fails
  `SessionQueueSafety` goes on with two messages, one after the other, and without retries
  (`LeftBound`): what matters there is which containers are alive and one claim that somebody
  deletes; TLC checks the steps that leave the bound, too.
* *Delivery*: four rows, one of each kind; `MaxAttempts` = 2 (3 in the code), so a row can
  fail once and be given up; two host processes, so counters are lost once.
* *SeqSpace*: four rows and numbers up to 8, more than four rows of any writers need; two
  `writeMessageOut` processes.
* *Approvals*: two requests and two handlers, so requests compete for the one arming and
  clicks overlap; two clicks in all, one crash.
* *ToolActions*: two requests for one place among the held ones, two drains, two attempts, one
  answer that cannot be written, one death: the second attempt meets what the first left.
* *TaskSeries*: four rows (the series, its successor, a run-now row and its successor); a cap
  of two failures (the code's is larger), so one failure does not pause and two do; one fault, a crash or a
  statement that fails.
* *Containers*: three agents, so a late exit of the first meets the third; three failing
  commands, two deaths, two rows.
* *Admission*: two agents, so a fan-out has a next one; two messages, one of them a mention
  and possibly a command; two replays; one death.
* *Credentials*: two requests, so a sweep runs beside a new one; two clicks, one death.
* *AgentRoute*: a worker and two sessions of the other agent, one a task session, of which one
  may not exist yet; one message of each session, one edit, one death.
* *Recovery*: the database and two other files, so a change can fall between two files; two
  changes of the source and two of the staging, so either inventory may miss one.

Deadlock is checked for `SessionQueue` and `Recovery`: something can always happen there. The
other systems stop when everything is recorded, decided or numbered and the bounds are used
up, so their configurations turn it off.

### Fairness

Fairness is assumed of what the code keeps doing by itself: a timer re-arms whatever its
callback met, promises settle, an exited process is reported by its close event, the
runner polls while it lives, time passes.

* `SessionQueue`: `Spawn` and `Close` are strongly fair because a sweep in progress (a
  synchronous stretch of the host) may disable them now and then. Nothing is assumed of wakes
  by the router, of events, crashes, restarts or failed spawns; liveness is claimed when
  faults cease (`FaultsCease`) and, in `FairSpec`, turns answer.
* `Delivery`: the awaited calls settle. The code has no timeout around an adapter, and a hung
  one stops its poll for every session. `Enter("active")` is not fair: only the sweep poll is
  needed.
* `Approvals`: replies and clicks are not fair; the sweep alone ends a hold.
* `ToolActions`: `Deliver` and `Deadline`; no card ever has to be delivered, nobody has to
  click, since a deadline races the card.
* `TaskSeries`: the sweep comes round, and does not throw at the same step for ever (strong
  fairness of its two later steps, which a throw skips). No container has to answer.
* `Containers`: `Close` only. `Admission`: a fan-out that runs goes on. `Credentials`: calls
  to the platform return, timers fire, a host that stops exits and is started again.
  `AgentRoute`: the polls drain active sessions, and a drain delivers what it has read. `Recovery` has no liveness property: no
  command has to be run.

## Proofs

Every safety property of the runs, every action property, and the refinement of `Inbox` are
theorems. They hold for every value of the constants that the modules' named assumptions
allow; the two further hypotheses are named below. Check a module with `tlapm <module>.tla`.
Each model has a theorem that its inductive invariant holds in every reachable state
(`Invariance`, `NumberInvariance`, `CredentialInvariance`, `RecoveryInvariance`); most of the
safety properties are not inductive by themselves, and this is what the invariants add:

* `SessionQueueProofs` (`TypeCorrectness`, `OneContainerAtATime`, `HandledOnce`,
  `TriesEarned`, `ClaimsStand`): a spawn needs a host without a container on record, and such
  a host has no container alive (`OneContainer`); what the runner holds fits its phase
  (`HandsFitPhase`), was acked (`HeldIsAcked`), so a poll cannot read it again, and is not
  settled (`HeldIsOpen`); and a claim without an owner has been lost once more than it has
  been counted (`OrphansAreOwed`), which is why the reset may count it and why it must delete
  it.

  `QueueKeepsInbox` is the refinement: every step of `SessionQueue` is a step of `Inbox` or
  stutters. `Arrow(m)` says that message `m` takes an arrow of `Inbox` or stays;
  `StepArrow` proves it for every action, `NextRefines` puts the messages together. A
  message fails early only if its loss was counted twice, and the theorem assumes what rules
  that out: that a reset which counts a loss also deletes the claim (`FALSE \notin
  ClearOutcomes`), and that stops end containers (`FALSE \notin StopOutcomes`).
  `resetStuckProcessingRows` catches the error of the deletion and `killContainer` that of the
  stop, so without the hypotheses the statement is false; the configuration of
  `SessionQueueLive`, which checks it, makes the same choices. The other theorems have no such
  hypotheses: `OneContainerAtATime` and `ClaimsStand` allow stops to fail, `HandledOnce` and
  `TriesEarned` speak of states no failed stop came before (and `TriesEarned` of clears that
  succeed).
* `OutboundProofs`. The queue (`TypeCorrectness`, `EffectsBounded`, `DeliveredIsTrue`,
  `NoSecondEffect`): one drain at most holds rows, all of them due and unrecorded
  (`QueuedIsOpen`, `OneDrain`), and what a row did in the world is paid for by the attempts of
  earlier processes, the attempts counted by this one, and one at hand (`Budget`). The row at
  hand is the least of a set; that it exists is proved from well-founded inclusion.
  The numbers (`NumberTypes`, `NumbersResolve`): each table has its numbers apart, the host's
  are even, and those the agent was given of its own rows are odd. Denials, which put even
  numbers into the container's table, are why the last two are two.
* `ApprovalsProofs` (`TypeCorrectness`, `DecisionsReachAgents`, `RejectionsStand`): a handler
  about to delete its row has already run the action or told the agent (`AppliedIsHeard`), and
  a rejection took its row along unless a crash tore it (`RejectedIsGone`): the guard, which
  asks for a live row, then refuses.
* `ToolActionsProofs` (`TypeCorrectness`, `NeverCalledTwice`, `NoCallAfterwards`): a request
  is in one hand (`OneHand`): with the broker, held, or being called; and what can still be
  called was neither called nor refused to its agent (`Unspent`).
* `TaskSeriesProofs` (`TypeCorrectness`, `ArmedOnce`, `CapHolds`, `StopsHold`): at most one
  row of the table recurs, finished ones that are still to be re-armed included (`OneRec`);
  rows that a tear forked are excepted, as in the properties. The cap is not inductive, since the count of failures is
  read off the table: `Capped` relates the failures that are history to the failed rows after
  the last success (`Late`, whose number `Streak` is), and says that the cap is not reached
  while a row waits for a run or has one in hand. A stopped series has nothing pending, read,
  in hand or to be re-armed (`Quiet`). `Fits` is about the bound alone: with it `Fanout` stays
  within `MaxRows`. The lemmas about sequences of rows, their positions and the cardinality
  of those come first.
* `AdmissionProofs` (`TypeCorrectness`, `TriggersAdmitted`): what is in
  flight, asked for or held in a row has arrived and asks for a wired agent (`HeldArrived`),
  so a replay starts from a message that the router has seen. The next agent of a fan-out is
  the least of a set of agents; that there is one is proved from the well-foundedness of the
  naturals.
* `AgentRouteProofs` (`TypeCorrectness`, `RepliesComeBack`, `CrossingsAllowed`,
  `ArrivesAtAnAsker`): a row of an agent's session is of a message its sender wrote
  (`RowsAreWritten`), so the session found by way of the row a turn began with is one of
  its sender's. `CrossingsAllowed` and `ArrivesAtAnAsker` are about steps: each place where a
  message can change its place is gone through.
* `HostProofs`, containers (`TypeCorrectness`, `OneAgent`, `HeldAreStopped`, `EvidenceKept`,
  `DataFrozen`, `CopyGrows`): who runs is registered or leaked (`OwnAgent`), a client that
  ended, a clean-up that started and an instance that is gone took the agent with them, and a
  held session has nothing left that its exit handler would clean up (`HeldIsDown`); while a
  containment goes on the session is held and its exit handler disarmed (`ContainIsHeld`); and
  the host's copy of the guest's rows is never ahead of the guest (`Behind`).
  Credentials (`CredentialTypes`, `WaitingAnswerable`, `AnsweredOnce`): a process starts
  without a request in flight, so the rows its sweep reads are never those of a request that
  waits. `AnsweredOnce` is stated in the proof module only.
  Recovery (`RecoveryTypes`, `NothingRestoredBoots`, `OneInstantRestored`, `ReportsHold`):
  contents only rise, so what a first inventory saw is at most what was there when it was
  complete, which is at most what a second one sees; when both agree, all three are the same
  (`CaptureRises`, `PreparationRises`). The hold stands wherever the staging has a file
  (`HoldStands`).

Only model-checked: the liveness properties (`EveryMessageSettles`, `EveryRowIsRecorded`,
`HoldsAreDecided`, `RequestsSettle`, `SeriesGoesOn`, `RestartsRespawn`, `ApprovedIsDelivered`,
`RequestsAreAnswered`, `RowsGo`, `SendsSettle`). Liveness under fairness is out of the
prover's reach, as are ENABLED, induction over data with an operator as a parameter, and
RECURSIVE operators, which no module uses. What the code refutes (above) has behaviours of TLC
and no proof.

## Not modelled

* *Channel adapters, chat bridge, webhooks, state store, HTTP transport of tool actions*: I/O
  with platforms. `Delivery` models an adapter as a call that takes effect, fails, or both.
* *Incus planning, networks, egress, mounts, group folders, images, templates*: builders of
  command lines, firewall rules and files.
* *Dependency scanner*: parses lock files and advisories; its verdict is a choice in
  `Containers`.
* *Providers, memory, formatting of the runner*: wrappers around an SDK and text;
  `SessionQueue` models the stream of events they produce.
* *Command line interface, migrations*: request and response over a database; the CLI's
  delivery action is in `Delivery`, its task commands in `TaskSeries`, its destinations in
  `AgentRoute`.
* *Setup, scripts, skills, documentation*: two fifths of the repository's lines, no part of the
  running system.
* *Questions, runtime policy, circuit breaker and host lifecycle, self modification, typing*:
  could be modelled and are what the plan has left.

## Plan

Done: the modules above, in this order: `SessionQueue` with `Inbox`, `Delivery`, `SeqSpace`,
`Approvals` and their first proofs; `ToolActions`, `TaskSeries`, `Containers`, `Admission`,
`Credentials`, `AgentRoute`, `Recovery`; the remaining proof modules.

Left:

1. `Questions`: asked by the runner's MCP server, answered by a click, abandoned by either side.
2. `RuntimePolicy` and `Breaker`: decisions against reference definitions over bounded inputs.
3. Compositions: `SessionQueue` with `TaskSeries` (a pause meets a claim), `Approvals` with
   `Delivery` (a retried request asks twice), `Containers` as an implementation of the process
   in `SessionQueue`.
4. Proofs: the compositions of item 3 as refinements; the decisions of item 2 against their
   reference definitions; that the actions of a single-threaded host never overlap, across
   modules.
