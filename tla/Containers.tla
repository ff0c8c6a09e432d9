----------------------------- MODULE Containers -----------------------------
(***************************************************************************)
(* The runtime of one session (container-runner.ts): wake, spawn, kill and  *)
(* the exit handlers, the monitor that rescans the dependencies of a running*)
(* agent and holds the session (dependency-monitor.ts), the Incus instance  *)
(* with its quarantine and its outbound replica (incus-adapter.ts,          *)
(* incus-vm-session-bridge.ts), and the clean-up of a host that starts.     *)
(*                                                                          *)
(* A Docker container has a name of its own; an Incus instance is named     *)
(* after the session, so that a later spawn finds an earlier one.  The      *)
(* backend is one of the installation.  Incus stands for its VMs.  A client *)
(* that cannot be started emits error and close at once: both are Close.    *)
(***************************************************************************)
EXTENDS Integers, FiniteSets

CONSTANTS
    MaxSpawns,      \* bound: agents started
    MaxRows,        \* bound: outbound rows of the session
    MaxFaults,      \* bound: stops, deletions and writes that fail
    MaxCrashes      \* bound: deaths of the host

ASSUME BoundAssumption ==
    {MaxSpawns, MaxRows, MaxFaults, MaxCrashes} \subseteq Nat

VARIABLES
    backend,    \* "docker" or "incus"
    up,         \* the host runs
    wake,       \* wakePromises: "none", "gate" (OneCLI, Agent Gate), "ready" (arguments built)
    entry,      \* activeContainers: the number of the agent, or 0
    client,     \* its docker or incus exec process: "none", "live", "dead" (close is due)
    timer,      \* the replica is synchronised every second
    clean,      \* cleanupStarted
    again,      \* an onExit of killContainer wakes the session
    watch,      \* the agent whose dependencies are monitored, or 0
    scans,      \* agents with a scan in flight
    held,       \* dependencyHeldSessions
    hold,       \* the hold file
    containing, \* where the containment of a finding stands: "none", "held", "marked", "tried"
    agents,     \* agent processes
    inst,       \* the Incus instance: "none", "up", "frozen", "stopped"
    marked,     \* it carries the quarantine reason or profile
    guest,      \* rows of outbound.db in the VM
    replica,    \* those of them in the host's copy
    direct,     \* rows of the host's copy that are not in the VM (writeOutboundDirect)
    started, faults, crashes,
    leaked,     \* history: agents that a failed stop left running
    cut         \* history: agents of a marked instance whose containment the host's death cut off

entryVars == <<entry, client, timer, clean, again, watch>>
holdVars == <<held, hold, containing, cut>>
boxVars == <<agents, inst, marked, leaked>>
rowVars == <<guest, replica, direct>>
vars == <<backend, up, wake, entryVars, scans, holdVars, boxVars, rowVars, started,
          faults, crashes>>

Agent == 1 .. MaxSpawns
Held == held \/ hold

\* the agents that run: those of a frozen instance do not
Running == IF inst = "frozen" THEN {} ELSE agents

TypeOK ==
    /\ backend \in {"docker", "incus"} /\ up \in BOOLEAN
    /\ wake \in {"none", "gate", "ready"}
    /\ entry \in 0 .. MaxSpawns /\ client \in {"none", "live", "dead"}
    /\ timer \in BOOLEAN /\ clean \in BOOLEAN /\ again \in BOOLEAN
    /\ watch \in {0, entry} /\ scans \subseteq Agent
    /\ held \in BOOLEAN /\ hold \in BOOLEAN
    /\ containing \in {"none", "held", "marked", "tried"}
    /\ agents \subseteq Agent /\ leaked \subseteq Agent /\ cut \subseteq Agent
    /\ inst \in {"none", "up", "frozen", "stopped"} /\ marked \in BOOLEAN
    /\ guest \in 0 .. MaxRows /\ replica \in 0 .. MaxRows /\ direct \in 0 .. MaxRows - replica
    /\ started \in 0 .. MaxSpawns /\ faults \in 0 .. MaxFaults /\ crashes \in 0 .. MaxCrashes
    /\ entry = 0 <=> client = "none"
    /\ wake # "none" => entry = 0

NoEntry ==
    /\ entry = 0 /\ client = "none" /\ timer = FALSE /\ clean = FALSE /\ again = FALSE
    /\ watch = 0

Init ==
    /\ backend \in {"docker", "incus"} /\ up = TRUE /\ wake = "none"
    /\ NoEntry /\ scans = {}
    /\ held = FALSE /\ hold = FALSE /\ containing = "none" /\ cut = {}
    /\ agents = {} /\ leaked = {} /\ inst = "none" /\ marked = FALSE
    /\ guest = 0 /\ replica = 0 /\ direct = 0
    /\ started = 0 /\ faults = 0 /\ crashes = 0

-----------------------------------------------------------------------------
(* Docker and Incus: what a stop and a deletion do.                         *)

Fail(n) == faults + n <= MaxFaults /\ faults' = faults + n
Works == UNCHANGED faults

Leak == leaked' = leaked \cup agents /\ UNCHANGED <<agents, inst, marked>>

\* docker stop
Stop(a) == agents' = agents \ {a} /\ UNCHANGED <<inst, marked, leaked>>

\* deleteIncusRuntime; an absent instance is fine
Delete ==
    /\ inst' = "none" /\ marked' = FALSE /\ agents' = {}
    /\ UNCHANGED leaked

DeleteOrLeak == (Works /\ Delete) \/ (Fail(1) /\ Leak)

\* syncIncusVmOutbound: a whole snapshot takes the place of the host's copy, or nothing
Synced ==
    IF inst = "up" THEN replica' = guest /\ direct' = 0 ELSE UNCHANGED <<replica, direct>>
LastSync == (Synced \/ UNCHANGED <<replica, direct>>) /\ UNCHANGED guest

-----------------------------------------------------------------------------
(* Wake and spawn.                                                          *)

WakeableMutant == ~held /\ ~hold /\ wake = "none"

Wakeable == ~held /\ ~hold /\ entry = 0 /\ wake = "none"

\* wakeContainer: a running agent is left alone, a spawn in flight is joined
Wake ==
    /\ up /\ Wakeable
    /\ started < MaxSpawns
    /\ wake' = "gate"
    /\ UNCHANGED <<backend, up, entryVars, scans, holdVars, boxVars, rowVars, started,
                   faults, crashes>>

\* OneCLI is away, the gate found a dependency, the policy blocks, the arguments fail
WakeFails ==
    /\ wake # "none" /\ wake' = "none"
    /\ UNCHANGED <<backend, up, entryVars, scans, holdVars, boxVars, rowVars, started,
                   faults, crashes>>

Admitted ==
    /\ wake = "gate" /\ backend = "docker"
    /\ wake' = "ready"
    /\ UNCHANGED <<backend, up, entryVars, scans, holdVars, boxVars, rowVars, started,
                   faults, crashes>>

\* the entry of a new agent, whose process may fail to start
Register ==
    /\ started' = started + 1
    /\ wake' = "none"
    /\ entry' = started' /\ watch' = started'
    /\ clean' = FALSE /\ again' = FALSE
    /\ \/ client' = "live" /\ agents' = agents \cup {entry'}
       \/ client' = "dead" /\ UNCHANGED agents

SpawnDocker ==
    /\ wake = "ready"
    /\ started < MaxSpawns
    /\ Register /\ timer' = FALSE
    /\ UNCHANGED <<backend, up, scans, holdVars, inst, marked, leaked, rowVars, faults, crashes>>

PushedMutant == guest' = 0 /\ direct' = 0 /\ UNCHANGED replica

\* applyIncusRuntimePlan: an instance that exists is started again, and the host's files
\* are pushed into its volumes
Pushed == guest' = replica + direct /\ replica' = guest' /\ direct' = 0

SpawnIncus ==
    /\ wake = "gate" /\ backend = "incus"
    /\ started < MaxSpawns
    /\ Register /\ timer' = TRUE
    /\ inst' = "up" /\ Pushed
    /\ UNCHANGED <<backend, up, scans, holdVars, marked, leaked, faults, crashes>>

\* the plan cannot be applied, or the guest is not ready: the instance is deleted
SetupFails ==
    /\ wake = "gate" /\ backend = "incus"
    /\ wake' = "none"
    /\ \/ Works /\ Delete
       \/ /\ Fail(1)
          /\ inst' \in {inst, "up"}
          /\ leaked' = leaked \cup agents
          /\ UNCHANGED <<agents, marked>>
    /\ UNCHANGED <<backend, up, entryVars, scans, holdVars, rowVars, started, crashes>>

\* the inbound copy cannot be pushed: the instance stays up without an entry
InboundFails ==
    /\ wake = "gate" /\ backend = "incus"
    /\ wake' = "none"
    /\ inst' = "up" /\ Pushed
    /\ UNCHANGED <<backend, up, entryVars, scans, holdVars, agents, marked, leaked, started,
                   faults, crashes>>

\* the decision is quarantine: the instance is made, started, and then quarantined
GateQuarantine ==
    /\ wake = "gate" /\ backend = "incus"
    /\ wake' = "none"
    /\ Pushed
    /\ \/ /\ inst' = "stopped" /\ agents' = {}
          /\ \/ Works /\ marked' = TRUE
             \/ Fail(1) /\ marked' \in BOOLEAN
          /\ UNCHANGED leaked
       \/ /\ Fail(2)
          /\ inst' = "up" /\ leaked' = leaked \cup agents /\ UNCHANGED <<agents, marked>>
    /\ UNCHANGED <<backend, up, entryVars, scans, holdVars, started, crashes>>

-----------------------------------------------------------------------------
(* The agent, the replica, kills and exits.                                 *)

Write ==
    /\ backend = "incus" /\ inst = "up" /\ agents # {}
    /\ guest < MaxRows /\ guest' = guest + 1
    /\ UNCHANGED <<backend, up, wake, entryVars, scans, holdVars, boxVars, replica, direct,
                   started, faults, crashes>>

\* a command of a chat that the gate denies is answered in the host's copy
Deny ==
    /\ up /\ backend = "incus"
    /\ replica + direct < MaxRows /\ direct' = direct + 1
    /\ UNCHANGED <<backend, up, wake, entryVars, scans, holdVars, boxVars, guest, replica,
                   started, faults, crashes>>

\* the timer; a sync that fails changes nothing
Sync ==
    /\ timer /\ Synced
    /\ UNCHANGED <<backend, up, wake, entryVars, scans, holdVars, boxVars, guest,
                   started, faults, crashes>>

Exit ==
    \E a \in Running :
        /\ agents' = agents \ {a}
        /\ client' = IF a = entry THEN "dead" ELSE client
        /\ UNCHANGED <<backend, up, wake, entry, timer, clean, again, watch, scans,
                       holdVars, inst, marked, leaked, rowVars, started, faults, crashes>>

\* killContainer, with or without an onExit that wakes
KillDocker ==
    /\ entry # 0 /\ backend = "docker"
    /\ again' \in {again, TRUE} /\ client' = "dead"
    /\ \/ Works /\ Stop(entry)
       \/ Fail(1) /\ Leak
    /\ UNCHANGED <<backend, up, wake, entry, timer, clean, watch, scans, holdVars, rowVars,
                   started, crashes>>

KillIncus ==
    /\ entry # 0 /\ backend = "incus" /\ ~clean
    /\ again' \in {again, TRUE} /\ client' = "dead"
    /\ timer' = FALSE /\ LastSync
    /\ DeleteOrLeak
    /\ clean' = (inst' = "none")
    /\ UNCHANGED <<backend, up, wake, entry, watch, scans, holdVars, started, crashes>>

\* the clean-up has started already: only the client is killed
KillCleaned ==
    /\ entry # 0 /\ backend = "incus" /\ clean
    /\ again' \in {again, TRUE} /\ client' = "dead"
    /\ UNCHANGED <<backend, up, wake, entry, timer, clean, watch, scans, holdVars, boxVars,
                   rowVars, started, faults, crashes>>

CleanUpMutant == LastSync /\ DeleteOrLeak

\* the exit handler of an Incus agent
CleanUp ==
    \/ ~clean /\ LastSync /\ DeleteOrLeak
    \/ clean /\ Works /\ UNCHANGED <<boxVars, rowVars>>

RespawnMutant == UNCHANGED wake

\* the onExit listeners come after the handler
Respawn == wake' = IF again /\ ~held /\ ~hold /\ started < MaxSpawns THEN "gate" ELSE "none"

Close ==
    /\ client = "dead" /\ containing = "none"
    /\ entry' = 0 /\ client' = "none" /\ timer' = FALSE /\ clean' = FALSE /\ again' = FALSE
    /\ watch' = 0
    /\ Respawn
    /\ IF backend = "incus" THEN CleanUp ELSE Works /\ UNCHANGED <<boxVars, rowVars>>
    /\ UNCHANGED <<backend, up, scans, holdVars, started, crashes>>

-----------------------------------------------------------------------------
(* The dependency monitor.                                                  *)

Scan ==
    /\ watch # 0 /\ watch \notin scans
    /\ scans' = scans \cup {watch}
    /\ UNCHANGED <<backend, up, wake, entryVars, holdVars, boxVars, rowVars, started,
                   faults, crashes>>

CurrentMutant(a) == TRUE

\* neither stopped, nor of an agent that has gone
Current(a) == a = watch /\ a = entry

\* complete and clean, or of no interest any more
ScanIgnored(a) ==
    /\ a \in scans /\ scans' = scans \ {a}
    /\ UNCHANGED <<backend, up, wake, entryVars, holdVars, boxVars, rowVars, started,
                   faults, crashes>>

\* the hold is kept in memory though its file cannot be written
Persist == hold' \in {TRUE, hold}

\* a finding, or a scan that did not complete: the session is held before the containment,
\* a chain of commands that nothing of the host comes between, except its end
Unsafe(a) ==
    /\ a \in scans /\ scans' = scans \ {a}
    /\ Current(a)
    /\ held' = TRUE /\ Persist
    /\ watch' = 0
    /\ containing' = "held"
    /\ IF backend = "incus" THEN clean' = TRUE /\ timer' = FALSE ELSE UNCHANGED <<clean, timer>>
    /\ UNCHANGED <<backend, up, wake, entry, client, again, cut, boxVars, rowVars, started,
                   faults, crashes>>

\* stopContainer and, when it fails, docker kill
StopDocker ==
    /\ containing = "held" /\ backend = "docker"
    /\ containing' = "none"
    /\ \/ Works /\ Stop(entry) /\ client' = "dead"
       \/ Fail(2) /\ Leak /\ UNCHANGED client
    /\ UNCHANGED <<backend, up, wake, entry, timer, clean, again, watch, scans, held, hold, cut,
                   rowVars, started, crashes>>

\* quarantineIncusInstance goes on to the next command when one fails: the reason is set,
SetReason ==
    /\ containing = "held" /\ backend = "incus"
    /\ containing' = "marked"
    /\ \/ Works /\ marked' = IF inst = "none" THEN marked ELSE TRUE
       \/ Fail(1) /\ UNCHANGED marked
    /\ UNCHANGED <<backend, up, wake, entryVars, scans, held, hold, cut, agents, inst, leaked,
                   rowVars, started, crashes>>

\* the instance is frozen, and a snapshot taken of it,
Freeze ==
    /\ containing = "marked"
    /\ containing' = "tried"
    /\ \/ Works /\ inst' = IF inst = "up" THEN "frozen" ELSE inst
       \/ Fail(1) /\ UNCHANGED inst
    /\ UNCHANGED <<backend, up, wake, entryVars, scans, held, hold, cut, agents, marked, leaked,
                   rowVars, started, crashes>>

\* and it is stopped and given the quarantine profile; whatever failed, it is stopped again
\* and its client killed
PowerOff ==
    /\ containing = "tried"
    /\ containing' = "none" /\ client' = "dead"
    /\ \/ /\ inst = "none" /\ Works
          /\ UNCHANGED boxVars
       \/ /\ inst # "none"
          /\ inst' = "stopped" /\ agents' = {} /\ UNCHANGED leaked
          /\ \/ Works /\ marked' = TRUE
             \/ Fail(1) /\ UNCHANGED marked
       \/ /\ inst # "none" /\ Fail(2)
          /\ marked' \in {marked, TRUE}
          /\ leaked' = leaked \cup agents /\ UNCHANGED <<agents, inst>>
    /\ UNCHANGED <<backend, up, wake, entry, timer, clean, again, watch, scans, held, hold, cut,
                   rowVars, started, crashes>>

-----------------------------------------------------------------------------
(* The end and the start of the host, and the operator.                     *)

Crash ==
    /\ up /\ crashes < MaxCrashes
    /\ crashes' = crashes + 1
    /\ up' = FALSE /\ wake' = "none" /\ scans' = {} /\ held' = FALSE
    /\ entry' = 0 /\ client' = "none" /\ timer' = FALSE /\ clean' = FALSE
    /\ again' = FALSE /\ watch' = 0
    /\ containing' = "none"
    /\ cut' = IF containing # "none" /\ marked THEN cut \cup Running ELSE cut
    /\ UNCHANGED <<backend, hold, boxVars, rowVars, started, faults>>

\* cleanupOrphans: a container that cannot be stopped is passed over
StartDocker ==
    /\ ~up /\ backend = "docker" /\ up' = TRUE
    /\ \/ Works /\ agents' = {} /\ UNCHANGED <<inst, marked, leaked>>
       \/ Fail(1) /\ Leak
    /\ UNCHANGED <<backend, wake, entryVars, scans, holdVars, rowVars, started, crashes>>

OrphansMutant == Delete

\* cleanupIncusOrphans
Orphans == IF marked THEN UNCHANGED boxVars ELSE Delete

\* (a host that cannot delete its orphans does not start)
StartIncus ==
    /\ ~up /\ backend = "incus" /\ up' = TRUE
    /\ Orphans
    /\ UNCHANGED <<backend, wake, entryVars, scans, holdVars, rowVars, started, faults,
                   crashes>>

\* with the host stopped, the reviewed hold is removed
Release ==
    /\ ~up /\ hold /\ hold' = FALSE
    /\ UNCHANGED <<backend, up, wake, entryVars, scans, held, containing, cut, boxVars, rowVars,
                   started, faults, crashes>>

-----------------------------------------------------------------------------
Spawn == Admitted \/ SpawnDocker \/ SpawnIncus \/ SetupFails \/ InboundFails \/ GateQuarantine

Kill == KillDocker \/ KillIncus \/ KillCleaned

Contain == StopDocker \/ SetReason \/ Freeze \/ PowerOff

\* what the host does from its event loop, which waits for a containment to end
Host ==
    \/ Wake \/ WakeFails \/ Spawn
    \/ Sync \/ Deny \/ Kill \/ Close
    \/ Scan \/ \E a \in Agent : ScanIgnored(a) \/ Unsafe(a)

Next ==
    \/ containing = "none" /\ Host
    \/ Contain
    \/ Write \/ Exit
    \/ Crash \/ StartDocker \/ StartIncus \/ Release

Spec == Init /\ [][Next]_vars

\* a process that ended emits close, unless the host ended first
FairSpec == Spec /\ WF_vars(Close)

-----------------------------------------------------------------------------
(* Properties.                                                              *)

\* "spawns a duplicate container against the same session directory, producing racy
\* double-replies" (container-runner.ts): two agents of a session run at once only when a
\* stop failed, or in an instance that was quarantined and started again.
OneWorker == marked \/ Cardinality(agents \ leaked) <= 1

\* Held sessions are down: from the end of the containment, or the next start of a host that
\* died in it, until an operator's release, through exits, late scans, wakes and restarts,
\* no agent runs but those that could not be stopped, and those in an instance that a host
\* marked and did not live to freeze (HeldIsStopped).
HeldMeansStopped ==
    Held /\ up /\ containing = "none" => Running \subseteq leaked \cup cut

\* The exit handlers, kills and the start of a host leave a held session its quarantined
\* instance ("Never delete the preserved instance").
HeldEvidenceKept == [][Held /\ marked => marked' /\ inst' # "none"]_vars

\* After the finding nothing that the guest writes reaches the host ("close/error handlers
\* must not delete evidence or resync guest data").
HeldDataFrozen == [][held => UNCHANGED replica]_vars

\* The host's copy of outbound.db never loses a row that the guest wrote or was given,
\* whatever instance, fresh or left behind, the session runs in.  Rows that the host adds
\* while the guest has a copy of its own are the exception (HostRowsStay).
ReplicaGrows == [][replica' >= replica]_vars

\* A restart that asked for it comes back ("wakes a fresh container via the onExit
\* callback", container-restart.ts), unless the session is held or the host ends.
RestartsRespawn ==
    again ~> (wake # "none" \/ Held \/ ~up \/ started = MaxSpawns)

-----------------------------------------------------------------------------
(* Said of the code by comments or documents, and refuted by TLC: no run    *)
(* claims what follows (README.md, "Disagreements met").                    *)

\* Stated by docs/SECURITY.md and by docs/automatic-security-migration.md: a quarantined
\* instance is neither removed nor restarted.  The next spawn of the session does both.
QuarantineIsFinal == [][marked /\ inst = "stopped" => inst' = "stopped"]_vars

\* "The hold survives host restart", and Incus "runs the existing freeze/snapshot/stop/
\* network-removal quarantine sequence" (docs/automatic-security-migration.md): no agent of
\* a held session runs beside a host, except one that could not be stopped.
HeldIsStopped == Held /\ up /\ containing = "none" => Running \subseteq leaked

\* "it's safe even with a container running: both sides open with DELETE journal" (of
\* writeOutboundDirect, session-manager.ts): the host's copy keeps the rows the host adds.
HostRowsStay == [][replica' + direct' >= replica + direct]_vars
=============================================================================
