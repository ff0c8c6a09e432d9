----------------------------- MODULE HostProofs -----------------------------
(***************************************************************************)
(* Theorems about what outlives a host process: the containers it runs      *)
(* (Containers), the rows and cards of credential requests (Credentials),   *)
(* and the files that an operator restores for a later one (Recovery); for  *)
(* any number of spawns, rows, requests, clicks and files, of commands that *)
(* fail and of deaths.                                                      *)
(*                                                                          *)
(* The three modules have no name in common and are extended side by side;  *)
(* every theorem is about one of them.                                      *)
(***************************************************************************)
EXTENDS Containers, Credentials, Recovery, FiniteSetTheorems, TLAPS

-----------------------------------------------------------------------------
(* The runtime of a session.                                                *)

\* A host that is down has no entry; Docker knows neither marks nor replicas nor clean-ups.
DownIsIdle == ~up => wake = "none" /\ entry = 0
DockerIsPlain ==
    /\ backend = "docker" => ~marked /\ ~timer /\ ~clean
    /\ wake = "ready" => backend = "docker"

\* The agents that run are numbered, and those no failed stop left are the registered one.
Numbered == \A a \in agents : a <= started
OwnAgent ==
    \/ marked
    \/ IF up THEN agents \subseteq leaked \cup {entry}
             ELSE \A a, b \in agents \ leaked : a = b

\* A Docker client that ended, a clean-up that started and an instance that is gone took
\* the agent with them.
DeadIsGone == backend = "docker" /\ client = "dead" => agents \subseteq leaked
CleanIsGone == clean /\ containing = "none" => agents \subseteq leaked
NoneIsGone == backend = "incus" /\ inst = "none" => agents \subseteq leaked /\ ~marked

\* A held session is neither starting, monitored nor synchronised, its exit handler has
\* nothing left to clean up, and its agents do not run once they have been contained: in
\* a marked instance not even while the host is down, for the next one leaves it alone.
HeldIsDown ==
    Held => /\ wake = "none" /\ watch = 0 /\ ~timer
            /\ containing = "none" /\ (up \/ marked) => Running \subseteq leaked \cup cut
            /\ backend = "incus" /\ entry # 0 => clean

\* What is being contained is held, and its entry stays until the containment is over.
ContainIsHeld ==
    containing # "none" =>
        /\ held /\ entry # 0
        /\ backend = "docker" => containing = "held"

\* The host's copy is never ahead of the guest.
Behind == replica <= guest

\* Every variable is of its type.
EntryTyped ==
    /\ backend \in {"docker", "incus"} /\ up \in BOOLEAN
    /\ wake \in {"none", "gate", "ready"}
    /\ entry \in 0 .. MaxSpawns /\ client \in {"none", "live", "dead"}
    /\ timer \in BOOLEAN /\ clean \in BOOLEAN /\ again \in BOOLEAN
    /\ watch \in {0, entry}
    /\ entry = 0 <=> client = "none"
    /\ wake # "none" => entry = 0
HoldTyped ==
    /\ held \in BOOLEAN /\ hold \in BOOLEAN /\ scans \subseteq Agent
    /\ containing \in {"none", "held", "marked", "tried"} /\ cut \subseteq Agent
BoxTyped ==
    /\ agents \subseteq Agent /\ leaked \subseteq Agent
    /\ inst \in {"none", "up", "frozen", "stopped"} /\ marked \in BOOLEAN
CountTyped ==
    /\ guest \in 0 .. MaxRows /\ replica \in 0 .. MaxRows /\ direct \in 0 .. MaxRows - replica
    /\ started \in 0 .. MaxSpawns /\ faults \in 0 .. MaxFaults /\ crashes \in 0 .. MaxCrashes
Typed == EntryTyped /\ HoldTyped /\ BoxTyped /\ CountTyped

Invariant ==
    /\ Typed /\ DownIsIdle /\ DockerIsPlain /\ Numbered /\ ContainIsHeld /\ OwnAgent
    /\ DeadIsGone /\ CleanIsGone /\ NoneIsGone /\ HeldIsDown /\ Behind

\* The bounds are natural numbers.
LEMMA Bounds ==
    /\ MaxSpawns \in Nat /\ MaxRows \in Nat /\ MaxFaults \in Nat /\ MaxCrashes \in Nat
    /\ 0 \in 0 .. MaxSpawns /\ 0 \in 0 .. MaxRows
    /\ 0 \in 0 .. MaxFaults /\ 0 \in 0 .. MaxCrashes
BY BoundAssumption

\* The invariant holds initially.
LEMMA InitInvariant == Init => Invariant
<1>1. Init => EntryTyped /\ HoldTyped /\ BoxTyped
  BY Bounds DEF Init, NoEntry, EntryTyped, HoldTyped, BoxTyped, Agent
<1>2. Init => CountTyped
  <2>1. 0 \in 0 .. MaxRows - 0
    BY Bounds
  <2>. QED
    BY <2>1, Bounds DEF Init, CountTyped
<1>. QED
  BY <1>1, <1>2 DEF Init, NoEntry, Typed, Invariant, DownIsIdle, DockerIsPlain, Numbered, OwnAgent, DeadIsGone,
     CleanIsGone, NoneIsGone, HeldIsDown, Behind, Held, Running, ContainIsHeld

-----------------------------------------------------------------------------
\* Wakes, and spawns up to the instance.
LEMMA WakeInvariant ==
    ASSUME Invariant, containing = "none", Wake \/ WakeFails \/ Admitted \/ SetupFails \/ InboundFails
    PROVE  Invariant'
<1>. USE Bounds DEF Invariant, Typed, EntryTyped, HoldTyped, BoxTyped, CountTyped, DownIsIdle,
         DockerIsPlain, Numbered,
         OwnAgent, DeadIsGone, CleanIsGone, NoneIsGone, HeldIsDown, Behind, Held, Running,
         ContainIsHeld, Agent,
         entryVars, holdVars, boxVars, rowVars
<1>1. CASE Wake
  BY <1>1 DEF Wake, Wakeable
<1>2. CASE WakeFails
  BY <1>2 DEF WakeFails
<1>3. CASE Admitted
  BY <1>3 DEF Admitted
<1>4. CASE SetupFails
  <2>1. EntryTyped'
    BY <1>4 DEF SetupFails, Works, Delete, Fail
  <2>2. HoldTyped'
    BY <1>4 DEF SetupFails, Works, Delete, Fail
  <2>3. BoxTyped'
    BY <1>4 DEF SetupFails, Works, Delete, Fail
  <2>4. CountTyped'
    BY <1>4 DEF SetupFails, Works, Delete, Fail
  <2>5. (DownIsIdle /\ DockerIsPlain /\ Numbered /\ ContainIsHeld)'
    BY <1>4 DEF SetupFails, Works, Delete, Fail
  <2>6. OwnAgent'
    BY <1>4 DEF SetupFails, Works, Delete, Fail
  <2>7. (DeadIsGone /\ CleanIsGone /\ NoneIsGone)'
    BY <1>4 DEF SetupFails, Works, Delete, Fail
  <2>8. HeldIsDown'
    BY <1>4 DEF SetupFails, Works, Delete, Fail
  <2>9. Behind'
    BY <1>4 DEF SetupFails, Works, Delete, Fail
  <2>. QED
    BY <2>1, <2>2, <2>3, <2>4, <2>5, <2>6, <2>7, <2>8, <2>9
<1>5. CASE InboundFails
  BY <1>5 DEF InboundFails, Pushed
<1>. QED
  BY <1>1, <1>2, <1>3, <1>4, <1>5

\* Spawns: a session without an entry has no agent of its own.
LEMMA SpawnInvariant ==
    ASSUME Invariant, containing = "none", SpawnDocker \/ SpawnIncus \/ GateQuarantine
    PROVE  Invariant'
<1>. USE Bounds DEF Invariant, Typed, EntryTyped, HoldTyped, BoxTyped, CountTyped, DownIsIdle,
         DockerIsPlain, Numbered,
         OwnAgent, DeadIsGone, CleanIsGone, NoneIsGone, HeldIsDown, Behind, Held, Running,
         ContainIsHeld, Agent,
         entryVars, holdVars, boxVars, rowVars
<1>1. CASE SpawnDocker
  <2>1. /\ started < MaxSpawns /\ started' = started + 1
        /\ wake' = "none" /\ entry' = started + 1 /\ watch' = started + 1
        /\ clean' = FALSE /\ again' = FALSE
        /\ \/ client' = "live" /\ agents' = agents \cup {started + 1}
           \/ client' = "dead" /\ agents' = agents
    BY <1>1 DEF SpawnDocker, Register
  <2>2. up /\ entry = 0 /\ ~Held /\ started + 1 \in Agent /\ started + 1 # 0
    BY <1>1, <2>1 DEF SpawnDocker
  <2>3. marked \/ agents \subseteq leaked
    BY <2>2
  <2>4. started + 1 \in 0 .. MaxSpawns /\ \A a \in agents \cup {started + 1} : a <= started + 1
    BY <2>1
  <2>5. EntryTyped'
    BY <1>1, <2>1, <2>2, <2>3, <2>4 DEF SpawnDocker
  <2>6. HoldTyped'
    BY <1>1, <2>1, <2>2, <2>3, <2>4 DEF SpawnDocker
  <2>7. BoxTyped'
    BY <1>1, <2>1, <2>2, <2>3, <2>4 DEF SpawnDocker
  <2>8. CountTyped'
    BY <1>1, <2>1, <2>2, <2>3, <2>4 DEF SpawnDocker
  <2>9. (DownIsIdle /\ DockerIsPlain /\ Numbered /\ ContainIsHeld)'
    <3>1. DownIsIdle'
      BY <1>1, <2>1, <2>2, <2>3, <2>4 DEF SpawnDocker
    <3>2. DockerIsPlain'
      BY <1>1, <2>1, <2>2, <2>3, <2>4 DEF SpawnDocker
    <3>3. Numbered'
      BY <2>1, <2>4
    <3>4. ContainIsHeld'
      BY <1>1, <2>1, <2>2, <2>3, <2>4 DEF SpawnDocker
    <3>. QED
      BY <3>1, <3>2, <3>3, <3>4
  <2>10. OwnAgent'
    BY <1>1, <2>1, <2>2, <2>3, <2>4 DEF SpawnDocker
  <2>11. (DeadIsGone /\ CleanIsGone /\ NoneIsGone)'
    <3>1. DeadIsGone'
      BY <1>1, <2>1, <2>2, <2>3, <2>4 DEF SpawnDocker
    <3>2. CleanIsGone'
      BY <1>1, <2>1, <2>2, <2>3, <2>4 DEF SpawnDocker
    <3>3. NoneIsGone'
      BY <1>1, <2>1, <2>2, <2>3, <2>4 DEF SpawnDocker
    <3>. QED
      BY <3>1, <3>2, <3>3
  <2>12. HeldIsDown'
    BY <1>1, <2>1, <2>2, <2>3, <2>4 DEF SpawnDocker
  <2>13. Behind'
    BY <1>1, <2>1, <2>2, <2>3, <2>4 DEF SpawnDocker
  <2>. QED
    BY <2>5, <2>6, <2>7, <2>8, <2>9, <2>10, <2>11, <2>12, <2>13
<1>2. CASE SpawnIncus
  <2>1. /\ started < MaxSpawns /\ started' = started + 1
        /\ wake' = "none" /\ entry' = started + 1 /\ watch' = started + 1
        /\ clean' = FALSE /\ again' = FALSE
        /\ \/ client' = "live" /\ agents' = agents \cup {started + 1}
           \/ client' = "dead" /\ agents' = agents
    BY <1>2 DEF SpawnIncus, Register
  <2>2. up /\ entry = 0 /\ ~Held /\ started + 1 \in Agent /\ started + 1 # 0
    BY <1>2, <2>1 DEF SpawnIncus
  <2>3. marked \/ agents \subseteq leaked
    BY <2>2
  <2>4. started + 1 \in 0 .. MaxSpawns /\ \A a \in agents \cup {started + 1} : a <= started + 1
    BY <2>1
  <2>5. EntryTyped'
    BY <1>2, <2>1, <2>2, <2>3, <2>4 DEF SpawnIncus, Pushed
  <2>6. HoldTyped'
    BY <1>2, <2>1, <2>2, <2>3, <2>4 DEF SpawnIncus, Pushed
  <2>7. BoxTyped'
    BY <1>2, <2>1, <2>2, <2>3, <2>4 DEF SpawnIncus, Pushed
  <2>8. CountTyped'
    BY <1>2, <2>1, <2>2, <2>3, <2>4 DEF SpawnIncus, Pushed
  <2>9. (DownIsIdle /\ DockerIsPlain /\ Numbered /\ ContainIsHeld)'
    <3>1. DownIsIdle'
      BY <1>2, <2>1, <2>2, <2>3, <2>4 DEF SpawnIncus, Pushed
    <3>2. DockerIsPlain'
      BY <1>2, <2>1, <2>2, <2>3, <2>4 DEF SpawnIncus, Pushed
    <3>3. Numbered'
      BY <2>1, <2>4
    <3>4. ContainIsHeld'
      BY <1>2, <2>1, <2>2, <2>3, <2>4 DEF SpawnIncus, Pushed
    <3>. QED
      BY <3>1, <3>2, <3>3, <3>4
  <2>10. OwnAgent'
    BY <1>2, <2>1, <2>2, <2>3, <2>4 DEF SpawnIncus, Pushed
  <2>11. (DeadIsGone /\ CleanIsGone /\ NoneIsGone)'
    BY <1>2, <2>1, <2>2, <2>3, <2>4 DEF SpawnIncus, Pushed
  <2>12. HeldIsDown'
    BY <1>2, <2>1, <2>2, <2>3, <2>4 DEF SpawnIncus, Pushed
  <2>13. Behind'
    BY <1>2, <2>1, <2>2, <2>3, <2>4 DEF SpawnIncus, Pushed
  <2>. QED
    BY <2>5, <2>6, <2>7, <2>8, <2>9, <2>10, <2>11, <2>12, <2>13
<1>3. CASE GateQuarantine
  <2>1. EntryTyped'
    BY <1>3 DEF GateQuarantine, Works, Fail, Pushed
  <2>2. HoldTyped'
    BY <1>3 DEF GateQuarantine, Works, Fail, Pushed
  <2>3. BoxTyped'
    BY <1>3 DEF GateQuarantine, Works, Fail, Pushed
  <2>4. CountTyped'
    BY <1>3 DEF GateQuarantine, Works, Fail, Pushed
  <2>5. (DownIsIdle /\ DockerIsPlain /\ Numbered /\ ContainIsHeld)'
    BY <1>3 DEF GateQuarantine, Works, Fail, Pushed
  <2>6. OwnAgent'
    BY <1>3 DEF GateQuarantine, Works, Fail, Pushed
  <2>7. (DeadIsGone /\ CleanIsGone /\ NoneIsGone)'
    BY <1>3 DEF GateQuarantine, Works, Fail, Pushed
  <2>8. HeldIsDown'
    BY <1>3 DEF GateQuarantine, Works, Fail, Pushed
  <2>9. Behind'
    BY <1>3 DEF GateQuarantine, Works, Fail, Pushed
  <2>. QED
    BY <2>1, <2>2, <2>3, <2>4, <2>5, <2>6, <2>7, <2>8, <2>9
<1>. QED
  BY <1>1, <1>2, <1>3

\* The agent at work, and its end.
LEMMA AgentInvariant ==
    ASSUME Invariant,
           Write \/ Sync \/ Deny \/ Exit \/ Scan \/ \E a \in Agent : ScanIgnored(a)
    PROVE  Invariant'
<1>. USE Bounds DEF Invariant, Typed, EntryTyped, HoldTyped, BoxTyped, CountTyped, DownIsIdle,
         DockerIsPlain, Numbered,
         OwnAgent, DeadIsGone, CleanIsGone, NoneIsGone, HeldIsDown, Behind, Held, Running,
         ContainIsHeld, Agent,
         entryVars, holdVars, boxVars, rowVars
<1>1. CASE Write
  BY <1>1 DEF Write
<1>2. CASE Sync
  BY <1>2 DEF Sync, Synced
<1>3. CASE Exit
  <2>10. /\ agents' \subseteq agents
         /\ UNCHANGED <<backend, up, wake, entry, timer, clean, containing, inst, marked, leaked>>
         /\ client' = client \/ (up /\ client' = "dead" /\ agents' = agents \ {entry})
    BY <1>3 DEF Exit
  <2>1. EntryTyped'
    BY <1>3 DEF Exit
  <2>2. HoldTyped'
    BY <1>3 DEF Exit
  <2>3. BoxTyped'
    BY <1>3 DEF Exit
  <2>4. CountTyped'
    BY <1>3 DEF Exit
  <2>5. (DownIsIdle /\ DockerIsPlain /\ Numbered /\ ContainIsHeld)'
    BY <1>3 DEF Exit
  <2>6. OwnAgent'
    BY <1>3, <2>10
  <2>7. (DeadIsGone /\ CleanIsGone /\ NoneIsGone)'
    <3>1. DeadIsGone'
      BY <1>3, <2>10
    <3>2. CleanIsGone' /\ NoneIsGone'
      BY <1>3, <2>10
    <3>. QED
      BY <3>1, <3>2
  <2>8. HeldIsDown'
    BY <1>3 DEF Exit
  <2>9. Behind'
    BY <1>3 DEF Exit
  <2>. QED
    BY <2>1, <2>2, <2>3, <2>4, <2>5, <2>6, <2>7, <2>8, <2>9
<1>4. CASE Scan
  BY <1>4 DEF Scan
<1>5. ASSUME NEW a \in Agent, ScanIgnored(a) PROVE Invariant'
  BY <1>5 DEF ScanIgnored
<1>6. CASE Deny
  BY <1>6 DEF Deny
<1>. QED
  BY <1>1, <1>2, <1>3, <1>4, <1>5, <1>6

\* Kills and the exit handler.
LEMMA KillInvariant ==
    ASSUME Invariant, containing = "none", Kill \/ Close
    PROVE  Invariant'
<1>. USE Bounds DEF Invariant, Typed, EntryTyped, HoldTyped, BoxTyped, CountTyped, DownIsIdle,
         DockerIsPlain, Numbered,
         OwnAgent, DeadIsGone, CleanIsGone, NoneIsGone, HeldIsDown, Behind, Held, Running,
         ContainIsHeld, Agent,
         entryVars, holdVars, boxVars, rowVars
<1>1. CASE KillDocker
  <2>1. EntryTyped'
    BY <1>1 DEF KillDocker, Works, Fail, Stop, Leak
  <2>2. HoldTyped'
    BY <1>1 DEF KillDocker, Works, Fail, Stop, Leak
  <2>3. BoxTyped'
    BY <1>1 DEF KillDocker, Works, Fail, Stop, Leak
  <2>4. CountTyped'
    BY <1>1 DEF KillDocker, Works, Fail, Stop, Leak
  <2>5. (DownIsIdle /\ DockerIsPlain /\ Numbered /\ ContainIsHeld)'
    <3>1. DownIsIdle'
      BY <1>1 DEF KillDocker, Works, Fail, Stop, Leak
    <3>2. DockerIsPlain'
      BY <1>1 DEF KillDocker, Works, Fail, Stop, Leak
    <3>3. Numbered'
      BY <1>1 DEF KillDocker, Works, Fail, Stop, Leak
    <3>4. ContainIsHeld'
      BY <1>1 DEF KillDocker, Works, Fail, Stop, Leak
    <3>. QED
      BY <3>1, <3>2, <3>3, <3>4
  <2>6. OwnAgent'
    BY <1>1 DEF KillDocker, Works, Fail, Stop, Leak
  <2>7. (DeadIsGone /\ CleanIsGone /\ NoneIsGone)'
    BY <1>1 DEF KillDocker, Works, Fail, Stop, Leak
  <2>8. HeldIsDown'
    BY <1>1 DEF KillDocker, Works, Fail, Stop, Leak
  <2>9. Behind'
    BY <1>1 DEF KillDocker, Works, Fail, Stop, Leak
  <2>. QED
    BY <2>1, <2>2, <2>3, <2>4, <2>5, <2>6, <2>7, <2>8, <2>9
<1>2. CASE KillIncus
  <2>1. EntryTyped'
    BY <1>2 DEF KillIncus, LastSync, Synced, DeleteOrLeak, Works, Fail, Delete, Leak
  <2>2. HoldTyped'
    BY <1>2 DEF KillIncus, LastSync, Synced, DeleteOrLeak, Works, Fail, Delete, Leak
  <2>3. BoxTyped'
    BY <1>2 DEF KillIncus, LastSync, Synced, DeleteOrLeak, Works, Fail, Delete, Leak
  <2>4. CountTyped'
    BY <1>2 DEF KillIncus, LastSync, Synced, DeleteOrLeak, Works, Fail, Delete, Leak
  <2>5. (DownIsIdle /\ DockerIsPlain /\ Numbered /\ ContainIsHeld)'
    BY <1>2 DEF KillIncus, LastSync, Synced, DeleteOrLeak, Works, Fail, Delete, Leak
  <2>6. OwnAgent'
    BY <1>2 DEF KillIncus, LastSync, Synced, DeleteOrLeak, Works, Fail, Delete, Leak
  <2>7. (DeadIsGone /\ CleanIsGone /\ NoneIsGone)'
    BY <1>2 DEF KillIncus, LastSync, Synced, DeleteOrLeak, Works, Fail, Delete, Leak
  <2>8. HeldIsDown'
    BY <1>2 DEF KillIncus, LastSync, Synced, DeleteOrLeak, Works, Fail, Delete, Leak
  <2>9. Behind'
    BY <1>2 DEF KillIncus, LastSync, Synced, DeleteOrLeak, Works, Fail, Delete, Leak
  <2>. QED
    BY <2>1, <2>2, <2>3, <2>4, <2>5, <2>6, <2>7, <2>8, <2>9
<1>3. CASE KillCleaned
  BY <1>3 DEF KillCleaned
<1>4. CASE Close /\ backend = "docker"
  BY <1>4 DEF Close, Respawn, Works
<1>5. CASE Close /\ backend = "incus"
  <2>1. EntryTyped'
    BY <1>5 DEF Close, Respawn, CleanUp, LastSync, Synced, DeleteOrLeak, Works, Fail, Delete, Leak
  <2>2. HoldTyped'
    BY <1>5 DEF Close, Respawn, CleanUp, LastSync, Synced, DeleteOrLeak, Works, Fail, Delete, Leak
  <2>3. BoxTyped'
    BY <1>5 DEF Close, Respawn, CleanUp, LastSync, Synced, DeleteOrLeak, Works, Fail, Delete, Leak
  <2>4. CountTyped'
    BY <1>5 DEF Close, Respawn, CleanUp, LastSync, Synced, DeleteOrLeak, Works, Fail, Delete, Leak
  <2>5. (DownIsIdle /\ DockerIsPlain /\ Numbered /\ ContainIsHeld)'
    BY <1>5 DEF Close, Respawn, CleanUp, LastSync, Synced, DeleteOrLeak, Works, Fail, Delete, Leak
  <2>6. OwnAgent'
    BY <1>5 DEF Close, Respawn, CleanUp, LastSync, Synced, DeleteOrLeak, Works, Fail, Delete, Leak
  <2>7. (DeadIsGone /\ CleanIsGone /\ NoneIsGone)'
    BY <1>5 DEF Close, Respawn, CleanUp, LastSync, Synced, DeleteOrLeak, Works, Fail, Delete, Leak
  <2>8. HeldIsDown'
    BY <1>5 DEF Close, Respawn, CleanUp, LastSync, Synced, DeleteOrLeak, Works, Fail, Delete, Leak
  <2>9. Behind'
    BY <1>5 DEF Close, Respawn, CleanUp, LastSync, Synced, DeleteOrLeak, Works, Fail, Delete, Leak
  <2>. QED
    BY <2>1, <2>2, <2>3, <2>4, <2>5, <2>6, <2>7, <2>8, <2>9
<1>. QED
  BY <1>1, <1>2, <1>3, <1>4, <1>5 DEF Kill

\* A finding of the monitor: the registered agent is held.
LEMMA UnsafeInvariant ==
    ASSUME Invariant, containing = "none", NEW a \in Agent, Unsafe(a)
    PROVE  Invariant'
<1>. USE Bounds DEF Invariant, Typed, EntryTyped, HoldTyped, BoxTyped, CountTyped, DownIsIdle,
         DockerIsPlain, Numbered,
         OwnAgent, DeadIsGone, CleanIsGone, NoneIsGone, HeldIsDown, Behind, Held, Running,
         ContainIsHeld, Agent,
         entryVars, holdVars, boxVars, rowVars
<1>1. up /\ entry = a /\ watch = a /\ wake = "none" /\ a # 0
  BY DEF Unsafe, Current
<1>2. /\ held' = TRUE /\ watch' = 0 /\ containing' = "held"
      /\ IF backend = "incus" THEN clean' = TRUE /\ timer' = FALSE ELSE UNCHANGED <<clean, timer>>
      /\ UNCHANGED <<backend, up, wake, entry, client, again, cut, boxVars, rowVars, started,
                     faults, crashes>>
  BY DEF Unsafe
<1>3. EntryTyped'
  BY <1>1, <1>2 DEF Unsafe, Persist
<1>4. HoldTyped'
  BY <1>1, <1>2 DEF Unsafe, Persist
<1>5. BoxTyped'
  BY <1>1, <1>2 DEF Unsafe, Persist
<1>6. CountTyped'
  BY <1>1, <1>2 DEF Unsafe, Persist
<1>7. (DownIsIdle /\ DockerIsPlain /\ Numbered /\ ContainIsHeld)'
  BY <1>1, <1>2 DEF Unsafe, Persist
<1>8. OwnAgent'
  BY <1>1, <1>2 DEF Unsafe, Persist
<1>9. (DeadIsGone /\ CleanIsGone /\ NoneIsGone)'
  BY <1>1, <1>2 DEF Unsafe, Persist
<1>10. HeldIsDown'
  BY <1>1, <1>2 DEF Unsafe, Persist
<1>11. Behind'
  BY <1>1, <1>2 DEF Unsafe, Persist
<1>. QED
  BY <1>3, <1>4, <1>5, <1>6, <1>7, <1>8, <1>9, <1>10, <1>11

\* The commands that contain it.
LEMMA ContainInvariant ==
    ASSUME Invariant, Contain
    PROVE  Invariant'
<1>. USE Bounds DEF Invariant, Typed, EntryTyped, HoldTyped, BoxTyped, CountTyped, DownIsIdle,
         DockerIsPlain, Numbered,
         OwnAgent, DeadIsGone, CleanIsGone, NoneIsGone, HeldIsDown, Behind, Held, Running,
         ContainIsHeld, Agent,
         entryVars, holdVars, boxVars, rowVars
<1>1. CASE StopDocker
  <2>1. up /\ wake = "none" /\ ~marked /\ agents \subseteq leaked \cup {entry}
    BY <1>1 DEF StopDocker
  <2>2. agents' \subseteq leaked' /\ agents' \subseteq agents /\ leaked' \subseteq leaked \cup agents
    BY <1>1, <2>1 DEF StopDocker, Works, Fail, Stop, Leak
  <2>3. EntryTyped'
    BY <1>1, <2>1, <2>2 DEF StopDocker, Works, Fail, Stop, Leak
  <2>4. HoldTyped'
    BY <1>1, <2>1, <2>2 DEF StopDocker, Works, Fail, Stop, Leak
  <2>5. BoxTyped'
    BY <1>1, <2>1, <2>2 DEF StopDocker, Works, Fail, Stop, Leak
  <2>6. CountTyped'
    BY <1>1, <2>1, <2>2 DEF StopDocker, Works, Fail, Stop, Leak
  <2>7. (DownIsIdle /\ DockerIsPlain /\ Numbered /\ ContainIsHeld)'
    BY <1>1, <2>1, <2>2 DEF StopDocker, Works, Fail, Stop, Leak
  <2>8. OwnAgent'
    BY <1>1, <2>1, <2>2 DEF StopDocker, Works, Fail, Stop, Leak
  <2>9. (DeadIsGone /\ CleanIsGone /\ NoneIsGone)'
    BY <1>1, <2>1, <2>2 DEF StopDocker, Works, Fail, Stop, Leak
  <2>10. HeldIsDown'
    BY <1>1, <2>1, <2>2 DEF StopDocker, Works, Fail, Stop, Leak
  <2>11. Behind'
    BY <1>1, <2>1, <2>2 DEF StopDocker, Works, Fail, Stop, Leak
  <2>. QED
    BY <2>3, <2>4, <2>5, <2>6, <2>7, <2>8, <2>9, <2>10, <2>11
<1>2. CASE SetReason
  <2>1. EntryTyped'
    BY <1>2 DEF SetReason, Works, Fail
  <2>2. HoldTyped'
    BY <1>2 DEF SetReason, Works, Fail
  <2>3. BoxTyped'
    BY <1>2 DEF SetReason, Works, Fail
  <2>4. CountTyped'
    <3>1. faults' = faults \/ (faults + 1 <= MaxFaults /\ faults' = faults + 1)
      BY <1>2 DEF SetReason, Works, Fail
    <3>2. faults' \in 0 .. MaxFaults
      BY <3>1
    <3>. QED
      BY <1>2, <3>2 DEF SetReason
  <2>5. (DownIsIdle /\ DockerIsPlain /\ Numbered /\ ContainIsHeld)'
    BY <1>2 DEF SetReason, Works, Fail
  <2>6. OwnAgent'
    BY <1>2 DEF SetReason, Works, Fail
  <2>7. (DeadIsGone /\ CleanIsGone /\ NoneIsGone)'
    <3>1. inst = "none" => marked' = marked
      BY <1>2 DEF SetReason
    <3>. QED
      BY <1>2, <3>1 DEF SetReason
  <2>8. HeldIsDown'
    BY <1>2 DEF SetReason, Works, Fail
  <2>9. Behind'
    BY <1>2 DEF SetReason, Works, Fail
  <2>. QED
    BY <2>1, <2>2, <2>3, <2>4, <2>5, <2>6, <2>7, <2>8, <2>9
<1>3. CASE Freeze
  <2>1. EntryTyped'
    BY <1>3 DEF Freeze, Works, Fail
  <2>2. HoldTyped'
    BY <1>3 DEF Freeze, Works, Fail
  <2>3. BoxTyped'
    BY <1>3 DEF Freeze, Works, Fail
  <2>4. CountTyped'
    BY <1>3 DEF Freeze, Works, Fail
  <2>5. (DownIsIdle /\ DockerIsPlain /\ Numbered /\ ContainIsHeld)'
    BY <1>3 DEF Freeze, Works, Fail
  <2>6. OwnAgent'
    BY <1>3 DEF Freeze, Works, Fail
  <2>7. (DeadIsGone /\ CleanIsGone /\ NoneIsGone)'
    BY <1>3 DEF Freeze, Works, Fail
  <2>8. HeldIsDown'
    BY <1>3 DEF Freeze, Works, Fail
  <2>9. Behind'
    BY <1>3 DEF Freeze, Works, Fail
  <2>. QED
    BY <2>1, <2>2, <2>3, <2>4, <2>5, <2>6, <2>7, <2>8, <2>9
<1>4. CASE PowerOff
  <2>1. up /\ wake = "none" /\ backend = "incus" /\ entry # 0
    BY <1>4 DEF PowerOff
  <2>2. agents' \subseteq leaked' /\ agents' \subseteq agents /\ leaked' \subseteq leaked \cup agents
        /\ (inst' = "none" <=> inst = "none") /\ inst' \in {inst, "stopped"} /\ marked' \in {marked, TRUE}
    BY <1>4, <2>1 DEF PowerOff, Works, Fail
  <2>3. EntryTyped'
    BY <1>4, <2>1, <2>2 DEF PowerOff, Works, Fail
  <2>4. HoldTyped'
    BY <1>4, <2>1, <2>2 DEF PowerOff, Works, Fail
  <2>5. BoxTyped'
    BY <1>4, <2>1, <2>2 DEF PowerOff, Works, Fail
  <2>6. CountTyped'
    <3>1. \/ faults' = faults
          \/ faults + 1 <= MaxFaults /\ faults' = faults + 1
          \/ faults + 2 <= MaxFaults /\ faults' = faults + 2
      BY <1>4 DEF PowerOff, Works, Fail
    <3>2. faults' \in 0 .. MaxFaults
      BY <3>1
    <3>. QED
      BY <1>4, <3>2 DEF PowerOff
  <2>7. (DownIsIdle /\ DockerIsPlain /\ Numbered /\ ContainIsHeld)'
    BY <1>4, <2>1, <2>2 DEF PowerOff, Works, Fail
  <2>8. OwnAgent'
    BY <1>4, <2>1, <2>2 DEF PowerOff, Works, Fail
  <2>9. (DeadIsGone /\ CleanIsGone /\ NoneIsGone)'
    BY <1>4, <2>1, <2>2 DEF PowerOff, Works, Fail
  <2>10. HeldIsDown'
    BY <1>4, <2>1, <2>2 DEF PowerOff, Works, Fail
  <2>11. Behind'
    BY <1>4, <2>1, <2>2 DEF PowerOff, Works, Fail
  <2>. QED
    BY <2>3, <2>4, <2>5, <2>6, <2>7, <2>8, <2>9, <2>10, <2>11
<1>. QED
  BY <1>1, <1>2, <1>3, <1>4 DEF Contain

\* The end and the start of the host, and the operator's release.
LEMMA HostInvariant ==
    ASSUME Invariant, Crash \/ StartDocker \/ StartIncus \/ Release
    PROVE  Invariant'
<1>. USE Bounds DEF Invariant, Typed, EntryTyped, HoldTyped, BoxTyped, CountTyped, DownIsIdle,
         DockerIsPlain, Numbered,
         OwnAgent, DeadIsGone, CleanIsGone, NoneIsGone, HeldIsDown, Behind, Held, Running,
         ContainIsHeld, Agent,
         entryVars, holdVars, boxVars, rowVars
<1>1. CASE Crash
  <2>1. EntryTyped'
    BY <1>1 DEF Crash
  <2>2. HoldTyped'
    BY <1>1 DEF Crash
  <2>3. BoxTyped'
    BY <1>1 DEF Crash
  <2>4. CountTyped'
    BY <1>1 DEF Crash
  <2>5. (DownIsIdle /\ DockerIsPlain /\ Numbered /\ ContainIsHeld)'
    BY <1>1 DEF Crash
  <2>6. OwnAgent'
    BY <1>1 DEF Crash
  <2>7. (DeadIsGone /\ CleanIsGone /\ NoneIsGone)'
    BY <1>1 DEF Crash
  <2>8. HeldIsDown'
    BY <1>1 DEF Crash
  <2>9. Behind'
    BY <1>1 DEF Crash
  <2>. QED
    BY <2>1, <2>2, <2>3, <2>4, <2>5, <2>6, <2>7, <2>8, <2>9
<1>2. CASE StartDocker
  <2>1. EntryTyped'
    BY <1>2 DEF StartDocker, Works, Fail, Leak
  <2>2. HoldTyped'
    BY <1>2 DEF StartDocker, Works, Fail, Leak
  <2>3. BoxTyped'
    BY <1>2 DEF StartDocker, Works, Fail, Leak
  <2>4. CountTyped'
    BY <1>2 DEF StartDocker, Works, Fail, Leak
  <2>5. (DownIsIdle /\ DockerIsPlain /\ Numbered /\ ContainIsHeld)'
    <3>1. DownIsIdle'
      BY <1>2 DEF StartDocker, Works, Fail, Leak
    <3>2. DockerIsPlain'
      BY <1>2 DEF StartDocker, Works, Fail, Leak
    <3>3. Numbered'
      BY <1>2 DEF StartDocker, Works, Fail, Leak
    <3>4. ContainIsHeld'
      BY <1>2 DEF StartDocker, Works, Fail, Leak
    <3>. QED
      BY <3>1, <3>2, <3>3, <3>4
  <2>6. OwnAgent'
    BY <1>2 DEF StartDocker, Works, Fail, Leak
  <2>7. (DeadIsGone /\ CleanIsGone /\ NoneIsGone)'
    BY <1>2 DEF StartDocker, Works, Fail, Leak
  <2>8. HeldIsDown'
    BY <1>2 DEF StartDocker, Works, Fail, Leak
  <2>9. Behind'
    BY <1>2 DEF StartDocker, Works, Fail, Leak
  <2>. QED
    BY <2>1, <2>2, <2>3, <2>4, <2>5, <2>6, <2>7, <2>8, <2>9
<1>3. CASE StartIncus
  BY <1>3 DEF StartIncus, Orphans, Delete
<1>4. CASE Release
  BY <1>4 DEF Release
<1>. QED
  BY <1>1, <1>2, <1>3, <1>4

-----------------------------------------------------------------------------
\* The invariant is inductive.
LEMMA NextInvariant == Invariant /\ [Next]_vars => Invariant'
<1>1. SUFFICES ASSUME Invariant, [Next]_vars PROVE Invariant'
  OBVIOUS
<1>2. CASE UNCHANGED vars
  BY <1>1, <1>2 DEF vars, entryVars, holdVars, boxVars, rowVars, Invariant, Typed, EntryTyped,
     HoldTyped, BoxTyped, CountTyped, DownIsIdle, DockerIsPlain, Numbered, OwnAgent,
     DeadIsGone, CleanIsGone, NoneIsGone, HeldIsDown, Behind, Held, Running, ContainIsHeld
<1>. QED
  BY <1>1, <1>2, WakeInvariant, SpawnInvariant, AgentInvariant, KillInvariant, UnsafeInvariant,
     ContainInvariant, HostInvariant DEF Next, Host, Spawn

\* The invariant is inductive: the entry of the session, its client, its monitor and its
\* instance fit together whatever command of the backend fails and wherever the host dies.
THEOREM Invariance == Spec => []Invariant
BY InitInvariant, NextInvariant, PTL DEF Spec

\* Every reachable state is well typed: a client belongs to an entry, a spawn in flight
\* has none, and only the registered agent is monitored.
THEOREM TypeCorrectness == Spec => []TypeOK
<1>1. Invariant => TypeOK
  BY DEF Invariant, Typed, EntryTyped, HoldTyped, BoxTyped, CountTyped, TypeOK
<1>. QED
  BY <1>1, Invariance, PTL

\* Whatever wakes, kills, exits, scans and deaths of the host coincide, two agents of
\* a session run at once only when a stop failed or a quarantined instance runs again.
THEOREM OneAgent == Spec => []OneWorker
<1>1. Invariant => OneWorker
  <2>1. SUFFICES ASSUME Invariant, ~marked PROVE Cardinality(agents \ leaked) <= 1
    BY DEF OneWorker
  <2>2. \A a, b \in agents \ leaked : a = b
    BY <2>1 DEF Invariant, OwnAgent
  <2>3. CASE agents \ leaked = {}
    BY <2>3, FS_EmptySet
  <2>4. CASE agents \ leaked # {}
    <3>1. PICK a \in agents \ leaked : agents \ leaked = {a}
      BY <2>2, <2>4
    <3>. QED
      BY <3>1, FS_Singleton
  <2>. QED
    BY <2>3, <2>4
<1>. QED
  BY <1>1, Invariance, PTL

\* Held sessions are down once their containment is over or a new host has started
\* (container-runner.ts watchDependencies, cleanupOrphans): what no stop failed for runs only
\* in an instance that a host marked, and died before it froze it.
THEOREM HeldAreStopped == Spec => []HeldMeansStopped
<1>1. Invariant => HeldMeansStopped
  BY DEF Invariant, HeldIsDown, HeldMeansStopped
<1>. QED
  BY <1>1, Invariance, PTL

\* Neither exit handlers nor kills nor the next host remove or unmark the instance of
\* a held session ("Never delete the preserved instance").
THEOREM EvidenceKept == Spec => HeldEvidenceKept
<1>1. ASSUME Invariant, [Next]_vars, Held, marked PROVE marked' /\ inst' # "none"
  <2>1. /\ backend = "incus" /\ inst # "none" /\ wake = "none" /\ watch = 0
        /\ (entry # 0 => clean)
    BY <1>1 DEF Invariant, Typed, EntryTyped, DockerIsPlain, NoneIsGone, HeldIsDown
  <2>2. CASE UNCHANGED <<inst, marked>>
    BY <1>1, <2>1, <2>2
  <2>3. CASE ~ UNCHANGED <<inst, marked>>
    <3>1. ~ UNCHANGED boxVars
      BY <2>3 DEF boxVars
    <3>2. \/ Exit \/ KillDocker \/ KillIncus \/ Close
          \/ StartDocker \/ StartIncus \/ Contain
      BY <1>1, <2>1, <3>1 DEF Next, Host, Spawn, Kill, Wake, WakeFails, Admitted, SpawnDocker,
         SpawnIncus, SetupFails, InboundFails, GateQuarantine, Write, Sync, Deny, KillCleaned, Scan,
         ScanIgnored, Unsafe, Crash, Release, vars
    <3>3. CASE Exit
      BY <2>3, <3>3 DEF Exit
    <3>4. CASE KillIncus
      BY <2>1, <3>4 DEF KillIncus
    <3>5. CASE Close
      BY <1>1, <2>1, <2>3, <3>5 DEF Close, CleanUp, boxVars, Invariant, Typed, EntryTyped
    <3>6. CASE StartIncus
      BY <1>1, <3>1, <3>6 DEF StartIncus, Orphans
    <3>7. CASE Contain
      <4>1. CASE SetReason
        BY <1>1, <2>1, <4>1 DEF SetReason
      <4>2. CASE Freeze
        BY <1>1, <2>1, <4>2 DEF Freeze
      <4>3. CASE PowerOff
        BY <1>1, <2>1, <4>3 DEF PowerOff, boxVars
      <4>. QED
        BY <2>1, <3>7, <4>1, <4>2, <4>3 DEF Contain, StopDocker
    <3>. QED
      BY <2>1, <3>2, <3>3, <3>4, <3>5, <3>6, <3>7 DEF KillDocker, StartDocker
  <2>. QED
    BY <2>2, <2>3
<1>. QED
  BY <1>1, Invariance, PTL DEF Spec, HeldEvidenceKept

\* From the finding on, nothing the guest wrote reaches the host ("close/error handlers
\* must not delete evidence or resync guest data").
THEOREM DataFrozen == Spec => HeldDataFrozen
<1>1. ASSUME Invariant, [Next]_vars, held PROVE UNCHANGED replica
  <2>1. /\ wake = "none" /\ watch = 0 /\ ~timer
        /\ (backend = "incus" /\ entry # 0 => clean)
    BY <1>1 DEF Invariant, HeldIsDown, Held
  <2>2. CASE Close
    BY <1>1, <2>1, <2>2 DEF Close, CleanUp, rowVars, Invariant, Typed, EntryTyped
  <2>3. CASE Sync \/ KillIncus
    BY <2>1, <2>3 DEF Sync, KillIncus
  <2>4. CASE ~Close /\ ~Sync /\ ~KillIncus
    BY <1>1, <2>1, <2>4 DEF Next, Host, Contain, Spawn, Kill, Wake, WakeFails, Admitted, SpawnDocker,
       SpawnIncus, SetupFails, InboundFails, GateQuarantine, Write, Exit, Deny, KillDocker,
       KillCleaned, Scan, ScanIgnored, Unsafe, StopDocker, SetReason, Freeze, PowerOff, Crash,
       StartDocker, StartIncus, Release, vars, rowVars
  <2>. QED
    BY <2>2, <2>3, <2>4
<1>. QED
  BY <1>1, Invariance, PTL DEF Spec, HeldDataFrozen

\* The host's copy of outbound.db loses no row that the guest wrote or was given, whichever
\* instance of the session it is taken from: an instance is never behind the copy.
THEOREM CopyGrows == Spec => ReplicaGrows
<1>1. ASSUME Invariant, [Next]_vars PROVE replica' >= replica
  <2>1. replica \in Nat /\ guest \in Nat /\ direct \in Nat /\ replica <= guest
    BY <1>1, Bounds DEF Invariant, Typed, CountTyped, Behind
  <2>2. replica' \in {replica, guest, replica + direct}
    <3>1. CASE Close \/ Sync \/ KillIncus
      BY <1>1, <3>1 DEF Close, CleanUp, Sync, KillIncus, LastSync, Synced, rowVars
    <3>2. CASE ~Close /\ ~Sync /\ ~KillIncus
      BY <1>1, <3>2 DEF Next, Host, Contain, Spawn, Kill, Wake, WakeFails, Admitted, SpawnDocker,
         SpawnIncus, SetupFails, InboundFails, GateQuarantine, Pushed, Write, Exit, Deny, KillDocker,
         KillCleaned, Scan, ScanIgnored, Unsafe, StopDocker, SetReason, Freeze, PowerOff, Crash,
         StartDocker, StartIncus, Release, vars, rowVars
    <3>. QED
      BY <3>1, <3>2
  <2>. QED
    BY <2>1, <2>2
<1>2. Invariant /\ [Next]_vars => [replica' >= replica]_vars
  BY <1>1
<1>. QED
  BY <1>2, Invariance, PTL DEF Spec, ReplicaGrows

-----------------------------------------------------------------------------
(* Credential requests.                                                     *)

\* A row belongs to a request that was stored, and a process starts with no request in
\* flight: that is why the rows which the sweep reads at its start are never those of
\* a request that waits.
RowsAreOfStored == \A r \in Request : row[r] # "none" => phase[r] \in {"waiting", "done", "lost"}
BootsEmpty == host = "boot" => InFlight = {}

CredentialInvariant == CredentialsTypeOK /\ WaitingIsAnswerable /\ RowsAreOfStored /\ BootsEmpty

\* The invariant holds initially.
LEMMA CredentialInit == CredentialsInit => CredentialInvariant
BY CredentialsBoundAssumption DEF CredentialsInit, CredentialInvariant, CredentialsTypeOK,
   WaitingIsAnswerable, RowsAreOfStored, BootsEmpty,
      InFlight, Live, Decision

\* The process: start, stop and death.
LEMMA ProcessInvariant ==
    ASSUME CredentialInvariant, Start \/ StopHandler \/ Die
    PROVE  CredentialInvariant'
<1>. USE CredentialsBoundAssumption DEF CredentialInvariant, CredentialsTypeOK,
         WaitingIsAnswerable, RowsAreOfStored, BootsEmpty,
         InFlight, Live, Decision, requestVars, storeVars, boundVars
<1>1. CASE Start
  BY <1>1 DEF Start
<1>2. CASE StopHandler
  BY <1>2 DEF StopHandler
<1>3. CASE Die
  BY <1>3 DEF Die
<1>. QED
  BY <1>1, <1>2, <1>3

\* handleRequest, up to the row and the resolver.
LEMMA RequestInvariant ==
    ASSUME CredentialInvariant, NEW r \in Request, Ask(r) \/ HandleRequest(r) \/ GiveUp(r)
    PROVE  CredentialInvariant'
<1>. USE CredentialsBoundAssumption DEF CredentialInvariant, CredentialsTypeOK,
         WaitingIsAnswerable, RowsAreOfStored, BootsEmpty,
         InFlight, Live, Decision, requestVars, storeVars, boundVars
<1>1. CASE Ask(r)
  BY <1>1 DEF Ask
<1>2. CASE NobodyToAsk(r)
  BY <1>2 DEF NobodyToAsk, Answer
<1>3. CASE Post(r)
  BY <1>3 DEF Post
<1>4. CASE CardOut(r)
  BY <1>4 DEF CardOut
<1>5. CASE CardFails(r)
  BY <1>5 DEF CardFails, Answer
<1>6. CASE Stored(r)
  BY <1>6 DEF Stored
<1>7. CASE GiveUp(r)
  BY <1>7 DEF GiveUp
<1>. QED
  BY <1>1, <1>2, <1>3, <1>4, <1>5, <1>6, <1>7 DEF HandleRequest

\* What ends a request or removes its row: the timer, the edited card, the sweep, a click.
LEMMA EndInvariant ==
    ASSUME CredentialInvariant, NEW r \in Request,
           \/ Timer(r) \/ Expired(r) \/ Sweep(r)
           \/ \E d \in Decision : Click(r, d) \/ Dispatch(r, d)
    PROVE  CredentialInvariant'
<1>. USE CredentialsBoundAssumption DEF CredentialInvariant, CredentialsTypeOK,
         WaitingIsAnswerable, RowsAreOfStored, BootsEmpty,
         InFlight, Live, Decision, requestVars, storeVars, boundVars
<1>1. CASE Timer(r)
  BY <1>1 DEF Timer, Answer
<1>2. CASE Expired(r)
  BY <1>2 DEF Expired
<1>3. CASE Sweep(r)
  BY <1>3 DEF Sweep
<1>4. ASSUME NEW d \in Decision, Click(r, d) PROVE CredentialInvariant'
  BY <1>4 DEF Click
<1>5. ASSUME NEW d \in Decision, Dispatch(r, d) PROVE CredentialInvariant'
  BY <1>5 DEF Dispatch, Answer
<1>. QED
  BY <1>1, <1>2, <1>3, <1>4, <1>5

\* The invariant is inductive: the sweep, which starts with the rows of earlier processes
\* and runs beside new requests, and clicks, which may be dispatched late, never meet the
\* row of a request that waits without answering it.
THEOREM CredentialInvariance == CredentialsSpec => []CredentialInvariant
<1>1. ASSUME CredentialInvariant, [CredentialsNext]_credentialVars PROVE CredentialInvariant'
  <2>1. CASE Start \/ StopHandler \/ Die
    BY <1>1, <2>1, ProcessInvariant
  <2>2. ASSUME NEW r \in Request, Ask(r) \/ HandleRequest(r) \/ GiveUp(r) PROVE CredentialInvariant'
    BY <1>1, <2>2, RequestInvariant
  <2>3. ASSUME NEW r \in Request,
               \/ Timer(r) \/ Expired(r) \/ Sweep(r)
               \/ \E d \in Decision : Click(r, d) \/ Dispatch(r, d)
        PROVE CredentialInvariant'
    BY <1>1, <2>3, EndInvariant
  <2>4. CASE UNCHANGED credentialVars
    BY <1>1, <2>4 DEF credentialVars, requestVars, storeVars, boundVars, CredentialInvariant,
       CredentialsTypeOK,
       WaitingIsAnswerable, RowsAreOfStored, BootsEmpty, InFlight, Live, Decision
  <2>. QED
    BY <1>1, <2>1, <2>2, <2>3, <2>4 DEF CredentialsNext
<1>. QED
  BY <1>1, CredentialInit, PTL DEF CredentialsSpec

\* Every reachable state is well typed: a resolver is there only for a request that waits
\* unanswered, and the sweep and the expiry only hold requests that are over.
THEOREM CredentialTypes == CredentialsSpec => []CredentialsTypeOK
BY CredentialInvariance, PTL DEF CredentialInvariant

\* A request that waits can always be answered by a click (response-handler.ts claims
\* a click by the row).
THEOREM WaitingAnswerable == CredentialsSpec => []WaitingIsAnswerable
BY CredentialInvariance, PTL DEF CredentialInvariant

\* The gateway is told one thing: an answer, once given, is never changed, by whichever
\* of click, timer, failure and restart comes later.
AnswersStand == [][\A r \in Request : answer[r] # "none" => answer'[r] = answer[r]]_credentialVars

\* No step changes an answer that was given.
THEOREM AnsweredOnce == CredentialsSpec => AnswersStand
<1>1. ASSUME CredentialInvariant, [CredentialsNext]_credentialVars
      PROVE  [\A r \in Request : answer[r] # "none" => answer'[r] = answer[r]]_credentialVars
  <2>. SUFFICES ASSUME NEW q \in Request, answer[q] # "none" PROVE answer'[q] = answer[q]
    OBVIOUS
  <2>. USE <1>1 DEF CredentialInvariant, CredentialsTypeOK, requestVars, Live
  <2>1. CASE Start \/ StopHandler \/ Die
    BY <2>1 DEF Start, StopHandler, Die
  <2>2. ASSUME NEW r \in Request, Ask(r) \/ HandleRequest(r) \/ GiveUp(r)
        PROVE answer'[q] = answer[q]
    BY <2>2 DEF Ask, HandleRequest, NobodyToAsk, Post, CardOut, CardFails, Stored, GiveUp, Answer
  <2>3. ASSUME NEW r \in Request, Timer(r) \/ Expired(r) \/ Sweep(r)
        PROVE answer'[q] = answer[q]
    BY <2>3 DEF Timer, Expired, Sweep, Answer
  <2>4. ASSUME NEW r \in Request, NEW d \in Decision, Click(r, d) \/ Dispatch(r, d)
        PROVE answer'[q] = answer[q]
    BY <2>4 DEF Click, Dispatch, Answer
  <2>5. CASE UNCHANGED credentialVars
    BY <2>5 DEF credentialVars
  <2>. QED
    BY <2>1, <2>2, <2>3, <2>4, <2>5 DEF CredentialsNext
<1>. QED
  BY <1>1, CredentialInvariance, PTL DEF CredentialsSpec, AnswersStand

-----------------------------------------------------------------------------
(* Recovery: contents only rise, so what an inventory saw first is at most  *)
(* what was there when it was complete, and that is at most what the second *)
(* inventory sees; when the two agree all three are the same.               *)

Capturing == {"list", "copy", "recheck"}
Restoring == {"make", "stage"}
Preparing == {"measure", "remeasure"}

\* RecoveryTypeOK, and that a drift is newer than anything a staging holds.
RecoveryTyped ==
    /\ live \in [File -> 0 .. MaxWrites + 1] /\ \A f \in File : live[f] <= writes + 1
    /\ payload \in [File -> -1 .. MaxWrites + 1]
    /\ staged \in [File -> Content] /\ \A f \in File : staged[f] <= MaxWrites + 1 + drifts
    /\ {manifest, seen, base, instant, origin} \subseteq Contents
    /\ audit \in [central : Content, payload : Contents]
    /\ {complete, approvals, stagingHold, restored, moved, told, ranRestored} \subseteq BOOLEAN
    /\ op \in {"idle"} \cup Capturing \cup Restoring \cup Preparing
    /\ todo \subseteq File
    /\ writes \in 0 .. MaxWrites /\ drifts \in 0 .. MaxDrifts

\* Wherever something was restored to, there is a hold.
HoldStands ==
    /\ stagingHold \/ staged = Empty
    /\ op = "stage" \/ restored => stagingHold
    /\ ~ranRestored

\* The capture at work: base, instant and the second inventory rise.
CaptureRises ==
    /\ op \in Capturing => ~complete
    /\ op = "list" => /\ \A f \in File \ todo : seen[f] <= live[f]
                      /\ todo = {} => \A f \in File : seen[f] <= instant[f] /\ instant[f] <= live[f]
    /\ op \in {"copy", "recheck"} => \A f \in File : base[f] <= instant[f] /\ instant[f] <= live[f]
    /\ op = "recheck" => \A f \in File \ todo : instant[f] <= seen[f]
    /\ complete => manifest = origin

\* The restore at work: what was visited is what the manifest says.
StagingMatches ==
    /\ op \in Restoring => complete /\ ~restored
    /\ op = "make" => staged = Empty
    /\ op = "stage" => \A f \in File \ todo : staged[f] = manifest[f]

\* The preparation at work, with the audit it repeats.
PreparationRises ==
    /\ op \in Preparing => todo \subseteq Private
    /\ op = "measure" =>
          /\ \A f \in Private \ todo : seen[f] <= staged[f]
          /\ todo = {} => \A f \in Private : seen[f] <= instant[f] /\ instant[f] <= staged[f]
    /\ op = "remeasure" =>
          /\ \A f \in Private : base[f] <= instant[f] /\ instant[f] <= staged[f]
          /\ \A f \in Private \ todo : instant[f] <= seen[f]
          /\ audit # NoAudit =>
                ~approvals /\ audit.central = staged[Db] /\ audit.payload = base

RecoveryInvariant ==
    RecoveryTyped /\ HoldStands /\ CaptureRises /\ StagingMatches /\ PreparationRises

\* What happens beside the commands.
Outside == (\E f \in File : WriteSource(f) \/ Damage(f) \/ Drift(f)) \/ Move \/ Boot

\* The commands, by what they are for.
Begin == Capture \/ Restore \/ Prepare \/ Abort
Work == \E f \in File : Inspect(f) \/ Copy(f) \/ Stage(f)
Turn == Listed \/ Copied \/ Seal \/ PlaceHold \/ Mark \/ Measured \/ Report

\* Every step is of one of these.
LEMMA Steps == RecoveryNext => Outside \/ Begin \/ Work \/ Turn
BY DEF RecoveryNext, Outside, Begin, Work, Turn

-----------------------------------------------------------------------------
USE DEF snapshotVars, stagingVars, commandVars, Go, End, Capturing, Restoring, Preparing

\* The bounds are natural numbers, an empty directory has a content for every file.
LEMMA RecoveryBounds ==
    /\ MaxWrites \in Nat /\ MaxDrifts \in Nat /\ Db \in File
    /\ Empty \in Contents /\ Empty \in [File -> -1 .. MaxWrites + 1]
    /\ NoAudit \in [central : Content, payload : Contents]
BY RecoveryBoundAssumption, FileAssumption DEF Empty, Contents, Content, NoAudit

\* The invariant holds initially.
LEMMA RecoveryStarts == RecoveryInit => RecoveryInvariant
<1>. SUFFICES ASSUME RecoveryInit PROVE RecoveryInvariant
  OBVIOUS
<1>1. RecoveryTyped
  <2>1. \A f \in File : live[f] \in 0 .. MaxWrites + 1 /\ live[f] <= writes + 1
    BY RecoveryBounds DEF RecoveryInit
  <2>2. \A f \in File : staged[f] <= MaxWrites + 1 + drifts
    BY RecoveryBounds DEF RecoveryInit, Empty
  <2>3. staged \in [File -> Content]
    BY RecoveryBounds DEF RecoveryInit, Contents
  <2>. QED
    <3>1. live \in [File -> 0 .. MaxWrites + 1]
      BY <2>1, RecoveryBounds DEF RecoveryInit
    <3>2. 0 \in 0 .. MaxWrites /\ 0 \in 0 .. MaxDrifts
      BY RecoveryBounds
    <3>. QED
      BY <2>1, <2>2, <2>3, <3>1, <3>2, RecoveryBounds DEF RecoveryInit, RecoveryTyped
<1>2. HoldStands /\ CaptureRises /\ StagingMatches /\ PreparationRises
  BY DEF RecoveryInit, HoldStands, CaptureRises, StagingMatches, PreparationRises
<1>. QED
  BY <1>1, <1>2 DEF RecoveryInvariant

\* Every command and every disturbance keeps the types.
LEMMA RecoveryKeepsTypes == RecoveryInvariant /\ [RecoveryNext]_recoveryVars => RecoveryTyped'
<1>. SUFFICES ASSUME RecoveryInvariant, [RecoveryNext]_recoveryVars PROVE RecoveryTyped'
  OBVIOUS
<1>. USE RecoveryBounds DEF RecoveryInvariant, RecoveryTyped
<1>1. CASE UNCHANGED recoveryVars
  BY <1>1 DEF recoveryVars
<1>2. ASSUME NEW f \in File, WriteSource(f) PROVE RecoveryTyped'
  BY <1>2 DEF WriteSource
<1>3. ASSUME NEW f \in File, Damage(f) PROVE RecoveryTyped'
  BY <1>3 DEF Damage, Damaged
<1>4. ASSUME NEW f \in File, Drift(f) PROVE RecoveryTyped'
  BY <1>4 DEF Drift, Content
<1>5. CASE Move \/ Boot
  BY <1>5 DEF Move, Boot
<1>6. CASE Begin
  <2>1. CASE Capture \/ Prepare \/ Abort
    BY <2>1 DEF Capture, Prepare, Abort, Private
  <2>2. CASE Restore
    <3>1. staged' \in [File -> Content] /\ \A f \in File : staged'[f] <= MaxWrites + 1 + drifts'
      BY <2>2 DEF Restore, Empty, Content
    <3>. QED
      BY <2>2, <3>1 DEF Restore
  <2>. QED
    BY <1>6, <2>1, <2>2 DEF Begin
<1>7. ASSUME NEW f \in File, Inspect(f) PROVE RecoveryTyped'
  <2>1. Now \in Contents
    BY DEF Now, Contents, Content
  <2>2. seen' \in Contents /\ instant' \in Contents
    BY <1>7, <2>1 DEF Inspect, Contents
  <2>. QED
    BY <1>7, <2>2 DEF Inspect
<1>8. ASSUME NEW f \in File, Copy(f) PROVE RecoveryTyped'
  BY <1>8 DEF Copy
<1>9. ASSUME NEW f \in File, Stage(f) PROVE RecoveryTyped'
  BY <1>9 DEF Stage, Content
<1>10. CASE Turn
  <2>1. CASE Listed \/ Copied \/ Seal
    BY <2>1 DEF Listed, Copied, Seal
  <2>2. CASE PlaceHold \/ Mark \/ Measured
    BY <2>2 DEF PlaceHold, Mark, Measured, Private
  <2>3. CASE Report
    <3>1. audit' \in [central : Content, payload : Contents]
      BY <2>3 DEF Report
    <3>. QED
      BY <2>3, <3>1 DEF Report
  <2>. QED
    BY <1>10, <2>1, <2>2, <2>3 DEF Turn
<1>. QED
  BY <1>1, <1>2, <1>3, <1>4, <1>5, <1>6, <1>7, <1>8, <1>9, <1>10, Steps DEF Outside, Work

\* A hold comes before anything that is restored, and stays until the directory is made anew.
LEMMA KeepsHold == RecoveryInvariant /\ [RecoveryNext]_recoveryVars => HoldStands'
<1>. SUFFICES ASSUME RecoveryInvariant, [RecoveryNext]_recoveryVars PROVE HoldStands'
  OBVIOUS
<1>. USE DEF RecoveryInvariant, RecoveryTyped, HoldStands
<1>1. CASE UNCHANGED recoveryVars
  BY <1>1 DEF recoveryVars
<1>2. CASE Outside
  BY <1>2 DEF Outside, WriteSource, Damage, Drift, Move, Boot, Gate
<1>3. CASE Begin
  BY <1>3 DEF Begin, Capture, Restore, Prepare, Abort
<1>4. CASE Work
  BY <1>4 DEF Work, Inspect, Copy, Stage
<1>5. CASE Turn
  BY <1>5 DEF Turn, Listed, Copied, Seal, PlaceHold, Mark, Measured, Report
<1>. QED
  BY <1>1, <1>2, <1>3, <1>4, <1>5, Steps

\* Writers only raise the source, so the two inventories of a capture enclose one instant.
LEMMA KeepsCapture == RecoveryInvariant /\ [RecoveryNext]_recoveryVars => CaptureRises'
<1>. SUFFICES ASSUME RecoveryInvariant, [RecoveryNext]_recoveryVars PROVE CaptureRises'
  OBVIOUS
<1>. USE RecoveryBounds DEF RecoveryInvariant, RecoveryTyped, CaptureRises
<1>1. CASE UNCHANGED recoveryVars
  BY <1>1 DEF recoveryVars
<1>2. ASSUME NEW f \in File, WriteSource(f) PROVE CaptureRises'
  <2>1. \A g \in File : live[g] \in Int /\ live'[g] \in Int /\ live[g] <= live'[g]
    BY <1>2 DEF WriteSource
  <2>2. \A g \in File : instant[g] \in Int /\ seen[g] \in Int
    BY DEF Contents, Content
  <2>. QED
    BY <1>2, <2>1, <2>2 DEF WriteSource
<1>3. ASSUME NEW f \in File, Damage(f) \/ Drift(f) PROVE CaptureRises'
  BY <1>3 DEF Damage, Drift
<1>4. CASE Move \/ Boot \/ Begin
  BY <1>4 DEF Move, Boot, Begin, Capture, Restore, Prepare, Abort
<1>5. ASSUME NEW f \in File, Inspect(f) PROVE CaptureRises'
  <2>1. \A g \in File : live[g] \in Int /\ seen[g] \in Int /\ instant[g] \in Int
    BY DEF Contents, Content
  <2>2. DOMAIN seen = File
    BY DEF Contents
  <2>3. CASE op = "list"
    BY <1>5, <2>1, <2>2, <2>3 DEF Inspect, Now
  <2>4. CASE op = "recheck"
    BY <1>5, <2>1, <2>2, <2>4 DEF Inspect, Now
  <2>5. CASE op \in Preparing
    BY <1>5, <2>5 DEF Inspect
  <2>. QED
    BY <1>5, <2>3, <2>4, <2>5 DEF Inspect
<1>6. ASSUME NEW f \in File, Copy(f) \/ Stage(f) PROVE CaptureRises'
  BY <1>6 DEF Copy, Stage
<1>7. CASE Turn
  <2>1. CASE Listed \/ Copied
    BY <2>1 DEF Listed, Copied
  <2>2. CASE Seal
    <3>1. \A g \in File : base[g] \in Int /\ seen[g] \in Int /\ instant[g] \in Int
      BY DEF Contents, Content
    <3>2. \A g \in File : base[g] = instant[g]
      BY <2>2, <3>1 DEF Seal, Same
    <3>3. base = instant
      BY <3>2 DEF Contents
    <3>. QED
      BY <2>2, <3>3 DEF Seal
  <2>3. CASE PlaceHold \/ Mark \/ Measured \/ Report
    BY <2>3 DEF PlaceHold, Mark, Measured, Report
  <2>. QED
    BY <1>7, <2>1, <2>2, <2>3 DEF Turn
<1>. QED
  BY <1>1, <1>2, <1>3, <1>4, <1>5, <1>6, <1>7, Steps DEF Outside, Work

\* Nobody but the restore touches a staging that is not marked as restored yet.
LEMMA KeepsStaging == RecoveryInvariant /\ [RecoveryNext]_recoveryVars => StagingMatches'
<1>. SUFFICES ASSUME RecoveryInvariant, [RecoveryNext]_recoveryVars PROVE StagingMatches'
  OBVIOUS
<1>. USE DEF RecoveryInvariant, RecoveryTyped, StagingMatches
<1>1. CASE UNCHANGED recoveryVars
  BY <1>1 DEF recoveryVars
<1>2. CASE Outside
  BY <1>2 DEF Outside, WriteSource, Damage, Drift, Move, Boot
<1>3. CASE Begin
  BY <1>3 DEF Begin, Capture, Restore, Prepare, Abort
<1>4. ASSUME NEW f \in File, Inspect(f) \/ Copy(f) PROVE StagingMatches'
  BY <1>4 DEF Inspect, Copy
<1>5. ASSUME NEW f \in File, Stage(f) PROVE StagingMatches'
  BY <1>5 DEF Stage
<1>6. CASE PlaceHold
  BY <1>6 DEF PlaceHold, Empty
<1>7. CASE Listed \/ Copied \/ Mark \/ Measured \/ Report
  BY <1>7 DEF Listed, Copied, Mark, Measured, Report
<1>8. CASE Seal
  BY <1>8 DEF Seal
<1>. QED
  BY <1>1, <1>2, <1>3, <1>4, <1>5, <1>6, <1>7, <1>8, Steps DEF Work, Turn

\* Drifts only raise the staging, and leave its database alone during the transaction.
LEMMA KeepsPreparation == RecoveryInvariant /\ [RecoveryNext]_recoveryVars => PreparationRises'
<1>. SUFFICES ASSUME RecoveryInvariant, [RecoveryNext]_recoveryVars PROVE PreparationRises'
  OBVIOUS
<1>. USE RecoveryBounds DEF RecoveryInvariant, RecoveryTyped, PreparationRises
<1>1. CASE UNCHANGED recoveryVars
  BY <1>1 DEF recoveryVars, Private
<1>2. ASSUME NEW f \in File, WriteSource(f) \/ Damage(f) PROVE PreparationRises'
  BY <1>2 DEF WriteSource, Damage, Private
<1>3. ASSUME NEW f \in File, Drift(f) PROVE PreparationRises'
  <2>1. \A g \in File : staged[g] \in Int /\ staged'[g] \in Int /\ staged[g] <= staged'[g]
    BY <1>3 DEF Drift, Content
  <2>2. \A g \in File : instant[g] \in Int /\ seen[g] \in Int
    BY DEF Contents, Content
  <2>3. op \in Preparing => staged'[Db] = staged[Db] /\ approvals' = approvals
    BY <1>3 DEF Drift
  <2>4. Private \subseteq File
    BY DEF Private
  <2>. QED
    BY <1>3, <2>1, <2>2, <2>3, <2>4 DEF Drift
<1>4. CASE Move \/ Boot \/ Begin
  BY <1>4 DEF Move, Boot, Begin, Capture, Restore, Prepare, Abort, Private
<1>5. ASSUME NEW f \in File, Inspect(f) PROVE PreparationRises'
  <2>1. \A g \in File : staged[g] \in Int /\ seen[g] \in Int /\ instant[g] \in Int
    BY DEF Contents, Content
  <2>2. DOMAIN seen = File /\ Private \subseteq File
    BY DEF Contents, Private
  <2>3. CASE op = "measure"
    BY <1>5, <2>1, <2>2, <2>3 DEF Inspect, Now
  <2>4. CASE op = "remeasure"
    BY <1>5, <2>1, <2>2, <2>4 DEF Inspect, Now
  <2>5. CASE op \in Capturing
    BY <1>5, <2>5 DEF Inspect
  <2>. QED
    BY <1>5, <2>3, <2>4, <2>5 DEF Inspect
<1>6. ASSUME NEW f \in File, Copy(f) \/ Stage(f) PROVE PreparationRises'
  BY <1>6 DEF Copy, Stage
<1>7. CASE Listed \/ Copied \/ Seal \/ PlaceHold \/ Mark \/ Report
  BY <1>7 DEF Listed, Copied, Seal, PlaceHold, Mark, Report
<1>8. CASE Measured
  BY <1>8 DEF Measured, Bound, Private
<1>. QED
  BY <1>1, <1>2, <1>3, <1>4, <1>5, <1>6, <1>7, <1>8, Steps DEF Outside, Work, Turn

-----------------------------------------------------------------------------
\* The invariant is inductive: a hold before whatever is restored, and two inventories
\* around one instant, in a capture as in a preparation.
THEOREM RecoveryInvariance == RecoverySpec => []RecoveryInvariant
<1>1. RecoveryInvariant /\ [RecoveryNext]_recoveryVars => RecoveryInvariant'
  BY RecoveryKeepsTypes, KeepsHold, KeepsCapture, KeepsStaging, KeepsPreparation
     DEF RecoveryInvariant
<1>. QED
  BY <1>1, RecoveryStarts, PTL DEF RecoverySpec

\* Every reachable state is well typed.
THEOREM RecoveryTypes == RecoverySpec => []RecoveryTypeOK
<1>1. RecoveryInvariant => RecoveryTypeOK
  BY RecoveryBounds DEF RecoveryInvariant, RecoveryTyped, RecoveryTypeOK, Contents, Content
<1>. QED
  BY <1>1, RecoveryInvariance, PTL

\* Whatever died, drifted or was moved, no host boots on restored files (recovery-gate.ts).
THEOREM NothingRestoredBoots == RecoverySpec => []HeldNeverBoots
<1>1. RecoveryInvariant => HeldNeverBoots
  BY DEF RecoveryInvariant, HoldStands, HeldNeverBoots
<1>. QED
  BY <1>1, RecoveryInvariance, PTL

\* A restore that completes is the source at one instant of the capture
\* (recovery-snapshot.ts createSnapshot, restoreSnapshot).
THEOREM OneInstantRestored == RecoverySpec => RestoredIsOneInstant
<1>1. RecoveryInvariant /\ [RecoveryNext]_recoveryVars =>
         (restored' /\ ~restored => staged' = origin)
  <2>. SUFFICES ASSUME RecoveryInvariant, [RecoveryNext]_recoveryVars, restored', ~restored
                PROVE  staged' = origin
    OBVIOUS
  <2>1. Mark
    <3>1. ~UNCHANGED recoveryVars
      BY DEF recoveryVars
    <3>2. ~Outside /\ ~Begin /\ ~Work
      BY DEF Outside, WriteSource, Damage, Drift, Move, Boot, Begin, Capture, Restore, Prepare,
         Abort,
             Work, Inspect, Copy, Stage
    <3>3. ~(Listed \/ Copied \/ Seal \/ PlaceHold \/ Measured \/ Report)
      BY DEF Listed, Copied, Seal, PlaceHold, Measured, Report
    <3>. QED
      BY <3>1, <3>2, <3>3, Steps DEF Turn
  <2>2. \A f \in File : staged[f] = manifest[f]
    BY <2>1 DEF Mark, RecoveryInvariant, StagingMatches
  <2>3. staged = manifest
    BY <2>2 DEF RecoveryInvariant, RecoveryTyped, Contents
  <2>4. manifest = origin
    BY <2>1 DEF Mark, RecoveryInvariant, StagingMatches, CaptureRises
  <2>. QED
    BY <2>1, <2>3, <2>4 DEF Mark
<1>. QED
  BY <1>1, RecoveryInvariance, PTL DEF RecoverySpec, RestoredIsOneInstant

\* What a preparation reports, itself or from an earlier audit, is the staging at one
\* instant of the command (recovery-reconciliation.ts prepareRestoredState).
THEOREM ReportsHold == RecoverySpec => ReportIsTrue
<1> DEFINE True ==
       /\ ~approvals' /\ audit'.central = staged'[Db]
       /\ \A f \in Private : audit'.payload[f] = instant[f]
<1>1. RecoveryInvariant /\ [RecoveryNext]_recoveryVars => (told' # told => True)
  <2>. SUFFICES ASSUME RecoveryInvariant, [RecoveryNext]_recoveryVars, told' # told PROVE True
    OBVIOUS
  <2>1. Report
    <3>1. ~UNCHANGED recoveryVars
      BY DEF recoveryVars
    <3>2. ~Outside /\ ~Begin /\ ~Work
      BY DEF Outside, WriteSource, Damage, Drift, Move, Boot, Begin, Capture, Restore, Prepare,
         Abort,
             Work, Inspect, Copy, Stage
    <3>3. ~(Listed \/ Copied \/ Seal \/ PlaceHold \/ Mark \/ Measured)
      BY DEF Listed, Copied, Seal, PlaceHold, Mark, Measured
    <3>. QED
      BY <3>1, <3>2, <3>3, Steps DEF Turn
  <2>2. \A f \in Private : base[f] = instant[f]
    <3>1. \A f \in Private : base[f] \in Int /\ seen[f] \in Int /\ instant[f] \in Int
      BY RecoveryBounds DEF RecoveryInvariant, RecoveryTyped, Contents, Content, Private
    <3>. QED
      BY <2>1, <3>1 DEF Report, Same, RecoveryInvariant, PreparationRises
  <2>3. audit'.central = staged[Db] /\ audit'.payload = base
    BY <2>1 DEF Report, RecoveryInvariant, PreparationRises
  <2>. QED
    BY <2>1, <2>2, <2>3 DEF Report
<1>. QED
  BY <1>1, RecoveryInvariance, PTL DEF RecoverySpec, ReportIsTrue
=============================================================================
