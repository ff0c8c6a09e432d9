------------------------------ MODULE Recovery ------------------------------
(***************************************************************************)
(* Backups of the host's state (recovery-snapshot.ts), their restore into a *)
(* staging directory, the preparation of what was restored                  *)
(* (recovery-reconciliation.ts), and the gate that a booting host meets     *)
(* (recovery-gate.ts).                                                      *)
(*                                                                          *)
(* One operator runs one command at a time; any may die at any step.  They  *)
(* assert that the host is stopped, which nothing enforces: files change    *)
(* under the commands.  No content comes back once it has been replaced,    *)
(* absence included: a file that appears stays.                             *)
(***************************************************************************)
EXTENDS Integers, FiniteSets

CONSTANTS
    File,           \* files in scope, but for a hold that the source may carry itself
    Db,             \* the central database
    MaxWrites,      \* bound: changes of the source
    MaxDrifts       \* bound: changes of a restored staging

ASSUME FileAssumption == Db \in File /\ IsFiniteSet(File)
ASSUME RecoveryBoundAssumption == MaxWrites \in Nat /\ MaxDrifts \in Nat

VARIABLES
    live,           \* the source: the content of every file, 0 when it is absent
    payload,        \* the snapshot's copies
    manifest,       \* its entries, which the retained digest binds
    complete,       \* the snapshot has its COMPLETE file
    staged,         \* the staging's copies
    approvals,      \* its database has approval rows
    audit,          \* its database's recovery_preparation row
    stagingHold,    \* the staging's install/data/recovery-hold.json
    restored,       \* its RESTORED.json
    moved,          \* the install directory was copied away from its RESTORED.json
    op,             \* the command at work and its step
    todo,           \* files that the step has still to visit
    seen,           \* the inventory it makes
    base,           \* the inventory it compares with
    writes, drifts,
    instant,        \* history: all files when the command's first inventory was complete
    origin,         \* history: the same of the command that completed the snapshot
    told,           \* history: turns with every report of a preparation
    ranRestored     \* history: a host booted on restored files

snapshotVars == <<payload, manifest, complete, origin>>
stagingVars == <<staged, approvals, audit, stagingHold, restored, moved>>
commandVars == <<op, todo, seen, base, instant>>
recoveryVars ==
    <<live, snapshotVars, stagingVars, commandVars, writes, drifts, told, ranRestored>>

Damaged == -1
Empty == [f \in File |-> 0]
NoAudit == [central |-> 0, payload |-> Empty]

Content == -1 .. MaxWrites + MaxDrifts + 1
Contents == [File -> Content]

RecoveryTypeOK ==
    /\ {live, payload, manifest, staged, seen, base, instant, origin} \subseteq Contents
    /\ audit \in [central : Content, payload : Contents]
    /\ {complete, approvals, stagingHold, restored, moved, told, ranRestored} \subseteq BOOLEAN
    /\ op \in {"idle", "list", "copy", "recheck", "make", "stage", "measure", "remeasure"}
    /\ todo \subseteq File
    /\ writes \in 0 .. MaxWrites /\ drifts \in 0 .. MaxDrifts

RecoveryInit ==
    /\ live \in [File -> {0, 1}]
    /\ payload = Empty /\ manifest = Empty /\ complete = FALSE /\ origin = Empty
    /\ staged = Empty /\ approvals = FALSE /\ audit = NoAudit
    /\ stagingHold = FALSE /\ restored = FALSE /\ moved = FALSE
    /\ op = "idle" /\ todo = {} /\ seen = Empty /\ base = Empty /\ instant = Empty
    /\ writes = 0 /\ drifts = 0 /\ told = FALSE /\ ranRestored = FALSE

-----------------------------------------------------------------------------
(* What happens meanwhile.                                                  *)

\* a writer of the source that was not stopped
WriteSource(f) ==
    /\ writes < MaxWrites
    /\ writes' = writes + 1
    /\ live' = [live EXCEPT ![f] = @ + 1]
    /\ UNCHANGED <<snapshotVars, stagingVars, commandVars, drifts, told, ranRestored>>

\* the backup medium loses a copy
Damage(f) ==
    /\ payload[f] # 0
    /\ payload' = [payload EXCEPT ![f] = Damaged]
    /\ UNCHANGED <<live, manifest, complete, origin, stagingVars, commandVars, writes, drifts,
                   told, ranRestored>>

\* somebody works in the restored staging; not in its database during a transaction
Drift(f) ==
    /\ restored /\ drifts < MaxDrifts
    /\ f = Db => op \notin {"measure", "remeasure"}
    /\ drifts' = drifts + 1
    /\ staged' = [staged EXCEPT ![f] = MaxWrites + 1 + drifts']
    /\ approvals' \in IF f = Db THEN BOOLEAN ELSE {approvals}
    /\ UNCHANGED <<live, snapshotVars, audit, stagingHold, restored, moved, commandVars, writes,
                   told, ranRestored>>

\* the install directory is copied elsewhere
Move ==
    /\ op = "idle" /\ stagingHold
    /\ moved' = TRUE
    /\ UNCHANGED <<live, snapshotVars, staged, approvals, audit, stagingHold, restored,
                   commandVars, writes, drifts, told, ranRestored>>

-----------------------------------------------------------------------------
(* Commands.                                                                *)

Go(step, files) == op' = step /\ todo' = files /\ seen' = Empty
End == Go("idle", {}) /\ base' = Empty /\ instant' = Empty

\* any command, anywhere: an error or the death of the process; a transaction is undone
Abort ==
    /\ op # "idle"
    /\ End
    /\ UNCHANGED <<live, snapshotVars, stagingVars, writes, drifts, told, ranRestored>>

\* the files that the inventory of the command is about
Now == IF op \in {"list", "recheck"} THEN live ELSE staged
Private == File \ {Db}

\* inventory, payloadStateDigest: one file
Inspect(f) ==
    /\ op \in {"list", "recheck", "measure", "remeasure"} /\ f \in todo
    /\ seen' = [seen EXCEPT ![f] = Now[f]]
    /\ todo' = todo \ {f}
    /\ instant' = IF op \in {"list", "measure"} /\ todo' = {} THEN Now ELSE instant
    /\ UNCHANGED <<live, snapshotVars, stagingVars, op, base, writes, drifts, told, ranRestored>>

SameMutant == TRUE

\* both inventories agree
Same == seen = base

\* createSnapshot, into a directory that did not exist
Capture ==
    /\ op = "idle" /\ ~complete
    /\ Go("list", File)
    /\ payload' = Empty
    /\ UNCHANGED <<live, manifest, complete, origin, stagingVars, base, instant, writes, drifts,
                   told, ranRestored>>

Listed ==
    /\ op = "list" /\ todo = {}
    /\ seen[Db] # 0
    /\ Go("copy", {f \in File : seen[f] # 0}) /\ base' = seen
    /\ UNCHANGED <<live, snapshotVars, stagingVars, instant, writes, drifts, told, ranRestored>>

\* copy: what was copied is measured
Copy(f) ==
    /\ op = "copy" /\ f \in todo
    /\ payload' = [payload EXCEPT ![f] = live[f]]
    /\ live[f] = base[f]
    /\ todo' = todo \ {f}
    /\ UNCHANGED <<live, manifest, complete, origin, stagingVars, op, seen, base, instant,
                   writes, drifts, told, ranRestored>>

Copied ==
    /\ op = "copy" /\ todo = {}
    /\ Go("recheck", File)
    /\ UNCHANGED <<live, snapshotVars, stagingVars, base, instant, writes, drifts, told,
                   ranRestored>>

\* the manifest is written and verified, then COMPLETE
Seal ==
    /\ op = "recheck" /\ todo = {}
    /\ Same /\ payload = base
    /\ manifest' = base /\ complete' = TRUE /\ origin' = instant
    /\ End
    /\ UNCHANGED <<live, payload, stagingVars, writes, drifts, told, ranRestored>>

\* restoreSnapshot: the payload is verified, then a staging directory is made that did not
\* exist (what is left of an earlier one is not touched any more)
Restore ==
    /\ op = "idle" /\ complete
    /\ payload = manifest
    /\ Go("make", {})
    /\ staged' = Empty /\ approvals' = FALSE /\ audit' = NoAudit
    /\ stagingHold' = FALSE /\ restored' = FALSE /\ moved' = FALSE
    /\ UNCHANGED <<live, snapshotVars, base, instant, writes, drifts, told, ranRestored>>

PlaceHoldMutant ==
    /\ op = "make"
    /\ Go("stage", {f \in File : manifest[f] # 0})
    /\ UNCHANGED <<live, snapshotVars, stagingVars, base, instant, writes, drifts, told,
                   ranRestored>>

\* "Install the hold BEFORE copying state"
PlaceHold ==
    /\ op = "make"
    /\ stagingHold' = TRUE
    /\ Go("stage", {f \in File : manifest[f] # 0})
    /\ UNCHANGED <<live, snapshotVars, staged, approvals, audit, restored, moved, base, instant,
                   writes, drifts, told, ranRestored>>

\* copy again: a copy that does not match the manifest ends the command
Stage(f) ==
    /\ op = "stage" /\ f \in todo
    /\ staged' = [staged EXCEPT ![f] = payload[f]]
    /\ approvals' \in IF f = Db THEN BOOLEAN ELSE {approvals}
    /\ todo' = todo \ {f}
    /\ op' = IF payload[f] = manifest[f] THEN op ELSE "idle"
    /\ UNCHANGED <<live, snapshotVars, audit, stagingHold, restored, moved, seen, base, instant,
                   writes, drifts, told, ranRestored>>

\* RESTORED.json
Mark ==
    /\ op = "stage" /\ todo = {}
    /\ restored' = TRUE
    /\ End
    /\ UNCHANGED <<live, snapshotVars, staged, approvals, audit, stagingHold, moved, writes,
                   drifts, told, ranRestored>>

\* prepareRestoredState: matching markers, then a transaction on the database
Prepare ==
    /\ op = "idle" /\ stagingHold /\ restored /\ ~moved
    /\ Go("measure", Private)
    /\ UNCHANGED <<live, snapshotVars, stagingVars, base, instant, writes, drifts, told,
                   ranRestored>>

BoundMutant == ~approvals /\ audit.central = staged[Db]

\* an audit that is there must be about this very state
Bound == ~approvals /\ audit.central = staged[Db] /\ audit.payload = seen

Measured ==
    /\ op = "measure" /\ todo = {}
    /\ audit # NoAudit => Bound
    /\ Go("remeasure", Private) /\ base' = seen
    /\ UNCHANGED <<live, snapshotVars, stagingVars, instant, writes, drifts, told, ranRestored>>

\* the approvals are gone and the audit is there, or neither; a repetition reports the audit
Report ==
    /\ op = "remeasure" /\ todo = {}
    /\ Same
    /\ audit' = IF audit = NoAudit THEN [central |-> staged[Db], payload |-> base] ELSE audit
    /\ approvals' = FALSE
    /\ told' = ~told
    /\ End
    /\ UNCHANGED <<live, snapshotVars, staged, stagingHold, restored, moved, writes, drifts,
                   ranRestored>>

-----------------------------------------------------------------------------
\* enforceRecoveryGate: both places of a marker
Gate == ~stagingHold /\ (moved \/ ~restored)

\* a host is started on the staging's install directory, at any time
Boot ==
    /\ Gate
    /\ ranRestored' = (ranRestored \/ staged # Empty)
    /\ UNCHANGED <<live, snapshotVars, stagingVars, commandVars, writes, drifts, told>>

RecoveryNext ==
    \/ \E f \in File : WriteSource(f) \/ Damage(f) \/ Drift(f)
    \/ Move \/ Boot \/ Abort
    \/ \E f \in File : Inspect(f) \/ Copy(f) \/ Stage(f)
    \/ Capture \/ Listed \/ Copied \/ Seal
    \/ Restore \/ PlaceHold \/ Mark
    \/ Prepare \/ Measured \/ Report

RecoverySpec == RecoveryInit /\ [][RecoveryNext]_recoveryVars

-----------------------------------------------------------------------------
(* Properties.                                                              *)

\* What a restore reports as restored is the source as it was at one instant of the capture,
\* whoever wrote meanwhile and whatever the medium lost: "Two inventories detect ordinary
\* changes during copying" (docs/host-state-recovery.md), where contents do not come back.
RestoredIsOneInstant == [][restored' /\ ~restored => staged' = origin]_recoveryVars

\* "Even a partial restore cannot boot" (recovery-snapshot.ts), nor one copied elsewhere.
HeldNeverBoots == ~ranRestored

\* A report describes the staging as it was at one instant of the command that printed it,
\* with the approvals gone, also when it repeats the audit of an earlier command ("refuses
\* stale preparation", recovery-reconciliation.test.ts).
ReportIsTrue ==
    [][told' # told =>
        /\ ~approvals' /\ audit'.central = staged'[Db]
        /\ \A f \in Private : audit'.payload[f] = instant[f]]_recoveryVars
=============================================================================
