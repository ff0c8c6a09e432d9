----------------------------- MODULE TaskSeries -----------------------------
(***************************************************************************)
(* A task series in its isolated session: the kind='task' rows of one       *)
(* inbound.db (modules/scheduling/db.ts), the commands of area51 tasks, the *)
(* runs of the container, and the steps of the host sweep that sync, reset, *)
(* re-arm (recurrence.ts) and close the session.                            *)
(*                                                                          *)
(* Rows are numbered by their seq.  Commands run in the host process and    *)
(* come between two steps of a sweep, never inside one; commands select     *)
(* active sessions (--session, which can name a closed one, is left out).   *)
(* Times are left out: a pending row may be due.                            *)
(***************************************************************************)
EXTENDS Integers, Sequences, FiniteSets

CONSTANTS
    FailCap,        \* SCRIPT_FAIL_PAUSE_CAP
    MaxRows,        \* bound: rows, with the successors that runs in hand may get
    MaxFaults       \* bound: statements of a re-arm that fail, and deaths of the host amid one

ASSUME BoundAssumption ==
    FailCap \in Nat \ {0} /\ MaxRows \in Nat \ {0} /\ MaxFaults \in Nat

VARIABLES
    rows,       \* the series, as [status, rec: has a recurrence, ack: in processing_ack]
    session,    \* "active" or "closed"
    running,    \* a container is running
    read,       \* the rows it has read to run, and not claimed yet
    sweep,      \* the sweep of the session: "idle", "synced", "checked"
    faults,
    \* history: two rows were armed, by a torn re-arm or an update; the last command that
    \* stopped the series left a successor to come ("busy") or none ("idle"); failed runs of
    \* armed rows without a success, a resume or a new recurrence; the session was closed by a
    \* sweep that failed to re-arm a row
    forked, stopped, burn, ended

history == <<forked, stopped, burn, ended>>
vars == <<rows, session, running, read, sweep, faults, history>>

Row == [status : {"pending", "paused", "completed", "failed", "cancelled"},
        rec : BOOLEAN, ack : {"none", "processing", "completed", "error"}]

TypeOK ==
    /\ rows \in Seq(Row) /\ Len(rows) <= MaxRows
    /\ session \in {"active", "closed"} /\ running \in BOOLEAN
    /\ read \subseteq DOMAIN rows /\ (read # {} => running)
    /\ \A i \in read : rows[i].ack = "none"
    /\ sweep \in {"idle", "synced", "checked"}
    /\ faults \in 0 .. MaxFaults
    /\ forked \in BOOLEAN /\ stopped \in {"no", "busy", "idle"} /\ burn \in Nat
    /\ ended \in BOOLEAN
    /\ \A i \in DOMAIN rows : rows[i].status = "cancelled" => ~rows[i].rec

\* createScheduledTask: recurring or one-shot, pending or (from a template) paused
Init ==
    /\ \E status \in {"pending", "paused"}, rec \in BOOLEAN :
          rows = <<[status |-> status, rec |-> rec, ack |-> "none"]>>
    /\ session = "active" /\ running = FALSE /\ read = {} /\ sweep = "idle"
    /\ faults = 0
    /\ forked = FALSE /\ stopped = "no" /\ burn = 0 /\ ended = FALSE

-----------------------------------------------------------------------------
Live(row) == row.status \in {"pending", "paused"}
Finished(row) == row.status \in {"completed", "failed"}

Armed(s) == {i \in DOMAIN s : s[i].rec}
LiveRows(s) == {i \in DOMAIN s : Live(s[i])}

\* claimed, or answered and not synced yet
InHand(row) == Live(row) /\ row.ack # "none"

\* the rows whose runs are over, in hand or about to be claimed, which may get a successor
ToCome == {i \in DOMAIN rows : \/ Finished(rows[i]) /\ rows[i].rec
                               \/ InHand(rows[i])
                               \/ Live(rows[i]) /\ i \in read}

\* the bound: room for one more row beside the successors to come
Room == Len(rows) + Cardinality(ToCome) < MaxRows

RecurringMutant(s) == {i \in DOMAIN s : s[i].status = "completed" /\ s[i].rec}

\* getCompletedRecurring
Recurring(s) == {i \in DOMAIN s : Finished(s[i]) /\ s[i].rec}

StreakMutant(s) == Cardinality({i \in DOMAIN s : s[i].status = "failed" /\ s[i].rec})

\* trailingFailedRuns: the finished rows after the last completed one
Streak(s) ==
    Cardinality({i \in DOMAIN s :
        /\ s[i].status = "failed"
        /\ \A j \in DOMAIN s : j > i => s[j].status # "completed"})

-----------------------------------------------------------------------------
(* The container.                                                           *)

\* wakeContainer, for due rows; the container clears the claims of its predecessor
Spawn ==
    /\ ~running /\ session = "active"
    /\ \E i \in DOMAIN rows : rows[i].status = "pending" /\ rows[i].ack \in {"none", "processing"}
    /\ running' = TRUE
    /\ rows' = [i \in DOMAIN rows |->
                  IF rows[i].ack = "processing" THEN [rows[i] EXCEPT !.ack = "none"]
                                                ELSE rows[i]]
    /\ UNCHANGED <<session, read, sweep, faults, history>>

\* getPendingMessages: due rows that have no ack
Read ==
    /\ running /\ read = {}
    /\ read' \in SUBSET {i \in DOMAIN rows : rows[i].status = "pending" /\ rows[i].ack = "none"}
    /\ read' # {}
    /\ Len(rows) + Cardinality(ToCome \cup read') <= MaxRows
    /\ UNCHANGED <<rows, session, running, sweep, faults, history>>

\* markProcessing, in the other database: whatever has become of the rows since
Claim ==
    /\ read # {} /\ read' = {}
    /\ rows' = [i \in DOMAIN rows |-> IF i \in read THEN [rows[i] EXCEPT !.ack = "processing"]
                                                   ELSE rows[i]]
    /\ UNCHANGED <<session, running, sweep, faults, history>>

\* the turn is over, or its pre-task script failed (script-skip:error)
Answer(i) ==
    /\ running /\ read = {} /\ rows[i].ack = "processing"
    /\ \E ack \in {"completed", "error"} : rows' = [rows EXCEPT ![i].ack = ack]
    /\ UNCHANGED <<session, running, read, sweep, faults, history>>

\* it stops, is killed, or dies: claims stay
Exit ==
    /\ running
    /\ running' = FALSE /\ read' = {}
    /\ UNCHANGED <<rows, session, sweep, faults, history>>

-----------------------------------------------------------------------------
(* The host sweep.                                                          *)

\* a success ends the count of failures; a failure counts when the row is armed, and no row
\* that was asked for after it has succeeded before
Burn(new) ==
    LET done == {i \in DOMAIN rows : ~Finished(rows[i]) /\ Finished(new[i])}
        overtaken(i) == \E j \in DOMAIN new : j > i /\ new[j].status = "completed"
    IN burn' = IF \E i \in done : new[i].status = "completed" THEN 0
               ELSE burn + Cardinality({i \in done : rows[i].rec /\ ~overtaken(i)})

\* step 1, syncProcessingAcks: an answer overwrites whatever a command has made of the row
SweepSync ==
    /\ sweep = "idle" /\ session = "active"
    /\ rows' = [i \in DOMAIN rows |->
                  IF Finished(rows[i]) THEN rows[i]
                  ELSE CASE rows[i].ack = "completed" -> [rows[i] EXCEPT !.status = "completed"]
                         [] rows[i].ack = "error" -> [rows[i] EXCEPT !.status = "failed"]
                         [] OTHER -> rows[i]]
    /\ Burn(rows')
    /\ sweep' = "synced"
    /\ UNCHANGED <<session, running, read, faults, forked, stopped, ended>>

\* steps 2 to 4: the wake is awaited (Spawn); with no container the claims left behind are
\* retried or, their tries used up, failed, and deleted
SweepReset ==
    /\ sweep = "synced"
    /\ sweep' = "checked"
    /\ \E spent \in SUBSET {i \in DOMAIN rows :
                               rows[i].ack = "processing" /\ rows[i].status = "pending"} :
          rows' = IF running THEN rows
                  ELSE [i \in DOMAIN rows |->
                          [status |-> IF i \in spent THEN "failed" ELSE rows[i].status,
                           rec |-> rows[i].rec,
                           ack |-> IF rows[i].ack = "processing" THEN "none" ELSE rows[i].ack]]
    /\ Burn(rows')
    /\ UNCHANGED <<session, running, read, faults, forked, stopped, ended>>

\* insertRecurrence, paused after too many failures
Successor(s) == [status |-> IF Streak(s) >= FailCap THEN "paused" ELSE "pending",
                 rec |-> TRUE, ack |-> "none"]

ClearedMutant(s, cleared) == s

\* clearRecurrence
Cleared(s, cleared) ==
    [i \in DOMAIN s |-> IF i \in cleared THEN [s[i] EXCEPT !.rec = FALSE] ELSE s[i]]

\* the loop of handleRecurrence, which inserts a successor for the rows of fed: none of them
\* changes the count of failures, so each is like the first
Fanout(s, fed, cleared) ==
    Cleared(s, cleared) \o [k \in 1 .. Cardinality(fed) |-> Successor(s)]

\* no live task row is left
Spent(s) == LiveRows(s) = {}

\* steps 5 and 6: handleRecurrence, and the close of a spent session.  The loop catches what
\* fails for a row: the cron or the insert, which leaves the row as it was, or the clear,
\* which leaves two rows armed.  The sweep goes on.
SweepRecur ==
    /\ sweep = "checked"
    /\ \E fed \in SUBSET Recurring(rows) : \E cleared \in SUBSET fed :
          /\ faults' = faults + Cardinality(Recurring(rows) \ cleared) /\ faults' <= MaxFaults
          /\ Len(rows) + Cardinality(ToCome) + Cardinality(fed \ cleared) <= MaxRows
          /\ rows' = Fanout(rows, fed, cleared)
          /\ forked' = (forked \/ cleared # fed)
          /\ session' = IF ~running /\ Spent(rows') THEN "closed" ELSE session
          /\ ended' = (ended \/ (session' = "closed" /\ fed # Recurring(rows)))
    /\ sweep' = "idle"
    /\ UNCHANGED <<running, read, stopped, burn>>

\* the sweep throws at one of its later steps; the next tick begins again
SweepThrows ==
    /\ sweep # "idle"
    /\ sweep' = "idle"
    /\ UNCHANGED <<rows, session, running, read, faults, history>>

\* the host dies between insertRecurrence and clearRecurrence, and takes its containers along
SweepTears ==
    /\ sweep = "checked" /\ faults < MaxFaults /\ Room
    /\ faults' = faults + 1
    /\ Recurring(rows) # {} /\ rows' = Append(rows, Successor(rows))
    /\ forked' = TRUE
    /\ running' = FALSE /\ read' = {} /\ sweep' = "idle"
    /\ UNCHANGED <<session, stopped, burn, ended>>

-----------------------------------------------------------------------------
(* The commands of area51 tasks.                                            *)

\* a command that stops the series stops it for good when it leaves no successor to come
Stopped == stopped' = IF ToCome' = {} THEN "idle" ELSE "busy"

CancelMutant ==
    /\ session = "active" /\ LiveRows(rows) # {}
    /\ rows' = [i \in DOMAIN rows |->
                  IF Live(rows[i]) THEN [rows[i] EXCEPT !.status = "cancelled"] ELSE rows[i]]
    /\ UNCHANGED <<session, running, read, sweep, faults, forked, burn, ended>>
    /\ Stopped

\* cancelTask
Cancel ==
    /\ session = "active" /\ LiveRows(rows) # {}
    /\ rows' = [i \in DOMAIN rows |->
                  IF Live(rows[i]) THEN [rows[i] EXCEPT !.status = "cancelled", !.rec = FALSE]
                                   ELSE rows[i]]
    /\ UNCHANGED <<session, running, read, sweep, faults, forked, burn, ended>>
    /\ Stopped

\* pauseTask
Pause ==
    /\ session = "active"
    /\ \E i \in DOMAIN rows : rows[i].status = "pending"
    /\ rows' = [i \in DOMAIN rows |->
                  IF rows[i].status = "pending" THEN [rows[i] EXCEPT !.status = "paused"]
                                                ELSE rows[i]]
    /\ UNCHANGED <<session, running, read, sweep, faults, forked, burn, ended>>
    /\ Stopped

\* resumeTask
Resume ==
    /\ session = "active"
    /\ \E i \in DOMAIN rows : rows[i].status = "paused"
    /\ rows' = [i \in DOMAIN rows |->
                  IF rows[i].status = "paused" THEN [rows[i] EXCEPT !.status = "pending"]
                                               ELSE rows[i]]
    /\ stopped' = "no" /\ burn' = 0
    /\ UNCHANGED <<session, running, read, sweep, faults, forked, ended>>

\* updateTask --recurrence: every live row, an extra run included
SetRecurrence(rec) ==
    /\ session = "active" /\ LiveRows(rows) # {}
    /\ rows' = [i \in DOMAIN rows |->
                  IF Live(rows[i]) THEN [rows[i] EXCEPT !.rec = rec]
                                   ELSE rows[i]]
    /\ forked' = (forked \/ Cardinality(Armed(rows')) > 1)
    /\ burn' = 0
    /\ UNCHANGED <<session, running, read, sweep, faults, stopped, ended>>

\* runTaskCommand: an extra run, which is never re-armed
RunNow ==
    /\ session = "active" /\ rows # <<>> /\ Room
    /\ rows' = Append(rows, [status |-> "pending", rec |-> FALSE, ack |-> "none"])
    /\ stopped' = "no"
    /\ UNCHANGED <<session, running, read, sweep, faults, forked, burn, ended>>

\* deleteTask: the series and its history; what the container has in hand runs on, with no row
DeleteTask ==
    /\ session = "active" /\ rows # <<>>
    /\ rows' = <<>> /\ read' = {}
    /\ stopped' = "idle"
    /\ UNCHANGED <<session, running, sweep, faults, forked, burn, ended>>

-----------------------------------------------------------------------------
Sweep == SweepSync \/ SweepReset \/ SweepRecur

Command ==
    \/ Cancel \/ Pause \/ Resume \/ RunNow \/ DeleteTask
    \/ \E rec \in BOOLEAN : SetRecurrence(rec)

Next ==
    \/ Spawn \/ Read \/ Claim \/ Exit
    \/ \E i \in DOMAIN rows : Answer(i)
    \/ Sweep \/ SweepThrows \/ SweepTears
    \/ Command

Spec == Init /\ [][Next]_vars

\* the sweep comes round every minute, and does not throw at the same step for ever
FairSpec == Spec /\ WF_vars(SweepSync) /\ SF_vars(SweepReset) /\ SF_vars(SweepRecur)

-----------------------------------------------------------------------------
(* Properties.                                                              *)

\* "a run-now row must not be re-armed by handleRecurrence into a phantom series"
\* (cli/resources/tasks.ts): a series is armed once.  A crash between the two statements of
\* a re-arm, an error of the second, and an update of the recurrence while an extra run waits
\* are the exceptions.
OneArmed == forked \/ Cardinality(Armed(rows)) <= 1

\* A broken script does not wake containers for ever: without a success, a resume or a new
\* recurrence in between, an armed series fails FailCap times at most (recurrence.ts).
FailuresAreCapped == forked \/ burn <= FailCap

\* A cancel, or a pause that finds no row in hand or just read, holds unless the armed row has
\* finished and still waits for its successor: until a command says so no row is taken up for
\* a run, whatever the sweep and the container were doing at the time.
StopHolds == [][stopped = "idle" => read' \subseteq read]_vars

\* "a broken monitor must keep its series alive" (db.ts): an occurrence that is over, be it
\* failed, does not wait for its successor for ever, through sweeps that throw and re-arms
\* that fail; only a sweep that closes the session after its re-arm failed ends the series.
SeriesGoesOn ==
    (\E i \in Armed(rows) : Finished(rows[i]))
        ~> (ended \/ \A i \in Armed(rows) : ~Finished(rows[i]))

-----------------------------------------------------------------------------
(* Said of the code by comments or documents, and refuted by TLC: no run    *)
(* claims what follows (README.md, "Disagreements met").                    *)

\* "Pause a pending task by series id" (cli/resources/tasks.ts): the same of every stop that
\* a command reports, whatever was in hand or read.
StopsAreFinal == [][stopped # "no" => read' \subseteq read]_vars

\* "a just-fired recurring series has already re-armed its next pending row and is never
\* collected" (host-sweep.ts): an error that handleRecurrence catches comes before the close.
FiredSeriesAreKept == session = "closed" => Recurring(rows) = {}
=============================================================================
