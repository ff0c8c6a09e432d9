------------------------------ MODULE SeqSpace ------------------------------
(***************************************************************************)
(* The numbers an agent knows messages by.  Two databases hand them out:    *)
(* the host numbers the rows of messages_in, the container those of         *)
(* messages_out, and neither locks the other's table.  The agent later      *)
(* passes a number to edit_message or add_reaction, which looks it up in    *)
(* both tables (db/session-db.ts, session-manager.ts, agent-runner's        *)
(* messages-out.ts and cli/area51.ts).                                      *)
(*                                                                          *)
(* Several processes of a container write messages_out: the poll loop, the  *)
(* MCP server it starts, and the command line tool the agent runs.          *)
(***************************************************************************)
EXTENDS Integers, FiniteSets, FiniteSetsExt

CONSTANTS
    Id,         \* row ids
    Writer,     \* the container's processes that use writeMessageOut
    MaxSeq,     \* bound: no number above it is handed out
    Cli,        \* does the agent run the area51 command line tool?
    Denials,    \* does the command gate write denials into messages_out?
    Deletes     \* does the owner delete tasks from messages_in?

ASSUME IdAssumption == IsFiniteSet(Id)
ASSUME MaxSeqAssumption == MaxSeq \in Nat \ {0}
ASSUME SwitchAssumption == Cli \in BOOLEAN /\ Denials \in BOOLEAN /\ Deletes \in BOOLEAN

VARIABLES
    inSeq,          \* messages_in: a set of <<id, seq>> pairs
    outSeq,         \* messages_out
    write,          \* per writer, its write in progress: "idle", "half" or "read"
    maxOut, maxIn,  \* per writer, what it has read
    shown           \* history: the <<id, seq>> pairs the agent was given

seqTables == <<inSeq, outSeq, shown>>
writers == <<write, maxOut, maxIn>>
seqVars == <<seqTables, writers>>

Row == Id \X (1 .. MaxSeq)
Seqs(table) == {r[2] : r \in table}
Top(table) == Max({0} \cup Seqs(table))          \* COALESCE(MAX(seq), 0)
Fresh == Id \ {r[1] : r \in inSeq \cup outSeq \cup shown}

SeqTypeOK ==
    /\ inSeq \in SUBSET Row /\ outSeq \in SUBSET Row /\ shown \in SUBSET Row
    /\ write \in [Writer -> {"idle", "half", "read"}]
    /\ maxOut \in [Writer -> 0 .. MaxSeq] /\ maxIn \in [Writer -> 0 .. MaxSeq]

SeqInit ==
    /\ inSeq = {} /\ outSeq = {} /\ shown = {}
    /\ write = [w \in Writer |-> "idle"]
    /\ maxOut = [w \in Writer |-> 0] /\ maxIn = [w \in Writer |-> 0]

-----------------------------------------------------------------------------
NextEvenMutant(top) == top + 1
NextEvenZeroMutant(top) == top - (top % 2)

\* nextEvenSeq
NextEven(top) == IF top < 2 THEN 2 ELSE top + 2 - (top % 2)

\* writeMessageOut's next odd
NextOdd(top) == IF top % 2 = 0 THEN top + 1 ELSE top + 2

\* the number a container process gives next, from what it has read of both tables
OutNumber(top, other) == NextOdd(Max({top, other}))

\* insertMessage, insertTaskRow: the host is the table's only writer; the agent is
\* shown the row's number in its prompt
HostInsert(id) ==
    LET seq == NextEven(Top(inSeq))
    IN  /\ id \in Fresh /\ seq <= MaxSeq
        /\ inSeq' = inSeq \cup {<<id, seq>>}
        /\ shown' = shown \cup {<<id, seq>>}
        /\ UNCHANGED <<outSeq, writers>>

\* deleteTask
HostDelete(r) ==
    /\ Deletes /\ r \in inSeq
    /\ inSeq' = inSeq \ {r}
    /\ UNCHANGED <<outSeq, shown, writers>>

\* writeOutboundDirect: COALESCE(MAX(seq), 0) + 2 FROM messages_out, in one statement;
\* the agent is not told
Deny(id) ==
    LET seq == Top(outSeq) + 2
    IN  /\ Denials /\ id \in Fresh /\ seq <= MaxSeq
        /\ outSeq' = outSeq \cup {<<id, seq>>}
        /\ UNCHANGED <<inSeq, shown, writers>>

\* the command line tool's writeRequest: BEGIN IMMEDIATE, read both, insert
CliRequest(id) ==
    LET seq == OutNumber(Top(outSeq), Top(inSeq))
    IN  /\ Cli /\ id \in Fresh /\ seq <= MaxSeq
        /\ outSeq' = outSeq \cup {<<id, seq>>}
        /\ UNCHANGED <<inSeq, shown, writers>>

\* writeMessageOut reads MAX(seq) of its own table, ...
ReadOut(w) ==
    /\ write[w] = "idle"
    /\ write' = [write EXCEPT ![w] = "half"]
    /\ maxOut' = [maxOut EXCEPT ![w] = Top(outSeq)]
    /\ UNCHANGED <<seqTables, maxIn>>

\* ... then of the host's, ...
ReadIn(w) ==
    /\ write[w] = "half"
    /\ write' = [write EXCEPT ![w] = "read"]
    /\ maxIn' = [maxIn EXCEPT ![w] = Top(inSeq)]
    /\ UNCHANGED <<seqTables, maxOut>>

\* what w is about to insert
Planned(w) == OutNumber(maxOut[w], maxIn[w])

\* ... and inserts; seq is UNIQUE, so a number taken meanwhile makes the write throw
Insert(w, id) ==
    /\ write[w] = "read" /\ id \in Fresh /\ Planned(w) <= MaxSeq
    /\ write' = [write EXCEPT ![w] = "idle"]
    /\ IF Planned(w) \in Seqs(outSeq)
       THEN UNCHANGED <<outSeq, shown>>
       ELSE /\ outSeq' = outSeq \cup {<<id, Planned(w)>>}
            /\ shown' = shown \cup {<<id, Planned(w)>>}
    /\ UNCHANGED <<inSeq, maxOut, maxIn>>

SeqNext ==
    \/ \E id \in Id : HostInsert(id) \/ Deny(id) \/ CliRequest(id)
    \/ \E w \in Writer, id \in Id : Insert(w, id)
    \/ \E w \in Writer : ReadOut(w) \/ ReadIn(w)
    \/ \E r \in Row : HostDelete(r)

SeqSpec == SeqInit /\ [][SeqNext]_seqVars

-----------------------------------------------------------------------------
\* getMessageIdBySeq, getRoutingBySeq: messages_in first, then messages_out
Resolve(seq) ==
    LET table == IF seq \in Seqs(inSeq) THEN inSeq ELSE outSeq
    IN  {r[1] : r \in {x \in table : x[2] = seq}}

-----------------------------------------------------------------------------
(* Properties.                                                              *)

\* What the agent edits or reacts to is the message it was given the number of, as
\* long as that row exists: "if inbound and outbound could share a seq, the agent's
\* edit message #5 could resolve to the wrong row" (messages-out.ts).  It holds although
\* denials do share numbers with messages_in.
NumbersNameRows ==
    \A r \in shown : r \in inSeq \cup outSeq => Resolve(r[2]) = {r[1]}

-----------------------------------------------------------------------------
(* Said of the code by comments or documents, and refuted by TLC: no run    *)
(* claims what follows (README.md, "Disagreements met").                    *)

\* No write of the container runs into a number somebody else took: the denial's "even
\* host seq stays out of the container's odd-seq space" (session-manager.ts), and BEGIN
\* IMMEDIATE is there for "preventing seq collisions with concurrent agent-runner
\* writes" (agent-runner's cli/area51.ts).
WritesLand == \A w \in Writer : write[w] = "read" => Planned(w) \notin Seqs(outSeq)
=============================================================================
