------------------------------- MODULE Inbox -------------------------------
(***************************************************************************)
(* What a session's inbound queue promises for each message, whatever      *)
(* crashes, kills, restarts and sweeps happen underneath: a posted message  *)
(* is taken by a container, and either finished by it, or given back.  It   *)
(* is finished at most once and stays finished; it fails only because its   *)
(* script is broken or because it was given back Patience times.            *)
(***************************************************************************)
EXTENDS Naturals

CONSTANTS Msg, Patience

VARIABLES
    inbox,      \* where each message stands
    lost        \* how often it was given back, up to Patience

inboxVars == <<inbox, lost>>

Places == {"absent", "queued", "taken", "done", "failed"}

InboxInit == inbox = [m \in Msg |-> "absent"] /\ lost = [m \in Msg |-> 0]

To(m, place) == inbox'[m] = place /\ lost'[m] = lost[m]

Post(m) == inbox[m] = "absent" /\ To(m, "queued")
Take(m) == inbox[m] = "queued" /\ To(m, "taken")
Finish(m) == inbox[m] = "taken" /\ To(m, "done")
ScriptFails(m) == inbox[m] = "taken" /\ To(m, "failed")
GiveUp(m) == inbox[m] = "queued" /\ lost[m] = Patience /\ To(m, "failed")

\* the container lost the message; if that was once too often it fails at once
GiveBack(m) ==
    /\ inbox[m] = "taken"
    /\ lost'[m] = IF lost[m] < Patience THEN lost[m] + 1 ELSE lost[m]
    /\ \/ inbox'[m] = "queued"
       \/ inbox'[m] = "failed" /\ lost'[m] = Patience

Move(m) ==
    \/ To(m, inbox[m])
    \/ Post(m) \/ Take(m) \/ Finish(m) \/ ScriptFails(m) \/ GiveUp(m) \/ GiveBack(m)

\* one step moves any number of messages, each along one arrow
InboxNext ==
    /\ inbox' \in [Msg -> Places] /\ lost' \in [Msg -> 0 .. Patience]
    /\ \A m \in Msg : Move(m)

InboxSpec == InboxInit /\ [][InboxNext]_inboxVars
=============================================================================
