---------------------------- MODULE MCSessionQueue ----------------------------
(* The session queue with a bound on what follows a stop that fails.         *)
EXTENDS SessionQueue

(* Once a stop has failed: two messages, one after the other, and no retries. *)
LeftBound ==
    left # {} =>
        LET written == {m \in Msg : status[m] # "absent"}
        IN /\ Cardinality(written) <= 2
           /\ Cardinality({m \in written : status[m] \notin Settled}) <= 1
           /\ \A m \in Msg : tries[m] = 0
=============================================================================
