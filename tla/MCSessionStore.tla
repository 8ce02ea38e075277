--------------------------- MODULE MCSessionStore ---------------------------
(* Small instances of SessionStore for TLC. *)
EXTENDS SessionStore, TLC

CONSTANTS MaxClock, MaxRevision

MCBodies == {[run_status |-> "succeeded"], [run_status |-> "cancelled"]}

Symmetric == Permutations(Runs) \cup Permutations(Owners) \cup Permutations(Keys)

\* The statuses that are followed further: the store treats them all alike.
MCStatuses == {"active", "cancelled"}

\* Bounds the clock and the number of revisions.
Bounded == clock <= MaxClock /\ revision <= MaxRevision /\ status \in MCStatuses
=============================================================================
