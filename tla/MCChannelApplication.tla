------------------------ MODULE MCChannelApplication ------------------------
(***************************************************************************)
(* Instances of ChannelApplication for TLC.                                *)
(***************************************************************************)
EXTENDS ChannelApplication, TLC

MCOwners == 1..MaxHandlers

MCKeys ==
    (Runs \X {"user", "terminal", "uncertain", "started", "terminal-state"})
    \cup (Runs \X {"recovered"} \X (0..40)) \cup Signals

\* One message, delivered at one time or at several.
OneDelivery == {[content |-> "text", at |-> 1]}

TwoDeliveries == {[content |-> "text", at |-> n] : n \in {1, 2}}

MCBodies ==
    [run_status : {"none"}, delivery : Deliveries, continues : Runs \cup {NoRun}]
    \cup [run_status : {"succeeded", "failed", "cancelled"}, unsafe : BOOLEAN]
    \cup {InvalidationBody}

MCStates == [runs : Seq(HistoryEntry), memory : MemoryState]

NoTargets == [c \in {} |-> NoRun]

Symmetric == Permutations(Procs)

Interchangeable == Permutations(Procs) \cup Permutations(Runs)

\* The clock ticks, deaths, faults, interruptions and stops of one behaviour.
MaxDisturbances == 4

Bounded ==
    clock + Dropped + faults + interrupts + Cardinality(stops) <= MaxDisturbances

\* Follows the behaviours without an archive in which every run that ends has
\* succeeded and, once a handler has left its snapshot, no handler of another
\* message does.
OneMessageAtATime ==
    /\ \A e \in Events : e.kind \notin {"error", "cancel"}
    /\ \A p \in Procs : h[p].out.kind \notin {"error", "cancel"}
    /\ archive.rev = 0
    /\ \A p, q \in Procs :
          \/ h[p].msg = h[q].msg
          \/ At(p, {"idle", "resume", "context"}) \/ At(q, {"idle", "resume", "context"})
=============================================================================
