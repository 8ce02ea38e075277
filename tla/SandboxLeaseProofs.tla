-------------------------- MODULE SandboxLeaseProofs --------------------------
(***************************************************************************)
(* Proofs about SandboxLease for every set of container names.             *)
(***************************************************************************)
EXTENDS SandboxLease, TLAPS

\* The inductive invariant: besides the two properties, who may hold a
\* container at each point of a request and of a reconciliation.
SandboxInv ==
    /\ SandboxTypeOK /\ NoOrphan /\ FailClosed
    /\ loaded # "yes" => quarantined = {} /\ \A n \in Names : calls[n] = "idle"
    /\ \A n \in quarantined : calls[n] \in {"idle", "mark"}
    /\ \A n \in Names : calls[n] \in {"lease", "clear"} => n \notin containers
    /\ \A n \in Names : calls[n] \in {"run", "remove", "clear"} => rows[n] = "leased"
    /\ \A n \in Names : calls[n] = "mark" => n \in quarantined \/ n \notin containers
    /\ todo \subseteq quarantined
    /\ verified # NoName => verified \in quarantined /\ verified \notin containers

LEMMA SandboxInitInv == SandboxInit => SandboxInv
BY DEF SandboxInit, SandboxInv, SandboxTypeOK, NoOrphan, FailClosed, Persisted

\* Each step of a request keeps the invariant.
LEMMA RequestKeepsInv ==
    ASSUME SandboxInv, NEW n \in Names,
           \/ Start(n) \/ RecordLease(n) \/ Create(n) \/ Exited(n) \/ Aborted(n)
           \/ ForceRemove(n) \/ ClearLease(n) \/ Mark(n)
    PROVE  SandboxInv'
<1> USE NoNameAssumption
    DEF SandboxInv, SandboxTypeOK, NoOrphan, FailClosed, Persisted, Go, SetRow, NoNameAssumption
<1>1. CASE Start(n) BY <1>1 DEF Start
<1>2. CASE RecordLease(n) BY <1>2 DEF RecordLease
<1>3. CASE Create(n) BY <1>3 DEF Create
<1>4. CASE Exited(n) BY <1>4 DEF Exited
<1>5. CASE Aborted(n) BY <1>5 DEF Aborted
<1>6. CASE ForceRemove(n) BY <1>6 DEF ForceRemove
<1>7. CASE ClearLease(n) BY <1>7 DEF ClearLease
<1>8. CASE Mark(n) BY <1>8 DEF Mark
<1> QED BY <1>1, <1>2, <1>3, <1>4, <1>5, <1>6, <1>7, <1>8

\* Loading, reconciling and dying keep the invariant.
LEMMA BackendKeepsInv ==
    ASSUME SandboxInv,
           \/ \E n \in Names : ReconcileInspect(n)
           \/ LoadQuarantine \/ Reconcile \/ ReconcileClear \/ Die
    PROVE  SandboxInv'
<1> USE NoNameAssumption
    DEF SandboxInv, SandboxTypeOK, NoOrphan, FailClosed, Persisted, SetRow, NoNameAssumption
<1>1. CASE \E n \in Names : ReconcileInspect(n) BY <1>1 DEF ReconcileInspect
<1>2. CASE LoadQuarantine BY <1>2 DEF LoadQuarantine
<1>3. CASE Reconcile BY <1>3 DEF Reconcile
<1>4. CASE ReconcileClear BY <1>4 DEF ReconcileClear
<1>5. CASE Die BY <1>5 DEF Die
<1> QED BY <1>1, <1>2, <1>3, <1>4, <1>5

\* Every reachable state satisfies the inductive invariant.
THEOREM SandboxInvariant == SandboxSpec => []SandboxInv
<1>1. SandboxInv /\ [SandboxNext]_sandboxVars => SandboxInv'
  <2> SUFFICES ASSUME SandboxInv, [SandboxNext]_sandboxVars PROVE SandboxInv'
    OBVIOUS
  <2>1. CASE UNCHANGED sandboxVars
    BY <2>1 DEF sandboxVars, SandboxInv, SandboxTypeOK, NoOrphan, FailClosed, Persisted
  <2>2. CASE SandboxNext
    BY <2>2, RequestKeepsInv, BackendKeepsInv DEF SandboxNext
  <2> QED BY <2>1, <2>2
<1> QED BY <1>1, SandboxInitInv, PTL DEF SandboxSpec

\* No container is ever without a row that names it.
THEOREM NeverAnOrphan == SandboxSpec => []NoOrphan
BY SandboxInvariant, PTL DEF SandboxInv

\* A container nobody attends to keeps new requests out.
THEOREM AlwaysFailClosed == SandboxSpec => []FailClosed
BY SandboxInvariant, PTL DEF SandboxInv
==============================================================================
