----------------------------- MODULE SandboxLease -----------------------------
(***************************************************************************)
(* DockerSandboxBackend: the lease a container is started under, its       *)
(* removal, the quarantine of a cleanup that is uncertain, and             *)
(* reconciliation, against SQLiteSandboxQuarantineStore and the Docker     *)
(* daemon.                                                                 *)
(*                                                                         *)
(* A request is named by its container.  Concurrent requests have          *)
(* different names; a finished one may be issued again.  One process owns  *)
(* the deployment's rows; it may die at any point and start again.         *)
(***************************************************************************)
EXTENDS Naturals, FiniteSets

CONSTANTS
    Names,  \* container names
    NoName  \* "no container is being reconciled"

ASSUME NoNameAssumption == NoName \notin Names

VARIABLES
    rows,         \* stored rows: "none", "leased" by the live owner token, "stale"
    quarantined,  \* _quarantined, in memory
    loaded,       \* _quarantine_loaded: "no", "yes", or "error"
    containers,   \* containers the daemon has (external)
    calls,        \* where each request is
    todo,         \* names the running reconciliation still has to handle
    verified      \* the name it has seen to be absent and not yet cleared

sandboxVars == <<rows, quarantined, loaded, containers, calls, todo, verified>>

Persisted == {n \in Names : rows[n] # "none"}

SandboxInit ==
    /\ rows = [n \in Names |-> "none"]
    /\ quarantined = {} /\ loaded = "no"
    /\ containers = {}
    /\ calls = [n \in Names |-> "idle"]
    /\ todo = {} /\ verified = NoName

Go(n, pc) == calls' = [calls EXCEPT ![n] = pc]

SetRow(n, row) == rows' = [rows EXCEPT ![n] = row]

\* Mutant: what an earlier process left behind is not read.
LoadQuarantineEmpty ==
    /\ loaded = "no"
    /\ loaded' = "yes"
    /\ UNCHANGED <<rows, quarantined, containers, calls, todo, verified>>

\* _ensure_quarantine_loaded: everything persisted is quarantined.
LoadQuarantine ==
    /\ loaded = "no"
    /\ \/ loaded' = "yes" /\ quarantined' = quarantined \cup Persisted
       \/ loaded' = "error" /\ UNCHANGED quarantined
    /\ UNCHANGED <<rows, containers, calls, todo, verified>>

\* run and open_session: availability() is asked before the lease is taken.
Start(n) ==
    /\ calls[n] = "idle"
    /\ loaded = "yes" /\ quarantined = {}
    /\ Go(n, "lease")
    /\ UNCHANGED <<rows, quarantined, loaded, containers, todo, verified>>

\* _record_active_lease.  A row of any owner refuses the start; a claim that
\* raises quarantines the name.
RecordLease(n) ==
    /\ calls[n] = "lease"
    /\ \/ rows[n] = "none" /\ SetRow(n, "leased") /\ Go(n, "run") /\ UNCHANGED quarantined
       \/ rows[n] # "none" /\ Go(n, "idle") /\ UNCHANGED <<rows, quarantined>>
       \/ quarantined' = quarantined \cup {n} /\ Go(n, "mark") /\ UNCHANGED rows
    /\ UNCHANGED <<loaded, containers, todo, verified>>

\* The daemon creates the container of a docker run (external).
Create(n) ==
    /\ calls[n] = "run" /\ n \notin containers
    /\ containers' = containers \cup {n}
    /\ UNCHANGED <<rows, quarantined, loaded, calls, todo, verified>>

\* docker run --rm exits with 0: the container is gone.
Exited(n) ==
    /\ calls[n] = "run" /\ n \in containers
    /\ containers' = containers \ {n}
    /\ Go(n, "clear")
    /\ UNCHANGED <<rows, quarantined, loaded, todo, verified>>

\* The command fails, times out or is cancelled, or a session is closed.
Aborted(n) ==
    /\ calls[n] = "run"
    /\ Go(n, "remove")
    /\ UNCHANGED <<rows, quarantined, loaded, containers, todo, verified>>

\* Mutant: the exit code of docker rm is not looked at.
ForceRemoveUnchecked(n) ==
    /\ calls[n] = "remove"
    /\ containers' \in {containers, containers \ {n}}
    /\ Go(n, "clear")
    /\ UNCHANGED <<rows, quarantined, loaded, todo, verified>>

\* _force_remove: a failed docker rm may or may not have removed it.
ForceRemove(n) ==
    /\ calls[n] = "remove"
    /\ \/ containers' = containers \ {n} /\ Go(n, "clear") /\ UNCHANGED quarantined
       \/ /\ containers' \in {containers, containers \ {n}}
          /\ quarantined' = quarantined \cup {n}
          /\ Go(n, "mark")
    /\ UNCHANGED <<rows, loaded, todo, verified>>

\* _clear_persisted_lease, by owner token.
ClearLease(n) ==
    /\ calls[n] = "clear"
    /\ \/ rows[n] = "leased" /\ SetRow(n, "none") /\ Go(n, "idle") /\ UNCHANGED quarantined
       \/ /\ rows[n] # "leased" /\ UNCHANGED rows
          /\ quarantined' = quarantined \cup {n} /\ Go(n, "mark")
       \/ quarantined' = quarantined \cup {n} /\ Go(n, "idle") /\ UNCHANGED rows
    /\ UNCHANGED <<loaded, containers, todo, verified>>

\* The store half of _quarantine; its failure is only logged.
Mark(n) ==
    /\ calls[n] = "mark"
    /\ SetRow(n, "stale") \/ UNCHANGED rows
    /\ Go(n, "idle")
    /\ UNCHANGED <<quarantined, loaded, containers, todo, verified>>

\* reconcile_cleanup takes the quarantined names ...
Reconcile ==
    /\ loaded = "yes" /\ todo = {} /\ verified = NoName
    /\ todo' = quarantined
    /\ UNCHANGED <<rows, quarantined, loaded, containers, calls, verified>>

\* ... removes each if it is there and sees that it is absent, or gives up ...
ReconcileInspect(n) ==
    /\ n \in todo /\ verified = NoName
    /\ \/ n \notin containers /\ verified' = n /\ UNCHANGED <<containers, todo>>
       \/ n \in containers /\ containers' = containers \ {n} /\ verified' = n /\ UNCHANGED todo
       \/ /\ containers' \in {containers, containers \ {n}}
          /\ todo' = {} /\ UNCHANGED verified
    /\ UNCHANGED <<rows, quarantined, loaded, calls>>

\* ... and clears its row, whoever owns it, and its quarantine.
ReconcileClear ==
    /\ verified # NoName
    /\ \/ /\ SetRow(verified, "none")
          /\ quarantined' = quarantined \ {verified}
          /\ todo' = todo \ {verified}
       \/ todo' = {} /\ UNCHANGED <<rows, quarantined>>
    /\ verified' = NoName
    /\ UNCHANGED <<loaded, containers, calls>>

\* The process dies and starts again; a docker run it had issued may still
\* create its container, and no lease has a live owner any more.
Die ==
    /\ \E late \in SUBSET {n \in Names : calls[n] = "run"} : containers' = containers \cup late
    /\ rows' = [n \in Names |-> IF rows[n] = "leased" THEN "stale" ELSE rows[n]]
    /\ calls' = [n \in Names |-> "idle"]
    /\ quarantined' = {} /\ loaded' = "no"
    /\ todo' = {} /\ verified' = NoName

SandboxNext ==
    \/ \E n \in Names :
          \/ Start(n) \/ RecordLease(n) \/ Create(n) \/ Exited(n) \/ Aborted(n)
          \/ ForceRemove(n) \/ ClearLease(n) \/ Mark(n) \/ ReconcileInspect(n)
    \/ LoadQuarantine \/ Reconcile \/ ReconcileClear \/ Die

SandboxSpec == SandboxInit /\ [][SandboxNext]_sandboxVars

(***************************************************************************)
(* Properties.                                                             *)
(***************************************************************************)
SandboxTypeOK ==
    /\ rows \in [Names -> {"none", "leased", "stale"}]
    /\ quarantined \subseteq Names /\ loaded \in {"no", "yes", "error"}
    /\ containers \subseteq Names
    /\ calls \in [Names -> {"idle", "lease", "run", "remove", "clear", "mark"}]
    /\ todo \subseteq Names /\ verified \in Names \cup {NoName}

\* Every container the daemon has is named by a row, whenever the process dies
\* and whatever removal or store write fails: the next process can find it.
NoOrphan == containers \subseteq Persisted

\* A container that no request is attending to keeps the backend closed: its
\* name is quarantined, or the quarantine has yet to be loaded.
FailClosed ==
    \A n \in containers : calls[n] = "idle" => loaded # "yes" \/ n \in quarantined
==============================================================================
