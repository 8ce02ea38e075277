----------------------------- MODULE EventDedupe -----------------------------
(***************************************************************************)
(* Deduplication of channel events: the reservation tables of              *)
(* SQLiteChannelEventDeduplicator (or the dictionary of                    *)
(* InMemoryEventDeduplicator) and the Feishu handlers that use them.       *)
(*                                                                         *)
(* An operation reads the clock, then waits for the database lock, and     *)
(* then runs without an await to its return: a step that reads `read` and  *)
(* a later step that does the rest.  asyncio.timeout ends the work of a    *)
(* handler no later than `until`; what a cancelled handler does to unwind  *)
(* belongs to its release.                                                 *)
(***************************************************************************)
EXTENDS Naturals, FiniteSets

CONSTANTS
    Events,      \* event identifiers of one channel scope
    Tasks,       \* asyncio tasks that handle deliveries
    NoEvent,     \* "this task handles nothing"
    Lease,       \* processing_lease_seconds
    Timeout,     \* processing_timeout_seconds
    Retention,   \* ttl_seconds
    MaxEntries,  \* max_entries
    MaxLag,      \* the longest wait of a claim for the lock
    MaxTime,     \* bound: time
    MaxTokens    \* bound: claims

ASSUME DedupeAssumption ==
    /\ NoEvent \notin Events
    /\ MaxLag \in Nat /\ Timeout \in Nat /\ MaxEntries \in Nat
    /\ Lease \in Nat /\ Retention \in Nat
    /\ MaxTime \in Nat /\ MaxTokens \in Nat

\* FeishuEventProcessor refuses a lease that does not exceed the timeout; the
\* margin between them has to cover the wait for the lock.
ASSUME LeaseExceedsTimeout == Lease > Timeout + MaxLag

VARIABLES
    time,        \* the clock
    processing,  \* leases: event -> [owner, expires]
    completed,   \* retained completions: event -> expiry
    tasks,       \* the handler each task runs
    tokens,      \* owner tokens drawn so far
    durable      \* which deduplicator is configured: TRUE for the SQLite one

dedupeVars == <<time, processing, completed, tasks, tokens, durable>>

Free == [pc |-> "idle", event |-> NoEvent, token |-> 0, read |-> 0, until |-> 0]

In(t, pcs) == tasks[t].pc \in pcs

Become(t, task) == tasks' = [tasks EXCEPT ![t] = task]

Only(f, S) == [x \in S |-> f[x]]

LeasedAt(now) == {e \in DOMAIN processing : processing[e].expires > now}

\* Mutant: a full table evicts its completions.
DoneAtEvicting(now) ==
    IF Cardinality(DOMAIN completed) >= MaxEntries THEN {}
    ELSE {e \in DOMAIN completed : completed[e] > now}

DoneAt(now) == {e \in DOMAIN completed : completed[e] > now}

DedupeInit ==
    /\ time = 0
    /\ processing = [e \in {} |-> 0]
    /\ completed = [e \in {} |-> 0]
    /\ tasks = [t \in Tasks |-> Free]
    /\ tokens = 0
    /\ durable \in BOOLEAN

\* process_payload up to the lock of claim.
Receive(t, e) ==
    /\ In(t, {"idle"})
    /\ Become(t, [Free EXCEPT !.pc = "claim", !.event = e, !.read = time])
    /\ UNCHANGED <<time, processing, completed, tokens>>

\* claim drops what has expired by the clock it read.  A full table raises:
\* the transaction is rolled back, the dictionary stays purged.
ClaimEvent(t) ==
    /\ In(t, {"claim"})
    /\ tokens < MaxTokens
    /\ LET e == tasks[t].event
           now == tasks[t].read
           leased == LeasedAt(now)
           done == DoneAt(now)
       IN  \/ /\ e \in leased \cup done
              /\ processing' = Only(processing, leased)
              /\ completed' = Only(completed, done)
              /\ Become(t, Free)
              /\ UNCHANGED tokens
           \/ /\ e \notin leased \cup done
              /\ Cardinality(leased) + Cardinality(done) >= MaxEntries
              /\ processing' = IF durable THEN processing ELSE Only(processing, leased)
              /\ completed' = IF durable THEN completed ELSE Only(completed, done)
              /\ Become(t, Free)
              /\ UNCHANGED tokens
           \/ /\ e \notin leased \cup done
              /\ ~(Cardinality(leased) + Cardinality(done) >= MaxEntries)
              /\ processing' = [x \in leased \cup {e} |->
                     IF x = e THEN [owner |-> tokens + 1, expires |-> now + Lease]
                     ELSE processing[x]]
              /\ completed' = Only(completed, done)
              /\ tokens' = tokens + 1
              /\ Become(t, [tasks[t] EXCEPT !.pc = "work", !.token = tokens + 1,
                                            !.read = 0, !.until = time + Timeout])
    /\ UNCHANGED time

\* The message was dispatched, or there was nothing to dispatch.
Dispatched(t) ==
    /\ In(t, {"work"})
    /\ Become(t, [tasks[t] EXCEPT !.pc = "complete", !.read = time])
    /\ UNCHANGED <<time, processing, completed, tokens>>

Owns(t) ==
    /\ tasks[t].event \in DOMAIN processing
    /\ processing[tasks[t].event].owner = tasks[t].token

\* complete; only the durable one compares the expiry.
CompleteEvent(t) ==
    /\ In(t, {"complete"})
    /\ LET e == tasks[t].event
           owned == Owns(t) /\ (durable => processing[e].expires > tasks[t].read)
       IN  \/ /\ owned
              /\ processing' = Only(processing, DOMAIN processing \ {e})
              /\ completed' = [x \in DOMAIN completed \cup {e} |->
                     IF x = e THEN tasks[t].read + Retention ELSE completed[x]]
              /\ Become(t, Free)
           \/ /\ ~owned
              /\ Become(t, [tasks[t] EXCEPT !.pc = "release"])
              /\ UNCHANGED <<processing, completed>>
    /\ UNCHANGED <<time, tokens>>

\* The dispatch raises, the task is cancelled, or the timeout ends it.
Fail(t) ==
    /\ In(t, {"work", "complete"})
    /\ Become(t, [tasks[t] EXCEPT !.pc = "release"])
    /\ UNCHANGED <<time, processing, completed, tokens>>

\* Mutant: a release deletes the row by event, not by owner.
ReleaseEventOfAny(t) ==
    /\ In(t, {"release"})
    /\ processing' = Only(processing, DOMAIN processing \ {tasks[t].event})
    /\ Become(t, Free)
    /\ UNCHANGED <<time, completed, tokens>>

ReleaseEvent(t) ==
    /\ In(t, {"release"})
    /\ processing' = IF Owns(t) THEN Only(processing, DOMAIN processing \ {tasks[t].event})
                     ELSE processing
    /\ Become(t, Free)
    /\ UNCHANGED <<time, completed, tokens>>

\* The task vanishes: its process dies, or it is cancelled while it waits to
\* claim or to release.  What it wrote stays.
Vanish(t) ==
    /\ ~In(t, {"idle"})
    /\ durable \/ In(t, {"claim", "release"})
    /\ Become(t, Free)
    /\ UNCHANGED <<time, processing, completed, tokens>>

\* A restart loses the dictionary and every task.
Restart ==
    /\ ~durable
    /\ processing' = [e \in {} |-> 0] /\ completed' = [e \in {} |-> 0]
    /\ tasks' = [t \in Tasks |-> Free]
    /\ UNCHANGED <<time, tokens>>

PurgeExpired(now) ==
    /\ durable
    /\ processing' = Only(processing, LeasedAt(now))
    /\ completed' = Only(completed, DoneAt(now))
    /\ UNCHANGED <<time, tasks, tokens>>

\* Time passes: no claim waits longer than MaxLag, no work outlasts its timeout.
Pass ==
    /\ time < MaxTime
    /\ \A t \in Tasks : In(t, {"claim"}) => time < tasks[t].read + MaxLag
    /\ \A t \in Tasks : In(t, {"work", "complete"}) => time < tasks[t].until
    /\ time' = time + 1
    /\ UNCHANGED <<processing, completed, tasks, tokens>>

DedupeNext ==
    /\ \/ \E t \in Tasks :
             \/ \E e \in Events : Receive(t, e)
             \/ ClaimEvent(t) \/ Dispatched(t) \/ CompleteEvent(t)
             \/ Fail(t) \/ ReleaseEvent(t) \/ Vanish(t)
       \/ Restart
       \/ \E now \in 0..time : PurgeExpired(now)
       \/ Pass
    /\ UNCHANGED durable

DedupeSpec == DedupeInit /\ [][DedupeNext]_dedupeVars

(***************************************************************************)
(* Properties.                                                             *)
(***************************************************************************)
DedupeTypeOK ==
    /\ time \in Nat /\ tokens \in Nat
    /\ DOMAIN processing \subseteq Events
    /\ \A e \in DOMAIN processing : processing[e] \in [owner : 1..tokens, expires : Nat]
    /\ DOMAIN completed \subseteq Events
    /\ \A e \in DOMAIN completed : completed[e] \in Nat
    /\ tasks \in [Tasks -> [pc : {"idle", "claim", "work", "complete", "release"},
                            event : Events \cup {NoEvent}, token : 0..tokens,
                            read : 0..time, until : Nat]]

\* While a handler works on an event nobody else does, and the event is not
\* recorded as done: the timeout ends the work before the lease can run out
\* and another delivery claim the event.
OneWorker ==
    \A t \in Tasks : In(t, {"work", "complete"}) =>
        /\ tasks[t].event \notin DOMAIN completed
        /\ \A u \in Tasks : In(u, {"work", "complete"}) /\ tasks[u].event = tasks[t].event => u = t

RowsKept ==
    \/ processing' = [e \in {} |-> 0] /\ completed' = [e \in {} |-> 0] /\ ~durable
    \/ /\ \A e \in DOMAIN completed : completed[e] > time =>
             e \in DOMAIN completed' /\ completed'[e] = completed[e]
       /\ \A e \in DOMAIN processing : processing[e].expires > time =>
             \/ e \in DOMAIN processing' /\ processing'[e] = processing[e]
             \/ \E t \in Tasks : /\ tasks[t].token = processing[e].owner
                                 /\ tasks[t].event = e /\ tasks'[t] # tasks[t]

\* Unless a restart loses the dictionary, a retained completion outlives every
\* claim, purge and late completion until it expires, and a lease that has not
\* expired is ended by its owner only: a late release or completion of an
\* earlier owner never touches the row of the present one.
LiveRowsKept == [][RowsKept]_dedupeVars
==============================================================================
