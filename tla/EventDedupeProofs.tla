-------------------------- MODULE EventDedupeProofs --------------------------
(***************************************************************************)
(* Proofs about EventDedupe for every set of events and tasks, every lease *)
(* that covers the timeout and the wait for the lock, and every retention  *)
(* and capacity.                                                           *)
(***************************************************************************)
EXTENDS EventDedupe, TLAPS

Working == {"work", "complete"}

\* The inductive invariant.  The third conjunct is the argument: a working
\* task holds the row of its event, and the row expires after its timeout.
DedupeInv ==
    /\ DedupeTypeOK
    /\ DOMAIN processing \cap DOMAIN completed = {}
    /\ \A t \in Tasks : In(t, Working) =>
          /\ Owns(t)
          /\ time <= tasks[t].until
          /\ tasks[t].until < processing[tasks[t].event].expires
    /\ \A t \in Tasks : In(t, {"claim"}) =>
          /\ tasks[t].event \in Events
          /\ time <= tasks[t].read + MaxLag
    /\ \A t, u \in Tasks : tasks[t].token = tasks[u].token => t = u \/ tasks[t].token = 0

\* Initially there is no row and every task is free.
LEMMA DedupeInitInv == DedupeInit => DedupeInv
BY DEF DedupeInit, DedupeInv, DedupeTypeOK, Free, In, Working

\* A claim inserts a row that outlasts the work it admits, and what it purges
\* by its old clock no working task holds.
LEMMA ClaimKeepsInv ==
    ASSUME DedupeInv, NEW t \in Tasks, ClaimEvent(t)
    PROVE  DedupeInv'
<1> DEFINE e == tasks[t].event
           now == tasks[t].read
           leased == LeasedAt(now)
           done == DoneAt(now)
<1>1. /\ now \in Nat /\ now <= time /\ time \in Nat /\ tokens \in Nat
      /\ e \in Events /\ time <= now + MaxLag /\ time' = time
      /\ tasks[t].pc = "claim"
  BY DEF DedupeInv, DedupeTypeOK, ClaimEvent, In
<1>2. /\ leased \subseteq DOMAIN processing
      /\ done \subseteq DOMAIN completed
      /\ \A u \in Tasks : In(u, Working) => tasks[u].event \in leased
  BY <1>1 DEF DedupeInv, DedupeTypeOK, LeasedAt, DoneAt, Owns
<1>3. CASE /\ Become(t, Free) /\ tokens' = tokens
           /\ \/ processing' = Only(processing, leased)
              \/ processing' = processing
           /\ \/ completed' = Only(completed, done)
              \/ completed' = completed
  <2>1. tasks' = [tasks EXCEPT ![t] = Free]
    BY <1>3 DEF Become
  <2>2. /\ DOMAIN processing' \subseteq DOMAIN processing
        /\ \A x \in DOMAIN processing' : processing'[x] = processing[x]
        /\ DOMAIN completed' \subseteq DOMAIN completed
        /\ \A x \in DOMAIN completed' : completed'[x] = completed[x]
    BY <1>2, <1>3 DEF Only
  <2>3. DedupeTypeOK'
    BY <1>1, <1>3, <2>1, <2>2 DEF DedupeInv, DedupeTypeOK, Free
  <2>4. \A u \in Tasks : In(u, Working)' =>
           /\ In(u, Working) /\ tasks'[u] = tasks[u]
           /\ tasks[u].event \in DOMAIN processing'
    BY <1>2, <1>3, <2>1 DEF DedupeInv, DedupeTypeOK, In, Working, Free, Only, Owns
  <2>5. \A u \in Tasks : In(u, {"claim"})' => In(u, {"claim"}) /\ tasks'[u] = tasks[u]
    BY <2>1 DEF DedupeInv, DedupeTypeOK, In, Free
  <2>6. \A u, v \in Tasks : tasks'[u].token = tasks'[v].token => u = v \/ tasks'[u].token = 0
    BY <2>1 DEF DedupeInv, DedupeTypeOK, Free
  <2> QED BY <1>1, <2>2, <2>3, <2>4, <2>5, <2>6 DEF DedupeInv, Owns
<1>4. CASE /\ e \notin leased \cup done
           /\ processing' = [x \in leased \cup {e} |->
                 IF x = e THEN [owner |-> tokens + 1, expires |-> now + Lease]
                 ELSE processing[x]]
           /\ completed' = Only(completed, done)
           /\ tokens' = tokens + 1
           /\ Become(t, [tasks[t] EXCEPT !.pc = "work", !.token = tokens + 1,
                                         !.read = 0, !.until = time + Timeout])
  <2>1. /\ tasks' = [tasks EXCEPT ![t] = tasks'[t]]
        /\ tasks'[t] = [pc |-> "work", event |-> e, token |-> tokens + 1,
                        read |-> 0, until |-> time + Timeout]
    BY <1>4 DEF Become, DedupeInv, DedupeTypeOK
  <2>2. time + Timeout \in Nat /\ now + Lease \in Nat /\ time + Timeout < now + Lease
    BY <1>1, DedupeAssumption, LeaseExceedsTimeout DEF DedupeAssumption, LeaseExceedsTimeout
  <2>3. /\ DOMAIN processing' = leased \cup {e}
        /\ processing'[e] = [owner |-> tokens + 1, expires |-> now + Lease]
        /\ \A x \in leased : processing'[x] = processing[x]
        /\ DOMAIN completed' = done
        /\ \A x \in done : completed'[x] = completed[x]
    BY <1>4 DEF Only
  <2>4. DedupeTypeOK'
    <3>1. \A x \in DOMAIN processing' : processing'[x] \in [owner : 1..tokens', expires : Nat]
      BY <1>1, <1>2, <1>4, <2>2, <2>3 DEF DedupeInv, DedupeTypeOK
    <3>2. tasks' \in [Tasks -> [pc : {"idle", "claim", "work", "complete", "release"},
                                event : Events \cup {NoEvent}, token : 0..tokens',
                                read : 0..time', until : Nat]]
      BY <1>1, <1>4, <2>1, <2>2 DEF DedupeInv, DedupeTypeOK
    <3>3. DOMAIN processing' \subseteq Events /\ DOMAIN completed' \subseteq Events
      BY <1>1, <1>2, <2>3 DEF DedupeInv, DedupeTypeOK
    <3>4. \A x \in DOMAIN completed' : completed'[x] \in Nat
      BY <1>2, <2>3 DEF DedupeInv, DedupeTypeOK
    <3>5. time' \in Nat /\ tokens' \in Nat
      BY <1>1, <1>4
    <3> QED BY <3>1, <3>2, <3>3, <3>4, <3>5 DEF DedupeTypeOK
  <2>5. DOMAIN processing' \cap DOMAIN completed' = {}
    BY <1>2, <1>4, <2>3 DEF DedupeInv
  <2>6. ASSUME NEW u \in Tasks, In(u, Working)'
        PROVE  /\ Owns(u)'
               /\ time' <= tasks'[u].until
               /\ tasks'[u].until < processing'[tasks'[u].event].expires
    <3>1. CASE u = t
      BY <1>1, <2>1, <2>2, <2>3, <3>1, DedupeAssumption DEF Owns, DedupeAssumption
    <3>2. CASE u # t
      <4>1. tasks'[u] = tasks[u] /\ In(u, Working)
        BY <2>1, <2>6, <3>2 DEF In, DedupeInv, DedupeTypeOK
      <4>2. tasks[u].event \in leased /\ tasks[u].event # e
        BY <1>2, <1>4, <4>1
      <4> QED BY <1>1, <2>3, <4>1, <4>2 DEF DedupeInv, Owns
    <3> QED BY <3>1, <3>2
  <2>7. \A u \in Tasks : In(u, {"claim"})' => In(u, {"claim"}) /\ tasks'[u] = tasks[u]
    BY <2>1 DEF DedupeInv, DedupeTypeOK, In
  <2>8. \A u, v \in Tasks : tasks'[u].token = tasks'[v].token => u = v \/ tasks'[u].token = 0
    BY <1>1, <2>1 DEF DedupeInv, DedupeTypeOK
  <2> QED BY <1>1, <2>4, <2>5, <2>6, <2>7, <2>8 DEF DedupeInv
<1> QED BY <1>3, <1>4 DEF ClaimEvent

\* A task that ends its work, and one that only changes its own record, leaves
\* the rows of the other working tasks alone.
LEMMA OwnerStepKeepsInv ==
    ASSUME DedupeInv, NEW t \in Tasks,
           \/ \E e \in Events : Receive(t, e)
           \/ Dispatched(t) \/ CompleteEvent(t) \/ Fail(t) \/ ReleaseEvent(t) \/ Vanish(t)
    PROVE  DedupeInv'
<1>1. /\ time \in Nat /\ time' = time /\ tokens \in Nat /\ tokens' = tokens
      /\ tasks' = [tasks EXCEPT ![t] = tasks'[t]]
    BY DEF DedupeInv, DedupeTypeOK, Receive, Dispatched, CompleteEvent, Fail, ReleaseEvent,
           Vanish, Become
<1>2. /\ tasks'[t] \in [pc : {"idle", "claim", "work", "complete", "release"},
                        event : Events \cup {NoEvent}, token : 0..tokens,
                        read : 0..time, until : Nat]
      /\ tasks'[t].token \in {0, tasks[t].token}
      /\ In(t, {"claim"})' => tasks'[t].event \in Events /\ tasks'[t].read = time
      /\ In(t, Working)' => /\ In(t, Working) /\ tasks'[t].event = tasks[t].event
                            /\ tasks'[t].token = tasks[t].token
                            /\ tasks'[t].until = tasks[t].until
                            /\ UNCHANGED processing
  <2> USE <1>1 DEF DedupeInv, DedupeTypeOK, Become, Free, In, Working
  <2>1. CASE \E e \in Events : Receive(t, e)
    <3>1. PICK e \in Events : Receive(t, e)
      BY <2>1
    <3>2. tasks'[t] = [pc |-> "claim", event |-> e, token |-> 0, read |-> time, until |-> 0]
      BY <3>1 DEF Receive
    <3> QED BY <3>2
  <2>2. CASE Dispatched(t)
    <3>1. /\ tasks'[t] = [tasks[t] EXCEPT !.pc = "complete", !.read = time]
          /\ tasks[t].pc = "work" /\ UNCHANGED processing
      BY <2>2 DEF Dispatched
    <3>2. tasks'[t] = [pc |-> "complete", event |-> tasks[t].event, token |-> tasks[t].token,
                       read |-> time, until |-> tasks[t].until]
      BY <3>1, ZenonT(60)
    <3> QED BY <3>1, <3>2
  <2>3. CASE CompleteEvent(t)
    BY <2>3, DedupeAssumption DEF CompleteEvent, DedupeAssumption
  <2>4. CASE Fail(t)
    BY <2>4 DEF Fail
  <2>5. CASE ReleaseEvent(t)
    BY <2>5 DEF ReleaseEvent
  <2>6. CASE Vanish(t)
    BY <2>6 DEF Vanish
  <2> QED BY <2>1, <2>2, <2>3, <2>4, <2>5, <2>6
<1>3. \/ UNCHANGED <<processing, completed>>
      \/ /\ Owns(t)
         /\ processing' = Only(processing, DOMAIN processing \ {tasks[t].event})
         /\ \/ UNCHANGED completed
            \/ completed' = [x \in DOMAIN completed \cup {tasks[t].event} |->
                  IF x = tasks[t].event THEN tasks[t].read + Retention ELSE completed[x]]
  BY DEF Receive, Dispatched, CompleteEvent, Fail, ReleaseEvent, Vanish
<1>4. /\ DOMAIN processing' \subseteq DOMAIN processing
      /\ \A x \in DOMAIN processing' : processing'[x] = processing[x]
      /\ DOMAIN processing' \cap DOMAIN completed' = {}
  BY <1>3 DEF Only, DedupeInv
<1>5. /\ DOMAIN completed' \subseteq Events
      /\ \A x \in DOMAIN completed' : completed'[x] \in Nat
  <2>1. tasks[t].read + Retention \in Nat
    BY DedupeAssumption DEF DedupeAssumption, DedupeInv, DedupeTypeOK
  <2> QED BY <1>3, <2>1 DEF Owns, DedupeInv, DedupeTypeOK
<1>6. DedupeTypeOK'
  <2>1. tasks' \in [Tasks -> [pc : {"idle", "claim", "work", "complete", "release"},
                              event : Events \cup {NoEvent}, token : 0..tokens,
                              read : 0..time, until : Nat]]
    BY <1>1, <1>2 DEF DedupeInv, DedupeTypeOK
  <2> QED BY <1>1, <1>4, <1>5, <2>1 DEF DedupeInv, DedupeTypeOK
<1>7. ASSUME NEW u \in Tasks, In(u, Working)'
      PROVE  /\ Owns(u)'
             /\ time' <= tasks'[u].until
             /\ tasks'[u].until < processing'[tasks'[u].event].expires
  <2>1. CASE u = t
    BY <1>1, <1>2, <1>7, <2>1 DEF DedupeInv, Owns
  <2>2. CASE u # t
    <3>1. tasks'[u] = tasks[u] /\ In(u, Working)
      BY <1>1, <1>7, <2>2 DEF In, DedupeInv, DedupeTypeOK
    <3>2. tasks[u].event \in DOMAIN processing' 
      <4>1. Owns(t) => tasks[t].event # tasks[u].event
        BY <2>2, <3>1 DEF DedupeInv, DedupeTypeOK, Owns
      <4> QED BY <1>3, <3>1, <4>1 DEF DedupeInv, Owns, Only
    <3> QED BY <1>1, <1>4, <3>1, <3>2 DEF DedupeInv, Owns
  <2> QED BY <2>1, <2>2
<1>8. ASSUME NEW u \in Tasks, In(u, {"claim"})'
      PROVE  tasks'[u].event \in Events /\ time' <= tasks'[u].read + MaxLag
  <2>1. CASE u = t
    BY <1>1, <1>2, <1>8, <2>1, DedupeAssumption DEF DedupeAssumption
  <2>2. CASE u # t
    BY <1>1, <1>8, <2>2 DEF In, DedupeInv, DedupeTypeOK
  <2> QED BY <2>1, <2>2
<1>9. \A u, v \in Tasks : tasks'[u].token = tasks'[v].token => u = v \/ tasks'[u].token = 0
  BY <1>1, <1>2 DEF DedupeInv, DedupeTypeOK
<1> QED BY <1>4, <1>6, <1>7, <1>8, <1>9 DEF DedupeInv

\* Purging, a restart and the passage of time.
LEMMA OtherStepKeepsInv ==
    ASSUME DedupeInv, Restart \/ (\E now \in 0..time : PurgeExpired(now)) \/ Pass
    PROVE  DedupeInv'
<1>1. CASE Restart
  BY <1>1 DEF Restart, DedupeInv, DedupeTypeOK, Free, In, Working
<1>2. CASE \E now \in 0..time : PurgeExpired(now)
  <2>1. PICK now \in 0..time : PurgeExpired(now)
    BY <1>2
  <2>2. \A u \in Tasks : In(u, Working) => tasks[u].event \in LeasedAt(now)
    BY DEF DedupeInv, DedupeTypeOK, LeasedAt, Owns
  <2> QED BY <2>1, <2>2 DEF PurgeExpired, DedupeInv, DedupeTypeOK, LeasedAt, DoneAt, Only, Owns, In
<1>3. CASE Pass
  <2>1. /\ time' = time + 1 /\ time \in Nat
        /\ UNCHANGED <<processing, completed, tasks, tokens>>
    BY <1>3 DEF Pass, DedupeInv, DedupeTypeOK
  <2>2. DedupeTypeOK'
    BY <2>1 DEF DedupeInv, DedupeTypeOK
  <2>3. \A t \in Tasks : In(t, Working) => time + 1 <= tasks[t].until
    BY <1>3, <2>1 DEF Pass, DedupeInv, DedupeTypeOK, Working
  <2>4. \A t \in Tasks : In(t, {"claim"}) => time + 1 <= tasks[t].read + MaxLag
    BY <1>3, <2>1, DedupeAssumption DEF Pass, DedupeInv, DedupeTypeOK, DedupeAssumption
  <2> QED BY <2>1, <2>2, <2>3, <2>4 DEF DedupeInv, In, Owns
<1> QED BY <1>1, <1>2, <1>3

LEMMA DedupeNextInv == DedupeInv /\ [DedupeNext]_dedupeVars => DedupeInv'
<1> SUFFICES ASSUME DedupeInv, [DedupeNext]_dedupeVars PROVE DedupeInv'
  OBVIOUS
<1>1. CASE UNCHANGED dedupeVars
  BY <1>1 DEF dedupeVars, DedupeInv, DedupeTypeOK, In, Owns
<1>2. CASE DedupeNext
  BY <1>2, ClaimKeepsInv, OwnerStepKeepsInv, OtherStepKeepsInv DEF DedupeNext
<1> QED BY <1>1, <1>2

\* Every reachable state satisfies the inductive invariant.
THEOREM DedupeInvariant == DedupeSpec => []DedupeInv
BY DedupeInitInv, DedupeNextInv, PTL DEF DedupeSpec

\* At most one handler works on an event, and none on an event recorded as
\* done, for every lease longer than the timeout and the lock wait together.
THEOREM OneWorkerAlways == DedupeSpec => []OneWorker
<1>1. DedupeInv => OneWorker
  BY DEF DedupeInv, DedupeTypeOK, OneWorker, Owns, Working
<1> QED BY <1>1, DedupeInvariant, PTL

\* Live rows outlive every step of anybody but their owner.
THEOREM LiveRowsAlwaysKept == DedupeSpec => LiveRowsKept
<1>1. DedupeInv /\ [DedupeNext]_dedupeVars => [RowsKept]_dedupeVars
  <2> SUFFICES ASSUME DedupeInv, DedupeNext PROVE RowsKept
    BY DEF dedupeVars
  <2>1. CASE Restart
    BY <2>1 DEF Restart, RowsKept
  <2>2. CASE \E now \in 0..time : PurgeExpired(now)
    BY <2>2 DEF PurgeExpired, RowsKept, LeasedAt, DoneAt, Only, DedupeInv, DedupeTypeOK
  <2>3. CASE Pass
    BY <2>3 DEF Pass, RowsKept
  <2>4. ASSUME NEW t \in Tasks, ClaimEvent(t) PROVE RowsKept
    <3>1. tasks[t].read \in Nat /\ tasks[t].read <= time /\ time \in Nat
      BY DEF DedupeInv, DedupeTypeOK
    <3>2. /\ \A x \in DOMAIN processing : processing[x].expires > time =>
                x \in LeasedAt(tasks[t].read)
          /\ \A x \in DOMAIN completed : completed[x] > time => x \in DoneAt(tasks[t].read)
      BY <3>1 DEF LeasedAt, DoneAt, DedupeInv, DedupeTypeOK
    <3> QED BY <2>4, <3>2 DEF ClaimEvent, RowsKept, Only
  <2>5. ASSUME NEW t \in Tasks,
               (\E e \in Events : Receive(t, e)) \/ Dispatched(t) \/ Fail(t) \/ Vanish(t)
        PROVE  RowsKept
    BY <2>5 DEF Receive, Dispatched, Fail, Vanish, RowsKept
  <2>6. ASSUME NEW t \in Tasks, CompleteEvent(t) \/ ReleaseEvent(t) PROVE RowsKept
    <3>1. tasks[t].pc \in {"complete", "release"} /\ tasks[t] \in [pc : {"idle", "claim", "work", "complete", "release"},
                            event : Events \cup {NoEvent}, token : 0..tokens,
                            read : 0..time, until : Nat]
      BY <2>6 DEF CompleteEvent, ReleaseEvent, In, DedupeInv, DedupeTypeOK
    <3>2. CASE UNCHANGED <<processing, completed>>
      BY <3>2 DEF RowsKept
    <3>3. CASE /\ Owns(t) /\ tasks'[t] = Free
               /\ processing' = Only(processing, DOMAIN processing \ {tasks[t].event})
               /\ \/ UNCHANGED completed
                  \/ completed' = [x \in DOMAIN completed \cup {tasks[t].event} |->
                        IF x = tasks[t].event THEN tasks[t].read + Retention ELSE completed[x]]
      <4>1. tasks'[t] # tasks[t] /\ tasks[t].event \notin DOMAIN completed
        BY <3>1, <3>3 DEF Free, Owns, DedupeInv
      <4> QED BY <3>3, <4>1 DEF RowsKept, Only, Owns
    <3> QED BY <2>6, <3>2, <3>3 DEF CompleteEvent, ReleaseEvent, Become, DedupeInv, DedupeTypeOK
  <2> QED BY <2>1, <2>2, <2>3, <2>4, <2>5, <2>6 DEF DedupeNext
<1> QED BY <1>1, DedupeInvariant, PTL DEF DedupeSpec, LiveRowsKept
==============================================================================
