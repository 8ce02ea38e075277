----------------------------- MODULE ProductState -----------------------------
(***************************************************************************)
(* SQLiteProductStateStore: one namespace of values with revisions, where  *)
(* every write is a compare-and-set command with an idempotency key, and   *)
(* its only client, the MCP HTTP resume state: _DurableResumeTransport     *)
(* saves the cursor of its connection after every remote operation.        *)
(*                                                                         *)
(* A command reads the clock before it waits for the database lock, so it  *)
(* may purge and stamp by a clock `now` that others have overtaken.        *)
(***************************************************************************)
EXTENDS Naturals, FiniteSets

CONSTANTS
    StateKeys,    \* keys of the namespace
    Values,       \* values other clients write
    CommandIds,   \* idempotency keys of other clients
    Links,        \* MCP connections that resume the same endpoint
    ResumeKey,    \* the state key of that endpoint
    Ttl,          \* idempotency_ttl_seconds
    MaxRecords,   \* max_records_per_namespace
    MaxRetained,  \* max_idempotency_records_per_namespace
    MaxStateTime, \* bound: stateTime
    MaxWrites,    \* bound: commands that write
    MaxCursor,    \* bound: remote events
    MaxConnects   \* bound: connections opened

ASSUME StateAssumption ==
    /\ ResumeKey \notin StateKeys
    /\ Ttl \in Nat /\ MaxRecords \in Nat /\ MaxRetained \in Nat
    /\ MaxStateTime \in Nat /\ MaxWrites \in Nat /\ MaxCursor \in Nat /\ MaxConnects \in Nat

AllKeys == StateKeys \cup {ResumeKey}

VARIABLES
    stateTime,  \* the clock
    current,    \* key -> [revision, value]; revision 0: no record
    retained,   \* idempotency key -> [command, record, until]
    written,    \* every record ever written (history)
    links,      \* the durable transport of each connection
    remote,     \* the last event id the MCP server has issued (external)
    connects    \* connections opened

stateVars == <<stateTime, current, retained, written, links, remote, connects>>

NoRecord == [revision |-> 0, value |-> 0]

Down == [pc |-> "down", revision |-> 0, cursor |-> 0, sequence |-> 0, writer |-> 0, now |-> 0]

StateInit ==
    /\ stateTime = 0
    /\ current = [k \in AllKeys |-> NoRecord]
    /\ retained = [i \in {} |-> 0]
    /\ written = {}
    /\ links = [l \in Links |-> Down]
    /\ remote = 0 /\ connects = 0

(***************************************************************************)
(* compare_and_set.                                                        *)
(***************************************************************************)
Unexpired(now) == {i \in DOMAIN retained : retained[i].until > now}

Digest(k, v, expected) == [key |-> k, value |-> v, expected |-> expected]

\* Mutant: a key that was used for another command writes.
OutcomeReusing(k, v, expected, id, now) ==
    IF id \in Unexpired(now) /\ retained[id].command = Digest(k, v, expected) THEN "replayed"
    ELSE IF current[k].revision # expected THEN "revision" ELSE "written"

Outcome(k, v, expected, id, now) ==
    CASE id \in Unexpired(now) ->
            IF retained[id].command = Digest(k, v, expected) THEN "replayed" ELSE "reused"
      [] id \notin Unexpired(now) /\ current[k].revision # expected -> "revision"
      [] id \notin Unexpired(now) /\ current[k].revision = expected ->
            IF \/ /\ expected = 0
                  /\ Cardinality({x \in AllKeys : current[x].revision > 0}) >= MaxRecords
               \/ Cardinality(Unexpired(now)) >= MaxRetained
            THEN "capacity" ELSE "written"

\* The transaction commits the purge with a write or a replay; an error rolls
\* it back.
CompareAndSet(k, v, expected, id, now) ==
    LET outcome == Outcome(k, v, expected, id, now)
        live == Unexpired(now)
        record == [revision |-> expected + 1, value |-> v]
    IN  \/ /\ outcome = "written"
           /\ Cardinality(written) < MaxWrites
           /\ current' = [current EXCEPT ![k] = record]
           /\ retained' = [i \in live \cup {id} |->
                  IF i = id THEN [command |-> Digest(k, v, expected), record |-> record,
                                  until |-> now + Ttl]
                  ELSE retained[i]]
           /\ written' = written \cup {[key |-> k, id |-> id, record |-> record,
                                        at |-> stateTime, until |-> now + Ttl]}
        \/ /\ outcome = "replayed"
           /\ retained' = [i \in live |-> retained[i]]
           /\ UNCHANGED <<current, written>>
        \/ /\ outcome \notin {"written", "replayed"}
           /\ UNCHANGED <<current, retained, written>>

\* Any client of another key, first calls and retries alike.
Command(k, v, expected, id, now) ==
    /\ CompareAndSet(k, v, expected, id, now)
    /\ UNCHANGED <<stateTime, links, remote, connects>>

PassTime ==
    /\ stateTime < MaxStateTime
    /\ stateTime' = stateTime + 1
    /\ UNCHANGED <<current, retained, written, links, remote, connects>>

(***************************************************************************)
(* The MCP connections.                                                    *)
(***************************************************************************)
SetLink(l, link) == links' = [links EXCEPT ![l] = link]

\* The manager loads the checkpoint and the transport starts from it, with a
\* writer id of its own.
Connect(l) ==
    /\ links[l].pc = "down"
    /\ connects < MaxConnects
    /\ connects' = connects + 1
    /\ SetLink(l, [pc |-> "ready", revision |-> current[ResumeKey].revision,
                   cursor |-> current[ResumeKey].value, sequence |-> 0,
                   writer |-> connects + 1, now |-> 0])
    /\ UNCHANGED <<stateTime, current, retained, written, remote>>

\* _run_operation: one operation at a time, and the server's events move the
\* cursor.
Operate(l) ==
    /\ links[l].pc = "ready"
    /\ SetLink(l, [links[l] EXCEPT !.pc = "busy"])
    /\ UNCHANGED <<stateTime, current, retained, written, remote, connects>>

RemoteEvent(l) ==
    /\ links[l].pc = "busy"
    /\ remote < MaxCursor
    /\ remote' = remote + 1
    /\ SetLink(l, [links[l] EXCEPT !.cursor = remote + 1])
    /\ UNCHANGED <<stateTime, current, retained, written, connects>>

\* The operation returns, fails or is cancelled; its state is saved by a task
\* that a second cancellation does not reach.
Returned(l) ==
    /\ links[l].pc = "busy"
    /\ SetLink(l, [links[l] EXCEPT !.pc = "saving", !.sequence = @ + 1, !.now = stateTime])
    /\ UNCHANGED <<stateTime, current, retained, written, remote, connects>>

SaveId(l) == <<l, links[l].writer, links[l].sequence>>

\* Mutant: a save asks the store for the revision it replaces.
SavedBlind(l) ==
    /\ links[l].pc = "saving"
    /\ CompareAndSet(ResumeKey, links[l].cursor, current[ResumeKey].revision, SaveId(l),
                     links[l].now)
    /\ SetLink(l, [links[l] EXCEPT !.pc = "ready", !.revision = current'[ResumeKey].revision])
    /\ UNCHANGED <<stateTime, remote, connects>>

\* Mutant: a cancellation during the save loses the revision it committed.
SavedUnshielded(l) ==
    /\ links[l].pc = "saving"
    /\ LET link == links[l]
           outcome == Outcome(ResumeKey, link.cursor, link.revision, SaveId(l), link.now)
       IN  /\ CompareAndSet(ResumeKey, link.cursor, link.revision, SaveId(l), link.now)
           /\ \/ SetLink(l, IF outcome \in {"written", "replayed"}
                            THEN [link EXCEPT !.pc = "ready", !.revision = @ + 1]
                            ELSE [link EXCEPT !.pc = outcome])
              \/ SetLink(l, [link EXCEPT !.pc = "ready"])
    /\ UNCHANGED <<stateTime, remote, connects>>

\* The save is done.  Any failure disables the connection for good, and so
\* does a revision that is not the next one.
Saved(l) ==
    /\ links[l].pc = "saving"
    /\ LET link == links[l]
           outcome == Outcome(ResumeKey, link.cursor, link.revision, SaveId(l), link.now)
       IN  \/ /\ CompareAndSet(ResumeKey, link.cursor, link.revision, SaveId(l), link.now)
              /\ SetLink(l, IF outcome \in {"written", "replayed"}
                            THEN [link EXCEPT !.pc = "ready", !.revision = @ + 1]
                            ELSE [link EXCEPT !.pc = outcome])
           \/ /\ SetLink(l, [link EXCEPT !.pc = "failed"])
              /\ UNCHANGED <<current, retained, written>>
    /\ UNCHANGED <<stateTime, remote, connects>>

\* close() of an idle or disabled connection, or the end of its process.
Disconnect(l) ==
    /\ links[l].pc # "down"
    /\ SetLink(l, Down)
    /\ UNCHANGED <<stateTime, current, retained, written, remote, connects>>

StateNext ==
    \/ \E k \in StateKeys, v \in Values, i \in CommandIds,
          expected \in 0..MaxWrites, now \in 0..stateTime :
             Command(k, v, expected, <<i>>, now)
    \/ \E l \in Links :
          \/ Connect(l) \/ Operate(l) \/ RemoteEvent(l) \/ Returned(l) \/ Saved(l) \/ Disconnect(l)
    \/ PassTime

StateSpec == StateInit /\ [][StateNext]_stateVars

(***************************************************************************)
(* Properties.                                                             *)
(***************************************************************************)
Active == {"ready", "busy", "saving"}

\* While a write is retained its idempotency key writes nothing else, on any
\* key of the namespace, and what is retained for a replay is what was written:
\* a retry neither applies twice nor reports another result, even when its
\* clock is older than the purge of somebody else.
RetentionWindow ==
    /\ \A p, q \in written : p.id = q.id => p = q \/ p.at >= q.until \/ q.at >= p.until
    /\ \A i \in DOMAIN retained : \E p \in written :
          /\ p.id = i /\ p.until = retained[i].until /\ p.record = retained[i].record
          /\ retained[i].command = Digest(p.key, p.record.value, p.record.revision - 1)

\* The stored cursor never goes back: of two processes that resume the same
\* endpoint, the one with the older checkpoint cannot overwrite the newer.
CursorKept == [][current'[ResumeKey].value >= current[ResumeKey].value]_stateVars

\* A connection is disabled by a revision conflict only when another one wrote
\* the checkpoint after it: no cancellation or retry of its own puts it out of
\* step with the store, and its own saves are never taken for a reuse of a key.
LoneLinkLives ==
    \A l \in Links :
        /\ links[l].pc # "reused"
        /\ links[l].pc = "revision" =>
              \E p \in written : /\ p.key = ResumeKey
                                 /\ p.record.revision > links[l].revision
                                 /\ \A s \in 0..links[l].sequence : p.id # <<l, links[l].writer, s>>
==============================================================================
