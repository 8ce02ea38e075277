-------------------------- MODULE ProductStateProofs --------------------------
(***************************************************************************)
(* Proofs about ProductState for every set of keys, values, idempotency    *)
(* keys and connections, and every retention and capacity.                 *)
(***************************************************************************)
EXTENDS ProductState, TLAPS

\* The store: its types, the retention window, and the fact behind it, that a
\* write whose window is open is still retained.
StoreInv ==
    /\ stateTime \in Nat
    /\ current \in [AllKeys -> [revision : Nat, value : Values \cup Nat]]
    /\ \A p \in written : p.at \in Nat /\ p.until \in Nat /\ p.record.revision \in Nat \ {0}
    /\ \A i \in DOMAIN retained : retained[i].until \in Nat
    /\ RetentionWindow
    /\ \A p \in written : p.until > stateTime =>
          p.id \in DOMAIN retained /\ retained[p.id].until = p.until
    /\ current[ResumeKey].revision > 0 =>
          \E p \in written : p.key = ResumeKey /\ p.record.revision = current[ResumeKey].revision

LinkType == [pc : {"down", "ready", "busy", "saving", "revision", "capacity", "reused", "failed"},
             revision : Nat, cursor : Nat, sequence : Nat, writer : Nat, now : Nat]

\* The connections: types, no cursor ahead of the server, the checkpoint a
\* connection would replace is one it has seen, and its save ids are fresh.
LinkInv ==
    /\ links \in [Links -> LinkType] /\ remote \in Nat /\ connects \in Nat
    /\ current[ResumeKey].value \in Nat /\ current[ResumeKey].value <= remote
    /\ \A l \in Links :
          /\ links[l].now <= stateTime
          /\ links[l].cursor <= remote
          /\ links[l].writer <= connects
          /\ links[l].pc \in Active => links[l].writer > 0
          /\ links[l].pc \in Active => links[l].revision <= current[ResumeKey].revision
          /\ links[l].pc \in Active /\ links[l].revision = current[ResumeKey].revision =>
                links[l].cursor >= current[ResumeKey].value
    /\ \A p \in written, l \in Links, w, s \in Nat : p.id = <<l, w, s>> =>
          /\ w <= connects /\ w > 0
          /\ w = links[l].writer => s <= links[l].sequence
          /\ w = links[l].writer /\ links[l].pc = "saving" => s < links[l].sequence
          /\ w = links[l].writer /\ links[l].pc \in Active => p.record.revision <= links[l].revision

\* A field at a time, an update of a connection stays in its type.
LEMMA LinkUpdate ==
    ASSUME NEW r \in LinkType, NEW n \in Nat,
           NEW pc \in {"ready", "saving"}
    PROVE  /\ [r EXCEPT !.pc = pc] \in LinkType
           /\ [r EXCEPT !.revision = n] \in LinkType
           /\ [r EXCEPT !.sequence = n] \in LinkType
           /\ [r EXCEPT !.now = n] \in LinkType
BY DEF LinkType

StateInv == StoreInv /\ LinkInv /\ LoneLinkLives

LEMMA StateInitInv == StateInit => StateInv
<1> SUFFICES ASSUME StateInit PROVE StateInv
  OBVIOUS
<1>1. StoreInv
  BY DEF StateInit, StoreInv, NoRecord, RetentionWindow, AllKeys
<1>2. LinkInv
  BY DEF StateInit, LinkInv, NoRecord, Down, LinkType, Active, AllKeys
<1>3. LoneLinkLives
  BY DEF StateInit, LoneLinkLives, Down
<1> QED BY <1>1, <1>2, <1>3 DEF StateInv

\* What the outcomes of compare_and_set tell about the state they came from.
LEMMA OutcomeFacts ==
    ASSUME NEW k, NEW v, NEW expected, NEW id, NEW now
    PROVE  /\ Outcome(k, v, expected, id, now) = "written" =>
                 id \notin Unexpired(now) /\ current[k].revision = expected
           /\ Outcome(k, v, expected, id, now) = "revision" => current[k].revision # expected
           /\ Outcome(k, v, expected, id, now) \in {"replayed", "reused"} => id \in Unexpired(now)
           /\ Outcome(k, v, expected, id, now) \in
                 {"written", "replayed", "reused", "revision", "capacity"}
BY DEF Outcome

\* One command keeps the store's invariant, whatever older clock it read.
LEMMA CommandKeepsStore ==
    ASSUME StoreInv, NEW k \in AllKeys, NEW v \in Values \cup Nat, NEW expected \in Nat, NEW id,
           NEW now \in 0..stateTime, CompareAndSet(k, v, expected, id, now), UNCHANGED stateTime
    PROVE  StoreInv'
<1> DEFINE outcome == Outcome(k, v, expected, id, now)
           live == Unexpired(now)
           record == [revision |-> expected + 1, value |-> v]
           new == [key |-> k, id |-> id, record |-> record, at |-> stateTime, until |-> now + Ttl]
<1>1. stateTime \in Nat /\ now \in Nat /\ now <= stateTime /\ now + Ttl \in Nat
  BY StateAssumption DEF StoreInv, StateAssumption
<1>2. /\ live \subseteq DOMAIN retained
      /\ \A p \in written : p.until > stateTime => p.id \in live
  BY <1>1 DEF StoreInv, Unexpired
<1>3. CASE /\ outcome = "written"
           /\ current' = [current EXCEPT ![k] = record]
           /\ retained' = [i \in live \cup {id} |->
                  IF i = id THEN [command |-> Digest(k, v, expected), record |-> record,
                                  until |-> now + Ttl]
                  ELSE retained[i]]
           /\ written' = written \cup {new}
  <2>1. id \notin live /\ current[k].revision = expected
    BY <1>3, OutcomeFacts
  <2>2. \A p \in written : p.id = id => p.until <= stateTime
    BY <1>1, <1>2, <2>1 DEF StoreInv
  <2>3. current' \in [AllKeys -> [revision : Nat, value : Values \cup Nat]]
    BY <1>3 DEF StoreInv
  <2>4. \A p \in written' : p.at \in Nat /\ p.until \in Nat /\ p.record.revision \in Nat \ {0}
    BY <1>1, <1>3 DEF StoreInv
  <2>5. \A i \in DOMAIN retained' : retained'[i].until \in Nat
    BY <1>1, <1>2, <1>3 DEF StoreInv
  <2>6. \A p, q \in written' : p.id = q.id => p = q \/ p.at >= q.until \/ q.at >= p.until
    BY <1>1, <1>3, <2>2 DEF StoreInv, RetentionWindow
  <2>7. ASSUME NEW i \in DOMAIN retained'
        PROVE  \E p \in written' :
                  /\ p.id = i /\ p.until = retained'[i].until /\ p.record = retained'[i].record
                  /\ retained'[i].command = Digest(p.key, p.record.value, p.record.revision - 1)
    <3>1. CASE i = id
      <4>1. new \in written' /\ record.revision - 1 = expected
        BY <1>3
      <4> QED BY <1>3, <3>1, <4>1
    <3>2. CASE i # id
      <4>1. i \in DOMAIN retained /\ retained'[i] = retained[i] /\ written \subseteq written'
        BY <1>2, <1>3, <2>7, <3>2
      <4> QED BY <4>1 DEF StoreInv, RetentionWindow
    <3> QED BY <3>1, <3>2
  <2>8. ASSUME NEW p \in written', p.until > stateTime
        PROVE  p.id \in DOMAIN retained' /\ retained'[p.id].until = p.until
    <3>1. CASE p = new
      BY <1>3, <3>1
    <3>2. CASE p \in written
      <4>1. p.id # id
        BY <1>1, <2>2, <2>8, <3>2 DEF StoreInv
      <4> QED BY <1>2, <1>3, <2>8, <3>2, <4>1 DEF StoreInv
    <3> QED BY <1>3, <3>1, <3>2
  <2>9. current'[ResumeKey].revision > 0 =>
           \E p \in written' : p.key = ResumeKey /\ p.record.revision = current'[ResumeKey].revision
    <3>1. CASE k = ResumeKey
      <4>1. new \in written' /\ current'[ResumeKey] = record
        BY <1>3, <3>1 DEF StoreInv
      <4> QED BY <3>1, <4>1
    <3>2. CASE k # ResumeKey
      <4>1. current'[ResumeKey] = current[ResumeKey] /\ written \subseteq written'
        BY <1>3, <3>2 DEF StoreInv, AllKeys
      <4> QED BY <4>1 DEF StoreInv
    <3> QED BY <3>1, <3>2
  <2> QED BY <1>1, <2>3, <2>4, <2>5, <2>6, <2>7, <2>8, <2>9 DEF StoreInv, RetentionWindow
<1>4. CASE retained' = [i \in live |-> retained[i]] /\ UNCHANGED <<current, written>>
  BY <1>1, <1>2, <1>4 DEF StoreInv, RetentionWindow
<1>5. CASE UNCHANGED <<current, retained, written>>
  BY <1>5 DEF StoreInv, RetentionWindow
<1> QED BY <1>3, <1>4, <1>5 DEF CompareAndSet

\* A command of another client leaves the checkpoint alone.
LEMMA OtherCommandKeepsInv ==
    ASSUME StateInv, NEW k \in StateKeys, NEW v \in Values, NEW i \in CommandIds,
           NEW expected \in 0..MaxWrites, NEW now \in 0..stateTime,
           Command(k, v, expected, <<i>>, now)
    PROVE  StateInv' /\ current'[ResumeKey] = current[ResumeKey]
<1>1. /\ CompareAndSet(k, v, expected, <<i>>, now)
      /\ UNCHANGED <<stateTime, links, remote, connects>>
  BY DEF Command
<1>2. k \in AllKeys /\ k # ResumeKey /\ v \in Values \cup Nat /\ expected \in Nat
  BY StateAssumption DEF AllKeys, StateAssumption
<1>3. StoreInv'
  BY <1>1, <1>2, CommandKeepsStore DEF StateInv
<1>4. current'[ResumeKey] = current[ResumeKey]
  <2>1. ResumeKey \in AllKeys /\ current \in [AllKeys -> [revision : Nat, value : Values \cup Nat]]
    BY DEF AllKeys, StateInv, StoreInv
  <2>2. \/ UNCHANGED current
        \/ current' = [current EXCEPT ![k] = [revision |-> expected + 1, value |-> v]]
    BY <1>1 DEF CompareAndSet
  <2> QED BY <1>2, <2>1, <2>2
<1>5. \A p \in written' : p \in written \/ p.id = <<i>>
  BY <1>1 DEF CompareAndSet
<1>6. \A l, w, s : <<i>> # <<l, w, s>>
  OBVIOUS
<1>7. written \subseteq written'
  BY <1>1 DEF CompareAndSet
<1>8. LinkInv'
  BY <1>1, <1>4, <1>5, <1>6 DEF StateInv, LinkInv
<1>9. LoneLinkLives'
  BY <1>1, <1>7 DEF StateInv, LoneLinkLives
<1> QED BY <1>3, <1>4, <1>8, <1>9 DEF StateInv

\* A save replaces only the checkpoint its connection has seen last, and is
\* refused only because another connection has replaced that one.
LEMMA SavedKeepsInv ==
    ASSUME StateInv, NEW l \in Links, Saved(l)
    PROVE  StateInv' /\ current'[ResumeKey].value >= current[ResumeKey].value
<1> DEFINE link == links[l]
           id == SaveId(l)
           outcome == Outcome(ResumeKey, link.cursor, link.revision, id, link.now)
           record == [revision |-> link.revision + 1, value |-> link.cursor]
           new == [key |-> ResumeKey, id |-> id, record |-> record,
                   at |-> stateTime, until |-> link.now + Ttl]
<1>1. /\ link \in LinkType /\ link.pc = "saving" /\ link.now \in 0..stateTime
      /\ link.writer \in Nat /\ link.sequence \in Nat /\ link.writer > 0
      /\ link.cursor \in Values \cup Nat /\ link.revision \in Nat /\ ResumeKey \in AllKeys
      /\ UNCHANGED <<stateTime, remote, connects>>
      /\ link.pc \in Active
  BY DEF Saved, StateInv, StoreInv, LinkInv, LinkType, AllKeys, Active
<1>2. \A p \in written : p.id # id
  BY <1>1 DEF StateInv, LinkInv, SaveId
<1>3. id \notin DOMAIN retained
  BY <1>2 DEF StateInv, StoreInv, RetentionWindow
<1>4. outcome \in {"written", "revision", "capacity"}
  BY <1>3, OutcomeFacts DEF Unexpired
<1>5. CASE /\ CompareAndSet(ResumeKey, link.cursor, link.revision, id, link.now)
           /\ outcome = "written"
           /\ links' = [links EXCEPT ![l] = [link EXCEPT !.pc = "ready", !.revision = @ + 1]]
  <2>1. StoreInv'
    BY <1>1, <1>5, CommandKeepsStore DEF StateInv
  <2>2. /\ current[ResumeKey].revision = link.revision
        /\ current'[ResumeKey] = record
        /\ written' = written \cup {new} /\ new.id = id /\ new.record = record
    <3>1. current[ResumeKey].revision = link.revision
      BY <1>5, OutcomeFacts
    <3>2. current' = [current EXCEPT ![ResumeKey] = record]
      BY <1>5 DEF CompareAndSet
    <3>3. current'[ResumeKey] = record
      BY <1>1, <3>2 DEF StateInv, StoreInv
    <3>4. written' = written \cup {new}
      BY <1>5 DEF CompareAndSet
    <3>5. new.id = id /\ new.record = record
      OBVIOUS
    <3> QED BY <3>1, <3>3, <3>4, <3>5
  <2>3. /\ links'[l].pc = "ready" /\ links'[l].revision = link.revision + 1
        /\ links'[l].cursor = link.cursor /\ links'[l].sequence = link.sequence
        /\ links'[l].writer = link.writer /\ links'[l].now = link.now
        /\ \A m \in Links : m # l => links'[m] = links[m]
        /\ links' \in [Links -> LinkType]
    <3>1. links \in [Links -> LinkType]
      BY DEF StateInv, LinkInv
    <3>2. links'[l] = [[link EXCEPT !.pc = "ready"] EXCEPT !.revision = link.revision + 1]
      BY <1>5, <3>1
    <3>3. [link EXCEPT !.pc = "ready"] \in LinkType
      BY <1>1 DEF LinkType
    <3>4. links'[l] \in LinkType
      <4>1. link.revision + 1 \in Nat
        BY <1>1
      <4> QED BY <3>2, <3>3, <4>1, LinkUpdate
    <3> QED BY <1>1, <1>5, <3>1, <3>2, <3>3, <3>4 DEF LinkType
  <2>4. link.cursor \in Nat /\ link.cursor <= remote /\ link.cursor >= current[ResumeKey].value
    BY <1>1, <2>2 DEF StateInv, LinkInv, LinkType
  <2>5. ASSUME NEW m \in Links
        PROVE  /\ links'[m].now <= stateTime'
               /\ links'[m].cursor <= remote'
               /\ links'[m].writer <= connects'
               /\ links'[m].pc \in Active => links'[m].writer > 0
               /\ links'[m].pc \in Active => links'[m].revision <= current'[ResumeKey].revision
               /\ links'[m].pc \in Active /\ links'[m].revision = current'[ResumeKey].revision =>
                     links'[m].cursor >= current'[ResumeKey].value
    <3>1. CASE m = l
      BY <1>1, <2>2, <2>3, <2>4, <3>1 DEF StateInv, LinkInv, LinkType
    <3>2. CASE m # l
      BY <1>1, <2>2, <2>3, <3>2 DEF StateInv, LinkInv, LinkType
    <3> QED BY <3>1, <3>2
  <2>6. ASSUME NEW p \in written', NEW m \in Links, NEW w \in Nat, NEW s \in Nat,
               p.id = <<m, w, s>>
        PROVE  /\ w <= connects' /\ w > 0
               /\ w = links'[m].writer => s <= links'[m].sequence
               /\ w = links'[m].writer /\ links'[m].pc = "saving" => s < links'[m].sequence
               /\ w = links'[m].writer /\ links'[m].pc \in Active =>
                     p.record.revision <= links'[m].revision
    <3>1. CASE p.id = id /\ p.record = record
      <4>1. m = l /\ w = link.writer /\ s = link.sequence
        BY <2>6, <3>1 DEF SaveId
      <4> QED BY <1>1, <2>3, <3>1, <4>1 DEF StateInv, LinkInv, LinkType
    <3>2. CASE p \in written
      <4>1. p.record.revision \in Nat
        BY <3>2 DEF StateInv, StoreInv
      <4>2. CASE m = l
        BY <1>1, <2>3, <2>6, <3>2, <4>1, <4>2 DEF StateInv, LinkInv, LinkType
      <4>3. CASE m # l
        BY <1>1, <2>3, <2>6, <3>2, <4>3 DEF StateInv, LinkInv
      <4> QED BY <4>2, <4>3
    <3> QED BY <2>2, <3>1, <3>2
  <2>7. LinkInv'
    BY <1>1, <2>2, <2>3, <2>4, <2>5, <2>6, SMTT(30) DEF StateInv, LinkInv
  <2>8. LoneLinkLives'
    BY <2>2, <2>3 DEF StateInv, LoneLinkLives
  <2> QED BY <2>1, <2>2, <2>4, <2>7, <2>8 DEF StateInv
<1>6. CASE /\ UNCHANGED <<current, retained, written>>
           /\ \/ outcome = "revision" /\ links' = [links EXCEPT ![l] = [link EXCEPT !.pc = "revision"]]
              \/ \E pc \in {"capacity", "failed"} : links' = [links EXCEPT ![l] = [link EXCEPT !.pc = pc]]
  <2>1. PICK pc \in {"revision", "capacity", "failed"} :
           /\ links' = [links EXCEPT ![l] = [link EXCEPT !.pc = pc]]
           /\ pc = "revision" => outcome = "revision"
    BY <1>6
  <2>2. /\ links'[l] = [pc |-> pc, revision |-> link.revision, cursor |-> link.cursor,
                        sequence |-> link.sequence, writer |-> link.writer, now |-> link.now]
        /\ \A m \in Links : m # l => links'[m] = links[m]
        /\ links' \in [Links -> LinkType]
    BY <1>1, <2>1 DEF StateInv, LinkInv, LinkType
  <2>3. StoreInv'
    BY <1>1, <1>6 DEF StateInv, StoreInv, RetentionWindow
  <2>4. LinkInv'
    BY <1>1, <1>6, <2>2 DEF StateInv, LinkInv, Active, LinkType
  <2>5. pc = "revision" =>
           \E p \in written : /\ p.key = ResumeKey /\ p.record.revision > link.revision
                              /\ \A s \in 0..link.sequence : p.id # <<l, link.writer, s>>
    <3> SUFFICES ASSUME pc = "revision"
                 PROVE  \E p \in written :
                           /\ p.key = ResumeKey /\ p.record.revision > link.revision
                           /\ \A s \in 0..link.sequence : p.id # <<l, link.writer, s>>
      OBVIOUS
    <3>1. current[ResumeKey].revision # link.revision
      BY <2>1, OutcomeFacts
    <3>2. current[ResumeKey].revision \in Nat /\ current[ResumeKey].revision > link.revision
      <4>1. current[ResumeKey].revision \in Nat
        BY DEF StateInv, StoreInv, AllKeys
      <4>2. link.revision <= current[ResumeKey].revision
        BY <1>1 DEF StateInv, LinkInv
      <4> QED BY <1>1, <3>1, <4>1, <4>2
    <3>3. PICK p \in written :
             p.key = ResumeKey /\ p.record.revision = current[ResumeKey].revision
      BY <1>1, <3>2 DEF StateInv, StoreInv
    <3>4. \A s \in 0..link.sequence : p.id # <<l, link.writer, s>>
      BY <1>1, <3>2, <3>3 DEF StateInv, LinkInv
    <3> QED BY <3>2, <3>3, <3>4
  <2>6. LoneLinkLives'
    BY <1>6, <2>2, <2>5 DEF StateInv, LoneLinkLives
  <2>7. current[ResumeKey].value \in Nat
    BY DEF StateInv, LinkInv
  <2> QED BY <1>6, <2>3, <2>4, <2>6, <2>7 DEF StateInv
<1>7. \/ /\ CompareAndSet(ResumeKey, link.cursor, link.revision, id, link.now)
         /\ links' = [links EXCEPT ![l] =
                IF outcome \in {"written", "replayed"}
                THEN [link EXCEPT !.pc = "ready", !.revision = @ + 1]
                ELSE [link EXCEPT !.pc = outcome]]
      \/ /\ links' = [links EXCEPT ![l] = [link EXCEPT !.pc = "failed"]]
         /\ UNCHANGED <<current, retained, written>>
  BY DEF Saved, SetLink
<1>8. outcome # "written" /\ CompareAndSet(ResumeKey, link.cursor, link.revision, id, link.now) =>
         UNCHANGED <<current, retained, written>>
  BY <1>4 DEF CompareAndSet
<1> QED BY <1>4, <1>5, <1>6, <1>7, <1>8

\* The other steps of a connection, and time, leave the store alone.
LEMMA LinkStepKeepsInv ==
    ASSUME StateInv,
           \/ PassTime
           \/ \E l \in Links :
                 Connect(l) \/ Operate(l) \/ RemoteEvent(l) \/ Returned(l) \/ Disconnect(l)
    PROVE  StateInv' /\ UNCHANGED current
<1>1. UNCHANGED <<current, retained, written>> /\ stateTime \in Nat /\ stateTime' \in Nat
      /\ stateTime' >= stateTime
  <2>1. stateTime \in Nat
    BY DEF StateInv, StoreInv
  <2>2. UNCHANGED <<current, retained, written>>
    BY DEF PassTime, Connect, Operate, RemoteEvent, Returned, Disconnect
  <2>3. stateTime' = stateTime + 1 \/ stateTime' = stateTime
    BY DEF PassTime, Connect, Operate, RemoteEvent, Returned, Disconnect
  <2> QED BY <2>1, <2>2, <2>3
<1>2. StoreInv'
  BY <1>1 DEF StateInv, StoreInv, RetentionWindow
<1>3. ASSUME PassTime PROVE LinkInv' /\ LoneLinkLives'
  BY <1>1, <1>3 DEF PassTime, StateInv, LinkInv, LinkType, LoneLinkLives
<1>4. ASSUME NEW l \in Links,
             Connect(l) \/ Operate(l) \/ RemoteEvent(l) \/ Returned(l) \/ Disconnect(l)
      PROVE  LinkInv' /\ LoneLinkLives'
  <2> USE <1>1 DEF StateInv, StoreInv, SetLink, Active
  <2>1. links[l] \in LinkType /\ links \in [Links -> LinkType] /\ remote \in Nat /\ connects \in Nat
        /\ current[ResumeKey].value \in Nat /\ current[ResumeKey].revision \in Nat
        /\ UNCHANGED stateTime
    BY <1>4 DEF LinkInv, AllKeys, Connect, Operate, RemoteEvent, Returned, Disconnect
  <2>2. CASE Connect(l)
    <3> DEFINE new == [pc |-> "ready", revision |-> current[ResumeKey].revision,
                       cursor |-> current[ResumeKey].value, sequence |-> 0,
                       writer |-> connects + 1, now |-> 0]
    <3>1. /\ links' = [links EXCEPT ![l] = new]
          /\ connects' = connects + 1 /\ remote' = remote
      BY <2>2 DEF Connect
    <3>2. /\ new.pc = "ready" /\ new.revision = current[ResumeKey].revision
          /\ new.cursor = current[ResumeKey].value /\ new.sequence = 0
          /\ new.writer = connects + 1 /\ new.now = 0
      OBVIOUS
    <3>5. new \in LinkType
      BY <2>1 DEF LinkType
    <3> HIDE DEF new
    <3>6. /\ links'[l] = new /\ links' \in [Links -> LinkType]
          /\ \A m \in Links : m # l => links'[m] = links[m]
      BY <2>1, <3>1, <3>5
    <3>3. LoneLinkLives'
      BY <3>2, <3>6 DEF LoneLinkLives
    <3>4. LinkInv'
      <4>1. ASSUME NEW m \in Links
            PROVE  /\ links'[m].now <= stateTime'
                   /\ links'[m].cursor <= remote'
                   /\ links'[m].writer <= connects'
                   /\ links'[m].pc \in Active => links'[m].writer > 0
                   /\ links'[m].pc \in Active => links'[m].revision <= current'[ResumeKey].revision
                   /\ links'[m].pc \in Active /\ links'[m].revision = current'[ResumeKey].revision
                         => links'[m].cursor >= current'[ResumeKey].value
        <5>1. CASE m = l
          BY <2>1, <3>1, <3>2, <3>6, <5>1 DEF LinkInv
        <5>2. CASE m # l
          BY <2>1, <3>1, <3>6, <5>2 DEF LinkInv, LinkType
        <5> QED BY <5>1, <5>2
      <4>2. ASSUME NEW p \in written, NEW m \in Links, NEW w \in Nat, NEW s \in Nat,
                   p.id = <<m, w, s>>
            PROVE  /\ w <= connects' /\ w > 0
                   /\ w = links'[m].writer => s <= links'[m].sequence
                   /\ w = links'[m].writer /\ links'[m].pc = "saving" => s < links'[m].sequence
                   /\ w = links'[m].writer /\ links'[m].pc \in Active =>
                         p.record.revision <= links'[m].revision
        <5>1. w <= connects /\ w > 0
          BY <4>2 DEF LinkInv
        <5>2. CASE m = l
          BY <2>1, <3>1, <3>2, <3>6, <5>1, <5>2
        <5>3. CASE m # l
          BY <2>1, <3>1, <3>6, <4>2, <5>1, <5>3 DEF LinkInv
        <5> QED BY <5>2, <5>3
      <4>3. /\ links' \in [Links -> LinkType] /\ remote' \in Nat /\ connects' \in Nat
            /\ current'[ResumeKey].value \in Nat /\ current'[ResumeKey].value <= remote'
        BY <2>1, <3>1, <3>6 DEF LinkInv
      <4>4. written' = written
        OBVIOUS
      <4> QED BY <4>1, <4>2, <4>3, <4>4, ZenonT(30) DEF LinkInv
    <3> QED BY <3>3, <3>4
  <2>3. CASE Operate(l)
    <3>1. /\ links' = [links EXCEPT ![l] = [links[l] EXCEPT !.pc = "busy"]]
          /\ links[l].pc = "ready" /\ UNCHANGED <<connects, remote>>
      BY <2>3 DEF Operate
    <3> QED BY <2>1, <3>1 DEF LinkInv, LinkType, LoneLinkLives
  <2>4. CASE RemoteEvent(l)
    <3>1. /\ links' = [links EXCEPT ![l] = [links[l] EXCEPT !.cursor = remote + 1]]
          /\ links[l].pc = "busy" /\ remote' = remote + 1 /\ UNCHANGED connects
      BY <2>4 DEF RemoteEvent
    <3>2. /\ links'[l] = [pc |-> "busy", revision |-> links[l].revision, cursor |-> remote + 1,
                          sequence |-> links[l].sequence, writer |-> links[l].writer,
                          now |-> links[l].now]
          /\ \A m \in Links : m # l => links'[m] = links[m]
          /\ links' \in [Links -> LinkType]
      BY <2>1, <3>1 DEF LinkType
    <3>3. LinkInv'
      BY <2>1, <3>1, <3>2 DEF LinkInv, LinkType
    <3>4. LoneLinkLives'
      BY <2>1, <3>2 DEF LoneLinkLives
    <3> QED BY <3>3, <3>4
  <2>5. CASE Returned(l)
    <3>1. /\ links' = [links EXCEPT ![l] = [links[l] EXCEPT !.pc = "saving",
                          !.sequence = links[l].sequence + 1, !.now = stateTime]]
          /\ links[l].pc = "busy" /\ UNCHANGED <<connects, remote>>
      BY <2>5 DEF Returned
    <3>2. /\ links'[l].pc = "saving" /\ links'[l].revision = links[l].revision
          /\ links'[l].cursor = links[l].cursor /\ links'[l].sequence = links[l].sequence + 1
          /\ links'[l].writer = links[l].writer /\ links'[l].now = stateTime
          /\ \A m \in Links : m # l => links'[m] = links[m]
      BY <2>1, <3>1 DEF LinkType
    <3>5. links' \in [Links -> LinkType]
      <4>1. [links[l] EXCEPT !.pc = "saving"] \in LinkType /\ links[l].sequence + 1 \in Nat
        BY <2>1, LinkUpdate DEF LinkType
      <4>2. [[links[l] EXCEPT !.pc = "saving"] EXCEPT !.sequence = links[l].sequence + 1] \in LinkType
        BY <4>1, LinkUpdate
      <4>3. [[[links[l] EXCEPT !.pc = "saving"] EXCEPT !.sequence = links[l].sequence + 1]
                EXCEPT !.now = stateTime] \in LinkType
        BY <4>2, LinkUpdate
      <4>4. links'[l] \in LinkType
        BY <2>1, <3>1, <4>3
      <4> QED BY <2>1, <3>1, <4>4
    <3>3. LinkInv'
      BY <2>1, <3>1, <3>2, <3>5 DEF LinkInv, LinkType
    <3>4. LoneLinkLives'
      BY <2>1, <3>2, SMTT(30) DEF LoneLinkLives
    <3> QED BY <3>3, <3>4
  <2>6. CASE Disconnect(l)
    <3>1. links' = [links EXCEPT ![l] = Down] /\ UNCHANGED <<connects, remote>>
      BY <2>6 DEF Disconnect
    <3>2. /\ links'[l] = Down /\ Down \in LinkType /\ links' \in [Links -> LinkType]
          /\ \A m \in Links : m # l => links'[m] = links[m]
      BY <2>1, <3>1 DEF LinkType, Down
    <3>3. Down.pc = "down" /\ Down.writer = 0 /\ Down.now = 0 /\ Down.cursor = 0
      BY DEF Down
    <3>4. LoneLinkLives'
      BY <3>2, <3>3 DEF LoneLinkLives
    <3>5. LinkInv'
      <4>1. ASSUME NEW m \in Links
            PROVE  /\ links'[m].now <= stateTime'
                   /\ links'[m].cursor <= remote'
                   /\ links'[m].writer <= connects'
                   /\ links'[m].pc \in Active => links'[m].writer > 0
                   /\ links'[m].pc \in Active => links'[m].revision <= current'[ResumeKey].revision
                   /\ links'[m].pc \in Active /\ links'[m].revision = current'[ResumeKey].revision
                         => links'[m].cursor >= current'[ResumeKey].value
        <5>1. CASE m = l
          BY <2>1, <3>1, <3>2, <3>3, <5>1
        <5>2. CASE m # l
          BY <2>1, <3>1, <3>2, <5>2 DEF LinkInv
        <5> QED BY <5>1, <5>2
      <4>2. ASSUME NEW p \in written, NEW m \in Links, NEW w \in Nat, NEW s \in Nat,
                   p.id = <<m, w, s>>
            PROVE  /\ w <= connects' /\ w > 0
                   /\ w = links'[m].writer => s <= links'[m].sequence
                   /\ w = links'[m].writer /\ links'[m].pc = "saving" => s < links'[m].sequence
                   /\ w = links'[m].writer /\ links'[m].pc \in Active =>
                         p.record.revision <= links'[m].revision
        <5>1. w <= connects /\ w > 0
          BY <4>2 DEF LinkInv
        <5>2. CASE m = l
          BY <3>1, <3>2, <3>3, <5>1, <5>2, SMTT(30)
        <5>3. CASE m # l
          <6>1. links'[m] = links[m] /\ connects' = connects
            BY <3>1, <3>2, <5>3
          <6>2. /\ w = links[m].writer => s <= links[m].sequence
                /\ w = links[m].writer /\ links[m].pc = "saving" => s < links[m].sequence
                /\ w = links[m].writer /\ links[m].pc \in Active =>
                      p.record.revision <= links[m].revision
            BY <4>2 DEF LinkInv
          <6> QED BY <5>1, <6>1, <6>2
        <5> QED BY <5>2, <5>3
      <4>3. /\ links' \in [Links -> LinkType] /\ remote' \in Nat /\ connects' \in Nat
            /\ current'[ResumeKey].value \in Nat /\ current'[ResumeKey].value <= remote'
        BY <2>1, <3>1, <3>2 DEF LinkInv
      <4>4. written' = written
        OBVIOUS
      <4> QED BY <4>1, <4>2, <4>3, <4>4, ZenonT(30) DEF LinkInv
    <3> QED BY <3>4, <3>5
  <2> QED BY <1>4, <2>2, <2>3, <2>4, <2>5, <2>6
<1> QED BY <1>1, <1>2, <1>3, <1>4 DEF StateInv

LEMMA StateStep ==
    StateInv /\ [StateNext]_stateVars =>
        StateInv' /\ current'[ResumeKey].value >= current[ResumeKey].value
<1> SUFFICES ASSUME StateInv, [StateNext]_stateVars
             PROVE  StateInv' /\ current'[ResumeKey].value >= current[ResumeKey].value
  OBVIOUS
<1>1. current[ResumeKey].value \in Nat
  BY DEF StateInv, LinkInv
<1>2. CASE UNCHANGED stateVars
  <2>1. UNCHANGED <<stateTime, current, retained, written, links, remote, connects>>
    BY <1>2 DEF stateVars
  <2>2. StoreInv'
    BY <2>1 DEF StateInv, StoreInv, RetentionWindow
  <2>3. LinkInv'
    BY <2>1 DEF StateInv, LinkInv
  <2>4. LoneLinkLives'
    BY <2>1 DEF StateInv, LoneLinkLives
  <2>5. current'[ResumeKey].value >= current[ResumeKey].value
    BY <1>1, <2>1
  <2> QED BY <2>2, <2>3, <2>4, <2>5 DEF StateInv
<1>3. CASE StateNext
  <2>1. CASE \E k \in StateKeys, v \in Values, i \in CommandIds,
                expected \in 0..MaxWrites, now \in 0..stateTime :
                   Command(k, v, expected, <<i>>, now)
    BY <1>1, <2>1, OtherCommandKeepsInv
  <2>2. CASE \E l \in Links : Saved(l)
    BY <2>2, SavedKeepsInv
  <2>3. CASE \/ PassTime
             \/ \E l \in Links :
                   Connect(l) \/ Operate(l) \/ RemoteEvent(l) \/ Returned(l) \/ Disconnect(l)
    BY <1>1, <2>3, LinkStepKeepsInv
  <2> QED BY <1>3, <2>1, <2>2, <2>3 DEF StateNext
<1> QED BY <1>2, <1>3

\* Every reachable state satisfies the inductive invariant.
THEOREM StateInvariant == StateSpec => []StateInv
BY StateInitInv, StateStep, PTL DEF StateSpec

\* No idempotency key writes twice in its window, and a replay reports what
\* was written, for every retention time and every delay at the lock.
THEOREM RetentionWindowAlways == StateSpec => []RetentionWindow
BY StateInvariant, PTL DEF StateInv, StoreInv

\* The stored cursor of an endpoint never goes back.
THEOREM CursorAlwaysKept == StateSpec => CursorKept
<1>1. StateInv /\ [StateNext]_stateVars =>
         [current'[ResumeKey].value >= current[ResumeKey].value]_stateVars
  BY StateStep
<1> QED BY <1>1, StateInvariant, PTL DEF StateSpec, CursorKept

\* Only another connection's write can put a connection out of step.
THEOREM LoneLinkAlwaysLives == StateSpec => []LoneLinkLives
BY StateInvariant, PTL DEF StateInv
==============================================================================
