------------------------- MODULE ChannelApplication -------------------------
(***************************************************************************)
(* Several server processes that handle the messages of one conversation   *)
(* over one durable session store.                                         *)
(*                                                                         *)
(* A process serializes a conversation with an in-process lock             *)
(* (_SessionLocks), so it runs at most one handler for the session; two    *)
(* processes share nothing but the store.  A handler is the coroutine      *)
(* _handle_locked: each await on the store is one step, and everything     *)
(* between two awaits happens in the step of the first.  Stop requests and *)
(* memory invalidations do not take the lock and happen at any time.       *)
(*                                                                         *)
(* A message and its run are the same value: run_id is a hash of the       *)
(* session, the principal, the channel and message_id.                     *)
(***************************************************************************)
EXTENDS SessionStore

CONSTANTS
    Procs,          \* server processes
    Deliveries,     \* ways one message may arrive: [content, at]
    MaxHandlers,    \* bound: handler invocations (each has a fresh token)
    MaxClock,       \* bound: clock
    MaxInvalidations, \* bound: events an invalidation may add
    MaxDrops,       \* bound: handlers that vanish
    MaxTools,       \* bound: tool calls one run starts
    MaxMarks,       \* bound: checkpoint events in flight
    MaxFaults,      \* bound: store calls that raise
    MaxInterrupts,  \* bound: cancelled or closed handlers
    MaxStops,       \* bound: runs that are stopped
    HookOutcomes,   \* what the caller's before_commit may do
    MaxTrim,        \* bound: finished entries the byte limit removes at once
    ShortTerm,      \* how many newest pairs the short-term limits may leave
    HistoryLimit,   \* checkpoint_history_limit
    ScanLimit,      \* conversation_scan_limit
    TargetOf,       \* [continuation message -> message it continues]
    Signals,        \* idempotency keys of invalidation requests
    LegacyRuns      \* runs started before the claim table existed

ASSUME BoundAssumption ==
    /\ MaxHandlers \in Nat /\ Owners = 1..MaxHandlers
    /\ HistoryLimit \in Nat \ {0} /\ ScanLimit \in Nat \ {0, 1}
    /\ MaxClock \in Nat /\ MaxTools \in Nat /\ MaxMarks \in Nat
    /\ MaxFaults \in Nat /\ MaxInterrupts \in Nat /\ MaxStops \in Nat
    /\ MaxInvalidations \in Nat /\ MaxTrim \in Nat /\ MaxDrops \in Nat
    /\ HookOutcomes \subseteq {"accept", "reject", "cancel"}
    /\ ShortTerm \subseteq Nat /\ ShortTerm # {}

ASSUME ContinuationAssumption ==
    /\ DOMAIN TargetOf \subseteq Runs
    /\ \A c \in DOMAIN TargetOf : TargetOf[c] \in Runs \ {c}
    /\ LegacyRuns \subseteq Runs

VARIABLES
    h,            \* h[p]: the handler of process p, local variables of _handle_locked
    tokens,       \* owner tokens handed out so far
    executions,   \* ghost: executions[m] = times the activation ran m
    toolsStarted, \* ghost: toolsStarted[m] = tool calls m's execution started
    archive,      \* the Markdown archive file: header revision and whose answers it holds
    answers,      \* what each finished handler told its caller
    faults,       \* store calls that raised so far
    interrupts    \* handlers interrupted so far

appVars == <<h, tokens, executions, toolsStarted, archive, answers, faults, interrupts>>

vars == <<storeVars, appVars>>

(***************************************************************************)
(* Payloads, keys and the retained run history.                            *)
(***************************************************************************)
\* The user event holds the whole inbound message, received_at included.
UserBody(d, c) == [run_status |-> "none", delivery |-> d, continues |-> c]

TerminalBody(rs, unsafe) == [run_status |-> rs, unsafe |-> unsafe]

InvalidationBody == [run_status |-> "none"]

UserKey(m) == <<m, "user">>
TerminalKey(m) == <<m, "terminal">>
UncertainKey(m) == <<m, "uncertain">>

RunDraft(k, kind, m, body) ==
    [key |-> k, kind |-> kind, run |-> m, body |-> body, source |-> NoSource, version |-> 0]

Entry(m, digest, state, rs) == [run |-> m, digest |-> digest, state |-> state, run_status |-> rs]

\* The outcome of a run as the handler carries it: what _terminal_from_result
\* and the failure branches assign to kind, payload and transcript_type.
Outcome(kind, rs) == [kind |-> kind, run_status |-> rs]

Completed(o) == o.kind = "assistant"

StatusOf(o) ==
    IF Completed(o) THEN "completed"
    ELSE IF o.run_status = "cancelled" THEN "cancelled" ELSE "failed"

NoOutcome == Outcome("none", "none")

\* _find_run: the index of m in a history, as a set of at most one.
FindRun(hist, m) == {i \in 1..Len(hist) : hist[i].run = m}

The(S) == CHOOSE x \in S : TRUE

\* Mutant: every entry counts as finished.
FinishedAny(hist) == 1..Len(hist)

\* _append_started and _history_state make room by removing the oldest
\* finished entries; an unfinished entry always stays.
Finished(hist) == {i \in 1..Len(hist) : hist[i].state # "started"}

OldestFinished(hist, n) ==
    {i \in Finished(hist) : Cardinality({j \in Finished(hist) : j <= i}) <= n}

Without(hist, gone) ==
    LET keep == (1..Len(hist)) \ gone
    IN  [i \in 1..Cardinality(keep) |->
            hist[CHOOSE k \in keep : Cardinality({j \in keep : j <= k}) = i]]

\* _history_state: the byte limit may force out up to MaxTrim finished entries.
HistoryStates(hist) == {Without(hist, OldestFinished(hist, n)) : n \in 0..MaxTrim}

\* _append_started raises when every entry is unfinished.
MayStart(hist) == Len(hist) < HistoryLimit \/ Finished(hist) # {}

AppendStarted(hist, m, digest) ==
    Append(IF Len(hist) < HistoryLimit THEN hist ELSE Without(hist, OldestFinished(hist, 1)),
           Entry(m, digest, "started", "none"))

\* Mutant: the entry forgets that the run was cancelled.
WithTerminalUniform(hist, m, digest, o) ==
    [i \in 1..Len(hist) |->
        IF hist[i].run = m
        THEN Entry(m, digest, IF Completed(o) THEN "completed" ELSE "failed",
                   IF Completed(o) THEN "succeeded" ELSE "failed")
        ELSE hist[i]]

WithTerminal(hist, m, digest, o) ==
    [i \in 1..Len(hist) |->
        IF hist[i].run = m
        THEN Entry(m, digest, IF Completed(o) THEN "completed" ELSE "failed", o.run_status)
        ELSE hist[i]]

\* _load_history, and the rule that the runs of a checkpoint which an
\* invalidation has overtaken are forgotten.
LoadedHistory == IF HasCheckpoint THEN LatestCheckpoint.state.runs ELSE <<>>

RetainedHistory ==
    IF HasCheckpoint /\ LatestCheckpoint.revision > cutoff THEN LoadedHistory ELSE <<>>

(***************************************************************************)
(* The working summary (MemoryState) that every checkpoint carries beside  *)
(* the history: whose answers it may speak of, and covered_revision.       *)
(***************************************************************************)
NoMemory == [covered |-> 0, summary |-> {}]

\* _load_memory_state, and the reset of a state the cutoff has overtaken.
LoadedMemory == IF HasCheckpoint THEN LatestCheckpoint.state.memory ELSE NoMemory

RetainedMemory ==
    IF LoadedMemory.covered < cutoff THEN [covered |-> cutoff, summary |-> {}] ELSE LoadedMemory

\* extract_completed_pairs: the answers of `T` that close an open question.
Pairs(T) ==
    {i \in 1..Len(T) :
        /\ T[i].kind = "assistant"
        /\ \E j \in 1..(i - 1) : T[j].kind = "user"
              /\ \A k \in (j + 1)..(i - 1) : T[k].kind = "invalidated"}

ShortTermPairs(T, n) == {i \in Pairs(T) : Cardinality({j \in Pairs(T) : j >= i}) <= n}

\* prepare: the older pairs that the state does not cover yet are folded into
\* the summary.  A summary may say less than it was given, never more.
PreparedMemory(T, mem, n) ==
    LET folded == {i \in Pairs(T) \ ShortTermPairs(T, n) : T[i].revision > mem.covered}
    IN  IF folded = {} THEN mem
        ELSE [covered |-> T[CHOOSE i \in folded : \A j \in folded : j <= i].revision,
              summary |-> mem.summary \cup {T[i].run : i \in folded}]

\* The index of the newest event of `T` whose kind is in `kinds`, 0 if none.
LastOf(T, kinds) ==
    LET hits == {i \in 1..Len(T) : T[i].kind \in kinds}
    IN  IF hits = {} THEN 0 ELSE CHOOSE i \in hits : \A j \in hits : j <= i

(***************************************************************************)
(* Handlers.                                                               *)
(***************************************************************************)
NoDelivery == [content |-> "none", at |-> 0]

NoMark == [created |-> 0, cutoff |-> 0, versions |-> [s \in Sources |-> 0], progress |-> 0]

\* The local variables of a handler.  rev: the revision it expects next; cut
\* and st: memory_cutoff and the status of its snapshot; queue: run events
\* between the runner and the handler; marks, over: what the runner emitted;
\* seen: stop_seen; intr: the exception to re-raise; ev: the revision of its
\* terminal event; from, mark: the run it continues and the resume point; mem:
\* memory_state; context: whose answers the conversation shows beside it.
Idle == [pc |-> "idle", msg |-> NoRun, del |-> NoDelivery, own |-> NoOwner,
         now |-> 0, rev |-> 0, cut |-> 0, st |-> "active", hist |-> <<>>,
         queue |-> <<>>, marks |-> 0, over |-> FALSE, seen |-> FALSE,
         unsafe |-> FALSE, out |-> NoOutcome, intr |-> "no", ev |-> 0,
         tries |-> 0, latest |-> FALSE, how |-> "run",
         from |-> NoRun, mark |-> NoMark, mem |-> NoMemory, context |-> {}]

At(p, pcs) == h[p].pc \in pcs

Goto(p, local) == h' = [h EXCEPT ![p] = local] /\ UNCHANGED answers

\* The handler of p ends; `kind` is the terminal event it yields, or the
\* exception its caller gets.
Finish(p, kind) ==
    /\ h' = [h EXCEPT ![p] = Idle]
    /\ answers' = answers \cup {[owner |-> h[p].own, run |-> h[p].msg, kind |-> kind]}

\* An interrupted handler re-raises instead of yielding.
FinishUnlessInterrupted(p, kind) ==
    Finish(p, IF h[p].intr = "no" THEN kind ELSE "raised")

Local == UNCHANGED <<tokens, executions, toolsStarted, archive, faults, interrupts>>

ReadOnly == UNCHANGED storeVars

(***************************************************************************)
(* handle: take the session lock, create the session, draw an owner token. *)
(***************************************************************************)
\* Mutant: every handler gets the same owner token.
BeginSharedToken(p, m, d, pc) ==
    /\ At(p, {"idle"})
    /\ tokens < MaxHandlers
    /\ tokens' = tokens + 1
    /\ Goto(p, [Idle EXCEPT !.pc = pc, !.msg = m, !.del = d, !.own = 1])
    /\ UNCHANGED <<executions, toolsStarted, archive, faults, interrupts>>

Begin(p, m, d, pc) ==
    /\ At(p, {"idle"})
    /\ tokens < MaxHandlers
    /\ tokens' = tokens + 1
    /\ Goto(p, [Idle EXCEPT !.pc = pc, !.msg = m, !.del = d, !.own = tokens + 1])
    /\ UNCHANGED <<executions, toolsStarted, archive, faults, interrupts>>

Deliver(p, m, d) ==
    /\ m \notin DOMAIN TargetOf
    /\ Begin(p, m, d, "resume")
    /\ Create

(***************************************************************************)
(* continue_task.  The reads after the first are one step: Verify compares *)
(* the revision of the first read with the one of the handler's snapshot,  *)
(* so a change between them is caught there, and the point is read again.  *)
(***************************************************************************)
DeliverContinuation(p, m, d) ==
    /\ m \in DOMAIN TargetOf
    /\ Begin(p, m, d, "record")
    /\ ReadOnly

ReadRecord(p) ==
    /\ At(p, {"record"})
    /\ Goto(p, [h[p] EXCEPT !.pc = "source", !.latest = created, !.ev = revision,
                            !.mark = [NoMark EXCEPT !.cutoff = cutoff, !.versions = versions]])
    /\ Local /\ ReadOnly

\* The target is the newest run of the conversation, was cancelled, and its
\* point is current.
Continuable(p, source) ==
    LET T == RecentTranscript(1000)
        last == LastOf(T, {"assistant", "error", "cancel"})
        user == LastOf(T, {"user"})
    IN  /\ h[p].latest
        /\ source \in LivePoints
        /\ LoadedHistory # <<>> /\ LoadedHistory[Len(LoadedHistory)].run = source
        /\ user # 0 /\ T[user].run = source
        /\ last # 0 /\ T[last].kind = "cancel" /\ T[last].run = source
        /\ ~T[last].body.unsafe
        /\ points[source].cutoff = h[p].mark.cutoff
        /\ points[source].versions = h[p].mark.versions

ReadSource(p) ==
    /\ At(p, {"source"})
    /\ LET source == TargetOf[h[p].msg]
       IN  \/ /\ HasEvent(UserKey(h[p].msg))
              /\ Goto(p, [h[p] EXCEPT !.pc = "resume", !.mark = NoMark,
                                      !.latest = FALSE, !.ev = 0])
           \/ /\ ~HasEvent(UserKey(h[p].msg)) /\ Continuable(p, source)
              /\ Goto(p, [h[p] EXCEPT !.pc = "resume", !.from = source,
                                      !.mark = points[source], !.latest = FALSE])
           \/ /\ ~HasEvent(UserKey(h[p].msg)) /\ ~Continuable(p, source)
              /\ Finish(p, "error")
    /\ ExpireResumePoints
    /\ Local

(***************************************************************************)
(* The snapshot, and the ways it sends the message.                        *)
(***************************************************************************)
Route(local) ==
    LET cached == FindRun(local.hist, local.msg)
        entry == local.hist[The(cached)]
    IN  IF cached = {} THEN "context"
        ELSE IF entry.digest # local.del.content THEN "conflict"
        ELSE IF entry.state = "started" THEN "scan" ELSE "repair"

Enter(p, local) ==
    IF Route(local) = "conflict" THEN Finish(p, "conflict")
    ELSE Goto(p, [local EXCEPT !.pc = Route(local)])

Resume(p) ==
    /\ At(p, {"resume"})
    /\ LET local == [h[p] EXCEPT !.rev = revision, !.cut = cutoff, !.st = status,
                                 !.hist = RetainedHistory, !.mem = RetainedMemory]
       IN  IF local.from # NoRun THEN Goto(p, [local EXCEPT !.pc = "verify"])
           ELSE Enter(p, local)
    /\ Local /\ ReadOnly

\* The versions of the snapshot are those of the record: its revision is.
Verify(p) ==
    /\ At(p, {"verify"})
    /\ IF /\ h[p].from \in LivePoints /\ points[h[p].from] = h[p].mark
          /\ h[p].rev = h[p].ev
          /\ h[p].cut = h[p].mark.cutoff
       THEN Enter(p, [h[p] EXCEPT !.ev = 0])
       ELSE Finish(p, "error")
    /\ ExpireResumePoints
    /\ Local

(***************************************************************************)
(* A fresh message: context, user event, status, claim, started entry.     *)
(***************************************************************************)
RecentAfter(cut) == SelectSeq(RecentTranscript(ScanLimit), LAMBDA e : e.revision > cut)

\* Mutant: the recent transcript is not filtered by the cutoff.
ReadRecentUnfiltered(p) ==
    /\ At(p, {"context"})
    /\ \E n \in ShortTerm :
         LET T == RecentAfter(0)
         IN  Goto(p, [h[p] EXCEPT !.pc = "longterm", !.mem = PreparedMemory(T, @, n),
                                  !.context = {T[i].run : i \in ShortTermPairs(T, n)}])
    /\ Local /\ ReadOnly

\* The transcript after the cutoff of the snapshot, however old that is by
\* now, and prepare, which awaits its summary callback but reads no store.
ReadRecent(p) ==
    /\ At(p, {"context"})
    /\ \E n \in ShortTerm :
         LET T == RecentAfter(h[p].cut)
         IN  Goto(p, [h[p] EXCEPT !.pc = "longterm", !.mem = PreparedMemory(T, @, n),
                                  !.context = {T[i].run : i \in ShortTermPairs(T, n)}])
    /\ Local /\ ReadOnly

\* _archive_text: the file as it is now, unless its header is outside (cutoff,
\* revision] of the snapshot; a read that fails leaves it out.  A continuation
\* brings a conversation of its own instead.
ReadArchive(p) ==
    /\ At(p, {"longterm"})
    /\ \E archived \in {{}, IF h[p].cut < archive.rev /\ archive.rev <= h[p].rev
                            THEN archive.runs ELSE {}} :
         Goto(p, [h[p] EXCEPT !.pc = "user",
                    !.context = IF h[p].from # NoRun THEN {} ELSE @ \cup archived])
    /\ Local /\ ReadOnly

InputBody(p) ==
    IF h[p].from = NoRun THEN UserBody(h[p].del, NoRun)
    ELSE [EventOf(UserKey(h[p].from)).body EXCEPT !.continues = h[p].from]

\* An event that another process appended after this snapshot counts as this
\* handler's own; the claim decides between the two.
AppendUser(p) ==
    /\ At(p, {"user"})
    /\ LET m == h[p].msg
           d == RunDraft(UserKey(m), "user", m, InputBody(p))
           outcome == AppendOutcome(d, h[p].rev)
           go(rev) == Goto(p, [h[p] EXCEPT !.rev = rev, !.now = clock,
                         !.pc = IF h[p].st = "active" THEN "claim" ELSE "activate"])
       IN  \/ /\ outcome = "appended"
              /\ AppendEvent(d, h[p].rev)
              /\ go(revision + 1)
           \/ /\ outcome = "replay"
              /\ IF EventOf(UserKey(m)).revision > h[p].rev
                 THEN go(EventOf(UserKey(m)).revision)
                 ELSE Finish(p, "unavailable")
              /\ ReadOnly
           \/ /\ outcome = "conflict" /\ Finish(p, "conflict") /\ ReadOnly
           \/ /\ outcome \in {"revision", "capacity"} /\ Finish(p, "error") /\ ReadOnly
    /\ Local

Activate(p) ==
    /\ At(p, {"activate"})
    /\ \/ /\ SetStatus("active", h[p].rev)
          /\ Goto(p, [h[p] EXCEPT !.pc = "claim", !.rev = revision + 1, !.now = clock])
       \/ /\ revision # h[p].rev /\ Finish(p, "error") /\ ReadOnly
    /\ Local

Claim(p) ==
    /\ At(p, {"claim"})
    /\ \E now \in h[p].now..clock :
         /\ ClaimRun(h[p].msg, h[p].own, now)
         /\ CASE ClaimOutcome(h[p].msg, now) = "acquired" ->
                   Goto(p, [h[p] EXCEPT !.pc = "started", !.now = 0])
              [] ClaimOutcome(h[p].msg, now) = "live" -> Finish(p, "in_progress")
              [] ClaimOutcome(h[p].msg, now) = "stale" -> Finish(p, "uncertain")
              [] ClaimOutcome(h[p].msg, now) = "capacity" -> Finish(p, "error")
    /\ Local

\* Saves `hist` and the memory under the key `k`; `next` is the handler once
\* they are saved.
SaveHistory(p, k, hist, next(_)) ==
    \E s \in HistoryStates(hist), kept \in 1..MaxCheckpoints :
        /\ SaveCheckpoint(k, [runs |-> s, memory |-> h[p].mem], h[p].rev, kept)
        /\ next(s)

SaveStarted(p) ==
    /\ At(p, {"started"})
    /\ LET m == h[p].msg
           hist == AppendStarted(h[p].hist, m, h[p].del.content)
           go(s) == Goto(p, [h[p] EXCEPT !.pc = "leasing", !.rev = revision + 1, !.hist = s])
       IN  \/ /\ MayStart(h[p].hist)
              /\ SaveHistory(p, <<m, "started">>, hist, go)
           \/ /\ ~MayStart(h[p].hist) \/ revision # h[p].rev
              /\ Finish(p, "error") /\ ReadOnly
    /\ Local

(***************************************************************************)
(* Execution.  The runner works on its own and feeds run events to the     *)
(* handler through a queue; the stop watcher looks at the store meanwhile. *)
(***************************************************************************)
RunEvent(kind, progress, rs) == [kind |-> kind, progress |-> progress, run_status |-> rs]

Executing == {"running", "saving"}

\* The end of the guarded section: the stream is closed, which stops the
\* runner and drops the events still in the queue.
Leave(p, o, unsafe, intr) ==
    Goto(p, [h[p] EXCEPT !.pc = "check", !.out = o, !.unsafe = unsafe, !.intr = intr,
                         !.queue = <<>>, !.marks = 0, !.over = FALSE,
                         !.mark = NoMark, !.context = {}])

\* grants.lease and activation.stream; either may refuse.
StartRun(p) ==
    /\ At(p, {"leasing"})
    /\ \/ /\ Goto(p, [h[p] EXCEPT !.pc = "running"])
          /\ executions' = [executions EXCEPT ![h[p].msg] = @ + 1]
       \/ /\ Leave(p, Outcome("error", "failed"), FALSE, "no")
          /\ UNCHANGED executions
    /\ UNCHANGED <<tokens, toolsStarted, archive, faults, interrupts>> /\ ReadOnly

\* publish puts tool_started in the queue before the tool is called.
RunnerTool(p) ==
    /\ At(p, Executing) /\ ~h[p].over
    /\ toolsStarted[h[p].msg] < MaxTools
    /\ toolsStarted' = [toolsStarted EXCEPT ![h[p].msg] = @ + 1]
    /\ Goto(p, [h[p] EXCEPT !.queue = Append(@, RunEvent("tool", 0, "none"))])
    /\ UNCHANGED <<tokens, executions, archive, faults, interrupts>> /\ ReadOnly

RunnerCheckpoint(p) ==
    /\ At(p, Executing) /\ ~h[p].over
    /\ h[p].marks < MaxMarks
    /\ Goto(p, [h[p] EXCEPT !.marks = @ + 1,
                   !.queue = Append(@, RunEvent("mark", toolsStarted[h[p].msg], "none"))])
    /\ Local /\ ReadOnly

\* Mutant: a cancelled run publishes no result.
RunnerFinishSilent(p, rs) ==
    /\ At(p, Executing) /\ ~h[p].over
    /\ rs = "cancelled" => h[p].seen
    /\ Goto(p, [h[p] EXCEPT !.over = TRUE,
           !.queue = IF rs = "cancelled" THEN @ ELSE Append(@, RunEvent("result", 0, rs))])
    /\ Local /\ ReadOnly

\* The run ends; it is cancelled only when the watcher has signalled it.
RunnerFinish(p, rs) ==
    /\ At(p, Executing) /\ ~h[p].over
    /\ rs = "cancelled" => h[p].seen
    /\ Goto(p, [h[p] EXCEPT !.over = TRUE, !.queue = Append(@, RunEvent("result", 0, rs))])
    /\ Local /\ ReadOnly

FromResult(rs) == IF rs = "succeeded" THEN Outcome("assistant", rs) ELSE Outcome("error", rs)

\* One run event; every one is preceded by a look at the cutoff.
ConsumeEvent(p) ==
    /\ At(p, {"running"}) /\ h[p].queue # <<>>
    /\ LET e == Head(h[p].queue)
           local == [h[p] EXCEPT !.queue = Tail(@)]
           mark == [created |-> clock, cutoff |-> cutoff, versions |-> versions,
                    progress |-> e.progress]
       IN  IF cutoff # h[p].cut
           THEN Leave(p, Outcome("error", "failed"), h[p].unsafe, "no")
           ELSE \/ e.kind = "tool" /\ Goto(p, [local EXCEPT !.unsafe = TRUE])
                \/ e.kind = "mark" /\ Goto(p, [local EXCEPT !.pc = "saving", !.mark = mark])
                \/ e.kind = "result" /\ Leave(p, FromResult(e.run_status), h[p].unsafe, "no")
    /\ Local /\ ReadOnly

\* Mutant: the application keeps a point the store refused.
SavePointRefused(p) ==
    /\ At(p, {"saving"})
    /\ points' = [x \in LivePoints \cup {h[p].msg} |->
                     IF x = h[p].msg THEN h[p].mark ELSE points[x]]
    /\ Goto(p, [h[p] EXCEPT !.pc = "running", !.mark = NoMark, !.unsafe = FALSE])
    /\ UNCHANGED <<clock, created, status, revision, cutoff, versions,
                   transcript, checkpoints, claims, stops>>
    /\ Local

\* The store refuses a point that is not current, and before it looks at any
\* row one whose payload is unsafe or too large.
SavePoint(p) ==
    /\ At(p, {"saving"})
    /\ LET m == h[p].msg
           local == [h[p] EXCEPT !.pc = "running", !.mark = NoMark]
       IN  \/ /\ \E kept \in SUBSET Runs : SaveResumePoint(m, h[p].mark, kept)
              /\ Goto(p, [local EXCEPT !.unsafe = FALSE])
           \/ /\ ~PointAdmissible(m, h[p].mark)
              /\ ExpireResumePoints
              /\ Goto(p, local)
           \/ Goto(p, local) /\ ReadOnly
    /\ Local

\* A store call of the event loop raises.
ConsumeFails(p) ==
    /\ At(p, {"saving"}) \/ (At(p, {"running"}) /\ h[p].queue # <<>>)
    /\ faults < MaxFaults /\ faults' = faults + 1
    /\ Leave(p, Outcome("error", "failed"), h[p].unsafe, "no")
    /\ UNCHANGED <<tokens, executions, toolsStarted, archive, interrupts>> /\ ReadOnly

\* _observe_stop; a read that raises counts as a stop.
ObserveStop(p) ==
    /\ At(p, {"leasing"} \cup Executing) /\ ~h[p].seen
    /\ Goto(p, [h[p] EXCEPT !.seen = TRUE])
    /\ \/ h[p].msg \in stops /\ UNCHANGED faults
       \/ faults < MaxFaults /\ faults' = faults + 1
    /\ UNCHANGED <<tokens, executions, toolsStarted, archive, interrupts>> /\ ReadOnly

\* Mutant: only the tool calls the handler has seen count.
InterruptTrusting(p, intr) ==
    /\ At(p, {"leasing"} \cup Executing)
    /\ interrupts < MaxInterrupts /\ interrupts' = interrupts + 1
    /\ Leave(p, Outcome("cancel", "cancelled"), h[p].unsafe, intr)
    /\ UNCHANGED <<tokens, executions, toolsStarted, archive, faults>> /\ ReadOnly

\* The channel cancels the handler's task, or closes its stream.
Interrupt(p, intr) ==
    /\ At(p, {"leasing"} \cup Executing)
    /\ interrupts < MaxInterrupts /\ interrupts' = interrupts + 1
    /\ Leave(p, Outcome("cancel", "cancelled"), TRUE, intr)
    /\ UNCHANGED <<tokens, executions, toolsStarted, archive, faults>> /\ ReadOnly

(***************************************************************************)
(* Commit: cutoff, finalization, stop, authorization, terminal event,      *)
(* terminal checkpoint, status, archive, answer.                           *)
(***************************************************************************)
CheckCutoff(p) ==
    /\ At(p, {"check"})
    /\ IF cutoff # h[p].cut THEN FinishUnlessInterrupted(p, "memory_invalidated")
       ELSE Goto(p, [h[p] EXCEPT !.pc = "finalize", !.now = clock])
    /\ Local /\ ReadOnly

Finalize(p) ==
    /\ At(p, {"finalize"})
    /\ \/ /\ \E now \in h[p].now..clock : FinalizeRun(h[p].msg, h[p].own, now)
          /\ Goto(p, [h[p] EXCEPT !.pc = "stopcheck", !.now = 0])
       \/ /\ ~MayFinalize(h[p].msg, h[p].own)
          /\ FinishUnlessInterrupted(p, "uncertain")
          /\ ReadOnly
    /\ Local

\* continue_task passes no before_commit.
Hooked(p) == h[p].msg \notin DOMAIN TargetOf

\* Mutant: only what the watcher saw counts, the store is not asked again.
CheckStopWatched(p) ==
    /\ At(p, {"stopcheck"})
    /\ LET o == IF h[p].seen THEN Outcome("cancel", "cancelled") ELSE h[p].out
       IN  Goto(p, [h[p] EXCEPT !.out = o, !.seen = FALSE,
              !.unsafe = StatusOf(o) = "cancelled" /\ h[p].unsafe,
              !.pc = IF Completed(o) /\ Hooked(p) THEN "commit" ELSE "terminal"])
    /\ Local /\ ReadOnly

\* The payload says resume_unsafe only when the status is cancelled here.
CheckStop(p) ==
    /\ At(p, {"stopcheck"})
    /\ LET stopped == h[p].seen \/ h[p].msg \in stops
           o == IF stopped THEN Outcome("cancel", "cancelled") ELSE h[p].out
       IN  Goto(p, [h[p] EXCEPT !.out = o, !.seen = FALSE,
              !.unsafe = StatusOf(o) = "cancelled" /\ h[p].unsafe,
              !.intr = IF stopped /\ h[p].intr = "cancelled" THEN "no" ELSE h[p].intr,
              !.pc = IF Completed(o) /\ Hooked(p) THEN "commit" ELSE "terminal"])
    /\ Local /\ ReadOnly

BeforeCommit(p) ==
    /\ At(p, {"commit"})
    /\ \E hook \in HookOutcomes :
         Goto(p, [h[p] EXCEPT !.pc = "terminal",
            !.intr = CASE hook = "accept" -> "no" [] hook = "reject" -> "rejected"
                       [] hook = "cancel" -> "cancelled",
            !.out = CASE hook = "accept" -> h[p].out
                      [] hook = "reject" -> Outcome("error", "failed")
                      [] hook = "cancel" -> Outcome("cancel", "cancelled")])
    /\ Local /\ ReadOnly

AppendTerminal(p) ==
    /\ At(p, {"terminal"})
    /\ LET m == h[p].msg
           o == h[p].out
           d == RunDraft(TerminalKey(m), o.kind, m, TerminalBody(o.run_status, h[p].unsafe))
       IN  \/ /\ AppendEvent(d, h[p].rev)
              /\ Goto(p, [h[p] EXCEPT !.pc = "save", !.rev = revision + 1, !.ev = revision + 1,
                             !.unsafe = FALSE,
                             !.hist = WithTerminal(@, m, h[p].del.content, o)])
           \/ /\ AppendOutcome(d, h[p].rev) # "appended" /\ Finish(p, "error") /\ ReadOnly
    /\ Local

SaveTerminal(p) ==
    /\ At(p, {"save"})
    /\ LET go(s) == Goto(p, [h[p] EXCEPT !.pc = "status", !.rev = revision + 1, !.hist = <<>>,
                                  !.mem = NoMemory])
       IN  \/ SaveHistory(p, <<h[p].msg, "terminal-state">>, h[p].hist, go)
           \/ revision # h[p].rev /\ Finish(p, "error") /\ ReadOnly
    /\ Local

SetFinalStatus(p) ==
    /\ At(p, {"status"})
    /\ \/ /\ SetStatus(StatusOf(h[p].out), h[p].rev)
          /\ IF h[p].intr # "no" THEN Finish(p, "raised")
             ELSE Goto(p, [h[p] EXCEPT !.pc = IF Completed(h[p].out) THEN "archive" ELSE "publish"])
       \/ /\ revision # h[p].rev /\ Finish(p, "error") /\ ReadOnly
    /\ Local

\* _archive_completed: a look at the cutoff, then a file update that keeps
\* whatever is newer; a failed write is ignored.
CheckArchive(p) ==
    /\ At(p, {"archive"})
    /\ Goto(p, [h[p] EXCEPT !.pc = IF cutoff = h[p].cut THEN "write" ELSE "publish"])
    /\ Local /\ ReadOnly

\* Mutant: answers from before the cutoff stay in the file.
ArchivedAll(p) ==
    IF archive.rev >= h[p].ev THEN archive
    ELSE [rev |-> h[p].ev, runs |-> archive.runs \cup {h[p].msg}]

Archived(p) ==
    IF archive.rev >= h[p].ev THEN archive
    ELSE [rev |-> h[p].ev,
          runs |-> (IF h[p].cut < archive.rev THEN archive.runs ELSE {}) \cup {h[p].msg}]

WriteArchive(p) ==
    /\ At(p, {"write"})
    /\ archive' \in {Archived(p), archive}
    /\ Goto(p, [h[p] EXCEPT !.pc = "publish"])
    /\ UNCHANGED <<tokens, executions, toolsStarted, faults, interrupts>> /\ ReadOnly

\* Mutant: the cutoff is not looked at before the answer is given.
PublishUnchecked(p) ==
    /\ At(p, {"publish"})
    /\ Finish(p, StatusOf(h[p].out))
    /\ Local /\ ReadOnly

Publish(p) ==
    /\ At(p, {"publish"})
    /\ Finish(p, IF cutoff = h[p].cut THEN StatusOf(h[p].out) ELSE "memory_invalidated")
    /\ Local /\ ReadOnly

(***************************************************************************)
(* A message whose run is in the retained history.                         *)
(***************************************************************************)
\* The run has its outcome there: repair the status, authorize, answer again.
Repair(p) ==
    /\ At(p, {"repair"})
    /\ LET i == The(FindRun(h[p].hist, h[p].msg))
           e == h[p].hist[i]
           o == Outcome(IF e.state = "completed" THEN "assistant" ELSE "error", e.run_status)
           local == [h[p] EXCEPT !.out = o, !.hist = <<>>, !.mem = NoMemory, !.how = "cached",
               !.pc = IF Completed(o) /\ Hooked(p) THEN "recommit" ELSE "publish"]
       IN  IF i = Len(h[p].hist) /\ h[p].st # StatusOf(o)
           THEN \/ SetStatus(StatusOf(o), h[p].rev) /\ Goto(p, local)
                \/ revision # h[p].rev /\ Finish(p, "error") /\ ReadOnly
           ELSE Goto(p, local) /\ ReadOnly
    /\ Local

\* The run is unfinished there: its terminal event may be in the transcript.
Scan(p) ==
    /\ At(p, {"scan"})
    /\ LET T == RecentTranscript(ScanLimit)
           found == {i \in 1..Len(T) : T[i].key = TerminalKey(h[p].msg)}
           e == T[The(found)]
           o == Outcome(e.kind, e.body.run_status)
       IN  IF found = {}
           THEN Goto(p, [h[p] EXCEPT !.pc = "reclaim", !.now = clock])
           ELSE Goto(p, [h[p] EXCEPT !.out = o, !.ev = e.revision, !.how = "replay",
                            !.pc = IF Completed(o) /\ Hooked(p) THEN "recommit" ELSE "merge"])
    /\ Local /\ ReadOnly

Recommit(p) ==
    /\ At(p, {"recommit"})
    /\ \E hook \in HookOutcomes :
         IF hook = "accept"
         THEN Goto(p, [h[p] EXCEPT !.pc = IF h[p].how = "cached" THEN "publish" ELSE "merge"])
         ELSE Finish(p, "raised")
    /\ Local /\ ReadOnly

\* Mutant: a claim acquired for a run that is already started executes it.
ReclaimExecutes(p) ==
    /\ At(p, {"reclaim"})
    /\ \E now \in h[p].now..clock :
         /\ ClaimRun(h[p].msg, h[p].own, now)
         /\ CASE ClaimOutcome(h[p].msg, now) = "acquired" ->
                   Goto(p, [h[p] EXCEPT !.pc = "leasing", !.now = 0])
              [] ClaimOutcome(h[p].msg, now) = "live" -> Finish(p, "in_progress")
              [] ClaimOutcome(h[p].msg, now) = "stale" ->
                   Goto(p, [h[p] EXCEPT !.pc = "recover", !.now = 0])
              [] ClaimOutcome(h[p].msg, now) = "capacity" -> Finish(p, "error")
    /\ Local

\* No terminal event: the owner is alive, or the outcome is uncertain for ever.
Reclaim(p) ==
    /\ At(p, {"reclaim"})
    /\ \E now \in h[p].now..clock :
         /\ ClaimRun(h[p].msg, h[p].own, now)
         /\ CASE ClaimOutcome(h[p].msg, now) = "acquired" ->
                   Goto(p, [h[p] EXCEPT !.pc = "fence", !.now = clock])
              [] ClaimOutcome(h[p].msg, now) = "live" -> Finish(p, "in_progress")
              [] ClaimOutcome(h[p].msg, now) = "stale" ->
                   Goto(p, [h[p] EXCEPT !.pc = "recover", !.now = 0])
              [] ClaimOutcome(h[p].msg, now) = "capacity" -> Finish(p, "error")
    /\ Local

Fence(p) ==
    /\ At(p, {"fence"})
    /\ \/ \E now \in h[p].now..clock : FinalizeRun(h[p].msg, h[p].own, now)
       \/ ~MayFinalize(h[p].msg, h[p].own) /\ ReadOnly
    /\ Goto(p, [h[p] EXCEPT !.pc = "recover", !.now = 0])
    /\ Local

\* Mutant: the uncertain event is appended whatever the revision is by now.
RecoverUncertainBlind(p) ==
    /\ At(p, {"recover"})
    /\ LET m == h[p].msg
           d == RunDraft(UncertainKey(m), "error", m, TerminalBody("failed", FALSE))
           local == [h[p] EXCEPT !.pc = "merge", !.out = Outcome("error", "failed"),
                                 !.how = "uncertain"]
       IN  \/ AppendEvent(d, revision) /\ Goto(p, local)
           \/ AppendOutcome(d, revision) = "replay" /\ Goto(p, local) /\ ReadOnly
    /\ Local

\* _recover_uncertain
RecoverUncertain(p) ==
    /\ At(p, {"recover"})
    /\ LET m == h[p].msg
           o == Outcome("error", "failed")
           d == RunDraft(UncertainKey(m), "error", m, TerminalBody("failed", FALSE))
           local == [h[p] EXCEPT !.pc = "merge", !.out = o, !.how = "uncertain"]
           outcome == AppendOutcome(d, h[p].rev)
       IN  \/ AppendEvent(d, h[p].rev) /\ Goto(p, local)
           \/ outcome = "replay" /\ Goto(p, local) /\ ReadOnly
           \/ outcome \notin {"appended", "replay"} /\ Finish(p, "error") /\ ReadOnly
    /\ Local

(***************************************************************************)
(* _merge_recovered_terminal: write a terminal event that the history does *)
(* not know into a fresh snapshot, at most four times.                     *)
(***************************************************************************)
MergeDone(p, recovered, latest) ==
    IF h[p].how = "uncertain" THEN Finish(p, "uncertain")
    ELSE IF ~recovered THEN Finish(p, "memory_invalidated")
    ELSE Goto(p, [h[p] EXCEPT !.hist = <<>>, !.mem = NoMemory, !.tries = 0, !.latest = FALSE,
                     !.pc = IF Completed(h[p].out) /\ latest THEN "archive" ELSE "publish"])

MergeRetry(p) ==
    IF h[p].tries = 3 THEN Finish(p, "error")
    ELSE Goto(p, [h[p] EXCEPT !.pc = "merge", !.tries = @ + 1])

MergeRead(p) ==
    /\ At(p, {"merge"})
    /\ LET hist == LoadedHistory
           found == FindRun(hist, h[p].msg)
       IN  IF cutoff # h[p].cut THEN MergeDone(p, FALSE, FALSE)
           ELSE IF found = {} THEN MergeDone(p, TRUE, FALSE)
           ELSE IF hist[The(found)].digest # h[p].del.content THEN Finish(p, "conflict")
           ELSE Goto(p, [h[p] EXCEPT !.pc = "mergescan", !.hist = hist, !.mem = LoadedMemory,
                            !.rev = revision, !.st = status])
    /\ Local /\ ReadOnly

\* What is left once the entry is written: the status, for the newest input.
MergeStatusNext(p, local) ==
    IF local.latest /\ local.st # StatusOf(local.out)
    THEN Goto(p, [local EXCEPT !.pc = "mergestatus"])
    ELSE MergeDone(p, TRUE, local.latest)

\* A newer input owns the revision: leave everything as it is.
MergeScan(p) ==
    /\ At(p, {"mergescan"})
    /\ LET T == RecentTranscript(ScanLimit)
           user == LastOf(T, {"user"})
           hist == h[p].hist
           i == The(FindRun(hist, h[p].msg))
           newer == \/ \E j \in (i + 1)..Len(hist) : hist[j].state = "started"
                    \/ user = 0
                    \/ T[user].run # hist[Len(hist)].run
           local == [h[p] EXCEPT !.latest = i = Len(hist) /\ T[user].run = h[p].msg]
       IN  IF newer THEN MergeDone(p, TRUE, FALSE)
           ELSE IF hist[i].state = "started" THEN Goto(p, [local EXCEPT !.pc = "mergesave"])
           ELSE MergeStatusNext(p, local)
    /\ Local /\ ReadOnly

\* The key names the revision: whoever used it merged the same outcome into
\* the same snapshot, and save_checkpoint returns that checkpoint.
MergeSave(p) ==
    /\ At(p, {"mergesave"})
    /\ LET hist == WithTerminal(h[p].hist, h[p].msg, h[p].del.content, h[p].out)
           k == <<h[p].msg, "recovered", h[p].rev>>
           go(s) == MergeStatusNext(p, [h[p] EXCEPT !.rev = revision + 1])
       IN  \/ SaveHistory(p, k, hist, go)
           \/ /\ HasCheckpointKey(k)
              /\ MergeStatusNext(p, [h[p] EXCEPT !.rev = CheckpointOf(k).revision])
              /\ ReadOnly
           \/ ~HasCheckpointKey(k) /\ revision # h[p].rev /\ MergeRetry(p) /\ ReadOnly
    /\ Local

MergeStatus(p) ==
    /\ At(p, {"mergestatus"})
    /\ \/ SetStatus(StatusOf(h[p].out), h[p].rev) /\ MergeDone(p, TRUE, h[p].latest)
       \/ revision # h[p].rev /\ MergeRetry(p) /\ ReadOnly
    /\ Local

(***************************************************************************)
(* What happens around the handlers.                                       *)
(***************************************************************************)
\* stop_message; it does not wait for the session lock.
StopMessage(m) ==
    /\ m \in stops \/ Cardinality(stops) < MaxStops
    /\ RequestStop(m)
    /\ UNCHANGED appVars

\* invalidate_memory creates the session, then appends; neither does it wait.
Invalidations == Cardinality({i \in 1..Len(transcript) : transcript[i].kind = "invalidated"})

InvalidationDraft ==
    [key : Signals \cup {NoKey}, kind : {"invalidated"}, run : {NoRun},
     body : {InvalidationBody}, source : {NoSource}, version : {0}]
    \cup
    [key : Signals \cup {NoKey}, kind : {"invalidated"}, run : {NoRun},
     body : {InvalidationBody}, source : Sources, version : Versions]

InvalidateMemory(d) ==
    /\ Invalidations < MaxInvalidations
    /\ IF created THEN AppendEvent(d, revision) ELSE Create
    /\ UNCHANGED appVars

\* The process dies, or the task is cancelled at an await outside the guarded
\* section: the lock and every local variable are gone, the store stays.
Dropped == tokens - Cardinality(answers) - Cardinality({p \in Procs : ~At(p, {"idle"})})

Drop(p) ==
    /\ ~At(p, {"idle"})
    /\ Dropped < MaxDrops
    /\ h' = [h EXCEPT ![p] = Idle]
    /\ UNCHANGED <<tokens, executions, toolsStarted, archive, answers, faults, interrupts>> /\ ReadOnly

Advance == clock < MaxClock /\ Tick /\ UNCHANGED appVars

(***************************************************************************)
(* The specification.                                                      *)
(***************************************************************************)
\* A database of the release before the claim table holds, at most, a run
\* that was started and never finished.
LegacyStore(m, d) ==
    /\ clock = 0 /\ created = TRUE /\ status = "active" /\ revision = 2 /\ cutoff = 0
    /\ versions = [s \in Sources |-> 0]
    /\ transcript = <<Recorded(RunDraft(UserKey(m), "user", m, UserBody(d, NoRun)), 1)>>
    /\ checkpoints = <<[key |-> <<m, "started">>, revision |-> 2, lastSeq |-> 1,
                        state |-> [runs |-> <<Entry(m, d.content, "started", "none")>>,
                                   memory |-> NoMemory]]>>
    /\ claims = [r \in Runs |-> NoClaim]
    /\ stops = {}
    /\ points = [r \in {} |-> 0]

AppInit ==
    /\ \/ StoreInit /\ executions = [m \in Runs |-> 0]
       \/ \E m \in LegacyRuns, d \in Deliveries :
             LegacyStore(m, d) /\ executions = [x \in Runs |-> IF x = m THEN 1 ELSE 0]
    /\ h = [p \in Procs |-> Idle]
    /\ tokens = 0
    /\ toolsStarted = [m \in Runs |-> 0]
    /\ archive = [rev |-> 0, runs |-> {}]
    /\ answers = {}
    /\ faults = 0 /\ interrupts = 0

HandlerStep(p) ==
    \/ ReadRecord(p) \/ ReadSource(p) \/ Resume(p) \/ Verify(p)
    \/ ReadRecent(p) \/ ReadArchive(p) \/ AppendUser(p) \/ Activate(p) \/ Claim(p) \/ SaveStarted(p)
    \/ StartRun(p) \/ ConsumeEvent(p) \/ SavePoint(p)
    \/ CheckCutoff(p) \/ Finalize(p) \/ CheckStop(p) \/ BeforeCommit(p)
    \/ AppendTerminal(p) \/ SaveTerminal(p) \/ SetFinalStatus(p)
    \/ CheckArchive(p) \/ WriteArchive(p) \/ Publish(p)
    \/ Repair(p) \/ Scan(p) \/ Recommit(p) \/ Reclaim(p) \/ Fence(p)
    \/ RecoverUncertain(p)
    \/ MergeRead(p) \/ MergeScan(p) \/ MergeSave(p) \/ MergeStatus(p)

Ending(p) == \E rs \in {"succeeded", "failed", "cancelled"} : RunnerFinish(p, rs)

RunnerStep(p) == RunnerTool(p) \/ RunnerCheckpoint(p) \/ Ending(p) \/ ObserveStop(p)

Arrival(p) ==
    \E m \in Runs, d \in Deliveries : Deliver(p, m, d) \/ DeliverContinuation(p, m, d)

Disturbance(p) ==
    ConsumeFails(p) \/ (\E intr \in {"cancelled", "closed"} : Interrupt(p, intr)) \/ Drop(p)

AppNext ==
    \/ \E p \in Procs : HandlerStep(p) \/ RunnerStep(p) \/ Arrival(p) \/ Disturbance(p)
    \/ \E m \in Runs : StopMessage(m)
    \/ \E d \in InvalidationDraft : InvalidateMemory(d)
    \/ Advance

AppSpec == AppInit /\ [][AppNext]_vars

\* The event loop runs every ready coroutine, and a run ends by its timeout.
AppFairness == \A p \in Procs : WF_vars(HandlerStep(p)) /\ WF_vars(Ending(p))

FairAppSpec == AppSpec /\ AppFairness

(***************************************************************************)
(* Properties.                                                             *)
(***************************************************************************)
Answered(m, kinds) == \E a \in answers : a.run = m /\ a.kind \in kinds

AnswerOf(m, low, high) ==
    \E i \in 1..Len(transcript) :
        /\ transcript[i].kind = "assistant" /\ transcript[i].run = m
        /\ transcript[i].revision > low /\ transcript[i].revision <= high

Outcomes == [kind : {"none", "assistant", "error", "cancel"},
             run_status : {"none", "succeeded", "failed", "cancelled"}]

HistoryEntry ==
    [run : Runs, digest : {d.content : d \in Deliveries}, state : {"started", "completed", "failed"},
     run_status : {"none", "succeeded", "failed", "cancelled"}]

MemoryState == [covered : Nat, summary : SUBSET Runs]

Handler ==
    [pc : {"idle", "record", "source", "resume", "verify", "context", "longterm", "user", "activate",
           "claim", "started", "leasing", "running", "saving", "check", "finalize",
           "stopcheck", "commit", "terminal", "save", "status", "archive", "write",
           "publish", "repair", "scan", "recommit", "reclaim", "fence", "recover",
           "merge", "mergescan", "mergesave", "mergestatus"},
     msg : Runs \cup {NoRun}, del : Deliveries \cup {NoDelivery},
     own : Owners \cup {NoOwner}, now : Nat, rev : Nat, cut : Nat, st : SessionStatus,
     hist : Seq(HistoryEntry), mem : MemoryState,
     queue : Seq([kind : {"tool", "mark", "result"}, progress : Nat,
                  run_status : {"none", "succeeded", "failed", "cancelled"}]),
     marks : Nat, over : BOOLEAN, seen : BOOLEAN, unsafe : BOOLEAN, out : Outcomes,
     intr : {"no", "cancelled", "closed", "rejected"}, ev : Nat, tries : 0..3,
     latest : BOOLEAN, how : {"run", "cached", "replay", "uncertain"},
     from : Runs \cup {NoRun}, mark : ResumePoint, context : SUBSET Runs]

\* Every handler is at a point of its code, with a token of its own, and the
\* ghost counters are counters.
AppTypeOK ==
    /\ h \in [Procs -> Handler]
    /\ \A p, q \in Procs : p # q /\ ~At(p, {"idle"}) => h[p].own # h[q].own
    /\ tokens \in 0..MaxHandlers
    /\ executions \in [Runs -> Nat] /\ toolsStarted \in [Runs -> Nat]
    /\ archive.rev \in Nat /\ archive.runs \subseteq Runs
    /\ faults \in 0..MaxFaults /\ interrupts \in 0..MaxInterrupts

\* handle never executes a message twice, however often it is delivered, to
\* however many processes, and wherever they die: claim_run authorizes one
\* execution and the started entry of an older release authorizes none.
AtMostOnce == \A m \in Runs : executions[m] <= 1

\* A run has one durable outcome: the terminal event of its owner or the
\* `uncertain` event of a process that gave the owner up, never both.
OneOutcome == \A m \in Runs : ~(HasEvent(TerminalKey(m)) /\ HasEvent(UncertainKey(m)))

\* Two callers who are told the outcome of one message are told the same one,
\* whether it comes from the run, from the transcript or from the history.
AnswersAgree ==
    \A m \in Runs, one, two \in {"completed", "failed", "cancelled"} :
        Answered(m, {one}) /\ Answered(m, {two}) => one = two

\* A stop that request_stop accepted wins against the completion it races:
\* the run commits no assistant message, archives nothing and nobody is told
\* that it completed.
StopWins ==
    \A m \in stops :
        /\ ~AnswerOf(m, 0, revision)
        /\ m \notin archive.runs
        /\ ~Answered(m, {"completed"})

\* An archive that _archive_text would accept holds only answers committed
\* after the last invalidation, although writers check the cutoff and update
\* the file in two steps and in any order.
ArchiveCurrent ==
    archive.rev > cutoff => \A m \in archive.runs : AnswerOf(m, cutoff, archive.rev)

\* The recent messages and the archive text a run executes with hold only
\* answers committed after the cutoff of its snapshot and before its own
\* question, although the snapshot, the transcript and the file are read in
\* three steps, and the question may be another process's copy of it.
ContextCurrent ==
    \A p \in Procs : At(p, {"leasing"} \cup Executing) =>
        \A m \in h[p].context : AnswerOf(m, h[p].cut, EventOf(UserKey(h[p].msg)).revision)

\* A caller is told `completed` only while the answer it gets is newer than
\* the last invalidation, on the fresh, the recovery and the replay path.
CompletedIsCurrent ==
    [][\A a \in answers' \ answers :
         a.kind = "completed" => AnswerOf(a.run, cutoff, revision)]_vars

\* What a new checkpoint must keep of the retained history: the entry of every
\* run without an outcome, and the finished entries as they are.
Keeps(new) ==
    \A i \in 1..Len(RetainedHistory) :
        LET e == RetainedHistory[i]
            open == ~HasEvent(TerminalKey(e.run)) /\ ~HasEvent(UncertainKey(e.run))
            kept == FindRun(new, e.run)
        IN  /\ open => kept # {}
            /\ e.state # "started" => \A j \in kept : new[j] = e

\* The checkpoint that commits or recovers an outcome loses no unfinished run
\* of another process and changes no other outcome, although the history was
\* read several steps before it is saved.
CommitKeepsHistory ==
    [][\A p \in Procs :
         At(p, {"save", "mergesave"}) /\ checkpoints' # checkpoints /\ h'[p] # h[p] =>
            Keeps(checkpoints'[Len(checkpoints')].state.runs)]_vars

\* A continuation starts from a point that covers every tool call its source
\* run started, and its source run was cancelled.
ContinuationExact ==
    \A p \in Procs : At(p, {"claim", "started", "leasing"}) /\ h[p].from # NoRun =>
        /\ h[p].mark.progress = toolsStarted[h[p].from]
        /\ HasEvent(TerminalKey(h[p].from))
        /\ EventOf(TerminalKey(h[p].from)).kind = "cancel"

\* A run with a recorded outcome other than a cancellation has no resume
\* point left, and gets none from an owner that was given up but still runs.
FinishedHasNoPoint ==
    \A m \in DOMAIN points, e \in Events : e.run = m => ~FinishesRun(e)

\* Every handler ends: the retries of a merge are bounded, a run that ends is
\* noticed, and no handler waits for another.
HandlersEnd == \A p \in Procs : ~At(p, {"idle"}) ~> At(p, {"idle"})

(***************************************************************************)
(* Statements of the repository that the code does not keep.               *)
(***************************************************************************)
\* Two server processes do not run the same conversation concurrently.
OneExecutor ==
    \A p, q \in Procs : At(p, Executing) /\ At(q, Executing) => p = q

\* A message that is delivered again with the same content is never answered
\* with an idempotency conflict.
RedeliveryIsNoConflict == \A a \in answers : a.kind # "conflict"

\* An unfinished entry is never removed from the history, except by an
\* invalidation.
HistoryKept ==
    [][checkpoints' # checkpoints => Keeps(checkpoints'[Len(checkpoints')].state.runs)]_vars

\* The working summary is reset when source data is invalidated: the one the
\* next handler will load speaks only of answers newer than the cutoff.
SummaryReset == \A m \in RetainedMemory.summary : AnswerOf(m, cutoff, revision)
=============================================================================
