--------------------------- MODULE ToolDispatcher ---------------------------
(***************************************************************************)
(* The tool dispatcher of the plug-in runtime and its optimistic           *)
(* concurrency protocol: packages/runtime/src/dispatcher*, RevisionContext,*)
(* revision guard and auto-retry, response state and trace recording, as   *)
(* one JavaScript event loop runs them.                                    *)
(*                                                                         *)
(* A tool call runs synchronously up to its first await; every later part  *)
(* is a microtask.  The sidecar host starts all the calls of one chunk of  *)
(* input in one task (inbox), so their microtasks interleave in the FIFO   *)
(* order of the microtask queue (jobs).  One action is one such part: the  *)
(* awaits of retryPolicy, statefulPipeline, handleWithRetry, handle and    *)
(* SidecarHost.handleRequest are one queue round each.                     *)
(***************************************************************************)
EXTENDS RevisionStore

CONSTANTS
    Client,           \* MCP clients sharing the project
    Call,             \* tool calls, each made at most once (bounds the model)
    NoRevision,       \* an absent ifRevision / no revision yet
    RequireRevision,  \* policy: requireRevision
    AutoRetry,        \* policy: autoRetryRevision
    Kind,             \* the kinds of tool the clients use
    MaxUserEdits      \* bound on edits made by the user in Blockbench

Guarded  == {"edit", "compound"}          \* retry handlers that check ifRevision
Retried  == Guarded \cup {"reuse"}        \* handlers run by callWithAutoRetry
Stateful == {"check", "export"}           \* runStatefulPipeline with retry: false
Direct   == {"read", "preview"}           \* responseHandlers
AllKinds == Retried \cup Stateful \cup Direct

ASSUME PolicyAssumption ==
    /\ RequireRevision \in BOOLEAN
    /\ AutoRetry \in BOOLEAN
    /\ NoRevision \notin Revision
    /\ Kind \subseteq AllKinds
    /\ MaxUserEdits \in Nat

ASSUME NobodyAssumption == "user" \notin Call

VARIABLES
    project,   \* the snapshot getSnapshot() returns
    store,     \* the RevisionStore
    inbox,     \* calls of the current chunk not started yet
    jobs,      \* microtask queue: one entry per call with a ready continuation
    pc,        \* where each call is suspended
    request,   \* what the client sent
    token,     \* ifRevision of the payload the last attempt used
    outcome,   \* what the usecase returned
    reply,     \* revision attached to the response
    known,     \* last revision each client was told
    traced,    \* calls in the order the trace recorder saw them
    log        \* history: every change of the project, in order

vars == <<project, store, inbox, jobs, pc, request, token, outcome, reply, known, traced, log>>

MaybeRevision == Revision \cup {NoRevision}
Request  == [client : Client, kind : AllKinds, ifRevision : MaybeRevision]
NoRequest == [kind |-> "none"]
Verdict  == {"none", "ok", "partial", "failed", "threw", "missing", "mismatch"}
Place    == {"idle", "received", "decide", "settle", "attach", "compile",
             "rejected", "unwind", "finalize", "respond", "done"}
Change   == [by : Call \cup {"user"}, guard : MaybeRevision, before : Snapshot, after : Snapshot]

TypeOK ==
    /\ project \in Snapshot
    /\ store \in Store
    /\ inbox \in Seq(Call)
    /\ jobs \in Seq(Call)
    /\ pc \in [Call -> Place]
    /\ request \in [Call -> Request \cup {NoRequest}]
    /\ token \in [Call -> MaybeRevision]
    /\ outcome \in [Call -> Verdict]
    /\ reply \in [Call -> MaybeRevision]
    /\ known \in [Client -> MaybeRevision]
    /\ traced \in Seq(Call)
    /\ log \in Seq(Change)

Init ==
    /\ project \in Snapshot
    /\ store = EmptyStore
    /\ inbox = <<>>
    /\ jobs = <<>>
    /\ pc = [c \in Call |-> "idle"]
    /\ request = [c \in Call |-> NoRequest]
    /\ token = [c \in Call |-> NoRevision]
    /\ outcome = [c \in Call |-> "none"]
    /\ reply = [c \in Call |-> NoRevision]
    /\ known = [c \in Client |-> NoRevision]
    /\ traced = <<>>
    /\ log = <<>>
-----------------------------------------------------------------------------
(* The revision guard. *)

\* Fault: a payload without ifRevision passes the guard.
MissingAccepted(expected, current, allowAutoRetry) ==
    CASE expected # NoRevision /\ current # expected -> IF allowAutoRetry THEN "retry" ELSE "mismatch"
      [] OTHER -> "proceed"

\* decideRevisionMatch, with requiresRevision already true.
DecideRevisionMatch(expected, current, allowAutoRetry) ==
    CASE expected = NoRevision -> "missing"
      [] expected # NoRevision /\ current # expected -> IF allowAutoRetry THEN "retry" ELSE "mismatch"
      [] OTHER -> "proceed"

\* RevisionContext.ensureRevisionMatch: "proceed" stands for its null result.
EnsureRevisionMatch(expected, depth) ==
    IF ~RequireRevision \/ depth > 0 THEN "proceed"
    ELSE DecideRevisionMatch(expected, HashSnapshot(project), FALSE)

\* The guard tracks the snapshot it compared with, unless it was skipped.
GuardedStore(base, depth) ==
    IF ~RequireRevision \/ depth > 0 THEN base ELSE Track(base, project)

\* ToolService.ensureRevisionMatchIfProvided behind guardOptionalRevision.
OptionalRevision(expected) ==
    IF expected = NoRevision THEN "proceed" ELSE EnsureRevisionMatch(expected, 0)
-----------------------------------------------------------------------------
(* The usecases, run synchronously by an attempt of call c.  base is the   *)
(* store the attempt starts from.                                          *)

\* A tool may write what is there already (assign_texture, a rename to the own
\* name): that is no change.
OutlineEdit(s, t) == t.untracked = s.untracked

Leave(c, verdict) ==
    /\ outcome' = [outcome EXCEPT ![c] = verdict]
    /\ UNCHANGED <<project, log>>

Effect(c, expected, verdict, after) ==
    /\ project' = after
    /\ outcome' = [outcome EXCEPT ![c] = verdict]
    /\ log' = IF after = project THEN log
              ELSE Append(log, [by |-> c, guard |-> expected, before |-> project, after |-> after])

\* Validation that fails before the guard is reached.
Reject(c, base) == Leave(c, "failed") /\ store' = base

\* Fault: the change is made before the guard decides.
EditThenGuard(c, expected, base) ==
    LET match == EnsureRevisionMatch(expected, 0)
    IN  /\ \E after \in Snapshot :
             /\ OutlineEdit(project, after)
             /\ Effect(c, expected, IF match = "proceed" THEN "ok" ELSE match, after)
        /\ store' = GuardedStore(base, 0)

\* One edit of the model, guarded.  It can also fail after the guard, stop
\* half way with an error (delete_bone with several targets) or throw.
Edit(c, expected, base) ==
    LET match == EnsureRevisionMatch(expected, 0)
    IN  \/ Reject(c, base)
        \/ match # "proceed" /\ Leave(c, match) /\ store' = GuardedStore(base, 0)
        \/ /\ match = "proceed" /\ store' = GuardedStore(base, 0)
           /\ \/ \E verdict \in {"failed", "threw"} : Leave(c, verdict)
              \/ \E after \in Snapshot, verdict \in {"ok", "partial", "threw"} :
                   OutlineEdit(project, after) /\ Effect(c, expected, verdict, after)

\* Fault: runWithoutRevisionGuard does not raise the depth.
NoBypass == 0

\* A usecase that, past its own guard, runs another guarded usecase under
\* runWithoutRevisionGuard (add_cube -> autoUvAtlas, paint_faces ->
\* assignTexture): the nested one is handed a revision that the first half
\* has already made stale.  NestedDepth is revisionBypassDepth meanwhile.
NestedDepth == 1

Compound(c, expected, base) ==
    LET match == EnsureRevisionMatch(expected, 0)
    IN  \/ Reject(c, base)
        \/ match # "proceed" /\ Leave(c, match) /\ store' = GuardedStore(base, 0)
        \/ /\ match = "proceed" /\ store' = GuardedStore(base, 0)
           /\ \E middle \in Snapshot :
                LET nested == IF ~RequireRevision \/ NestedDepth > 0 THEN "proceed"
                              ELSE DecideRevisionMatch(expected, HashSnapshot(middle), FALSE)
                IN  /\ OutlineEdit(project, middle)
                    /\ \/ nested # "proceed" /\ Effect(c, expected, nested, middle)
                       \/ /\ nested = "proceed"
                          /\ \E after \in Snapshot, verdict \in {"ok", "partial", "threw"} :
                               OutlineEdit(project, after) /\ Effect(c, expected, verdict, after)

\* ensure_project on an active project: reuseProject attaches the snapshot
\* and may set uvPixelsPerBlock; it never calls ensureRevisionMatch.
Reuse(c, base) ==
    /\ \/ \E verdict \in {"ok", "failed"} : Leave(c, verdict)
       \/ \E after \in Snapshot :
            /\ after.outline = project.outline /\ after # project
            /\ Effect(c, NoRevision, "ok", after)
    /\ store' = base

Attempt(c, expected, base) ==
    /\ token' = [token EXCEPT ![c] = expected]
    /\ \/ request[c].kind = "edit" /\ Edit(c, expected, base)
       \/ request[c].kind = "compound" /\ Compound(c, expected, base)
       \/ request[c].kind = "reuse" /\ Reuse(c, base)

\* An exception rejects the promise of callWithAutoRetry at once.
Afterwards(c, place) == IF outcome'[c] = "threw" THEN "rejected" ELSE place

-----------------------------------------------------------------------------
(* The event loop. *)

Idle == inbox = <<>> /\ jobs = <<>>

\* One chunk of sidecar input: the calls it completes, in line order.  A call
\* carries the revision its client was last told, or none.
DeliverChunk ==
    /\ Idle
    /\ \E first \in Call, client \in Client, kind \in Kind :
        /\ pc[first] = "idle"
        /\ \E rev \in {known[client], NoRevision} :
             request' = [request EXCEPT ![first] =
                            [client |-> client, kind |-> kind, ifRevision |-> rev]]
        /\ inbox' = <<first>>
        /\ pc' = [pc EXCEPT ![first] = "received"]
    /\ UNCHANGED <<project, store, jobs, token, outcome, reply, known, traced, log>>

\* The chunk may hold further requests, of the same or of another client.
ExtendChunk ==
    /\ inbox # <<>> /\ jobs = <<>>
    /\ \E next \in Call, client \in Client, kind \in Kind :
        /\ pc[next] = "idle"
        /\ \E rev \in {known[client], NoRevision} :
             request' = [request EXCEPT ![next] =
                            [client |-> client, kind |-> kind, ifRevision |-> rev]]
        /\ inbox' = Append(inbox, next)
        /\ pc' = [pc EXCEPT ![next] = "received"]
    /\ UNCHANGED <<project, store, jobs, token, outcome, reply, known, traced, log>>

\* c leaves the running task and its continuation joins the queue at place.
Starting(c, place) ==
    /\ inbox # <<>> /\ c = Head(inbox) /\ pc[c] = "received"
    /\ inbox' = Tail(inbox)
    /\ jobs' = Append(jobs, c)
    /\ pc' = [pc EXCEPT ![c] = place]

Resuming(c, from, place) ==
    /\ inbox = <<>> /\ jobs # <<>> /\ c = Head(jobs) /\ pc[c] = from
    /\ jobs' = Append(Tail(jobs), c)
    /\ pc' = [pc EXCEPT ![c] = place]
    /\ UNCHANGED inbox

\* Fault: the response repeats the revision of the payload, when it has one.
AttachSent(c) ==
    /\ reply' = [reply EXCEPT ![c] = IF token[c] # NoRevision THEN token[c]
                                     ELSE HashSnapshot(project)]
    /\ store' = Track(store, project)

\* attachStateToResponse: the revision of the response is read here.
AttachState(c) ==
    /\ reply' = [reply EXCEPT ![c] = HashSnapshot(project)]
    /\ store' = Track(store, project)

\* handleWithRetry -> runStatefulPipeline -> callWithAutoRetry -> first call.
StartRetried(c) ==
    /\ request[c].kind \in Retried
    /\ Attempt(c, request[c].ifRevision, store)
    /\ Starting(c, Afterwards(c, "decide"))
    /\ UNCHANGED <<request, reply, known, traced>>

\* runStatefulPipeline with retry: false, on a payload the guard accepts: the
\* handler starts; validate returns at once, a codec export waits.
StartStateful(c) ==
    /\ request[c].kind \in Stateful
    /\ OptionalRevision(request[c].ifRevision) = "proceed"
    /\ IF request[c].kind = "check"
       THEN Starting(c, "attach")
       ELSE /\ inbox # <<>> /\ c = Head(inbox) /\ pc[c] = "received"
            /\ inbox' = Tail(inbox)
            /\ pc' = [pc EXCEPT ![c] = "compile"]
            /\ UNCHANGED jobs
    /\ store' = IF request[c].ifRevision = NoRevision THEN store ELSE GuardedStore(store, 0)
    /\ token' = [token EXCEPT ![c] = request[c].ifRevision]
    /\ outcome' = [outcome EXCEPT ![c] = "ok"]
    /\ UNCHANGED <<project, request, reply, known, traced, log>>

\* ... and on a payload it refuses: the state is attached at once.
RefuseStateful(c) ==
    /\ request[c].kind \in Stateful
    /\ OptionalRevision(request[c].ifRevision) # "proceed"
    /\ Starting(c, "unwind")
    /\ AttachState(c)
    /\ token' = [token EXCEPT ![c] = request[c].ifRevision]
    /\ outcome' = [outcome EXCEPT ![c] = OptionalRevision(request[c].ifRevision)]
    /\ UNCHANGED <<project, request, known, traced, log>>

\* A response handler computes the whole response synchronously; "read" is
\* get_project_state, whose result carries the revision itself.
StartDirect(c) ==
    /\ request[c].kind \in Direct
    /\ Starting(c, "finalize")
    /\ AttachState(c)
    /\ token' = [token EXCEPT ![c] = request[c].ifRevision]
    /\ outcome' = [outcome EXCEPT ![c] =
                     IF request[c].kind = "preview"
                        /\ OptionalRevision(request[c].ifRevision) # "proceed"
                     THEN OptionalRevision(request[c].ifRevision) ELSE "ok"]
    /\ UNCHANGED <<project, request, known, traced, log>>

\* The codec's compile promise settles in a task of its own.
CompileDone(c) ==
    /\ Idle /\ pc[c] = "compile"
    /\ jobs' = <<c>>
    /\ pc' = [pc EXCEPT ![c] = "attach"]
    /\ \E verdict \in {"ok", "failed"} : outcome' = [outcome EXCEPT ![c] = verdict]
    /\ UNCHANGED <<project, store, inbox, request, token, reply, known, traced, log>>

\* callWithAutoRetry after its first await, when it gives the result up ...
WillRetry(c) ==
    /\ AutoRetry /\ outcome[c] = "mismatch" /\ RequireRevision
    /\ DecideRevisionMatch(token[c], HashSnapshot(project), TRUE) = "retry"

KeepFirst(c) ==
    /\ Resuming(c, "decide", "attach")
    /\ ~WillRetry(c)
    /\ store' = IF AutoRetry /\ outcome[c] = "mismatch" THEN Track(store, project) ELSE store
    /\ UNCHANGED <<project, request, token, outcome, reply, known, traced, log>>

\* Fault: a retried result is returned past the rest of the pipeline.
RetryShortcut(c) ==
    /\ WillRetry(c)
    /\ Attempt(c, HashSnapshot(project), Track(store, project))
    /\ Resuming(c, "decide", "unwind")
    /\ UNCHANGED <<request, reply, known, traced>>

\* ... and when it calls the handler again with the current revision, in the
\* same microtask that read it.
Retry(c) ==
    /\ WillRetry(c)
    /\ Attempt(c, HashSnapshot(project), Track(store, project))
    /\ Resuming(c, "decide", Afterwards(c, "settle"))
    /\ UNCHANGED <<request, reply, known, traced>>

\* Fault: nobody catches a rejected promise.
SettleResolved(c) ==
    /\ \/ Resuming(c, "settle", "attach")
       \/ Resuming(c, "unwind", "finalize")
    /\ UNCHANGED <<project, store, request, token, outcome, reply, known, traced, log>>

\* Rounds of the queue in which only promises settle.
Settle(c) ==
    /\ \/ Resuming(c, "settle", "attach")
       \/ Resuming(c, "rejected", "unwind")
       \/ Resuming(c, "unwind", "finalize")
    /\ UNCHANGED <<project, store, request, token, outcome, reply, known, traced, log>>

\* runStatefulPipeline after its await.
Attach(c) ==
    /\ Resuming(c, "attach", "unwind")
    /\ AttachState(c)
    /\ UNCHANGED <<project, request, token, outcome, known, traced, log>>

\* ToolDispatcherImpl.handle after its await: the trace recorder reads the
\* project state once more.
Finalize(c) ==
    /\ Resuming(c, "finalize", "respond")
    /\ traced' = Append(traced, c)
    /\ store' = Track(store, project)
    /\ UNCHANGED <<project, request, token, outcome, reply, known, log>>

\* SidecarHost.handleRequest sends the response; its client learns the
\* revision in it, which a response to an exception lacks.
Respond(c) ==
    /\ inbox = <<>> /\ jobs # <<>> /\ c = Head(jobs) /\ pc[c] = "respond"
    /\ jobs' = Tail(jobs)
    /\ pc' = [pc EXCEPT ![c] = "done"]
    /\ known' = [known EXCEPT ![request[c].client] =
                                IF reply[c] = NoRevision THEN @ ELSE reply[c]]
    /\ UNCHANGED <<project, store, inbox, request, token, outcome, reply, traced, log>>

\* The user edits the model in Blockbench: a task between two others.
UserEdits == {i \in DOMAIN log : log[i].by = "user"}

UserEdit ==
    /\ Idle /\ Cardinality(UserEdits) < MaxUserEdits
    /\ \E after \in Snapshot :
        /\ after # project
        /\ project' = after
        /\ log' = Append(log, [by |-> "user", guard |-> NoRevision, before |-> project, after |-> after])
    /\ UNCHANGED <<store, inbox, jobs, pc, request, token, outcome, reply, known, traced>>

Start(c)     == StartRetried(c) \/ StartStateful(c) \/ RefuseStateful(c) \/ StartDirect(c)
Microtask(c) == KeepFirst(c) \/ Retry(c) \/ Settle(c) \/ Attach(c) \/ Finalize(c) \/ Respond(c)

Next ==
    \/ DeliverChunk \/ ExtendChunk \/ UserEdit
    \/ \E c \in Call : Start(c) \/ Microtask(c) \/ CompileDone(c)

Spec == Init /\ [][Next]_vars

\* The engine runs a started task and the queued microtasks; nothing obliges
\* a codec to settle its promise, a client to call or a user to edit.
Fairness == WF_vars(\E c \in Call : Start(c) \/ Microtask(c))

FairSpec == Spec /\ Fairness
-----------------------------------------------------------------------------
(* Properties. *)

EffectsOf(c) == {i \in DOMAIN log : log[i].by = c}

\* A tool call changes the project at most once, whatever the auto-retry and
\* the usecases nested under runWithoutRevisionGuard do: a first attempt that
\* changed anything is never followed by a second one.
AppliedAtMostOnce == \A c \in Call : Cardinality(EffectsOf(c)) <= 1

\* What a response says is what happened: a call refused for its revision, or
\* reported as failed, left the project alone, in all its attempts and nested
\* usecases, and a change an edit made is that of its last attempt, the one whose
\* outcome is told, under the token that attempt was given.
OutcomeMatchesEffect ==
    \A c \in Call :
        /\ outcome[c] \in {"none", "missing", "mismatch", "failed"} => EffectsOf(c) = {}
        /\ request[c].kind \in Guarded => \A i \in EffectsOf(c) : log[i].guard = token[c]

\* With requireRevision, an edit is applied only under the token of the very
\* snapshot it changes, on the first attempt and on the retry.
GuardIsCurrent ==
    RequireRevision =>
        \A i \in DOMAIN log :
            log[i].by \in Call /\ request[log[i].by].kind \in Guarded
                => log[i].guard = HashSnapshot(log[i].before)

\* An edit is applied only on a snapshot with the revision its client sent:
\* the promise of ifRevision as a token against stale writes.
SentRevisionIsCurrent ==
    \A i \in DOMAIN log :
        log[i].by \in Call /\ request[log[i].by].kind \in Guarded
            => request[log[i].by].ifRevision = HashSnapshot(log[i].before)

\* The trace log lists the calls that changed the project in the order of
\* their changes, although a retried call is recorded several queue rounds
\* after its effect.  (A call that throws in its retry needs one round less
\* than one that returns, and may be recorded before an earlier change.)
TraceFollowsEffects ==
    \A i, j \in DOMAIN traced :
        outcome[traced[i]] # "threw" /\ outcome[traced[j]] # "threw" =>
            \A m \in EffectsOf(traced[i]), n \in EffectsOf(traced[j]) : m < n => i < j

\* The revision a response carries is never older than the call's own effect.
ReplyCoversEffect ==
    \A c \in Call : \A i \in EffectsOf(c) :
        reply[c] # NoRevision =>
            \E j \in i..Len(log) : HashSnapshot(log[j].after) = reply[c]

\* Every call that reaches the host is answered, except one whose codec never
\* finishes; such a call does not hold back the others.
Answered == \A c \in Call : pc[c] = "received" ~> pc[c] \in {"compile", "done"}

\* A call whose first attempt was refused for its revision has not taken its
\* step yet when the retry is still open.
Undecided(c) == AutoRetry /\ pc[c] = "decide" /\ outcome[c] = "mismatch"
PlaceOf(c) ==
    IF pc[c] = "idle" THEN "out"
    ELSE IF pc[c] = "received" \/ Undecided(c) THEN "in"
    ELSE IF pc[c] = "done" THEN "back" ELSE "ran"
VerdictOf(c) == IF pc[c] = "compile" \/ Undecided(c) THEN "none" ELSE outcome[c]
Places   == [c \in Call |-> PlaceOf(c)]
Verdicts == [c \in Call |-> VerdictOf(c)]

Shared == INSTANCE SharedProject WITH place <- Places, verdict <- Verdicts

\* To the clients a call is one step on the project: attempts, retries, nested
\* usecases and the rounds of the queue do not show, a refused or failed call
\* has changed nothing, and the step obeys the revision the client sent.
ImplementsSharedProject == Shared!Spec
=============================================================================
