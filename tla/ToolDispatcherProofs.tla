------------------------ MODULE ToolDispatcherProofs ------------------------
(***************************************************************************)
(* ToolDispatcher for any number of clients, calls and user edits, either  *)
(* value of both policies and every hash: types and the store, at most one *)
(* effect per call, responses that say what happened and carry a revision  *)
(* no older than their own change, edits applied only under the token of   *)
(* the snapshot they change, a trace in the order of the changes, and the  *)
(* register with compare-and-set that all this implements (SharedProject). *)
(***************************************************************************)
EXTENDS ToolDispatcher, RevisionStoreProofs, FiniteSetTheorems

\* What the position of a call says about it: before its first attempt it did
\* nothing, and a call that waits for a codec is no edit and did nothing.
Phases ==
    \A c \in Call :
        /\ pc[c] # "idle" => request[c] \in Request
        /\ pc[c] \in {"idle", "received"} => outcome[c] = "none" /\ EffectsOf(c) = {}
        /\ pc[c] = "compile" => request[c].kind \in Stateful /\ EffectsOf(c) = {}

\* AppliedAtMostOnce without a cardinality.
Once == \A c \in Call : \A i, j \in EffectsOf(c) : i = j

\* A call that is refused or fails has changed nothing.
LeftAlone ==
    \A c \in Call : outcome[c] \in {"none", "missing", "mismatch", "failed"} => EffectsOf(c) = {}

\* The inductive invariant.
Typed == TypeOK /\ Consistent(store)
IInv  == Typed /\ Phases /\ Once /\ LeftAlone /\ GuardIsCurrent

-----------------------------------------------------------------------------
(* The revision guard and the usecases. *)

\* The current revision is a token, and tracking the project keeps the store.
LEMMA TrackProject ==
    ASSUME Typed
    PROVE  /\ HashSnapshot(project) \in Revision
           /\ Track(store, project) \in Store /\ Consistent(Track(store, project))
BY HashIsRevision, RememberKeepsConsistent DEF Typed, TypeOK

\* The guard lets a call proceed only with the current revision.
LEMMA GuardDecides ==
    ASSUME NEW expected
    PROVE  /\ EnsureRevisionMatch(expected, 0) \in {"proceed", "missing", "mismatch"}
           /\ EnsureRevisionMatch(expected, 0) = "proceed" /\ RequireRevision
                => expected = HashSnapshot(project)
<1>1. CASE expected = NoRevision
  BY <1>1 DEF EnsureRevisionMatch, DecideRevisionMatch
<1>2. CASE expected # NoRevision /\ HashSnapshot(project) # expected
  BY <1>2 DEF EnsureRevisionMatch, DecideRevisionMatch
<1>3. CASE expected # NoRevision /\ HashSnapshot(project) = expected
  BY <1>3 DEF EnsureRevisionMatch, DecideRevisionMatch
<1> QED BY <1>1, <1>2, <1>3

\* A guard keeps the store it started from consistent.
LEMMA GuardedStoreKept ==
    ASSUME Typed, NEW base \in Store, Consistent(base)
    PROVE  GuardedStore(base, 0) \in Store /\ Consistent(GuardedStore(base, 0))
BY RememberKeepsConsistent DEF Typed, TypeOK, GuardedStore

\* The two ways an attempt of call c can end: without a change, or with exactly
\* one change, made under the current revision unless no revision is required.
NoEffect(c) == project' = project /\ log' = log

OneEffect(c) ==
    /\ project' \in Snapshot
    /\ outcome'[c] \in {"ok", "partial", "threw"}
    /\ \E guard \in MaybeRevision :
         /\ log' = Append(log, [by |-> c, guard |-> guard, before |-> project, after |-> project'])
         /\ RequireRevision /\ request[c].kind \in Guarded => guard = HashSnapshot(project)

Attempted(c) ==
    /\ \E verdict \in {"ok", "partial", "failed", "threw", "missing", "mismatch"} :
         outcome' = [outcome EXCEPT ![c] = verdict]
    /\ NoEffect(c) \/ OneEffect(c)
    /\ store' \in Store /\ Consistent(store)'

LEMMA EditAttempt ==
    ASSUME Typed, NEW c \in Call, NEW expected \in MaybeRevision,
           NEW base \in Store, Consistent(base), Edit(c, expected, base)
    PROVE  Attempted(c)
<1> DEFINE match == EnsureRevisionMatch(expected, 0)
<1>0. /\ match \in {"proceed", "missing", "mismatch"}
      /\ match = "proceed" /\ RequireRevision => expected = HashSnapshot(project)
  BY GuardDecides
<1>t. outcome \in [Call -> Verdict]
  BY DEF Typed, TypeOK
<1>s. store' = base \/ store' = GuardedStore(base, 0)
  BY DEF Edit, Reject
<1>1. store' \in Store /\ Consistent(store)'
  BY <1>s, GuardedStoreKept DEF Consistent
<1>2. CASE Reject(c, base)
  BY <1>1, <1>2, <1>t DEF Reject, Leave, Attempted, NoEffect
<1>3. CASE match # "proceed" /\ Leave(c, match)
  BY <1>0, <1>1, <1>3, <1>t DEF Leave, Attempted, NoEffect
<1>4. ASSUME NEW verdict \in {"failed", "threw"}, Leave(c, verdict)
      PROVE  Attempted(c)
  BY <1>1, <1>4, <1>t DEF Leave, Attempted, NoEffect
<1>5. ASSUME match = "proceed", NEW after \in Snapshot,
             NEW verdict \in {"ok", "partial", "threw"}, Effect(c, expected, verdict, after)
      PROVE  Attempted(c)
  <2>1. outcome'[c] = verdict /\ project' = after
    BY <1>5, <1>t DEF Effect
  <2>2. CASE after = project
    <3>1. NoEffect(c)
      BY <1>5, <2>2 DEF Effect, NoEffect
    <3> QED BY <1>1, <1>5, <3>1 DEF Effect, Attempted
  <2>3. CASE after # project
    <3>1. log' = Append(log, [by |-> c, guard |-> expected, before |-> project, after |-> project'])
      BY <1>5, <2>3 DEF Effect
    <3>2. OneEffect(c)
      BY <1>0, <1>5, <2>1, <3>1 DEF OneEffect
    <3> QED BY <1>1, <1>5, <3>2 DEF Effect, Attempted
  <2> QED BY <2>2, <2>3
<1> QED BY <1>2, <1>3, <1>4, <1>5 DEF Edit

\* The nested usecase runs past the guard: a compound call is one change too.
LEMMA CompoundAttempt ==
    ASSUME Typed, NEW c \in Call, NEW expected \in MaybeRevision,
           NEW base \in Store, Consistent(base), Compound(c, expected, base)
    PROVE  Attempted(c)
<1> DEFINE match == EnsureRevisionMatch(expected, 0)
<1>0. /\ match \in {"proceed", "missing", "mismatch"}
      /\ match = "proceed" /\ RequireRevision => expected = HashSnapshot(project)
  BY GuardDecides
<1>t. outcome \in [Call -> Verdict]
  BY DEF Typed, TypeOK
<1>s. store' = base \/ store' = GuardedStore(base, 0)
  BY DEF Compound, Reject
<1>1. store' \in Store /\ Consistent(store)'
  BY <1>s, GuardedStoreKept DEF Consistent
<1>2. CASE Reject(c, base)
  BY <1>1, <1>2, <1>t DEF Reject, Leave, Attempted, NoEffect
<1>3. CASE match # "proceed" /\ Leave(c, match)
  BY <1>0, <1>1, <1>3, <1>t DEF Leave, Attempted, NoEffect
<1>4. ASSUME match = "proceed", NEW after \in Snapshot,
             NEW verdict \in {"ok", "partial", "threw"}, Effect(c, expected, verdict, after)
      PROVE  Attempted(c)
  <2>1. outcome'[c] = verdict /\ project' = after
    BY <1>4, <1>t DEF Effect
  <2>2. CASE after = project
    <3>1. NoEffect(c)
      BY <1>4, <2>2 DEF Effect, NoEffect
    <3> QED BY <1>1, <1>4, <3>1 DEF Effect, Attempted
  <2>3. CASE after # project
    <3>1. log' = Append(log, [by |-> c, guard |-> expected, before |-> project, after |-> project'])
      BY <1>4, <2>3 DEF Effect
    <3>2. OneEffect(c)
      BY <1>0, <1>4, <2>1, <3>1 DEF OneEffect
    <3> QED BY <1>1, <1>4, <3>2 DEF Effect, Attempted
  <2> QED BY <2>2, <2>3
<1>5. \/ Reject(c, base)
      \/ match # "proceed" /\ Leave(c, match)
      \/ /\ match = "proceed"
         /\ \E after \in Snapshot, verdict \in {"ok", "partial", "threw"} :
              Effect(c, expected, verdict, after)
  BY DEF Compound, NestedDepth
<1> QED BY <1>2, <1>3, <1>4, <1>5

LEMMA ReuseAttempt ==
    ASSUME Typed, NEW c \in Call, request[c].kind = "reuse",
           NEW base \in Store, Consistent(base), Reuse(c, base)
    PROVE  Attempted(c)
<1>t. outcome \in [Call -> Verdict] /\ request[c].kind \notin Guarded
  BY DEF Typed, TypeOK, Guarded
<1>1. store' \in Store /\ Consistent(store)'
  BY DEF Reuse, Consistent
<1>2. ASSUME NEW verdict \in {"ok", "failed"}, Leave(c, verdict) PROVE Attempted(c)
  BY <1>1, <1>2, <1>t DEF Leave, Attempted, NoEffect
<1>3. ASSUME NEW after \in Snapshot, after # project, Effect(c, NoRevision, "ok", after)
      PROVE  Attempted(c)
  <2>1. outcome'[c] = "ok" /\ project' = after
    BY <1>3, <1>t DEF Effect
  <2>2. log' = Append(log, [by |-> c, guard |-> NoRevision, before |-> project, after |-> project'])
    BY <1>3 DEF Effect
  <2>3. OneEffect(c)
    BY <1>t, <2>1, <2>2 DEF OneEffect, MaybeRevision
  <2> QED BY <1>1, <1>3, <2>3 DEF Effect, Attempted
<1> QED BY <1>2, <1>3 DEF Reuse

\* Every attempt of a call, the first or a retry.
LEMMA AttemptOutcome ==
    ASSUME Typed, NEW c \in Call, NEW expected \in MaybeRevision,
           NEW base \in Store, Consistent(base), Attempt(c, expected, base)
    PROVE  Attempted(c) /\ token' \in [Call -> MaybeRevision]
<1>1. token' \in [Call -> MaybeRevision]
  BY DEF Attempt, Typed, TypeOK
<1>2. Attempted(c)
  BY EditAttempt, CompoundAttempt, ReuseAttempt DEF Attempt
<1> QED BY <1>1, <1>2
-----------------------------------------------------------------------------
(* Types and the store. *)

\* Starting and resuming a call keep the three queues of the event loop typed.
EventLoopTyped == inbox \in Seq(Call) /\ jobs \in Seq(Call) /\ pc \in [Call -> Place]

LEMMA StartingTyped ==
    ASSUME Typed, NEW c \in Call, NEW place \in Place, Starting(c, place)
    PROVE  EventLoopTyped'
BY DEF Typed, TypeOK, Starting, EventLoopTyped

LEMMA ResumingTyped ==
    ASSUME Typed, NEW c \in Call, NEW from, NEW place \in Place, Resuming(c, from, place)
    PROVE  EventLoopTyped'
BY DEF Typed, TypeOK, Resuming, EventLoopTyped

\* A call that was sent has a request.
LEMMA RequestSent ==
    ASSUME Typed, NEW c \in Call, request[c].kind \in AllKinds
    PROVE  request[c] \in Request
BY DEF Typed, TypeOK, NoRequest, AllKinds, Retried, Guarded, Stateful, Direct

\* Reading the state for a response keeps store and replies typed.
LEMMA AttachTyped ==
    ASSUME Typed, NEW c \in Call, AttachState(c)
    PROVE  reply' \in [Call -> MaybeRevision] /\ store' \in Store /\ Consistent(store)'
BY TrackProject DEF Typed, TypeOK, AttachState, MaybeRevision, Consistent

\* An optional revision passes the guard or is refused by it.
LEMMA OptionalDecides ==
    ASSUME NEW expected
    PROVE  OptionalRevision(expected) \in {"proceed", "missing", "mismatch"}
BY GuardDecides DEF OptionalRevision

\* The log of an attempt is typed.
LEMMA AttemptTyped ==
    ASSUME Typed, NEW c \in Call, Attempted(c)
    PROVE  /\ project' \in Snapshot /\ log' \in Seq(Change)
           /\ outcome' \in [Call -> Verdict]
<1>1. outcome' \in [Call -> Verdict]
  BY DEF Typed, TypeOK, Attempted, Verdict
<1>2. CASE NoEffect(c)
  BY <1>1, <1>2 DEF Typed, TypeOK, NoEffect
<1>3. CASE OneEffect(c)
  <2>1. PICK guard \in MaybeRevision :
          log' = Append(log, [by |-> c, guard |-> guard, before |-> project, after |-> project'])
    BY <1>3 DEF OneEffect
  <2>2. [by |-> c, guard |-> guard, before |-> project, after |-> project'] \in Change
    BY <1>3 DEF OneEffect, Change, Typed, TypeOK
  <2> QED BY <1>1, <1>3, <2>1, <2>2 DEF OneEffect, Typed, TypeOK
<1> QED BY <1>2, <1>3 DEF Attempted

LEMMA TypedInit == Init => Typed
<1> SUFFICES ASSUME Init PROVE Typed
  OBVIOUS
<1>1. store \in Store /\ Consistent(store)
  BY EmptyStoreConsistent DEF Init
<1>2. TypeOK
  BY <1>1 DEF Init, TypeOK, Place, Verdict, MaybeRevision
<1> QED BY <1>1, <1>2 DEF Typed

LEMMA TypedStep == Typed /\ [Next]_vars => Typed'
<1> SUFFICES ASSUME Typed, [Next]_vars PROVE Typed'
  OBVIOUS
<1>k. Kind \subseteq AllKinds
  BY PolicyAssumption
<1>1. CASE DeliverChunk
  <2>1. PICK first \in Call, client \in Client, kind \in Kind, rev \in MaybeRevision :
          /\ request' = [request EXCEPT ![first] =
                            [client |-> client, kind |-> kind, ifRevision |-> rev]]
          /\ inbox' = <<first>>
          /\ pc' = [pc EXCEPT ![first] = "received"]
    BY <1>1 DEF DeliverChunk, Typed, TypeOK, MaybeRevision
  <2>2. [client |-> client, kind |-> kind, ifRevision |-> rev] \in Request
    BY <1>k DEF Request
  <2>3. request' \in [Call -> Request \cup {NoRequest}] /\ inbox' \in Seq(Call) /\ pc' \in [Call -> Place]
    BY <2>1, <2>2 DEF Typed, TypeOK, Place
  <2> QED BY <1>1, <2>3 DEF DeliverChunk, Typed, TypeOK, Consistent
<1>2. CASE ExtendChunk
  <2>1. PICK next \in Call, client \in Client, kind \in Kind, rev \in MaybeRevision :
          /\ request' = [request EXCEPT ![next] =
                            [client |-> client, kind |-> kind, ifRevision |-> rev]]
          /\ inbox' = Append(inbox, next)
          /\ pc' = [pc EXCEPT ![next] = "received"]
    BY <1>2 DEF ExtendChunk, Typed, TypeOK, MaybeRevision
  <2>2. [client |-> client, kind |-> kind, ifRevision |-> rev] \in Request
    BY <1>k DEF Request
  <2>3. request' \in [Call -> Request \cup {NoRequest}] /\ inbox' \in Seq(Call) /\ pc' \in [Call -> Place]
    BY <2>1, <2>2 DEF Typed, TypeOK, Place
  <2> QED BY <1>2, <2>3 DEF ExtendChunk, Typed, TypeOK, Consistent
<1>3. CASE UserEdit
  <2>1. PICK after \in Snapshot :
          /\ project' = after
          /\ log' = Append(log, [by |-> "user", guard |-> NoRevision, before |-> project, after |-> after])
    BY <1>3 DEF UserEdit
  <2>2. [by |-> "user", guard |-> NoRevision, before |-> project, after |-> after] \in Change
    BY DEF Change, MaybeRevision, Typed, TypeOK
  <2>3. log' \in Seq(Change)
    BY <2>1, <2>2 DEF Typed, TypeOK
  <2> QED BY <1>3, <2>1, <2>3 DEF UserEdit, Typed, TypeOK, Consistent
<1>4. ASSUME NEW c \in Call, StartRetried(c) PROVE Typed'
  <2>1. request[c] \in Request
    BY <1>4, RequestSent DEF StartRetried, AllKinds
  <2>2. request[c].ifRevision \in MaybeRevision
    BY <2>1 DEF Request
  <2>3. Attempted(c) /\ token' \in [Call -> MaybeRevision]
    BY <1>4, <2>2, AttemptOutcome DEF StartRetried, Typed, TypeOK
  <2>4. Afterwards(c, "decide") \in Place
    BY DEF Afterwards, Place
  <2>5. EventLoopTyped'
    BY <1>4, <2>4, StartingTyped DEF StartRetried
  <2>6. store' \in Store /\ Consistent(store)'
    BY <2>3 DEF Attempted
  <2> QED BY <1>4, <2>3, <2>5, <2>6, AttemptTyped DEF StartRetried, Typed, TypeOK, EventLoopTyped
<1>5. ASSUME NEW c \in Call, StartStateful(c) PROVE Typed'
  <2>1. request[c] \in Request
    BY <1>5, RequestSent DEF StartStateful, AllKinds
  <2>2. token' \in [Call -> MaybeRevision] /\ outcome' \in [Call -> Verdict]
    BY <1>5, <2>1 DEF StartStateful, Request, Typed, TypeOK, Verdict
  <2>3. store' \in Store /\ Consistent(store)'
    <3>1. store \in Store /\ Consistent(store)
      BY DEF Typed, TypeOK
    <3>2. GuardedStore(store, 0) \in Store /\ Consistent(GuardedStore(store, 0))
      BY <3>1, GuardedStoreKept
    <3>3. store' = store \/ store' = GuardedStore(store, 0)
      BY <1>5 DEF StartStateful
    <3> QED BY <3>1, <3>2, <3>3 DEF Consistent
  <2>4. EventLoopTyped'
    <3>1. CASE Starting(c, "attach")
      BY <3>1, StartingTyped DEF Place
    <3>2. CASE /\ inbox # <<>> /\ c = Head(inbox) /\ pc[c] = "received"
               /\ inbox' = Tail(inbox)
               /\ pc' = [pc EXCEPT ![c] = "compile"]
               /\ UNCHANGED jobs
      BY <3>2 DEF Typed, TypeOK, EventLoopTyped, Place
    <3> QED BY <1>5, <3>1, <3>2 DEF StartStateful
  <2> QED BY <1>5, <2>2, <2>3, <2>4 DEF StartStateful, Typed, TypeOK, EventLoopTyped
<1>6. ASSUME NEW c \in Call, RefuseStateful(c) PROVE Typed'
  <2>1. request[c] \in Request
    BY <1>6, RequestSent DEF RefuseStateful, AllKinds
  <2>2. token' \in [Call -> MaybeRevision] /\ outcome' \in [Call -> Verdict]
    BY <1>6, <2>1, OptionalDecides DEF RefuseStateful, Request, Typed, TypeOK, Verdict
  <2>3. reply' \in [Call -> MaybeRevision] /\ store' \in Store /\ Consistent(store)'
    BY <1>6, AttachTyped DEF RefuseStateful
  <2>4. EventLoopTyped'
    BY <1>6, StartingTyped DEF RefuseStateful, Place
  <2> QED BY <1>6, <2>2, <2>3, <2>4 DEF RefuseStateful, Typed, TypeOK, EventLoopTyped
<1>7. ASSUME NEW c \in Call, StartDirect(c) PROVE Typed'
  <2>1. request[c] \in Request
    BY <1>7, RequestSent DEF StartDirect, AllKinds
  <2>2. token' \in [Call -> MaybeRevision] /\ outcome' \in [Call -> Verdict]
    BY <1>7, <2>1, OptionalDecides DEF StartDirect, Request, Typed, TypeOK, Verdict
  <2>3. reply' \in [Call -> MaybeRevision] /\ store' \in Store /\ Consistent(store)'
    BY <1>7, AttachTyped DEF StartDirect
  <2>4. EventLoopTyped'
    BY <1>7, StartingTyped DEF StartDirect, Place
  <2> QED BY <1>7, <2>2, <2>3, <2>4 DEF StartDirect, Typed, TypeOK, EventLoopTyped
<1>8. ASSUME NEW c \in Call, CompileDone(c) PROVE Typed'
  <2>1. outcome' \in [Call -> Verdict] /\ pc' \in [Call -> Place] /\ jobs' \in Seq(Call)
    BY <1>8 DEF CompileDone, Typed, TypeOK, Verdict, Place
  <2> QED BY <1>8, <2>1 DEF CompileDone, Typed, TypeOK, Consistent
<1>9. ASSUME NEW c \in Call, KeepFirst(c) PROVE Typed'
  <2>1. EventLoopTyped'
    BY <1>9, ResumingTyped DEF KeepFirst, Place
  <2>2. store' \in Store /\ Consistent(store)'
    BY <1>9, TrackProject DEF KeepFirst, Typed, TypeOK, Consistent
  <2> QED BY <1>9, <2>1, <2>2 DEF KeepFirst, Typed, TypeOK, EventLoopTyped
<1>10. ASSUME NEW c \in Call, Retry(c) PROVE Typed'
  <2>1. HashSnapshot(project) \in MaybeRevision
    BY TrackProject DEF MaybeRevision
  <2>2. Attempted(c) /\ token' \in [Call -> MaybeRevision]
    BY <1>10, <2>1, TrackProject, AttemptOutcome DEF Retry
  <2>3. Afterwards(c, "settle") \in Place
    BY DEF Afterwards, Place
  <2>4. EventLoopTyped'
    BY <1>10, <2>3, ResumingTyped DEF Retry
  <2>5. store' \in Store /\ Consistent(store)'
    BY <2>2 DEF Attempted
  <2> QED BY <1>10, <2>2, <2>4, <2>5, AttemptTyped DEF Retry, Typed, TypeOK, EventLoopTyped
<1>11. ASSUME NEW c \in Call, Settle(c) PROVE Typed'
  <2>1. EventLoopTyped'
    BY <1>11, ResumingTyped DEF Settle, Place
  <2> QED BY <1>11, <2>1 DEF Settle, Typed, TypeOK, EventLoopTyped, Consistent
<1>12. ASSUME NEW c \in Call, Attach(c) PROVE Typed'
  <2>1. EventLoopTyped'
    BY <1>12, ResumingTyped DEF Attach, Place
  <2>2. reply' \in [Call -> MaybeRevision] /\ store' \in Store /\ Consistent(store)'
    BY <1>12, AttachTyped DEF Attach
  <2> QED BY <1>12, <2>1, <2>2 DEF Attach, Typed, TypeOK, EventLoopTyped
<1>13. ASSUME NEW c \in Call, Finalize(c) PROVE Typed'
  <2>1. EventLoopTyped'
    BY <1>13, ResumingTyped DEF Finalize, Place
  <2>2. store' \in Store /\ Consistent(store)'
    BY <1>13, TrackProject DEF Finalize, Consistent
  <2>3. traced' \in Seq(Call)
    BY <1>13 DEF Finalize, Typed, TypeOK
  <2> QED BY <1>13, <2>1, <2>2, <2>3 DEF Finalize, Typed, TypeOK, EventLoopTyped
<1>14. ASSUME NEW c \in Call, Respond(c) PROVE Typed'
  <2>1. jobs' \in Seq(Call) /\ pc' \in [Call -> Place]
    BY <1>14 DEF Respond, Typed, TypeOK, Place
  <2>2. known' \in [Client -> MaybeRevision]
    BY <1>14 DEF Respond, Typed, TypeOK
  <2>3. UNCHANGED <<project, store, inbox, request, token, outcome, reply, traced, log>>
    BY <1>14 DEF Respond
  <2>4. TypeOK'
    BY <2>1, <2>2, <2>3 DEF Typed, TypeOK
  <2>5. Consistent(store)'
    BY <2>3 DEF Typed, Consistent
  <2> QED BY <2>4, <2>5 DEF Typed
<1>15. CASE UNCHANGED vars
  BY <1>15 DEF vars, Typed, TypeOK, Consistent
<1> QED
  BY <1>1, <1>2, <1>3, <1>4, <1>5, <1>6, <1>7, <1>8, <1>9, <1>10, <1>11, <1>12, <1>13, <1>14, <1>15
  DEF Next, Start, Microtask

\* Every variable keeps its type, and the revision store stays bounded and
\* consistent under any interleaving of calls.
THEOREM TypeCorrect == Spec => [](TypeOK /\ Consistent(store))
<1>1. Typed => TypeOK /\ Consistent(store)
  BY DEF Typed
<1> QED BY TypedInit, TypedStep, <1>1, PTL DEF Spec
-----------------------------------------------------------------------------
(* What a call did, and what its response says. *)

Meaning == Phases /\ Once /\ LeftAlone /\ GuardIsCurrent

\* One more entry of the log is one more effect of its author only.
LEMMA EffectsGrow ==
    ASSUME Typed, NEW e, log' = Append(log, e)
    PROVE  /\ Len(log) \in Nat /\ DOMAIN log = 1..Len(log)
           /\ DOMAIN log' = 1..(Len(log) + 1)
           /\ log'[Len(log) + 1] = e
           /\ \A i \in 1..Len(log) : log'[i] = log[i]
           /\ \A d : EffectsOf(d)' = IF e.by = d THEN EffectsOf(d) \cup {Len(log) + 1}
                                                 ELSE EffectsOf(d)
<1>1. /\ Len(log) \in Nat /\ DOMAIN log = 1..Len(log)
      /\ DOMAIN log' = 1..(Len(log) + 1)
      /\ log'[Len(log) + 1] = e
      /\ \A i \in 1..Len(log) : log'[i] = log[i]
  BY DEF Typed, TypeOK
<1>2. ASSUME NEW d
      PROVE  EffectsOf(d)' = IF e.by = d THEN EffectsOf(d) \cup {Len(log) + 1} ELSE EffectsOf(d)
  BY <1>1 DEF EffectsOf
<1> QED BY <1>1, <1>2

\* A chunk delivers a call: it has done nothing yet.
LEMMA SendStep ==
    ASSUME IInv, NEW c \in Call, pc[c] = "idle", NEW r \in Request,
           request' = [request EXCEPT ![c] = r],
           pc' = [pc EXCEPT ![c] = "received"],
           UNCHANGED <<outcome, log>>
    PROVE  Meaning'
<1>1. \A d : EffectsOf(d)' = EffectsOf(d)
  BY DEF EffectsOf
<1>2. EffectsOf(c) = {} /\ outcome[c] = "none"
  BY DEF IInv, Phases
<1>3. /\ request' \in [Call -> Request \cup {NoRequest}] /\ request'[c] = r
      /\ \A d \in Call : d # c => request'[d] = request[d] /\ pc'[d] = pc[d]
      /\ pc'[c] = "received"
  BY DEF IInv, Typed, TypeOK
<1>4. Phases'
  BY <1>1, <1>2, <1>3 DEF IInv, Phases
<1>5. Once'
  BY <1>1 DEF IInv, Once
<1>6. LeftAlone'
  BY <1>1, <1>2, <1>3 DEF IInv, LeftAlone
<1>7. GuardIsCurrent'
  <2> SUFFICES ASSUME RequireRevision, NEW i \in DOMAIN log,
                      log[i].by \in Call, request'[log[i].by].kind \in Guarded
               PROVE  log[i].guard = HashSnapshot(log[i].before)
    BY DEF GuardIsCurrent
  <2>1. log[i].by # c
    BY <1>2 DEF EffectsOf
  <2> QED BY <1>3, <2>1 DEF IInv, GuardIsCurrent
<1> QED BY <1>4, <1>5, <1>6, <1>7 DEF Meaning

\* A continuation that neither edits nor changes the result.
LEMMA QuietStep ==
    ASSUME IInv, NEW c \in Call, pc[c] # "idle",
           NEW place \in Place \ {"idle", "received", "compile"},
           pc' = [pc EXCEPT ![c] = place],
           UNCHANGED <<request, outcome, log>>
    PROVE  Meaning'
<1>1. \A d : EffectsOf(d)' = EffectsOf(d)
  BY DEF EffectsOf
<1>2. /\ \A d \in Call : d # c => pc'[d] = pc[d]
      /\ pc'[c] = place
  BY DEF IInv, Typed, TypeOK
<1>3. Phases'
  BY <1>1, <1>2 DEF IInv, Phases
<1>4. Once'
  BY <1>1 DEF IInv, Once
<1>5. LeftAlone'
  BY <1>1 DEF IInv, LeftAlone
<1>6. GuardIsCurrent'
  BY DEF IInv, GuardIsCurrent
<1> QED BY <1>3, <1>4, <1>5, <1>6 DEF Meaning

\* A call that is no guarded edit gets its result without a change.
LEMMA AnswerStep ==
    ASSUME IInv, NEW c \in Call, EffectsOf(c) = {}, request[c] \in Request,
           request[c].kind \notin Guarded,
           NEW verdict \in Verdict, outcome' = [outcome EXCEPT ![c] = verdict],
           NEW place \in Place \ {"idle", "received"},
           place = "compile" => request[c].kind \in Stateful,
           pc' = [pc EXCEPT ![c] = place],
           UNCHANGED <<request, log>>
    PROVE  Meaning'
<1>1. \A d : EffectsOf(d)' = EffectsOf(d)
  BY DEF EffectsOf
<1>2. /\ \A d \in Call : d # c => pc'[d] = pc[d] /\ outcome'[d] = outcome[d]
      /\ pc'[c] = place /\ outcome'[c] = verdict
  BY DEF IInv, Typed, TypeOK
<1>3. Phases'
  BY <1>1, <1>2 DEF IInv, Phases
<1>4. Once'
  BY <1>1 DEF IInv, Once
<1>5. LeftAlone'
  BY <1>1, <1>2 DEF IInv, LeftAlone
<1>6. GuardIsCurrent'
  BY DEF IInv, GuardIsCurrent
<1> QED BY <1>3, <1>4, <1>5, <1>6 DEF Meaning

\* An attempt of a call that has done nothing so far.
LEMMA AttemptStep ==
    ASSUME IInv, NEW c \in Call, EffectsOf(c) = {}, request[c] \in Request,
           Attempted(c),
           NEW place \in Place \ {"idle", "received", "compile"},
           pc' = [pc EXCEPT ![c] = place],
           UNCHANGED request
    PROVE  Meaning'
<1>1. PICK verdict \in {"ok", "partial", "failed", "threw", "missing", "mismatch"} :
        outcome' = [outcome EXCEPT ![c] = verdict]
  BY DEF Attempted
<1>2. /\ \A d \in Call : d # c => pc'[d] = pc[d] /\ outcome'[d] = outcome[d]
      /\ pc'[c] = place /\ outcome'[c] = verdict
  BY <1>1 DEF IInv, Typed, TypeOK
<1>3. CASE NoEffect(c)
  <2>1. \A d : EffectsOf(d)' = EffectsOf(d)
    BY <1>3 DEF NoEffect, EffectsOf
  <2>2. Phases'
    BY <1>2, <2>1 DEF IInv, Phases
  <2>3. Once'
    BY <2>1 DEF IInv, Once
  <2>4. LeftAlone'
    BY <1>2, <1>3, <2>1 DEF IInv, LeftAlone, NoEffect
  <2>5. GuardIsCurrent'
    BY <1>3 DEF IInv, GuardIsCurrent, NoEffect
  <2> QED BY <2>2, <2>3, <2>4, <2>5 DEF Meaning
<1>4. CASE OneEffect(c)
  <2>1. PICK guard \in MaybeRevision :
          /\ log' = Append(log, [by |-> c, guard |-> guard, before |-> project, after |-> project'])
          /\ RequireRevision /\ request[c].kind \in Guarded => guard = HashSnapshot(project)
    BY <1>4 DEF OneEffect
  <2> DEFINE e == [by |-> c, guard |-> guard, before |-> project, after |-> project']
             n == Len(log) + 1
  <2>2. /\ n \in Nat /\ DOMAIN log = 1..Len(log) /\ DOMAIN log' = 1..n
        /\ log'[n] = e
        /\ \A i \in 1..Len(log) : log'[i] = log[i]
        /\ \A d : EffectsOf(d)' = IF c = d THEN EffectsOf(d) \cup {n} ELSE EffectsOf(d)
    <3>1. log' = Append(log, e) /\ e.by = c
      BY <2>1
    <3>2. Typed
      BY DEF IInv
    <3> HIDE DEF e
    <3> QED BY <3>1, <3>2, EffectsGrow
  <2>3. EffectsOf(c)' = {n} /\ \A d : d # c => EffectsOf(d)' = EffectsOf(d)
    BY <2>2
  <2>4. verdict \in {"ok", "partial", "threw"}
    BY <1>2, <1>4 DEF OneEffect
  <2> HIDE DEF n
  <2>5. Phases'
    BY <1>2, <2>3 DEF IInv, Phases
  <2>6. Once'
    BY <2>3 DEF IInv, Once
  <2>7. LeftAlone'
    BY <1>2, <2>3, <2>4 DEF IInv, LeftAlone
  <2>8. GuardIsCurrent'
    <3> SUFFICES ASSUME RequireRevision, NEW i \in DOMAIN log',
                        log'[i].by \in Call, request[log'[i].by].kind \in Guarded
                 PROVE  log'[i].guard = HashSnapshot(log'[i].before)
      BY DEF GuardIsCurrent, HashSnapshot
    <3>1. CASE i = n
      BY <2>1, <2>2, <3>1
    <3>2. CASE i # n
      <4>1. i \in 1..Len(log) /\ log'[i] = log[i]
        BY <2>2, <3>2 DEF n
      <4> QED BY <2>2, <4>1 DEF IInv, GuardIsCurrent
    <3> QED BY <3>1, <3>2
  <2> QED BY <2>5, <2>6, <2>7, <2>8 DEF Meaning
<1> QED BY <1>3, <1>4 DEF Attempted

\* The user is not a call.
LEMMA UserStep ==
    ASSUME IInv, UserEdit
    PROVE  Meaning'
<1>1. PICK after \in Snapshot :
        log' = Append(log, [by |-> "user", guard |-> NoRevision, before |-> project, after |-> after])
  BY DEF UserEdit
<1> DEFINE e == [by |-> "user", guard |-> NoRevision, before |-> project, after |-> after]
<1>2. /\ Len(log) \in Nat /\ DOMAIN log = 1..Len(log) /\ DOMAIN log' = 1..(Len(log) + 1)
      /\ log'[Len(log) + 1] = e
      /\ \A i \in 1..Len(log) : log'[i] = log[i]
      /\ \A d : EffectsOf(d)' = IF "user" = d THEN EffectsOf(d) \cup {Len(log) + 1} ELSE EffectsOf(d)
  <2>1. log' = Append(log, e) /\ e.by = "user"
    BY <1>1
  <2>2. Typed
    BY DEF IInv
  <2> HIDE DEF e
  <2> QED BY <2>1, <2>2, EffectsGrow
<1>3. \A d \in Call : EffectsOf(d)' = EffectsOf(d)
  BY <1>2, NobodyAssumption
<1>4. UNCHANGED <<pc, request, outcome>>
  BY DEF UserEdit
<1>5. Phases'
  BY <1>3, <1>4 DEF IInv, Phases
<1>6. Once'
  BY <1>3 DEF IInv, Once
<1>7. LeftAlone'
  BY <1>3, <1>4 DEF IInv, LeftAlone
<1>8. GuardIsCurrent'
  <2> SUFFICES ASSUME RequireRevision, NEW i \in DOMAIN log',
                      log'[i].by \in Call, request[log'[i].by].kind \in Guarded
               PROVE  log'[i].guard = HashSnapshot(log'[i].before)
    BY <1>4 DEF GuardIsCurrent, HashSnapshot
  <2>1. i # Len(log) + 1
    BY <1>2, NobodyAssumption
  <2>2. i \in 1..Len(log) /\ log'[i] = log[i]
    BY <1>2, <2>1
  <2> QED BY <1>2, <2>2 DEF IInv, GuardIsCurrent
<1> QED BY <1>5, <1>6, <1>7, <1>8 DEF Meaning

LEMMA MeaningInit == Init => Meaning
<1> SUFFICES ASSUME Init PROVE Meaning
  OBVIOUS
<1>1. \A c : EffectsOf(c) = {}
  BY DEF Init, EffectsOf
<1>2. Phases
  BY <1>1 DEF Init, Phases
<1>3. Once
  BY <1>1 DEF Once
<1>4. LeftAlone
  BY <1>1 DEF Init, LeftAlone
<1>5. GuardIsCurrent
  BY DEF Init, GuardIsCurrent
<1> QED BY <1>2, <1>3, <1>4, <1>5 DEF Meaning

LEMMA MeaningStep == IInv /\ [Next]_vars => Meaning'
<1> SUFFICES ASSUME IInv, [Next]_vars PROVE Meaning'
  OBVIOUS
<1>t. Typed
  BY DEF IInv
<1>1. CASE DeliverChunk
  <2>0. PICK first \in Call, client \in Client, kind \in Kind :
          /\ pc[first] = "idle"
          /\ \E rev \in {known[client], NoRevision} :
               request' = [request EXCEPT ![first] =
                              [client |-> client, kind |-> kind, ifRevision |-> rev]]
          /\ pc' = [pc EXCEPT ![first] = "received"]
    BY <1>1 DEF DeliverChunk
  <2>1. PICK rev \in {known[client], NoRevision} :
          /\ pc[first] = "idle"
          /\ request' = [request EXCEPT ![first] =
                            [client |-> client, kind |-> kind, ifRevision |-> rev]]
          /\ pc' = [pc EXCEPT ![first] = "received"]
    BY <2>0
  <2>2. [client |-> client, kind |-> kind, ifRevision |-> rev] \in Request
    <3>1. rev \in MaybeRevision
      BY <1>t DEF Typed, TypeOK, MaybeRevision
    <3> QED BY <3>1, PolicyAssumption DEF Request
  <2> QED BY <1>1, <2>1, <2>2, SendStep DEF DeliverChunk
<1>2. CASE ExtendChunk
  <2>0. PICK next \in Call, client \in Client, kind \in Kind :
          /\ pc[next] = "idle"
          /\ \E rev \in {known[client], NoRevision} :
               request' = [request EXCEPT ![next] =
                              [client |-> client, kind |-> kind, ifRevision |-> rev]]
          /\ pc' = [pc EXCEPT ![next] = "received"]
    BY <1>2 DEF ExtendChunk
  <2>1. PICK rev \in {known[client], NoRevision} :
          /\ pc[next] = "idle"
          /\ request' = [request EXCEPT ![next] =
                            [client |-> client, kind |-> kind, ifRevision |-> rev]]
          /\ pc' = [pc EXCEPT ![next] = "received"]
    BY <2>0
  <2>2. [client |-> client, kind |-> kind, ifRevision |-> rev] \in Request
    <3>1. rev \in MaybeRevision
      BY <1>t DEF Typed, TypeOK, MaybeRevision
    <3> QED BY <3>1, PolicyAssumption DEF Request
  <2> QED BY <1>2, <2>1, <2>2, SendStep DEF ExtendChunk
<1>3. CASE UserEdit
  BY <1>3, UserStep
<1>4. ASSUME NEW c \in Call, StartRetried(c) PROVE Meaning'
  <2>1. request[c] \in Request /\ request[c].ifRevision \in MaybeRevision
    BY <1>4, <1>t, RequestSent DEF StartRetried, AllKinds, Request
  <2>2. Attempted(c)
    BY <1>4, <1>t, <2>1, AttemptOutcome DEF StartRetried, Typed, TypeOK
  <2>3. Afterwards(c, "decide") \in Place \ {"idle", "received", "compile"}
    BY DEF Afterwards, Place
  <2>4. EffectsOf(c) = {} /\ pc' = [pc EXCEPT ![c] = Afterwards(c, "decide")]
    BY <1>4 DEF StartRetried, Starting, IInv, Phases
  <2> QED BY <1>4, <2>1, <2>2, <2>3, <2>4, AttemptStep DEF StartRetried
<1>5. ASSUME NEW c \in Call, StartStateful(c) PROVE Meaning'
  <2>1. request[c] \in Request /\ request[c].kind \notin Guarded
    BY <1>5, <1>t, RequestSent DEF StartStateful, AllKinds, Stateful, Guarded
  <2>2. EffectsOf(c) = {}
    BY <1>5 DEF StartStateful, Starting, IInv, Phases
  <2>3. PICK place \in {"attach", "compile"} : pc' = [pc EXCEPT ![c] = place]
    BY <1>5 DEF StartStateful, Starting
  <2>4. place \in Place \ {"idle", "received"} /\ "ok" \in Verdict
    BY DEF Place, Verdict
  <2> QED BY <1>5, <2>1, <2>2, <2>3, <2>4, AnswerStep DEF StartStateful
<1>6. ASSUME NEW c \in Call, RefuseStateful(c) PROVE Meaning'
  <2>1. request[c] \in Request /\ request[c].kind \notin Guarded
    BY <1>6, <1>t, RequestSent DEF RefuseStateful, AllKinds, Stateful, Guarded
  <2>2. EffectsOf(c) = {} /\ pc' = [pc EXCEPT ![c] = "unwind"]
    BY <1>6 DEF RefuseStateful, Starting, IInv, Phases
  <2>3. OptionalRevision(request[c].ifRevision) \in Verdict
    BY <1>6, OptionalDecides DEF RefuseStateful, Verdict
  <2>4. "unwind" \in Place \ {"idle", "received"}
    BY DEF Place
  <2> QED BY <1>6, <2>1, <2>2, <2>3, <2>4, AnswerStep DEF RefuseStateful
<1>7. ASSUME NEW c \in Call, StartDirect(c) PROVE Meaning'
  <2>1. request[c] \in Request /\ request[c].kind \notin Guarded
    BY <1>7, <1>t, RequestSent DEF StartDirect, AllKinds, Direct, Guarded
  <2>2. EffectsOf(c) = {} /\ pc' = [pc EXCEPT ![c] = "finalize"]
    BY <1>7 DEF StartDirect, Starting, IInv, Phases
  <2>3. PICK verdict \in Verdict : outcome' = [outcome EXCEPT ![c] = verdict]
    BY <1>7, OptionalDecides DEF StartDirect, Verdict
  <2>4. "finalize" \in Place \ {"idle", "received"}
    BY DEF Place
  <2> QED BY <1>7, <2>1, <2>2, <2>3, <2>4, AnswerStep DEF StartDirect
<1>8. ASSUME NEW c \in Call, CompileDone(c) PROVE Meaning'
  <2>1. request[c] \in Request /\ request[c].kind \notin Guarded /\ EffectsOf(c) = {}
    BY <1>8 DEF CompileDone, IInv, Phases, Stateful, Guarded
  <2>2. PICK verdict \in Verdict : outcome' = [outcome EXCEPT ![c] = verdict]
    BY <1>8 DEF CompileDone, Verdict
  <2>3. "attach" \in Place \ {"idle", "received"}
    BY DEF Place
  <2> QED BY <1>8, <2>1, <2>2, <2>3, AnswerStep DEF CompileDone
<1>9. ASSUME NEW c \in Call, KeepFirst(c) PROVE Meaning'
  <2>1. pc[c] # "idle" /\ pc' = [pc EXCEPT ![c] = "attach"] /\ UNCHANGED <<request, outcome, log>>
    BY <1>9 DEF KeepFirst, Resuming
  <2>2. "attach" \in Place \ {"idle", "received", "compile"}
    BY DEF Place
  <2> QED BY <2>1, <2>2, QuietStep
<1>10. ASSUME NEW c \in Call, Retry(c) PROVE Meaning'
  <2>1. HashSnapshot(project) \in MaybeRevision
    BY <1>t, TrackProject DEF MaybeRevision
  <2>2. Attempted(c)
    BY <1>10, <1>t, <2>1, TrackProject, AttemptOutcome DEF Retry
  <2>3. Afterwards(c, "settle") \in Place \ {"idle", "received", "compile"}
    BY DEF Afterwards, Place
  <2>4. EffectsOf(c) = {} /\ request[c] \in Request
    BY <1>10 DEF Retry, WillRetry, Resuming, IInv, Phases, LeftAlone
  <2>5. pc' = [pc EXCEPT ![c] = Afterwards(c, "settle")] /\ UNCHANGED request
    BY <1>10 DEF Retry, Resuming
  <2> QED BY <2>2, <2>3, <2>4, <2>5, AttemptStep
<1>11. ASSUME NEW c \in Call, Settle(c) PROVE Meaning'
  <2>1. PICK place \in {"attach", "unwind", "finalize"} : pc' = [pc EXCEPT ![c] = place]
    BY <1>11 DEF Settle, Resuming
  <2>2. pc[c] # "idle" /\ UNCHANGED <<request, outcome, log>>
    BY <1>11 DEF Settle, Resuming
  <2>3. place \in Place \ {"idle", "received", "compile"}
    BY DEF Place
  <2> QED BY <2>1, <2>2, <2>3, QuietStep
<1>12. ASSUME NEW c \in Call, Attach(c) PROVE Meaning'
  <2>1. pc[c] # "idle" /\ pc' = [pc EXCEPT ![c] = "unwind"] /\ UNCHANGED <<request, outcome, log>>
    BY <1>12 DEF Attach, Resuming
  <2>2. "unwind" \in Place \ {"idle", "received", "compile"}
    BY DEF Place
  <2> QED BY <2>1, <2>2, QuietStep
<1>13. ASSUME NEW c \in Call, Finalize(c) PROVE Meaning'
  <2>1. pc[c] # "idle" /\ pc' = [pc EXCEPT ![c] = "respond"] /\ UNCHANGED <<request, outcome, log>>
    BY <1>13 DEF Finalize, Resuming
  <2>2. "respond" \in Place \ {"idle", "received", "compile"}
    BY DEF Place
  <2> QED BY <2>1, <2>2, QuietStep
<1>14. ASSUME NEW c \in Call, Respond(c) PROVE Meaning'
  <2>1. pc[c] # "idle" /\ pc' = [pc EXCEPT ![c] = "done"] /\ UNCHANGED <<request, outcome, log>>
    BY <1>14 DEF Respond
  <2>2. "done" \in Place \ {"idle", "received", "compile"}
    BY DEF Place
  <2> QED BY <2>1, <2>2, QuietStep
<1>15. CASE UNCHANGED vars
  <2>1. UNCHANGED <<pc, request, outcome, log>>
    BY <1>15 DEF vars
  <2>2. \A d : EffectsOf(d)' = EffectsOf(d)
    BY <2>1 DEF EffectsOf
  <2>3. Phases' /\ Once' /\ LeftAlone'
    BY <2>1, <2>2 DEF IInv, Phases, Once, LeftAlone
  <2>4. GuardIsCurrent'
    BY <2>1 DEF IInv, GuardIsCurrent
  <2> QED BY <2>3, <2>4 DEF Meaning
<1> QED
  BY <1>1, <1>2, <1>3, <1>4, <1>5, <1>6, <1>7, <1>8, <1>9, <1>10, <1>11, <1>12, <1>13, <1>14, <1>15
  DEF Next, Start, Microtask

LEMMA InvariantHolds == Spec => []IInv
<1>1. Init => IInv
  BY TypedInit, MeaningInit DEF IInv, Meaning
<1>2. IInv /\ [Next]_vars => IInv'
  BY TypedStep, MeaningStep DEF IInv, Meaning
<1> QED BY <1>1, <1>2, PTL DEF Spec

\* Retries and nested usecases never apply a call a second time.
THEOREM NoCallAppliedTwice == Spec => []AppliedAtMostOnce
<1>1. IInv => AppliedAtMostOnce
  <2> SUFFICES ASSUME IInv, NEW c \in Call PROVE Cardinality(EffectsOf(c)) <= 1
    BY DEF AppliedAtMostOnce
  <2>1. CASE EffectsOf(c) = {}
    BY <2>1, FS_EmptySet
  <2>2. CASE EffectsOf(c) # {}
    <3>1. PICK i : i \in EffectsOf(c)
      BY <2>2
    <3>2. EffectsOf(c) = {i}
      BY <3>1 DEF IInv, Once
    <3>3. Cardinality({i}) = 1
      BY FS_Singleton
    <3> QED BY <3>2, <3>3
  <2> QED BY <2>1, <2>2
<1> QED BY InvariantHolds, <1>1, PTL

\* An edit is applied under the token of the snapshot it changes, on the first
\* attempt and on the retry, with every other call running in between.
THEOREM EditsCheckWhatTheyChange == Spec => []GuardIsCurrent
<1>1. IInv => GuardIsCurrent
  BY DEF IInv
<1> QED BY InvariantHolds, <1>1, PTL
-----------------------------------------------------------------------------
(* The attempt whose outcome is told. *)

\* An attempt of a guarded call records the revision it was given.
LEMMA AttemptRecords ==
    ASSUME NEW c \in Call, request[c].kind \in Guarded, NEW expected, NEW base,
           Attempt(c, expected, base)
    PROVE  \/ log' = log
           \/ \E before \in {project}, after \in Snapshot :
                log' = Append(log, [by |-> c, guard |-> expected, before |-> before, after |-> after])
<1>1. CASE Edit(c, expected, base)
  BY <1>1 DEF Edit, Reject, Leave, Effect
<1>2. CASE Compound(c, expected, base)
  BY <1>2 DEF Compound, Reject, Leave, Effect
<1> QED BY <1>1, <1>2 DEF Attempt, Guarded

\* A change a guarded call made carries the token of its last attempt.
LastAttempt ==
    \A c \in Call : request[c].kind \in Guarded => \A i \in EffectsOf(c) : log[i].guard = token[c]

\* A step without a change leaves the token of every call alone that has changed
\* something, or gives it to a call that has not.
LEMMA SameToken ==
    ASSUME LastAttempt, UNCHANGED log,
           \A d \in Call : EffectsOf(d) # {} => request'[d] = request[d] /\ token'[d] = token[d]
    PROVE  LastAttempt'
BY DEF LastAttempt, EffectsOf

\* An attempt of a call that has changed nothing so far sets token and guard alike.
LEMMA AttemptToken ==
    ASSUME IInv, LastAttempt, NEW c \in Call, EffectsOf(c) = {}, NEW expected, NEW base,
           Attempt(c, expected, base), UNCHANGED request
    PROVE  LastAttempt'
<1>1. token \in [Call -> MaybeRevision] /\ token' = [token EXCEPT ![c] = expected]
  BY DEF IInv, Typed, TypeOK, Attempt
<1>2. CASE log' = log
  <2>1. \A d \in Call : EffectsOf(d) # {} => request'[d] = request[d] /\ token'[d] = token[d]
    BY <1>1
  <2> QED BY <1>2, <2>1, SameToken
<1>3. ASSUME NEW e, log' = Append(log, e), e.by = c, request[c].kind \in Guarded => e.guard = expected
      PROVE  LastAttempt'
  <2>1. /\ Len(log) \in Nat /\ DOMAIN log = 1..Len(log)
        /\ log'[Len(log) + 1] = e
        /\ \A i \in 1..Len(log) : log'[i] = log[i]
        /\ \A d : EffectsOf(d)' = IF e.by = d THEN EffectsOf(d) \cup {Len(log) + 1} ELSE EffectsOf(d)
    BY <1>3, EffectsGrow DEF IInv
  <2> SUFFICES ASSUME NEW d \in Call, request[d].kind \in Guarded, NEW i \in EffectsOf(d)'
               PROVE  log'[i].guard = token'[d]
    BY DEF LastAttempt
  <2>2. CASE d = c
    BY <1>1, <1>3, <2>1, <2>2
  <2>3. CASE d # c
    <3>1. i \in EffectsOf(d) /\ i \in 1..Len(log) /\ token'[d] = token[d]
      BY <1>1, <1>3, <2>1, <2>3 DEF EffectsOf
    <3> QED BY <2>1, <3>1 DEF LastAttempt
  <2> QED BY <2>2, <2>3
<1>4. CASE request[c].kind \in Guarded /\ log' # log
  <2>1. PICK before \in {project}, after \in Snapshot :
          log' = Append(log, [by |-> c, guard |-> expected, before |-> before, after |-> after])
    BY <1>4, AttemptRecords
  <2> QED BY <2>1, <1>3
<1>5. CASE request[c].kind \notin Guarded /\ log' # log
  <2>1. Reuse(c, base)
    BY <1>5 DEF Attempt, Guarded
  <2>2. PICK after \in Snapshot :
          log' = Append(log, [by |-> c, guard |-> NoRevision, before |-> project, after |-> after])
    BY <1>5, <2>1 DEF Reuse, Leave, Effect
  <2> QED BY <1>5, <2>2, <1>3
<1> QED BY <1>2, <1>4, <1>5

LEMMA TokenStep ==
    ASSUME IInv, LastAttempt, [Next]_vars
    PROVE  LastAttempt'
<1>1. CASE DeliverChunk \/ ExtendChunk
  <2>1. UNCHANGED <<log, token>> /\ \A d \in Call : pc[d] # "idle" => request'[d] = request[d]
    BY <1>1 DEF DeliverChunk, ExtendChunk, IInv, Typed, TypeOK
  <2>2. \A d \in Call : EffectsOf(d) # {} => request'[d] = request[d] /\ token'[d] = token[d]
    BY <2>1 DEF IInv, Phases
  <2> QED BY <2>1, <2>2, SameToken
<1>2. CASE UserEdit
  <2>1. PICK after \in Snapshot :
          log' = Append(log, [by |-> "user", guard |-> NoRevision, before |-> project, after |-> after])
    BY <1>2 DEF UserEdit
  <2> DEFINE e == [by |-> "user", guard |-> NoRevision, before |-> project, after |-> after]
  <2>2. log' = Append(log, e) /\ e.by = "user"
    BY <2>1
  <2> HIDE DEF e
  <2>3. /\ DOMAIN log = 1..Len(log) /\ \A i \in 1..Len(log) : log'[i] = log[i]
        /\ \A d : EffectsOf(d)' = IF e.by = d THEN EffectsOf(d) \cup {Len(log) + 1} ELSE EffectsOf(d)
    BY <2>2, EffectsGrow DEF IInv
  <2>4. UNCHANGED <<request, token>>
    BY <1>2 DEF UserEdit
  <2>5. \A d \in Call : EffectsOf(d)' = EffectsOf(d)
    BY <2>2, <2>3, NobodyAssumption
  <2> SUFFICES ASSUME NEW d \in Call, request[d].kind \in Guarded, NEW i \in EffectsOf(d)
               PROVE  log'[i].guard = token[d]
    BY <2>4, <2>5 DEF LastAttempt
  <2>6. i \in 1..Len(log)
    BY <2>3 DEF EffectsOf
  <2> QED BY <2>3, <2>6 DEF LastAttempt
<1>3. ASSUME NEW c \in Call, StartRetried(c) PROVE LastAttempt'
  <2>1. EffectsOf(c) = {} /\ UNCHANGED request /\ Attempt(c, request[c].ifRevision, store)
    BY <1>3 DEF StartRetried, Starting, IInv, Phases
  <2> QED BY <2>1, AttemptToken
<1>4. ASSUME NEW c \in Call, Retry(c) PROVE LastAttempt'
  <2>1. EffectsOf(c) = {} /\ UNCHANGED request
        /\ Attempt(c, HashSnapshot(project), Track(store, project))
    BY <1>4 DEF Retry, WillRetry, IInv, LeftAlone
  <2> QED BY <2>1, AttemptToken
<1>5. ASSUME NEW c \in Call, StartStateful(c) \/ RefuseStateful(c) \/ StartDirect(c)
      PROVE  LastAttempt'
  <2>1. EffectsOf(c) = {} /\ UNCHANGED <<log, request>>
    BY <1>5 DEF StartStateful, RefuseStateful, StartDirect, Starting, IInv, Phases
  <2>2. \A d \in Call : d # c => token'[d] = token[d]
    BY <1>5 DEF StartStateful, RefuseStateful, StartDirect, IInv, Typed, TypeOK
  <2> QED BY <2>1, <2>2, SameToken
<1>6. ASSUME NEW c \in Call,
             CompileDone(c) \/ KeepFirst(c) \/ Settle(c) \/ Attach(c) \/ Finalize(c) \/ Respond(c)
      PROVE  LastAttempt'
  <2>1. UNCHANGED <<log, request, token>>
    BY <1>6 DEF CompileDone, KeepFirst, Settle, Attach, Finalize, Respond
  <2> QED BY <2>1, SameToken
<1>7. CASE UNCHANGED vars
  BY <1>7, SameToken DEF vars
<1> QED BY <1>1, <1>2, <1>3, <1>4, <1>5, <1>6, <1>7 DEF Next, Start, Microtask

\* A call that is refused or reported as failed has changed nothing, in none of
\* its attempts; and what an edit changed, its last attempt changed, whose outcome
\* is the one told: no attempt that changed something is repeated.
THEOREM ResponsesAreTrue == Spec => []OutcomeMatchesEffect
<1>1. Init => LastAttempt
  BY DEF Init, LastAttempt, EffectsOf
<1>2. IInv /\ LastAttempt /\ [Next]_vars => LastAttempt'
  BY TokenStep
<1>3. IInv /\ LastAttempt => OutcomeMatchesEffect
  BY DEF IInv, LeftAlone, LastAttempt, OutcomeMatchesEffect
<1> QED BY InvariantHolds, <1>1, <1>2, <1>3, PTL DEF Spec
-----------------------------------------------------------------------------
(* The strict policy: requireRevision without autoRetryRevision. *)

\* Every guarded change was checked against the revision its client sent.
SentIsChecked ==
    \A i \in DOMAIN log :
        log[i].by \in Call /\ request[log[i].by].kind \in Guarded
            => log[i].guard = request[log[i].by].ifRevision

\* A step that adds no guarded change keeps the log checked: the calls in the
\* log were sent, and a request is never changed after it was sent.
LEMMA SameLog ==
    ASSUME IInv, SentIsChecked, UNCHANGED log,
           \A d \in Call : pc[d] # "idle" => request'[d] = request[d]
    PROVE  SentIsChecked'
<1> SUFFICES ASSUME NEW i \in DOMAIN log, log[i].by \in Call,
                    request'[log[i].by].kind \in Guarded
             PROVE  log[i].guard = request'[log[i].by].ifRevision
  BY DEF SentIsChecked
<1>1. EffectsOf(log[i].by) # {}
  BY DEF EffectsOf
<1>2. pc[log[i].by] # "idle"
  BY <1>1 DEF IInv, Phases
<1> QED BY <1>2 DEF SentIsChecked

\* One more change, of a call under its own revision or of no guarded call.
LEMMA LongerLog ==
    ASSUME IInv, SentIsChecked, NEW e, log' = Append(log, e), UNCHANGED request,
           e.by \in Call /\ request[e.by].kind \in Guarded => e.guard = request[e.by].ifRevision
    PROVE  SentIsChecked'
<1> SUFFICES ASSUME NEW i \in DOMAIN log', log'[i].by \in Call,
                    request[log'[i].by].kind \in Guarded
             PROVE  log'[i].guard = request[log'[i].by].ifRevision
  BY DEF SentIsChecked
<1>1. /\ Len(log) \in Nat /\ DOMAIN log = 1..Len(log) /\ DOMAIN log' = 1..(Len(log) + 1)
      /\ log'[Len(log) + 1] = e
      /\ \A j \in 1..Len(log) : log'[j] = log[j]
  BY EffectsGrow DEF IInv
<1>2. CASE i = Len(log) + 1
  BY <1>1, <1>2
<1>3. CASE i # Len(log) + 1
  <2>1. i \in DOMAIN log /\ log'[i] = log[i]
    BY <1>1, <1>3
  <2> QED BY <2>1 DEF SentIsChecked
<1> QED BY <1>2, <1>3

LEMMA SentStep ==
    ASSUME ~AutoRetry, IInv, SentIsChecked, [Next]_vars
    PROVE  SentIsChecked'
<1>1. CASE DeliverChunk \/ ExtendChunk
  <2>1. UNCHANGED log /\ \A d \in Call : pc[d] # "idle" => request'[d] = request[d]
    BY <1>1 DEF DeliverChunk, ExtendChunk, IInv, Typed, TypeOK
  <2> QED BY <2>1, SameLog
<1>2. CASE UserEdit
  <2>1. PICK after \in Snapshot :
          log' = Append(log, [by |-> "user", guard |-> NoRevision, before |-> project, after |-> after])
    BY <1>2 DEF UserEdit
  <2>2. UNCHANGED request
    BY <1>2 DEF UserEdit
  <2> QED BY <2>1, <2>2, LongerLog, NobodyAssumption
<1>3. ASSUME NEW c \in Call, StartRetried(c) PROVE SentIsChecked'
  <2>1. UNCHANGED request /\ Attempt(c, request[c].ifRevision, store)
    BY <1>3 DEF StartRetried
  <2>2. CASE log' = log
    BY <2>1, <2>2, SameLog
  <2>3. CASE request[c].kind \in Guarded /\ log' # log
    <3>1. PICK before \in {project}, after \in Snapshot :
            log' = Append(log, [by |-> c, guard |-> request[c].ifRevision,
                                before |-> before, after |-> after])
      BY <2>1, <2>3, AttemptRecords
    <3> QED BY <2>1, <3>1, LongerLog
  <2>4. CASE request[c].kind \notin Guarded /\ log' # log
    <3>1. Reuse(c, store)
      BY <2>1, <2>4 DEF Attempt, Guarded
    <3>2. PICK after \in Snapshot :
            log' = Append(log, [by |-> c, guard |-> NoRevision, before |-> project, after |-> after])
      BY <2>4, <3>1 DEF Reuse, Leave, Effect
    <3> QED BY <2>1, <2>4, <3>2, LongerLog
  <2> QED BY <2>2, <2>3, <2>4
<1>4. ASSUME NEW c \in Call, Retry(c) PROVE SentIsChecked'
  BY <1>4 DEF Retry, WillRetry
<1>5. ASSUME NEW c \in Call,
             \/ StartStateful(c) \/ RefuseStateful(c) \/ StartDirect(c) \/ CompileDone(c)
             \/ KeepFirst(c) \/ Settle(c) \/ Attach(c) \/ Finalize(c) \/ Respond(c)
      PROVE  SentIsChecked'
  <2>1. UNCHANGED <<request, log>>
    BY <1>5 DEF StartStateful, RefuseStateful, StartDirect, CompileDone, KeepFirst,
                Settle, Attach, Finalize, Respond
  <2> QED BY <2>1, SameLog
<1>6. CASE UNCHANGED vars
  BY <1>6, SameLog DEF vars
<1> QED BY <1>1, <1>2, <1>3, <1>4, <1>5, <1>6 DEF Next, Start, Microtask

\* Under the strict policy ifRevision is what the protocol promises, a token
\* against stale writes: an edit is applied only on a snapshot that has the
\* revision its client sent.
THEOREM NoStaleWrites ==
    ASSUME RequireRevision, ~AutoRetry
    PROVE  Spec => []SentRevisionIsCurrent
<1>1. Init => SentIsChecked
  BY DEF Init, SentIsChecked
<1>2. IInv /\ SentIsChecked /\ [Next]_vars => SentIsChecked'
  BY SentStep
<1>3. IInv /\ SentIsChecked => SentRevisionIsCurrent
  BY DEF IInv, GuardIsCurrent, SentIsChecked, SentRevisionIsCurrent
<1> QED BY InvariantHolds, <1>1, <1>2, <1>3, PTL DEF Spec
-----------------------------------------------------------------------------
(* The revision in a response. *)

\* The log ends with the project, and no response is prepared before the
\* attempts of its call are over.
LogEndsHere == log # <<>> => log[Len(log)].after = project
ReplyComesLast ==
    \A c \in Call : pc[c] \in {"idle", "received", "decide"} => reply[c] = NoRevision

Replied == LogEndsHere /\ ReplyComesLast /\ ReplyCoversEffect

\* A step of call c, or of none, that changes neither project nor log; a reply
\* it prepares is the current revision.
LEMMA ReplyStep ==
    ASSUME IInv, Replied, UNCHANGED <<project, log>>,
           \A d \in Call : reply'[d] = reply[d] \/ reply'[d] = HashSnapshot(project),
           \A d \in Call : pc'[d] \in {"idle", "received", "decide"} =>
                              pc[d] \in {"idle", "received", "decide"} /\ reply'[d] = reply[d]
    PROVE  Replied'
<1>1. LogEndsHere' /\ ReplyComesLast'
  BY DEF Replied, LogEndsHere, ReplyComesLast
<1>2. ReplyCoversEffect'
  <2> SUFFICES ASSUME NEW d \in Call, NEW i \in EffectsOf(d), reply'[d] # NoRevision
               PROVE  \E j \in i..Len(log) : HashSnapshot(log[j].after) = reply'[d]
    BY DEF ReplyCoversEffect, EffectsOf, HashSnapshot
  <2>1. i \in 1..Len(log) /\ Len(log) \in Nat /\ log # <<>>
    BY DEF EffectsOf, IInv, Typed, TypeOK
  <2>2. CASE reply'[d] = reply[d]
    BY <2>2 DEF Replied, ReplyCoversEffect
  <2>3. CASE reply'[d] = HashSnapshot(project)
    <3>1. Len(log) \in i..Len(log)
      BY <2>1
    <3>2. HashSnapshot(log[Len(log)].after) = reply'[d]
      BY <2>1, <2>3 DEF Replied, LogEndsHere
    <3> QED BY <3>1, <3>2
  <2> QED BY <2>2, <2>3
<1> QED BY <1>1, <1>2 DEF Replied

\* One more change, made by someone who has no reply yet.
LEMMA GrowStep ==
    ASSUME IInv, Replied, NEW e, log' = Append(log, e), e.after = project',
           e.by \in Call => reply[e.by] = NoRevision,
           UNCHANGED reply,
           \A d \in Call : pc'[d] \in {"idle", "received", "decide"} =>
                              pc[d] \in {"idle", "received", "decide"}
    PROVE  Replied'
<1>1. /\ Len(log) \in Nat /\ DOMAIN log = 1..Len(log) /\ DOMAIN log' = 1..(Len(log) + 1)
      /\ log'[Len(log) + 1] = e
      /\ \A j \in 1..Len(log) : log'[j] = log[j]
      /\ \A d : EffectsOf(d)' = IF e.by = d THEN EffectsOf(d) \cup {Len(log) + 1} ELSE EffectsOf(d)
  BY EffectsGrow DEF IInv
<1>2. Len(log') = Len(log) + 1
  BY <1>1 DEF IInv, Typed, TypeOK
<1>3. LogEndsHere' /\ ReplyComesLast'
  BY <1>1, <1>2 DEF Replied, LogEndsHere, ReplyComesLast
<1>4. ReplyCoversEffect'
  <2> SUFFICES ASSUME NEW d \in Call, NEW i \in EffectsOf(d)', reply[d] # NoRevision
               PROVE  \E j \in i..Len(log') : HashSnapshot(log'[j].after) = reply[d]
    BY DEF ReplyCoversEffect, HashSnapshot
  <2>1. i \in EffectsOf(d)
    BY <1>1
  <2>2. PICK j \in i..Len(log) : HashSnapshot(log[j].after) = reply[d]
    BY <2>1 DEF Replied, ReplyCoversEffect
  <2>3. i \in 1..Len(log)
    BY <1>1, <2>1 DEF EffectsOf
  <2>4. j \in 1..Len(log) /\ j \in i..Len(log') /\ log'[j] = log[j]
    BY <1>1, <1>2, <2>2, <2>3
  <2> QED BY <2>2, <2>4
<1> QED BY <1>3, <1>4 DEF Replied

\* An attempt, by a call that is about to start or to retry.
LEMMA ReplyAttempt ==
    ASSUME IInv, Replied, NEW c \in Call, Attempted(c),
           pc[c] \in {"received", "decide"}, NEW place, pc' = [pc EXCEPT ![c] = place],
           UNCHANGED reply
    PROVE  Replied'
<1>1. \A d \in Call : pc'[d] \in {"idle", "received", "decide"} =>
                          pc[d] \in {"idle", "received", "decide"}
  BY DEF IInv, Typed, TypeOK
<1>2. CASE NoEffect(c)
  BY <1>1, <1>2, ReplyStep DEF NoEffect
<1>3. CASE OneEffect(c)
  <2>1. PICK guard \in MaybeRevision :
          log' = Append(log, [by |-> c, guard |-> guard, before |-> project, after |-> project'])
    BY <1>3 DEF OneEffect
  <2>2. reply[c] = NoRevision
    BY DEF Replied, ReplyComesLast
  <2> QED BY <1>1, <2>1, <2>2, GrowStep
<1> QED BY <1>2, <1>3 DEF Attempted

LEMMA RepliedStep ==
    ASSUME IInv, Replied, [Next]_vars
    PROVE  Replied'
<1>t. Typed
  BY DEF IInv
<1>1. CASE DeliverChunk \/ ExtendChunk
  <2>1. UNCHANGED <<project, log, reply>>
    BY <1>1 DEF DeliverChunk, ExtendChunk
  <2>2. PICK c \in Call : pc[c] = "idle" /\ pc' = [pc EXCEPT ![c] = "received"]
    BY <1>1 DEF DeliverChunk, ExtendChunk
  <2>3. \A d \in Call : pc'[d] \in {"idle", "received", "decide"} =>
                            pc[d] \in {"idle", "received", "decide"}
    BY <1>t, <2>2 DEF Typed, TypeOK
  <2> QED BY <2>1, <2>3, ReplyStep
<1>2. CASE UserEdit
  <2>1. PICK after \in Snapshot :
          /\ project' = after
          /\ log' = Append(log, [by |-> "user", guard |-> NoRevision, before |-> project, after |-> after])
    BY <1>2 DEF UserEdit
  <2>2. UNCHANGED <<pc, reply>>
    BY <1>2 DEF UserEdit
  <2> QED BY <2>1, <2>2, GrowStep, NobodyAssumption
<1>3. ASSUME NEW c \in Call, StartRetried(c) PROVE Replied'
  <2>1. request[c].ifRevision \in MaybeRevision
    BY <1>3, <1>t, RequestSent DEF StartRetried, AllKinds, Request
  <2>2. Attempted(c)
    BY <1>3, <1>t, <2>1, AttemptOutcome DEF StartRetried, Typed, TypeOK
  <2>3. pc[c] = "received" /\ pc' = [pc EXCEPT ![c] = Afterwards(c, "decide")] /\ UNCHANGED reply
    BY <1>3 DEF StartRetried, Starting
  <2> QED BY <2>2, <2>3, ReplyAttempt
<1>4. ASSUME NEW c \in Call, Retry(c) PROVE Replied'
  <2>1. HashSnapshot(project) \in MaybeRevision
    BY <1>t, TrackProject DEF MaybeRevision
  <2>2. Attempted(c)
    BY <1>4, <1>t, <2>1, TrackProject, AttemptOutcome DEF Retry
  <2>3. pc[c] = "decide" /\ pc' = [pc EXCEPT ![c] = Afterwards(c, "settle")] /\ UNCHANGED reply
    BY <1>4 DEF Retry, Resuming
  <2> QED BY <2>2, <2>3, ReplyAttempt
<1>5. ASSUME NEW c \in Call, RefuseStateful(c) \/ StartDirect(c) \/ Attach(c) PROVE Replied'
  <2>1. PICK place \in {"unwind", "finalize"} : pc' = [pc EXCEPT ![c] = place]
    BY <1>5 DEF RefuseStateful, StartDirect, Attach, Starting, Resuming
  <2>2. UNCHANGED <<project, log>> /\ reply' = [reply EXCEPT ![c] = HashSnapshot(project)]
    BY <1>5 DEF RefuseStateful, StartDirect, Attach, AttachState
  <2>3. \A d \in Call : reply'[d] = reply[d] \/ reply'[d] = HashSnapshot(project)
    BY <1>t, <2>2 DEF Typed, TypeOK
  <2>4. \A d \in Call : pc'[d] \in {"idle", "received", "decide"} =>
                            pc[d] \in {"idle", "received", "decide"} /\ reply'[d] = reply[d]
    BY <1>t, <2>1, <2>2 DEF Typed, TypeOK
  <2> QED BY <2>2, <2>3, <2>4, ReplyStep
<1>6. ASSUME NEW c \in Call,
             \/ StartStateful(c) \/ CompileDone(c)
             \/ KeepFirst(c) \/ Settle(c) \/ Finalize(c) \/ Respond(c)
      PROVE  Replied'
  <2>1. UNCHANGED <<project, log, reply>>
    BY <1>6 DEF StartStateful, CompileDone, KeepFirst, Settle, Finalize, Respond
  <2>2. PICK place \in {"attach", "compile", "unwind", "finalize", "respond", "done"} :
          pc' = [pc EXCEPT ![c] = place]
    BY <1>6 DEF StartStateful, CompileDone, KeepFirst, Settle, Finalize, Respond, Starting, Resuming
  <2>3. \A d \in Call : pc'[d] \in {"idle", "received", "decide"} =>
                            pc[d] \in {"idle", "received", "decide"}
    BY <1>t, <2>2 DEF Typed, TypeOK
  <2> QED BY <2>1, <2>3, ReplyStep
<1>7. CASE UNCHANGED vars
  <2>1. UNCHANGED <<project, log, reply, pc>>
    BY <1>7 DEF vars
  <2> QED BY <2>1, ReplyStep
<1> QED BY <1>1, <1>2, <1>3, <1>4, <1>5, <1>6, <1>7 DEF Next, Start, Microtask

\* A client that edits is never told a revision from before its own edit:
\* attachStateToResponse reads the project after the attempts are over.
THEOREM RepliesCoverEffects == Spec => []ReplyCoversEffect
<1>1. Init => Replied
  <2> SUFFICES ASSUME Init PROVE Replied
    OBVIOUS
  <2>1. \A c : EffectsOf(c) = {}
    BY DEF Init, EffectsOf
  <2> QED BY <2>1 DEF Init, Replied, LogEndsHere, ReplyComesLast, ReplyCoversEffect
<1>2. IInv /\ Replied /\ [Next]_vars => Replied'
  BY RepliedStep
<1>3. Replied => ReplyCoversEffect
  BY DEF Replied
<1> QED BY InvariantHolds, <1>1, <1>2, <1>3, PTL DEF Spec

-----------------------------------------------------------------------------
(* The order of the trace.  The microtask queue goes round: the call whose *)
(* turn it is goes to its end.  A call that changed the project has four   *)
(* turns to go until it is traced, whether it is its first attempt that    *)
(* did it or its second, so nobody who changed the project later overtakes *)
(* it.                                                                     *)

Among(s) == {s[i] : i \in 1..Len(s)}
Distinct(s) == \A i, j \in 1..Len(s) : s[i] = s[j] => i = j
Comes(s, c, d) == \E i, j \in 1..Len(s) : i < j /\ s[i] = c /\ s[j] = d

\* r is s with x at its end.
Joined(r, s, x) ==
    /\ Distinct(r) /\ Among(r) = Among(s) \cup {x}
    /\ \A c, d : Comes(r, c, d) <=> (c \in Among(s) /\ d = x) \/ Comes(s, c, d)

\* Joining a queue of others, at its end.
LEMMA JoinsQueue ==
    ASSUME NEW s \in Seq(Call), Distinct(s), NEW x \in Call, x \notin Among(s), NEW r, r = Append(s, x)
    PROVE  Joined(r, s, x)
<1> DEFINE n == Len(s)
<1>1. n \in Nat /\ r \in Seq(Call) /\ Len(r) = n + 1 /\ r[n + 1] = x /\ \A i \in 1..n : r[i] = s[i]
  OBVIOUS
<1>2. n = Len(s)
  OBVIOUS
<1> HIDE DEF n
<1>3. Distinct(r)
  BY <1>1, <1>2 DEF Distinct, Among
<1>4. Among(r) = Among(s) \cup {x}
  <2>1. ASSUME NEW y \in Among(r) PROVE y \in Among(s) \cup {x}
    BY <1>1, <1>2, <2>1 DEF Among
  <2>2. ASSUME NEW y \in Among(s) PROVE y \in Among(r)
    BY <1>1, <1>2, <2>2 DEF Among
  <2>3. x \in Among(r)
    BY <1>1 DEF Among
  <2> QED BY <2>1, <2>2, <2>3
<1>5. ASSUME NEW c, NEW d, Comes(r, c, d) PROVE (c \in Among(s) /\ d = x) \/ Comes(s, c, d)
  <2>1. PICK i, j \in 1..(n + 1) : i < j /\ r[i] = c /\ r[j] = d
    BY <1>1, <1>5 DEF Comes
  <2>2. i \in 1..n /\ c = s[i]
    BY <1>1, <2>1
  <2>3. CASE j = n + 1
    BY <1>1, <1>2, <2>1, <2>2, <2>3 DEF Among
  <2>4. CASE j # n + 1
    <3>1. j \in 1..n /\ d = s[j]
      BY <1>1, <2>1, <2>4
    <3> QED BY <1>2, <2>1, <2>2, <3>1 DEF Comes
  <2> QED BY <2>3, <2>4
<1>6. ASSUME NEW c \in Among(s) PROVE Comes(r, c, x)
  <2>1. PICK i \in 1..n : s[i] = c
    BY <1>2, <1>6 DEF Among
  <2>2. i \in 1..Len(r) /\ n + 1 \in 1..Len(r) /\ i < n + 1
    BY <1>1
  <2> QED BY <1>1, <2>1, <2>2 DEF Comes
<1>7. ASSUME NEW c, NEW d, Comes(s, c, d) PROVE Comes(r, c, d)
  <2>1. PICK i, j \in 1..n : i < j /\ s[i] = c /\ s[j] = d
    BY <1>2, <1>7 DEF Comes
  <2>2. i \in 1..Len(r) /\ j \in 1..Len(r)
    BY <1>1
  <2> QED BY <1>1, <2>1, <2>2 DEF Comes
<1> QED BY <1>3, <1>4, <1>5, <1>6, <1>7 DEF Joined

\* Leaving a queue at its head.
LEMMA LeavesQueue ==
    ASSUME NEW S, NEW s \in Seq(S), s # <<>>, Distinct(s), NEW r, r = Tail(s)
    PROVE  /\ r \in Seq(S) /\ Distinct(r) /\ Among(r) = Among(s) \ {Head(s)} /\ Head(s) \in Among(s)
           /\ \A c, d : Comes(s, c, d) <=> (c = Head(s) /\ d \in Among(r)) \/ Comes(r, c, d)
<1> DEFINE n == Len(r)
<1>1. n \in Nat /\ r \in Seq(S) /\ Len(s) = n + 1 /\ s[1] = Head(s) /\ \A i \in 1..n : r[i] = s[i + 1]
  OBVIOUS
<1>2. n = Len(r)
  OBVIOUS
<1> HIDE DEF n
<1>3. Distinct(r)
  <2> SUFFICES ASSUME NEW i \in 1..n, NEW j \in 1..n, r[i] = r[j] PROVE i = j
    BY <1>2 DEF Distinct
  <2>1. i + 1 \in 1..Len(s) /\ j + 1 \in 1..Len(s) /\ s[i + 1] = s[j + 1]
    BY <1>1
  <2>2. i + 1 = j + 1
    BY <2>1 DEF Distinct
  <2> QED BY <2>2
<1>4. ASSUME NEW i \in 1..Len(s), i # 1 PROVE i - 1 \in 1..n /\ r[i - 1] = s[i]
  <2>1. i - 1 \in 1..n /\ (i - 1) + 1 = i
    BY <1>1, <1>4
  <2> QED BY <1>1, <2>1
<1>5. ASSUME NEW i \in 1..n PROVE i + 1 \in 1..Len(s) /\ s[i + 1] = r[i] /\ r[i] # Head(s)
  <2>1. i + 1 \in 1..Len(s) /\ 1 \in 1..Len(s) /\ s[i + 1] = r[i] /\ i + 1 # 1
    BY <1>1
  <2>2. s[i + 1] # s[1]
    BY <2>1 DEF Distinct
  <2> QED BY <1>1, <2>1, <2>2
<1>6. Head(s) \in Among(s)
  BY <1>1 DEF Among
<1>7. Among(r) = Among(s) \ {Head(s)}
  <2>1. ASSUME NEW y \in Among(r) PROVE y \in Among(s) \ {Head(s)}
    BY <1>2, <1>5, <2>1 DEF Among
  <2>2. ASSUME NEW y \in Among(s) \ {Head(s)} PROVE y \in Among(r)
    <3>1. PICK i \in 1..Len(s) : s[i] = y
      BY <2>2 DEF Among
    <3>2. i # 1
      BY <1>1, <2>2, <3>1
    <3> QED BY <1>2, <1>4, <3>1, <3>2 DEF Among
  <2> QED BY <2>1, <2>2
<1>8. ASSUME NEW c, NEW d, Comes(s, c, d) PROVE (c = Head(s) /\ d \in Among(r)) \/ Comes(r, c, d)
  <2>1. PICK i, j \in 1..Len(s) : i < j /\ s[i] = c /\ s[j] = d
    BY <1>8 DEF Comes
  <2>2. j # 1
    BY <2>1
  <2>3. j - 1 \in 1..n /\ r[j - 1] = d
    BY <1>4, <2>1, <2>2
  <2>4. CASE i = 1
    BY <1>1, <1>2, <2>1, <2>3, <2>4 DEF Among
  <2>5. CASE i # 1
    <3>1. i - 1 \in 1..n /\ r[i - 1] = c /\ i - 1 < j - 1
      BY <1>4, <2>1, <2>5
    <3> QED BY <1>2, <2>3, <3>1 DEF Comes
  <2> QED BY <2>4, <2>5
<1>9. ASSUME NEW d \in Among(r) PROVE Comes(s, Head(s), d)
  <2>1. PICK j \in 1..n : r[j] = d
    BY <1>2, <1>9 DEF Among
  <2>2. 1 \in 1..Len(s) /\ j + 1 \in 1..Len(s) /\ 1 < j + 1 /\ s[j + 1] = d
    BY <1>1, <1>5, <2>1
  <2> QED BY <1>1, <2>2 DEF Comes
<1>10. ASSUME NEW c, NEW d, Comes(r, c, d) PROVE Comes(s, c, d)
  <2>1. PICK i, j \in 1..n : i < j /\ r[i] = c /\ r[j] = d
    BY <1>2, <1>10 DEF Comes
  <2>2. i + 1 < j + 1
    BY <2>1
  <2> QED BY <1>5, <2>1, <2>2 DEF Comes
<1> QED BY <1>1, <1>3, <1>6, <1>7, <1>8, <1>9, <1>10

\* In the queue, and how many turns it is until the call is traced.
Waiting == {"decide", "settle", "attach", "rejected", "unwind", "finalize", "respond"}
Turns(place) ==
    CASE place \in {"decide", "settle"} -> 4
      [] place = "attach"               -> 3
      [] place = "unwind"               -> 2
      [] place = "finalize"             -> 1
      [] OTHER                          -> 0

\* The queue and the trace hold each call once, those their places say.
Queues ==
    /\ Distinct(jobs) /\ \A c \in Call : c \in Among(jobs) <=> pc[c] \in Waiting
    /\ Distinct(traced) /\ \A c \in Call : c \in Among(traced) <=> pc[c] \in {"respond", "done"}
    /\ \A c \in Call : pc[c] = "rejected" => outcome[c] = "threw"

\* c is traced before d: it was, or it will be.
Sooner(c, d) ==
    \/ c \in Among(traced) /\ d \notin Among(traced)
    \/ Comes(traced, c, d)
    \/ /\ c \notin Among(traced) /\ d \notin Among(traced)
       /\ Turns(pc[c]) <= Turns(pc[d]) /\ (Turns(pc[c]) = Turns(pc[d]) => Comes(jobs, c, d))
EffectsInOrder ==
    \A c, d \in Call : outcome[c] # "threw" /\ outcome[d] # "threw" =>
        \A m \in EffectsOf(c), n \in EffectsOf(d) : m < n => Sooner(c, d)
Lined == Queues /\ EffectsInOrder

\* A call that changed the project and did not throw is traced or has between
\* one and four turns to go.
LEMMA Underway ==
    ASSUME IInv, Queues, NEW c \in Call, EffectsOf(c) # {}, outcome[c] # "threw", c \notin Among(traced)
    PROVE  c \in Among(jobs) /\ pc[c] \in {"decide", "settle", "attach", "unwind", "finalize"}
<1>1. pc[c] \in Place
  BY DEF IInv, Typed, TypeOK
<1>2. pc[c] \notin {"idle", "received", "compile", "rejected", "respond", "done"}
  BY DEF IInv, Phases, Queues
<1> QED BY <1>1, <1>2 DEF Place, Queues, Waiting

\* h goes to the end of the queue, from its head or from outside.
ToTheEnd(h) ==
    /\ Distinct(jobs)' /\ \A d : ~Comes(jobs, d, h)
    /\ \A c : c \in Among(jobs)' <=> c \in Among(jobs) \cup {h}
    /\ \A c, d \in Among(jobs)' : c # d => (Comes(jobs, c, d)' <=> d = h \/ (c # h /\ Comes(jobs, c, d)))

\* The turn of the call at the head.
LEMMA HeadGoesToTheEnd ==
    ASSUME IInv, Queues, NEW h \in Call, jobs # <<>>, h = Head(jobs), jobs' = Append(Tail(jobs), h)
    PROVE  ToTheEnd(h)
<1> DEFINE s == jobs
           t == Tail(jobs)
           r == jobs'
<1>1. s \in Seq(Call) /\ s # <<>> /\ Distinct(s)
  BY DEF IInv, Typed, TypeOK, Queues
<1>2. /\ t \in Seq(Call) /\ Distinct(t) /\ Among(t) = Among(s) \ {h} /\ h \in Among(s)
      /\ \A c, d : Comes(s, c, d) <=> (c = h /\ d \in Among(t)) \/ Comes(t, c, d)
  BY <1>1, LeavesQueue
<1>3. h \notin Among(t) /\ r = Append(t, h)
  BY <1>2
<1>4. \A c, d : Comes(t, c, d) => c \in Among(t) /\ d \in Among(t)
  BY DEF Comes, Among
<1> HIDE DEF t, r
<1>j. Joined(r, t, h)
  BY <1>2, <1>3, JoinsQueue
<1>5. /\ Distinct(r) /\ Among(r) = Among(t) \cup {h}
      /\ \A c, d : Comes(r, c, d) <=> (c \in Among(t) /\ d = h) \/ Comes(t, c, d)
  BY <1>j DEF Joined
<1> HIDE DEF s
<1>6. \A d : ~Comes(s, d, h)
  BY <1>2, <1>3, <1>4
<1>7. \A c, d \in Among(r) : c # d => (Comes(r, c, d) <=> d = h \/ (c # h /\ Comes(s, c, d)))
  BY <1>2, <1>3, <1>4, <1>5
<1> QED BY <1>2, <1>5, <1>6, <1>7 DEF ToTheEnd, s, r

\* The start of a call.
LEMMA StartGoesToTheEnd ==
    ASSUME IInv, Queues, NEW h \in Call, pc[h] \notin Waiting, jobs' = Append(jobs, h)
    PROVE  ToTheEnd(h)
<1> DEFINE s == jobs
           r == jobs'
<1>1. s \in Seq(Call) /\ Distinct(s) /\ h \notin Among(s)
  BY DEF IInv, Typed, TypeOK, Queues
<1>2. \A c, d : Comes(s, c, d) => c \in Among(s) /\ d \in Among(s)
  BY DEF Comes, Among
<1>r. r = Append(s, h)
  OBVIOUS
<1> HIDE DEF s, r
<1>j. Joined(r, s, h)
  BY <1>1, <1>r, JoinsQueue
<1>3. /\ Distinct(r) /\ Among(r) = Among(s) \cup {h}
      /\ \A c, d : Comes(r, c, d) <=> (c \in Among(s) /\ d = h) \/ Comes(s, c, d)
  BY <1>j DEF Joined
<1>4. \A d : ~Comes(s, d, h)
  BY <1>1, <1>2
<1>5. \A c, d \in Among(r) : c # d => (Comes(r, c, d) <=> d = h \/ (c # h /\ Comes(s, c, d)))
  BY <1>1, <1>2, <1>3
<1> QED BY <1>3, <1>4, <1>5 DEF ToTheEnd, s, r

\* What h has done so far is what it did before, and it is a turn closer to the
\* trace; or it has just changed the project, later than all others.
Proceeds(h, place) ==
    \/ /\ EffectsOf(h)' = EffectsOf(h)
       /\ outcome'[h] # "threw" /\ EffectsOf(h) # {}
            => outcome[h] # "threw" /\ Turns(place) + 1 = Turns(pc[h])
    \/ /\ EffectsOf(h) = {}
       /\ outcome'[h] # "threw" => Turns(place) = 4
       /\ \A d \in Call : \A m \in EffectsOf(d), n \in EffectsOf(h)' : m < n

\* A step of h that ends its turn and does not trace it.
LEMMA TurnStep ==
    ASSUME IInv, IInv', Lined, NEW h \in Call, ToTheEnd(h),
           NEW place \in Waiting \ {"respond"}, pc' = [pc EXCEPT ![h] = place],
           pc[h] \notin {"respond", "done"}, place = "rejected" => outcome'[h] = "threw",
           UNCHANGED traced, Proceeds(h, place),
           \A d \in Call \ {h} : EffectsOf(d)' = EffectsOf(d) /\ outcome'[d] = outcome[d]
    PROVE  Lined'
<1>1. \A d \in Call : pc'[d] = IF d = h THEN place ELSE pc[d]
  BY DEF IInv, Typed, TypeOK
<1>q. Queues /\ h \notin Among(traced)
  BY DEF Lined, Queues
<1>2. Queues'
  <2>1. \A c \in Call : c \in Among(jobs)' <=> pc'[c] \in Waiting
    BY <1>1, <1>q DEF Queues, ToTheEnd
  <2>2. \A c \in Call : c \in Among(traced)' <=> pc'[c] \in {"respond", "done"}
    BY <1>1, <1>q DEF Queues, Waiting
  <2>3. \A c \in Call : pc'[c] = "rejected" => outcome'[c] = "threw"
    BY <1>1, <1>q DEF Queues
  <2> QED BY <1>q, <2>1, <2>2, <2>3 DEF Queues, ToTheEnd
<1>3. ASSUME NEW c \in Call, NEW d \in Call, outcome'[c] # "threw", outcome'[d] # "threw",
             NEW m \in EffectsOf(c)', NEW n \in EffectsOf(d)', m < n
      PROVE  Sooner(c, d)'
  <2>1. m \in Int /\ n \in Int
    BY DEF EffectsOf, IInv, Typed, TypeOK
  <2>2. c # d
    BY <1>3, <2>1 DEF IInv, Once
  <2> DEFINE New == EffectsOf(h) = {} /\ EffectsOf(h)' # {}
  <2>3. ASSUME m \in EffectsOf(c), outcome[c] # "threw"
        PROVE  \/ c \in Among(traced)
               \/ c \in Among(jobs) /\ c \in Among(jobs)' /\ Turns(pc[c]) \in 1..4
    <3> SUFFICES ASSUME c \notin Among(traced) PROVE c \in Among(jobs) /\ c \in Among(jobs)' /\ Turns(pc[c]) \in 1..4
      OBVIOUS
    <3>1. c \in Among(jobs) /\ pc[c] \in {"decide", "settle", "attach", "unwind", "finalize"}
      BY <1>q, <2>3, Underway
    <3> QED BY <3>1 DEF Turns, ToTheEnd
  <2>4. CASE d = h /\ New
    <3>1. m \in EffectsOf(c) /\ outcome[c] # "threw" /\ Turns(place) = 4 /\ c # h
      BY <1>3, <2>2, <2>4 DEF Proceeds
    <3>2. CASE c \in Among(traced)
      BY <1>q, <2>4, <3>2 DEF Sooner
    <3>3. CASE c \notin Among(traced)
      <4>1. c \in Among(jobs)' /\ h \in Among(jobs)' /\ Turns(pc'[c]) <= Turns(pc'[h])
        BY <1>1, <2>3, <3>1, <3>3 DEF ToTheEnd
      <4>2. Comes(jobs, c, h)'
        BY <3>1, <4>1 DEF ToTheEnd
      <4> QED BY <1>q, <2>4, <3>3, <4>1, <4>2 DEF Sooner
    <3> QED BY <3>2, <3>3
  <2>5. CASE c = h /\ New
    <3>1. n \in EffectsOf(d) /\ n < m
      BY <2>2, <2>5 DEF Proceeds
    <3> QED BY <1>3, <2>1, <3>1
  <2>6. CASE ~((c = h \/ d = h) /\ New)
    <3>1. /\ m \in EffectsOf(c) /\ n \in EffectsOf(d) /\ outcome[c] # "threw" /\ outcome[d] # "threw"
          /\ (c = h \/ d = h) => Turns(place) + 1 = Turns(pc[h])
      BY <1>3, <2>6 DEF Proceeds
    <3>2. Sooner(c, d)
      BY <1>3, <3>1 DEF Lined, EffectsInOrder
    <3>3. CASE (c \in Among(traced) /\ d \notin Among(traced)) \/ Comes(traced, c, d)
      BY <3>3 DEF Sooner
    <3>4. CASE /\ c \notin Among(traced) /\ d \notin Among(traced)
               /\ Turns(pc[c]) <= Turns(pc[d]) /\ (Turns(pc[c]) = Turns(pc[d]) => Comes(jobs, c, d))
      <4>1. /\ c \in Among(jobs)' /\ Turns(pc[c]) \in 1..4
            /\ d \in Among(jobs)' /\ Turns(pc[d]) \in 1..4
        <5>1. d \in Among(jobs) /\ pc[d] \in {"decide", "settle", "attach", "unwind", "finalize"}
          BY <1>q, <3>1, <3>4, Underway
        <5> QED BY <2>3, <3>1, <3>4, <5>1 DEF Turns, ToTheEnd
      <4>2. CASE c = h
        <5>1. Turns(pc'[c]) + 1 = Turns(pc[c]) /\ Turns(pc'[d]) = Turns(pc[d])
          BY <1>1, <2>2, <3>1, <4>2
        <5>2. Turns(pc'[c]) \in Int
          BY DEF Turns
        <5>3. Turns(pc'[c]) <= Turns(pc'[d]) /\ Turns(pc'[c]) # Turns(pc'[d])
          BY <3>4, <4>1, <5>1, <5>2
        <5> QED BY <3>4, <5>3 DEF Sooner
      <4>3. CASE d = h
        <5>1. Turns(pc'[d]) + 1 = Turns(pc[d]) /\ Turns(pc'[c]) = Turns(pc[c])
          BY <1>1, <2>2, <3>1, <4>3
        <5>2. Turns(pc'[d]) \in Int
          BY DEF Turns
        <5>3. ~Comes(jobs, c, d) /\ Comes(jobs, c, d)'
          BY <2>2, <4>1, <4>3 DEF ToTheEnd
        <5>4. Turns(pc'[c]) <= Turns(pc'[d])
          BY <3>4, <4>1, <5>1, <5>2, <5>3
        <5> QED BY <3>4, <5>3, <5>4 DEF Sooner
      <4>4. CASE c # h /\ d # h
        <5>1. pc'[c] = pc[c] /\ pc'[d] = pc[d]
          BY <1>1, <4>4
        <5>2. Comes(jobs, c, d)' <=> Comes(jobs, c, d)
          BY <2>2, <4>1, <4>4 DEF ToTheEnd
        <5> QED BY <3>4, <5>1, <5>2 DEF Sooner
      <4> QED BY <4>2, <4>3, <4>4
    <3> QED BY <3>2, <3>3, <3>4 DEF Sooner
  <2> QED BY <2>4, <2>5, <2>6
<1> QED BY <1>2, <1>3 DEF Lined, EffectsInOrder

\* A call that has done nothing yet attempts, and comes to have four turns to
\* go, or throws.
LEMMA AttemptProceeds ==
    ASSUME IInv, NEW h \in Call, EffectsOf(h) = {}, Attempted(h), NEW place,
           outcome'[h] # "threw" => Turns(place) = 4
    PROVE  /\ Proceeds(h, place)
           /\ \A d \in Call \ {h} : EffectsOf(d)' = EffectsOf(d) /\ outcome'[d] = outcome[d]
<1>1. \A d \in Call \ {h} : outcome'[d] = outcome[d]
  BY DEF Attempted, IInv, Typed, TypeOK
<1>2. CASE log' = log
  <2>1. \A d : EffectsOf(d)' = EffectsOf(d)
    BY <1>2 DEF EffectsOf
  <2> QED BY <1>1, <2>1 DEF Proceeds
<1>3. CASE log' # log
  <2>1. PICK guard \in MaybeRevision :
          log' = Append(log, [by |-> h, guard |-> guard, before |-> project, after |-> project'])
    BY <1>3 DEF Attempted, NoEffect, OneEffect
  <2> DEFINE e == [by |-> h, guard |-> guard, before |-> project, after |-> project']
  <2>2. log' = Append(log, e) /\ e.by = h
    BY <2>1
  <2> HIDE DEF e
  <2>3. /\ Len(log) \in Nat /\ DOMAIN log = 1..Len(log)
        /\ \A d : EffectsOf(d)' = IF h = d THEN EffectsOf(d) \cup {Len(log) + 1} ELSE EffectsOf(d)
    BY <2>2, EffectsGrow DEF IInv
  <2>4. EffectsOf(h)' = {Len(log) + 1} /\ \A d \in Call : EffectsOf(d) \subseteq 1..Len(log)
    BY <2>3 DEF EffectsOf
  <2>5. \A d \in Call : \A m \in EffectsOf(d), n \in EffectsOf(h)' : m < n
    BY <2>3, <2>4
  <2> QED BY <1>1, <2>3, <2>5 DEF Proceeds
<1> QED BY <1>2, <1>3

\* A step of the calls outside the queue, and of the user.
LEMMA OutsideStep ==
    ASSUME IInv, Lined, UNCHANGED <<jobs, traced>>,
           \A d \in Call : EffectsOf(d)' = EffectsOf(d),
           \A d \in Call : outcome'[d] = outcome[d] \/ EffectsOf(d) = {},
           \A d \in Call : pc'[d] = pc[d] \/ {pc[d], pc'[d]} \subseteq {"idle", "received", "compile"},
           \A d \in Call : pc'[d] = "rejected" => outcome'[d] = outcome[d]
    PROVE  Lined'
<1>1. Queues'
  <2>1. \A c \in Call : c \in Among(jobs)' <=> pc'[c] \in Waiting
    BY DEF Lined, Queues, Waiting
  <2>2. \A c \in Call : c \in Among(traced)' <=> pc'[c] \in {"respond", "done"}
    BY DEF Lined, Queues
  <2>3. \A c \in Call : pc'[c] = "rejected" => outcome'[c] = "threw"
    BY DEF Lined, Queues
  <2> QED BY <2>1, <2>2, <2>3 DEF Lined, Queues
<1>2. ASSUME NEW c \in Call, NEW d \in Call, outcome'[c] # "threw", outcome'[d] # "threw",
             NEW m \in EffectsOf(c)', NEW n \in EffectsOf(d)', m < n
      PROVE  Sooner(c, d)'
  <2>1. /\ m \in EffectsOf(c) /\ n \in EffectsOf(d) /\ outcome[c] # "threw" /\ outcome[d] # "threw"
    BY <1>2
  <2>2. Sooner(c, d)
    BY <1>2, <2>1 DEF Lined, EffectsInOrder
  <2>3. \A x \in {c, d} : Turns(pc'[x]) = Turns(pc[x])
    BY DEF Turns
  <2> QED BY <2>2, <2>3 DEF Sooner
<1> QED BY <1>1, <1>2 DEF Lined, EffectsInOrder

\* The call at the head is traced: those who changed the project before it have
\* been, or they would be behind it with less than one turn to go.
LEMMA TraceStep ==
    ASSUME IInv, Lined, NEW h \in Call, ToTheEnd(h), pc[h] = "finalize",
           pc' = [pc EXCEPT ![h] = "respond"], traced' = Append(traced, h),
           UNCHANGED <<outcome, log>>
    PROVE  Lined'
<1>1. \A d \in Call : pc'[d] = IF d = h THEN "respond" ELSE pc[d]
  BY DEF IInv, Typed, TypeOK
<1>q. Queues /\ h \notin Among(traced)
  BY DEF Lined, Queues
<1>j. Joined(traced', traced, h)
  <2> DEFINE r == traced'
  <2>1. traced \in Seq(Call) /\ Distinct(traced) /\ r = Append(traced, h)
    BY <1>q DEF IInv, Typed, TypeOK, Queues
  <2> HIDE DEF r
  <2>2. Joined(r, traced, h)
    BY <1>q, <2>1, JoinsQueue
  <2> QED BY <2>2 DEF r
<1>2. /\ Distinct(traced)' /\ Among(traced)' = Among(traced) \cup {h}
      /\ \A c, d : Comes(traced, c, d)' <=> (c \in Among(traced) /\ d = h) \/ Comes(traced, c, d)
  BY <1>j DEF Joined, Distinct, Among, Comes
<1>3. Queues'
  <2>1. \A c \in Call : c \in Among(jobs)' <=> pc'[c] \in Waiting
    BY <1>1, <1>q DEF Queues, ToTheEnd, Waiting
  <2>2. \A c \in Call : c \in Among(traced)' <=> pc'[c] \in {"respond", "done"}
    BY <1>1, <1>2, <1>q DEF Queues
  <2>3. \A c \in Call : pc'[c] = "rejected" => outcome'[c] = "threw"
    BY <1>1, <1>q DEF Queues
  <2> QED BY <1>2, <2>1, <2>2, <2>3 DEF Queues, ToTheEnd
<1>4. ASSUME NEW c \in Call, NEW d \in Call, outcome'[c] # "threw", outcome'[d] # "threw",
             NEW m \in EffectsOf(c)', NEW n \in EffectsOf(d)', m < n
      PROVE  Sooner(c, d)'
  <2>1. m \in EffectsOf(c) /\ n \in EffectsOf(d) /\ outcome[c] # "threw" /\ outcome[d] # "threw"
    BY <1>4 DEF EffectsOf
  <2>2. Sooner(c, d)
    BY <1>4, <2>1 DEF Lined, EffectsInOrder
  <2>c. c # d
    <3>1. m \in Int /\ n \in Int
      BY <2>1 DEF EffectsOf, IInv, Typed, TypeOK
    <3> QED BY <1>4, <2>1, <3>1 DEF IInv, Once
  <2>3. CASE c \in Among(traced) /\ d \notin Among(traced)
    BY <1>2, <2>3 DEF Sooner
  <2>4. CASE Comes(traced, c, d)
    BY <1>2, <2>4 DEF Sooner
  <2>5. CASE /\ c \notin Among(traced) /\ d \notin Among(traced)
             /\ Turns(pc[c]) <= Turns(pc[d]) /\ (Turns(pc[c]) = Turns(pc[d]) => Comes(jobs, c, d))
    <3>1. c \in Among(jobs)' /\ Turns(pc[c]) \in 1..4
      <4>1. c \in Among(jobs) /\ pc[c] \in {"decide", "settle", "attach", "unwind", "finalize"}
        BY <1>q, <2>1, <2>5, Underway
      <4> QED BY <4>1 DEF Turns, ToTheEnd
    <3>2. d \in Among(jobs)'
      <4>1. d \in Among(jobs)
        BY <1>q, <2>1, <2>5, Underway
      <4> QED BY <4>1 DEF ToTheEnd
    <3>3. d # h
      <4> SUFFICES ASSUME d = h PROVE FALSE
        OBVIOUS
      <4>1. Turns(pc[d]) = 1
        BY DEF Turns
      <4>2. Turns(pc[c]) = 1
        BY <2>5, <3>1, <4>1
      <4>3. Comes(jobs, c, h)
        BY <2>5, <4>1, <4>2
      <4> QED BY <4>3 DEF ToTheEnd
    <3>4. CASE c = h
      BY <1>2, <2>5, <3>3, <3>4 DEF Sooner
    <3>5. CASE c # h
      <4>1. pc'[c] = pc[c] /\ pc'[d] = pc[d]
        BY <1>1, <3>3, <3>5
      <4>2. Comes(jobs, c, d)' <=> Comes(jobs, c, d)
        BY <2>c, <3>1, <3>2, <3>3, <3>5 DEF ToTheEnd
      <4> QED BY <1>2, <2>5, <3>3, <3>5, <4>1, <4>2 DEF Sooner
    <3> QED BY <3>4, <3>5
  <2> QED BY <2>2, <2>3, <2>4, <2>5 DEF Sooner
<1> QED BY <1>3, <1>4 DEF Lined, EffectsInOrder

\* The response of a call that was traced.
LEMMA RespondStep ==
    ASSUME IInv, Lined, NEW h \in Call, jobs # <<>>, h = Head(jobs), jobs' = Tail(jobs),
           pc[h] = "respond", pc' = [pc EXCEPT ![h] = "done"], UNCHANGED <<traced, outcome, log>>
    PROVE  Lined'
<1>1. \A d \in Call : pc'[d] = IF d = h THEN "done" ELSE pc[d]
  BY DEF IInv, Typed, TypeOK
<1>q. Queues /\ h \in Among(traced)
  BY DEF Lined, Queues
<1>2. /\ Distinct(jobs)' /\ Among(jobs)' = Among(jobs) \ {h}
      /\ \A c, d : Comes(jobs, c, d) <=> (c = h /\ d \in Among(jobs)') \/ Comes(jobs, c, d)'
  <2> DEFINE s == jobs
             r == jobs'
  <2>1. s \in Seq(Call) /\ s # <<>> /\ Distinct(s) /\ r = Tail(s)
    BY <1>q DEF IInv, Typed, TypeOK, Queues
  <2>2. /\ Distinct(r) /\ Among(r) = Among(s) \ {Head(s)}
        /\ \A c, d : Comes(s, c, d) <=> (c = Head(s) /\ d \in Among(r)) \/ Comes(r, c, d)
    <3> HIDE DEF s, r
    <3> QED BY <2>1, LeavesQueue
  <2> QED BY <2>2
<1>3. Queues'
  <2>1. \A c \in Call : c \in Among(jobs)' <=> pc'[c] \in Waiting
    BY <1>1, <1>2, <1>q DEF Queues, Waiting
  <2>2. \A c \in Call : c \in Among(traced)' <=> pc'[c] \in {"respond", "done"}
    BY <1>1, <1>q DEF Queues
  <2>3. \A c \in Call : pc'[c] = "rejected" => outcome'[c] = "threw"
    BY <1>1, <1>q DEF Queues
  <2> QED BY <1>2, <1>q, <2>1, <2>2, <2>3 DEF Queues
<1>4. ASSUME NEW c \in Call, NEW d \in Call, outcome'[c] # "threw", outcome'[d] # "threw",
             NEW m \in EffectsOf(c)', NEW n \in EffectsOf(d)', m < n
      PROVE  Sooner(c, d)'
  <2>1. m \in EffectsOf(c) /\ n \in EffectsOf(d) /\ outcome[c] # "threw" /\ outcome[d] # "threw"
    BY <1>4 DEF EffectsOf
  <2>2. Sooner(c, d)
    BY <1>4, <2>1 DEF Lined, EffectsInOrder
  <2>3. \A x \in {c, d} : x \notin Among(traced) => pc'[x] = pc[x] /\ x # h
    BY <1>1, <1>q
  <2> QED BY <1>2, <2>2, <2>3 DEF Sooner
<1> QED BY <1>3, <1>4 DEF Lined, EffectsInOrder

\* Every step keeps the queue and the trace in the order of the changes.
LEMMA LinedStep ==
    ASSUME IInv, IInv', Lined, [Next]_vars
    PROVE  Lined'
<1>t. Typed /\ Queues
  BY DEF IInv, Lined
<1>1. CASE DeliverChunk \/ ExtendChunk
  <2>1. UNCHANGED <<jobs, traced, outcome, log>>
    BY <1>1 DEF DeliverChunk, ExtendChunk
  <2>2. PICK c \in Call : pc[c] = "idle" /\ pc' = [pc EXCEPT ![c] = "received"]
    BY <1>1 DEF DeliverChunk, ExtendChunk
  <2>3. \A d \in Call : pc'[d] = pc[d] \/ {pc[d], pc'[d]} \subseteq {"idle", "received", "compile"}
    BY <1>t, <2>2 DEF Typed, TypeOK
  <2>4. \A d \in Call : EffectsOf(d)' = EffectsOf(d)
    BY <2>1 DEF EffectsOf
  <2> QED BY <2>1, <2>3, <2>4, OutsideStep
<1>2. CASE UserEdit
  <2>1. PICK after \in Snapshot :
          log' = Append(log, [by |-> "user", guard |-> NoRevision, before |-> project, after |-> after])
    BY <1>2 DEF UserEdit
  <2> DEFINE e == [by |-> "user", guard |-> NoRevision, before |-> project, after |-> after]
  <2>2. log' = Append(log, e) /\ e.by = "user"
    BY <2>1
  <2> HIDE DEF e
  <2>3. \A d \in Call : EffectsOf(d)' = EffectsOf(d)
    BY <1>t, <2>2, EffectsGrow, NobodyAssumption
  <2>4. UNCHANGED <<jobs, traced, outcome, pc>>
    BY <1>2 DEF UserEdit
  <2> QED BY <2>3, <2>4, OutsideStep
<1>3. ASSUME NEW h \in Call, StartRetried(h) PROVE Lined'
  <2>1. request[h].ifRevision \in MaybeRevision
    BY <1>3, <1>t, RequestSent DEF StartRetried, AllKinds, Request
  <2>2. Attempted(h)
    BY <1>3, <1>t, <2>1, AttemptOutcome DEF StartRetried, Typed, TypeOK
  <2>3. /\ pc[h] = "received" /\ pc' = [pc EXCEPT ![h] = Afterwards(h, "decide")] /\ UNCHANGED traced
        /\ jobs' = Append(jobs, h)
    BY <1>3 DEF StartRetried, Starting
  <2>4. ToTheEnd(h)
    BY <1>t, <2>3, StartGoesToTheEnd DEF Waiting
  <2>5. EffectsOf(h) = {}
    BY <2>3 DEF IInv, Phases
  <2>6. /\ Afterwards(h, "decide") \in {"rejected", "decide"}
        /\ Afterwards(h, "decide") = "rejected" => outcome'[h] = "threw"
        /\ outcome'[h] # "threw" => Turns(Afterwards(h, "decide")) = 4
    BY DEF Afterwards, Turns
  <2> DEFINE place == Afterwards(h, "decide")
  <2>7. /\ place \in Waiting \ {"respond"} /\ pc' = [pc EXCEPT ![h] = place]
        /\ place = "rejected" => outcome'[h] = "threw"
        /\ outcome'[h] # "threw" => Turns(place) = 4
    BY <2>3, <2>6 DEF Waiting
  <2> HIDE DEF place
  <2>8. /\ Proceeds(h, place)
        /\ \A d \in Call \ {h} : EffectsOf(d)' = EffectsOf(d) /\ outcome'[d] = outcome[d]
    BY <2>2, <2>5, <2>7, AttemptProceeds
  <2> QED BY <2>3, <2>4, <2>7, <2>8, TurnStep
<1>4. ASSUME NEW h \in Call, Retry(h) PROVE Lined'
  <2>1. HashSnapshot(project) \in MaybeRevision
    BY <1>t, TrackProject DEF MaybeRevision
  <2>2. Attempted(h)
    BY <1>4, <1>t, <2>1, TrackProject, AttemptOutcome DEF Retry
  <2>3. /\ pc[h] = "decide" /\ pc' = [pc EXCEPT ![h] = Afterwards(h, "settle")] /\ UNCHANGED traced
        /\ jobs # <<>> /\ h = Head(jobs) /\ jobs' = Append(Tail(jobs), h)
    BY <1>4 DEF Retry, Resuming
  <2>4. ToTheEnd(h)
    BY <1>t, <2>3, HeadGoesToTheEnd
  <2>5. EffectsOf(h) = {}
    BY <1>4 DEF Retry, WillRetry, IInv, LeftAlone
  <2> DEFINE place == Afterwards(h, "settle")
  <2>6. /\ place \in Waiting \ {"respond"} /\ pc' = [pc EXCEPT ![h] = place]
        /\ place = "rejected" => outcome'[h] = "threw"
        /\ outcome'[h] # "threw" => Turns(place) = 4
    BY <2>3 DEF Waiting, Afterwards, Turns
  <2> HIDE DEF place
  <2>7. /\ Proceeds(h, place)
        /\ \A d \in Call \ {h} : EffectsOf(d)' = EffectsOf(d) /\ outcome'[d] = outcome[d]
    BY <2>2, <2>5, <2>6, AttemptProceeds
  <2> QED BY <2>3, <2>4, <2>6, <2>7, TurnStep
<1>5. ASSUME NEW h \in Call, KeepFirst(h) \/ Settle(h) \/ Attach(h) PROVE Lined'
  <2>1. /\ UNCHANGED <<traced, outcome, log>>
        /\ jobs # <<>> /\ h = Head(jobs) /\ jobs' = Append(Tail(jobs), h)
    BY <1>5 DEF KeepFirst, Settle, Attach, Resuming
  <2>2. PICK step \in {<<"decide", "attach">>, <<"settle", "attach">>, <<"rejected", "unwind">>,
                       <<"unwind", "finalize">>, <<"attach", "unwind">>} :
          pc[h] = step[1] /\ pc' = [pc EXCEPT ![h] = step[2]]
    BY <1>5 DEF KeepFirst, Settle, Attach, Resuming
  <2>3. ToTheEnd(h)
    BY <1>t, <2>1, HeadGoesToTheEnd
  <2>4. \A d : EffectsOf(d)' = EffectsOf(d)
    BY <2>1 DEF EffectsOf
  <2> DEFINE place == step[2]
  <2>5. /\ place \in Waiting \ {"respond", "rejected"} /\ pc' = [pc EXCEPT ![h] = place]
        /\ pc[h] \notin {"respond", "done"}
        /\ pc[h] = "rejected" \/ Turns(place) + 1 = Turns(pc[h])
    BY <2>2 DEF Waiting, Turns
  <2> HIDE DEF place
  <2>6. Proceeds(h, place)
    BY <1>t, <2>1, <2>4, <2>5 DEF Proceeds, Queues
  <2> QED BY <2>1, <2>3, <2>4, <2>5, <2>6, TurnStep
<1>6. ASSUME NEW h \in Call, CompileDone(h) PROVE Lined'
  <2>0. jobs = <<>> /\ jobs' = <<h>>
    BY <1>6 DEF CompileDone, Idle
  <2>1. /\ jobs' = Append(jobs, h) /\ pc[h] = "compile" /\ pc' = [pc EXCEPT ![h] = "attach"]
        /\ UNCHANGED <<traced, log>> /\ \E verdict \in {"ok", "failed"} : outcome' = [outcome EXCEPT ![h] = verdict]
    <3>1. Append(<<>>, h) = <<h>>
      OBVIOUS
    <3>2. jobs' = Append(jobs, h)
      BY <2>0, <3>1
    <3> QED BY <1>6, <3>2 DEF CompileDone
  <2>2. EffectsOf(h) = {} /\ \A d : EffectsOf(d)' = EffectsOf(d)
    BY <2>1 DEF IInv, Phases, EffectsOf
  <2>3. \A d \in Call \ {h} : outcome'[d] = outcome[d]
    BY <1>t, <2>1 DEF Typed, TypeOK
  <2>4. ToTheEnd(h)
    BY <1>t, <2>1, StartGoesToTheEnd DEF Waiting
  <2> QED BY <2>1, <2>2, <2>3, <2>4, TurnStep DEF Waiting, Proceeds
<1>7. ASSUME NEW h \in Call, StartStateful(h) \/ RefuseStateful(h) \/ StartDirect(h) PROVE Lined'
  <2>1. /\ pc[h] = "received" /\ UNCHANGED <<traced, log>>
        /\ \E verdict : outcome' = [outcome EXCEPT ![h] = verdict]
    BY <1>7 DEF StartStateful, RefuseStateful, StartDirect, Starting
  <2>2. EffectsOf(h) = {} /\ \A d : EffectsOf(d)' = EffectsOf(d)
    BY <2>1 DEF IInv, Phases, EffectsOf
  <2>3. \A d \in Call \ {h} : outcome'[d] = outcome[d]
    BY <1>t, <2>1 DEF Typed, TypeOK
  <2>4. CASE pc' = [pc EXCEPT ![h] = "compile"] /\ UNCHANGED jobs
    <3>1. \A d \in Call : pc'[d] = pc[d] \/ {pc[d], pc'[d]} \subseteq {"idle", "received", "compile"}
      BY <1>t, <2>1, <2>4 DEF Typed, TypeOK
    <3>2. \A d \in Call : pc'[d] = "rejected" => d # h
      BY <1>t, <2>4 DEF Typed, TypeOK
    <3> QED BY <2>1, <2>2, <2>3, <2>4, <3>1, <3>2, OutsideStep
  <2>5. CASE \E place \in {"attach", "unwind", "finalize"} : Starting(h, place)
    <3>1. PICK place \in {"attach", "unwind", "finalize"} : jobs' = Append(jobs, h) /\ pc' = [pc EXCEPT ![h] = place]
      BY <2>5 DEF Starting
    <3>2. ToTheEnd(h)
      BY <1>t, <2>1, <3>1, StartGoesToTheEnd DEF Waiting
    <3> QED BY <2>1, <2>2, <2>3, <3>1, <3>2, TurnStep DEF Waiting, Proceeds
  <2> QED BY <1>7, <2>4, <2>5 DEF StartStateful, RefuseStateful, StartDirect
<1>8. ASSUME NEW h \in Call, Finalize(h) PROVE Lined'
  <2>1. /\ pc[h] = "finalize" /\ pc' = [pc EXCEPT ![h] = "respond"] /\ traced' = Append(traced, h)
        /\ UNCHANGED <<outcome, log>>
        /\ jobs # <<>> /\ h = Head(jobs) /\ jobs' = Append(Tail(jobs), h)
    BY <1>8 DEF Finalize, Resuming
  <2> QED BY <1>t, <2>1, HeadGoesToTheEnd, TraceStep
<1>9. ASSUME NEW h \in Call, Respond(h) PROVE Lined'
  BY <1>9, RespondStep DEF Respond
<1>10. CASE UNCHANGED vars
  BY <1>10 DEF vars, Lined, Queues, EffectsInOrder, Sooner, Comes, Among, Distinct, EffectsOf
<1> QED BY <1>1, <1>2, <1>3, <1>4, <1>5, <1>6, <1>7, <1>8, <1>9, <1>10 DEF Next, Start, Microtask

\* The trace lists the calls that changed the project in the order of their
\* changes, however first attempts, retries and codecs interleave, for any
\* number of calls in a chunk.
THEOREM ChangesAreTracedInOrder == Spec => []TraceFollowsEffects
<1>1. Init => Lined
  <2> SUFFICES ASSUME Init PROVE Lined
    OBVIOUS
  <2>1. \A c : EffectsOf(c) = {}
    BY DEF Init, EffectsOf
  <2>2. Among(jobs) = {} /\ Distinct(jobs) /\ Among(traced) = {} /\ Distinct(traced)
    BY DEF Init, Among, Distinct
  <2> QED BY <2>1, <2>2 DEF Init, Lined, Queues, EffectsInOrder, Waiting
<1>2. IInv /\ IInv' /\ Lined /\ [Next]_vars => Lined'
  BY LinedStep
<1>3. IInv /\ Lined => TraceFollowsEffects
  <2> SUFFICES ASSUME IInv, Lined, NEW i \in DOMAIN traced, NEW j \in DOMAIN traced,
                      outcome[traced[i]] # "threw", outcome[traced[j]] # "threw",
                      NEW m \in EffectsOf(traced[i]), NEW n \in EffectsOf(traced[j]), m < n
               PROVE  i < j
    BY DEF TraceFollowsEffects
  <2>1. i \in 1..Len(traced) /\ j \in 1..Len(traced) /\ traced[i] \in Call /\ traced[j] \in Call /\ Distinct(traced)
    BY DEF IInv, Typed, TypeOK, Lined, Queues
  <2>2. Sooner(traced[i], traced[j])
    BY <2>1 DEF Lined, EffectsInOrder
  <2>3. traced[i] \in Among(traced) /\ traced[j] \in Among(traced)
    BY <2>1 DEF Among
  <2>4. Comes(traced, traced[i], traced[j])
    BY <2>2, <2>3 DEF Sooner
  <2>5. PICK k, l \in 1..Len(traced) : k < l /\ traced[k] = traced[i] /\ traced[l] = traced[j]
    BY <2>4 DEF Comes
  <2>6. k = i /\ l = j
    BY <2>1, <2>5 DEF Distinct
  <2> QED BY <2>5, <2>6
<1> QED BY InvariantHolds, <1>1, <1>2, <1>3, PTL DEF Spec

-----------------------------------------------------------------------------
(* The refinement of SharedProject. *)

\* What the place of a call says of its result and its reply: a reply is
\* prepared once, after the result stands, unless that is an exception; and
\* only an edit that named a revision can still be undecided.
Settled(c) ==
    /\ pc[c] \in {"idle", "received", "decide", "settle", "attach", "compile", "rejected"}
         => reply[c] = NoRevision
    /\ pc[c] \in {"unwind", "finalize", "respond", "done"}
         => (outcome[c] = "threw" <=> reply[c] = NoRevision)
    /\ pc[c] = "rejected" => outcome[c] = "threw"
    /\ pc[c] \in {"decide", "settle", "attach"} => outcome[c] # "threw"
    /\ pc[c] \notin {"idle", "received"} => outcome[c] # "none"
    /\ pc[c] = "compile" => request[c].kind = "export"
    /\ Undecided(c) => /\ RequireRevision /\ request[c].kind \in Guarded
                       /\ request[c].ifRevision # NoRevision

AllSettled == \A c \in Call : Settled(c)

\* A step of call c leaves the other calls where they are.
Local(c) ==
    /\ \A d \in Call \ {c} : /\ pc'[d] = pc[d] /\ outcome'[d] = outcome[d]
                             /\ reply'[d] = reply[d] /\ request'[d] = request[d]

LEMMA LocalSettled ==
    ASSUME AllSettled, NEW c \in Call, Local(c), Settled(c)'
    PROVE  AllSettled'
<1> SUFFICES ASSUME NEW d \in Call, d # c PROVE Settled(d)'
  BY DEF AllSettled
<1>1. /\ pc'[d] = pc[d] /\ outcome'[d] = outcome[d]
      /\ reply'[d] = reply[d] /\ request'[d] = request[d]
  BY DEF Local
<1>2. Undecided(d)' <=> Undecided(d)
  BY <1>1 DEF Undecided
<1>3. Settled(d)
  BY DEF AllSettled
<1> QED BY <1>1, <1>2, <1>3 DEF Settled

LEMMA LocalMapped ==
    ASSUME NEW c \in Call, Local(c)
    PROVE  /\ Places' = [Places EXCEPT ![c] = PlaceOf(c)']
           /\ Verdicts' = [Verdicts EXCEPT ![c] = VerdictOf(c)']
           /\ Places[c] = PlaceOf(c) /\ Verdicts[c] = VerdictOf(c)
<1>1. \A d \in Call \ {c} : PlaceOf(d)' = PlaceOf(d) /\ VerdictOf(d)' = VerdictOf(d)
  BY DEF Local, PlaceOf, VerdictOf, Undecided
<1>2. Places' = [Places EXCEPT ![c] = PlaceOf(c)']
  BY <1>1 DEF Places
<1>3. Verdicts' = [Verdicts EXCEPT ![c] = VerdictOf(c)']
  BY <1>1 DEF Verdicts
<1> QED BY <1>2, <1>3 DEF Places, Verdicts

LEMMA LocalStays ==
    ASSUME NEW c \in Call, Local(c)
    PROVE  /\ PlaceOf(c)' = PlaceOf(c) => Places' = Places
           /\ VerdictOf(c)' = VerdictOf(c) => Verdicts' = Verdicts
<1>1. \A d \in Call \ {c} : PlaceOf(d)' = PlaceOf(d) /\ VerdictOf(d)' = VerdictOf(d)
  BY DEF Local, PlaceOf, VerdictOf, Undecided
<1>2. PlaceOf(c)' = PlaceOf(c) => Places' = Places
  BY <1>1 DEF Places
<1>3. VerdictOf(c)' = VerdictOf(c) => Verdicts' = Verdicts
  BY <1>1 DEF Verdicts
<1> QED BY <1>2, <1>3

\* What the register says of a step of c from one place to the next.
Moves(c, from, to) == PlaceOf(c) = from /\ PlaceOf(c)' = to

LEMMA SharedStep ==
    ASSUME NEW c \in Call, Local(c), NEW v,
           Moves(c, "in", "ran"), VerdictOf(c)' = v, UNCHANGED <<request, known>>
    PROVE  Shared!Step(c, v)
BY LocalMapped DEF Moves, Shared!Step, Shared!Move

\* A chunk delivers a call.
LEMMA SendShared ==
    ASSUME IInv, AllSettled, NEW c \in Call, pc[c] = "idle",
           NEW client \in Client, NEW kind \in Kind, NEW rev \in {known[client], NoRevision},
           request' = [request EXCEPT ![c] =
                          [client |-> client, kind |-> kind, ifRevision |-> rev]],
           pc' = [pc EXCEPT ![c] = "received"],
           UNCHANGED <<project, outcome, reply, known>>
    PROVE  AllSettled' /\ Shared!Next
<1>1. Local(c) /\ pc'[c] = "received"
  BY DEF Local, IInv, Typed, TypeOK
<1>2. Settled(c)'
  BY <1>1 DEF AllSettled, Settled, Undecided
<1>3. PlaceOf(c) = "out" /\ PlaceOf(c)' = "in" /\ VerdictOf(c)' = VerdictOf(c)
  BY <1>1 DEF PlaceOf, VerdictOf, Undecided
<1>4. Verdicts' = Verdicts
  BY <1>1, <1>3, LocalStays
<1>5. Shared!Move(c, "out", "in")
  BY <1>1, <1>3, LocalMapped DEF Shared!Move
<1>6. Shared!Invoke(c)
  BY <1>4, <1>5 DEF Shared!Invoke
<1> QED BY <1>1, <1>2, <1>6, LocalSettled DEF Shared!Next

\* What an attempt comes to.
AttemptIs(c, expected) ==
    LET checked == RequireRevision => expected = HashSnapshot(project)
        v == outcome'[c]
    IN \/ /\ request[c].kind \in Guarded \cup {"reuse"} /\ project' = project
          /\ v = "failed"
       \/ /\ request[c].kind \in Guarded /\ project' = project
          /\ \/ v = "threw" /\ checked
             \/ v = "missing" /\ RequireRevision /\ expected = NoRevision
             \/ /\ v = "mismatch" /\ RequireRevision /\ expected # NoRevision
                /\ expected # HashSnapshot(project)
       \/ /\ request[c].kind \in Guarded /\ checked
          /\ project' \in Snapshot
          /\ v \in {"ok", "partial", "threw"}
       \/ /\ request[c].kind = "reuse" /\ v = "ok"
          /\ project' \in Snapshot /\ HashSnapshot(project') = HashSnapshot(project)

LEMMA GuardRefuses ==
    ASSUME NEW expected, EnsureRevisionMatch(expected, 0) # "proceed"
    PROVE  LET match == EnsureRevisionMatch(expected, 0)
           IN /\ RequireRevision
              /\ \/ match = "missing" /\ expected = NoRevision
                 \/ /\ match = "mismatch" /\ expected # NoRevision
                    /\ expected # HashSnapshot(project)
<1>1. RequireRevision
  BY DEF EnsureRevisionMatch
<1>2. CASE expected = NoRevision
  BY <1>1, <1>2 DEF EnsureRevisionMatch, DecideRevisionMatch
<1>3. CASE expected # NoRevision /\ HashSnapshot(project) # expected
  BY <1>1, <1>3 DEF EnsureRevisionMatch, DecideRevisionMatch
<1>4. CASE expected # NoRevision /\ HashSnapshot(project) = expected
  BY <1>1, <1>4 DEF EnsureRevisionMatch, DecideRevisionMatch
<1> QED BY <1>1, <1>2, <1>3, <1>4

LEMMA AttemptComesTo ==
    ASSUME Typed, NEW c \in Call, NEW expected, NEW base, Attempt(c, expected, base)
    PROVE  /\ AttemptIs(c, expected)
           /\ outcome' = [outcome EXCEPT ![c] = outcome'[c]]
<1> DEFINE match == EnsureRevisionMatch(expected, 0)
<1>t. outcome \in [Call -> Verdict] /\ project \in Snapshot
  BY DEF Typed, TypeOK
<1>g. match = "proceed" => (RequireRevision => expected = HashSnapshot(project))
  BY GuardDecides
<1>r. match # "proceed" => /\ RequireRevision
                           /\ \/ match = "missing" /\ expected = NoRevision
                              \/ /\ match = "mismatch" /\ expected # NoRevision
                                 /\ expected # HashSnapshot(project)
  BY GuardRefuses
<1> HIDE DEF match
<1>1. CASE request[c].kind \in Guarded /\ (Edit(c, expected, base) \/ Compound(c, expected, base))
  <2>1. CASE Leave(c, "failed")
    BY <1>t, <1>1, <2>1 DEF Leave, AttemptIs
  <2>2. CASE match # "proceed" /\ Leave(c, match)
    BY <1>t, <1>r, <1>1, <2>2 DEF Leave, AttemptIs
  <2>3. CASE match = "proceed" /\ Leave(c, "threw")
    BY <1>t, <1>g, <1>1, <2>3 DEF Leave, AttemptIs
  <2>4. ASSUME match = "proceed", NEW after \in Snapshot, NEW verdict \in {"ok", "partial", "threw"},
               OutlineEdit(project, after), Effect(c, expected, verdict, after)
        PROVE  AttemptIs(c, expected) /\ outcome' = [outcome EXCEPT ![c] = outcome'[c]]
    BY <1>t, <1>g, <1>1, <2>4 DEF OutlineEdit, Effect, AttemptIs
  <2>5. \/ Leave(c, "failed")
        \/ match # "proceed" /\ Leave(c, match)
        \/ match = "proceed" /\ Leave(c, "threw")
        \/ /\ match = "proceed"
           /\ \E after \in Snapshot, verdict \in {"ok", "partial", "threw"} :
                OutlineEdit(project, after) /\ Effect(c, expected, verdict, after)
    BY <1>1 DEF Edit, Compound, Reject, NestedDepth, match
  <2> QED BY <2>1, <2>2, <2>3, <2>4, <2>5
<1>2. CASE request[c].kind = "reuse" /\ Reuse(c, base)
  <2>1. ASSUME NEW verdict \in {"ok", "failed"}, Leave(c, verdict)
        PROVE  AttemptIs(c, expected) /\ outcome' = [outcome EXCEPT ![c] = outcome'[c]]
    BY <1>t, <1>2, <2>1 DEF Leave, AttemptIs
  <2>2. ASSUME NEW after \in Snapshot, after.outline = project.outline,
               Effect(c, NoRevision, "ok", after)
        PROVE  AttemptIs(c, expected) /\ outcome' = [outcome EXCEPT ![c] = outcome'[c]]
    BY <1>t, <1>2, <2>2 DEF Effect, AttemptIs, HashSnapshot
  <2> QED BY <1>2, <2>1, <2>2 DEF Reuse
<1> QED BY <1>1, <1>2 DEF Attempt, Guarded

\* An attempt, the first or a retry, is the call's step, unless it leaves the
\* call undecided.
LEMMA AttemptShared ==
    ASSUME IInv, AllSettled, NEW c \in Call, NEW expected, AttemptIs(c, expected),
           outcome' = [outcome EXCEPT ![c] = outcome'[c]],
           PlaceOf(c) = "in", reply[c] = NoRevision, UNCHANGED <<request, reply, known>>,
           NEW place, pc' = [pc EXCEPT ![c] = Afterwards(c, place)],
           \/ place = "decide" /\ expected = request[c].ifRevision
           \/ /\ place = "settle" /\ AutoRetry /\ expected = HashSnapshot(project)
              /\ request[c].kind \in Guarded /\ request[c].ifRevision # NoRevision
    PROVE  AllSettled' /\ [Shared!Next]_Shared!vars
<1>h. HashSnapshot(project) # NoRevision
  BY TrackProject, PolicyAssumption DEF IInv
<1>1. Local(c) /\ pc'[c] = Afterwards(c, place)
  BY DEF Local, IInv, Typed, TypeOK
<1>2. place \in {"decide", "settle"} /\ Afterwards(c, place) = IF outcome'[c] = "threw" THEN "rejected" ELSE place
  BY DEF Afterwards
<1>3. outcome'[c] \in {"ok", "partial", "failed", "threw", "missing", "mismatch"}
  BY DEF AttemptIs
<1>4. Undecided(c)' <=> AutoRetry /\ place = "decide" /\ outcome'[c] = "mismatch"
  BY <1>1, <1>2 DEF Undecided
<1>5. Undecided(c)' => /\ RequireRevision /\ request[c].kind \in Guarded
                       /\ request[c].ifRevision # NoRevision /\ project' = project
  <2>1. outcome'[c] = "mismatch" => /\ RequireRevision /\ request[c].kind \in Guarded
                                    /\ expected # NoRevision /\ project' = project
    BY DEF AttemptIs
  <2>2. place = "decide" => expected = request[c].ifRevision
    OBVIOUS
  <2> QED BY <1>4, <2>1, <2>2
<1>6. Settled(c)'
  BY <1>1, <1>2, <1>3, <1>5 DEF Settled
<1>7. CASE Undecided(c)'
  <2>1. PlaceOf(c)' = "in" /\ VerdictOf(c)' = "none"
    BY <1>1, <1>2, <1>4, <1>7 DEF PlaceOf, VerdictOf
  <2>2. VerdictOf(c) = "none"
    BY DEF PlaceOf, VerdictOf, IInv, Phases
  <2>3. Places' = Places /\ Verdicts' = Verdicts
    BY <1>1, <2>1, <2>2, LocalStays
  <2> QED BY <1>1, <1>5, <1>6, <1>7, <2>3, LocalSettled DEF Shared!vars
<1>8. CASE ~Undecided(c)'
  <2>1. Moves(c, "in", "ran") /\ VerdictOf(c)' = outcome'[c]
    BY <1>1, <1>2, <1>8 DEF Moves, PlaceOf, VerdictOf
  <2>2. Shared!Step(c, outcome'[c])
    BY <1>1, <2>1, SharedStep
  <2>3. RequireRevision /\ expected = HashSnapshot(project) => Shared!Admitted(c)
    BY <1>h DEF Shared!Admitted, Shared!Named, Shared!Current
  <2>4. ~RequireRevision => Shared!Admitted(c)
    BY DEF Shared!Admitted
  <2>5. Shared!Run(c)
    <3>1. CASE request[c].kind \in Guarded \cup {"reuse"} /\ project' = project /\ outcome'[c] = "failed"
      BY <2>2, <3>1 DEF Shared!Run, Shared!Fail, Shared!Guarded, Guarded
    <3>2. CASE /\ request[c].kind \in Guarded /\ project' = project /\ outcome'[c] = "threw"
               /\ RequireRevision => expected = HashSnapshot(project)
      BY <2>2, <2>3, <2>4, <3>2 DEF Shared!Run, Shared!Fail, Shared!Guarded, Guarded
    <3>3. CASE /\ request[c].kind \in Guarded /\ project' = project /\ outcome'[c] = "missing"
               /\ RequireRevision /\ expected = NoRevision
      <4>1. ~Shared!Named(c)
        BY <1>h, <3>3 DEF Shared!Named
      <4> QED BY <2>2, <3>3, <4>1 DEF Shared!Run, Shared!Refuse, Shared!Guarded, Guarded
    <3>4. CASE /\ request[c].kind \in Guarded /\ project' = project /\ outcome'[c] = "mismatch"
               /\ RequireRevision /\ expected # NoRevision /\ expected # HashSnapshot(project)
      <4>1. Shared!Named(c) /\ ~Shared!Current(c)
        BY <3>4 DEF Shared!Named, Shared!Current
      <4> QED BY <2>2, <3>4, <4>1 DEF Shared!Run, Shared!Refuse, Shared!Guarded, Guarded
    <3>5. CASE /\ request[c].kind \in Guarded /\ (RequireRevision => expected = HashSnapshot(project))
               /\ project' \in Snapshot
               /\ outcome'[c] \in {"ok", "partial", "threw"}
      BY <2>2, <2>3, <2>4, <3>5 DEF Shared!Run, Shared!Change, Shared!Guarded, Guarded
    <3>6. CASE /\ request[c].kind = "reuse" /\ outcome'[c] = "ok"
               /\ project' \in Snapshot /\ HashSnapshot(project') = HashSnapshot(project)
      BY <2>2, <3>6 DEF Shared!Run, Shared!Attune
    <3> QED BY <3>1, <3>2, <3>3, <3>4, <3>5, <3>6 DEF AttemptIs
  <2> QED BY <1>1, <1>6, <2>5, LocalSettled DEF Shared!Next
<1> QED BY <1>7, <1>8

\* A call that only looks passes the guard on the revision it names.
LEMMA OptionalIsCurrent ==
    ASSUME NEW c \in Call
    PROVE  /\ OptionalRevision(request[c].ifRevision) = "proceed"
                <=> (RequireRevision /\ Shared!Named(c) => Shared!Current(c))
           /\ OptionalRevision(request[c].ifRevision) \in {"proceed", "mismatch"}
<1> DEFINE rev == request[c].ifRevision
<1>1. CASE rev = NoRevision
  BY <1>1 DEF OptionalRevision, Shared!Named
<1>2. CASE rev # NoRevision /\ ~RequireRevision
  BY <1>2 DEF OptionalRevision, EnsureRevisionMatch
<1>3. CASE rev # NoRevision /\ RequireRevision /\ rev = HashSnapshot(project)
  BY <1>3 DEF OptionalRevision, EnsureRevisionMatch, DecideRevisionMatch, Shared!Current
<1>4. CASE rev # NoRevision /\ RequireRevision /\ rev # HashSnapshot(project)
  BY <1>4 DEF OptionalRevision, EnsureRevisionMatch, DecideRevisionMatch,
              Shared!Named, Shared!Current
<1> QED BY <1>1, <1>2, <1>3, <1>4

LEMMA StartStatefulShared ==
    ASSUME IInv, AllSettled, NEW c \in Call, StartStateful(c)
    PROVE  AllSettled' /\ [Shared!Next]_Shared!vars
<1>1. /\ pc[c] = "received"
      /\ pc' = [pc EXCEPT ![c] = IF request[c].kind = "check" THEN "attach" ELSE "compile"]
      /\ outcome' = [outcome EXCEPT ![c] = "ok"] /\ UNCHANGED <<project, request, reply, known>>
  BY DEF StartStateful, Starting
<1>2. request[c].kind \in {"check", "export"}
  BY DEF StartStateful, Stateful
<1>3. /\ Local(c) /\ outcome'[c] = "ok" /\ reply'[c] = reply[c]
      /\ pc'[c] = IF request[c].kind = "check" THEN "attach" ELSE "compile"
  BY <1>1 DEF Local, IInv, Typed, TypeOK
<1>4. Settled(c)'
  BY <1>1, <1>2, <1>3 DEF AllSettled, Settled, Undecided
<1>5. Moves(c, "in", "ran") /\ VerdictOf(c)' = IF request[c].kind = "export" THEN "none" ELSE "ok"
  BY <1>1, <1>2, <1>3 DEF Moves, PlaceOf, VerdictOf, Undecided
<1>6. Shared!Step(c, IF request[c].kind = "export" THEN "none" ELSE "ok")
  BY <1>1, <1>3, <1>5, SharedStep
<1>7. RequireRevision /\ Shared!Named(c) => Shared!Current(c)
  BY OptionalIsCurrent DEF StartStateful
<1>8. Shared!Look(c)
  BY <1>1, <1>2, <1>6, <1>7 DEF Shared!Look, Shared!Looks
<1> QED BY <1>3, <1>4, <1>8, LocalSettled DEF Shared!Next, Shared!Run

LEMMA RefuseStatefulShared ==
    ASSUME IInv, AllSettled, NEW c \in Call, RefuseStateful(c)
    PROVE  AllSettled' /\ [Shared!Next]_Shared!vars
<1>1. /\ pc[c] = "received" /\ pc' = [pc EXCEPT ![c] = "unwind"]
      /\ outcome' = [outcome EXCEPT ![c] = OptionalRevision(request[c].ifRevision)]
      /\ reply' = [reply EXCEPT ![c] = HashSnapshot(project)]
      /\ UNCHANGED <<project, request, known>>
  BY DEF RefuseStateful, Starting, AttachState
<1>2. request[c].kind \in {"check", "export"}
  BY DEF RefuseStateful, Stateful
<1>o. OptionalRevision(request[c].ifRevision) = "mismatch"
  BY OptionalIsCurrent DEF RefuseStateful
<1>3. /\ Local(c) /\ outcome'[c] = "mismatch" /\ reply'[c] = HashSnapshot(project)
      /\ pc'[c] = "unwind"
  BY <1>1, <1>o DEF Local, IInv, Typed, TypeOK
<1>h. HashSnapshot(project) # NoRevision
  BY TrackProject, PolicyAssumption DEF IInv
<1>4. Settled(c)'
  BY <1>h, <1>1, <1>2, <1>3 DEF AllSettled, Settled, Undecided
<1>5. Moves(c, "in", "ran") /\ VerdictOf(c)' = "mismatch"
  BY <1>1, <1>2, <1>3 DEF Moves, PlaceOf, VerdictOf, Undecided
<1>6. Shared!Step(c, "mismatch")
  BY <1>1, <1>3, <1>5, SharedStep
<1>7. RequireRevision /\ Shared!Named(c) /\ ~Shared!Current(c)
  BY OptionalIsCurrent DEF RefuseStateful
<1>8. Shared!Refuse(c)
  BY <1>1, <1>2, <1>6, <1>7 DEF Shared!Refuse, Shared!Looks, Shared!Told
<1> QED BY <1>3, <1>4, <1>8, LocalSettled DEF Shared!Next, Shared!Run

LEMMA StartDirectShared ==
    ASSUME IInv, AllSettled, NEW c \in Call, StartDirect(c)
    PROVE  AllSettled' /\ [Shared!Next]_Shared!vars
<1> DEFINE refused == /\ request[c].kind = "preview"
                      /\ OptionalRevision(request[c].ifRevision) # "proceed"
           v == IF refused THEN "mismatch" ELSE "ok"
<1>1. /\ pc[c] = "received" /\ pc' = [pc EXCEPT ![c] = "finalize"]
      /\ reply' = [reply EXCEPT ![c] = HashSnapshot(project)]
      /\ UNCHANGED <<project, request, known>>
  BY DEF StartDirect, Starting, AttachState
<1>2. request[c].kind \in {"read", "preview"}
  BY DEF StartDirect, Direct
<1>o. outcome' = [outcome EXCEPT ![c] = v]
  BY OptionalIsCurrent DEF StartDirect
<1>3. /\ Local(c) /\ outcome'[c] = v /\ reply'[c] = HashSnapshot(project)
      /\ pc'[c] = "finalize"
  BY <1>1, <1>o DEF Local, IInv, Typed, TypeOK
<1>h. HashSnapshot(project) # NoRevision
  BY TrackProject, PolicyAssumption DEF IInv
<1>4. Settled(c)'
  BY <1>h, <1>1, <1>2, <1>3 DEF AllSettled, Settled, Undecided
<1>5. Moves(c, "in", "ran") /\ VerdictOf(c)' = v
  BY <1>1, <1>2, <1>3 DEF Moves, PlaceOf, VerdictOf, Undecided
<1>6. Shared!Step(c, v)
  BY <1>1, <1>3, <1>5, SharedStep
<1>7. CASE refused
  <2>1. RequireRevision /\ Shared!Named(c) /\ ~Shared!Current(c)
    BY <1>7, OptionalIsCurrent
  <2>2. Shared!Refuse(c)
    BY <1>1, <1>6, <1>7, <2>1 DEF Shared!Refuse, Shared!Looks, Shared!Told
  <2> QED BY <1>3, <1>4, <2>2, LocalSettled DEF Shared!Next, Shared!Run
<1>8. CASE ~refused
  <2>1. request[c].kind = "read" \/ (RequireRevision /\ Shared!Named(c) => Shared!Current(c))
    BY <1>2, <1>8, OptionalIsCurrent
  <2>2. Shared!Look(c)
    BY <1>1, <1>2, <1>6, <1>8, <2>1 DEF Shared!Look, Shared!Looks, Shared!Told
  <2> QED BY <1>3, <1>4, <2>2, LocalSettled DEF Shared!Next, Shared!Run
<1> QED BY <1>7, <1>8

LEMMA CompileShared ==
    ASSUME IInv, AllSettled, NEW c \in Call, CompileDone(c)
    PROVE  AllSettled' /\ [Shared!Next]_Shared!vars
<1>1. PICK v \in {"ok", "failed"} :
        /\ pc[c] = "compile" /\ pc' = [pc EXCEPT ![c] = "attach"]
        /\ outcome' = [outcome EXCEPT ![c] = v]
        /\ UNCHANGED <<project, request, reply, known>>
  BY DEF CompileDone
<1>2. request[c].kind = "export" /\ reply[c] = NoRevision
  BY <1>1 DEF AllSettled, Settled
<1>3. Local(c) /\ outcome'[c] = v /\ pc'[c] = "attach" /\ reply'[c] = reply[c]
  BY <1>1 DEF Local, IInv, Typed, TypeOK
<1>4. Settled(c)'
  BY <1>1, <1>2, <1>3 DEF Settled, Undecided
<1>5. Moves(c, "ran", "ran") /\ VerdictOf(c) = "none" /\ VerdictOf(c)' = v
  BY <1>1, <1>3 DEF Moves, PlaceOf, VerdictOf, Undecided
<1>6. Places' = Places
  BY <1>3, <1>5, LocalStays DEF Moves
<1>7. Shared!Conclude(c)
  BY <1>1, <1>2, <1>3, <1>5, <1>6, LocalMapped DEF Shared!Conclude, Moves
<1> QED BY <1>3, <1>4, <1>7, LocalSettled DEF Shared!Next

\* The first result is kept: a refusal that stayed open is the call's step now.
LEMMA KeepShared ==
    ASSUME IInv, AllSettled, NEW c \in Call, KeepFirst(c)
    PROVE  AllSettled' /\ [Shared!Next]_Shared!vars
<1>1. /\ pc[c] = "decide" /\ pc' = [pc EXCEPT ![c] = "attach"]
      /\ UNCHANGED <<project, request, outcome, reply, known>>
  BY DEF KeepFirst, Resuming
<1>2. Local(c) /\ pc'[c] = "attach"
  BY <1>1 DEF Local, IInv, Typed, TypeOK
<1>3. Settled(c)
  BY DEF AllSettled
<1>4. Settled(c)'
  BY <1>1, <1>2, <1>3 DEF Settled, Undecided
<1>5. PlaceOf(c)' = "ran" /\ VerdictOf(c)' = outcome[c]
  BY <1>1, <1>2 DEF PlaceOf, VerdictOf, Undecided
<1>6. CASE Undecided(c)
  <2>1. Moves(c, "in", "ran") /\ outcome[c] = "mismatch"
    BY <1>5, <1>6 DEF Moves, PlaceOf, Undecided
  <2>2. Shared!Step(c, "mismatch")
    BY <1>1, <1>2, <1>5, <2>1, SharedStep
  <2>3. AutoRetry /\ RequireRevision /\ request[c].kind \in Shared!Guarded /\ Shared!Named(c)
    BY <1>3, <1>6 DEF Settled, Undecided, Shared!Guarded, Guarded, Shared!Named
  <2>4. Shared!Refuse(c)
    BY <1>1, <2>2, <2>3 DEF Shared!Refuse
  <2> QED BY <1>2, <1>4, <2>4, LocalSettled DEF Shared!Next, Shared!Run
<1>7. CASE ~Undecided(c)
  <2>1. PlaceOf(c) = "ran" /\ VerdictOf(c) = outcome[c]
    BY <1>1, <1>7 DEF PlaceOf, VerdictOf
  <2>2. Places' = Places /\ Verdicts' = Verdicts
    BY <1>2, <1>5, <2>1, LocalStays
  <2> QED BY <1>1, <1>2, <1>4, <2>2, LocalSettled DEF Shared!vars
<1> QED BY <1>6, <1>7

\* A step between two places the register does not tell apart.
LEMMA QuietShared ==
    ASSUME IInv, AllSettled, NEW c \in Call,
           NEW from, NEW to, pc[c] = from, pc' = [pc EXCEPT ![c] = to],
           \/ from = "settle" /\ to = "attach"
           \/ from = "rejected" /\ to = "unwind"
           \/ from = "unwind" /\ to = "finalize"
           \/ from = "finalize" /\ to = "respond",
           UNCHANGED <<project, request, outcome, reply, known>>
    PROVE  AllSettled' /\ [Shared!Next]_Shared!vars
<1>1. Local(c) /\ pc'[c] = to
  BY DEF Local, IInv, Typed, TypeOK
<1>2. Settled(c)'
  BY <1>1 DEF AllSettled, Settled, Undecided
<1>3. PlaceOf(c)' = PlaceOf(c) /\ VerdictOf(c)' = VerdictOf(c)
  BY <1>1 DEF PlaceOf, VerdictOf, Undecided
<1>4. Places' = Places /\ Verdicts' = Verdicts
  BY <1>1, <1>3, LocalStays
<1> QED BY <1>1, <1>2, <1>4, LocalSettled DEF Shared!vars

LEMMA AttachShared ==
    ASSUME IInv, AllSettled, NEW c \in Call, Attach(c)
    PROVE  AllSettled' /\ [Shared!Next]_Shared!vars
<1>1. /\ pc[c] = "attach" /\ pc' = [pc EXCEPT ![c] = "unwind"]
      /\ reply' = [reply EXCEPT ![c] = HashSnapshot(project)]
      /\ UNCHANGED <<project, request, outcome, known>>
  BY DEF Attach, Resuming, AttachState
<1>2. Local(c) /\ pc'[c] = "unwind" /\ reply'[c] = HashSnapshot(project)
  BY <1>1 DEF Local, IInv, Typed, TypeOK
<1>h. HashSnapshot(project) # NoRevision
  BY TrackProject, PolicyAssumption DEF IInv
<1>3. Settled(c)
  BY DEF AllSettled
<1>4. Settled(c)'
  BY <1>h, <1>1, <1>2, <1>3 DEF Settled, Undecided
<1>5. PlaceOf(c) = "ran" /\ PlaceOf(c)' = "ran" /\ VerdictOf(c) = outcome[c] /\ VerdictOf(c)' = outcome[c]
  BY <1>1, <1>2 DEF PlaceOf, VerdictOf, Undecided
<1>6. Places' = Places /\ Verdicts' = Verdicts
  BY <1>2, <1>5, LocalStays
<1>7. Places[c] = "ran" /\ Verdicts[c] \notin {"none", "threw"} /\ reply[c] = NoRevision
  BY <1>1, <1>2, <1>3, <1>5, LocalMapped DEF Settled
<1>8. Shared!Tell(c)
  BY <1>1, <1>6, <1>7 DEF Shared!Tell, Shared!Told
<1> QED BY <1>2, <1>4, <1>8, LocalSettled DEF Shared!Next

LEMMA RespondShared ==
    ASSUME IInv, AllSettled, NEW c \in Call, Respond(c)
    PROVE  AllSettled' /\ [Shared!Next]_Shared!vars
<1>1. /\ pc[c] = "respond" /\ pc' = [pc EXCEPT ![c] = "done"]
      /\ UNCHANGED <<project, request, outcome, reply>>
  BY DEF Respond
<1>2. Local(c) /\ pc'[c] = "done"
  BY <1>1 DEF Local, IInv, Typed, TypeOK
<1>3. Settled(c)
  BY DEF AllSettled
<1>4. Settled(c)'
  BY <1>1, <1>2, <1>3 DEF Settled, Undecided
<1>5. PlaceOf(c) = "ran" /\ PlaceOf(c)' = "back" /\ VerdictOf(c) = outcome[c] /\ VerdictOf(c)' = outcome[c]
  BY <1>1, <1>2 DEF PlaceOf, VerdictOf, Undecided
<1>6. Verdicts' = Verdicts
  BY <1>2, <1>5, LocalStays
<1>7. Shared!Move(c, "ran", "back")
  BY <1>2, <1>5, LocalMapped DEF Shared!Move
<1>8. Verdicts[c] # "none" /\ (Verdicts[c] = "threw" <=> reply[c] = NoRevision)
  BY <1>1, <1>2, <1>3, <1>5, LocalMapped DEF Settled
<1>9. known' = IF reply[c] = NoRevision THEN known
               ELSE [known EXCEPT ![request[c].client] = reply[c]]
  BY DEF Respond, IInv, Typed, TypeOK
<1>10. Shared!Return(c)
  BY <1>1, <1>6, <1>7, <1>8, <1>9 DEF Shared!Return
<1> QED BY <1>2, <1>4, <1>10, LocalSettled DEF Shared!Next

LEMMA SharedInit == Init => AllSettled /\ Shared!Init
<1> SUFFICES ASSUME Init PROVE AllSettled /\ Shared!Init
  OBVIOUS
<1>1. AllSettled
  BY DEF Init, AllSettled, Settled, Undecided
<1>2. Places = [c \in Call |-> "out"] /\ Verdicts = [c \in Call |-> "none"]
  BY DEF Init, Places, Verdicts, PlaceOf, VerdictOf, Undecided
<1> QED BY <1>1, <1>2 DEF Init, Shared!Init, NoRequest

LEMMA SharedNext ==
    ASSUME IInv, AllSettled, [Next]_vars
    PROVE  AllSettled' /\ [Shared!Next]_Shared!vars
<1>t. Typed
  BY DEF IInv
<1>1. CASE DeliverChunk \/ ExtendChunk
  <2>1. PICK c \in Call, client \in Client, kind \in Kind :
          /\ pc[c] = "idle"
          /\ \E rev \in {known[client], NoRevision} :
               request' = [request EXCEPT ![c] =
                              [client |-> client, kind |-> kind, ifRevision |-> rev]]
          /\ pc' = [pc EXCEPT ![c] = "received"]
    BY <1>1 DEF DeliverChunk, ExtendChunk
  <2>2. UNCHANGED <<project, outcome, reply, known>>
    BY <1>1 DEF DeliverChunk, ExtendChunk
  <2> QED BY <2>1, <2>2, SendShared
<1>2. CASE UserEdit
  <2>1. /\ \E after \in Snapshot : after # project /\ project' = after
        /\ UNCHANGED <<pc, request, outcome, reply, known>>
    BY <1>2 DEF UserEdit
  <2>2. Places' = Places /\ Verdicts' = Verdicts
    BY <2>1 DEF Places, Verdicts, PlaceOf, VerdictOf, Undecided
  <2>3. AllSettled'
    BY <2>1 DEF AllSettled, Settled, Undecided
  <2> QED BY <2>1, <2>2, <2>3 DEF Shared!Next, Shared!UserEdit
<1>3. ASSUME NEW c \in Call, StartRetried(c)
      PROVE  AllSettled' /\ [Shared!Next]_Shared!vars
  <2>1. Attempt(c, request[c].ifRevision, store) /\ UNCHANGED <<request, reply, known>>
    BY <1>3 DEF StartRetried
  <2>2. pc[c] = "received" /\ pc' = [pc EXCEPT ![c] = Afterwards(c, "decide")]
    BY <1>3 DEF StartRetried, Starting
  <2>3. PlaceOf(c) = "in" /\ reply[c] = NoRevision
    BY <2>2 DEF PlaceOf, AllSettled, Settled
  <2> HIDE DEF Attempt
  <2>4. /\ AttemptIs(c, request[c].ifRevision)
        /\ outcome' = [outcome EXCEPT ![c] = outcome'[c]]
    BY <1>t, <2>1, AttemptComesTo
  <2> QED BY <2>1, <2>2, <2>3, <2>4, AttemptShared
<1>4. ASSUME NEW c \in Call, Retry(c)
      PROVE  AllSettled' /\ [Shared!Next]_Shared!vars
  <2>1. /\ Attempt(c, HashSnapshot(project), Track(store, project))
        /\ UNCHANGED <<request, reply, known>> /\ AutoRetry
    BY <1>4 DEF Retry, WillRetry
  <2>2. pc[c] = "decide" /\ pc' = [pc EXCEPT ![c] = Afterwards(c, "settle")]
    BY <1>4 DEF Retry, Resuming
  <2>3. Undecided(c)
    BY <1>4, <2>2 DEF Retry, WillRetry, Undecided
  <2>4. PlaceOf(c) = "in" /\ reply[c] = NoRevision
    BY <2>2, <2>3 DEF PlaceOf, AllSettled, Settled
  <2>5. request[c].kind \in Guarded /\ request[c].ifRevision # NoRevision
    BY <2>3 DEF AllSettled, Settled
  <2>6. /\ AttemptIs(c, HashSnapshot(project))
        /\ outcome' = [outcome EXCEPT ![c] = outcome'[c]]
    BY <1>t, <2>1, AttemptComesTo
  <2> QED BY <2>1, <2>2, <2>4, <2>5, <2>6, AttemptShared
<1>5. ASSUME NEW c \in Call, Settle(c) \/ Finalize(c)
      PROVE  AllSettled' /\ [Shared!Next]_Shared!vars
  <2>1. UNCHANGED <<project, request, outcome, reply, known>>
    BY <1>5 DEF Settle, Finalize
  <2>2. \/ pc[c] = "settle" /\ pc' = [pc EXCEPT ![c] = "attach"]
        \/ pc[c] = "rejected" /\ pc' = [pc EXCEPT ![c] = "unwind"]
        \/ pc[c] = "unwind" /\ pc' = [pc EXCEPT ![c] = "finalize"]
        \/ pc[c] = "finalize" /\ pc' = [pc EXCEPT ![c] = "respond"]
    BY <1>5 DEF Settle, Finalize, Resuming
  <2> QED BY <2>1, <2>2, QuietShared
<1>6. CASE UNCHANGED vars
  <2>1. UNCHANGED <<project, pc, request, outcome, reply, known>>
    BY <1>6 DEF vars
  <2>2. Places' = Places /\ Verdicts' = Verdicts
    BY <2>1 DEF Places, Verdicts, PlaceOf, VerdictOf, Undecided
  <2>3. AllSettled'
    BY <2>1 DEF AllSettled, Settled, Undecided
  <2> QED BY <2>1, <2>2, <2>3 DEF Shared!vars
<1> QED BY <1>1, <1>2, <1>3, <1>4, <1>5, <1>6, StartStatefulShared, RefuseStatefulShared,
           StartDirectShared, CompileShared, KeepShared, AttachShared, RespondShared
        DEF Next, Start, Microtask

\* For the clients the tools are a register that each call reads or changes in
\* one step of its own, whatever retries, codecs and other calls come between:
\* the event loop implements a compare-and-set on the project's revision.
THEOREM ToolsImplementSharedProject == Spec => ImplementsSharedProject
<1>1. IInv /\ AllSettled /\ [Next]_vars => AllSettled' /\ [Shared!Next]_Shared!vars
  BY SharedNext
<1> QED BY InvariantHolds, SharedInit, <1>1, PTL DEF Spec, ImplementsSharedProject, Shared!Spec
=============================================================================
