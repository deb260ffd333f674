-------------------------- MODULE ProjectRevisions --------------------------
(***************************************************************************)
(* What revision tokens tell the clients that hold them: get_project_state,*)
(* the diff since a token and a write guarded by one, each run to its end  *)
(* (usecases/project/ProjectStateService.ts, usecases/RevisionContext.ts). *)
(* ToolDispatcher says how such calls interleave; here each is one step.   *)
(***************************************************************************)
EXTENDS RevisionStore

VARIABLES
    project,   \* the snapshot getSnapshot() returns
    store,     \* the RevisionStore
    shown,     \* history: tokens given to clients, with the snapshot shown
    diff,      \* history: the last diff computed
    write      \* history: the last guarded write

vars == <<project, store, shown, diff, write>>

Shown == [revision : Revision, snapshot : Snapshot]
Diff  == [since : Shown, baseMissing : BOOLEAN, base : Snapshot]
Write == [on : Shown, before : Snapshot]
Nothing == [none |-> TRUE]

TypeOK ==
    /\ project \in Snapshot
    /\ store \in Store
    /\ shown \subseteq Shown
    /\ diff \in Diff \cup {Nothing}
    /\ write \in Write \cup {Nothing}

Init ==
    /\ project \in Snapshot
    /\ store = EmptyStore
    /\ shown = {}
    /\ diff = Nothing
    /\ write = Nothing

Current == [revision |-> HashSnapshot(project), snapshot |-> project]

\* A tool or the user changes the project (undo included).
EditProject ==
    /\ project' \in Snapshot \ {project}
    /\ UNCHANGED <<store, shown, diff, write>>

\* ProjectStateService.getProjectState
GetProjectState ==
    /\ store' = Track(store, project)
    /\ shown' = shown \cup {Current}
    /\ UNCHANGED <<project, diff, write>>

\* Fault: the current snapshot is remembered under the token asked about.
DiffRemembersSince(since) ==
    /\ diff' = [since |-> since,
                baseMissing |-> ~Cached(store, since.revision),
                base |-> IF Cached(store, since.revision)
                         THEN store.cache[since.revision] ELSE project]
    /\ store' = Remember(store, project, since.revision)
    /\ shown' = shown \cup {Current}
    /\ UNCHANGED <<project, write>>

\* ProjectStateService.getProjectDiff: an unknown token is compared with an
\* empty project; the current snapshot is remembered last.
GetProjectDiff(since) ==
    /\ diff' = [since |-> since,
                baseMissing |-> ~Cached(store, since.revision),
                base |-> IF Cached(store, since.revision)
                         THEN store.cache[since.revision] ELSE project]
    /\ store' = Remember(store, project, HashSnapshot(project))
    /\ shown' = shown \cup {Current}
    /\ UNCHANGED <<project, write>>

\* Fault: the guard tracks the snapshot but does not compare it.
UnguardedWrite(on) ==
    /\ store' = Track(store, project)
    /\ write' = [on |-> on, before |-> project]
    /\ project' \in Snapshot
    /\ UNCHANGED <<shown, diff>>

\* RevisionContext.ensureRevisionMatch and the edit it lets through, which may
\* write what was there already.
GuardedWrite(on) ==
    /\ store' = Track(store, project)
    /\ HashSnapshot(project) = on.revision
    /\ write' = [on |-> on, before |-> project]
    /\ project' \in Snapshot
    /\ UNCHANGED <<shown, diff>>

RefusedWrite(on) ==
    /\ HashSnapshot(project) # on.revision
    /\ store' = Track(store, project)
    /\ UNCHANGED <<project, shown, diff, write>>

Next ==
    \/ EditProject
    \/ GetProjectState
    \/ \E s \in shown : GetProjectDiff(s) \/ GuardedWrite(s) \/ RefusedWrite(s)

Spec == Init /\ [][Next]_vars
-----------------------------------------------------------------------------
\* The bounded store stays consistent under any mix of reads, diffs and writes.
StoreConsistent == Consistent(store)

\* Two outlines never share a hash: collisions of its 32 bits aside.
OutlinesDiffer == \A o, q \in Outline : Digest[o] = Digest[q] => o = q

\* All a token says of two snapshots: their hashes are equal, hence what is
\* hashed.  Of what hashSnapshot leaves out it says nothing.
SameHashed(s, t) ==
    /\ HashSnapshot(s) = HashSnapshot(t)
    /\ OutlinesDiffer => s.outline = t.outline

\* A diff with a base starts from a snapshot that is in every hashed field the
\* one shown with the token, evictions and re-remembered tokens notwithstanding;
\* meshes and uvPixelsPerBlock may be of a later one.
DiffStartsAtShown ==
    diff # Nothing /\ ~diff.baseMissing => SameHashed(diff.base, diff.since.snapshot)

\* A guarded write changes a snapshot that is in every hashed field the one its
\* client was shown: nobody has changed one of those in the meantime.
WriteStartsAtShown == write # Nothing => SameHashed(write.before, write.on.snapshot)

\* What the guides promise of ifRevision: it is that very snapshot.
NoStaleWrite == write # Nothing => write.before = write.on.snapshot
=============================================================================
