------------------------------ MODULE TraceLog ------------------------------
(***************************************************************************)
(* The trace of tool calls: a recorder that adds the project's state and   *)
(* its diff since the last recorded state, a store bounded in entries and  *)
(* bytes, the report and the resource made of its text with every entry,   *)
(* and the file the scheduler writes now and then.                         *)
(*                                                                         *)
(* The diff comes from the revision store that get_project_state and       *)
(* get_project_diff serve the clients from, so a client can have the       *)
(* recorder's last revision evicted.  An outline of the project is a       *)
(* function from its parts to their contents, 0 where there is no part.    *)
(***************************************************************************)
EXTENDS Integers, Sequences, FiniteSets

CONSTANTS Outline, Untracked, Revision, Digest, RevisionLimit,
          None,
          MaxEntries, MaxBytes, MinEntries,  \* of TraceLogStore
          Splice,       \* lines dropped until the array is shortened (1000)
          FlushEvery, Interval,  \* of the scheduler; whether flushIntervalMs is set
          MaxSteps      \* bound on what is recorded

VARIABLES project,   \* the snapshot getSnapshot() returns
          store,     \* the RevisionStore
          log,       \* the TraceLogStore: [lines, start, text, size]
          recorder,  \* [header, seq, last: the revision last recorded]
          scheduler, \* [pending, failed: the last flush did]
          file       \* the last step of the log file, 0 if there is none

tvars == <<project, store, log, recorder, scheduler, file>>

Revisions == INSTANCE RevisionStore

----------------------------------------------------------------------------
(* diffSnapshots, its counts.  The parts are of the kinds the report sums  *)
(* up: bones, cubes, textures and clips, not meshes.                       *)

Parts(o) == {k \in DOMAIN o : o[k] # 0}
Counts(missing, before, after) ==
    [missing |-> missing,
     added |-> Cardinality(Parts(after) \ Parts(before)),
     removed |-> Cardinality(Parts(before) \ Parts(after)),
     changed |-> Cardinality({k \in Parts(before) \cap Parts(after) : before[k] # after[k]})]

----------------------------------------------------------------------------
(* TraceLogStore                                                           *)

\* Bytes in units: a step with a diff is longer than one without.
Bytes(line) == IF line.kind = "step" /\ line.diff # None THEN 2 ELSE 1
Size(L) == Len(L.lines) - L.start

\* Fault: the text keeps the line.
DropFromLines(L) == [L EXCEPT !.start = @ + 1, !.size = @ - Bytes(L.lines[L.start + 1])]
\* dropOldest; the array is cut only when most of it is dropped.
DropOldest(L) ==
    LET moved == [L EXCEPT !.start = @ + 1, !.size = @ - Bytes(L.lines[L.start + 1]), !.text = Tail(@)]
    IN  IF moved.start > Splice /\ 2 * moved.start > Len(L.lines)
        THEN [moved EXCEPT !.lines = SubSeq(@, moved.start + 1, Len(@)), !.start = 0] ELSE moved

\* trim, whose loop ends before the lines do.
TooLong(L) == Size(L) > MaxEntries \/ (L.size > MaxBytes /\ Size(L) > MinEntries)
Trim(L) ==
    LET after[n \in 0..Len(L.lines)] ==
            IF n = 0 THEN L
            ELSE LET M == after[n - 1] IN IF TooLong(M) THEN DropOldest(M) ELSE M
    IN  after[Len(L.lines)]

Append1(L, line) ==
    Trim([L EXCEPT !.lines = Append(@, line), !.text = Append(@, line), !.size = @ + Bytes(line)])

----------------------------------------------------------------------------
(* The report ResourceTraceLogWriter makes of the text                     *)

\* Where in the text the steps are, and those of them that have a diff.
Steps(text) == {i \in DOMAIN text : text[i].kind = "step"}
Diffs(text) == {i \in Steps(text) : text[i].diff # None}

Total(numbers) ==
    LET upTo[n \in 0..Len(numbers)] == IF n = 0 THEN 0 ELSE upTo[n - 1] + numbers[n]
    IN  upTo[Len(numbers)]
Sum(text, field) == Total([i \in DOMAIN text |-> IF i \in Diffs(text) THEN text[i].diff[field] ELSE 0])
Report(text) ==
    [steps |-> Cardinality(Steps(text)), added |-> Sum(text, "added"), removed |-> Sum(text, "removed")]

----------------------------------------------------------------------------
(* Recording a call                                                        *)

\* getProjectState, which tracks the revision, then getProjectDiff, for which
\* an unknown revision is an empty project.
Current == Revisions!HashSnapshot(project)
Tracked == Revisions!Track(store, project)
Base == IF Revisions!Cached(Tracked, recorder.last) THEN Tracked.cache[recorder.last].outline
        ELSE [k \in DOMAIN project.outline |-> 0]
Diff ==
    IF recorder.last \in {None, Current} THEN None
    ELSE Counts(~Revisions!Cached(Tracked, recorder.last), Base, project.outline)

\* Fault: the next diff starts where this one did.
KeepBase(revision) == IF recorder.last = None THEN revision ELSE recorder.last
NextBase(revision) == revision

\* A call after which no project is open is recorded without state and diff.
Step(open) ==
    [kind |-> "step", seq |-> recorder.seq + 1,
     parts |-> IF open THEN Cardinality(Parts(project.outline)) ELSE None,
     diff  |-> IF open THEN Diff ELSE None]
Header == [kind |-> "header"]

\* Whether the scheduler flushes, whatever its clock says.
Flushes(pending) == {pending >= FlushEvery} \cup (IF Interval THEN {TRUE} ELSE {})

\* The log's file is written as a whole, by whichever way Blockbench has, or the
\* write fails.
Write(last, fails) == IF fails THEN UNCHANGED file ELSE file' = last

\* A flush that failed counts as done.
Flush(last) ==
    \E fails \in BOOLEAN : Write(last, fails) /\ scheduler' = [pending |-> 0, failed |-> fails]

Recorded(last) ==
    \/ TRUE \in Flushes(scheduler.pending + 1) /\ Flush(last)
    \/ /\ FALSE \in Flushes(scheduler.pending + 1)
       /\ scheduler' = [scheduler EXCEPT !.pending = @ + 1] /\ UNCHANGED file

\* record, append and the scheduler's recorded.
Record(open) ==
    /\ recorder.seq < MaxSteps
    /\ recorder' = [header |-> TRUE, seq |-> recorder.seq + 1,
                    last |-> IF open THEN NextBase(Current) ELSE recorder.last]
    /\ log' = Append1(IF recorder.header THEN log ELSE Append1(log, Header), Step(open))
    /\ Recorded(recorder'.seq)
    /\ store' = IF open THEN Tracked ELSE store   \* the diff remembers the same again
    /\ UNCHANGED project

\* export_trace_log to the file the scheduler writes; an empty log is refused.
ExportTraceLog ==
    /\ log.text # <<>> /\ Write(recorder.seq, FALSE)
    /\ UNCHANGED <<project, store, log, recorder, scheduler>>

\* cleanupRuntime writes what is left; a plug-in loaded again starts from
\* nothing.
Reload ==
    /\ \E fails \in BOOLEAN : Write(recorder.seq, fails)
    /\ log' = [lines |-> <<>>, start |-> 0, text |-> <<>>, size |-> 0]
    /\ recorder' = [header |-> FALSE, seq |-> 0, last |-> None]
    /\ scheduler' = [pending |-> 0, failed |-> TRUE] /\ store' = Revisions!EmptyStore
    /\ UNCHANGED project

\* Calls and users change the project, clients have it tracked.
Changes ==
    /\ project' \in Revisions!Snapshot
    /\ store' \in {store, Revisions!Track(store, project')}
    /\ UNCHANGED <<log, recorder, scheduler, file>>

Init ==
    /\ project \in Revisions!Snapshot /\ store = Revisions!EmptyStore
    /\ log = [lines |-> <<>>, start |-> 0, text |-> <<>>, size |-> 0]
    /\ recorder = [header |-> FALSE, seq |-> 0, last |-> None]
    /\ scheduler = [pending |-> 0, failed |-> TRUE]
    /\ file = 0

Next == (\E open \in BOOLEAN : Record(open)) \/ ExportTraceLog \/ Reload \/ Changes

Spec == Init /\ [][Next]_tvars

----------------------------------------------------------------------------

\* What is kept is the end of what was recorded, without a gap, within the
\* bounds, and the same in the lines and in the text; the file misses no more
\* than the steps since the last flush, unless that failed.
LogIsATail ==
    LET text == log.text
    IN  /\ text = SubSeq(log.lines, log.start + 1, Len(log.lines))
        /\ log.size = Total([i \in DOMAIN text |-> Bytes(text[i])])
        /\ Size(log) <= MaxEntries /\ (log.size <= MaxBytes \/ Size(log) <= MinEntries)
        /\ \A i \in Steps(text) : text[i].seq = recorder.seq - Len(text) + i
        /\ scheduler.pending < FlushEvery
        /\ ~scheduler.failed => file >= recorder.seq - scheduler.pending

\* The diffs of the steps kept add up: each is the difference to the last step
\* that has a state, or counts the whole project and says that its base is
\* missing; and so does the report, of a log in which no base is missing.
States(text) == {i \in Steps(text) : text[i].parts # None}
Before(text, i, j) == IF text[j].diff.missing THEN 0 ELSE text[i].parts
After(text, i, j) ==
    IF text[j].diff = None THEN text[i].parts
    ELSE Before(text, i, j) + text[j].diff.added - text[j].diff.removed
DiffsAddUp ==
    LET text == log.text
        states == States(text)
        report == Report(text)
    IN  /\ \A i, j \in states :
             i < j /\ (\A k \in states : k <= i \/ j <= k) => text[j].parts = After(text, i, j)
        /\ \A i, j \in states :
             (\A k \in states : i <= k /\ k <= j /\ (k \in Diffs(text) => k # i /\ ~text[k].diff.missing))
             => report.added - report.removed = text[j].parts - text[i].parts
=============================================================================
