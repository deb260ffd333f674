# Verification of Ashfox

TLA+ models, TLC checks and TLAPS proofs for Ashfox: an MCP server with which
programs edit 3D models in Blockbench. The repository has a plug-in runtime that
runs inside Blockbench, a sidecar process and a gateway in front of it, a web
dashboard, and stubs for a worker and an engine. Paths below are relative to the
repository; `R/` stands for `packages/runtime/src/`.

## Inventory

| Part | State it keeps | Operations | Talks to | What makes it correct |
|---|---|---|---|---|
| Revision store (`R/domain/revision`) | the last 5 snapshots by token, insertion order | hash, track, remember, get | called by guard, state, diff, trace | bounded; order and cache agree; a token names the snapshot it was given for |
| Project state and diff (`R/usecases/project/ProjectStateService.ts`) | none of its own | getProjectState, getProjectDiff | revision store | a diff starts from what its token showed |
| Tool dispatcher (`R/dispatcher*`) | none: one promise chain per call | handle: retry, stateful and response handlers | usecases, guard, trace recorder | each call applied at most once, answered truthfully, traced in order |
| Revision guard (`R/usecases/RevisionContext.ts`) | bypass depth | ensureRevisionMatch, runWithoutRevisionGuard | revision store, policies | no edit on a snapshot other than the one its token names |
| Session and model usecases (`R/session`, `R/usecases/model`) | bones, cubes, meshes in outliner and session | add, update, delete | editor port, session state | the two copies agree; a tree without cycles; replies tell what happened |
| Project lifecycle (`R/usecases/project`) | the active project | ensure_project: reuse, create, delete | session, editor | tools see the active tab; no unsaved work lost unasked |
| Texture usecases (`R/usecases/textureTools`, `textureService`) | pictures, assignments, UVs | import, update, assign, set_face_uv, atlas, paint_faces | renderer, editor | an atlas changes no look; a paint stays on its face |
| Face painting (`R/domain/texturePaint.ts`, `R/domain/uv/paint*`) | pixels | four kinds of op in two coordinate spaces | texture usecases | no pixel beyond face and admitted box |
| UV atlas packing (`R/domain/uv`) | none: a plan | pack, grow, reduce density | texture usecases | rectangles apart and complete; the loop ends |
| Animation usecases (`R/usecases/animation`) | clips, keys, triggers in both copies | clips, poses, triggers | editor, session | the copies agree, also after a pose cut short |
| Export and validation (`R/usecases/ExportService.ts`, `R/domain/export`) | files | export by a codec, a format or the internal fallback | exporter port, files | the files are well-formed and are those reported |
| Preview (`R/adapters/blockbench/preview`) | the user's camera and timeline | render_preview | Blockbench | both as the user left them |
| Trace log (`R/trace`) | bounded lines, flush counter, last revision | record, flush, report, export | revision store, writers | the end of what was recorded; its diffs add up |
| MCP router, sessions, HTTP servers (`R/transport/mcp`) | sessions, streams, socket buffers | initialize, POST, GET, DELETE, prune | dispatcher | answers in order; no request left; no stream nobody knows |
| Plug-in lifecycle (`R/plugin`) | server or sidecar handle, settings | restartServer, settings change, unload | sidecar process, server | never two servers, none after unload |
| Sidecar process and IPC (`R/sidecar`, `R/transport/codec.ts`) | child handle, restart timer; pending requests; line buffer | start, stop, exit, restart; request, timeout, response; push | dispatcher | one child at a time; each request settled once; every line decoded |
| Gateway dispatcher and locks (`apps/mcp-gateway/src/dispatcher.ts`, `packages/backend-core`) | a promise queue per project key | handle | one backend | mutating calls of a key never overlap |
| Gateway persistence (`apps/mcp-gateway/src/persistence`) | rows, blobs, one initialisation promise | start, close, find, save, remove, put, get, delete | databases, object stores | a statement finds its table; an acknowledged write stays |
| Web dashboard (`apps/web`) | page state, event stream, cursor | select, stream, reconnect | its route | shows the newest of the project it is on |
| Engine backend, worker, docs site, contracts | stubs, static data | - | - | - |

Concurrency is JavaScript's: one thread, a FIFO microtask queue, and tasks (a
chunk of input, a timer, a user's click) between which the queue is empty. So
every hazard lies at an `await`, between two tasks, between two copies of one
state, or half way through a call that fails. The hazards found while reading are
listed, each at its line, in `PROJECT.json`.

## Modules

- **RevisionStore** - operators for `revisionStore.ts`. A snapshot is a pair
  `[outline, untracked]`: the fields `hashSnapshot` lists and those it omits
  (meshes, uvPixelsPerBlock). `Digest` is an arbitrary function, so collisions
  are allowed. `Consistent` is what every operation keeps.
- **ProjectRevisions** - the tokens as clients see them: `GetProjectState`,
  `GetProjectDiff`, `GuardedWrite`, `RefusedWrite` and `EditProject`, each run to
  its end. `shown` records which snapshot each token was given for.
- **SharedProject** - what ToolDispatcher implements, a register with compare-and-set:
  a call looks at the project or changes it in one step between request and response,
  a refused or failed one changes nothing, an edit is admitted only under the revision
  its client sent (any, under the auto-retry), and the response carries a revision the
  project had after the step. It has no queue, no attempts and no nesting.
- **ToolDispatcher** - the dispatcher on the event loop. `inbox` holds the calls
  of the current input chunk that are not started, `jobs` the microtask queue,
  `pc` where each call is suspended. One action is the code between two awaits:

  | Action | Code |
  |---|---|
  | DeliverChunk, ExtendChunk | the line decoder hands the requests of one chunk to `SidecarHost.handleMessage`, all in one task |
  | StartRetried | `handleWithRetry` -> `runStatefulPipeline` -> `callWithAutoRetry` -> first attempt, synchronously |
  | StartStateful, RefuseStateful | `runStatefulPipeline` with `retry: false` (validate, export) |
  | StartDirect | response handlers (`get_project_state`, `render_preview`, ...) |
  | CompileDone | the codec of an export settles in a task of its own |
  | KeepFirst, Retry | `callWithAutoRetry` after its await: it gives up or calls again, in the same microtask that read the revision |
  | Attach | `runStatefulPipeline` after its await: the response's state is read |
  | Settle | rounds of the queue in which only promises settle |
  | Finalize | `handle` after its await: the response pipeline and the trace |
  | Respond | `SidecarHost.handleRequest` writes the response |
  | UserEdit | the user edits the model in Blockbench, between two tasks |

  An attempt (`Edit`, `Compound`, `Reuse`) is one step because the usecases are
  synchronous. Its contents are abstracted to what it may do to the snapshot and what it
  may answer: nothing, one change, a change cut short ("partial", as delete_bone with
  several targets), or an exception; "ok" may also be said of a call that wrote what was
  there already (assign_texture with the same values), which is no change. `log` is
  history: every change with its author and the token it was made under.
- **GatewayLocks** - the gateway's `handle` and the promise queues behind it. A
  queue is one promise that each call replaces, so a call waits for exactly one
  predecessor, `prev`. `Refuse`, `RunReadOnly` and `RunLocked` are the branches of
  `handle`; `BeginJob` is `queue.then(job, job)`, `Settle` the backend (it answers,
  rejects or hangs), `Release` the second `then` of `ProjectLockQueue.run`.
- **FifoLock** - a first-come-first-served lock per key, which GatewayLocks
  implements. `Join` puts a call at the end of its key's line, ahead of nobody who came
  later; `Enter` takes a call whose predecessors have left; `Leave` ends its turn. The
  mapping (`Line`, `Ahead`) reads a line off the promises: a call is in line once it has
  arrived and until its release.
- **LineDecoder** - `createLineDecoder`: `Push` (the chunk is appended), `DecodeLine`
  (one round of the loop), `Overflow`, `End`. Lines are short words over a few
  characters; which of them are messages, other JSON or neither is a constant, and of
  UTF-8 only a character of two bytes is kept. `text` and `cuts` are history: the bytes
  received since the buffer was last emptied, and where a chunk ended inside a
  character. As each chunk is decoded by itself, such a character arrives as two of
  `Broken`.
- **SidecarProcess** - the plug-in's servers: `RestartServer` (onload and setting
  changes, with each way `restartServer` can end), `Unload`, and for each
  `SidecarProcess` object its child, its restart timer and `stopRequested`. The
  operating system moves the children: `Boot` (listen, or exit if the port is
  taken), `Obey`, `Crash`, and later `ExitEvent`. All servers use one port, as they
  do when another setting changes.
- **Sidecar** - composes it with the calls that pass through: the pending map of
  `SidecarClient` (`Request`, `Refuse`, `Timeout`, `ClientReceive`), the pipes, and
  `SidecarHost` (`HostReceive`, `HostAnswer`). `Break` joins the two: a step that
  ends a process ends its client, its connections and its pipes.
- **ProjectLifecycle** - the tabs open in Blockbench, the session, and the snapshot
  tools see, the session's fields under the active tab's (`Seen`). `Ensure` reuses or
  creates, `Delete` closes, each with the ways it stops half way (a dialog nobody
  answers, a close that is a promise); `User` opens, switches, edits and closes tabs.
- **ModelTools** - bones and cubes twice: the outliner, by id, and the session, by
  name. `AddBone`, `UpdateBone`, `DeleteBone`, `AddCube`, ... read the snapshot,
  decide, change the outliner and then the session as each does it; `UserEdit`
  changes the outliner alone.
- **AnimationTools** - clips, poses key by key (a pose may end half way), deletions that
  fail on a later clip, triggers, in both copies; two times are one moment when they
  fall into one bucket. `lapses` remembers what the session was not told of.
- **TextureTools** - textures, assignments and UVs, which a face need not have. A
  picture is a function from slots, the pixels that UVs select, to inks. The atlas runs
  picture by picture, then face by face; it may stop after any of them and may put a
  picture back. `PaintFaces`, of one face or all of a cube, in either coordinate space,
  runs through preflight, recovery by atlases, the pass and its rollback. `astray` is
  history: the textures of which the session was not told what they have become.
- **UvAtlas** - the plan behind it, one turn of its loops a step.
- **FacePainting** - the pixels behind it: ops, their bounds, stretching, cutting.
- **Preview** - the user's camera and timeline, posed, turned, rendered, restored.
- **ModelExport** - the canonical model of a snapshot, the web of indices of a glTF
  file, the GeckoLib files, and `ExportService`: which codec answers, what is written,
  what is reported when a write or a codec fails.
- **TraceLog** - recorder, store, report, scheduler and file, on a revision store that
  clients use too (`Changes`).
- **McpServer** - sockets whose loop takes one request at a time (`Data`, `Turn`,
  `ToolDone`), exchanges of the HTTP server, the router's answer to each kind of
  request, sessions that expire (`TimePasses`) and streams that outlive requests.
- **GatewayPersistence** - which adapters an environment selects, start, readiness and
  shutdown, and the repositories: Postgres query by query behind one promise, SQLite,
  Ashfox, and Appwrite's create-then-change; failing queries and crashes.
- **BlobStores** - put, get and delete of the four stores, request by request.
- **Dashboard** - the page, the effect that exchanges streams, the browser's reconnect
  and the route.
- **MCToolDispatcher**, **MCGatewayLocks**, **MCSidecar** - instances for TLC.
- **MCProject**, **MCModelAndExport**, **MCTexturesAndClips**,
  **MCTransportsAndStorage** - instances of several modules that do not read each
  other's state. A behaviour chooses one part at its start and leaves the variables of
  the others alone, so the states of the parts add up and do not multiply. Properties
  there begin with `part = ... =>`; those of a module that is extended need no prefix.
- **RevisionStoreProofs**, **ProjectRevisionsProofs**, **ToolDispatcherProofs**,
  **GatewayLocksProofs**, **SidecarProofs**, **TexturesAndClipsProofs**,
  **ModelToolsProofs**, **TransportsAndStorageProofs** - theorems and proofs. The
  theorems about modules that share an instance (MCProject, MCTexturesAndClips,
  MCModelAndExport, MCTransportsAndStorage) are about the behaviours of that instance,
  for every value of the constants.

How they fit together: the gateway or the sidecar's client hands a call to a
dispatcher; ToolDispatcher is what runs behind `Settle` of GatewayLocks, between
`HostReceive` and `HostAnswer` of Sidecar and behind `ToolDone` of McpServer, and its
`DeliverChunk` is what LineDecoder delivers. What ToolDispatcher calls an edit of the
outline is any tool of ModelTools, AnimationTools, TextureTools or ProjectLifecycle:
these are synchronous, so each of their calls is one step. RevisionStore is used by
ProjectRevisions, ToolDispatcher and TraceLog.

Operators whose comment begins with "Fault:" are faulty variants of the definition
below them. No specification uses them; each shows that some property would
notice that fault.

## What is checked

| Run | Shows |
|---|---|
| dispatcher | default policies; three calls, two clients, one user edit: AppliedAtMostOnce, GuardIsCurrent, TraceFollowsEffects, ReplyCoversEffect |
| dispatcher_live | every kind of tool, two calls: every call is answered (Answered) and is one step of SharedProject (ImplementsSharedProject) |
| project | revisions: a diff with a base, and a write its guard let through, start from a snapshot that is in every hashed field the one shown with the token (DiffStartsAtShown, WriteStartsAtShown); the fields the hash omits change too. trace: the log, bounds and file are the end of what was recorded (LogIsATail), its diffs add up to the project although clients evict the recorder's base (DiffsAddUp). tabs: tools see the active tab, with at most a texture the user deleted in it (StateIsOfTheProject); a call closes what it names and discards nothing unasked (ClosesWhatWasNamed) |
| gateway_locks | OneWriterPerKey; the promise chain implements FifoLock (ImplementsFifoLock); a call waits for ever only behind a hung call of its own key (WaitingCallStarts) |
| transports_and_storage | lines: however the stream is cut, each message is delivered once, in order, up to a line that is JSON but no message; a cut inside a character changes that character and nothing else (DecodesUntilInvalid). mcp: AnswersInOrder, NothingLeftBehind, StreamsAreReachable. web: PageFollowsTheStream. projects: StatementsFindTheTable. projects and blobs: what an acknowledged write replaced never comes back, bytes go with their type (WritesStay) |
| sidecar | ChildrenAreOwned (one sidecar, none after unload), OwnAnswer, CallSettles, ServesAgain |
| model_and_export | OutlinerIsTree, SessionMirrorsEditor, RepliesAreTrue for bones and cubes; FilesAreWellFormed (glTF, GeckoLib) and ReportedFilesMatch for exports |
| textures_and_clips | textures: a change is refused as none only where it is none (RefusalsAreTrue); an atlas changes no look that it copies pixel by pixel (AtlasKeepsLooks); a paint shows on its faces and on no other (PaintStaysOnItsFace). RectsAreApart, PlanIsComplete, PlanEnds for the atlas' plan; PaintIsExact for pixels; AnimationsMirrored for clips; ViewIsRestored for previews |
| decoder_stale_index | finding: a line that is JSON but no message spoils the lines after it in its chunk |
| project_delete | finding: delete closes the tab and reports that it did not |
| revisions_untracked | finding: the guard does not see changes of meshes or uvPixelsPerBlock |
| paint_layers | finding: in the default coordinate space a paint erases the rest of its face |

**Bounds.** *Dispatcher*: three calls are the fewest in which a retry has both an
earlier and a later neighbour in the queue; a call is made once, so the histories end
(hence `CHECK_DEADLOCK FALSE`, there and wherever calls or edits are bounded). Two
clients suffice for one to make the other stale. *Revisions, trace*: the store limit is
2 instead of 5 with three outlines, so evictions happen and a content can come back;
three lines of log, of which two are always kept, and a byte bound of five force both
kinds of trimming within four records. *Tabs*: two tabs, two names and the unnamed,
every match and mismatch option that takes another branch, every discard policy.
*Gateway*: three calls give a chain of two links beside another key; the payloads cover
a blank field, one that only trims to another's value and one of higher precedence.
*Lines*: seven bytes, both halves of a two-byte character among them, in chunks of up to
three are two lines and the start of a third, cut everywhere, also inside a character,
with a limit of six so that the buffer overflows. *MCP*: three requests on one socket
(one handled, two pipelined) beside one HTTP exchange, two sessions of one stream each,
and every kind of request the router tells apart. *Storage*: three calls (two that
overlap and one after), two faults. *Dashboard*: two projects, one flat. *Sidecar*: two
`SidecarProcess` objects and three processes at a time (one listening, one dying, one
booting); processes are reused, so restarts are not bounded; two calls and one slot let
a late answer meet a newer request. *Model*: four nodes, three names ("root" is one), at
most two cubes: chains of three bones and cycles of two; one edit behind the tools and
one call after it. *Export*: every file structure is checked of every shape listed in
MCModelAndExport (no bones, orphans, forward references, meshes with and without a bone,
clips with orphan and unsorted channels); the service does not look at the shape, so one
goes on to be exported (`OneShapeGoesOn`). *Atlas*: all ways to give three faces one of
five sizes, with sizes that fit at once, after growing, at a lower density, and never;
five faces for second shelves. *Painting*: a texture of four by three pixels in
half-pixel coordinates, two layouts (one with fractions), ops of every kind inside,
across and outside; two paints. *Clips*: two clips, two names, poses of two keys in one
moment, one bone that can be renamed, six calls or deletions by the user (`MaxCalls`).
*Textures*: two textures, names, slots and faces of a cube, one ink beside transparent;
one texture astray at a time (`MaxAstray`); a texture does not get the name under which
the session still has another (`Free`); one recovery (`MaxRetries`, which the code sets
to 2: a second one is covered by the proof, for any number). States that differ in the
last answer only are one (`MCView`; no step reads it, and action properties are checked
on every step). *Preview*: rounds below, at and beyond the limit of frames. Ids, names,
calls and the values of unhashed fields are symmetric where no property of the run is a
liveness property of theirs.

**Fairness.** `FairSpec` of ToolDispatcher asks only that a started task and its
microtasks run on, which the JavaScript engine guarantees. Nothing obliges a codec to
settle, a client to call or the user to edit. So an export may stay at "compile" for
ever, and `Answered` says the other calls are answered all the same. In GatewayLocks
microtasks run and a backend answers, rejects or hangs; hanging is a choice it always
has. In Sidecar timers fire, exit events are delivered, a process boots and a
signalled one ends; no call need ever be answered and no pipe be read, so `CallSettles`
rests on the client's timeout alone. `ServesAgain` is stated for runs in which sidecars
crash only finitely often, and it excepts the states the code does not leave by
itself (`GivenUp`): a failed start, a spawn that fails with an error event and a
listen that fails after `startServer` has returned. In UvAtlas the plan is one
synchronous call, so it runs on; `PlanEnds` is about its loops alone.

**Limits of the properties.** A call that throws in its retry needs one queue round
fewer than one that returns, so it can be traced before an earlier change;
TraceFollowsEffects leaves such calls out. DecodesUntilInvalid does not ask that a
character the pipe cuts in two arrive whole, which it does not: `decodeChunk` decodes
each chunk by itself. It says that such a character arrives as two of `Broken` and that
this is all a cut changes. Under the default policy a stale write is retried with the
current revision: GuardIsCurrent speaks of the revision the guard compared, and that no
stale write passes without the policy is only a theorem (NoStaleWrites).

StateIsOfTheProject, SessionMirrorsEditor, AnimationsMirrored and RefusalsAreTrue follow
a behaviour until something the code cannot see, or a call that reports its own failure,
lets the copies differ; the history variables `astray` (of the session, and of
textures), `drift` and `lapses` say when. Two of the causes of `drift` are calls that
succeed: a move Blockbench did not make, and the group "root" deleted or renamed away
from cubes that `update_cube` with `boneRoot` put outside every group; the session then
drops or renames what the outliner keeps, and for such cubes RepliesAreTrue says that
`removedCubes` counts cubes that stay. Two of the causes in `lapses` are calls that
report success as well: a key that Blockbench did not make, and a bone renamed, whose
keys the session keeps under the old name; a deletion that fails on its second clip
reports the failure, and the session keeps the first. AnimationsMirrored says what is
left after each.

ReportedFilesMatch looks into a reported directory for the file, since the reply does
not name it, and takes a codec that goes by the chosen one's id for the chosen one:
service and compiler resolve a name by rules of their own. The two formats round times
differently, so FormatsAgree compares each with the keyframes of the model and not with
the other: in a GeckoLib file keyframes closer than its four digits are one.

A texture goes astray when the user edits or deletes it, when a call that renamed it
fails after that, and when a rollback draws its own image element, which has no hash;
RefusalsAreTrue goes on for the others, and AtlasKeepsLooks and PaintStaysOnItsFace
leave such textures out. They leave out as well the faces an atlas cannot copy pixel by
pixel, those it mirrors, cuts or resizes (`Redrawn`; `kept` are the others): these may
look different after an atlas that succeeds. Two rectangles that share a pixel are one
slot, while the code's guard against overlaps compares whole rectangles. The guard that
undoes a paint which loses nearly all of 256 opaque pixels counts what slots do not: in
TextureTools a loss is possible wherever a picture changes (`MayLose`), never certain,
and the pictures of FacePainting are too small for it. A stroke thicker than its own
rectangle goes beyond the box it was admitted for, and PaintIsExact says how far
(`Reach`); each of its paints has one rectangle. ViewIsRestored says what the code
cannot put back: a posed clip stays selected where none was before or where restoring
throws, the posed clip keeps its new time, and of clips that share a name the first is
selected.

WritesStay asks of the file store only what it can give: calls one after the other and
no crash inside a put.

## What is proved

For every number of clients, calls and edits, every store limit, both policies
and any hash (assumptions: `DigestAssumption`, `LimitAssumption`,
`PolicyAssumption`, `NobodyAssumption`):

- `StoreStaysConsistent`, from the lemma `RememberKeepsConsistent` with its three
  cases (token known, room left, eviction).
- `GuardedWritesAreFresh` and `DiffsStartAtShown`, for any hash and any fields it leaves
  out: base and shown snapshot have one hash (`SameHashed`), so they differ at most in
  fields it omits, if it tells outlines apart. Both need the invariant that a token in a
  client's hands is the hash of what was shown with it. That more does not hold is the
  run revisions_untracked.
- `TypeCorrect`, `NoCallAppliedTwice`, `ResponsesAreTrue`, `EditsCheckWhatTheyChange`
  for the dispatcher. None of these is inductive alone: that a retry does not apply a
  call twice needs that a call refused with "mismatch" has no effect yet, and that its
  phase (`Phases`) says so before its first attempt and while it waits for a codec.
  `IInv` is their conjunction. `ResponsesAreTrue` says of every change that the attempt
  which made it is the one whose outcome is told (`LastAttempt`). The lemma
  `AttemptOutcome` reduces every usecase to "no effect, or exactly one under the current
  revision"; four step lemmas (SendStep, QuietStep, AnswerStep, AttemptStep) cover the
  actions.
- `ToolsImplementSharedProject`: every step of the event loop is one of SharedProject or
  none. A call takes its step with its last attempt; a first attempt refused for its
  revision leaves it `Undecided` while a retry may follow, and only a call that named a
  revision gets there (`Settled`). The two attempts of any edit map to the same few
  steps (`AttemptIs`, `AttemptShared`); the reply, told once and after the step
  (`AttachShared`), is what makes the register's clients see a current revision.
- `NoStaleWrites`, for the strict policy (`requireRevision` without
  `autoRetryRevision`): the log records the revision each guard compared, and
  without a retry that is the one the client sent (`SentIsChecked`); together with
  `GuardIsCurrent` it is the revision of the snapshot that was changed.
- `RepliesCoverEffects`: the log ends with the project (`LogEndsHere`) and a call
  has no reply while an attempt of it may follow (`ReplyComesLast`), so the reply is
  read at or after the change.

- `CallsOfAKeyExclude` and `CallsOfAKeyInOrder` for the gateway. The invariant says
  that the calls of a key form one chain through `prev` that ends in the queue's
  promise, and that a job starts only when everything before it in its chain was
  released.
- `OneSidecar`: only the plug-in's own `SidecarProcess` has a child (`Sole`), and the
  timer of any other finds `stopRequested` (`Timers`). The lemma `AfterStop` says what
  stopping establishes for each way `restartServer` can go on.
- `SlotsAreWaitingCalls` and `AnswersAreOwn`: an id names one call among all copies of
  requests and responses between a client and its host (`IdsUnique`), nothing of a
  dead child is left for the next (`DeadForgotten`), and clients wait at living
  children (`WaitsOnce`). The conjunction `IInv` is inductive: one lemma per step,
  and `BreakStep` for all steps of processes.

- `AtlasIsDisjoint` and `PlanCorrect` for the atlas, for every request. Two rectangles
  are apart because each new one lies right of `x` on its shelf or below `row`
  (`ApartInv`): what was placed on the shelf ends, padding included, left of the next
  place, and what was placed above ends above it. Complete plans need that what is
  placed and what is left are together the faces of the textures begun (`CoverInv`), and
  that growing or reducing starts from nothing (`BeginCover`).

- `QueuesImplementFifoLock`: every step of the gateway maps to a step of FifoLock or to
  none. `LockJoins`, `LockEnters` and `LockLeaves` are its three steps, `LockStutters`
  the rest; that a call enters only when all before it in line have left
  (`EarlierAreOver`) comes from the chain of `CallsOfAKeyInOrder`. FifoLock's fairness
  stays with TLC.

- For transports and storage, one invariant per part, joined in `MCInv`
  (`PartsKeepTheirInvariants`): `StatementsAlwaysFindTheTable` needs that a call beyond
  its wait waited for an initialisation that made the table (a failed one is kept, so
  every later call fails with it); `WritesAlwaysStay` needs that only finished writes
  are superseded, that a write which has touched the file no longer finds there what it
  superseded (`WrittenBefore`), and, while calls come one by one, which half of the file
  each step has written (`Halfway`, `ReadSoFar`); `AnswersAlwaysInOrder` that buffer,
  pending request and answered ones are the requests sent, in their order;
  `NothingIsLeftBehind` that a loop which stopped left nothing whole behind;
  `StreamsStayReachable` that every connection a session names is open and named once;
  `PageAlwaysFollowsTheStream` only that the page shows something exactly when a project
  is selected, and that revisions are numbers.
- `OutlinerStaysATree`: the inductive invariant is `Forest`, which adds the types. That
  every chain of parents ends at the top is said there with a set: a set of nodes whose
  every node hangs below another of the set is empty. `Reached`, with its limit of
  rounds, is shown to be closed (`ReachedIsClosed`, each round adds a node until none is
  left to add), so `Below`, `Descendants` and the tree itself can be reasoned about
  without counting rounds. A move by `UpdateBone` closes no cycle because the parent's
  name is not among the descendants' names, also where groups share a name.
- `SessionAlwaysMirrors`: while `drift` is 0 no two groups and no two cubes share a name
  (`Apart`), and there is a group "root" if a cube is outside every group
  (`RootStands`), so names say which node is meant; then each tool does the same to both
  copies, of which `DeleteBone` is the long case: the names the session removes are
  those of the nodes below the targets (`ChainsAreBelow`).
- `RepliesStayTrue`, from the same invariant: the counts delete_bone subtracts from the
  session are those of the outliner (names are one to one with nodes), with the cubes
  outside every group added when "root" goes; and a call that ends with an error leaves
  the outliner, or adds a group "root" that the snapshot already showed or lacked
  (`OnlyRootAdded`), or has taken some branches out (`StoppedLeaves`).

- `ChangesAreTracedInOrder`: the queue of microtasks goes round, so who is ahead in it
  stays ahead until both have had their turn. A call that changed the project has
  between one and four turns to go until it is traced (`Turns`), and one that changed it
  earlier has fewer, or as many and comes earlier in the queue (`Sooner`, in `Lined`).
- `ToolsSeeTheProject` and `CallsCloseWhatTheyName`: unless the session has gone astray,
  its fields are covered by the active tab's and its textures are the tab's, deleted
  ones included (`Covered`, in `TabsInv`), so what is merged under them does not show or
  is of this tab. That every way of ensure_project keeps this is one lemma per way.
- `TraceIsATail`: the text is what is left of the lines (`Kept`), numbered without a gap
  (`Numbered`), within the bounds (`TraceInv`). Dropping lines from the front, one by
  one until the bounds hold, keeps the first two and reaches the third (`TrimKeeps`).
- `TraceAddsUp`: `StatesInv` says that the diff of each kept line leads from the state
  before it (`Chained`) and that the last state is the recorder's base (`Linked`); the
  totals of a stretch are then the difference of its ends. It assumes `OutlinesDiffer`:
  a hash that confuses two outlines lets the recorder leave out a change.
- `PreviewRestoresTheView` (`CameraInv`): each way through a render leaves a view that
  is the user's but for camera, selection and one time (`Near`), putting back what was
  saved brings it to what the property allows (`IsBack`), and the frames are evenly
  spread.
- `ClipsAreMirrored`: editor and session each set the keys of a pose one after another
  by rules of their own (`EditorSetsKey`, `SessionMergesKey`); `PoseMirrored` shows that
  both end with the same keys, or the session with more where the editor made one fewer.
  `AnimationInv` adds to the property that names differ, without which a rename could
  hit two clips, and that groups have their first names until a bone is renamed.
- `TexturesAreMirrored`, `AtlasIsInvisible`, `PaintIsLocal`: the session has the name
  and the hash of each texture not astray (`Fine`, in `TextureInv`), and every loop over
  textures and faces, wherever it stops, keeps that (`FineBut`: also while one texture
  is being changed). The loop of the atlas keeps what the faces it copies look like; of
  the others nothing is claimed.
- `PaintsAreExact` (`PaintInv`): a pixel of the canvas reads the pixel of the source
  below it, and each op paints only inside the bounds that admitted it, or as near to
  them as its stroke is too thick (`Reach`). For `draw_line` these follow from what
  Bresenham's error stands for, (j + 1) dx - (i + 1) dy after i steps in x and j in y
  (`PathIs`).
- `LinesAreDecoded`: chunks decoded one by one read like the whole text with the
  characters at `cuts` broken (`ChunksDecodeApart`), so the buffer is the end of what
  was heard, and what was delivered is what there is to read before it (`LinesInv`),
  until an invalid line leaves the index stale.
- `ReportsAreTrue`: what the compiler finds by the chosen id is that codec or one that
  has the id for a name or an extension (`CodecIsNamed`), and a write that stops half
  way is never reported as done (`WriteFilesMatch`).
- `FilesAlwaysWellFormed`: for every model, not by an invariant of steps but from what
  the codecs compute. Sorting neither loses nor doubles a track (`OrderIs`: the rank of
  an element is one to one with its place); what was appended to the samplers stays
  where it is (`FlatHas`), so the pair of accessors at 6 + 2k is that of sampler k
  (`PairsFollow`, `AccessorsAre`), also over clips of different lengths; a section
  begins at or after the end of the one before (`ViewsAre`); a parent's index is 0 or a
  bone, so each bone is a root or the child of one node (`NodesAreOnce`). Two samplers
  drive one property only if two tracks have one bone and channel or went to the root as
  orphans (`ClipIsDriven`). The keys of both formats stand for the keyframes because
  rounding moves a time by at most half a grain (`RoundedIs`, `KeysHold`) and the tracks
  exported are those of the clip that have keys (`FramesAre`).

Assumptions: `TextAssumption`, `CallAssumption` (trimming is idempotent, payloads are
well-typed) for the gateway; `ProcessAssumption`, `CallAssumption` (no model value
doubles as none, maxInFlight is positive) for the sidecar; `AtlasAssumption` (requests
are of their type) for the atlas; `StorageAssumption`, `StreamsAssumption`,
`PageAssumption` (no call, session or project doubles as none, sockets are no exchanges,
limits and revisions are numbers), `ByteAssumption` (newline and space are no halves of
a character, which has two different ones) for transports and storage; `ModelAssumption`
(finitely many ids, none of them a name, "root" is a name) for bones and cubes;
`ShapeAssumption` (of the models exported: some bone hangs from no bone, as the outliner
is a tree; a clip has one track for each channel of a bone, as `upsertAnimationChannel`
and `extractChannels` make it; times are not negative, both resolutions are positive)
for files; `TabsAssumption`, `TraceAssumption`, `PreviewAssumption`, `BoneAssumption`,
`TextureAssumption`, `PaintAssumption`, `CodecAssumption` (payloads, ops and limits are
of their types, limits as the code normalises them; no clip, hash or slot doubles as
none; groups are bones; an outline has finitely many parts) for the rest. Nothing is
assumed of fairness.

Only model-checked: liveness (ServesAgain, CallSettles, Answered, WaitingCallStarts,
PlanEnds, the fairness of FifoLock), which is out of the prover's reach, as is ENABLED.
Every safety property of a run is proved. The library's induction
theorems take an operator as a parameter, which the provers here cannot instantiate;
where a proof needs induction over the rounds of a recursive function, it takes a least
counterexample instead (`Least`, `ToTheEnd`), also to show that the function exists
(`StepByStep`, `RunIs`).

## What is not modelled

Meshes (one flat list in editor and session; their UVs and painting), coordinates and
rotations of bones and cubes, interpolation of keys, the findings of validate, the
item lists of full diffs, the encoding of pictures, the parsing of HTTP, JSON and
settings, the sidecar's handshake and the length of restart delays, undo. They are data
no property here tells apart, or tables without a state. Contracts and schemas, the
documentation site, the engine backend and the worker are static or stubs. Every part
is listed with its reason in `PROJECT.json`. That keys of the gateway's locks can be
names of bones, so that two calls on one Blockbench project need not exclude each
other, is listed there as a hazard: its Blockbench backend has no dispatcher yet.

## Plan

1. Core (done): RevisionStore, ProjectRevisions, ToolDispatcher and their proofs.
2. Gateway (done): the lock queues, their proofs and the FIFO lock they implement.
3. Sidecar (done): line decoder; client, host and process, and their proofs.
4. Tools (done): ProjectLifecycle, ModelTools, AnimationTools, TextureTools,
   FacePainting, Preview, ModelExport; UvAtlas and its proofs.
5. Edges (done): TraceLog, McpServer, GatewayPersistence, BlobStores, Dashboard.
6. Proofs (done): the refinement of FifoLock; the six invariants of transports and
   storage; tree, mirror and replies of ModelTools.
   Then (done): the order of the trace; the tabs and the trace log; previews, clips,
   textures and pixels; the line decoder; what exports report, and their files;
   the refinement of SharedProject.
7. Models to come: meshes beside cubes in ModelTools and TextureTools.
