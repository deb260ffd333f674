------------------------- MODULE GatewayPersistence -------------------------
(***************************************************************************)
(* The gateway's start and shutdown and its project repository, on one     *)
(* project.  The environment selects the adapters; the SQL adapters create *)
(* their table on first use, behind one promise that all calls wait for;   *)
(* Postgres takes eight queries for it, with other calls and a shutdown    *)
(* coming in between any two; Appwrite saves by a request that creates the *)
(* document and, if it is there, one that changes it.                      *)
(*                                                                         *)
(* A statement of SQL is one step of the server, a request answered or     *)
(* failed, before or after its effect.  A crash of the process is followed *)
(* by a new start on what the database kept.                               *)
(***************************************************************************)
EXTENDS Integers, FiniteSets

CONSTANTS Env,        \* the environments the gateway is started in
          Call, None, MaxFaults

VARIABLES env,
          gateway,    \* down, up, closing (shutdown waits for the pool) or stopped
          db,         \* what is stored: the table, its migration's record, the project
          promise,    \* initPromise: 0 or the attempt it is of
          attempt,    \* the attempts at initialising of this process
          call,       \* call -> [op, step, on (its attempt), before]
          superseded, \* history: the saves a later write replaced
          faults

pvars == <<env, gateway, db, promise, attempt, call, superseded, faults>>

----------------------------------------------------------------------------
(* Which adapters are started                                              *)

Preset == [local    |-> [db |-> "sqlite",   storage |-> "fs"],
           selfhost |-> [db |-> "postgres", storage |-> "s3"],
           ashfox   |-> [db |-> "ashfox",   storage |-> "ashfox"],
           appwrite |-> [db |-> "appwrite", storage |-> "appwrite"]]

\* parsePreset and the like: a name that is none of the known ones is read as
\* not given.
Parsed(name, known, fallback) == IF name \in known THEN name ELSE fallback
Known(field) == {Preset[name][field] : name \in DOMAIN Preset}

Selection ==
    LET preset == Preset[Parsed(env.preset, DOMAIN Preset, "local")]
    IN  [db      |-> Parsed(env.db, Known("db"), preset.db),
         storage |-> Parsed(env.storage, Known("storage"), preset.storage)]

\* Appwrite's credentials may be given for one use or for both.
Credentials(scope) == env.keys \cap {scope, "common"} # {}

\* The adapter a provider gets; ashfox is a Postgres of its own.
Repository ==
    CASE Selection.db = "sqlite"   -> IF env.sqlite THEN "sqlite" ELSE "unsupported"
      [] Selection.db = "appwrite" -> IF Credentials("db") THEN "appwrite" ELSE "unsupported"
      [] OTHER                     -> "postgres"
BlobStore ==
    CASE Selection.storage = "fs"       -> "fs"
      [] Selection.storage = "appwrite" -> IF Credentials("storage") THEN "appwrite" ELSE "unsupported"
      [] OTHER                          -> IF "storage" \in env.keys THEN Selection.storage ELSE "unsupported"
Ready == "unsupported" \notin {Repository, BlobStore}

\* createGatewayPersistence, then startServer; either may end the process.
Start ==
    /\ gateway = "down"
    /\ gateway' = IF (env.failFast => Ready) /\ env.listens THEN "up" ELSE "stopped"
    /\ UNCHANGED <<env, db, promise, attempt, call, superseded, faults>>

----------------------------------------------------------------------------
(* Initialising the table                                                  *)

FirstStep == IF Repository = "sqlite" THEN "mkdir" ELSE "schema"
Attempts == 1..2
Closed(a) == promise # a   \* an attempt before close has an ended pool

\* Fault: an initialisation that has begun counts as done.
AwaitBegun(a) == "query"
\* Where a call goes from its first await: all wait for one promise, also one
\* that was rejected.
Await(a) ==
    CASE attempt'[a] = "done" -> "query" [] attempt'[a] = "failed" -> "error" [] OTHER -> "init"

Waiting(a) == {c \in Call : call[c].step = "init" /\ call[c].on = a}
Becomes(a, step) ==
    /\ attempt' = [attempt EXCEPT ![a] = step]
    /\ call' = [c \in Call |-> IF c \in Waiting(a) THEN [call[c] EXCEPT !.step = Await(a)] ELSE call[c]]
    /\ UNCHANGED <<env, gateway, promise, superseded>>

\* The queries of initializeSchema and applyMigration, in their order: create
\* and record are in a transaction, and the creation waits for that of another
\* connection.  A query under way when its pool is ended is answered; the next
\* is refused.
Query(a) ==
    LET step == attempt[a]
        Then(next) == Becomes(a, IF Closed(a) /\ next # "done" THEN "failed" ELSE next)
    IN  \/ /\ \/ step = "schema" /\ Then("migrations")
              \/ step = "migrations" /\ Then("select")
              \/ step = "select" /\ Then(IF db.recorded THEN "done" ELSE "begin")
              \/ step = "begin" /\ Then("create")
              \/ /\ step = "create" /\ \A b \in Attempts \ {a} : attempt[b] \notin {"record", "commit", "rollback"}
                 /\ Then("record")
              \/ step = "record" /\ Then("commit")
              \/ step = "rollback" /\ Then("failed")
           /\ UNCHANGED <<db, faults>>
        \/ /\ step = "commit" /\ db' = [db EXCEPT !.table = TRUE, !.recorded = TRUE]
           /\ \/ Then("done") /\ UNCHANGED faults
              \/ faults < MaxFaults /\ faults' = faults + 1 /\ Then("rollback")

\* An error of the server rejects the promise; inside the transaction a
\* ROLLBACK comes first.
QueryFails(a) ==
    /\ attempt[a] \notin {"none", "mkdir", "done", "failed"}
    /\ faults < MaxFaults /\ faults' = faults + 1
    /\ Becomes(a, IF attempt[a] \in {"create", "record", "commit"} /\ ~Closed(a) THEN "rollback" ELSE "failed")
    /\ UNCHANGED db

\* SQLite: after the directory is made all of it is one synchronous piece.
MakeDirectory(a) ==
    /\ attempt[a] = "mkdir"
    /\ \/ /\ db' = [db EXCEPT !.table = TRUE, !.recorded = TRUE]
          /\ Becomes(a, "done") /\ UNCHANGED faults
       \/ /\ faults < MaxFaults /\ faults' = faults + 1
          /\ Becomes(a, "failed") /\ UNCHANGED db

Initialise == \E a \in Attempts : Query(a) \/ QueryFails(a) \/ MakeDirectory(a)

----------------------------------------------------------------------------
(* Calls                                                                   *)

NoCall == [op |-> None, step |-> "new", on |-> 0, before |-> {}]
Ended == {"new", "ok", "error", "lost"}
Writing(c) == call[c].op \in {"save", "remove"}
Acked == {d \in Call : Writing(d) /\ call[d].step = "ok"}

\* ensureInitialized: a call begins the initialisation or joins it.  After a
\* close the next call begins another, on another pool.
BeginCall(c, op) ==
    LET new == [NoCall EXCEPT !.op = op, !.before = Acked]
        a == IF promise # 0 THEN promise ELSE IF attempt[1] = "none" THEN 1 ELSE 2
    IN  /\ gateway \in {"up", "closing"} /\ call[c].step = "new"
        /\ IF Repository \in {"sqlite", "postgres"}
           THEN /\ promise' = a
                /\ attempt' = [attempt EXCEPT ![a] = IF promise # 0 THEN @ ELSE FirstStep]
                /\ call' = [call EXCEPT ![c] = [new EXCEPT !.step = Await(a), !.on = a]]
           ELSE /\ call' = [call EXCEPT ![c] =
                              [new EXCEPT !.step = IF Repository = "appwrite" THEN "create" ELSE "error"]]
                /\ UNCHANGED <<promise, attempt>>
        /\ UNCHANGED <<env, gateway, db, superseded, faults>>

\* An answer, or an error after the effect.
Answer(c, step) ==
    \/ /\ call' = [call EXCEPT ![c].step = step] /\ UNCHANGED faults
       /\ superseded' = IF Writing(c) /\ step = "ok" THEN superseded \cup call[c].before ELSE superseded
    \/ /\ faults < MaxFaults /\ faults' = faults + 1
       /\ call' = [call EXCEPT ![c].step = "error"] /\ UNCHANGED superseded

\* The one statement of find, save and remove, and the row it leaves.
RowAfter(c) ==
    CASE call[c].op = "save" -> c [] call[c].op = "remove" -> None [] call[c].op = "find" -> db.row
Statement(c) ==
    /\ call[c].step = "query"
    /\ db' = [db EXCEPT !.row = RowAfter(c)]
    /\ Answer(c, IF db.table THEN "ok" ELSE "error")
    /\ UNCHANGED <<env, gateway, promise, attempt>>

\* AppwriteProjectRepository.save: a document that is gone again is an error.
SaveDocument(c) ==
    /\ call[c].op = "save"
    /\ \/ /\ call[c].step = "create" /\ db' = [db EXCEPT !.row = IF @ = None THEN c ELSE @]
          /\ Answer(c, IF db.row = None THEN "ok" ELSE "update")
       \/ /\ call[c].step = "update" /\ db' = [db EXCEPT !.row = IF @ = None THEN None ELSE c]
          /\ Answer(c, IF db.row = None THEN "error" ELSE "ok")
RemoveDocument(c) ==
    call[c].op = "remove" /\ call[c].step = "create" /\ db' = [db EXCEPT !.row = None] /\ Answer(c, "ok")
FindDocument(c) ==
    call[c].op = "find" /\ call[c].step = "create" /\ UNCHANGED db /\ Answer(c, "ok")
Document(c) ==
    /\ SaveDocument(c) \/ RemoveDocument(c) \/ FindDocument(c)
    /\ UNCHANGED <<env, gateway, promise, attempt>>

\* A request or statement that failed and had no effect.
Fails(c) ==
    /\ call[c].step \in {"query", "create", "update"}
    /\ faults < MaxFaults /\ faults' = faults + 1
    /\ call' = [call EXCEPT ![c].step = "error"]
    /\ UNCHANGED <<env, gateway, db, promise, attempt, superseded>>

----------------------------------------------------------------------------
(* Shutdown and crashes                                                    *)

\* The process is gone, with its calls, its attempts and its connections.
Gone(next) ==
    /\ gateway' = next
    /\ promise' = 0 /\ attempt' = [a \in Attempts |-> "none"]
    /\ call' = [c \in Call |-> IF call[c].step \in Ended THEN call[c] ELSE [call[c] EXCEPT !.step = "lost"]]
    /\ UNCHANGED <<env, db, superseded>>

\* shutdown: only a pool is waited for, and calls still come in meanwhile.
Shutdown ==
    /\ gateway = "up"
    /\ IF Repository = "postgres" /\ promise # 0
       THEN /\ gateway' = "closing" /\ promise' = 0
            /\ UNCHANGED <<env, db, attempt, call, superseded>>
       ELSE Gone("stopped")
    /\ UNCHANGED faults
\* end() is resolved when the queries the pool was given are answered.
Exit ==
    /\ gateway = "closing"
    /\ attempt[1] \in {"done", "failed"} /\ \A c \in Call : ~(call[c].step = "query" /\ call[c].on = 1)
    /\ Gone("stopped") /\ UNCHANGED faults

Crash ==
    /\ gateway \in {"up", "closing"} /\ faults < MaxFaults
    /\ faults' = faults + 1 /\ Gone("down")

Init ==
    /\ env \in Env /\ gateway = "down"
    /\ db = [table |-> FALSE, recorded |-> FALSE, row |-> None]
    /\ promise = 0 /\ attempt = [a \in Attempts |-> "none"]
    /\ call = [c \in Call |-> NoCall] /\ superseded = {} /\ faults = 0

Next == \/ Start \/ Shutdown \/ Exit \/ Crash \/ Initialise
        \/ \E c \in Call, op \in {"find", "save", "remove"} : BeginCall(c, op)
        \/ \E c \in Call : Statement(c) \/ Document(c) \/ Fails(c)

Spec == Init /\ [][Next]_pvars

----------------------------------------------------------------------------

\* No statement meets a database without its table: whether the first calls
\* come together, a migration is cut off by a crash or a failing query, or a
\* pool is closed and another opened.  A recorded migration has been made.
StatementsFindTheTable ==
    /\ \A c \in Call : call[c].step = "query" => db.table
    /\ db.recorded => db.table

\* The project is never again what a write acknowledged since has replaced.
AckedSavesStay == db.row \notin superseded
=============================================================================
