--------------------- MODULE TransportsAndStorageProofs ---------------------
(***************************************************************************)
(* Proofs about the edges of the servers (MCTransportsAndStorage): the     *)
(* gateway's project repository and blob stores, the MCP servers, the      *)
(* dashboard and the line decoder, for any sets of calls, sockets,         *)
(* exchanges, sessions, requests, projects and bytes and any bounds.  For  *)
(* each part an inductive invariant that holds at first and is kept by     *)
(* every step, then the properties that TLC checks on the small instances. *)
(***************************************************************************)
EXTENDS MCTransportsAndStorage, FiniteSetTheorems, SequenceTheorems, WellFoundedInduction, TLAPS

----------------------------------------------------------------------------
(* The gateway's project repository                                        *)

AttemptStep == {"none", "mkdir", "schema", "migrations", "select", "begin", "create", "record",
                "commit", "rollback", "done", "failed"}
ProjectCall ==
    [op : {"find", "save", "remove", None},
     step : {"new", "init", "query", "create", "update", "ok", "error", "lost"},
     on : 0..2, before : SUBSET Call]

ProjectsType ==
    /\ db \in [table : BOOLEAN, recorded : BOOLEAN, row : Call \cup {None}]
    /\ attempt \in [1..2 -> AttemptStep]
    /\ call \in [Call -> ProjectCall]
    /\ \A c \in Call : call[c].step # "new" => call[c].op \in {"find", "save", "remove"}
    /\ promise \in 0..2
    /\ superseded \subseteq Call

\* An attempt is done only when the table is there, which is never dropped.
TableMade == \A a \in 1..2 : attempt[a] = "done" => db.table

\* Only acknowledged calls are superseded, and none is by a call that was
\* under way when it was acknowledged.
Finished(d) == call[d].step = "ok"
OnlyAcked ==
    /\ \A d \in superseded : Finished(d)
    /\ \A c \in Call : \A d \in call[c].before : Finished(d)

ProjectsInv ==
    /\ ProjectsType /\ TableMade /\ OnlyAcked
    /\ Projects!StatementsFindTheTable /\ Projects!AckedSavesStay

\* A step of an attempt: the calls that wait for it go on to their statement
\* only when it is done.
LEMMA AttemptMoves ==
  ASSUME ProjectsInv, NEW a \in 1..2, NEW step \in AttemptStep,
         Projects!Becomes(a, step),
         db' \in [table : BOOLEAN, recorded : BOOLEAN, row : {db.row}],
         db.table => db'.table, db'.recorded => db'.table,
         step = "done" => db'.table
  PROVE  ProjectsInv'
<1>1. /\ attempt' = [attempt EXCEPT ![a] = step]
      /\ call' = [c \in Call |-> IF c \in Projects!Waiting(a)
                                 THEN [call[c] EXCEPT !.step = Projects!Await(a)] ELSE call[c]]
      /\ UNCHANGED <<env, gateway, promise, superseded>>
  BY DEF Projects!Becomes
<1>2. Projects!Await(a) \in {"query", "error", "init"} /\ (Projects!Await(a) = "query" => step = "done")
  BY <1>1 DEF Projects!Await, ProjectsInv, ProjectsType
<1>3. \A c \in Call : /\ call'[c] \in ProjectCall /\ call'[c].before = call[c].before
                      /\ call'[c].op = call[c].op /\ (call[c].step = "new" => call'[c].step = "new")
                      /\ Finished(c) => Finished(c)'
                      /\ call'[c].step = "query" => call[c].step = "query" \/ step = "done"
  BY <1>1, <1>2 DEF ProjectsInv, ProjectsType, ProjectCall, Finished, Projects!Waiting
<1>4. ProjectsType'
  <2>1. call' \in [Call -> ProjectCall]
    <3>1. call' = [c \in Call |-> call'[c]]
      BY <1>1
    <3> QED BY <1>3, <3>1
  <2>2. attempt' \in [1..2 -> AttemptStep]
    BY <1>1 DEF ProjectsInv, ProjectsType
  <2>3. \A c \in Call : call'[c].step # "new" => call'[c].op \in {"find", "save", "remove"}
    BY <1>3 DEF ProjectsInv, ProjectsType
  <2>4. db' \in [table : BOOLEAN, recorded : BOOLEAN, row : Call \cup {None}] /\ promise' \in 0..2
        /\ superseded' \subseteq Call
    BY <1>1 DEF ProjectsInv, ProjectsType
  <2> QED BY <2>1, <2>2, <2>3, <2>4 DEF ProjectsType
<1>5. TableMade'
  BY <1>1 DEF ProjectsInv, ProjectsType, TableMade
<1>6. OnlyAcked'
  <2>1. \A c \in Call : call[c].before \subseteq Call
    BY DEF ProjectsInv, ProjectsType, ProjectCall
  <2>2. \A d \in superseded' : Finished(d)'
    BY <1>1, <1>3 DEF ProjectsInv, ProjectsType, OnlyAcked
  <2>3. \A c \in Call : \A d \in call'[c].before : Finished(d)'
    BY <1>3, <2>1 DEF ProjectsInv, OnlyAcked
  <2> QED BY <2>2, <2>3 DEF OnlyAcked
<1>7. Projects!StatementsFindTheTable' /\ Projects!AckedSavesStay'
  BY <1>1, <1>3 DEF ProjectsInv, ProjectsType, Projects!StatementsFindTheTable, Projects!AckedSavesStay
<1> QED BY <1>4, <1>5, <1>6, <1>7 DEF ProjectsInv

\* Before the gateway starts nothing has been asked of the database.
LEMMA ProjectsInit == Projects!Init => ProjectsInv
BY DEF Projects!Init, ProjectsInv, ProjectsType, ProjectCall, TableMade, OnlyAcked, Finished, AttemptStep,
       Projects!StatementsFindTheTable, Projects!AckedSavesStay, Projects!NoCall, Projects!Attempts

\* An attempt that moves on is done only after the table is made.
LEMMA ProjectsInitialise == ProjectsInv /\ Projects!Initialise => ProjectsInv'
<1> SUFFICES ASSUME ProjectsInv, NEW a \in 1..2,
                    Projects!Query(a) \/ Projects!QueryFails(a) \/ Projects!MakeDirectory(a)
             PROVE  ProjectsInv'
  BY DEF Projects!Initialise, Projects!Attempts
<1>1. db \in [table : BOOLEAN, recorded : BOOLEAN, row : {db.row}] /\ (db.recorded => db.table)
      /\ (attempt[a] = "done" => db.table)
  BY DEF ProjectsInv, ProjectsType, TableMade, Projects!StatementsFindTheTable
<1>2. [db EXCEPT !.table = TRUE, !.recorded = TRUE] \in [table : {TRUE}, recorded : {TRUE}, row : {db.row}]
  BY <1>1
<1>3. CASE Projects!Query(a)
  <2>1. PICK step \in AttemptStep :
            /\ Projects!Becomes(a, step) /\ (step = "done" => db'.table)
            /\ UNCHANGED db \/ db' = [db EXCEPT !.table = TRUE, !.recorded = TRUE]
    BY <1>1, <1>2, <1>3 DEF Projects!Query, AttemptStep
  <2> QED BY <1>1, <1>2, <2>1, AttemptMoves
<1>4. CASE Projects!QueryFails(a)
  <2>1. PICK step \in {"rollback", "failed"} : Projects!Becomes(a, step) /\ UNCHANGED db
    BY <1>4 DEF Projects!QueryFails
  <2> QED BY <1>1, <2>1, AttemptMoves DEF AttemptStep
<1>5. CASE Projects!MakeDirectory(a)
  <2>1. \/ Projects!Becomes(a, "done") /\ db' = [db EXCEPT !.table = TRUE, !.recorded = TRUE]
        \/ Projects!Becomes(a, "failed") /\ UNCHANGED db
    BY <1>5 DEF Projects!MakeDirectory
  <2> QED BY <1>1, <1>2, <2>1, AttemptMoves DEF AttemptStep
<1> QED BY <1>3, <1>4, <1>5

\* A call that begins the initialisation or joins it sends nothing before
\* the attempt is done.
LEMMA ProjectsBegin ==
  ASSUME ProjectsInv, NEW c \in Call, NEW op \in {"find", "save", "remove"}, Projects!BeginCall(c, op)
  PROVE  ProjectsInv'
<1> DEFINE a == IF promise # 0 THEN promise ELSE IF attempt[1] = "none" THEN 1 ELSE 2
<1>1. a \in 1..2 /\ UNCHANGED <<env, db, superseded>>
  BY DEF ProjectsInv, ProjectsType, Projects!BeginCall
<1>2. /\ promise' \in 0..2 /\ attempt' \in [1..2 -> AttemptStep]
      /\ \A b \in 1..2 : attempt'[b] = "done" => attempt[b] = "done"
  BY <1>1 DEF ProjectsInv, ProjectsType, Projects!BeginCall, Projects!FirstStep, AttemptStep
<1>3. /\ Projects!Await(a) \in {"query", "error", "init"}
      /\ Projects!Await(a) = "query" => db.table
  BY <1>1, <1>2 DEF Projects!Await, ProjectsInv, TableMade
<1>4. Projects!Acked \subseteq Call /\ \A d \in Projects!Acked : Finished(d)
  BY DEF Projects!Acked, Finished
<1>5. /\ call' = [call EXCEPT ![c] = call'[c]]
      /\ call'[c] \in [op : {op}, step : {"query", "error", "init", "create"}, on : 0..2,
                       before : {Projects!Acked}]
      /\ call'[c].step = "query" => db.table
  <2>1. CASE Projects!Repository \in {"sqlite", "postgres"}
    <3>1. call' = [call EXCEPT ![c] = [op |-> op, step |-> Projects!Await(a), on |-> a, before |-> Projects!Acked]]
      BY <2>1 DEF Projects!BeginCall, Projects!NoCall
    <3> HIDE DEF a
    <3> QED BY <1>1, <1>3, <3>1 DEF ProjectsInv, ProjectsType
  <2>2. CASE ~(Projects!Repository \in {"sqlite", "postgres"})
    <3>1. PICK step \in {"create", "error"} :
             call' = [call EXCEPT ![c] = [op |-> op, step |-> step, on |-> 0, before |-> Projects!Acked]]
      BY <2>2 DEF Projects!BeginCall, Projects!NoCall
    <3> QED BY <3>1 DEF ProjectsInv, ProjectsType
  <2> QED BY <2>1, <2>2
<1>6. /\ call' \in [Call -> ProjectCall] /\ ~Finished(c)
      /\ \A d \in Call \ {c} : call'[d] = call[d]
      /\ call'[c].before = Projects!Acked /\ call'[c].step # "new" /\ call'[c].op = op
  BY <1>4, <1>5 DEF ProjectsInv, ProjectsType, ProjectCall, Projects!BeginCall, Finished
<1>7. ProjectsType'
  BY <1>1, <1>2, <1>6 DEF ProjectsInv, ProjectsType
<1>8. TableMade'
  BY <1>1, <1>2 DEF ProjectsInv, TableMade
<1>9. OnlyAcked'
  <2>1. \A d \in Call : Finished(d) => Finished(d)'
    BY <1>6 DEF Finished
  <2>2. superseded \subseteq Call /\ \A d \in Call : call[d].before \subseteq Call
    BY DEF ProjectsInv, ProjectsType, ProjectCall
  <2> QED BY <1>1, <1>4, <1>6, <2>1, <2>2 DEF ProjectsInv, OnlyAcked
<1>10. Projects!StatementsFindTheTable' /\ Projects!AckedSavesStay'
  BY <1>1, <1>5, <1>6 DEF ProjectsInv, Projects!StatementsFindTheTable, Projects!AckedSavesStay
<1> QED BY <1>7, <1>8, <1>9, <1>10 DEF ProjectsInv

\* A statement or document request of a call: it may put the call itself in
\* the row or empty it, and an acknowledged write supersedes what was
\* acknowledged before it.
LEMMA ProjectsAnswer ==
  ASSUME ProjectsInv, NEW c \in Call, call[c].step \in {"query", "create", "update"},
         NEW step \in {"ok", "error", "update"},
         call' = [call EXCEPT ![c].step = step],
         NEW row \in Call \cup {None}, db' = [db EXCEPT !.row = row],
         \/ row = db.row /\ UNCHANGED superseded
         \/ row \in {c, None} /\ superseded' \in {superseded, superseded \cup call[c].before} /\ step # "update",
         superseded' # superseded => step = "ok",
         UNCHANGED <<env, promise, attempt>>
  PROVE  ProjectsInv'
<1>1. /\ call' \in [Call -> ProjectCall] /\ ~Finished(c)
      /\ \A d \in Call \ {c} : call'[d] = call[d]
      /\ call'[c].before = call[c].before /\ call'[c].step = step /\ call'[c].op = call[c].op
  BY DEF ProjectsInv, ProjectsType, ProjectCall, Finished
<1>2. /\ db' \in [table : {db.table}, recorded : {db.recorded}, row : {row}]
      /\ call[c].before \subseteq Call /\ superseded \subseteq Call
      /\ \A d \in Call : call[d].before \subseteq Call
  BY DEF ProjectsInv, ProjectsType, ProjectCall
<1>3. ProjectsType'
  BY <1>1, <1>2 DEF ProjectsInv, ProjectsType
<1>4. TableMade'
  BY <1>2 DEF ProjectsInv, TableMade
<1>5. \A d \in Call : Finished(d) => Finished(d)'
  BY <1>1 DEF Finished
<1>6. OnlyAcked'
  BY <1>1, <1>2, <1>5 DEF ProjectsInv, OnlyAcked
<1>7. Projects!StatementsFindTheTable'
  BY <1>1, <1>2 DEF ProjectsInv, Projects!StatementsFindTheTable
<1>8. c \notin superseded /\ c \notin call[c].before /\ None \notin superseded'
  BY <1>1, <1>2, StorageAssumption DEF ProjectsInv, OnlyAcked
<1>9. Projects!AckedSavesStay'
  BY <1>2, <1>8 DEF ProjectsInv, Projects!AckedSavesStay
<1> QED BY <1>3, <1>4, <1>6, <1>7, <1>9 DEF ProjectsInv

\* A statement, or its failure, writes nothing an acknowledged call replaced.
LEMMA ProjectsStatement ==
  ASSUME ProjectsInv, NEW c \in Call,
         Projects!Statement(c) \/ Projects!Document(c) \/ Projects!Fails(c)
  PROVE  ProjectsInv'
<1>1. /\ db \in [table : BOOLEAN, recorded : BOOLEAN, row : Call \cup {None}]
      /\ db = [db EXCEPT !.row = db.row]
      /\ call[c].step # "new" => call[c].op \in {"find", "save", "remove"}
  BY DEF ProjectsInv, ProjectsType
<1>2. CASE Projects!Statement(c)
  <2>1. /\ call[c].step = "query" /\ call[c].op \in {"find", "save", "remove"} /\ db.table
    BY <1>1, <1>2 DEF Projects!Statement, ProjectsInv, Projects!StatementsFindTheTable
  <2>2. /\ Projects!RowAfter(c) \in Call \cup {None}
        /\ Projects!RowAfter(c) \in {c, None} \/ (Projects!RowAfter(c) = db.row /\ ~Projects!Writing(c))
    BY <1>1, <2>1 DEF Projects!RowAfter, Projects!Writing
  <2>3. PICK step \in {"ok", "error"} :
          /\ call' = [call EXCEPT ![c].step = step]
          /\ superseded' \in {superseded, superseded \cup call[c].before}
          /\ superseded' # superseded => step = "ok" /\ Projects!Writing(c)
    BY <1>2, <2>1 DEF Projects!Statement, Projects!Answer
  <2> QED BY <1>2, <2>1, <2>2, <2>3, ProjectsAnswer DEF Projects!Statement
<1>3. CASE Projects!Document(c)
  <2>1. call[c].step \in {"create", "update"} /\ UNCHANGED <<env, promise, attempt>>
    BY <1>3 DEF Projects!Document, Projects!SaveDocument, Projects!RemoveDocument, Projects!FindDocument
  <2>2. PICK step \in {"ok", "error", "update"}, row \in Call \cup {None} :
          /\ call' = [call EXCEPT ![c].step = step] /\ db' = [db EXCEPT !.row = row]
          /\ \/ row = db.row /\ UNCHANGED superseded
             \/ row \in {c, None} /\ superseded' \in {superseded, superseded \cup call[c].before} /\ step # "update"
          /\ superseded' # superseded => step = "ok"
    <3>1. CASE Projects!SaveDocument(c)
      BY <1>1, <3>1 DEF Projects!SaveDocument, Projects!Answer
    <3>2. CASE Projects!RemoveDocument(c)
      BY <1>1, <3>2 DEF Projects!RemoveDocument, Projects!Answer
    <3>3. CASE Projects!FindDocument(c)
      BY <1>1, <3>3 DEF Projects!FindDocument, Projects!Answer, Projects!Writing
    <3> QED BY <1>3, <3>1, <3>2, <3>3 DEF Projects!Document
  <2> QED BY <2>1, <2>2, ProjectsAnswer
<1>4. CASE Projects!Fails(c)
  BY <1>1, <1>4, ProjectsAnswer DEF Projects!Fails
<1> QED BY <1>2, <1>3, <1>4

\* The end of the process: the database stays, and of the calls the ended ones.
LEMMA ProjectsGone ==
  ASSUME ProjectsInv, NEW next, Projects!Gone(next)
  PROVE  ProjectsInv'
<1>1. \A c \in Call : /\ call'[c] \in ProjectCall /\ call'[c].before = call[c].before
                      /\ call'[c].op = call[c].op /\ (call[c].step = "new" => call'[c].step = "new")
                      /\ Finished(c) => Finished(c)'
                      /\ call'[c].step # "query"
  BY DEF ProjectsInv, ProjectsType, ProjectCall, Projects!Gone, Projects!Ended, Finished
<1>2. ProjectsType'
  <2>1. call' \in [Call -> ProjectCall]
    <3>1. call' = [c \in Call |-> call'[c]]
      BY DEF Projects!Gone
    <3> QED BY <1>1, <3>1
  <2>2. /\ attempt' \in [1..2 -> AttemptStep] /\ promise' \in 0..2
        /\ UNCHANGED <<db, superseded>>
    BY DEF Projects!Gone, Projects!Attempts, AttemptStep
  <2> QED BY <1>1, <2>1, <2>2 DEF ProjectsInv, ProjectsType
<1>3. TableMade'
  BY DEF Projects!Gone, Projects!Attempts, TableMade
<1>4. OnlyAcked'
  <2>1. superseded \subseteq Call /\ \A d \in Call : call[d].before \subseteq Call
    BY DEF ProjectsInv, ProjectsType, ProjectCall
  <2> QED BY <1>1, <2>1 DEF Projects!Gone, ProjectsInv, OnlyAcked
<1>5. Projects!StatementsFindTheTable' /\ Projects!AckedSavesStay'
  BY <1>1 DEF ProjectsInv, Projects!Gone, Projects!StatementsFindTheTable, Projects!AckedSavesStay
<1> QED BY <1>2, <1>3, <1>4, <1>5 DEF ProjectsInv

\* The invariant is of the database, the attempts and the calls.
LEMMA ProjectsFrame ==
  ASSUME ProjectsInv, UNCHANGED <<db, promise, attempt, call, superseded>>
  PROVE  ProjectsInv'
BY DEF ProjectsInv, ProjectsType, TableMade, OnlyAcked, Finished,
       Projects!StatementsFindTheTable, Projects!AckedSavesStay

\* Every step of the gateway keeps the invariant of its project repository.
LEMMA ProjectsStep == ProjectsInv /\ Projects!Next => ProjectsInv'
<1> SUFFICES ASSUME ProjectsInv, Projects!Next PROVE ProjectsInv'
  OBVIOUS
<1>1. CASE Projects!Start
  BY <1>1, ProjectsFrame DEF Projects!Start
<1>2. CASE Projects!Shutdown
  <2>1. CASE Projects!Gone("stopped")
    BY <2>1, ProjectsGone
  <2>2. CASE promise' = 0 /\ UNCHANGED <<env, db, attempt, call, superseded>>
    BY <2>2 DEF ProjectsInv, ProjectsType, TableMade, OnlyAcked, Finished,
                Projects!StatementsFindTheTable, Projects!AckedSavesStay
  <2> QED BY <1>2, <2>1, <2>2 DEF Projects!Shutdown
<1>3. CASE Projects!Exit \/ Projects!Crash
  BY <1>3, ProjectsGone DEF Projects!Exit, Projects!Crash
<1>4. CASE Projects!Initialise
  BY <1>4, ProjectsInitialise
<1>5. CASE \E c \in Call, op \in {"find", "save", "remove"} : Projects!BeginCall(c, op)
  BY <1>5, ProjectsBegin
<1>6. CASE \E c \in Call : Projects!Statement(c) \/ Projects!Document(c) \/ Projects!Fails(c)
  BY <1>6, ProjectsStatement
<1> QED BY <1>1, <1>2, <1>3, <1>4, <1>5, <1>6 DEF Projects!Next

----------------------------------------------------------------------------
(* The gateway's blob stores                                               *)

Stored == Call \cup {Empty, None}
BlobSteps(op) ==
    CASE store = "fs"       -> IF op = "put" THEN {"first", "bytes", "open meta", "meta"} ELSE {"first", "meta"}
      [] store = "appwrite" -> CASE op = "put" -> {"first", "replace", "again", "metadata", "patch"}
                                 [] op = "get" -> {"first", "view", "meta"}
                                 [] OTHER      -> {"first", "meta"}
      [] OTHER              -> {"first"}
Settled == {"new", "ok", "error", "lost"}
BlobStep == Settled \cup {"first", "bytes", "open meta", "meta", "view", "replace", "again", "metadata", "patch"}
BlobCall ==
    [op : {"put", "get", "delete", None}, step : BlobStep, bytes : Stored, type : Stored, before : SUBSET Call]

BlobsType ==
    /\ store \in {"fs", "s3", "ashfox", "appwrite"} /\ upsert \in BOOLEAN
    /\ file \in Stored /\ meta \in Stored
    /\ call \in [Call -> BlobCall]
    /\ \A c \in Call : /\ call[c].step # "new" => call[c].op \in {"put", "get", "delete"}
                       /\ call[c].step \in Settled \cup BlobSteps(call[c].op)
    /\ superseded \subseteq Call /\ overlapped \in BOOLEAN /\ faults \in Nat

\* The acknowledged writes, and a write that has changed the bytes.
Written == {d \in Call : Blobs!Writing(d) /\ call[d].step = "ok"}
Touched(c) ==
    Blobs!Writing(c) /\ call[c].step \in {"bytes", "open meta", "meta", "again", "metadata", "patch"}

\* What a write found complete has written for the last time, so the bytes are
\* not of it any more once the write has changed them.
WrittenBefore ==
    /\ superseded \subseteq Written
    /\ \A c \in Call : call[c].before \subseteq Written
    /\ \A c \in Call : \A d \in call[c].before : c \notin call[d].before
    /\ \A c \in Call : Touched(c) => file \notin call[c].before

\* While calls come one by one and nothing fails, the acknowledged writes are
\* in a line, and x is what the last of S has left.
IsLatest(S, x) ==
    \/ x \in S /\ call[x].op = "put" /\ S \ {x} \subseteq call[x].before
    \/ x = None /\ (S = {} \/ \E d \in S : call[d].op = "delete" /\ S \ {d} \subseteq call[d].before)
Alone == \A c, d \in Blobs!Running : call[c].before = Written /\ (Blobs!Writing(c) => d = c)
FileIsLatest ==
    (\A c \in Call : ~Touched(c)) => IsLatest(Written, file) /\ (file # None => meta = file)
Halfway(c) ==
    /\ call[c].step \in {"open meta", "metadata", "patch"} => file = c
    /\ call[c].step = "meta" => file = IF call[c].op = "put" THEN c ELSE None
    /\ call[c].step = "again" => file = None
    /\ call[c].step = "patch" => meta # None
ReadSoFar(c) ==
    /\ call[c].step \in {"first", "view"} => call[c].bytes = None
    /\ call[c].step = "meta" => call[c].bytes = file /\ file # None
    /\ call[c].step = "ok" => /\ IsLatest(call[c].before, call[c].bytes)
                              /\ call[c].bytes # None => call[c].type = call[c].bytes
InLine ==
    /\ Alone /\ FileIsLatest
    /\ \A c \in Call : (Touched(c) => Halfway(c)) /\ (call[c].op = "get" => ReadSoFar(c))

\* Bytes and type are of one object in the stores that have such.
OneObject ==
    store \in {"s3", "ashfox"} =>
        file = meta /\ \A c \in Call : Blobs!At(c, "get", "ok") => call[c].type = call[c].bytes

BlobsSafe == BlobsType /\ WrittenBefore /\ Blobs!AckedWritesStay /\ OneObject
BlobsInv == BlobsSafe /\ (~overlapped /\ faults = 0 => InLine)

\* An empty store.
LEMMA BlobsInit == Blobs!Init => BlobsInv
<1> SUFFICES ASSUME Blobs!Init PROVE BlobsInv
  OBVIOUS
<1>1. /\ call = [c \in Call |-> [op |-> None, step |-> "new", bytes |-> None, type |-> None, before |-> {}]]
      /\ file = None /\ meta = None /\ superseded = {} /\ overlapped = FALSE /\ faults = 0
      /\ store \in {"fs", "s3", "ashfox", "appwrite"} /\ upsert \in BOOLEAN
  BY DEF Blobs!Init, Blobs!NoCall
<1>2. BlobsType
  <2>1. call \in [Call -> BlobCall]
    BY <1>1 DEF BlobCall, Stored, BlobStep, Settled
  <2> QED BY <1>1, <2>1 DEF BlobsType, Stored, Settled
<1>3. Written = {} /\ Blobs!Running = {} /\ \A c \in Call : ~Touched(c)
  BY <1>1 DEF Written, Touched, Blobs!Running
<1>4. WrittenBefore /\ Blobs!AckedWritesStay /\ OneObject
  BY <1>1, <1>3 DEF WrittenBefore, Blobs!AckedWritesStay, OneObject, Blobs!At
<1>5. InLine
  BY <1>1, <1>3 DEF InLine, Alone, FileIsLatest, IsLatest, ReadSoFar
<1> QED BY <1>2, <1>4, <1>5 DEF BlobsInv, BlobsSafe

\* The latest write of a set is the one of Blobs, as no two have found each
\* other complete.
LEMMA LatestIsLatest ==
  ASSUME BlobsType, WrittenBefore, NEW c \in Call, NEW x, IsLatest(call[c].before, x)
  PROVE  Blobs!Latest(c) = x
<1> DEFINE S == call[c].before
           last == {d \in S : S \ {d} \subseteq call[d].before}
<1>1. \A d \in S : d \in Call /\ call[d].op \in {"put", "delete"}
  BY DEF WrittenBefore, Written, Blobs!Writing
<1>2. \A d, e \in last : d = e
  BY <1>1 DEF WrittenBefore
<1>3. CASE x \in S /\ call[x].op = "put" /\ S \ {x} \subseteq call[x].before
  <2>1. last = {x}
    BY <1>2, <1>3
  <2> HIDE DEF last
  <2>2. (CHOOSE d \in last : TRUE) = x
    BY <2>1
  <2> QED BY <1>3, <2>1, <2>2 DEF Blobs!Latest, last
<1>4. CASE x = None /\ (S = {} \/ \E d \in S : call[d].op = "delete" /\ S \ {d} \subseteq call[d].before)
  <2>1. \A d \in last : call[d].op # "put"
    BY <1>2, <1>4
  <2> QED BY <1>4, <2>1 DEF Blobs!Latest
<1> QED BY <1>3, <1>4 DEF IsLatest

\* What the invariant says of a get that is answered is what the runs check.
LEMMA BlobsAgree == BlobsInv => Blobs!AckedWritesStay /\ Blobs!ReadsAgree
<1> SUFFICES ASSUME BlobsInv, NEW c \in Call, Blobs!At(c, "get", "ok")
             PROVE  /\ store \in {"s3", "ashfox"} => call[c].type = call[c].bytes
                    /\ ~overlapped /\ faults = 0 =>
                         /\ call[c].bytes = Blobs!Latest(c)
                         /\ call[c].bytes # None => call[c].type = call[c].bytes
  BY DEF BlobsInv, BlobsSafe, Blobs!ReadsAgree
<1>1. store \in {"s3", "ashfox"} => call[c].type = call[c].bytes
  BY DEF BlobsInv, BlobsSafe, OneObject
<1>2. ASSUME ~overlapped, faults = 0
      PROVE  call[c].bytes = Blobs!Latest(c) /\ (call[c].bytes # None => call[c].type = call[c].bytes)
  <2>1. ReadSoFar(c)
    BY <1>2 DEF BlobsInv, InLine, Blobs!At
  <2> QED BY <2>1, LatestIsLatest DEF BlobsInv, BlobsSafe, ReadSoFar, Blobs!At
<1> QED BY <1>1, <1>2

\* A call begins with what is acknowledged; when another is under way they
\* overlap.
LEMMA BlobsBegin ==
  ASSUME BlobsInv, NEW c \in Call, NEW op \in {"put", "get", "delete"}, Blobs!Begin(c, op)
  PROVE  BlobsInv'
<1>1. /\ call[c].step = "new" /\ UNCHANGED <<store, upsert, file, meta, superseded, faults>>
      /\ call' = [call EXCEPT ![c] = [op |-> op, step |-> "first", bytes |-> None, type |-> None, before |-> Written]]
      /\ overlapped' = (overlapped \/ \E d \in Blobs!Running : Blobs!Writing(d) \/ op # "get")
  <2>1. call' = [call EXCEPT ![c] = [op |-> op, step |-> "first", bytes |-> None, type |-> None,
                                     before |-> {d \in Call : Blobs!Writing(d) /\ call[d].step = "ok"}]]
    <3> DEFINE B == {d \in Call : Blobs!Writing(d) /\ call[d].step = "ok"}
               new == [Blobs!NoCall EXCEPT !.op = op, !.step = "first", !.before = B]
    <3>1. call' = [call EXCEPT ![c] = new]
      BY DEF Blobs!Begin
    <3> HIDE DEF B
    <3>2. new \in [op : {op}, step : {"first"}, bytes : {None}, type : {None}, before : {B}]
      BY DEF Blobs!NoCall
    <3> HIDE DEF new
    <3>3. new = [op |-> op, step |-> "first", bytes |-> None, type |-> None, before |-> B]
      BY <3>2
    <3> QED BY <3>1, <3>3 DEF B
  <2> QED BY <2>1 DEF Blobs!Begin, Written
<1>2. Written \subseteq Call /\ c \notin Written
  BY <1>1 DEF Written
<1>3. /\ call' \in [Call -> BlobCall]
      /\ call'[c] = [op |-> op, step |-> "first", bytes |-> None, type |-> None, before |-> Written]
      /\ \A d \in Call \ {c} : call'[d] = call[d]
  BY <1>1, <1>2 DEF BlobsInv, BlobsSafe, BlobsType, BlobCall, Stored, BlobStep
<1>4. Written' = Written
  BY <1>1, <1>3 DEF Written, Blobs!Writing
<1>5. \A d \in Call : /\ d # c => (Touched(d)' <=> Touched(d))
                      /\ ~Touched(c)' /\ c \notin call[d].before
  <2>1. \A d \in Call : c \notin call[d].before
    BY <1>2 DEF BlobsInv, BlobsSafe, WrittenBefore
  <2>2. \A d \in Call \ {c} : Touched(d)' <=> Touched(d)
    BY <1>3 DEF Touched, Blobs!Writing
  <2>3. ~Touched(c)'
    BY <1>3 DEF Touched, Blobs!Writing
  <2> QED BY <2>1, <2>2, <2>3
<1>6. BlobsType'
  BY <1>1, <1>3 DEF BlobsInv, BlobsSafe, BlobsType, BlobSteps, Settled
<1>7. WrittenBefore' /\ Blobs!AckedWritesStay' /\ OneObject'
  <2>1. \A d \in Call : \A e \in call'[d].before : d \notin call'[e].before
    BY <1>2, <1>3, <1>5 DEF BlobsInv, BlobsSafe, WrittenBefore
  <2>2. \A d \in Call : call'[d].before \subseteq Written'
    BY <1>3, <1>4 DEF BlobsInv, BlobsSafe, WrittenBefore
  <2>3. WrittenBefore'
    BY <1>1, <1>3, <1>4, <1>5, <2>1, <2>2 DEF BlobsInv, BlobsSafe, WrittenBefore
  <2> QED BY <1>1, <1>3, <2>3 DEF BlobsInv, BlobsSafe, Blobs!AckedWritesStay, OneObject, Blobs!At
<1>8. ASSUME ~overlapped', faults' = 0 PROVE InLine'
  <2>1. InLine /\ \A d \in Blobs!Running : op = "get" /\ ~Blobs!Writing(d)
    BY <1>1, <1>8 DEF BlobsInv
  <2>2. Blobs!Running' = Blobs!Running \cup {c}
    BY <1>3 DEF Blobs!Running
  <2>3. \A S \in SUBSET Written : \A x : IsLatest(S, x) => IsLatest(S, x)'
    BY <1>2, <1>3 DEF IsLatest, Written
  <2>4. Alone'
    BY <1>3, <1>4, <2>1, <2>2 DEF InLine, Alone, Blobs!Writing, Blobs!Running
  <2>5. FileIsLatest'
    <3>1. ~Touched(c)
      BY <1>1 DEF Touched
    <3> QED BY <1>1, <1>4, <1>5, <2>1, <2>3, <3>1 DEF InLine, FileIsLatest
  <2>6. \A d \in Call : (Touched(d) => Halfway(d))'
    BY <1>1, <1>3, <1>5, <2>1 DEF InLine, Halfway
  <2>7. \A d \in Call : call'[d].op = "get" => ReadSoFar(d)'
    <3>2. \A d \in Call : d # c /\ call[d].op = "get" => ReadSoFar(d)'
      BY <1>1, <1>3, <2>1, <2>3 DEF InLine, ReadSoFar, BlobsInv, BlobsSafe, WrittenBefore
    <3> QED BY <1>3, <3>2 DEF ReadSoFar
  <2> QED BY <2>4, <2>5, <2>6, <2>7 DEF InLine
<1> QED BY <1>6, <1>7, <1>8 DEF BlobsInv, BlobsSafe

\* A request of call c: only c itself moves, the bytes become its own, Empty or
\* None, and it replaces what it had found when it is acknowledged.
Moves(c) ==
    /\ c \in Blobs!Running /\ UNCHANGED <<store, upsert, overlapped>>
    /\ call' = [call EXCEPT ![c] = call'[c]] /\ call'[c] \in BlobCall
    /\ call'[c].op = call[c].op /\ call'[c].before = call[c].before
    /\ call'[c].step \in {"ok", "error", "lost"} \cup BlobSteps(call[c].op)
    /\ file' \in {file, c, Empty, None} /\ meta' \in {meta, c, Empty, None}
    /\ faults' \in Nat /\ (faults' = 0 => faults = 0)
    /\ superseded' = IF Blobs!Writing(c) /\ call'[c].step = "ok" THEN superseded \cup call[c].before ELSE superseded
    /\ Blobs!Writing(c) /\ (call'[c].step = "ok" \/ Touched(c)') => Touched(c) \/ file' \in {c, Empty, None}
    /\ store \in {"s3", "ashfox"} =>
         file' = meta' /\ (Blobs!At(c, "get", "ok")' => call'[c].type = call'[c].bytes)

\* The move of one call leaves no earlier write behind a later one.
LEMMA BlobsMove ==
  ASSUME BlobsSafe, NEW c \in Call, Moves(c)
  PROVE  /\ BlobsSafe' /\ \A d \in Call \ {c} : call'[d] = call[d] /\ (Touched(d)' <=> Touched(d))
         /\ Written' = IF Blobs!Writing(c) /\ call'[c].step = "ok" THEN Written \cup {c} ELSE Written
         /\ c \notin Written
<1> USE DEF BlobsSafe
<1>1. /\ call \in [Call -> BlobCall] /\ \A d \in Call \ {c} : call'[d] = call[d]
      /\ c \notin Written
  BY DEF Moves, BlobsType, Written, Blobs!Running
<1>2. /\ \A d \in Call \ {c} : Touched(d)' <=> Touched(d)
      /\ \A d \in Call : /\ call'[d].op = call[d].op /\ call'[d].before = call[d].before
                         /\ Blobs!Writing(d)' <=> Blobs!Writing(d)
  BY <1>1 DEF Moves, Touched, Blobs!Writing
<1>3. Written' = IF Blobs!Writing(c) /\ call'[c].step = "ok" THEN Written \cup {c} ELSE Written
  BY <1>1, <1>2 DEF Written
<1>4. BlobsType'
  <2>1. call' \in [Call -> BlobCall] /\ file' \in Stored /\ meta' \in Stored
    BY <1>1 DEF Moves, BlobsType, Stored
  <2>2. superseded' \subseteq Call
    BY <1>1 DEF Moves, BlobsType, BlobCall
  <2>3. \A d \in Call : BlobSteps(call[d].op)' = BlobSteps(call[d].op)
    BY <1>2 DEF BlobSteps, Moves
  <2>4. call[c].step # "new"
    BY DEF Moves, Blobs!Running
  <2> QED BY <1>1, <1>2, <2>1, <2>2, <2>3, <2>4 DEF Moves, BlobsType, Settled
<1>5. WrittenBefore'
  <2>1. superseded' \subseteq Written'
    BY <1>3 DEF Moves, WrittenBefore
  <2>2. \A d \in Call : call[d].before \subseteq Written /\ d \notin call[d].before
    BY DEF WrittenBefore
  <2>3. \A d \in Call : Touched(d)' => file' \notin call[d].before
    <3>1. \A d \in Call : c \notin call[d].before /\ Empty \notin call[d].before /\ None \notin call[d].before
      BY <1>1, <2>2, StorageAssumption DEF Written
    <3> QED BY <1>2, <3>1, ZenonT(40) DEF Moves, WrittenBefore, Touched
  <2>4. \A d \in Call : \A e \in call'[d].before : d \notin call'[e].before
    BY <1>2, <2>2 DEF WrittenBefore, Written
  <2> QED BY <1>2, <1>3, <2>1, <2>2, <2>3, <2>4 DEF WrittenBefore
<1>6. Blobs!AckedWritesStay'
  <2>1. c \notin superseded /\ c \notin call[c].before /\ {Empty, None} \cap (superseded \cup call[c].before) = {}
    BY <1>1, StorageAssumption DEF WrittenBefore, Written
  <2>2. file' \notin superseded
    BY <2>1 DEF Moves, Blobs!AckedWritesStay
  <2>3. Blobs!Writing(c) /\ call'[c].step = "ok" => file' \notin call[c].before
    BY <2>1 DEF Moves, WrittenBefore
  <2> QED BY <2>2, <2>3 DEF Moves, Blobs!AckedWritesStay
<1>7. OneObject'
  BY <1>1 DEF Moves, OneObject, Blobs!At
<1> QED BY <1>1, <1>2, <1>3, <1>4, <1>5, <1>6, <1>7

\* The same, of calls one by one: a get reads what is there; a write goes
\* through its steps, or gives up before it has changed anything.
MovesInLine(c) ==
    \/ /\ call[c].op = "get" /\ UNCHANGED <<file, meta>>
       /\ call'[c].step \in {"first", "view"} => call'[c].bytes = None
       /\ call'[c].step = "meta" => call'[c].bytes = file /\ file # None
       /\ call'[c].step = "ok" => call'[c].bytes = file /\ (file # None => call'[c].type = meta)
    \/ /\ Blobs!Writing(c) /\ ~Touched(c) /\ ~Touched(c)' /\ call'[c].step # "ok" /\ UNCHANGED <<file, meta>>
    \/ /\ Blobs!Writing(c) /\ Touched(c)' /\ Halfway(c)'
    \/ /\ Blobs!Writing(c) /\ call'[c].step = "ok"
       /\ IF call[c].op = "put" THEN file' = c /\ meta' = c ELSE file' = None

\* While calls come one by one, a move leaves the writes in a line.
LEMMA BlobsMoveInLine ==
  ASSUME BlobsSafe, InLine, NEW c \in Call, Moves(c), MovesInLine(c)
  PROVE  InLine'
<1>1. /\ BlobsSafe' /\ \A d \in Call \ {c} : call'[d] = call[d] /\ (Touched(d)' <=> Touched(d))
      /\ Written' = IF Blobs!Writing(c) /\ call'[c].step = "ok" THEN Written \cup {c} ELSE Written
      /\ c \notin Written
  BY BlobsMove
<1>2. /\ c \in Blobs!Running /\ call'[c].op = call[c].op /\ call'[c].before = call[c].before
      /\ Blobs!Running' \subseteq Blobs!Running /\ call[c].op \in {"put", "get", "delete"}
      /\ Blobs!Running \subseteq Call
  BY <1>1 DEF Moves, Blobs!Running, BlobsSafe, BlobsType
<1>3. /\ \A d \in Blobs!Running : call[d].before = Written /\ (Blobs!Writing(c) => d = c)
      /\ call[c].before = Written
      /\ \A d \in Call : Touched(d) => d \in Blobs!Running
      /\ ~Blobs!Writing(c) => \A d \in Call : ~Touched(d)
  BY <1>2 DEF InLine, Alone, Touched, Blobs!Running, Blobs!Writing
<1>4. \A S \in SUBSET Written : \A x : IsLatest(S, x) => IsLatest(S, x)'
  BY <1>1 DEF IsLatest, Written
<1>5. Alone'
  BY <1>1, <1>2, <1>3 DEF InLine, Alone, Blobs!Running, Blobs!Writing
<1>6. FileIsLatest'
  <2>1. CASE Blobs!Writing(c) /\ call'[c].step = "ok"
    <3>1. Written' = Written \cup {c}
      BY <1>1, <2>1
    <3>2. Written' \ {c} \subseteq call'[c].before
      BY <1>2, <1>3, <3>1
    <3>3. IsLatest(Written, file)' /\ (file' # None => meta' = file')
      BY <1>2, <2>1, <3>1, <3>2 DEF MovesInLine, IsLatest, Blobs!Writing, Touched
    <3> QED BY <3>3 DEF FileIsLatest
  <2>2. CASE ~(Blobs!Writing(c) /\ call'[c].step = "ok")
    <3>1. Written' = Written
      BY <1>1, <2>2
    <3>2. CASE \E d \in Call : Touched(d)'
      BY <3>2 DEF FileIsLatest
    <3>3. CASE ~ \E d \in Call : Touched(d)'
      <4>1. UNCHANGED <<file, meta>> /\ \A d \in Call : ~Touched(d)
        BY <1>1, <1>2, <1>3, <2>2, <3>3 DEF MovesInLine, Blobs!Writing
      <4> QED BY <1>4, <3>1, <4>1 DEF InLine, FileIsLatest
    <3> QED BY <3>2, <3>3
  <2> QED BY <2>1, <2>2
<1>7. \A d \in Call : (Touched(d) => Halfway(d))'
  <2>1. CASE Touched(c)'
    BY <1>1, <1>2, <1>3, <2>1 DEF MovesInLine, Touched, Blobs!Writing
  <2>2. CASE ~Touched(c)'
    BY <1>1, <1>2, <1>3, <2>2 DEF Touched, Blobs!Writing, MovesInLine, InLine, Halfway
  <2> QED BY <2>1, <2>2
<1>8. \A d \in Call : call'[d].op = "get" => ReadSoFar(d)'
  <2>1. call[c].op = "get" => ReadSoFar(c)'
    <3> SUFFICES ASSUME call[c].op = "get" PROVE ReadSoFar(c)'
      OBVIOUS
    <3>1. ~Blobs!Writing(c) /\ (\A d \in Call : ~Touched(d)) /\ UNCHANGED <<file, meta>>
      BY <1>3 DEF Blobs!Writing, MovesInLine
    <3>2. IsLatest(Written, file) /\ (file # None => meta = file)
      BY <3>1 DEF InLine, FileIsLatest
    <3> QED BY <1>2, <1>3, <1>4, <3>1, <3>2 DEF MovesInLine, ReadSoFar, Blobs!Writing
  <2>2. ASSUME NEW d \in Call \ {c}, call[d].op = "get" PROVE ReadSoFar(d)'
    <3>1. ReadSoFar(d) /\ call'[d] = call[d] /\ call[d].before \subseteq Written
      BY <1>1, <2>2 DEF InLine, BlobsSafe, WrittenBefore
    <3>2. CASE call[d].step = "meta"
      <4>1. d \in Blobs!Running /\ ~Blobs!Writing(c)
        BY <1>3, <2>2, <3>2 DEF Blobs!Running
      <4> QED BY <3>1, <3>2, <4>1 DEF ReadSoFar, MovesInLine
    <3> QED BY <1>4, <3>1, <3>2 DEF ReadSoFar
  <2> QED BY <1>1, <1>2, <2>1, <2>2
<1> QED BY <1>5, <1>6, <1>7, <1>8 DEF InLine

\* What an answered request may leave of its call, or one that failed after its
\* effect.
Answered(c, step) ==
    /\ call' = [call EXCEPT ![c] = call'[c]] /\ call'[c] \in BlobCall
    /\ call'[c].op = call[c].op /\ call'[c].before = call[c].before
    /\ faults' \in Nat /\ (faults' = 0 => faults = 0 /\ call'[c].step = step)
    /\ \/ call'[c].step = step
       \/ call'[c].step = "error" /\ ~Blobs!Ignored(c)
       \/ call'[c].step = "ok" /\ Blobs!Ignored(c)

\* A call that goes on to another step, or fails after the request.
LEMMA GotoAnswers ==
  ASSUME BlobsType, NEW c \in Call, NEW step \in BlobStep, Blobs!Goto(c, step)
  PROVE  /\ Answered(c, step)
         /\ call'[c].bytes = call[c].bytes /\ call'[c].type = call[c].type
<1>1. call \in [Call -> BlobCall] /\ faults \in Nat
  BY DEF BlobsType
<1>2. PICK next \in {step, "ok", "error"} :
        /\ call' = [call EXCEPT ![c].step = next]
        /\ faults' \in Nat /\ (faults' = 0 => faults = 0 /\ next = step)
        /\ \/ next = step
           \/ next = "error" /\ ~Blobs!Ignored(c)
           \/ next = "ok" /\ Blobs!Ignored(c)
  <2>1. CASE call' = [call EXCEPT ![c].step = step] /\ UNCHANGED faults
    BY <1>1, <2>1
  <2>2. CASE faults' = faults + 1 /\ call' = [call EXCEPT ![c].step = IF Blobs!Ignored(c) THEN "ok" ELSE "error"]
    <3>1. faults' \in Nat /\ faults' # 0
      BY <1>1, <2>2
    <3>2. CASE Blobs!Ignored(c)
      BY <2>2, <3>1, <3>2
    <3>3. CASE ~Blobs!Ignored(c)
      BY <2>2, <3>1, <3>3
    <3> QED BY <3>2, <3>3
  <2> QED BY <2>1, <2>2 DEF Blobs!Goto
<1>3. next \in BlobStep
  BY DEF BlobStep, Settled
<1> QED BY <1>1, <1>2, <1>3 DEF Answered, BlobCall

\* A get that takes the bytes or the type, or fails after the request.
LEMMA ReadAnswers ==
  ASSUME BlobsType, NEW c \in Call, NEW field \in {"bytes", "type"}, NEW value \in Stored,
         NEW step \in BlobStep, Blobs!Read(c, field, value, step)
  PROVE  /\ Answered(c, step) /\ call'[c].step = step
         /\ call'[c].bytes = IF field = "bytes" THEN value ELSE call[c].bytes
         /\ call'[c].type = IF field = "type" THEN value ELSE call[c].type
<1>1. call \in [Call -> BlobCall] /\ faults \in Nat /\ UNCHANGED faults
  BY DEF BlobsType, Blobs!Read
<1>2. CASE field = "bytes"
  <2> DEFINE new == [call[c] EXCEPT !.bytes = value, !.step = step]
  <2>1. call' = [call EXCEPT ![c].bytes = value, ![c].step = step]
    BY <1>2 DEF Blobs!Read
  <2>2. call' = [call EXCEPT ![c] = new]
    BY <1>1, <2>1
  <2>3. call[c] \in BlobCall /\ new \in BlobCall
    <3>1. call[c] \in BlobCall
      BY <1>1
    <3>2. new \in BlobCall
      BY <3>1 DEF BlobCall
    <3> QED BY <3>1, <3>2
  <2>4. /\ new.step = step /\ new.op = call[c].op /\ new.before = call[c].before
        /\ new.bytes = (IF field = "bytes" THEN value ELSE call[c].bytes)
        /\ new.type = (IF field = "type" THEN value ELSE call[c].type)
    BY <1>2, <2>3 DEF BlobCall
  <2> HIDE DEF new
  <2> QED BY <1>1, <2>2, <2>3, <2>4 DEF Answered
<1>3. CASE field = "type"
  <2> DEFINE new == [call[c] EXCEPT !.type = value, !.step = step]
  <2>1. call' = [call EXCEPT ![c].type = value, ![c].step = step]
    BY <1>3 DEF Blobs!Read
  <2>2. call' = [call EXCEPT ![c] = new]
    BY <1>1, <2>1
  <2>3. call[c] \in BlobCall /\ new \in BlobCall
    <3>1. call[c] \in BlobCall
      BY <1>1
    <3>2. new \in BlobCall
      BY <3>1 DEF BlobCall
    <3> QED BY <3>1, <3>2
  <2>4. /\ new.step = step /\ new.op = call[c].op /\ new.before = call[c].before
        /\ new.bytes = (IF field = "bytes" THEN value ELSE call[c].bytes)
        /\ new.type = (IF field = "type" THEN value ELSE call[c].type)
    BY <1>3, <2>3 DEF BlobCall
  <2> HIDE DEF new
  <2> QED BY <1>1, <2>2, <2>3, <2>4 DEF Answered
<1> QED BY <1>2, <1>3

\* A call goes from one step of its store to another, and touches the bytes
\* before it says so.
LEMMA BlobsAnswer ==
  ASSUME BlobsSafe, NEW c \in Call, Blobs!Answer(c)
  PROVE  /\ Moves(c)
         /\ faults' = 0 /\ (Touched(c) => Halfway(c)) /\ (call[c].op = "get" => ReadSoFar(c)) => MovesInLine(c)
<1> DEFINE Known == (Touched(c) => Halfway(c)) /\ (call[c].op = "get" => ReadSoFar(c))
           Goal == Moves(c) /\ (faults' = 0 /\ Known => MovesInLine(c))
<1>1. /\ BlobsType /\ file \in Stored /\ meta \in Stored /\ call \in [Call -> BlobCall] /\ faults \in Nat
      /\ UNCHANGED <<store, upsert, overlapped>>
      /\ call[c].step \in Settled \cup BlobSteps(call[c].op)
  BY DEF BlobsSafe, BlobsType, Blobs!Answer
<1>2. ASSUME store = "fs", Blobs!FsPut(c) PROVE Goal
  <2>1. call[c].op = "put" /\ c \in Blobs!Running
    BY <1>2 DEF Blobs!FsPut, Blobs!At, Blobs!Running
  <2>2. PICK step \in {"bytes", "open meta", "meta", "ok"} :
          /\ Blobs!Goto(c, step)
          /\ \/ step = "bytes" /\ call[c].step = "first" /\ file' = Empty /\ UNCHANGED <<meta, superseded>>
             \/ step = "open meta" /\ call[c].step = "bytes" /\ file' = c /\ UNCHANGED <<meta, superseded>>
             \/ step = "meta" /\ call[c].step = "open meta" /\ meta' = Empty /\ UNCHANGED <<file, superseded>>
             \/ /\ step = "ok" /\ call[c].step = "meta" /\ meta' = c /\ UNCHANGED file
                /\ superseded' = IF Blobs!Writing(c) /\ call'[c].step = "ok" THEN superseded \cup call[c].before ELSE superseded
    BY <1>2 DEF Blobs!FsPut, Blobs!At, Blobs!Finish, Blobs!Stays
  <2>3. Answered(c, step) /\ ~Blobs!Ignored(c)
    BY <1>1, <1>2, <2>2, GotoAnswers DEF BlobStep, Settled, Blobs!Ignored
  <2>4. Moves(c)
    BY <1>1, <1>2, <2>1, <2>2, <2>3 DEF Moves, Answered, BlobSteps, Touched, Blobs!Writing, Blobs!At
  <2>5. faults' = 0 /\ Known => MovesInLine(c)
    BY <2>1, <2>2, <2>3 DEF MovesInLine, Answered, Touched, Halfway, Blobs!Writing
  <2> QED BY <2>4, <2>5
<1>3. ASSUME store = "fs", Blobs!FsGet(c) PROVE Goal
  <2>1. call[c].op = "get" /\ c \in Blobs!Running /\ UNCHANGED <<file, meta, superseded>>
    BY <1>3 DEF Blobs!FsGet, Blobs!At, Blobs!Running, Blobs!Stays
  <2>2. ~Blobs!Ignored(c) /\ ~Blobs!Writing(c)
    BY <1>3, <2>1 DEF Blobs!Ignored, Blobs!Writing
  <2>3. CASE call[c].step = "first" /\ file = None /\ Blobs!Goto(c, "ok")
    <3>1. Answered(c, "ok") /\ call'[c].bytes = call[c].bytes
      BY <1>1, <2>3, GotoAnswers DEF BlobStep, Settled
    <3> QED BY <1>1, <1>3, <2>1, <2>2, <2>3, <3>1 DEF Moves, MovesInLine, ReadSoFar, Answered, Touched, Blobs!At
  <2>4. CASE call[c].step = "first" /\ file # None /\ Blobs!Read(c, "bytes", file, "meta")
    <3>1. Answered(c, "meta") /\ call'[c].step = "meta" /\ call'[c].bytes = file
      BY <1>1, <2>4, ReadAnswers DEF BlobStep
    <3> QED BY <1>1, <1>3, <2>1, <2>2, <2>4, <3>1
            DEF Moves, MovesInLine, ReadSoFar, Answered, Touched, Blobs!At, BlobSteps
  <2>5. CASE call[c].step = "meta" /\ meta = Empty /\ Blobs!Goto(c, "error")
    <3>1. Answered(c, "error")
      BY <1>1, <2>5, GotoAnswers DEF BlobStep, Settled
    <3> QED BY <1>1, <1>3, <2>1, <2>2, <2>5, <3>1 DEF Moves, MovesInLine, Answered, Touched, Blobs!At
  <2>6. CASE call[c].step = "meta" /\ meta # Empty /\ Blobs!Read(c, "type", meta, "ok")
    <3>1. Answered(c, "ok") /\ call'[c].step = "ok" /\ call'[c].bytes = call[c].bytes /\ call'[c].type = meta
      BY <1>1, <2>6, ReadAnswers DEF BlobStep, Settled
    <3> QED BY <1>1, <1>3, <2>1, <2>2, <2>6, <3>1 DEF Moves, MovesInLine, ReadSoFar, Answered, Touched, Blobs!At
  <2> QED BY <1>3, <2>3, <2>4, <2>5, <2>6 DEF Blobs!FsGet, Blobs!At
<1>4. ASSUME \/ store = "fs" /\ Blobs!FsDelete(c)
             \/ store = "appwrite" /\ Blobs!AppwriteDelete(c)
      PROVE  Goal
  <2>1. call[c].op = "delete" /\ c \in Blobs!Running
    BY <1>4 DEF Blobs!FsDelete, Blobs!AppwriteDelete, Blobs!At, Blobs!Running
  <2>2. PICK step \in {"meta", "ok"} :
          /\ Blobs!Goto(c, step)
          /\ \/ step = "meta" /\ call[c].step = "first" /\ file' = None /\ UNCHANGED <<meta, superseded>>
             \/ /\ step = "ok" /\ call[c].step = "meta" /\ meta' = None /\ UNCHANGED file
                /\ superseded' = IF Blobs!Writing(c) /\ call'[c].step = "ok" THEN superseded \cup call[c].before ELSE superseded
    BY <1>4 DEF Blobs!FsDelete, Blobs!AppwriteDelete, Blobs!At, Blobs!Finish, Blobs!Stays
  <2>3. Answered(c, step) /\ (step = "meta" => ~Blobs!Ignored(c))
    BY <1>1, <2>1, <2>2, GotoAnswers DEF BlobStep, Settled, Blobs!Ignored
  <2>4. Moves(c)
    BY <1>1, <1>4, <2>1, <2>2, <2>3 DEF Moves, Answered, BlobSteps, Touched, Blobs!Writing, Blobs!At
  <2>5. faults' = 0 /\ Known => MovesInLine(c)
    BY <2>1, <2>2, <2>3 DEF MovesInLine, Answered, Touched, Halfway, Blobs!Writing
  <2> QED BY <2>4, <2>5
<1>5. ASSUME store \in {"s3", "ashfox"}, Blobs!S3Call(c) \/ Blobs!AshfoxCall(c) PROVE Goal
  <2>1. /\ c \in Blobs!Running /\ call[c].step = "first" /\ call[c].op \in {"put", "get", "delete"}
        /\ ~Blobs!Ignored(c) /\ BlobSteps(call[c].op) = {"first"}
    BY <1>5 DEF Blobs!S3Call, Blobs!AshfoxCall, Blobs!Refused, Blobs!ObjectPut, Blobs!ObjectGet, Blobs!ObjectDelete,
                Blobs!At, Blobs!Running, Blobs!Ignored, BlobSteps
  <2>2. file = meta
    BY <1>5 DEF BlobsSafe, OneObject
  <2>3. CASE Blobs!ObjectPut(c) \/ Blobs!ObjectDelete(c) \/ Blobs!Refused(c)
    <3>1. PICK step \in {"ok", "error"} :
            /\ Blobs!Goto(c, step) /\ call[c].op \in {"put", "delete"}
            /\ superseded' = IF Blobs!Writing(c) /\ call'[c].step = "ok" THEN superseded \cup call[c].before ELSE superseded
            /\ file' \in {file, c, None} /\ meta' = (IF file' = file THEN meta ELSE file')
            /\ IF step = "ok" THEN /\ file' = IF call[c].op = "put" THEN c ELSE None
                                   /\ meta' = IF call[c].op = "put" THEN c ELSE None
                              ELSE UNCHANGED <<file, meta>>
      BY <2>2, <2>3 DEF Blobs!Refused, Blobs!ObjectPut, Blobs!ObjectDelete, Blobs!Finish, Blobs!At
    <3>2. Answered(c, step)
      BY <1>1, <3>1, GotoAnswers DEF BlobStep, Settled
    <3> QED BY <1>1, <1>5, <2>1, <2>2, <3>1, <3>2 DEF Moves, MovesInLine, Answered, Touched, Blobs!Writing, Blobs!At
  <2>4. CASE Blobs!ObjectGet(c)
    <3>1. /\ call[c].op = "get" /\ UNCHANGED <<file, meta, superseded, faults>>
          /\ call' = [call EXCEPT ![c] = call'[c]] /\ call'[c] \in BlobCall
          /\ call'[c].op = call[c].op /\ call'[c].before = call[c].before
          /\ call'[c].step = "ok" /\ call'[c].bytes = file /\ call'[c].type = meta
      <4> DEFINE new == [call[c] EXCEPT !.bytes = file, !.type = meta, !.step = "ok"]
      <4>1. call' = [call EXCEPT ![c].bytes = file, ![c].type = meta, ![c].step = "ok"]
        BY <2>4 DEF Blobs!ObjectGet
      <4>2. call' = [call EXCEPT ![c] = new]
        BY <1>1, <4>1
      <4>3. /\ new \in BlobCall /\ new.op = call[c].op /\ new.before = call[c].before
            /\ new.step = "ok" /\ new.bytes = file /\ new.type = meta
          <5>1. call[c] \in BlobCall
            BY <1>1
          <5>2. new \in BlobCall
            BY <1>1, <5>1 DEF BlobCall, BlobStep, Settled
          <5> QED BY <5>1, <5>2 DEF BlobCall
      <4> HIDE DEF new
      <4> QED BY <1>1, <2>4, <4>2, <4>3 DEF Blobs!ObjectGet, Blobs!At, Blobs!Stays
    <3> QED BY <1>1, <1>5, <2>1, <2>2, <3>1 DEF Moves, MovesInLine, Touched, Blobs!Writing, Blobs!At
  <2> QED BY <1>5, <2>3, <2>4 DEF Blobs!S3Call, Blobs!AshfoxCall
<1>6. ASSUME store = "appwrite", Blobs!AppwritePut(c) PROVE Goal
  <2>1. call[c].op = "put" /\ c \in Blobs!Running /\ Blobs!Writing(c)
    BY <1>6 DEF Blobs!AppwritePut, Blobs!Upload, Blobs!Replace, Blobs!SaveMetadata, Blobs!At, Blobs!Running, Blobs!Writing
  <2>2. CASE Blobs!Upload(c)
    <3>1. PICK step \in {"metadata", "replace", "error"} :
            /\ Blobs!Goto(c, step) /\ call[c].step \in {"first", "again"} /\ UNCHANGED meta
            /\ superseded' = superseded \/ Blobs!Finish(c, "error")
            /\ IF file = None THEN file' = c /\ step = "metadata"
                              ELSE UNCHANGED file /\ step \in {"replace", "error"} /\ (step = "replace" => call[c].step = "first")
      BY <2>2 DEF Blobs!Upload, Blobs!Finish, Blobs!Stays
    <3>2. Answered(c, step) /\ ~Blobs!Ignored(c) /\ superseded' = superseded
      BY <1>1, <2>1, <3>1, GotoAnswers DEF BlobStep, Settled, Blobs!Ignored, Blobs!Finish, Answered
    <3>3. Moves(c)
      BY <1>1, <1>6, <2>1, <3>1, <3>2 DEF Moves, Answered, BlobSteps, Touched, Blobs!Writing, Blobs!At
    <3>4. faults' = 0 /\ Known => MovesInLine(c)
      BY <2>1, <3>1, <3>2 DEF MovesInLine, Answered, Touched, Halfway, Blobs!Writing
    <3> QED BY <3>3, <3>4
  <2>3. CASE Blobs!Replace(c)
    <3>1. Answered(c, "again") /\ ~Blobs!Ignored(c)
      BY <1>1, <2>3, GotoAnswers DEF BlobStep, Blobs!Ignored, Blobs!Replace, Blobs!At
    <3>2. call[c].step = "replace" /\ file' = None /\ UNCHANGED <<meta, superseded>>
      BY <2>3 DEF Blobs!Replace, Blobs!At, Blobs!Stays
    <3> QED BY <1>1, <1>6, <2>1, <3>1, <3>2
            DEF Moves, MovesInLine, Answered, BlobSteps, Touched, Halfway, Blobs!Writing, Blobs!At
  <2>4. CASE Blobs!SaveMetadata(c)
    <3>1. PICK step \in {"ok", "patch"} :
            /\ Blobs!Goto(c, step) /\ UNCHANGED file
            /\ \/ call[c].step = "metadata" /\ meta = None /\ meta' = c /\ step = "ok" /\ Blobs!Finish(c, "ok")
               \/ call[c].step = "metadata" /\ meta # None /\ meta' = meta /\ step = "patch" /\ Blobs!Finish(c, "patch")
               \/ /\ call[c].step = "patch" /\ meta' = (IF meta = None THEN None ELSE c) /\ step = "ok"
                  /\ Blobs!Finish(c, "ok")
      BY <2>4 DEF Blobs!SaveMetadata, Blobs!Finish, Blobs!Stays, Blobs!At
    <3>2. Answered(c, step)
      BY <1>1, <3>1, GotoAnswers DEF BlobStep, Settled
    <3>3. Moves(c)
      <4>1. superseded' = IF call'[c].step = "ok" THEN superseded \cup call[c].before ELSE superseded
        <5>1. CASE Blobs!Finish(c, "ok")
          BY <2>1, <5>1 DEF Blobs!Finish
        <5>2. CASE step = "patch" /\ Blobs!Finish(c, "patch")
          BY <2>1, <5>2 DEF Blobs!Finish
        <5> QED BY <3>1, <5>1, <5>2
      <4> QED BY <1>1, <1>6, <2>1, <3>1, <3>2, <4>1 DEF Moves, Answered, BlobSteps, Touched, Blobs!Writing, Blobs!At
    <3>4. faults' = 0 /\ Known => MovesInLine(c)
      BY <2>1, <3>1, <3>2 DEF MovesInLine, Answered, Touched, Halfway, Blobs!Writing
    <3> QED BY <3>3, <3>4
  <2> QED BY <1>6, <2>2, <2>3, <2>4 DEF Blobs!AppwritePut
<1>7. ASSUME store = "appwrite", Blobs!AppwriteGet(c) PROVE Goal
  <2>1. call[c].op = "get" /\ c \in Blobs!Running /\ UNCHANGED <<file, meta, superseded>> /\ ~Blobs!Writing(c)
    BY <1>7 DEF Blobs!AppwriteGet, Blobs!At, Blobs!Running, Blobs!Stays, Blobs!Writing
  <2>2. CASE \E step \in {"ok", "view"} : /\ Blobs!Goto(c, step) /\ call[c].step \in {"first", "view"}
                                          /\ (step = "ok" <=> file = None)
    <3>1. PICK step \in {"ok", "view"} : /\ Blobs!Goto(c, step) /\ call[c].step \in {"first", "view"}
                                         /\ (step = "ok" <=> file = None)
      BY <2>2
    <3>2. Answered(c, step) /\ call'[c].bytes = call[c].bytes /\ ~Blobs!Ignored(c)
      BY <1>1, <2>1, <3>1, GotoAnswers DEF BlobStep, Settled, Blobs!Ignored
    <3> QED BY <1>1, <1>7, <2>1, <3>1, <3>2
            DEF Moves, MovesInLine, ReadSoFar, Answered, Touched, Blobs!At, BlobSteps
  <2>3. CASE call[c].step = "view" /\ file # None /\ Blobs!Read(c, "bytes", file, "meta")
    <3>1. Answered(c, "meta") /\ call'[c].step = "meta" /\ call'[c].bytes = file
      BY <1>1, <2>3, ReadAnswers DEF BlobStep
    <3> QED BY <1>1, <1>7, <2>1, <2>3, <3>1
            DEF Moves, MovesInLine, ReadSoFar, Answered, Touched, Blobs!At, BlobSteps
  <2>4. CASE call[c].step = "meta" /\ Blobs!Read(c, "type", meta, "ok")
    <3>1. Answered(c, "ok") /\ call'[c].step = "ok" /\ call'[c].bytes = call[c].bytes /\ call'[c].type = meta
      BY <1>1, <2>4, ReadAnswers DEF BlobStep, Settled
    <3> QED BY <1>1, <1>7, <2>1, <2>4, <3>1 DEF Moves, MovesInLine, ReadSoFar, Answered, Touched, Blobs!At
  <2> QED BY <1>7, <2>2, <2>3, <2>4 DEF Blobs!AppwriteGet, Blobs!At
<1>8. store \in {"fs", "s3", "ashfox", "appwrite"}
  BY DEF BlobsSafe, BlobsType
<1> HIDE DEF Goal
<1>9. Goal
  <2>1. CASE store = "fs"
    <3>1. Blobs!FsPut(c) \/ Blobs!FsGet(c) \/ Blobs!FsDelete(c)
      BY <2>1 DEF Blobs!Answer
    <3>2. CASE Blobs!FsPut(c)
      BY <1>2, <2>1, <3>2
    <3>3. CASE Blobs!FsGet(c)
      BY <1>3, <2>1, <3>3
    <3>4. CASE Blobs!FsDelete(c)
      BY <1>4, <2>1, <3>4
    <3> QED BY <3>1, <3>2, <3>3, <3>4
  <2>2. CASE store = "appwrite"
    BY <1>4, <1>6, <1>7, <2>2 DEF Blobs!Answer
  <2>3. CASE store = "s3"
    BY <1>5, <2>3 DEF Blobs!Answer
  <2>4. CASE store = "ashfox"
    BY <1>5, <2>4 DEF Blobs!Answer
  <2> QED BY <1>8, <2>1, <2>2, <2>3, <2>4
<1> QED BY <1>9 DEF Goal

\* A request that failed before its effect is one of a put or delete that has
\* touched nothing or is over with its error.
LEMMA BlobsFail ==
  ASSUME BlobsSafe, NEW c \in Call, Blobs!Fail(c)
  PROVE  Moves(c) /\ faults' # 0
<1>1. /\ BlobsType /\ file \in Stored /\ meta \in Stored /\ call \in [Call -> BlobCall] /\ faults \in Nat
      /\ c \in Blobs!Running /\ UNCHANGED <<store, upsert, file, meta, overlapped>>
      /\ faults' \in Nat /\ faults' # 0
  BY DEF BlobsSafe, BlobsType, Blobs!Fail
<1>2. PICK step \in {"ok", "error"} :
        /\ call' = [call EXCEPT ![c].step = step] /\ (step = "ok" => Blobs!Ignored(c))
        /\ step = "error" => ~Blobs!Ignored(c)
  <2>1. CASE Blobs!Ignored(c)
    BY <2>1 DEF Blobs!Fail
  <2>2. CASE ~Blobs!Ignored(c)
    BY <2>2 DEF Blobs!Fail
  <2> QED BY <2>1, <2>2
<1>3. /\ call' = [call EXCEPT ![c] = call'[c]] /\ call'[c] \in BlobCall
      /\ call'[c].op = call[c].op /\ call'[c].before = call[c].before /\ call'[c].step = step
      /\ call'[c].bytes = call[c].bytes /\ call'[c].type = call[c].type
  <2>1. step \in BlobStep
    BY DEF BlobStep, Settled
  <2> QED BY <1>1, <1>2, <2>1 DEF BlobCall
<1>4. superseded' = IF Blobs!Writing(c) /\ call'[c].step = "ok" THEN superseded \cup call[c].before ELSE superseded
  BY <1>2, <1>3 DEF Blobs!Fail
<1>5. Blobs!Writing(c) /\ step = "ok" => Touched(c)
  BY <1>2 DEF Blobs!Ignored, Touched, Blobs!Writing
<1>6. ~Touched(c)'
  BY <1>3 DEF Touched
<1>7. store \in {"s3", "ashfox"} => step # "ok" /\ file = meta
  BY <1>2 DEF Blobs!Ignored, BlobsSafe, OneObject
<1> QED BY <1>1, <1>3, <1>4, <1>5, <1>6, <1>7 DEF Moves, Blobs!At

\* A crash leaves what is stored and makes the calls under way nobody's.
LEMMA BlobsCrash ==
  ASSUME BlobsSafe, Blobs!Crash
  PROVE  BlobsSafe' /\ faults' # 0
<1>1. /\ call \in [Call -> BlobCall] /\ faults \in Nat /\ faults' \in Nat /\ faults' # 0
      /\ UNCHANGED <<store, upsert, file, meta, superseded, overlapped>>
  BY DEF BlobsSafe, BlobsType, Blobs!Crash
<1>2. call' = [c \in Call |-> call'[c]]
      /\ \A c \in Call : call'[c] = IF c \in Blobs!Running THEN [call[c] EXCEPT !.step = "lost"] ELSE call[c]
  BY DEF Blobs!Crash
<1>3. \A c \in Call : /\ call'[c] \in BlobCall
                      /\ call'[c].op = call[c].op /\ call'[c].before = call[c].before
                      /\ call'[c].step # call[c].step => call'[c].step = "lost" /\ c \in Blobs!Running
                      /\ call'[c].step = "ok" => call'[c] = call[c]
                      /\ call[c].step = "ok" => call'[c] = call[c]
  <2>1. "lost" \in BlobStep
    BY DEF BlobStep, Settled
  <2>2. \A c \in Call : call[c] \in BlobCall /\ (call[c].step = "ok" => c \notin Blobs!Running)
    BY <1>1 DEF Blobs!Running
  <2>3. ASSUME NEW c \in Call, c \in Blobs!Running
        PROVE  /\ call'[c] \in BlobCall /\ call'[c].op = call[c].op /\ call'[c].before = call[c].before
               /\ call'[c].step = "lost"
    BY <1>2, <2>1, <2>2, <2>3 DEF BlobCall
  <2> QED BY <1>2, <2>2, <2>3
<1>4. BlobsType'
  <2>1. call' \in [Call -> BlobCall]
    BY <1>2, <1>3
  <2>2. \A c \in Call : BlobSteps(call[c].op)' = BlobSteps(call[c].op)
    BY <1>1, <1>3 DEF BlobSteps
  <2>3. \A c \in Call : call'[c].step # "new" => call[c].step # "new"
    BY <1>3 DEF Blobs!Running
  <2>4. \A c \in Call : call'[c].step \in Settled \cup BlobSteps(call[c].op)
    BY <1>3 DEF BlobsSafe, BlobsType, Settled
  <2> QED BY <1>1, <1>3, <2>1, <2>2, <2>3, <2>4 DEF BlobsSafe, BlobsType
<1>5. Written' = Written
  BY <1>3 DEF Written, Blobs!Writing
<1>6. WrittenBefore'
  <2>1. \A c \in Call : Touched(c)' => Touched(c)
    BY <1>3 DEF Touched, Blobs!Writing
  <2>2. \A c \in Call : call[c].before \subseteq Call
    BY <1>1 DEF BlobCall
  <2> QED BY <1>1, <1>3, <1>5, <2>1, <2>2 DEF BlobsSafe, WrittenBefore
<1>7. OneObject' /\ Blobs!AckedWritesStay'
  BY <1>1, <1>3 DEF BlobsSafe, OneObject, Blobs!AckedWritesStay, Blobs!At
<1> QED BY <1>1, <1>4, <1>6, <1>7 DEF BlobsSafe

\* Every step of a blob store keeps its invariant.
LEMMA BlobsStep == BlobsInv /\ Blobs!Next => BlobsInv'
<1> SUFFICES ASSUME BlobsInv, Blobs!Next PROVE BlobsInv'
  OBVIOUS
<1>1. CASE \E c \in Call, op \in {"put", "get", "delete"} : Blobs!Begin(c, op)
  BY <1>1, BlobsBegin
<1>2. ASSUME NEW c \in Call, Blobs!Answer(c) PROVE BlobsInv'
  <2>1. Moves(c) /\ BlobsSafe'
    BY <1>2, BlobsAnswer, BlobsMove DEF BlobsInv
  <2>2. ASSUME ~overlapped', faults' = 0 PROVE InLine'
    <3>1. InLine
      BY <2>1, <2>2 DEF BlobsInv, Moves
    <3>2. MovesInLine(c)
      BY <1>2, <2>2, <3>1, BlobsAnswer DEF BlobsInv, InLine
    <3> QED BY <2>1, <3>1, <3>2, BlobsMoveInLine DEF BlobsInv
  <2> QED BY <2>1, <2>2 DEF BlobsInv
<1>3. ASSUME NEW c \in Call, Blobs!Fail(c) PROVE BlobsInv'
  BY <1>3, BlobsFail, BlobsMove DEF BlobsInv
<1>4. CASE Blobs!Crash
  BY <1>4, BlobsCrash DEF BlobsInv
<1> QED BY <1>1, <1>2, <1>3, <1>4 DEF Blobs!Next

----------------------------------------------------------------------------
(* The MCP server                                                          *)

Conn == (Socket \X (1..MaxRequests)) \cup (Exchange \X {1})
Session ==
    [state : {"unused", "live", "closed"}, initialized : BOOLEAN, stale : BOOLEAN, streams : SUBSET Conn]
Sessions == [SessionId -> Session]

\* The streams O are those of the sessions in S, each of one that is live.
Belong(S, O) ==
    /\ S \in Sessions /\ O \subseteq Conn
    /\ \A i \in SessionId : S[i].state # "live" => S[i].streams = {}
    /\ \A i \in SessionId : IsFiniteSet(S[i].streams) /\ Cardinality(S[i].streams) <= MaxStreams
    /\ \A i, j \in SessionId : i # j => S[i].streams \cap S[j].streams = {}
    /\ \A c \in Conn : c \in O <=> \E i \in SessionId : c \in S[i].streams

\* The cardinality the servers' module sees is the one of this module.
LEMMA McpCardinality == \A S : Mcp!Cardinality(S) = Cardinality(S)
BY DEF Mcp!Cardinality, Cardinality

\* Streams that belong to sessions are reachable.
LEMMA BelongIsReachable == Belong(sessions, open) => Mcp!StreamsAreReachable
<1> SUFFICES ASSUME Belong(sessions, open)
             PROVE  UNION {sessions[i].streams : i \in Mcp!Live(sessions)} = open
  BY McpCardinality DEF Belong, Mcp!StreamsAreReachable
<1>1. \A c : c \in open => \E i \in SessionId : c \in sessions[i].streams /\ sessions[i].state = "live"
  BY DEF Belong
<1>2. \A i \in SessionId : sessions[i].streams \subseteq open
  BY DEF Belong, Sessions, Session
<1> QED BY <1>1, <1>2 DEF Mcp!Live

\* Sessions that change without their streams.
LEMMA SameStreams ==
  ASSUME NEW S, NEW O, Belong(S, O), NEW T \in Sessions,
         \A i \in SessionId : T[i].streams = S[i].streams /\ (T[i].state # "live" => T[i].streams = {})
  PROVE  Belong(T, O)
BY DEF Belong

\* A change of the sessions that closes none with a stream cuts nothing.
LEMMA NothingCut ==
  ASSUME Belong(sessions, open), NEW T \in Sessions,
         \A i \in SessionId : T[i].state # "live" => sessions[i].streams = {}
  PROVE  Mcp!Cut(T) = {}
BY DEF Mcp!Cut, Belong, Sessions, Session

\* A prune closes only sessions without a stream.
LEMMA PruneBelongs ==
  ASSUME Belong(sessions, open)
  PROVE  /\ Belong(Mcp!AfterPrune, open)
         /\ \A i \in SessionId : /\ Mcp!AfterPrune[i].streams = sessions[i].streams
                                 /\ sessions[i].state = "unused" => Mcp!AfterPrune[i].state = "unused"
<1> DEFINE ids == Mcp!Expired(sessions, open)
           S == Mcp!Close(sessions, ids)
<1>1. sessions \in Sessions
  BY DEF Belong
<1>2. \A i \in SessionId : i \in ids => sessions[i].streams = {} /\ sessions[i].state = "live"
  BY DEF Mcp!Expired, Mcp!Live, Belong, Sessions, Session
<1>3. \A i \in SessionId : S[i] = IF i \in ids THEN [sessions[i] EXCEPT !.state = "closed", !.streams = {}]
                                               ELSE sessions[i]
  BY DEF Mcp!Close
<1>4. S \in Sessions
  <2>1. S = [i \in SessionId |-> S[i]]
    BY DEF Mcp!Close
  <2>2. \A i \in SessionId : S[i] \in Session
    <3> HIDE DEF S, ids
    <3> QED BY <1>1, <1>3 DEF Sessions, Session
  <2> HIDE DEF S
  <2> QED BY <2>1, <2>2 DEF Sessions
<1>5. \A i \in SessionId : /\ S[i].streams = sessions[i].streams /\ (S[i].state # "live" => S[i].streams = {})
                           /\ sessions[i].state = "unused" => S[i].state = "unused"
  <2> HIDE DEF S, ids
  <2>1. \A i \in SessionId : sessions[i] \in Session
    BY <1>1 DEF Sessions
  <2> QED BY <1>2, <1>3, <2>1 DEF Belong, Session
<1>6. Belong(S, open)
  <2> HIDE DEF S, ids
  <2> QED BY <1>4, <1>5, SameStreams
<1> QED BY <1>5, <1>6 DEF Mcp!AfterPrune

\* A POST makes, touches or initialises a session; none has a stream less.
LEMMA PostBelongs ==
  ASSUME NEW S, Belong(S, open), NEW req, NEW new,
         Mcp!Creates(S, req) => new \in SessionId /\ S[new].state = "unused"
  PROVE  Belong(Mcp!Posted(S, req, new), open)
         /\ \A i \in SessionId : Mcp!Posted(S, req, new)[i].streams = S[i].streams
<1> DEFINE T == Mcp!Posted(S, req, new)
           Same(X) == X \in Sessions /\ \A i \in SessionId : X[i].streams = S[i].streams /\ (X[i].state # "live" => X[i].streams = {})
<1>1. S \in Sessions /\ Same(S)
  BY DEF Belong
<1>2. ASSUME NEW i \in SessionId, NEW X, Same(X) PROVE Same(Mcp!Initialized(X, i)) /\ Same(Mcp!Touch(X, i))
  <2>1. Same(Mcp!Initialized(X, i))
    BY <1>2, ZenonT(40) DEF Mcp!Initialized, Sessions, Session
  <2>2. Same(Mcp!Touch(X, i))
    BY <1>2, ZenonT(40) DEF Mcp!Touch, Sessions, Session
  <2> QED BY <2>1, <2>2
<1>3. ASSUME new \in SessionId, S[new].state = "unused" PROVE Same(Mcp!Create(S, new))
  BY <1>1, <1>3 DEF Mcp!Create, Sessions, Session
<1>4. Mcp!Get(S, req) # None => Mcp!Get(S, req) \in SessionId
  BY DEF Mcp!Get, Mcp!Live
<1>5. Same(T)
  <2> HIDE DEF Same
  <2>1. CASE Mcp!Creates(S, req)
    <3>1. T \in {Mcp!Create(S, new), Mcp!Initialized(Mcp!Create(S, new), new)}
      <4>1. T = Mcp!Created(S, req, new)
        BY <2>1 DEF Mcp!Posted
      <4> HIDE DEF T
      <4> QED BY <4>1 DEF Mcp!Created
    <3> QED BY <1>2, <1>3, <2>1, <3>1
  <2>2. CASE ~Mcp!Creates(S, req)
    <3> DEFINE i == Mcp!Get(S, req)
    <3>1. T = S \/ (i # None /\ T \in {Mcp!Touch(S, i), Mcp!Initialized(Mcp!Touch(S, i), i)})
      BY <2>2 DEF Mcp!Posted
    <3> QED BY <1>1, <1>2, <1>4, <3>1
  <2> QED BY <2>1, <2>2
<1> HIDE DEF T
<1>6. Belong(T, open)
  BY <1>5, SameStreams
<1> QED BY <1>5, <1>6 DEF T

\* The router keeps the books: what it opens is a session's, and what it takes
\* from a session it cuts.
LEMMA RouteBelongs ==
  ASSUME Belong(sessions, open), NEW req, NEW conn \in Conn \ open, NEW new \in Mcp!NewIds(req),
         Mcp!Route(req, conn, new)
  PROVE  /\ Belong(sessions', open') /\ pruneDue' = FALSE
         /\ open' = (open \ Mcp!Cut(sessions')) \cup (IF Mcp!Streams(Mcp!AfterPrune, req) THEN {conn} ELSE {})
         /\ req.kind = "call" => Mcp!Cut(sessions') = {}
         /\ Mcp!Streams(Mcp!AfterPrune, req) => req.kind = "get"
<1> DEFINE S == Mcp!AfterPrune
           T == Mcp!Routed(req, conn, new)
<1>1. /\ Belong(S, open) /\ \A i \in SessionId : S[i].streams = sessions[i].streams
      /\ \A i \in SessionId : sessions[i].state = "unused" => S[i].state = "unused"
  BY PruneBelongs
<1>2. /\ sessions' = T /\ pruneDue' = FALSE
      /\ open' = (open \ Mcp!Cut(T)) \cup (IF Mcp!Streams(S, req) THEN {conn} ELSE {})
      /\ Mcp!Streams(S, req) => req.kind = "get"
  BY DEF Mcp!Route, Mcp!Streams
<1> HIDE DEF S, T
<1>3. CASE req.kind = "get" /\ Mcp!Streams(S, req)
  <2> DEFINE i == Mcp!Get(S, req)
  <2>1. i \in SessionId /\ S[i].state = "live" /\ Cardinality(S[i].streams) < MaxStreams
    <3>1. i # None /\ Cardinality(S[i].streams) < MaxStreams
      BY <1>3, McpCardinality DEF Mcp!Streams
    <3>2. i \in Mcp!Live(S)
      BY <3>1 DEF Mcp!Get
    <3> QED BY <3>1, <3>2 DEF Mcp!Live
  <2>2. T = [[S EXCEPT ![i].stale = FALSE] EXCEPT ![i].streams = @ \cup {conn}]
    <3>1. T = Mcp!AttachSse(Mcp!Touch(S, i), i, conn)
      BY <1>3 DEF T, S, Mcp!Routed, Mcp!Posts, Mcp!Implicit
    <3> QED BY <3>1 DEF Mcp!AttachSse, Mcp!Touch
  <2> HIDE DEF i
  <2>3. /\ T \in Sessions /\ T[i].streams = S[i].streams \cup {conn} /\ T[i].state = "live"
        /\ \A j \in SessionId \ {i} : T[j] = S[j]
    BY <1>1, <2>1, <2>2 DEF Belong, Sessions, Session
  <2>4. Mcp!Cut(T) = {}
    BY <1>1, <2>1, <2>3, NothingCut DEF Belong
  <2>5. \A j \in SessionId : conn \notin S[j].streams
    BY <1>1 DEF Belong
  <2>6. IsFiniteSet(T[i].streams) /\ Cardinality(T[i].streams) <= MaxStreams
    <3>1. IsFiniteSet(S[i].streams)
      BY <1>1, <2>1 DEF Belong
    <3>2. Cardinality(S[i].streams \cup {conn}) = Cardinality(S[i].streams) + 1 /\ IsFiniteSet(S[i].streams \cup {conn})
          /\ Cardinality(S[i].streams) \in Nat
      BY <2>1, <2>5, <3>1, FS_AddElement, FS_CardinalityType
    <3> QED BY <2>1, <2>3, <3>2, StreamsAssumption
  <2>7. open' = open \cup {conn}
    BY <1>2, <1>3, <2>4
  <2>8. Belong(T, open')
    <3>1. \A j \in SessionId : /\ T[j].state # "live" => T[j].streams = {}
                               /\ IsFiniteSet(T[j].streams) /\ Cardinality(T[j].streams) <= MaxStreams
      BY <1>1, <2>1, <2>3, <2>6 DEF Belong
    <3>2. \A j, l \in SessionId : j # l => T[j].streams \cap T[l].streams = {}
      BY <1>1, <2>1, <2>3, <2>5 DEF Belong
    <3>3. \A c \in Conn : c \in open' <=> \E j \in SessionId : c \in T[j].streams
      BY <1>1, <2>1, <2>3, <2>7 DEF Belong
    <3> QED BY <1>1, <2>3, <2>7, <3>1, <3>2, <3>3 DEF Belong
  <2> QED BY <1>2, <1>3, <2>8 DEF S
<1>4. CASE req.kind = "delete" /\ Mcp!Get(S, req) # None
  <2> DEFINE i == Mcp!Get(S, req)
  <2>1. i \in SessionId /\ S[i].state = "live"
    BY <1>4 DEF Mcp!Get, Mcp!Live
  <2>2. T = [j \in SessionId |-> IF j \in {i} THEN [S[j] EXCEPT !.state = "closed", !.streams = {}] ELSE S[j]]
    <3>1. T = Mcp!Close(S, {i})
      BY <1>4 DEF T, S, Mcp!Routed, Mcp!Posts, Mcp!Implicit
    <3> HIDE DEF i
    <3> QED BY <3>1 DEF Mcp!Close
  <2> HIDE DEF i
  <2>3. /\ T \in Sessions /\ T[i].streams = {} /\ T[i].state = "closed"
        /\ \A j \in SessionId \ {i} : T[j] = S[j]
    <3>1. \A j \in SessionId : S[j] \in Session
      BY <1>1 DEF Belong, Sessions
    <3>2. \A j \in SessionId : T[j] \in Session
      BY <2>2, <3>1 DEF Session
    <3>3. T[i].streams = {} /\ T[i].state = "closed"
      BY <2>1, <2>2, <3>1 DEF Session
    <3> QED BY <2>2, <3>2, <3>3 DEF Sessions
  <2>4. Mcp!Cut(T) = S[i].streams
    <3>1. \A j \in SessionId : S[j].state = "closed" => sessions[j].streams = {}
      BY <1>1 DEF Belong
    <3> QED BY <1>1, <2>1, <2>3, <3>1 DEF Belong, Mcp!Cut, Sessions, Session
  <2>5. open' = open \ S[i].streams
    BY <1>2, <1>4, <2>4
  <2>6. IsFiniteSet({}) /\ Cardinality({}) <= MaxStreams
    BY FS_EmptySet, StreamsAssumption
  <2>7. Belong(T, open')
    <3>1. \A j \in SessionId : /\ T[j].state # "live" => T[j].streams = {}
                               /\ IsFiniteSet(T[j].streams) /\ Cardinality(T[j].streams) <= MaxStreams
      <4>1. IsFiniteSet(T[i].streams) /\ Cardinality(T[i].streams) <= MaxStreams
        BY <2>3, <2>6
      <4>2. ASSUME NEW j \in SessionId \ {i}
            PROVE  /\ T[j].state # "live" => T[j].streams = {}
                   /\ IsFiniteSet(T[j].streams) /\ Cardinality(T[j].streams) <= MaxStreams
        <5>1. T[j] = S[j]
          BY <2>3
        <5> QED BY <1>1, <5>1 DEF Belong
      <4> QED BY <2>3, <4>1, <4>2
    <3>2. \A j, l \in SessionId : j # l => T[j].streams \cap T[l].streams = {}
      BY <1>1, <2>1, <2>3 DEF Belong
    <3>3. \A c \in Conn : c \in open' <=> \E j \in SessionId : c \in T[j].streams
      BY <1>1, <2>1, <2>3, <2>5 DEF Belong
    <3> QED BY <1>1, <2>3, <2>5, <3>1, <3>2, <3>3 DEF Belong
  <2> QED BY <1>2, <1>4, <2>7 DEF S
<1>5. CASE req.kind \in Mcp!Posts
  <2>1. req.kind # "get" /\ req.kind # "delete"
    BY <1>5 DEF Mcp!Posts, Mcp!Implicit
  <2>2. T = Mcp!Posted(S, req, new)
    BY <1>5, <2>1 DEF T, S, Mcp!Routed
  <2>3. Mcp!Creates(S, req) => new \in SessionId /\ S[new].state = "unused"
    BY <1>1, <1>5 DEF Mcp!NewIds, S
  <2>4. Belong(T, open) /\ \A i \in SessionId : T[i].streams = S[i].streams
    BY <1>1, <2>2, <2>3, PostBelongs
  <2>5. Mcp!Cut(T) = {}
    BY <1>1, <2>4, NothingCut DEF Belong
  <2> QED BY <1>2, <2>1, <2>4, <2>5 DEF S
<1>6. CASE /\ ~(req.kind = "get" /\ Mcp!Streams(S, req)) /\ ~(req.kind = "delete" /\ Mcp!Get(S, req) # None)
           /\ req.kind \notin Mcp!Posts
  <2>1. T = S
    BY <1>6 DEF T, S, Mcp!Routed
  <2>2. Mcp!Cut(T) = {}
    BY <1>1, <2>1, NothingCut DEF Belong
  <2> QED BY <1>1, <1>2, <1>6, <2>1, <2>2 DEF S
<1> QED BY <1>3, <1>4, <1>5, <1>6

\* The sockets.  Requests are numbered as they arrive; those that are answered,
\* the one that waits for its tool and the buffered ones follow each other.
Chunk == [n : Nat, req : Request, part : BOOLEAN]
Sock ==
    [buffer : Seq(Chunk), sent : 0..MaxRequests, closed : BOOLEAN, ended : BOOLEAN,
     pending : Chunk \cup {None}, answered : Seq(Nat)]
InOrder(s) == Len(s.answered) <= s.sent /\ \A n \in 1..Len(s.answered) : s.answered[n] = n
Follow(s, n) == s.sent = n + Len(s.buffer) /\ \A j \in 1..Len(s.buffer) : s.buffer[j].n = n + j
Numbered(s) ==
    ~s.closed => IF s.pending = None THEN Follow(s, Len(s.answered))
                 ELSE s.pending.n = Len(s.answered) + 1 /\ Follow(s, Len(s.answered) + 1)

McpType ==
    /\ pruneDue \in BOOLEAN /\ running \in Socket \cup {None}
    /\ socket \in [Socket -> Sock]
    /\ exchange \in [Exchange -> [state : {"idle", "reading", "calling", "streaming", "done"},
                                  request : Request \cup {None}]]
    /\ \A e \in Exchange : exchange[e].state = "reading" => exchange[e].request \in Request

\* A stream of a socket that is not closed is of a request that was answered;
\* one of an exchange is of one that streams.
Known ==
    /\ \A k \in Socket, n \in 1..MaxRequests :
         <<k, n>> \in open /\ ~socket[k].closed => n <= Len(socket[k].answered)
    /\ \A e \in Exchange : <<e, 1>> \in open => exchange[e].state = "streaming"

\* Of one socket: NothingLeftBehind, when it is at rest with these streams.
AtRest(s, O, k) ==
    (~s.closed /\ ~s.ended /\ s.pending = None /\ s.buffer # <<>> /\ \A c \in O : c[1] # k)
       => Head(s.buffer).part

McpInv ==
    /\ McpType /\ Belong(sessions, open) /\ Known
    /\ \A k \in Socket : /\ InOrder(socket[k]) /\ Numbered(socket[k])
                         /\ running = k => socket[k].pending = None
                         /\ running # k => AtRest(socket[k], open, k)

\* The invariant says what the runs check of the servers.
LEMMA McpInvImplies == McpInv => Mcp!AnswersInOrder /\ Mcp!NothingLeftBehind /\ Mcp!StreamsAreReachable
BY BelongIsReachable DEF McpInv, McpType, InOrder, AtRest, Mcp!AnswersInOrder, Mcp!NothingLeftBehind

\* No session, no stream and empty sockets.
LEMMA McpInit == Mcp!Init => McpInv
<1> SUFFICES ASSUME Mcp!Init PROVE McpInv
  OBVIOUS
<1>1. Belong(sessions, open)
  <2>1. IsFiniteSet({}) /\ Cardinality({}) <= MaxStreams
    BY FS_EmptySet, StreamsAssumption
  <2>2. sessions \in Sessions /\ \A i \in SessionId : sessions[i].streams = {}
    BY DEF Mcp!Init, Sessions, Session
  <2> QED BY <2>1, <2>2 DEF Mcp!Init, Belong
<1>2. McpType /\ Known
  <2>1. socket \in [Socket -> Sock]
    <3>1. [buffer |-> <<>>, sent |-> 0, closed |-> FALSE, ended |-> FALSE, pending |-> None, answered |-> <<>>] \in Sock
      BY StreamsAssumption DEF Sock
    <3> QED BY <3>1 DEF Mcp!Init
  <2>2. exchange \in [Exchange -> [state : {"idle"}, request : {None}]]
    BY DEF Mcp!Init
  <2> QED BY <2>1, <2>2 DEF Mcp!Init, McpType, Known
<1>3. \A k \in Socket : InOrder(socket[k]) /\ Numbered(socket[k]) /\ socket[k].pending = None /\ AtRest(socket[k], open, k)
  BY DEF Mcp!Init, InOrder, Numbered, Follow, AtRest
<1> QED BY <1>1, <1>2, <1>3 DEF McpInv

\* An answer is written in its place, or the socket is closed.
LEMMA WrittenInOrder ==
  ASSUME NEW s \in Sock, s.pending = None, InOrder(s), NEW n \in Nat, NEW ends \in BOOLEAN, NEW closes \in BOOLEAN,
         ~s.closed => n = Len(s.answered) + 1 /\ n <= s.sent /\ (closes \/ Follow(s, n)),
         NEW w, w = Mcp!Written(s, n, ends, closes)
  PROVE  /\ w \in Sock /\ InOrder(w) /\ Numbered(w) /\ w.pending = None /\ w.buffer = s.buffer
         /\ ~w.closed => ~s.closed /\ ~s.ended /\ ~closes /\ Len(w.answered) = n /\ w.ended = ends
<1>1. CASE s.ended \/ s.closed
  <2>1. w = [s EXCEPT !.closed = TRUE]
    BY <1>1 DEF Mcp!Written
  <2>2. w \in Sock /\ w.closed /\ w.pending = None /\ w.buffer = s.buffer /\ w.answered = s.answered /\ w.sent = s.sent
    BY <2>1 DEF Sock
  <2> QED BY <2>2 DEF InOrder, Numbered
<1>2. CASE ~(s.ended \/ s.closed)
  <2>1. w = [s EXCEPT !.answered = Append(s.answered, n), !.ended = ends, !.closed = closes]
    BY <1>2 DEF Mcp!Written
  <2>2. /\ s.answered \in Seq(Nat) /\ Append(s.answered, n) \in Seq(Nat)
        /\ Len(Append(s.answered, n)) = n
        /\ \A m \in 1..n : Append(s.answered, n)[m] = m
    BY <1>2 DEF Sock, InOrder
  <2>3. /\ w \in Sock /\ w.closed = closes /\ w.ended = ends /\ w.pending = None /\ w.buffer = s.buffer
        /\ w.answered = Append(s.answered, n) /\ w.sent = s.sent
    BY <2>1, <2>2 DEF Sock
  <2>4. InOrder(w)
    BY <1>2, <2>2, <2>3 DEF InOrder
  <2>5. Numbered(w)
    BY <1>2, <2>2, <2>3 DEF Numbered, Follow
  <2> QED BY <1>2, <2>2, <2>3, <2>4, <2>5
<1> QED BY <1>1, <1>2

\* The head of the buffer is the next request in line.
LEMMA HeadIsNext ==
  ASSUME NEW s \in Sock, NEW n \in Nat, Follow(s, n), s.buffer # <<>>
  PROVE  /\ Head(s.buffer) \in Chunk /\ Head(s.buffer).n = n + 1 /\ n + 1 <= s.sent
         /\ [s EXCEPT !.buffer = Tail(s.buffer)] \in Sock
         /\ Follow([s EXCEPT !.buffer = Tail(s.buffer)], n + 1)
<1>1. /\ s.buffer \in Seq(Chunk) /\ Len(s.buffer) \in Nat \ {0} /\ Head(s.buffer) = s.buffer[1]
      /\ Tail(s.buffer) \in Seq(Chunk) /\ Len(Tail(s.buffer)) = Len(s.buffer) - 1
      /\ \A j \in 1..Len(Tail(s.buffer)) : Tail(s.buffer)[j] = s.buffer[j + 1]
      /\ s.sent \in Int
  BY StreamsAssumption DEF Sock
<1>2. s.buffer[1] \in Chunk /\ s.buffer[1].n = n + 1
  BY <1>1 DEF Follow
<1> DEFINE taken == [s EXCEPT !.buffer = Tail(s.buffer)]
<1>3. taken \in Sock /\ taken.buffer = Tail(s.buffer) /\ taken.sent = s.sent
  BY <1>1 DEF Sock
<1> HIDE DEF taken
<1>4. Follow(taken, n + 1)
  <2>1. ASSUME NEW j \in 1..Len(taken.buffer) PROVE taken.buffer[j].n = n + 1 + j
    <3>1. j + 1 \in 1..Len(s.buffer) /\ taken.buffer[j] = s.buffer[j + 1] /\ j \in Nat
      BY <1>1, <1>3, <2>1
    <3>2. s.buffer[j + 1].n = n + (j + 1)
      BY <3>1 DEF Follow
    <3> QED BY <3>1, <3>2
  <2>2. taken.sent = n + 1 + Len(taken.buffer)
    <3> DEFINE before == Len(s.buffer)
               after == Len(taken.buffer)
    <3>1. s.sent = n + before
      BY DEF Follow
    <3>2. before \in Int /\ after = before - 1 /\ taken.sent = s.sent
      BY <1>1, <1>3
    <3> HIDE DEF before, after
    <3>3. taken.sent = n + 1 + after
      BY <3>1, <3>2
    <3> QED BY <3>3 DEF after
  <2> QED BY <2>1, <2>2 DEF Follow
<1> QED BY <1>1, <1>2, <1>3, <1>4 DEF Follow, taken

\* A socket that moves alone.
LEMMA SocketMoves ==
  ASSUME McpInv, NEW k \in Socket, NEW s \in Sock, socket' = [socket EXCEPT ![k] = s],
         InOrder(s), Numbered(s),
         ~s.closed => ~socket[k].closed /\ Len(s.answered) >= Len(socket[k].answered),
         running \in {k, None}, running' \in {k, None},
         running' = k => s.pending = None, running' # k => AtRest(s, open, k),
         UNCHANGED <<sessions, pruneDue, open, exchange>>
  PROVE  McpInv'
<1>1. socket' \in [Socket -> Sock] /\ socket'[k] = s /\ \A j \in Socket \ {k} : socket'[j] = socket[j]
  BY DEF McpInv, McpType
<1>2. McpType' /\ Belong(sessions, open)'
  BY <1>1 DEF McpInv, McpType
<1>3. \A j \in Socket : /\ running = j => j = k
                        /\ running' = j => j = k
  BY StreamsAssumption
<1>4. \A j \in Socket : /\ InOrder(socket'[j]) /\ Numbered(socket'[j])
                        /\ running' = j => socket'[j].pending = None
                        /\ running' # j => AtRest(socket'[j], open', j)
  BY <1>1, <1>3 DEF McpInv
<1>5. Known'
  <2>1. ASSUME NEW j \in Socket, NEW n \in 1..MaxRequests, <<j, n>> \in open, ~socket'[j].closed
        PROVE  n <= Len(socket'[j].answered)
    <3>1. ~socket[j].closed /\ Len(socket'[j].answered) >= Len(socket[j].answered)
          /\ Len(socket[j].answered) \in Int /\ Len(socket'[j].answered) \in Int
      BY <1>1, <2>1 DEF McpInv, McpType, Sock
    <3>2. n <= Len(socket[j].answered)
      BY <2>1, <3>1 DEF McpInv, Known
    <3> DEFINE before == Len(socket[j].answered)
               after == Len(socket'[j].answered)
    <3>3. before \in Int /\ after \in Int /\ after >= before /\ n <= before
      BY <3>1, <3>2
    <3> HIDE DEF before, after
    <3>4. n <= after
      BY <3>3
    <3> QED BY <3>4 DEF after
  <2> QED BY <2>1 DEF McpInv, Known
<1> QED BY <1>2, <1>4, <1>5 DEF McpInv

\* The answer of a tool call is written in its place, and the loop goes on.
LEMMA McpToolDone == ASSUME McpInv, NEW k \in Socket, Mcp!ToolDone(k) PROVE McpInv'
<1> DEFINE p == socket[k].pending
           s == [socket[k] EXCEPT !.pending = None]
           ends == p.req.close \/ p.req.sse
           w == Mcp!Written(s, p.n, ends, p.req.close)
<1>1. /\ running = None /\ p # None /\ UNCHANGED <<sessions, pruneDue, open, exchange>>
      /\ socket' = [socket EXCEPT ![k] = w] /\ running' = Mcp!LoopOn(k, ~w.closed)
  BY DEF Mcp!ToolDone
<1>2. socket[k] \in Sock /\ InOrder(socket[k]) /\ Numbered(socket[k])
  BY DEF McpInv, McpType
<1>3. p \in Chunk /\ p.n \in Nat /\ ends \in BOOLEAN /\ p.req.close \in BOOLEAN
  BY <1>1, <1>2, StreamsAssumption DEF Sock, Chunk
<1>4. /\ s \in Sock /\ s.pending = None /\ s.closed = socket[k].closed /\ s.answered = socket[k].answered
      /\ s.sent = socket[k].sent /\ s.buffer = socket[k].buffer
  BY <1>2 DEF Sock
<1> HIDE DEF s, p, ends
<1>5. InOrder(s)
  BY <1>2, <1>4 DEF InOrder
<1>6. ~s.closed => p.n = Len(s.answered) + 1 /\ p.n <= s.sent /\ Follow(s, p.n)
  <2> SUFFICES ASSUME ~s.closed PROVE p.n = Len(s.answered) + 1 /\ p.n <= s.sent /\ Follow(s, p.n)
    OBVIOUS
  <2>1. p.n = Len(s.answered) + 1 /\ Follow(socket[k], p.n)
    BY <1>1, <1>2, <1>4 DEF Numbered, p
  <2>2. Follow(s, p.n)
    BY <1>4, <2>1 DEF Follow
  <2> DEFINE l == Len(s.buffer)
             n == p.n
  <2>3. l \in Nat /\ s.sent = n + l /\ n \in Nat
    BY <1>3, <1>4, <2>2 DEF Follow, Sock
  <2> HIDE DEF l, n
  <2>4. n <= s.sent
    BY <2>3
  <2> QED BY <2>1, <2>2, <2>4 DEF n
<1> HIDE DEF w
<1>7. /\ w \in Sock /\ InOrder(w) /\ Numbered(w) /\ w.pending = None
      /\ ~w.closed => ~s.closed /\ Len(w.answered) = p.n
  BY <1>3, <1>4, <1>5, <1>6, WrittenInOrder DEF w
<1>8. /\ running' \in {k, None} /\ (running' # k => w.closed)
  BY <1>1 DEF Mcp!LoopOn
<1>9. ~w.closed => ~socket[k].closed /\ Len(w.answered) >= Len(socket[k].answered)
  <2>1. Len(s.answered) \in Nat
    BY <1>4 DEF Sock
  <2> QED BY <1>4, <1>6, <1>7, <2>1
<1>10. running' # k => AtRest(w, open, k)
  BY <1>8 DEF AtRest
<1> QED BY <1>1, <1>7, <1>8, <1>9, <1>10, SocketMoves

\* A chunk makes a request, begins one or completes the last of the buffer;
\* unless the socket is busy the loop then runs.
LEMMA McpData == ASSUME McpInv, NEW k \in Socket, Mcp!Data(k) PROVE McpInv'
<1> DEFINE s == socket[k]
           Add(c) == IF c.n <= s.sent THEN [s.buffer EXCEPT ![Len(s.buffer)] = c] ELSE Append(s.buffer, c)
<1>1. /\ running = None /\ ~s.closed /\ UNCHANGED <<sessions, pruneDue, open, exchange>>
      /\ running' = IF Mcp!Busy(k) THEN None ELSE k
  BY DEF Mcp!Data
<1>2. PICK c \in Mcp!Chunks(k) : socket' = [socket EXCEPT ![k].buffer = Add(c), ![k].sent = c.n]
  BY DEF Mcp!Data
<1>3. s \in Sock /\ InOrder(s) /\ Numbered(s)
  BY DEF McpInv, McpType
<1>4. PICK n \in Nat : /\ Follow(s, n) /\ n = (IF s.pending = None THEN Len(s.answered) ELSE Len(s.answered) + 1)
  <2>1. Len(s.answered) \in Nat
    BY <1>3 DEF Sock
  <2> QED BY <1>1, <1>3, <2>1 DEF Numbered
<1> DEFINE l == Len(s.buffer)
           t == [s EXCEPT !.buffer = Add(c), !.sent = c.n]
<1>5. l \in Nat /\ s.sent = n + l /\ s.sent \in 0..MaxRequests /\ (\A j \in 1..l : s.buffer[j].n = n + j) /\ s.buffer \in Seq(Chunk)
  <2>1. s.buffer \in Seq(Chunk) /\ l \in Nat /\ s.sent \in 0..MaxRequests
    BY <1>3 DEF Sock
  <2>2. s.sent = n + l /\ \A j \in 1..l : s.buffer[j].n = n + j
    BY <1>4 DEF Follow
  <2> QED BY <2>1, <2>2
<1>6. socket' = [socket EXCEPT ![k] = t]
  BY <1>2, <1>3 DEF McpInv, McpType
<1> HIDE DEF s, l, t
<1>7. /\ Add(c) \in Seq(Chunk) /\ c.n \in 0..MaxRequests /\ c.n >= s.sent /\ c.n = n + Len(Add(c))
      /\ \A j \in 1..Len(Add(c)) : Add(c)[j].n = n + j
  <2>1. CASE s.buffer # <<>> /\ s.buffer[l].part
    <3>1. l \in 1..l /\ s.buffer[l] \in Chunk /\ s.buffer[l].n = s.sent
      BY <1>5, <2>1 DEF l
    <3>2. c = [s.buffer[l] EXCEPT !.part = FALSE]
      BY <2>1 DEF Mcp!Chunks, s, l
    <3>3. c \in Chunk /\ c.n = s.sent
      BY <3>1, <3>2 DEF Chunk
    <3>4. Add(c) = [s.buffer EXCEPT ![l] = c]
      BY <1>5, <3>3 DEF l
    <3>5. Add(c) \in Seq(Chunk) /\ Len(Add(c)) = l /\ \A j \in 1..l : Add(c)[j] = IF j = l THEN c ELSE s.buffer[j]
      BY <1>5, <3>1, <3>3, <3>4 DEF l
    <3> HIDE DEF Add
    <3> QED BY <1>5, <3>3, <3>5
  <2>2. CASE ~(s.buffer # <<>> /\ s.buffer[l].part)
    <3>1. c \in [n : {s.sent + 1}, req : Request, part : BOOLEAN] /\ ~(s.sent + 1 > MaxRequests)
      BY <2>2 DEF Mcp!Chunks, s, l
    <3>2. c \in Chunk /\ c.n = s.sent + 1 /\ c.n \in 0..MaxRequests
      BY <1>5, <3>1, StreamsAssumption DEF Chunk
    <3>3. Add(c) = Append(s.buffer, c)
      BY <1>5, <3>2, StreamsAssumption
    <3>4. Add(c) \in Seq(Chunk) /\ Len(Add(c)) = l + 1 /\ \A j \in 1..(l + 1) : Add(c)[j] = IF j = l + 1 THEN c ELSE s.buffer[j]
      <4>1. s.buffer \in Seq(Chunk) /\ l = Len(s.buffer) /\ c \in Chunk
        BY <1>5, <3>2 DEF l
      <4> HIDE DEF Add
      <4> QED BY <3>3, <4>1
    <3> HIDE DEF Add
    <3>5. /\ c.n >= s.sent /\ c.n = n + (l + 1)
      BY <1>5, <3>2, StreamsAssumption
    <3>6. \A j \in 1..(l + 1) : Add(c)[j].n = n + j
      <4> SUFFICES ASSUME NEW j \in 1..(l + 1) PROVE Add(c)[j].n = n + j
        OBVIOUS
      <4>1. CASE j = l + 1
        BY <1>5, <3>4, <3>5, <4>1
      <4>2. CASE j # l + 1
        <5>1. j \in 1..l
          BY <1>5, <4>2
        <5> QED BY <1>5, <3>4, <4>2, <5>1
      <4> QED BY <4>1, <4>2
    <3> QED BY <3>2, <3>4, <3>5, <3>6
  <2> QED BY <2>1, <2>2
<1> HIDE DEF Add
<1>8. /\ t \in Sock /\ t.buffer = Add(c) /\ t.sent = c.n /\ t.closed = s.closed /\ t.pending = s.pending
      /\ t.answered = s.answered
  BY <1>3, <1>7 DEF Sock, t
<1>9. InOrder(t)
  <2>1. Len(s.answered) \in Int
    BY <1>3 DEF Sock
  <2> DEFINE a == Len(s.answered)
  <2>2. a <= s.sent
    BY <1>3 DEF InOrder
  <2> HIDE DEF a
  <2>3. a <= c.n
    BY <1>5, <1>7, <2>1, <2>2, StreamsAssumption DEF a
  <2> QED BY <1>3, <1>8, <2>3 DEF InOrder, a
<1>10. Numbered(t)
  <2>1. Follow(t, n)
    BY <1>7, <1>8 DEF Follow
  <2> QED BY <1>1, <1>3, <1>4, <1>8, <2>1 DEF Numbered
<1>11. /\ ~t.closed => ~socket[k].closed /\ Len(t.answered) >= Len(socket[k].answered)
  <2>1. Len(s.answered) \in Int
    BY <1>3 DEF Sock
  <2> QED BY <1>8, <2>1 DEF s
<1>12. running' \in {k, None} /\ (running' = k => t.pending = None) /\ (running' # k => AtRest(t, open, k))
  BY <1>1, <1>8, StreamsAssumption DEF Mcp!Busy, AtRest, s
<1> QED BY <1>1, <1>6, <1>8, <1>9, <1>10, <1>11, <1>12, SocketMoves

\* A socket that fails is closed.
LEMMA McpSocketError == ASSUME McpInv, NEW k \in Socket, Mcp!SocketError(k) PROVE McpInv'
<1> DEFINE s == [socket[k] EXCEPT !.closed = TRUE, !.ended = TRUE]
<1>1. /\ running = None /\ UNCHANGED <<sessions, pruneDue, open, exchange, running>>
      /\ socket[k] \in Sock /\ InOrder(socket[k])
  BY DEF Mcp!SocketError, McpInv, McpType
<1>2. socket' = [socket EXCEPT ![k] = s]
  BY DEF Mcp!SocketError, McpInv, McpType
<1>3. s \in Sock /\ s.closed /\ s.answered = socket[k].answered /\ s.sent = socket[k].sent
  BY <1>1 DEF Sock
<1> HIDE DEF s
<1>4. InOrder(s) /\ Numbered(s) /\ AtRest(s, open, k)
  BY <1>1, <1>3 DEF InOrder, Numbered, AtRest
<1> QED BY <1>1, <1>2, <1>3, <1>4, SocketMoves, StreamsAssumption

\* Streams that are detached are in no session.
LEMMA DetachBelongs ==
  ASSUME NEW S, NEW O, Belong(S, O), NEW gone
  PROVE  Belong(Mcp!DetachSse(S, gone), O \ gone)
<1> DEFINE T == Mcp!DetachSse(S, gone)
<1>1. T = [i \in SessionId |-> [S[i] EXCEPT !.streams = S[i].streams \ gone]]
  BY DEF Mcp!DetachSse
<1>2. \A i \in SessionId : S[i] \in Session
  BY DEF Belong, Sessions
<1> HIDE DEF T
<1>3. \A i \in SessionId : T[i] \in Session /\ T[i].streams = S[i].streams \ gone /\ T[i].state = S[i].state
  BY <1>1, <1>2 DEF Session
<1>4. T \in Sessions
  BY <1>1, <1>3 DEF Sessions
<1>5. ASSUME NEW i \in SessionId
      PROVE  IsFiniteSet(T[i].streams) /\ Cardinality(T[i].streams) <= MaxStreams
  <2>1. IsFiniteSet(S[i].streams) /\ Cardinality(S[i].streams) <= MaxStreams
    BY DEF Belong
  <2>2. /\ IsFiniteSet(S[i].streams \ gone) /\ Cardinality(S[i].streams \ gone) <= Cardinality(S[i].streams)
        /\ Cardinality(S[i].streams \ gone) \in Nat /\ Cardinality(S[i].streams) \in Nat
    BY <2>1, FS_Subset, FS_CardinalityType
  <2>3. Cardinality(S[i].streams \ gone) <= MaxStreams
    BY <2>1, <2>2, StreamsAssumption
  <2> QED BY <1>3, <2>2, <2>3
<1>6. \A i \in SessionId : T[i].state # "live" => T[i].streams = {}
  BY <1>3 DEF Belong
<1>7. \A i, j \in SessionId : i # j => T[i].streams \cap T[j].streams = {}
  BY <1>3 DEF Belong
<1>8. \A c \in Conn : c \in O \ gone <=> \E i \in SessionId : c \in T[i].streams
  BY <1>3 DEF Belong
<1>9. O \ gone \subseteq Conn
  BY DEF Belong
<1> HIDE DEF Conn, Sessions
<1> QED BY <1>4, <1>5, <1>6, <1>7, <1>8, <1>9 DEF Belong, T

\* A stream that is closed is not one of another peer.
LEMMA OthersRest ==
  ASSUME NEW s, NEW k, AtRest(s, open, k), NEW O, \A c \in open : c[1] = k => c \in O
  PROVE  AtRest(s, O, k)
BY DEF AtRest

\* A socket that closes takes its streams along.
LEMMA McpSocketCloses == ASSUME McpInv, NEW k \in Socket, Mcp!SocketCloses(k) PROVE McpInv'
<1> DEFINE gone == {c \in open : c[1] = k}
           s == [socket[k] EXCEPT !.closed = TRUE, !.ended = TRUE, !.buffer = <<>>]
<1>1. /\ running = None /\ UNCHANGED <<pruneDue, exchange, running>>
      /\ open' = open \ gone /\ sessions' = Mcp!DetachSse(sessions, gone)
      /\ socket[k] \in Sock /\ InOrder(socket[k])
  BY DEF Mcp!SocketCloses, McpInv, McpType
<1>2. socket' = [socket EXCEPT ![k] = s]
  BY DEF Mcp!SocketCloses, McpInv, McpType
<1>3. s \in Sock /\ s.closed /\ s.answered = socket[k].answered /\ s.sent = socket[k].sent
  <2>1. <<>> \in Seq(Chunk)
    OBVIOUS
  <2>2. s \in Sock
    BY <1>1, <2>1 DEF Sock
  <2>3. socket[k] \in Sock
    BY <1>1
  <2> QED BY <2>2, <2>3 DEF Sock
<1> HIDE DEF s
<1>4. InOrder(s) /\ Numbered(s) /\ AtRest(s, open', k)
  BY <1>1, <1>3 DEF InOrder, Numbered, AtRest
<1>5. socket' \in [Socket -> Sock] /\ socket'[k] = s /\ \A j \in Socket \ {k} : socket'[j] = socket[j]
  BY <1>2, <1>3 DEF McpInv, McpType
<1>6. Belong(sessions, open)'
  BY <1>1, DetachBelongs DEF McpInv
<1>7. \A j \in Socket \ {k} : AtRest(socket[j], open', j)
  <2> SUFFICES ASSUME NEW j \in Socket \ {k} PROVE AtRest(socket[j], open', j)
    OBVIOUS
  <2>1. AtRest(socket[j], open, j)
    BY <1>1, StreamsAssumption DEF McpInv
  <2> QED BY <1>1, <2>1, OthersRest
<1>8. Known'
  BY <1>1, <1>3, <1>5 DEF McpInv, Known
<1>9. McpType'
  BY <1>1, <1>5 DEF McpInv, McpType
<1> QED BY <1>1, <1>4, <1>5, <1>6, <1>7, <1>8, <1>9, StreamsAssumption DEF McpInv

\* Sessions that grow old keep their streams.
LEMMA McpTimePasses == ASSUME McpInv, Mcp!TimePasses PROVE McpInv'
<1>1. PICK old : sessions' = [i \in SessionId |-> [sessions[i] EXCEPT !.stale = @ \/ i \in old]]
  BY DEF Mcp!TimePasses
<1>2. UNCHANGED <<open, socket, exchange, running>> /\ pruneDue' = TRUE
  BY DEF Mcp!TimePasses
<1>3. \A i \in SessionId : sessions[i] \in Session
  BY DEF McpInv, Belong, Sessions
<1>4. \A i \in SessionId : /\ sessions'[i] \in Session
                           /\ sessions'[i].streams = sessions[i].streams /\ sessions'[i].state = sessions[i].state
  BY <1>1, <1>3 DEF Session
<1>5. sessions' \in Sessions
  BY <1>1, <1>4 DEF Sessions
<1>6. Belong(sessions, open)'
  <2>1. \A i \in SessionId : sessions'[i].state # "live" => sessions'[i].streams = {}
    BY <1>4 DEF McpInv, Belong
  <2> QED BY <1>2, <1>4, <1>5, <2>1, SameStreams DEF McpInv
<1> QED BY <1>2, <1>6 DEF McpInv, McpType, Known

\* An exchange that moves alone, and has no stream.
LEMMA ExchangeMoves ==
  ASSUME McpInv, NEW e \in Exchange, exchange[e].state # "streaming",
         NEW r \in [state : {"reading", "done"}, request : Request \cup {None}],
         r.state = "reading" => r.request \in Request,
         exchange' = [exchange EXCEPT ![e] = r], UNCHANGED <<sessions, pruneDue, open, socket, running>>
  PROVE  McpInv'
<1>1. McpType'
  BY DEF McpInv, McpType
<1>2. Known'
  BY DEF McpInv, McpType, Known
<1> QED BY <1>1, <1>2 DEF McpInv

\* A response that closes takes its stream along.
LEMMA McpResponseCloses == ASSUME McpInv, NEW e \in Exchange, Mcp!ResponseCloses(e) PROVE McpInv'
<1>1. /\ running = None /\ UNCHANGED <<pruneDue, socket, running>>
      /\ exchange' = [exchange EXCEPT ![e].state = "done"]
      /\ sessions' = Mcp!DetachSse(sessions, {<<e, 1>>}) /\ open' = open \ {<<e, 1>>}
  BY DEF Mcp!ResponseCloses
<1>2. Belong(sessions, open)'
  BY <1>1, DetachBelongs DEF McpInv
<1>3. McpType' /\ \A f \in Exchange \ {e} : exchange'[f] = exchange[f]
  BY <1>1 DEF McpInv, McpType
<1>4. Known'
  BY <1>1, <1>3 DEF McpInv, Known
<1>5. \A k \in Socket : AtRest(socket[k], open, k) => AtRest(socket[k], open', k)
  <2> SUFFICES ASSUME NEW k \in Socket, AtRest(socket[k], open, k) PROVE AtRest(socket[k], open', k)
    OBVIOUS
  <2>1. \A c \in open : c[1] = k => c \in open'
    BY <1>1, StreamsAssumption
  <2> QED BY <2>1, OthersRest
<1> QED BY <1>1, <1>2, <1>3, <1>4, <1>5 DEF McpInv

\* A request the router handles ends the sockets whose streams it cuts.
LEMMA RouteRests ==
  ASSUME McpInv, NEW req, NEW conn \in Conn \ open, NEW new \in Mcp!NewIds(req), Mcp!Route(req, conn, new),
         NEW j \in Socket, NEW s, s = [socket[j] EXCEPT !.ended = Mcp!Ended(j)]
  PROVE  /\ s \in Sock /\ InOrder(s) /\ Numbered(s) /\ s.closed = socket[j].closed /\ s.buffer = socket[j].buffer
         /\ s.pending = socket[j].pending /\ s.answered = socket[j].answered /\ s.sent = socket[j].sent
         /\ AtRest(socket[j], open, j) => AtRest(s, open', j)
<1>1. socket[j] \in Sock /\ InOrder(socket[j]) /\ Numbered(socket[j])
  BY DEF McpInv, McpType
<1>2. Mcp!Ended(j) \in BOOLEAN
  BY <1>1 DEF Mcp!Ended, Sock
<1>3. /\ s \in Sock /\ s.closed = socket[j].closed /\ s.ended = Mcp!Ended(j) /\ s.buffer = socket[j].buffer
      /\ s.pending = socket[j].pending /\ s.answered = socket[j].answered /\ s.sent = socket[j].sent
  BY <1>1, <1>2 DEF Sock
<1>4. InOrder(s) /\ Numbered(s)
  BY <1>1, <1>3 DEF InOrder, Numbered, Follow
<1>5. ASSUME AtRest(socket[j], open, j), ~s.ended, \A c \in open' : c[1] # j
      PROVE  ~socket[j].ended /\ \A c \in open : c[1] # j
  <2>1. ~socket[j].ended /\ \A n \in 1..MaxRequests : <<j, n>> \notin Mcp!Cut(sessions')
    BY <1>3, <1>5 DEF Mcp!Ended
  <2>2. open \ Mcp!Cut(sessions') \subseteq open'
    BY RouteBelongs DEF McpInv
  <2>3. ASSUME NEW c \in open, c[1] = j PROVE FALSE
    <3>1. c \in Mcp!Cut(sessions')
      BY <1>5, <2>2, <2>3
    <3>2. \E n \in 1..MaxRequests : c = <<j, n>>
      BY <2>3, StreamsAssumption DEF McpInv, Belong, Conn
    <3> QED BY <2>1, <3>1, <3>2
  <2> QED BY <2>1, <2>3
<1>6. AtRest(socket[j], open, j) => AtRest(s, open', j)
  BY <1>3, <1>5 DEF AtRest
<1> QED BY <1>3, <1>4, <1>6

\* The exchanges whose streams are still open go on as they were.
LEMMA RouteExchanges ==
  ASSUME McpInv, NEW f \in Exchange
  PROVE  /\ Mcp!EndedExchanges \in [Exchange -> [state : {"idle", "reading", "calling", "streaming", "done"},
                                                 request : Request \cup {None}]]
         /\ Mcp!EndedExchanges[f].state = "reading" => Mcp!EndedExchanges[f].request \in Request
         /\ <<f, 1>> \notin Mcp!Cut(sessions') => Mcp!EndedExchanges[f] = exchange[f]
<1> DEFINE X == Mcp!EndedExchanges
<1>1. X = [e \in Exchange |-> IF <<e, 1>> \in Mcp!Cut(sessions') THEN [exchange[e] EXCEPT !.state = "done"]
                                                                  ELSE exchange[e]]
  BY DEF Mcp!EndedExchanges
<1> HIDE DEF X
<1>2. \A e \in Exchange : exchange[e] \in [state : {"idle", "reading", "calling", "streaming", "done"},
                                           request : Request \cup {None}]
  BY DEF McpInv, McpType
<1>3. \A e \in Exchange : /\ X[e] \in [state : {"idle", "reading", "calling", "streaming", "done"},
                                       request : Request \cup {None}]
                          /\ X[e].state = "reading" => X[e] = exchange[e]
  BY <1>1, <1>2
<1> QED BY <1>1, <1>3 DEF X, McpInv, McpType

\* A request of an exchange leaves the sockets in order; those whose streams
\* it cuts are ended.
LEMMA McpHandled ==
  ASSUME McpInv, running = None, NEW e \in Exchange, exchange[e].state \in {"idle", "reading"},
         NEW req \in Request, Mcp!Handled(e, req)
  PROVE  McpInv'
<1>1. PICK new \in Mcp!NewIds(req) : Mcp!Route(req, <<e, 1>>, new)
  BY DEF Mcp!Handled
<1>2. <<e, 1>> \in Conn \ open
  BY DEF McpInv, Known, Conn
<1> DEFINE state == CASE Mcp!Calls(Mcp!AfterPrune, req)   -> "calling"
                      [] Mcp!Streams(Mcp!AfterPrune, req) -> "streaming"
                      [] OTHER -> "done"
<1>3. /\ exchange' = [Mcp!EndedExchanges EXCEPT ![e] = [state |-> state, request |-> req]]
      /\ socket' = [j \in Socket |-> [socket[j] EXCEPT !.ended = Mcp!Ended(j)]]
      /\ UNCHANGED running
  BY DEF Mcp!Handled
<1>4. /\ Belong(sessions', open') /\ pruneDue' = FALSE
      /\ open' = (open \ Mcp!Cut(sessions')) \cup (IF Mcp!Streams(Mcp!AfterPrune, req) THEN {<<e, 1>>} ELSE {})
      /\ Mcp!Streams(Mcp!AfterPrune, req) => req.kind = "get"
  BY <1>1, <1>2, RouteBelongs DEF McpInv
<1>5. /\ state \in {"calling", "streaming", "done"}
      /\ Mcp!Streams(Mcp!AfterPrune, req) => state = "streaming"
  BY <1>4 DEF Mcp!Calls
<1> HIDE DEF state
<1>6. /\ exchange' \in [Exchange -> [state : {"idle", "reading", "calling", "streaming", "done"},
                                     request : Request \cup {None}]]
      /\ \A f \in Exchange : exchange'[f].state = "reading" => exchange'[f].request \in Request
      /\ exchange'[e].state = state
      /\ \A f \in Exchange \ {e} : <<f, 1>> \notin Mcp!Cut(sessions') => exchange'[f] = exchange[f]
  <2>1. [state |-> state, request |-> req] \in [state : {"calling", "streaming", "done"}, request : Request]
    BY <1>5
  <2> QED BY <1>3, <2>1, RouteExchanges
<1>7. \A j \in Socket : /\ socket'[j] \in Sock /\ InOrder(socket'[j]) /\ Numbered(socket'[j])
                        /\ socket'[j].closed = socket[j].closed /\ socket'[j].answered = socket[j].answered
                        /\ AtRest(socket[j], open, j) => AtRest(socket'[j], open', j)
  BY <1>1, <1>2, <1>3, RouteRests
<1>8. McpType'
  <2>1. socket' = [j \in Socket |-> socket'[j]]
    BY <1>3
  <2>2. socket' \in [Socket -> Sock]
    BY <1>7, <2>1
  <2> QED BY <1>3, <1>4, <1>6, <2>2 DEF McpInv, McpType
<1>9. Known'
  <2>1. \A k \in Socket, n \in 1..MaxRequests : <<k, n>> \in open' => <<k, n>> \in open
    BY <1>4, StreamsAssumption
  <2>2. ASSUME NEW f \in Exchange, <<f, 1>> \in open' PROVE exchange'[f].state = "streaming"
    <3>1. CASE f = e
      BY <1>2, <1>4, <1>5, <1>6, <2>2, <3>1
    <3>2. CASE f # e
      BY <1>4, <1>6, <2>2, <3>2 DEF McpInv, Known
    <3> QED BY <3>1, <3>2
  <2> QED BY <1>7, <2>1, <2>2 DEF McpInv, Known
<1> QED BY <1>3, <1>4, <1>7, <1>8, <1>9, StreamsAssumption DEF McpInv

\* Every step of the HTTP server keeps the invariant.
LEMMA McpExchanges ==
  ASSUME McpInv, NEW e \in Exchange,
         Mcp!HttpRequest(e) \/ Mcp!BodyRead(e) \/ Mcp!BodyRejected(e) \/ Mcp!HttpToolDone(e) \/ Mcp!ResponseCloses(e)
  PROVE  McpInv'
<1>1. CASE Mcp!HttpRequest(e)
  <2>1. PICK req \in Request :
          IF req.kind \in Mcp!Posts
          THEN /\ exchange' = [exchange EXCEPT ![e] = [state |-> "reading", request |-> req]]
               /\ UNCHANGED <<sessions, pruneDue, open, socket, running>>
          ELSE Mcp!Handled(e, req)
    BY <1>1 DEF Mcp!HttpRequest
  <2>2. running = None /\ exchange[e].state = "idle"
    BY <1>1 DEF Mcp!HttpRequest
  <2>3. CASE req.kind \in Mcp!Posts
    BY <2>1, <2>2, <2>3, ExchangeMoves
  <2> QED BY <2>1, <2>2, <2>3, McpHandled
<1>2. CASE Mcp!BodyRead(e)
  BY <1>2, McpHandled DEF Mcp!BodyRead, McpInv, McpType
<1>3. CASE Mcp!BodyRejected(e) \/ Mcp!HttpToolDone(e)
  <2>1. /\ exchange[e].state # "streaming" /\ exchange' = [exchange EXCEPT ![e].state = "done"]
        /\ UNCHANGED <<sessions, pruneDue, open, socket, running>>
    BY <1>3 DEF Mcp!BodyRejected, Mcp!HttpToolDone
  <2>2. [exchange[e] EXCEPT !.state = "done"] \in [state : {"done"}, request : Request \cup {None}]
    BY DEF McpInv, McpType
  <2> QED BY <2>1, <2>2, ExchangeMoves DEF McpInv, McpType
<1>4. CASE Mcp!ResponseCloses(e)
  BY <1>4, McpResponseCloses
<1> QED BY <1>1, <1>2, <1>3, <1>4

\* One turn of the loop takes the next request in line, or finds none whole.
LEMMA McpTurn == ASSUME McpInv, NEW k \in Socket, Mcp!Turn(k) PROVE McpInv'
<1> DEFINE s == socket[k]
           first == Head(s.buffer)
           taken == [s EXCEPT !.buffer = Tail(s.buffer)]
           req == first.req
           opens == Mcp!Streams(Mcp!AfterPrune, req)
           ends == req.close \/ Mcp!OneEvent(Mcp!AfterPrune, req)
           closes == req.close /\ ~opens
           u == [taken EXCEPT !.ended = Mcp!Ended(k)]
           w == Mcp!Written(u, first.n, ends, closes)
           nothing == s.closed \/ s.buffer = <<>> \/ (first.part /\ req.kind # "unreadable")
           answers == /\ socket' = [j \in Socket |-> IF j = k THEN w ELSE [socket[j] EXCEPT !.ended = Mcp!Ended(j)]]
                      /\ running' = Mcp!LoopOn(k, ~w.closed /\ ~opens)
           calls == /\ socket' = [socket EXCEPT ![k] = [taken EXCEPT !.pending = first]]
                    /\ running' = None
<1>1. /\ running = k
      /\ \/ nothing /\ running' = None /\ UNCHANGED <<sessions, pruneDue, open, socket, exchange>>
         \/ /\ ~nothing /\ socket' = [socket EXCEPT ![k] = Mcp!Written(s, first.n, TRUE, TRUE)]
            /\ running' = None /\ UNCHANGED <<sessions, pruneDue, open, exchange>>
         \/ /\ ~nothing /\ \E new \in Mcp!NewIds(req) : Mcp!Route(req, <<k, first.n>>, new)
            /\ exchange' = Mcp!EndedExchanges
            /\ IF Mcp!Calls(Mcp!AfterPrune, req) THEN calls ELSE answers
  BY DEF Mcp!Turn
<1>2. /\ s \in Sock /\ InOrder(s) /\ Numbered(s) /\ s.pending = None
  BY <1>1 DEF McpInv, McpType
<1> DEFINE a == Len(s.answered)
<1>3. a \in Nat
  BY <1>2 DEF Sock
<1>4. ~nothing => Follow(s, a) /\ ~s.closed /\ s.buffer # <<>>
  BY <1>2 DEF Numbered
<1>5. ~nothing => /\ first \in Chunk /\ first.n = a + 1 /\ first.n <= s.sent
                  /\ taken \in Sock /\ Follow(taken, a + 1)
  BY <1>2, <1>3, <1>4, HeadIsNext
<1>6. CASE nothing /\ running' = None /\ UNCHANGED <<sessions, pruneDue, open, socket, exchange>>
  <2>1. AtRest(s, open, k)
    BY <1>6 DEF AtRest
  <2>2. socket' = [socket EXCEPT ![k] = s]
    BY <1>6 DEF McpInv, McpType
  <2>3. Len(s.answered) >= Len(s.answered)
    BY <1>3
  <2>4. s = socket[k] /\ running' # k
    BY <1>6, StreamsAssumption
  <2> HIDE DEF s, nothing, a
  <2>5. ~s.closed => ~socket[k].closed /\ Len(s.answered) >= Len(socket[k].answered)
    BY <2>3, <2>4
  <2>6. running \in {k, None} /\ running' \in {k, None} /\ UNCHANGED <<sessions, pruneDue, open, exchange>>
    BY <1>1, <1>6
  <2> QED BY <1>2, <2>1, <2>2, <2>4, <2>5, <2>6, SocketMoves
<1>7. CASE /\ ~nothing /\ socket' = [socket EXCEPT ![k] = Mcp!Written(s, first.n, TRUE, TRUE)]
           /\ running' = None /\ UNCHANGED <<sessions, pruneDue, open, exchange>>
  <2> DEFINE v == Mcp!Written(s, first.n, TRUE, TRUE)
  <2>1. first.n \in Nat /\ first.n = a + 1 /\ first.n <= s.sent
    BY <1>3, <1>5, <1>7
  <2>2. /\ v \in Sock /\ InOrder(v) /\ Numbered(v) /\ v.closed
    <3> DEFINE n == first.n
    <3>1. n \in Nat /\ (~s.closed => n = Len(s.answered) + 1 /\ n <= s.sent /\ (TRUE \/ Follow(s, n)))
      BY <2>1
    <3>2. v = Mcp!Written(s, n, TRUE, TRUE) /\ TRUE \in BOOLEAN
      OBVIOUS
    <3> HIDE DEF first, s, v, n
    <3> QED BY <1>2, <3>1, <3>2, WrittenInOrder
  <2>3. AtRest(v, open, k)
    BY <2>2 DEF AtRest
  <2> HIDE DEF v
  <2>4. socket' = [socket EXCEPT ![k] = v]
    BY <1>7 DEF v
  <2> HIDE DEF s, nothing, first
  <2> QED BY <1>1, <1>7, <2>2, <2>3, <2>4, SocketMoves, StreamsAssumption
<1>8. ASSUME ~nothing, NEW new \in Mcp!NewIds(req), Mcp!Route(req, <<k, first.n>>, new),
             exchange' = Mcp!EndedExchanges
      PROVE  /\ Mcp!Calls(Mcp!AfterPrune, req) /\ calls => McpInv'
             /\ answers => McpInv'
  <2>1. first \in Chunk /\ first.n \in Nat /\ first.n = a + 1 /\ first.n <= s.sent /\ taken \in Sock /\ Follow(taken, a + 1)
    BY <1>3, <1>5, <1>8
  <2> DEFINE n == first.n
             conn == <<k, n>>
  <2>2. n \in 1..MaxRequests
    BY <1>2, <1>3, <2>1, StreamsAssumption, SMTT(20) DEF Sock
  <2>3. conn \in Conn \ open
    <3>1. ~(n <= a)
      BY <1>3, <2>1
    <3> QED BY <1>4, <1>8, <2>2, <3>1 DEF McpInv, Known, Conn
  <2> HIDE DEF s, first, taken, req, opens, ends, closes, u, w, nothing, answers, calls, a, n
  <2>4. /\ Belong(sessions', open') /\ pruneDue' = FALSE
        /\ open' = (open \ Mcp!Cut(sessions')) \cup (IF opens THEN {conn} ELSE {})
        /\ req.kind = "call" => Mcp!Cut(sessions') = {}
        /\ opens => req.kind = "get"
    BY <1>8, <2>3, RouteBelongs DEF McpInv, opens, n
  <2>5. \A j \in Socket : LET t == [socket[j] EXCEPT !.ended = Mcp!Ended(j)]
                          IN  /\ t \in Sock /\ InOrder(t) /\ Numbered(t)
                              /\ t.closed = socket[j].closed /\ t.answered = socket[j].answered
                              /\ AtRest(socket[j], open, j) => AtRest(t, open', j)
    BY <1>8, <2>3, RouteRests DEF n
  <2>6. \A j \in Socket \ {k} : AtRest(socket[j], open, j) /\ InOrder(socket[j]) /\ Numbered(socket[j])
    BY <1>1 DEF McpInv
  <2>7. /\ exchange' \in [Exchange -> [state : {"idle", "reading", "calling", "streaming", "done"},
                                       request : Request \cup {None}]]
        /\ \A f \in Exchange : /\ exchange'[f].state = "reading" => exchange'[f].request \in Request
                               /\ <<f, 1>> \in open' => exchange'[f].state = "streaming"
    <3>1. \A f \in Exchange : <<f, 1>> \in open' => <<f, 1>> \in open \ Mcp!Cut(sessions')
      BY <2>4, StreamsAssumption
    <3>2. \A f \in Exchange : /\ exchange'[f].state = "reading" => exchange'[f].request \in Request
                              /\ <<f, 1>> \notin Mcp!Cut(sessions') => exchange'[f] = exchange[f]
      BY <1>8, RouteExchanges
    <3>3. Exchange # {} => exchange' \in [Exchange -> [state : {"idle", "reading", "calling", "streaming", "done"},
                                                       request : Request \cup {None}]]
      BY <1>8, RouteExchanges
    <3>4. Exchange = {} => exchange' \in [Exchange -> [state : {"idle", "reading", "calling", "streaming", "done"},
                                                       request : Request \cup {None}]]
      BY <1>8 DEF Mcp!EndedExchanges
    <3> QED BY <3>1, <3>2, <3>3, <3>4 DEF McpInv, Known
  <2>8. ASSUME Mcp!Calls(Mcp!AfterPrune, req), calls PROVE McpInv'
    <3> DEFINE t == [taken EXCEPT !.pending = first]
    <3>1. Mcp!Cut(sessions') = {} /\ open' = open
      BY <2>4, <2>8 DEF Mcp!Calls
    <3>2. /\ t \in Sock /\ t.pending = first /\ t.buffer = taken.buffer /\ t.sent = taken.sent
          /\ t.closed = taken.closed /\ t.answered = taken.answered
      BY <2>1 DEF Sock
    <3>3. taken.answered = s.answered /\ taken.sent = s.sent /\ taken.closed = s.closed
      BY <1>2 DEF taken, Sock
    <3> HIDE DEF t
    <3>4. first # None
      BY <2>1, StreamsAssumption DEF Chunk
    <3>5. InOrder(t)
      BY <1>2, <3>2, <3>3 DEF InOrder
    <3>6. Numbered(t)
      <4>1. Follow(t, a + 1)
        BY <2>1, <3>2 DEF Follow
      <4> QED BY <2>1, <3>2, <3>3, <3>4, <4>1 DEF Numbered, a
    <3>7. AtRest(t, open', k)
      BY <3>2, <3>4 DEF AtRest
    <3>8. socket' = [socket EXCEPT ![k] = t] /\ running' = None
      BY <2>8 DEF calls, t
    <3>9. McpType'
      BY <2>4, <2>7, <3>2, <3>8 DEF McpInv, McpType
    <3>10. Known'
      BY <2>7, <3>1, <3>2, <3>3, <3>8 DEF McpInv, McpType, Known, s
    <3>11. \A j \in Socket : /\ InOrder(socket'[j]) /\ Numbered(socket'[j])
                             /\ AtRest(socket'[j], open', j)
      BY <2>6, <3>1, <3>5, <3>6, <3>7, <3>8 DEF McpInv, McpType
    <3> QED BY <2>4, <3>8, <3>9, <3>10, <3>11, StreamsAssumption DEF McpInv
  <2>9. ASSUME answers PROVE McpInv'
    <3>1. /\ u \in Sock /\ u.pending = None /\ u.closed = s.closed /\ u.answered = s.answered /\ u.sent = s.sent
          /\ Follow(u, a + 1)
      <4>1. Mcp!Ended(k) \in BOOLEAN
        BY <1>2 DEF Mcp!Ended, Sock, s
      <4>2. taken.pending = None /\ taken.closed = s.closed /\ taken.answered = s.answered /\ taken.sent = s.sent
        BY <1>2 DEF taken, Sock
      <4>3. /\ u \in Sock /\ u.pending = taken.pending /\ u.closed = taken.closed /\ u.answered = taken.answered
            /\ u.sent = taken.sent /\ u.buffer = taken.buffer
        BY <2>1, <4>1 DEF u, Sock
      <4> QED BY <2>1, <4>2, <4>3 DEF Follow
    <3>2. ends \in BOOLEAN /\ closes \in BOOLEAN
      BY DEF ends, closes
    <3>3. InOrder(u)
      BY <1>2, <3>1 DEF InOrder
    <3>4. /\ w \in Sock /\ InOrder(w) /\ Numbered(w) /\ w.pending = None
          /\ ~w.closed => Len(w.answered) = n
      BY <2>1, <3>1, <3>2, <3>3, WrittenInOrder DEF w, n, a
    <3>5. /\ socket' = [j \in Socket |-> IF j = k THEN w ELSE [socket[j] EXCEPT !.ended = Mcp!Ended(j)]]
          /\ running' \in {k, None} /\ (running' # k => w.closed \/ opens)
      BY <2>9 DEF answers, Mcp!LoopOn
    <3>6. /\ socket'[k] = w
          /\ \A j \in Socket \ {k} : /\ socket'[j] \in Sock /\ InOrder(socket'[j]) /\ Numbered(socket'[j])
                                     /\ socket'[j].closed = socket[j].closed /\ socket'[j].answered = socket[j].answered
                                     /\ AtRest(socket'[j], open', j)
      BY <2>5, <2>6, <3>5
    <3>7. running' # k => AtRest(w, open', k)
      <4>1. opens => conn \in open' /\ conn[1] = k
        BY <2>4
      <4> QED BY <3>5, <4>1 DEF AtRest
    <3>8. McpType'
      <4>1. socket' = [j \in Socket |-> socket'[j]]
        BY <3>5
      <4>2. socket' \in [Socket -> Sock]
        BY <3>4, <3>6, <4>1
      <4> QED BY <2>4, <2>7, <3>5, <4>2 DEF McpInv, McpType
    <3>9. Known'
      <4>1. ASSUME NEW j \in Socket, NEW m \in 1..MaxRequests, <<j, m>> \in open', ~socket'[j].closed
            PROVE  m <= Len(socket'[j].answered)
        <5>1. CASE j # k
          BY <2>4, <3>6, <4>1, <5>1 DEF McpInv, Known
        <5>2. CASE j = k
          <6>1. <<k, m>> \in open \/ m = n
            BY <2>4, <4>1, <5>2
          <6>2. ~s.closed
            BY <1>4, <1>8 DEF s, a
          <6>3. m <= n
            <7>1. <<k, m>> \in open => m <= a
              BY <6>2 DEF McpInv, Known, s, a
            <7> QED BY <1>3, <2>1, <6>1, <7>1 DEF n
          <6> QED BY <3>4, <3>6, <4>1, <5>2, <6>3
        <5> QED BY <5>1, <5>2
      <4> QED BY <2>7, <4>1 DEF Known
    <3>10. \A j \in Socket : running' = j => j = k
      BY <3>5, StreamsAssumption
    <3> QED BY <2>4, <3>4, <3>6, <3>7, <3>8, <3>9, <3>10 DEF McpInv
  <2> QED BY <2>8, <2>9
<1> HIDE DEF s, first, taken, req, opens, ends, closes, u, w, nothing, answers, calls, a
<1> QED BY <1>1, <1>6, <1>7, <1>8

\* Every step of the two servers keeps the invariant.
LEMMA McpStep == McpInv /\ Mcp!Next => McpInv'
<1> SUFFICES ASSUME McpInv, Mcp!Next PROVE McpInv'
  OBVIOUS
<1>1. ASSUME NEW k \in Socket,
             Mcp!Data(k) \/ Mcp!Turn(k) \/ Mcp!ToolDone(k) \/ Mcp!SocketCloses(k) \/ Mcp!SocketError(k)
      PROVE  McpInv'
  BY <1>1, McpData, McpTurn, McpToolDone, McpSocketCloses, McpSocketError
<1> QED BY <1>1, McpExchanges, McpTimePasses DEF Mcp!Next

----------------------------------------------------------------------------
(* The dashboard                                                           *)

Page ==
    [status : {"loading", "success", "empty", "error"}, selected : Project \cup {None}, last : Int,
     anchor : Project \cup {Zero}, stream : {"idle", "connecting", "open", "reconnecting"},
     error : {None, "project_load_failed", "stream_unavailable"}]
EventSource ==
    [project : Project, url : Int, lastId : Int \cup {None}, state : {"connecting", "open"}]

\* Something is selected exactly when the projects are loaded; the route of a
\* stream that is open has an event to send.
WebInv ==
    /\ page \in Page /\ revision \in [Project -> Int]
    /\ page.status = "success" <=> page.selected # None
    /\ Web!PageIsOfTheProject
    /\ source # None => source \in EventSource /\ (source.state = "open" => route \in Int)

\* The page before the projects are loaded.
LEMMA WebInit == Web!Init => WebInv
<1> SUFFICES ASSUME Web!Init PROVE WebInv
  OBVIOUS
<1> DEFINE p == Web!Nothing("loading", None)
<1>1. p \in Page /\ p.status = "loading" /\ p.selected = None
  BY DEF Web!Nothing, Page
<1>2. page = p /\ source = None /\ revision = [q \in Project |-> First[q]]
  BY DEF Web!Init
<1> HIDE DEF p
<1> QED BY <1>1, <1>2, PageAssumption DEF WebInv, Web!PageIsOfTheProject

\* The page of a project that is loaded or selected.
LEMMA ShownIsOfTheProject ==
  ASSUME WebInv, NEW q \in Project, NEW new \in Page,
         new.status = "success", new.selected = q, new.last = revision[q], new.anchor = Web!Anchor(q),
         page' = new, UNCHANGED <<revision, source, route>>
  PROVE  WebInv'
BY PageAssumption DEF WebInv, Web!PageIsOfTheProject, Web!Anchor

\* Of the page only what it says of the stream changes, and the stream.
LEMMA StreamMoves ==
  ASSUME WebInv, NEW new \in Page,
         new.status = page.status, new.selected = page.selected, new.last = page.last, new.anchor = page.anchor,
         page' = new, UNCHANGED revision,
         source' # None => source' \in EventSource /\ (source'.state = "open" => route' \in Int)
  PROVE  WebInv'
BY DEF WebInv, Web!PageIsOfTheProject, Web!Anchor

\* Every step keeps the page with its project and takes no revision back: an
\* event is applied only to the project that is selected, and only when it is
\* newer than what the page shows, which is the revision the page has of it.
LEMMA WebStep ==
  ASSUME WebInv, Web!Next
  PROVE  WebInv' /\ \A q \in Project : revision'[q] >= revision[q]
<1>1. \A q \in Project : revision[q] \in Int
  BY DEF WebInv
<1>2. CASE Web!Load
  <2>1. UNCHANGED <<revision, source, route>>
    BY <1>2 DEF Web!Load
  <2>2. CASE \E q \in Project : page' = Web!Shown(q)
    <3>1. PICK q \in Project : page' = Web!Shown(q)
      BY <2>2
    <3> DEFINE new == Web!Shown(q)
    <3>2. new \in Page /\ new.status = "success" /\ new.selected = q /\ new.last = revision[q] /\ new.anchor = Web!Anchor(q)
      BY <1>1 DEF Web!Shown, Page, Web!Anchor
    <3>3. page' = new
      BY <3>1
    <3> HIDE DEF new
    <3> QED BY <1>1, <2>1, <3>2, <3>3, ShownIsOfTheProject
  <2>3. ASSUME NEW status \in {"empty", "error"}, NEW error \in {None, "project_load_failed"},
               page' = Web!Nothing(status, error)
        PROVE  WebInv'
    <3> DEFINE new == Web!Nothing(status, error)
    <3>1. new \in Page /\ new.status # "success" /\ new.selected = None
      BY DEF Web!Nothing, Page
    <3>2. page' = new
      BY <2>3
    <3> HIDE DEF new
    <3> QED BY <2>1, <3>1, <3>2 DEF WebInv, Web!PageIsOfTheProject
  <2> QED BY <1>1, <1>2, <2>1, <2>2, <2>3 DEF Web!Load
<1>3. ASSUME NEW q \in Project, Web!Select(q) PROVE WebInv' /\ UNCHANGED revision
  <2> DEFINE new == [Web!Shown(q) EXCEPT !.stream = "connecting"]
  <2>1. new \in Page /\ new.status = "success" /\ new.selected = q /\ new.last = revision[q] /\ new.anchor = Web!Anchor(q)
    BY <1>1 DEF Web!Shown, Page, Web!Anchor
  <2>2. page' = new /\ UNCHANGED <<revision, source, route>>
    BY <1>3 DEF Web!Select
  <2> HIDE DEF new
  <2> QED BY <2>1, <2>2, ShownIsOfTheProject
<1>4. CASE Web!Effect
  <2>1. CASE page.selected = None
    BY <1>4, <2>1, StreamMoves DEF Web!Effect, WebInv
  <2>2. CASE page.selected # None
    <3> DEFINE new == [page EXCEPT !.stream = "connecting"]
               s == Web!Stream(page.selected, page.last)
    <3>1. /\ new \in Page /\ new.status = page.status /\ new.selected = page.selected
          /\ new.last = page.last /\ new.anchor = page.anchor
      BY DEF WebInv, Page
    <3>2. s \in EventSource /\ s.state = "connecting"
      BY <2>2 DEF Web!Stream, EventSource, WebInv, Page
    <3>3. page' = new /\ source' = s /\ UNCHANGED revision
      BY <1>4, <2>2 DEF Web!Effect
    <3>4. source' # None => source' \in EventSource /\ (source'.state = "open" => route' \in Int)
      BY <3>2, <3>3
    <3> HIDE DEF new, s
    <3> QED BY <1>1, <3>1, <3>3, <3>4, StreamMoves
  <2>3. UNCHANGED revision
    BY <1>4 DEF Web!Effect
  <2> QED BY <1>1, <2>1, <2>2, <2>3
<1>5. CASE Web!Connects
  <2>1. source \in EventSource
    BY <1>5 DEF Web!Connects, WebInv
  <2> DEFINE new == IF page.selected # source.project THEN page
                    ELSE [page EXCEPT !.stream = "open",
                                      !.error = IF @ = "stream_unavailable" THEN None ELSE @]
             s == [source EXCEPT !.state = "open"]
             after == IF source.lastId = None THEN source.url ELSE source.lastId
  <2>2. /\ new \in Page /\ new.status = page.status /\ new.selected = page.selected
        /\ new.last = page.last /\ new.anchor = page.anchor
    BY DEF WebInv, Page
  <2>3. s \in EventSource
    BY <2>1 DEF EventSource
  <2>4. Web!StartAt(source.project, after) \in Int
    <3>1. after \in Int /\ First[source.project] \in Int
      BY <2>1, PageAssumption DEF EventSource
    <3> HIDE DEF after
    <3> QED BY <3>1 DEF Web!StartAt, Web!Larger
  <2>5. page' = new /\ source' = s /\ route' = Web!StartAt(source.project, after) /\ UNCHANGED revision
    BY <1>5 DEF Web!Connects
  <2> HIDE DEF new, s, after
  <2> QED BY <1>1, <2>2, <2>3, <2>4, <2>5, StreamMoves
<1>6. CASE Web!Event
  <2> DEFINE number == Web!Payload(source.project, route)
             q == source.project
             s == [source EXCEPT !.lastId = route]
  <2>1. source \in EventSource /\ q \in Project /\ route \in Int
    BY <1>6 DEF Web!Event, WebInv, EventSource
  <2>2. number \in Int
    BY <2>1, PageAssumption DEF Web!Payload, Web!Larger
  <2>3. s \in EventSource /\ source' = s /\ route' = route + 1 /\ route' \in Int
    BY <1>6, <2>1 DEF Web!Event, Web!Push, EventSource
  <2>4. CASE Web!ShouldApply(q, number)
    <3> DEFINE new == [page EXCEPT !.stream = "open", !.error = None, !.last = number,
                                   !.anchor = IF q \in Flat THEN Zero ELSE @]
    <3>1. page.selected = q /\ number > page.last /\ page.status = "success" /\ page.last = revision[q]
          /\ page.anchor = Web!Anchor(q)
      BY <2>1, <2>4, PageAssumption DEF Web!ShouldApply, WebInv, Web!PageIsOfTheProject
    <3>2. /\ new \in Page /\ new.status = page.status /\ new.selected = page.selected
          /\ new.last = number /\ new.anchor = Web!Anchor(q)
      BY <2>2, <3>1 DEF WebInv, Page, Web!Anchor
    <3>3. page' = new /\ revision' = [revision EXCEPT ![q] = number]
      BY <1>6, <2>4 DEF Web!Event, Web!Upsert
    <3> HIDE DEF new, q, number, s
    <3>4. revision' \in [Project -> Int] /\ revision'[q] = number /\ \A r \in Project \ {q} : revision'[r] = revision[r]
      BY <2>1, <2>2, <3>3 DEF WebInv
    <3>5. \A r \in Project : revision'[r] >= revision[r]
      <4>1. revision'[q] >= revision[q]
        BY <1>1, <2>1, <2>2, <3>1, <3>4
      <4> QED BY <1>1, <3>4, <4>1
    <3>6. WebInv'
      BY <2>1, <2>3, <3>1, <3>2, <3>3, <3>4 DEF WebInv, Web!PageIsOfTheProject, Web!Anchor
    <3> QED BY <3>5, <3>6
  <2>5. CASE ~Web!ShouldApply(q, number)
    <3>1. page' = page /\ UNCHANGED revision
      BY <1>6, <2>5 DEF Web!Event
    <3> HIDE DEF s
    <3> QED BY <1>1, <2>3, <3>1, StreamMoves DEF WebInv
  <2> QED BY <2>4, <2>5
<1>7. CASE Web!Breaks
  <2> DEFINE new == IF page.selected # source.project THEN page
                    ELSE [page EXCEPT !.stream = "reconnecting", !.error = "stream_unavailable"]
             s == [source EXCEPT !.state = "connecting"]
  <2>1. /\ new \in Page /\ new.status = page.status /\ new.selected = page.selected
        /\ new.last = page.last /\ new.anchor = page.anchor
    BY DEF WebInv, Page
  <2>2. s \in EventSource /\ s.state = "connecting"
    BY <1>7 DEF Web!Breaks, WebInv, EventSource
  <2>3. page' = new /\ source' = s /\ UNCHANGED revision
    BY <1>7 DEF Web!Breaks
  <2> HIDE DEF new, s
  <2> QED BY <1>1, <2>1, <2>2, <2>3, StreamMoves
<1> QED BY <1>1, <1>2, <1>3, <1>4, <1>5, <1>6, <1>7 DEF Web!Next, Web!Load

----------------------------------------------------------------------------
(* The behaviours TLC checks: of one part each                             *)

MCInv ==
    /\ part = "projects" => ProjectsInv
    /\ part = "blobs" => BlobsInv
    /\ part = "mcp" => McpInv
    /\ part = "web" => WebInv

\* What says nothing of a variable holds after a step that leaves the others.
LEMMA PartsStutter ==
  /\ ProjectsInv /\ UNCHANGED <<pvars, svars>> => ProjectsInv'
  /\ BlobsInv /\ UNCHANGED <<bvars, svars>> => BlobsInv'
  /\ McpInv /\ UNCHANGED mvars => McpInv'
  /\ WebInv /\ UNCHANGED dvars => WebInv'
<1>1. ProjectsInv /\ UNCHANGED <<pvars, svars>> => ProjectsInv'
  BY ProjectsFrame DEF pvars, svars
<1>2. ASSUME BlobsInv, UNCHANGED <<bvars, svars>> PROVE BlobsInv'
  <2>1. BlobsType'
    BY <1>2 DEF bvars, svars, BlobsInv, BlobsSafe, BlobsType, BlobSteps
  <2>2. /\ Written' = Written /\ Blobs!Running' = Blobs!Running
        /\ \A c \in Call : (Touched(c)' <=> Touched(c)) /\ (Blobs!Writing(c)' <=> Blobs!Writing(c))
    BY <1>2 DEF bvars, svars, Written, Touched, Blobs!Writing, Blobs!Running
  <2>3. WrittenBefore' /\ Blobs!AckedWritesStay' /\ OneObject'
    BY <1>2, <2>2 DEF bvars, svars, BlobsInv, BlobsSafe, WrittenBefore, Blobs!AckedWritesStay, OneObject, Blobs!At
  <2>4. \A S, x : IsLatest(S, x)' <=> IsLatest(S, x)
    BY <1>2 DEF bvars, svars, IsLatest
  <2>5. \A c \in Call : (Halfway(c)' <=> Halfway(c)) /\ (ReadSoFar(c)' <=> ReadSoFar(c))
    BY <1>2, <2>4 DEF bvars, svars, Halfway, ReadSoFar
  <2>6. InLine => InLine'
    <3>1. FileIsLatest => FileIsLatest'
      BY <1>2, <2>2 DEF bvars, svars, FileIsLatest, IsLatest
    <3>2. Alone => Alone'
      <4>1. Blobs!Running \subseteq Call
        BY DEF Blobs!Running
      <4> QED BY <1>2, <2>2, <4>1 DEF bvars, svars, Alone
    <3> QED BY <1>2, <2>2, <2>5, <3>1, <3>2 DEF bvars, svars, InLine
  <2> QED BY <1>2, <2>1, <2>3, <2>6 DEF bvars, svars, BlobsInv, BlobsSafe
<1>3. McpInv /\ UNCHANGED mvars => McpInv'
  BY DEF mvars, McpInv, McpType, Belong, Known
<1>4. WebInv /\ UNCHANGED dvars => WebInv'
  BY DEF dvars, WebInv, Web!PageIsOfTheProject
<1> QED BY <1>1, <1>2, <1>3, <1>4

\* Each part starts in its invariant.
LEMMA MCInvInit == MCInit => MCInv
BY ProjectsInit, BlobsInit, McpInit, WebInit DEF MCInit, MCInv

\* A step of one part keeps its invariant and leaves the others alone.
LEMMA MCInvStep == MCInv /\ [MCNext]_mcvars => MCInv'
<1> SUFFICES ASSUME MCInv, [MCNext]_mcvars PROVE MCInv'
  OBVIOUS
<1>1. part' = part
  BY DEF MCNext, mcvars
<1>2. part = "projects" => ProjectsInv'
  BY PartsStutter, ProjectsStep DEF MCInv, MCNext, mcvars
<1>3. part = "blobs" => BlobsInv'
  BY PartsStutter, BlobsStep DEF MCInv, MCNext, mcvars
<1>4. part = "mcp" => McpInv'
  BY PartsStutter, McpStep DEF MCInv, MCNext, mcvars
<1>5. part = "web" => WebInv'
  BY PartsStutter, WebStep DEF MCInv, MCNext, mcvars
<1> QED BY <1>1, <1>2, <1>3, <1>4, <1>5 DEF MCInv

\* The invariants of the parts hold in every reachable state.
THEOREM PartsKeepTheirInvariants == MCSpec => []MCInv
BY MCInvInit, MCInvStep, PTL DEF MCSpec

\* The gateway's project repository never sends a find, save or remove before
\* its table is made, whatever calls, failures, restarts and crashes overlap.
THEOREM StatementsAlwaysFindTheTable == MCSpec => []StatementsFindTheTable
<1>1. MCInv => StatementsFindTheTable
  BY DEF MCInv, ProjectsInv, StatementsFindTheTable
<1> QED BY <1>1, PartsKeepTheirInvariants, PTL

\* Neither a project nor a blob is ever again what an acknowledged write has
\* replaced, and a blob is read as it was written.
THEOREM WritesAlwaysStay == MCSpec => []WritesStay
<1>1. MCInv => WritesStay
  BY BlobsAgree DEF MCInv, ProjectsInv, WritesStay
<1> QED BY <1>1, PartsKeepTheirInvariants, PTL

\* The net server of the MCP answers the requests of a socket in the order
\* they came, each once, however they are cut into chunks and whatever the
\* router, the tool calls and the other peers do between them.
THEOREM AnswersAlwaysInOrder == MCSpec => []AnswersInOrder
<1>1. MCInv => AnswersInOrder
  BY McpInvImplies DEF MCInv, AnswersInOrder
<1> QED BY <1>1, PartsKeepTheirInvariants, PTL

\* A chunk that finds the net server's loop running is never forgotten: when
\* the loop has ended, no whole request is left in the buffer.
THEOREM NothingIsLeftBehind == MCSpec => []NothingLeftBehind
<1>1. MCInv => NothingLeftBehind
  BY McpInvImplies DEF MCInv, NothingLeftBehind
<1> QED BY <1>1, PartsKeepTheirInvariants, PTL

\* Every event stream that is open is one of a live session, whatever deletes,
\* expiries, replaced and broken connections come between.
THEOREM StreamsStayReachable == MCSpec => []StreamsAreReachable
<1>1. MCInv => StreamsAreReachable
  BY McpInvImplies DEF MCInv, StreamsAreReachable
<1> QED BY <1>1, PartsKeepTheirInvariants, PTL

\* After every step the dashboard shows the selected project as it has it, and
\* no step takes the dashboard back to an older revision of a project.
THEOREM PageAlwaysFollowsTheStream == MCSpec => PageFollowsTheStream
<1>1. MCInv /\ [MCNext]_mcvars => [part = "web" => Web!PageFollowsTheStream]_mcvars
  <2> SUFFICES ASSUME MCInv, MCNext, part = "web" PROVE Web!PageFollowsTheStream
    OBVIOUS
  <2>1. WebInv /\ Web!Next
    BY DEF MCInv, MCNext
  <2> QED BY <2>1, WebStep DEF WebInv, Web!PageFollowsTheStream
<1> QED BY <1>1, PartsKeepTheirInvariants, PTL DEF MCSpec, PageFollowsTheStream

----------------------------------------------------------------------------
(* The line decoder                                                        *)

\* Among some natural numbers there is a least one.
LEMMA Least ==
    ASSUME NEW S \in SUBSET Nat, NEW n \in S
    PROVE  \E m \in S : \A k \in S : m <= k
<1>1. PICK m \in S : \A k \in S : ~(<<k, m>> \in OpToRel(<, Nat))
  BY WFMin, NatLessThanWellFounded, Zenon
<1>2. \A k \in S : ~(k < m)
  BY <1>1, Zenon DEF OpToRel
<1> QED BY <1>2

\* What holds of 0 and is passed on from each number to the next holds of all.
LEMMA Upwards ==
    ASSUME NEW n \in Nat, NEW Good, 0 \in Good, \A i \in 1..n : i - 1 \in Good => i \in Good
    PROVE  \A i \in 0..n : i \in Good
<1> DEFINE Bad == {i \in 0..n : i \notin Good}
<1>1. SUFFICES ASSUME NEW i \in Bad PROVE FALSE
  OBVIOUS
<1>2. PICK m \in Bad : \A j \in Bad : m <= j
  <2>1. Bad \in SUBSET Nat
    OBVIOUS
  <2> HIDE DEF Bad
  <2> QED BY <1>1, <2>1, Least
<1>3. m \in 1..n /\ m - 1 \in 0..n /\ m - 1 \notin Bad
  BY <1>2
<1> QED BY <1>2, <1>3

\* A step for every place makes a function.
IsRun(f, a, n, g) == f = [i \in 0..n |-> IF i = 0 THEN a ELSE g[<<i, f[i-1]>>]]
LEMMA StepByStep ==
    ASSUME NEW S, NEW a \in S, NEW n \in Nat, NEW g \in [(1..n) \X S -> S]
    PROVE  \E f \in [0..n -> S] : IsRun(f, a, n, g)
<1> DEFINE Good == {m \in 0..n : \E f \in [0..m -> S] : IsRun(f, a, m, g)}
<1>1. 0 \in Good
  <2> DEFINE f == [i \in 0..0 |-> a]
  <2>1. f \in [0..0 -> S] /\ IsRun(f, a, 0, g)
    BY DEF IsRun
  <2> QED BY <2>1
<1>2. ASSUME NEW m \in 1..n, m - 1 \in Good PROVE m \in Good
  <2>1. PICK h \in [0..m-1 -> S] : IsRun(h, a, m-1, g)
    BY <1>2
  <2> DEFINE f == [i \in 0..m |-> IF i = m THEN g[<<m, h[m-1]>>] ELSE h[i]]
  <2>2. m - 1 \in 0..m-1 /\ h[m-1] \in S /\ \A i \in 0..m : i # m => i \in 0..m-1
    BY <2>1
  <2>3. /\ f[m] = g[<<m, h[m-1]>>] /\ f[m] \in S
        /\ \A i \in 0..m-1 : f[i] = h[i] /\ f[i] \in S
    BY <2>1, <2>2
  <2>4. f = [i \in 0..m |-> f[i]] /\ f \in [0..m -> S]
    BY <2>2, <2>3
  <2> HIDE DEF f
  <2>5. ASSUME NEW i \in 0..m PROVE f[i] = IF i = 0 THEN a ELSE g[<<i, f[i-1]>>]
    <3>1. CASE i = m
      <4>1. m # 0 /\ f[m-1] = h[m-1]
        BY <2>2, <2>3
      <4> QED BY <2>3, <3>1, <4>1
    <3>2. CASE i # m
      <4>1. i \in 0..m-1 /\ (i # 0 => i - 1 \in 0..m-1)
        BY <3>2
      <4> QED BY <2>1, <2>3, <4>1 DEF IsRun
    <3> QED BY <3>1, <3>2
  <2>6. IsRun(f, a, m, g)
    BY <2>4, <2>5 DEF IsRun
  <2> QED BY <2>4, <2>6
<1>3. \A i \in 0..n : i \in Good
  <2> HIDE DEF Good
  <2> QED BY <1>1, <1>2, Upwards
<1>4. n \in Good
  BY <1>3
<1> QED BY <1>4

\* The first m places of a sequence.
LEMMA Beginning ==
    ASSUME NEW S, NEW s \in Seq(S), NEW k \in Nat, NEW m \in Nat, k + m <= Len(s)
    PROVE  /\ SubSeq(s, k + 1, k + m) \in Seq(S) /\ Len(SubSeq(s, k + 1, k + m)) = m
           /\ \A i \in 1..m : SubSeq(s, k + 1, k + m)[i] = s[k + i]
OBVIOUS

LEMMA OneMore ==
    ASSUME NEW S, NEW s \in Seq(S), NEW k \in Nat, NEW m \in Nat \ {0}, k + m <= Len(s)
    PROVE  Append(SubSeq(s, k + 1, k + (m - 1)), s[k + m]) = SubSeq(s, k + 1, k + m)
<1> DEFINE a == SubSeq(s, k + 1, k + (m - 1))
           b == SubSeq(s, k + 1, k + m)
<1>1. /\ m - 1 \in Nat /\ k + (m - 1) <= Len(s) /\ s[k + m] \in S
  OBVIOUS
<1>2. a \in Seq(S) /\ Len(a) = m - 1 /\ \A i \in 1..(m - 1) : a[i] = s[k + i]
  BY <1>1, Beginning
<1>3. b \in Seq(S) /\ Len(b) = m /\ \A i \in 1..m : b[i] = s[k + i]
  BY Beginning
<1> HIDE DEF a, b
<1>4. /\ Append(a, s[k + m]) \in Seq(S) /\ Len(Append(a, s[k + m])) = m
      /\ \A i \in 1..m : Append(a, s[k + m])[i] = b[i]
  <2>1. Append(a, s[k + m]) \in Seq(S) /\ Len(Append(a, s[k + m])) = m
    BY <1>1, <1>2
  <2>2. ASSUME NEW i \in 1..m PROVE Append(a, s[k + m])[i] = b[i]
    <3>1. CASE i = m
      BY <1>1, <1>2, <1>3, <3>1
    <3>2. CASE i # m
      <4>1. i \in 1..(m - 1)
        BY <3>2
      <4>2. Append(a, s[k + m])[i] = a[i]
        BY <1>1, <1>2, <4>1
      <4> QED BY <1>2, <1>3, <4>1, <4>2
    <3> QED BY <3>1, <3>2
  <2> QED BY <2>1, <2>2
<1>5. Append(a, s[k + m]) = b
  BY <1>3, <1>4, SeqEqual
<1> QED BY <1>5 DEF a, b

\* The characters bytes become.
Char == Byte \cup {Wide, Broken}

LEMMA CharAtIs ==
    ASSUME NEW bytes \in Seq(Byte), NEW cut, NEW i \in 1..Len(bytes)
    PROVE  CharAt(bytes, cut, i) \in Seq(Char)
<1>1. bytes[i] \in Byte
  OBVIOUS
<1>2. <<Wide>> \in Seq(Char) /\ <<Broken>> \in Seq(Char) /\ <<bytes[i]>> \in Seq(Char) /\ <<>> \in Seq(Char)
  BY <1>1 DEF Char
<1>3. CASE Pair(bytes, cut, i)
  BY <1>2, <1>3 DEF CharAt
<1>4. CASE ~Pair(bytes, cut, i) /\ Pair(bytes, cut, i - 1)
  BY <1>2, <1>4 DEF CharAt
<1>5. CASE ~Pair(bytes, cut, i) /\ ~Pair(bytes, cut, i - 1)
  <2>1. CharAt(bytes, cut, i) = <<IF bytes[i] \in {Lead, Trail} THEN Broken ELSE bytes[i]>>
    BY <1>5 DEF CharAt
  <2> QED BY <1>2, <2>1
<1> QED BY <1>3, <1>4, <1>5

\* Decoding goes on from one byte to the next.
IsDecoding(f, bytes, cut) ==
    f = [n \in 0..Len(bytes) |-> IF n = 0 THEN <<>> ELSE f[n-1] \o CharAt(bytes, cut, n)]
LEMMA DecodingIs ==
    ASSUME NEW bytes \in Seq(Byte), NEW cut
    PROVE  /\ Decoding(bytes, cut)[0] = <<>>
           /\ \A n \in 0..Len(bytes) : Decoding(bytes, cut)[n] \in Seq(Char)
           /\ \A n \in 1..Len(bytes) :
                 Decoding(bytes, cut)[n] = Decoding(bytes, cut)[n-1] \o CharAt(bytes, cut, n)
<1> DEFINE g == [p \in (1..Len(bytes)) \X Seq(Char) |-> p[2] \o CharAt(bytes, cut, p[1])]
           h == CHOOSE f : IsDecoding(f, bytes, cut)
<1>1. Len(bytes) \in Nat /\ <<>> \in Seq(Char)
  OBVIOUS
<1>2. \E f : IsDecoding(f, bytes, cut)
  <2>1. ASSUME NEW p \in (1..Len(bytes)) \X Seq(Char)
        PROVE  g[p] = p[2] \o CharAt(bytes, cut, p[1]) /\ g[p] \in Seq(Char)
    <3>1. p[1] \in 1..Len(bytes) /\ p[2] \in Seq(Char)
      OBVIOUS
    <3>2. CharAt(bytes, cut, p[1]) \in Seq(Char)
      BY <3>1, CharAtIs
    <3> QED BY <3>1, <3>2
  <2>2. g \in [(1..Len(bytes)) \X Seq(Char) -> Seq(Char)]
    BY <2>1
  <2> HIDE DEF g
  <2>3. PICK f \in [0..Len(bytes) -> Seq(Char)] : IsRun(f, <<>>, Len(bytes), g)
    BY <1>1, <2>2, StepByStep
  <2>4. ASSUME NEW n \in 0..Len(bytes) PROVE f[n] = IF n = 0 THEN <<>> ELSE f[n-1] \o CharAt(bytes, cut, n)
    <3>1. CASE n = 0
      BY <2>3, <3>1 DEF IsRun
    <3>2. CASE n # 0
      <4>1. n \in 1..Len(bytes) /\ n - 1 \in 0..Len(bytes)
        BY <1>1, <3>2
      <4>2. f[n] = g[<<n, f[n-1]>>] /\ <<n, f[n-1]>> \in (1..Len(bytes)) \X Seq(Char)
        BY <2>3, <3>2, <4>1 DEF IsRun
      <4> QED BY <2>1, <3>2, <4>2
    <3> QED BY <3>1, <3>2
  <2>5. f = [n \in 0..Len(bytes) |-> IF n = 0 THEN <<>> ELSE f[n-1] \o CharAt(bytes, cut, n)]
    BY <2>3, <2>4
  <2> QED BY <2>5 DEF IsDecoding
<1>3. IsDecoding(h, bytes, cut)
  BY <1>2
<1>4. Decoding(bytes, cut) = h
  BY DEF Decoding, IsDecoding
<1> HIDE DEF h
<1>9. ASSUME NEW n \in 0..Len(bytes) PROVE h[n] = IF n = 0 THEN <<>> ELSE h[n-1] \o CharAt(bytes, cut, n)
  <2> DEFINE after(k) == IF k = 0 THEN <<>> ELSE h[k-1] \o CharAt(bytes, cut, k)
  <2>1. h = [k \in 0..Len(bytes) |-> after(k)]
    BY <1>3 DEF IsDecoding
  <2> HIDE DEF after
  <2>2. h[n] = after(n)
    BY <2>1
  <2> QED BY <2>2 DEF after
<1>5. h[0] = <<>> /\ \A n \in 1..Len(bytes) : h[n] = h[n-1] \o CharAt(bytes, cut, n)
  <2>1. h[0] = <<>>
    <3>1. 0 \in 0..Len(bytes)
      BY <1>1
    <3> QED BY <1>9, <3>1
  <2>2. ASSUME NEW n \in 1..Len(bytes) PROVE h[n] = h[n-1] \o CharAt(bytes, cut, n)
    <3>1. n \in 0..Len(bytes) /\ n # 0
      BY <1>1
    <3> QED BY <1>9, <3>1
  <2> QED BY <2>1, <2>2
<1> DEFINE Good == {n \in 0..Len(bytes) : h[n] \in Seq(Char)}
<1>6. 0 \in Good
  <2>1. h[0] = <<>>
    BY <1>5
  <2>2. h[0] \in Seq(Char) /\ 0 \in 0..Len(bytes)
    BY <1>1, <2>1
  <2> QED BY <2>2
<1>7. ASSUME NEW n \in 1..Len(bytes), n - 1 \in Good PROVE n \in Good
  <2>1. h[n] = h[n-1] \o CharAt(bytes, cut, n) /\ h[n-1] \in Seq(Char)
    BY <1>5, <1>7
  <2>2. CharAt(bytes, cut, n) \in Seq(Char)
    BY CharAtIs
  <2>3. h[n] \in Seq(Char)
    BY <2>1, <2>2
  <2> QED BY <2>3
<1>8. \A n \in 0..Len(bytes) : n \in Good
  <2> HIDE DEF Good
  <2> QED BY <1>1, <1>6, <1>7, Upwards
<1> QED BY <1>4, <1>5, <1>8

\* What a chunk adds to the bytes is decoded by itself: a character that it and
\* the bytes before share is cut.
AfterCut(a, b, cut) == cut \cup {i \in {Len(a)} : Splits(a \o b, i)}
LEMMA ChunksDecodeApart ==
    ASSUME NEW a \in Seq(Byte), NEW b \in Seq(Byte), NEW cut \in SUBSET (1..(Len(a) - 1))
    PROVE  Decode(a \o b, AfterCut(a, b, cut)) = Decode(a, cut) \o Decode(b, {})
<1> DEFINE ab == a \o b
           after == AfterCut(a, b, cut)
           n == Len(a)
           m == Len(b)
<1>1. /\ ab \in Seq(Byte) /\ n \in Nat /\ m \in Nat /\ Len(ab) = n + m
      /\ \A i \in 1..n : ab[i] = a[i]
      /\ \A i \in 1..m : ab[n + i] = b[i]
  OBVIOUS
<1>2. /\ \A i : i \in cut => i \in 1..(n - 1)
      /\ \A i : i \in after <=> i \in cut \/ (i = n /\ Splits(ab, n))
  BY DEF AfterCut
<1> HIDE DEF ab, after, n, m
<1>3. ASSUME NEW i \in 0..n PROVE Pair(ab, after, i) <=> Pair(a, cut, i)
  <2>1. CASE i = n
    <3>1. ~Pair(ab, after, i)
      BY <1>2, <2>1 DEF Pair
    <3>2. i \notin 1..(Len(a) - 1)
      BY <1>1, <2>1 DEF n
    <3> QED BY <3>1, <3>2 DEF Pair, Splits
  <2>2. CASE i # n
    <3>1. i \in after <=> i \in cut
      BY <1>2, <2>2
    <3>2. i \in 1..(Len(ab) - 1) <=> i \in 1..(n - 1)
      BY <1>1, <2>2
    <3>3. i \in 1..(n - 1) => ab[i] = a[i] /\ ab[i + 1] = a[i + 1]
      BY <1>1
    <3> QED BY <3>1, <3>2, <3>3 DEF Pair, Splits, n
  <2> QED BY <2>1, <2>2
<1>4. ASSUME NEW k \in 0..m PROVE Pair(ab, after, n + k) <=> Pair(b, {}, k)
  <2>1. CASE k = 0
    <3>1. n + k = n
      BY <1>1, <2>1
    <3>2. ~Pair(ab, after, n + k)
      BY <1>2, <3>1 DEF Pair
    <3>3. k \notin 1..(Len(b) - 1)
      BY <2>1
    <3> QED BY <3>2, <3>3 DEF Pair, Splits
  <2>2. CASE k # 0
    <3>1. n + k \notin after
      BY <1>1, <1>2, <2>2
    <3>2. n + k \in 1..(Len(ab) - 1) <=> k \in 1..(m - 1)
      BY <1>1, <2>2
    <3>3. k \in 1..(m - 1) => ab[n + k] = b[k] /\ ab[(n + k) + 1] = b[k + 1]
      <4>1. ASSUME k \in 1..(m - 1) PROVE k \in 1..m /\ k + 1 \in 1..m /\ (n + k) + 1 = n + (k + 1)
        BY <1>1, <4>1
      <4> QED BY <1>1, <4>1
    <3> QED BY <3>1, <3>2, <3>3 DEF Pair, Splits, m
  <2> QED BY <2>1, <2>2
<1>5. ASSUME NEW i \in 1..n PROVE CharAt(ab, after, i) = CharAt(a, cut, i)
  <2>1. i \in 0..n /\ i - 1 \in 0..n /\ ab[i] = a[i]
    BY <1>1
  <2>2. /\ Pair(ab, after, i) <=> Pair(a, cut, i)
        /\ Pair(ab, after, i - 1) <=> Pair(a, cut, i - 1)
    BY <1>3, <2>1
  <2> QED BY <2>1, <2>2 DEF CharAt
<1>6. ASSUME NEW k \in 1..m PROVE CharAt(ab, after, n + k) = CharAt(b, {}, k)
  <2>1. k \in 0..m /\ k - 1 \in 0..m /\ ab[n + k] = b[k] /\ (n + k) - 1 = n + (k - 1)
    BY <1>1
  <2>2. /\ Pair(ab, after, n + k) <=> Pair(b, {}, k)
        /\ Pair(ab, after, (n + k) - 1) <=> Pair(b, {}, k - 1)
    BY <1>4, <2>1
  <2> QED BY <2>1, <2>2 DEF CharAt
<1> DEFINE Good == {i \in 0..n : Decoding(ab, after)[i] = Decoding(a, cut)[i]}
<1>7. n \in Good
  <2>1. 0 \in Good
    BY <1>1, DecodingIs
  <2>2. ASSUME NEW i \in 1..n, i - 1 \in Good PROVE i \in Good
    <3>1. i \in 1..Len(ab) /\ i \in 1..Len(a)
      BY <1>1 DEF n
    <3>2. Decoding(ab, after)[i] = Decoding(ab, after)[i-1] \o CharAt(ab, after, i)
      BY <1>1, <3>1, DecodingIs
    <3>3. Decoding(a, cut)[i] = Decoding(a, cut)[i-1] \o CharAt(a, cut, i)
      BY <3>1, DecodingIs
    <3>4. Decoding(ab, after)[i-1] = Decoding(a, cut)[i-1]
      BY <2>2
    <3>5. CharAt(ab, after, i) = CharAt(a, cut, i)
      BY <1>5
    <3>6. Decoding(ab, after)[i] = Decoding(a, cut)[i]
      BY <3>2, <3>3, <3>4, <3>5, Zenon
    <3> QED BY <3>6
  <2>3. n \in 0..n
    BY <1>1
  <2> HIDE DEF Good
  <2> QED BY <1>1, <2>1, <2>2, <2>3, Upwards
<1> DEFINE Joined == {k \in 0..m : Decoding(ab, after)[n + k] = Decode(a, cut) \o Decoding(b, {})[k]}
<1>8. Decode(a, cut) \in Seq(Char)
  <2>1. Len(a) \in 0..Len(a)
    BY <1>1 DEF n
  <2> QED BY <2>1, DecodingIs DEF Decode
<1>9. m \in Joined
  <2>1. 0 \in Joined
    <3>1. Decoding(ab, after)[n] = Decode(a, cut) /\ n + 0 = n /\ 0 \in 0..m
      BY <1>1, <1>7 DEF Decode, n
    <3>2. Decoding(b, {})[0] = <<>>
      BY DecodingIs
    <3>3. Decode(a, cut) \o <<>> = Decode(a, cut)
      BY <1>8
    <3> QED BY <3>1, <3>2, <3>3
  <2>2. ASSUME NEW k \in 1..m, k - 1 \in Joined PROVE k \in Joined
    <3>1. n + k \in 1..Len(ab) /\ (n + k) - 1 = n + (k - 1) /\ k \in 1..Len(b) /\ k - 1 \in 0..Len(b)
      BY <1>1 DEF m
    <3>2. Decoding(ab, after)[n + k] = Decoding(ab, after)[n + (k - 1)] \o CharAt(b, {}, k)
      <4>1. Decoding(ab, after)[n + k] = Decoding(ab, after)[(n + k) - 1] \o CharAt(ab, after, n + k)
        BY <1>1, <3>1, DecodingIs
      <4> QED BY <1>6, <3>1, <4>1
    <3>3. Decoding(b, {})[k] = Decoding(b, {})[k-1] \o CharAt(b, {}, k) /\ Decoding(b, {})[k-1] \in Seq(Char)
      BY <3>1, DecodingIs
    <3>4. Decoding(ab, after)[n + (k - 1)] = Decode(a, cut) \o Decoding(b, {})[k-1]
      BY <2>2
    <3>5. CharAt(b, {}, k) \in Seq(Char)
      BY <3>1, CharAtIs
    <3> DEFINE x == Decode(a, cut)
               y == Decoding(b, {})[k-1]
               z == CharAt(b, {}, k)
    <3>6. x \in Seq(Char) /\ y \in Seq(Char) /\ z \in Seq(Char)
      BY <1>8, <3>3, <3>5
    <3> HIDE DEF x, y, z
    <3>7. (x \o y) \o z = x \o (y \o z)
      BY <3>6
    <3>8. Decoding(ab, after)[n + k] = (x \o y) \o z
      BY <3>2, <3>4, Zenon DEF x, y, z
    <3>9. Decoding(b, {})[k] = y \o z
      BY <3>3, Zenon DEF y, z
    <3>10. Decoding(ab, after)[n + k] = Decode(a, cut) \o Decoding(b, {})[k]
      BY <3>7, <3>8, <3>9, Zenon DEF x
    <3> QED BY <3>10
  <2>3. m \in 0..m
    BY <1>1
  <2> HIDE DEF Joined
  <2> QED BY <1>1, <2>1, <2>2, <2>3, Upwards
<1> QED BY <1>1, <1>9 DEF Decode, ab, after, n, m

\* What a reader has seen of a text after each of its characters.
Seen == [open : Seq(Char), messages : Seq(Message), bad : Nat, invalid : BOOLEAN]
LEMMA ReadOnIs ==
    ASSUME NEW seen \in Seen, NEW ch \in Char
    PROVE  /\ ReadOn(seen, ch) \in Seen /\ (seen.invalid => ReadOn(seen, ch).invalid)
           /\ ch # Newline => /\ ReadOn(seen, ch).open = Append(seen.open, ch)
                              /\ ReadOn(seen, ch).messages = seen.messages
                              /\ ReadOn(seen, ch).bad = seen.bad /\ ReadOn(seen, ch).invalid = seen.invalid
           /\ LET line == Trim(seen.open)
              IN  ch = Newline =>
                    /\ ReadOn(seen, ch).open = <<>>
                    /\ ReadOn(seen, ch).messages = IF line \in Message THEN Append(seen.messages, line) ELSE seen.messages
                    /\ ReadOn(seen, ch).bad = IF line \in Message \cup {<<>>} THEN seen.bad ELSE seen.bad + 1
                    /\ ReadOn(seen, ch).invalid <=> seen.invalid \/ line \in Invalid
<1> DEFINE line == Trim(seen.open)
<1>1. /\ seen.open \in Seq(Char) /\ seen.messages \in Seq(Message) /\ seen.bad \in Nat /\ seen.invalid \in BOOLEAN
      /\ Append(seen.open, ch) \in Seq(Char) /\ (line \in Message => Append(seen.messages, line) \in Seq(Message))
      /\ seen.bad + 1 \in Nat
  BY DEF Seen
<1> HIDE DEF line
<1>2. CASE ch # Newline
  <2>1. ReadOn(seen, ch) = [seen EXCEPT !.open = Append(@, ch)]
    BY <1>2 DEF ReadOn
  <2> QED BY <1>1, <1>2, <2>1 DEF Seen
<1>3. CASE ch = Newline
  <2>1. ReadOn(seen, ch) =
          [open |-> <<>>,
           messages |-> IF line \in Message THEN Append(seen.messages, line) ELSE seen.messages,
           bad |-> IF line \in Message \cup {<<>>} THEN seen.bad ELSE seen.bad + 1,
           invalid |-> seen.invalid \/ line \in Invalid]
    BY <1>3 DEF ReadOn, line
  <2>2. /\ ReadOn(seen, ch).open = <<>>
        /\ ReadOn(seen, ch).messages = IF line \in Message THEN Append(seen.messages, line) ELSE seen.messages
        /\ ReadOn(seen, ch).bad = IF line \in Message \cup {<<>>} THEN seen.bad ELSE seen.bad + 1
        /\ ReadOn(seen, ch).invalid = (seen.invalid \/ line \in Invalid)
    BY <2>1
  <2>3. ReadOn(seen, ch) \in Seen
    BY <1>1, <2>1 DEF Seen
  <2> QED BY <1>3, <2>2, <2>3 DEF line
<1> QED BY <1>2, <1>3

IsReading(f, chars) == f = [n \in 0..Len(chars) |-> IF n = 0 THEN Unread ELSE ReadOn(f[n-1], chars[n])]
LEMMA ReadingIs ==
    ASSUME NEW t \in Seq(Char)
    PROVE  /\ Reading(t)[0] = Unread
           /\ \A n \in 0..Len(t) : Reading(t)[n] \in Seen
           /\ \A n \in 1..Len(t) : Reading(t)[n] = ReadOn(Reading(t)[n-1], t[n])
<1> DEFINE g == [p \in (1..Len(t)) \X Seen |-> ReadOn(p[2], t[p[1]])]
           h == CHOOSE f : IsReading(f, t)
<1>1. Len(t) \in Nat /\ \A n \in 1..Len(t) : t[n] \in Char
  OBVIOUS
<1>2. Unread \in Seen
  BY DEF Unread, Seen
<1>3. \E f : IsReading(f, t)
  <2>1. ASSUME NEW p \in (1..Len(t)) \X Seen PROVE g[p] = ReadOn(p[2], t[p[1]]) /\ g[p] \in Seen
    BY <1>1, ReadOnIs
  <2>2. g \in [(1..Len(t)) \X Seen -> Seen]
    BY <2>1
  <2> HIDE DEF g
  <2>3. PICK f \in [0..Len(t) -> Seen] : IsRun(f, Unread, Len(t), g)
    BY <1>1, <1>2, <2>2, StepByStep
  <2>4. ASSUME NEW n \in 0..Len(t) PROVE f[n] = IF n = 0 THEN Unread ELSE ReadOn(f[n-1], t[n])
    <3>1. CASE n = 0
      BY <2>3, <3>1 DEF IsRun
    <3>2. CASE n # 0
      <4>1. n \in 1..Len(t) /\ n - 1 \in 0..Len(t)
        BY <1>1, <3>2
      <4>2. f[n] = g[<<n, f[n-1]>>] /\ <<n, f[n-1]>> \in (1..Len(t)) \X Seen
        BY <2>3, <3>2, <4>1 DEF IsRun
      <4> QED BY <2>1, <3>2, <4>2
    <3> QED BY <3>1, <3>2
  <2>5. f = [n \in 0..Len(t) |-> IF n = 0 THEN Unread ELSE ReadOn(f[n-1], t[n])]
    BY <2>3, <2>4
  <2> QED BY <2>5 DEF IsReading
<1>4. IsReading(h, t)
  BY <1>3
<1>5. Reading(t) = h
  BY DEF Reading, IsReading
<1> HIDE DEF h
<1>6. h[0] = Unread /\ \A n \in 1..Len(t) : h[n] = ReadOn(h[n-1], t[n])
  BY <1>1, <1>4 DEF IsReading
<1> DEFINE Good == {n \in 0..Len(t) : h[n] \in Seen}
<1>7. 0 \in Good
  BY <1>1, <1>2, <1>6
<1>8. ASSUME NEW n \in 1..Len(t), n - 1 \in Good PROVE n \in Good
  <2>1. h[n] = ReadOn(h[n-1], t[n]) /\ h[n-1] \in Seen /\ t[n] \in Char
    BY <1>1, <1>6, <1>8
  <2>2. ReadOn(h[n-1], t[n]) \in Seen
    BY <2>1, ReadOnIs
  <2> QED BY <2>1, <2>2
<1>9. \A n \in 0..Len(t) : n \in Good
  <2> HIDE DEF Good
  <2> QED BY <1>1, <1>7, <1>8, Upwards
<1> QED BY <1>5, <1>6, <1>9

\* More text does not change what has been seen.
LEMMA ReadingOfMore ==
    ASSUME NEW t \in Seq(Char), NEW u \in Seq(Char), Len(t) <= Len(u), \A i \in 1..Len(t) : u[i] = t[i]
    PROVE  \A n \in 0..Len(t) : Reading(u)[n] = Reading(t)[n]
<1> DEFINE Good == {n \in 0..Len(t) : Reading(u)[n] = Reading(t)[n]}
<1>1. 0 \in Good
  BY ReadingIs
<1>2. ASSUME NEW n \in 1..Len(t), n - 1 \in Good PROVE n \in Good
  <2>1. Reading(t)[n] = ReadOn(Reading(t)[n-1], t[n])
    BY ReadingIs
  <2>2. n \in 1..Len(u)
    OBVIOUS
  <2>3. Reading(u)[n] = ReadOn(Reading(u)[n-1], u[n])
    BY <2>2, ReadingIs
  <2>4. Reading(u)[n-1] = Reading(t)[n-1]
    BY <1>2
  <2> QED BY <2>1, <2>3, <2>4
<1>3. \A n \in 0..Len(t) : n \in Good
  <2>1. Len(t) \in Nat
    OBVIOUS
  <2> HIDE DEF Good
  <2> QED BY <1>1, <1>2, <2>1, Upwards
<1> QED BY <1>3

\* An invalid line stays seen.
LEMMA InvalidStays ==
    ASSUME NEW t \in Seq(Char), NEW m \in 0..Len(t), NEW n \in 0..Len(t), m <= n, Reading(t)[m].invalid
    PROVE  Reading(t)[n].invalid
<1> DEFINE Good == {k \in 0..Len(t) : m <= k => Reading(t)[k].invalid}
<1>1. 0 \in Good
  <2>1. m <= 0 => m = 0
    OBVIOUS
  <2> QED BY <2>1
<1>2. ASSUME NEW k \in 1..Len(t), k - 1 \in Good PROVE k \in Good
  <2>1. CASE m = k
    BY <2>1
  <2>2. CASE m # k
    <3>1. m <= k => Reading(t)[k-1].invalid
      BY <1>2, <2>2
    <3>2. Reading(t)[k] = ReadOn(Reading(t)[k-1], t[k]) /\ Reading(t)[k-1] \in Seen /\ t[k] \in Char
      <4>1. k - 1 \in 0..Len(t)
        OBVIOUS
      <4> QED BY <4>1, ReadingIs
    <3>3. Reading(t)[k-1].invalid => ReadOn(Reading(t)[k-1], t[k]).invalid
      BY <3>2, ReadOnIs
    <3> QED BY <3>1, <3>2, <3>3
  <2> QED BY <2>1, <2>2
<1>3. \A k \in 0..Len(t) : k \in Good
  <2>1. Len(t) \in Nat
    OBVIOUS
  <2> HIDE DEF Good
  <2> QED BY <1>1, <1>2, <2>1, Upwards
<1> QED BY <1>3

\* A stretch without a newline only makes the open line longer.
LEMMA LineGrows ==
    ASSUME NEW t \in Seq(Char), NEW c \in Nat, NEW m \in Nat, c + m <= Len(t), Reading(t)[c].open = <<>>,
           \A i \in 1..m : t[c + i] # Newline
    PROVE  /\ Reading(t)[c + m].open = SubSeq(t, c + 1, c + m)
           /\ Reading(t)[c + m].messages = Reading(t)[c].messages
           /\ Reading(t)[c + m].bad = Reading(t)[c].bad
           /\ Reading(t)[c + m].invalid = Reading(t)[c].invalid
<1> DEFINE Right(d) == /\ Reading(t)[c + d].open = SubSeq(t, c + 1, c + d)
                       /\ Reading(t)[c + d].messages = Reading(t)[c].messages
                       /\ Reading(t)[c + d].bad = Reading(t)[c].bad
                       /\ Reading(t)[c + d].invalid = Reading(t)[c].invalid
           Good == {d \in 0..m : Right(d)}
<1>1. 0 \in Good
  <2>1. c + 0 = c /\ SubSeq(t, c + 1, c) = <<>> /\ 0 \in 0..m
    OBVIOUS
  <2> QED BY <2>1
<1>2. ASSUME NEW d \in 1..m, d - 1 \in Good PROVE d \in Good
  <2>1. Right(d - 1)
    BY <1>2
  <2>2. c + (d - 1) = (c + d) - 1 /\ c + d \in 1..Len(t) /\ (c + d) - 1 \in 0..Len(t) /\ c + d <= Len(t) /\ d \in Nat \ {0}
    OBVIOUS
  <2>3. /\ Reading(t)[c + d] = ReadOn(Reading(t)[c + (d - 1)], t[c + d])
        /\ Reading(t)[c + (d - 1)] \in Seen /\ t[c + d] \in Char /\ t[c + d] # Newline
    BY <2>2, ReadingIs, SMTT(20)
  <2>4. /\ Reading(t)[c + d].open = Append(Reading(t)[c + (d - 1)].open, t[c + d])
        /\ Reading(t)[c + d].messages = Reading(t)[c + (d - 1)].messages
        /\ Reading(t)[c + d].bad = Reading(t)[c + (d - 1)].bad
        /\ Reading(t)[c + d].invalid = Reading(t)[c + (d - 1)].invalid
    <3> DEFINE seen == Reading(t)[c + (d - 1)]
               ch == t[c + d]
    <3>1. Reading(t)[c + d] = ReadOn(seen, ch) /\ seen \in Seen /\ ch \in Char /\ ch # Newline
      BY <2>3
    <3> HIDE DEF seen, ch
    <3>2. /\ ReadOn(seen, ch).open = Append(seen.open, ch) /\ ReadOn(seen, ch).messages = seen.messages
          /\ ReadOn(seen, ch).bad = seen.bad /\ ReadOn(seen, ch).invalid = seen.invalid
      BY <3>1, ReadOnIs
    <3> QED BY <3>1, <3>2 DEF seen, ch
  <2>5. Append(SubSeq(t, c + 1, c + (d - 1)), t[c + d]) = SubSeq(t, c + 1, c + d)
    BY <2>2, OneMore
  <2>6. Right(d)
    BY <2>1, <2>4, <2>5
  <2> QED BY <2>6
<1>3. m \in Good
  <2>1. m \in 0..m
    OBVIOUS
  <2> HIDE DEF Good
  <2> QED BY <1>1, <1>2, <2>1, Upwards
<1> QED BY <1>3

LEMMA NewlineIndexIs ==
    ASSUME NEW chars \in Seq(Char)
    PROVE  /\ NewlineIndex(chars) \in 0..Len(chars)
           /\ NewlineIndex(chars) = 0 <=> \A i \in 1..Len(chars) : chars[i] # Newline
           /\ NewlineIndex(chars) # 0 =>
                 /\ chars[NewlineIndex(chars)] = Newline
                 /\ \A i \in 1..(NewlineIndex(chars) - 1) : chars[i] # Newline
<1> DEFINE I == {i \in 1..Len(chars) : chars[i] = Newline}
<1>1. NewlineIndex(chars) = IF I # {} THEN Min(I) ELSE 0
  BY DEF NewlineIndex, SelectInSeq
<1>2. CASE I = {}
  BY <1>1, <1>2
<1>3. CASE I # {}
  <2>1. PICK m \in I : \A k \in I : m <= k
    <3>1. I \in SUBSET Nat
      OBVIOUS
    <3> HIDE DEF I
    <3> QED BY <1>3, <3>1, Least
  <2>2. Min(I) \in I /\ \A k \in I : Min(I) <= k
    BY <2>1 DEF Min
  <2>3. NewlineIndex(chars) \in 1..Len(chars) /\ chars[NewlineIndex(chars)] = Newline
    BY <1>1, <1>3, <2>2
  <2>4. ASSUME NEW i \in 1..(NewlineIndex(chars) - 1) PROVE chars[i] # Newline
    <3>1. i \in 1..Len(chars) /\ ~(NewlineIndex(chars) <= i)
      BY <2>3
    <3>2. i \notin I
      BY <1>1, <1>3, <2>2, <3>1
    <3> QED BY <3>1, <3>2
  <2> QED BY <2>3, <2>4
<1> QED BY <1>2, <1>3

\* How much of the text the decoder has cut into lines.
CutOff == Len(Heard) - Len(buffer)

\* The buffer is the end of the text; as long as no invalid message has made
\* the index stale, what was delivered and reported is what there is to see of
\* the text before.
LinesInv ==
    /\ text \in Seq(Byte) /\ cuts \in SUBSET (1..(Len(text) - 1))
    /\ Heard \in Seq(Char) /\ buffer \in Seq(Char) /\ index \in Nat
    /\ Len(buffer) <= Len(Heard) /\ \A i \in 1..Len(buffer) : buffer[i] = Heard[CutOff + i]
    /\ index = 0 => NewlineIndex(buffer) = 0
    /\ ~Reading(Heard)[CutOff].invalid =>
          /\ index = NewlineIndex(buffer) /\ Reading(Heard)[CutOff].open = <<>>
          /\ delivered = Reading(Heard)[CutOff].messages /\ errors = Reading(Heard)[CutOff].bad

LEMMA LinesFromNothing ==
    /\ Init => LinesInv
    /\ index = 0 /\ index' = 0 /\ Reset => LinesInv'
<1>0. Decode(<<>>, {}) = <<>>
  <2>1. <<>> \in Seq(Byte) /\ Len(<<>>) = 0
    OBVIOUS
  <2> QED BY <2>1, DecodingIs DEF Decode
<1>1. NewlineIndex(<<>>) = 0
  <2>1. <<>> \in Seq(Char) /\ \A i \in 1..Len(<<>>) : <<>>[i] # Newline
    OBVIOUS
  <2> QED BY <2>1, NewlineIndexIs
<1>2. Reading(<<>>)[0] = Unread
  <2>1. <<>> \in Seq(Char)
    OBVIOUS
  <2> QED BY <2>1, ReadingIs
<1>3. ASSUME Init PROVE LinesInv
  <2>1. /\ buffer = <<>> /\ index = 0 /\ delivered = <<>> /\ errors = 0 /\ text = <<>> /\ cuts = {}
        /\ Heard = <<>> /\ text \in Seq(Byte) /\ Heard \in Seq(Char)
    <3>1. <<>> \in Seq(Byte) /\ <<>> \in Seq(Char)
      OBVIOUS
    <3>2. Heard = <<>>
      BY <1>0, <1>3, Zenon DEF Init, Heard
    <3> QED BY <1>3, <3>1, <3>2 DEF Init
  <2>2. CutOff = 0 /\ Reading(Heard)[CutOff] = Unread
    BY <1>2, <2>1 DEF CutOff
  <2> QED BY <1>1, <2>1, <2>2 DEF LinesInv, Unread
<1>4. ASSUME index' = 0, Reset PROVE LinesInv'
  <2>0. /\ buffer' = <<>> /\ delivered' = <<>> /\ errors' = 0 /\ text' = <<>> /\ cuts' = {}
        /\ Heard' = <<>> /\ text' \in Seq(Byte) /\ Heard' \in Seq(Char)
    <3>1. <<>> \in Seq(Byte) /\ <<>> \in Seq(Char)
      OBVIOUS
    <3>2. Heard' = <<>>
      BY <1>0, <1>4, Zenon DEF Reset, Heard
    <3> QED BY <1>4, <3>1, <3>2 DEF Reset
  <2>1. CutOff' = 0 /\ Reading(Heard')[CutOff'] = Unread
    BY <1>2, <2>0 DEF CutOff
  <2> QED BY <1>1, <1>4, <2>0, <2>1 DEF LinesInv, Unread
<1> QED BY <1>3, <1>4

\* A chunk makes text and buffer longer by the same characters.
LEMMA PushKeepsLines ==
    ASSUME LinesInv, NEW bytes \in Seq(Byte), Push(bytes)
    PROVE  LinesInv'
<1> DEFINE c == CutOff
           chunk == DecodeChunk(bytes)
<1>0. /\ text \in Seq(Byte) /\ cuts \in SUBSET (1..(Len(text) - 1)) /\ chunk \in Seq(Char)
      /\ text' = text \o bytes /\ cuts' = AfterCut(text, bytes, cuts)
  <2>1. Len(bytes) \in 0..Len(bytes)
    OBVIOUS
  <2>2. chunk \in Seq(Char)
    BY <2>1, DecodingIs DEF DecodeChunk, Decode
  <2> QED BY <2>2 DEF LinesInv, Push, Receive, AfterCut
<1>1. /\ Heard \in Seq(Char) /\ buffer \in Seq(Char) /\ Len(Heard) \in Nat /\ Len(buffer) \in Nat /\ Len(chunk) \in Nat
      /\ Len(buffer) <= Len(Heard) /\ \A i \in 1..Len(buffer) : buffer[i] = Heard[c + i]
      /\ c = Len(Heard) - Len(buffer)
  BY <1>0 DEF LinesInv, CutOff
<1> HIDE DEF c
<1>2. /\ index = 0 /\ buffer' = buffer \o chunk /\ index' = NewlineIndex(buffer') /\ Heard' = Heard \o chunk
      /\ delivered' = delivered /\ errors' = errors
  <2>1. Heard' = Heard \o chunk
    BY <1>0, ChunksDecodeApart DEF Heard, DecodeChunk
  <2> QED BY <2>1 DEF Push
<1>11. text' \in Seq(Byte) /\ cuts' \in SUBSET (1..(Len(text') - 1))
  <2>1. text' \in Seq(Byte) /\ Len(text') = Len(text) + Len(bytes) /\ Len(text) \in Nat /\ Len(bytes) \in Nat
    BY <1>0
  <2>2. ASSUME NEW i \in cuts' PROVE i \in 1..(Len(text') - 1)
    <3>1. i \in cuts \/ Splits(text', i)
      BY <1>0 DEF AfterCut
    <3>2. i \in cuts => i \in 1..(Len(text) - 1)
      BY <1>0
    <3>3. Splits(text', i) => i \in 1..(Len(text') - 1)
      BY DEF Splits
    <3> QED BY <2>1, <3>1, <3>2, <3>3
  <2> QED BY <2>1, <2>2
<1> HIDE DEF chunk
<1>3. /\ Heard' \in Seq(Char) /\ Len(Heard') = Len(Heard) + Len(chunk)
      /\ buffer' \in Seq(Char) /\ Len(buffer') = Len(buffer) + Len(chunk)
  BY <1>0, <1>1, <1>2
<1>4. /\ \A i \in 1..Len(Heard) : Heard'[i] = Heard[i]
      /\ \A i \in 1..Len(buffer) : buffer'[i] = buffer[i]
      /\ \A i \in 1..Len(chunk) : Heard'[Len(Heard) + i] = chunk[i] /\ buffer'[Len(buffer) + i] = chunk[i]
  BY <1>1, <1>2
<1>5. CutOff' = c
  BY <1>1, <1>3 DEF CutOff
<1>6. ASSUME NEW i \in 1..Len(buffer') PROVE buffer'[i] = Heard'[c + i]
  <2>1. CASE i \in 1..Len(buffer)
    <3>1. c + i \in 1..Len(Heard)
      BY <1>1, <2>1
    <3> QED BY <1>1, <1>4, <2>1, <3>1
  <2>2. CASE i \notin 1..Len(buffer)
    <3>1. i - Len(buffer) \in 1..Len(chunk) /\ i = Len(buffer) + (i - Len(buffer)) /\ c + i = Len(Heard) + (i - Len(buffer))
      BY <1>1, <1>3, <2>2
    <3> QED BY <1>4, <3>1, ZenonT(40)
  <2> QED BY <2>1, <2>2
<1>7. Reading(Heard')[c] = Reading(Heard)[c]
  <2>1. c \in 0..Len(Heard) /\ Len(Heard) <= Len(Heard')
    BY <1>1, <1>3
  <2> QED BY <1>1, <1>3, <1>4, <2>1, ReadingOfMore
<1>8. NewlineIndex(buffer) = 0
  BY <1>2 DEF LinesInv
<1>9. ~Reading(Heard)[c].invalid =>
          /\ Reading(Heard)[c].open = <<>> /\ delivered = Reading(Heard)[c].messages /\ errors = Reading(Heard)[c].bad
  BY DEF LinesInv, c
<1>10. index' \in Nat
  <2>1. NewlineIndex(buffer') \in 0..Len(buffer')
    BY <1>3, NewlineIndexIs
  <2> QED BY <1>1, <1>2, <1>3, <2>1
<1> QED BY <1>11, <1>1, <1>2, <1>3, <1>5, <1>6, <1>7, <1>9, <1>10 DEF LinesInv

\* A round of the loop cuts some of the buffer off.
LEMMA RestOfBuffer ==
    ASSUME LinesInv, index > 0, Heard' = Heard, buffer' = Slice(buffer, index + 1, Len(buffer))
    PROVE  /\ buffer' \in Seq(Char) /\ Len(buffer') <= Len(buffer) /\ CutOff <= CutOff' /\ CutOff' \in 0..Len(Heard)
           /\ index <= Len(buffer) => CutOff' = CutOff + index
           /\ \A i \in 1..Len(buffer') : buffer'[i] = Heard[CutOff' + i]
<1> DEFINE c == CutOff
           b == Len(buffer)
           n == Len(Heard)
           m == Len(buffer')
<1>1. /\ Heard \in Seq(Char) /\ buffer \in Seq(Char) /\ index \in Nat /\ index > 0 /\ n \in Nat /\ b \in Nat
      /\ b <= n /\ \A i \in 1..b : buffer[i] = Heard[c + i]
      /\ c = n - b /\ CutOff' = n - m
  BY DEF LinesInv, CutOff
<1>2. buffer' = SubSeq(buffer, index + 1, b)
  BY <1>1 DEF Slice
<1>3. CASE index <= b
  <2> DEFINE rest == b - index
  <2>1. rest \in Nat /\ index + rest = b
    BY <1>1, <1>3
  <2>2. /\ buffer' \in Seq(Char) /\ m = rest
        /\ \A i \in 1..rest : buffer'[i] = buffer[index + i]
    <3> HIDE DEF rest
    <3>1. /\ SubSeq(buffer, index + 1, index + rest) \in Seq(Char)
          /\ Len(SubSeq(buffer, index + 1, index + rest)) = rest
          /\ \A i \in 1..rest : SubSeq(buffer, index + 1, index + rest)[i] = buffer[index + i]
      <4>1. index + rest <= Len(buffer)
        BY <1>1, <2>1
      <4> QED BY <1>1, <2>1, <4>1, Beginning
    <3>2. buffer' = SubSeq(buffer, index + 1, index + rest)
      BY <1>2, <2>1
    <3> QED BY <3>1, <3>2
  <2> HIDE DEF c, b, n, m
  <2>3. CutOff' = c + index /\ m <= b /\ c <= CutOff' /\ CutOff' \in 0..n
    BY <1>1, <1>3, <2>1, <2>2
  <2>4. ASSUME NEW i \in 1..m PROVE buffer'[i] = Heard[CutOff' + i]
    <3>1. i \in 1..rest /\ index + i \in 1..b /\ c + (index + i) = CutOff' + i
      BY <1>1, <1>3, <2>1, <2>2, <2>3
    <3>2. buffer'[i] = buffer[index + i] /\ buffer[index + i] = Heard[c + (index + i)]
      BY <1>1, <2>2, <3>1
    <3> QED BY <3>1, <3>2
  <2> QED BY <2>2, <2>3, <2>4 DEF c, b, n, m
<1>4. CASE ~(index <= b)
  <2>1. buffer' = <<>>
    <3>1. index + 1 \in Nat /\ b < index + 1
      BY <1>1, <1>4
    <3> QED BY <1>1, <1>2, <3>1
  <2>2. buffer' \in Seq(Char) /\ m = 0
    <3>1. <<>> \in Seq(Char) /\ Len(<<>>) = 0
      OBVIOUS
    <3> QED BY <2>1, <3>1
  <2> HIDE DEF c, b, n, m
  <2>3. m <= b /\ c <= CutOff' /\ CutOff' \in 0..n /\ 1..m = {}
    BY <1>1, <1>4, <2>2
  <2> QED BY <1>4, <2>2, <2>3 DEF c, b, n, m
<1> QED BY <1>3, <1>4

LEMMA DecodeLineKeepsLines ==
    ASSUME LinesInv, DecodeLine
    PROVE  LinesInv'
<1> DEFINE c == CutOff
           line == Trim(Slice(buffer, 1, index - 1))
<1>1. /\ Heard \in Seq(Char) /\ buffer \in Seq(Char) /\ index \in Nat /\ index > 0
      /\ Len(Heard) \in Nat /\ Len(buffer) \in Nat
      /\ Len(buffer) <= Len(Heard) /\ \A i \in 1..Len(buffer) : buffer[i] = Heard[c + i]
      /\ c = Len(Heard) - Len(buffer) /\ c \in 0..Len(Heard)
  BY DEF LinesInv, CutOff, DecodeLine
<1>0. text \in Seq(Byte) /\ cuts \in SUBSET (1..(Len(text) - 1)) /\ text' = text /\ cuts' = cuts
  BY DEF LinesInv, DecodeLine
<1>2. /\ buffer' = Slice(buffer, index + 1, Len(buffer)) /\ Heard' = Heard
      /\ delivered' = IF line \in Message THEN Append(delivered, line) ELSE delivered
      /\ errors' = IF line = <<>> \/ line \in Message THEN errors ELSE errors + 1
      /\ index' = IF line \in Invalid THEN index ELSE NewlineIndex(buffer')
  BY <1>0 DEF DecodeLine, Heard
<1>3. /\ buffer' \in Seq(Char) /\ Len(buffer') <= Len(buffer) /\ c <= CutOff' /\ CutOff' \in 0..Len(Heard)
      /\ index <= Len(buffer) => CutOff' = c + index
      /\ \A i \in 1..Len(buffer') : buffer'[i] = Heard[CutOff' + i]
  BY <1>1, <1>2, RestOfBuffer
<1> HIDE DEF line
<1>4. NewlineIndex(buffer') \in Nat /\ index' \in Nat /\ (index' = 0 => NewlineIndex(buffer') = 0)
  BY <1>1, <1>2, <1>3, NewlineIndexIs
<1>5. CASE Reading(Heard)[c].invalid
  <2>1. Reading(Heard)[CutOff'].invalid
    BY <1>1, <1>3, <1>5, InvalidStays
  <2>2. Reading(Heard')[CutOff'].invalid
    BY <1>2, <2>1, Zenon
  <2>3. text' \in Seq(Byte) /\ cuts' \in SUBSET (1..(Len(text') - 1))
    BY <1>0
  <2>4. Heard' \in Seq(Char) /\ Len(buffer') <= Len(Heard') /\ \A i \in 1..Len(buffer') : buffer'[i] = Heard'[CutOff' + i]
    <3> HIDE DEF c
    <3>1. Heard' = Heard /\ Len(Heard) \in Nat /\ Len(buffer) \in Nat /\ Len(buffer') \in Nat
      BY <1>1, <1>2, <1>3
    <3>2. Len(buffer') <= Len(Heard)
      BY <1>1, <1>3, <3>1
    <3> QED BY <1>1, <1>3, <3>1, <3>2
  <2> QED BY <1>3, <1>4, <2>2, <2>3, <2>4 DEF LinesInv
<1>6. CASE ~Reading(Heard)[c].invalid
  <2>1. /\ index = NewlineIndex(buffer) /\ Reading(Heard)[c].open = <<>>
        /\ delivered = Reading(Heard)[c].messages /\ errors = Reading(Heard)[c].bad
    BY <1>6 DEF LinesInv
  <2>2. /\ index \in 1..Len(buffer) /\ buffer[index] = Newline
        /\ \A i \in 1..(index - 1) : buffer[i] # Newline
    BY <1>1, <2>1, NewlineIndexIs
  <2> DEFINE m == index - 1
             seen == Reading(Heard)[c + m]
             now == Reading(Heard)[c + index]
  <2>3. /\ m \in Nat /\ m <= Len(buffer) /\ c \in Nat /\ c + m <= Len(Heard) /\ c + m \in 0..Len(Heard)
        /\ c + index \in 1..Len(Heard) /\ (c + index) - 1 = c + m
    BY <1>1, <2>2
  <2>4. ASSUME NEW i \in 1..m PROVE Heard[c + i] # Newline /\ buffer[i] = Heard[c + i]
    <3>1. i \in 1..Len(buffer) /\ i \in 1..(index - 1)
      BY <1>1, <2>2
    <3> HIDE DEF c
    <3> QED BY <1>1, <2>2, <3>1
  <2>5. /\ seen.open = SubSeq(Heard, c + 1, c + m) /\ seen.messages = delivered /\ seen.bad = errors
        /\ ~seen.invalid
    <3> HIDE DEF c, m
    <3>1. \A i \in 1..m : Heard[c + i] # Newline
      BY <2>4
    <3>2. Reading(Heard)[c].open = <<>>
      BY <2>1 DEF c
    <3>3. /\ Reading(Heard)[c + m].open = SubSeq(Heard, c + 1, c + m)
          /\ Reading(Heard)[c + m].messages = Reading(Heard)[c].messages
          /\ Reading(Heard)[c + m].bad = Reading(Heard)[c].bad
          /\ Reading(Heard)[c + m].invalid = Reading(Heard)[c].invalid
      BY <1>1, <2>3, <3>1, <3>2, LineGrows, ZenonT(40)
    <3> QED BY <1>6, <2>1, <3>3 DEF c
  <2>6. Slice(buffer, 1, m) = SubSeq(Heard, c + 1, c + m)
    <3>1. Slice(buffer, 1, m) = SubSeq(buffer, 0 + 1, 0 + m)
      BY <2>3 DEF Slice
    <3>2. /\ SubSeq(buffer, 0 + 1, 0 + m) \in Seq(Char) /\ Len(SubSeq(buffer, 0 + 1, 0 + m)) = m
          /\ \A i \in 1..m : SubSeq(buffer, 0 + 1, 0 + m)[i] = buffer[0 + i]
      <4>1. 0 + m <= Len(buffer)
        BY <2>3
      <4> QED BY <1>1, <2>3, <4>1, Beginning
    <3>3. /\ SubSeq(Heard, c + 1, c + m) \in Seq(Char) /\ Len(SubSeq(Heard, c + 1, c + m)) = m
          /\ \A i \in 1..m : SubSeq(Heard, c + 1, c + m)[i] = Heard[c + i]
      BY <1>1, <2>3, Beginning
    <3>4. \A i \in 1..m : SubSeq(buffer, 0 + 1, 0 + m)[i] = SubSeq(Heard, c + 1, c + m)[i]
      BY <2>3, <2>4, <3>2, <3>3, SMTT(20)
    <3>5. SubSeq(buffer, 0 + 1, 0 + m) = SubSeq(Heard, c + 1, c + m)
      BY <3>2, <3>3, <3>4, SeqEqual
    <3> QED BY <3>1, <3>5
  <2>7. Trim(seen.open) = line
    BY <2>5, <2>6 DEF line
  <2>8. Heard[c + index] = Newline
    BY <1>1, <2>2
  <2>9. seen \in Seen /\ now = ReadOn(seen, Newline) /\ Newline \in Char
    BY <1>1, <2>3, <2>8, ReadingIs, ByteAssumption
  <2> HIDE DEF seen, now
  <2>10. /\ now.open = <<>>
         /\ now.messages = IF line \in Message THEN Append(seen.messages, line) ELSE seen.messages
         /\ now.bad = IF line \in Message \cup {<<>>} THEN seen.bad ELSE seen.bad + 1
         /\ (now.invalid <=> seen.invalid \/ line \in Invalid)
    BY <2>7, <2>9, ReadOnIs
  <2>11. CutOff' = c + index
    BY <1>3, <2>2
  <2>12. now.messages = delivered' /\ now.bad = errors'
    BY <1>2, <2>5, <2>10
  <2>13. ~now.invalid => index' = NewlineIndex(buffer')
    BY <1>2, <2>10
  <2> QED BY <1>0, <1>1, <1>2, <1>3, <1>4, <2>10, <2>11, <2>12, <2>13 DEF LinesInv, now
<1> QED BY <1>5, <1>6

LEMMA LinesHold == MCSpec => []LinesInv
<1>1. MCInit => LinesInv
  BY LinesFromNothing DEF MCInit
<1>2. LinesInv /\ [MCNext]_mcvars => LinesInv'
  <2> SUFFICES ASSUME LinesInv, [MCNext]_mcvars PROVE LinesInv'
    OBVIOUS
  <2>1. CASE UNCHANGED vars
    BY <2>1 DEF vars, LinesInv, CutOff, Heard
  <2>2. CASE Next
    <3>1. ASSUME NEW n \in 1..MaxChunk, NEW chunk \in [1..n -> Byte], Push(chunk) PROVE LinesInv'
      <4>1. n \in Nat /\ chunk \in Seq(Byte)
        BY ByteAssumption
      <4> QED BY <3>1, <4>1, PushKeepsLines
    <3>2. ASSUME NEW n \in 1..MaxChunk, NEW chunk \in [1..n -> Byte], Overflow(chunk) PROVE LinesInv'
      BY <3>2, LinesFromNothing DEF Overflow
    <3>3. CASE End
      BY <3>3, LinesFromNothing DEF End
    <3>4. CASE DecodeLine
      BY <3>4, DecodeLineKeepsLines
    <3> QED BY <2>2, <3>1, <3>2, <3>3, <3>4 DEF Next
  <2> QED BY <2>1, <2>2 DEF MCNext, mcvars
<1> QED BY <1>1, <1>2, PTL DEF MCSpec

\* However a text is cut into chunks, all its messages up to the first invalid
\* one are delivered, once and in order, and every bad line is reported, as they
\* read with two of Broken for each character that the pipe cut in two; and push
\* never keeps more than the line begun last.
THEOREM LinesAreDecoded == MCSpec => []DecodesUntilInvalid
<1>1. LinesInv => DecodesUntilInvalid
  <2> SUFFICES ASSUME LinesInv, index = 0
               PROVE  /\ ~Read.invalid => delivered = Read.messages /\ errors = Read.bad
                      /\ NewlineIndex(buffer) = 0 /\ IsSuffix(buffer, Heard)
    BY DEF DecodesUntilInvalid
  <2> DEFINE c == CutOff
             n == Len(Heard)
             m == Len(buffer)
  <2>1. /\ Heard \in Seq(Char) /\ buffer \in Seq(Char) /\ n \in Nat /\ m \in Nat /\ m <= n
        /\ \A i \in 1..m : buffer[i] = Heard[c + i]
        /\ NewlineIndex(buffer) = 0 /\ c = n - m
    BY DEF LinesInv, CutOff
  <2>3. Read = Reading(Heard)[n]
    BY DEF Read
  <2>4. ASSUME ~Read.invalid PROVE delivered = Read.messages /\ errors = Read.bad
    <3>1. ~Reading(Heard)[c].invalid
      <4>1. c \in 0..n /\ n \in 0..n /\ c <= n
        BY <2>1
      <4> QED BY <2>1, <2>3, <2>4, <4>1, InvalidStays
    <3>2. Reading(Heard)[c].open = <<>> /\ delivered = Reading(Heard)[c].messages /\ errors = Reading(Heard)[c].bad
      BY <3>1 DEF LinesInv
    <3>3. \A i \in 1..m : buffer[i] # Newline
      BY <2>1, NewlineIndexIs
    <3>4. c \in Nat /\ c + m = n /\ \A i \in 1..m : Heard[c + i] # Newline
      BY <2>1, <3>3
    <3> HIDE DEF c, n, m
    <3>5. c + m <= Len(Heard)
      BY <2>1, <3>4 DEF n
    <3>6. Reading(Heard)[c + m].messages = Reading(Heard)[c].messages /\ Reading(Heard)[c + m].bad = Reading(Heard)[c].bad
      BY <2>1, <3>2, <3>4, <3>5, LineGrows, ZenonT(40)
    <3> QED BY <2>3, <3>2, <3>4, <3>6
  <2>5. IsSuffix(buffer, Heard)
    <3> DEFINE a == SubSeq(Reverse(buffer), 1, m)
               b == SubSeq(Reverse(Heard), 1, m)
    <3>1. /\ Reverse(buffer) \in Seq(Char) /\ Len(Reverse(buffer)) = m
          /\ \A i \in 1..m : Reverse(buffer)[i] = buffer[(m - i) + 1]
      BY <2>1 DEF Reverse
    <3>2. /\ Reverse(Heard) \in Seq(Char) /\ Len(Reverse(Heard)) = n
          /\ \A i \in 1..n : Reverse(Heard)[i] = Heard[(n - i) + 1]
      BY <2>1 DEF Reverse
    <3>3. a \in Seq(Char) /\ Len(a) = m /\ \A i \in 1..m : a[i] = Reverse(buffer)[i]
      BY <2>1, <3>1
    <3>4. b \in Seq(Char) /\ Len(b) = m /\ \A i \in 1..m : b[i] = Reverse(Heard)[i]
      BY <2>1, <3>2
    <3> HIDE DEF a, b
    <3>5. ASSUME NEW i \in 1..m PROVE a[i] = b[i]
      <4>1. (m - i) + 1 \in 1..m /\ c + ((m - i) + 1) = (n - i) + 1 /\ i \in 1..n
        BY <2>1
      <4>2. buffer[(m - i) + 1] = Heard[(n - i) + 1]
        BY <2>1, <4>1
      <4> QED BY <3>1, <3>2, <3>3, <3>4, <4>1, <4>2
    <3>6. a = b
      BY <3>3, <3>4, <3>5, SeqEqual
    <3> QED BY <2>1, <3>1, <3>2, <3>6 DEF IsSuffix, IsPrefix, a, b
  <2> QED BY <2>1, <2>4, <2>5
<1> QED BY <1>1, LinesHold, PTL

=============================================================================
