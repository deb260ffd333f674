----------------------- MODULE MCTransportsAndStorage -----------------------
(***************************************************************************)
(* Small instances for TLC of the outer edges of the servers.  Three ways  *)
(* bytes and events come in: the sidecar's lines (LineDecoder, extended    *)
(* here), MCP over HTTP (McpServer), the dashboard's event stream          *)
(* (Dashboard); and the two kinds of storage of the gateway: its project   *)
(* repository (GatewayPersistence) and its blob stores (BlobStores).  None  *)
(* reads the others' state: a behaviour is of one of them and leaves the   *)
(* variables of the others alone.                                          *)
(***************************************************************************)
EXTENDS LineDecoder, TLC

CONSTANTS Part, None,
          Socket, Exchange, SessionId, Request, MaxRequests, MaxStreams,
          Project, Flat, First, Zero, MaxRevision,
          Env, Call, Empty, MaxFaults

\* None, nothing stored, and Empty, an empty file, are no call's name.
ASSUME StorageAssumption == None \notin Call /\ Empty \notin Call \cup {None}

\* None is no name of a session or a socket and no chunk of bytes, and no
\* connection is one of both servers.
ASSUME StreamsAssumption ==
    /\ MaxRequests \in Nat /\ MaxStreams \in Nat
    /\ None \notin SessionId \cup Socket \cup [n : Nat, req : Request, part : BOOLEAN]
    /\ Socket \cap Exchange = {}
    /\ \A req \in Request : req.close \in BOOLEAN /\ req.sse \in BOOLEAN

\* The store has a revision of every project, and nothing is no project.
ASSUME PageAssumption == First \in [Project -> Int] /\ MaxRevision \in Nat /\ None \notin Project

VARIABLES part,
          sessions, pruneDue, open, socket, exchange, running,
          page, revision, rendered, source, route,
          superseded, call, faults,
          env, gateway, db, promise, attempt,
          store, upsert, file, meta, overlapped

Mcp == INSTANCE McpServer
Web == INSTANCE Dashboard
Projects == INSTANCE GatewayPersistence
Blobs == INSTANCE BlobStores

mvars == <<sessions, pruneDue, open, socket, exchange, running>>
dvars == <<page, revision, rendered, source, route>>
svars == <<superseded, call, faults>>
pvars == <<env, gateway, db, promise, attempt>>
bvars == <<store, upsert, file, meta, overlapped>>
mcvars == <<part, vars, mvars, dvars, svars, pvars, bvars>>

NoServer == sessions = None /\ pruneDue = None /\ open = None /\ socket = None /\ exchange = None /\ running = None
NoPage == page = None /\ revision = None /\ rendered = None /\ source = None /\ route = None
NoStorage == superseded = None /\ call = None /\ faults = None
NoProjects == env = None /\ gateway = None /\ db = None /\ promise = None /\ attempt = None
NoBlobs == store = None /\ upsert = None /\ file = None /\ meta = None /\ overlapped = None

MCInit ==
    /\ part \in Part /\ Init
    /\ IF part = "mcp" THEN Mcp!Init ELSE NoServer
    /\ IF part = "web" THEN Web!Init ELSE NoPage
    /\ IF part = "projects" THEN Projects!Init ELSE NoProjects
    /\ IF part = "blobs" THEN Blobs!Init ELSE NoBlobs
    /\ part \notin {"projects", "blobs"} => NoStorage

MCNext ==
    /\ UNCHANGED part
    /\ \/ part = "lines" /\ Next /\ UNCHANGED <<mvars, dvars, svars, pvars, bvars>>
       \/ part = "mcp" /\ Mcp!Next /\ UNCHANGED <<vars, dvars, svars, pvars, bvars>>
       \/ part = "web" /\ Web!Next /\ UNCHANGED <<vars, mvars, svars, pvars, bvars>>
       \/ part = "projects" /\ Projects!Next /\ UNCHANGED <<vars, mvars, dvars, bvars>>
       \/ part = "blobs" /\ Blobs!Next /\ UNCHANGED <<vars, mvars, dvars, pvars>>

MCSpec == MCInit /\ [][MCNext]_mcvars

----------------------------------------------------------------------------
(* The values                                                              *)

AllParts == {"lines", "mcp", "web", "projects", "blobs"}
LinesOnly == {"lines"}

\* "m" stands for a short message, "v" for JSON that is none.
MCMessage == {<<"m">>, <<"m", "Wide">>, <<"m", "Broken", "Broken">>}
MCInvalid == {<<"v">>, <<"v", "v">>}

\* One request of every kind the router tells apart.
Req(kind, sid, close, sse) == [kind |-> kind, sid |-> sid, close |-> close, sse |-> sse]
MCRequest ==
    {Req("unreadable", None, FALSE, FALSE), Req("refused", None, FALSE, FALSE),
     Req("initialize", None, FALSE, FALSE), Req("initialize_note", None, FALSE, FALSE),
     Req("query_note", None, TRUE, FALSE), Req("call", None, FALSE, TRUE)}
    \cup {Req(kind, i, FALSE, FALSE) : kind \in {"get", "delete", "initialized", "call", "unknown"},
                                       i \in SessionId}
    \cup {Req("get", i, TRUE, TRUE) : i \in SessionId}

MCFirst == [p \in Project |-> IF p \in Flat THEN 0 ELSE 2]

\* Every adapter, with and without what it needs, and overrides of a preset.
Environment(preset, overrides, keys, sqlite, failFast) ==
    [preset |-> preset, db |-> overrides[1], storage |-> overrides[2], keys |-> keys,
     sqlite |-> sqlite, failFast |-> failFast, listens |-> TRUE]
NoOverride == <<None, None>>
MCEnv ==
    {Environment("other", NoOverride, {}, TRUE, TRUE), Environment("local", NoOverride, {}, FALSE, FALSE),
     Environment("selfhost", NoOverride, {}, TRUE, TRUE), Environment("local", <<"ashfox", "s3">>, {"storage"}, TRUE, TRUE),
     Environment("appwrite", NoOverride, {"common"}, TRUE, TRUE), Environment("ashfox", <<"unknown", None>>, {"db"}, TRUE, TRUE),
     [Environment("local", NoOverride, {}, TRUE, TRUE) EXCEPT !.listens = FALSE]}

Symmetry == Permutations(SessionId) \cup Permutations(Socket) \cup Permutations(Call)

----------------------------------------------------------------------------
(* The properties of the modules, see there                                *)

\* A socket's requests are answered one after the other, each once.
AnswersInOrder == part = "mcp" => Mcp!AnswersInOrder

\* No whole request stays in the buffer of a socket that waits for more.
NothingLeftBehind == part = "mcp" => Mcp!NothingLeftBehind

\* Every event stream that is open belongs to a session that knows it.
StreamsAreReachable == part = "mcp" => Mcp!StreamsAreReachable

\* The dashboard shows the project it is on, at its newest revision.
PageFollowsTheStream == [][part = "web" => Web!PageFollowsTheStream]_mcvars

\* A find, save or remove is never sent before its table is made.
StatementsFindTheTable == part = "projects" => Projects!StatementsFindTheTable

\* Neither a project nor a blob goes back to what an acknowledged write
\* replaced, and a blob is read with the content type it was written with.
WritesStay ==
    /\ part = "projects" => Projects!AckedSavesStay
    /\ part = "blobs" => Blobs!AckedWritesStay /\ Blobs!ReadsAgree
=============================================================================
