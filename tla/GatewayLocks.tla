---------------------------- MODULE GatewayLocks ----------------------------
(***************************************************************************)
(* The gateway's dispatcher (apps/mcp-gateway/src/dispatcher.ts) and the   *)
(* promise queues that serialize mutating calls per project                *)
(* (packages/backend-core/src/locks.ts), in front of a backend.            *)
(*                                                                         *)
(* A queue is one promise.  Call c chains its job to the queue's promise   *)
(* and replaces it by one that settles after its own job; so each call     *)
(* waits for one predecessor, which is all that is kept here: prev.        *)
(***************************************************************************)
EXTENDS Naturals, Sequences, FiniteSets, Functions

CONSTANTS
    Call,            \* tool calls, each made at most once (bounds the model)
    NoCall,          \* an already resolved promise
    Text,            \* strings of payloads
    Blank,           \* the empty string
    Trim,            \* String.prototype.trim
    Absent,          \* a missing field
    DefaultProject,  \* DEFAULT_PROJECT_ID
    Payload,         \* the payloads clients send
    ToolName,        \* the tools they call
    Registered,      \* backend kinds in the registry
    DefaultBackend

BackendKind == {"engine", "blockbench"}

\* The fields readProjectIdFromPayload looks at, the first one first.
ProjectField == <<"projectId", "project_id", "projectName", "project", "name">>

ReadOnlyTools == {"list_capabilities", "get_project_state", "read_texture",
                  "render_preview", "validate", "export_trace_log"}

ASSUME TextAssumption ==
    /\ Trim \in [Text -> Text] /\ \A t \in Text : Trim[Trim[t]] = Trim[t]
    /\ Blank \in Text /\ Trim[Blank] = Blank /\ Absent \notin Text
    /\ DefaultProject \in Text /\ Trim[DefaultProject] = DefaultProject
    /\ DefaultProject # Blank

ASSUME CallAssumption ==
    /\ NoCall \notin Call
    /\ Payload \subseteq [Range(ProjectField) \cup {"backend"} ->
                             Text \cup {Absent} \cup BackendKind]
    /\ \A p \in Payload : \A f \in Range(ProjectField) : p[f] \in Text \cup {Absent}
    /\ \A p \in Payload : p["backend"] \in BackendKind \cup {Absent}
    /\ Registered \subseteq BackendKind /\ DefaultBackend \in BackendKind

VARIABLES
    queues,    \* ProjectLockManager.queues: the last call chained to each key
    pc,        \* where each call is
    request,   \* its tool and payload
    key,       \* session.projectId
    prev,      \* the call its job was chained to
    arrived,   \* history: the calls that took the lock, in order
    started    \* history: their jobs, in the order they were started

vars == <<queues, pc, request, key, prev, arrived, started>>

NoRequest == [tool |-> "none"]
Place == {"idle", "refused", "waiting", "running", "hung", "settled", "rejected", "released"}

TypeOK ==
    /\ DOMAIN queues \subseteq Text /\ \A k \in DOMAIN queues : queues[k] \in Call
    /\ pc \in [Call -> Place]
    /\ request \in [Call -> [tool : ToolName, payload : Payload] \cup {NoRequest}]
    /\ key \in [Call -> Text \cup {Absent}]
    /\ prev \in [Call -> Call \cup {NoCall}]
    /\ arrived \in Seq(Call)
    /\ started \in Seq(Call)

Init ==
    /\ queues = [k \in {} |-> NoCall]
    /\ pc = [c \in Call |-> "idle"]
    /\ request = [c \in Call |-> NoRequest]
    /\ key = [c \in Call |-> Absent]
    /\ prev = [c \in Call |-> NoCall]
    /\ arrived = <<>>
    /\ started = <<>>
-----------------------------------------------------------------------------
(* Reading a request. *)

IsMutatingTool(name) == name \notin ReadOnlyTools

Named(payload) ==
    {i \in DOMAIN ProjectField :
        LET value == payload[ProjectField[i]] IN value # Absent /\ Trim[value] # Blank}

ReadProjectId(payload) ==
    IF Named(payload) = {} THEN DefaultProject
    ELSE LET first == CHOOSE i \in Named(payload) : \A j \in Named(payload) : i <= j
         IN  Trim[payload[ProjectField[first]]]

BackendOf(payload) ==
    IF payload["backend"] = Absent THEN DefaultBackend ELSE payload["backend"]

Asks(c, tool, payload) ==
    /\ pc[c] = "idle"
    /\ request' = [request EXCEPT ![c] = [tool |-> tool, payload |-> payload]]
    /\ key' = [key EXCEPT ![c] = ReadProjectId(payload)]
-----------------------------------------------------------------------------
(* GatewayDispatcher.handle *)

Refuse(c, tool, payload) ==
    /\ BackendOf(payload) \notin Registered
    /\ Asks(c, tool, payload)
    /\ pc' = [pc EXCEPT ![c] = "refused"]
    /\ UNCHANGED <<queues, prev, arrived, started>>

RunReadOnly(c, tool, payload) ==
    /\ BackendOf(payload) \in Registered /\ ~IsMutatingTool(tool)
    /\ Asks(c, tool, payload)
    /\ pc' = [pc EXCEPT ![c] = "running"]
    /\ UNCHANGED <<queues, prev, arrived, started>>

\* Fault: run chains its job but does not replace the queue's promise.
RunLockedKeepingTail(c, tool, payload) ==
    LET k == ReadProjectId(payload)
    IN  /\ BackendOf(payload) \in Registered /\ IsMutatingTool(tool)
        /\ Asks(c, tool, payload)
        /\ prev' = [prev EXCEPT ![c] = IF k \in DOMAIN queues THEN queues[k] ELSE NoCall]
        /\ queues' = [q \in DOMAIN queues \cup {k} |-> IF q \in DOMAIN queues THEN queues[q] ELSE c]
        /\ pc' = [pc EXCEPT ![c] = "waiting"]
        /\ arrived' = Append(arrived, c)
        /\ UNCHANGED started

\* ProjectLockManager.run: the first call of a key creates its queue, none
\* ever removes one.  The key is never blank, so the unlocked branch of run
\* is out of the gateway's reach.
RunLocked(c, tool, payload) ==
    LET k == ReadProjectId(payload)
    IN  /\ BackendOf(payload) \in Registered /\ IsMutatingTool(tool)
        /\ Asks(c, tool, payload)
        /\ prev' = [prev EXCEPT ![c] = IF k \in DOMAIN queues THEN queues[k] ELSE NoCall]
        /\ queues' = [q \in DOMAIN queues \cup {k} |-> IF q = k THEN c ELSE queues[q]]
        /\ pc' = [pc EXCEPT ![c] = "waiting"]
        /\ arrived' = Append(arrived, c)
        /\ UNCHANGED started

Arrive(c) ==
    \E tool \in ToolName, payload \in Payload :
        Refuse(c, tool, payload) \/ RunReadOnly(c, tool, payload) \/ RunLocked(c, tool, payload)
-----------------------------------------------------------------------------
(* The job of a call and the promises behind it. *)

Begin(c) ==
    /\ pc[c] = "waiting"
    /\ pc' = [pc EXCEPT ![c] = "running"]
    /\ started' = Append(started, c)
    /\ UNCHANGED <<queues, request, key, prev, arrived>>

\* Fault: a predecessor that hangs is waited for no longer.
BeginAfterHang(c) ==
    /\ prev[c] \in {NoCall} \cup {d \in Call : pc[d] \in {"hung", "released"}}
    /\ Begin(c)

\* The queue's promise has settled: queue.then(job, job) calls the job.
BeginJob(c) ==
    /\ prev[c] \in {NoCall} \cup {d \in Call : pc[d] = "released"}
    /\ Begin(c)

\* The backend's promise settles, and so does the caller's.  Nothing bounds
\* the time it takes: a backend that never answers is hung.  (The two backends
\* of today turn exceptions into answers; a BackendPort may reject.)
Settle(c) ==
    /\ pc[c] = "running"
    /\ \E place \in {"settled", "rejected", "hung"} : pc' = [pc EXCEPT ![c] = place]
    /\ UNCHANGED <<queues, request, key, prev, arrived, started>>

\* Fault: runNext.then(...) without a handler for rejections.
ReleaseResolved(c) ==
    /\ pc[c] = "settled" /\ c \in Range(arrived)
    /\ pc' = [pc EXCEPT ![c] = "released"]
    /\ UNCHANGED <<queues, request, key, prev, arrived, started>>

\* runNext.then(...): the promise put into the queue settles one round later,
\* whether the job resolved or rejected.
Release(c) ==
    /\ pc[c] \in {"settled", "rejected"} /\ c \in Range(arrived)
    /\ pc' = [pc EXCEPT ![c] = "released"]
    /\ UNCHANGED <<queues, request, key, prev, arrived, started>>

Next == \E c \in Call : Arrive(c) \/ BeginJob(c) \/ Settle(c) \/ Release(c)

Spec == Init /\ [][Next]_vars

\* The engine runs every microtask; a backend either settles or hangs.
Fairness == \A c \in Call : WF_vars(BeginJob(c)) /\ WF_vars(Release(c)) /\ WF_vars(Settle(c))

FairSpec == Spec /\ Fairness
-----------------------------------------------------------------------------
(* Properties. *)

Writers == {c \in Range(arrived) : pc[c] \in {"running", "hung"}}

\* Mutating calls with the same project key never overlap, however they came
\* in, whatever they wait for and whether they fail.
OneWriterPerKey == \A c, d \in Writers : key[c] = key[d] => c = d

\* Before(s, c, d): c comes before d in the sequence s.
Before(s, c, d) == \E i, j \in DOMAIN s : i < j /\ s[i] = c /\ s[j] = d

\* The calls of a key start in the order in which they reached the gateway.
StartsInOrder ==
    \A i, j \in DOMAIN started :
        i < j /\ key[started[i]] = key[started[j]] => Before(arrived, started[i], started[j])

\* A waiting call starts, unless a call of its own key hangs: hung and
\* failed calls of other projects do not matter.
WaitingCallStarts ==
    \A c \in Call :
        pc[c] = "waiting" ~>
            \/ pc[c] # "waiting"
            \/ \E d \in Call : pc[d] = "hung" /\ key[d] = key[c]

\* The calls that have taken the lock and not left it, by key, and those that
\* came before.
InLine == {c \in Range(arrived) : pc[c] \in {"waiting", "running", "hung"}}
Line == [k \in Text |-> {c \in InLine : key[c] = k}]
Ahead == [c \in Call |-> {d \in InLine : c \in InLine /\ key[d] = key[c] /\ Before(arrived, d, c)}]

\* The chain of promises implements a FIFO lock per key.
Lock == INSTANCE FifoLock WITH Key <- Text, line <- Line, ahead <- Ahead, inside <- Writers

ImplementsFifoLock == Lock!Spec
=============================================================================
