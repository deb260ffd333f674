------------------------------ MODULE Sidecar -------------------------------
(***************************************************************************)
(* Tool calls through the sidecar: R/sidecar/transport/SidecarClient.ts in *)
(* the child, SidecarHost.ts in the plug-in and the pipes between them,    *)
(* composed with the supervision of the child (SidecarProcess).            *)
(*                                                                         *)
(* The handshake (hello, ready) is left out: nothing but getStatus reads   *)
(* what it sets, and requests do not wait for it.  What a call does to the *)
(* project is ToolDispatcher's matter; here it runs and may answer.        *)
(***************************************************************************)
EXTENDS SidecarProcess, Sequences

CONSTANTS
    Call,          \* tool calls of MCP clients, each made at most once (bound)
    NoCall,
    MaxInFlight    \* maxInFlight

ASSUME CallAssumption == NoCall \notin Call /\ MaxInFlight \in Nat \ {0}

VARIABLES
    lastId,     \* per child: counter of its client
    pending,    \* per child: its client's pending map
    toHost,     \* per child: requests in its stdout
    toClient,   \* per child: responses in its stdin
    running,    \* requests the dispatcher has taken and not answered
    place,      \* per call: where it stands with its HTTP client
    via,        \* per call: the child that was asked
    answer      \* per call: the call whose result it was given

ipcVars == <<lastId, pending, toHost, toClient, running, place, via, answer>>
vars == <<processVars, ipcVars>>

Message == [id : Nat \ {0}, call : Call]

TypeOK ==
    /\ ProcessTypeOK
    /\ lastId \in [Child -> Nat]
    /\ pending \in [Child -> SUBSET Message]
    /\ toHost \in [Child -> Seq(Message)] /\ toClient \in [Child -> Seq(Message)]
    /\ \A r \in running : r.child \in Child /\ [id |-> r.id, call |-> r.call] \in Message
    /\ place \in [Call -> {"idle", "refused", "waiting", "answered", "timeout", "lost"}]
    /\ via \in [Call -> Child \cup {NoChild}]
    /\ answer \in [Call -> Call \cup {NoCall}]

Init ==
    /\ ProcessInit
    /\ lastId = [k \in Child |-> 0]
    /\ pending = [k \in Child |-> {}]
    /\ toHost = [k \in Child |-> <<>>]
    /\ toClient = [k \in Child |-> <<>>]
    /\ running = {}
    /\ place = [c \in Call |-> "idle"]
    /\ via = [c \in Call |-> NoChild]
    /\ answer = [c \in Call |-> NoCall]
-----------------------------------------------------------------------------
(* SidecarClient, in the child. *)

\* Fault: the id is the request's place among those pending.
PendingCount(k) == Cardinality(pending[k]) + 1

NextId(k) == lastId[k] + 1

Refuse(c, k) ==
    /\ place[c] = "idle" /\ process[k] = "listening"
    /\ Cardinality(pending[k]) >= MaxInFlight
    /\ place' = [place EXCEPT ![c] = "refused"]
    /\ UNCHANGED <<lastId, pending, toHost, toClient, running, via, answer>>

Request(c, k) ==
    LET message == [id |-> NextId(k), call |-> c]
    IN  /\ place[c] = "idle" /\ process[k] = "listening"
        /\ Cardinality(pending[k]) < MaxInFlight
        /\ lastId' = [lastId EXCEPT ![k] = @ + 1]
        /\ pending' = [pending EXCEPT ![k] = @ \cup {message}]
        /\ toHost' = [toHost EXCEPT ![k] = Append(@, message)]
        /\ place' = [place EXCEPT ![c] = "waiting"]
        /\ via' = [via EXCEPT ![c] = k]
        /\ UNCHANGED <<toClient, running, answer>>

\* Fault: the timer is set only once the host has taken the request.
TimeoutOfSent(k, entry) ==
    /\ k \in Alive /\ entry \in pending[k] /\ toHost[k] = <<>>
    /\ pending' = [pending EXCEPT ![k] = @ \ {entry}]
    /\ place' = [place EXCEPT ![entry.call] = "timeout"]
    /\ UNCHANGED <<lastId, toHost, toClient, running, via, answer>>

Timeout(k, entry) ==
    /\ k \in Alive /\ entry \in pending[k]
    /\ pending' = [pending EXCEPT ![k] = @ \ {entry}]
    /\ place' = [place EXCEPT ![entry.call] = "timeout"]
    /\ UNCHANGED <<lastId, toHost, toClient, running, via, answer>>

\* resolveResponse: a response nobody waits for any more is dropped.
ClientReceive(k) ==
    /\ k \in Alive /\ toClient[k] # <<>>
    /\ LET response == Head(toClient[k])
           mine == {entry \in pending[k] : entry.id = response.id}
       IN  /\ pending' = [pending EXCEPT ![k] = @ \ mine]
           /\ place' = [c \in Call |-> IF \E entry \in mine : entry.call = c THEN "answered" ELSE place[c]]
           /\ answer' = [c \in Call |-> IF \E entry \in mine : entry.call = c THEN response.call ELSE answer[c]]
    /\ toClient' = [toClient EXCEPT ![k] = Tail(@)]
    /\ UNCHANGED <<lastId, toHost, running, via>>
-----------------------------------------------------------------------------
(* SidecarHost, in the plug-in. *)

Attached(k) == owner # NoOwner /\ child[owner] = k

\* handleRequest up to its await.  dispose detaches the host from its pipe;
\* a request still in it is never read.
HostReceive(k) ==
    /\ Attached(k) /\ toHost[k] # <<>>
    /\ LET request == Head(toHost[k])
       IN  running' = running \cup {[child |-> k, id |-> request.id, call |-> request.call]}
    /\ toHost' = [toHost EXCEPT ![k] = Tail(@)]
    /\ UNCHANGED <<lastId, pending, toClient, place, via, answer>>

\* handleRequest after its await, with a result or an exception, in any order
\* and whatever became of the child: a write to a dead one is lost.
HostAnswer(r) ==
    /\ r \in running
    /\ running' = running \ {r}
    /\ toClient' = IF r.child \in Alive
                   THEN [toClient EXCEPT ![r.child] = Append(@, [id |-> r.id, call |-> r.call])]
                   ELSE toClient
    /\ UNCHANGED <<lastId, pending, toHost, place, via, answer>>
-----------------------------------------------------------------------------
(* Composition. *)

\* With a child go its client, its connections and what is in its stdin; what
\* it wrote can be read until its exit event.  What the dispatcher still runs
\* for a child that is forgotten answers nobody and is left out.
Break ==
    LET lives == AliveIn(process')
    IN  /\ lastId' = [k \in Child |-> IF k \in lives THEN lastId[k] ELSE 0]
        /\ pending' = [k \in Child |-> IF k \in lives THEN pending[k] ELSE {}]
        /\ toClient' = [k \in Child |-> IF k \in lives THEN toClient[k] ELSE <<>>]
        /\ toHost' = [k \in Child |-> IF k \in lives \/ process'[k] = "dead" THEN toHost[k] ELSE <<>>]
        /\ running' = {r \in running : r.child \in lives \/ process'[r.child] = "dead"}
        /\ place' = [c \in Call |-> IF place[c] = "waiting" /\ via[c] \notin lives THEN "lost" ELSE place[c]]
        /\ UNCHANGED <<via, answer>>

Ipc ==
    \/ \E k \in Child :
         \/ \E c \in Call : Refuse(c, k) \/ Request(c, k)
         \/ \E entry \in pending[k] : Timeout(k, entry)
         \/ ClientReceive(k) \/ HostReceive(k)
    \/ \E r \in running : HostAnswer(r)

Next == (ProcessNext /\ Break) \/ (Ipc /\ UNCHANGED processVars)

Expire(c) == \E k \in Child : \E entry \in pending[k] : entry.call = c /\ Timeout(k, entry)

\* Timers fire.  No call has to be answered and no pipe to be read.
Fairness == ProcessFairness /\ \A c \in Call : WF_ipcVars(Expire(c))

Spec == Init /\ [][Next]_vars /\ Fairness
-----------------------------------------------------------------------------
(* Properties. *)

\* The pending map holds exactly the calls whose clients still wait, each at
\* the child it was sent to, and never more than maxInFlight: no timeout, late
\* response, crash or restart leaks a slot or frees one too early.
PendingAreWaiting ==
    \A k \in Child :
        /\ {entry.call : entry \in pending[k]} = {c \in Call : place[c] = "waiting" /\ via[c] = k}
        /\ Cardinality(pending[k]) <= MaxInFlight

\* No call is ever given the result of another, whatever is answered late or
\* out of order.
OwnAnswer == \A c \in Call : place[c] = "answered" => answer[c] = c

\* Every call comes to an end, even if its request is never read, its handler
\* hangs or its sidecar dies.
CallSettles == \A c \in Call : place[c] = "waiting" ~> place[c] # "waiting"
=============================================================================
