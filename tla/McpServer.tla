----------------------------- MODULE McpServer -----------------------------
(***************************************************************************)
(* The MCP server: sockets of the net server and exchanges of the HTTP     *)
(* server, in front of one router and its session store.                   *)
(*                                                                         *)
(* A socket's bytes are cut into requests by a loop that takes one at a    *)
(* time and waits for its answer; what arrives meanwhile is buffered, and  *)
(* the chunk that arrives starts the loop only when it is not running.  A  *)
(* session outlives the requests that made it: it is closed by a DELETE or *)
(* by the pruning some later request does, and while it has an event       *)
(* stream only by the former.                                              *)
(*                                                                         *)
(* A request is a record of CONSTANT Request: its kind is the router's     *)
(* case for it, "refused" for all that are answered without a session      *)
(* (path, token, media type, JSON, protocol version).  Only a tool call    *)
(* takes more than the microtasks of the event it arrives in, so nothing   *)
(* else happens while running is a socket.  Requests pipelined on one HTTP *)
(* connection are left out.                                                *)
(***************************************************************************)
EXTENDS Integers, Sequences, FiniteSets

CONSTANTS Socket,       \* connections of the net server
          Exchange,     \* requests of the HTTP server
          SessionId,
          None,
          Request,      \* [kind, sid, close: Connection: close, sse: Accept]
          MaxRequests,  \* bound on the requests of a socket
          MaxStreams    \* MAX_SSE_CONNECTIONS_PER_SESSION

VARIABLES sessions,  \* id -> [state, initialized, stale, streams]
          pruneDue,  \* SESSION_PRUNE_INTERVAL_MS have passed since the last prune
          open,      \* event streams not closed, <<peer, number of its request>>
          socket,    \* socket -> [buffer, sent, closed, ended, pending, answered]
          exchange,  \* exchange -> [state, request]
          running    \* the socket whose loop runs, or None

mvars == <<sessions, pruneDue, open, socket, exchange, running>>

Implicit == {"call", "query", "query_note"}
Posts == Implicit \cup {"initialize", "initialize_note", "initialized", "unknown"}

----------------------------------------------------------------------------
(* The session store and the router; S stands for sessions, O for open     *)

Live(S) == {i \in SessionId : S[i].state = "live"}
Get(S, req) == IF req.sid \in Live(S) THEN req.sid ELSE None
Create(S, i) ==
    [S EXCEPT ![i] = [state |-> "live", initialized |-> FALSE, stale |-> FALSE, streams |-> {}]]
Touch(S, i) == [S EXCEPT ![i].stale = FALSE]
Initialized(S, i) == [S EXCEPT ![i].initialized = TRUE]
AttachSse(S, i, conn) == [S EXCEPT ![i].streams = @ \cup {conn}]
DetachSse(S, conns) == [i \in SessionId |-> [S[i] EXCEPT !.streams = @ \ conns]]
Close(S, ids) ==
    [i \in SessionId |-> IF i \in ids THEN [S[i] EXCEPT !.state = "closed", !.streams = {}] ELSE S[i]]

\* pruneStale: the sessions it closes; a stream keeps a session.
Expired(S, O) == {i \in Live(S) : S[i].stale /\ S[i].streams \cap O = {}}

\* resolveSession and handleMessage for a POST: the sessions after it; new is
\* the id of a session it creates.
Created(S, req, new) ==
    CASE req.kind = "initialize"      -> Initialized(Create(S, new), new)
      [] req.kind = "initialize_note" -> Create(S, new)
      [] OTHER                        -> Initialized(Create(S, new), new)
Creates(S, req) ==
    \/ req.kind \in {"initialize", "initialize_note"}
    \/ req.kind \in Implicit /\ Get(S, req) = None
Posted(S, req, new) ==
    LET i == Get(S, req)
    IN IF Creates(S, req) THEN Created(S, req, new)
       ELSE IF i = None THEN S
       ELSE IF req.kind = "initialized" THEN Initialized(Touch(S, i), i) ELSE Touch(S, i)
\* handleToolCall is reached.
Calls(S, req) ==
    req.kind = "call" /\ (Get(S, req) = None \/ S[Get(S, req)].initialized)

\* handleSseGet: the stream is opened.
Streams(S, req) ==
    req.kind = "get" /\ Get(S, req) # None /\ Cardinality(S[Get(S, req)].streams) < MaxStreams

\* What a request leaves: the sessions, the streams it closes or opens.
AfterPrune == IF pruneDue THEN Close(sessions, Expired(sessions, open)) ELSE sessions
Routed(req, conn, new) ==
    LET S == AfterPrune
    IN CASE req.kind = "get" ->
              IF Streams(S, req) THEN AttachSse(Touch(S, Get(S, req)), Get(S, req), conn) ELSE S
         [] req.kind = "delete" ->
              IF Get(S, req) # None THEN Close(S, {Get(S, req)}) ELSE S
         [] req.kind \in Posts -> Posted(S, req, new)
         [] OTHER -> S
\* Fault: the session is forgotten, its streams are not closed.
Forgotten(S) == {}
Cut(S) == {c \in open : \E i \in SessionId : c \in sessions[i].streams /\ S[i].state = "closed"}

\* The id a request may be given; any, where it makes no session.
NewIds(req) == IF req.kind \in Posts /\ Creates(AfterPrune, req)
               THEN {i \in SessionId : sessions[i].state = "unused"} ELSE {None}

Route(req, conn, new) ==
    LET S == Routed(req, conn, new)
        opened == IF Streams(AfterPrune, req) THEN {conn} ELSE {}
    IN /\ sessions' = S
       /\ open' = (open \ Cut(S)) \cup opened
       /\ pruneDue' = FALSE

\* adapter.close of the streams a request cut: each ends its peer.
Ended(k) == socket[k].ended \/ \E n \in 1..MaxRequests : <<k, n>> \in Cut(sessions')
EndedExchanges == [e \in Exchange |->
    IF <<e, 1>> \in Cut(sessions') THEN [exchange[e] EXCEPT !.state = "done"] ELSE exchange[e]]

----------------------------------------------------------------------------
(* The net server                                                          *)

\* processBuffer returns at once while it is running.
\* Fault: the chunk starts a second loop.
NeverBusy(k) == running = k
Busy(k) == running = k \/ socket[k].pending # None

\* A chunk: a request, the first part of one, or the rest of one.
Chunks(k) ==
    LET b == socket[k].buffer
        n == socket[k].sent + 1
    IN IF b # <<>> /\ b[Len(b)].part THEN {[b[Len(b)] EXCEPT !.part = FALSE]}
       ELSE IF n > MaxRequests THEN {}
       ELSE {[n |-> n, req |-> r, part |-> p] : r \in Request, p \in BOOLEAN}

Data(k) ==
    /\ running = None /\ ~ socket[k].closed
    /\ \E c \in Chunks(k) :
         socket' = [socket EXCEPT ![k].buffer = IF c.n <= socket[k].sent
                                                THEN [@ EXCEPT ![Len(@)] = c] ELSE Append(@, c),
                                  ![k].sent = c.n]
    /\ running' = IF Busy(k) THEN None ELSE k
    /\ UNCHANGED <<sessions, pruneDue, open, exchange>>

\* The loop goes on: the head of the buffer is a request, and was handled.
\* Fault: one request per chunk.
OnePerChunk(k, goOn) == None
LoopOn(k, goOn) == IF goOn THEN k ELSE None

\* toPostResponse: the answer is an event stream of one event.
OneEvent(S, req) ==
    /\ req.sse /\ req.kind \in {"initialize", "initialize_note", "call", "query", "unknown"}
    /\ Creates(S, req) \/ Get(S, req) # None

\* writePlan, and closeSocket when the request or a bad head asks for it: an
\* answer to a socket that was ended is lost, and the error event closes it.
Written(s, n, ends, closes) ==
    IF s.ended \/ s.closed THEN [s EXCEPT !.closed = TRUE]
    ELSE [s EXCEPT !.answered = Append(@, n), !.ended = ends, !.closed = closes]

\* One turn of the loop in processBuffer.
Turn(k) ==
    /\ running = k
    /\ LET s == socket[k]
           first == Head(s.buffer)
           taken == [s EXCEPT !.buffer = Tail(@)]
           req == first.req
           Answer(opens) ==
             LET w == Written([taken EXCEPT !.ended = Ended(k)], first.n,
                              req.close \/ OneEvent(AfterPrune, req), req.close /\ ~ opens)
             IN /\ socket' = [j \in Socket |-> IF j = k THEN w
                                               ELSE [socket[j] EXCEPT !.ended = Ended(j)]]
                /\ running' = LoopOn(k, ~ w.closed /\ ~ opens)
           nothing == IF s.closed \/ s.buffer = <<>> THEN TRUE
                      ELSE first.part /\ req.kind # "unreadable"
       IN \/ /\ nothing
             /\ running' = None
             /\ UNCHANGED <<sessions, pruneDue, open, socket, exchange>>
          \/ \* a head that cannot be parsed, or announces too much
             /\ ~ nothing /\ req.kind = "unreadable"
             /\ socket' = [socket EXCEPT ![k] = Written(s, first.n, TRUE, TRUE)]
             /\ running' = None
             /\ UNCHANGED <<sessions, pruneDue, open, exchange>>
          \/ /\ ~ nothing /\ req.kind # "unreadable"
             /\ \E new \in NewIds(req) : Route(req, <<k, first.n>>, new)
             /\ exchange' = EndedExchanges
             /\ IF Calls(AfterPrune, req)
                THEN /\ socket' = [socket EXCEPT ![k] = [taken EXCEPT !.pending = first]]
                     /\ running' = None
                ELSE Answer(Streams(AfterPrune, req))

\* callTool settled: the answer is written and the loop goes on.
ToolDone(k) ==
    /\ running = None /\ socket[k].pending # None
    /\ LET p == socket[k].pending
           w == Written([socket[k] EXCEPT !.pending = None], p.n, p.req.close \/ p.req.sse,
                        p.req.close)
       IN /\ socket' = [socket EXCEPT ![k] = w]
          /\ running' = LoopOn(k, ~ w.closed)
    /\ UNCHANGED <<sessions, pruneDue, open, exchange>>

\* The socket's close event, whoever ended it; its streams are detached.
SocketCloses(k) ==
    /\ running = None
    /\ LET gone == {c \in open : c[1] = k}
       IN /\ ~ socket[k].closed \/ gone # {}
          /\ open' = open \ gone
          /\ sessions' = DetachSse(sessions, gone)
    /\ socket' = [socket EXCEPT ![k].closed = TRUE, ![k].ended = TRUE, ![k].buffer = <<>>]
    /\ UNCHANGED <<pruneDue, exchange, running>>

\* The error event: closeSocket, the close event comes later.
SocketError(k) ==
    /\ running = None /\ ~ socket[k].closed
    /\ socket' = [socket EXCEPT ![k].closed = TRUE, ![k].ended = TRUE]
    /\ UNCHANGED <<sessions, pruneDue, open, exchange, running>>

----------------------------------------------------------------------------
(* The HTTP server                                                         *)

\* The router's answer to exchange e, whose body is read.
Handled(e, req) ==
    /\ \E new \in NewIds(req) : Route(req, <<e, 1>>, new)
    /\ exchange' = [EndedExchanges EXCEPT ![e] =
           [state |-> CASE Calls(AfterPrune, req)   -> "calling"
                        [] Streams(AfterPrune, req) -> "streaming"
                        [] OTHER -> "done", request |-> req]]
    /\ socket' = [j \in Socket |-> [socket[j] EXCEPT !.ended = Ended(j)]]
    /\ UNCHANGED running

HttpRequest(e) ==
    /\ running = None /\ exchange[e].state = "idle"
    /\ \E req \in {r \in Request : r.kind # "unreadable"} :
         IF req.kind \in Posts
         THEN /\ exchange' = [exchange EXCEPT ![e] = [state |-> "reading", request |-> req]]
              /\ UNCHANGED <<sessions, pruneDue, open, socket, running>>
         ELSE Handled(e, req)

\* readBody resolves.
BodyRead(e) == running = None /\ exchange[e].state = "reading" /\ Handled(e, exchange[e].request)

\* readBody rejects: too large, too slow, aborted; answered without the router.
BodyRejected(e) ==
    /\ running = None /\ exchange[e].state = "reading"
    /\ exchange' = [exchange EXCEPT ![e].state = "done"]
    /\ UNCHANGED <<sessions, pruneDue, open, socket, running>>

HttpToolDone(e) ==
    /\ running = None /\ exchange[e].state = "calling"
    /\ exchange' = [exchange EXCEPT ![e].state = "done"]
    /\ UNCHANGED <<sessions, pruneDue, open, socket, running>>

\* The close event of a response that is a stream.
ResponseCloses(e) ==
    /\ running = None /\ exchange[e].state = "streaming"
    /\ exchange' = [exchange EXCEPT ![e].state = "done"]
    /\ sessions' = DetachSse(sessions, {<<e, 1>>})
    /\ open' = open \ {<<e, 1>>}
    /\ UNCHANGED <<pruneDue, socket, running>>

----------------------------------------------------------------------------
\* Time passes: a prune is due, and these sessions were last seen longer than
\* sessionTtlMs ago.
TimePasses ==
    /\ running = None
    /\ \E old \in SUBSET Live(sessions) :
         sessions' = [i \in SessionId |-> [sessions[i] EXCEPT !.stale = @ \/ i \in old]]
    /\ pruneDue' = TRUE
    /\ UNCHANGED <<open, socket, exchange, running>>

Init ==
    /\ sessions = [i \in SessionId |->
         [state |-> "unused", initialized |-> FALSE, stale |-> FALSE, streams |-> {}]]
    /\ pruneDue = FALSE /\ open = {} /\ running = None
    /\ socket = [k \in Socket |-> [buffer |-> <<>>, sent |-> 0, closed |-> FALSE, ended |-> FALSE,
                                   pending |-> None, answered |-> <<>>]]
    /\ exchange = [e \in Exchange |-> [state |-> "idle", request |-> None]]

Next ==
    \/ \E k \in Socket : Data(k) \/ Turn(k) \/ ToolDone(k) \/ SocketCloses(k) \/ SocketError(k)
    \/ \E e \in Exchange : HttpRequest(e) \/ BodyRead(e) \/ BodyRejected(e) \/ HttpToolDone(e)
                           \/ ResponseCloses(e)
    \/ TimePasses

Spec == Init /\ [][Next]_mvars

----------------------------------------------------------------------------
\* A socket's answers are those of its first requests, in the order they were
\* sent, one each: a client matches them by their place.
AnswersInOrder == \A k \in Socket :
    /\ Len(socket[k].answered) <= socket[k].sent
    /\ \A n \in 1..Len(socket[k].answered) : socket[k].answered[n] = n

\* No request that has arrived whole waits on a socket nobody reads: the chunk
\* that finds the loop running leaves it to the loop.
NothingLeftBehind == \A k \in Socket :
    LET s == socket[k]
    IN (~ s.closed /\ ~ s.ended /\ running # k /\ s.pending = None /\ s.buffer # <<>>
        /\ \A c \in open : c[1] # k)
       => Head(s.buffer).part

\* An event stream that is open belongs to a session of the store, so that a
\* DELETE can close it; a session counts none that is closed against its limit,
\* and has no more than that.
StreamsAreReachable ==
    /\ UNION {sessions[i].streams : i \in Live(sessions)} = open
    /\ \A i \in SessionId : Cardinality(sessions[i].streams) <= MaxStreams
=============================================================================
