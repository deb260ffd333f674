--------------------------- MODULE SharedProject ---------------------------
(***************************************************************************)
(* What the tools promise the clients that share a project: the project is *)
(* a register.  Every call looks at it or changes it in one step between   *)
(* its request and its response, and that step obeys the revision the      *)
(* request names as a compare-and-set does.  The response then carries a   *)
(* revision the project had after that step and before the response.       *)
(***************************************************************************)
CONSTANTS Client, Call, Kind, Snapshot, NoRevision, RequireRevision, AutoRetry,
          HashSnapshot(_)

VARIABLES
    project,   \* the snapshot every client sees
    request,   \* what the client sent
    place,     \* of a call: not made, sent, past its step, answered
    verdict,   \* what its step came to
    reply,     \* the revision its response carries
    known      \* last revision each client was told

vars == <<project, request, place, verdict, reply, known>>

Init ==
    /\ project \in Snapshot
    /\ request = [c \in Call |-> [kind |-> "none"]]
    /\ place = [c \in Call |-> "out"]
    /\ verdict = [c \in Call |-> "none"]
    /\ reply = [c \in Call |-> NoRevision]
    /\ known = [c \in Client |-> NoRevision]

Guarded == {"edit", "compound"}
Looks   == {"check", "export", "read", "preview"}

Move(c, from, to) == place[c] = from /\ place' = [place EXCEPT ![c] = to]
Named(c)   == request[c].ifRevision # NoRevision
Current(c) == request[c].ifRevision = HashSnapshot(project)
Told(c)    == reply' = [reply EXCEPT ![c] = HashSnapshot(project)]

\* The one step of a call, and what it comes to.
Step(c, v) ==
    /\ Move(c, "in", "ran")
    /\ verdict' = [verdict EXCEPT ![c] = v]
    /\ UNCHANGED <<request, known>>

Invoke(c) ==
    /\ Move(c, "out", "in")
    /\ \E client \in Client, kind \in Kind : \E rev \in {known[client], NoRevision} :
         request' = [request EXCEPT ![c] = [client |-> client, kind |-> kind, ifRevision |-> rev]]
    /\ UNCHANGED <<project, verdict, reply, known>>

\* An edit must name a revision where one is required, and then either the
\* current one or, with the auto-retry, any.
Admitted(c) == RequireRevision => Named(c) /\ (AutoRetry \/ Current(c))

\* It may write what is there already.
Change(c) ==
    /\ request[c].kind \in Guarded /\ Admitted(c)
    /\ \E v \in {"ok", "partial", "threw"} : Step(c, v)
    /\ project' \in Snapshot
    /\ UNCHANGED reply

\* ensure_project on the open project: nothing that has a revision changes.
Attune(c) ==
    /\ request[c].kind = "reuse" /\ Step(c, "ok")
    /\ \E after \in Snapshot : HashSnapshot(after) = HashSnapshot(project) /\ project' = after
    /\ UNCHANGED reply

\* A call that fails has changed nothing.
Fail(c) ==
    /\ \/ request[c].kind \in Guarded \cup {"reuse"} /\ Step(c, "failed")
       \/ request[c].kind \in Guarded /\ Admitted(c) /\ Step(c, "threw")
    /\ UNCHANGED <<project, reply>>

\* A call is refused for a missing revision only if it would edit, and for a
\* revision only if that is not the current one, or was not at some moment
\* of the call's that an edit with auto-retry may have missed.
Refuse(c) ==
    /\ RequireRevision
    /\ \/ request[c].kind \in Guarded /\ ~Named(c) /\ Step(c, "missing")
       \/ /\ request[c].kind \in Guarded \cup (Looks \ {"read"}) /\ Named(c)
          /\ (request[c].kind \in Guarded /\ AutoRetry) \/ ~Current(c)
          /\ Step(c, "mismatch")
    /\ UNCHANGED reply \/ Told(c)
    /\ UNCHANGED project

\* A call that only looks, at the revision it names if it names one; what an
\* export comes to is known later.
Look(c) ==
    /\ request[c].kind \in Looks
    /\ request[c].kind = "read" \/ (RequireRevision /\ Named(c) => Current(c))
    /\ Step(c, IF request[c].kind = "export" THEN "none" ELSE "ok")
    /\ UNCHANGED reply \/ Told(c)
    /\ UNCHANGED project

Conclude(c) ==
    /\ request[c].kind = "export" /\ place[c] = "ran" /\ verdict[c] = "none"
    /\ \E v \in {"ok", "failed"} : verdict' = [verdict EXCEPT ![c] = v]
    /\ UNCHANGED <<project, request, place, reply, known>>

\* The revision the response will carry is read once, after the call's step.
Tell(c) ==
    /\ place[c] = "ran" /\ verdict[c] \notin {"none", "threw"} /\ reply[c] = NoRevision
    /\ Told(c)
    /\ UNCHANGED <<project, request, place, verdict, known>>

\* Only the response to an exception carries none.
Return(c) ==
    /\ Move(c, "ran", "back")
    /\ verdict[c] # "none"
    /\ verdict[c] = "threw" <=> reply[c] = NoRevision
    /\ known' = IF reply[c] = NoRevision THEN known
                ELSE [known EXCEPT ![request[c].client] = reply[c]]
    /\ UNCHANGED <<project, request, verdict, reply>>

UserEdit ==
    /\ \E after \in Snapshot : after # project /\ project' = after
    /\ UNCHANGED <<request, place, verdict, reply, known>>

Run(c) == Change(c) \/ Attune(c) \/ Fail(c) \/ Refuse(c) \/ Look(c)

Next ==
    \/ UserEdit
    \/ \E c \in Call : Invoke(c) \/ Run(c) \/ Conclude(c) \/ Tell(c) \/ Return(c)

Spec == Init /\ [][Next]_vars
=============================================================================
