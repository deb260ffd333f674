-------------------------- MODULE ProjectLifecycle --------------------------
(***************************************************************************)
(* ensure_project, the project the session holds and the projects open in  *)
(* Blockbench.  Tools never look at either alone: they see the snapshot,    *)
(* the session's fields under those of the active tab, so a field the tab  *)
(* leaves out is the session's, even if the session is about another tab.  *)
(*                                                                         *)
(* ensure_project reuses, creates or deletes, and each is several steps of  *)
(* editor and session that can stop in between: a new tab may ask for      *)
(* input in a dialog nobody answers, a close may be a promise the tool      *)
(* does not wait for.  The user opens, switches, edits and closes tabs at   *)
(* any time.  Revision guards refuse a call before its first step and are  *)
(* left to ToolDispatcher.                                                 *)
(***************************************************************************)
EXTENDS Integers, FiniteSets

CONSTANTS Project,     \* tabs; a tab's own texture has its name
          Name, NoName,  \* project names and the empty one of an unnamed tab
          Density,     \* values of uvPixelsPerBlock
          Payload,     \* of ensure_project, see MCProject
          Discard,     \* the policies autoDiscardUnsaved, None where it is not set
          None, Stamp  \* an id the session makes from the clock

VARIABLES tabs,        \* tab -> [name, format, saved, density, textures], None if not open
          active,      \* the tab shown, or None
          session,     \* [id, name, format, density, textures]
          discard,     \* the policy of this run
          reply,       \* of the last call if it did something
          astray       \* history: the session may be about another project

lvars == <<tabs, active, session, discard, reply, astray>>

Empty == [id |-> None, name |-> None, format |-> None, density |-> None, textures |-> {}]
Open == {p \in Project : tabs[p] # None}
NewTab == [name |-> NoName, format |-> "rig", saved |-> TRUE, density |-> None, textures |-> {}]

----------------------------------------------------------------------------
(* What tools see                                                          *)

\* readSnapshot: without a project its fields are null.
Live(T, a) ==
    IF a = None THEN Empty
    ELSE [id |-> a, name |-> T[a].name, format |-> T[a].format,
          density |-> T[a].density, textures |-> T[a].textures]
Else(value, other) == IF value = None THEN other ELSE value

\* mergeSnapshots under the hybrid policy.  mergeTextures keeps the session's
\* entries, also those the tab no longer has; bones and cubes are the tab's.
Merge(S, live) ==
    [id |-> Else(live.id, S.id), name |-> Else(live.name, S.name), format |-> Else(live.format, S.format),
     density |-> Else(live.density, S.density), textures |-> live.textures \cup S.textures]
Snapshot(T, a, S) == Merge(S, Live(T, a))

\* toProjectInfo and hasProjectData
HasProject(S) == S.id # None \/ S.format # None \/ S.name # None \/ S.textures # {}

----------------------------------------------------------------------------
(* The session                                                             *)

\* Fault: create keeps what the state had and create has no argument for.
CreateKeeping(name) == [session EXCEPT !.id = Stamp, !.name = name, !.format = "rig"]
Create(name) == [id |-> Stamp, name |-> name, format |-> "rig", density |-> None, textures |-> {}]
Attach(S) == [S EXCEPT !.id = Else(@, Stamp)]

----------------------------------------------------------------------------
(* ensure_project                                                          *)

Replies(payload, outcome) ==
    reply' = [action |-> payload.action, name |-> payload.name, outcome |-> outcome,
              consent |-> payload.force \/ payload.confirm = TRUE]
Refuse(payload) == UNCHANGED lvars

Seen == Snapshot(tabs, active, session)

\* applyUvPixelsPerBlock, the last step of all ways: without a tab the editor
\* refuses, and what came before has happened.  T, S: tabs and session so far.
SetDensity(T, a, density) == [T EXCEPT ![a].density = density]
Settle(payload, density, T, a, S, outcome) ==
    LET set == density # None /\ a # None
    IN  /\ tabs' = IF set THEN SetDensity(T, a, density) ELSE T
        /\ session' = IF set THEN [S EXCEPT !.density = density] ELSE S
        /\ Replies(payload, IF density # None /\ a = None THEN "error" ELSE outcome)
        /\ active' = a /\ UNCHANGED discard

\* inferUvPixelsPerBlock: the median over the faces that use textures, if any
\* of them has an area.
Estimates == {None} \cup Density
Inferred(payload, S) ==
    IF payload.density # None \/ S.density # None \/ active = None \/ Live(tabs, active).textures = {}
    THEN {payload.density} ELSE Estimates

Reuse(payload) ==
    /\ \E density \in Inferred(payload, Attach(Seen)) :
         Settle(payload, density, tabs, active, Attach(Seen), "reused")
    /\ UNCHANGED astray

\* Which projects lose the mark of unsaved work for a new one, or "refused":
\* the first attempt's options, then shouldRetryDiscardUnsaved.
Unsaved == active # None /\ ~tabs[active].saved
Retries(payload) == discard = TRUE /\ payload.confirm = FALSE
GivesUp(payload) ==
    \/ ~Unsaved
    \/ Else(payload.confirm, discard) # FALSE
    \/ Retries(payload)

\* The editor's part: the mark, the tab, its dialog and its name; then the
\* session; then density and a blank texture, whose failure is not looked at.
AsksForInput(payload, T, p) ==   \* ADAPTER_PROJECT_DIALOG_INPUT_REQUIRED, or a throw
    /\ tabs' = T /\ active' = p /\ Replies(payload, "error") /\ astray' = TRUE
    /\ UNCHANGED <<session, discard>>
FailsMarked(payload, T) ==      \* no way to make a tab, or it throws: the mark is gone
    /\ tabs' = T /\ Replies(payload, "error") /\ UNCHANGED <<active, session, discard, astray>>
Finalized(payload, T, p) ==
    \E textures \in {{}, {p}} :
      /\ Settle(payload, payload.density, [T EXCEPT ![p].textures = textures], p,
                [Create(payload.name) EXCEPT !.textures = textures], "created")
      /\ astray' = FALSE
CreateProject(payload) ==
    IF payload.name = None \/ ~GivesUp(payload) THEN Refuse(payload)
    ELSE LET marked == IF active = None THEN tabs ELSE [tabs EXCEPT ![active].saved = TRUE]
         IN  \/ FailsMarked(payload, marked)
             \/ \E p \in Project \ Open :
                   LET opened == [marked EXCEPT ![p] = NewTab]
                   IN  \/ AsksForInput(payload, opened, p)
                       \/ Finalized(payload, [opened EXCEPT ![p].name = payload.name], p)

Mismatch(payload) == payload.match /\ payload.name # None /\ Seen.name # payload.name

Ensure(payload) ==
    /\ payload.action = "ensure"
    /\ IF payload.match /\ payload.name = None THEN Refuse(payload)
       ELSE IF ~HasProject(Seen) THEN IF payload.onMissing = "error" THEN Refuse(payload) ELSE CreateProject(payload)
       ELSE IF Seen.format # "rig" THEN Refuse(payload)
       ELSE IF ~Mismatch(payload) \/ payload.onMismatch = "reuse" THEN Reuse(payload)
       ELSE IF payload.onMismatch = "error" THEN Refuse(payload)
       ELSE CreateProject(payload)

\* What Blockbench shows after a tab is closed.
After(a) == IF Open = {a} THEN {None} ELSE Open \ {a}

\* Fault: the name is compared with the one the session has.
NamedInSession(payload) == session.name = payload.name
Named(payload) == Seen.name = payload.name

\* runCloseProject: there is a tab, and nothing in it is lost unless forced.
Closable(payload) == active # None /\ (~Unsaved \/ payload.force)

\* runDeleteProject: what was closed is looked for in the snapshot, under
\* which the session still lies.
Delete(payload) ==
    /\ payload.action = "delete"
    /\ IF payload.name = None \/ ~HasProject(Seen) \/ ~Named(payload) \/ ~Closable(payload)
       THEN Refuse(payload)
       ELSE \/ \E next \in After(active) :
                 LET rest == [tabs EXCEPT ![active] = None]
                     still == HasProject(Snapshot(rest, next, session))
                 IN  /\ tabs' = rest /\ active' = next
                     /\ session' = IF still THEN session ELSE Empty
                     /\ Replies(payload, IF still THEN "not applied" ELSE "deleted")
                     /\ astray' = still /\ UNCHANGED discard
            \/ Refuse(payload)   \* a promise: the tab closes later, see Closes

\* SnapshotContext.ensureActive, which every other tool begins with, and a tool
\* that adds the tab's texture.
Mutate ==
    /\ HasProject(Seen) /\ active # None
    /\ tabs' = [tabs EXCEPT ![active].textures = {active}, ![active].saved = FALSE]
    /\ LET S == IF HasProject(session) THEN session ELSE Attach(Seen)
       IN  session' = [S EXCEPT !.textures = @ \cup {active}]
    /\ reply' = None /\ UNCHANGED <<active, discard, astray>>

----------------------------------------------------------------------------
(* Blockbench and its user                                                 *)

Edits(p) ==
    /\ \/ \E name \in Name : tabs' = [tabs EXCEPT ![p].name = name]
       \/ tabs' = [tabs EXCEPT ![p].saved = ~@]
       \/ \E textures \in {{p}, {}} : tabs' = [tabs EXCEPT ![p].textures = textures, ![p].saved = FALSE]
    /\ UNCHANGED <<active, astray>>
Opens(p) ==
    /\ tabs[p] = None /\ active' = p
    /\ \E format \in {"rig", "other"}, density \in Density \cup {None} :
         tabs' = [tabs EXCEPT ![p] = [NewTab EXCEPT !.format = format, !.density = density]]
    /\ astray' = TRUE
Switches(p) == active' = p /\ astray' = TRUE /\ UNCHANGED tabs
Closes(p) ==
    /\ tabs' = [tabs EXCEPT ![p] = None]
    /\ active' \in (IF p = active THEN After(p) ELSE {active}) /\ astray' = TRUE
User ==
    /\ \E p \in Project : IF p \in Open THEN Edits(p) \/ Switches(p) \/ Closes(p) ELSE Opens(p)
    /\ reply' = None /\ UNCHANGED <<session, discard>>

Init ==
    /\ tabs = [p \in Project |-> None] /\ active = None
    /\ session = Empty /\ discard \in Discard /\ reply = None /\ astray = FALSE

Next == Mutate \/ User \/ \E payload \in Payload : Ensure(payload) \/ Delete(payload)

Spec == Init /\ [][Next]_lvars

----------------------------------------------------------------------------

\* Until the user changes tabs, a creation stops at its dialog or a close goes
\* wrong, the tools see the name, format, density and textures of the active tab
\* and nothing of a project there was before.  A texture the user deleted they
\* may still see (mergeTextures keeps what the session has), but only of this tab.
StateIsOfTheProject ==
    LET live == Live(tabs, active)
    IN  ~astray =>
          /\ \A field \in {"name", "format", "density"} : Seen[field] = live[field]
          /\ active # None => Seen.id = active
          /\ live.textures \subseteq Seen.textures
          /\ Seen.textures \ live.textures \subseteq Project \cap {active}

\* A call closes no tab but the one it names, by the name the tab has now, and
\* gives up unsaved work only when it says so or the policy lets it.
ClosesWhatWasNamed ==
    reply' # None =>
        \A p \in Open :
          /\ tabs'[p] = None => reply'.action = "delete" /\ reply'.name = tabs[p].name
          /\ ~tabs[p].saved /\ (tabs'[p] = None \/ tabs'[p].saved) =>
               reply'.consent \/ (reply'.action = "ensure" /\ discard # FALSE)

\* A call of delete that closed the project it named says that it is deleted.
CloseIsReported ==
    reply # None => reply.outcome # "not applied"
=============================================================================
