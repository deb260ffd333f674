----------------------------- MODULE Dashboard -----------------------------
(***************************************************************************)
(* The web dashboard: one page, the event stream of the project it shows   *)
(* and the route that serves the stream from the store of sample projects. *)
(*                                                                         *)
(* A click changes the page's state; the effect that closes the old stream *)
(* and opens the new one runs after the page is rendered again, and events *)
(* of the old stream may come before it.  A stream that breaks is opened   *)
(* again by the browser, at the same URL, with the last event's id.        *)
(***************************************************************************)
EXTENDS Integers

CONSTANTS Project, Flat,    \* the sample projects, those without geometry
          First,            \* their revisions in the store
          Zero, None,       \* the anchor at the origin; nothing
          MaxRevision       \* bound on the ticks of a project, from First

VARIABLES page,      \* [status, selected, last, anchor, stream, error]
          revision,  \* the revisions of state.projects, by project
          rendered,  \* the [status, selected] the effect has run for
          source,    \* the EventSource: [project, url, lastId, state]; None
          route      \* the next revision the route will send on it; None

dvars == <<page, revision, rendered, source, route>>

Anchor(p) == IF p \in Flat THEN Zero ELSE p
Shown(p) == [status |-> "success", selected |-> p, last |-> revision[p], anchor |-> Anchor(p),
             stream |-> "idle", error |-> None]
Nothing(status, error) == [status |-> status, selected |-> None, last |-> -1, anchor |-> Zero,
                           stream |-> "idle", error |-> error]

\* loadProjects and createLoadedState, createErrorState.
Load ==
    /\ page.status = "loading"
    /\ \/ \E p \in Project : page' = Shown(p)
       \/ page' \in {Nothing("empty", None), Nothing("error", "project_load_failed")}
    /\ UNCHANGED <<revision, rendered, source, route>>

\* selectProject, of the project that is selected as well.
Select(p) ==
    /\ page.status = "success"
    /\ page' = [Shown(p) EXCEPT !.stream = "connecting"]
    /\ UNCHANGED <<revision, rendered, source, route>>

\* buildStreamUrl: after what the page shows.
Stream(p, last) == [project |-> p, url |-> last, lastId |-> None, state |-> "connecting"]

\* The effect on [status, selectedProjectId].
Effect ==
    /\ rendered # [status |-> page.status, selected |-> page.selected]
    /\ rendered' = [status |-> page.status, selected |-> page.selected]
    /\ IF page.selected = None THEN source' = None /\ UNCHANGED page
       ELSE /\ source' = Stream(page.selected, page.last)
            /\ page' = [page EXCEPT !.stream = "connecting"]
    /\ route' = None /\ UNCHANGED revision

Larger(a, b) == IF a >= b THEN a ELSE b
\* GET of the route: what follows the last event, or else the URL's revision.
StartAt(project, lastId) == Larger(First[project], lastId + 1)

\* onopen, with the stream's first event under way.
Connects ==
    /\ source # None /\ source.state = "connecting"
    /\ source' = [source EXCEPT !.state = "open"]
    /\ route' = StartAt(source.project, IF source.lastId = None THEN source.url ELSE source.lastId)
    /\ page' = IF page.selected # source.project THEN page
               ELSE [page EXCEPT !.stream = "open",
                                 !.error = IF @ = "stream_unavailable" THEN None ELSE @]
    /\ UNCHANGED <<revision, rendered>>

\* Fault: a payload of any project is applied.
AnyNewer(project, number) == number > page.last
\* shouldApplyStreamPayload
ShouldApply(project, number) == project = page.selected /\ number > page.last

\* buildStreamPayload: never older than the store.
Payload(project, number) == Larger(First[project], number)

\* upsertProject
Upsert(project, number) == revision' = [revision EXCEPT ![project] = number]

\* pushEvent: the route's next revision, which is the event's id.
Push ==
    /\ route < First[source.project] + MaxRevision
    /\ route' = route + 1 /\ source' = [source EXCEPT !.lastId = route]

\* onSnapshot and applyProjectStreamPayload, of the event pushed.
Event ==
    /\ source # None /\ source.state = "open"
    /\ Push
    /\ LET number == Payload(source.project, route)
       IN  IF ShouldApply(source.project, number)
           THEN /\ Upsert(source.project, number)
                /\ page' = [page EXCEPT !.stream = "open", !.error = None, !.last = number,
                                        !.anchor = IF source.project \in Flat THEN Zero ELSE @]
           ELSE UNCHANGED <<page, revision>>
    /\ UNCHANGED rendered

\* onerror: the browser tries again.
Breaks ==
    /\ source # None
    /\ source' = [source EXCEPT !.state = "connecting"] /\ route' = None
    /\ page' = IF page.selected # source.project THEN page
               ELSE [page EXCEPT !.stream = "reconnecting", !.error = "stream_unavailable"]
    /\ UNCHANGED <<revision, rendered>>

Init ==
    /\ page = Nothing("loading", None) /\ revision = [p \in Project |-> First[p]]
    /\ rendered = [status |-> "loading", selected |-> None]
    /\ source = None /\ route = None

Next == Load \/ (\E p \in Project : Select(p)) \/ Effect \/ Connects \/ Event \/ Breaks

Spec == Init /\ [][Next]_dvars

----------------------------------------------------------------------------

\* The page shows the selected project at the newest revision it has of it, from
\* the project's own anchor; and whatever is selected, cut off and connected
\* again, no project goes back to an older revision.
PageIsOfTheProject ==
    page.status = "success" =>
        page.last = revision[page.selected] /\ page.anchor = Anchor(page.selected)
PageFollowsTheStream ==
    /\ PageIsOfTheProject'
    /\ \A p \in Project : revision'[p] >= revision[p]
=============================================================================
