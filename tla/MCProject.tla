----------------------------- MODULE MCProject -----------------------------
(***************************************************************************)
(* Small instances of what a project is to its clients, for TLC: the       *)
(* revisions they hold (ProjectRevisions, extended here), the trace that   *)
(* takes its diffs from the same store (TraceLog, which shares project and *)
(* store) and the tabs ensure_project reuses, creates and deletes          *)
(* (ProjectLifecycle).  A behaviour is of one part and leaves the other    *)
(* variables alone.                                                        *)
(***************************************************************************)
EXTENDS ProjectRevisions, TLC

CONSTANTS Part, None,
          MaxEntries, MaxBytes, MinEntries, Splice, FlushEvery, Interval, MaxSteps,
          Project, Name, NoName, Density, Payload, Discard, Stamp

\* None stands for what is absent, in tabs, sessions and payloads.
ASSUME TabsAssumption ==
    /\ None \notin Project /\ None \notin Name \cup {NoName, "rig", "other"} /\ None \notin Density
    /\ None \notin [name : Name \cup {NoName}, format : {"rig", "other"}, saved : BOOLEAN,
                   density : Density \cup {None}, textures : SUBSET Project]
    /\ \A payload \in Payload :
          /\ payload.name \in Name \cup {NoName, None} /\ payload.density \in Density \cup {None}
          /\ payload.confirm \in BOOLEAN \cup {None} /\ payload.force \in BOOLEAN

\* A project has finitely many parts; TraceLogStore and the scheduler normalise
\* their limits.
ASSUME TraceAssumption ==
    /\ \A o \in Outline : IsFiniteSet(DOMAIN o)
    /\ MaxEntries \in Nat \ {0} /\ MaxBytes \in Nat /\ MinEntries \in Nat \ {0} /\ Splice \in Nat
    /\ FlushEvery \in Nat \ {0} /\ Interval \in BOOLEAN
    /\ None \notin Revision /\ None \notin Nat
    /\ None \notin [missing : BOOLEAN, added : Nat, removed : Nat, changed : Nat]

VARIABLES part,
          log, recorder, scheduler, file,
          tabs, active, session, discard, reply, astray

Trace == INSTANCE TraceLog
Life == INSTANCE ProjectLifecycle

rvars == <<shown, diff, write>>
tvars == <<log, recorder, scheduler, file>>
lvars == <<tabs, active, session, discard, reply, astray>>
pvars == <<part, vars, tvars, lvars>>

NoRevisions == shown = {} /\ diff = Nothing /\ write = Nothing
NoTrace == log = None /\ recorder = None /\ scheduler = None /\ file = None
NoTabs == tabs = None /\ active = None /\ session = None /\ discard = None /\ reply = None /\ astray = None

MCInit ==
    /\ part \in Part
    /\ \/ part = "revisions" /\ Init /\ NoTrace /\ NoTabs
       \/ part = "trace" /\ Trace!Init /\ NoRevisions /\ NoTabs
       \/ part = "tabs" /\ Life!Init /\ NoRevisions /\ NoTrace /\ project = None /\ store = None

MCNext ==
    /\ UNCHANGED part
    /\ \/ part = "revisions" /\ Next /\ UNCHANGED <<tvars, lvars>>
       \/ part = "trace" /\ Trace!Next /\ UNCHANGED <<rvars, lvars>>
       \/ part = "tabs" /\ Life!Next /\ UNCHANGED <<vars, tvars>>

MCSpec == MCInit /\ [][MCNext]_pvars

----------------------------------------------------------------------------
(* The values                                                              *)

EveryPart == {"revisions", "trace", "tabs"}
TabsOnly == {"tabs"}
RevisionsOnly == {"revisions"}

\* Two parts of a model: none, one, the first changed and the second added.
MCOutline == {[a |-> 0, b |-> 0], [a |-> 1, b |-> 0], [a |-> 2, b |-> 1]}
MCDigest == [o \in MCOutline |-> o]

Pay(action, name, match, onMismatch, onMissing, density, confirm, force) ==
    [action |-> action, name |-> name, match |-> match, onMismatch |-> onMismatch,
     onMissing |-> onMissing, density |-> density, confirm |-> confirm, force |-> force]
MCPayload ==
    {Pay("ensure", None, FALSE, "reuse", "error", None, None, FALSE),
     Pay("ensure", "A", FALSE, "reuse", "create", 16, None, FALSE),
     Pay("ensure", "A", TRUE, "error", "create", None, None, FALSE),
     Pay("ensure", None, TRUE, "create", "create", None, None, FALSE)}
    \cup {Pay("ensure", "B", TRUE, "create", "create", None, c, FALSE) : c \in {None, TRUE, FALSE}}
    \cup {Pay("delete", n, FALSE, "reuse", "create", None, None, f) : n \in {"A", "B"}, f \in BOOLEAN}
Symmetry == Permutations(Project) \cup Permutations(Untracked)

----------------------------------------------------------------------------
(* The properties of TraceLog and ProjectLifecycle, see there              *)

\* The trace is the end of what was recorded, in its bounds, file included.
LogIsATail == part = "trace" => Trace!LogIsATail

\* The trace's diffs add up, step by step and in the report.
DiffsAddUp == part = "trace" => Trace!DiffsAddUp

\* What tools see is the active tab, with at most a texture the user took out of
\* it, and nothing of the project before.
StateIsOfTheProject == part = "tabs" => Life!StateIsOfTheProject

\* A call closes no tab but the one it names, and no unsaved work unasked.
ClosesWhatWasNamed == [][part = "tabs" => Life!ClosesWhatWasNamed]_pvars

\* A close that took place is reported as one.
CloseIsReported == part = "tabs" => Life!CloseIsReported
=============================================================================
