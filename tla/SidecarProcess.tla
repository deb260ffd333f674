-------------------------- MODULE SidecarProcess ---------------------------
(***************************************************************************)
(* The plug-in's choice of a server and its supervision of a sidecar:      *)
(* R/sidecar/SidecarProcess.ts, R/plugin/runtimeServer.ts and the parts of *)
(* R/plugin/runtime.ts that call them (R = packages/runtime/src).  Every   *)
(* server listens on the one configured port, as it does when a setting    *)
(* other than the port changes.                                            *)
(*                                                                         *)
(* An owner is a SidecarProcess object, a child a process of the operating *)
(* system.  A child is                                                     *)
(*   "none"       free, its exit event handled;                            *)
(*   "failed"     spawned in vain: Node emits 'error', never 'exit';       *)
(*   "booting", "listening"                                                *)
(*   "dead"       gone, its exit event still to come.                      *)
(***************************************************************************)
EXTENDS Naturals, FiniteSets

CONSTANTS
    Owner,       \* SidecarProcess objects (bounds the sidecars started)
    Child,       \* processes that exist at a time (bound)
    NoOwner, NoChild

ASSUME ProcessAssumption == NoOwner \notin Owner /\ NoChild \notin Child

VARIABLES
    loaded,          \* the plug-in is loaded: globalDispatcher is set
    inline,          \* "off", "listening", or "deaf": started, but the port was taken
    owner,           \* serverState.sidecar
    made,            \* the SidecarProcess objects constructed so far
    stopRequested,   \* per owner
    child,           \* per owner
    timer,           \* owners with a restart timer
    process,         \* state of each child
    killed           \* children sent a signal

processVars == <<loaded, inline, owner, made, stopRequested, child, timer, process, killed>>

ProcessTypeOK ==
    /\ loaded \in BOOLEAN /\ inline \in {"off", "listening", "deaf"}
    /\ made \subseteq Owner /\ owner \in made \cup {NoOwner}
    /\ stopRequested \in [Owner -> BOOLEAN]
    /\ child \in [Owner -> Child \cup {NoChild}]
    /\ timer \subseteq made
    /\ process \in [Child -> {"none", "failed", "booting", "listening", "dead"}]
    /\ killed \subseteq Child

ProcessInit ==
    /\ loaded = FALSE /\ inline = "off" /\ owner = NoOwner /\ made = {}
    /\ stopRequested = [o \in Owner |-> FALSE]
    /\ child = [o \in Owner |-> NoChild]
    /\ timer = {}
    /\ process = [k \in Child |-> "none"]
    /\ killed = {}

AliveIn(p) == {k \in Child : p[k] \in {"booting", "listening"}}
Alive == AliveIn(process)
PortTaken == \E k \in Child : process[k] = "listening"
-----------------------------------------------------------------------------
(* SidecarProcess *)

\* A process that failed to start is nobody's once its owner drops it.
Dropped(o) == [k \in Child |-> IF k = child[o] /\ process[k] = "failed" THEN "none" ELSE process[k]]

\* Fault: the timer that is already set is not told.
StopChildOnly(o) ==
    /\ UNCHANGED stopRequested
    /\ killed' = killed \cup ({child[o]} \cap Alive)

\* stop: the timer stays, but finds stopRequested.
Stop(o) ==
    /\ stopRequested' = [stopRequested EXCEPT ![o] = TRUE]
    /\ killed' = killed \cup ({child[o]} \cap Alive)

\* start up to and including spawn, on a process table p.
Spawn(o, p) ==
    \E k \in Child :
        /\ p[k] = "none"
        /\ \E state \in {"booting", "failed"} : process' = [p EXCEPT ![k] = state]
        /\ child' = [j \in Owner |-> IF j = o THEN k ELSE IF j = owner THEN NoChild ELSE child[j]]

\* Fault: the handler forgets to clean up.
ExitWithoutCleanup(k) ==
    /\ process[k] = "dead"
    /\ process' = [process EXCEPT ![k] = "none"]
    /\ killed' = killed \ {k}
    /\ timer' = timer \cup {o \in Owner : child[o] = k /\ ~stopRequested[o]}
    /\ UNCHANGED <<loaded, inline, owner, made, stopRequested, child>>

\* The handler of 'exit': the event of a child already replaced is ignored.
\* (At most one owner has a child, so cleanup and scheduleRestart concern it.)
ExitEvent(k) ==
    /\ process[k] = "dead"
    /\ process' = [process EXCEPT ![k] = "none"]
    /\ killed' = killed \ {k}
    /\ child' = [o \in Owner |-> IF child[o] = k THEN NoChild ELSE child[o]]
    /\ timer' = timer \cup {o \in Owner : child[o] = k /\ ~stopRequested[o]}
    /\ UNCHANGED <<loaded, inline, owner, made, stopRequested>>

\* The timer of scheduleRestart.  A start that fails sets no other timer.
Timer(o) ==
    /\ o \in timer
    /\ timer' = timer \ {o}
    /\ UNCHANGED <<loaded, inline, owner, made, stopRequested, killed>>
    /\ \/ (stopRequested[o] \/ child[o] # NoChild) /\ UNCHANGED <<child, process>>
       \/ ~stopRequested[o] /\ child[o] = NoChild /\ Spawn(o, process)
       \/ ~stopRequested[o] /\ child[o] = NoChild /\ UNCHANGED <<child, process>>
-----------------------------------------------------------------------------
(* restartServer and cleanupRuntime *)

StopOwner ==
    IF owner = NoOwner THEN UNCHANGED <<stopRequested, killed>> ELSE Stop(owner)

Released == IF owner = NoOwner THEN process ELSE Dropped(owner)
Detached == [o \in Owner |-> IF o = owner THEN NoChild ELSE child[o]]

\* listen fails only later, and nobody handles the error: startServer has
\* returned a stop function and no sidecar is tried.
StartInline ==
    /\ inline' = IF PortTaken THEN "deaf" ELSE "listening"
    /\ owner' = NoOwner /\ child' = Detached /\ process' = Released
    /\ UNCHANGED made

StartSidecar ==
    \E o \in Owner \ made :
        /\ inline' = "off" /\ owner' = o /\ made' = made \cup {o}
        /\ Spawn(o, Released)

StartNothing ==
    /\ inline' = "off" /\ owner' = NoOwner /\ child' = Detached /\ process' = Released
    /\ UNCHANGED made

\* onload and every change of an endpoint setting while the plug-in is loaded
\* (after that there is no dispatcher and nothing to stop).  Whether the modules http,
\* net and child_process may be used can change from one call to the next.
RestartServer ==
    /\ loaded' = TRUE
    /\ StopOwner
    /\ StartInline \/ StartSidecar \/ StartNothing
    /\ UNCHANGED timer

\* cleanupRuntime
Unload ==
    /\ loaded /\ loaded' = FALSE
    /\ StopOwner
    /\ StartNothing
    /\ UNCHANGED timer
-----------------------------------------------------------------------------
(* The operating system and sidecar/index.ts *)

\* server.listen, or exit(1) if the port is taken.
Boot(k) ==
    /\ process[k] = "booting"
    /\ process' = [process EXCEPT ![k] =
                     IF PortTaken \/ inline = "listening" THEN "dead" ELSE "listening"]
    /\ UNCHANGED <<loaded, inline, owner, made, stopRequested, child, timer, killed>>

Die(k) ==
    /\ k \in Alive
    /\ process' = [process EXCEPT ![k] = "dead"]
    /\ UNCHANGED <<loaded, inline, owner, made, stopRequested, child, timer, killed>>

\* The end of a process that was sent a signal; any other end is a crash.
Obey(k) == k \in killed /\ Die(k)
Crash(k) == k \notin killed /\ Die(k)

ProcessNext ==
    \/ RestartServer \/ Unload
    \/ \E o \in Owner : Timer(o)
    \/ \E k \in Child : ExitEvent(k) \/ Boot(k) \/ Obey(k) \/ Crash(k)

\* Timers fire, events are delivered, processes boot and obey signals.
ProcessFairness ==
    /\ \A o \in Owner : WF_processVars(Timer(o))
    /\ \A k \in Child : WF_processVars(ExitEvent(k)) /\ WF_processVars(Boot(k)) /\ WF_processVars(Obey(k))
-----------------------------------------------------------------------------
(* Properties. *)

\* Whatever crashes, restarts and unloads there were, a living process that
\* was not told to end is the child of the sidecar the plug-in holds: never
\* two sidecars, and none beside an inline server or after unload.
ChildrenAreOwned ==
    \A k \in Alive \ killed : owner # NoOwner /\ child[owner] = k

\* The plug-in believes in a server that is not there: a start failed, in
\* restartServer or in a timer, or a listen did.
GivenUp ==
    \/ inline = "deaf"
    \/ inline = "off" /\ owner = NoOwner
    \/ owner # NoOwner /\ owner \notin timer
         /\ (child[owner] = NoChild \/ process[child[owner]] = "failed")

Serving ==
    \/ inline = "listening"
    \/ owner # NoOwner /\ child[owner] # NoChild /\ process[child[owner]] = "listening"

\* Once sidecars stop crashing, a loaded plug-in serves again, whatever was
\* restarted meanwhile and however often a new sidecar found its port still
\* held by an old one, unless a start has failed.
ServesAgain ==
    <>[][\A k \in Child : ~Crash(k)]_processVars
        => (loaded ~> Serving \/ GivenUp \/ ~loaded)
=============================================================================
