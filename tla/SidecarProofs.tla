--------------------------- MODULE SidecarProofs ----------------------------
(***************************************************************************)
(* Proofs about Sidecar and SidecarProcess, for any number of owners,      *)
(* children and calls and any limit of requests in flight.                 *)
(***************************************************************************)
EXTENDS Sidecar, FiniteSetTheorems, TLAPS

\* Only the plug-in's sidecar has a child, and a timer of any other finds
\* that it was stopped.
Sole == \A o \in Owner : child[o] # NoChild => o = owner
Timers == \A o \in timer : o = owner \/ stopRequested[o]

ProcessInv == ProcessTypeOK /\ Sole /\ Timers /\ ChildrenAreOwned

LEMMA ProcessInitially == ProcessInit => ProcessInv
  BY DEF ProcessInit, ProcessInv, ProcessTypeOK, Sole, Timers, ChildrenAreOwned, Alive, AliveIn

\* What stopping the plug-in's sidecar achieves: everything that lives has
\* been told to end, and only timers of stopped owners are left.
LEMMA AfterStop ==
    ASSUME ProcessInv, StopOwner
    PROVE  /\ stopRequested' \in [Owner -> BOOLEAN] /\ killed' \subseteq Child
           /\ Alive \subseteq killed'
           /\ \A o \in timer : stopRequested'[o]
           /\ Released \in [Child -> {"none", "failed", "booting", "listening", "dead"}]
           /\ AliveIn(Released) = Alive
           /\ \A k \in Child : Released[k] # "none" => Released[k] = process[k]
           /\ \A o \in Owner : Detached[o] = NoChild
  <1> USE DEF ProcessInv, ProcessTypeOK
  <1>1. CASE owner = NoOwner
    <2>1. stopRequested' = stopRequested /\ killed' = killed
      BY <1>1 DEF StopOwner
    <2>2. Alive \subseteq killed'
      BY <1>1, <2>1 DEF ChildrenAreOwned, Alive, AliveIn
    <2>3. \A o \in timer : stopRequested'[o]
      BY <1>1, <2>1, ProcessAssumption DEF Timers
    <2>4. \A o \in Owner : Detached[o] = NoChild
      BY <1>1 DEF Sole, Detached
    <2> QED BY <1>1, <2>1, <2>2, <2>3, <2>4 DEF Released, Alive
  <1>2. CASE owner # NoOwner
    <2>1. owner \in Owner
      BY <1>2
    <2>2. /\ stopRequested' = [stopRequested EXCEPT ![owner] = TRUE]
          /\ killed' = killed \cup ({child[owner]} \cap Alive)
      BY <1>2 DEF StopOwner, Stop
    <2>3. Alive \subseteq killed'
      BY <2>2 DEF ChildrenAreOwned, Alive, AliveIn
    <2>4. \A o \in timer : stopRequested'[o]
      BY <2>1, <2>2 DEF Timers
    <2>5. killed' \subseteq Child
      BY <2>2 DEF Alive, AliveIn
    <2>6. Released = [k \in Child |-> IF k = child[owner] /\ process[k] = "failed" THEN "none" ELSE process[k]]
      BY <1>2 DEF Released, Dropped
    <2>7. AliveIn(Released) = Alive
      BY <2>6 DEF Alive, AliveIn
    <2>8. \A o \in Owner : Detached[o] = NoChild
      BY DEF Sole, Detached
    <2> QED BY <2>1, <2>2, <2>3, <2>4, <2>5, <2>6, <2>7, <2>8
  <1> QED BY <1>1, <1>2

LEMMA StopAndStartNone ==
    ASSUME ProcessInv, StopOwner, UNCHANGED <<timer, made>>,
           loaded' \in BOOLEAN, inline' \in {"off", "listening", "deaf"},
           owner' = NoOwner, child' = Detached, process' = Released
    PROVE  ProcessInv'
  <1>1. child' \in [Owner -> Child \cup {NoChild}]
    BY DEF ProcessInv, ProcessTypeOK, Detached
  <1>2. ProcessTypeOK'
    BY <1>1, AfterStop DEF ProcessInv, ProcessTypeOK
  <1>3. Alive' \subseteq killed'
    BY AfterStop DEF Alive, AliveIn
  <1>4. Sole' /\ Timers' /\ ChildrenAreOwned'
    BY <1>3, AfterStop DEF Sole, Timers, ChildrenAreOwned
  <1> QED BY <1>2, <1>4 DEF ProcessInv

LEMMA ProcessStep == ProcessInv /\ ProcessNext => ProcessInv'
  <1> SUFFICES ASSUME ProcessInv, ProcessNext PROVE ProcessInv'
    OBVIOUS
  <1> USE ProcessAssumption
  <1>1. CASE RestartServer
    <2>1. loaded' = TRUE /\ StopOwner /\ timer' = timer
      BY <1>1 DEF RestartServer
    <2>2. CASE StartInline \/ StartNothing
      BY <2>1, <2>2, StopAndStartNone DEF StartInline, StartNothing
    <2>3. CASE StartSidecar
      <3>1. PICK o \in Owner \ made : inline' = "off" /\ owner' = o /\ made' = made \cup {o} /\ Spawn(o, Released)
        BY <2>3 DEF StartSidecar
      <3>2. PICK k \in Child : /\ Released[k] = "none"
                               /\ \E state \in {"booting", "failed"} : process' = [Released EXCEPT ![k] = state]
                               /\ child' = [j \in Owner |-> IF j = o THEN k ELSE IF j = owner THEN NoChild ELSE child[j]]
        BY <3>1 DEF Spawn
      <3>3. PICK state \in {"booting", "failed"} : process' = [Released EXCEPT ![k] = state]
        BY <3>2
      <3>4. Alive' \subseteq Alive \cup {k}
        BY <2>1, <3>3, AfterStop DEF Alive, AliveIn
      <3>5. ProcessTypeOK'
        BY <2>1, <3>1, <3>2, <3>3, AfterStop DEF ProcessInv, ProcessTypeOK
      <3>6. Sole'
        BY <3>1, <3>2 DEF ProcessInv, Sole
      <3>7. Timers'
        BY <2>1, AfterStop DEF Timers
      <3>8. ChildrenAreOwned'
        <4>1. Alive' \ killed' \subseteq {k}
          BY <2>1, <3>4, AfterStop
        <4>2. owner' = o /\ o # NoOwner /\ child'[o] = k
          BY <3>1, <3>2
        <4> QED BY <4>1, <4>2 DEF ChildrenAreOwned
      <3> QED BY <3>5, <3>6, <3>7, <3>8 DEF ProcessInv
    <2> QED BY <1>1, <2>2, <2>3 DEF RestartServer
  <1>2. CASE Unload
    BY <1>2, StopAndStartNone DEF Unload, StartNothing
  <1>3. ASSUME NEW o \in Owner, Timer(o) PROVE ProcessInv'
    <2>1. /\ o \in timer /\ timer' = timer \ {o}
          /\ UNCHANGED <<loaded, inline, owner, made, stopRequested, killed>>
      BY <1>3 DEF Timer
    <2>2. CASE UNCHANGED <<child, process>>
      BY <2>1, <2>2 DEF ProcessInv, ProcessTypeOK, Sole, Timers, ChildrenAreOwned, Alive, AliveIn
    <2>3. CASE ~stopRequested[o] /\ child[o] = NoChild /\ Spawn(o, process)
      <3>1. o = owner
        BY <2>1, <2>3 DEF ProcessInv, Timers
      <3>2. PICK k \in Child : /\ process[k] = "none"
                               /\ \E state \in {"booting", "failed"} : process' = [process EXCEPT ![k] = state]
                               /\ child' = [j \in Owner |-> IF j = o THEN k ELSE IF j = owner THEN NoChild ELSE child[j]]
        BY <2>3 DEF Spawn
      <3>3. PICK state \in {"booting", "failed"} : process' = [process EXCEPT ![k] = state]
        BY <3>2
      <3>4. ProcessTypeOK'
        BY <2>1, <3>2, <3>3 DEF ProcessInv, ProcessTypeOK
      <3>5. Sole' /\ Timers'
        BY <2>1, <3>1, <3>2 DEF ProcessInv, Sole, Timers
      <3>6. ChildrenAreOwned'
        <4>1. Alive' \subseteq Alive \cup {k}
          BY <3>3 DEF ProcessInv, ProcessTypeOK, Alive, AliveIn
        <4>2. Alive \subseteq killed
          BY <2>3, <3>1 DEF ProcessInv, ChildrenAreOwned, Alive, AliveIn
        <4>3. owner' # NoOwner /\ child'[owner'] = k
          BY <2>1, <3>1, <3>2
        <4> QED BY <2>1, <4>1, <4>2, <4>3 DEF ChildrenAreOwned
      <3> QED BY <3>4, <3>5, <3>6 DEF ProcessInv
    <2> QED BY <1>3, <2>2, <2>3 DEF Timer
  <1>4. ASSUME NEW k \in Child, ExitEvent(k) PROVE ProcessInv'
    <2>1. ProcessTypeOK'
      BY <1>4 DEF ExitEvent, ProcessInv, ProcessTypeOK, Sole
    <2>2. Sole' /\ Timers'
      BY <1>4 DEF ExitEvent, ProcessInv, ProcessTypeOK, Sole, Timers
    <2>3. ChildrenAreOwned'
      BY <1>4 DEF ExitEvent, ProcessInv, ProcessTypeOK, ChildrenAreOwned, Alive, AliveIn
    <2> QED BY <2>1, <2>2, <2>3 DEF ProcessInv
  <1>5. ASSUME NEW k \in Child, Boot(k) \/ Die(k) PROVE ProcessInv'
    <2>1. PICK state \in {"listening", "dead"} : process' = [process EXCEPT ![k] = state]
      BY <1>5 DEF Boot, Die
    <2>2. k \in Alive /\ UNCHANGED <<loaded, inline, owner, made, stopRequested, child, timer, killed>>
      BY <1>5 DEF Boot, Die, Alive, AliveIn
    <2>3. Alive' \subseteq Alive
      BY <2>1, <2>2 DEF ProcessInv, ProcessTypeOK, Alive, AliveIn
    <2> QED BY <2>1, <2>2, <2>3 DEF ProcessInv, ProcessTypeOK, Sole, Timers, ChildrenAreOwned
  <1> QED BY <1>1, <1>2, <1>3, <1>4, <1>5 DEF ProcessNext, Obey, Crash

LEMMA ProcessStutter == ProcessInv /\ UNCHANGED processVars => ProcessInv'
  BY DEF processVars, ProcessInv, ProcessTypeOK, Sole, Timers, ChildrenAreOwned, Alive, AliveIn

\* No living child but the one the plug-in holds, unless it was told to end:
\* the restart timer (scheduleRestart), stop and restartServer never leave two.
THEOREM OneSidecar == Spec => []ChildrenAreOwned
  <1>1. Init => ProcessInv
    BY ProcessInitially DEF Init
  <1>2. ProcessInv /\ [Next]_vars => ProcessInv'
    BY ProcessStep, ProcessStutter DEF Next, vars
  <1>3. ProcessInv => ChildrenAreOwned
    BY DEF ProcessInv
  <1> QED BY <1>1, <1>2, <1>3, PTL DEF Spec
-----------------------------------------------------------------------------
(* Calls. *)

InPipe(s) == {s[i] : i \in 1..Len(s)}
RunningFor(k) == {[id |-> r.id, call |-> r.call] : r \in {q \in running : q.child = k}}

\* The copies of requests there are between a client and its host.
Known(k) == pending[k] \cup InPipe(toHost[k]) \cup InPipe(toClient[k]) \cup RunningFor(k)

\* An id stands for one call, and the next id for none yet.
IdsUnique ==
    \A k \in Alive : \A m, n \in Known(k) : m.id <= lastId[k] /\ (m.id = n.id => m = n)

\* Nothing of a dead child is left for the next one.
DeadForgotten ==
    \A k \in Child :
        /\ k \notin Alive => pending[k] = {} /\ toClient[k] = <<>> /\ lastId[k] = 0
        /\ process[k] \in {"none", "failed"} => toHost[k] = <<>> /\ RunningFor(k) = {}

\* Clients wait at living children, each call once.
WaitsOnce ==
    /\ \A c \in Call : place[c] = "waiting" => via[c] \in Alive
    /\ \A k \in Child : \A e, f \in pending[k] : e.call = f.call => e = f
    /\ \A k \in Child : IsFiniteSet(pending[k])

IInv ==
    /\ TypeOK /\ ProcessInv
    /\ IdsUnique /\ DeadForgotten /\ WaitsOnce
    /\ PendingAreWaiting /\ OwnAnswer

LEMMA PipeAppend ==
    ASSUME NEW S, NEW s \in Seq(S), NEW e \in S
    PROVE  Append(s, e) \in Seq(S) /\ InPipe(Append(s, e)) \subseteq InPipe(s) \cup {e}
  BY DEF InPipe

LEMMA PipeTail ==
    ASSUME NEW S, NEW s \in Seq(S), s # <<>>
    PROVE  /\ Head(s) \in S /\ Head(s) \in InPipe(s)
           /\ Tail(s) \in Seq(S) /\ InPipe(Tail(s)) \subseteq InPipe(s)
  <1>1. Len(s) \in Nat \ {0} /\ Head(s) = s[1]
    OBVIOUS
  <1>2. Head(s) \in S /\ Head(s) \in InPipe(s)
    BY <1>1 DEF InPipe
  <1>3. \A i \in 1..Len(Tail(s)) : i + 1 \in 1..Len(s) /\ Tail(s)[i] = s[i + 1]
    OBVIOUS
  <1> QED BY <1>2, <1>3 DEF InPipe

LEMMA KnownTyped ==
    ASSUME TypeOK, NEW k \in Child
    PROVE  Known(k) \subseteq Message
  <1>1. InPipe(toHost[k]) \subseteq Message /\ InPipe(toClient[k]) \subseteq Message
    BY DEF TypeOK, InPipe
  <1>2. RunningFor(k) \subseteq Message
    BY DEF TypeOK, RunningFor
  <1> QED BY <1>1, <1>2 DEF TypeOK, Known

LEMMA Initially == Init => IInv
  <1> SUFFICES ASSUME Init PROVE IInv
    OBVIOUS
  <1> USE DEF Init
  <1>1. ProcessInv
    BY ProcessInitially
  <1>2. TypeOK
    BY <1>1 DEF TypeOK, ProcessInv
  <1>3. Alive = {}
    BY DEF ProcessInit, Alive, AliveIn
  <1>4. DeadForgotten
    BY DEF DeadForgotten, RunningFor
  <1>5. WaitsOnce /\ PendingAreWaiting
    BY FS_EmptySet, CallAssumption DEF WaitsOnce, PendingAreWaiting
  <1> QED BY <1>1, <1>2, <1>3, <1>4, <1>5 DEF IInv, IdsUnique, OwnAnswer
-----------------------------------------------------------------------------
(* Steps of the processes. *)

\* Processes live only after nothing was left of the one before, and die only
\* after living.
LEMMA ProcessEdges ==
    ASSUME ProcessInv, ProcessNext
    PROVE  \A k \in Child : /\ k \in Alive' => k \in Alive \/ process[k] \in {"none", "failed"}
                            /\ process'[k] = "dead" => k \in Alive \/ process[k] = "dead"
  <1> SUFFICES ASSUME NEW k \in Child
               PROVE  /\ k \in Alive' => k \in Alive \/ process[k] \in {"none", "failed"}
                      /\ process'[k] = "dead" => k \in Alive \/ process[k] = "dead"
    OBVIOUS
  <1> USE DEF Alive, AliveIn
  <1>1. CASE StopOwner /\ process' = Released
    BY <1>1, AfterStop DEF Released, Dropped
  <1>2. CASE StopOwner /\ \E o \in Owner : Spawn(o, Released)
    <2>1. /\ Released \in [Child -> {"none", "failed", "booting", "listening", "dead"}]
          /\ \A j \in Child : Released[j] # "none" => Released[j] = process[j]
          /\ AliveIn(Released) = Alive
      BY <1>2, AfterStop
    <2>2. \A j \in Child : Released[j] = "none" => process[j] \notin {"booting", "listening"}
      BY <2>1
    <2>3. \A j \in Child : Released[j] = "none" => process[j] \in {"none", "failed", "dead"}
      BY <2>2 DEF ProcessInv, ProcessTypeOK
    <2>4. \A j \in Child : Released[j] = "none" => process[j] \in {"none", "failed"}
      BY <2>3 DEF Released, Dropped
    <2>5. PICK j \in Child, state \in {"booting", "failed"} :
            Released[j] = "none" /\ process' = [Released EXCEPT ![j] = state]
      BY <1>2 DEF Spawn
    <2> QED BY <2>1, <2>4, <2>5
  <1>3. CASE \E o \in Owner : Spawn(o, process)
    BY <1>3 DEF Spawn, ProcessInv, ProcessTypeOK
  <1>4. CASE process' = process
    BY <1>4
  <1>5. CASE \E j \in Child : ExitEvent(j) \/ Boot(j) \/ Die(j)
    BY <1>5 DEF ExitEvent, Boot, Die, ProcessInv, ProcessTypeOK
  <1> QED
    BY <1>1, <1>2, <1>3, <1>4, <1>5
    DEF ProcessNext, RestartServer, Unload, StartInline, StartSidecar, StartNothing, Timer, Obey, Crash

LEMMA BreakStep == IInv /\ ProcessNext /\ Break => IInv'
  <1> SUFFICES ASSUME IInv, ProcessNext, Break PROVE IInv'
    OBVIOUS
  <1> USE DEF IInv
  <1>1. ProcessInv'
    BY ProcessStep
  <1>2. /\ lastId' = [k \in Child |-> IF k \in Alive' THEN lastId[k] ELSE 0]
        /\ pending' = [k \in Child |-> IF k \in Alive' THEN pending[k] ELSE {}]
        /\ toClient' = [k \in Child |-> IF k \in Alive' THEN toClient[k] ELSE <<>>]
        /\ toHost' = [k \in Child |-> IF k \in Alive' \/ process'[k] = "dead" THEN toHost[k] ELSE <<>>]
        /\ running' = {r \in running : r.child \in Alive' \/ process'[r.child] = "dead"}
        /\ place' = [c \in Call |-> IF place[c] = "waiting" /\ via[c] \notin Alive' THEN "lost" ELSE place[c]]
        /\ UNCHANGED <<via, answer>>
    BY DEF Break, Alive, AliveIn
  <1>3. TypeOK'
    BY <1>1, <1>2 DEF TypeOK, ProcessInv
  <1>4. DeadForgotten'
    <2> SUFFICES ASSUME NEW k \in Child
                 PROVE  /\ k \notin Alive' => pending'[k] = {} /\ toClient'[k] = <<>> /\ lastId'[k] = 0
                        /\ process'[k] \in {"none", "failed"} => toHost'[k] = <<>> /\ RunningFor(k)' = {}
      BY DEF DeadForgotten
    <2>1. process'[k] \in {"none", "failed"} => k \notin Alive' /\ process'[k] # "dead"
      BY DEF Alive, AliveIn
    <2>2. process'[k] \in {"none", "failed"} => RunningFor(k)' = {}
      BY <1>2, <2>1 DEF RunningFor
    <2> QED BY <1>2, <2>1, <2>2
  <1>5. \A k \in Alive' : /\ Known(k)' \subseteq Known(k) /\ lastId'[k] = lastId[k]
                          /\ pending'[k] = pending[k]
    BY <1>2 DEF Known, RunningFor, Alive, AliveIn
  <1>6. \A k \in Alive' : k \in Child /\ (k \in Alive \/ Known(k) = {})
    <2> SUFFICES ASSUME NEW k \in Alive', k \notin Alive PROVE k \in Child /\ Known(k) = {}
      BY DEF Alive, AliveIn
    <2>1. k \in Child /\ process[k] \in {"none", "failed"}
      BY ProcessEdges DEF Alive, AliveIn
    <2> QED BY <2>1 DEF DeadForgotten, Known, InPipe
  <1>7. IdsUnique'
    BY <1>5, <1>6 DEF IdsUnique
  <1>8. WaitsOnce'
    BY <1>2, FS_EmptySet DEF WaitsOnce, TypeOK
  <1>9. PendingAreWaiting'
    <2> SUFFICES ASSUME NEW k \in Child
                 PROVE  /\ {e.call : e \in pending'[k]} = {c \in Call : place'[c] = "waiting" /\ via'[c] = k}
                        /\ Cardinality(pending'[k]) <= MaxInFlight
      BY DEF PendingAreWaiting
    <2>1. CASE k \in Alive'
      BY <1>2, <2>1 DEF PendingAreWaiting, TypeOK
    <2>2. CASE k \notin Alive'
      <3>1. \A c \in Call : ~(place'[c] = "waiting" /\ via'[c] = k)
        BY <1>2, <2>2 DEF TypeOK
      <3>2. pending'[k] = {} /\ Cardinality(pending'[k]) = 0
        BY <1>2, <2>2, FS_EmptySet
      <3> QED BY <3>1, <3>2, CallAssumption
    <2> QED BY <2>1, <2>2
  <1>10. OwnAnswer'
    BY <1>2 DEF OwnAnswer, TypeOK
  <1> QED BY <1>1, <1>3, <1>4, <1>7, <1>8, <1>9, <1>10

-----------------------------------------------------------------------------
(* Steps of the calls. *)

\* What a call's step leaves alone of the processes.
LEMMA ProcessesKept ==
    ASSUME IInv, UNCHANGED processVars
    PROVE  ProcessInv' /\ Alive' = Alive /\ ProcessTypeOK'
  BY ProcessStutter DEF IInv, ProcessInv, processVars, Alive, AliveIn

\* Ids stay unique while no copy is made but of what is known.
LEMMA IdsKept ==
    ASSUME IInv, Alive' = Alive, lastId' = lastId,
           \A k \in Child : Known(k)' \subseteq Known(k)
    PROVE  IdsUnique'
  BY DEF IInv, IdsUnique, Alive, AliveIn

LEMMA RefuseStep ==
    ASSUME IInv, UNCHANGED processVars, NEW c \in Call, NEW k \in Child, Refuse(c, k)
    PROVE  IInv'
  <1> USE DEF IInv
  <1>1. /\ UNCHANGED <<lastId, pending, toHost, toClient, running, via, answer, process>>
        /\ place[c] = "idle" /\ place' = [place EXCEPT ![c] = "refused"]
    BY DEF Refuse, processVars
  <1>2. ProcessInv' /\ Alive' = Alive /\ ProcessTypeOK'
    BY ProcessesKept
  <1>3. TypeOK'
    BY <1>1, <1>2 DEF TypeOK
  <1>4. IdsUnique' /\ DeadForgotten'
    BY <1>1, <1>2 DEF IdsUnique, DeadForgotten, Known, RunningFor
  <1>5. WaitsOnce' /\ PendingAreWaiting' /\ OwnAnswer'
    BY <1>1, <1>2 DEF WaitsOnce, PendingAreWaiting, OwnAnswer, TypeOK
  <1> QED BY <1>2, <1>3, <1>4, <1>5

LEMMA RequestStep ==
    ASSUME IInv, UNCHANGED processVars, NEW c \in Call, NEW k \in Child, Request(c, k)
    PROVE  IInv'
  <1> USE DEF IInv
  <1> DEFINE message == [id |-> lastId[k] + 1, call |-> c]
  <1>1. /\ place[c] = "idle" /\ process[k] = "listening" /\ Cardinality(pending[k]) < MaxInFlight
        /\ lastId' = [lastId EXCEPT ![k] = @ + 1]
        /\ pending' = [pending EXCEPT ![k] = @ \cup {message}]
        /\ toHost' = [toHost EXCEPT ![k] = Append(@, message)]
        /\ place' = [place EXCEPT ![c] = "waiting"]
        /\ via' = [via EXCEPT ![c] = k]
        /\ UNCHANGED <<toClient, running, answer, process>>
    BY DEF Request, NextId, processVars
  <1>2. ProcessInv' /\ Alive' = Alive /\ ProcessTypeOK'
    BY ProcessesKept
  <1>3. k \in Alive
    BY <1>1 DEF Alive, AliveIn
  <1>4. message \in Message /\ lastId[k] \in Nat
    BY DEF TypeOK, Message
  <1>5. /\ toHost'[k] \in Seq(Message) /\ InPipe(toHost'[k]) \subseteq InPipe(toHost[k]) \cup {message}
        /\ \A j \in Child : j # k => toHost'[j] = toHost[j]
    BY <1>1, <1>4, PipeAppend DEF TypeOK
  <1>6. TypeOK'
    BY <1>1, <1>2, <1>4, <1>5 DEF TypeOK
  <1>7. IdsUnique'
    <2>1. \A j \in Child : Known(j)' \subseteq Known(j) \cup (IF j = k THEN {message} ELSE {})
      BY <1>1, <1>5 DEF Known, RunningFor, TypeOK
    <2>2. \A m \in Known(k) : m.id \in Nat /\ m.id <= lastId[k]
      BY <1>3, KnownTyped DEF IdsUnique, Message
    <2>3. \A j \in Alive : j # k => lastId'[j] = lastId[j] /\ Known(j)' \subseteq Known(j)
      BY <1>1, <2>1 DEF TypeOK, Alive, AliveIn
    <2>4. lastId'[k] = lastId[k] + 1 /\ message.id = lastId[k] + 1
      BY <1>1 DEF TypeOK
    <2>5. \A m \in Known(k)' : m = message \/ m \in Known(k)
      BY <2>1
    <2> HIDE DEF message
    <2>6. \A m, n \in Known(k)' : m.id <= lastId'[k] /\ (m.id = n.id => m = n)
      BY <1>3, <1>4, <2>2, <2>4, <2>5 DEF IdsUnique
    <2> QED BY <1>2, <2>3, <2>6 DEF IdsUnique
  <1>8. DeadForgotten'
    BY <1>1, <1>2, <1>3 DEF DeadForgotten, RunningFor, Alive, AliveIn, TypeOK
  <1>9. WaitsOnce' /\ PendingAreWaiting'
    <2>1. \A e \in pending[k] : e.call # c
      BY <1>1 DEF PendingAreWaiting
    <2>2. \A j \in Child : pending'[j] = IF j = k THEN pending[k] \cup {message} ELSE pending[j]
      BY <1>1 DEF TypeOK
    <2>3. IsFiniteSet(pending[k]) /\ message \notin pending[k]
      BY <2>1 DEF WaitsOnce
    <2>4. IsFiniteSet(pending'[k]) /\ Cardinality(pending'[k]) = Cardinality(pending[k]) + 1
      BY <2>2, <2>3, FS_AddElement
    <2>5. Cardinality(pending'[k]) <= MaxInFlight
      BY <1>1, <2>3, <2>4, FS_CardinalityType, CallAssumption
    <2>6. WaitsOnce'
      BY <1>1, <1>2, <1>3, <2>1, <2>2, <2>4 DEF WaitsOnce, TypeOK
    <2>7. \A j \in Child : {e.call : e \in pending'[j]} = {d \in Call : place'[d] = "waiting" /\ via'[d] = j}
      BY <1>1, <2>2 DEF PendingAreWaiting, TypeOK
    <2> QED BY <2>2, <2>5, <2>6, <2>7 DEF PendingAreWaiting
  <1>10. OwnAnswer'
    BY <1>1 DEF OwnAnswer, TypeOK
  <1> QED BY <1>2, <1>6, <1>7, <1>8, <1>9, <1>10


LEMMA TimeoutStep ==
    ASSUME IInv, UNCHANGED processVars, NEW k \in Child, NEW entry \in pending[k], Timeout(k, entry)
    PROVE  IInv'
  <1> USE DEF IInv
  <1>1. /\ pending' = [pending EXCEPT ![k] = @ \ {entry}]
        /\ place' = [place EXCEPT ![entry.call] = "timeout"]
        /\ UNCHANGED <<lastId, toHost, toClient, running, via, answer, process>>
    BY DEF Timeout, processVars
  <1>2. ProcessInv' /\ Alive' = Alive /\ ProcessTypeOK'
    BY ProcessesKept
  <1>3. entry.call \in Call /\ place[entry.call] = "waiting" /\ via[entry.call] = k
    BY DEF PendingAreWaiting
  <1>4. TypeOK'
    BY <1>1, <1>2, <1>3 DEF TypeOK
  <1>5. IdsUnique'
    <2>1. \A j \in Child : Known(j)' \subseteq Known(j)
      BY <1>1 DEF Known, RunningFor, TypeOK
    <2> QED BY <1>1, <1>2, <2>1, IdsKept
  <1>6. DeadForgotten'
    BY <1>1, <1>2 DEF DeadForgotten, RunningFor, TypeOK
  <1>7. \A j \in Child : /\ pending'[j] \subseteq pending[j]
                         /\ pending'[j] = IF j = k THEN pending[k] \ {entry} ELSE pending[j]
    BY <1>1 DEF TypeOK
  <1>8. WaitsOnce'
    BY <1>1, <1>2, <1>7, FS_Subset DEF WaitsOnce, TypeOK
  <1>9. PendingAreWaiting'
    <2>1. \A j \in Child : Cardinality(pending'[j]) <= MaxInFlight
      BY <1>7, FS_Subset, FS_CardinalityType, CallAssumption DEF PendingAreWaiting, WaitsOnce
    <2>2. \A j \in Child : {e.call : e \in pending'[j]} = {c \in Call : place'[c] = "waiting" /\ via'[c] = j}
      BY <1>1, <1>3, <1>7 DEF PendingAreWaiting, WaitsOnce, TypeOK
    <2> QED BY <2>1, <2>2 DEF PendingAreWaiting
  <1>10. OwnAnswer'
    BY <1>1, <1>3 DEF OwnAnswer, TypeOK
  <1> QED BY <1>2, <1>4, <1>5, <1>6, <1>8, <1>9, <1>10

LEMMA ClientReceiveStep ==
    ASSUME IInv, UNCHANGED processVars, NEW k \in Child, ClientReceive(k)
    PROVE  IInv'
  <1> USE DEF IInv
  <1>1. PICK response : response = Head(toClient[k])
    OBVIOUS
  <1>2. PICK mine : mine = {entry \in pending[k] : entry.id = response.id}
    OBVIOUS
  <1>3. /\ k \in Alive /\ toClient[k] # <<>>
        /\ pending' = [pending EXCEPT ![k] = @ \ mine]
        /\ place' = [c \in Call |-> IF \E entry \in mine : entry.call = c THEN "answered" ELSE place[c]]
        /\ answer' = [c \in Call |-> IF \E entry \in mine : entry.call = c THEN response.call ELSE answer[c]]
        /\ toClient' = [toClient EXCEPT ![k] = Tail(@)]
        /\ UNCHANGED <<lastId, toHost, running, via, process>>
    BY <1>1, <1>2 DEF ClientReceive, processVars
  <1>4. ProcessInv' /\ Alive' = Alive /\ ProcessTypeOK'
    BY ProcessesKept
  <1>5. /\ response \in Message /\ response \in InPipe(toClient[k])
        /\ Tail(toClient[k]) \in Seq(Message) /\ InPipe(Tail(toClient[k])) \subseteq InPipe(toClient[k])
    BY <1>1, <1>3, PipeTail DEF TypeOK
  <1>6. TypeOK'
    BY <1>3, <1>4, <1>5 DEF TypeOK, Message
  <1>7. \A j \in Child : /\ pending'[j] \subseteq pending[j]
                         /\ pending'[j] = IF j = k THEN pending[k] \ mine ELSE pending[j]
    BY <1>3 DEF TypeOK
  <1>8. IdsUnique'
    <2>1. \A j \in Child : Known(j)' \subseteq Known(j)
      BY <1>3, <1>5, <1>7 DEF Known, RunningFor, TypeOK
    <2> QED BY <1>3, <1>4, <2>1, IdsKept
  <1>9. DeadForgotten'
    BY <1>3, <1>4, <1>7 DEF DeadForgotten, RunningFor, TypeOK
  <1>10. \A entry \in mine : entry = response
    <2>1. response \in Known(k) /\ mine \subseteq Known(k)
      BY <1>2, <1>5 DEF Known
    <2> QED BY <1>2, <1>3, <2>1 DEF IdsUnique
  <1>11. WaitsOnce'
    BY <1>3, <1>4, <1>7, FS_Subset DEF WaitsOnce, TypeOK
  <1>12. PendingAreWaiting'
    <2>1. \A j \in Child : Cardinality(pending'[j]) <= MaxInFlight
      BY <1>7, FS_Subset, FS_CardinalityType, CallAssumption DEF PendingAreWaiting, WaitsOnce
    <2>2. \A e \in mine : e.call \in Call /\ place[e.call] = "waiting" /\ via[e.call] = k
      BY <1>2 DEF PendingAreWaiting
    <2>3. \A j \in Child : {e.call : e \in pending'[j]} = {c \in Call : place'[c] = "waiting" /\ via'[c] = j}
      <3>1. \A c \in Call : place'[c] = "waiting" <=> place[c] = "waiting" /\ \A e \in mine : e.call # c
        BY <1>3
      <3>2. via' = via
        BY <1>3
      <3>3. ASSUME NEW j \in Child, j # k
            PROVE  {e.call : e \in pending'[j]} = {c \in Call : place'[c] = "waiting" /\ via'[c] = j}
        <4>1. pending'[j] = pending[j]
          BY <1>7, <3>3
        <4>2. \A c \in Call : via[c] = j => (place'[c] = "waiting" <=> place[c] = "waiting")
          BY <2>2, <3>1, <3>3
        <4> QED BY <3>2, <4>1, <4>2 DEF PendingAreWaiting
      <3>4. {e.call : e \in pending'[k]} = {c \in Call : place'[c] = "waiting" /\ via'[c] = k}
        <4>1. pending'[k] = pending[k] \ mine
          BY <1>7
        <4>2. \A e \in pending[k] \ mine : \A f \in mine : e.call # f.call
          BY <1>2 DEF WaitsOnce
        <4>3. \A c \in Call : place[c] = "waiting" /\ via[c] = k <=> \E e \in pending[k] : e.call = c
          BY DEF PendingAreWaiting
        <4>4. \A e \in pending[k] : e.call \in Call
          BY DEF PendingAreWaiting
        <4> QED BY <3>1, <3>2, <4>1, <4>2, <4>3, <4>4
      <3> QED BY <3>3, <3>4
    <2> QED BY <2>1, <2>3 DEF PendingAreWaiting
  <1>13. OwnAnswer'
    BY <1>3, <1>10 DEF OwnAnswer, TypeOK
  <1> QED BY <1>4, <1>6, <1>8, <1>9, <1>11, <1>12, <1>13

LEMMA HostReceiveStep ==
    ASSUME IInv, UNCHANGED processVars, NEW k \in Child, HostReceive(k)
    PROVE  IInv'
  <1> USE DEF IInv
  <1>1. PICK request : request = Head(toHost[k])
    OBVIOUS
  <1>2. /\ toHost[k] # <<>>
        /\ running' = running \cup {[child |-> k, id |-> request.id, call |-> request.call]}
        /\ toHost' = [toHost EXCEPT ![k] = Tail(@)]
        /\ UNCHANGED <<lastId, pending, toClient, place, via, answer, process>>
    BY <1>1 DEF HostReceive, processVars
  <1>3. ProcessInv' /\ Alive' = Alive /\ ProcessTypeOK'
    BY ProcessesKept
  <1>4. /\ request \in Message /\ request \in InPipe(toHost[k])
        /\ Tail(toHost[k]) \in Seq(Message) /\ InPipe(Tail(toHost[k])) \subseteq InPipe(toHost[k])
    BY <1>1, <1>2, PipeTail DEF TypeOK
  <1>5. request = [id |-> request.id, call |-> request.call]
    BY <1>4 DEF Message
  <1>6. TypeOK'
    BY <1>2, <1>3, <1>4, <1>5 DEF TypeOK
  <1>7. \A j \in Child : RunningFor(j)' \subseteq RunningFor(j) \cup (IF j = k THEN {request} ELSE {})
    BY <1>2, <1>5 DEF RunningFor
  <1>8. IdsUnique'
    <2>1. \A j \in Child : Known(j)' \subseteq Known(j)
      BY <1>2, <1>4, <1>7 DEF Known, TypeOK
    <2> QED BY <1>2, <1>3, <2>1, IdsKept
  <1>9. DeadForgotten'
    BY <1>2, <1>3, <1>7 DEF DeadForgotten, TypeOK
  <1>10. WaitsOnce' /\ PendingAreWaiting' /\ OwnAnswer'
    BY <1>2, <1>3 DEF WaitsOnce, PendingAreWaiting, OwnAnswer
  <1> QED BY <1>3, <1>6, <1>8, <1>9, <1>10

LEMMA HostAnswerStep ==
    ASSUME IInv, UNCHANGED processVars, NEW r \in running, HostAnswer(r)
    PROVE  IInv'
  <1> USE DEF IInv
  <1>1. PICK response : response = [id |-> r.id, call |-> r.call]
    OBVIOUS
  <1>2. /\ running' = running \ {r}
        /\ toClient' = IF r.child \in Alive THEN [toClient EXCEPT ![r.child] = Append(@, response)] ELSE toClient
        /\ UNCHANGED <<lastId, pending, toHost, place, via, answer, process>>
    BY <1>1 DEF HostAnswer, processVars
  <1>3. ProcessInv' /\ Alive' = Alive /\ ProcessTypeOK'
    BY ProcessesKept
  <1>4. r.child \in Child /\ response \in Message /\ response \in RunningFor(r.child)
    BY <1>1 DEF TypeOK, RunningFor
  <1>5. \A j \in Child : /\ toClient'[j] \in Seq(Message)
                         /\ InPipe(toClient'[j]) \subseteq InPipe(toClient[j]) \cup RunningFor(j)
                         /\ j \notin Alive => toClient'[j] = toClient[j]
    BY <1>2, <1>4, PipeAppend DEF TypeOK
  <1>6. TypeOK'
    BY <1>2, <1>3, <1>5 DEF TypeOK
  <1>7. \A j \in Child : RunningFor(j)' \subseteq RunningFor(j)
    BY <1>2 DEF RunningFor
  <1>8. IdsUnique'
    <2>1. \A j \in Child : Known(j)' \subseteq Known(j)
      BY <1>2, <1>5, <1>7 DEF Known
    <2> QED BY <1>2, <1>3, <2>1, IdsKept
  <1>9. DeadForgotten'
    BY <1>2, <1>3, <1>5, <1>7 DEF DeadForgotten
  <1>10. WaitsOnce' /\ PendingAreWaiting' /\ OwnAnswer'
    BY <1>2, <1>3 DEF WaitsOnce, PendingAreWaiting, OwnAnswer
  <1> QED BY <1>3, <1>6, <1>8, <1>9, <1>10

LEMMA Stutter == IInv /\ UNCHANGED vars => IInv'
  <1> SUFFICES ASSUME IInv, UNCHANGED vars PROVE IInv'
    OBVIOUS
  <1> USE DEF IInv
  <1>1. ProcessInv' /\ Alive' = Alive /\ ProcessTypeOK' /\ process' = process
    BY ProcessesKept DEF vars, processVars
  <1>2. UNCHANGED ipcVars
    BY DEF vars
  <1> QED BY <1>1, <1>2
          DEF ipcVars, TypeOK, IdsUnique, DeadForgotten, WaitsOnce, PendingAreWaiting, OwnAnswer, Known, RunningFor

THEOREM Invariance == Spec => []IInv
  <1>1. IInv /\ [Next]_vars => IInv'
    <2> SUFFICES ASSUME IInv, [Next]_vars PROVE IInv'
      OBVIOUS
    <2>1. CASE ProcessNext /\ Break
      BY <2>1, BreakStep
    <2>2. CASE Ipc /\ UNCHANGED processVars
      BY <2>2, RefuseStep, RequestStep, TimeoutStep, ClientReceiveStep, HostReceiveStep, HostAnswerStep DEF Ipc
    <2>3. CASE UNCHANGED vars
      BY <2>3, Stutter
    <2> QED BY <2>1, <2>2, <2>3 DEF Next
  <1> QED BY <1>1, Initially, PTL DEF Spec

\* Every variable of the sidecar, its processes and its pipes keeps its type.
THEOREM TypeCorrect == Spec => []TypeOK
  BY Invariance, PTL DEF IInv

\* A slot of the client's pending map is taken exactly while a client waits,
\* and no more than maxInFlight are (request, its timeout, resolveResponse).
THEOREM SlotsAreWaitingCalls == Spec => []PendingAreWaiting
  BY Invariance, PTL DEF IInv

\* No response is taken for another request's (nextId, resolveResponse).
THEOREM AnswersAreOwn == Spec => []OwnAnswer
  BY Invariance, PTL DEF IInv
=============================================================================
