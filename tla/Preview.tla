------------------------------ MODULE Preview ------------------------------
(***************************************************************************)
(* render_preview: pictures of the model are taken through the very camera *)
(* and the very timeline the user looks at.  A call poses a clip, turns    *)
(* the camera, renders a frame or a round of them, and puts everything     *)
(* back in a finally block, whatever failed on the way.                    *)
(*                                                                         *)
(* Blockbench is a list of clips, found by name, each with a time of its   *)
(* own, one of them selected or none.  The camera is its yaw, in parts of  *)
(* a turn, and its roll.                                                   *)
(***************************************************************************)
EXTENDS Integers, Sequences, FiniteSets

CONSTANTS Clip, ClipName, None,
          Turn,        \* parts of a full turn
          FrameCount,  \* rounds asked for: duration times frames a second
          MaxFrames,   \* MAX_TURNTABLE_FRAMES
          MaxTime      \* the length of a clip

VARIABLES order,       \* Blockbench's list of clips
          title,       \* clip -> its name
          view,        \* [yaw, roll, selected, time : clip -> time]
          shot         \* the last call: [result, clip, frames, files, asked, before]

wvars == <<order, title, view, shot>>

Moment == 0..MaxTime

\* getAnimations().find: the first clip of a name.
First(name) == LET at == {i \in DOMAIN order : title[order[i]] = name}
               IN  IF at = {} THEN None ELSE order[CHOOSE i \in at : \A j \in at : i <= j]

Found(name) == IF name = None THEN None ELSE First(name)

\* snapshotAnimation keeps the name of the selected clip and its time.
SelectedName == IF view.selected = None THEN None ELSE title[view.selected]

Select(v, clip, time) == [v EXCEPT !.selected = clip, !.time[clip] = time]

\* applyAnimationState, with the time at most the clip's length.
Posed(v, name, time) ==
    IF name = None THEN v ELSE Select(v, First(name), IF time > MaxTime THEN MaxTime ELSE time)

\* applyAngle
Turned(v, yaw, roll) == [v EXCEPT !.yaw = (@ + yaw) % Turn, !.roll = (@ + roll) % Turn]

\* The loop over the frames: each but the first is a step further.
Round(v, n) == [i \in 1..n |-> Turned(v, (i - 1) * (Turn \div n), 0)]

Frames(asked) == IF asked > MaxFrames THEN MaxFrames ELSE asked

\* Fault: the camera is put back, the timeline is not.
CameraRestored(v) == [v EXCEPT !.yaw = view.yaw, !.roll = view.roll]
\* restoreCamera and restoreAnimation.  Nothing selected is nothing to restore;
\* a clip is found again by its name.
Restored(v) ==
    LET w == [v EXCEPT !.yaw = view.yaw, !.roll = view.roll]
        clip == Found(SelectedName)
    IN  IF clip = None THEN w ELSE Select(w, clip, view.time[view.selected])

\* The end of a call that got to v: restored, or an error of the restoring of
\* the clip itself, before or after selecting it, which leaves the time posed.
Ends(v, name, result, frames, files, asked) ==
    /\ \/ /\ view' = Restored(v)
          /\ shot' = [result |-> result, clip |-> name, frames |-> frames, files |-> files, asked |-> asked, before |-> view]
       \/ /\ SelectedName # None
          /\ \E clip \in {v.selected, Found(SelectedName)} :
               view' = [v EXCEPT !.yaw = view.yaw, !.roll = view.roll, !.selected = clip]
          /\ shot' = [result |-> "threw", clip |-> name, frames |-> <<>>, files |-> 0, asked |-> asked, before |-> view]
    /\ UNCHANGED <<order, title>>

\* saveDataUriToTmp: a file of its own for every picture, until one is no
\* picture or cannot be written; bad is its number, or 0.
Files(frames, bad) == IF bad = 0 THEN Len(frames) ELSE bad - 1

\* RenderService: the frames are saved one by one; at the first that cannot be
\* saved the call fails, and the files before it stay.
Saved(v, name, frames, save, asked) ==
    IF ~ save
    THEN Ends(v, name, "ok", frames, 0, asked)
    ELSE \E bad \in 0..Len(frames) :
            IF bad = 0 THEN Ends(v, name, "ok", frames, Files(frames, bad), asked)
                       ELSE Ends(v, name, "failed", <<>>, Files(frames, bad), asked)

\* A fixed picture: a pose, an angle, one frame, each of which may throw or be
\* refused, like a clip nobody has or a time without a clip.
RenderFixed(name, time, yaw, roll, save) ==
    LET posed == Posed(view, name, time)
        turned == Turned(posed, yaw, roll)
    IN  \/ name # None /\ First(name) = None /\ Ends(view, name, "failed", <<>>, 0, 1)
        \/ /\ name # None => First(name) # None
           /\ \/ \E v \in {view, posed, turned} : Ends(v, name, "failed", <<>>, 0, 1)
              \/ Saved(turned, name, <<turned>>, save, 1)

RenderTurntable(name, time, asked, save) ==
    LET posed == Posed(view, name, time)
        frames == Round(posed, Frames(asked))
    IN  /\ name # None => First(name) # None
        /\ \/ \E v \in {view, posed} \cup {frames[i] : i \in DOMAIN frames} : Ends(v, name, "failed", <<>>, 0, asked)
           \/ Saved(frames[Len(frames)], name, frames, save, asked)

NoShot(v) == [result |-> "none", clip |-> None, frames |-> <<>>, files |-> 0, asked |-> 0, before |-> v]

\* Between the calls the user selects, seeks and turns.
UserLooks ==
    /\ \E clip \in Clip \cup {None}, time \in Moment, yaw \in {0, 1} :
          view' = [IF clip = None THEN [view EXCEPT !.selected = None] ELSE Select(view, clip, time) EXCEPT !.yaw = yaw]
    /\ shot' = NoShot(view')
    /\ UNCHANGED <<order, title>>

\* No clip, or a clip at its start or at a time past its end.
Pose == {<<None, 0>>} \cup ClipName \X {0, MaxTime + 1}

Init ==
    /\ order \in {s \in [1..Cardinality(Clip) -> Clip] : \A i, j \in DOMAIN s : s[i] = s[j] => i = j}
    /\ title \in [Clip -> ClipName]
    /\ view = [yaw |-> 0, roll |-> 0, selected |-> None, time |-> [c \in Clip |-> 0]]
    /\ shot = NoShot(view)

Next ==
    \/ UserLooks
    \/ \E pose \in Pose, save \in BOOLEAN :
          \/ \E angle \in {0, 1} : RenderFixed(pose[1], pose[2], angle, angle, save)
          \/ \E asked \in FrameCount : RenderTurntable(pose[1], pose[2], asked, save)

Spec == Init /\ [][Next]_wvars

----------------------------------------------------------------------------

\* After a preview, successful or not, the camera stands where the user left it,
\* and the clip that was selected is selected again at its time, or the first of
\* its name is, which may be another.  Where there is no clip to select again,
\* or that threw, the clip the call posed may stay selected; and at most this
\* clip and the one selected again have another time than before.
ViewIsRestored ==
    shot.result # "none" =>
        LET before == shot.before
            posed == Found(shot.clip)
            again == IF before.selected = None THEN None ELSE First(title[before.selected])
        IN  /\ view.yaw = before.yaw /\ view.roll = before.roll
            /\ \A c \in Clip \ {posed, again} : view.time[c] = before.time[c]
            /\ IF again = None \/ shot.result = "threw"
               THEN view.selected \in {before.selected, posed, again}
               ELSE view.selected = again /\ view.time[again] = before.time[before.selected]

\* The frames of a turntable look at the model from as many sides, evenly round
\* it and the user's own view the first of them.
FramesGoRound ==
    shot.result = "ok" /\ Len(shot.frames) > 1 =>
        LET n == Len(shot.frames) IN
        /\ n = Frames(shot.asked)
        /\ shot.frames[1].yaw = shot.before.yaw
        /\ {f.yaw : f \in {shot.frames[i] : i \in 1..n}} = {(shot.before.yaw + i * (Turn \div n)) % Turn : i \in 0..n - 1}
=============================================================================
