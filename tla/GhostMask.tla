------------------------------ MODULE GhostMask ------------------------------
(***************************************************************************)
(* The surface a vehicle is judged against while it hides it                  *)
(* (tools/ghost_mask.py): a painted line, whose class the lane model may get  *)
(* wrong and which a tracker remembers by votes, and a vehicle, which takes a *)
(* ghost of the line along from the frame its tire first touches it. The line *)
(* covers the columns 0 and 1 of the row on which the vehicle stands.         *)
(***************************************************************************)
EXTENDS Integers, FiniteSets

CONSTANTS
    MaxFrame,    \* frames (a bound)
    TTL,         \* ttl0: frames a ghost lives
    Phantom,     \* phantom_min: frames before a line may be read
    MaxMiss,     \* TRACK_MAX_MISS
    Confidences, \* mask confidences, in percent
    Columns,     \* where the vehicle's middle may be
    Drift        \* what the optical flow may be wrong by, in columns a frame

VARIABLES
    frame,   \* frames processed
    right,   \* the line is at the far right of the image
    track,   \* LaneLineTracker: age, miss and votes of the line; age 0 is no track
    ghost,   \* GhostMaskTracker.ghosts of the vehicle: ttl and shift; ttl Gone is none
    at,      \* the vehicle's middle, or Away
    hit,     \* the verdict on the vehicle in the last frame
    sinceLine,  \* frames since the line was last seen under the vehicle
    sinceTouch  \* frames the vehicle has been on the line since it first touched it

vars == <<frame, right, track, ghost, at, hit, sinceLine, sinceTouch>>

Away == 99
Gone == -1
Long == MaxFrame + TTL
NoTrack == [age |-> 0, miss |-> 0, white |-> 0, yellow |-> 0]
NoGhost == [ttl |-> Gone, shift |-> 0]
Line == {0, 1}

Init ==
    /\ frame = 0 /\ right \in BOOLEAN
    /\ track = NoTrack /\ ghost = NoGhost
    /\ at = Away /\ hit = FALSE
    /\ sinceLine = Long /\ sinceTouch = Long

-----------------------------------------------------------------------------
(* LaneLineTracker.update *)

\* What the model sees of the line: nothing, or a class with a confidence.
Nothing == [cls |-> "none", conf |-> 0]
Sightings == {Nothing} \cup [cls : {"solid_white_lane", "yellow_solid_lane"}, conf : Confidences]

\* _prior: a yellow line is only expected at the far right.
Weight(s) == IF s.cls = "yellow_solid_lane" /\ ~right THEN s.conf \div 4 ELSE s.conf
Decayed(v) == (9 * v) \div 10

Voted(s) == [age |-> track.age + 1, miss |-> 0,
    white |-> Decayed(track.white) + (IF s.cls = "solid_white_lane" THEN Weight(s) ELSE 0),
    yellow |-> Decayed(track.yellow) + (IF s.cls = "yellow_solid_lane" THEN Weight(s) ELSE 0)]

Missed == IF track.age = 0 \/ track.miss + 1 > MaxMiss THEN NoTrack
          ELSE [track EXCEPT !.miss = @ + 1]

Tracked(s) == IF s = Nothing THEN Missed ELSE Voted(s)

\* surface_from_components: what a line that is seen, may be read and is white by vote covers.
Readable(s) == Tracked(s).age >= Phantom \/ s.conf > 85
Surface(s) == IF s # Nothing /\ Readable(s) /\ Tracked(s).white > Tracked(s).yellow
              THEN Line ELSE {}

-----------------------------------------------------------------------------
(* GhostMaskTracker.step *)

TriggerPoints(v) == {v - 2, v + 2}
VerdictSegment(v) == v - 1 .. v + 1

\* Every frame ages every ghost and moves it with the background, as the flow has it.
Ageless(dx) == IF ghost.ttl = Gone THEN NoGhost                                 \* mutant
               ELSE [ttl |-> ghost.ttl, shift |-> ghost.shift + dx]
Aged(dx) == IF ghost.ttl = Gone THEN NoGhost
            ELSE [ttl |-> ghost.ttl - 1, shift |-> ghost.shift + dx]

\* The first touch takes the line along.
Captured(v, surface, dx) ==
    IF ghost.ttl = Gone /\ TriggerPoints(v) \cap surface # {}
    THEN [ttl |-> TTL, shift |-> 0] ELSE Aged(dx)

Mask(g, surface) == IF g.ttl > 0 THEN {c + g.shift : c \in Line} ELSE surface
Hits(v, g, surface) == VerdictSegment(v) \cap Mask(g, surface) # {}

\* A ghost that was not hit is given up, and so is one that is too old.
Kept(g, h) == IF g.ttl <= 0 \/ ~h THEN NoGhost ELSE g

OnLine(v) == VerdictSegment(v) \cap Line # {}
Touches(v, surface) == TriggerPoints(v) \cap surface # {} /\ VerdictSegment(v) \cap surface # {}

\* One frame of compute_verdict_timeline. A vehicle moves by a column at most.
Step == \E s \in Sightings, v \in Columns \cup {Away}, dx \in Drift :
    /\ frame < MaxFrame
    /\ v # Away /\ at # Away => v - at \in -1..1
    /\ frame' = frame + 1
    /\ track' = Tracked(s)
    /\ at' = v
    /\ LET surface == Surface(s)
           g == IF v = Away THEN Aged(dx) ELSE Captured(v, surface, dx)
           h == v # Away /\ Hits(v, g, surface)
       IN  /\ hit' = h
           /\ ghost' = IF v = Away THEN (IF g.ttl <= 0 THEN NoGhost ELSE g) ELSE Kept(g, h)
           /\ sinceLine' =
                  IF v # Away /\ surface \cap (v - 2 .. v + 2) # {} THEN 0
                  ELSE IF sinceLine = Long THEN Long ELSE sinceLine + 1
           /\ sinceTouch' =
                  IF v = Away \/ ~OnLine(v) \/ dx # 0 THEN Long
                  ELSE IF Touches(v, surface) /\ ~hit /\ ghost = NoGhost THEN 0
                  ELSE IF sinceTouch = Long THEN Long ELSE sinceTouch + 1
    /\ UNCHANGED right

Next == Step

Spec == Init /\ [][Next]_vars

-----------------------------------------------------------------------------
\* A vehicle is only found on a line that was seen under it, as a white one, within the life
\* of a ghost: what it took along does not outlive that, whatever it drives over next.
HitsWereSeen == hit => sinceLine < TTL

\* From the frame its tire first touches the line, a vehicle that stays on it is found on it
\* for the life of a ghost, although it hides the line or the model loses it.
TouchIsRemembered == sinceTouch < TTL => hit

\* The line is judged although the vehicle hides it, and for no longer than that.
OcclusionBridged == HitsWereSeen /\ TouchIsRemembered
==============================================================================
