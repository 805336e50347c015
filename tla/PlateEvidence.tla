--------------------------- MODULE PlateEvidence ---------------------------
(***************************************************************************)
(* From the tracked boxes to the plate on a violation's row: the rolling      *)
(* buffer of each vehicle's sharpest crops (lpr/evidence.py), the plate it is *)
(* read from once, and the report main.py writes after the last frame.        *)
(*                                                                         *)
(* A crop is a frame number, a readability score (area x sharpness, a small   *)
(* number here) and what the OCR makes of it.                                 *)
(***************************************************************************)
EXTENDS Naturals, Sequences, FiniteSets, SequencesExt

CONSTANTS
    Vehicles,
    Plates,      \* what a vote may come to
    NoPlate,     \* None: nothing readable
    Scores,      \* readability scores, a set of numbers (a bound)
    BufferSize, MaxOcrFrames, NEvidence,
    MaxEvents,   \* violations of the video (a bound)
    MaxFrame,    \* the last frame of the video (a bound)
    Types        \* violation types

VARIABLES
    frame,    \* the frame being processed; MaxFrame + 1 after the last
    offered,  \* per vehicle, every crop that passed the area gate so far
    kept,     \* EvidenceCollector._buffers
    plates,   \* EvidenceCollector._plates, without the scores
    license,  \* Vehicle.license_plate
    events,   \* the events the detectors found, in the order they are reported
    next,     \* the index of the next one to report; 0 while the video is read
    rows      \* the rows of violations.csv, with the pictures saved for each

vars == <<frame, offered, kept, plates, license, events, next, rows>>

Crops == [frame : 0..MaxFrame, score : Scores, text : {TRUE, FALSE}]
Events == [vehicle : Vehicles, type : Types]

Init ==
    /\ frame = 0
    /\ offered = [v \in Vehicles |-> {}]
    /\ kept = [v \in Vehicles |-> {}]
    /\ plates = [v \in Vehicles |-> NoPlate]
    /\ license = [v \in Vehicles |-> NoPlate]
    /\ events = <<>> /\ next = 0 /\ rows = <<>>

-----------------------------------------------------------------------------
(* The buffer *)

\* The root of the heap: the lowest score and, among equals, the first one pushed.
Weakest(crops) ==
    CHOOSE c \in crops : \A d \in crops :
        c.score < d.score \/ (c.score = d.score /\ c.frame <= d.frame)

Latest(crops) == CHOOSE c \in crops : \A d \in crops : d.frame <= c.frame       \* mutant
Replaced(crops) == Weakest(crops)

Keep(crops, c) ==
    IF Cardinality(crops) < BufferSize THEN crops \cup {c}
    ELSE IF c.score <= Weakest(crops).score THEN crops
    ELSE (crops \ {Replaced(crops)}) \cup {c}

\* One frame: each vehicle is offered when it is tracked and near enough (the area gate).
ProcessFrame == \E near \in SUBSET Vehicles : \E crop \in [near -> Crops] :
    /\ frame <= MaxFrame
    /\ \A v \in near : crop[v].frame = frame
    /\ offered' = [v \in Vehicles |->
                      IF v \in near THEN offered[v] \cup {crop[v]} ELSE offered[v]]
    /\ kept' = [v \in Vehicles |-> IF v \in near THEN Keep(kept[v], crop[v]) ELSE kept[v]]
    /\ frame' = frame + 1
    /\ UNCHANGED <<plates, license, events, next, rows>>

\* The detectors run once the video has been read: violations of any tracked vehicle.
Detect == \E found \in SeqOf(Events, MaxEvents) :
    /\ frame = MaxFrame + 1 /\ next = 0
    /\ events' = found /\ next' = 1
    /\ UNCHANGED <<frame, offered, kept, plates, license, rows>>

-----------------------------------------------------------------------------
(* The evidence of one event *)

\* The n first of sorted(heap, reverse=True); equal scores may come in any order.
IsTop(n, some, crops) ==
    /\ some \subseteq crops
    /\ Cardinality(some) = Min({n, Cardinality(crops)})
    /\ \A c \in some, d \in crops \ some : d.score <= c.score

\* The characters of the readable crops are voted on: the outcome is a plate, which
\* need not be one that any single crop showed.
Votes(crops) == IF \E c \in crops : c.text THEN Plates ELSE {NoPlate}

\* known_plate, then the memo of an earlier event, then the OCR; a failed read is tried again.
ReadOnce(v, crops) ==
    IF license[v] # NoPlate THEN {license[v]}
    ELSE IF plates[v] # NoPlate THEN {plates[v]}
    ELSE Votes(crops)

Reported(plate) == TRUE

\* One event of run_evidence_and_report: the plate, the pictures, the row.
CollectEvidence == next \in DOMAIN events /\
    LET v == events[next].vehicle IN
    \E read, pictures \in SUBSET kept[v] : \E plate \in ReadOnce(v, read) :
        /\ IsTop(MaxOcrFrames, read, kept[v])
        /\ IsTop(NEvidence, pictures, kept[v])
        /\ plates' = [plates EXCEPT ![v] = plate]
        /\ license' = [license EXCEPT ![v] = IF plate # NoPlate THEN plate ELSE @]
        /\ rows' = IF Reported(plate)
                   THEN Append(rows, [event |-> events[next], plate |-> plate,
                                      pictures |-> pictures])
                   ELSE rows
        /\ next' = next + 1
        /\ UNCHANGED <<frame, offered, kept, events>>

Next == ProcessFrame \/ Detect \/ CollectEvidence

Spec == Init /\ [][Next]_vars

-----------------------------------------------------------------------------
\* The buffer holds the best crops the vehicle ever offered, as many as fit: whatever
\* the order they came in, no crop outside it is better than one in it.
KeepsBest == \A v \in Vehicles : IsTop(BufferSize, kept[v], offered[v])

\* Every violation of a vehicle names the same plate, however many events it has,
\* and an event without one had no readable plate among the vehicle's best crops.
OnePlatePerVehicle == \A i, j \in DOMAIN rows :
    rows[i].event.vehicle = rows[j].event.vehicle /\ i < j /\ rows[i].plate # NoPlate =>
        rows[j].plate = rows[i].plate

\* When the report is written, every event has its row, readable plate or not, and the
\* row's pictures contain the sharpest crop the vehicle ever offered.
NothingDropped == next > Len(events) =>
    /\ [i \in DOMAIN rows |-> rows[i].event] = events
    /\ \A i \in DOMAIN rows : \A c \in offered[rows[i].event.vehicle] :
           \E d \in rows[i].pictures : c.score <= d.score

\* The evidence of every violation is the best there was: the sharpest crops survive the
\* eviction, one plate per vehicle, and no event loses its row for want of one.
EvidenceKept == KeepsBest /\ OnePlatePerVehicle /\ NothingDropped
=============================================================================
