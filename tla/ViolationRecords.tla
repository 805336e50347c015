--------------------------- MODULE ViolationRecords ---------------------------
(***************************************************************************)
(* What the backend is told of each violation of a drive. The pictures, the *)
(* clip and the documents of an incident travel from main.py to the worker  *)
(* through a tar file and loose files in the job directory, from there to   *)
(* R2 and into the POSTed record, and every hop finds them by a name made   *)
(* of the vehicle, the type and the key frame. An attempt that was cut off  *)
(* leaves its files and its tar file in the job directory to the next one,  *)
(* which may find other violations, or none.                                *)
(***************************************************************************)
EXTENDS Integers, Sequences, FiniteSets

CONSTANTS
    Vehicles, Types,
    Keys,        \* key frames (a bound)
    MaxEvents,   \* violations an attempt may find (a bound)
    Outcomes,    \* what a pass over the video may come to: the violations it finds, per vehicle
                 \* its buffered crops, sharpest first (their frame, and whether they show a
                 \* plate; none when the OCR could not be loaded), and the vehicles whose plate
                 \* a vote over them reads
    Tracks,      \* the sets of frames that may have a GPS fix
    NEvidence,
    MaxAttempts, \* attempts to process the drive (a bound)
    None

VARIABLES
    outcome,   \* what this attempt's pass over the video came to, None before
    track,     \* the frames with a GPS fix, none without gps.csv
    phase,     \* "process", "export", "unpack", "clips", "plates", "post", "done" or "failed"
    attempt,
    files,     \* the job directory: what each path holds, and which attempt made it
    bundle,    \* the tar file in it: its members, the manifest, and the attempt that wrote it
    clips,     \* per violation_id, the path of its clip, once uploaded the object itself
    plates,    \* per violation_id, the same of its plate picture
    posted     \* the records the backend was told of in this attempt

vars == <<outcome, track, phase, attempt, files, bundle, clips, plates, posted>>

Events == [vehicle : Vehicles, type : Types, key : Keys]
Nothing == [x \in {} |-> None]
NoBundle == [members |-> Nothing, records |-> {}, made |-> 0]
Torn == [NoBundle EXCEPT !.made = None]

\* g's values where both are defined.
Over(f, g) == [x \in DOMAIN f \cup DOMAIN g |-> IF x \in DOMAIN g THEN g[x] ELSE f[x]]

Init ==
    /\ outcome = None
    /\ track \in Tracks
    /\ phase = "process" /\ attempt = 1
    /\ files = Nothing /\ bundle = NoBundle
    /\ clips = Nothing /\ plates = Nothing
    /\ posted = {}

-----------------------------------------------------------------------------
(* main.py: the evidence, the clips and the bundle *)

ByVehicle(e) == <<e.vehicle, e.type>>                                           \* mutant
violation_id(e) == <<e.vehicle, e.type, e.key>>

\* What the attempt has found.
found == outcome.found

\* collect_evidence: the plate of the vehicle as this attempt reads it, and its sharpest pictures.
Plate(v) == IF v \in outcome.readable THEN <<"plate", v, attempt>> ELSE None
Pictures(v) == LET crops == outcome.crops[v] IN
    SubSeq(crops, 1, IF Len(crops) < NEvidence THEN Len(crops) ELSE NEvidence)
WithPlate(v) == {i \in DOMAIN Pictures(v) : Pictures(v)[i].plate}

\* _clearest_plate: any of them, its score is not the vehicle's.
Clearest(v) == IF WithPlate(v) = {} THEN {None} ELSE WithPlate(v)

\* A file of this attempt that shows a vehicle in a frame, because of one type of violation.
File(e, what, f) ==
    [what |-> what, vehicle |-> e.vehicle, type |-> e.type, frame |-> f, made |-> attempt]

\* The names of what a bundle has on one violation: its pictures, the plates in them, the
\* clearest plate again, the record, the summary, and the report of a speeder.
Names(e, report) ==
    LET withPlate == WithPlate(e.vehicle) IN
    {<<"violation.json", 0>>, <<"summary.txt", 0>>}
    \cup {<<"report.docx", 0>> : r \in {TRUE} \cap {report}}
    \cup {<<"plate.png", 0>> : i \in withPlate}
    \cup {<<"picture", i>> : i \in DOMAIN Pictures(e.vehicle)}
    \cup {<<"plate", i>> : i \in withPlate}

Path(e, name) == <<violation_id(e), name[1], name[2]>>
PlatePath(id) == <<id, "plate.png", 0>>
LoosePath(id) == <<id, "loose.mp4", 0>>
ClipPath(id) == <<id, "clip.mp4", 0>>

\* The loop writes into one dictionary: of two violations with one path, one wins.
Owner(es, path) == CHOOSE e \in es : violation_id(e) = path[1]

Members(reports, best) ==
    LET Content(e, path) ==
            File(e, path[2], IF path[3] # 0 THEN Pictures(e.vehicle)[path[3]].frame
                             ELSE IF path[2] = "plate.png"
                             THEN Pictures(e.vehicle)[best[e.vehicle]].frame
                             ELSE e.key)
    IN [path \in UNION {{Path(e, name) : name \in Names(e, e \in reports)} : e \in found} |->
            Content(Owner(found, path), path)]

\* annotate_clip leaves the file of the clip, whole or torn (see EvidenceClip), or none.
Loose(es) == [path \in {LoosePath(violation_id(e)) : e \in es} |->
    LET e == Owner(es, path) IN File(e, "clip.mp4", e.key)]

\* What build_export lists in the manifest for it.
Record(e, report) ==
    [id |-> violation_id(e), vehicle |-> e.vehicle, type |-> e.type, key |-> e.key,
     plate |-> Plate(e.vehicle),
     plateCrop |-> IF WithPlate(e.vehicle) = {} THEN None ELSE PlatePath(violation_id(e)),
     paths |-> {Path(e, name) : name \in Names(e, report) \ {<<"plate.png", 0>>}}]

\* process_video_with_models, up to the clips: an attempt without violations ends there.
Process ==
    /\ phase = "process"
    /\ outcome' \in {o \in Outcomes : Cardinality(o.found) <= MaxEvents}
    /\ \E rendered \in SUBSET outcome'.found : files' = Over(files, Loose(rendered))
    /\ phase' = IF outcome'.found = {} THEN "unpack" ELSE "export"
    /\ UNCHANGED <<track, attempt, bundle, clips, plates, posted>>

\* export_and_push_violations: the bundle takes the place of one that was there.
Export ==
    /\ phase = "export"
    /\ \E best \in [Vehicles -> 1..NEvidence \cup {None}],
          reports \in SUBSET {e \in found : e.type = "SPEEDING"} :
       /\ \A v \in Vehicles : best[v] \in Clearest(v)
       /\ bundle' = [members |-> Members(reports, best),
                     records |-> {Record(e, e \in reports) : e \in found},
                     made |-> attempt]
    /\ phase' = "unpack"
    /\ UNCHANGED <<outcome, track, attempt, files, clips, plates, posted>>

-----------------------------------------------------------------------------
(* worker_common.py and worker.py: unpacking and shipping *)

Ids == {r.id : r \in bundle.records}

\* unpack_bundle, move_clips and collect_plate_images, of whatever bundle is there. A clip that
\* an attempt before has moved there is found again.
Unpack ==
    LET moved == {id \in Ids : LoosePath(id) \in DOMAIN files}
        tree == Over(Over(files, bundle.members),
                     [p \in {ClipPath(id) : id \in moved} |-> files[LoosePath(p[1])]])
    IN /\ phase = "unpack" /\ bundle # Torn
       /\ files' = [p \in DOMAIN tree \ {LoosePath(id) : id \in moved} |-> tree[p]]
       /\ clips' = [id \in {i \in Ids : ClipPath(i) \in DOMAIN tree} |-> ClipPath(id)]
       /\ plates' = [id \in {r.id : r \in {q \in bundle.records : q.plateCrop # None}} |->
                        (CHOOSE r \in bundle.records : r.id = id).plateCrop]
       /\ phase' = "clips"
       /\ UNCHANGED <<outcome, track, attempt, bundle, posted>>

\* A tar file that ends in the middle cannot be opened.
UnpackFails ==
    /\ phase = "unpack" /\ bundle = Torn
    /\ phase' = "failed" /\ files' = Nothing
    /\ UNCHANGED <<outcome, track, attempt, bundle, clips, plates, posted>>

HeadCut == [what |-> "head", vehicle |-> None, type |-> None, frame |-> 0, made |-> 0]

\* upload_evidence: each violation's own clip, or the one cut of the head of the video.
UploadClips ==
    /\ phase = "clips"
    /\ clips' = [id \in Ids |-> IF id \in DOMAIN clips THEN files[clips[id]] ELSE HeadCut]
    /\ phase' = "plates"
    /\ UNCHANGED <<outcome, track, attempt, files, bundle, plates, posted>>

\* upload_plate_images: one that cannot be uploaded is left out.
UploadPlates == \E sent \in SUBSET DOMAIN plates :
    /\ phase = "plates"
    /\ plates' = [id \in sent |-> files[plates[id]]]
    /\ phase' = "post"
    /\ UNCHANGED <<outcome, track, attempt, files, bundle, clips, posted>>

Distance(a, b) == IF a < b THEN b - a ELSE a - b

\* fix_at: the frame with the nearest fix, the earlier one of two.
fix_at(f) == IF track = {} THEN None
             ELSE CHOOSE t \in track : \A u \in track \ {t} :
                 Distance(t, f) < Distance(u, f) \/ (Distance(t, f) = Distance(u, f) /\ t < u)

\* build_violation_payloads, what is known of the incident and where it is found.
Payload(r) ==
    [violationId |-> r.id, vehicleId |-> r.vehicle, type |-> r.type, keyFrame |-> r.key,
     carId |-> IF r.plate # None THEN r.plate ELSE <<"vehicle", r.vehicle>>,
     videoClip |-> clips[r.id],
     plateImage |-> IF r.id \in DOMAIN plates THEN plates[r.id] ELSE None,
     fix |-> fix_at(r.key),
     evidence |-> r.paths]

\* report_violation, one after the other. What a refusal means is in DriveQueue.
PostViolation == \E r \in bundle.records :
    /\ phase = "post" /\ Payload(r) \notin posted
    /\ posted' = posted \cup {Payload(r)}
    /\ UNCHANGED <<outcome, track, phase, attempt, files, bundle, clips, plates>>

Complete ==
    /\ phase = "post" /\ \A r \in bundle.records : Payload(r) \in posted
    /\ phase' = "done" /\ files' = Nothing
    /\ UNCHANGED <<outcome, track, attempt, bundle, clips, plates, posted>>

ShipFails ==
    /\ phase \in {"clips", "post"} /\ bundle.records # {}
    /\ phase' = "failed" /\ files' = Nothing
    /\ UNCHANGED <<outcome, track, attempt, bundle, clips, plates, posted>>

\* The worker dies; the drive is claimed again, on this host, where the next attempt finds the
\* job directory as it is, or on another. One that dies as it writes the bundle leaves a part.
Crash ==
    /\ phase \in {"export", "unpack", "clips", "plates", "post"} /\ attempt < MaxAttempts
    /\ attempt' = attempt + 1
    /\ phase' = "process" /\ outcome' = None
    /\ \/ UNCHANGED <<files, bundle>>
       \/ phase = "export" /\ bundle' = Torn /\ UNCHANGED files
       \/ files' = Nothing /\ bundle' = NoBundle
    /\ clips' = Nothing /\ plates' = Nothing /\ posted' = {}
    /\ UNCHANGED track

Next == Process \/ Export \/ Unpack \/ UnpackFails \/ UploadClips \/ UploadPlates
        \/ PostViolation \/ Complete \/ ShipFails \/ Crash

Spec == Init /\ [][Next]_vars

-----------------------------------------------------------------------------
Incident(p) == [vehicle |-> p.vehicleId, type |-> p.type, key |-> p.keyFrame]
Shows(file, p) == file.vehicle = p.vehicleId /\ file.type = p.type

\* What a record leads to is of its own incident: its clip, unless it is the head of the
\* video, is the clip of that key frame, its plate picture is of that vehicle, its car is
\* named by that vehicle's own plate or number, and while the drive's files are there every
\* path of its evidence is one of them and shows that vehicle. But for the clip, all of it was
\* made by one attempt, the one that wrote the bundle. The location is the nearest there is.
IncidentsTrue == \A p \in posted :
    /\ p.videoClip = HeadCut \/ (Shows(p.videoClip, p) /\ p.videoClip.frame = p.keyFrame)
    /\ p.plateImage # None =>
         /\ Shows(p.plateImage, p) /\ p.plateImage.what = "plate.png"
         /\ p.plateImage.made = bundle.made
    /\ p.carId \in {<<"plate", p.vehicleId, bundle.made>>, <<"vehicle", p.vehicleId>>}
    /\ phase = "post" => \A path \in p.evidence :
         path \in DOMAIN files /\ Shows(files[path], p) /\ files[path].made = bundle.made
    /\ (p.fix = None) = (track = {})
    /\ \A t \in track : Distance(p.fix, p.keyFrame) <= Distance(t, p.keyFrame)

\* A drive that is done has told of every record of one bundle; it is this attempt's, and has
\* all that it found, or, if it found nothing, what an attempt before left on this host.
ToldInFull == phase = "done" =>
    /\ {p.violationId : p \in posted} = Ids
    /\ IF found # {} THEN bundle.made = attempt /\ {Incident(p) : p \in posted} = found
                     ELSE bundle.made < attempt

RecordsTrue == IncidentsTrue /\ ToldInFull

\* Not true: a drive is reported with what the attempt that reports it has found.
ReportsThisAttempt == phase = "done" => {Incident(p) : p \in posted} = found
=============================================================================
