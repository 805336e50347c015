---------------------------- MODULE JobExchange ----------------------------
(***************************************************************************)
(* main.py --job-payload: pull the clip the backend's job names, verify it    *)
(* against the fingerprint in the job, process it, rank what was found into   *)
(* one bundle, put that to the presigned URL and notify the backend           *)
(* (violations/ingest_client.py, video_integrity.py and export.py).           *)
(***************************************************************************)
EXTENDS Integers, Sequences, FiniteSets, SequencesExt

CONSTANTS
    MaxEvents, \* events the detectors find (a bound)
    Confs,     \* detector confidences, a set of numbers (a bound)
    Keys       \* key frames (a bound)

VARIABLES
    pc,        \* "pull", "verify", "process", "put", "notify", "done" or "dead"
    reference, \* the job's video_meta: which of its checks it carries
    copy,      \* what the download left on the disk
    found,     \* the events of the pipeline, in the order of the detectors
    manifest,  \* the violations of the bundle, in the order of the queue
    stored,    \* the object behind the presigned URL
    notified   \* what the backend was told is stored

vars == <<pc, reference, copy, found, manifest, stored, notified>>

\* What a transfer can make of the clip, and the checks that tell it from the original.
Copies == {"same", "reencoded", "trimmed", "scaled"}
Metas == [sha : BOOLEAN, count : BOOLEAN]

Types == {"SOLID_LINE_CROSSING", "SPEEDING", "WRONG_WAY", "YELLOW_LINE_RIGHT"}
Events == [type : Types, conf : Confs, key : Keys]
NoBundle == <<>>   \* an empty bundle is never built

Init ==
    /\ pc = "pull"
    /\ reference \in Metas
    /\ copy = "none"
    /\ found = <<>> /\ manifest = <<>>
    /\ stored = NoBundle /\ notified = NoBundle

-----------------------------------------------------------------------------
(* pull_job_video *)

\* Any transfer; an error status or a broken connection raises.
Download == \E c \in Copies :
    /\ pc = "pull"
    /\ copy' = c /\ pc' = "verify"
    /\ UNCHANGED <<reference, found, manifest, stored, notified>>

DownloadFails ==
    /\ pc = "pull"
    /\ pc' = "dead"
    /\ UNCHANGED <<reference, copy, found, manifest, stored, notified>>

\* validate_hop: the resolution always, the frame count and the bytes when the job has them.
Problems(c) ==
    {k \in {"scaled"} : c = k}
    \cup {k \in {"trimmed"} : c = k /\ reference.count}
    \cup {k \in Copies \ {"same"} : c = k /\ reference.sha}

Verify ==
    /\ pc = "verify"
    /\ pc' = IF Problems(copy) = {} THEN "process" ELSE "dead"
    /\ UNCHANGED <<reference, copy, found, manifest, stored, notified>>

-----------------------------------------------------------------------------
(* build_export *)

Tier(e) == CASE e.type = "SOLID_LINE_CROSSING" -> 0
             [] e.type = "SPEEDING" -> 1
             [] e.type = "YELLOW_LINE_RIGHT" -> 3
             [] OTHER -> 2

\* sort_key: the tier, then the confidence, except in the yellow tier; ties by key frame.
ByConfidence(d, e) ==                                                           \* mutant
    \/ Tier(d) < Tier(e)
    \/ Tier(d) = Tier(e) /\ (d.conf > e.conf \/ (d.conf = e.conf /\ d.key < e.key))
Before(d, e) ==
    \/ Tier(d) < Tier(e)
    \/ /\ Tier(d) = Tier(e)
       /\ IF Tier(d) = 3 THEN d.key < e.key
          ELSE d.conf > e.conf \/ (d.conf = e.conf /\ d.key < e.key)

\* list.sort: the events in an order in which none comes before an earlier one. Events
\* with one key are one event here.
Orders(events) == {p \in Bijection(DOMAIN events, DOMAIN events) :
    \A i, j \in DOMAIN events : i < j => ~Before(events[p[j]], events[p[i]])}
Sorted(events) == {[i \in DOMAIN events |-> events[p[i]]] : p \in Orders(events)}

\* process_video_with_models; nothing found is nothing exported.
Process ==
    /\ pc = "process"
    /\ \E events \in BoundedSeq(Events, MaxEvents) : \E queue \in Sorted(events) :
       /\ found' = events /\ manifest' = queue
       /\ pc' = IF events = <<>> THEN "done" ELSE "put"
    /\ UNCHANGED <<reference, copy, stored, notified>>

-----------------------------------------------------------------------------
(* upload_bundle_presigned *)

Put ==
    /\ pc = "put"
    /\ stored' = manifest /\ pc' = "notify"
    /\ UNCHANGED <<reference, copy, found, manifest, notified>>

SkipsNotify == "done"

\* A status that is no 2xx (an expired URL, say), or no connection at all.
PutFails ==
    /\ pc = "put"
    /\ pc' \in {SkipsNotify, "dead"}
    /\ UNCHANGED <<reference, copy, found, manifest, stored, notified>>

Notify == \E heard \in BOOLEAN :
    /\ pc = "notify"
    /\ notified' = IF heard THEN manifest ELSE notified
    /\ pc' \in IF heard THEN {"done"} ELSE {"done", "dead"}
    /\ UNCHANGED <<reference, copy, found, manifest, stored>>

Next == Download \/ DownloadFails \/ Verify \/ Process \/ Put \/ PutFails \/ Notify

Spec == Init /\ [][Next]_vars

-----------------------------------------------------------------------------
\* The GPU only works on a clip that the job's fingerprint cannot tell from the original:
\* one that was encoded again or cut on the way is caught whenever the job carries a hash.
AnalysesTheReference == pc \in {"process", "put", "notify"} /\ reference.sha => copy = "same"

\* The backend is never told of an object that is not there, or of another one.
NotifiedOfStored == notified # NoBundle => stored = notified

\* The review queue is ordered by the type of the violation before anything else, crossings
\* first, and the yellow-line violations at its end by time, whatever their confidence.
QueueOrder == \A i, j \in DOMAIN manifest : i < j =>
    LET d == manifest[i]  e == manifest[j] IN
    /\ Tier(d) <= Tier(e)
    /\ Tier(d) = Tier(e) => IF Tier(d) = 3 THEN d.key <= e.key ELSE d.conf >= e.conf

\* What the backend is told of is stored, comes from the clip the job named, and is
\* ordered the way the review queue shows it.
JobFaithful == AnalysesTheReference /\ NotifiedOfStored /\ QueueOrder
=============================================================================
