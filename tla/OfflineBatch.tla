---------------------------- MODULE OfflineBatch ----------------------------
(***************************************************************************)
(* worker_offline.py: one process works through a folder of sessions, again   *)
(* and again over the days, with the models and the state of main.py living   *)
(* as long as the process, and every product in <session>/output.             *)
(***************************************************************************)
EXTENDS Naturals, FiniteSets

CONSTANTS
    Sessions,
    Viols,     \* violations a session's video may hold
    MaxBatches \* times the script is started (a bound)

VARIABLES
    batches,  \* times the script was started
    todo,     \* sessions of this batch still to process
    pc,       \* where process_session is; "idle" when no script runs, "next" between sessions
    session,  \* the session in hand
    crops,    \* whose crops the process's EvidenceCollector holds
    breaker,  \* the Overpass circuit breaker of the process is open
    found,    \* what the pipeline run in hand found
    bundle, loose, folder, listed, drive,  \* <session>/output, per session
    whole     \* sessions some run of which went through to its end

process == <<crops, breaker>>
output  == <<bundle, loose, folder, listed, drive>>
vars == <<batches, todo, pc, session, crops, breaker, found,
          bundle, loose, folder, listed, drive, whole>>

Nothing == "nothing"   \* a file that is not there

Init ==
    /\ batches = 0 /\ todo = {} /\ pc = "idle"
    /\ session \in Sessions
    /\ crops = {} /\ breaker = FALSE /\ found = {}
    /\ bundle = [s \in Sessions |-> {Nothing}]
    /\ loose = [s \in Sessions |-> {}]
    /\ folder = [s \in Sessions |-> {}]
    /\ listed = [s \in Sessions |-> {Nothing}]
    /\ drive = [s \in Sessions |-> Nothing]
    /\ whole = {}

-----------------------------------------------------------------------------
AnyDriveJson(s) == drive[s] # Nothing                                           \* mutant
AlreadyProcessed(s) == drive[s] = "processed"

\* main_cli: a new process, with fresh models; --force or not.
StartBatch == \E force \in BOOLEAN :
    /\ pc = "idle" /\ batches < MaxBatches
    /\ batches' = batches + 1
    /\ todo' = {s \in Sessions : force \/ ~AlreadyProcessed(s)}
    /\ crops' = {} /\ breaker' = FALSE
    /\ pc' = "next"
    /\ UNCHANGED <<session, found, output, whole>>

FreshCollector(s) == {}

\* attach_models and reset_speed_limit_lookup, before each session's pipeline.
Attach == \E s \in todo :
    /\ pc = "next"
    /\ session' = s /\ todo' = todo \ {s}
    /\ crops' = FreshCollector(s) /\ breaker' = FALSE
    /\ pc' = "pipeline"
    /\ UNCHANGED <<batches, found, output, whole>>

\* process_video_with_models: the crops of the session fill the collector, Overpass may
\* fail too often, clips are rendered one by one and a render may fail; the bundle is
\* written only when there is something to export.
Pipeline == \E viols \in SUBSET Viols : \E clips \in SUBSET viols, down \in BOOLEAN :
    /\ pc = "pipeline"
    /\ crops' = crops \cup {session} /\ breaker' = down
    /\ found' = viols
    /\ loose' = [loose EXCEPT ![session] = @ \cup clips]
    /\ bundle' = [bundle EXCEPT ![session] = IF viols = {} THEN @ ELSE viols]
    /\ pc' = "unpack"
    /\ UNCHANGED <<batches, todo, session, folder, listed, drive, whole>>

\* Anything in process_session raises: write_failure, then the next session.  Clips that
\* were rendered before the exception stay.
SessionFails == \E clips \in SUBSET Viols :
    /\ pc \in {"pipeline", "unpack", "write", "drive"}
    /\ IF pc = "pipeline"
       THEN /\ crops' = crops \cup {session}
            /\ loose' = [loose EXCEPT ![session] = @ \cup clips]
       ELSE clips = {} /\ UNCHANGED <<crops, loose>>
    /\ drive' = [drive EXCEPT ![session] = "failed"]
    /\ pc' = "next"
    /\ UNCHANGED <<batches, todo, session, breaker, found, bundle, folder, listed, whole>>

Written(s) == IF bundle[s] = {Nothing} THEN {} ELSE bundle[s]

\* unpack_bundle and move_clips: the manifest is what the bundle on disk holds.
Unpack ==
    /\ pc = "unpack"
    /\ LET moved == loose[session] \cap Written(session) IN
           /\ folder' = [folder EXCEPT ![session] = @ \cup moved]
           /\ loose' = [loose EXCEPT ![session] = @ \ moved]
    /\ pc' = "write"
    /\ UNCHANGED <<batches, todo, session, process, found, bundle, listed, drive, whole>>

\* violations.json; drive.json comes after it.
WriteViolations ==
    /\ pc = "write"
    /\ listed' = [listed EXCEPT ![session] = Written(session)]
    /\ pc' = "drive"
    /\ UNCHANGED <<batches, todo, session, process, found, bundle, loose, folder, drive, whole>>

WriteDrive ==
    /\ pc = "drive"
    /\ drive' = [drive EXCEPT ![session] = "processed"]
    /\ whole' = whole \cup {session}
    /\ pc' = "next"
    /\ UNCHANGED <<batches, todo, session, process, found, bundle, loose, folder, listed>>

EndBatch ==
    /\ pc = "next" /\ todo = {}
    /\ pc' = "idle"
    /\ UNCHANGED <<batches, todo, session, process, found, output, whole>>

\* The machine goes down, or the operator kills the script.
Kill ==
    /\ pc # "idle"
    /\ pc' = "idle" /\ todo' = {}
    /\ UNCHANGED <<batches, session, process, found, output, whole>>

Next == StartBatch \/ Attach \/ Pipeline \/ SessionFails \/ Unpack \/ WriteViolations
        \/ WriteDrive \/ EndBatch \/ Kill

Spec == Init /\ [][Next]_vars

-----------------------------------------------------------------------------
\* What a pipeline run starts from is fresh: the collector holds no other session's
\* crops, although its buffers are keyed by track ids that every video starts again at 1,
\* and an Overpass outage during an earlier session does not switch the limits off.
FreshPipeline == pc = "pipeline" => crops = {} /\ ~breaker

\* A session the next batch leaves out has been through a whole run, whatever failed or
\* was killed before.
SkippedOnlyWhole == \A s \in Sessions : AlreadyProcessed(s) => s \in whole

\* violations.json holds one record per finding of the run it comes from.
OneRecordPerFinding == pc = "drive" => listed[session] = found

\* Sessions of one process, and of later ones, do not touch each other: every run starts
\* fresh, and only a session some run finished is left out.
RunsApart == FreshPipeline /\ SkippedOnlyWhole
=============================================================================
