--------------------------- MODULE FederalCollection ---------------------------
(***************************************************************************)
(* The ECHO lane from the archive to the board, the scheduled collection   *)
(* of the other registries, the rotation of the reader's credentials, and  *)
(* the contract of the release that proves the lanes are read: four jobs   *)
(* of the same workflow directory, on files of their own, that share no    *)
(* variable.                                                               *)
(***************************************************************************)
EXTENDS Naturals

CONSTANTS
    Boards, Order, Reader, LoginSecrets, Sources, Target, RecordSets,  \* rotation
    FreshDays, LastDay, MaxPublications, MaxRotations, MaxTries,
    Gates, Runtime, MaxAge, LastInstant, MaxDeploys,                   \* release
    Rows, Targets, Window, FreshDate, NameMax, Floor, Take,            \* export
    Registries, Asked, Filings, Page, PerState, Attempts,              \* collection
    MaxRows, MaxDay, Absent

VARIABLES
    day, history, settings, restart, procs, rotation, evidence,
    instant, space, begunGates, artifacts, report,
    today, ingestion, staged, pointed, reading, displayed,
    date, job, answers, collected

Rotation == INSTANCE ReaderRotation WITH
    Lanes <- Boards, Revisions <- Sources, Fresh <- FreshDays,
    MaxCommits <- MaxPublications, MaxAttempts <- MaxRotations, job <- rotation

Release == INSTANCE ReleaseContract WITH
    LastTime <- LastInstant, now <- instant, begun <- begunGates, files <- artifacts

Export == INSTANCE EchoExport WITH
    FreshFor <- FreshDate, None <- Absent,
    day <- today, run <- ingestion, bundle <- staged, latest <- pointed, read <- reading,
    served <- displayed

Collection == INSTANCE FrontierCollection WITH
    Lanes <- Registries, Requested <- Asked, Rows <- Filings, None <- Absent,
    day <- date, bundle <- collected

rotationVars == <<day, history, settings, restart, procs, rotation, evidence>>
gateVars     == <<instant, space, begunGates, artifacts, report>>
echoVars     == <<today, ingestion, staged, pointed, reading, displayed>>
frontierVars == <<date, job, answers, collected>>

\* What a finished rotation rests on came from processes that had loaded every
\* replacement and the target revision, from one dataset revision that was fresh;
\* and the session the job reports as logged out is alive in no process
\* (rotate-space-credentials.yml, evaluate, validate_runtime_report).
EvidenceIsTheSuccessors == Rotation!EvidenceIsTheSuccessors

\* A report that is complete stays so until the moment it expires at; its gates were
\* all run on one revision of the Space, each passed before the report was written,
\* and none stands in for another (validate).
CompleteReportsHold == Release!CompleteReportsHold

\* From the archive to the board: an ingestion that reached its floor fails only when
\* the day changed while it ran; a published record is never rejected by the
\* runtime's verifier; nothing is served that names a person or is out of date; and
\* what is served are the first records that belong, none lost while streaming
\* (export_echo_snapshot.py, verify_snapshot.py, echo_snapshot.py).
LaneIsSound == Export!LaneIsSound

\* A bundle that is written covers every requested state with what the source last
\* answered for it, the best sponsors of each page among them; a capture the source
\* answered in full is refused only because it is empty, names one organization
\* twice, or took more than one midnight (collect_bundle, benefit_frontier.collect,
\* verify_bundle).
BundlesAreWhole ==
    /\ Collection!CollectionTypeOK
    /\ Collection!WrittenBundlesAreComplete
    /\ Collection!CompleteCapturesAreRefusedForACause
    /\ Collection!BestPlansArePublished
=============================================================================
