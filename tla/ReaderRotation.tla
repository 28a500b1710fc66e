---------------------------- MODULE ReaderRotation ----------------------------
(***************************************************************************)
(* Rotation of the credentials of the deployed Space, and the proof that   *)
(* the restarted Space reads the private dataset with them:                *)
(* .github/workflows/rotate-space-credentials.yml over                     *)
(* ops/dataset_reader_rotation.py and ops/frontier_live_canary.py, and the *)
(* read-only preflight of ops/dataset_reader_diagnostic.py.                *)
(*                                                                         *)
(* The job pins one dataset revision and binds its pointers, installs the  *)
(* secrets one by one and the generation of this run last, and then asks   *)
(* the Space until the answers carry that generation.  Each setting makes  *)
(* the platform restart the process; the stale one may go on answering.    *)
(* Meanwhile snapshots are published, caches fill and lapse, processes     *)
(* crash.  A failed attempt is run again under a generation of its own.    *)
(* A deployment uses the same concurrency group: never during an attempt.  *)
(***************************************************************************)
EXTENDS Naturals, Sequences, FiniteSets

CONSTANTS
    Lanes,            \* REQUIRED_LANES
    Order,            \* rotation_order, the secrets as they are installed
    Reader,           \* the dataset reader token among them
    LoginSecrets,     \* those a login is checked with
    Revisions,        \* source revisions a deployment may be of
    Target,           \* SOURCE_SHA, the one the job runs for
    Fresh,            \* SNAPSHOT_FRESHNESS_DAYS
    LastDay,          \* bound: the clock stops here
    MaxCommits,       \* bound: dataset commits
    MaxAttempts,      \* bound: runs of the job
    MaxTries,         \* the deadline of a polling loop, in tries
    RecordSets        \* sets of receipt states a board's records may have

NotRead == [commit |-> 0, asOf |-> 0]
Secrets == {Order[i] : i \in DOMAIN Order}

RotationAssumption ==
    /\ Order \in Seq(Secrets) /\ Reader \in Secrets /\ LoginSecrets \subseteq Secrets \ {Reader}
    /\ Target \in Revisions /\ {Fresh, LastDay, MaxAttempts} \subseteq Nat
    /\ MaxTries \in Nat \ {0} /\ MaxCommits \in Nat \ {0}

VARIABLES
    day,        \* the clock
    history,    \* the dataset: for each commit, what the latest pointers name
    settings,   \* secrets and variables of the Space
    restart,    \* whether a setting changed since the last process started
    procs,      \* processes that may answer, the oldest first
    job,        \* the rotation job: where it is and what it remembers
    evidence    \* the board, build and day the finished attempt rests on

vars == <<day, history, settings, restart, procs, job, evidence>>

Latest(h) == h[Len(h)]
Process(s) == [cfg |-> s, tokens |-> {}, cache |-> [l \in Lanes |-> NotRead]]
Unbound == [l \in Lanes |-> NotRead]
Idle == [pc |-> "idle", kind |-> "none", attempt |-> 0, rev |-> 0,
         expected |-> Unbound, installed |-> 0, tries |-> 0,
         session |-> <<>>, board |-> <<>>]

Init ==
    /\ day = 0 /\ history = <<[l \in Lanes |-> [commit |-> 1, asOf |-> 0]]>>
    /\ \E r \in Revisions, a \in Revisions :
          settings = [secrets |-> [s \in Secrets |-> "old"], gen |-> 0, rev |-> r, attested |-> a]
    /\ restart = FALSE /\ procs = <<Process(settings)>>
    /\ job = Idle /\ evidence = <<>>

------------------------------------------------------------------------------
(* The platform, the dataset and the Space around the job.                 *)

Running == job.pc \notin {"idle", "done", "failed"}

NextDay == day < LastDay /\ day' = day + 1 /\ UNCHANGED <<history, settings, restart, procs, job, evidence>>

\* A publisher moves the pointer of one lane to a snapshot of today.
Publish ==
    /\ Len(history) < MaxCommits
    /\ \E l \in Lanes :
          history' = Append(history, [Latest(history) EXCEPT ![l] = [commit |-> Len(history) + 1, asOf |-> day]])
    /\ UNCHANGED <<day, settings, restart, procs, job, evidence>>

\* A deployment sets the source revision, and its attestation if it got so far.
Deploy ==
    /\ ~Running
    /\ \E r \in Revisions \ {settings.rev}, a \in Revisions :
          /\ a \in {r, settings.attested}
          /\ settings' = [settings EXCEPT !.rev = r, !.attested = a]
    /\ restart' = TRUE /\ UNCHANGED <<day, history, procs, job, evidence>>

\* The successor starts with the settings of the moment.
Boot ==
    /\ restart /\ Len(procs) = 1
    /\ procs' = Append(procs, Process(settings)) /\ restart' = FALSE
    /\ UNCHANGED <<day, history, settings, job, evidence>>

Retire ==
    /\ Len(procs) = 2 /\ procs' = Tail(procs)
    /\ UNCHANGED <<day, history, settings, restart, job, evidence>>

\* A crashed process is started again, with an empty memory.
Crash ==
    /\ \E i \in DOMAIN procs : procs' = [procs EXCEPT ![i] = Process(settings)]
    /\ UNCHANGED <<day, history, settings, restart, job, evidence>>

\* A process reads the snapshot the lane's pointer names, if it is fresh; the
\* token a stale process holds may still be good.
Fetch ==
    /\ \E i \in DOMAIN procs, l \in Lanes :
          LET s == Latest(history)[l]
          IN  /\ procs[i].cache[l] = NotRead /\ day - s.asOf <= Fresh
              /\ procs' = [procs EXCEPT ![i].cache[l] = s]
    /\ UNCHANGED <<day, history, settings, restart, job, evidence>>

Lapse ==
    /\ \E i \in DOMAIN procs, l \in Lanes :
          /\ procs[i].cache[l] # NotRead
          /\ procs' = [procs EXCEPT ![i].cache[l] = NotRead]
    /\ UNCHANGED <<day, history, settings, restart, job, evidence>>

------------------------------------------------------------------------------
(* The job.  A request is answered by any process there is.                *)

Step(pc) == job.pc = pc /\ UNCHANGED <<day, history>>
Quiet == UNCHANGED <<settings, restart>>

\* Every call of an attempt may raise, and the run may be cancelled.
Fail ==
    /\ Running /\ job' = [job EXCEPT !.pc = "failed"]
    /\ UNCHANGED <<day, history, settings, restart, procs, evidence>>

\* Mutated form: the deadline is checked by nobody.
AgainForever(pc) == job' = [job EXCEPT !.pc = pc]
\* Mutated form: the deadline is checked after one try more.
AgainOnceMore(pc) ==
    job' = IF job.tries < MaxTries THEN [job EXCEPT !.pc = pc, !.tries = @ + 1] ELSE [job EXCEPT !.pc = "failed"]
\* A try that proved nothing; the loop gives up at its deadline.
Again(pc) ==
    job' = IF job.tries + 1 < MaxTries
           THEN [job EXCEPT !.pc = pc, !.tries = @ + 1]
           ELSE [job EXCEPT !.pc = "failed"]

\* The rotation, or the diagnosis that goes no further than its preflight.
Begin ==
    /\ ~Running /\ job.attempt < MaxAttempts
    /\ \E k \in {"rotate", "diagnose"} :
          job' = [Idle EXCEPT !.pc = "pin", !.kind = k, !.attempt = job.attempt + 1]
    /\ UNCHANGED <<day, history, settings, restart, procs, evidence>>

\* The token's role and the dataset's revision; the pointers' sizes are asked
\* of that revision and are as published.
Pin ==
    /\ Step("pin") /\ job' = [job EXCEPT !.pc = "pointers", !.rev = Len(history)]
    /\ Quiet /\ UNCHANGED <<procs, evidence>>

\* Mutated form: the pointer is downloaded from the head of the dataset.
PointerAtHead(l) == Latest(history)[l]
Pointer(l) == history[job.rev][l]

ReadPointer ==
    /\ Step("pointers")
    /\ \E l \in Lanes :
          /\ job.expected[l] = NotRead
          /\ job' = [job EXCEPT !.expected[l] = Pointer(l)]
    /\ Quiet /\ UNCHANGED <<procs, evidence>>

\* The pointer set is complete.
Bound ==
    /\ Step("pointers") /\ \A l \in Lanes : job.expected[l] # NotRead
    /\ job' = [job EXCEPT !.pc = IF job.kind = "rotate" THEN "install" ELSE "done"]
    /\ Quiet /\ UNCHANGED <<procs, evidence>>

InstallSecret ==
    /\ Step("install") /\ job.installed < Len(Order)
    /\ settings' = [settings EXCEPT !.secrets[Order[job.installed + 1]] = "new"]
    /\ job' = [job EXCEPT !.installed = @ + 1]
    /\ restart' = TRUE /\ UNCHANGED <<procs, evidence>>

\* Mutated form: the generation is set after the first secret.
GenerationDueEarly == job.installed = 1
\* The generation is the final mutation.
GenerationDue == job.installed = Len(Order)

SetGeneration ==
    /\ Step("install") /\ GenerationDue /\ settings.gen # job.attempt
    /\ settings' = [settings EXCEPT !.gen = job.attempt]
    /\ restart' = TRUE /\ UNCHANGED <<job, procs, evidence>>

Installed ==
    /\ Step("install") /\ settings.gen = job.attempt /\ job.installed = Len(Order)
    /\ job' = [job EXCEPT !.pc = "health"]
    /\ Quiet /\ UNCHANGED <<procs, evidence>>

\* healthz: the generation of the process that answers, if one does.
Health ==
    /\ Step("health")
    /\ \/ \E i \in DOMAIN procs : procs[i].cfg.gen = job.attempt /\ job' = [job EXCEPT !.pc = "login"]
       \/ Again("health")
    /\ Quiet /\ UNCHANGED <<procs, evidence>>

\* The login opens a session in the process that answers it, and counts when
\* that process has the generation.
Admits(p) == \A s \in LoginSecrets : p.cfg.secrets[s] = "new"
Login ==
    /\ Step("login")
    /\ \E i \in DOMAIN procs :
          IF Admits(procs[i])
          THEN LET token == <<job.attempt, job.tries>>
               IN  /\ procs' = [procs EXCEPT ![i].tokens = @ \cup {token}]
                   /\ IF procs[i].cfg.gen = job.attempt
                      THEN job' = [job EXCEPT !.pc = "logout", !.session = token]
                      ELSE Again("health")
          ELSE Again("health") /\ UNCHANGED procs
    /\ Quiet /\ UNCHANGED evidence

\* Mutated form: whoever answers the logout, the job goes on.
LogoutAnsweredAny(p) == TRUE
\* _auth: 401 where the session is unknown, and the job stops.
LogoutAnswered(p) == job.session \in p.tokens

Logout ==
    /\ Step("logout")
    /\ \E i \in DOMAIN procs :
          /\ procs' = [procs EXCEPT ![i].tokens = @ \ {job.session}]
          /\ job' = IF LogoutAnswered(procs[i])
                    THEN [job EXCEPT !.pc = "board", !.tries = 0] ELSE [job EXCEPT !.pc = "failed"]
    /\ Quiet /\ UNCHANGED evidence

\* The board of a process whose lanes are read; a busy process answers 429.
GetBoard ==
    /\ Step("board")
    /\ \/ \E i \in DOMAIN procs, rs \in RecordSets :
              job' = [job EXCEPT !.pc = "build", !.board = [cfg |-> procs[i].cfg, lanes |-> procs[i].cache, records |-> rs]]
       \/ Again("board")
    /\ Quiet /\ UNCHANGED <<procs, evidence>>

\* Mutated form: the age is not looked at.
SnapshotErrorsAnyAge(s) == IF s = NotRead THEN {"SNAPSHOT_METADATA_MISSING"} ELSE {}
\* _snapshot_contract: what the canary finds wrong with a lane's snapshot.
SnapshotErrors(s) ==
    {e \in {"SNAPSHOT_METADATA_MISSING", "SNAPSHOT_STALE", "SNAPSHOT_AS_OF_FUTURE"} :
        \/ e = "SNAPSHOT_METADATA_MISSING" /\ s = NotRead
        \/ e = "SNAPSHOT_STALE" /\ s # NotRead /\ day - s.asOf > Fresh
        \/ e = "SNAPSHOT_AS_OF_FUTURE" /\ s.asOf > day}

\* _record_contract: some records, every one with an honest receipt.
RecordContract(rs) == rs # {} /\ rs \subseteq {"SIGNED", "HASH_CHAINED_UNSIGNED"}

\* The revision the process observes, and the attestation of just that one.
SourceBound(b) == b.rev = Target
Attested(b) == b.attested = b.rev

\* Both answers carry the generation of this attempt.
GenerationBound(b) == job.board.cfg.gen = job.attempt /\ b.gen = job.attempt

\* evaluate, on the board remembered and the build information of process b.
Complete(b) ==
    /\ \A l \in Lanes : SnapshotErrors(job.board.lanes[l]) = {}
    /\ RecordContract(job.board.records)
    /\ SourceBound(b) /\ Attested(b) /\ GenerationBound(b)

\* validate_runtime_report: every lane serves the snapshot that was bound.
MatchesThePointers == job.board.lanes = job.expected

GetBuild ==
    /\ Step("build")
    /\ \/ \E i \in DOMAIN procs :
             /\ Complete(procs[i].cfg) /\ MatchesThePointers
             /\ job' = [job EXCEPT !.pc = "done"]
             /\ evidence' = <<[board |-> job.board, build |-> procs[i].cfg, day |-> day]>>
       \/ Again("board") /\ UNCHANGED evidence
    /\ Quiet /\ UNCHANGED procs

Attempt ==
    \/ Pin \/ ReadPointer \/ Bound \/ InstallSecret \/ SetGeneration \/ Installed
    \/ Health \/ Login \/ Logout \/ GetBoard \/ GetBuild

Next ==
    \/ NextDay \/ Publish \/ Deploy \/ Boot \/ Retire \/ Crash \/ Fetch \/ Lapse
    \/ Begin \/ Fail \/ Attempt

Spec == Init /\ [][Next]_vars /\ WF_vars(Attempt)

------------------------------------------------------------------------------

RotationTypeOK ==
    /\ day \in 0 .. LastDay /\ Len(history) \in 1 .. MaxCommits
    /\ settings.secrets \in [Secrets -> {"old", "new"}]
    /\ {settings.rev, settings.attested} \subseteq Revisions
    /\ settings.gen \in 0 .. MaxAttempts /\ Len(procs) \in {1, 2}
    /\ job.kind \in {"none", "rotate", "diagnose"} /\ job.installed \in 0 .. Len(Order)
    /\ job.tries \in 0 .. MaxTries - 1 /\ job.rev \in 0 .. Len(history)

Finished(kind) == job.pc = "done" /\ job.kind = kind

\* What a finished rotation rests on came from processes that had loaded every
\* replacement and the attested target revision: no stale process, no process
\* of an earlier attempt and none of a half-installed set stands in for it,
\* whichever process answered which request.
EvidenceIsFromTheSuccessor ==
    Finished("rotate") =>
        \A cfg \in {evidence[1].board.cfg, evidence[1].build} :
            /\ \A s \in Secrets : cfg.secrets[s] = "new"
            /\ cfg.gen = job.attempt /\ cfg.rev = Target /\ cfg.attested = Target

\* The snapshots the finished rotation saw served, and those a finished
\* diagnosis bound, are the pointers of one dataset revision, though the
\* pointers moved while they were read and while the Space restarted.
EvidenceIsOneRevision ==
    /\ Finished("rotate") => evidence[1].board.lanes \in {history[i] : i \in DOMAIN history}
    /\ job.pc = "done" => job.expected = history[job.rev]

\* No lane of the evidence was past the freshness limit when it was accepted,
\* however long the process that served it had it in its memory.
EvidenceWasFresh ==
    Finished("rotate") => \A l \in Lanes : evidence[1].day - evidence[1].board.lanes[l].asOf <= Fresh

\* A session the job reports as logged out is alive in no process, though the
\* logout may be answered by another process than the login was.
TheSessionIsGone ==
    job.pc \in {"board", "build"} \/ Finished("rotate") =>
        \A i \in DOMAIN procs : job.session \notin procs[i].tokens

\* What a finished rotation rests on came from processes that had loaded every
\* replacement and the target revision, from one dataset revision that was fresh;
\* and the session the job reports as logged out is alive in no process.
EvidenceIsTheSuccessors ==
    /\ RotationTypeOK /\ EvidenceIsFromTheSuccessor /\ TheSessionIsGone
    /\ EvidenceIsOneRevision /\ EvidenceWasFresh

\* Every attempt ends, also when a publication between the pin and the canary
\* makes the bound snapshots ones no process will ever serve again.
EveryAttemptEnds == [](Running => <>~Running)

=============================================================================
