---------------------------- MODULE ReleaseContract ----------------------------
(***************************************************************************)
(* The offline release contract (src/ops/release_contract.py): a policy    *)
(* names the gates of a release, the gates leave artifacts, a report binds *)
(* them, and validate says whether the report is complete now.  Between a  *)
(* gate, the report and the assessment the Space may be redeployed, gates  *)
(* may be run again over their artifact, and time passes.                  *)
(***************************************************************************)
EXTENDS Naturals, FiniteSets

CONSTANTS
    Gates,      \* gates the policy requires
    Runtime,    \* those run in a RUNTIME_ENVIRONMENTS environment
    MaxAge,     \* max_age_seconds of a gate, in steps of the clock
    LastTime,   \* bound: the clock stops here
    MaxDeploys  \* bound: revisions of the Space

ContractAssumption ==
    /\ Runtime \subseteq Gates /\ Gates # {} /\ IsFiniteSet(Gates)
    /\ MaxAge \in [Gates -> Nat \ {0}] /\ {LastTime, MaxDeploys} \subseteq Nat

VARIABLES
    now,      \* the clock
    space,    \* the revision of the Space
    begun,    \* gates running: the time and the revision they began at
    files,    \* artifacts on disk
    report    \* the report written last

vars == <<now, space, begun, files, report>>

NotRun == [status |-> "none"]
NoHf == 0
NoReport == [captured |-> 0, until |-> 0, hf |-> NoHf, refs |-> {}]

Init ==
    /\ now = 0 /\ space = 1 /\ begun = [g \in Gates |-> NotRun]
    /\ files = [g \in Gates |-> NotRun] /\ report = NoReport

------------------------------------------------------------------------------
(* What produces the artifacts and the report: outside this repository's   *)
(* code, constrained only by the shape the contract asks for.              *)

NextInstant == now < LastTime /\ now' = now + 1 /\ UNCHANGED <<space, begun, files, report>>

Redeploy ==
    /\ space < MaxDeploys /\ space' = space + 1
    /\ UNCHANGED <<now, begun, files, report>>

BeginGate(g) ==
    /\ begun[g] = NotRun
    /\ begun' = [begun EXCEPT ![g] = [status |-> "running", at |-> now, hf |-> IF g \in Runtime THEN space ELSE NoHf]]
    /\ UNCHANGED <<now, space, files, report>>

\* The gate ends and its artifact replaces the one there was.
EndGate(g) ==
    /\ begun[g] # NotRun
    /\ \E s \in {"PASS", "FAIL"} :
          files' = [files EXCEPT ![g] = [status |-> s, gate |-> g, hf |-> begun[g].hf, started |-> begun[g].at, finished |-> now]]
    /\ begun' = [begun EXCEPT ![g] = NotRun]
    /\ UNCHANGED <<now, space, report>>

\* A report binds one artifact to each gate it names, by path and digest.
WriteReport ==
    /\ \E G \in SUBSET Gates, until \in now + 1 .. LastTime + 1, path \in [Gates -> Gates] :
          /\ \A g \in G : files[path[g]] # NotRun
          /\ report' = [captured |-> now, until |-> until, hf |-> space,
                        refs |-> {[gate |-> g, path |-> path[g], digest |-> files[path[g]]] : g \in G}]
    /\ UNCHANGED <<now, space, begun, files>>

------------------------------------------------------------------------------
(* validate.                                                               *)

\* The bytes read are those the report was written about.
Intact(ref) == files[ref.path] = ref.digest

\* Mutated form: an artifact of another revision of the Space is good enough.
SubjectAny(g, a) == a.gate = g /\ (g \notin Runtime => a.hf = NoHf)
\* The artifact is of this gate, and of the revision the report names.
Subject(g, a) == a.gate = g /\ a.hf = (IF g \in Runtime THEN report.hf ELSE NoHf)

\* Mutated form: a report may be valid longer than the gates it rests on.
TimelyOutlived(g, a, t) ==
    /\ a.started <= a.finished /\ a.finished <= report.captured
    /\ t < a.finished + MaxAge[g]
\* Begun and ended before the report was captured, fresh at t, and fresh for
\* as long as the report claims to be valid.
Timely(g, a, t) ==
    /\ a.started <= a.finished /\ a.finished <= report.captured
    /\ t < a.finished + MaxAge[g] /\ report.until <= a.finished + MaxAge[g]

Passed(a) == a.status = "PASS"

\* Mutated form: the gates named are looked at, whichever they are.
AllGatesNamed == report.refs # {}
\* As many references as the policy has gates, none twice.
AllGates == {ref.gate : ref \in report.refs} = Gates

\* CONTRACT_COMPLETE_UNVERIFIED at t, and HOLD otherwise; assessing changes nothing.
CompleteAt(t) ==
    /\ report.captured <= t /\ t < report.until
    /\ AllGates
    /\ \A ref \in report.refs :
          LET a == files[ref.path]
          IN  Intact(ref) /\ Subject(ref.gate, a) /\ Passed(a) /\ Timely(ref.gate, a, t)

Complete == CompleteAt(now)

Next ==
    \/ NextInstant \/ Redeploy \/ WriteReport
    \/ \E g \in Gates : BeginGate(g) \/ EndGate(g)

Spec == Init /\ [][Next]_vars

------------------------------------------------------------------------------

\* A report that is complete stays so until the moment it expires at: an
\* assessment cannot turn to HOLD in the validity the report claims because a
\* gate it rests on went stale.
CompleteUntilItExpires ==
    Complete => \A t \in now .. report.until - 1 : CompleteAt(t)

\* The gates of a complete report were all run on one revision of the Space,
\* the one the report was captured of, though it was redeployed between them.
OneRevisionOfTheSpace ==
    Complete => \A g \in Runtime : files[g].hf = report.hf

\* Every required gate passed, with nothing of it begun after the report: a
\* gate named twice, or another gate's artifact, does not stand in for it.
EveryGateStandsForItself ==
    Complete => \A g \in Gates : /\ files[g] # NotRun /\ files[g].status = "PASS"
                                 /\ files[g].finished <= report.captured

\* A report that is complete stays so until the moment it expires at; its gates were
\* all run on one revision of the Space, each passed before the report was written,
\* and none stands in for another.
CompleteReportsHold ==
    CompleteUntilItExpires /\ OneRevisionOfTheSpace /\ EveryGateStandsForItself

=============================================================================
