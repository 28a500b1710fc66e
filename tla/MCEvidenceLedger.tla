--------------------------- MODULE MCEvidenceLedger ---------------------------
(***************************************************************************)
(* Instances of EvidenceLedger for TLC.                                    *)
(***************************************************************************)
EXTENDS EvidenceLedger, TLC

\* A source or an observation under a grant, clearances that rest on it, and their
\* tasks.
DispatchCites == [k \in {"grant", "observation", "source", "clearance", "manual_task"} |->
    CASE k = "observation" -> {"grant"}
      [] k = "clearance" -> {"source", "observation"}
      [] k = "manual_task" -> {"clearance"}
      [] OTHER -> {}]

\* Scopes, and workers, are interchangeable.
Symmetry == Permutations(Scopes) \cup Permutations(Workers)
=============================================================================
