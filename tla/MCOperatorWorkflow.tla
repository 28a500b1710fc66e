-------------------------- MODULE MCOperatorWorkflow --------------------------
(***************************************************************************)
(* Instances of OperatorWorkflow for TLC.                                  *)
(***************************************************************************)
EXTENDS OperatorWorkflow, TLC

CONSTANTS researcher, manager, p1, p2

\* The parents of a node are chosen by the operations.
WorkflowCites == [k \in WorkflowKinds |-> WorkflowKinds]

AllActions == {"admit", "brief", "review", "clearance", "manual_task", "correct", "suppress",
               "outcome"}

\* One operator does everything.
AllDuties == [p \in Policies |-> [o \in Operators |-> AllActions]]

\* The researcher works the case; the manager reviews, contradicts and corrects.
SplitActions == [o \in {researcher, manager} |->
    IF o = researcher THEN {"admit", "brief", "clearance", "manual_task", "outcome"}
                      ELSE {"review", "correct", "suppress"}]

\* Policies that outlive the instance.
LastingPolicies == [p \in Policies |-> MaxTime + DecisionLife]

\* The first policy ends while the second still runs.
UnevenPolicies == [p \in Policies |-> IF p = p1 THEN 1 ELSE MaxTime + DecisionLife]
=============================================================================
