------------------------------ MODULE MCWorkflow ------------------------------
(***************************************************************************)
(* OperatorWorkflow for TLC, in three instances.  In "decisions" one       *)
(* operator takes every decision under one policy; in "policies" the file  *)
(* changes between two, the first of which ends while the second, and what *)
(* was admitted, still stands; in "duties" two operators share the work.   *)
(* A behaviour is about one of them: `instance` never changes.             *)
(***************************************************************************)
EXTENDS MCOperatorWorkflow

VARIABLE instance

Late == {2}
TwoPolicies == INSTANCE OperatorWorkflow WITH
    Expiries <- Late, MaxNodes <- 7, MaxEpoch <- 5

Early == {1}
Pair == {researcher, manager}
OnePolicy == {p2}
OneExpiry == [p \in OnePolicy |-> MaxTime + DecisionLife]
SplitPermits == [p \in OnePolicy |-> SplitActions]
PairAuthorities == [operator : Pair, policy : OnePolicy]
Duties == INSTANCE OperatorWorkflow WITH
    Operators <- Pair, Policies <- OnePolicy, PolicyExpires <- OneExpiry, Expiries <- Early,
    Permits <- SplitPermits, Authorities <- PairAuthorities, MaxTime <- 0

Init3 ==
    \/ instance = "policies" /\ WorkflowInit
    \/ instance = "decisions" /\ WorkflowInit /\ authorized = GrantedBy(p2)
    \/ instance = "duties" /\ Duties!WorkflowInit

Next3 ==
    /\ UNCHANGED instance
    /\ \/ instance = "policies" /\ TwoPolicies!WorkflowNext
       \/ instance = "decisions" /\ WorkflowNext /\ UNCHANGED authorized
       \/ instance = "duties" /\ Duties!WorkflowNext

Spec3 == Init3 /\ [][Next3]_<<vars, instance>>
=============================================================================
