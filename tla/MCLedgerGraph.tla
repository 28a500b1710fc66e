---------------------------- MODULE MCLedgerGraph ----------------------------
(***************************************************************************)
(* The evidence store for TLC: instances of the ledger without delivery,   *)
(* the reference ledger alone, and the row locks.  `instance` says which   *)
(* of them a behaviour is about; the others rest in their initial state.   *)
(***************************************************************************)
EXTENDS EvidenceStore, TLC

CONSTANTS s1, s2, m1, m2, m3

VARIABLE instance

lockVars == <<rowCollation, rowHolder, rowTx, rowItem, rowGranted, rowGone, rowRecalled>>
graphVars == <<dag, events>>

\* Grants, observations under them and briefs on observations; and clearances on
\* a source, with their tasks.
Evidence == {"grant", "observation", "brief"}
Decisions == {"source", "clearance", "manual_task"}
GraphCites == [k \in Evidence \cup Decisions |->
    CASE k = "observation" -> {"grant"} [] k = "brief" -> {"observation"}
      [] k = "clearance" -> {"source"} [] k = "manual_task" -> {"clearance"} [] OTHER -> {}]
EvidenceCites == [k \in Evidence |-> GraphCites[k]]
DecisionCites == [k \in Decisions |-> GraphCites[k]]

Lineage == INSTANCE EvidenceLedger WITH
    Kinds <- Evidence, Cites <- EvidenceCites, Authorities <- {},
    MaxNodes <- 4
Withdrawal == INSTANCE EvidenceLedger WITH
    Kinds <- Evidence, Cites <- EvidenceCites, Authorities <- {}, Expiries <- {1},
    MaxNodes <- 4, MaxEpoch <- 3, MaxTime <- 0
Tasks == INSTANCE EvidenceLedger WITH
    Kinds <- Decisions, Cites <- DecisionCites, Expiries <- {2},
    MaxEpoch <- 3, MaxTime <- 0

\* Scope names that Python and a locale sort differently, as "B" and "b"; the C
\* collation sorts them as Python does.
Code == [s \in {s1, s2} |-> IF s = s1 THEN 1 ELSE 2]
Locale == [s \in {s1, s2} |-> IF s = s2 THEN 1 ELSE 2]
Orders == {Code, Locale}

ASSUME Locks!LocksAssumption /\ Graph!TimesAssumption

\* Transactions, ids and nodes of the graph are interchangeable.
Symmetry == Permutations({m1, m2, m3})

-----------------------------------------------------------------------------
InOneScope == suppressed \subseteq {s1} /\ \A i \in DOMAIN node : node[i].scope = s1

LedgerNext ==
    \/ instance = "lineage" /\ Lineage!Next /\ InOneScope'
    \/ instance = "withdrawal" /\ Withdrawal!Next
    \/ instance = "tasks" /\ Tasks!Next /\ InOneScope'

Instances == {"lineage", "withdrawal", "tasks", "graph", "locks"}

GraphInit ==
    /\ instance \in Instances
    /\ Init
    /\ instance # "tasks" => authorized = {}
    /\ Graph!Init
    /\ Locks!Init
    /\ instance = "locks" \/ (rowItem = [s \in Scopes |-> "quiet"] /\ rowCollation = Code)

GraphNext ==
  /\ UNCHANGED instance
  /\ \/ LedgerNext /\ UNCHANGED <<graphVars, lockVars>>
     \/ instance = "graph" /\ Graph!Next /\ UNCHANGED <<ledgerVars, lockVars>>
     \/ instance = "locks" /\ Locks!Next /\ UNCHANGED <<ledgerVars, graphVars>>

GraphSpec == GraphInit /\ [][GraphNext]_<<instance, ledgerVars, graphVars, lockVars>>
=============================================================================
