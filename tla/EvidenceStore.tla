----------------------------- MODULE EvidenceStore -----------------------------
(***************************************************************************)
(* The evidence ledger with what stands under and beside it: the row locks *)
(* that make each of its transactions one step, and the reference ledger   *)
(* on a graph of its own.  They share no variable with the ledger or with  *)
(* each other.                                                             *)
(***************************************************************************)
EXTENDS EvidenceReference

CONSTANTS
    LockTxns, LockGrants, CodeOrder, Collations,        \* LedgerLocks
    GraphIds, GraphContents, GraphExpiries, GraphTimes  \* ReferenceLedger

VARIABLES
    rowCollation, rowHolder, rowTx, rowItem, rowGranted, rowGone, rowRecalled,
    dag, events

Locks == INSTANCE LedgerLocks WITH
    Txns <- LockTxns, Grants <- LockGrants, collation <- rowCollation,
    holder <- rowHolder, tx <- rowTx, item <- rowItem, granted <- rowGranted,
    withdrawn <- rowGone, recalled <- rowRecalled

Graph == INSTANCE ReferenceLedger WITH
    Ids <- GraphIds, Contents <- GraphContents, Expiries <- GraphExpiries,
    Times <- GraphTimes

\* Whatever the order of revocations in the reference, and whoever reads it with
\* whatever clock: nothing stands on a revoked node, validity is inherited, and each
\* revocation has one event (append, revoke).
RevocationsAreWhole == Graph!RevocationsAreWhole

\* The row locks make transactions atomic and seldom in each other's way: no
\* admission slips between the scopes a withdrawal read and those it reaches, no two
\* transactions wait for each other where the database sorts scope names as Python
\* does, and where it does not a cycle has a withdrawal in it that meets a claim
\* (admit_observation, revoke_grant, claim_outbox).
LocksSuffice == Locks!LocksSuffice
=============================================================================
