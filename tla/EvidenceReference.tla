--------------------------- MODULE EvidenceReference ---------------------------
(***************************************************************************)
(* What the production ledger owes to the reference: "Implements the same  *)
(* Hold / revoke / verify contracts as the SQLite reference Ledger"        *)
(* (david_postgres.py:3).  The reference's graph and events are read off   *)
(* the tables of EvidenceLedger; scopes, epochs, suppressions, withdrawals *)
(* and the outbox are what production adds, and the reference does not     *)
(* see them.                                                               *)
(***************************************************************************)
EXTENDS EvidenceLedger

\* The graph of evidence_nodes and evidence_edges.
dagOf == [i \in DOMAIN node |-> [content |-> <<node[i].scope, node[i].kind, node[i].body>>,
                                 parents |-> node[i].parents, expires |-> node[i].expires,
                                 state |-> node[i].state]]

\* The outbox row written for each revoked node stands for the reference's event.
eventsOf == [i \in Ids |-> IF i \in DOMAIN node /\ node[i].state = "REVOKED" THEN 1 ELSE 0]

\* Each kind has bodies of its own: manual tasks come only from create_manual_task.
StoredBody(k) == IF k = "manual_task" THEN TaskBody ELSE BodyOf(k)

EvidenceContents == {c \in Scopes \X Kinds \X Body : c[3] \in StoredBody(c[2])}

Reference == INSTANCE ReferenceLedger
    WITH Contents <- EvidenceContents, dag <- dagOf, events <- eventsOf

\* Every transaction, admissions, withdrawals of a grant and suppressions of a
\* scope included, is a series of operations of the reference, or leaves what the
\* reference sees as it is (append, admit_observation, revoke, revoke_grant,
\* suppress, create_manual_task).
ImplementsTheReference == Reference!Spec
=============================================================================
