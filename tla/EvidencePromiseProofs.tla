------------------------- MODULE EvidencePromiseProofs -------------------------
(***************************************************************************)
(* What the ledger promises beyond its invariant, for every value of the   *)
(* constants: a withdrawn grant supports nothing; the kept lineage is what *)
(* the recursive query finds; the decision epoch orders the evidence of a  *)
(* scope and covers every change of it; and the outbox delivers at most    *)
(* once.                                                                   *)
(*                                                                         *)
(* Withdrawals.  By the ledger's invariant everything a valid node derives *)
(* from is stored valid, so it is enough that no grant stored valid is     *)
(* withdrawn.  That holds because both paths that store a grant read its   *)
(* tombstone, and a withdrawal revokes the grant's nodes in every scope.   *)
(*                                                                         *)
(* Epochs.  They only advance (ScopesOnlyClose), and a node's epoch is     *)
(* never ahead of its scope's; so the epoch a material node is given,      *)
(* which is one more than the scope had, is new.  Conversely, what a       *)
(* request revokes lies in the scopes whose epoch it advances.             *)
(*                                                                         *)
(* Deliveries.  Every step but the start of a dispatch is quiet: it moves  *)
(* each row by RowMove, which never starts an attempt and never returns    *)
(* one; so the outbox implements AtMostOnceDelivery, a sender holds the    *)
(* last fencing token, and a key names one task.                           *)
(*                                                                         *)
(* Dispatches.  A decision is cited only while its epoch is the scope's,   *)
(* decisions do not advance the epoch and only decisions cite decisions;   *)
(* so all the decisions a task rests on are of the epoch of the task.      *)
(*                                                                         *)
(* The reference.  Its walk finds the least set closed under the parents,  *)
(* which is the lineage the ledger keeps; so every transaction is a series *)
(* of the reference's operations.                                          *)
(***************************************************************************)
EXTENDS EvidenceLedgerProofs, WellFoundedInduction

-----------------------------------------------------------------------------
\* Withdrawn grants.

\* No grant that is stored valid has been withdrawn.
ValidGrantsStand ==
    \A i \in DOMAIN node :
        node[i].state = "VALID" /\ node[i].kind = "grant" => node[i].body \notin withdrawn

\* An insertion keeps it when a grant is inserted only while it stands.
LEMMA InsertionsKeepGrants ==
    ASSUME ValidGrantsStand, withdrawn' = withdrawn,
           \A i \in DOMAIN node' :
              \/ i \in DOMAIN node /\ node'[i] = node[i]
              \/ node'[i].kind = "grant" => node'[i].body \notin withdrawn
    PROVE  ValidGrantsStand'
BY DEF ValidGrantsStand

LEMMA AppendKeepsGrants ==
    ASSUME ValidGrantsStand, NEW c, NEW t, NEW expected, AppendEvidence(c, t, expected)
    PROVE  ValidGrantsStand'
<1> DEFINE k == NextId
           e == EpochAfter(c, epoch[c.scope])
<1>1. /\ node' = Inserted(node, k, c, e)
      /\ withdrawn' = withdrawn
      /\ c.kind = "grant" => c.body \notin withdrawn
  BY DEF AppendEvidence, GrantStands
<1> HIDE DEF k, e
<1>2. /\ node'[k].kind = c.kind /\ node'[k].body = c.body
      /\ \A i \in DOMAIN node' : i # k => i \in DOMAIN node /\ node'[i] = node[i]
  BY <1>1 DEF Inserted
<1> QED BY <1>1, <1>2, InsertionsKeepGrants

LEMMA AdmissionKeepsGrants ==
    ASSUME ValidGrantsStand, NEW g, NEW b, NEW s, NEW x, NEW t, NEW expected,
           AdmitWithNewGrant(g, [scope |-> s, kind |-> "observation", parents |-> {},
                                 expires |-> x, body |-> b], t, expected)
    PROVE  ValidGrantsStand'
<1> DEFINE k == NextId
           e == epoch[g.scope]
           c == [scope |-> s, kind |-> "observation", parents |-> {k},
                 expires |-> x, body |-> b]
           T == Inserted(node, k, g, e + 1)
<1>1. /\ node' = Inserted(T, k + 1, c, e + 2)
      /\ withdrawn' = withdrawn
      /\ g.kind = "grant" => g.body \notin withdrawn
  BY DEF AdmitWithNewGrant, GrantStands
<1>2. c.kind # "grant"
  OBVIOUS
<1> HIDE DEF c
<1>3. /\ T[k].kind = g.kind /\ T[k].body = g.body
      /\ DOMAIN T = DOMAIN node \cup {k}
      /\ \A i \in DOMAIN T : i # k => i \in DOMAIN node /\ T[i] = node[i]
  BY DEF Inserted
<1> HIDE DEF T, k, e
<1>4. /\ node'[k + 1].kind = c.kind
      /\ \A i \in DOMAIN node' : i # k + 1 => i \in DOMAIN T /\ node'[i] = T[i]
  BY <1>1 DEF Inserted
<1>5. ASSUME NEW i \in DOMAIN node'
      PROVE  \/ i \in DOMAIN node /\ node'[i] = node[i]
             \/ node'[i].kind = "grant" => node'[i].body \notin withdrawn
  <2>1. CASE i = k + 1
    BY <1>2, <1>4, <2>1
  <2>2. CASE i # k + 1 /\ i = k
    BY <1>1, <1>3, <1>4, <2>2
  <2>3. CASE i # k + 1 /\ i # k
    BY <1>3, <1>4, <2>3
  <2> QED BY <2>1, <2>2, <2>3
<1> QED BY <1>1, <1>5, InsertionsKeepGrants

LEMMA RevocationKeepsGrants ==
    ASSUME LedgerInv, ValidGrantsStand, NEW R, node' = Revoked(R), withdrawn' = withdrawn
    PROVE  ValidGrantsStand'
<1>1. \A i \in DOMAIN node' :
        /\ i \in DOMAIN node
        /\ node'[i].state = "VALID" => node[i].state = "VALID"
        /\ node'[i].kind = node[i].kind /\ node'[i].body = node[i].body
  BY DEF Revoked, LedgerInv, TypeOK, Node
<1> QED BY <1>1 DEF ValidGrantsStand

LEMMA WithdrawalKeepsGrants ==
    ASSUME LedgerInv, ValidGrantsStand, NEW key, RevokeGrant(key)
    PROVE  ValidGrantsStand'
<1> DEFINE G == GrantNodes(key)
<1>1. node' = Revoked(Reached(G)) /\ withdrawn' = withdrawn \cup {key}
  BY DEF RevokeGrant
<1>2. \A i \in G : node[i].state = "VALID" => i \in Reached(G)
  BY DEF Reached, Descendants, GrantNodes, LedgerInv, Derived
<1>3. \A i \in DOMAIN node : node[i].kind = "grant" /\ node[i].body = key => i \in G
  BY DEF GrantNodes
<1> HIDE DEF G
<1>4. \A i \in DOMAIN node' :
        /\ i \in DOMAIN node
        /\ node'[i].state = "VALID" => i \notin Reached(G) /\ node[i].state = "VALID"
        /\ node'[i].kind = node[i].kind /\ node'[i].body = node[i].body
  BY <1>1 DEF Revoked, LedgerInv, TypeOK, Node
<1> QED BY <1>1, <1>2, <1>3, <1>4 DEF ValidGrantsStand

LEMMA TaskKeepsGrants ==
    ASSUME ValidGrantsStand, NEW s, NEW cl, NEW b, NEW x, NEW t, NEW expected,
           CreateManualTask(s, cl, b, x, t, expected)
    PROVE  ValidGrantsStand'
<1> DEFINE k == NextId
           c == [scope |-> s, kind |-> "manual_task", parents |-> {cl},
                 expires |-> x, body |-> b]
<1>1. /\ node' = Inserted(node, k, c, epoch[s])
      /\ withdrawn' = withdrawn
  BY DEF CreateManualTask
<1>2. c.kind # "grant"
  OBVIOUS
<1> HIDE DEF k, c
<1>3. /\ node'[k].kind = c.kind
      /\ \A i \in DOMAIN node' : i # k => i \in DOMAIN node /\ node'[i] = node[i]
  BY <1>1 DEF Inserted
<1> QED BY <1>1, <1>2, <1>3, InsertionsKeepGrants

LEMMA GrantsNext ==
    ASSUME LedgerInv, ValidGrantsStand, [Transaction]_ledgerVars
    PROVE  ValidGrantsStand'
<1>1. CASE AnyAppend
  BY <1>1, AppendKeepsGrants DEF AnyAppend
<1>2. CASE AnyAdmission
  <2>1. PICK s \in Scopes, key \in GrantKeys, b \in Bodies, gx \in Nat, ox \in Nat,
             t \in Times, expected \in Expectations :
          AdmitObservation(
            [scope |-> s, kind |-> "grant", parents |-> {}, expires |-> gx, body |-> key],
            [scope |-> s, kind |-> "observation", parents |-> {}, expires |-> ox, body |-> b],
            t, expected)
    BY <1>2 DEF AnyAdmission
  <2> QED
    BY <2>1, AppendKeepsGrants, AdmissionKeepsGrants DEF AdmitObservation, AdmitUnderStoredGrant
<1>3. CASE AnyRevocation
  <2>1. ASSUME NEW i, NEW expected, Revoke(i, expected) PROVE ValidGrantsStand'
    BY <2>1, RevocationKeepsGrants DEF Revoke
  <2>2. ASSUME NEW s, NEW expected, Suppress(s, expected) PROVE ValidGrantsStand'
    BY <2>2, RevocationKeepsGrants DEF Suppress
  <2> QED BY <1>3, <2>1, <2>2, WithdrawalKeepsGrants DEF AnyRevocation
<1>4. CASE AnyTask
  BY <1>4, TaskKeepsGrants DEF AnyTask
<1>5. CASE Work \/ Tick \/ (\E granted \in SUBSET Authorities : ChangePolicy(granted))
           \/ UNCHANGED ledgerVars
  <2>1. UNCHANGED <<node, withdrawn>>
    BY <1>5 DEF Work, ClaimOutbox, BeginDispatch, FinalizeDispatch, WorkerStops, Tick,
                ChangePolicy, ledgerVars
  <2> QED BY <2>1 DEF ValidGrantsStand
<1> QED BY <1>1, <1>2, <1>3, <1>4, <1>5 DEF Transaction

\* A withdrawn grant supports no valid evidence in any scope, the scopes first
\* seen after the withdrawal included (revoke_grant).
THEOREM WithdrawalIsComplete == Spec => []WithdrawnGrantsSupportNothing
<1>1. Init => ValidGrantsStand
  BY DEF Init, ValidGrantsStand
<1>2. LedgerInv /\ ValidGrantsStand /\ [Next]_ledgerVars => ValidGrantsStand'
  BY NextIsTransaction, GrantsNext
<1>3. LedgerInv /\ ValidGrantsStand => WithdrawnGrantsSupportNothing
  BY DEF LedgerInv, Derived, ValidGrantsStand, WithdrawnGrantsSupportNothing, Ancestors
<1> QED BY <1>1, <1>2, <1>3, LedgerInvariant, PTL DEF Spec
-----------------------------------------------------------------------------
(***************************************************************************)
(* The lineage is the walk.  By the ledger's invariant a lineage is closed *)
(* under parents; it remains that it is the least such set, which every    *)
(* insertion keeps because a child is stored after its parents.            *)
(***************************************************************************)
ClosedUnder(T, S) == \A k \in S : T[k].parents \subseteq S

\* No set that holds a node and is closed under parents is smaller.
LineagesAreLeast(T) ==
    \A i \in DOMAIN T : \A S \in SUBSET DOMAIN T :
        i \in S /\ ClosedUnder(T, S) => T[i].lineage \subseteq S

LEMMA InsertionKeepsLeast ==
    ASSUME NEW T, NEW k, k \notin DOMAIN T, NEW c, NEW e, c.parents \subseteq DOMAIN T,
           \A i \in DOMAIN T : T[i].parents \subseteq DOMAIN T,
           LineagesAreLeast(T)
    PROVE  LET U == Inserted(T, k, c, e)
           IN  /\ LineagesAreLeast(U)
               /\ DOMAIN U = DOMAIN T \cup {k}
               /\ \A i \in DOMAIN U : U[i].parents \subseteq DOMAIN U
<1> DEFINE U == Inserted(T, k, c, e)
<1>1. /\ DOMAIN U = DOMAIN T \cup {k}
      /\ \A i \in DOMAIN T : U[i] = T[i]
      /\ U[k].parents = c.parents
      /\ U[k].lineage = {k} \cup UNION {T[p].lineage : p \in c.parents}
  BY DEF Inserted
<1> HIDE DEF U
<1>2. ASSUME NEW S \in SUBSET DOMAIN U, ClosedUnder(U, S), NEW i \in DOMAIN T, i \in S
      PROVE  T[i].lineage \subseteq S
  <2>1. ClosedUnder(T, S \cap DOMAIN T)
    BY <1>1, <1>2 DEF ClosedUnder
  <2> QED BY <1>2, <2>1 DEF LineagesAreLeast
<1>3. ASSUME NEW S \in SUBSET DOMAIN U, ClosedUnder(U, S), k \in S
      PROVE  U[k].lineage \subseteq S
  <2>1. \A p \in c.parents : p \in S /\ p \in DOMAIN T
    BY <1>1, <1>3 DEF ClosedUnder
  <2>2. \A p \in c.parents : T[p].lineage \subseteq S
    BY <1>2, <1>3, <2>1
  <2> QED BY <1>1, <1>3, <2>2
<1>4. LineagesAreLeast(U)
  BY <1>1, <1>2, <1>3 DEF LineagesAreLeast
<1>5. \A i \in DOMAIN U : U[i].parents \subseteq DOMAIN U
  BY <1>1
<1> QED BY <1>1, <1>4, <1>5 DEF U

\* The table after an admission with a new grant: two insertions.
LEMMA AdmittedNodes ==
    ASSUME NEW g, NEW b, NEW s, NEW x, NEW t, NEW expected,
           AdmitWithNewGrant(g, [scope |-> s, kind |-> "observation", parents |-> {},
                                 expires |-> x, body |-> b], t, expected)
    PROVE  node' = Inserted(Inserted(node, NextId, g, epoch[g.scope] + 1), NextId + 1,
                            [scope |-> s, kind |-> "observation", parents |-> {NextId},
                             expires |-> x, body |-> b], epoch[g.scope] + 2)
<1> DEFINE k == NextId
           c == [scope |-> s, kind |-> "observation", parents |-> {k},
                 expires |-> x, body |-> b]
<1>1. node' = Inserted(Inserted(node, k, g, epoch[g.scope] + 1), k + 1, c,
                       epoch[g.scope] + 2)
  BY DEF AdmitWithNewGrant
<1> QED BY <1>1

LEMMA LeastNext ==
    ASSUME LedgerInv, LineagesAreLeast(node), [Transaction]_ledgerVars
    PROVE  LineagesAreLeast(node')
<1>1. PICK n \in 0..MaxNodes : DOMAIN node = 1..n
  BY DEF LedgerInv, Consecutive
<1>2. n \in Nat /\ NextId = n + 1
  BY <1>1, FreshId, BoundsAssumption
<1>3. NextId \notin DOMAIN node /\ NextId + 1 \notin DOMAIN node \cup {NextId}
  BY <1>1, <1>2
<1>4. \A i \in DOMAIN node : node[i].parents \subseteq DOMAIN node
  BY DEF LedgerInv, Derived
<1>5. ASSUME NEW c, NEW t, NEW expected, AppendEvidence(c, t, expected)
      PROVE  LineagesAreLeast(node')
  <2>1. c.parents \subseteq DOMAIN node
    BY <1>5 DEF AppendEvidence, Supported, Valid, StateOf
  <2> QED BY <1>3, <1>4, <1>5, <2>1, InsertionKeepsLeast DEF AppendEvidence
<1>6. ASSUME NEW g, NEW s, NEW b, NEW x, NEW t, NEW expected, g.parents = {},
             AdmitWithNewGrant(g, [scope |-> s, kind |-> "observation", parents |-> {},
                                   expires |-> x, body |-> b], t, expected)
      PROVE  LineagesAreLeast(node')
  <2> DEFINE k == NextId
             e == epoch[g.scope]
             c == [scope |-> s, kind |-> "observation", parents |-> {k},
                   expires |-> x, body |-> b]
             T == Inserted(node, k, g, e + 1)
  <2>1. node' = Inserted(T, k + 1, c, e + 2)
    BY <1>6, AdmittedNodes
  <2>2. /\ LineagesAreLeast(T)
        /\ DOMAIN T = DOMAIN node \cup {k}
        /\ \A i \in DOMAIN T : T[i].parents \subseteq DOMAIN T
    BY <1>3, <1>4, <1>6, InsertionKeepsLeast
  <2>3. c.parents \subseteq DOMAIN T /\ k + 1 \notin DOMAIN T
    BY <1>3, <2>2
  <2> HIDE DEF T, c, k, e
  <2>4. LineagesAreLeast(Inserted(T, k + 1, c, e + 2))
    BY <2>2, <2>3, InsertionKeepsLeast
  <2> QED BY <2>1, <2>4
<1>7. ASSUME NEW s, NEW cl, NEW b, NEW x, NEW t, NEW expected,
             CreateManualTask(s, cl, b, x, t, expected)
      PROVE  LineagesAreLeast(node')
  <2> DEFINE c == [scope |-> s, kind |-> "manual_task", parents |-> {cl},
                   expires |-> x, body |-> b]
  <2>1. Supported(c, t) /\ node' = Inserted(node, NextId, c, epoch[s])
    BY <1>7 DEF CreateManualTask
  <2>2. c.parents \subseteq DOMAIN node
    BY <2>1 DEF Supported, Valid, StateOf
  <2> HIDE DEF c
  <2> QED BY <1>3, <1>4, <2>1, <2>2, InsertionKeepsLeast
<1>8. ASSUME NEW R, node' = Revoked(R) PROVE LineagesAreLeast(node')
  <2>1. DOMAIN node' = DOMAIN node
    BY <1>8 DEF Revoked
  <2>2. \A i \in DOMAIN node : /\ node'[i].lineage = node[i].lineage
                               /\ node'[i].parents = node[i].parents
    BY <1>8 DEF Revoked, LedgerInv, TypeOK, Node
  <2> QED BY <2>1, <2>2 DEF LineagesAreLeast, ClosedUnder
<1>9. CASE AnyAppend
  BY <1>5, <1>9 DEF AnyAppend
<1>10. CASE AnyAdmission
  <2>1. PICK s \in Scopes, key \in GrantKeys, b \in Bodies, gx \in Nat, ox \in Nat,
             t \in Times, expected \in Expectations :
          AdmitObservation(
            [scope |-> s, kind |-> "grant", parents |-> {}, expires |-> gx, body |-> key],
            [scope |-> s, kind |-> "observation", parents |-> {}, expires |-> ox, body |-> b],
            t, expected)
    BY <1>10 DEF AnyAdmission
  <2> DEFINE g == [scope |-> s, kind |-> "grant", parents |-> {}, expires |-> gx, body |-> key]
  <2>2. g.parents = {} OBVIOUS
  <2> HIDE DEF g
  <2> QED BY <1>5, <1>6, <2>1, <2>2 DEF AdmitObservation, AdmitUnderStoredGrant, g
<1>11. CASE AnyRevocation
  BY <1>8, <1>11 DEF AnyRevocation, Revoke, RevokeGrant, Suppress
<1>12. CASE AnyTask
  BY <1>7, <1>12 DEF AnyTask
<1>13. CASE Work \/ Tick \/ (\E granted \in SUBSET Authorities : ChangePolicy(granted))
            \/ UNCHANGED ledgerVars
  <2>1. UNCHANGED node
    BY <1>13 DEF Work, ClaimOutbox, BeginDispatch, FinalizeDispatch, WorkerStops, Tick,
                 ChangePolicy, ledgerVars
  <2> QED BY <2>1
<1> QED BY <1>9, <1>10, <1>11, <1>12, <1>13 DEF Transaction

\* The lineage kept with a node is the least set that holds the node and the
\* parents of its members: what the recursive query over evidence_edges finds
\* (revoke, state), for any graph.
THEOREM LineageIsTheQuery == Spec => []LineageIsTheWalk
<1>1. Init => LineagesAreLeast(node)
  BY DEF Init, LineagesAreLeast
<1>2. LedgerInv /\ LineagesAreLeast(node) /\ [Next]_ledgerVars => LineagesAreLeast(node)'
  BY NextIsTransaction, LeastNext
<1>3. LedgerInv /\ LineagesAreLeast(node) => LineageIsTheWalk
  <2> SUFFICES ASSUME LedgerInv, LineagesAreLeast(node), NEW i \in DOMAIN node
               PROVE  LET Closures == {S \in SUBSET DOMAIN node :
                                         i \in S /\ \A k \in S : node[k].parents \subseteq S}
                      IN  node[i].lineage = {j \in DOMAIN node : \A S \in Closures : j \in S}
    BY DEF LineageIsTheWalk
  <2>1. /\ i \in node[i].lineage /\ node[i].lineage \subseteq DOMAIN node
        /\ \A k \in node[i].lineage : node[k].parents \subseteq node[i].lineage
    BY DEF LedgerInv, Derived
  <2>2. \A S \in SUBSET DOMAIN node :
          i \in S /\ (\A k \in S : node[k].parents \subseteq S) => node[i].lineage \subseteq S
    BY DEF LineagesAreLeast, ClosedUnder
  <2> QED BY <2>1, <2>2
<1> QED BY <1>1, <1>2, <1>3, LedgerInvariant, PTL DEF Spec

\* Nothing valid rests on evidence that was corrected, whose grant was withdrawn,
\* whose scope was suppressed, that expired, or that belongs to another scope
\* (revoke, revoke_grant, suppress, _append_locked).
THEOREM EvidenceAlwaysStands == Spec => []EvidenceStands
BY CorrectionsReachDescendants, LineageIsBounded, WithdrawalIsComplete,
   SuppressionIsComplete, LineageHasOneScope, PTL DEF EvidenceStands

-----------------------------------------------------------------------------
\* Epochs.

\* No node is ahead of its scope.
EpochsAreReached ==
    \A i \in DOMAIN node : node[i].epoch <= epoch[node[i].scope]

EpochInv == EpochsAreReached /\ MaterialEpochsAreDistinct

LEMMA NaturalEpochs ==
    ASSUME LedgerInv
    PROVE  /\ \A s \in Scopes : epoch[s] \in Nat
           /\ \A i \in DOMAIN node : node[i].epoch \in Nat /\ node[i].scope \in Scopes
BY BoundsAssumption DEF LedgerInv, TypeOK, Node

-----------------------------------------------------------------------------
\* Material epochs.

\* Insertion of one node, as the last of its scope or, if it is not material, at
\* the epoch the scope has.
LEMMA InsertionKeepsEpochs ==
    ASSUME LedgerInv, EpochInv, NEW k, k \notin DOMAIN node, NEW c, NEW e \in Nat,
           c.scope \in Scopes, node' = Inserted(node, k, c, e),
           epoch' = [epoch EXCEPT ![c.scope] = e],
           e >= epoch[c.scope],
           c.kind \in MaterialKinds => e > epoch[c.scope]
    PROVE  EpochInv'
<1>1. /\ DOMAIN node' = DOMAIN node \cup {k}
      /\ \A i \in DOMAIN node : node'[i] = node[i]
      /\ node'[k].scope = c.scope /\ node'[k].kind = c.kind /\ node'[k].epoch = e
  BY DEF Inserted
<1>2. /\ epoch'[c.scope] = e
      /\ \A s \in Scopes : s # c.scope => epoch'[s] = epoch[s]
  BY DEF LedgerInv, TypeOK
<1>3. \A i \in DOMAIN node : node[i].scope = c.scope => node[i].epoch <= epoch[c.scope]
  BY DEF EpochInv, EpochsAreReached
<1>4. EpochsAreReached'
  BY <1>1, <1>2, <1>3, NaturalEpochs DEF EpochInv, EpochsAreReached
<1>5. ASSUME NEW i \in DOMAIN node', NEW j \in DOMAIN node', i # j,
             node'[i].scope = node'[j].scope,
             node'[i].kind \in MaterialKinds, node'[j].kind \in MaterialKinds
      PROVE  node'[i].epoch # node'[j].epoch
  <2>1. CASE i \in DOMAIN node /\ j \in DOMAIN node
    BY <1>1, <1>5, <2>1 DEF EpochInv, MaterialEpochsAreDistinct
  <2>2. CASE i = k /\ j \in DOMAIN node
    BY <1>1, <1>3, <1>5, <2>2, NaturalEpochs
  <2>3. CASE j = k /\ i \in DOMAIN node
    BY <1>1, <1>3, <1>5, <2>3, NaturalEpochs
  <2> QED BY <1>1, <1>5, <2>1, <2>2, <2>3
<1> QED BY <1>4, <1>5 DEF EpochInv, MaterialEpochsAreDistinct

LEMMA FreshIds ==
    ASSUME LedgerInv
    PROVE  NextId \in Nat /\ NextId \notin DOMAIN node /\ NextId + 1 \notin DOMAIN node
<1>1. PICK n \in 0..MaxNodes : DOMAIN node = 1..n
  BY DEF LedgerInv, Consecutive
<1>2. n \in Nat /\ NextId = n + 1
  BY <1>1, FreshId, BoundsAssumption
<1> QED BY <1>1, <1>2

LEMMA AppendKeepsEpochs ==
    ASSUME LedgerInv, EpochInv, NEW c, c.scope \in Scopes, NEW t, NEW expected,
           AppendEvidence(c, t, expected)
    PROVE  EpochInv'
<1> DEFINE e == EpochAfter(c, epoch[c.scope])
<1>1. /\ e \in Nat /\ e >= epoch[c.scope]
      /\ c.kind \in MaterialKinds => e > epoch[c.scope]
  BY NaturalEpochs DEF EpochAfter
<1>2. /\ node' = Inserted(node, NextId, c, e)
      /\ epoch' = [epoch EXCEPT ![c.scope] = e]
  BY DEF AppendEvidence
<1> HIDE DEF e
<1> QED BY <1>1, <1>2, FreshIds, InsertionKeepsEpochs

LEMMA AdmissionKeepsEpochs ==
    ASSUME LedgerInv, EpochInv, NEW s \in Scopes, NEW g, g.scope = s, NEW x, NEW b,
           NEW t, NEW expected,
           AdmitWithNewGrant(g, [scope |-> s, kind |-> "observation", parents |-> {},
                                 expires |-> x, body |-> b], t, expected)
    PROVE  EpochInv'
<1> DEFINE k == NextId
           e == epoch[s]
           c == [scope |-> s, kind |-> "observation", parents |-> {k},
                 expires |-> x, body |-> b]
           T == Inserted(node, k, g, e + 1)
<1>1. /\ node' = Inserted(T, k + 1, c, e + 2)
      /\ epoch' = [epoch EXCEPT ![s] = @ + 2]
  BY DEF AdmitWithNewGrant
<1>2. k \in Nat /\ k \notin DOMAIN node /\ k + 1 \notin DOMAIN node /\ k # k + 1
  BY FreshIds
<1>3. e \in Nat /\ s \in Scopes /\ c.scope = s
  BY NaturalEpochs
<1> HIDE DEF k, c
<1>4. /\ DOMAIN T = DOMAIN node \cup {k}
      /\ \A i \in DOMAIN node : T[i] = node[i]
      /\ T[k].scope = s /\ T[k].epoch = e + 1
  BY <1>2 DEF Inserted
<1> HIDE DEF T
<1>5. /\ DOMAIN node' = DOMAIN T \cup {k + 1}
      /\ \A i \in DOMAIN T : i # k + 1 => node'[i] = T[i]
      /\ node'[k + 1].epoch = e + 2 /\ node'[k + 1].scope = s
  BY <1>1, <1>3 DEF Inserted
<1>6. epoch'[s] = e + 2 /\ \A r \in Scopes : r # s => epoch'[r] = epoch[r]
  BY <1>1, <1>3 DEF LedgerInv, TypeOK
<1> HIDE DEF e
<1>7. /\ DOMAIN node' = DOMAIN node \cup {k, k + 1}
      /\ \A i \in DOMAIN node : node'[i] = node[i]
      /\ node'[k].scope = s /\ node'[k].epoch = e + 1
      /\ node'[k + 1].scope = s /\ node'[k + 1].epoch = e + 2
  BY <1>2, <1>4, <1>5
<1>8. \A i \in DOMAIN node : node[i].scope = s => node[i].epoch <= e
  BY DEF EpochInv, EpochsAreReached, e
<1>9. EpochsAreReached'
  <2> SUFFICES ASSUME NEW i \in DOMAIN node' PROVE node'[i].epoch <= epoch'[node'[i].scope]
    BY DEF EpochsAreReached
  <2>1. CASE i \in DOMAIN node /\ node[i].scope = s
    BY <1>3, <1>6, <1>7, <1>8, <2>1, NaturalEpochs
  <2>2. CASE i \in DOMAIN node /\ node[i].scope # s
    BY <1>6, <1>7, <2>2, NaturalEpochs DEF EpochInv, EpochsAreReached
  <2>3. CASE i \in {k, k + 1}
    BY <1>3, <1>6, <1>7, <2>3
  <2> QED BY <1>7, <2>1, <2>2, <2>3
<1>10. ASSUME NEW i \in DOMAIN node', NEW j \in DOMAIN node', i # j,
             node'[i].scope = node'[j].scope,
             node'[i].kind \in MaterialKinds, node'[j].kind \in MaterialKinds
      PROVE  node'[i].epoch # node'[j].epoch
  <2>1. CASE i \in DOMAIN node /\ j \in DOMAIN node
    BY <1>7, <1>10, <2>1 DEF EpochInv, MaterialEpochsAreDistinct
  <2>2. CASE i \in {k, k + 1} /\ j \in DOMAIN node
    BY <1>3, <1>7, <1>8, <1>10, <2>2, NaturalEpochs
  <2>3. CASE j \in {k, k + 1} /\ i \in DOMAIN node
    BY <1>3, <1>7, <1>8, <1>10, <2>3, NaturalEpochs
  <2>4. CASE i \in {k, k + 1} /\ j \in {k, k + 1}
    BY <1>3, <1>7, <1>10, <2>4
  <2> QED BY <1>7, <2>1, <2>2, <2>3, <2>4
<1> QED BY <1>9, <1>10 DEF EpochInv, MaterialEpochsAreDistinct

\* A step that stores nothing new.
LEMMA OtherStepsKeepEpochs ==
    ASSUME LedgerInv, EpochInv, DOMAIN node' = DOMAIN node,
           \A i \in DOMAIN node : /\ node'[i].scope = node[i].scope
                                  /\ node'[i].kind = node[i].kind
                                  /\ node'[i].epoch = node[i].epoch,
           \A s \in Scopes : epoch'[s] \in Nat /\ epoch'[s] >= epoch[s]
    PROVE  EpochInv'
<1>1. EpochsAreReached'
  BY NaturalEpochs DEF EpochInv, EpochsAreReached
<1>2. MaterialEpochsAreDistinct'
  BY DEF EpochInv, MaterialEpochsAreDistinct
<1> QED BY <1>1, <1>2 DEF EpochInv

LEMMA RevocationKeepsEpochs ==
    ASSUME LedgerInv, LedgerInv', EpochInv, ScopesOnlyClose, NEW R, node' = Revoked(R)
    PROVE  EpochInv'
<1>1. DOMAIN node' = DOMAIN node
  BY DEF Revoked
<1>2. \A i \in DOMAIN node : /\ node'[i].scope = node[i].scope
                             /\ node'[i].kind = node[i].kind
                             /\ node'[i].epoch = node[i].epoch
  BY DEF Revoked, LedgerInv, TypeOK, Node
<1>3. \A s \in Scopes : epoch'[s] \in Nat /\ epoch'[s] >= epoch[s]
  BY BoundsAssumption DEF LedgerInv, TypeOK, ScopesOnlyClose
<1> QED BY <1>1, <1>2, <1>3, OtherStepsKeepEpochs

LEMMA EpochsNext ==
    ASSUME LedgerInv, LedgerInv', EpochInv, [Transaction]_ledgerVars
    PROVE  EpochInv'
<1>1. CASE AnyAppend
  BY <1>1, AppendKeepsEpochs DEF AnyAppend, Content
<1>2. CASE AnyAdmission
  <2>1. PICK s \in Scopes, key \in GrantKeys, b \in Bodies, gx \in Nat, ox \in Nat,
             t \in Times, expected \in Expectations :
          AdmitObservation(
            [scope |-> s, kind |-> "grant", parents |-> {}, expires |-> gx, body |-> key],
            [scope |-> s, kind |-> "observation", parents |-> {}, expires |-> ox, body |-> b],
            t, expected)
    BY <1>2 DEF AnyAdmission
  <2> QED BY <2>1, AppendKeepsEpochs, AdmissionKeepsEpochs
          DEF AdmitObservation, AdmitUnderStoredGrant
<1>3. CASE AnyRevocation
  <2>1. PICK R : node' = Revoked(R)
    BY <1>3 DEF AnyRevocation, Revoke, RevokeGrant, Suppress
  <2> QED BY <1>3, <2>1, RevocationsAreFinal, RevocationKeepsEpochs
<1>4. CASE AnyTask
  <2>1. PICK s \in Scopes, cl \in DOMAIN node, b \in TaskBody, x \in Nat, t \in Times,
             expected \in Expectations :
          CreateManualTask(s, cl, b, x, t, expected)
    BY <1>4 DEF AnyTask
  <2> DEFINE c == [scope |-> s, kind |-> "manual_task", parents |-> {cl},
                   expires |-> x, body |-> b]
  <2>2. c.scope = s /\ c.kind \notin MaterialKinds
    BY DEF MaterialKinds
  <2>3. node' = Inserted(node, NextId, c, epoch[s]) /\ epoch' = epoch
    BY <2>1 DEF CreateManualTask
  <2>4. /\ node' = Inserted(node, NextId, c, epoch[c.scope])
        /\ epoch' = [epoch EXCEPT ![c.scope] = epoch[c.scope]]
        /\ epoch[c.scope] \in Nat /\ epoch[c.scope] >= epoch[c.scope]
    BY <2>3, NaturalEpochs DEF LedgerInv, TypeOK
  <2> HIDE DEF c
  <2> QED BY <2>2, <2>4, FreshIds, InsertionKeepsEpochs
<1>5. CASE Work \/ Tick \/ (\E granted \in SUBSET Authorities : ChangePolicy(granted))
           \/ UNCHANGED ledgerVars
  <2>1. UNCHANGED <<node, epoch>>
    BY <1>5 DEF Work, ClaimOutbox, BeginDispatch, FinalizeDispatch, WorkerStops, Tick,
                ChangePolicy, ledgerVars
  <2> QED BY <2>1, NaturalEpochs, OtherStepsKeepEpochs
<1> QED BY <1>1, <1>2, <1>3, <1>4, <1>5 DEF Transaction

\* Two material nodes of a scope never share an epoch: the latest of two reviews
\* is never a tie (_append_locked, and the workflow's search by decision_epoch).
THEOREM MaterialEpochsDiffer == Spec => []MaterialEpochsAreDistinct
<1>1. Init => EpochInv
  BY DEF Init, EpochInv, EpochsAreReached, MaterialEpochsAreDistinct
<1>2. LedgerInv /\ LedgerInv' /\ EpochInv /\ [Next]_ledgerVars => EpochInv'
  BY NextIsTransaction, EpochsNext
<1>3. EpochInv => MaterialEpochsAreDistinct
  BY DEF EpochInv
<1> QED BY <1>1, <1>2, <1>3, LedgerInvariant, PTL DEF Spec

-----------------------------------------------------------------------------
\* Every change of the evidence advances the epoch.

\* The context of a scope changes only with a node of the scope.
LEMMA SameContext ==
    ASSUME NEW s,
           \A i \in DOMAIN node : /\ i \in DOMAIN node'
                                  /\ node'[i].scope = node[i].scope
                                  /\ node'[i].kind = node[i].kind
                                  /\ node[i].scope = s => node'[i].state = node[i].state,
           \A i \in DOMAIN node' \ DOMAIN node :
                node'[i].scope # s \/ node'[i].kind \notin ContextKinds
    PROVE  StoredContext(s)' = StoredContext(s)
<1> DEFINE N == {j \in DOMAIN node : node[j].scope = s /\ node[j].kind \in ContextKinds}
           P == {j \in DOMAIN node' : node'[j].scope = s /\ node'[j].kind \in ContextKinds}
<1>1. N = P
  OBVIOUS
<1>2. \A i \in N : node'[i].state = node[i].state
  OBVIOUS
<1>3. StoredContext(s) = {<<i, node[i].state>> : i \in N}
      /\ StoredContext(s)' = {<<i, node'[i].state>> : i \in P}
  BY DEF StoredContext
<1> HIDE DEF N, P
<1> QED BY <1>1, <1>2, <1>3

LEMMA ContextIsMaterial == ContextKinds \subseteq MaterialKinds
BY DEF ContextKinds, MaterialKinds

\* What a step says of one scope.
Advances(s) == StoredContext(s)' # StoredContext(s) => epoch'[s] > epoch[s]

LEMMA AppendAdvances ==
    ASSUME LedgerInv, NEW c, NEW t, NEW expected, AppendEvidence(c, t, expected), NEW s \in Scopes
    PROVE  Advances(s)
<1> DEFINE k == NextId
           e == EpochAfter(c, epoch[c.scope])
<1>1. /\ node' = Inserted(node, k, c, e) /\ k \notin DOMAIN node
      /\ epoch' = [epoch EXCEPT ![c.scope] = e]
  BY FreshIds DEF AppendEvidence
<1>2. c.kind \in MaterialKinds => e = epoch[c.scope] + 1
  BY DEF EpochAfter
<1> HIDE DEF k, e
<1>3. /\ \A i \in DOMAIN node : i \in DOMAIN node' /\ node'[i] = node[i]
      /\ \A i \in DOMAIN node' \ DOMAIN node : node'[i].kind = c.kind /\ node'[i].scope = c.scope
  BY <1>1 DEF Inserted
<1>4. CASE c.scope # s \/ c.kind \notin ContextKinds
  BY <1>3, <1>4, SameContext DEF Advances
<1>5. CASE c.scope = s /\ c.kind \in ContextKinds
  <2>1. epoch'[s] = epoch[s] + 1 /\ epoch[s] \in Nat
    BY <1>1, <1>2, <1>5, ContextIsMaterial, NaturalEpochs DEF LedgerInv, TypeOK
  <2> QED BY <2>1 DEF Advances
<1> QED BY <1>4, <1>5

LEMMA AdmissionAdvances ==
    ASSUME LedgerInv, NEW r \in Scopes, NEW g, g.scope = r, NEW x, NEW b, NEW t, NEW expected,
           AdmitWithNewGrant(g, [scope |-> r, kind |-> "observation", parents |-> {},
                                 expires |-> x, body |-> b], t, expected),
           NEW s \in Scopes
    PROVE  Advances(s)
<1> DEFINE k == NextId
           e == epoch[r]
           c == [scope |-> r, kind |-> "observation", parents |-> {k},
                 expires |-> x, body |-> b]
           T == Inserted(node, k, g, e + 1)
<1>1. /\ node' = Inserted(T, k + 1, c, e + 2)
      /\ epoch' = [epoch EXCEPT ![r] = @ + 2]
  BY DEF AdmitWithNewGrant
<1>2. k \in Nat /\ k \notin DOMAIN node /\ k + 1 \notin DOMAIN node /\ c.scope = r
  BY FreshIds
<1> HIDE DEF k, c
<1>3. /\ DOMAIN T = DOMAIN node \cup {k}
      /\ \A i \in DOMAIN node : T[i] = node[i]
      /\ T[k].scope = r
  BY <1>2 DEF Inserted
<1> HIDE DEF T, e
<1>4. /\ DOMAIN node' = DOMAIN T \cup {k + 1}
      /\ \A i \in DOMAIN T : i # k + 1 => node'[i] = T[i]
      /\ node'[k + 1].scope = r
  BY <1>1, <1>2 DEF Inserted
<1>5. /\ \A i \in DOMAIN node : i \in DOMAIN node' /\ node'[i] = node[i]
      /\ \A i \in DOMAIN node' \ DOMAIN node : node'[i].scope = r
  BY <1>2, <1>3, <1>4
<1>6. CASE s # r
  BY <1>5, <1>6, SameContext DEF Advances
<1>7. CASE s = r
  <2>1. epoch'[s] = epoch[s] + 2 /\ epoch[s] \in Nat
    BY <1>1, <1>7, NaturalEpochs DEF LedgerInv, TypeOK
  <2> QED BY <2>1 DEF Advances
<1> QED BY <1>6, <1>7

\* A revocation that stays out of a scope leaves its context as it is.
LEMMA RevokedElsewhere ==
    ASSUME LedgerInv, NEW R, node' = Revoked(R), NEW s, \A i \in R : node[i].scope # s
    PROVE  StoredContext(s)' = StoredContext(s)
<1>1. DOMAIN node' = DOMAIN node
  BY DEF Revoked
<1>2. \A i \in DOMAIN node : /\ node'[i].scope = node[i].scope /\ node'[i].kind = node[i].kind
                             /\ i \notin R => node'[i] = node[i]
  BY DEF Revoked, LedgerInv, TypeOK, Node
<1> QED BY <1>1, <1>2, SameContext

LEMMA ReachedInScope ==
    ASSUME LedgerInv, NEW R \in SUBSET DOMAIN node, NEW j \in Reached(R)
    PROVE  \E i \in R : node[i].scope = node[j].scope
BY DEF Reached, Descendants, LedgerInv, Derived

LEMMA RevocationAdvances ==
    ASSUME LedgerInv, NEW i \in DOMAIN node, NEW expected, Revoke(i, expected), NEW s \in Scopes
    PROVE  Advances(s)
<1>1. /\ node' = Revoked(Reached({i}))
      /\ epoch' = [epoch EXCEPT ![node[i].scope] = @ + 1]
  BY DEF Revoke
<1>2. CASE s # node[i].scope
  <2>1. \A j \in Reached({i}) : node[j].scope # s
    BY <1>2, ReachedInScope
  <2> QED BY <1>1, <2>1, RevokedElsewhere DEF Advances
<1>3. CASE s = node[i].scope
  <2>1. epoch'[s] = epoch[s] + 1 /\ epoch[s] \in Nat
    BY <1>1, <1>3, NaturalEpochs DEF LedgerInv, TypeOK
  <2> QED BY <2>1 DEF Advances
<1> QED BY <1>2, <1>3

LEMMA WithdrawalAdvances ==
    ASSUME LedgerInv, NEW key, RevokeGrant(key), NEW s \in Scopes
    PROVE  Advances(s)
<1> DEFINE G == GrantNodes(key)
           H == {i \in G : node[i].scope = s}
<1>1. node' = Revoked(Reached(G)) /\ epoch'[s] = epoch[s] + Cardinality(H)
  BY DEF RevokeGrant
<1>2. G \subseteq DOMAIN node
  BY DEF GrantNodes
<1> HIDE DEF G
<1>3. CASE H = {}
  <2>1. \A j \in Reached(G) : node[j].scope # s
    BY <1>2, <1>3, ReachedInScope
  <2> QED BY <1>1, <2>1, RevokedElsewhere DEF Advances
<1>4. CASE H # {}
  <2>1. IsFiniteSet(DOMAIN node)
    BY FS_Interval, BoundsAssumption DEF LedgerInv, Consecutive
  <2>2. IsFiniteSet(H)
    BY <1>2, <2>1, FS_Subset
  <2>3. Cardinality(H) \in Nat /\ Cardinality(H) # 0
    BY <1>4, <2>2, FS_CardinalityType, FS_EmptySet
  <2> HIDE DEF H
  <2> QED BY <1>1, <2>3, NaturalEpochs DEF Advances
<1> QED BY <1>3, <1>4

LEMMA SuppressionAdvances ==
    ASSUME LedgerInv, NEW r \in Scopes, NEW expected, Suppress(r, expected), NEW s \in Scopes
    PROVE  Advances(s)
<1> DEFINE R == {i \in DOMAIN node : node[i].scope = r /\ node[i].state = "VALID"}
<1>1. node' = Revoked(R) /\ epoch' = [epoch EXCEPT ![r] = @ + 1]
  BY DEF Suppress
<1>2. \A i \in R : node[i].scope = r
  OBVIOUS
<1> HIDE DEF R
<1>3. CASE s # r
  BY <1>1, <1>2, <1>3, RevokedElsewhere DEF Advances
<1>4. CASE s = r
  <2>1. epoch'[s] = epoch[s] + 1 /\ epoch[s] \in Nat
    BY <1>1, <1>4, NaturalEpochs DEF LedgerInv, TypeOK
  <2> QED BY <2>1 DEF Advances
<1> QED BY <1>3, <1>4

LEMMA TaskAdvances ==
    ASSUME LedgerInv, NEW r, NEW cl, NEW b, NEW x, NEW t, NEW expected,
           CreateManualTask(r, cl, b, x, t, expected), NEW s \in Scopes
    PROVE  Advances(s)
<1> DEFINE k == NextId
           c == [scope |-> r, kind |-> "manual_task", parents |-> {cl},
                 expires |-> x, body |-> b]
<1>1. node' = Inserted(node, k, c, epoch[r]) /\ k \notin DOMAIN node
  BY FreshIds DEF CreateManualTask
<1>2. c.kind \notin ContextKinds
  BY DEF ContextKinds
<1> HIDE DEF k, c
<1>3. /\ \A i \in DOMAIN node : i \in DOMAIN node' /\ node'[i] = node[i]
      /\ \A i \in DOMAIN node' \ DOMAIN node : node'[i].kind = c.kind
  BY <1>1 DEF Inserted
<1> QED BY <1>2, <1>3, SameContext DEF Advances

LEMMA EveryStepAdvances ==
    ASSUME LedgerInv, [Transaction]_ledgerVars, NEW s \in Scopes
    PROVE  Advances(s)
<1>1. CASE AnyAppend
  BY <1>1, AppendAdvances DEF AnyAppend
<1>2. CASE AnyAdmission
  <2>1. PICK r \in Scopes, key \in GrantKeys, b \in Bodies, gx \in Nat, ox \in Nat,
             t \in Times, expected \in Expectations :
          AdmitObservation(
            [scope |-> r, kind |-> "grant", parents |-> {}, expires |-> gx, body |-> key],
            [scope |-> r, kind |-> "observation", parents |-> {}, expires |-> ox, body |-> b],
            t, expected)
    BY <1>2 DEF AnyAdmission
  <2> QED BY <2>1, AppendAdvances, AdmissionAdvances DEF AdmitObservation, AdmitUnderStoredGrant
<1>3. CASE AnyRevocation
  BY <1>3, RevocationAdvances, WithdrawalAdvances, SuppressionAdvances DEF AnyRevocation
<1>4. CASE AnyTask
  BY <1>4, TaskAdvances DEF AnyTask
<1>5. CASE Work \/ Tick \/ (\E granted \in SUBSET Authorities : ChangePolicy(granted))
           \/ UNCHANGED ledgerVars
  <2>1. node' = node
    BY <1>5 DEF Work, ClaimOutbox, BeginDispatch, FinalizeDispatch, WorkerStops, Tick,
                ChangePolicy, ledgerVars
  <2> QED BY <2>1 DEF Advances, StoredContext
<1> QED BY <1>1, <1>2, <1>3, <1>4, <1>5 DEF Transaction

\* What a reviewed brief was bound to cannot change under an unchanged epoch: a
\* request that passes the epoch comparison sees the evidence its caller saw
\* (_lock_scope, _append_locked, revoke, revoke_grant, suppress).
THEOREM EpochsCoverTheEvidence == Spec => EvidenceChangesAdvanceTheEpoch
<1>1. LedgerInv /\ [Next]_ledgerVars =>
        [\A s \in Scopes : StoredContext(s)' # StoredContext(s) => epoch'[s] > epoch[s]]_ledgerVars
  BY NextIsTransaction, EveryStepAdvances DEF Advances
<1> QED BY <1>1, LedgerInvariant, PTL DEF Spec, EvidenceChangesAdvanceTheEpoch

\* The ledger moves one way: nothing revoked comes back, what a decision rests on
\* changes only with its scope's epoch, and an epoch names one material node
\* (_append_locked, revoke, revoke_grant, suppress).
THEOREM TheLedgerMovesForward == Spec => LedgerMovesForward
BY RevocationIsFinal, EpochsCoverTheEvidence, MaterialEpochsDiffer, PTL DEF LedgerMovesForward

-----------------------------------------------------------------------------
\* Deliveries.

\* What a quiet step may do to the status of a row.
RowMove(a, b) ==
    \/ a = b
    \/ a \in {"PENDING", "LEASED"} /\ b \in {"LEASED", "CANCELLED"}
    \/ a = "DISPATCHING" /\ b \in {"PUBLISHED", "DELIVERY_UNKNOWN"}

Quiet ==
    /\ DOMAIN outbox \subseteq DOMAIN outbox'
    /\ \A i \in DOMAIN outbox : RowMove(outbox[i].status, outbox'[i].status)
    /\ \A i \in DOMAIN outbox' \ DOMAIN outbox : outbox'[i].status = "PENDING"

TokensKept == \A i \in DOMAIN outbox : outbox'[i].token = outbox[i].token

\* The start of an attempt at one item.
Starts(i) ==
    /\ i \in DOMAIN outbox
    /\ outbox[i].status = "LEASED"
    /\ outbox' = [outbox EXCEPT ![i].status = "DISPATCHING"]

-----------------------------------------------------------------------------
\* Which steps are quiet.

LEMMA RecallIsQuiet ==
    ASSUME LedgerInv, NEW R, outbox' = Recalled(R)
    PROVE  Quiet /\ TokensKept
<1>1. DOMAIN outbox' = DOMAIN outbox /\ TokensKept
  BY RecalledRows DEF LedgerInv, TypeOK, TokensKept
<1>2. ASSUME NEW i \in DOMAIN outbox PROVE RowMove(outbox[i].status, outbox'[i].status)
  <2>1. outbox[i] \in OutboxRow
    BY DEF LedgerInv, TypeOK
  <2>2. \/ outbox'[i] = outbox[i]
        \/ outbox[i].status = "DISPATCHING"
           /\ outbox'[i] = [outbox[i] EXCEPT !.status = "DELIVERY_UNKNOWN"]
        \/ outbox[i].status \in {"PENDING", "LEASED"}
           /\ outbox'[i] = [outbox[i] EXCEPT !.status = "CANCELLED"]
    BY DEF Recalled
  <2> QED BY <2>1, <2>2 DEF RowMove, OutboxRow
<1> QED BY <1>1, <1>2 DEF Quiet

LEMMA CreationIsQuiet ==
    ASSUME LedgerInv, NEW s, NEW cl, NEW b, NEW x, NEW t, NEW expected,
           CreateManualTask(s, cl, b, x, t, expected)
    PROVE  /\ Quiet /\ TokensKept
           /\ NextId \notin DOMAIN node
           /\ DOMAIN outbox' = DOMAIN outbox \cup {NextId}
<1> DEFINE k == NextId
<1>1. k \notin DOMAIN node
  <2>1. PICK n \in 0..MaxNodes : DOMAIN node = 1..n
    BY DEF LedgerInv, Consecutive
  <2>2. n \in Nat /\ k = n + 1
    BY <2>1, FreshId, BoundsAssumption
  <2> QED BY <2>1, <2>2
<1>2. /\ DOMAIN outbox' = DOMAIN outbox \cup {k}
      /\ outbox' = [i \in DOMAIN outbox \cup {k} |->
                       IF i = k THEN [status |-> "PENDING", token |-> 0, until |-> 0]
                       ELSE outbox[i]]
  BY DEF CreateManualTask
<1>3. k \notin DOMAIN outbox
  BY <1>1 DEF LedgerInv, TypeOK
<1> HIDE DEF k
<1>4. /\ \A i \in DOMAIN outbox : outbox'[i] = outbox[i]
      /\ outbox'[k].status = "PENDING"
  BY <1>2, <1>3
<1>5. Quiet /\ TokensKept
  BY <1>2, <1>4 DEF Quiet, TokensKept, RowMove
<1> QED BY <1>1, <1>2, <1>5 DEF k

LEMMA ClosingIsQuiet ==
    ASSUME NEW row \in OutboxRow, row.status \in {"PENDING", "LEASED", "DISPATCHING"}
    PROVE  RowMove(row.status, Closed(row).status) /\ Closed(row).token = row.token
BY DEF RowMove, Closed, OutboxRow

LEMMA ClaimIsQuiet ==
    ASSUME LedgerInv, NEW w \in Workers, NEW t, NEW lease, ClaimOutbox(w, t, lease)
    PROVE  Quiet /\ DOMAIN outbox' = DOMAIN outbox
<1>1. \A i \in DOMAIN outbox : outbox[i] \in OutboxRow
  BY DEF LedgerInv, TypeOK
<1>2. \A i \in Claimable(t) : i \in DOMAIN outbox
                              /\ outbox[i].status \in {"PENDING", "LEASED", "DISPATCHING"}
  BY DEF Claimable
<1>3. DOMAIN outbox' = DOMAIN outbox
  BY DEF ClaimOutbox
<1>4. ASSUME NEW i \in DOMAIN outbox PROVE RowMove(outbox[i].status, outbox'[i].status)
  <2>1. \/ outbox'[i] = outbox[i]
        \/ i \in Claimable(t) /\ outbox'[i] = Closed(outbox[i])
        \/ i \in Leasable(t) /\ outbox'[i].status = "LEASED"
    BY DEF ClaimOutbox
  <2>2. i \in Leasable(t) => i \in Claimable(t) /\ outbox[i].status # "DISPATCHING"
    BY DEF Leasable
  <2> QED BY <1>1, <1>2, <2>1, <2>2, ClosingIsQuiet DEF RowMove
<1> QED BY <1>3, <1>4 DEF Quiet

LEMMA BeginStarts ==
    ASSUME NEW w, NEW t, BeginDispatch(w, t)
    PROVE  Starts(held[w].item)
BY DEF BeginDispatch, LeaseStands, Starts

LEMMA FinalizeIsQuiet ==
    ASSUME LedgerInv, NEW w, NEW target, NEW t, FinalizeDispatch(w, target, t)
    PROVE  Quiet /\ TokensKept /\ DOMAIN outbox' = DOMAIN outbox
<1> DEFINE k == held[w].item
           final == IF Valid(k, t) THEN target ELSE "DELIVERY_UNKNOWN"
<1>1. /\ k \in DOMAIN outbox /\ outbox[k].status = "DISPATCHING"
      /\ outbox' = [outbox EXCEPT ![k].status = final]
      /\ final \in {"PUBLISHED", "DELIVERY_UNKNOWN"}
  BY DEF FinalizeDispatch, LeaseStands
<1> HIDE DEF k, final
<1>2. /\ \A i \in DOMAIN outbox : outbox[i] \in OutboxRow
      /\ DOMAIN outbox' = DOMAIN outbox
  BY <1>1 DEF LedgerInv, TypeOK
<1>3. \A i \in DOMAIN outbox : i # k => outbox'[i] = outbox[i]
  BY <1>1, <1>2
<1>4. outbox'[k].status = final /\ outbox'[k].token = outbox[k].token
  BY <1>1, <1>2 DEF OutboxRow
<1> QED BY <1>1, <1>2, <1>3, <1>4 DEF Quiet, TokensKept, RowMove

-----------------------------------------------------------------------------
\* The refinement.

LEMMA QuietIsPromised ==
    ASSUME TypeOK, TypeOK', Quiet
    PROVE  Promise!Next
<1>1. DOMAIN outbox \subseteq Ids /\ DOMAIN outbox' \subseteq Ids
  BY DEF TypeOK
<1>2. /\ \A i \in DOMAIN outbox : outbox[i].status \in OutboxStatus
      /\ \A i \in DOMAIN outbox' : outbox'[i].status \in OutboxStatus
  BY DEF TypeOK, OutboxRow
<1>3. deliveryOf' \in [Ids -> {"absent", "waiting", "DISPATCHING"} \cup Promise!Settled]
  BY <1>2 DEF deliveryOf, Promise!Settled, OutboxStatus
<1>4. ASSUME NEW i \in Ids
      PROVE  /\ deliveryOf'[i] # deliveryOf[i] =>
                   <<deliveryOf[i], deliveryOf'[i]>> \in Promise!Moves
             /\ ~ (deliveryOf[i] = "waiting" /\ deliveryOf'[i] = "DISPATCHING")
  <2>1. CASE i \in DOMAIN outbox
    <3>1. i \in DOMAIN outbox' /\ RowMove(outbox[i].status, outbox'[i].status)
      BY <2>1 DEF Quiet
    <3>2. /\ deliveryOf[i] = IF outbox[i].status \in {"PENDING", "LEASED"} THEN "waiting"
                             ELSE outbox[i].status
          /\ deliveryOf'[i] = IF outbox'[i].status \in {"PENDING", "LEASED"} THEN "waiting"
                              ELSE outbox'[i].status
      BY <2>1, <3>1 DEF deliveryOf
    <3> QED BY <1>2, <2>1, <3>1, <3>2 DEF RowMove, Promise!Moves, OutboxStatus
  <2>2. CASE i \notin DOMAIN outbox
    <3>1. deliveryOf[i] = "absent"
      BY <2>2 DEF deliveryOf
    <3>2. deliveryOf'[i] \in {"absent", "waiting"}
      BY <2>2 DEF deliveryOf, Quiet
    <3> QED BY <3>1, <3>2 DEF Promise!Moves
  <2> QED BY <2>1, <2>2
<1> QED BY <1>3, <1>4 DEF Promise!Next

LEMMA StartIsPromised ==
    ASSUME TypeOK, TypeOK', NEW k, Starts(k)
    PROVE  Promise!Next
<1>1. /\ \A i \in DOMAIN outbox' : outbox'[i].status \in OutboxStatus
      /\ DOMAIN outbox' = DOMAIN outbox /\ k \in DOMAIN outbox
      /\ outbox[k].status = "LEASED" /\ outbox'[k].status = "DISPATCHING"
      /\ \A i \in DOMAIN outbox : i # k => outbox'[i] = outbox[i]
  BY DEF TypeOK, OutboxRow, Starts
<1>2. deliveryOf' \in [Ids -> {"absent", "waiting", "DISPATCHING"} \cup Promise!Settled]
  BY <1>1 DEF deliveryOf, Promise!Settled, OutboxStatus
<1>3. \A i \in Ids : i # k => deliveryOf'[i] = deliveryOf[i]
  BY <1>1 DEF deliveryOf
<1>4. k \in Ids /\ deliveryOf[k] = "waiting" /\ deliveryOf'[k] = "DISPATCHING"
  BY <1>1 DEF deliveryOf, TypeOK
<1> QED BY <1>2, <1>3, <1>4 DEF Promise!Next, Promise!Moves

\* Steps on evidence and of the environment leave outbox and workers alone.
LEMMA EvidenceStepsLeaveTheOutbox ==
    ASSUME \/ AppendAny \/ Admit \/ Tick \/ (\E granted \in SUBSET Authorities : ChangePolicy(granted))
           \/ UNCHANGED ledgerVars
    PROVE  UNCHANGED <<outbox, held>>
<1>1. AppendAny => UNCHANGED <<outbox, held>>
  BY DEF AppendAny, AppendEvidence
<1>2. Admit => UNCHANGED <<outbox, held>>
  <2> SUFFICES ASSUME NEW g, NEW o, NEW t, AdmitObservation(g, o, t, AnyEpoch)
               PROVE  UNCHANGED <<outbox, held>>
    BY DEF Admit
  <2> QED BY DEF AdmitObservation, AdmitUnderStoredGrant, AdmitWithNewGrant, AppendEvidence
<1> QED BY <1>1, <1>2 DEF Tick, ChangePolicy, ledgerVars

\* Every step of the ledger begins a dispatch, is quiet, or leaves the outbox.
LEMMA OnlyBeginStarts ==
    ASSUME LedgerInv, [Next]_ledgerVars
    PROVE  \/ Quiet \/ UNCHANGED outbox
           \/ \E w \in Workers, t \in Readings : BeginDispatch(w, t)
<1>1. CASE AppendAny \/ Admit \/ Tick \/ (\E granted \in SUBSET Authorities : ChangePolicy(granted))
           \/ UNCHANGED ledgerVars
  BY <1>1, EvidenceStepsLeaveTheOutbox
<1>2. CASE \/ \E i \in DOMAIN node : Revoke(i, AnyEpoch)
           \/ \E key \in GrantKeys : RevokeGrant(key)
           \/ \E s \in Scopes : Suppress(s, AnyEpoch)
  <2>1. PICK R : outbox' = Recalled(R)
    BY <1>2 DEF Revoke, RevokeGrant, Suppress
  <2> QED BY <2>1, RecallIsQuiet
<1>3. CASE MakeTask
  BY <1>3, CreationIsQuiet DEF MakeTask
<1>4. CASE Work
  <2>1. PICK w \in Workers, t \in Readings :
          \/ \E lease \in LeaseTimes : ClaimOutbox(w, t, lease)
          \/ BeginDispatch(w, t)
          \/ \E target \in {"PUBLISHED", "DELIVERY_UNKNOWN"} : FinalizeDispatch(w, target, t)
          \/ WorkerStops(w)
    BY <1>4 DEF Work
  <2>2. WorkerStops(w) => UNCHANGED outbox
    BY DEF WorkerStops
  <2> QED BY <2>1, <2>2, ClaimIsQuiet, FinalizeIsQuiet
<1> QED BY <1>1, <1>2, <1>3, <1>4 DEF Next

LEMMA LedgerMoves ==
    ASSUME LedgerInv, [Next]_ledgerVars
    PROVE  Quiet \/ (\E k \in DOMAIN outbox : Starts(k)) \/ UNCHANGED outbox
BY OnlyBeginStarts, BeginStarts DEF Starts

\* The outbox implements the abstract promise: an item is attempted at most once,
\* an interrupted attempt is settled as unknown, and nothing returns an attempted
\* item to the queue (begin_outbox_dispatch).
THEOREM DeliveryImplementsThePromise == Spec => DeliveryIsAtMostOnce
<1>1. Init => Promise!Init
  BY DEF Init, Promise!Init, deliveryOf
<1>2. LedgerInv /\ LedgerInv' /\ [Next]_ledgerVars => [Promise!Next]_deliveryOf
  <2> SUFFICES ASSUME LedgerInv, LedgerInv', [Next]_ledgerVars
               PROVE  Promise!Next \/ UNCHANGED deliveryOf
    OBVIOUS
  <2>1. TypeOK /\ TypeOK'
    BY DEF LedgerInv
  <2>2. UNCHANGED outbox => UNCHANGED deliveryOf
    BY DEF deliveryOf
  <2> QED BY <2>1, <2>2, LedgerMoves, QuietIsPromised, StartIsPromised
<1> QED BY <1>1, <1>2, LedgerInvariant, PTL DEF Spec, DeliveryIsAtMostOnce, Promise!Spec

-----------------------------------------------------------------------------
\* Fencing tokens.

\* What a worker remembers: a token the item has had, no other worker's, and the
\* item's last one while the worker may be sending.
Remembers(w) ==
    /\ held[w].phase = "idle" => held[w].item = 0
    /\ held[w].phase # "idle" =>
        /\ held[w].item \in DOMAIN outbox
        /\ held[w].token <= outbox[held[w].item].token
        /\ \A v \in Workers \ {w} :
              held[v].item = held[w].item => held[v].token # held[w].token
    /\ held[w].phase = "sending" =>
        /\ held[w].token = outbox[held[w].item].token
        /\ outbox[held[w].item].status \notin {"PENDING", "LEASED"}

TokenInv == \A w \in Workers : Remembers(w)

LEMMA HeldTypes ==
    ASSUME LedgerInv
    PROVE  /\ \A w \in Workers : held[w] \in Held /\ held[w].token \in Nat
           /\ \A i \in DOMAIN outbox : outbox[i] \in OutboxRow /\ outbox[i].token \in Nat
           /\ 0 \notin DOMAIN outbox
BY BoundsAssumption DEF LedgerInv, TypeOK, Held, OutboxRow, Ids

LEMMA QuietKeepsTokens ==
    ASSUME LedgerInv, TokenInv, Quiet, TokensKept, held' = held
    PROVE  TokenInv'
<1> SUFFICES ASSUME NEW w \in Workers PROVE Remembers(w)'
  BY DEF TokenInv
<1>1. Remembers(w)
  BY DEF TokenInv
<1>2. ASSUME held[w].phase # "idle"
      PROVE  /\ held[w].item \in DOMAIN outbox /\ held[w].item \in DOMAIN outbox'
             /\ outbox'[held[w].item].token = outbox[held[w].item].token
             /\ RowMove(outbox[held[w].item].status, outbox'[held[w].item].status)
  BY <1>1, <1>2 DEF Remembers, Quiet, TokensKept
<1>3. held[w].phase = "sending" => held[w].phase # "idle"
  OBVIOUS
<1>4. held[w].phase = "sending" => outbox'[held[w].item].status \notin {"PENDING", "LEASED"}
  BY <1>1, <1>2, <1>3 DEF Remembers, RowMove
<1> QED BY <1>1, <1>2, <1>3, <1>4 DEF Remembers

\* A worker that lets go of its item leaves the others as they are.
LEMMA LettingGoKeepsTokens ==
    ASSUME LedgerInv, TokenInv, NEW w \in Workers, held' = [held EXCEPT ![w] = Idle],
           Quiet, TokensKept
    PROVE  TokenInv'
<1> SUFFICES ASSUME NEW v \in Workers PROVE Remembers(v)'
  BY DEF TokenInv
<1>1. /\ held'[w] = Idle
      /\ \A u \in Workers : u # w => held'[u] = held[u]
  BY DEF LedgerInv, TypeOK
<1>2. CASE v = w
  BY <1>1, <1>2 DEF Remembers, Idle
<1>3. CASE v # w
  <2>1. Remembers(v) /\ held'[v] = held[v]
    BY <1>1, <1>3 DEF TokenInv
  <2>2. ASSUME held[v].phase # "idle"
        PROVE  /\ held[v].item \in DOMAIN outbox /\ held[v].item \in DOMAIN outbox'
               /\ outbox'[held[v].item].token = outbox[held[v].item].token
               /\ RowMove(outbox[held[v].item].status, outbox'[held[v].item].status)
               /\ held[v].item # 0
    BY <2>1, <2>2, HeldTypes DEF Remembers, Quiet, TokensKept
  <2>3. ASSUME held[v].phase # "idle", NEW u \in Workers \ {v}, held'[u].item = held[v].item
        PROVE  held'[u].token # held[v].token
    <3>1. u # w
      BY <1>1, <2>2, <2>3 DEF Idle
    <3> QED BY <1>1, <2>1, <2>3, <3>1 DEF Remembers
  <2>4. held[v].phase = "sending" => held[v].phase # "idle"
    OBVIOUS
  <2>5. held[v].phase = "sending" => outbox'[held[v].item].status \notin {"PENDING", "LEASED"}
    BY <2>1, <2>2, <2>4 DEF Remembers, RowMove
  <2> QED BY <2>1, <2>2, <2>3, <2>4, <2>5 DEF Remembers
<1> QED BY <1>2, <1>3

LEMMA ClaimKeepsTokens ==
    ASSUME LedgerInv, TokenInv, NEW w \in Workers, NEW t, NEW lease, ClaimOutbox(w, t, lease)
    PROVE  TokenInv'
<1>1. Quiet /\ DOMAIN outbox' = DOMAIN outbox
  BY ClaimIsQuiet
<1>2. CASE /\ held' = held
           /\ outbox' = [j \in DOMAIN outbox |->
                 IF j \in Claimable(t) THEN Closed(outbox[j]) ELSE outbox[j]]
  <2>1. TokensKept
    BY <1>2, HeldTypes, ClosingIsQuiet DEF TokensKept, Claimable
  <2> QED BY <1>1, <1>2, <2>1, QuietKeepsTokens
<1>3. ASSUME NEW i \in Leasable(t), NEW passed \in SUBSET (Claimable(t) \ Leasable(t)),
             outbox' = [j \in DOMAIN outbox |->
                IF j = i THEN [status |-> "LEASED", token |-> NextToken(outbox[i]),
                               until |-> t + lease]
                ELSE IF j \in passed THEN Closed(outbox[j]) ELSE outbox[j]],
             held' = [held EXCEPT ![w] = [item |-> i, token |-> NextToken(outbox[i]),
                                          phase |-> "leased"]]
      PROVE  TokenInv'
  <2>1. /\ i \in DOMAIN outbox /\ outbox[i].status \in {"PENDING", "LEASED"}
        /\ outbox[i].token \in Nat
    BY HeldTypes DEF Leasable, Claimable
  <2>2. /\ held'[w].item = i /\ held'[w].phase = "leased"
        /\ held'[w].token = outbox[i].token + 1
        /\ outbox'[i].token = outbox[i].token + 1
        /\ \A u \in Workers : u # w => held'[u] = held[u]
    BY <1>3, <2>1 DEF LedgerInv, TypeOK, NextToken
  <2>3. ASSUME NEW j \in DOMAIN outbox, j # i PROVE outbox'[j].token = outbox[j].token
    BY <1>3, <2>3, HeldTypes, ClosingIsQuiet DEF Claimable
  <2>4. ASSUME NEW u \in Workers, u # w, held[u].phase # "idle", held[u].item = i
        PROVE  held[u].token <= outbox[i].token /\ held[u].phase # "sending"
    BY <2>1, <2>4 DEF TokenInv, Remembers
  <2>5. ASSUME NEW u \in Workers, u # w PROVE held[u].item = i => held[u].token <= outbox[i].token
    BY <2>1, <2>4, <2>5, HeldTypes DEF TokenInv, Remembers
  <2>6. Remembers(w)'
    BY <1>1, <2>1, <2>2, <2>5, HeldTypes DEF Remembers
  <2>7. ASSUME NEW v \in Workers, v # w PROVE Remembers(v)'
    <3>1. Remembers(v) /\ held'[v] = held[v]
      BY <2>2, <2>7 DEF TokenInv
    <3>2. CASE held[v].phase = "idle"
      BY <3>1, <3>2 DEF Remembers
    <3>3. CASE held[v].phase # "idle" /\ held[v].item # i
      <4>1. /\ held[v].item \in DOMAIN outbox
            /\ outbox'[held[v].item].token = outbox[held[v].item].token
            /\ RowMove(outbox[held[v].item].status, outbox'[held[v].item].status)
        BY <1>1, <2>3, <3>1, <3>3 DEF Remembers, Quiet
      <4>2. \A u \in Workers \ {v} :
              held'[u].item = held[v].item => held'[u].token # held[v].token
        BY <2>2, <3>1, <3>3 DEF Remembers
      <4>3. held[v].phase = "sending" => outbox'[held[v].item].status \notin {"PENDING", "LEASED"}
        BY <3>1, <3>3, <4>1 DEF Remembers, RowMove
      <4> QED BY <1>1, <3>1, <3>3, <4>1, <4>2, <4>3 DEF Remembers
    <3>4. CASE held[v].phase # "idle" /\ held[v].item = i
      <4>1. held[v].token <= outbox[i].token /\ held[v].phase # "sending"
        BY <2>4, <2>7, <3>4
      <4>2. held[v].token <= outbox'[i].token /\ held[v].token # held'[w].token
        BY <2>1, <2>2, <4>1, HeldTypes
      <4>3. \A u \in Workers \ {v} : held'[u].item = i => held'[u].token # held[v].token
        BY <2>2, <3>1, <3>4, <4>2 DEF Remembers
      <4> QED BY <1>1, <2>1, <3>1, <3>4, <4>1, <4>2, <4>3 DEF Remembers
    <3> QED BY <3>2, <3>3, <3>4
  <2> QED BY <2>6, <2>7 DEF TokenInv
<1> QED BY <1>2, <1>3 DEF ClaimOutbox

LEMMA BeginKeepsTokens ==
    ASSUME LedgerInv, TokenInv, NEW w \in Workers, NEW t, BeginDispatch(w, t)
    PROVE  TokenInv'
<1> DEFINE k == held[w].item
<1>1. /\ k \in DOMAIN outbox /\ held[w].phase = "leased"
      /\ outbox[k].token = held[w].token
      /\ outbox' = [outbox EXCEPT ![k].status = "DISPATCHING"]
      /\ held' = [held EXCEPT ![w].phase = "sending"]
  BY DEF BeginDispatch, LeaseStands
<1>2. /\ held'[w].phase = "sending" /\ held'[w].item = k /\ held'[w].token = held[w].token
      /\ \A u \in Workers : u # w => held'[u] = held[u]
  BY <1>1, HeldTypes DEF LedgerInv, TypeOK, Held
<1> HIDE DEF k
<1>3. /\ DOMAIN outbox' = DOMAIN outbox
      /\ \A i \in DOMAIN outbox :
            /\ outbox'[i].token = outbox[i].token
            /\ outbox[i].status \notin {"PENDING", "LEASED"} =>
                  outbox'[i].status \notin {"PENDING", "LEASED"}
      /\ outbox'[k].status = "DISPATCHING"
  BY <1>1, HeldTypes DEF LedgerInv, TypeOK, OutboxRow
<1>4. Remembers(w)'
  <2>1. Remembers(w)
    BY DEF TokenInv
  <2>2. \A v \in Workers \ {w} : held'[v].item = k => held'[v].token # held[w].token
    BY <1>1, <1>2, <2>1 DEF Remembers, k
  <2>3. held'[w].token <= outbox'[k].token
    <3>1. held'[w].token = held[w].token /\ outbox'[k].token = held[w].token
      BY <1>1, <1>2, <1>3
    <3>2. held[w].token \in Nat
      BY HeldTypes
    <3> QED BY <3>1, <3>2
  <2> QED BY <1>1, <1>2, <1>3, <2>2, <2>3 DEF Remembers
<1>5. ASSUME NEW v \in Workers, v # w PROVE Remembers(v)'
  <2>1. Remembers(v) /\ held'[v] = held[v]
    BY <1>2, <1>5 DEF TokenInv
  <2>2. \A u \in Workers : held'[u].item = held[u].item /\ held'[u].token = held[u].token
    BY <1>2 DEF k
  <2> QED BY <1>3, <2>1, <2>2 DEF Remembers
<1> QED BY <1>4, <1>5 DEF TokenInv

LEMMA TokensNext ==
    ASSUME LedgerInv, TokenInv, [Next]_ledgerVars
    PROVE  TokenInv'
<1>1. CASE UNCHANGED <<outbox, held>>
  BY <1>1, QuietKeepsTokens DEF Quiet, TokensKept, RowMove
<1>2. CASE AppendAny \/ Admit \/ Tick \/ (\E granted \in SUBSET Authorities : ChangePolicy(granted))
           \/ UNCHANGED ledgerVars
  BY <1>1, <1>2, EvidenceStepsLeaveTheOutbox
<1>3. CASE \/ \E i \in DOMAIN node : Revoke(i, AnyEpoch)
           \/ \E key \in GrantKeys : RevokeGrant(key)
           \/ \E s \in Scopes : Suppress(s, AnyEpoch)
  <2>1. PICK R : outbox' = Recalled(R) /\ held' = held
    BY <1>3 DEF Revoke, RevokeGrant, Suppress
  <2> QED BY <2>1, RecallIsQuiet, QuietKeepsTokens
<1>4. CASE MakeTask
  <2>1. PICK s \in Scopes, cl \in DOMAIN node, b \in TaskBody, x \in Expiries, t \in Readings :
          CreateManualTask(s, cl, b, x, t, AnyEpoch)
    BY <1>4 DEF MakeTask
  <2>2. held' = held
    BY <2>1 DEF CreateManualTask
  <2> QED BY <2>1, <2>2, CreationIsQuiet, QuietKeepsTokens
<1>5. CASE Work
  <2>1. PICK w \in Workers, t \in Readings :
          \/ \E lease \in LeaseTimes : ClaimOutbox(w, t, lease)
          \/ BeginDispatch(w, t)
          \/ \E target \in {"PUBLISHED", "DELIVERY_UNKNOWN"} : FinalizeDispatch(w, target, t)
          \/ WorkerStops(w)
    BY <1>5 DEF Work
  <2>2. ASSUME NEW target, FinalizeDispatch(w, target, t) PROVE TokenInv'
    BY <2>2, FinalizeIsQuiet, LettingGoKeepsTokens DEF FinalizeDispatch
  <2>3. WorkerStops(w) => TokenInv'
    BY LettingGoKeepsTokens DEF WorkerStops, Quiet, TokensKept, RowMove
  <2> QED BY <2>1, <2>2, <2>3, ClaimKeepsTokens, BeginKeepsTokens
<1> QED BY <1>2, <1>3, <1>4, <1>5 DEF Next

\* Whoever may be performing external I/O for an item holds the last token issued
\* for it, and every other worker that remembers the item an earlier one
\* (_transition_outbox).
THEOREM SendersAreFenced == Spec => []SenderHoldsTheLastToken
<1>1. Init => TokenInv
  BY DEF Init, TokenInv, Remembers, Idle
<1>2. LedgerInv /\ TokenInv /\ [Next]_ledgerVars => TokenInv'
  BY TokensNext
<1>3. LedgerInv /\ TokenInv => SenderHoldsTheLastToken
  <2> SUFFICES ASSUME LedgerInv, TokenInv, NEW w \in Workers, held[w].phase = "sending"
               PROVE  /\ held[w].item \in DOMAIN outbox
                      /\ held[w].token = outbox[held[w].item].token
                      /\ outbox[held[w].item].status \notin {"PENDING", "LEASED"}
                      /\ \A v \in Workers \ {w} : held[v].item = held[w].item =>
                            held[v].token < held[w].token
    BY DEF SenderHoldsTheLastToken
  <2>1. /\ held[w].item \in DOMAIN outbox /\ held[w].item # 0
        /\ held[w].token = outbox[held[w].item].token
        /\ outbox[held[w].item].status \notin {"PENDING", "LEASED"}
    BY HeldTypes DEF TokenInv, Remembers
  <2>2. ASSUME NEW v \in Workers \ {w}, held[v].item = held[w].item
        PROVE  held[v].token < held[w].token
    <3>1. held[v].phase # "idle"
      BY <2>1, <2>2 DEF TokenInv, Remembers
    <3>2. held[v].token <= outbox[held[w].item].token /\ held[v].token # held[w].token
      BY <2>2, <3>1 DEF TokenInv, Remembers
    <3> QED BY <2>1, <3>2, HeldTypes
  <2> QED BY <2>1, <2>2
<1> QED BY <1>1, <1>2, <1>3, LedgerInvariant, PTL DEF Spec

-----------------------------------------------------------------------------
\* Idempotency keys.

\* Nothing but create_manual_task stores a task, and nothing alters one.
LEMMA OtherStepsKeepTasks ==
    ASSUME LedgerInv, OneTaskPerKey, DOMAIN outbox' = DOMAIN outbox,
           DOMAIN node \subseteq DOMAIN node',
           \A i \in DOMAIN node : /\ node'[i].kind = node[i].kind
                                  /\ node'[i].scope = node[i].scope
                                  /\ node'[i].body = node[i].body,
           \A i \in DOMAIN node' \ DOMAIN node : node'[i].kind # "manual_task"
    PROVE  OneTaskPerKey'
<1>1. DOMAIN outbox \subseteq DOMAIN node
  BY DEF LedgerInv, TypeOK
<1>2. DOMAIN outbox' = {i \in DOMAIN node' : node'[i].kind = "manual_task"}
  BY DEF OneTaskPerKey
<1> QED BY <1>1, <1>2 DEF OneTaskPerKey

LEMMA AppendKeepsTasks ==
    ASSUME LedgerInv, OneTaskPerKey, NEW c, c.kind # "manual_task", NEW t, NEW expected,
           AppendEvidence(c, t, expected)
    PROVE  OneTaskPerKey'
<1>1. PICK n \in 0..MaxNodes : DOMAIN node = 1..n
  BY DEF LedgerInv, Consecutive
<1>2. n \in Nat /\ NextId = n + 1
  BY <1>1, FreshId, BoundsAssumption
<1> DEFINE e == EpochAfter(c, epoch[c.scope])
<1>3. node' = Inserted(node, n + 1, c, e) /\ outbox' = outbox
  BY <1>2 DEF AppendEvidence
<1> HIDE DEF e
<1>4. /\ \A i \in DOMAIN node : i \in DOMAIN node' /\ node'[i] = node[i]
      /\ \A i \in DOMAIN node' \ DOMAIN node : node'[i].kind = c.kind
  BY <1>1, <1>2, <1>3 DEF Inserted
<1> QED BY <1>3, <1>4, OtherStepsKeepTasks

LEMMA AdmissionKeepsTasks ==
    ASSUME LedgerInv, OneTaskPerKey, NEW g, g.kind # "manual_task", NEW b, NEW s, NEW x,
           NEW t, NEW expected,
           AdmitWithNewGrant(g, [scope |-> s, kind |-> "observation", parents |-> {},
                                 expires |-> x, body |-> b], t, expected)
    PROVE  OneTaskPerKey'
<1>1. PICK n \in 0..MaxNodes : DOMAIN node = 1..n
  BY DEF LedgerInv, Consecutive
<1>2. n \in Nat /\ NextId = n + 1
  BY <1>1, FreshId, BoundsAssumption
<1> DEFINE e == epoch[g.scope]
           c == [scope |-> s, kind |-> "observation", parents |-> {n + 1},
                 expires |-> x, body |-> b]
           T == Inserted(node, n + 1, g, e + 1)
<1>3. node' = Inserted(T, (n + 1) + 1, c, e + 2) /\ outbox' = outbox
  BY <1>2 DEF AdmitWithNewGrant
<1>4. c.kind # "manual_task"
  OBVIOUS
<1> HIDE DEF c
<1>5. /\ DOMAIN T = DOMAIN node \cup {n + 1} /\ T[n + 1].kind = g.kind
      /\ \A i \in DOMAIN node : i \in DOMAIN T /\ T[i] = node[i]
  BY <1>1, <1>2 DEF Inserted
<1> HIDE DEF T, e
<1>6. /\ DOMAIN node' = DOMAIN T \cup {(n + 1) + 1}
      /\ node'[(n + 1) + 1].kind = c.kind
      /\ \A i \in DOMAIN T : i # (n + 1) + 1 => node'[i] = T[i]
  BY <1>3 DEF Inserted
<1>7. (n + 1) + 1 \notin DOMAIN T
  BY <1>1, <1>2, <1>5
<1>8. /\ \A i \in DOMAIN node : i \in DOMAIN node' /\ node'[i] = node[i]
      /\ \A i \in DOMAIN node' \ DOMAIN node : node'[i].kind # "manual_task"
  BY <1>4, <1>5, <1>6, <1>7
<1> QED BY <1>3, <1>8, OtherStepsKeepTasks

LEMMA RevocationKeepsTasks ==
    ASSUME LedgerInv, OneTaskPerKey, NEW R, node' = Revoked(R), outbox' = Recalled(R)
    PROVE  OneTaskPerKey'
<1>1. DOMAIN outbox' = DOMAIN outbox /\ DOMAIN node' = DOMAIN node
  BY RecalledRows DEF LedgerInv, TypeOK, Revoked
<1>2. \A i \in DOMAIN node : /\ node'[i].kind = node[i].kind
                             /\ node'[i].scope = node[i].scope
                             /\ node'[i].body = node[i].body
  BY DEF Revoked, LedgerInv, TypeOK, Node
<1> QED BY <1>1, <1>2, OtherStepsKeepTasks

LEMMA CreationKeepsTasks ==
    ASSUME LedgerInv, OneTaskPerKey, NEW s, NEW cl, NEW b, NEW x, NEW t, NEW expected,
           CreateManualTask(s, cl, b, x, t, expected)
    PROVE  OneTaskPerKey'
<1> DEFINE k == NextId
           c == [scope |-> s, kind |-> "manual_task", parents |-> {cl},
                 expires |-> x, body |-> b]
<1>1. /\ k \notin DOMAIN node
      /\ DOMAIN outbox' = DOMAIN outbox \cup {k}
      /\ node' = Inserted(node, k, c, epoch[s])
      /\ \A i \in DOMAIN outbox : ~ (node[i].scope = s /\ node[i].body.key = b.key)
  BY CreationIsQuiet DEF CreateManualTask, TasksUnder
<1>2. c.kind = "manual_task" /\ c.scope = s /\ c.body = b
  OBVIOUS
<1> HIDE DEF k, c
<1>3. /\ DOMAIN node' = DOMAIN node \cup {k}
      /\ \A i \in DOMAIN node : node'[i] = node[i]
      /\ node'[k].kind = "manual_task" /\ node'[k].scope = s /\ node'[k].body = b
  BY <1>1, <1>2 DEF Inserted
<1>4. DOMAIN outbox \subseteq DOMAIN node
  BY DEF LedgerInv, TypeOK
<1>5. DOMAIN outbox' = {i \in DOMAIN node' : node'[i].kind = "manual_task"}
  BY <1>1, <1>3 DEF OneTaskPerKey
<1>6. ASSUME NEW i \in DOMAIN outbox', NEW j \in DOMAIN outbox',
             node'[i].scope = node'[j].scope, node'[i].body.key = node'[j].body.key
      PROVE  i = j
  BY <1>1, <1>3, <1>4, <1>6 DEF OneTaskPerKey
<1> QED BY <1>5, <1>6 DEF OneTaskPerKey

\* No transaction gives a key a second task.
LEMMA TransactionsKeepTasks ==
    ASSUME LedgerInv, OneTaskPerKey, [Transaction]_ledgerVars
    PROVE  OneTaskPerKey'
<1>1. CASE AnyAppend
  BY <1>1, AppendKeepsTasks DEF AnyAppend
<1>2. CASE AnyAdmission
  <2>1. PICK s \in Scopes, key \in GrantKeys, b \in Bodies, gx \in Nat, ox \in Nat,
             t \in Times, expected \in Expectations :
          AdmitObservation(
            [scope |-> s, kind |-> "grant", parents |-> {}, expires |-> gx, body |-> key],
            [scope |-> s, kind |-> "observation", parents |-> {}, expires |-> ox, body |-> b],
            t, expected)
    BY <1>2 DEF AnyAdmission
  <2> QED BY <2>1, AppendKeepsTasks, AdmissionKeepsTasks
          DEF AdmitObservation, AdmitUnderStoredGrant
<1>3. CASE AnyRevocation
  <2>1. PICK R : node' = Revoked(R) /\ outbox' = Recalled(R)
    BY <1>3 DEF AnyRevocation, Revoke, RevokeGrant, Suppress
  <2> QED BY <2>1, RevocationKeepsTasks
<1>4. CASE AnyTask
  BY <1>4, CreationKeepsTasks DEF AnyTask
<1>5. CASE Work
  <2>1. node' = node
    BY <1>5 DEF Work, ClaimOutbox, BeginDispatch, FinalizeDispatch, WorkerStops
  <2>2. DOMAIN outbox' = DOMAIN outbox
    BY <1>5 DEF Work, ClaimOutbox, BeginDispatch, FinalizeDispatch, WorkerStops
  <2> QED BY <2>1, <2>2, OtherStepsKeepTasks
<1>6. CASE Tick \/ (\E granted \in SUBSET Authorities : ChangePolicy(granted))
           \/ UNCHANGED ledgerVars
  BY <1>6, OtherStepsKeepTasks DEF Tick, ChangePolicy, ledgerVars
<1> QED BY <1>1, <1>2, <1>3, <1>4, <1>5, <1>6 DEF Transaction

\* An idempotency key names at most one task of a scope, whatever is retried, and
\* every stored task has its outbox row (create_manual_task).
THEOREM KeysNameOneTask == Spec => []OneTaskPerKey
<1>1. Init => OneTaskPerKey
  BY DEF Init, OneTaskPerKey
<1>2. LedgerInv /\ OneTaskPerKey /\ [Next]_ledgerVars => OneTaskPerKey'
  BY NextIsTransaction, TransactionsKeepTasks
<1> QED BY <1>1, <1>2, LedgerInvariant, PTL DEF Spec

\* A key names one task, and a task whose evidence was revoked cannot be claimed or
\* started (create_outbox, revoke).
THEOREM TasksStaySound == Spec => []TasksAreSound
BY KeysNameOneTask, RevokedTasksAreOut, PTL DEF TasksAreSound

-----------------------------------------------------------------------------
\* What a dispatch rests on.  begin_outbox_dispatch compares the epoch of the task
\* alone; a decision the task derives from has that same epoch, because a decision
\* is cited only while it is current and only decisions cite decisions.

\* Only decisions cite decisions.
CitesApart == \A k \in Kinds \ EpochBoundKinds : Cites[k] \cap EpochBoundKinds = {}

\* The decisions a node derives from were made in the node's own epoch.
BoundTogether(T) ==
    \A i \in DOMAIN T : \A a \in T[i].lineage :
        T[a].kind \in EpochBoundKinds =>
            T[i].kind \in EpochBoundKinds /\ T[a].epoch = T[i].epoch

NodesAreBound == BoundTogether(node)

\* A content may be inserted at epoch e beside the decisions it cites.
Binds(T, c, e) ==
    /\ c.parents \subseteq DOMAIN T
    /\ \A p \in c.parents : T[p].kind \in EpochBoundKinds =>
          c.kind \in EpochBoundKinds /\ T[p].epoch = e

LEMMA InsertionBindsTogether ==
    ASSUME NEW T, BoundTogether(T), \A i \in DOMAIN T : T[i].lineage \subseteq DOMAIN T,
           NEW k, k \notin DOMAIN T, NEW c, NEW e, Binds(T, c, e)
    PROVE  BoundTogether(Inserted(T, k, c, e))
<1> DEFINE U == Inserted(T, k, c, e)
<1>1. /\ DOMAIN U = DOMAIN T \cup {k}
      /\ \A i \in DOMAIN T : U[i] = T[i]
      /\ U[k].lineage = {k} \cup UNION {T[p].lineage : p \in c.parents}
      /\ U[k].kind = c.kind /\ U[k].epoch = e
  BY DEF Inserted
<1> HIDE DEF U
<1>2. ASSUME NEW i \in DOMAIN T, NEW a \in U[i].lineage, U[a].kind \in EpochBoundKinds
      PROVE  U[i].kind \in EpochBoundKinds /\ U[a].epoch = U[i].epoch
  <2>1. a \in T[i].lineage /\ a \in DOMAIN T /\ U[a] = T[a] /\ U[i] = T[i]
    BY <1>1, <1>2
  <2> QED BY <1>2, <2>1 DEF BoundTogether
<1>3. ASSUME NEW a \in U[k].lineage, U[a].kind \in EpochBoundKinds
      PROVE  U[k].kind \in EpochBoundKinds /\ U[a].epoch = U[k].epoch
  <2>1. CASE a = k
    BY <1>3, <2>1
  <2>2. CASE a # k
    <3>1. PICK p \in c.parents : a \in T[p].lineage
      BY <1>1, <2>2
    <3>2. p \in DOMAIN T /\ a \in DOMAIN T /\ U[a] = T[a]
      BY <1>1, <3>1 DEF Binds
    <3>3. T[p].kind \in EpochBoundKinds /\ T[a].epoch = T[p].epoch
      BY <1>3, <3>1, <3>2 DEF BoundTogether
    <3> QED BY <1>1, <3>2, <3>3 DEF Binds
  <2> QED BY <2>1, <2>2
<1> QED BY <1>1, <1>2, <1>3 DEF BoundTogether, U

\* A valid decision has the epoch of its scope.
LEMMA ValidIsCurrent ==
    ASSUME NEW i, NEW t, Valid(i, t)
    PROVE  /\ i \in DOMAIN node
           /\ node[i].kind \in EpochBoundKinds => node[i].epoch = epoch[node[i].scope]
           /\ node[i].scope \notin suppressed
           /\ \A a \in Ancestors(i) : node[a].state = "VALID" /\ ~ (node[a].expires <= t)
BY DEF Valid, StateOf

\* Supported content cites decisions of its scope's epoch.
LEMMA SupportedBinds ==
    ASSUME NEW c, NEW t, Supported(c, t),
           c.kind \notin EpochBoundKinds =>
              \A p \in c.parents : node[p].kind \notin EpochBoundKinds
    PROVE  Binds(node, c, EpochAfter(c, epoch[c.scope]))
<1>1. \A p \in c.parents : /\ p \in DOMAIN node
                           /\ node[p].kind \in EpochBoundKinds => node[p].epoch = epoch[c.scope]
  BY ValidIsCurrent DEF Supported
<1>2. c.kind \in EpochBoundKinds => EpochAfter(c, epoch[c.scope]) = epoch[c.scope]
  BY DEF EpochAfter, EpochBoundKinds, MaterialKinds
<1> QED BY <1>1, <1>2 DEF Binds

LEMMA AppendBindsTogether ==
    ASSUME LedgerInv, BoundTogether(node), NEW c, NEW t, NEW expected,
           AppendEvidence(c, t, expected),
           c.kind \notin EpochBoundKinds =>
              \A p \in c.parents : node[p].kind \notin EpochBoundKinds
    PROVE  BoundTogether(node')
<1>1. PICK e : e = EpochAfter(c, epoch[c.scope])
  OBVIOUS
<1>2. node' = Inserted(node, NextId, c, e) /\ Supported(c, t)
  BY <1>1 DEF AppendEvidence
<1>3. Binds(node, c, e)
  BY <1>1, <1>2, SupportedBinds
<1>4. \A i \in DOMAIN node : node[i].lineage \subseteq DOMAIN node
  BY DEF LedgerInv, Derived
<1> QED BY <1>2, <1>3, <1>4, FreshIds, InsertionBindsTogether

LEMMA AdmissionBindsTogether ==
    ASSUME LedgerInv, BoundTogether(node), NEW s, NEW key, NEW gx, NEW b, NEW x,
           NEW t, NEW expected,
           AdmitWithNewGrant(
              [scope |-> s, kind |-> "grant", parents |-> {}, expires |-> gx, body |-> key],
              [scope |-> s, kind |-> "observation", parents |-> {}, expires |-> x, body |-> b],
              t, expected)
    PROVE  BoundTogether(node')
<1> DEFINE g == [scope |-> s, kind |-> "grant", parents |-> {}, expires |-> gx, body |-> key]
           o(i) == [scope |-> s, kind |-> "observation", parents |-> {i}, expires |-> x,
                    body |-> b]
<1>1. PICK i, e : i = NextId /\ e = epoch[s]
  OBVIOUS
<1>2. node' = Inserted(Inserted(node, i, g, e + 1), i + 1, o(i), e + 2)
  BY <1>1 DEF AdmitWithNewGrant
<1>3. i \in Nat /\ i \notin DOMAIN node /\ i + 1 \notin DOMAIN node
  BY <1>1, FreshIds
<1>4. PICK T : T = Inserted(node, i, g, e + 1)
  OBVIOUS
<1>5. /\ DOMAIN T = DOMAIN node \cup {i}
      /\ \A j \in DOMAIN node : T[j] = node[j]
      /\ T[i].lineage = {i} /\ T[i].kind = "grant"
  BY <1>3, <1>4 DEF Inserted
<1>6. /\ \A j \in DOMAIN node : node[j].lineage \subseteq DOMAIN node
      /\ \A j \in DOMAIN T : T[j].lineage \subseteq DOMAIN T
  BY <1>5 DEF LedgerInv, Derived
<1>7. Binds(node, g, e + 1)
  BY DEF Binds
<1>8. BoundTogether(T)
  <2> HIDE DEF g
  <2> QED BY <1>3, <1>4, <1>6, <1>7, InsertionBindsTogether
<1>9. Binds(T, o(i), e + 2)
  BY <1>5 DEF Binds, EpochBoundKinds
<1>10. node' = Inserted(T, i + 1, o(i), e + 2) /\ i + 1 \notin DOMAIN T
  BY <1>2, <1>3, <1>4, <1>5
<1> HIDE DEF o
<1> QED BY <1>6, <1>8, <1>9, <1>10, InsertionBindsTogether

\* What neither stores nor rebinds a node keeps them together.
LEMMA OtherStepsBindTogether ==
    ASSUME LedgerInv, BoundTogether(node), NEW N, DOMAIN N = DOMAIN node,
           \A i \in DOMAIN node : /\ N[i].kind = node[i].kind
                                  /\ N[i].epoch = node[i].epoch
                                  /\ N[i].lineage = node[i].lineage
    PROVE  BoundTogether(N)
BY DEF BoundTogether, LedgerInv, Derived

LEMMA BindingNext ==
    ASSUME CitesApart, LedgerInv, BoundTogether(node), [Next]_ledgerVars
    PROVE  BoundTogether(node')
<1>1. CASE AppendAny
  <2>1. PICK k \in Kinds \ {"manual_task"}, s \in Scopes, x \in Expiries, t \in Readings :
          \E ps \in SUBSET Citable(k), b \in BodyOf(k) :
            AppendEvidence([scope |-> s, kind |-> k, parents |-> ps, expires |-> x, body |-> b],
                           t, AnyEpoch)
    BY <1>1 DEF AppendAny
  <2>2. PICK ps \in SUBSET Citable(k), b \in BodyOf(k) :
          AppendEvidence([scope |-> s, kind |-> k, parents |-> ps, expires |-> x, body |-> b],
                         t, AnyEpoch)
    BY <2>1
  <2> DEFINE c == [scope |-> s, kind |-> k, parents |-> ps, expires |-> x, body |-> b]
  <2>3. c.kind = k /\ c.parents = ps
    OBVIOUS
  <2>4. k \notin EpochBoundKinds => \A p \in ps : node[p].kind \notin EpochBoundKinds
    BY DEF CitesApart, Citable
  <2>5. AppendEvidence(c, t, AnyEpoch)
    BY <2>2
  <2> HIDE DEF c
  <2> QED BY <2>3, <2>4, <2>5, AppendBindsTogether
<1>2. CASE Admit
  <2>1. PICK s \in Scopes, key \in GrantKeys, b \in Bodies, gx \in Expiries, ox \in Expiries,
             t \in Readings :
          AdmitObservation(
            [scope |-> s, kind |-> "grant", parents |-> {}, expires |-> gx, body |-> key],
            [scope |-> s, kind |-> "observation", parents |-> {}, expires |-> ox, body |-> b],
            t, AnyEpoch)
    BY <1>2 DEF Admit
  <2> DEFINE g == [scope |-> s, kind |-> "grant", parents |-> {}, expires |-> gx, body |-> key]
             o(i) == [scope |-> s, kind |-> "observation", parents |-> {i}, expires |-> ox,
                      body |-> b]
  <2>2. CASE \E i \in Same(g) : AppendEvidence(o(i), t, AnyEpoch)
    <3>1. PICK i \in Same(g) : AppendEvidence(o(i), t, AnyEpoch)
      BY <2>2
    <3>2. o(i).parents = {i} /\ node[i].kind = "grant"
      BY DEF Same
    <3>3. \A p \in o(i).parents : node[p].kind \notin EpochBoundKinds
      BY <3>2 DEF EpochBoundKinds
    <3> HIDE DEF o, g
    <3> QED BY <3>1, <3>3, AppendBindsTogether
  <2> QED BY <2>1, <2>2, AdmissionBindsTogether DEF AdmitObservation, AdmitUnderStoredGrant
<1>3. CASE \/ \E i \in DOMAIN node : Revoke(i, AnyEpoch)
           \/ \E key \in GrantKeys : RevokeGrant(key)
           \/ \E s \in Scopes : Suppress(s, AnyEpoch)
  <2>1. PICK R : node' = Revoked(R)
    BY <1>3 DEF Revoke, RevokeGrant, Suppress
  <2>2. /\ DOMAIN node' = DOMAIN node
        /\ \A i \in DOMAIN node : /\ node'[i].kind = node[i].kind
                                  /\ node'[i].epoch = node[i].epoch
                                  /\ node'[i].lineage = node[i].lineage
    BY <2>1 DEF Revoked, LedgerInv, TypeOK, Node
  <2> QED BY <2>2, OtherStepsBindTogether
<1>4. CASE MakeTask
  <2>1. PICK s \in Scopes, cl \in DOMAIN node, b \in TaskBody, x \in Expiries, t \in Readings :
          CreateManualTask(s, cl, b, x, t, AnyEpoch)
    BY <1>4 DEF MakeTask
  <2> DEFINE c == [scope |-> s, kind |-> "manual_task", parents |-> {cl},
                   expires |-> x, body |-> b]
  <2>2. PICK e : e = epoch[s]
    OBVIOUS
  <2>3. node' = Inserted(node, NextId, c, e) /\ Supported(c, t)
    BY <2>1, <2>2 DEF CreateManualTask
  <2>4. /\ c.scope = s /\ c.kind \in EpochBoundKinds
        /\ EpochAfter(c, epoch[c.scope]) = e
    BY <2>2 DEF EpochBoundKinds, EpochAfter, MaterialKinds
  <2> HIDE DEF c
  <2>5. Binds(node, c, e)
    BY <2>3, <2>4, SupportedBinds
  <2>6. \A i \in DOMAIN node : node[i].lineage \subseteq DOMAIN node
    BY DEF LedgerInv, Derived
  <2> QED BY <2>3, <2>5, <2>6, FreshIds, InsertionBindsTogether
<1>5. CASE Work \/ Tick \/ (\E granted \in SUBSET Authorities : ChangePolicy(granted))
           \/ UNCHANGED ledgerVars
  <2>1. node' = node
    BY <1>5 DEF Work, ClaimOutbox, BeginDispatch, FinalizeDispatch, WorkerStops, Tick,
                ChangePolicy, ledgerVars
  <2> QED BY <2>1
<1> QED BY <1>1, <1>2, <1>3, <1>4, <1>5 DEF Next

\* A dispatch begins for one task, on evidence that stands at the caller's reading
\* of the clock and on decisions of the scope's present epoch.
LEMMA BeginRests ==
    ASSUME LedgerInv, OneTaskPerKey, BoundTogether(node),
           NEW w \in Workers, NEW t \in Readings, BeginDispatch(w, t),
           NEW i \in DOMAIN outbox, outbox[i].status # "DISPATCHING",
           outbox'[i].status = "DISPATCHING"
    PROVE  /\ node[i].scope \notin suppressed
           /\ node[i].body.authority \in authorized
           /\ \A a \in Ancestors(i) :
                /\ node[a].state = "VALID"
                /\ clock < node[a].expires + MaxLag
                /\ node[a].kind \in EpochBoundKinds => node[a].epoch = epoch[node[i].scope]
<1>1. i = held[w].item
  BY BeginStarts DEF Starts
<1>2. Valid(i, t) /\ node[i].body.authority \in authorized
  BY <1>1 DEF BeginDispatch
<1>3. i \in DOMAIN node /\ node[i].kind \in EpochBoundKinds
  BY DEF OneTaskPerKey, EpochBoundKinds
<1>4. /\ node[i].epoch = epoch[node[i].scope] /\ node[i].scope \notin suppressed
      /\ \A a \in Ancestors(i) : node[a].state = "VALID" /\ ~ (node[a].expires <= t)
  BY <1>2, <1>3, ValidIsCurrent
<1>5. \A a \in Ancestors(i) : node[a].kind \in EpochBoundKinds =>
          node[a].epoch = epoch[node[i].scope]
  BY <1>3, <1>4 DEF BoundTogether, Ancestors
<1>6. ASSUME NEW a \in Ancestors(i) PROVE clock < node[a].expires + MaxLag
  <2>1. a \in DOMAIN node /\ node[a].expires \in Nat
    BY <1>3, <1>6 DEF LedgerInv, Derived, TypeOK, Node, Ancestors
  <2>2. t \in Nat /\ clock \in Nat /\ clock <= t + MaxLag /\ MaxLag \in Nat
    BY BoundsAssumption DEF Readings, Times, LedgerInv, TypeOK
  <2> QED BY <1>4, <1>6, <2>1, <2>2
<1> QED BY <1>2, <1>4, <1>5, <1>6

\* External I/O starts only for a task whose evidence is valid and was not expired
\* at the worker's reading of the clock, whose decisions all belong to the scope's
\* present epoch, and whose operator is still authorized (begin_outbox_dispatch).
THEOREM DispatchesRestOnTheCurrentDecision ==
    ASSUME CitesApart PROVE Spec => DispatchRestsOnTheCurrentDecision
<1>1. Init => NodesAreBound
  BY DEF Init, NodesAreBound, BoundTogether
<1>2. LedgerInv /\ NodesAreBound /\ [Next]_ledgerVars => NodesAreBound'
  BY BindingNext DEF NodesAreBound
<1>3. LedgerInv /\ OneTaskPerKey /\ NodesAreBound /\ [Next]_ledgerVars =>
      [\A i \in DOMAIN outbox :
          outbox[i].status # "DISPATCHING" /\ outbox'[i].status = "DISPATCHING" =>
            /\ node[i].scope \notin suppressed
            /\ node[i].body.authority \in authorized
            /\ \A a \in Ancestors(i) :
                /\ node[a].state = "VALID"
                /\ clock < node[a].expires + MaxLag
                /\ node[a].kind \in EpochBoundKinds => node[a].epoch = epoch[node[i].scope]
      ]_ledgerVars
  <2> SUFFICES ASSUME LedgerInv, OneTaskPerKey, NodesAreBound, [Next]_ledgerVars,
                      NEW i \in DOMAIN outbox, outbox[i].status # "DISPATCHING",
                      outbox'[i].status = "DISPATCHING"
               PROVE  /\ node[i].scope \notin suppressed
                      /\ node[i].body.authority \in authorized
                      /\ \A a \in Ancestors(i) :
                          /\ node[a].state = "VALID"
                          /\ clock < node[a].expires + MaxLag
                          /\ node[a].kind \in EpochBoundKinds =>
                                node[a].epoch = epoch[node[i].scope]
    OBVIOUS
  <2>1. ~ Quiet /\ ~ UNCHANGED outbox
    BY DEF Quiet, RowMove
  <2> QED BY <2>1, OnlyBeginStarts, BeginRests DEF NodesAreBound
<1> QED BY <1>1, <1>2, <1>3, LedgerInvariant, KeysNameOneTask,
           PTL DEF Spec, DispatchRestsOnTheCurrentDecision

-----------------------------------------------------------------------------
\* The reference ledger.  Its walk over the edges goes as many steps as there are
\* nodes; it finds the least set that holds the node and the parents of its
\* members, because each step before the last that finds no such set adds a node.

LEMMA LeastMember ==
    ASSUME NEW S \in SUBSET Nat, S # {}
    PROVE  \E x \in S : \A y \in S : x <= y
<1>1. PICK x \in S : \A y \in Nat : <<y, x>> \in OpToRel(<, Nat) => y \notin S
  BY NatLessThanWellFounded, WFMin
<1>2. ASSUME NEW y \in S PROVE x <= y
  <2>1. x \in Nat /\ y \in Nat
    OBVIOUS
  <2>2. <<y, x>> \notin OpToRel(<, Nat)
    BY <1>1
  <2> QED BY <2>1, <2>2 DEF OpToRel
<1> QED BY <1>2

\* Induction, for a property given as the set of the numbers that have it.
LEMMA EachStep ==
    ASSUME NEW N \in Nat, NEW P, 0 \in P, \A n \in 0 .. N : n < N /\ n \in P => n + 1 \in P
    PROVE  0 .. N \subseteq P
<1> DEFINE B == {n \in 0 .. N : n \notin P}
<1>1. SUFFICES ASSUME B # {} PROVE FALSE
  OBVIOUS
<1>2. PICK x \in B : \A y \in B : x <= y
  <2>1. B \in SUBSET Nat
    OBVIOUS
  <2> QED BY <1>1, <2>1, LeastMember
<1>3. x \in 0 .. N /\ x \notin P /\ x # 0
  BY <1>2
<1>4. x - 1 \in 0 .. N /\ x - 1 < N /\ x - 1 \notin B
  BY <1>2, <1>3
<1> QED BY <1>3, <1>4

\* One step up the edges, and n of them from i.
Up(d, S) == UNION {{j} \cup d[j].parents : j \in S}

Climbs(g, d, i, n) ==
    g = [m \in 0 .. n |-> IF m = 0 THEN {i}
                          ELSE UNION {{j} \cup d[j].parents : j \in g[m - 1]}]

LEMMA ClimbExists ==
    ASSUME NEW d, NEW i, NEW N \in Nat
    PROVE  \E g : Climbs(g, d, i, N)
<1> DEFINE P == {n \in 0 .. N : \E g : Climbs(g, d, i, n)}
<1>1. 0 \in P
  <2>1. Climbs([m \in 0 .. 0 |-> {i}], d, i, 0)
    BY DEF Climbs
  <2> QED BY <2>1
<1>2. ASSUME NEW n \in 0 .. N, n < N, n \in P PROVE n + 1 \in P
  <2>1. PICK g : Climbs(g, d, i, n)
    BY <1>2
  <2> DEFINE h == [m \in 0 .. n + 1 |-> IF m = n + 1 THEN Up(d, g[n]) ELSE g[m]]
  <2>2. ASSUME NEW m \in 0 .. n + 1
        PROVE  h[m] = IF m = 0 THEN {i} ELSE UNION {{j} \cup d[j].parents : j \in h[m - 1]}
    <3>1. CASE m = n + 1
      <4>1. h[m - 1] = g[n] /\ h[m] = Up(d, g[n])
        BY <3>1
      <4> QED BY <3>1, <4>1 DEF Up
    <3>2. CASE m # n + 1
      <4>1. m \in 0 .. n /\ h[m] = g[m] /\ (m # 0 => m - 1 \in 0 .. n /\ h[m - 1] = g[m - 1])
        BY <3>2
      <4> QED BY <2>1, <4>1 DEF Climbs
    <3> QED BY <3>1, <3>2
  <2>3. Climbs(h, d, i, n + 1)
    BY <2>2 DEF Climbs
  <2> QED BY <1>2, <2>3
<1> HIDE DEF P
<1>3. 0 .. N \subseteq P
  BY <1>1, <1>2, EachStep
<1> QED BY <1>3 DEF P

LEMMA GraphCardinality == ASSUME NEW S PROVE Graph!Cardinality(S) = Cardinality(S)
BY DEF Graph!Cardinality, Cardinality

\* The walk is the last of these steps.
WalkedBy(g, d, i, N) ==
    /\ g[0] = {i} /\ Graph!Walk(d, i) = g[N]
    /\ \A n \in 0 .. N : n < N => g[n + 1] = Up(d, g[n])

LEMMA WalkClimbs ==
    ASSUME NEW d, NEW i, NEW N \in Nat, N = Cardinality(DOMAIN d)
    PROVE  \E g : WalkedBy(g, d, i, N)
<1> DEFINE f == CHOOSE g : g = [m \in 0 .. N |->
                   IF m = 0 THEN {i} ELSE UNION {{j} \cup d[j].parents : j \in g[m - 1]}]
<1>1. \E g : g = [m \in 0 .. N |->
                   IF m = 0 THEN {i} ELSE UNION {{j} \cup d[j].parents : j \in g[m - 1]}]
  <2>1. PICK g : Climbs(g, d, i, N)
    BY ClimbExists
  <2> QED BY <2>1 DEF Climbs
<1>2. f = [m \in 0 .. N |->
             IF m = 0 THEN {i} ELSE UNION {{j} \cup d[j].parents : j \in f[m - 1]}]
  BY <1>1
<1>3. Graph!Walk(d, i) = f[N]
  <2>1. Graph!Cardinality(DOMAIN d) = N
    BY GraphCardinality
  <2> QED BY <2>1 DEF Graph!Walk
<1> HIDE DEF f
<1>4. f[0] = {i}
  BY <1>2
<1>5. ASSUME NEW n \in 0 .. N, n < N PROVE f[n + 1] = Up(d, f[n])
  <2>1. n + 1 \in 0 .. N /\ n + 1 # 0 /\ (n + 1) - 1 = n
    BY <1>5
  <2> QED BY <1>2, <2>1 DEF Up
<1>6. WalkedBy(f, d, i, N)
  BY <1>3, <1>4, <1>5 DEF WalkedBy
<1> QED BY <1>6

\* A finite graph whose edges stay in it.
Edged(d) ==
    IsFiniteSet(DOMAIN d) /\ \A j \in DOMAIN d : d[j].parents \subseteq DOMAIN d

LEMMA WalkIsLeast ==
    ASSUME NEW d, Edged(d), NEW i \in DOMAIN d
    PROVE  /\ i \in Graph!Walk(d, i) /\ Graph!Walk(d, i) \subseteq DOMAIN d
           /\ \A j \in Graph!Walk(d, i) : d[j].parents \subseteq Graph!Walk(d, i)
           /\ \A S : i \in S /\ (\A j \in S \cap DOMAIN d : d[j].parents \subseteq S)
                       => Graph!Walk(d, i) \subseteq S
<1>1. PICK N \in Nat : N = Cardinality(DOMAIN d)
  BY FS_CardinalityType DEF Edged
<1>2. PICK g : /\ g[0] = {i} /\ Graph!Walk(d, i) = g[N]
               /\ \A n \in 0 .. N : n < N => g[n + 1] = Up(d, g[n])
  <2>1. PICK g : WalkedBy(g, d, i, N)
    BY <1>1, WalkClimbs
  <2> QED BY <2>1 DEF WalkedBy
<1> DEFINE Rooted(S) == \A j \in S : d[j].parents \subseteq S
<1>3. ASSUME NEW S, i \in S, \A j \in S \cap DOMAIN d : d[j].parents \subseteq S
      PROVE  \A n \in 0 .. N : g[n] \subseteq S \cap DOMAIN d
  <2> DEFINE P == {n \in 0 .. N : g[n] \subseteq S \cap DOMAIN d}
  <2>1. 0 \in P
    BY <1>1, <1>2, <1>3
  <2>2. ASSUME NEW n \in 0 .. N, n < N, n \in P PROVE n + 1 \in P
    <3>1. g[n + 1] = Up(d, g[n]) /\ g[n] \subseteq S \cap DOMAIN d
      BY <1>2, <2>2
    <3>2. UNION {d[j].parents : j \in g[n]} \subseteq S \cap DOMAIN d
      BY <1>3, <3>1 DEF Edged
    <3> QED BY <1>1, <2>2, <3>1, <3>2 DEF Up
  <2> HIDE DEF P
  <2>3. 0 .. N \subseteq P
    BY <1>1, <2>1, <2>2, EachStep
  <2> QED BY <2>3 DEF P
<1>4. \A n \in 0 .. N : g[n] \subseteq DOMAIN d
  BY <1>3 DEF Edged
<1>5. \A n \in 0 .. N : i \in g[n]
  <2> DEFINE P == {n \in 0 .. N : i \in g[n]}
  <2>1. 0 \in P
    BY <1>1, <1>2
  <2>2. ASSUME NEW n \in 0 .. N, n < N, n \in P PROVE n + 1 \in P
    BY <1>1, <1>2, <2>2 DEF Up
  <2> HIDE DEF P
  <2>3. 0 .. N \subseteq P
    BY <1>1, <2>1, <2>2, EachStep
  <2> QED BY <2>3 DEF P
<1>6. \A n \in 0 .. N : Rooted(g[n]) \/ Cardinality(g[n]) >= n + 1
  <2> DEFINE P == {n \in 0 .. N : Rooted(g[n]) \/ Cardinality(g[n]) >= n + 1}
  <2>1. 0 \in P
    <3>1. Cardinality(g[0]) = 1
      BY <1>2, FS_Singleton
    <3> QED BY <1>1, <3>1
  <2>2. ASSUME NEW n \in 0 .. N, n < N, n \in P PROVE n + 1 \in P
    <3>1. g[n + 1] = Up(d, g[n]) /\ n + 1 \in 0 .. N
      BY <1>1, <1>2, <2>2
    <3>2. CASE Rooted(g[n])
      <4>1. g[n + 1] = g[n]
        BY <3>1, <3>2 DEF Up
      <4> QED BY <3>1, <3>2, <4>1
    <3>3. CASE ~Rooted(g[n])
      <4>1. g[n] \subseteq g[n + 1] /\ g[n] # g[n + 1]
        BY <3>1, <3>3 DEF Up
      <4>2. IsFiniteSet(g[n + 1]) /\ IsFiniteSet(g[n])
        BY <1>4, <3>1, FS_Subset DEF Edged
      <4>3. /\ Cardinality(g[n]) \in Nat /\ Cardinality(g[n + 1]) \in Nat
            /\ Cardinality(g[n]) <= Cardinality(g[n + 1])
            /\ Cardinality(g[n]) # Cardinality(g[n + 1])
        BY <4>1, <4>2, FS_Subset, FS_CardinalityType
      <4>4. Cardinality(g[n]) >= n + 1
        BY <2>2, <3>3
      <4>5. Cardinality(g[n + 1]) >= (n + 1) + 1
        BY <4>3, <4>4
      <4> QED BY <3>1, <4>5
    <3> QED BY <3>2, <3>3
  <2> HIDE DEF P
  <2>3. 0 .. N \subseteq P
    BY <1>1, <2>1, <2>2, EachStep
  <2> QED BY <2>3 DEF P
<1>7. Rooted(g[N])
  <2>1. N \in 0 .. N /\ g[N] \subseteq DOMAIN d
    BY <1>1, <1>4
  <2>2. Cardinality(g[N]) <= N /\ Cardinality(g[N]) \in Nat
    BY <1>1, <2>1, FS_Subset, FS_CardinalityType DEF Edged
  <2>3. ~ (Cardinality(g[N]) >= N + 1)
    BY <1>1, <2>2
  <2> QED BY <1>6, <2>1, <2>3
<1> QED
  <2>1. N \in 0 .. N
    BY <1>1
  <2> QED BY <1>2, <1>3, <1>4, <1>5, <1>7, <2>1

\* A node derives from nodes of the graph that outlive it and, while it is
\* valid, are valid.
Vertices == [content : GraphContents, parents : SUBSET GraphIds, expires : Nat,
             state : {"VALID", "REVOKED"}]

Sound(d) ==
    /\ Edged(d) /\ DOMAIN d \subseteq GraphIds
    /\ \A j \in DOMAIN d :
        /\ d[j] \in Vertices
        /\ \A p \in d[j].parents : /\ d[j].expires <= d[p].expires
                                   /\ d[j].state = "VALID" => d[p].state = "VALID"

\* U is d with one more node, a valid one.
Grown(d, U, i) ==
    /\ Sound(U) /\ DOMAIN U = DOMAIN d \cup {i} /\ U[i].state = "VALID"
    /\ \A j \in DOMAIN d : U[j] = d[j]

GraphInv == Sound(dag) /\ Graph!EachRevocationIsRecordedOnce

\* What a node derives from shares what it has of these.
LEMMA WalkOfSound ==
    ASSUME NEW d, Sound(d), NEW i \in DOMAIN d, NEW a \in Graph!Walk(d, i)
    PROVE  /\ a \in DOMAIN d /\ Graph!Walk(d, a) \subseteq Graph!Walk(d, i)
           /\ d[i].expires <= d[a].expires
           /\ d[i].state = "VALID" => d[a].state = "VALID"
<1>1. Edged(d)
  BY DEF Sound
<1>2. a \in DOMAIN d
  BY <1>1, WalkIsLeast
<1>3. Graph!Walk(d, a) \subseteq Graph!Walk(d, i)
  <2>1. \A j \in Graph!Walk(d, i) \cap DOMAIN d : d[j].parents \subseteq Graph!Walk(d, i)
    BY <1>1, WalkIsLeast
  <2> QED BY <1>1, <1>2, <2>1, WalkIsLeast
<1>4. d[i].expires <= d[a].expires
  <2> DEFINE S == {j \in DOMAIN d : d[i].expires <= d[j].expires}
  <2>1. i \in S
    BY DEF Sound, Vertices
  <2>2. \A j \in S \cap DOMAIN d : d[j].parents \subseteq S
    <3> SUFFICES ASSUME NEW j \in S, NEW p \in d[j].parents PROVE p \in S
      OBVIOUS
    <3>1. p \in DOMAIN d /\ d[j].expires <= d[p].expires
      BY DEF Sound, Edged
    <3>2. d[i].expires \in Nat /\ d[j].expires \in Nat /\ d[p].expires \in Nat
      BY <3>1 DEF Sound, Vertices
    <3> QED BY <3>1, <3>2
  <2> HIDE DEF S
  <2>3. Graph!Walk(d, i) \subseteq S
    BY <1>1, <2>1, <2>2, WalkIsLeast
  <2> QED BY <2>3 DEF S
<1>5. ASSUME d[i].state = "VALID" PROVE d[a].state = "VALID"
  <2> DEFINE S == {j \in DOMAIN d : d[j].state = "VALID"}
  <2>1. i \in S /\ \A j \in S \cap DOMAIN d : d[j].parents \subseteq S
    BY <1>5 DEF Sound, Edged
  <2> HIDE DEF S
  <2>2. Graph!Walk(d, i) \subseteq S
    BY <1>1, <2>1, WalkIsLeast
  <2> QED BY <2>2 DEF S
<1> QED BY <1>2, <1>3, <1>4, <1>5

LEMMA InsertionStaysSound ==
    ASSUME Graph!TimesAssumption, NEW d, Sound(d), NEW i \in GraphIds \ DOMAIN d,
           NEW c \in Graph!Candidate(d), NEW t, Graph!Insertable(d, c, t)
    PROVE  Grown(d, Graph!With(d, i, c), i)
<1>1. PICK U : U = Graph!With(d, i, c)
  OBVIOUS
<1>2. /\ DOMAIN U = DOMAIN d \cup {i} /\ \A j \in DOMAIN d : U[j] = d[j]
      /\ U[i] = [content |-> c.content, parents |-> c.parents, expires |-> c.expires,
                 state |-> "VALID"]
  BY <1>1 DEF Graph!With
<1>3. /\ c.content \in GraphContents /\ c.parents \subseteq DOMAIN d
      /\ c.expires \in Nat /\ DOMAIN d \subseteq GraphIds
  BY DEF Graph!Candidate, Graph!TimesAssumption, Sound
<1>4. U[i] \in Vertices /\ U[i].parents = c.parents /\ U[i].expires = c.expires
      /\ U[i].state = "VALID"
  BY <1>2, <1>3 DEF Vertices
<1>5. Edged(U)
  <2>1. IsFiniteSet(DOMAIN d \cup {i})
    BY FS_AddElement DEF Sound, Edged
  <2> QED BY <1>2, <1>3, <1>4, <2>1 DEF Sound, Edged
<1>6. ASSUME NEW p \in c.parents
      PROVE  c.expires <= d[p].expires /\ d[p].state = "VALID"
  <2>1. Graph!State(d, p, t) = "VALID" /\ c.expires <= d[p].expires /\ p \in DOMAIN d
    BY <1>3 DEF Graph!Insertable
  <2>2. p \in Graph!Walk(d, p)
    BY <2>1, WalkIsLeast DEF Sound
  <2> QED BY <2>1, <2>2 DEF Graph!State
<1>7. ASSUME NEW j \in DOMAIN U
      PROVE  /\ U[j] \in Vertices
             /\ \A p \in U[j].parents : /\ U[j].expires <= U[p].expires
                                        /\ U[j].state = "VALID" => U[p].state = "VALID"
  <2>1. CASE j = i
    <3>1. U[j] \in Vertices
      BY <1>4, <2>1
    <3>2. ASSUME NEW p \in U[j].parents
          PROVE  U[j].expires <= U[p].expires /\ U[p].state = "VALID"
      <4>1. p \in c.parents /\ p \in DOMAIN d /\ U[p] = d[p]
        BY <1>2, <1>3, <1>4, <2>1, <3>2
      <4> QED BY <1>4, <1>6, <2>1, <4>1
    <3> QED BY <3>1, <3>2
  <2>2. CASE j # i
    <3>1. j \in DOMAIN d /\ U[j] = d[j]
      BY <1>2, <2>2
    <3>2. \A p \in d[j].parents : U[p] = d[p]
      BY <1>2, <3>1 DEF Sound, Edged
    <3> QED BY <3>1, <3>2 DEF Sound
  <2> QED BY <2>1, <2>2
<1>8. Sound(U)
  BY <1>2, <1>3, <1>5, <1>7 DEF Sound
<1> QED BY <1>1, <1>2, <1>4, <1>8 DEF Grown

LEMMA RevocationStaysSound ==
    ASSUME GraphInv, Graph!Revoke PROVE GraphInv'
<1>1. PICK R \in SUBSET DOMAIN dag :
        /\ dag' = [i \in DOMAIN dag |-> IF i \in Graph!Revocable(R)
                                        THEN [dag[i] EXCEPT !.state = "REVOKED"] ELSE dag[i]]
        /\ events' = [i \in GraphIds |->
                        IF i \in Graph!Revocable(R) THEN events[i] + 1 ELSE events[i]]
  BY DEF Graph!Revoke
<1>2. PICK V : V = Graph!Revocable(R)
  OBVIOUS
<1>3. /\ V \subseteq DOMAIN dag /\ \A j \in V : dag[j].state = "VALID"
      /\ \A j \in DOMAIN dag : j \in V <=>
            dag[j].state = "VALID" /\ Graph!Walk(dag, j) \cap R # {}
  BY <1>2 DEF Graph!Revocable, Graph!Derived
<1>4. PICK U : U = dag'
  OBVIOUS
<1>5. /\ DOMAIN U = DOMAIN dag
      /\ \A j \in V : U[j] = [dag[j] EXCEPT !.state = "REVOKED"]
      /\ \A j \in DOMAIN dag \ V : U[j] = dag[j]
  BY <1>1, <1>2, <1>3, <1>4
<1>6. ASSUME NEW j \in DOMAIN dag
      PROVE  /\ U[j] \in Vertices /\ U[j].parents = dag[j].parents
             /\ U[j].expires = dag[j].expires
             /\ U[j].state = IF j \in V THEN "REVOKED" ELSE dag[j].state
  <2>1. dag[j] \in Vertices
    BY DEF GraphInv, Sound
  <2> QED BY <1>5, <2>1 DEF Vertices
<1>7. Edged(U)
  BY <1>5, <1>6 DEF GraphInv, Sound, Edged
<1>8. ASSUME NEW j \in DOMAIN dag, NEW p \in dag[j].parents, U[j].state = "VALID"
      PROVE  U[p].state = "VALID"
  <2>1. p \in DOMAIN dag /\ Edged(dag)
    BY DEF GraphInv, Sound, Edged
  <2>2. j \notin V /\ dag[j].state = "VALID" /\ dag[p].state = "VALID"
    BY <1>6, <1>8, <2>1 DEF GraphInv, Sound
  <2>3. p \in Graph!Walk(dag, j)
    BY <2>1, WalkIsLeast
  <2>4. Graph!Walk(dag, p) \subseteq Graph!Walk(dag, j)
    BY <2>3, WalkOfSound DEF GraphInv
  <2>5. p \notin V
    BY <1>3, <2>1, <2>2, <2>4
  <2> QED BY <1>6, <2>1, <2>2, <2>5
<1>9. Sound(U)
  <2>1. ASSUME NEW j \in DOMAIN dag, NEW p \in dag[j].parents
        PROVE  p \in DOMAIN dag /\ U[j].expires <= U[p].expires
    <3>1. p \in DOMAIN dag /\ dag[j].expires <= dag[p].expires
      BY DEF GraphInv, Sound, Edged
    <3> QED BY <1>6, <3>1
  <2> QED BY <1>5, <1>6, <1>7, <1>8, <2>1 DEF GraphInv, Sound
<1>10. Graph!EachRevocationIsRecordedOnce'
  <2>1. ASSUME NEW i \in GraphIds
        PROVE  events'[i] = IF i \in DOMAIN U /\ U[i].state = "REVOKED" THEN 1 ELSE 0
    <3>1. events'[i] = IF i \in V THEN events[i] + 1 ELSE events[i]
      BY <1>1, <1>2
    <3>2. events[i] = IF i \in DOMAIN dag /\ dag[i].state = "REVOKED" THEN 1 ELSE 0
      BY DEF GraphInv, Graph!EachRevocationIsRecordedOnce
    <3> QED BY <1>3, <1>5, <1>6, <3>1, <3>2
  <2> QED BY <1>4, <2>1 DEF Graph!EachRevocationIsRecordedOnce
<1> QED BY <1>4, <1>9, <1>10 DEF GraphInv, Sound, Edged

LEMMA GraphNext ==
    ASSUME Graph!TimesAssumption, GraphInv, [Graph!Next]_Graph!vars PROVE GraphInv'
<1>1. ASSUME NEW U, Sound(U), dag' = U, UNCHANGED events, DOMAIN dag \subseteq DOMAIN U,
             \A j \in DOMAIN dag : U[j] = dag[j],
             \A j \in DOMAIN U \ DOMAIN dag : U[j].state = "VALID"
      PROVE  GraphInv'
  <2>1. Sound(dag)'
    BY <1>1 DEF Sound, Edged
  <2>2. Graph!EachRevocationIsRecordedOnce'
    BY <1>1 DEF GraphInv, Graph!EachRevocationIsRecordedOnce
  <2> QED BY <2>1, <2>2 DEF GraphInv
<1>2. CASE Graph!Insert
  <2>1. PICK i \in GraphIds \ DOMAIN dag, c \in Graph!Candidate(dag), t \in GraphTimes :
          Graph!Insertable(dag, c, t) /\ dag' = Graph!With(dag, i, c)
    BY <1>2 DEF Graph!Insert
  <2>2. UNCHANGED events
    BY <1>2 DEF Graph!Insert
  <2>3. PICK U : U = Graph!With(dag, i, c)
    OBVIOUS
  <2>4. Grown(dag, U, i)
    <3>1. Sound(dag)
      BY DEF GraphInv
    <3> QED BY <2>1, <2>3, <3>1, InsertionStaysSound
  <2> QED BY <1>1, <2>1, <2>2, <2>3, <2>4 DEF Grown
<1>3. CASE Graph!InsertTwo
  <2>1. PICK i \in GraphIds \ DOMAIN dag, j \in GraphIds \ DOMAIN dag,
             c \in Graph!Candidate(dag), t \in GraphTimes,
             x \in GraphExpiries, body \in GraphContents :
          /\ i # j /\ Graph!Insertable(dag, c, t)
          /\ Graph!Insertable(Graph!With(dag, i, c),
                              [content |-> body, parents |-> {i}, expires |-> x], t)
          /\ dag' = Graph!With(Graph!With(dag, i, c), j,
                               [content |-> body, parents |-> {i}, expires |-> x])
    BY <1>3 DEF Graph!InsertTwo
  <2>2. UNCHANGED events
    BY <1>3 DEF Graph!InsertTwo
  <2>3. PICK U, e, W : /\ U = Graph!With(dag, i, c)
                       /\ e = [content |-> body, parents |-> {i}, expires |-> x]
                       /\ W = Graph!With(U, j, e)
    OBVIOUS
  <2>4. Grown(dag, U, i)
    <3>1. Sound(dag)
      BY DEF GraphInv
    <3> QED BY <2>1, <2>3, <3>1, InsertionStaysSound
  <2>5. e \in Graph!Candidate(U) /\ Graph!Insertable(U, e, t) /\ j \in GraphIds \ DOMAIN U
    BY <2>1, <2>3, <2>4 DEF Graph!Candidate, Grown
  <2>6. Grown(U, W, j)
    <3>1. Sound(U)
      BY <2>4 DEF Grown
    <3> QED BY <2>3, <2>5, <3>1, InsertionStaysSound
  <2>7. dag' = W
    BY <2>1, <2>3
  <2> QED BY <1>1, <2>2, <2>4, <2>6, <2>7 DEF Grown
<1>4. CASE UNCHANGED Graph!vars
  BY <1>4 DEF Graph!vars, GraphInv, Sound, Edged, Graph!EachRevocationIsRecordedOnce
<1> QED BY <1>2, <1>3, <1>4, RevocationStaysSound DEF Graph!Next

\* In the reference ledger, whoever reads it with whatever clock and in whatever
\* order overlapping lineages were revoked: a node is valid only while all that it
\* rests on stands and outlives it, nothing valid rests on a revoked node, and
\* each revocation has one event (append, revoke).
THEOREM RevocationsStayWhole ==
    ASSUME Graph!TimesAssumption PROVE Graph!Spec => []RevocationsAreWhole
<1>1. Graph!Init => GraphInv
  <2> SUFFICES ASSUME Graph!Init PROVE GraphInv
    OBVIOUS
  <2>1. DOMAIN dag = {} /\ events = [i \in GraphIds |-> 0]
    BY DEF Graph!Init
  <2>2. IsFiniteSet({})
    BY FS_EmptySet
  <2> QED BY <2>1, <2>2 DEF GraphInv, Sound, Edged, Graph!EachRevocationIsRecordedOnce
<1>2. GraphInv /\ [Graph!Next]_Graph!vars => GraphInv'
  BY GraphNext
<1>3. GraphInv => Graph!RevocationsAreWhole
  <2> SUFFICES ASSUME GraphInv PROVE Graph!RevocationsAreWhole
    OBVIOUS
  <2>1. Graph!ValidityIsInherited
    <3> SUFFICES ASSUME NEW i \in DOMAIN dag, NEW t \in GraphTimes,
                        Graph!State(dag, i, t) = "VALID", NEW a \in Graph!Walk(dag, i)
                 PROVE  Graph!State(dag, a, t) = "VALID" /\ dag[i].expires <= dag[a].expires
      BY DEF Graph!ValidityIsInherited
    <3>1. /\ a \in DOMAIN dag /\ Graph!Walk(dag, a) \subseteq Graph!Walk(dag, i)
          /\ dag[i].expires <= dag[a].expires
      BY WalkOfSound DEF GraphInv
    <3> QED BY <3>1 DEF Graph!State
  <2>2. Graph!NothingStandsOnRevoked
    BY WalkOfSound DEF GraphInv, Graph!NothingStandsOnRevoked
  <2> QED BY <2>1, <2>2 DEF GraphInv, Graph!RevocationsAreWhole
<1> QED BY <1>1, <1>2, <1>3, PTL DEF Graph!Spec, RevocationsAreWhole


-----------------------------------------------------------------------------
\* The ledger implements the reference.

LEMMA SameWalk == ASSUME NEW d, NEW i PROVE Reference!Walk(d, i) = Graph!Walk(d, i)
<1>1. Reference!Cardinality(DOMAIN d) = Graph!Cardinality(DOMAIN d)
  BY DEF Reference!Cardinality, Graph!Cardinality
<1> QED BY <1>1 DEF Reference!Walk, Graph!Walk

\* The walk over the stored edges finds the kept lineage.
LEMMA WalkIsLineage ==
    ASSUME LedgerInv, LineageIsTheWalk, NEW i \in DOMAIN node
    PROVE  Reference!Walk(dagOf, i) = node[i].lineage
<1>1. PICK d : d = dagOf
  OBVIOUS
<1>2. DOMAIN d = DOMAIN node /\ \A j \in DOMAIN node : d[j].parents = node[j].parents
  BY <1>1 DEF dagOf
<1>3. \A j \in DOMAIN node :
        /\ j \in node[j].lineage /\ node[j].parents \subseteq node[j].lineage
        /\ node[j].lineage \subseteq DOMAIN node
        /\ \A a \in node[j].lineage : node[a].lineage \subseteq node[j].lineage
  BY DEF LedgerInv, Derived
<1>4. Edged(d)
  <2>1. PICK n \in 0 .. MaxNodes : DOMAIN node = 1 .. n
    BY DEF LedgerInv, Consecutive
  <2>2. IsFiniteSet(1 .. n)
    BY <2>1, FS_Interval, BoundsAssumption
  <2> QED BY <1>2, <1>3, <2>1, <2>2 DEF Edged
<1>5. Graph!Walk(d, i) \subseteq node[i].lineage
  <2>1. \A j \in node[i].lineage \cap DOMAIN d : d[j].parents \subseteq node[i].lineage
    BY <1>2, <1>3
  <2> QED BY <1>2, <1>3, <1>4, <2>1, WalkIsLeast
<1>6. node[i].lineage \subseteq Graph!Walk(d, i)
  <2>1. PICK S : S = Graph!Walk(d, i)
    OBVIOUS
  <2>2. i \in S /\ S \subseteq DOMAIN node /\ \A j \in S : node[j].parents \subseteq S
    <3>1. i \in S /\ S \subseteq DOMAIN d /\ \A j \in S : d[j].parents \subseteq S
      BY <1>2, <1>4, <2>1, WalkIsLeast
    <3> QED BY <1>2, <3>1
  <2>3. \A j \in node[i].lineage : j \in S
    BY <2>2 DEF LineageIsTheWalk
  <2> QED BY <2>1, <2>3
<1> QED BY <1>1, <1>5, <1>6, SameWalk

LEMMA ValidForReference ==
    ASSUME LedgerInv, LineageIsTheWalk, NEW p \in DOMAIN node, NEW t, Valid(p, t)
    PROVE  Reference!State(dagOf, p, t) = "VALID"
<1>1. /\ \A a \in node[p].lineage : node[a].state = "VALID" /\ ~ (node[a].expires <= t)
      /\ node[p].lineage \subseteq DOMAIN node
  BY DEF Valid, StateOf, Ancestors, LedgerInv, Derived
<1>2. PICK d : d = dagOf
  OBVIOUS
<1>3. DOMAIN d = DOMAIN node
      /\ \A j \in DOMAIN node : d[j].state = node[j].state /\ d[j].expires = node[j].expires
  BY <1>2 DEF dagOf
<1>4. Reference!Walk(d, p) = node[p].lineage
  BY <1>2, WalkIsLineage
<1>5. Reference!State(d, p, t) = "VALID"
  BY <1>1, <1>3, <1>4 DEF Reference!State
<1> QED BY <1>2, <1>5

\* What the reference sees of a content.
Seen(c) == [content |-> <<c.scope, c.kind, c.body>>, parents |-> c.parents, expires |-> c.expires]

LEMMA SeenIsCandidate ==
    ASSUME LedgerInv, LineageIsTheWalk, NEW c, c.scope \in Scopes, c.kind \in Kinds,
           c.body \in StoredBody(c.kind), c.expires \in Expiries, NEW t, c.expires > t, Supported(c, t),
           Same(c) = {}
    PROVE  Seen(c) \in Reference!Candidate(dagOf) /\ Reference!Insertable(dagOf, Seen(c), t)
<1>1. PICK d, r : d = dagOf /\ r = Seen(c)
  OBVIOUS
<1>2. DOMAIN d = DOMAIN node
      /\ \A j \in DOMAIN node :
           /\ d[j].content = <<node[j].scope, node[j].kind, node[j].body>>
           /\ d[j].parents = node[j].parents /\ d[j].expires = node[j].expires
  BY <1>1 DEF dagOf
<1>3. r.content = <<c.scope, c.kind, c.body>> /\ r.parents = c.parents /\ r.expires = c.expires
  BY <1>1 DEF Seen
<1>4. c.parents \subseteq DOMAIN node
  BY DEF Supported, Valid, StateOf
<1>5. r \in Reference!Candidate(d)
  <2>1. c.body \in Body
    BY DEF StoredBody, BodyOf, Body
  <2>2. <<c.scope, c.kind, c.body>> \in EvidenceContents
    BY <2>1 DEF EvidenceContents
  <2> QED BY <1>1, <1>2, <1>4, <2>2 DEF Reference!Candidate, Seen
<1>6. \A j \in DOMAIN d :
        d[j].content # r.content \/ d[j].parents # r.parents \/ d[j].expires # r.expires
  BY <1>2, <1>3 DEF Same
<1>7. \A p \in r.parents : Reference!State(d, p, t) = "VALID" /\ r.expires <= d[p].expires
  BY <1>1, <1>2, <1>3, <1>4, ValidForReference DEF Supported
<1>8. Reference!Insertable(d, r, t)
  BY <1>3, <1>6, <1>7 DEF Reference!Insertable
<1> QED BY <1>1, <1>5, <1>8

\* What the reference sees of a table into which a content is inserted.
LEMMA InsertionIsSeen ==
    ASSUME NEW k \in Ids, k \notin DOMAIN node, NEW c, NEW e, node' = Inserted(node, k, c, e)
    PROVE  dagOf' = Reference!With(dagOf, k, Seen(c)) /\ eventsOf' = eventsOf
<1>1. /\ DOMAIN node' = DOMAIN node \cup {k} /\ \A j \in DOMAIN node : node'[j] = node[j]
      /\ node'[k].scope = c.scope /\ node'[k].kind = c.kind /\ node'[k].body = c.body
      /\ node'[k].parents = c.parents /\ node'[k].expires = c.expires
      /\ node'[k].state = "VALID"
  BY DEF Inserted
<1>2. dagOf' = Reference!With(dagOf, k, Seen(c))
  BY <1>1 DEF dagOf, Reference!With, Seen
<1>3. eventsOf' = eventsOf
  BY <1>1 DEF eventsOf
<1> QED BY <1>2, <1>3

LEMMA NextIds ==
    ASSUME LedgerInv
    PROVE  /\ NextId <= MaxNodes => NextId \in Ids /\ NextId \notin DOMAIN node
           /\ NextId + 1 <= MaxNodes => NextId + 1 \in Ids /\ NextId + 1 \notin DOMAIN node
           /\ NextId \in Nat /\ IsFiniteSet(DOMAIN node)
<1>1. PICK n \in 0 .. MaxNodes : DOMAIN node = 1 .. n
  BY DEF LedgerInv, Consecutive
<1>2. n \in Nat /\ MaxNodes \in Nat /\ NextId = n + 1
  BY <1>1, FreshId, BoundsAssumption
<1>3. IsFiniteSet(1 .. n)
  BY <1>2, FS_Interval
<1> QED BY <1>1, <1>2, <1>3 DEF Ids

LEMMA AppendIsInsert ==
    ASSUME LedgerInv, LineageIsTheWalk, NEW c, c.scope \in Scopes, c.kind \in Kinds,
           c.body \in StoredBody(c.kind), c.expires \in Expiries, NEW t \in Times, c.expires > t,
           Supported(c, t), Same(c) = {}, NextId <= MaxNodes, NEW e,
           node' = Inserted(node, NextId, c, e)
    PROVE  Reference!Insert
<1>1. NextId \in Ids /\ NextId \notin DOMAIN node
  BY NextIds
<1>2. Seen(c) \in Reference!Candidate(dagOf) /\ Reference!Insertable(dagOf, Seen(c), t)
  BY SeenIsCandidate
<1>3. dagOf' = Reference!With(dagOf, NextId, Seen(c)) /\ eventsOf' = eventsOf
  BY <1>1, InsertionIsSeen
<1>4. DOMAIN dagOf = DOMAIN node
  BY DEF dagOf
<1> QED BY <1>1, <1>2, <1>3, <1>4 DEF Reference!Insert

\* The nodes a request reaches, with their events.
LEMMA RevocationIsRevoke ==
    ASSUME LedgerInv, LineageIsTheWalk, NEW R \in SUBSET DOMAIN node,
           node' = Revoked(Reached(R))
    PROVE  Reference!Revoke
<1>1. PICK d, V : d = dagOf /\ V = Reached(R)
  OBVIOUS
<1>2. DOMAIN d = DOMAIN node
      /\ \A j \in DOMAIN node :
           d[j] = [content |-> <<node[j].scope, node[j].kind, node[j].body>>,
                   parents |-> node[j].parents, expires |-> node[j].expires,
                   state |-> node[j].state]
  BY <1>1 DEF dagOf
<1>3. \A j \in DOMAIN node : Reference!Walk(d, j) = node[j].lineage
  BY <1>1, WalkIsLineage
<1>4. Reference!Revocable(R) = V
  BY <1>1, <1>2, <1>3 DEF Reference!Revocable, Reference!Derived, Reached, Descendants
<1>5. V \subseteq DOMAIN node /\ \A j \in V : node[j].state = "VALID"
  BY <1>1 DEF Reached, Descendants
<1>6. DOMAIN node' = DOMAIN node
      /\ \A j \in DOMAIN node :
           /\ node'[j].scope = node[j].scope /\ node'[j].kind = node[j].kind
           /\ node'[j].body = node[j].body /\ node'[j].parents = node[j].parents
           /\ node'[j].expires = node[j].expires
           /\ node'[j].state = IF j \in V THEN "REVOKED" ELSE node[j].state
  BY <1>1 DEF Revoked, LedgerInv, TypeOK, Node
<1>7. dagOf' = [j \in DOMAIN d |-> IF j \in V THEN [d[j] EXCEPT !.state = "REVOKED"] ELSE d[j]]
  <2>1. ASSUME NEW j \in DOMAIN node
        PROVE  dagOf'[j] = IF j \in V THEN [d[j] EXCEPT !.state = "REVOKED"] ELSE d[j]
    BY <1>2, <1>6 DEF dagOf
  <2> QED BY <1>2, <1>6, <2>1 DEF dagOf
<1>8. eventsOf' = [j \in Ids |-> IF j \in V THEN eventsOf[j] + 1 ELSE eventsOf[j]]
  BY <1>5, <1>6 DEF eventsOf
<1> QED BY <1>1, <1>2, <1>4, <1>7, <1>8 DEF Reference!Revoke


\* Both insertions of an admission, the observation under the new grant.
LEMMA AdmissionIsInsertTwo ==
    ASSUME LedgerInv, LineageIsTheWalk, NEW s \in Scopes, NEW key \in GrantKeys,
           NEW b \in Bodies, NEW gx \in Expiries, NEW ox \in Expiries, NEW t \in Times,
           NEW expected, "grant" \in Kinds, "observation" \in Kinds,
           AdmitWithNewGrant(
             [scope |-> s, kind |-> "grant", parents |-> {}, expires |-> gx, body |-> key],
             [scope |-> s, kind |-> "observation", parents |-> {}, expires |-> ox, body |-> b],
             t, expected)
    PROVE  Reference!InsertTwo
<1>1. PICK k, e, g, o :
        /\ k = NextId /\ e = epoch[s]
        /\ g = [scope |-> s, kind |-> "grant", parents |-> {}, expires |-> gx, body |-> key]
        /\ o = [scope |-> s, kind |-> "observation", parents |-> {k}, expires |-> ox, body |-> b]
  OBVIOUS
<1>2. /\ gx > t /\ ox > t /\ ox <= gx /\ k + 1 <= MaxNodes
      /\ Same(g) = {} /\ ProjectionKeyFree(o)
      /\ node' = Inserted(Inserted(node, k, g, e + 1), k + 1, o, e + 2)
  <2>1. PICK asked : asked = [scope |-> s, kind |-> "observation", parents |-> {},
                              expires |-> ox, body |-> b]
    OBVIOUS
  <2>2. /\ AdmitWithNewGrant(g, asked, t, expected) /\ g.scope = s /\ g.expires = gx
        /\ asked.scope = s /\ asked.kind = "observation" /\ asked.expires = ox /\ asked.body = b
        /\ o.scope = s /\ o.kind = "observation" /\ o.body = b
    BY <1>1, <2>1
  <2>3. [asked EXCEPT !.parents = {k}] = o
    BY <1>1, <2>1
  <2>4. /\ gx > t /\ ox > t /\ ox <= gx /\ k + 1 <= MaxNodes
        /\ Same(g) = {} /\ ProjectionKeyFree(asked)
        /\ node' = Inserted(Inserted(node, k, g, e + 1), k + 1,
                            [asked EXCEPT !.parents = {k}], e + 2)
    BY <1>1, <2>2 DEF AdmitWithNewGrant
  <2>5. ProjectionKeyFree(o)
    BY <2>2, <2>4 DEF ProjectionKeyFree
  <2> QED BY <2>3, <2>4, <2>5
<1>3. /\ k \in Ids /\ k + 1 \in Ids /\ k # k + 1 /\ k \notin DOMAIN node
      /\ k + 1 \notin DOMAIN node /\ IsFiniteSet(DOMAIN node) /\ MaxNodes \in Nat
  BY <1>1, <1>2, NextIds, BoundsAssumption DEF Ids
<1>4. PICK d, W, r, second :
        /\ d = dagOf /\ r = Seen(g) /\ W = Reference!With(d, k, r)
        /\ second = [content |-> <<s, "observation", b>>, parents |-> {k}, expires |-> ox]
  OBVIOUS
<1>5. /\ g.scope = s /\ g.kind = "grant" /\ g.body = key /\ g.parents = {} /\ g.expires = gx
      /\ o.scope = s /\ o.kind = "observation" /\ o.body = b /\ o.parents = {k}
      /\ o.expires = ox
  BY <1>1
<1>6. r \in Reference!Candidate(d) /\ Reference!Insertable(d, r, t)
  <2>1. g.body \in StoredBody(g.kind)
    BY <1>5 DEF StoredBody, BodyOf
  <2> QED BY <1>2, <1>4, <1>5, <2>1, SeenIsCandidate DEF Supported
<1>7. /\ DOMAIN d = DOMAIN node
      /\ \A j \in DOMAIN node : /\ d[j].content = <<node[j].scope, node[j].kind, node[j].body>>
                                /\ d[j].parents = node[j].parents
  BY <1>4 DEF dagOf
<1>8. /\ DOMAIN W = DOMAIN node \cup {k} /\ \A j \in DOMAIN node : W[j] = d[j]
      /\ W[k].content = <<s, "grant", key>> /\ W[k].parents = {} /\ W[k].expires = gx
      /\ W[k].state = "VALID"
  BY <1>3, <1>4, <1>5, <1>7 DEF Reference!With, Seen
<1>9. Reference!State(W, k, t) = "VALID"
  <2>1. Edged(W)
    <3>1. IsFiniteSet(DOMAIN node \cup {k})
      BY <1>3, FS_AddElement
    <3>2. \A j \in DOMAIN node : node[j].parents \subseteq DOMAIN node
      BY DEF LedgerInv, Derived
    <3> QED BY <1>7, <1>8, <3>1, <3>2 DEF Edged
  <2>2. Graph!Walk(W, k) \subseteq {k} /\ k \in Graph!Walk(W, k)
    BY <1>8, <2>1, WalkIsLeast
  <2>3. Reference!Walk(W, k) = {k}
    BY <2>2, SameWalk
  <2>4. ~ (gx <= t)
    BY <1>2, BoundsAssumption DEF Times
  <2> QED BY <1>8, <2>3, <2>4 DEF Reference!State
<1>10. Reference!Insertable(W, second, t)
  <2>1. ASSUME NEW j \in DOMAIN W PROVE W[j].content # second.content
    <3>1. CASE j = k
      BY <1>4, <1>8, <3>1
    <3>2. CASE j # k
      <4>1. j \in DOMAIN node /\ W[j].content = <<node[j].scope, node[j].kind, node[j].body>>
        BY <1>7, <1>8, <3>2
      <4>2. ~ (node[j].scope = s /\ node[j].kind = "observation" /\ node[j].body = b)
        BY <1>2, <1>5, <4>1 DEF ProjectionKeyFree
      <4> QED BY <1>4, <4>1, <4>2
    <3> QED BY <3>1, <3>2
  <2>2. second.expires > t /\ second.parents = {k} /\ second.expires <= W[k].expires
    BY <1>2, <1>4, <1>8
  <2> QED BY <1>9, <2>1, <2>2 DEF Reference!Insertable
<1>11. dagOf' = Reference!With(W, k + 1, second) /\ eventsOf' = eventsOf
  <2>1. PICK T : T = Inserted(node, k, g, e + 1)
    OBVIOUS
  <2>2. /\ DOMAIN T = DOMAIN node \cup {k} /\ \A j \in DOMAIN node : T[j] = node[j]
        /\ T[k].scope = s /\ T[k].kind = "grant" /\ T[k].body = key
        /\ T[k].parents = {} /\ T[k].expires = gx /\ T[k].state = "VALID"
    BY <1>3, <1>5, <2>1 DEF Inserted
  <2>3. /\ DOMAIN node' = DOMAIN T \cup {k + 1}
        /\ \A j \in DOMAIN T : j # k + 1 => node'[j] = T[j]
        /\ node'[k + 1].scope = s /\ node'[k + 1].kind = "observation"
        /\ node'[k + 1].body = b /\ node'[k + 1].parents = {k}
        /\ node'[k + 1].expires = ox /\ node'[k + 1].state = "VALID"
    BY <1>2, <1>5, <2>1 DEF Inserted
  <2>4. /\ DOMAIN node' = DOMAIN node \cup {k, k + 1}
        /\ \A j \in DOMAIN node : node'[j] = node[j]
        /\ node'[k].scope = s /\ node'[k].kind = "grant" /\ node'[k].body = key
        /\ node'[k].parents = {} /\ node'[k].expires = gx /\ node'[k].state = "VALID"
    BY <1>3, <2>2, <2>3
  <2>5. PICK d1 : d1 = dagOf'
    OBVIOUS
  <2>6. DOMAIN d1 = DOMAIN node \cup {k, k + 1} /\ \A j \in DOMAIN d1 :
          d1[j] = [content |-> <<node'[j].scope, node'[j].kind, node'[j].body>>,
                   parents |-> node'[j].parents, expires |-> node'[j].expires,
                   state |-> node'[j].state]
    BY <2>4, <2>5 DEF dagOf
  <2>7. d1 = [j \in DOMAIN W \cup {k + 1} |->
                IF j = k + 1 THEN [content |-> second.content, parents |-> second.parents,
                                   expires |-> second.expires, state |-> "VALID"] ELSE W[j]]
    <3>1. DOMAIN d1 = DOMAIN W \cup {k + 1}
      BY <1>8, <2>6
    <3>2. d1[k + 1] = [content |-> second.content, parents |-> second.parents,
                       expires |-> second.expires, state |-> "VALID"]
      BY <1>4, <2>3, <2>6
    <3>3. d1[k] = W[k]
      BY <1>4, <1>5, <2>4, <2>6 DEF Reference!With, Seen
    <3>4. \A j \in DOMAIN node : d1[j] = W[j] /\ j # k + 1
      BY <1>3, <1>4, <1>8, <2>4, <2>6 DEF dagOf
    <3>5. d1 = [j \in DOMAIN d1 |-> d1[j]]
      BY <2>5 DEF dagOf
    <3> QED BY <1>3, <1>8, <3>1, <3>2, <3>3, <3>4, <3>5
  <2>8. eventsOf' = eventsOf
    BY <1>3, <2>3, <2>4 DEF eventsOf
  <2> QED BY <2>5, <2>7, <2>8 DEF Reference!With
<1>12. second.content = <<s, "observation", b>> /\ <<s, "observation", b>> \in EvidenceContents
  BY <1>4 DEF EvidenceContents, StoredBody, BodyOf, Body
<1> QED
  <2>1. k \in Ids \ DOMAIN d /\ k + 1 \in Ids \ DOMAIN d
    BY <1>3, <1>7
  <2>2. /\ Reference!Insertable(Reference!With(d, k, r), second, t)
        /\ dagOf' = Reference!With(Reference!With(d, k, r), k + 1, second)
    BY <1>4, <1>10, <1>11
  <2>3. second.content \in EvidenceContents /\ ox \in Expiries
        /\ second = [content |-> second.content, parents |-> {k}, expires |-> ox]
    BY <1>4, <1>12
  <2>4. d = dagOf /\ UNCHANGED eventsOf
    BY <1>4, <1>11
  <2>5. /\ k \in Ids \ DOMAIN dagOf /\ k + 1 \in Ids \ DOMAIN dagOf /\ k # k + 1
        /\ r \in Reference!Candidate(dagOf) /\ Reference!Insertable(dagOf, r, t)
        /\ Reference!Insertable(Reference!With(dagOf, k, r),
             [content |-> second.content, parents |-> {k}, expires |-> ox], t)
        /\ dagOf' = Reference!With(Reference!With(dagOf, k, r), k + 1,
             [content |-> second.content, parents |-> {k}, expires |-> ox])
    BY <1>3, <1>6, <2>1, <2>2, <2>3, <2>4
  <2> QED BY <2>3, <2>4, <2>5, Zenon DEF Reference!InsertTwo

LEMMA ReferenceStep ==
    ASSUME LedgerInv, LineageIsTheWalk, OneTaskPerKey, [Next]_ledgerVars
    PROVE  [Reference!Next]_Reference!vars
<1>1. Readings \subseteq Times
  BY DEF Readings
<1>2. CASE AppendAny
  <2>1. PICK k \in Kinds \ {"manual_task"}, s \in Scopes, x \in Expiries, t \in Readings :
          \E ps \in SUBSET Citable(k), b \in BodyOf(k) :
            AppendEvidence([scope |-> s, kind |-> k, parents |-> ps,
                            expires |-> x, body |-> b], t, AnyEpoch)
    BY <1>2 DEF AppendAny
  <2>2. PICK ps \in SUBSET Citable(k), b \in BodyOf(k) :
          AppendEvidence([scope |-> s, kind |-> k, parents |-> ps,
                          expires |-> x, body |-> b], t, AnyEpoch)
    BY <2>1
  <2>3. PICK c : c = [scope |-> s, kind |-> k, parents |-> ps, expires |-> x, body |-> b]
    OBVIOUS
  <2>4. c.scope \in Scopes /\ c.kind \in Kinds /\ c.body \in StoredBody(c.kind) /\ c.expires \in Expiries
    BY <2>3 DEF StoredBody
  <2>5. /\ c.expires > t /\ Supported(c, t) /\ Same(c) = {} /\ NextId <= MaxNodes
        /\ node' = Inserted(node, NextId, c, EpochAfter(c, epoch[c.scope]))
    BY <2>2, <2>3 DEF AppendEvidence
  <2> QED BY <1>1, <2>4, <2>5, AppendIsInsert DEF Reference!Next
<1>3. CASE Admit
  <2>1. PICK s \in Scopes, key \in GrantKeys, b \in Bodies, gx \in Expiries, ox \in Expiries,
             t \in Readings :
          AdmitObservation(
            [scope |-> s, kind |-> "grant", parents |-> {}, expires |-> gx, body |-> key],
            [scope |-> s, kind |-> "observation", parents |-> {}, expires |-> ox, body |-> b],
            t, AnyEpoch)
    BY <1>3 DEF Admit
  <2>2. "grant" \in Kinds /\ "observation" \in Kinds
    BY <1>3 DEF Admit
  <2>3. CASE AdmitWithNewGrant(
            [scope |-> s, kind |-> "grant", parents |-> {}, expires |-> gx, body |-> key],
            [scope |-> s, kind |-> "observation", parents |-> {}, expires |-> ox, body |-> b],
            t, AnyEpoch)
    BY <1>1, <2>2, <2>3, AdmissionIsInsertTwo DEF Reference!Next
  <2>4. CASE AdmitUnderStoredGrant(
            [scope |-> s, kind |-> "grant", parents |-> {}, expires |-> gx, body |-> key],
            [scope |-> s, kind |-> "observation", parents |-> {}, expires |-> ox, body |-> b],
            t, AnyEpoch)
    <3>1. PICK i : AppendEvidence([scope |-> s, kind |-> "observation", parents |-> {i},
                                   expires |-> ox, body |-> b], t, AnyEpoch)
      <4>1. PICK o : o = [scope |-> s, kind |-> "observation", parents |-> {},
                          expires |-> ox, body |-> b]
        OBVIOUS
      <4>2. PICK i : AppendEvidence([o EXCEPT !.parents = {i}], t, AnyEpoch)
        BY <2>4, <4>1 DEF AdmitUnderStoredGrant
      <4>3. [o EXCEPT !.parents = {i}] = [scope |-> s, kind |-> "observation", parents |-> {i},
                                          expires |-> ox, body |-> b]
        BY <4>1
      <4> QED BY <4>2, <4>3
    <3>2. PICK c : c = [scope |-> s, kind |-> "observation", parents |-> {i},
                        expires |-> ox, body |-> b]
      OBVIOUS
    <3>3. c.scope \in Scopes /\ c.kind \in Kinds /\ c.body \in StoredBody(c.kind) /\ c.expires \in Expiries
      BY <2>2, <3>2 DEF StoredBody, BodyOf
    <3>4. /\ c.expires > t /\ Supported(c, t) /\ Same(c) = {} /\ NextId <= MaxNodes
          /\ node' = Inserted(node, NextId, c, EpochAfter(c, epoch[c.scope]))
      BY <3>1, <3>2 DEF AppendEvidence
    <3> QED BY <1>1, <3>3, <3>4, AppendIsInsert DEF Reference!Next
  <2> QED BY <2>1, <2>3, <2>4 DEF AdmitObservation
<1>4. ASSUME NEW i \in DOMAIN node, Revoke(i, AnyEpoch) PROVE Reference!Next
  BY <1>4, RevocationIsRevoke DEF Revoke, Reference!Next
<1>5. ASSUME NEW key \in GrantKeys, RevokeGrant(key) PROVE Reference!Next
  <2>1. GrantNodes(key) \in SUBSET DOMAIN node /\ node' = Revoked(Reached(GrantNodes(key)))
    BY <1>5 DEF RevokeGrant, GrantNodes
  <2> QED BY <2>1, RevocationIsRevoke DEF Reference!Next
<1>6. ASSUME NEW s \in Scopes, Suppress(s, AnyEpoch) PROVE Reference!Next
  <2> DEFINE inScope == {i \in DOMAIN node : node[i].scope = s /\ node[i].state = "VALID"}
  <2>1. node' = Revoked(inScope) /\ inScope \in SUBSET DOMAIN node
    BY <1>6 DEF Suppress
  <2>2. Reached(inScope) = inScope
    BY DEF Reached, Descendants, LedgerInv, Derived
  <2> HIDE DEF inScope
  <2> QED BY <2>1, <2>2, RevocationIsRevoke DEF Reference!Next
<1>7. CASE MakeTask
  <2>1. PICK s \in Scopes, cl \in DOMAIN node, b \in TaskBody, x \in Expiries, t \in Readings :
          CreateManualTask(s, cl, b, x, t, AnyEpoch)
    BY <1>7 DEF MakeTask
  <2>2. PICK c : c = [scope |-> s, kind |-> "manual_task", parents |-> {cl},
                      expires |-> x, body |-> b]
    OBVIOUS
  <2>3. c.scope \in Scopes /\ c.kind \in Kinds /\ c.body \in StoredBody(c.kind) /\ c.expires \in Expiries
    BY <1>7, <2>2 DEF MakeTask, StoredBody
  <2>4. /\ c.expires > t /\ Supported(c, t) /\ NextId <= MaxNodes
        /\ node' = Inserted(node, NextId, c, epoch[s]) /\ TasksUnder(s, b.key) = {}
    BY <2>1, <2>2 DEF CreateManualTask
  <2>5. Same(c) = {}
    <3> SUFFICES ASSUME NEW i \in Same(c) PROVE FALSE
      OBVIOUS
    <3>1. i \in DOMAIN node /\ node[i].kind = "manual_task" /\ node[i].scope = s
          /\ node[i].body = b
      BY <2>2 DEF Same
    <3>2. i \in DOMAIN outbox
      BY <3>1 DEF OneTaskPerKey
    <3> QED BY <2>4, <3>1, <3>2 DEF TasksUnder
  <2> QED BY <1>1, <2>3, <2>4, <2>5, AppendIsInsert DEF Reference!Next
<1>8. CASE Work \/ Tick \/ (\E granted \in SUBSET Authorities : ChangePolicy(granted))
           \/ UNCHANGED ledgerVars
  <2>1. UNCHANGED node
    BY <1>8 DEF Work, ClaimOutbox, BeginDispatch, FinalizeDispatch, WorkerStops, Tick,
                ChangePolicy, ledgerVars
  <2> QED BY <2>1 DEF Reference!vars, dagOf, eventsOf
<1> QED BY <1>2, <1>3, <1>4, <1>5, <1>6, <1>7, <1>8 DEF Next

\* Every transaction of the production ledger is an operation, or a series of two,
\* of the reference ledger on the graph it stores (david_postgres.py:3,
\* "Implements the same Hold / revoke / verify contracts").
THEOREM LedgerImplementsTheReference == Spec => ImplementsTheReference
<1>1. Init => Reference!Init
  <2> SUFFICES ASSUME Init PROVE Reference!Init
    OBVIOUS
  <2>1. DOMAIN node = {}
    BY DEF Init
  <2> QED BY <2>1 DEF Reference!Init, dagOf, eventsOf
<1>2. LedgerInv /\ LineageIsTheWalk /\ OneTaskPerKey /\ [Next]_ledgerVars
        => [Reference!Next]_Reference!vars
  BY ReferenceStep
<1> QED BY <1>1, <1>2, LedgerInvariant, LineageIsTheQuery, KeysNameOneTask, PTL
    DEF Spec, ImplementsTheReference, Reference!Spec
=============================================================================
