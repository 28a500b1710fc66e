------------------------- MODULE EvidenceLedgerProofs -------------------------
(***************************************************************************)
(* Proofs about EvidenceLedger, for every value of its constants.          *)
(*                                                                         *)
(* The inductive invariant speaks of a table of nodes T, so that the two   *)
(* insertions of admit_observation are two uses of one lemma.              *)
(*                                                                         *)
(* The last part is about LedgerLocks, the row locks that make each step   *)
(* of EvidenceLedger one step: a transaction waits only for a lock behind  *)
(* all it holds in its own order, so a circle of waiting transactions      *)
(* needs two orders.                                                       *)
(***************************************************************************)
EXTENDS EvidenceStore, Sequences, FiniteSetTheorems, TLAPS

\* The ids in use are the first n: the next id is fresh.
Consecutive(T) == \E n \in 0..MaxNodes : DOMAIN T = 1..n

Typed(T) == Consecutive(T) /\ T \in [DOMAIN T -> Node]

\* What the kept lineage means for the members of it.  The transitivity of the
\* first conjunct is what makes revoking the descendants of one node enough.
Derived(T) ==
    \A i \in DOMAIN T :
        /\ i \in T[i].lineage
        /\ T[i].parents \subseteq T[i].lineage
        /\ T[i].lineage \subseteq DOMAIN T
        /\ \A a \in T[i].lineage :
            /\ T[a].lineage \subseteq T[i].lineage
            /\ T[a].scope = T[i].scope
            /\ T[i].expires <= T[a].expires
            /\ T[i].state = "VALID" => T[a].state = "VALID"

\* The inductive invariant.
LedgerInv ==
    /\ TypeOK
    /\ Consecutive(node)
    /\ Derived(node)
    /\ SuppressedScopesHoldNothing
    /\ RevokedTasksAreRecalled

-----------------------------------------------------------------------------
\* Lemmas on tables.

LEMMA FreshId ==
    ASSUME NEW n \in Nat, DOMAIN node = 1..n
    PROVE  NextId = n + 1
<1>1. Cardinality(1..n) = n
  BY FS_Interval
<1> QED BY <1>1 DEF NextId

\* A supported content may be derived from the table.
Derivable(T, c) ==
    /\ c \in Content
    /\ c.parents \subseteq DOMAIN T
    /\ \A p \in c.parents :
        T[p].scope = c.scope /\ c.expires <= T[p].expires /\ T[p].state = "VALID"

LEMMA InsertedIsTyped ==
    ASSUME NEW T, Typed(T), NEW c, Derivable(T, c), NEW e \in 0..MaxEpoch, Derived(T),
           NEW n \in 0..MaxNodes, DOMAIN T = 1..n, n + 1 <= MaxNodes
    PROVE  /\ DOMAIN Inserted(T, n + 1, c, e) = 1..(n + 1)
           /\ Typed(Inserted(T, n + 1, c, e))
<1> DEFINE U == Inserted(T, n + 1, c, e)
           L == {n + 1} \cup UNION {T[p].lineage : p \in c.parents}
<1>0. n \in Nat /\ MaxNodes \in Nat /\ n + 1 \in Ids
  BY BoundsAssumption DEF Ids
<1>1. DOMAIN U = 1..(n + 1)
  BY <1>0 DEF Inserted
<1>2. L \subseteq Ids
  BY <1>0 DEF Derivable, Derived, Ids
<1>3. ASSUME NEW j \in 1..(n + 1) PROVE U[j] \in Node
  <2>1. CASE j = n + 1
    <3>1. U[j] = [scope |-> c.scope, kind |-> c.kind, parents |-> c.parents,
              expires |-> c.expires, body |-> c.body, state |-> "VALID", epoch |-> e,
              lineage |-> L]
      BY <2>1, <1>0 DEF Inserted
    <3> QED BY <3>1, <1>2 DEF Node, Content, Derivable
  <2>2. CASE j # n + 1
    <3>1. j \in DOMAIN T /\ U[j] = T[j]
      BY <2>2, <1>0 DEF Inserted
    <3> QED BY <3>1 DEF Typed
  <2> QED BY <2>1, <2>2
<1>4. U = [j \in 1..(n + 1) |-> U[j]]
  BY <1>1 DEF Inserted
<1>5. U \in [DOMAIN U -> Node]
  BY <1>1, <1>3, <1>4
<1>6. Consecutive(U)
  BY <1>0, <1>1 DEF Consecutive
<1> QED BY <1>1, <1>5, <1>6 DEF Typed

LEMMA InsertedIsDerived ==
    ASSUME NEW T, Typed(T), Derived(T), NEW c, Derivable(T, c), NEW e,
           NEW n \in Nat, DOMAIN T = 1..n
    PROVE  Derived(Inserted(T, n + 1, c, e))
<1> DEFINE U == Inserted(T, n + 1, c, e)
           L == {n + 1} \cup UNION {T[p].lineage : p \in c.parents}
<1>1. DOMAIN U = 1..(n + 1)
  BY DEF Inserted
<1>2. ASSUME NEW j \in 1..n PROVE U[j] = T[j]
  BY <1>2 DEF Inserted
<1>3. U[n + 1] = [scope |-> c.scope, kind |-> c.kind, parents |-> c.parents,
              expires |-> c.expires, body |-> c.body, state |-> "VALID", epoch |-> e,
              lineage |-> L]
  BY DEF Inserted
<1>4. ASSUME NEW p \in c.parents
      PROVE  p \in 1..n /\ p \in T[p].lineage /\ T[p].lineage \subseteq 1..n
  BY DEF Derivable, Derived
<1>5. ASSUME NEW i \in 1..(n + 1)
      PROVE  /\ i \in U[i].lineage
             /\ U[i].parents \subseteq U[i].lineage
             /\ U[i].lineage \subseteq 1..(n + 1)
             /\ \A a \in U[i].lineage :
                 /\ U[a].lineage \subseteq U[i].lineage
                 /\ U[a].scope = U[i].scope
                 /\ U[i].expires <= U[a].expires
                 /\ U[i].state = "VALID" => U[a].state = "VALID"
  <2>1. CASE i \in 1..n
    <3>1. T[i].lineage \subseteq 1..n /\ U[i] = T[i]
      BY <2>1, <1>2 DEF Derived
    <3> QED BY <2>1, <3>1, <1>2 DEF Derived
  <2>2. CASE i = n + 1
    <3>1. U[i].lineage = L /\ U[i].parents = c.parents
      BY <2>2, <1>3
    <3>2. i \in L /\ c.parents \subseteq L /\ L \subseteq 1..(n + 1)
      BY <2>2, <1>4
    <3>3. ASSUME NEW a \in L
          PROVE  /\ U[a].lineage \subseteq L
                 /\ U[a].scope = c.scope
                 /\ c.expires <= U[a].expires
                 /\ U[a].state = "VALID"
      <4>1. CASE a = n + 1
        <5>1. c.expires \in Nat
          BY BoundsAssumption DEF Derivable, Content
        <5>2. U[a].lineage = L /\ U[a].scope = c.scope /\ U[a].expires = c.expires
              /\ U[a].state = "VALID"
          BY <4>1, <1>3
        <5> QED BY <5>1, <5>2
      <4>2. CASE a # n + 1
        <5>1. PICK p \in c.parents : a \in T[p].lineage
          BY <4>2
        <5>2. p \in 1..n /\ a \in 1..n /\ U[a] = T[a]
          BY <5>1, <1>4, <1>2
        <5>3. T[a].lineage \subseteq T[p].lineage /\ T[a].scope = T[p].scope
              /\ T[p].expires <= T[a].expires /\ (T[p].state = "VALID" => T[a].state = "VALID")
          BY <5>1, <5>2 DEF Derived
        <5>4. c.expires \in Nat /\ T[p].expires \in Nat /\ T[a].expires \in Nat
          BY <5>2, BoundsAssumption DEF Derivable, Content, Typed, Node
        <5>5. T[p].lineage \subseteq L
          OBVIOUS
        <5> QED BY <5>1, <5>2, <5>3, <5>4, <5>5 DEF Derivable
      <4> QED BY <4>1, <4>2
    <3> QED BY <2>2, <1>3, <3>1, <3>2, <3>3
  <2> QED BY <2>1, <2>2
<1> QED BY <1>1, <1>5 DEF Derived

\* What a transaction accepts under a parent, the table can carry.
LEMMA SupportedIsDerivable ==
    ASSUME TypeOK, Derived(node), NEW c \in Content, NEW t, Supported(c, t)
    PROVE  Derivable(node, c)
<1>1. ASSUME NEW p \in c.parents
      PROVE  p \in DOMAIN node /\ node[p].scope = c.scope /\ c.expires <= node[p].expires
             /\ node[p].state = "VALID"
  <2>1. StateOf(p, t) = "VALID" /\ node[p].scope = c.scope /\ c.expires <= node[p].expires
    BY DEF Supported, Valid
  <2>2. p \in DOMAIN node
    BY <2>1 DEF StateOf
  <2>3. \A a \in node[p].lineage : node[a].state = "VALID"
    BY <2>1, <2>2 DEF StateOf, Ancestors
  <2>4. p \in node[p].lineage
    BY <2>2 DEF Derived
  <2> QED BY <2>1, <2>2, <2>3, <2>4
<1> QED BY <1>1 DEF Derivable

\* Revoking a set that is closed under derivation.
Closure(R) ==
    /\ R \subseteq DOMAIN node
    /\ \A i \in DOMAIN node \ R : node[i].state = "VALID" =>
          \A a \in node[i].lineage : a \notin R

LEMMA RevokedNodes ==
    ASSUME NEW R, NEW i \in DOMAIN node, node[i] \in Node
    PROVE  /\ DOMAIN Revoked(R) = DOMAIN node
           /\ Revoked(R)[i] \in Node
           /\ Revoked(R)[i].lineage = node[i].lineage
           /\ Revoked(R)[i].parents = node[i].parents
           /\ Revoked(R)[i].scope = node[i].scope
           /\ Revoked(R)[i].expires = node[i].expires
           /\ Revoked(R)[i].state = IF i \in R THEN "REVOKED" ELSE node[i].state
BY DEF Revoked, Node

LEMMA RevokedIsDerived ==
    ASSUME TypeOK, Consecutive(node), Derived(node), NEW R, Closure(R)
    PROVE  Typed(Revoked(R)) /\ Derived(Revoked(R)) /\ DOMAIN Revoked(R) = DOMAIN node
<1> DEFINE U == Revoked(R)
<1>1. \A i \in DOMAIN node : node[i] \in Node
  BY DEF TypeOK
<1>2. DOMAIN U = DOMAIN node
  BY DEF Revoked
<1>3. U = [i \in DOMAIN node |-> U[i]]
  BY DEF Revoked
<1>4. Typed(U)
  BY <1>1, <1>2, <1>3, RevokedNodes DEF Typed, Consecutive
<1>5. ASSUME NEW i \in DOMAIN node
      PROVE  /\ i \in U[i].lineage
             /\ U[i].parents \subseteq U[i].lineage
             /\ U[i].lineage \subseteq DOMAIN node
             /\ \A a \in U[i].lineage :
                 /\ U[a].lineage \subseteq U[i].lineage
                 /\ U[a].scope = U[i].scope
                 /\ U[i].expires <= U[a].expires
                 /\ U[i].state = "VALID" => U[a].state = "VALID"
  <2>1. /\ U[i].lineage = node[i].lineage
        /\ U[i].parents = node[i].parents
        /\ U[i].scope = node[i].scope
        /\ U[i].expires = node[i].expires
        /\ U[i].state = IF i \in R THEN "REVOKED" ELSE node[i].state
    BY <1>1, RevokedNodes
  <2>2. ASSUME NEW a \in node[i].lineage
        PROVE  /\ U[a].lineage \subseteq node[i].lineage
               /\ U[a].scope = node[i].scope
               /\ node[i].expires <= U[a].expires
               /\ U[i].state = "VALID" => U[a].state = "VALID"
    <3>1. a \in DOMAIN node
      BY DEF Derived
    <3>2. /\ U[a].lineage = node[a].lineage
          /\ U[a].scope = node[a].scope
          /\ U[a].expires = node[a].expires
          /\ U[a].state = IF a \in R THEN "REVOKED" ELSE node[a].state
      BY <1>1, <3>1, RevokedNodes
    <3> QED BY <2>1, <3>1, <3>2 DEF Derived, Closure
  <2> QED BY <2>1, <2>2 DEF Derived
<1> QED BY <1>2, <1>4, <1>5 DEF Derived

\* The recursive walk from any nodes revokes a set closed under derivation.
LEMMA ReachedIsClosed ==
    ASSUME Derived(node), NEW R \in SUBSET DOMAIN node
    PROVE  Closure(Reached(R))
<1>1. Reached(R) \subseteq DOMAIN node
  BY DEF Reached, Descendants
<1>2. ASSUME NEW i \in DOMAIN node, i \notin Reached(R), node[i].state = "VALID",
             NEW a \in node[i].lineage, a \in Reached(R)
      PROVE  FALSE
  <2>1. PICK r \in R : a \in Descendants(r)
    BY <1>2 DEF Reached
  <2>2. r \in node[a].lineage
    BY <2>1 DEF Descendants
  <2>3. node[a].lineage \subseteq node[i].lineage
    BY <1>2 DEF Derived
  <2>4. i \in Descendants(r)
    BY <2>2, <2>3 DEF Descendants
  <2> QED BY <2>1, <2>4, <1>2 DEF Reached
<1> QED BY <1>1, <1>2 DEF Closure

LEMMA ScopeIsClosed ==
    ASSUME Derived(node), NEW s
    PROVE  Closure({i \in DOMAIN node : node[i].scope = s /\ node[i].state = "VALID"})
BY DEF Closure, Derived

-----------------------------------------------------------------------------
\* The two ways a step changes the tables: it adds valid nodes of open scopes,
\* or it revokes a closed set and recalls its tasks.

LEMMA GrowthKeeps ==
    ASSUME LedgerInv,
           Typed(node'), Derived(node'),
           DOMAIN node \subseteq DOMAIN node',
           \A i \in DOMAIN node : node'[i] = node[i],
           \A i \in DOMAIN node' \ DOMAIN node :
               node'[i].state = "VALID" /\ node'[i].scope \notin suppressed,
           DOMAIN outbox \subseteq DOMAIN outbox',
           \A i \in DOMAIN outbox : outbox'[i] = outbox[i],
           DOMAIN outbox' \subseteq DOMAIN outbox \cup (DOMAIN node' \ DOMAIN node),
           outbox' \in [DOMAIN outbox' -> OutboxRow],
           epoch' \in [Scopes -> 0..MaxEpoch],
           UNCHANGED <<clock, suppressed, withdrawn, held, authorized>>
    PROVE  LedgerInv'
<1>1. DOMAIN node' \subseteq Ids
  BY BoundsAssumption DEF Typed, Consecutive, Ids
<1>2. DOMAIN outbox' \subseteq DOMAIN node'
  BY DEF LedgerInv, TypeOK
<1>3. TypeOK'
  BY <1>1, <1>2 DEF LedgerInv, TypeOK, Typed
<1>4. SuppressedScopesHoldNothing'
  BY DEF LedgerInv, SuppressedScopesHoldNothing
<1>5. RevokedTasksAreRecalled'
  <2> SUFFICES ASSUME NEW i \in DOMAIN outbox', node'[i].state = "REVOKED"
               PROVE  outbox'[i].status \in {"PUBLISHED", "DELIVERY_UNKNOWN", "CANCELLED"}
    BY DEF RevokedTasksAreRecalled
  <2>1. i \in DOMAIN outbox
    OBVIOUS
  <2>2. i \in DOMAIN node
    BY <2>1 DEF LedgerInv, TypeOK
  <2> QED BY <2>1, <2>2 DEF LedgerInv, RevokedTasksAreRecalled
<1>6. Consecutive(node')
  BY DEF Typed
<1> QED BY <1>3, <1>4, <1>5, <1>6 DEF LedgerInv

LEMMA RecalledRows ==
    ASSUME outbox \in [DOMAIN outbox -> OutboxRow], NEW R
    PROVE  /\ DOMAIN Recalled(R) = DOMAIN outbox
           /\ Recalled(R) \in [DOMAIN outbox -> OutboxRow]
           /\ \A i \in DOMAIN outbox : Recalled(R)[i].token = outbox[i].token
           /\ \A i \in DOMAIN outbox \ R : Recalled(R)[i] = outbox[i]
           /\ \A i \in DOMAIN outbox \cap R :
                 Recalled(R)[i].status \in {"PUBLISHED", "DELIVERY_UNKNOWN", "CANCELLED"}
<1>1. DOMAIN Recalled(R) = DOMAIN outbox
  BY DEF Recalled
<1>2. ASSUME NEW i \in DOMAIN outbox
      PROVE  /\ Recalled(R)[i] \in OutboxRow
             /\ Recalled(R)[i].token = outbox[i].token
             /\ i \notin R => Recalled(R)[i] = outbox[i]
             /\ i \in R => Recalled(R)[i].status \in {"PUBLISHED", "DELIVERY_UNKNOWN", "CANCELLED"}
  <2>1. outbox[i] \in OutboxRow
    OBVIOUS
  <2>2. CASE i \notin R
    BY <2>1, <2>2 DEF Recalled
  <2>3. CASE i \in R /\ outbox[i].status = "DISPATCHING"
    <3>1. Recalled(R)[i] = [outbox[i] EXCEPT !.status = "DELIVERY_UNKNOWN"]
      BY <2>3 DEF Recalled
    <3> QED BY <2>1, <2>3, <3>1 DEF OutboxRow, OutboxStatus
  <2>4. CASE i \in R /\ outbox[i].status \in {"PENDING", "LEASED"}
    <3>1. Recalled(R)[i] = [outbox[i] EXCEPT !.status = "CANCELLED"]
      BY <2>4 DEF Recalled
    <3> QED BY <2>1, <2>4, <3>1 DEF OutboxRow, OutboxStatus
  <2>5. CASE i \in R /\ outbox[i].status \notin {"DISPATCHING", "PENDING", "LEASED"}
    <3>1. Recalled(R)[i] = outbox[i]
      BY <2>5 DEF Recalled
    <3> QED BY <2>1, <2>5, <3>1 DEF OutboxRow, OutboxStatus
  <2> QED BY <2>2, <2>3, <2>4, <2>5
<1>3. Recalled(R) = [i \in DOMAIN outbox |-> Recalled(R)[i]]
  BY DEF Recalled
<1> QED BY <1>1, <1>2, <1>3

LEMMA RevocationKeeps ==
    ASSUME LedgerInv, NEW R, Closure(R),
           node' = Revoked(R), outbox' = Recalled(R),
           epoch' \in [Scopes -> 0..MaxEpoch],
           suppressed' \subseteq Scopes, withdrawn' \subseteq GrantKeys,
           \A i \in DOMAIN node :
               node[i].scope \in suppressed' => i \in R \/ node[i].state = "REVOKED",
           UNCHANGED <<clock, held, authorized>>
    PROVE  LedgerInv'
<1>1. Typed(node') /\ Derived(node') /\ DOMAIN node' = DOMAIN node
  BY RevokedIsDerived DEF LedgerInv
<1>2. \A i \in DOMAIN node :
        /\ node'[i].scope = node[i].scope
        /\ node'[i].state = IF i \in R THEN "REVOKED" ELSE node[i].state
  BY RevokedNodes DEF LedgerInv, TypeOK
<1>3. /\ DOMAIN outbox' = DOMAIN outbox
      /\ outbox' \in [DOMAIN outbox -> OutboxRow]
      /\ \A i \in DOMAIN outbox \ R : outbox'[i] = outbox[i]
      /\ \A i \in DOMAIN outbox \cap R :
            outbox'[i].status \in {"PUBLISHED", "DELIVERY_UNKNOWN", "CANCELLED"}
  BY RecalledRows DEF LedgerInv, TypeOK
<1>4. TypeOK'
  BY <1>1, <1>3 DEF LedgerInv, TypeOK, Typed
<1>5. SuppressedScopesHoldNothing'
  BY <1>1, <1>2 DEF SuppressedScopesHoldNothing
<1>6. RevokedTasksAreRecalled'
  <2>1. DOMAIN outbox \subseteq DOMAIN node
    BY DEF LedgerInv, TypeOK
  <2> QED BY <1>2, <1>3, <2>1 DEF LedgerInv, RevokedTasksAreRecalled
<1> QED BY <1>1, <1>4, <1>5, <1>6 DEF LedgerInv, Typed

-----------------------------------------------------------------------------
\* Every action preserves the invariant.

LEMMA AppendStep ==
    ASSUME LedgerInv, NEW c \in Content, NEW t, NEW expected, AppendEvidence(c, t, expected)
    PROVE  LedgerInv'
<1> DEFINE e == EpochAfter(c, epoch[c.scope])
<1>1. PICK n \in 0..MaxNodes : DOMAIN node = 1..n
  BY DEF LedgerInv, Consecutive
<1>2. n \in Nat /\ NextId = n + 1 /\ n + 1 <= MaxNodes
  BY <1>1, FreshId, BoundsAssumption DEF AppendEvidence
<1>3. Typed(node) /\ Derived(node) /\ Derivable(node, c)
  BY SupportedIsDerivable DEF LedgerInv, TypeOK, Typed, AppendEvidence
<1>4. e \in 0..MaxEpoch /\ epoch' \in [Scopes -> 0..MaxEpoch]
  <2>1. epoch[c.scope] \in 0..MaxEpoch /\ c.scope \in Scopes
    BY DEF LedgerInv, TypeOK, Content
  <2>2. e \in 0..MaxEpoch
    BY <2>1, BoundsAssumption DEF EpochAfter, AppendEvidence
  <2>3. epoch' = [epoch EXCEPT ![c.scope] = e]
    BY <2>1 DEF AppendEvidence, LedgerInv, TypeOK
  <2> QED BY <2>1, <2>2, <2>3 DEF LedgerInv, TypeOK
<1>5. node' = Inserted(node, n + 1, c, e)
  BY <1>2 DEF AppendEvidence
<1>6. DOMAIN node' = 1..(n + 1) /\ Typed(node')
  BY <1>1, <1>2, <1>3, <1>4, <1>5, InsertedIsTyped
<1>7. Derived(node')
  BY <1>1, <1>2, <1>3, <1>5, InsertedIsDerived
<1>8. /\ \A i \in DOMAIN node : node'[i] = node[i]
      /\ node'[n + 1].state = "VALID" /\ node'[n + 1].scope = c.scope
  BY <1>1, <1>2, <1>5 DEF Inserted
<1>9. DOMAIN node \subseteq DOMAIN node' /\ DOMAIN node' \ DOMAIN node = {n + 1}
  BY <1>1, <1>2, <1>6
<1> QED
  BY <1>4, <1>6, <1>7, <1>8, <1>9, GrowthKeeps
     DEF AppendEvidence, ScopeOpen, LedgerInv, TypeOK

LEMMA AdmitStep ==
    ASSUME LedgerInv, NEW s \in Scopes, NEW key \in GrantKeys, NEW b \in Bodies,
           NEW gx \in Nat, NEW ox \in Nat, NEW t, NEW expected,
           {"grant", "observation"} \subseteq Kinds,
           AdmitObservation(
             [scope |-> s, kind |-> "grant", parents |-> {}, expires |-> gx, body |-> key],
             [scope |-> s, kind |-> "observation", parents |-> {}, expires |-> ox, body |-> b],
             t, expected)
    PROVE  LedgerInv'
<1> DEFINE g == [scope |-> s, kind |-> "grant", parents |-> {}, expires |-> gx, body |-> key]
           o == [scope |-> s, kind |-> "observation", parents |-> {}, expires |-> ox, body |-> b]
           under(i) == [o EXCEPT !.parents = {i}]
<1>1. ASSUME NEW i \in Ids PROVE under(i) \in Content
  <2>1. under(i) = [scope |-> s, kind |-> "observation", parents |-> {i},
                    expires |-> ox, body |-> b]
    OBVIOUS
  <2> QED BY <2>1 DEF Content, Body
<1>2. g \in Content
  BY DEF Content, Body
<1>3. CASE AdmitUnderStoredGrant(g, o, t, expected)
  <2>1. PICK i \in Same(g) : AppendEvidence(under(i), t, expected)
    BY <1>3 DEF AdmitUnderStoredGrant
  <2>2. i \in Ids
    BY <2>1 DEF Same, LedgerInv, TypeOK
  <2> QED BY <1>1, <2>1, <2>2, AppendStep
<1>4. CASE AdmitWithNewGrant(g, o, t, expected)
  <2>1. PICK n \in 0..MaxNodes : DOMAIN node = 1..n
    BY DEF LedgerInv, Consecutive
  <2>2. n \in Nat /\ NextId = n + 1 /\ n + 2 <= MaxNodes
    <3>1. NextId = n + 1 /\ n \in Nat
      BY <2>1, FreshId, BoundsAssumption
    <3>2. NextId + 1 <= MaxNodes
      BY <1>4 DEF AdmitWithNewGrant
    <3> QED BY <3>1, <3>2
  <2> DEFINE e == epoch[s]
             T == Inserted(node, n + 1, g, e + 1)
             c == under(n + 1)
  <2>3. /\ e + 2 <= MaxEpoch
        /\ ox <= gx
        /\ epoch' = [epoch EXCEPT ![s] = e + 2]
        /\ node' = Inserted(T, n + 2, c, e + 2)
        /\ UNCHANGED <<clock, suppressed, withdrawn, outbox, held, authorized>>
    <3>1. /\ e + 2 <= MaxEpoch /\ ox <= gx
          /\ epoch' = [epoch EXCEPT ![s] = @ + 2]
          /\ node' = Inserted(Inserted(node, NextId, g, e + 1), NextId + 1,
                              [o EXCEPT !.parents = {NextId}], e + 2)
          /\ UNCHANGED <<clock, suppressed, withdrawn, outbox, held, authorized>>
      BY <1>4 DEF AdmitWithNewGrant
    <3>2. NextId + 1 = n + 2
      BY <2>2
    <3> QED BY <2>2, <3>1, <3>2 DEF LedgerInv, TypeOK
  <2>4. e + 1 \in 0..MaxEpoch /\ e + 2 \in 0..MaxEpoch /\ epoch' \in [Scopes -> 0..MaxEpoch]
    <3>1. e \in 0..MaxEpoch
      BY DEF LedgerInv, TypeOK
    <3>2. e + 1 \in 0..MaxEpoch /\ e + 2 \in 0..MaxEpoch
      BY <2>3, <3>1, BoundsAssumption
    <3> QED BY <2>3, <3>2 DEF LedgerInv, TypeOK
  <2>5. Typed(node) /\ Derived(node)
    BY DEF LedgerInv, TypeOK, Typed
  <2>6. Derivable(node, g)
    BY <1>2 DEF Derivable
  <2>7. DOMAIN T = 1..(n + 1) /\ Typed(T)
    BY <2>1, <2>2, <2>4, <2>5, <2>6, InsertedIsTyped, BoundsAssumption
  <2>8. Derived(T)
    BY <2>1, <2>2, <2>5, <2>6, InsertedIsDerived
  <2>9. T[n + 1].scope = s /\ T[n + 1].expires = gx /\ T[n + 1].state = "VALID"
    BY DEF Inserted
  <2>10. Derivable(T, c)
    <3>1. c \in Content /\ c.parents = {n + 1} /\ c.scope = s /\ c.expires = ox
      BY <1>1, <2>2, BoundsAssumption DEF Ids
    <3>2. n + 1 \in DOMAIN T
      BY <2>2, <2>7
    <3> HIDE DEF c, T
    <3> QED BY <2>3, <2>9, <3>1, <3>2 DEF Derivable
  <2> HIDE DEF T, c
  <2>11. n + 1 \in 0..MaxNodes /\ (n + 1) + 1 = n + 2 /\ n + 1 \in Nat
    BY <2>2, BoundsAssumption
  <2>12. DOMAIN node' = 1..(n + 2) /\ Typed(node')
    BY <2>2, <2>3, <2>4, <2>7, <2>8, <2>10, <2>11, InsertedIsTyped
  <2>13. Derived(node')
    BY <2>3, <2>7, <2>8, <2>10, <2>11, InsertedIsDerived
  <2>14. /\ \A i \in DOMAIN node : node'[i] = node[i]
         /\ \A i \in {n + 1, n + 2} : node'[i].state = "VALID" /\ node'[i].scope = s
    <3>1. \A i \in DOMAIN node : T[i] = node[i]
      BY <2>1, <2>2 DEF T, Inserted
    <3>2. \A i \in 1..(n + 1) : node'[i] = T[i]
      BY <2>3, <2>7, <2>2 DEF Inserted
    <3>3. node'[n + 2].state = "VALID" /\ node'[n + 2].scope = c.scope
      BY <2>3 DEF Inserted
    <3>4. c.scope = s
      BY DEF c
    <3> QED BY <2>1, <2>2, <2>9, <3>1, <3>2, <3>3, <3>4
  <2>15. /\ DOMAIN node \subseteq DOMAIN node'
         /\ DOMAIN node' \ DOMAIN node = {n + 1, n + 2}
    BY <2>1, <2>2, <2>12
  <2>16. s \notin suppressed
    BY <1>4 DEF AdmitWithNewGrant, ScopeOpen
  <2> QED
    BY <2>3, <2>4, <2>12, <2>13, <2>14, <2>15, <2>16, GrowthKeeps DEF LedgerInv, TypeOK
<1> QED BY <1>3, <1>4 DEF AdmitObservation

LEMMA RevokeStep ==
    ASSUME LedgerInv, NEW i, NEW expected, Revoke(i, expected)
    PROVE  LedgerInv'
<1>1. i \in DOMAIN node /\ node[i].scope \in Scopes
  BY DEF Revoke, LedgerInv, TypeOK, Node
<1>2. Closure(Reached({i}))
  BY <1>1, ReachedIsClosed DEF LedgerInv
<1>3. epoch' \in [Scopes -> 0..MaxEpoch]
  BY <1>1, BoundsAssumption DEF Revoke, LedgerInv, TypeOK
<1>4. \A j \in DOMAIN node : node[j].scope \in suppressed' => node[j].state = "REVOKED"
  BY DEF Revoke, LedgerInv, SuppressedScopesHoldNothing
<1> QED BY <1>2, <1>3, <1>4, RevocationKeeps DEF Revoke, LedgerInv, TypeOK

LEMMA RevokeGrantStep ==
    ASSUME LedgerInv, NEW key \in GrantKeys, RevokeGrant(key)
    PROVE  LedgerInv'
<1> DEFINE G == GrantNodes(key)
           inScope(s) == Cardinality({j \in G : node[j].scope = s})
<1>1. G \in SUBSET DOMAIN node
  BY DEF GrantNodes
<1>2. Closure(Reached(G))
  BY <1>1, ReachedIsClosed DEF LedgerInv
<1>3. epoch' \in [Scopes -> 0..MaxEpoch]
  <2>1. IsFiniteSet(DOMAIN node)
    BY FS_Interval, BoundsAssumption DEF LedgerInv, Consecutive
  <2>2. ASSUME NEW s \in Scopes PROVE inScope(s) \in Nat
    <3>1. {j \in G : node[j].scope = s} \subseteq DOMAIN node
      BY <1>1
    <3> QED BY <2>1, <3>1, FS_Subset, FS_CardinalityType
  <2>3. /\ \A s \in Scopes : epoch[s] + inScope(s) <= MaxEpoch
        /\ epoch' = [s \in Scopes |-> epoch[s] + inScope(s)]
    BY DEF RevokeGrant
  <2> HIDE DEF inScope
  <2> QED BY <2>2, <2>3, BoundsAssumption DEF LedgerInv, TypeOK
<1>4. /\ node' = Revoked(Reached(G)) /\ outbox' = Recalled(Reached(G))
      /\ withdrawn' = withdrawn \cup {key}
      /\ UNCHANGED <<clock, suppressed, held, authorized>>
  BY DEF RevokeGrant
<1>5. \A j \in DOMAIN node : node[j].scope \in suppressed' => node[j].state = "REVOKED"
  BY <1>4 DEF LedgerInv, SuppressedScopesHoldNothing
<1> HIDE DEF G
<1> QED BY <1>2, <1>3, <1>4, <1>5, RevocationKeeps DEF LedgerInv, TypeOK

LEMMA SuppressStep ==
    ASSUME LedgerInv, NEW s \in Scopes, NEW expected, Suppress(s, expected)
    PROVE  LedgerInv'
<1> DEFINE R == {i \in DOMAIN node : node[i].scope = s /\ node[i].state = "VALID"}
<1>1. Closure(R)
  BY ScopeIsClosed DEF LedgerInv
<1>2. /\ node' = Revoked(R) /\ outbox' = Recalled(R)
      /\ suppressed' = suppressed \cup {s}
      /\ epoch' = [epoch EXCEPT ![s] = @ + 1] /\ epoch[s] < MaxEpoch
      /\ UNCHANGED <<clock, withdrawn, held, authorized>>
  BY DEF Suppress
<1>3. epoch' \in [Scopes -> 0..MaxEpoch]
  BY <1>2, BoundsAssumption DEF LedgerInv, TypeOK
<1>4. \A i \in DOMAIN node :
        node[i].scope \in suppressed' => i \in R \/ node[i].state = "REVOKED"
  <2>1. \A i \in DOMAIN node : node[i].state \in {"VALID", "REVOKED"}
    BY DEF LedgerInv, TypeOK, Node
  <2> QED BY <1>2, <2>1 DEF LedgerInv, SuppressedScopesHoldNothing
<1> HIDE DEF R
<1> QED BY <1>1, <1>2, <1>3, <1>4, RevocationKeeps DEF LedgerInv, TypeOK

\* What is valid when it is read is stored valid.
LEMMA ValidIsStored ==
    ASSUME LedgerInv, NEW i, NEW t, Valid(i, t)
    PROVE  i \in DOMAIN node /\ node[i].state = "VALID"
<1>1. i \in DOMAIN node
  BY DEF Valid, StateOf
<1>2. \A a \in node[i].lineage : node[a].state = "VALID"
  BY <1>1 DEF Valid, StateOf, Ancestors
<1> QED BY <1>1, <1>2 DEF LedgerInv, Derived

LEMMA CreateTaskStep ==
    ASSUME LedgerInv, "manual_task" \in Kinds, NEW s \in Scopes, NEW cl \in DOMAIN node,
           NEW b \in TaskBody, NEW x \in Nat, NEW t, NEW expected,
           CreateManualTask(s, cl, b, x, t, expected)
    PROVE  LedgerInv'
<1> DEFINE c == [scope |-> s, kind |-> "manual_task", parents |-> {cl}, expires |-> x, body |-> b]
           row == [status |-> "PENDING", token |-> 0, until |-> 0]
<1>1. PICK n \in 0..MaxNodes : DOMAIN node = 1..n
  BY DEF LedgerInv, Consecutive
<1>2. n \in Nat /\ NextId = n + 1 /\ n + 1 <= MaxNodes
  BY <1>1, FreshId, BoundsAssumption DEF CreateManualTask
<1>3. c \in Content
  BY DEF LedgerInv, TypeOK, Content, Body
<1>4. /\ Supported(c, t) /\ s \notin suppressed
      /\ node' = Inserted(node, n + 1, c, epoch[s])
      /\ outbox' = [i \in DOMAIN outbox \cup {n + 1} |-> IF i = n + 1 THEN row ELSE outbox[i]]
      /\ UNCHANGED <<clock, epoch, suppressed, withdrawn, held, authorized>>
  BY <1>2 DEF CreateManualTask, ScopeOpen
<1> HIDE DEF c
<1>5. Typed(node) /\ Derived(node) /\ Derivable(node, c)
  BY <1>3, <1>4, SupportedIsDerivable DEF LedgerInv, TypeOK, Typed
<1>6. epoch[s] \in 0..MaxEpoch
  BY DEF LedgerInv, TypeOK
<1>7. DOMAIN node' = 1..(n + 1) /\ Typed(node')
  BY <1>1, <1>2, <1>4, <1>5, <1>6, InsertedIsTyped
<1>8. Derived(node')
  BY <1>1, <1>2, <1>4, <1>5, InsertedIsDerived
<1>9. /\ \A i \in DOMAIN node : node'[i] = node[i]
      /\ node'[n + 1].state = "VALID" /\ node'[n + 1].scope = c.scope /\ c.scope = s
  BY <1>1, <1>2, <1>4 DEF Inserted, c
<1>10. DOMAIN node \subseteq DOMAIN node' /\ DOMAIN node' \ DOMAIN node = {n + 1}
  BY <1>1, <1>2, <1>7
<1>11. /\ DOMAIN outbox' = DOMAIN outbox \cup {n + 1}
       /\ n + 1 \notin DOMAIN outbox
       /\ \A i \in DOMAIN outbox : outbox'[i] = outbox[i]
  BY <1>1, <1>2, <1>4 DEF LedgerInv, TypeOK
<1>12. outbox' \in [DOMAIN outbox' -> OutboxRow]
  <2>1. row \in OutboxRow
    BY BoundsAssumption DEF OutboxRow, OutboxStatus
  <2> HIDE DEF row
  <2> QED BY <1>4, <1>11, <2>1 DEF LedgerInv, TypeOK
<1> QED
  BY <1>4, <1>7, <1>8, <1>9, <1>10, <1>11, <1>12, GrowthKeeps DEF LedgerInv, TypeOK

\* A step of a worker touches the outbox and the workers alone.
LEMMA DeliveryKeeps ==
    ASSUME LedgerInv,
           DOMAIN outbox' = DOMAIN outbox,
           outbox' \in [DOMAIN outbox -> OutboxRow],
           \A i \in DOMAIN outbox : \/ outbox'[i] = outbox[i]
                                    \/ node[i].state = "VALID"
                                    \/ outbox'[i].status \in {"PUBLISHED", "DELIVERY_UNKNOWN",
                                                              "CANCELLED"},
           held' \in [Workers -> Held],
           UNCHANGED <<clock, epoch, suppressed, withdrawn, node, authorized>>
    PROVE  LedgerInv'
<1>1. TypeOK'
  BY DEF LedgerInv, TypeOK
<1>2. RevokedTasksAreRecalled'
  BY DEF LedgerInv, RevokedTasksAreRecalled
<1>3. Consecutive(node') /\ Derived(node') /\ SuppressedScopesHoldNothing'
  BY DEF LedgerInv, SuppressedScopesHoldNothing
<1> QED BY <1>1, <1>2, <1>3 DEF LedgerInv

LEMMA ClosedRow ==
    ASSUME NEW row \in OutboxRow
    PROVE  Closed(row) \in OutboxRow /\ Closed(row).status \in {"DELIVERY_UNKNOWN", "CANCELLED"}
           /\ Closed(row).token = row.token
BY DEF Closed, OutboxRow, OutboxStatus

LEMMA ClaimStep ==
    ASSUME LedgerInv, NEW w \in Workers, NEW t \in Times, NEW lease \in LeaseTimes,
           ClaimOutbox(w, t, lease)
    PROVE  LedgerInv'
<1>0. \A j \in DOMAIN outbox : outbox[j] \in OutboxRow
  BY DEF LedgerInv, TypeOK
<1>1. CASE Leasable(t) = {} /\ held' = held /\
           outbox' = [j \in DOMAIN outbox |->
              IF j \in Claimable(t) THEN Closed(outbox[j]) ELSE outbox[j]]
  BY <1>0, <1>1, ClosedRow, DeliveryKeeps DEF ClaimOutbox, LedgerInv, TypeOK
<1>2. ASSUME NEW i \in Leasable(t), NEW passed \in SUBSET (Claimable(t) \ Leasable(t)),
             NextToken(outbox[i]) <= MaxToken,
             outbox' = [j \in DOMAIN outbox |->
                IF j = i THEN [status |-> "LEASED", token |-> NextToken(outbox[i]),
                               until |-> t + lease]
                ELSE IF j \in passed THEN Closed(outbox[j]) ELSE outbox[j]],
             held' = [held EXCEPT ![w] = [item |-> i, token |-> NextToken(outbox[i]),
                                          phase |-> "leased"]]
      PROVE  LedgerInv'
  <2> DEFINE row == [status |-> "LEASED", token |-> NextToken(outbox[i]), until |-> t + lease]
             mine == [item |-> i, token |-> NextToken(outbox[i]), phase |-> "leased"]
  <2>1. i \in DOMAIN outbox /\ Valid(i, t)
    BY DEF Leasable, Claimable
  <2>2. node[i].state = "VALID"
    BY <2>1, ValidIsStored
  <2>3. NextToken(outbox[i]) \in 0..MaxToken
    BY <1>0, <1>2, <2>1, BoundsAssumption DEF NextToken, OutboxRow
  <2>4. row \in OutboxRow
    BY <2>3, BoundsAssumption DEF OutboxRow, OutboxStatus, Times
  <2>5. mine \in Held
    BY <2>1, <2>3 DEF Held, LedgerInv, TypeOK
  <2>6. outbox' = [j \in DOMAIN outbox |->
                IF j = i THEN row
                ELSE IF j \in passed THEN Closed(outbox[j]) ELSE outbox[j]]
        /\ held' = [held EXCEPT ![w] = mine]
    BY <1>2
  <2> HIDE DEF row, mine
  <2>7. DOMAIN outbox' = DOMAIN outbox /\ outbox' \in [DOMAIN outbox -> OutboxRow]
    BY <1>0, <2>4, <2>6, ClosedRow
  <2>8. \A j \in DOMAIN outbox : \/ outbox'[j] = outbox[j]
                                 \/ node[j].state = "VALID"
                                 \/ outbox'[j].status \in {"PUBLISHED", "DELIVERY_UNKNOWN",
                                                           "CANCELLED"}
    BY <1>0, <2>2, <2>6, ClosedRow
  <2>9. held' \in [Workers -> Held]
    BY <2>5, <2>6 DEF LedgerInv, TypeOK
  <2> QED BY <2>7, <2>8, <2>9, DeliveryKeeps DEF ClaimOutbox
<1> QED BY <1>1, <1>2 DEF ClaimOutbox

LEMMA BeginStep ==
    ASSUME LedgerInv, NEW w \in Workers, NEW t, BeginDispatch(w, t)
    PROVE  LedgerInv'
<1> DEFINE i == held[w].item
<1>1. i \in DOMAIN outbox /\ outbox[i] \in OutboxRow /\ held[w] \in Held
  BY DEF BeginDispatch, LeaseStands, LedgerInv, TypeOK
<1>2. node[i].state = "VALID"
  BY ValidIsStored DEF BeginDispatch
<1>3. outbox' = [outbox EXCEPT ![i].status = "DISPATCHING"]
      /\ held' = [held EXCEPT ![w].phase = "sending"]
      /\ UNCHANGED <<clock, epoch, suppressed, withdrawn, node, authorized>>
  BY DEF BeginDispatch
<1>4. [outbox[i] EXCEPT !.status = "DISPATCHING"] \in OutboxRow
  BY <1>1 DEF OutboxRow, OutboxStatus
<1>5. [held[w] EXCEPT !.phase = "sending"] \in Held
  BY <1>1 DEF Held
<1> HIDE DEF i
<1>6. DOMAIN outbox' = DOMAIN outbox /\ outbox' \in [DOMAIN outbox -> OutboxRow]
  BY <1>1, <1>3, <1>4 DEF LedgerInv, TypeOK
<1>7. held' \in [Workers -> Held]
  BY <1>3, <1>5 DEF LedgerInv, TypeOK
<1>8. \A j \in DOMAIN outbox : j # i => outbox'[j] = outbox[j]
  BY <1>3 DEF LedgerInv, TypeOK
<1> QED BY <1>2, <1>3, <1>6, <1>7, <1>8, DeliveryKeeps

LEMMA FinalizeStep ==
    ASSUME LedgerInv, NEW w \in Workers, NEW target, NEW t, FinalizeDispatch(w, target, t)
    PROVE  LedgerInv'
<1> DEFINE i == held[w].item
           final == IF Valid(i, t) THEN target ELSE "DELIVERY_UNKNOWN"
<1>1. i \in DOMAIN outbox /\ outbox[i] \in OutboxRow
  BY DEF FinalizeDispatch, LeaseStands, LedgerInv, TypeOK
<1>2. final \in {"PUBLISHED", "DELIVERY_UNKNOWN"}
  BY DEF FinalizeDispatch
<1>3. outbox' = [outbox EXCEPT ![i].status = final]
      /\ held' = [held EXCEPT ![w] = Idle]
      /\ UNCHANGED <<clock, epoch, suppressed, withdrawn, node, authorized>>
  BY DEF FinalizeDispatch
<1> HIDE DEF final, i
<1>4. [outbox[i] EXCEPT !.status = final] \in OutboxRow
  BY <1>1, <1>2 DEF OutboxRow, OutboxStatus
<1>5. Idle \in Held
  BY BoundsAssumption DEF Idle, Held
<1>6. /\ DOMAIN outbox' = DOMAIN outbox /\ outbox' \in [DOMAIN outbox -> OutboxRow]
      /\ \A j \in DOMAIN outbox : j # i => outbox'[j] = outbox[j]
      /\ outbox'[i].status = final
  BY <1>1, <1>3, <1>4 DEF LedgerInv, TypeOK, OutboxRow
<1>7. held' \in [Workers -> Held]
  BY <1>3, <1>5 DEF LedgerInv, TypeOK
<1> QED BY <1>2, <1>3, <1>6, <1>7, DeliveryKeeps

LEMMA StopStep ==
    ASSUME LedgerInv, NEW w \in Workers, WorkerStops(w)
    PROVE  LedgerInv'
<1>1. Idle \in Held
  BY BoundsAssumption DEF Idle, Held
<1>2. held' \in [Workers -> Held]
  BY <1>1 DEF WorkerStops, LedgerInv, TypeOK
<1> QED BY <1>2, DeliveryKeeps DEF WorkerStops, LedgerInv, TypeOK

-----------------------------------------------------------------------------
\* Transactions of any caller.  A caller may carry any content and expiry, expect
\* any epoch and have read any clock: Next here and the operators' workflow are
\* two ways of calling, and what is proved of Transaction holds under both.

Expectations == 0..MaxEpoch \cup {AnyEpoch}

AnyAppend ==
    \E c \in Content, t \in Times, expected \in Expectations :
        c.kind # "manual_task" /\ AppendEvidence(c, t, expected)

AnyAdmission ==
    /\ {"grant", "observation"} \subseteq Kinds
    /\ \E s \in Scopes, key \in GrantKeys, b \in Bodies, gx, ox \in Nat,
          t \in Times, expected \in Expectations :
        AdmitObservation(
            [scope |-> s, kind |-> "grant", parents |-> {}, expires |-> gx, body |-> key],
            [scope |-> s, kind |-> "observation", parents |-> {}, expires |-> ox, body |-> b],
            t, expected)

AnyRevocation ==
    \/ \E i \in DOMAIN node, expected \in Expectations : Revoke(i, expected)
    \/ \E key \in GrantKeys : RevokeGrant(key)
    \/ \E s \in Scopes, expected \in Expectations : Suppress(s, expected)

AnyTask ==
    /\ "manual_task" \in Kinds
    /\ \E s \in Scopes, cl \in DOMAIN node, b \in TaskBody, x \in Nat,
          t \in Times, expected \in Expectations :
        CreateManualTask(s, cl, b, x, t, expected)

Transaction ==
    \/ AnyAppend \/ AnyAdmission \/ AnyRevocation \/ AnyTask \/ Work \/ Tick
    \/ \E granted \in SUBSET Authorities : ChangePolicy(granted)

LEMMA NextIsTransaction ==
    ASSUME LedgerInv, [Next]_ledgerVars
    PROVE  [Transaction]_ledgerVars
<1>1. AnyEpoch \in Expectations
  BY DEF Expectations
<1>2. AppendAny => AnyAppend
  <2> SUFFICES ASSUME AppendAny PROVE AnyAppend
    OBVIOUS
  <2>1. PICK k \in Kinds \ {"manual_task"}, s \in Scopes, x \in Expiries, t \in Readings :
          \E ps \in SUBSET Citable(k), b \in BodyOf(k) :
            AppendEvidence([scope |-> s, kind |-> k, parents |-> ps, expires |-> x, body |-> b],
                           t, AnyEpoch)
    BY DEF AppendAny
  <2>2. PICK ps \in SUBSET Citable(k), b \in BodyOf(k) :
          AppendEvidence([scope |-> s, kind |-> k, parents |-> ps, expires |-> x, body |-> b],
                         t, AnyEpoch)
    BY <2>1
  <2> DEFINE c == [scope |-> s, kind |-> k, parents |-> ps, expires |-> x, body |-> b]
  <2>3. ps \subseteq Ids /\ b \in Body /\ x \in Nat /\ t \in Times
    BY BoundsAssumption DEF Citable, LedgerInv, TypeOK, BodyOf, Body, Readings
  <2>4. c \in Content /\ c.kind # "manual_task"
    BY <2>3 DEF Content
  <2> HIDE DEF c
  <2> QED BY <1>1, <2>2, <2>3, <2>4 DEF AnyAppend, c
<1>3. Admit => AnyAdmission
  BY <1>1, BoundsAssumption DEF Admit, AnyAdmission, Readings
<1>4. MakeTask => AnyTask
  BY <1>1, BoundsAssumption DEF MakeTask, AnyTask, Readings
<1> QED BY <1>1, <1>2, <1>3, <1>4 DEF Next, Transaction, AnyRevocation

-----------------------------------------------------------------------------
\* The invariant.

LEMMA LedgerInit == Init => LedgerInv
<1> SUFFICES ASSUME Init PROVE LedgerInv
  OBVIOUS
<1>1. DOMAIN node = {} /\ DOMAIN outbox = {}
  BY DEF Init
<1>2. Idle \in Held
  BY BoundsAssumption DEF Idle, Held
<1>3. TypeOK
  BY <1>1, <1>2, BoundsAssumption DEF Init, TypeOK, Times
<1>4. Consecutive(node)
  BY <1>1, BoundsAssumption DEF Consecutive
<1>5. Derived(node) /\ SuppressedScopesHoldNothing /\ RevokedTasksAreRecalled
  BY <1>1 DEF Derived, SuppressedScopesHoldNothing, RevokedTasksAreRecalled
<1> QED BY <1>3, <1>4, <1>5 DEF LedgerInv

LEMMA TransactionKeepsLedgerInv ==
    ASSUME LedgerInv, [Transaction]_ledgerVars
    PROVE  LedgerInv'
<1>1. CASE AnyAppend
  BY <1>1, AppendStep DEF AnyAppend
<1>2. CASE AnyAdmission
  BY <1>2, AdmitStep DEF AnyAdmission
<1>3. CASE AnyRevocation
  BY <1>3, RevokeStep, RevokeGrantStep, SuppressStep DEF AnyRevocation
<1>4. CASE AnyTask
  BY <1>4, CreateTaskStep DEF AnyTask
<1>5. CASE Work
  <2>1. PICK w \in Workers, t \in Times :
           \/ \E lease \in LeaseTimes : ClaimOutbox(w, t, lease)
           \/ BeginDispatch(w, t)
           \/ \E target \in {"PUBLISHED", "DELIVERY_UNKNOWN"} : FinalizeDispatch(w, target, t)
           \/ WorkerStops(w)
    BY <1>5 DEF Work, Readings
  <2> QED BY <2>1, ClaimStep, BeginStep, FinalizeStep, StopStep
<1>6. CASE Tick \/ \E granted \in SUBSET Authorities : ChangePolicy(granted)
  <2>1. TypeOK'
    BY <1>6, BoundsAssumption DEF Tick, ChangePolicy, LedgerInv, TypeOK, Times
  <2>2. Consecutive(node') /\ Derived(node') /\ SuppressedScopesHoldNothing'
        /\ RevokedTasksAreRecalled'
    BY <1>6 DEF Tick, ChangePolicy, LedgerInv, SuppressedScopesHoldNothing,
                RevokedTasksAreRecalled
  <2> QED BY <2>1, <2>2 DEF LedgerInv
<1>7. CASE UNCHANGED ledgerVars
  <2>1. TypeOK' /\ SuppressedScopesHoldNothing' /\ RevokedTasksAreRecalled'
    BY <1>7 DEF ledgerVars, LedgerInv, TypeOK, SuppressedScopesHoldNothing,
                RevokedTasksAreRecalled
  <2>2. Consecutive(node') /\ Derived(node')
    BY <1>7 DEF ledgerVars, LedgerInv
  <2> QED BY <2>1, <2>2 DEF LedgerInv
<1> QED BY <1>1, <1>2, <1>3, <1>4, <1>5, <1>6, <1>7 DEF Transaction

LEMMA LedgerNext == LedgerInv /\ [Next]_ledgerVars => LedgerInv'
BY NextIsTransaction, TransactionKeepsLedgerInv

\* The invariant holds in every state of the ledger.
THEOREM LedgerInvariant == Spec => []LedgerInv
BY LedgerInit, LedgerNext, PTL DEF Spec

\* Every reachable state of the ledger is well typed: in particular every status
\* written to the outbox is one its CHECK constraint admits.
THEOREM TypeCorrectness == Spec => []TypeOK
<1>1. LedgerInv => TypeOK
  BY DEF LedgerInv
<1> QED BY <1>1, LedgerInvariant, PTL

\* A correction reaches every derivation (revoke, append).
THEOREM CorrectionsReachDescendants == Spec => []RevocationReachesDescendants
<1>1. LedgerInv => RevocationReachesDescendants
  BY DEF LedgerInv, Derived, RevocationReachesDescendants
<1> QED BY <1>1, LedgerInvariant, PTL

\* Nothing outlives what it was derived from (_append_locked).
THEOREM LineageIsBounded == Spec => []NoChildOutlivesItsEvidence
<1>1. LedgerInv => NoChildOutlivesItsEvidence
  BY DEF LedgerInv, Derived, NoChildOutlivesItsEvidence, Ancestors
<1> QED BY <1>1, LedgerInvariant, PTL

\* Nothing leaves the scope of what it was derived from (_append_locked).
THEOREM LineageHasOneScope == Spec => []LineageStaysInScope
<1>1. LedgerInv => LineageStaysInScope
  BY DEF LedgerInv, Derived, LineageStaysInScope, Ancestors
<1> QED BY <1>1, LedgerInvariant, PTL

\* A suppressed scope stays empty of valid evidence (suppress and every insert).
THEOREM SuppressionIsComplete == Spec => []SuppressedScopesHoldNothing
<1>1. LedgerInv => SuppressedScopesHoldNothing
  BY DEF LedgerInv
<1> QED BY <1>1, LedgerInvariant, PTL

\* A revoked task is out of the workers' reach (_revoke_projections).
THEOREM RevokedTasksAreOut == Spec => []RevokedTasksAreRecalled
<1>1. LedgerInv => RevokedTasksAreRecalled
  BY DEF LedgerInv
<1> QED BY <1>1, LedgerInvariant, PTL

-----------------------------------------------------------------------------
\* Finality.

\* What NothingIsRevived says of one step, in two halves.
ScopesOnlyClose ==
    /\ withdrawn \subseteq withdrawn' /\ suppressed \subseteq suppressed'
    /\ \A s \in Scopes : epoch'[s] >= epoch[s]
NodesOnlyFall ==
    /\ \A i \in DOMAIN node :
        /\ i \in DOMAIN node'
        /\ node'[i] \in {node[i], [node[i] EXCEPT !.state = "REVOKED"]}
    /\ \A i \in DOMAIN outbox : i \in DOMAIN outbox' /\ outbox'[i].token >= outbox[i].token

LEMMA NaturalRows ==
    ASSUME LedgerInv
    PROVE  /\ \A s \in Scopes : epoch[s] \in Nat
           /\ \A i \in DOMAIN outbox : outbox[i] \in OutboxRow /\ outbox[i].token \in Nat
BY BoundsAssumption DEF LedgerInv, TypeOK, OutboxRow

LEMMA RevokingOnlyFalls ==
    ASSUME LedgerInv, NEW R, node' = Revoked(R), outbox' = Recalled(R)
    PROVE  NodesOnlyFall
<1>1. \A i \in DOMAIN node :
        i \in DOMAIN node' /\ node'[i] \in {node[i], [node[i] EXCEPT !.state = "REVOKED"]}
  BY DEF Revoked
<1>2. \A i \in DOMAIN outbox : i \in DOMAIN outbox' /\ outbox'[i].token = outbox[i].token
  BY RecalledRows DEF LedgerInv, TypeOK
<1> QED BY <1>1, <1>2, NaturalRows DEF NodesOnlyFall

LEMMA AppendIsFinal ==
    ASSUME LedgerInv, NEW c, c.scope \in Scopes, NEW t, NEW expected, AppendEvidence(c, t, expected)
    PROVE  ScopesOnlyClose /\ NodesOnlyFall
<1>1. PICK n \in 0..MaxNodes : DOMAIN node = 1..n
  BY DEF LedgerInv, Consecutive
<1>2. n \in Nat /\ NextId = n + 1
  BY <1>1, FreshId, BoundsAssumption
<1>3. \A i \in DOMAIN node : i \in DOMAIN node' /\ node'[i] = node[i]
  BY <1>1, <1>2 DEF AppendEvidence, Inserted
<1>4. \A s \in Scopes : epoch'[s] >= epoch[s]
  BY NaturalRows DEF AppendEvidence, EpochAfter, LedgerInv, TypeOK
<1> QED BY <1>3, <1>4, NaturalRows DEF AppendEvidence, ScopesOnlyClose, NodesOnlyFall

LEMMA AdmitIsFinal ==
    ASSUME LedgerInv, NEW g, NEW o, g.scope \in Scopes, o.scope = g.scope,
           NEW t, NEW expected, AdmitWithNewGrant(g, o, t, expected)
    PROVE  ScopesOnlyClose /\ NodesOnlyFall
<1>1. PICK n \in 0..MaxNodes : DOMAIN node = 1..n
  BY DEF LedgerInv, Consecutive
<1>2. n \in Nat /\ NextId = n + 1
  BY <1>1, FreshId, BoundsAssumption
<1> DEFINE e == epoch[g.scope]
           T == Inserted(node, n + 1, g, e + 1)
           c == [o EXCEPT !.parents = {n + 1}]
<1>3. /\ node' = Inserted(T, (n + 1) + 1, c, e + 2)
      /\ epoch' = [epoch EXCEPT ![g.scope] = @ + 2]
      /\ UNCHANGED <<clock, suppressed, withdrawn, outbox, held, authorized>>
  BY <1>2 DEF AdmitWithNewGrant
<1> HIDE DEF c
<1>4. \A i \in DOMAIN node : i \in DOMAIN T /\ T[i] = node[i]
  BY <1>1, <1>2 DEF Inserted
<1> HIDE DEF T
<1>5. \A i \in DOMAIN node : i \in DOMAIN node' /\ node'[i] = node[i]
  BY <1>1, <1>2, <1>3, <1>4 DEF Inserted
<1>6. \A s \in Scopes : epoch'[s] >= epoch[s]
  BY <1>3, NaturalRows DEF LedgerInv, TypeOK
<1> QED BY <1>3, <1>5, <1>6, NaturalRows DEF ScopesOnlyClose, NodesOnlyFall

LEMMA RevocationsAreFinal ==
    ASSUME LedgerInv, AnyRevocation
    PROVE  ScopesOnlyClose /\ NodesOnlyFall
<1>1. ASSUME NEW i \in DOMAIN node, NEW expected, Revoke(i, expected)
      PROVE  ScopesOnlyClose /\ NodesOnlyFall
  <2>1. \A s \in Scopes : epoch'[s] >= epoch[s]
    BY <1>1, NaturalRows DEF Revoke, LedgerInv, TypeOK
  <2> QED BY <1>1, <2>1, RevokingOnlyFalls DEF Revoke, ScopesOnlyClose
<1>2. ASSUME NEW key \in GrantKeys, RevokeGrant(key) PROVE ScopesOnlyClose /\ NodesOnlyFall
  <2> DEFINE inScope(s) == Cardinality({j \in GrantNodes(key) : node[j].scope = s})
  <2>1. ASSUME NEW s \in Scopes PROVE inScope(s) \in Nat
    <3>1. IsFiniteSet(DOMAIN node)
      BY FS_Interval, BoundsAssumption DEF LedgerInv, Consecutive
    <3>2. {j \in GrantNodes(key) : node[j].scope = s} \subseteq DOMAIN node
      BY DEF GrantNodes
    <3> QED BY <3>1, <3>2, FS_Subset, FS_CardinalityType
  <2>2. epoch' = [s \in Scopes |-> epoch[s] + inScope(s)]
        /\ withdrawn \subseteq withdrawn' /\ suppressed' = suppressed
    BY <1>2 DEF RevokeGrant
  <2>3. NodesOnlyFall
    BY <1>2, RevokingOnlyFalls DEF RevokeGrant
  <2> HIDE DEF inScope
  <2>4. \A s \in Scopes : epoch'[s] >= epoch[s]
    BY <2>1, <2>2, NaturalRows
  <2> QED BY <2>2, <2>3, <2>4 DEF ScopesOnlyClose
<1>3. ASSUME NEW s \in Scopes, NEW expected, Suppress(s, expected)
      PROVE  ScopesOnlyClose /\ NodesOnlyFall
  <2>1. \A r \in Scopes : epoch'[r] >= epoch[r]
    BY <1>3, NaturalRows DEF Suppress, LedgerInv, TypeOK
  <2>2. NodesOnlyFall
    BY <1>3, RevokingOnlyFalls DEF Suppress
  <2> QED BY <1>3, <2>1, <2>2 DEF Suppress, ScopesOnlyClose
<1> QED BY <1>1, <1>2, <1>3 DEF AnyRevocation

LEMMA TaskIsFinal ==
    ASSUME LedgerInv, NEW s, NEW cl, NEW b, NEW x, NEW t, NEW expected,
           CreateManualTask(s, cl, b, x, t, expected)
    PROVE  ScopesOnlyClose /\ NodesOnlyFall
<1>1. PICK n \in 0..MaxNodes : DOMAIN node = 1..n
  BY DEF LedgerInv, Consecutive
<1>2. n \in Nat /\ NextId = n + 1
  BY <1>1, FreshId, BoundsAssumption
<1>3. \A i \in DOMAIN node : i \in DOMAIN node' /\ node'[i] = node[i]
  BY <1>1, <1>2 DEF CreateManualTask, Inserted
<1>4. \A i \in DOMAIN outbox : i \in DOMAIN outbox' /\ outbox'[i] = outbox[i]
  BY <1>1, <1>2 DEF CreateManualTask, LedgerInv, TypeOK
<1>5. UNCHANGED <<epoch, suppressed, withdrawn>>
  BY DEF CreateManualTask
<1>6. ScopesOnlyClose
  BY <1>5, NaturalRows DEF ScopesOnlyClose
<1>7. NodesOnlyFall
  BY <1>3, <1>4, NaturalRows DEF NodesOnlyFall
<1> QED BY <1>6, <1>7

LEMMA WorkIsFinal ==
    ASSUME LedgerInv, Work
    PROVE  ScopesOnlyClose /\ NodesOnlyFall
<1>1. UNCHANGED <<epoch, suppressed, withdrawn, node>>
  BY DEF Work, ClaimOutbox, BeginDispatch, FinalizeDispatch, WorkerStops
<1>2. PICK w \in Workers, t \in Readings :
        \/ \E lease \in LeaseTimes : ClaimOutbox(w, t, lease)
        \/ BeginDispatch(w, t)
        \/ \E target \in {"PUBLISHED", "DELIVERY_UNKNOWN"} : FinalizeDispatch(w, target, t)
        \/ WorkerStops(w)
  BY DEF Work
<1>3. ASSUME NEW i \in DOMAIN outbox
      PROVE  i \in DOMAIN outbox' /\ outbox'[i].token >= outbox[i].token
  <2>1. outbox[i] \in OutboxRow /\ outbox[i].token \in Nat
    BY NaturalRows
  <2>2. ASSUME NEW lease \in LeaseTimes, ClaimOutbox(w, t, lease)
        PROVE  i \in DOMAIN outbox' /\ outbox'[i].token >= outbox[i].token
    <3>1. i \in DOMAIN outbox'
          /\ \/ outbox'[i] = outbox[i]
             \/ outbox'[i] = Closed(outbox[i])
             \/ outbox'[i].token = NextToken(outbox[i])
      BY <2>2 DEF ClaimOutbox
    <3> QED BY <2>1, <3>1, ClosedRow DEF NextToken
  <2>3. CASE BeginDispatch(w, t)
    <3>1. outbox' = [outbox EXCEPT ![held[w].item].status = "DISPATCHING"]
      BY <2>3 DEF BeginDispatch
    <3> QED BY <2>1, <3>1 DEF OutboxRow
  <2>4. ASSUME NEW target, FinalizeDispatch(w, target, t)
        PROVE  i \in DOMAIN outbox' /\ outbox'[i].token >= outbox[i].token
    <3>1. outbox' = [outbox EXCEPT ![held[w].item].status =
                        IF Valid(held[w].item, t) THEN target ELSE "DELIVERY_UNKNOWN"]
      BY <2>4 DEF FinalizeDispatch
    <3> QED BY <2>1, <3>1 DEF OutboxRow
  <2>5. CASE WorkerStops(w)
    BY <2>1, <2>5 DEF WorkerStops
  <2> QED BY <1>2, <2>2, <2>3, <2>4, <2>5
<1> QED BY <1>1, <1>3, NaturalRows DEF ScopesOnlyClose, NodesOnlyFall

\* No transaction undoes a withdrawal, a suppression or a revocation, alters or
\* loses a stored node, or runs an epoch or a token back.
LEMMA TransactionsAreFinal ==
    ASSUME LedgerInv, [Transaction]_ledgerVars
    PROVE  ScopesOnlyClose /\ NodesOnlyFall
<1>1. CASE AnyAppend
  BY <1>1, AppendIsFinal DEF AnyAppend, Content
<1>2. CASE AnyAdmission
  <2>1. PICK s \in Scopes, key \in GrantKeys, b \in Bodies, gx \in Nat, ox \in Nat,
             t \in Times, expected \in Expectations :
          AdmitObservation(
            [scope |-> s, kind |-> "grant", parents |-> {}, expires |-> gx, body |-> key],
            [scope |-> s, kind |-> "observation", parents |-> {}, expires |-> ox, body |-> b],
            t, expected)
    BY <1>2 DEF AnyAdmission
  <2> QED BY <2>1, AppendIsFinal, AdmitIsFinal DEF AdmitObservation, AdmitUnderStoredGrant
<1>3. CASE AnyTask
  BY <1>3, TaskIsFinal DEF AnyTask
<1>4. CASE Tick \/ \E granted \in SUBSET Authorities : ChangePolicy(granted)
  BY <1>4, NaturalRows DEF Tick, ChangePolicy, ScopesOnlyClose, NodesOnlyFall
<1>5. CASE UNCHANGED ledgerVars
  BY <1>5, NaturalRows DEF ledgerVars, ScopesOnlyClose, NodesOnlyFall
<1> QED
  BY <1>1, <1>2, <1>3, <1>4, <1>5, RevocationsAreFinal, WorkIsFinal DEF Transaction

\* Withdrawals, suppressions and revocations are never undone, no stored node is
\* altered or lost, epochs and fencing tokens never run back: by any step.
THEOREM RevocationIsFinal == Spec => NothingIsRevived
<1>1. LedgerInv /\ [Next]_ledgerVars =>
        [/\ withdrawn \subseteq withdrawn' /\ suppressed \subseteq suppressed'
         /\ \A s \in Scopes : epoch'[s] >= epoch[s]
         /\ \A i \in DOMAIN node :
              /\ i \in DOMAIN node'
              /\ node'[i] \in {node[i], [node[i] EXCEPT !.state = "REVOKED"]}
         /\ \A i \in DOMAIN outbox : i \in DOMAIN outbox' /\ outbox'[i].token >= outbox[i].token
        ]_ledgerVars
  BY NextIsTransaction, TransactionsAreFinal DEF ScopesOnlyClose, NodesOnlyFall
<1> QED BY <1>1, LedgerInvariant, PTL DEF Spec, NothingIsRevived

-----------------------------------------------------------------------------
\* The row locks that make each of these steps one step.  A transaction waits only
\* for locks behind all that it holds, in the order of its kind; and a withdrawal that
\* holds its grant holds, or will take, every scope with evidence under it.

\* In order of their places the members of S form an increasing sequence: the member
\* with n of S before it is the (n+1)st.
LEMMA FiniteSetsAreOrdered ==
    ASSUME NEW S, IsFiniteSet(S), NEW order, \A s \in S : order[s] \in Nat,
           \A s, u \in S : s # u => order[s] # order[u]
    PROVE  \E q \in [1..Cardinality(S) -> S] :
              \A i, j \in DOMAIN q : i < j => order[q[i]] < order[q[j]]
<1> DEFINE before(s) == {u \in S : order[u] < order[s]}
           place == [s \in S |-> Cardinality(before(s)) + 1]
           n == Cardinality(S)
<1>1. n \in Nat /\ IsFiniteSet(1 .. n) /\ Cardinality(1 .. n) = n
  BY FS_CardinalityType, FS_Interval
<1>2. ASSUME NEW s \in S
      PROVE  Cardinality(before(s)) \in Nat /\ place[s] \in 1 .. n
  <2>1. before(s) \in SUBSET S /\ before(s) # S
    OBVIOUS
  <2>2. IsFiniteSet(before(s)) /\ Cardinality(before(s)) <= n /\ Cardinality(before(s)) # n
    BY <2>1, FS_Subset
  <2>3. Cardinality(before(s)) \in Nat
    BY <2>2, FS_CardinalityType
  <2> HIDE DEF n, before
  <2> QED BY <1>1, <2>2, <2>3
<1>3. ASSUME NEW s \in S, NEW u \in S, order[s] < order[u]
      PROVE  place[s] < place[u]
  <2>1. before(s) \in SUBSET before(u) /\ s \in before(u) /\ s \notin before(s)
    BY <1>3
  <2>2. IsFiniteSet(before(u))
    BY FS_Subset
  <2>3. Cardinality(before(s)) <= Cardinality(before(u))
        /\ Cardinality(before(u)) # Cardinality(before(s))
    BY <2>1, <2>2, FS_Subset
  <2> HIDE DEF before
  <2> QED BY <1>2, <2>3
<1>4. place \in Injection(S, 1 .. n)
  <2>1. place \in [S -> 1 .. n]
    <3> HIDE DEF n, before
    <3> QED BY <1>2
  <2>2. ASSUME NEW s \in S, NEW u \in S, place[s] = place[u] PROVE s = u
    <3> HIDE DEF place
    <3>1. place[s] \in Nat /\ place[u] \in Nat
      <4> HIDE DEF n, before
      <4>1. place[s] \in 1 .. n /\ place[u] \in 1 .. n
        BY <1>2
      <4> QED BY <1>1, <4>1
    <3> QED BY <1>3, <2>2, <3>1
  <2> HIDE DEF place
  <2> QED BY <2>1, <2>2 DEF Injection, IsInjective
<1>5. place \in Surjection(S, 1 .. n)
  <2> HIDE DEF place
  <2> QED BY <1>1, <1>4, FS_Injection
<1> HIDE DEF place
<1>6. \A i \in 1 .. n : \E s \in S : place[s] = i
  BY <1>5 DEF Surjection
<1> DEFINE q == [i \in 1 .. n |-> CHOOSE s \in S : place[s] = i]
<1>7. q \in [1 .. n -> S] /\ \A i \in 1 .. n : place[q[i]] = i
  BY <1>6
<1> HIDE DEF q
<1>8. ASSUME NEW i \in 1 .. n, NEW j \in 1 .. n, i < j PROVE order[q[i]] < order[q[j]]
  <2>1. q[i] \in S /\ q[j] \in S /\ q[i] # q[j] /\ ~ (place[q[j]] < place[q[i]])
    BY <1>1, <1>7, <1>8
  <2>2. ~ (order[q[j]] < order[q[i]])
    BY <1>3, <2>1
  <2> QED BY <2>1, <2>2
<1> QED BY <1>7, <1>8

LEMMA LockCardinality == \A S : Locks!Cardinality(S) = Cardinality(S)
BY DEF Locks!Cardinality, Cardinality

\* The locks of a request are taken one by one in the order of its scopes, each
\* scope once.
LEMMA OrderedIsSorted ==
    ASSUME Locks!LocksAssumption, NEW S \in SUBSET Scopes, NEW order \in {CodeOrder} \cup Collations,
           NEW q, q = Locks!Ordered(S, order)
    PROVE  /\ q \in Seq(S) /\ \A s \in S : \E i \in DOMAIN q : q[i] = s
           /\ \A i, j \in DOMAIN q : i < j => order[q[i]] < order[q[j]]
<1>1. IsFiniteSet(S) /\ Cardinality(S) \in Nat
  <2>1. IsFiniteSet(Scopes)
    BY DEF Locks!LocksAssumption, Locks!IsFiniteSet, IsFiniteSet
  <2> QED BY <2>1, FS_Subset, FS_CardinalityType
<1>2. /\ \A s \in S : order[s] \in Nat
      /\ \A s, u \in S : s # u => order[s] # order[u]
  BY DEF Locks!LocksAssumption
<1>3. \E r \in [1..Cardinality(S) -> S] :
         \A i, j \in DOMAIN r : i < j => order[r[i]] < order[r[j]]
  BY <1>1, <1>2, FiniteSetsAreOrdered
<1>4. q = CHOOSE r \in [1..Cardinality(S) -> S] :
             \A i, j \in DOMAIN r : i < j => order[r[i]] < order[r[j]]
  BY LockCardinality DEF Locks!Ordered
<1>5. /\ q \in [1..Cardinality(S) -> S]
      /\ \A i, j \in DOMAIN q : i < j => order[q[i]] < order[q[j]]
  BY <1>3, <1>4
<1>6. q \in Injection(1..Cardinality(S), S)
  <2>1. ASSUME NEW i \in 1..Cardinality(S), NEW j \in 1..Cardinality(S), q[i] = q[j]
        PROVE  i = j
    <3>1. order[q[i]] \in Nat /\ order[q[j]] \in Nat
      BY <1>2, <1>5
    <3>2. ~ (i < j) /\ ~ (j < i)
      BY <1>1, <1>5, <2>1, <3>1
    <3> QED BY <1>1, <3>2
  <2> QED BY <1>5, <2>1 DEF Injection, IsInjective
<1>7. Cardinality(1..Cardinality(S)) = Cardinality(S)
  BY <1>1, FS_Interval
<1>8. q \in Surjection(1..Cardinality(S), S)
  BY <1>1, <1>6, <1>7, FS_Injection
<1>9. \A s \in S : \E i \in DOMAIN q : q[i] = s
  BY <1>5, <1>8 DEF Surjection
<1> QED BY <1>1, <1>5, <1>9

\* The place of a lock in the order in which a transaction takes locks: the grant,
\* then the scopes.
Place(l, order) == IF l \in LockGrants THEN 0 ELSE order[l] + 1

\* What a transaction still takes lies in order, behind all that it holds.
Ascending(todo, H, order) ==
    /\ \A i, j \in DOMAIN todo : i < j => Place(todo[i], order) < Place(todo[j], order)
    /\ \A l \in H, i \in DOMAIN todo : Place(l, order) < Place(todo[i], order)

TxRecord == [kind : Locks!TxKinds, grant : LockGrants \cup {Locks!NoGrant},
             todo : Seq(Locks!Locks), writes : SUBSET Locks!Locks]

\* A transaction x that holds H, where the scopes under each grant are G and the
\* grants in W are withdrawn.  An admission or a withdrawal takes its grant before
\* all else; an admission that holds it found it standing; a withdrawal that holds
\* it holds, or will take, every scope with evidence under it.
Orderly(x, H, G, W, C) ==
    /\ x \in TxRecord /\ H \subseteq Locks!Locks /\ x.writes \subseteq H
    /\ x.kind = "idle" => x.todo = <<>> /\ H = {}
    /\ x.kind # "claim" => Ascending(x.todo, H, CodeOrder)
    /\ x.kind # "withdraw" => Ascending(x.todo, H, C)
    /\ x.kind \in {"admit", "withdraw"} =>
         /\ x.grant \in LockGrants
         /\ x.grant \in H \/ (H = {} /\ x.todo # <<>> /\ Head(x.todo) = x.grant)
    /\ x.kind = "admit" /\ x.grant \in H => x.grant \notin W
    /\ x.kind = "withdraw" /\ x.grant \in H =>
         \A s \in G[x.grant] : s \in H \/ \E i \in DOMAIN x.todo : x.todo[i] = s

HeldBy(h, t) == {l \in Locks!Locks : h[l] = t}

LocksInv ==
    /\ rowCollation \in Collations
    /\ rowHolder \in [Locks!Locks -> LockTxns \cup {Locks!Free}]
    /\ rowItem \in [Scopes -> Locks!ItemStates]
    /\ rowGranted \in [LockGrants -> SUBSET Scopes] /\ rowGone \subseteq LockGrants
    /\ rowRecalled \in [LockGrants -> SUBSET Scopes]
    /\ rowTx \in [LockTxns -> TxRecord]
    /\ \A t \in LockTxns : Orderly(rowTx[t], HeldBy(rowHolder, t), rowGranted, rowGone, rowCollation)
    /\ Locks!WithdrawalsAreComplete

LEMMA IdleIsOrderly ==
    ASSUME NEW G, NEW W, NEW C
    PROVE  Locks!Idle \in TxRecord /\ Orderly(Locks!Idle, {}, G, W, C)
BY DEF Orderly, TxRecord, Locks!Idle, Ascending, Locks!TxKinds

LEMMA TailAscends ==
    ASSUME NEW q \in Seq(Locks!Locks), q # <<>>, NEW H, NEW order, Ascending(q, H, order)
    PROVE  /\ Tail(q) \in Seq(Locks!Locks) /\ Head(q) \in Locks!Locks
           /\ Ascending(Tail(q), H \cup {Head(q)}, order)
           /\ \A i \in DOMAIN q : q[i] = Head(q) \/ \E j \in DOMAIN Tail(q) : Tail(q)[j] = q[i]
<1>1. PICK r : r = Tail(q)
  OBVIOUS
<1>2. Len(q) \in Nat /\ Len(q) >= 1 /\ DOMAIN q = 1 .. Len(q) /\ q[1] \in Locks!Locks
      /\ Head(q) = q[1]
  OBVIOUS
<1>3. r \in Seq(Locks!Locks) /\ DOMAIN r = 1 .. Len(q) - 1
      /\ \A i \in DOMAIN r : r[i] = q[i + 1]
  BY <1>1
<1>4. ASSUME NEW i \in DOMAIN r, NEW j \in DOMAIN r, i < j
      PROVE  Place(r[i], order) < Place(r[j], order)
  <2>1. i + 1 \in DOMAIN q /\ j + 1 \in DOMAIN q /\ i + 1 < j + 1
    BY <1>2, <1>3, <1>4
  <2> QED BY <1>3, <2>1 DEF Ascending
<1>5. ASSUME NEW l \in H \cup {Head(q)}, NEW i \in DOMAIN r
      PROVE  Place(l, order) < Place(r[i], order)
  <2>1. 1 \in DOMAIN q /\ i + 1 \in DOMAIN q /\ 1 < i + 1
    BY <1>2, <1>3
  <2> QED BY <1>2, <1>3, <2>1 DEF Ascending
<1>6. ASSUME NEW i \in DOMAIN q, q[i] # Head(q)
      PROVE  \E j \in DOMAIN r : r[j] = q[i]
  <2>1. i - 1 \in DOMAIN r /\ (i - 1) + 1 = i
    BY <1>2, <1>3, <1>6
  <2> QED BY <1>3, <2>1
<1> QED BY <1>1, <1>2, <1>3, <1>4, <1>5, <1>6 DEF Ascending

-----------------------------------------------------------------------------
\* What a step leaves alone.

\* Another transaction is as orderly as it was when its grant's scopes are the same,
\* and its grant stands if it stood.
LEMMA OthersStayOrderly ==
    ASSUME NEW x, NEW H, NEW G, NEW W, NEW C, Orderly(x, H, G, W, C), NEW G2, NEW W2,
           x.kind = "withdraw" /\ x.grant \in H => G2[x.grant] = G[x.grant],
           x.kind = "admit" /\ x.grant \in H /\ x.grant \in W2 => x.grant \in W
    PROVE  Orderly(x, H, G2, W2, C)
BY DEF Orderly

\* A transaction that ends holds nothing; the others hold what they held.
LEMMA ReleaseFrees ==
    ASSUME Locks!LocksAssumption, LocksInv, NEW t \in LockTxns, Locks!Release(t)
    PROVE  /\ rowHolder' \in [Locks!Locks -> LockTxns \cup {Locks!Free}]
           /\ rowTx' \in [LockTxns -> TxRecord]
           /\ rowTx'[t] = Locks!Idle /\ HeldBy(rowHolder', t) = {}
           /\ \A u \in LockTxns : u # t =>
                rowTx'[u] = rowTx[u] /\ HeldBy(rowHolder', u) = HeldBy(rowHolder, u)
<1>1. Locks!Free \notin LockTxns
  BY DEF Locks!LocksAssumption
<1>2. rowTx \in [LockTxns -> TxRecord]
      /\ rowHolder \in [Locks!Locks -> LockTxns \cup {Locks!Free}]
  BY DEF LocksInv
<1>3. /\ rowHolder' \in [Locks!Locks -> LockTxns \cup {Locks!Free}]
      /\ \A l \in Locks!Locks :
           rowHolder'[l] = IF rowHolder[l] = t THEN Locks!Free ELSE rowHolder[l]
  BY <1>2 DEF Locks!Release
<1>4. /\ rowTx' \in [LockTxns -> TxRecord] /\ rowTx'[t] = Locks!Idle
      /\ \A u \in LockTxns : u # t => rowTx'[u] = rowTx[u]
  BY <1>2, IdleIsOrderly DEF Locks!Release
<1>5. HeldBy(rowHolder', t) = {}
  BY <1>1, <1>3 DEF HeldBy
<1>6. \A u \in LockTxns : u # t => HeldBy(rowHolder', u) = HeldBy(rowHolder, u)
  BY <1>1, <1>3 DEF HeldBy
<1> QED BY <1>3, <1>4, <1>5, <1>6

\* Two transactions hold no lock together.
LEMMA HoldersDiffer ==
    ASSUME NEW t, NEW u, t # u, NEW l, l \in HeldBy(rowHolder, t)
    PROVE  l \notin HeldBy(rowHolder, u)
BY DEF HeldBy

\* The invariant after a step that ends t.
LEMMA EndKeepsOrder ==
    ASSUME Locks!LocksAssumption, LocksInv, NEW t \in LockTxns, Locks!Release(t),
           rowCollation' = rowCollation, rowItem' \in [Scopes -> Locks!ItemStates],
           rowGranted' \in [LockGrants -> SUBSET Scopes], rowGone' \subseteq LockGrants,
           rowRecalled' \in [LockGrants -> SUBSET Scopes],
           \A g \in LockGrants : g \notin HeldBy(rowHolder, t) =>
              rowGranted'[g] = rowGranted[g] /\ (g \in rowGone' => g \in rowGone),
           \A g \in rowGone' : rowGranted'[g] \subseteq rowRecalled'[g]
    PROVE  LocksInv'
<1>1. PICK h2, x2, G2, W2 :
        h2 = rowHolder' /\ x2 = rowTx' /\ G2 = rowGranted' /\ W2 = rowGone'
  OBVIOUS
<1>2. /\ h2 \in [Locks!Locks -> LockTxns \cup {Locks!Free}]
      /\ x2 \in [LockTxns -> TxRecord]
      /\ x2[t] = Locks!Idle /\ HeldBy(h2, t) = {}
      /\ \A u \in LockTxns : u # t =>
           x2[u] = rowTx[u] /\ HeldBy(h2, u) = HeldBy(rowHolder, u)
  BY <1>1, ReleaseFrees
<1>3. ASSUME NEW u \in LockTxns PROVE Orderly(x2[u], HeldBy(h2, u), G2, W2, rowCollation)
  <2>1. CASE u = t
    <3>1. Orderly(Locks!Idle, {}, G2, W2, rowCollation)
      BY IdleIsOrderly
    <3>2. x2[u] = Locks!Idle /\ HeldBy(h2, u) = {}
      BY <1>2, <2>1
    <3> QED BY <3>1, <3>2
  <2>2. CASE u # t
    <3>1. Orderly(rowTx[u], HeldBy(rowHolder, u), rowGranted, rowGone, rowCollation)
      BY DEF LocksInv
    <3>2. PICK y, H : y = rowTx[u] /\ H = HeldBy(rowHolder, u)
      OBVIOUS
    <3>3. /\ y.kind = "withdraw" /\ y.grant \in H => G2[y.grant] = rowGranted[y.grant]
          /\ y.kind = "admit" /\ y.grant \in H /\ y.grant \in W2 => y.grant \in rowGone
      <4>1. y.kind \in {"admit", "withdraw"} => y.grant \in LockGrants
        BY <3>1, <3>2 DEF Orderly
      <4>2. y.grant \in H => y.grant \notin HeldBy(rowHolder, t)
        BY <2>2, <3>2, HoldersDiffer
      <4> QED BY <1>1, <4>1, <4>2
    <3>4. Orderly(y, H, G2, W2, rowCollation)
      BY <3>1, <3>2, <3>3, OthersStayOrderly
    <3> QED BY <1>2, <2>2, <3>2, <3>4
  <2> QED BY <2>1, <2>2
<1>4. Locks!WithdrawalsAreComplete'
  BY DEF Locks!WithdrawalsAreComplete
<1> QED BY <1>1, <1>2, <1>3, <1>4 DEF LocksInv

LEMMA SingleKeepsOrder ==
    ASSUME Locks!LocksAssumption, LocksInv, NEW t \in LockTxns, Locks!CommitSingle(t)
    PROVE  LocksInv'
<1>1. /\ Locks!Release(t) /\ rowCollation' = rowCollation
      /\ rowGranted' = rowGranted /\ rowGone' = rowGone /\ rowRecalled' = rowRecalled
  BY DEF Locks!CommitSingle
<1>2. rowItem' \in [Scopes -> Locks!ItemStates]
  <2>1. rowItem \in [Scopes -> Locks!ItemStates]
    BY DEF LocksInv
  <2>2. \A step \in Locks!TaskSteps : step[2] \in Locks!ItemStates
    BY DEF Locks!TaskSteps, Locks!ItemStates
  <2>3. PICK s : rowItem' \in {rowItem} \cup {[rowItem EXCEPT ![s] = step[2]] :
                                step \in {x \in Locks!TaskSteps : x[1] = rowItem[s]}}
    BY DEF Locks!CommitSingle
  <2>4. CASE rowItem' = rowItem
    BY <2>1, <2>4
  <2>5. CASE \E step \in Locks!TaskSteps : rowItem' = [rowItem EXCEPT ![s] = step[2]]
    BY <2>1, <2>2, <2>5
  <2> QED BY <2>3, <2>4, <2>5
<1>3. /\ rowGranted \in [LockGrants -> SUBSET Scopes] /\ rowGone \subseteq LockGrants
      /\ rowRecalled \in [LockGrants -> SUBSET Scopes]
      /\ \A g \in rowGone : rowGranted[g] \subseteq rowRecalled[g]
  BY DEF LocksInv, Locks!WithdrawalsAreComplete
<1> QED BY <1>1, <1>2, <1>3, EndKeepsOrder

LEMMA AdmitKeepsOrder ==
    ASSUME Locks!LocksAssumption, LocksInv, NEW t \in LockTxns, Locks!CommitAdmit(t)
    PROVE  LocksInv'
<1>1. PICK x, H, g : x = rowTx[t] /\ H = HeldBy(rowHolder, t) /\ g = rowTx[t].grant
  OBVIOUS
<1>2. /\ x.kind = "admit" /\ x.todo = <<>> /\ Locks!Release(t) /\ rowCollation' = rowCollation
      /\ rowItem' = rowItem /\ rowGone' = rowGone /\ rowRecalled' = rowRecalled
      /\ rowGranted' = [rowGranted EXCEPT ![g] = @ \cup (H \cap Scopes)]
  BY <1>1 DEF Locks!CommitAdmit, Locks!Held, HeldBy
<1>3. Orderly(x, H, rowGranted, rowGone, rowCollation)
  BY <1>1 DEF LocksInv
<1>4. g \in LockGrants /\ g \in H /\ g \notin rowGone
  BY <1>1, <1>2, <1>3 DEF Orderly
<1>5. /\ rowGranted \in [LockGrants -> SUBSET Scopes] /\ rowGone \subseteq LockGrants
      /\ rowRecalled \in [LockGrants -> SUBSET Scopes] /\ rowItem \in [Scopes -> Locks!ItemStates]
      /\ \A k \in rowGone : rowGranted[k] \subseteq rowRecalled[k]
  BY DEF LocksInv, Locks!WithdrawalsAreComplete
<1>6. rowGranted' \in [LockGrants -> SUBSET Scopes]
      /\ \A k \in LockGrants : k # g => rowGranted'[k] = rowGranted[k]
  BY <1>2, <1>4, <1>5
<1> QED BY <1>1, <1>2, <1>4, <1>5, <1>6, EndKeepsOrder

LEMMA WithdrawKeepsOrder ==
    ASSUME Locks!LocksAssumption, LocksInv, NEW t \in LockTxns, Locks!CommitWithdraw(t)
    PROVE  LocksInv'
<1>1. PICK x, H, g : x = rowTx[t] /\ H = HeldBy(rowHolder, t) /\ g = rowTx[t].grant
  OBVIOUS
<1>2. /\ x.kind = "withdraw" /\ x.todo = <<>> /\ Locks!Release(t) /\ rowGranted' = rowGranted
      /\ rowCollation' = rowCollation
      /\ rowGone' = rowGone \cup {g}
      /\ rowRecalled' = [rowRecalled EXCEPT ![g] = @ \cup (H \cap Scopes)]
      /\ rowItem' = [s \in Scopes |-> IF s \in H \cap Scopes /\ rowItem[s] = "ready"
                                      THEN "spent" ELSE rowItem[s]]
  BY <1>1 DEF Locks!CommitWithdraw, Locks!Held, HeldBy
<1>3. Orderly(x, H, rowGranted, rowGone, rowCollation)
  BY <1>1 DEF LocksInv
<1>4. g \in LockGrants /\ g \in H /\ \A s \in rowGranted[g] : s \in H
  BY <1>1, <1>2, <1>3 DEF Orderly
<1>5. /\ rowGranted \in [LockGrants -> SUBSET Scopes] /\ rowGone \subseteq LockGrants
      /\ rowRecalled \in [LockGrants -> SUBSET Scopes] /\ rowItem \in [Scopes -> Locks!ItemStates]
      /\ \A k \in rowGone : rowGranted[k] \subseteq rowRecalled[k]
  BY DEF LocksInv, Locks!WithdrawalsAreComplete
<1>6. rowItem' \in [Scopes -> Locks!ItemStates]
  BY <1>2, <1>5 DEF Locks!ItemStates
<1>7. /\ rowRecalled' \in [LockGrants -> SUBSET Scopes]
      /\ rowRecalled'[g] = rowRecalled[g] \cup (H \cap Scopes)
      /\ \A k \in LockGrants : rowRecalled[k] \subseteq rowRecalled'[k]
  BY <1>2, <1>4, <1>5
<1>8. ASSUME NEW k \in rowGone' PROVE rowGranted'[k] \subseteq rowRecalled'[k]
  BY <1>2, <1>4, <1>5, <1>7
<1> QED BY <1>1, <1>2, <1>4, <1>5, <1>6, <1>7, <1>8, EndKeepsOrder

LEMMA ClaimKeepsOrder ==
    ASSUME Locks!LocksAssumption, LocksInv, NEW t \in LockTxns, Locks!CommitClaim(t)
    PROVE  LocksInv'
<1>1. /\ Locks!Release(t) /\ rowCollation' = rowCollation
      /\ rowGranted' = rowGranted /\ rowGone' = rowGone /\ rowRecalled' = rowRecalled
  BY DEF Locks!CommitClaim
<1>2. rowItem' \in [Scopes -> Locks!ItemStates]
  BY DEF LocksInv, Locks!CommitClaim, Locks!ItemStates
<1>3. /\ rowGranted \in [LockGrants -> SUBSET Scopes] /\ rowGone \subseteq LockGrants
      /\ rowRecalled \in [LockGrants -> SUBSET Scopes]
      /\ \A g \in rowGone : rowGranted[g] \subseteq rowRecalled[g]
  BY DEF LocksInv, Locks!WithdrawalsAreComplete
<1> QED BY <1>1, <1>2, <1>3, EndKeepsOrder

LEMMA VictimKeepsOrder ==
    ASSUME Locks!LocksAssumption, LocksInv, NEW t \in LockTxns, Locks!Victim(t)
    PROVE  LocksInv'
<1>1. /\ Locks!Release(t) /\ rowItem' = rowItem /\ rowCollation' = rowCollation
      /\ rowGranted' = rowGranted /\ rowGone' = rowGone /\ rowRecalled' = rowRecalled
  BY DEF Locks!Victim
<1>2. /\ rowGranted \in [LockGrants -> SUBSET Scopes] /\ rowGone \subseteq LockGrants
      /\ rowRecalled \in [LockGrants -> SUBSET Scopes] /\ rowItem \in [Scopes -> Locks!ItemStates]
      /\ \A g \in rowGone : rowGranted[g] \subseteq rowRecalled[g]
  BY DEF LocksInv, Locks!WithdrawalsAreComplete
<1> QED BY <1>1, <1>2, EndKeepsOrder

\* The invariant after a step that only takes t from x to y, and its locks to H.
LEMMA OneMovesOrderly ==
    ASSUME LocksInv, NEW t \in LockTxns, NEW y \in TxRecord, NEW H,
           rowTx' = [rowTx EXCEPT ![t] = y], HeldBy(rowHolder', t) = H,
           rowHolder' \in [Locks!Locks -> LockTxns \cup {Locks!Free}],
           \A u \in LockTxns : u # t => HeldBy(rowHolder', u) = HeldBy(rowHolder, u),
           Orderly(y, H, rowGranted, rowGone, rowCollation),
           rowItem' = rowItem, rowGranted' = rowGranted, rowGone' = rowGone,
           rowRecalled' = rowRecalled, rowCollation' = rowCollation
    PROVE  LocksInv'
<1>1. rowTx \in [LockTxns -> TxRecord]
  BY DEF LocksInv
<1>2. PICK h2, x2 : h2 = rowHolder' /\ x2 = rowTx'
  OBVIOUS
<1>3. /\ x2 \in [LockTxns -> TxRecord] /\ x2[t] = y
      /\ \A u \in LockTxns : u # t => x2[u] = rowTx[u]
  BY <1>1, <1>2
<1>4. ASSUME NEW u \in LockTxns PROVE Orderly(x2[u], HeldBy(h2, u), rowGranted, rowGone, rowCollation)
  <2>1. CASE u = t
    <3>1. x2[u] = y /\ HeldBy(h2, u) = H
      BY <1>2, <1>3, <2>1
    <3> QED BY <3>1
  <2>2. CASE u # t
    <3>1. x2[u] = rowTx[u] /\ HeldBy(h2, u) = HeldBy(rowHolder, u)
      BY <1>2, <1>3, <2>2
    <3>2. Orderly(rowTx[u], HeldBy(rowHolder, u), rowGranted, rowGone, rowCollation)
      BY DEF LocksInv
    <3> QED BY <3>1, <3>2
  <2> QED BY <2>1, <2>2
<1>5. Locks!WithdrawalsAreComplete'
  BY DEF LocksInv, Locks!WithdrawalsAreComplete
<1> QED BY <1>2, <1>3, <1>4, <1>5 DEF LocksInv

\* The sequences a transaction begins with.
LEMMA ShortSequencesAscend ==
    ASSUME Locks!LocksAssumption, NEW order \in {CodeOrder} \cup Collations
    PROVE  /\ \A l \in Locks!Locks : <<l>> \in Seq(Locks!Locks) /\ Ascending(<<l>>, {}, order)
           /\ \A g \in LockGrants, s \in Scopes :
                <<g, s>> \in Seq(Locks!Locks) /\ Ascending(<<g, s>>, {}, order)
<1>1. \A s \in Scopes : s \notin LockGrants /\ order[s] \in Nat
  BY DEF Locks!LocksAssumption
<1>2. \A g \in LockGrants, s \in Scopes : Place(g, order) < Place(s, order)
  BY <1>1 DEF Place
<1> QED BY <1>2 DEF Ascending, Locks!Locks

LEMMA OrderedAscends ==
    ASSUME Locks!LocksAssumption, NEW S \in SUBSET Scopes, NEW order \in {CodeOrder} \cup Collations,
           NEW q, q = Locks!Ordered(S, order), NEW H \in SUBSET LockGrants
    PROVE  q \in Seq(Locks!Locks) /\ Ascending(q, H, order)
           /\ \A s \in S : \E i \in DOMAIN q : q[i] = s
<1>1. /\ q \in Seq(S) /\ \A s \in S : \E i \in DOMAIN q : q[i] = s
      /\ \A i, j \in DOMAIN q : i < j => order[q[i]] < order[q[j]]
  BY OrderedIsSorted
<1>2. \A s \in Scopes : s \notin LockGrants /\ order[s] \in Nat
  BY DEF Locks!LocksAssumption
<1>3. q \in Seq(Locks!Locks) /\ \A i \in DOMAIN q : q[i] \in Scopes
  BY <1>1 DEF Locks!Locks
<1>4. /\ \A i \in DOMAIN q : Place(q[i], order) = order[q[i]] + 1 /\ order[q[i]] \in Nat
      /\ \A l \in H : Place(l, order) = 0
  BY <1>2, <1>3 DEF Place
<1>5. ASSUME NEW i \in DOMAIN q, NEW j \in DOMAIN q, i < j
      PROVE  Place(q[i], order) < Place(q[j], order)
  <2>1. order[q[i]] < order[q[j]]
    BY <1>1, <1>5
  <2> QED BY <1>4, <2>1
<1>6. ASSUME NEW l \in H, NEW i \in DOMAIN q PROVE Place(l, order) < Place(q[i], order)
  BY <1>4
<1>7. Ascending(q, H, order)
  BY <1>5, <1>6 DEF Ascending
<1> QED BY <1>1, <1>3, <1>7

LEMMA BeginKeepsOrder ==
    ASSUME Locks!LocksAssumption, LocksInv, NEW t \in LockTxns, Locks!Begin(t)
    PROVE  LocksInv'
<1>1. PICK H : H = HeldBy(rowHolder, t)
  OBVIOUS
<1>2. ASSUME NEW kind \in Locks!TxKinds, NEW g \in LockGrants \cup {Locks!NoGrant},
             NEW todo \in Seq(Locks!Locks), Locks!Start(t, kind, g, todo), kind # "idle",
             kind # "claim" => Ascending(todo, {}, CodeOrder),
             kind # "withdraw" => Ascending(todo, {}, rowCollation),
             kind \in {"admit", "withdraw"} => g \in LockGrants /\ todo # <<>> /\ Head(todo) = g
      PROVE  LocksInv'
  <2>1. PICK y : y = [Locks!Idle EXCEPT !.kind = kind, !.grant = g, !.todo = todo]
    OBVIOUS
  <2>2. /\ rowTx' = [rowTx EXCEPT ![t] = y] /\ rowTx[t].kind = "idle" /\ rowHolder' = rowHolder
        /\ rowItem' = rowItem /\ rowGranted' = rowGranted /\ rowGone' = rowGone
        /\ rowRecalled' = rowRecalled /\ rowCollation' = rowCollation
    BY <1>2, <2>1 DEF Locks!Start
  <2>3. H = {}
    BY <1>1, <2>2 DEF LocksInv, Orderly
  <2>4. /\ y \in TxRecord /\ y.kind = kind /\ y.grant = g /\ y.todo = todo
        /\ y.writes = {}
    BY <1>2, <2>1, IdleIsOrderly DEF TxRecord, Locks!Idle
  <2>5. Orderly(y, {}, rowGranted, rowGone, rowCollation)
    BY <1>2, <2>4 DEF Orderly
  <2>6. rowHolder' \in [Locks!Locks -> LockTxns \cup {Locks!Free}]
    BY <2>2 DEF LocksInv
  <2> QED BY <1>1, <2>2, <2>3, <2>4, <2>5, <2>6, OneMovesOrderly
<1>3. ASSUME NEW s \in Scopes, Locks!BeginSingle(t, s) PROVE LocksInv'
  <2>1. <<s>> \in Seq(Locks!Locks) /\ Ascending(<<s>>, {}, CodeOrder)
        /\ Ascending(<<s>>, {}, rowCollation)
    BY ShortSequencesAscend DEF Locks!Locks, LocksInv
  <2> QED BY <1>2, <1>3, <2>1 DEF Locks!BeginSingle, Locks!TxKinds
<1>4. ASSUME NEW g \in LockGrants, NEW s \in Scopes, Locks!BeginAdmit(t, g, s) PROVE LocksInv'
  <2>1. PICK q : q = <<g, s>>
    OBVIOUS
  <2>2. q \in Seq(Locks!Locks) /\ Ascending(q, {}, CodeOrder) /\ Ascending(q, {}, rowCollation)
        /\ q # <<>> /\ Head(q) = g
    BY <2>1, ShortSequencesAscend DEF LocksInv
  <2>3. Locks!Start(t, "admit", g, q)
    BY <1>4, <2>1 DEF Locks!BeginAdmit, Locks!AdmissionOrder
  <2> QED BY <1>2, <2>2, <2>3 DEF Locks!TxKinds
<1>5. ASSUME NEW g \in LockGrants, Locks!BeginWithdraw(t, g) PROVE LocksInv'
  <2>1. PICK q : q = <<g>>
    OBVIOUS
  <2>2. q \in Seq(Locks!Locks) /\ Ascending(q, {}, CodeOrder) /\ q # <<>> /\ Head(q) = g
    BY <2>1, ShortSequencesAscend DEF Locks!Locks
  <2>3. Locks!Start(t, "withdraw", g, q)
    BY <1>5, <2>1 DEF Locks!BeginWithdraw
  <2> QED BY <1>2, <2>2, <2>3 DEF Locks!TxKinds
<1>6. CASE Locks!BeginClaim(t)
  <2>1. PICK C, q : C = Locks!Candidates /\ q = Locks!Ordered(C, rowCollation)
    OBVIOUS
  <2>2. C \in SUBSET Scopes
    BY <2>1 DEF Locks!Candidates
  <2>3. q \in Seq(Locks!Locks) /\ Ascending(q, {}, rowCollation)
    BY <2>1, <2>2, OrderedAscends DEF LocksInv
  <2>4. Locks!Start(t, "claim", Locks!NoGrant, q)
    BY <1>6, <2>1 DEF Locks!BeginClaim
  <2> QED BY <1>2, <2>3, <2>4 DEF Locks!TxKinds
<1> QED BY <1>3, <1>4, <1>5, <1>6 DEF Locks!Begin

\* What becomes of a transaction x with the lock l it was given.
Takes(x, l, y) ==
    \/ /\ x.kind = "withdraw" /\ l \in LockGrants
       /\ y = [x EXCEPT !.todo = Locks!Ordered(rowGranted[l], CodeOrder)]
    \/ x.kind = "claim" /\ y = [x EXCEPT !.todo = <<>>, !.writes = @ \cup {l}]
    \/ x.kind = "claim" /\ y = [x EXCEPT !.todo = Tail(x.todo), !.writes = @ \cup {l}]
    \/ ~ (x.kind = "withdraw" /\ l \in LockGrants) /\ y = [x EXCEPT !.todo = Tail(x.todo)]

LEMMA AfterLockCases ==
    ASSUME NEW t \in LockTxns, NEW l
    PROVE  Takes(rowTx[t], l, Locks!AfterLock(t, l))
BY DEF Takes, Locks!AfterLock, Locks!ScopesToRecall

LEMMA TakenIsOrderly ==
    ASSUME Locks!LocksAssumption, LocksInv, NEW t \in LockTxns, NEW x, x = rowTx[t],
           NEW H, H = HeldBy(rowHolder, t), x.todo # <<>>, NEW l, l = Head(x.todo),
           x.kind = "admit" /\ l = x.grant => l \notin rowGone,
           NEW y, y = Locks!AfterLock(t, l)
    PROVE  y \in TxRecord /\ Orderly(y, H \cup {l}, rowGranted, rowGone, rowCollation)
<1>1. Orderly(x, H, rowGranted, rowGone, rowCollation) /\ x \in TxRecord
  BY DEF LocksInv
<1>2. x.todo \in Seq(Locks!Locks) /\ H \subseteq Locks!Locks /\ x.writes \subseteq H
      /\ x.kind # "idle"
  BY <1>1 DEF Orderly, TxRecord
<1>3. l \in Locks!Locks
  BY <1>2
<1>4. PICK r : r = Tail(x.todo)
  OBVIOUS
<1>5. /\ r \in Seq(Locks!Locks)
      /\ x.kind # "claim" => Ascending(r, H \cup {l}, CodeOrder)
      /\ x.kind # "withdraw" => Ascending(r, H \cup {l}, rowCollation)
      /\ \A i \in DOMAIN x.todo : x.todo[i] = l \/ \E j \in DOMAIN r : r[j] = x.todo[i]
  <2>1. x.kind # "claim" => Ascending(x.todo, H, CodeOrder)
    BY <1>1 DEF Orderly
  <2>2. x.kind # "withdraw" => Ascending(x.todo, H, rowCollation)
    BY <1>1 DEF Orderly
  <2>3. x.kind # "claim" \/ x.kind # "withdraw"
    OBVIOUS
  <2> QED BY <1>2, <1>4, <2>1, <2>2, <2>3, TailAscends
<1>6. CASE x.kind = "withdraw" /\ l \in LockGrants
           /\ y = [x EXCEPT !.todo = Locks!Ordered(rowGranted[l], CodeOrder)]
  <2>1. l = x.grant /\ H = {}
    <3>1. SUFFICES ASSUME x.grant \in H, x.grant \in LockGrants PROVE FALSE
      BY <1>1, <1>6 DEF Orderly
    <3>2. Ascending(x.todo, H, CodeOrder) /\ 1 \in DOMAIN x.todo /\ x.todo[1] = l
      BY <1>1, <1>2, <1>6 DEF Orderly
    <3>3. Place(x.grant, CodeOrder) < Place(l, CodeOrder)
      BY <3>1, <3>2 DEF Ascending
    <3> QED BY <1>6, <3>1, <3>3 DEF Place
  <2>2. PICK S, q : S = rowGranted[l] /\ q = Locks!Ordered(S, CodeOrder)
    OBVIOUS
  <2>3. S \in SUBSET Scopes
    BY <1>6, <2>2 DEF LocksInv
  <2>4. q \in Seq(Locks!Locks) /\ Ascending(q, {l}, CodeOrder)
        /\ \A s \in S : \E i \in DOMAIN q : q[i] = s
    <3>1. PICK K \in SUBSET LockGrants : K = {l}
      BY <1>6
    <3>2. PICK order \in {CodeOrder} \cup Collations : order = CodeOrder
      OBVIOUS
    <3>3. q = Locks!Ordered(S, order)
      BY <2>2, <3>2
    <3>4. q \in Seq(Locks!Locks) /\ Ascending(q, K, order)
          /\ \A s \in S : \E i \in DOMAIN q : q[i] = s
      BY <2>3, <3>3, OrderedAscends
    <3> QED BY <3>1, <3>2, <3>4
  <2>5. /\ y \in TxRecord /\ y.kind = "withdraw" /\ y.todo = q /\ y.grant = l /\ y.writes = {}
    BY <1>1, <1>2, <1>6, <2>1, <2>2, <2>4 DEF TxRecord
  <2> QED BY <1>3, <1>6, <2>1, <2>2, <2>4, <2>5 DEF Orderly
<1>7. CASE x.kind = "claim" /\ y = [x EXCEPT !.todo = <<>>, !.writes = @ \cup {l}]
  <2>1. y \in TxRecord /\ y.kind = "claim" /\ y.todo = <<>> /\ y.writes = x.writes \cup {l}
    <3>1. x.writes \cup {l} \in SUBSET Locks!Locks /\ <<>> \in Seq(Locks!Locks)
      BY <1>2, <1>3
    <3> QED BY <1>1, <1>7, <3>1 DEF TxRecord
  <2>2. Ascending(<<>>, H \cup {l}, rowCollation)
    BY DEF Ascending
  <2> QED BY <1>2, <1>3, <2>1, <2>2 DEF Orderly
<1>8. CASE x.kind = "claim" /\ y = [x EXCEPT !.todo = Tail(x.todo), !.writes = @ \cup {l}]
  <2>1. y \in TxRecord /\ y.kind = "claim" /\ y.todo = r /\ y.writes = x.writes \cup {l}
    <3>1. x.writes \cup {l} \in SUBSET Locks!Locks
      BY <1>2, <1>3
    <3> QED BY <1>1, <1>4, <1>5, <1>8, <3>1 DEF TxRecord
  <2> QED BY <1>2, <1>3, <1>5, <1>8, <2>1 DEF Orderly
<1>9. CASE ~ (x.kind = "withdraw" /\ l \in LockGrants) /\ y = [x EXCEPT !.todo = Tail(x.todo)]
  <2>1. /\ y \in TxRecord /\ y.kind = x.kind /\ y.todo = r /\ y.writes = x.writes
        /\ y.grant = x.grant
    BY <1>1, <1>4, <1>5, <1>9 DEF TxRecord
  <2>2. x.kind \in {"admit", "withdraw"} => x.grant \in LockGrants /\ x.grant \in H \cup {l}
    BY <1>1 DEF Orderly
  <2>3. x.kind = "admit" => x.grant \notin rowGone
    BY <1>1 DEF Orderly
  <2>4. ASSUME x.kind = "withdraw", NEW s \in rowGranted[x.grant]
        PROVE  s \in H \cup {l} \/ \E i \in DOMAIN r : r[i] = s
    <3>1. x.grant \in H
      BY <1>1, <1>9, <2>4 DEF Orderly
    <3>2. s \in H \/ \E i \in DOMAIN x.todo : x.todo[i] = s
      BY <1>1, <2>4, <3>1 DEF Orderly
    <3> QED BY <1>5, <3>2
  <2> QED BY <1>2, <1>3, <1>5, <2>1, <2>2, <2>3, <2>4 DEF Orderly
<1>10. Takes(x, l, y)
  BY AfterLockCases
<1> QED BY <1>6, <1>7, <1>8, <1>9, <1>10 DEF Takes

LEMMA LockKeepsOrder ==
    ASSUME Locks!LocksAssumption, LocksInv, NEW t \in LockTxns, Locks!Lock(t)
    PROVE  LocksInv'
<1>1. PICK x, H, l, y :
        /\ x = rowTx[t] /\ H = HeldBy(rowHolder, t) /\ l = Head(x.todo)
        /\ y = Locks!AfterLock(t, l)
  OBVIOUS
<1>2. /\ x.todo # <<>> /\ rowHolder[l] \in {Locks!Free, t} /\ rowItem' = rowItem
      /\ rowGranted' = rowGranted /\ rowGone' = rowGone /\ rowRecalled' = rowRecalled
      /\ rowCollation' = rowCollation
  BY <1>1 DEF Locks!Lock
<1>3. CASE Locks!Refused(t, l) /\ Locks!Release(t)
  <2>1. /\ rowGranted \in [LockGrants -> SUBSET Scopes] /\ rowGone \subseteq LockGrants
        /\ rowRecalled \in [LockGrants -> SUBSET Scopes] /\ rowItem \in [Scopes -> Locks!ItemStates]
        /\ \A g \in rowGone : rowGranted[g] \subseteq rowRecalled[g]
    BY DEF LocksInv, Locks!WithdrawalsAreComplete
  <2> QED BY <1>2, <1>3, <2>1, EndKeepsOrder
<1>4. CASE /\ ~ Locks!Refused(t, l) /\ rowTx' = [rowTx EXCEPT ![t] = y]
           /\ rowHolder' = [rowHolder EXCEPT ![l] = t]
  <2>1. x.kind = "admit" /\ l = x.grant => l \notin rowGone
    BY <1>1, <1>4 DEF Locks!Refused
  <2>2. y \in TxRecord /\ Orderly(y, H \cup {l}, rowGranted, rowGone, rowCollation)
    BY <1>1, <1>2, <2>1, TakenIsOrderly
  <2>3. x \in TxRecord /\ l \in Locks!Locks
    BY <1>1, <1>2 DEF LocksInv, TxRecord
  <2>4. /\ rowHolder \in [Locks!Locks -> LockTxns \cup {Locks!Free}]
        /\ Locks!Free \notin LockTxns
    BY DEF LocksInv, Locks!LocksAssumption
  <2>5. PICK h2 : h2 = rowHolder'
    OBVIOUS
  <2>6. /\ h2 \in [Locks!Locks -> LockTxns \cup {Locks!Free}] /\ h2[l] = t
        /\ \A m \in Locks!Locks : m # l => h2[m] = rowHolder[m]
    BY <1>4, <2>3, <2>4, <2>5
  <2>7. HeldBy(h2, t) = H \cup {l}
    BY <1>1, <2>3, <2>6 DEF HeldBy
  <2>8. ASSUME NEW u \in LockTxns, u # t PROVE HeldBy(h2, u) = HeldBy(rowHolder, u)
    BY <1>2, <2>3, <2>4, <2>6, <2>8 DEF HeldBy
  <2> QED BY <1>2, <1>4, <2>2, <2>5, <2>6, <2>7, <2>8, OneMovesOrderly
<1> QED BY <1>1, <1>3, <1>4 DEF Locks!Lock, Locks!Release

LEMMA LocksInitially == ASSUME Locks!LocksAssumption, Locks!Init PROVE LocksInv
<1>1. /\ rowHolder = [l \in Locks!Locks |-> Locks!Free]
      /\ rowTx = [t \in LockTxns |-> Locks!Idle]
  BY DEF Locks!Init
<1>2. ASSUME NEW t \in LockTxns
      PROVE  Orderly(rowTx[t], HeldBy(rowHolder, t), rowGranted, rowGone, rowCollation)
  <2>1. HeldBy(rowHolder, t) = {} /\ rowTx[t] = Locks!Idle
    BY <1>1 DEF HeldBy, Locks!LocksAssumption
  <2>2. Orderly(Locks!Idle, {}, rowGranted, rowGone, rowCollation)
    BY IdleIsOrderly
  <2> QED BY <2>1, <2>2
<1>3. rowTx \in [LockTxns -> TxRecord]
  BY <1>1, IdleIsOrderly
<1>4. Locks!WithdrawalsAreComplete
  BY DEF Locks!Init, Locks!WithdrawalsAreComplete
<1> QED BY <1>1, <1>2, <1>3, <1>4 DEF LocksInv, Locks!Init

THEOREM LocksInvariant == ASSUME Locks!LocksAssumption PROVE Locks!Spec => []LocksInv
<1>1. Locks!Init => LocksInv
  BY LocksInitially
<1>2. LocksInv /\ [Locks!Next]_Locks!vars => LocksInv'
  <2> SUFFICES ASSUME LocksInv, [Locks!Next]_Locks!vars PROVE LocksInv'
    OBVIOUS
  <2>1. ASSUME NEW t \in LockTxns, Locks!Begin(t) PROVE LocksInv'
    BY <2>1, BeginKeepsOrder
  <2>2. ASSUME NEW t \in LockTxns, Locks!Step(t) PROVE LocksInv'
    BY <2>2, LockKeepsOrder, SingleKeepsOrder, AdmitKeepsOrder, WithdrawKeepsOrder,
       ClaimKeepsOrder, VictimKeepsOrder DEF Locks!Step
  <2>3. CASE UNCHANGED Locks!vars
    BY <2>3 DEF Locks!vars, LocksInv, Locks!WithdrawalsAreComplete
  <2> QED BY <2>1, <2>2, <2>3 DEF Locks!Next
<1> QED BY <1>1, <1>2, PTL DEF Locks!Spec

-----------------------------------------------------------------------------
\* Who waits for whom.

LEMMA PlacesAreNumbers ==
    ASSUME Locks!LocksAssumption, NEW order \in {CodeOrder} \cup Collations
    PROVE  \A l \in Locks!Locks : Place(l, order) \in Nat
BY DEF Locks!LocksAssumption, Locks!Locks, Place

\* Those that t waits for, and those they wait for.
LEMMA BlockersAreClosed ==
    ASSUME NEW t, NEW v \in Locks!Blockers(t) \cup {t}, NEW w \in LockTxns, Locks!WaitsFor(v, w)
    PROVE  w \in Locks!Blockers(t)
BY DEF Locks!Blockers

LEMMA BlockersAreLeast ==
    ASSUME NEW t, NEW S \in SUBSET LockTxns,
           \A v \in S \cup {t}, w \in LockTxns : Locks!WaitsFor(v, w) => w \in S
    PROVE  Locks!Blockers(t) \subseteq S
BY DEF Locks!Blockers

\* Where every transaction that t waits for, directly or not, takes its locks in one
\* order, each waits for a lock behind the one t waits for; so t is none of them.
LEMMA AscentIsAcyclic ==
    ASSUME Locks!LocksAssumption, LocksInv, NEW order \in {CodeOrder} \cup Collations,
           NEW t \in LockTxns,
           \A u \in Locks!Blockers(t) :
              Ascending(rowTx[u].todo, HeldBy(rowHolder, u), order)
    PROVE  ~ Locks!Deadlocked(t)
<1> DEFINE awaited(u) == Head(rowTx[u].todo)
           S == {u \in Locks!Blockers(t) :
                   /\ rowTx[t].todo # <<>>
                   /\ rowTx[u].todo # <<>> => Place(awaited(t), order) < Place(awaited(u), order)}
<1>1. \A u \in LockTxns : rowTx[u].todo # <<>> =>
        /\ 1 \in DOMAIN rowTx[u].todo /\ rowTx[u].todo[1] = awaited(u)
        /\ awaited(u) \in Locks!Locks
  <2> SUFFICES ASSUME NEW u \in LockTxns, rowTx[u].todo # <<>>
               PROVE  /\ 1 \in DOMAIN rowTx[u].todo /\ rowTx[u].todo[1] = awaited(u)
                      /\ awaited(u) \in Locks!Locks
    OBVIOUS
  <2>1. PICK q \in Seq(Locks!Locks) : q = rowTx[u].todo
    BY DEF LocksInv, TxRecord
  <2> QED BY <2>1
<1>2. Locks!Blockers(t) \subseteq LockTxns
  BY DEF Locks!Blockers
<1>3. ASSUME NEW v \in S \cup {t}, NEW w \in LockTxns, Locks!WaitsFor(v, w) PROVE w \in S
  <2>1. v \in LockTxns /\ v \in Locks!Blockers(t) \cup {t}
    BY <1>2
  <2>2. w \in Locks!Blockers(t)
    BY <1>3, <2>1, BlockersAreClosed
  <2>3. rowTx[v].todo # <<>> /\ rowHolder[awaited(v)] = w /\ rowTx[t].todo # <<>>
    BY <1>3 DEF Locks!WaitsFor
  <2>4. awaited(v) \in HeldBy(rowHolder, w)
    BY <1>1, <2>1, <2>3 DEF HeldBy
  <2>5. ASSUME rowTx[w].todo # <<>>
        PROVE  Place(awaited(t), order) < Place(awaited(w), order)
    <3>1. Place(awaited(v), order) < Place(awaited(w), order)
      BY <1>1, <2>2, <2>4, <2>5 DEF Ascending
    <3>2. v = t \/ Place(awaited(t), order) < Place(awaited(v), order)
      BY <2>3
    <3>3. /\ Place(awaited(t), order) \in Nat /\ Place(awaited(v), order) \in Nat
          /\ Place(awaited(w), order) \in Nat
      BY <1>1, <2>1, <2>3, <2>5, PlacesAreNumbers
    <3> HIDE DEF awaited
    <3> QED BY <3>1, <3>2, <3>3
  <2> QED BY <2>2, <2>3, <2>5
<1>4. Locks!Blockers(t) \subseteq S
  <2>1. S \in SUBSET LockTxns
    BY <1>2
  <2> HIDE DEF S
  <2> QED BY <1>3, <2>1, BlockersAreLeast
<1>5. SUFFICES ASSUME t \in Locks!Blockers(t) PROVE FALSE
  BY DEF Locks!Deadlocked
<1>6. rowTx[t].todo # <<>> /\ Place(awaited(t), order) < Place(awaited(t), order)
  BY <1>4, <1>5
<1>7. Place(awaited(t), order) \in Nat
  BY <1>1, <1>6, PlacesAreNumbers
<1> HIDE DEF awaited
<1> QED BY <1>6, <1>7

\* Whatever the number of transactions and scopes: locks make a withdrawal whole;
\* with one order of scopes no transactions wait for each other, and with two a cycle
\* has a claim and a withdrawal in it (_lock_scope, _lock_grant, revoke_grant,
\* claim_outbox).
THEOREM LocksAreEnough == ASSUME Locks!LocksAssumption PROVE Locks!Spec => []LocksSuffice
<1>1. LocksInv => Locks!LocksSuffice
  <2> SUFFICES ASSUME LocksInv PROVE Locks!LocksSuffice
    OBVIOUS
  <2>1. ASSUME NEW t \in LockTxns
        PROVE  /\ rowTx[t] \in TxRecord /\ rowTx[t].writes \subseteq HeldBy(rowHolder, t)
               /\ rowTx[t].kind # "claim"
                    => Ascending(rowTx[t].todo, HeldBy(rowHolder, t), CodeOrder)
               /\ rowTx[t].kind # "withdraw"
                    => Ascending(rowTx[t].todo, HeldBy(rowHolder, t), rowCollation)
    BY DEF LocksInv, Orderly
  <2>2. Locks!LocksTypeOK
    BY <2>1 DEF LocksInv, Locks!LocksTypeOK, TxRecord, HeldBy, Locks!Held
  <2>3. Locks!WithdrawalsAreComplete
    BY DEF LocksInv
  <2>4. ASSUME NEW t \in LockTxns, Locks!Deadlocked(t)
        PROVE  /\ \E u \in Locks!Blockers(t) : rowTx[u].kind = "claim"
               /\ \E u \in Locks!Blockers(t) : rowTx[u].kind = "withdraw"
    <3>1. \A u \in Locks!Blockers(t) : u \in LockTxns
      BY DEF Locks!Blockers
    <3> QED BY <2>1, <2>4, <3>1, AscentIsAcyclic DEF LocksInv
  <2>5. Locks!DeadlocksAreClaimsAgainstWithdrawals
    BY <2>4 DEF Locks!DeadlocksAreClaimsAgainstWithdrawals
  <2>6. ASSUME Locks!SortedAlike PROVE Locks!NoDeadlock
    <3>1. \A l, m \in Locks!Locks :
            Place(l, rowCollation) < Place(m, rowCollation) => Place(l, CodeOrder) < Place(m, CodeOrder)
      BY <2>6 DEF Locks!SortedAlike, Place, Locks!Locks, Locks!LocksAssumption, LocksInv
    <3>2. ASSUME NEW u \in LockTxns
          PROVE  Ascending(rowTx[u].todo, HeldBy(rowHolder, u), CodeOrder)
      <4>1. PICK q \in Seq(Locks!Locks), H \in SUBSET Locks!Locks :
              q = rowTx[u].todo /\ H = HeldBy(rowHolder, u)
        BY <2>1 DEF TxRecord, HeldBy
      <4>2. Ascending(q, H, rowCollation) => Ascending(q, H, CodeOrder)
        BY <3>1 DEF Ascending
      <4>3. Ascending(q, H, rowCollation) \/ Ascending(q, H, CodeOrder)
        BY <2>1, <4>1
      <4> QED BY <4>1, <4>2, <4>3
    <3>3. ASSUME NEW t \in LockTxns PROVE ~ Locks!Deadlocked(t)
      <4>1. \A u \in Locks!Blockers(t) : u \in LockTxns
        BY DEF Locks!Blockers
      <4> QED BY <3>2, <4>1, AscentIsAcyclic
    <3> QED BY <3>3 DEF Locks!NoDeadlock
  <2> QED BY <2>2, <2>3, <2>5, <2>6 DEF Locks!LocksSuffice
<1> QED BY <1>1, LocksInvariant, PTL DEF LocksSuffice
=============================================================================
