------------------------ MODULE OperatorWorkflowProofs ------------------------
(***************************************************************************)
(* Proofs about OperatorWorkflow, for every value of its constants.        *)
(*                                                                         *)
(* Every request of an operator is a transaction of the ledger, so what    *)
(* the ledger promises of transactions holds of the workflow too.  On top  *)
(* of it stand two inductive invariants.  ScreenInv: a screen whose epoch  *)
(* is still the scope's shows what is stored.  DecisionsInv: each brief,   *)
(* review, clearance and task keeps what was checked when it was written,  *)
(* and a clearance of the present epoch has seen everything that could     *)
(* speak against it, because whatever was added since would have advanced  *)
(* the epoch.                                                              *)
(***************************************************************************)
EXTENDS OperatorWorkflow, EvidencePromiseProofs, WellFoundedInduction

-----------------------------------------------------------------------------
\* Operations are transactions.

\* The least of some natural numbers is one of them.
LEMMA LeastNatural ==
    ASSUME NEW S \in SUBSET Nat, S # {}
    PROVE  Min(S) \in S /\ \A y \in S : Min(S) <= y
<1>1. PICK x \in S : \A y \in S : ~ (<<y, x>> \in OpToRel(<, Nat))
  BY NatLessThanWellFounded, WFMin
<1>2. ASSUME NEW y \in S PROVE x <= y
  <2>1. x \in Nat /\ y \in Nat
    OBVIOUS
  <2>2. <<y, x>> \notin OpToRel(<, Nat)
    BY <1>1
  <2> QED BY <2>1, <2>2 DEF OpToRel
<1> QED BY <1>2 DEF Min

LEMMA WorkflowConstants ==
    /\ "grant" \in Kinds /\ "observation" \in Kinds /\ "manual_task" \in Kinds
    /\ \A a \in Authorities : a.policy \in Policies /\ PolicyExpires[a.policy] \in Nat
    /\ \A p \in Policies : GrantedBy(p) \subseteq Authorities
    /\ MaxTime \in Nat /\ DecisionLife \in Nat
BY LedgerOfTheWorkflow, PolicyAssumption, BoundsAssumption
   DEF WorkflowKinds, WorkflowAuthorities, GrantedBy

LEMMA ExpiryIsNatural ==
    ASSUME LedgerInv, NEW a \in Authorities, NEW ps \in SUBSET DOMAIN node
    PROVE  DerivedExpiry(a, ps) \in Nat
<1> DEFINE S == {clock + DecisionLife, PolicyExpires[a.policy]} \cup {node[p].expires : p \in ps}
<1>1. clock \in Nat /\ \A p \in ps : node[p].expires \in Nat
  BY WorkflowConstants DEF LedgerInv, TypeOK, Times, Node
<1>2. S \in SUBSET Nat /\ S # {}
  BY <1>1, WorkflowConstants
<1>3. Min(S) \in Nat
  BY <1>2, LeastNatural
<1> QED BY <1>3 DEF DerivedExpiry

\* An operator that holds a screen acts in its scope and on its epoch.
LEMMA ScreenTypes ==
    ASSUME WorkflowTypeOK, NEW o \in Operators, client[o] # NoView
    PROVE  /\ client[o].scope \in Scopes
           /\ client[o].epoch \in 0..MaxEpoch /\ client[o].epoch \in Expectations
           /\ clock \in Times
BY DEF WorkflowTypeOK, TypeOK, View, Expectations

LEMMA ActorsAreAuthorities ==
    ASSUME WorkflowTypeOK, NEW o, NEW action, NEW a \in AuthorityFor(o, action)
    PROVE  a \in Authorities
BY DEF AuthorityFor, WorkflowTypeOK, TypeOK

LEMMA NextIdIsPositive == LedgerInv => NextId \in Nat \ {0}
<1> SUFFICES ASSUME LedgerInv PROVE NextId \in Nat \ {0}
  OBVIOUS
<1>1. PICK n \in 0..MaxNodes : DOMAIN node = 1..n
  BY DEF LedgerInv, Consecutive
<1>2. n \in Nat /\ NextId = n + 1
  BY <1>1, FreshId, BoundsAssumption
<1> QED BY <1>2

\* What a decision adds to the graph: one node, at the epoch the scope then has.
Adds(k, kind, s, parents, body) ==
    /\ k \notin DOMAIN node
    /\ DOMAIN node' = DOMAIN node \cup {k}
    /\ \A i \in DOMAIN node : node'[i] = node[i]
    /\ node'[k].kind = kind /\ node'[k].scope = s
    /\ node'[k].parents = parents /\ node'[k].body = body
    /\ node'[k].epoch = epoch'[s]

LEMMA DecideAdds ==
    ASSUME LedgerInv, WorkflowTypeOK, NEW o \in Operators, client[o] # NoView,
           NEW a, NEW kind, NEW ps, NEW body, Decide(o, a, kind, ps, body)
    PROVE  /\ Adds(NextId, kind, client[o].scope, ps, body)
           /\ NextId \in Ids
           /\ epoch[client[o].scope] = client[o].epoch
           /\ UNCHANGED <<clock, outbox, client, admitting>>
<1> DEFINE s == client[o].scope
           k == NextId
           c == [scope |-> s, kind |-> kind, parents |-> ps,
                 expires |-> DerivedExpiry(a, ps), body |-> body]
           e == EpochAfter(c, epoch[s])
<1>1. /\ EpochHolds(s, client[o].epoch) /\ k <= MaxNodes
      /\ node' = Inserted(node, k, c, e)
      /\ epoch' = [epoch EXCEPT ![s] = e]
      /\ UNCHANGED <<clock, outbox, client, admitting>>
  BY DEF Decide, AppendEvidence
<1>2. s \in Scopes /\ client[o].epoch \in Nat
  BY ScreenTypes, BoundsAssumption
<1>3. epoch[s] = client[o].epoch
  BY <1>1, <1>2, AnyEpochAssumption DEF EpochHolds
<1>4. epoch'[s] = e
  BY <1>1, <1>2 DEF LedgerInv, TypeOK
<1>5. k \notin DOMAIN node /\ k \in Ids
  BY <1>1, FreshIds, NextIdIsPositive, BoundsAssumption DEF Ids
<1>6. c.kind = kind /\ c.scope = s /\ c.parents = ps /\ c.body = body
  OBVIOUS
<1> HIDE DEF c, k, e, s
<1>7. Adds(k, kind, s, ps, body)
  BY <1>1, <1>4, <1>5, <1>6 DEF Inserted, Adds
<1> QED BY <1>1, <1>3, <1>5, <1>7 DEF k, s

LEMMA DecideIsTransaction ==
    ASSUME LedgerInv, WorkflowTypeOK, NEW o \in Operators, client[o] # NoView,
           NEW a \in Authorities, NEW kind \in WorkflowKinds, kind # "manual_task",
           NEW ps \in SUBSET DOMAIN node, NEW body, NextId \in Ids => body \in Body,
           Decide(o, a, kind, ps, body)
    PROVE  AnyAppend
<1> DEFINE c == [scope |-> client[o].scope, kind |-> kind, parents |-> ps,
                 expires |-> DerivedExpiry(a, ps), body |-> body]
<1>1. body \in Body
  BY DecideAdds
<1>2. client[o].scope \in Scopes /\ client[o].epoch \in Expectations /\ clock \in Times
  BY ScreenTypes
<1>3. DerivedExpiry(a, ps) \in Nat
  BY ExpiryIsNatural
<1>4. kind \in Kinds /\ ps \subseteq Ids
  BY LedgerOfTheWorkflow DEF LedgerInv, TypeOK
<1>5. c \in Content /\ c.kind # "manual_task"
  BY <1>1, <1>2, <1>3, <1>4 DEF Content
<1>6. AppendEvidence(c, clock, client[o].epoch)
  BY DEF Decide
<1> HIDE DEF c
<1> QED BY <1>2, <1>5, <1>6 DEF AnyAppend

LEMMA VerdictIsABody ==
    ASSUME NEW a \in Authorities, NextId \in Ids,
           NEW decision \in {"ORGANIZATION_CONFIRMED", "REJECTED", "APPROVED", "UNRESOLVED", "OUTCOME"}
    PROVE  VerdictBy(a, decision) \in Body
<1>1. VerdictBy(a, decision) \in Verdict
  BY WorkflowConstants DEF VerdictBy, Verdict, WorkflowStamps, Ids
<1> QED BY <1>1, LedgerOfTheWorkflow DEF Body, WorkflowBodies

LEMMA ContextIsABody ==
    ASSUME LedgerInv, NEW a \in Authorities, NextId \in Ids, NEW s
    PROVE  [context |-> EvidenceContext(s), policy |-> a.policy, stamp |-> NextId] \in Body
<1> DEFINE S == {j \in DOMAIN node : node[j].scope = s /\ node[j].kind \in ContextKinds}
<1>1. S \in SUBSET Ids
  BY DEF LedgerInv, TypeOK
<1>2. \A i \in S : StateOf(i, clock) \in {"VALID", "STALE", "REVOKED"}
  BY DEF StateOf
<1>3. EvidenceContext(s) = [i \in S |-> StateOf(i, clock)]
  BY DEF EvidenceContext
<1>4. EvidenceContext(s) \in [S -> {"VALID", "STALE", "REVOKED"}]
  BY <1>2, <1>3
<1>5. EvidenceContext(s) \in Contexts
  BY <1>1, <1>4 DEF Contexts
<1>6. [context |-> EvidenceContext(s), policy |-> a.policy, stamp |-> NextId] \in BriefBody
  BY <1>5, WorkflowConstants DEF BriefBody, WorkflowStamps, Ids
<1> QED BY <1>6, LedgerOfTheWorkflow DEF Body, WorkflowBodies

LEMMA UsableIsStored ==
    ASSUME NEW s, NEW kind
    PROVE  Usable(s, kind) \subseteq ScopeNodes(s, kind) /\ ScopeNodes(s, kind) \subseteq DOMAIN node
BY DEF Usable, ScopeNodes

\* Every decision the operations append is a transaction.
LEMMA DecisionsAreTransactions ==
    ASSUME LedgerInv, WorkflowTypeOK, NEW o \in Operators, client[o] # NoView,
           \/ \E ps, decision : ReviewIdentity(o, ps, decision)
                                /\ decision \in {"ORGANIZATION_CONFIRMED", "REJECTED"}
           \/ \E ps : CounterEvidence(o, ps)
           \/ \E ps, identity : MakeBrief(o, ps, identity)
           \/ \E brief, approved : ReviewBrief(o, brief, approved)
           \/ \E review, brief : Clear(o, review, brief)
           \/ \E task : RecordOutcome(o, task)
    PROVE  AnyAppend /\ UNCHANGED <<client, admitting>>
<1> DEFINE s == client[o].scope
<1>1. \A kind \in {"organization_review", "counter_evidence", "brief", "brief_review",
                   "clearance", "outcome"} : kind \in WorkflowKinds /\ kind # "manual_task"
  BY DEF WorkflowKinds
<1>2. ASSUME NEW ps, NEW decision \in {"ORGANIZATION_CONFIRMED", "REJECTED"},
             ReviewIdentity(o, ps, decision)
      PROVE  AnyAppend /\ UNCHANGED <<client, admitting>>
  <2>1. PICK a \in AuthorityFor(o, "review") :
          /\ ps \subseteq Usable(s, "observation")
          /\ Decide(o, a, "organization_review", ps, VerdictBy(a, decision))
    BY <1>2 DEF ReviewIdentity
  <2>2. a \in Authorities /\ ps \in SUBSET DOMAIN node
    BY <2>1, ActorsAreAuthorities, UsableIsStored
  <2> QED BY <1>1, <2>1, <2>2, VerdictIsABody, DecideIsTransaction, DecideAdds
<1>3. ASSUME NEW ps, CounterEvidence(o, ps)
      PROVE  AnyAppend /\ UNCHANGED <<client, admitting>>
  <2>1. PICK a \in AuthorityFor(o, "review") :
          /\ ps \subseteq Usable(s, "observation")
          /\ Decide(o, a, "counter_evidence", ps, VerdictBy(a, "UNRESOLVED"))
    BY <1>3 DEF CounterEvidence
  <2>2. a \in Authorities /\ ps \in SUBSET DOMAIN node
    BY <2>1, ActorsAreAuthorities, UsableIsStored
  <2> QED BY <1>1, <2>1, <2>2, VerdictIsABody, DecideIsTransaction, DecideAdds
<1>4. ASSUME NEW ps, NEW identity, MakeBrief(o, ps, identity)
      PROVE  AnyAppend /\ UNCHANGED <<client, admitting>>
  <2> DEFINE contradictions == {i \in ScopeNodes(s, "counter_evidence") : Valid(i, clock)}
             parents == ps \cup {identity} \cup contradictions
             body(a) == [context |-> EvidenceContext(s), policy |-> a.policy, stamp |-> NextId]
  <2>1. PICK a \in AuthorityFor(o, "brief") :
          /\ ps \subseteq Usable(s, "observation")
          /\ identity \in Usable(s, "organization_review")
          /\ Decide(o, a, "brief", parents, body(a))
    BY <1>4 DEF MakeBrief
  <2>2. a \in Authorities /\ parents \in SUBSET DOMAIN node
    BY <2>1, ActorsAreAuthorities, UsableIsStored
  <2>3. NextId \in Ids => body(a) \in Body
    BY <2>2, ContextIsABody
  <2> HIDE DEF parents, body
  <2> QED BY <1>1, <2>1, <2>2, <2>3, DecideIsTransaction, DecideAdds
<1>5. ASSUME NEW brief, NEW approved, ReviewBrief(o, brief, approved)
      PROVE  AnyAppend /\ UNCHANGED <<client, admitting>>
  <2>1. PICK a \in AuthorityFor(o, "review") :
          /\ brief \in Usable(s, "brief")
          /\ Decide(o, a, "brief_review", {brief},
                    VerdictBy(a, IF approved THEN "APPROVED" ELSE "REJECTED"))
    BY <1>5 DEF ReviewBrief
  <2>2. a \in Authorities /\ {brief} \in SUBSET DOMAIN node
    BY <2>1, ActorsAreAuthorities, UsableIsStored
  <2> QED BY <1>1, <2>1, <2>2, VerdictIsABody, DecideIsTransaction, DecideAdds
<1>6. ASSUME NEW review, NEW brief, Clear(o, review, brief)
      PROVE  AnyAppend /\ UNCHANGED <<client, admitting>>
  <2> DEFINE body(a) == [authority |-> a, stamp |-> NextId]
  <2>1. PICK a \in AuthorityFor(o, "clearance") :
          /\ review \in Usable(s, "brief_review") /\ brief \in Usable(s, "brief")
          /\ Decide(o, a, "clearance", {review, brief}, body(a))
    BY <1>6 DEF Clear
  <2>2. a \in Authorities /\ {review, brief} \in SUBSET DOMAIN node
    BY <2>1, ActorsAreAuthorities, UsableIsStored
  <2>3. NextId \in Ids => body(a) \in Body
    BY <2>2, LedgerOfTheWorkflow DEF Body, ClearanceBody, WorkflowStamps, Ids
  <2> HIDE DEF body
  <2> QED BY <1>1, <2>1, <2>2, <2>3, DecideIsTransaction, DecideAdds
<1>7. ASSUME NEW task, RecordOutcome(o, task)
      PROVE  AnyAppend /\ UNCHANGED <<client, admitting>>
  <2>1. PICK a \in AuthorityFor(o, "outcome") :
          /\ task \in Usable(s, "manual_task")
          /\ Decide(o, a, "outcome", {task}, VerdictBy(a, "OUTCOME"))
    BY <1>7 DEF RecordOutcome
  <2>2. a \in Authorities /\ {task} \in SUBSET DOMAIN node
    BY <2>1, ActorsAreAuthorities, UsableIsStored
  <2> QED BY <1>1, <2>1, <2>2, VerdictIsABody, DecideIsTransaction, DecideAdds
<1> QED BY <1>2, <1>3, <1>4, <1>5, <1>6, <1>7

\* Every operation is a transaction.
LEMMA OperationsAreTransactions ==
    ASSUME LedgerInv, WorkflowTypeOK, NEW o \in Operators, client[o] # NoView,
           Research(o) \/ Settle(o)
    PROVE  Transaction /\ UNCHANGED <<client, admitting>>
<1> DEFINE s == client[o].scope
<1>0. s \in Scopes /\ client[o].epoch \in Expectations /\ clock \in Times
  BY ScreenTypes
<1>1. ASSUME NEW key \in GrantKeys, NEW record \in Records, NEW gx \in Expiries,
             NEW ox \in Expiries, AdmitRecord(o, key, record, gx, ox)
      PROVE  AnyAdmission /\ UNCHANGED <<client, admitting>>
  <2>1. record \in Bodies /\ gx \in Nat /\ ox \in Nat
    BY LedgerOfTheWorkflow, BoundsAssumption DEF WorkflowBodies
  <2> QED BY <1>0, <1>1, <2>1, WorkflowConstants DEF AdmitRecord, AnyAdmission
<1>2. ASSUME NEW cl \in ScopeNodes(s, "clearance"), NEW key \in TaskKeys, TaskFrom(o, cl, key)
      PROVE  AnyTask /\ UNCHANGED <<client, admitting>>
  <2>1. PICK a \in AuthorityFor(o, "manual_task") :
          /\ CreateManualTask(s, cl, [authority |-> a, key |-> key], DerivedExpiry(a, {cl}),
                              clock, client[o].epoch)
          /\ UNCHANGED <<client, admitting>>
    BY <1>2 DEF TaskFrom
  <2>2. a \in Authorities /\ cl \in DOMAIN node
    BY ActorsAreAuthorities, UsableIsStored
  <2>3. DerivedExpiry(a, {cl}) \in Nat /\ [authority |-> a, key |-> key] \in TaskBody
    BY <2>2, ExpiryIsNatural DEF TaskBody
  <2> QED BY <1>0, <2>1, <2>2, <2>3, WorkflowConstants DEF AnyTask
<1>3. ASSUME NEW i \in DOMAIN node, CorrectNode(o, i)
      PROVE  AnyRevocation /\ UNCHANGED <<client, admitting>>
  BY <1>0, <1>3 DEF CorrectNode, AnyRevocation
<1>4. ASSUME SuppressScope(o) PROVE AnyRevocation /\ UNCHANGED <<client, admitting>>
  BY <1>0, <1>4 DEF SuppressScope, AnyRevocation
<1>5. CASE Research(o)
  BY <1>1, <1>5, DecisionsAreTransactions DEF Research, Transaction
<1>6. CASE Settle(o)
  BY <1>2, <1>3, <1>4, <1>6, DecisionsAreTransactions DEF Settle, Transaction
<1> QED BY <1>5, <1>6

LEMMA EnvironmentIsTransactions ==
    ASSUME Environment
    PROVE  [Transaction]_ledgerVars /\ client' = client
<1>1. ASSUME NEW p \in Policies, ReplaceOperatorPolicy(p) PROVE Transaction /\ client' = client
  BY <1>1, WorkflowConstants DEF ReplaceOperatorPolicy, Transaction
<1>2. ASSUME NEW keys, ReplaceAdmissionPolicy(keys) PROVE UNCHANGED ledgerVars /\ client' = client
  BY <1>2 DEF ReplaceAdmissionPolicy
<1> QED BY <1>1, <1>2 DEF Environment, Transaction, AnyRevocation

\* A step of the workflow is a transaction of the ledger, or leaves it as it is.
LEMMA WorkflowIsTransactions ==
    ASSUME LedgerInv, WorkflowTypeOK, [WorkflowNext]_vars
    PROVE  [Transaction]_ledgerVars
<1>1. ASSUME NEW o \in Operators, NEW s \in Scopes, ViewWorkspace(o, s)
      PROVE  UNCHANGED ledgerVars
  BY <1>1 DEF ViewWorkspace
<1>2. UNCHANGED vars => UNCHANGED ledgerVars
  BY DEF vars
<1> QED BY <1>1, <1>2, OperationsAreTransactions, EnvironmentIsTransactions DEF WorkflowNext

-----------------------------------------------------------------------------
\* The ledger under the workflow.

LEMMA WorkflowKeepsItsTypes ==
    ASSUME LedgerInv, WorkflowTypeOK, [WorkflowNext]_vars
    PROVE  LedgerInv' /\ WorkflowTypeOK'
<1>1. LedgerInv'
  BY WorkflowIsTransactions, TransactionKeepsLedgerInv
<1>2. TypeOK'
  BY <1>1 DEF LedgerInv
<1>3. ASSUME NEW o \in Operators, NEW s \in Scopes, ViewWorkspace(o, s)
      PROVE  WorkflowTypeOK'
  <2>1. StoredContext(s) \in SUBSET (Ids \X {"VALID", "REVOKED"})
    BY DEF StoredContext, LedgerInv, TypeOK, Node
  <2>2. [epoch |-> epoch[s], scope |-> s, seen |-> StoredContext(s)] \in View
    BY <2>1 DEF View, LedgerInv, TypeOK
  <2> QED BY <1>2, <1>3, <2>2 DEF ViewWorkspace, WorkflowTypeOK
<1>4. ASSUME UNCHANGED client, admitting' \subseteq GrantKeys PROVE WorkflowTypeOK'
  BY <1>2, <1>4 DEF WorkflowTypeOK
<1>5. CASE Environment
  <2>1. admitting' \subseteq GrantKeys
    BY <1>5 DEF Environment, ReplaceOperatorPolicy, ReplaceAdmissionPolicy, WorkflowTypeOK
  <2> QED BY <1>1, <1>4, <1>5, <2>1, EnvironmentIsTransactions
<1>6. CASE UNCHANGED vars
  BY <1>1, <1>4, <1>6 DEF vars, WorkflowTypeOK
<1>7. ASSUME NEW o \in Operators, client[o] # NoView, Research(o) \/ Settle(o)
      PROVE  WorkflowTypeOK'
  BY <1>4, <1>7, OperationsAreTransactions DEF WorkflowTypeOK
<1> QED BY <1>1, <1>3, <1>5, <1>6, <1>7 DEF WorkflowNext

LEMMA WorkflowStarts == WorkflowInit => LedgerInv /\ WorkflowTypeOK /\ EpochInv
<1> SUFFICES ASSUME WorkflowInit PROVE LedgerInv /\ WorkflowTypeOK /\ EpochInv
  OBVIOUS
<1>1. authorized \subseteq Authorities
  BY WorkflowConstants DEF WorkflowInit
<1>2. LedgerInv
  BY LedgerInit DEF WorkflowInit
<1>3. WorkflowTypeOK
  BY <1>2 DEF WorkflowInit, WorkflowTypeOK, LedgerInv
<1>4. EpochInv
  BY DEF WorkflowInit, Init, EpochInv, EpochsAreReached, MaterialEpochsAreDistinct
<1> QED BY <1>2, <1>3, <1>4

\* The ledger's own invariants, however the operators call it.
Grounded == LedgerInv /\ WorkflowTypeOK /\ EpochInv

LEMMA GroundedNext == Grounded /\ [WorkflowNext]_vars => Grounded'
<1> SUFFICES ASSUME Grounded, [WorkflowNext]_vars PROVE Grounded'
  OBVIOUS
<1>1. LedgerInv' /\ WorkflowTypeOK'
  BY WorkflowKeepsItsTypes DEF Grounded
<1>2. EpochInv'
  BY <1>1, WorkflowIsTransactions, EpochsNext DEF Grounded
<1> QED BY <1>1, <1>2 DEF Grounded

LEMMA WorkflowIsGrounded == WorkflowSpec => []Grounded
BY WorkflowStarts, GroundedNext, PTL DEF WorkflowSpec, Grounded

\* Every state the operators can reach is well typed, whatever they ask for and
\* however the policy files are replaced.
THEOREM WorkflowTypeCorrectness == WorkflowSpec => []WorkflowTypeOK
<1>1. Grounded => WorkflowTypeOK
  BY DEF Grounded
<1> QED BY <1>1, WorkflowIsGrounded, PTL

\* The operators' requests keep what the ledger promises of its graph: nothing
\* valid rests on what was corrected, withdrawn, suppressed or has expired, and
\* nothing crosses a scope (david_workflow.py calls no other writer).
THEOREM WorkflowEvidenceStands == WorkflowSpec => []EvidenceStands
<1>1. WorkflowInit => ValidGrantsStand
  BY DEF WorkflowInit, Init, ValidGrantsStand
<1>2. Grounded /\ ValidGrantsStand /\ [WorkflowNext]_vars => ValidGrantsStand'
  BY WorkflowIsTransactions, GrantsNext DEF Grounded
<1>3. Grounded /\ ValidGrantsStand => EvidenceStands
  BY DEF Grounded, LedgerInv, Derived, ValidGrantsStand, Ancestors, EvidenceStands,
         RevocationReachesDescendants, NoChildOutlivesItsEvidence,
         WithdrawnGrantsSupportNothing, LineageStaysInScope
<1> QED BY <1>1, <1>2, <1>3, WorkflowIsGrounded, PTL DEF WorkflowSpec

\* The operators' tasks are sound: a key names one task of a scope, and a task
\* whose evidence was revoked is out of every worker's reach.
THEOREM WorkflowTasksAreSound == WorkflowSpec => []TasksAreSound
<1>1. WorkflowInit => OneTaskPerKey
  BY DEF WorkflowInit, Init, OneTaskPerKey
<1>2. Grounded /\ OneTaskPerKey /\ [WorkflowNext]_vars => OneTaskPerKey'
  BY WorkflowIsTransactions, TransactionsKeepTasks DEF Grounded
<1>3. Grounded /\ OneTaskPerKey => TasksAreSound
  BY DEF Grounded, LedgerInv, TasksAreSound
<1> QED BY <1>1, <1>2, <1>3, WorkflowIsGrounded, PTL DEF WorkflowSpec

-----------------------------------------------------------------------------
\* Screens.

\* The screen of an operator is never ahead of its scope, and one whose epoch is
\* still the scope's shows the evidence that is stored.
ScreenShows(o) ==
    /\ client[o].epoch <= epoch[client[o].scope]
    /\ client[o].epoch = epoch[client[o].scope] =>
          client[o].seen = StoredContext(client[o].scope)

ScreenInv == \A o \in DOMAIN client : client[o] # NoView => ScreenShows(o)

ContextIn(T, s) ==
    {<<i, T[i].state>> : i \in {j \in DOMAIN T : T[j].scope = s /\ T[j].kind \in ContextKinds}}

LEMMA ScreensNext ==
    ASSUME Grounded, ScreenInv, [WorkflowNext]_vars
    PROVE  ScreenInv'
<1>0. [Transaction]_ledgerVars /\ ScopesOnlyClose
  BY WorkflowIsTransactions, TransactionsAreFinal DEF Grounded
<1>1. DOMAIN client = Operators /\ client \in [Operators -> View \cup {NoView}]
  BY DEF Grounded, WorkflowTypeOK
<1>2. \A s \in Scopes :
        /\ epoch[s] \in Nat /\ epoch'[s] \in Nat /\ epoch'[s] >= epoch[s]
        /\ ContextIn(node', s) # ContextIn(node, s) => epoch'[s] > epoch[s]
  <2>1. LedgerInv /\ LedgerInv'
    BY WorkflowKeepsItsTypes DEF Grounded
  <2>2. \A s \in Scopes : Advances(s)
    BY <1>0, <2>1, EveryStepAdvances
  <2>3. \A s \in Scopes : ContextIn(node', s) # ContextIn(node, s) => epoch'[s] > epoch[s]
    BY <2>2 DEF Advances, StoredContext, ContextIn
  <2>4. \A s \in Scopes : epoch[s] \in Nat /\ epoch'[s] \in Nat
    BY <2>1, BoundsAssumption DEF LedgerInv, TypeOK
  <2> QED BY <1>0, <2>3, <2>4 DEF ScopesOnlyClose
<1>3. ASSUME NEW o \in Operators, client'[o] = client[o], client[o] # NoView
      PROVE  ScreenShows(o)'
  <2> DEFINE s == client[o].scope
  <2>1. s \in Scopes /\ client[o].epoch \in Nat
    BY <1>3, ScreenTypes, BoundsAssumption DEF Grounded
  <2>2. /\ client[o].epoch <= epoch[s]
        /\ client[o].epoch = epoch[s] => client[o].seen = ContextIn(node, s)
    BY <1>1, <1>3 DEF ScreenInv, ScreenShows, StoredContext, ContextIn
  <2> HIDE DEF s
  <2>3. /\ client[o].epoch <= epoch'[s]
        /\ client[o].epoch = epoch'[s] => client[o].seen = ContextIn(node', s)
    BY <1>2, <2>1, <2>2
  <2> QED BY <1>3, <2>3 DEF s, ScreenShows, StoredContext, ContextIn
<1>4. ASSUME UNCHANGED client PROVE ScreenInv'
  BY <1>1, <1>3, <1>4 DEF ScreenInv
<1>5. ASSUME NEW o \in Operators, NEW s \in Scopes, ViewWorkspace(o, s)
      PROVE  ScreenInv'
  <2>1. /\ client'[o] = [epoch |-> epoch[s], scope |-> s, seen |-> StoredContext(s)]
        /\ \A p \in Operators : p # o => client'[p] = client[p]
        /\ DOMAIN client' = Operators
        /\ epoch' = epoch /\ node' = node
    BY <1>1, <1>5 DEF ViewWorkspace, ledgerVars
  <2>2. ScreenShows(o)'
    BY <1>2, <2>1 DEF ScreenShows, StoredContext
  <2>3. ASSUME NEW p \in Operators, client'[p] # NoView PROVE ScreenShows(p)'
    BY <1>3, <2>1, <2>2, <2>3
  <2> QED BY <2>1, <2>3 DEF ScreenInv
<1>6. CASE \E o \in Operators : client[o] # NoView /\ (Research(o) \/ Settle(o))
  BY <1>4, <1>6, OperationsAreTransactions DEF Grounded
<1>7. CASE Environment
  BY <1>4, <1>7, EnvironmentIsTransactions
<1>8. CASE UNCHANGED vars
  BY <1>4, <1>8 DEF vars
<1> QED BY <1>5, <1>6, <1>7, <1>8 DEF WorkflowNext

\* What a request stores lies in the scope of the screen it came from, and only
\* while the epoch of that screen is the scope's.
StoresWithin(s, expected) ==
    /\ DOMAIN node' # DOMAIN node => EpochHolds(s, expected)
    /\ \A i \in DOMAIN node' \ DOMAIN node : node'[i].scope = s

LEMMA AppendStoresWithin ==
    ASSUME NEW c, NEW t, NEW expected, AppendEvidence(c, t, expected)
    PROVE  StoresWithin(c.scope, expected)
<1> DEFINE e == EpochAfter(c, epoch[c.scope])
<1>1. node' = Inserted(node, NextId, c, e) /\ EpochHolds(c.scope, expected)
  BY DEF AppendEvidence
<1> HIDE DEF e
<1> QED BY <1>1 DEF StoresWithin, Inserted

LEMMA AdmissionStoresWithin ==
    ASSUME LedgerInv, NEW s, NEW g, g.scope = s, NEW b, NEW x, NEW t, NEW expected,
           AdmitObservation(g, [scope |-> s, kind |-> "observation", parents |-> {},
                                expires |-> x, body |-> b], t, expected)
    PROVE  StoresWithin(s, expected)
<1> DEFINE o == [scope |-> s, kind |-> "observation", parents |-> {}, expires |-> x, body |-> b]
<1>1. CASE AdmitUnderStoredGrant(g, o, t, expected)
  <2>1. PICK i \in Same(g) : AppendEvidence([o EXCEPT !.parents = {i}], t, expected)
    BY <1>1 DEF AdmitUnderStoredGrant
  <2>2. [o EXCEPT !.parents = {i}].scope = s
    OBVIOUS
  <2> QED BY <2>1, <2>2, AppendStoresWithin
<1>2. CASE AdmitWithNewGrant(g, o, t, expected)
  <2> DEFINE k == NextId
             c == [scope |-> s, kind |-> "observation", parents |-> {k},
                   expires |-> x, body |-> b]
             T == Inserted(node, k, g, epoch[g.scope] + 1)
  <2>1. node' = Inserted(T, k + 1, c, epoch[g.scope] + 2) /\ EpochHolds(s, expected)
    BY <1>2, AdmittedNodes DEF AdmitWithNewGrant
  <2>2. c.scope = s
    OBVIOUS
  <2> HIDE DEF c
  <2>3. \A i \in DOMAIN T \ DOMAIN node : T[i].scope = s
    BY DEF Inserted
  <2>4. \A i \in DOMAIN node : i \in DOMAIN T
    BY DEF Inserted
  <2> HIDE DEF T, k
  <2>5. \A i \in DOMAIN node' \ DOMAIN node : node'[i].scope = s
    BY <2>1, <2>2, <2>3, <2>4 DEF Inserted
  <2> QED BY <2>1, <2>5 DEF StoresWithin
<1> QED BY <1>1, <1>2 DEF AdmitObservation

LEMMA OperationsStoreWithin ==
    ASSUME LedgerInv, NEW o \in Operators, client[o] # NoView, Research(o) \/ Settle(o)
    PROVE  StoresWithin(client[o].scope, client[o].epoch)
<1> DEFINE s == client[o].scope
           e == client[o].epoch
<1>1. ASSUME NEW a, NEW kind, NEW ps, NEW body, Decide(o, a, kind, ps, body)
      PROVE  StoresWithin(s, e)
  BY <1>1, AppendStoresWithin DEF Decide
<1>2. ASSUME NEW key, NEW record, NEW gx, NEW ox, AdmitRecord(o, key, record, gx, ox)
      PROVE  StoresWithin(s, e)
  BY <1>2, AdmissionStoresWithin DEF AdmitRecord
<1>3. ASSUME NEW cl, NEW key, TaskFrom(o, cl, key) PROVE StoresWithin(s, e)
  <2>1. PICK a : CreateManualTask(s, cl, [authority |-> a, key |-> key],
                                  DerivedExpiry(a, {cl}), clock, e)
    BY <1>3 DEF TaskFrom
  <2> DEFINE c == [scope |-> s, kind |-> "manual_task", parents |-> {cl},
                   expires |-> DerivedExpiry(a, {cl}), body |-> [authority |-> a, key |-> key]]
  <2>2. node' = Inserted(node, NextId, c, epoch[s]) /\ EpochHolds(s, e)
    BY <2>1 DEF CreateManualTask
  <2>3. c.scope = s
    OBVIOUS
  <2> HIDE DEF c
  <2> QED BY <2>2, <2>3 DEF StoresWithin, Inserted
<1>4. ASSUME DOMAIN node' = DOMAIN node PROVE StoresWithin(s, e)
  BY <1>4 DEF StoresWithin
<1> HIDE DEF s, e
<1>5. ASSUME NEW ps, NEW decision, ReviewIdentity(o, ps, decision) PROVE StoresWithin(s, e)
  BY <1>1, <1>5 DEF ReviewIdentity
<1>6. ASSUME NEW ps, CounterEvidence(o, ps) PROVE StoresWithin(s, e)
  BY <1>1, <1>6 DEF CounterEvidence
<1>7. ASSUME NEW ps, NEW identity, MakeBrief(o, ps, identity) PROVE StoresWithin(s, e)
  BY <1>1, <1>7 DEF MakeBrief
<1>8. ASSUME NEW brief, NEW approved, ReviewBrief(o, brief, approved) PROVE StoresWithin(s, e)
  BY <1>1, <1>8 DEF ReviewBrief
<1>9. ASSUME NEW review, NEW brief, Clear(o, review, brief) PROVE StoresWithin(s, e)
  BY <1>1, <1>9 DEF Clear
<1>10. ASSUME NEW task, RecordOutcome(o, task) PROVE StoresWithin(s, e)
  BY <1>1, <1>10 DEF RecordOutcome
<1>11. ASSUME NEW i, CorrectNode(o, i) PROVE StoresWithin(s, e)
  BY <1>4, <1>11 DEF CorrectNode, Revoke, Revoked
<1>12. ASSUME SuppressScope(o) PROVE StoresWithin(s, e)
  BY <1>4, <1>12 DEF SuppressScope, Suppress, Revoked
<1>13. CASE Research(o)
  BY <1>2, <1>5, <1>6, <1>7, <1>13 DEF Research, s, e
<1>14. CASE Settle(o)
  BY <1>3, <1>8, <1>9, <1>10, <1>11, <1>12, <1>14 DEF Settle, s, e
<1> QED BY <1>13, <1>14

LEMMA EnvironmentStoresNothing ==
    ASSUME Environment
    PROVE  DOMAIN node' = DOMAIN node
BY DEF Environment, RevokeGrant, Revoked, ReplaceOperatorPolicy, ChangePolicy,
       ReplaceAdmissionPolicy, Tick, ledgerVars

\* No operator decides on a screen that has gone out of date: whatever a request
\* stores, the evidence stored in its scope at the commit is the evidence the
\* screen it came from showed, though the code compares the epoch alone
\* (expected_epoch, _lock_scope).
THEOREM DecisionsAreMadeOnWhatWasSeen == WorkflowSpec => DecidedOnWhatWasSeen
<1>1. WorkflowInit => ScreenInv
  BY DEF WorkflowInit, ScreenInv
<1>2. Grounded /\ ScreenInv /\ [WorkflowNext]_vars => ScreenInv'
  BY ScreensNext
<1>3. Grounded /\ ScreenInv /\ [WorkflowNext]_vars =>
        [\A i \in DOMAIN node' \ DOMAIN node :
            \E o \in DOMAIN client : /\ client[o] # NoView
                                     /\ client[o].scope = node'[i].scope
                                     /\ client[o].seen = StoredContext(node'[i].scope)]_vars
  <2> SUFFICES ASSUME Grounded, ScreenInv, [WorkflowNext]_vars, NEW i \in DOMAIN node' \ DOMAIN node
               PROVE  \E o \in DOMAIN client :
                          /\ client[o] # NoView
                          /\ client[o].scope = node'[i].scope
                          /\ client[o].seen = StoredContext(node'[i].scope)
    OBVIOUS
  <2>1. PICK o \in Operators : client[o] # NoView /\ (Research(o) \/ Settle(o))
    BY EnvironmentStoresNothing DEF WorkflowNext, ViewWorkspace, vars, ledgerVars
  <2>2. /\ node'[i].scope = client[o].scope
        /\ EpochHolds(client[o].scope, client[o].epoch)
    BY <2>1, OperationsStoreWithin DEF StoresWithin, Grounded
  <2>3. client[o].epoch = epoch[client[o].scope]
    BY <2>1, <2>2, ScreenTypes, AnyEpochAssumption, BoundsAssumption DEF EpochHolds, Grounded
  <2>4. o \in DOMAIN client
    BY DEF Grounded, WorkflowTypeOK
  <2> QED BY <2>1, <2>2, <2>3, <2>4 DEF ScreenInv, ScreenShows
<1> QED BY <1>1, <1>2, <1>3, WorkflowIsGrounded, PTL DEF WorkflowSpec, DecidedOnWhatWasSeen

-----------------------------------------------------------------------------
\* What a transaction leaves of the decisions already made.

ValidNow == {i \in DOMAIN node : Valid(i, clock)}

\* A stored node stays as it is, but for its state, which only falls.
Kept(i) ==
    /\ i \in DOMAIN node'
    /\ node'[i].scope = node[i].scope /\ node'[i].kind = node[i].kind
    /\ node'[i].parents = node[i].parents /\ node'[i].lineage = node[i].lineage
    /\ node'[i].body = node[i].body /\ node'[i].epoch = node[i].epoch
    /\ node'[i].expires = node[i].expires
    /\ node'[i].state = "VALID" => node[i].state = "VALID"

\* Nothing old is altered or becomes valid again, and no new material evidence is
\* stored without the epoch of its scope advancing.
Forward ==
    /\ \A i \in DOMAIN node : Kept(i)
    /\ \A s \in Scopes : epoch[s] \in Nat /\ epoch'[s] \in Nat /\ epoch[s] <= epoch'[s]
    /\ \A i \in DOMAIN node' \ DOMAIN node :
        node'[i].kind \in MaterialKinds => epoch[node'[i].scope] < epoch'[node'[i].scope]
    /\ \A i \in DOMAIN node : node[i].kind \notin EpochBoundKinds /\ i \in ValidNow' => i \in ValidNow

LEMMA FieldsAreKept ==
    ASSUME LedgerInv, NodesOnlyFall, NEW i \in DOMAIN node
    PROVE  Kept(i)
BY DEF LedgerInv, TypeOK, Node, NodesOnlyFall, Kept

LEMMA ClockOnlyRuns ==
    ASSUME LedgerInv, [Transaction]_ledgerVars
    PROVE  clock \in Nat /\ clock' \in Nat /\ clock <= clock'
<1>0. clock \in Nat
  BY BoundsAssumption DEF LedgerInv, TypeOK, Times
<1>1. AnyAppend => clock' = clock
  BY DEF AnyAppend, AppendEvidence
<1>2. AnyAdmission => clock' = clock
  <2> SUFFICES ASSUME NEW g, NEW c, NEW t, NEW expected, AdmitObservation(g, c, t, expected)
               PROVE  clock' = clock
    BY DEF AnyAdmission
  <2> QED BY DEF AdmitObservation, AdmitUnderStoredGrant, AdmitWithNewGrant, AppendEvidence
<1>3. AnyRevocation \/ AnyTask => clock' = clock
  BY DEF AnyRevocation, Revoke, RevokeGrant, Suppress, AnyTask, CreateManualTask
<1>4. Work \/ (\E granted \in SUBSET Authorities : ChangePolicy(granted)) \/ UNCHANGED ledgerVars
        => clock' = clock
  BY DEF Work, ClaimOutbox, BeginDispatch, FinalizeDispatch, WorkerStops, ChangePolicy, ledgerVars
<1>5. Tick => clock' = clock + 1
  BY DEF Tick
<1> QED BY <1>0, <1>1, <1>2, <1>3, <1>4, <1>5 DEF Transaction

LEMMA ValidityFalls ==
    ASSUME LedgerInv, \A i \in DOMAIN node : Kept(i), suppressed \subseteq suppressed',
           clock \in Nat, clock' \in Nat, clock <= clock',
           NEW i \in DOMAIN node, node[i].kind \notin EpochBoundKinds, i \in ValidNow'
    PROVE  i \in ValidNow
<1>1. node[i].lineage \subseteq DOMAIN node /\ \A a \in node[i].lineage : node[a].expires \in Nat
  BY DEF LedgerInv, Derived, TypeOK, Node
<1>2. /\ \A a \in node'[i].lineage : node'[a].state = "VALID" /\ ~ (node'[a].expires <= clock')
      /\ node'[i].scope \notin suppressed'
  BY DEF ValidNow, Valid, StateOf, Ancestors
<1>3. \A a \in node[i].lineage : node[a].state = "VALID" /\ ~ (node[a].expires <= clock)
  BY <1>1, <1>2 DEF Kept
<1>4. node[i].scope \notin suppressed
  BY <1>2 DEF Kept
<1> QED BY <1>3, <1>4 DEF ValidNow, Valid, StateOf, Ancestors

LEMMA NewMaterialAdvances ==
    ASSUME LedgerInv, [Transaction]_ledgerVars, NEW i \in DOMAIN node' \ DOMAIN node,
           node'[i].kind \in MaterialKinds
    PROVE  epoch[node'[i].scope] < epoch'[node'[i].scope]
<1>1. ASSUME NEW c, c.scope \in Scopes, NEW t, NEW expected, AppendEvidence(c, t, expected)
      PROVE  epoch[node'[i].scope] < epoch'[node'[i].scope]
  <2> DEFINE e == EpochAfter(c, epoch[c.scope])
  <2>1. node' = Inserted(node, NextId, c, e) /\ epoch' = [epoch EXCEPT ![c.scope] = e]
    BY <1>1 DEF AppendEvidence
  <2>2. c.kind \in MaterialKinds => e = epoch[c.scope] + 1
    BY DEF EpochAfter
  <2> HIDE DEF e
  <2>3. node'[i].kind = c.kind /\ node'[i].scope = c.scope
    BY <2>1 DEF Inserted
  <2>4. epoch'[c.scope] = e /\ epoch[c.scope] \in Nat
    BY <1>1, <2>1, NaturalEpochs DEF LedgerInv, TypeOK
  <2> QED BY <2>2, <2>3, <2>4
<1>2. CASE AnyAdmission
  <2>1. PICK s \in Scopes, key \in GrantKeys, b \in Bodies, gx \in Nat, ox \in Nat,
             t \in Times, expected \in Expectations :
          AdmitObservation(
            [scope |-> s, kind |-> "grant", parents |-> {}, expires |-> gx, body |-> key],
            [scope |-> s, kind |-> "observation", parents |-> {}, expires |-> ox, body |-> b],
            t, expected)
    BY <1>2 DEF AnyAdmission
  <2>2. node'[i].scope = s
    BY <2>1, AdmissionStoresWithin DEF StoresWithin
  <2>3. CASE AdmitUnderStoredGrant(
            [scope |-> s, kind |-> "grant", parents |-> {}, expires |-> gx, body |-> key],
            [scope |-> s, kind |-> "observation", parents |-> {}, expires |-> ox, body |-> b],
            t, expected)
    BY <1>1, <2>3 DEF AdmitUnderStoredGrant
  <2>4. CASE AdmitWithNewGrant(
            [scope |-> s, kind |-> "grant", parents |-> {}, expires |-> gx, body |-> key],
            [scope |-> s, kind |-> "observation", parents |-> {}, expires |-> ox, body |-> b],
            t, expected)
    <3>1. epoch' = [epoch EXCEPT ![s] = @ + 2]
      BY <2>4 DEF AdmitWithNewGrant
    <3> QED BY <2>2, <3>1, NaturalEpochs DEF LedgerInv, TypeOK
  <2> QED BY <2>1, <2>3, <2>4 DEF AdmitObservation
<1>3. CASE AnyTask
  <2>1. PICK s, cl, b, x, t, expected : CreateManualTask(s, cl, b, x, t, expected)
    BY <1>3 DEF AnyTask
  <2> DEFINE c == [scope |-> s, kind |-> "manual_task", parents |-> {cl},
                   expires |-> x, body |-> b]
  <2>2. node' = Inserted(node, NextId, c, epoch[s]) /\ c.kind \notin MaterialKinds
    BY <2>1 DEF CreateManualTask, MaterialKinds
  <2> HIDE DEF c
  <2> QED BY <2>2 DEF Inserted
<1>4. CASE AnyAppend
  BY <1>1, <1>4 DEF AnyAppend, Content
<1>5. CASE AnyRevocation
  BY <1>5 DEF AnyRevocation, Revoke, RevokeGrant, Suppress, Revoked
<1>6. CASE Work \/ Tick \/ (\E granted \in SUBSET Authorities : ChangePolicy(granted))
           \/ UNCHANGED ledgerVars
  BY <1>6 DEF Work, ClaimOutbox, BeginDispatch, FinalizeDispatch, WorkerStops, Tick,
              ChangePolicy, ledgerVars
<1> QED BY <1>2, <1>3, <1>4, <1>5, <1>6 DEF Transaction

LEMMA TransactionsGoForward ==
    ASSUME LedgerInv, LedgerInv', [Transaction]_ledgerVars
    PROVE  Forward
<1>1. ScopesOnlyClose /\ NodesOnlyFall
  BY TransactionsAreFinal
<1>2. \A i \in DOMAIN node : Kept(i)
  BY <1>1, FieldsAreKept
<1>3. \A s \in Scopes : epoch[s] \in Nat /\ epoch'[s] \in Nat /\ epoch[s] <= epoch'[s]
  BY <1>1, BoundsAssumption DEF ScopesOnlyClose, LedgerInv, TypeOK
<1>4. \A i \in DOMAIN node : node[i].kind \notin EpochBoundKinds /\ i \in ValidNow' => i \in ValidNow
  BY <1>1, <1>2, ClockOnlyRuns, ValidityFalls DEF ScopesOnlyClose
<1>5. \A i \in DOMAIN node' \ DOMAIN node :
        node'[i].kind \in MaterialKinds => epoch[node'[i].scope] < epoch'[node'[i].scope]
  BY NewMaterialAdvances
<1> QED BY <1>2, <1>3, <1>4, <1>5 DEF Forward

-----------------------------------------------------------------------------
\* What each decision keeps of the checks it was made under.

\* A later confirmation of the organization of `x` overrules the review `j`.
Overruled(x, j) ==
    \E k \in ScopeNodes(node[j].scope, "organization_review") :
        /\ x \in node[k].parents
        /\ node[k].body.decision = "ORGANIZATION_CONFIRMED"
        /\ node[k].epoch > node[j].epoch

\* The context a brief was bound to: every contradiction it shows as valid is
\* cited, every adverse review it shows is overruled.
BriefIsBound(b) ==
    LET s == node[b].scope
        context == node[b].body.context
    IN  /\ DOMAIN context \subseteq DOMAIN node
        /\ \A j \in ScopeNodes(s, "counter_evidence") \cap DOMAIN context :
              context[j] = "VALID" => j \in node[b].parents
        /\ \A x \in Under(b, "observation") :
              \A j \in ScopeNodes(s, "organization_review") \cap DOMAIN context :
                  x \in node[j].parents /\ node[j].body.decision # "ORGANIZATION_CONFIRMED"
                      => Overruled(x, j)

ReviewIsFit(r) ==
    node[r].body.decision = "APPROVED" =>
        \A b \in Under(r, "brief") : \A p \in node[b].parents : node[p].kind # "counter_evidence"

\* The brief `b` and its review `r` answer everything its scope `s` now holds.
Stands(s, r, b) ==
    LET context == node[b].body.context
    IN  /\ \A j \in ScopeNodes(s, "brief_review") :
              b \in node[j].parents => node[j].epoch <= node[r].epoch
        /\ ScopeNodes(s, "organization_review") \subseteq DOMAIN context
        /\ \A j \in ScopeNodes(s, "counter_evidence") \cap ValidNow :
              j \in DOMAIN context /\ context[j] = "VALID"

ClearanceRestsOn(i, r, b) ==
    /\ node[i].parents = {r, b} /\ b \in node[r].parents
    /\ node[r].kind = "brief_review" /\ node[b].kind = "brief"
    /\ node[r].body.decision = "APPROVED"
    /\ node[r].body.policy = node[i].body.authority.policy
    /\ node[i].epoch = epoch[node[i].scope] => Stands(node[i].scope, r, b)

ClearanceIsFit(i) == \E r, b \in DOMAIN node : ClearanceRestsOn(i, r, b)

TaskIsFit(i) ==
    \A cl \in Under(i, "clearance") : node[cl].body.authority = node[i].body.authority

NodeIsFit(i) ==
    /\ node[i].kind = "brief" => BriefIsBound(i)
    /\ node[i].kind = "brief_review" => ReviewIsFit(i)
    /\ node[i].kind = "clearance" => ClearanceIsFit(i)

DecisionsInv ==
    /\ \A i \in DOMAIN node : NodeIsFit(i)
    /\ \A i \in DOMAIN outbox : TaskIsFit(i)

-----------------------------------------------------------------------------
\* A decision made stays fit.

LEMMA BriefStaysBound ==
    ASSUME LedgerInv, Forward, NEW b \in DOMAIN node, BriefIsBound(b)
    PROVE  BriefIsBound(b)'
<1> DEFINE s == node[b].scope
           context == node[b].body.context
<1>1. /\ \A i \in DOMAIN node : Kept(i)
      /\ node[b].parents \subseteq DOMAIN node
  BY DEF Forward, LedgerInv, Derived
<1>2. node'[b].scope = s /\ node'[b].body.context = context /\ node'[b].parents = node[b].parents
  BY <1>1 DEF Kept
<1>3. /\ DOMAIN context \subseteq DOMAIN node
      /\ \A j \in DOMAIN context : node[j].scope = s /\ node[j].kind = "counter_evidence"
            /\ context[j] = "VALID" => j \in node[b].parents
      /\ \A x \in node[b].parents, j \in DOMAIN context :
            node[x].kind = "observation" /\ node[j].scope = s
            /\ node[j].kind = "organization_review" /\ x \in node[j].parents
            /\ node[j].body.decision # "ORGANIZATION_CONFIRMED" => Overruled(x, j)
  BY DEF BriefIsBound, ScopeNodes, Under
<1> HIDE DEF s, context
<1>4. ASSUME NEW x, NEW j \in DOMAIN node, Overruled(x, j) PROVE Overruled(x, j)'
  <2>1. PICK k \in DOMAIN node :
          /\ node[k].scope = node[j].scope /\ node[k].kind = "organization_review"
          /\ x \in node[k].parents /\ node[k].body.decision = "ORGANIZATION_CONFIRMED"
          /\ node[k].epoch > node[j].epoch
    BY <1>4 DEF Overruled, ScopeNodes
  <2> QED BY <1>1, <2>1 DEF Kept, Overruled, ScopeNodes
<1>5. DOMAIN context \subseteq DOMAIN node'
  BY <1>1, <1>3 DEF Kept
<1>6. ASSUME NEW j \in DOMAIN node', node'[j].scope = s, node'[j].kind = "counter_evidence",
             j \in DOMAIN context, context[j] = "VALID"
      PROVE  j \in node[b].parents
  BY <1>1, <1>3, <1>6 DEF Kept
<1>7. ASSUME NEW x \in node[b].parents, NEW j \in DOMAIN node', node'[x].kind = "observation",
             node'[j].scope = s, node'[j].kind = "organization_review", j \in DOMAIN context,
             x \in node'[j].parents, node'[j].body.decision # "ORGANIZATION_CONFIRMED"
      PROVE  Overruled(x, j)'
  BY <1>1, <1>3, <1>4, <1>7 DEF Kept
<1> QED BY <1>2, <1>5, <1>6, <1>7 DEF BriefIsBound, ScopeNodes, Under

LEMMA ReviewStaysFit ==
    ASSUME LedgerInv, Forward, NEW r \in DOMAIN node, ReviewIsFit(r)
    PROVE  ReviewIsFit(r)'
<1>1. /\ \A i \in DOMAIN node : Kept(i)
      /\ \A i \in DOMAIN node : node[i].parents \subseteq DOMAIN node
  BY DEF Forward, LedgerInv, Derived
<1> QED BY <1>1 DEF Kept, ReviewIsFit, Under

LEMMA ClearanceStaysFit ==
    ASSUME LedgerInv, EpochInv, Forward, NEW i \in DOMAIN node, ClearanceIsFit(i)
    PROVE  ClearanceIsFit(i)'
<1> DEFINE s == node[i].scope
<1>1. PICK r \in DOMAIN node, b \in DOMAIN node : ClearanceRestsOn(i, r, b)
  BY DEF ClearanceIsFit
<1>2. Kept(i) /\ Kept(r) /\ Kept(b) /\ \A j \in DOMAIN node : Kept(j)
  BY DEF Forward
<1>3. node'[i].scope = s
  BY <1>2 DEF Kept
<1>4. ASSUME node'[i].epoch = epoch'[s] PROVE Stands(s, r, b)'
  <2>1. epoch'[s] = epoch[s] /\ node[i].epoch = epoch[s]
    <3>1. node[i].epoch <= epoch[s] /\ s \in Scopes /\ node[i].epoch \in Nat
      BY NaturalEpochs DEF EpochInv, EpochsAreReached
    <3> QED BY <1>2, <1>4, <3>1 DEF Kept, Forward
  <2>2. Stands(s, r, b)
    BY <1>1, <2>1 DEF ClearanceRestsOn
  <2>3. ASSUME NEW j \in DOMAIN node', node'[j].scope = s, node'[j].kind \in MaterialKinds
        PROVE  j \in DOMAIN node
    <3>1. s \in Scopes /\ epoch[s] \in Nat
      BY NaturalEpochs
    <3> QED BY <2>1, <2>3, <3>1 DEF Forward
  <2>4. /\ {"brief_review", "organization_review", "counter_evidence"} \subseteq MaterialKinds
        /\ "counter_evidence" \notin EpochBoundKinds
    BY DEF MaterialKinds, EpochBoundKinds
  <2> HIDE DEF s
  <2>5. ASSUME NEW j \in DOMAIN node', node'[j].scope = s, node'[j].kind = "brief_review",
               b \in node'[j].parents
        PROVE  node'[j].epoch <= node'[r].epoch
    BY <1>2, <2>2, <2>3, <2>4, <2>5 DEF Stands, ScopeNodes, Kept
  <2>6. ASSUME NEW j \in DOMAIN node', node'[j].scope = s, node'[j].kind = "organization_review"
        PROVE  j \in DOMAIN node'[b].body.context
    BY <1>2, <2>2, <2>3, <2>4, <2>6 DEF Stands, ScopeNodes, Kept
  <2>7. ASSUME NEW j \in DOMAIN node', node'[j].scope = s, node'[j].kind = "counter_evidence",
               j \in ValidNow'
        PROVE  j \in DOMAIN node'[b].body.context /\ node'[b].body.context[j] = "VALID"
    <3>1. j \in ValidNow /\ node[j].scope = s /\ node[j].kind = "counter_evidence"
      BY <1>2, <2>3, <2>4, <2>7 DEF Forward, Kept
    <3> QED BY <1>2, <2>2, <3>1 DEF Stands, ScopeNodes, Kept, ValidNow
  <2> QED BY <1>3, <2>5, <2>6, <2>7 DEF Stands, ScopeNodes, s
<1>5. ClearanceRestsOn(i, r, b)'
  BY <1>1, <1>2, <1>3, <1>4 DEF ClearanceRestsOn, Kept
<1>6. r \in DOMAIN node' /\ b \in DOMAIN node'
  BY <1>2 DEF Kept
<1> QED BY <1>5, <1>6 DEF ClearanceIsFit

LEMMA TaskStaysFit ==
    ASSUME LedgerInv, Forward, NEW i \in DOMAIN node, TaskIsFit(i)
    PROVE  TaskIsFit(i)'
<1>1. /\ \A j \in DOMAIN node : Kept(j)
      /\ node[i].parents \subseteq DOMAIN node
  BY DEF Forward, LedgerInv, Derived
<1> QED BY <1>1 DEF Kept, TaskIsFit, Under

\* So the invariant stands when what a step stores is fit.
LEMMA DecisionsStand ==
    ASSUME LedgerInv, EpochInv, DecisionsInv, Forward,
           \A i \in DOMAIN node' \ DOMAIN node : NodeIsFit(i)',
           \A i \in DOMAIN outbox' \ DOMAIN outbox : TaskIsFit(i)'
    PROVE  DecisionsInv'
<1>1. ASSUME NEW i \in DOMAIN node PROVE NodeIsFit(i)'
  <2>1. NodeIsFit(i) /\ node'[i].kind = node[i].kind
    BY DEF DecisionsInv, Forward, Kept
  <2> QED BY <2>1, BriefStaysBound, ReviewStaysFit, ClearanceStaysFit DEF NodeIsFit
<1>2. ASSUME NEW i \in DOMAIN outbox PROVE TaskIsFit(i)'
  <2>1. TaskIsFit(i) /\ i \in DOMAIN node
    BY DEF DecisionsInv, LedgerInv, TypeOK
  <2> QED BY <2>1, TaskStaysFit
<1> QED BY <1>1, <1>2 DEF DecisionsInv

-----------------------------------------------------------------------------
\* What a request stores is fit.

StoresFit ==
    /\ \A i \in DOMAIN node' \ DOMAIN node : NodeIsFit(i)'
    /\ \A i \in DOMAIN outbox' \ DOMAIN outbox : TaskIsFit(i)'

\* Kinds of which nothing more is asked.
LEMMA OtherKindsAreFit ==
    ASSUME \A i \in DOMAIN node' \ DOMAIN node :
              node'[i].kind \notin {"brief", "brief_review", "clearance"},
           DOMAIN outbox' = DOMAIN outbox
    PROVE  StoresFit
BY DEF StoresFit, NodeIsFit

LEMMA BriefIsFit ==
    ASSUME Grounded, Forward, NEW o \in Operators, client[o] # NoView,
           NEW sources, NEW identity, MakeBrief(o, sources, identity)
    PROVE  StoresFit
<1>0. PICK s, context, parents :
        /\ s = client[o].scope /\ context = EvidenceContext(s)
        /\ parents = sources \cup {identity}
                       \cup {i \in ScopeNodes(s, "counter_evidence") : Valid(i, clock)}
  OBVIOUS
<1>1. PICK a \in AuthorityFor(o, "brief") :
        /\ sources \subseteq Usable(s, "observation")
        /\ identity \in Usable(s, "organization_review")
        /\ node[identity].body.decision = "ORGANIZATION_CONFIRMED"
        /\ \A x \in sources : IsLatest(identity, x)
        /\ Decide(o, a, "brief", parents,
                  [context |-> context, policy |-> a.policy, stamp |-> NextId])
  BY <1>0 DEF MakeBrief
<1>2. /\ Adds(NextId, "brief", s, parents,
              [context |-> context, policy |-> a.policy, stamp |-> NextId])
      /\ outbox' = outbox
  BY <1>0, <1>1, DecideAdds DEF Grounded
<1>3. /\ identity \in DOMAIN node
      /\ node[identity].kind = "organization_review" /\ node[identity].scope = s
      /\ \A x \in sources : x \in DOMAIN node /\ node[x].kind = "observation"
  BY <1>1, UsableIsStored DEF ScopeNodes
<1>4. DOMAIN context = {j \in DOMAIN node : node[j].scope = s /\ node[j].kind \in ContextKinds}
      /\ \A j \in DOMAIN context : context[j] = StateOf(j, clock)
  BY <1>0 DEF EvidenceContext
<1>5. SUFFICES ASSUME NEW k \in DOMAIN node' \ DOMAIN node PROVE NodeIsFit(k)'
  BY <1>2 DEF StoresFit
<1>6. /\ DOMAIN node' = DOMAIN node \cup {k}
      /\ \A i \in DOMAIN node : node'[i] = node[i]
      /\ node'[k].kind = "brief" /\ node'[k].scope = s /\ node'[k].parents = parents
      /\ node'[k].body.context = context
  BY <1>2 DEF Adds
<1>7. \A j \in DOMAIN context : node[j].scope = s /\ node[j].kind = "counter_evidence"
          /\ context[j] = "VALID" => j \in parents
  BY <1>0, <1>4 DEF ScopeNodes, Valid
<1>8. ASSUME NEW x \in parents, node'[x].kind = "observation",
             NEW j \in DOMAIN context, node[j].kind = "organization_review",
             x \in node[j].parents, node[j].body.decision # "ORGANIZATION_CONFIRMED"
      PROVE  Overruled(x, j)'
  <2>1. x \in DOMAIN node /\ node[x].kind = "observation"
    BY <1>0, <1>3, <1>6, <1>8 DEF ScopeNodes
  <2>2. x \in sources
    BY <1>0, <1>3, <1>8, <2>1 DEF ScopeNodes
  <2>3. j \in DOMAIN node /\ node[j].scope = s
    BY <1>4, <1>8
  <2>4. x \in node[identity].parents /\ node[j].epoch <= node[identity].epoch
    BY <1>1, <1>3, <1>8, <2>2, <2>3 DEF IsLatest, ScopeNodes
  <2>5. node[j].epoch # node[identity].epoch
    BY <1>1, <1>3, <1>8, <2>3 DEF Grounded, EpochInv, MaterialEpochsAreDistinct, MaterialKinds
  <2>6. node[identity].epoch > node[j].epoch
    BY <1>3, <2>3, <2>4, <2>5, NaturalEpochs DEF Grounded
  <2> QED BY <1>1, <1>3, <1>6, <2>3, <2>4, <2>6 DEF Overruled, ScopeNodes
<1>9. DOMAIN context \subseteq DOMAIN node
  BY <1>4
<1>10. BriefIsBound(k)'
  <2>1. DOMAIN context \subseteq DOMAIN node' /\ node'[k].body.context = context
        /\ node'[k].scope = s /\ node'[k].parents = parents
    BY <1>6, <1>9
  <2>2. ASSUME NEW j \in DOMAIN node', node'[j].scope = s, node'[j].kind = "counter_evidence",
               j \in DOMAIN context, context[j] = "VALID"
        PROVE  j \in parents
    BY <1>6, <1>7, <1>9, <2>2
  <2>3. ASSUME NEW x \in parents, NEW j \in DOMAIN node', node'[x].kind = "observation",
               node'[j].scope = s, node'[j].kind = "organization_review", j \in DOMAIN context,
               x \in node'[j].parents, node'[j].body.decision # "ORGANIZATION_CONFIRMED"
        PROVE  Overruled(x, j)'
    BY <1>6, <1>8, <1>9, <2>3
  <2> QED BY <2>1, <2>2, <2>3 DEF BriefIsBound, ScopeNodes, Under
<1> QED BY <1>6, <1>10 DEF NodeIsFit


LEMMA BriefReviewIsFit ==
    ASSUME Grounded, NEW o \in Operators, client[o] # NoView,
           NEW brief, NEW approved, ReviewBrief(o, brief, approved)
    PROVE  StoresFit
<1>1. PICK a \in AuthorityFor(o, "review") :
        /\ brief \in Usable(client[o].scope, "brief")
        /\ approved => Approvable(brief)
        /\ Decide(o, a, "brief_review", {brief},
                  VerdictBy(a, IF approved THEN "APPROVED" ELSE "REJECTED"))
  BY DEF ReviewBrief
<1>2. /\ Adds(NextId, "brief_review", client[o].scope, {brief},
              VerdictBy(a, IF approved THEN "APPROVED" ELSE "REJECTED"))
      /\ outbox' = outbox
  BY <1>1, DecideAdds DEF Grounded
<1>3. SUFFICES ASSUME NEW k \in DOMAIN node' \ DOMAIN node PROVE NodeIsFit(k)'
  BY <1>2 DEF StoresFit
<1>4. /\ \A i \in DOMAIN node : node'[i] = node[i]
      /\ node'[k].kind = "brief_review" /\ node'[k].parents = {brief}
      /\ node'[k].body.decision = "APPROVED" => approved
  BY <1>2 DEF Adds, VerdictBy
<1>5. brief \in DOMAIN node /\ node[brief].parents \subseteq DOMAIN node
  BY <1>1, UsableIsStored DEF Grounded, LedgerInv, Derived
<1>6. node'[k].body.decision = "APPROVED" =>
        \A p \in node'[brief].parents : node'[p].kind # "counter_evidence"
  BY <1>1, <1>4, <1>5 DEF Approvable
<1> QED BY <1>4, <1>6 DEF NodeIsFit, ReviewIsFit, Under

LEMMA NewClearanceIsFit ==
    ASSUME Grounded, Forward, NEW o \in Operators, client[o] # NoView,
           NEW r, NEW b, Clear(o, r, b)
    PROVE  StoresFit
<1>0. PICK s : s = client[o].scope
  OBVIOUS
<1>1. PICK a \in AuthorityFor(o, "clearance") :
        /\ r \in Usable(s, "brief_review") /\ b \in Usable(s, "brief")
        /\ node[r].body.decision = "APPROVED" /\ b \in node[r].parents
        /\ IsLatest(r, b) /\ node[b].body.context = EvidenceContext(s)
        /\ node[r].body.policy = a.policy
        /\ Decide(o, a, "clearance", {r, b}, [authority |-> a, stamp |-> NextId])
  BY <1>0 DEF Clear, ReviewedUnder
<1>2. /\ Adds(NextId, "clearance", s, {r, b}, [authority |-> a, stamp |-> NextId])
      /\ outbox' = outbox
  BY <1>0, <1>1, DecideAdds DEF Grounded
<1>3. SUFFICES ASSUME NEW k \in DOMAIN node' \ DOMAIN node PROVE NodeIsFit(k)'
  BY <1>2 DEF StoresFit
<1>4. /\ DOMAIN node' = DOMAIN node \cup {k}
      /\ \A i \in DOMAIN node : node'[i] = node[i]
      /\ node'[k].kind = "clearance" /\ node'[k].scope = s
      /\ node'[k].parents = {r, b} /\ node'[k].body.authority = a
  BY <1>2 DEF Adds
<1>5. /\ r \in DOMAIN node /\ node[r].kind = "brief_review" /\ node[r].scope = s
      /\ b \in DOMAIN node /\ node[b].kind = "brief"
  BY <1>1, UsableIsStored DEF ScopeNodes
<1>6. PICK context : context = node[b].body.context
  OBVIOUS
<1>7. DOMAIN context = {j \in DOMAIN node : node[j].scope = s /\ node[j].kind \in ContextKinds}
      /\ \A j \in DOMAIN context : context[j] = StateOf(j, clock)
  BY <1>1, <1>6 DEF EvidenceContext
<1>8. /\ {"organization_review", "counter_evidence"} \subseteq ContextKinds
      /\ "counter_evidence" \notin EpochBoundKinds
  BY DEF ContextKinds, EpochBoundKinds
<1>9. Stands(s, r, b)'
  <2>1. ASSUME NEW j \in DOMAIN node', node'[j].scope = s, node'[j].kind = "brief_review",
               b \in node'[j].parents
        PROVE  node'[j].epoch <= node'[r].epoch
    BY <1>1, <1>4, <1>5, <2>1 DEF IsLatest, ScopeNodes
  <2>2. ASSUME NEW j \in DOMAIN node', node'[j].scope = s, node'[j].kind = "organization_review"
        PROVE  j \in DOMAIN context
    BY <1>4, <1>7, <1>8, <2>2
  <2>3. ASSUME NEW j \in DOMAIN node', node'[j].scope = s, node'[j].kind = "counter_evidence",
               j \in ValidNow'
        PROVE  j \in DOMAIN context /\ context[j] = "VALID"
    <3>1. j \in DOMAIN node /\ node[j].scope = s /\ node[j].kind = "counter_evidence"
      BY <1>4, <2>3
    <3>2. j \in ValidNow
      BY <1>8, <2>3, <3>1 DEF Forward
    <3> QED BY <1>7, <1>8, <3>1, <3>2 DEF ValidNow, Valid
  <2>4. node'[b].body.context = context
    BY <1>4, <1>5, <1>6
  <2> QED BY <2>1, <2>2, <2>3, <2>4 DEF Stands, ScopeNodes
<1>10. ClearanceRestsOn(k, r, b)'
  BY <1>1, <1>4, <1>5, <1>9 DEF ClearanceRestsOn
<1>11. r \in DOMAIN node' /\ b \in DOMAIN node'
  BY <1>4, <1>5
<1> QED BY <1>4, <1>10, <1>11 DEF NodeIsFit, ClearanceIsFit

LEMMA NewTaskIsFit ==
    ASSUME Grounded, NEW o \in Operators, client[o] # NoView, NEW cl, NEW key, TaskFrom(o, cl, key)
    PROVE  StoresFit
<1>1. PICK a \in AuthorityFor(o, "manual_task") :
        /\ cl \in Usable(client[o].scope, "clearance") /\ node[cl].body.authority = a
        /\ CreateManualTask(client[o].scope, cl, [authority |-> a, key |-> key],
                            DerivedExpiry(a, {cl}), clock, client[o].epoch)
  BY DEF TaskFrom
<1>2. PICK k, s, e, x : k = NextId /\ s = client[o].scope /\ e = epoch[s] /\ x = DerivedExpiry(a, {cl})
  OBVIOUS
<1> DEFINE c == [scope |-> s, kind |-> "manual_task", parents |-> {cl},
                 expires |-> x, body |-> [authority |-> a, key |-> key]]
<1>3. node' = Inserted(node, k, c, e) /\ DOMAIN outbox' = DOMAIN outbox \cup {k}
  BY <1>1, <1>2 DEF CreateManualTask
<1>4. c.kind = "manual_task" /\ c.parents = {cl} /\ c.body.authority = a
  OBVIOUS
<1> HIDE DEF c
<1>5. k \notin DOMAIN node /\ cl \in DOMAIN node
  BY <1>1, <1>2, FreshIds, UsableIsStored DEF Grounded
<1>6. /\ DOMAIN node' = DOMAIN node \cup {k}
      /\ \A i \in DOMAIN node : node'[i] = node[i]
      /\ node'[k].kind = "manual_task" /\ node'[k].parents = {cl}
      /\ node'[k].body.authority = a
  BY <1>3, <1>4, <1>5 DEF Inserted
<1>7. ASSUME NEW i \in DOMAIN node' \ DOMAIN node PROVE NodeIsFit(i)'
  BY <1>6, <1>7 DEF NodeIsFit
<1>8. ASSUME NEW i \in DOMAIN outbox' \ DOMAIN outbox PROVE TaskIsFit(i)'
  <2>1. i = k
    BY <1>3, <1>8
  <2> QED BY <1>1, <1>5, <1>6, <2>1 DEF TaskIsFit, Under
<1> QED BY <1>7, <1>8 DEF StoresFit

LEMMA AdmissionIsFit ==
    ASSUME NEW g, g.kind = "grant", NEW s, NEW b, NEW x, NEW t, NEW expected,
           AdmitObservation(g, [scope |-> s, kind |-> "observation", parents |-> {},
                                expires |-> x, body |-> b], t, expected)
    PROVE  StoresFit
<1> DEFINE o == [scope |-> s, kind |-> "observation", parents |-> {}, expires |-> x, body |-> b]
<1>1. CASE AdmitUnderStoredGrant(g, o, t, expected)
  <2>1. PICK c, e : node' = Inserted(node, NextId, c, e) /\ c.kind = "observation" /\ outbox' = outbox
    <3>1. PICK i \in Same(g) : AppendEvidence([o EXCEPT !.parents = {i}], t, expected)
      BY <1>1 DEF AdmitUnderStoredGrant
    <3>2. [o EXCEPT !.parents = {i}].kind = "observation"
      OBVIOUS
    <3> QED BY <3>1, <3>2 DEF AppendEvidence
  <2>2. \A i \in DOMAIN node' \ DOMAIN node : node'[i].kind = "observation"
    BY <2>1 DEF Inserted
  <2> QED BY <2>1, <2>2, OtherKindsAreFit
<1>2. CASE AdmitWithNewGrant(g, o, t, expected)
  <2> DEFINE k == NextId
             c == [scope |-> s, kind |-> "observation", parents |-> {k},
                   expires |-> x, body |-> b]
             T == Inserted(node, k, g, epoch[g.scope] + 1)
  <2>1. node' = Inserted(T, k + 1, c, epoch[g.scope] + 2) /\ outbox' = outbox
    BY <1>2, AdmittedNodes DEF AdmitWithNewGrant
  <2>2. c.kind = "observation"
    OBVIOUS
  <2> HIDE DEF c
  <2>3. \A i \in DOMAIN T \ DOMAIN node : T[i].kind = "grant"
    BY DEF Inserted
  <2> HIDE DEF T, k
  <2>4. \A i \in DOMAIN node' \ DOMAIN node : node'[i].kind \in {"grant", "observation"}
    BY <2>1, <2>2, <2>3 DEF Inserted
  <2> QED BY <2>1, <2>4, OtherKindsAreFit
<1> QED BY <1>1, <1>2 DEF AdmitObservation

LEMMA OtherDecisionsAreFit ==
    ASSUME Grounded, NEW o \in Operators, client[o] # NoView, NEW a, NEW kind, NEW ps, NEW body,
           kind \notin {"brief", "brief_review", "clearance"}, Decide(o, a, kind, ps, body)
    PROVE  StoresFit
<1>1. Adds(NextId, kind, client[o].scope, ps, body) /\ outbox' = outbox
  BY DecideAdds DEF Grounded
<1>2. \A i \in DOMAIN node' \ DOMAIN node : node'[i].kind = kind
  BY <1>1 DEF Adds
<1> QED BY <1>1, <1>2, OtherKindsAreFit

LEMMA OperationsStoreFit ==
    ASSUME Grounded, Forward, NEW o \in Operators, client[o] # NoView, Research(o) \/ Settle(o)
    PROVE  StoresFit
<1>1. ASSUME NEW key, NEW record, NEW gx, NEW ox, AdmitRecord(o, key, record, gx, ox)
      PROVE  StoresFit
  BY <1>1, AdmissionIsFit DEF AdmitRecord
<1>2. ASSUME NEW ps, NEW decision, ReviewIdentity(o, ps, decision) PROVE StoresFit
  BY <1>2, OtherDecisionsAreFit DEF ReviewIdentity
<1>3. ASSUME NEW ps, CounterEvidence(o, ps) PROVE StoresFit
  BY <1>3, OtherDecisionsAreFit DEF CounterEvidence
<1>4. ASSUME NEW task, RecordOutcome(o, task) PROVE StoresFit
  BY <1>4, OtherDecisionsAreFit DEF RecordOutcome
<1>5. ASSUME NEW i, CorrectNode(o, i) PROVE StoresFit
  BY <1>5 DEF CorrectNode, Revoke, Revoked, Recalled, StoresFit
<1>6. ASSUME SuppressScope(o) PROVE StoresFit
  BY <1>6 DEF SuppressScope, Suppress, Revoked, Recalled, StoresFit
<1>7. CASE Research(o)
  BY <1>1, <1>2, <1>3, <1>7, BriefIsFit DEF Research
<1>8. CASE Settle(o)
  BY <1>4, <1>5, <1>6, <1>8, BriefReviewIsFit, NewClearanceIsFit, NewTaskIsFit DEF Settle
<1> QED BY <1>7, <1>8

LEMMA EnvironmentStoresFit ==
    ASSUME Environment
    PROVE  StoresFit
BY DEF Environment, RevokeGrant, Revoked, Recalled, ReplaceOperatorPolicy, ChangePolicy,
       ReplaceAdmissionPolicy, Tick, ledgerVars, StoresFit

LEMMA DecisionsNext ==
    ASSUME Grounded, DecisionsInv, [WorkflowNext]_vars
    PROVE  DecisionsInv'
<1>1. LedgerInv /\ EpochInv /\ LedgerInv' /\ [Transaction]_ledgerVars
  BY WorkflowIsTransactions, WorkflowKeepsItsTypes DEF Grounded
<1>2. Forward
  BY <1>1, TransactionsGoForward
<1>3. UNCHANGED ledgerVars => StoresFit
  BY DEF ledgerVars, StoresFit
<1>4. StoresFit
  BY <1>2, <1>3, OperationsStoreFit, EnvironmentStoresFit DEF WorkflowNext, ViewWorkspace, vars
<1> QED BY <1>1, <1>2, <1>4, DecisionsStand DEF StoresFit

LEMMA WorkflowDecides == WorkflowSpec => [](Grounded /\ DecisionsInv)
<1>1. WorkflowInit => DecisionsInv
  BY DEF WorkflowInit, Init, DecisionsInv
<1>2. Grounded /\ DecisionsInv /\ [WorkflowNext]_vars => DecisionsInv'
  BY DecisionsNext
<1> QED BY <1>1, <1>2, WorkflowIsGrounded, PTL DEF WorkflowSpec

-----------------------------------------------------------------------------
\* The decisions.

\* A clearance in force is supported: it rests on the last review of its brief,
\* which approved it, on organizations whose last review confirms them, and on no
\* contradiction still valid in its scope, whatever was recorded between brief,
\* review and clearance and by whom (brief, review_brief, clearance).
THEOREM ClearancesStaySupported == WorkflowSpec => []ClearancesAreSupported
<1>1. Grounded /\ DecisionsInv => ClearancesAreSupported
  <2> SUFFICES ASSUME Grounded, DecisionsInv, NEW i \in InForce
               PROVE  /\ \A j \in ScopeNodes(node[i].scope, "counter_evidence") : ~ Valid(j, clock)
                      /\ \A r \in Under(i, "brief_review"), b \in Under(i, "brief") :
                            /\ node[r].body.decision = "APPROVED"
                            /\ \A j \in ScopeNodes(node[i].scope, "brief_review") :
                                  b \in node[j].parents => node[j].epoch <= node[r].epoch
                      /\ \A b \in Under(i, "brief") : \A x \in Under(b, "observation") :
                            \A j \in ScopeNodes(node[i].scope, "organization_review") :
                                x \in node[j].parents
                                /\ node[j].body.decision # "ORGANIZATION_CONFIRMED" =>
                                    \E k \in ScopeNodes(node[i].scope, "organization_review") :
                                        /\ x \in node[k].parents
                                        /\ node[k].body.decision = "ORGANIZATION_CONFIRMED"
                                        /\ node[k].epoch > node[j].epoch
    BY DEF ClearancesAreSupported, ContradictionsBlockClearance, ClearanceRestsOnTheLastReview,
           ClearedOrganizationsAreConfirmed
  <2>1. i \in DOMAIN node /\ node[i].kind = "clearance" /\ node[i].epoch = epoch[node[i].scope]
    BY DEF InForce, Valid, StateOf, EpochBoundKinds
  <2>2. PICK r \in DOMAIN node, b \in DOMAIN node : ClearanceRestsOn(i, r, b)
    BY <2>1 DEF DecisionsInv, NodeIsFit, ClearanceIsFit
  <2>3. Stands(node[i].scope, r, b)
    BY <2>1, <2>2 DEF ClearanceRestsOn
  <2>4. /\ node[i].parents = {r, b} /\ b \in node[r].parents
        /\ node[r].kind = "brief_review" /\ node[b].kind = "brief"
        /\ node[r].body.decision = "APPROVED"
    BY <2>2 DEF ClearanceRestsOn
  <2>5. BriefIsBound(b) /\ ReviewIsFit(r) /\ node[b].scope = node[i].scope
    BY <2>1, <2>4 DEF DecisionsInv, NodeIsFit, Grounded, LedgerInv, Derived
  <2>6. \A j \in ScopeNodes(node[i].scope, "counter_evidence") : ~ Valid(j, clock)
    BY <2>3, <2>4, <2>5 DEF Stands, BriefIsBound, ReviewIsFit, Under, ScopeNodes, ValidNow
  <2>7. Under(i, "brief_review") = {r} /\ Under(i, "brief") = {b}
    BY <2>4 DEF Under
  <2>8. \A x \in Under(b, "observation"), j \in ScopeNodes(node[i].scope, "organization_review") :
          x \in node[j].parents /\ node[j].body.decision # "ORGANIZATION_CONFIRMED"
            => Overruled(x, j)
    BY <2>3, <2>5 DEF Stands, BriefIsBound
  <2>9. \A x, j : j \in ScopeNodes(node[i].scope, "organization_review") /\ Overruled(x, j) =>
          \E k \in ScopeNodes(node[i].scope, "organization_review") :
              /\ x \in node[k].parents
              /\ node[k].body.decision = "ORGANIZATION_CONFIRMED"
              /\ node[k].epoch > node[j].epoch
    BY DEF Overruled, ScopeNodes
  <2> QED BY <2>3, <2>4, <2>6, <2>7, <2>8, <2>9 DEF Stands
<1> QED BY <1>1, WorkflowDecides, PTL

\* One policy governs a task from end to end: its review, its clearance and the
\* task were made under one policy digest, however often the policy file was
\* replaced, and put back, in between (review_brief, clearance, manual_task).
THEOREM TasksHaveOnePolicy == WorkflowSpec => []OnePolicyPerTask
<1>1. Grounded /\ DecisionsInv => OnePolicyPerTask
  <2> SUFFICES ASSUME Grounded, DecisionsInv, NEW i \in DOMAIN outbox, NEW cl \in Under(i, "clearance"),
                      NEW r \in Under(cl, "brief_review")
               PROVE  /\ node[cl].body.authority = node[i].body.authority
                      /\ node[r].body.policy = node[i].body.authority.policy
    BY DEF OnePolicyPerTask
  <2>1. node[cl].body.authority = node[i].body.authority
    BY DEF DecisionsInv, TaskIsFit
  <2>2. cl \in DOMAIN node /\ node[cl].kind = "clearance"
    BY DEF Under, Grounded, LedgerInv, Derived, TypeOK
  <2>3. PICK q \in DOMAIN node, b \in DOMAIN node : ClearanceRestsOn(cl, q, b)
    BY <2>2 DEF DecisionsInv, NodeIsFit, ClearanceIsFit
  <2>4. r = q
    BY <2>3 DEF ClearanceRestsOn, Under
  <2> QED BY <2>1, <2>3, <2>4 DEF ClearanceRestsOn
<1> QED BY <1>1, WorkflowDecides, PTL
=============================================================================
