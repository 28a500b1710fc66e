--------------------------- MODULE OperatorWorkflow ---------------------------
(***************************************************************************)
(* The operators' research workflow (app/domain/david_workflow.py behind   *)
(* app/workflow_api.py) over the evidence ledger: an observation is        *)
(* admitted, its organization reviewed, a brief written and reviewed, the  *)
(* approved brief cleared, and the clearance turned into a manual task;    *)
(* corrections, counter-evidence, suppressions, grant withdrawals and      *)
(* policy changes come in between.                                         *)
(*                                                                         *)
(* A request is two steps.  View: the operator reads the workspace; every  *)
(* request sent from that screen carries the epoch shown there             *)
(* (expected_epoch), however old the screen is by then.  Then one of the   *)
(* operations: under the scope lock it reloads the operator policy and the *)
(* clock (scoped_authority, _reauthorize: a policy other than the one the  *)
(* request began under is refused, so the authority in force at the commit *)
(* is the request's), checks the graph and appends through the ledger, all *)
(* in one transaction.                                                     *)
(*                                                                         *)
(* Abstractions.  The bodies keep what later checks read: a decision, the  *)
(* policy it was made under, the evidence context a brief was bound to,    *)
(* and created_at as a stamp that makes each decision a node of its own.   *)
(* The ids a body repeats (reviewed_brief_id, counter_evidence_ids) are    *)
(* those of the parents of that kind.  The 500-node limit of a scope is    *)
(* beyond the instances.                                                   *)
(***************************************************************************)
EXTENDS EvidenceLedger, FiniteSetsExt

CONSTANTS
    Operators,     \* usernames of the policy
    Policies,      \* digests of the operator policy file
    Permits,       \* Permits[p][o]: the actions policy p gives operator o
    PolicyExpires, \* PolicyExpires[p]: when the policy, and sessions under it, end
    Records,       \* (source_record_id, revision) pairs of the admitted source
    DecisionLife   \* the life of a derived decision: the 24 hours of _expiry

ASSUME PolicyAssumption ==
    /\ PolicyExpires \in [Policies -> Nat]
    /\ Permits \in [Policies -> [Operators -> SUBSET
            {"admit", "brief", "review", "clearance", "manual_task", "correct",
             "suppress", "outcome"}]]
    /\ DecisionLife \in Nat

VARIABLES
    client,        \* the workspace each operator last loaded
    admitting      \* the grants the data admission policy file states now

vars == <<ledgerVars, client, admitting>>

-----------------------------------------------------------------------------
\* Data.  The ledger's Authorities are the pairs a clearance names, its Stamps
\* the created_at that keeps two decisions apart, its Bodies the bodies below.

WorkflowAuthorities == [operator : Operators, policy : Policies]
WorkflowStamps == 1..MaxNodes

Verdict == [decision : {"ORGANIZATION_CONFIRMED", "REJECTED", "APPROVED", "UNRESOLVED", "OUTCOME"},
            policy : Policies, stamp : WorkflowStamps]

\* A brief's evidence_context_digest: the ids and states it was written under.
Contexts == UNION {[S -> {"VALID", "STALE", "REVOKED"}] : S \in SUBSET Ids}
BriefBody == [context : Contexts, policy : Policies, stamp : WorkflowStamps]

WorkflowBodies == Records \cup Verdict \cup BriefBody

\* The kinds the operations append.
WorkflowKinds == {"grant", "observation", "organization_review", "counter_evidence", "brief",
                  "brief_review", "clearance", "manual_task", "outcome"}

ASSUME LedgerOfTheWorkflow ==
    /\ WorkflowKinds \subseteq Kinds
    /\ Authorities = WorkflowAuthorities
    /\ WorkflowStamps \subseteq Stamps
    /\ WorkflowBodies \subseteq Bodies

\* The screen: its epoch, and the evidence it showed (no code compares the
\* latter: it is what the operator knows).
NoView == [epoch |-> -1]
View == [epoch : 0..MaxEpoch, scope : Scopes,
         seen : SUBSET (Ids \X {"VALID", "REVOKED"})]

WorkflowTypeOK ==
    /\ TypeOK
    /\ client \in [Operators -> View \cup {NoView}]
    /\ admitting \subseteq GrantKeys

GrantedBy(p) == [operator : Operators, policy : {p}]

WorkflowInit ==
    /\ Init
    /\ client = [o \in Operators |-> NoView]
    /\ admitting = GrantKeys
    /\ authorized \in {GrantedBy(p) : p \in Policies}

-----------------------------------------------------------------------------
\* What an operation checks under the scope lock.

\* The authorities under which `o` may perform `action` now (require).
AuthorityFor(o, action) ==
    {a \in authorized : /\ a.operator = o
                        /\ action \in Permits[a.policy][o]
                        /\ clock < PolicyExpires[a.policy]}

ScopeNodes(s, kind) == {i \in DOMAIN node : node[i].scope = s /\ node[i].kind = kind}

\* A node an operation may build on: valid, with valid ancestors, and with the
\* data admission policy still stating the grant of every observation among them.
Usable(s, kind) ==
    {i \in ScopeNodes(s, kind) :
        \A a \in Ancestors(i) :
            /\ Valid(a, clock)
            /\ node[a].kind = "grant" => node[a].body \in admitting}

\* Mutated form: reviews of the organization are left out of the context.
EvidenceContextLessReviews(s) ==
    [i \in {j \in DOMAIN node : /\ node[j].scope = s
                               /\ node[j].kind \in ContextKinds \ {"organization_review"}}
        |-> StateOf(i, clock)]

\* The ids and states of the evidence a review is bound to.
EvidenceContext(s) ==
    [i \in {j \in DOMAIN node : node[j].scope = s /\ node[j].kind \in ContextKinds}
        |-> StateOf(i, clock)]

\* Mutated form: any decision of the kind counts, not the latest.
IsLatestAny(i, subject) == subject \in node[i].parents

\* `i` is the latest decision of its kind on `subject`, by decision epoch.
IsLatest(i, subject) ==
    /\ subject \in node[i].parents
    /\ \A j \in ScopeNodes(node[i].scope, node[i].kind) :
        subject \in node[j].parents => node[j].epoch <= node[i].epoch

\* _expiry: no later than the parents, the policy, and a day from now.
DerivedExpiry(a, parents) ==
    Min({clock + DecisionLife, PolicyExpires[a.policy]} \cup {node[p].expires : p \in parents})

\* _append, for operator `o` acting as `a` on the screen it holds.
Decide(o, a, kind, parents, body) ==
    /\ AppendEvidence([scope |-> client[o].scope, kind |-> kind, parents |-> parents,
                       expires |-> DerivedExpiry(a, parents), body |-> body],
                      clock, client[o].epoch)
    /\ UNCHANGED <<client, admitting>>

VerdictBy(a, decision) == [decision |-> decision, policy |-> a.policy, stamp |-> NextId]

-----------------------------------------------------------------------------
\* The operations of the API.

\* workspace: the operator loads the screen of a scope.
ViewWorkspace(o, s) ==
    /\ client' = [client EXCEPT ![o] = [epoch |-> epoch[s], scope |-> s, seen |-> StoredContext(s)]]
    /\ UNCHANGED <<ledgerVars, admitting>>

\* admit: the grant is the one the admission policy file states.
AdmitRecord(o, key, record, gx, ox) ==
    LET s == client[o].scope
    IN  /\ AuthorityFor(o, "admit") # {}
        /\ key \in admitting
        /\ AdmitObservation(
              [scope |-> s, kind |-> "grant", parents |-> {}, expires |-> gx, body |-> key],
              [scope |-> s, kind |-> "observation", parents |-> {}, expires |-> ox, body |-> record],
              clock, client[o].epoch)
        /\ UNCHANGED <<client, admitting>>

ReviewIdentity(o, sources, decision) ==
    \E a \in AuthorityFor(o, "review") :
        /\ sources \subseteq Usable(client[o].scope, "observation")
        /\ Decide(o, a, "organization_review", sources, VerdictBy(a, decision))

\* counter_evidence: unresolved contradictions of some sources.
CounterEvidence(o, sources) ==
    \E a \in AuthorityFor(o, "review") :
        /\ sources \subseteq Usable(client[o].scope, "observation")
        /\ Decide(o, a, "counter_evidence", sources, VerdictBy(a, "UNRESOLVED"))

\* brief: cites its sources, the latest confirmation of their organization, and
\* every contradiction that is valid in the scope.
MakeBrief(o, sources, identity) ==
    LET s == client[o].scope
        contradictions == {i \in ScopeNodes(s, "counter_evidence") : Valid(i, clock)}
    IN  \E a \in AuthorityFor(o, "brief") :
        /\ sources \subseteq Usable(s, "observation")
        /\ identity \in Usable(s, "organization_review")
        /\ node[identity].body.decision = "ORGANIZATION_CONFIRMED"
        /\ \A x \in sources : IsLatest(identity, x)
        /\ Decide(o, a, "brief", sources \cup {identity} \cup contradictions,
                  [context |-> EvidenceContext(s), policy |-> a.policy, stamp |-> NextId])

\* Mutated form: a brief that cites contradictions may be approved.
ApprovableWithContradictions(brief) == TRUE

Approvable(brief) == \A p \in node[brief].parents : node[p].kind # "counter_evidence"

ReviewBrief(o, brief, approved) ==
    LET s == client[o].scope
    IN  \E a \in AuthorityFor(o, "review") :
        /\ brief \in Usable(s, "brief")
        /\ node[brief].body.context = EvidenceContext(s)
        /\ approved => Approvable(brief)
        /\ Decide(o, a, "brief_review", {brief},
                  VerdictBy(a, IF approved THEN "APPROVED" ELSE "REJECTED"))

\* Mutated form: the policy a review was made under is not compared.
ReviewedUnderAny(review, a) == TRUE

ReviewedUnder(review, a) == node[review].body.policy = a.policy

\* clearance: of the latest review of a brief, if it approved it.
Clear(o, review, brief) ==
    LET s == client[o].scope
    IN  \E a \in AuthorityFor(o, "clearance") :
        /\ review \in Usable(s, "brief_review")
        /\ node[review].body.decision = "APPROVED"
        /\ brief \in node[review].parents \cap Usable(s, "brief")
        /\ IsLatest(review, brief)
        /\ node[brief].body.context = EvidenceContext(s)
        /\ ReviewedUnder(review, a)
        /\ Decide(o, a, "clearance", {review, brief}, [authority |-> a, stamp |-> NextId])

\* manual_task: only the operator the clearance names, under the same policy.
TaskFrom(o, cl, key) ==
    \E a \in AuthorityFor(o, "manual_task") :
        /\ cl \in Usable(client[o].scope, "clearance")
        /\ node[cl].body.authority = a
        /\ CreateManualTask(client[o].scope, cl, [authority |-> a, key |-> key],
                            DerivedExpiry(a, {cl}), clock, client[o].epoch)
        /\ UNCHANGED <<client, admitting>>

RecordOutcome(o, task) ==
    \E a \in AuthorityFor(o, "outcome") :
        /\ task \in Usable(client[o].scope, "manual_task")
        /\ Decide(o, a, "outcome", {task}, VerdictBy(a, "OUTCOME"))

\* correct and suppress.
CorrectNode(o, i) ==
    /\ AuthorityFor(o, "correct") # {}
    /\ i \in DOMAIN node /\ node[i].scope = client[o].scope
    /\ Revoke(i, client[o].epoch)
    /\ UNCHANGED <<client, admitting>>

SuppressScope(o) ==
    /\ AuthorityFor(o, "suppress") # {}
    /\ Suppress(client[o].scope, client[o].epoch)
    /\ UNCHANGED <<client, admitting>>

-----------------------------------------------------------------------------
\* The environment: grants are withdrawn, the policy files replaced, time passes.

ReplaceOperatorPolicy(p) == ChangePolicy(GrantedBy(p)) /\ UNCHANGED <<client, admitting>>

ReplaceAdmissionPolicy(keys) ==
    /\ keys # admitting
    /\ admitting' = keys
    /\ UNCHANGED <<ledgerVars, client>>

Environment ==
    \/ \E key \in GrantKeys : RevokeGrant(key) /\ UNCHANGED <<client, admitting>>
    \/ \E p \in Policies : ReplaceOperatorPolicy(p)
    \/ \E keys \in SUBSET GrantKeys : ReplaceAdmissionPolicy(keys)
    \/ Tick /\ UNCHANGED <<client, admitting>>

Research(o) ==
    LET Shown(kind) == ScopeNodes(client[o].scope, kind)
    IN  \/ \E key \in GrantKeys, record \in Records, gx, ox \in Expiries :
              AdmitRecord(o, key, record, gx, ox)
        \/ \E sources \in SUBSET Shown("observation") \ {{}} :
              \/ \E decision \in {"ORGANIZATION_CONFIRMED", "REJECTED"} :
                    ReviewIdentity(o, sources, decision)
              \/ CounterEvidence(o, sources)
              \/ \E identity \in Shown("organization_review") : MakeBrief(o, sources, identity)

Settle(o) ==
    LET Shown(kind) == ScopeNodes(client[o].scope, kind)
    IN  \/ \E brief \in Shown("brief"), approved \in BOOLEAN : ReviewBrief(o, brief, approved)
        \/ \E review \in Shown("brief_review"), brief \in Shown("brief") : Clear(o, review, brief)
        \/ \E cl \in Shown("clearance"), key \in TaskKeys : TaskFrom(o, cl, key)
        \/ \E task \in Shown("manual_task") : RecordOutcome(o, task)
        \/ \E i \in DOMAIN node : CorrectNode(o, i)
        \/ SuppressScope(o)

\* Every operation is asked for from a screen.
WorkflowNext ==
    \/ \E o \in Operators :
        \/ \E s \in Scopes : ViewWorkspace(o, s)
        \/ client[o] # NoView /\ (Research(o) \/ Settle(o))
    \/ Environment

WorkflowSpec == WorkflowInit /\ [][WorkflowNext]_vars

-----------------------------------------------------------------------------
\* Safety of the decisions.

\* The clearances in force, and the brief and the reviews each rests on.
InForce == {i \in DOMAIN node : node[i].kind = "clearance" /\ Valid(i, clock)}
Under(i, kind) == {p \in node[i].parents : node[p].kind = kind}

\* No clearance, and so no task, is in force beside a valid contradiction in its
\* scope, whichever was recorded first and by whom (counter_evidence, brief,
\* review_brief, clearance).
ContradictionsBlockClearance ==
    \A i \in InForce : \A j \in ScopeNodes(node[i].scope, "counter_evidence") :
        ~ Valid(j, clock)

\* A clearance in force rests on the approval of its brief, and no later review
\* of that brief exists (_require_latest_decision, clearance).
ClearanceRestsOnTheLastReview ==
    \A i \in InForce : \A r \in Under(i, "brief_review"), b \in Under(i, "brief") :
        /\ node[r].body.decision = "APPROVED"
        /\ \A j \in ScopeNodes(node[i].scope, "brief_review") :
              b \in node[j].parents => node[j].epoch <= node[r].epoch

\* While a clearance is in force, the last review of the organization of each
\* observation it rests on confirms it: a rejection recorded between any two of
\* brief, review and clearance is noticed (_evidence_context).
ClearedOrganizationsAreConfirmed ==
    \A i \in InForce : \A b \in Under(i, "brief") : \A x \in Under(b, "observation") :
        \A j \in ScopeNodes(node[i].scope, "organization_review") :
            x \in node[j].parents /\ node[j].body.decision # "ORGANIZATION_CONFIRMED" =>
                \E k \in ScopeNodes(node[i].scope, "organization_review") :
                    /\ x \in node[k].parents
                    /\ node[k].body.decision = "ORGANIZATION_CONFIRMED"
                    /\ node[k].epoch > node[j].epoch

\* A clearance in force rests on the latest decisions about its brief and its
\* organizations, and on no open contradiction.
ClearancesAreSupported ==
    /\ ContradictionsBlockClearance
    /\ ClearanceRestsOnTheLastReview
    /\ ClearedOrganizationsAreConfirmed

\* One policy governs a task from end to end: the review, the clearance and the
\* task were made under the same policy digest, though the file may have been
\* replaced, and put back, in between (review_brief, clearance, manual_task).
OnePolicyPerTask ==
    \A i \in DOMAIN outbox : \A cl \in Under(i, "clearance") :
        \A r \in Under(cl, "brief_review") :
            /\ node[cl].body.authority = node[i].body.authority
            /\ node[r].body.policy = node[i].body.authority.policy

\* Every brief cites the unresolved contradictions recorded in its scope before
\* it was written, those withdrawn by a correction excepted.  This is what
\* docs/execution/OPERATOR_WORKFLOW.md:65-66 says of a brief; the code cites the
\* contradictions still valid, and _expiry ends each of them within a day.
BriefsCiteUnresolvedContradictions ==
    \A b, j \in DOMAIN node :
        /\ node[b].kind = "brief" /\ node[j].kind = "counter_evidence"
        /\ node[j].scope = node[b].scope
        /\ j < b /\ node[j].state = "VALID"
        => j \in node[b].parents

\* No operator decides on a screen that has gone out of date: the evidence
\* stored in the scope at the commit is the evidence the deciding operator's
\* screen showed.  The code compares one number (expected_epoch).
DecidedOnWhatWasSeen ==
    [][\A i \in DOMAIN node' \ DOMAIN node :
        \E o \in DOMAIN client : /\ client[o] # NoView
                                 /\ client[o].scope = node'[i].scope
                                 /\ client[o].seen = StoredContext(node'[i].scope)]_vars
=============================================================================
