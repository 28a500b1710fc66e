---------------------------- MODULE EvidenceLedger ----------------------------
(***************************************************************************)
(* The tenant's evidence ledger (app/domain/david_postgres.py, the class   *)
(* PostgresLedger, over the tables of app/evidence_schema.sql): a graph of *)
(* content-addressed evidence nodes, a decision epoch per scope, permanent *)
(* suppressions and grant withdrawals, and the transactional outbox from   *)
(* which workers dispatch manual research tasks.                           *)
(*                                                                         *)
(* One action is one committed transaction.  Every transaction holds the   *)
(* row lock of the scopes it writes (decision_scopes ... FOR UPDATE), and  *)
(* the lock of the grant where it writes a grant, from its first read to   *)
(* its commit, so transactions on a scope take effect one at a time.  What *)
(* is NOT atomic is kept apart: the time a caller read its clock (now is   *)
(* an argument and may lag by MaxLag), the epoch it expects, and the lease *)
(* a worker holds between claim_outbox, begin_outbox_dispatch and          *)
(* finalize_outbox.  A transaction that raises Hold changes nothing and is *)
(* therefore no step.                                                      *)
(*                                                                         *)
(* Abstractions.  A node's id is the SHA-256 of its envelope; here ids are *)
(* numbers given out in the order of insertion, and a retry is recognised  *)
(* by equal content.  The rows of manual_tasks and the other projections   *)
(* are written in the transaction that writes the node and only ever       *)
(* change to REVOKED with it, so the node stands for them.  Of the outbox  *)
(* only the MANUAL_TASK_READY rows are kept: no code reads the others.     *)
(* Storage integrity (the digests agreeing with the bytes) is assumed.     *)
(***************************************************************************)
EXTENDS Integers, FiniteSets

CONSTANTS
    Scopes,        \* decision scopes of one tenant
    Kinds,         \* the kinds of evidence the instance uses
    Cites,         \* Cites[k]: the kinds of evidence a node of kind k may cite
    Bodies,        \* opaque bodies of evidence
    GrantKeys,     \* (source_id, policy_revision) pairs: the body of a grant
    Authorities,   \* (operator, operator_policy_digest) pairs, as a clearance names
    Stamps,        \* created_at values that tell two clearances apart
    TaskKeys,      \* idempotency keys of manual tasks
    Workers,       \* processes that claim and dispatch outbox items
    LeaseTimes,    \* the lease lengths a worker may ask for
    Expiries,      \* the expiry times a caller asks for
    AnyEpoch,      \* expected_epoch=None
    MaxNodes, MaxEpoch, MaxTime, MaxToken,   \* bounds of the instance
    MaxLag         \* how far a caller's reading of the clock may be behind

ASSUME BoundsAssumption ==
    /\ MaxNodes \in Nat /\ MaxEpoch \in Nat /\ MaxTime \in Nat
    /\ MaxToken \in Nat /\ MaxLag \in Nat
    /\ LeaseTimes \subseteq Nat \ {0} /\ Expiries \subseteq Nat

ASSUME CitesAssumption == Cites \in [Kinds -> SUBSET Kinds]

\* None is no epoch.
ASSUME AnyEpochAssumption == AnyEpoch \notin Nat

VARIABLES
    clock,        \* wall time
    epoch,        \* decision_scopes.decision_epoch
    suppressed,   \* decision_scopes.suppressed: the set of suppressed scopes
    withdrawn,    \* source_grant_authorities.revoked: the grants withdrawn for good
    node,         \* evidence_nodes and evidence_edges, by id
    outbox,       \* the MANUAL_TASK_READY rows, by the id of their task
    held,         \* what each worker remembers of its last claim
    authorized    \* the authorities the operator policy grants now

ledgerVars == <<clock, epoch, suppressed, withdrawn, node, outbox, held, authorized>>

-----------------------------------------------------------------------------
\* Data.

Ids == 1..MaxNodes
Times == 0..MaxTime

\* Mutated form: an observation is not counted as a material change.
MaterialKindsLessObservation ==
    {"grant", "source", "identity", "permission", "suppression",
     "organization_review", "brief_review", "counter_evidence"}

\* The kinds whose insertion advances the decision epoch of their scope.
MaterialKinds == {"grant", "source", "observation", "identity", "permission",
                  "suppression", "organization_review", "brief_review",
                  "counter_evidence"}

\* The kinds that are current only in the epoch they were decided in.
EpochBoundKinds == {"clearance", "crm_task", "manual_task"}

ClearanceBody == [authority : Authorities, stamp : Stamps]
TaskBody == [authority : Authorities, key : TaskKeys]
Body == Bodies \cup GrantKeys \cup ClearanceBody \cup TaskBody

Content == [scope : Scopes, kind : Kinds, parents : SUBSET Ids,
            expires : Nat, body : Body]

\* A stored node.  `lineage` is what the recursive query over evidence_edges
\* returns for it: edges are only written with their child, so the answer is
\* fixed when the node is inserted (LineageIsTheWalk).
Node == [scope : Scopes, kind : Kinds, parents : SUBSET Ids, expires : Nat,
         body : Body, state : {"VALID", "REVOKED"}, epoch : 0..MaxEpoch,
         lineage : SUBSET Ids]

\* The values the schema's CHECK constraint admits.
OutboxStatus == {"PENDING", "LEASED", "DISPATCHING", "PUBLISHED",
                 "DELIVERY_UNKNOWN", "CANCELLED"}

OutboxRow == [status : OutboxStatus, token : 0..MaxToken, until : Nat]

Held == [item : Ids \cup {0}, token : 0..MaxToken,
         phase : {"idle", "leased", "sending"}]
Idle == [item |-> 0, token |-> 0, phase |-> "idle"]

TypeOK ==
    /\ clock \in Times
    /\ epoch \in [Scopes -> 0..MaxEpoch]
    /\ suppressed \subseteq Scopes
    /\ withdrawn \subseteq GrantKeys
    /\ DOMAIN node \subseteq Ids
    /\ node \in [DOMAIN node -> Node]
    /\ DOMAIN outbox \subseteq DOMAIN node
    /\ outbox \in [DOMAIN outbox -> OutboxRow]
    /\ held \in [Workers -> Held]
    /\ authorized \subseteq Authorities

Init ==
    /\ clock = 0
    /\ epoch = [s \in Scopes |-> 0]
    /\ suppressed = {}
    /\ withdrawn = {}
    /\ node = [i \in {} |-> {}]
    /\ outbox = [i \in {} |-> {}]
    /\ held = [w \in Workers |-> Idle]
    /\ authorized \in SUBSET Authorities

-----------------------------------------------------------------------------
\* The graph.

\* Every node from which `i` derives, itself included.
Ancestors(i) == node[i].lineage

\* Mutated form: one step along the edges instead of the recursive query.
DescendantsOneStep(i) == {j \in DOMAIN node : i \in node[j].parents \cup {j}}

\* Every node that derives from `i`, itself included.
Descendants(i) == {j \in DOMAIN node : i \in node[j].lineage}

\* Mutated form: the epoch a decision is bound to is not compared.
StateOfAnyEpoch(i, t) ==
    IF i \notin DOMAIN node THEN "MISSING"
    ELSE IF \E a \in Ancestors(i) : node[a].state # "VALID" THEN "REVOKED"
    ELSE IF \E a \in Ancestors(i) : node[a].expires <= t THEN "STALE"
    ELSE IF node[i].scope \in suppressed THEN "REVOKED" ELSE "VALID"

\* The state of a node as read at time t, in the order the code decides it.
StateOf(i, t) ==
    IF i \notin DOMAIN node THEN "MISSING"
    ELSE IF \E a \in Ancestors(i) : node[a].state # "VALID" THEN "REVOKED"
    ELSE IF \E a \in Ancestors(i) : node[a].expires <= t THEN "STALE"
    ELSE IF node[i].scope \in suppressed THEN "REVOKED"
    ELSE IF /\ node[i].kind \in EpochBoundKinds
            /\ node[i].epoch # epoch[node[i].scope] THEN "STALE"
    ELSE "VALID"

Valid(i, t) == StateOf(i, t) = "VALID"

\* The nodes that already hold this content: at most one, as the id is its digest.
Same(c) == {i \in DOMAIN node :
              /\ node[i].scope = c.scope /\ node[i].kind = c.kind
              /\ node[i].parents = c.parents /\ node[i].expires = c.expires
              /\ node[i].body = c.body}

-----------------------------------------------------------------------------
\* What a transaction checks before it inserts.

\* Mutated form: the epoch the caller expects is not compared.
EpochHoldsUnread(s, expected) == TRUE

EpochHolds(s, expected) == expected \in {AnyEpoch, epoch[s]}

\* Mutated form: a suppressed scope is not refused.
ScopeOpenAlways(s) == TRUE

ScopeOpen(s) == s \notin suppressed

\* Mutated forms: the scope, or the expiry, of a parent is not compared.
SupportedAcrossScopes(c, t) ==
    \A p \in c.parents : Valid(p, t) /\ c.expires <= node[p].expires
SupportedAnyExpiry(c, t) ==
    \A p \in c.parents : Valid(p, t) /\ node[p].scope = c.scope

\* Every parent is in the child's scope, valid now, and outlives the child.
Supported(c, t) ==
    \A p \in c.parents :
        /\ Valid(p, t)
        /\ node[p].scope = c.scope
        /\ c.expires <= node[p].expires

\* The projection tables' own keys: one grant row per grant and scope, one
\* observation row per source record revision and scope, whatever their state.
ProjectionKeyFree(c) ==
    c.kind \in {"grant", "observation"} =>
        ~ \E i \in DOMAIN node :
            node[i].kind = c.kind /\ node[i].scope = c.scope /\ node[i].body = c.body

\* Mutated form: the tombstone of the grant is not read.
GrantStandsUnread(c) == TRUE

\* The locked grant must not be withdrawn; other kinds take no grant lock.
GrantStands(c) == c.kind = "grant" => c.body \notin withdrawn

\* The clock readings with which a caller can enter a transaction now.
Readings == {t \in Times : t <= clock /\ clock <= t + MaxLag}

-----------------------------------------------------------------------------
\* What a transaction writes.

NextId == Cardinality(DOMAIN node) + 1

\* Mutated form: the epoch advances with the first evidence of a scope only.
EpochAfterFirst(c, e) == IF c.kind \in MaterialKinds /\ e = 0 THEN 1 ELSE e

EpochAfter(c, e) == IF c.kind \in MaterialKinds THEN e + 1 ELSE e

\* Mutated form: the lineage stops at the parents.
InsertedUnderParents(table, i, c, e) ==
    [j \in DOMAIN table \cup {i} |->
        IF j # i THEN table[j]
        ELSE [scope |-> c.scope, kind |-> c.kind, parents |-> c.parents,
              expires |-> c.expires, body |-> c.body, state |-> "VALID", epoch |-> e,
              lineage |-> {i} \cup c.parents]]

\* The node table with content `c` inserted under id `i`, bound to epoch `e`.
Inserted(table, i, c, e) ==
    [j \in DOMAIN table \cup {i} |->
        IF j # i THEN table[j]
        ELSE [scope |-> c.scope, kind |-> c.kind, parents |-> c.parents,
              expires |-> c.expires, body |-> c.body, state |-> "VALID", epoch |-> e,
              lineage |-> {i} \cup UNION {table[p].lineage : p \in c.parents}]]

\* Mutated form: every state is recomputed from the revoked set.
RevokedAfresh(R) ==
    [j \in DOMAIN node |->
        [node[j] EXCEPT !.state = IF j \in R THEN "REVOKED" ELSE "VALID"]]

\* The node table with the members of R revoked; the others keep their state.
Revoked(R) ==
    [j \in DOMAIN node |-> IF j \in R THEN [node[j] EXCEPT !.state = "REVOKED"]
                                      ELSE node[j]]

\* Mutated form: a leased row is left to its worker.
RecalledUnlessLeased(R) ==
    [i \in DOMAIN outbox |->
        IF i \in R /\ outbox[i].status = "DISPATCHING"
        THEN [outbox[i] EXCEPT !.status = "DELIVERY_UNKNOWN"]
        ELSE IF i \in R /\ outbox[i].status = "PENDING"
        THEN [outbox[i] EXCEPT !.status = "CANCELLED"]
        ELSE outbox[i]]

\* The outbox after the tasks in R are revoked: what was not sent is cancelled,
\* what may have been sent is left as delivery unknown.
Recalled(R) ==
    [i \in DOMAIN outbox |->
        IF i \notin R THEN outbox[i]
        ELSE IF outbox[i].status = "DISPATCHING"
             THEN [outbox[i] EXCEPT !.status = "DELIVERY_UNKNOWN"]
        ELSE IF outbox[i].status \in {"PENDING", "LEASED"}
             THEN [outbox[i] EXCEPT !.status = "CANCELLED"]
        ELSE outbox[i]]

\* The stored-valid nodes that revoking the members of R reaches.
Reached(R) == {j \in UNION {Descendants(i) : i \in R} : node[j].state = "VALID"}

-----------------------------------------------------------------------------
\* Transactions on evidence.

\* append: insert new content.  A retry of content that is stored returns its
\* id, or Hold when it is no longer valid, and changes nothing.
AppendEvidence(c, t, expected) ==
    /\ c.expires > t
    /\ GrantStands(c)
    /\ EpochHolds(c.scope, expected)
    /\ ScopeOpen(c.scope)
    /\ Same(c) = {}
    /\ Supported(c, t)
    /\ ProjectionKeyFree(c)
    /\ NextId <= MaxNodes
    /\ EpochAfter(c, epoch[c.scope]) <= MaxEpoch
    /\ epoch' = [epoch EXCEPT ![c.scope] = EpochAfter(c, @)]
    /\ node' = Inserted(node, NextId, c, EpochAfter(c, epoch[c.scope]))
    /\ UNCHANGED <<clock, suppressed, withdrawn, outbox, held, authorized>>

\* admit_observation when the grant is already in the scope: only the observation
\* is inserted, derived from the stored grant.
AdmitUnderStoredGrant(g, o, t, expected) ==
    \E i \in Same(g) :
        /\ GrantStands(g)
        /\ Valid(i, t)
        /\ AppendEvidence([o EXCEPT !.parents = {i}], t, expected)

\* admit_observation with a grant new to the scope: grant and observation are
\* inserted in one transaction, each advancing the epoch.
AdmitWithNewGrant(g, o, t, expected) ==
    LET e == epoch[g.scope]
        i == NextId
    IN  /\ GrantStands(g)
        /\ EpochHolds(g.scope, expected)
        /\ ScopeOpen(g.scope)
        /\ g.expires > t /\ o.expires > t /\ o.expires <= g.expires
        /\ Same(g) = {}
        /\ ProjectionKeyFree(g) /\ ProjectionKeyFree(o)
        /\ i + 1 <= MaxNodes
        /\ e + 2 <= MaxEpoch
        /\ epoch' = [epoch EXCEPT ![g.scope] = @ + 2]
        /\ node' = Inserted(Inserted(node, i, g, e + 1), i + 1,
                            [o EXCEPT !.parents = {i}], e + 2)
        /\ UNCHANGED <<clock, suppressed, withdrawn, outbox, held, authorized>>

AdmitObservation(g, o, t, expected) ==
    \/ AdmitUnderStoredGrant(g, o, t, expected)
    \/ AdmitWithNewGrant(g, o, t, expected)

\* revoke, correct: the epoch advances even when nothing valid is left to revoke.
Revoke(i, expected) ==
    /\ i \in DOMAIN node
    /\ EpochHolds(node[i].scope, expected)
    /\ epoch[node[i].scope] < MaxEpoch
    /\ epoch' = [epoch EXCEPT ![node[i].scope] = @ + 1]
    /\ node' = Revoked(Reached({i}))
    /\ outbox' = Recalled(Reached({i}))
    /\ UNCHANGED <<clock, suppressed, withdrawn, held, authorized>>

GrantNodes(key) == {i \in DOMAIN node : node[i].kind = "grant" /\ node[i].body = key}

\* revoke_grant: the tombstone, then every node of that grant in every scope.
RevokeGrant(key) ==
    LET G == GrantNodes(key)
        inScope(s) == Cardinality({i \in G : node[i].scope = s})
    IN  /\ \A s \in Scopes : epoch[s] + inScope(s) <= MaxEpoch
        /\ withdrawn' = withdrawn \cup {key}
        /\ epoch' = [s \in Scopes |-> epoch[s] + inScope(s)]
        /\ node' = Revoked(Reached(G))
        /\ outbox' = Recalled(Reached(G))
        /\ UNCHANGED <<clock, suppressed, held, authorized>>

\* suppress: final; a second call returns 0 and changes nothing.
Suppress(s, expected) ==
    LET inScope == {i \in DOMAIN node : node[i].scope = s /\ node[i].state = "VALID"}
    IN  /\ EpochHolds(s, expected)
        /\ s \notin suppressed
        /\ epoch[s] < MaxEpoch
        /\ suppressed' = suppressed \cup {s}
        /\ epoch' = [epoch EXCEPT ![s] = @ + 1]
        /\ node' = Revoked(inScope)
        /\ outbox' = Recalled(inScope)
        /\ UNCHANGED <<clock, withdrawn, held, authorized>>

-----------------------------------------------------------------------------
\* Manual tasks and their delivery.

\* Mutated form: the key is looked up among the tasks still valid.
TasksUnderIfValid(s, key) ==
    {i \in DOMAIN outbox : /\ node[i].scope = s /\ node[i].body.key = key
                           /\ node[i].state = "VALID"}

\* The tasks of this scope made under this idempotency key.
TasksUnder(s, key) ==
    {i \in DOMAIN outbox : node[i].scope = s /\ node[i].body.key = key}

\* The clearance is valid and names the operator and the policy of the task.
ClearanceCovers(cl, s, authority, t) ==
    /\ cl \in DOMAIN node
    /\ node[cl].kind = "clearance" /\ node[cl].scope = s
    /\ Valid(cl, t)
    /\ node[cl].body.authority = authority

\* create_manual_task: node and outbox row in one transaction.  A call whose key
\* is taken returns the stored task, or Hold, and changes nothing.
CreateManualTask(s, cl, body, expires, t, expected) ==
    LET c == [scope |-> s, kind |-> "manual_task", parents |-> {cl},
              expires |-> expires, body |-> body]
    IN  /\ EpochHolds(s, expected)
        /\ ScopeOpen(s)
        /\ TasksUnder(s, body.key) = {}
        /\ ClearanceCovers(cl, s, body.authority, t)
        /\ expires > t
        /\ Supported(c, t)
        /\ NextId <= MaxNodes
        /\ node' = Inserted(node, NextId, c, epoch[s])
        /\ outbox' = [i \in DOMAIN outbox \cup {NextId} |->
                         IF i = NextId
                         THEN [status |-> "PENDING", token |-> 0, until |-> 0]
                         ELSE outbox[i]]
        /\ UNCHANGED <<clock, epoch, suppressed, withdrawn, held, authorized>>

\* The rows claim_outbox reads: waiting, or under a lease that has run out.
Claimable(t) ==
    {i \in DOMAIN outbox :
        \/ outbox[i].status = "PENDING"
        \/ outbox[i].status \in {"LEASED", "DISPATCHING"} /\ outbox[i].until <= t}

\* Mutated form: an expired attempt is leased again.
LeasableAgain(t) == {i \in Claimable(t) : Valid(i, t)}

\* Of those, the rows it leases; the others it closes as it passes them.
Leasable(t) == {i \in Claimable(t) : outbox[i].status # "DISPATCHING" /\ Valid(i, t)}

\* Mutated form: a status the table does not admit.
ClosedAsExpired(row) == [row EXCEPT !.status = "EXPIRED"]

Closed(row) == [row EXCEPT !.status =
                   IF @ = "DISPATCHING" THEN "DELIVERY_UNKNOWN" ELSE "CANCELLED"]

\* Mutated form: the token is not advanced when a lapsed lease is taken over.
NextTokenKept(row) == IF row.token = 0 THEN 1 ELSE row.token

NextToken(row) == row.token + 1

\* claim_outbox: the rows are visited in order until one can be leased.  `passed`
\* are the rows closed before it; the order of rows of equal age is open.
ClaimOutbox(w, t, lease) ==
  /\ held[w] = Idle
  /\ \/ \E i \in Leasable(t), passed \in SUBSET (Claimable(t) \ Leasable(t)) :
          /\ NextToken(outbox[i]) <= MaxToken
          /\ outbox' = [j \in DOMAIN outbox |->
                IF j = i THEN [status |-> "LEASED", token |-> NextToken(outbox[i]),
                               until |-> t + lease]
                ELSE IF j \in passed THEN Closed(outbox[j]) ELSE outbox[j]]
          /\ held' = [held EXCEPT ![w] = [item |-> i, token |-> NextToken(outbox[i]),
                                          phase |-> "leased"]]
     \/ /\ Leasable(t) = {}
        /\ Claimable(t) # {}
        /\ outbox' = [j \in DOMAIN outbox |->
              IF j \in Claimable(t) THEN Closed(outbox[j]) ELSE outbox[j]]
        /\ UNCHANGED held
  /\ UNCHANGED <<clock, epoch, suppressed, withdrawn, node, authorized>>

\* The fencing check: the caller's token is the row's, and its lease still runs.
LeaseStands(w, status, t) ==
    LET i == held[w].item
    IN  /\ i \in DOMAIN outbox
        /\ outbox[i].token = held[w].token
        /\ outbox[i].status = status
        /\ outbox[i].until > t

\* begin_outbox_dispatch: after this commit the worker performs its external I/O.
BeginDispatch(w, t) ==
    LET i == held[w].item
    IN  /\ held[w].phase = "leased"
        /\ LeaseStands(w, "LEASED", t)
        /\ Valid(i, t)
        /\ node[i].body.authority \in authorized
        /\ outbox' = [outbox EXCEPT ![i].status = "DISPATCHING"]
        /\ held' = [held EXCEPT ![w].phase = "sending"]
        /\ UNCHANGED <<clock, epoch, suppressed, withdrawn, node, authorized>>

\* finalize_outbox: a task that is no longer valid is never recorded as published.
FinalizeDispatch(w, target, t) ==
    LET i == held[w].item
    IN  /\ held[w].phase = "sending"
        /\ target \in {"PUBLISHED", "DELIVERY_UNKNOWN"}
        /\ LeaseStands(w, "DISPATCHING", t)
        /\ outbox' = [outbox EXCEPT ![i].status =
                         IF Valid(i, t) THEN target ELSE "DELIVERY_UNKNOWN"]
        /\ held' = [held EXCEPT ![w] = Idle]
        /\ UNCHANGED <<clock, epoch, suppressed, withdrawn, node, authorized>>

\* A worker stops, or drops a lease a call has refused; the row is left as it is.
WorkerStops(w) ==
    /\ held[w] # Idle
    /\ held' = [held EXCEPT ![w] = Idle]
    /\ UNCHANGED <<clock, epoch, suppressed, withdrawn, node, outbox, authorized>>

-----------------------------------------------------------------------------
\* The environment.

Tick ==
    /\ clock < MaxTime
    /\ clock' = clock + 1
    /\ UNCHANGED <<epoch, suppressed, withdrawn, node, outbox, held, authorized>>

\* The policy file is replaced: authorities come and go.
ChangePolicy(granted) ==
    /\ granted # authorized
    /\ authorized' = granted
    /\ UNCHANGED <<clock, epoch, suppressed, withdrawn, node, outbox, held>>

-----------------------------------------------------------------------------
\* The contents an append may be called with: manual tasks come only from
\* create_manual_task, and a kind cites what Cites says it derives from.
BodyOf(k) == IF k = "grant" THEN GrantKeys
             ELSE IF k = "clearance" THEN ClearanceBody ELSE Bodies

Citable(k) == {i \in DOMAIN node : node[i].kind \in Cites[k]}

AppendAny ==
    \E k \in Kinds \ {"manual_task"}, s \in Scopes, x \in Expiries, t \in Readings :
        \E ps \in SUBSET Citable(k), b \in BodyOf(k) :
            AppendEvidence([scope |-> s, kind |-> k, parents |-> ps,
                            expires |-> x, body |-> b], t, AnyEpoch)

Admit ==
    /\ {"grant", "observation"} \subseteq Kinds
    /\ \E s \in Scopes, key \in GrantKeys, b \in Bodies, gx, ox \in Expiries, t \in Readings :
        AdmitObservation(
            [scope |-> s, kind |-> "grant", parents |-> {}, expires |-> gx, body |-> key],
            [scope |-> s, kind |-> "observation", parents |-> {}, expires |-> ox, body |-> b],
            t, AnyEpoch)

MakeTask ==
    /\ "manual_task" \in Kinds
    /\ \E s \in Scopes, cl \in DOMAIN node, b \in TaskBody, x \in Expiries, t \in Readings :
        CreateManualTask(s, cl, b, x, t, AnyEpoch)

Work ==
    \E w \in Workers, t \in Readings :
        \/ \E lease \in LeaseTimes : ClaimOutbox(w, t, lease)
        \/ BeginDispatch(w, t)
        \/ \E target \in {"PUBLISHED", "DELIVERY_UNKNOWN"} : FinalizeDispatch(w, target, t)
        \/ WorkerStops(w)

Next ==
    \/ AppendAny
    \/ Admit
    \/ \E i \in DOMAIN node : Revoke(i, AnyEpoch)
    \/ \E key \in GrantKeys : RevokeGrant(key)
    \/ \E s \in Scopes : Suppress(s, AnyEpoch)
    \/ MakeTask
    \/ Work
    \/ Tick
    \/ \E granted \in SUBSET Authorities : ChangePolicy(granted)

Spec == Init /\ [][Next]_ledgerVars

-----------------------------------------------------------------------------
\* Safety of the lineage.

\* The lineage kept with a node is what the code's recursive query finds: the
\* least set that holds the node and the parents of its members.
LineageIsTheWalk ==
    \A i \in DOMAIN node :
        LET Closures == {S \in SUBSET DOMAIN node :
                           i \in S /\ \A k \in S : node[k].parents \subseteq S}
        IN  node[i].lineage = {j \in DOMAIN node : \A S \in Closures : j \in S}

\* A correction reaches everything derived from the corrected evidence: no node
\* is stored valid while one of its parents is revoked, in whatever order
\* derivations, corrections and suppressions were committed (revoke, append).
RevocationReachesDescendants ==
    \A i \in DOMAIN node : node[i].state = "VALID" =>
        \A p \in node[i].parents : p \in DOMAIN node /\ node[p].state = "VALID"

\* Evidence never outlives what it was derived from, along any chain of
\* derivations made at different times (_append_locked).
NoChildOutlivesItsEvidence ==
    \A i \in DOMAIN node : \A a \in Ancestors(i) : node[i].expires <= node[a].expires

\* Evidence never leaves the scope of what it was derived from: the one scope
\* lock a correction takes covers every node it has to revoke (_append_locked,
\* revoke).
LineageStaysInScope ==
    \A i \in DOMAIN node : \A a \in Ancestors(i) : node[a].scope = node[i].scope

\* A withdrawn grant supports no valid evidence in any scope, the scopes that
\* had never seen the grant when it was withdrawn included (revoke_grant).
WithdrawnGrantsSupportNothing ==
    \A i \in DOMAIN node : node[i].state = "VALID" =>
        \A a \in Ancestors(i) : node[a].kind = "grant" => node[a].body \notin withdrawn

\* A suppressed scope keeps no valid evidence: nothing is admitted to it after
\* the suppression, by any path (suppress, append, create_manual_task).
SuppressedScopesHoldNothing ==
    \A i \in DOMAIN node : node[i].scope \in suppressed => node[i].state = "REVOKED"

\* Material nodes of a scope are bound to different epochs: the latest of two
\* reviews, which the workflow finds by decision_epoch, is never a tie.
MaterialEpochsAreDistinct ==
    \A i, j \in DOMAIN node :
        /\ i # j
        /\ node[i].scope = node[j].scope
        /\ node[i].kind \in MaterialKinds /\ node[j].kind \in MaterialKinds
        => node[i].epoch # node[j].epoch

\* The kinds whose ids and states the workflow digests into a brief's evidence
\* context (david_workflow.py, _evidence_context).
ContextKinds == {"source", "observation", "grant", "identity",
                 "organization_review", "counter_evidence", "permission"}

StoredContext(s) ==
    {<<i, node[i].state>> : i \in {j \in DOMAIN node :
        node[j].scope = s /\ node[j].kind \in ContextKinds}}

\* Whatever a reviewed brief was bound to cannot change under an unchanged
\* epoch: a request that passes the epoch comparison sees the stored evidence
\* its caller saw (_lock_scope, _append_locked, revoke, suppress).
EvidenceChangesAdvanceTheEpoch ==
    [][\A s \in Scopes : StoredContext(s)' # StoredContext(s) => epoch'[s] > epoch[s]]_ledgerVars

\* Revocation, suppression and withdrawal are final, epochs never run back and
\* fencing tokens are never reissued (source_grant_authorities, decision_scopes,
\* "idempotent retry cannot revive invalid evidence").
NothingIsRevived ==
    [][/\ withdrawn \subseteq withdrawn' /\ suppressed \subseteq suppressed'
       /\ \A s \in Scopes : epoch'[s] >= epoch[s]
       /\ \A i \in DOMAIN node :
            /\ i \in DOMAIN node'
            /\ node'[i] \in {node[i], [node[i] EXCEPT !.state = "REVOKED"]}
       /\ \A i \in DOMAIN outbox : i \in DOMAIN outbox' /\ outbox'[i].token >= outbox[i].token
      ]_ledgerVars

\* Nothing valid rests on what was corrected, withdrawn, suppressed or expired,
\* or on evidence of another scope.
EvidenceStands ==
    /\ RevocationReachesDescendants
    /\ NoChildOutlivesItsEvidence
    /\ WithdrawnGrantsSupportNothing
    /\ SuppressedScopesHoldNothing
    /\ LineageStaysInScope

\* The ledger moves one way: nothing revoked comes back, what a decision rests on
\* changes only with the scope's epoch, and no two material nodes have one epoch.
LedgerMovesForward ==
    NothingIsRevived /\ EvidenceChangesAdvanceTheEpoch /\ []MaterialEpochsAreDistinct

-----------------------------------------------------------------------------
\* Safety of the delivery.

\* No task of revoked evidence is still on its way: a correction or suppression
\* takes it out of the workers' reach in the same transaction (_revoke_projections).
RevokedTasksAreRecalled ==
    \A i \in DOMAIN outbox : node[i].state = "REVOKED" =>
        outbox[i].status \in {"PUBLISHED", "DELIVERY_UNKNOWN", "CANCELLED"}

\* An idempotency key names at most one task of a scope, whatever is retried,
\* and every stored task has its outbox row (create_manual_task).
OneTaskPerKey ==
    /\ DOMAIN outbox = {i \in DOMAIN node : node[i].kind = "manual_task"}
    /\ \A i, j \in DOMAIN outbox :
        node[i].scope = node[j].scope /\ node[i].body.key = node[j].body.key => i = j

\* A key has one task, and a task whose evidence is revoked is out of reach.
TasksAreSound == OneTaskPerKey /\ RevokedTasksAreRecalled

\* A worker that may be performing external I/O holds the last token issued for
\* the item, and no other worker holds it: neither a worker that was suspended
\* nor the one that replaced it can dispatch beside it (_transition_outbox).
SenderHoldsTheLastToken ==
    \A w \in Workers : held[w].phase = "sending" =>
        /\ held[w].item \in DOMAIN outbox
        /\ held[w].token = outbox[held[w].item].token
        /\ outbox[held[w].item].status \notin {"PENDING", "LEASED"}
        /\ \A v \in Workers \ {w} : held[v].item = held[w].item =>
              held[v].token < held[w].token

\* External I/O starts only for a task all of whose evidence is valid and was
\* not expired at the worker's reading of the clock, whose clearance belongs to
\* the scope's present epoch, and whose operator is still authorized.  The code
\* compares the epoch of the task alone (begin_outbox_dispatch).
DispatchRestsOnTheCurrentDecision ==
    [][\A i \in DOMAIN outbox :
        outbox[i].status # "DISPATCHING" /\ outbox'[i].status = "DISPATCHING" =>
            /\ node[i].scope \notin suppressed
            /\ node[i].body.authority \in authorized
            /\ \A a \in Ancestors(i) :
                /\ node[a].state = "VALID"
                /\ clock < node[a].expires + MaxLag
                /\ node[a].kind \in EpochBoundKinds => node[a].epoch = epoch[node[i].scope]
      ]_ledgerVars

\* The abstract promise of the outbox (module AtMostOnceDelivery): an item is
\* sent at most once, and an interrupted attempt is settled as unknown.
deliveryOf == [i \in Ids |->
    IF i \notin DOMAIN outbox THEN "absent"
    ELSE IF outbox[i].status \in {"PENDING", "LEASED"} THEN "waiting"
    ELSE outbox[i].status]

Promise == INSTANCE AtMostOnceDelivery WITH Items <- Ids, delivery <- deliveryOf

\* Every step of the ledger is a step of that promise: no crash, expiry,
\* correction or claim returns an attempted item to the queue.
DeliveryIsAtMostOnce == Promise!Spec
=====================
