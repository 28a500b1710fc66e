----------------------------- MODULE LedgerLocks -----------------------------
(***************************************************************************)
(* The row locks under the evidence ledger's transactions                  *)
(* (src/app/domain/david_postgres.py).  EvidenceLedger takes a transaction *)
(* for one step; this module shows the locks that make it so: one per      *)
(* grant (source_grant_authorities) and one per scope (decision_scopes),   *)
(* taken one at a time, kept until the transaction ends, and waited for.   *)
(*                                                                         *)
(* An admission and a withdrawal lock the grant, then scopes; every other  *)
(* operation locks one scope, except a claim, which goes on to the next    *)
(* scope while it finds nothing to lease.  A withdrawal orders the scopes  *)
(* as Python orders strings, a claim as the database's collation does.     *)
(***************************************************************************)
EXTENDS Naturals, Sequences, FiniteSets, SequencesExt

CONSTANTS
    Txns,       \* database connections, each in one transaction at a time
    Grants, Scopes,
    CodeOrder,  \* the place of a scope in Python's order of strings
    Collations  \* its places in the orders a database may have been created with

Free == "free"
NoGrant == "none"

LocksAssumption ==
    /\ Free \notin Txns /\ NoGrant \notin Grants \cup Scopes
    /\ Grants \cap Scopes = {} /\ IsFiniteSet(Scopes)
    /\ {CodeOrder} \cup Collations \subseteq [Scopes -> Nat]
    /\ \A order \in {CodeOrder} \cup Collations :
         \A s, t \in Scopes : s # t => order[s] # order[t]

Locks == Grants \cup Scopes

VARIABLES
    collation, \* the database's order of strings, which is its own for ever
    holder,    \* the transaction each row is locked by
    tx,        \* what each transaction is, the locks it still takes, its writes
    item,      \* the outbox row of each scope's task
    granted,   \* the scopes with evidence under each grant
    withdrawn, \* the revoked grants
    recalled   \* for each grant, the scopes its withdrawal reached

vars == <<collation, holder, tx, item, granted, withdrawn, recalled>>

\* ready: a pending task or a lapsed lease; spent: an interrupted dispatch,
\* or a task whose evidence no longer stands; both are claim candidates.
\* quiet: no task, one under lease, or one settled.
ItemStates == {"quiet", "ready", "spent"}
TxKinds == {"idle", "single", "admit", "withdraw", "claim"}

Idle == [kind |-> "idle", grant |-> NoGrant, todo |-> <<>>, writes |-> {}]

Init ==
    /\ collation \in Collations
    /\ holder = [l \in Locks |-> Free]
    /\ tx = [t \in Txns |-> Idle]
    /\ item \in [Scopes -> ItemStates]
    /\ granted = [g \in Grants |-> {}] /\ withdrawn = {}
    /\ recalled = [g \in Grants |-> {}]

Ordered(S, order) ==
    CHOOSE q \in [1..Cardinality(S) -> S] :
        \A i, j \in DOMAIN q : i < j => order[q[i]] < order[q[j]]
Held(t) == {l \in Locks : holder[l] = t}

Start(t, kind, g, todo) ==
    /\ tx[t].kind = "idle"
    /\ tx' = [tx EXCEPT ![t] = [Idle EXCEPT !.kind = kind, !.grant = g, !.todo = todo]]
    /\ UNCHANGED <<collation, holder, item, granted, withdrawn, recalled>>

\* scope_read, append, correct, suppress, create_manual_task, a dispatch:
\* the scope named in the request.
BeginSingle(t, s) == Start(t, "single", NoGrant, <<s>>)

\* Mutated form: the scope is locked, then the grant.
AdmissionScopeFirst(g, s) == <<s, g>>

AdmissionOrder(g, s) == <<g, s>>
BeginAdmit(t, g, s) == Start(t, "admit", g, AdmissionOrder(g, s))

BeginWithdraw(t, g) == Start(t, "withdraw", g, <<g>>)

\* claim_outbox reads its candidates without a lock.
Candidates == {s \in Scopes : item[s] \in {"ready", "spent"}}
BeginClaim(t) == Start(t, "claim", NoGrant, Ordered(Candidates, collation))

\* Mutated form: the scopes are locked in the order of the set.
ScopesUnordered(g) == Reverse(Ordered(granted[g], CodeOrder))

\* revoke_grant reads the scopes of the grant's nodes once it holds the grant.
ScopesToRecall(g) == Ordered(granted[g], CodeOrder)

\* Mutated form: an admission does not ask again whether the grant stands.
RefusedNever(t, l) == FALSE

\* SOURCE_GRANT_REVOKED, raised once the grant is locked.
Refused(t, l) == tx[t].kind = "admit" /\ l = tx[t].grant /\ l \in withdrawn

\* Mutated form: a claim settles the row of the scope it will lock next.
AfterLockForgetsRow(t, l) ==
    IF tx[t].kind = "claim" /\ Len(tx[t].todo) > 1
    THEN [tx[t] EXCEPT !.todo = Tail(@), !.writes = @ \cup {tx[t].todo[2]}]
    ELSE [tx[t] EXCEPT !.todo = Tail(@)]

\* Mutated form: a claim comes back to a candidate it settled.
AfterLockRetries(t, l) ==
    LET rest == Tail(tx[t].todo)
    IN  CASE tx[t].kind = "withdraw" /\ l \in Grants -> [tx[t] EXCEPT !.todo = ScopesToRecall(l)]
          [] tx[t].kind = "claim" /\ item[l] # "quiet"
               -> [tx[t] EXCEPT !.todo = IF item[l] = "ready" THEN <<>> ELSE Append(rest, l),
                                !.writes = @ \cup {l}]
          [] OTHER -> [tx[t] EXCEPT !.todo = rest]

\* A transaction that holds its next lock; what it does there.
AfterLock(t, l) ==
    LET rest == Tail(tx[t].todo)
    IN  CASE tx[t].kind = "withdraw" /\ l \in Grants -> [tx[t] EXCEPT !.todo = ScopesToRecall(l)]
          [] tx[t].kind = "claim" /\ item[l] # "quiet"  \* a lease is returned
               -> [tx[t] EXCEPT !.todo = IF item[l] = "ready" THEN <<>> ELSE rest,
                                !.writes = @ \cup {l}]
          [] OTHER -> [tx[t] EXCEPT !.todo = rest]

Lock(t) ==
    /\ tx[t].todo # <<>>
    /\ LET l == Head(tx[t].todo)
       IN  /\ holder[l] \in {Free, t}
           /\ \/ /\ Refused(t, l)
                 /\ tx' = [tx EXCEPT ![t] = Idle]
                 /\ holder' = [k \in Locks |-> IF holder[k] = t THEN Free ELSE holder[k]]
              \/ /\ ~Refused(t, l)
                 /\ tx' = [tx EXCEPT ![t] = AfterLock(t, l)]
                 /\ holder' = [holder EXCEPT ![l] = t]
    /\ UNCHANGED <<collation, item, granted, withdrawn, recalled>>

Release(t) ==
    /\ holder' = [l \in Locks |-> IF holder[l] = t THEN Free ELSE holder[l]]
    /\ tx' = [tx EXCEPT ![t] = Idle]

\* What an operation on one scope may make of its task: created, dispatched
\* and finished, or left without its evidence.
TaskSteps == {<<"quiet", "ready">>, <<"quiet", "spent">>, <<"ready", "spent">>}

CommitSingle(t) ==
    /\ tx[t].kind = "single" /\ tx[t].todo = <<>>
    /\ \E s \in Held(t) :
         /\ item' \in {item} \cup {[item EXCEPT ![s] = step[2]] :
                                     step \in {x \in TaskSteps : x[1] = item[s]}}
    /\ Release(t) /\ UNCHANGED <<collation, granted, withdrawn, recalled>>

CommitAdmit(t) ==
    /\ tx[t].kind = "admit" /\ tx[t].todo = <<>>
    /\ granted' = [granted EXCEPT ![tx[t].grant] = @ \cup (Held(t) \cap Scopes)]
    /\ Release(t) /\ UNCHANGED <<collation, item, withdrawn, recalled>>

CommitWithdraw(t) ==
    /\ tx[t].kind = "withdraw" /\ tx[t].todo = <<>>
    /\ LET reached == Held(t) \cap Scopes
       IN  /\ withdrawn' = withdrawn \cup {tx[t].grant}
           /\ recalled' = [recalled EXCEPT ![tx[t].grant] = @ \cup reached]
           /\ item' = [s \in Scopes |-> IF s \in reached /\ item[s] = "ready"
                                        THEN "spent" ELSE item[s]]
    /\ Release(t) /\ UNCHANGED <<collation, granted>>

CommitClaim(t) ==
    /\ tx[t].kind = "claim" /\ tx[t].todo = <<>>
    /\ item' = [s \in Scopes |-> IF s \in tx[t].writes THEN "quiet" ELSE item[s]]
    /\ Release(t) /\ UNCHANGED <<collation, granted, withdrawn, recalled>>

\* Who waits for whom.
WaitsFor(t, u) == t # u /\ tx[t].todo # <<>> /\ holder[Head(tx[t].todo)] = u

\* The transactions t waits for, directly or not: those in every set that holds
\* whom t, and whom its members, wait for.
Blockers(t) ==
    {u \in Txns : \A S \in SUBSET Txns :
        (\A v \in S \cup {t}, w \in Txns : WaitsFor(v, w) => w \in S) => u \in S}

Deadlocked(t) == t \in Blockers(t)

\* The database ends a transaction of a cycle; execute answers 503.
Victim(t) == Deadlocked(t) /\ Release(t) /\ UNCHANGED <<collation, item, granted, withdrawn, recalled>>

Step(t) == \/ Lock(t) \/ CommitSingle(t) \/ CommitAdmit(t)
           \/ CommitWithdraw(t) \/ CommitClaim(t) \/ Victim(t)

Begin(t) ==
    \/ \E s \in Scopes : BeginSingle(t, s)
    \/ \E g \in Grants, s \in Scopes : BeginAdmit(t, g, s)
    \/ \E g \in Grants : BeginWithdraw(t, g)
    \/ BeginClaim(t)

Next == \E t \in Txns : Begin(t) \/ Step(t)

Spec == Init /\ [][Next]_vars

\* The database queues those who wait for a row, so none waits for ever
\* while the row is freed again and again; and a request does not stop
\* between two statements.
FairSpec == Spec /\ \A t \in Txns : SF_vars(Step(t))

-----------------------------------------------------------------------------
(***************************************************************************)
(* Properties.                                                             *)
(***************************************************************************)
\* The type of the state; a settled or leased item is written at commit.
LocksTypeOK ==
    /\ collation \in Collations
    /\ holder \in [Locks -> Txns \cup {Free}]
    /\ \A t \in Txns : /\ tx[t].kind \in TxKinds /\ tx[t].grant \in Grants \cup {NoGrant}
                       /\ tx[t].todo \in Seq(Locks)
                       /\ tx[t].writes \subseteq Held(t)
    /\ item \in [Scopes -> ItemStates]

\* Where the database sorts scope names as Python does, no two transactions
\* ever wait for each other: the grant comes before every scope, and scopes
\* come in one order (admit_observation, revoke_grant, claim_outbox).
NoDeadlock == \A t \in Txns : ~Deadlocked(t)

\* Where it does not, a cycle always has a withdrawal in it that meets a
\* claim: neither claims among themselves nor any other operation deadlocks.
DeadlocksAreClaimsAgainstWithdrawals ==
    \A t \in Txns : Deadlocked(t) =>
        {"claim", "withdraw"} \subseteq {tx[u].kind : u \in Blockers(t)}

\* No admission slips between the scopes a withdrawal read and those it
\* reaches: once a grant is withdrawn, every scope with evidence under it
\* was reached, and no scope is added (revoke_grant, _lock_grant).
WithdrawalsAreComplete == \A g \in withdrawn : granted[g] \subseteq recalled[g]

\* The scopes sorted by the database as Python sorts them, as under the C collation.
SortedAlike ==
    \A s, t \in Scopes : CodeOrder[s] < CodeOrder[t] <=> collation[s] < collation[t]

\* The row locks make transactions atomic and seldom in each other's way: no
\* admission slips between the scopes a withdrawal read and those it reaches, no two
\* transactions wait for each other where the database sorts scope names as Python
\* does, and where it does not a cycle has a withdrawal in it that meets a claim
\* (admit_observation, revoke_grant, claim_outbox).
LocksSuffice ==
    /\ LocksTypeOK
    /\ WithdrawalsAreComplete
    /\ SortedAlike => NoDeadlock
    /\ DeadlocksAreClaimsAgainstWithdrawals

\* Every transaction ends, deadlocked or not.
EveryTransactionEnds == \A t \in Txns : (tx[t].kind # "idle") ~> (tx[t].kind = "idle")

=============================================================================
