---------------------------- MODULE SourceHealth ----------------------------
(***************************************************************************)
(* The health of the admitted DOL source: checks of a pinned snapshot      *)
(* (src/app/domain/source_admission.py), their durable record, one per     *)
(* tenant (src/app/domain/source_health_store.py, source_policy.py), and   *)
(* the status derived from it under the authority of the moment            *)
(* (david_workflow.refresh_source and workspace).                          *)
(*                                                                         *)
(* A check reads the admission policy, then the signing key and the        *)
(* snapshot over the network, and records its attempt in a transaction;    *)
(* in between the clock moves, other checks finish, and the deployment     *)
(* replaces the policy or rotates the key.                                 *)
(***************************************************************************)
EXTENDS Naturals

CONSTANTS
    Checkers,      \* concurrent refresh requests
    Revisions,     \* dataset revisions
    ObservedAt,    \* when each revision's snapshot was created
    SignedWith,    \* the key each revision is signed with
    SigningKeys,   \* keys the deployment may hold
    Policies,      \* admission policies: [snapshot, until, research]
    FreshFor,      \* FRESHNESS_DAYS
    MaxTime,       \* bound on the clock
    MaxAttempts,   \* bound on the checks begun
    MaxChanges     \* bound on policy replacements and key rotations

NoTime == 0
NoRev  == "no revision"
NoKey  == 0

ASSUME SourceAssumption ==
    /\ NoRev \notin Revisions
    /\ ObservedAt \in [Revisions -> Nat \ {NoTime}]
    /\ SigningKeys \subseteq Nat \ {NoKey}
    /\ SignedWith \in [Revisions -> SigningKeys]
    /\ Policies \subseteq [snapshot : Revisions, until : Nat, research : BOOLEAN]
    /\ FreshFor \in Nat /\ MaxTime \in Nat /\ MaxAttempts \in Nat /\ MaxChanges \in Nat

VARIABLES
    record,   \* the tenant's row of source_health
    policy,   \* the admission policy file
    key,      \* the signing key file
    ch,       \* what each check is doing
    done,     \* the attempts that reached the database, kept or refused
    verified, \* the snapshots that verified, with which key and when
    now, begun, changes

vars == <<record, policy, key, ch, done, verified, now, begun, changes>>

\* The transport, schema, integrity and completeness states an attempt sets
\* are those of one outcome.
Outcomes == {"SUCCESS", "UNAVAILABLE", "INTEGRITY_FAILED", "SCHEMA_CHANGED",
             "PARTIAL", "NOT_EVALUATED"}

Empty == [at |-> NoTime, success |-> NoTime, states |-> "NOT_EVALUATED",
          snap |-> NoRev, key |-> NoKey]
Idle  == [pc |-> "idle", at |-> NoTime, rev |-> NoRev, attempt |-> Empty]

Init ==
    /\ record = Empty
    /\ policy \in Policies
    /\ key \in SigningKeys
    /\ ch = [c \in Checkers |-> Idle]
    /\ done = {} /\ verified = {}
    /\ now = 1 /\ begun = 0 /\ changes = 0

\* load_admission_policy: a grant that allows research and has not expired.
Usable(p, t) == p.research /\ t < p.until

Attempt(t, states) == [Empty EXCEPT !.at = t, !.states = states]

(***************************************************************************)
(* A check.                                                                *)
(***************************************************************************)
\* evaluate_source_health up to the network: without a usable policy, or
\* for a revision the policy does not pin, nothing is evaluated.
Begin(c, rev) ==
    /\ ch[c].pc = "idle" /\ begun < MaxAttempts
    /\ begun' = begun + 1
    /\ ch' = [ch EXCEPT ![c] =
                IF Usable(policy, now) /\ rev = policy.snapshot
                THEN [pc |-> "fetching", at |-> now, rev |-> rev, attempt |-> Empty]
                ELSE [pc |-> "recording", at |-> now, rev |-> rev,
                      attempt |-> Attempt(now, "NOT_EVALUATED")]]
    /\ UNCHANGED <<record, policy, key, done, verified, now, changes>>

\* Mutated form: the attempt does not name the key it trusted.
VerifiedKeyless(c) ==
    IF SignedWith[ch[c].rev] # key THEN Attempt(ch[c].at, "INTEGRITY_FAILED")
    ELSE [Attempt(ch[c].at, "SUCCESS") EXCEPT !.snap = ch[c].rev]

\* What a complete bundle of rev is worth under the key held now: a stale
\* one is accepted here, one signed with another key is not.
Verified(c) ==
    IF ObservedAt[ch[c].rev] > ch[c].at THEN Attempt(ch[c].at, "NOT_EVALUATED")
    ELSE IF SignedWith[ch[c].rev] # key THEN Attempt(ch[c].at, "INTEGRITY_FAILED")
    ELSE [Attempt(ch[c].at, "SUCCESS") EXCEPT !.snap = ch[c].rev, !.key = key]

Fetch(c) ==
    /\ ch[c].pc = "fetching"
    /\ \E a \in {Verified(c)} \cup {Attempt(ch[c].at, o) : o \in Outcomes \ {"SUCCESS"}} :
         /\ ch' = [ch EXCEPT ![c].pc = "recording", ![c].attempt = a]
         /\ verified' = IF a.states = "SUCCESS"
                        THEN verified \cup {[rev |-> a.snap, key |-> a.key, at |-> a.at]}
                        ELSE verified
    /\ UNCHANGED <<record, policy, key, done, now, begun, changes>>

\* record_source_attempt: does this attempt count as a success?
Successful(a) ==
    /\ a.states = "SUCCESS"
    /\ ObservedAt[a.snap] <= a.at /\ a.at < ObservedAt[a.snap] + FreshFor

\* Mutated form: a failed attempt replaces the whole record.
MergedForgets(a) == [a EXCEPT !.success = IF Successful(a) THEN a.at ELSE NoTime]

\* A failure keeps the last success and the identity of the snapshot.
Merged(a) ==
    IF Successful(a) THEN [a EXCEPT !.success = a.at]
    ELSE [a EXCEPT !.success = record.success,
             !.snap = IF record.snap # NoRev THEN record.snap ELSE a.snap,
             !.key  = IF record.key # NoKey THEN record.key ELSE a.key]

\* Mutated form: the attempt that finishes last is kept.
InOrderOfFinish(a) == TRUE

InOrder(a) == record.at = NoTime \/ a.at > record.at

\* record_attempt locks the row: attempts are ordered by their start, and
\* one that started before the recorded one is refused.
RecordAttempt(c) ==
    /\ ch[c].pc = "recording"
    /\ LET a == ch[c].attempt
       IN  /\ record' = IF InOrder(a) THEN Merged(a) ELSE record
           /\ done' = done \cup {[at |-> a.at, states |-> a.states]}
    /\ ch' = [ch EXCEPT ![c] = Idle]
    /\ UNCHANGED <<policy, key, verified, now, begun, changes>>

\* The scope moved on, or the operator lost the right: nothing is recorded.
Refuse(c) ==
    /\ ch[c].pc = "recording"
    /\ ch' = [ch EXCEPT ![c] = Idle]
    /\ UNCHANGED <<record, policy, key, done, verified, now, begun, changes>>

(***************************************************************************)
(* The deployment and the clock.                                           *)
(***************************************************************************)
ReplacePolicy(p) ==
    /\ changes < MaxChanges
    /\ policy' = p /\ policy # p
    /\ changes' = changes + 1
    /\ UNCHANGED <<record, key, ch, done, verified, now, begun>>

RotateKey(k) ==
    /\ changes < MaxChanges
    /\ key' = k /\ key # k
    /\ changes' = changes + 1
    /\ UNCHANGED <<record, policy, ch, done, verified, now, begun>>

Tick ==
    /\ now < MaxTime
    /\ now' = now + 1
    /\ UNCHANGED <<record, policy, key, ch, done, verified, begun, changes>>

Next ==
    \/ \E c \in Checkers : \/ \E rev \in Revisions : Begin(c, rev)
                           \/ Fetch(c) \/ RecordAttempt(c) \/ Refuse(c)
    \/ \E p \in Policies : ReplacePolicy(p)
    \/ \E k \in SigningKeys : RotateKey(k)
    \/ Tick

Spec == Init /\ [][Next]_vars

-----------------------------------------------------------------------------
(***************************************************************************)
(* The status shown: current_source_health lays the policy and the key of  *)
(* now over the record, source_status reads the result.                    *)
(***************************************************************************)
\* Mutated form: a saved success keeps the grant it was made under.
GrantedForEver == Usable(policy, now)

Granted == Usable(policy, now) /\ record.snap = policy.snapshot

CurrentStates ==
    IF Granted /\ record.key # key
    THEN IF record.key = NoKey THEN "NOT_EVALUATED" ELSE "INTEGRITY_FAILED"
    ELSE record.states

Fresh == /\ record.snap # NoRev
         /\ ObservedAt[record.snap] <= now /\ now < ObservedAt[record.snap] + FreshFor

Status ==
    IF Granted /\ CurrentStates = "SUCCESS" /\ Fresh /\ record.success # NoTime
    THEN "HEALTHY"
    ELSE IF CurrentStates \notin {"SUCCESS", "NOT_EVALUATED"} THEN CurrentStates
    ELSE IF record.snap # NoRev /\ ~Fresh THEN "STALE"
    ELSE "NOT_EVALUATED"

(***************************************************************************)
(* Properties.                                                             *)
(***************************************************************************)
\* The type of the state: a success is an attempt (_valid_record), and the
\* snapshot and the key of a record come together.
SourceTypeOK ==
    /\ record.states \in Outcomes
    /\ record.success <= record.at /\ record.at <= now
    /\ record.snap # NoRev <=> record.key # NoKey
    /\ record.success # NoTime => record.snap # NoRev

\* HEALTHY is said only of the snapshot the policy pins now, verified by a
\* check under the key held now, at the time shown as the last success, and
\* still fresh: neither configuration nor an old success proves usable data
\* (source_policy.source_status, source_admission.current_source_health).
HealthyMeansVerified ==
    Status = "HEALTHY" =>
        /\ [rev |-> policy.snapshot, key |-> key, at |-> record.success] \in verified
        /\ Usable(policy, now)
        /\ now < ObservedAt[policy.snapshot] + FreshFor

\* Checks finish in any order; the record shows the outcome of the one that
\* started last among those that reached the database.
NewestAttemptIsShown ==
    done # {} =>
        /\ \A a \in done : a.at <= record.at
        /\ [at |-> record.at, states |-> record.states] \in done

\* The status shown is that of the newest attempt, and HEALTHY only of what was
\* verified under the key and the policy of now.
StatusIsTrue == SourceTypeOK /\ HealthyMeansVerified /\ NewestAttemptIsShown

\* No attempt resets the last success or replaces the snapshot it verified,
\* except a newer success (record_source_attempt).
SuccessesAreKept ==
    [][/\ record'.success >= record.success
       /\ record.success # NoTime /\ record'.snap # record.snap
            => record'.success = record'.at /\ record'.success > record.success]_vars

=============================================================================
