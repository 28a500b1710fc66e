------------------------ MODULE FederalSourceProofs ------------------------
(***************************************************************************)
(* What the way of the federal snapshots promises for every value of the   *)
(* constants.                                                              *)
(*                                                                         *)
(* SourceHealth: HEALTHY has a verification behind it, the newest attempt  *)
(* is the one shown, and successes are kept.                               *)
(* SnapshotPublication: every revision of the hub is whole and is the      *)
(* register with one more bundle, a receipt names the commit that added    *)
(* its bundle, and what is served was a pointer of the hub in its time.    *)
(* ReaderRotation: a finished rotation rests on processes that had loaded  *)
(* every replacement and on pointers of one dataset revision.              *)
(* ReleaseContract: a complete report stays one until it expires, whatever *)
(* is redeployed, and every gate of it passed on one revision.             *)
(* EchoExport: what is kept while the records stream are the first of all  *)
(* that belong, and what is published the runtime can read.                *)
(* FrontierCollection: a written bundle is what the sources last answered, *)
(* with the best of each page, and a whole capture is refused for a cause. *)
(* Constellation: the groups the union-find makes of a pull are its        *)
(* connected parts, and what is told of a group and a record is so.        *)
(***************************************************************************)
EXTENDS FederalSnapshots, FederalCollection, Integers, Sequences, FiniteSets,
        SequenceTheorems, FiniteSetTheorems, NaturalsInduction, WellFoundedInduction,
        TLAPS

Snapshots == Revisions \cup {NoRev}
Records   == [at : Nat, success : Nat, states : Outcomes, snap : Snapshots, key : Nat]
Checks    == [pc : {"idle", "fetching", "recording"}, at : Nat, rev : Snapshots,
              attempt : Records]

HealthTypes ==
    /\ record \in Records /\ policy \in Policies /\ key \in SigningKeys
    /\ ch \in [Checkers -> Checks]
    /\ now \in Nat \ {NoTime}
    /\ \A a \in done : a.at \in Nat

\* An attempt about to be recorded: it started at a time that has come, and
\* one that says SUCCESS names the snapshot and the key it verified.
AttemptsAreBacked ==
    \A c \in Checkers :
        /\ ch[c].pc = "fetching" => ch[c].rev \in Revisions
        /\ ch[c].pc # "idle" => ch[c].at \in 1 .. now
        /\ ch[c].pc = "recording" =>
             LET a == ch[c].attempt
             IN  /\ a.at = ch[c].at
                 /\ a.snap # NoRev <=> a.key # NoKey
                 /\ a.states = "SUCCESS" =>
                      /\ a.snap # NoRev
                      /\ [rev |-> a.snap, key |-> a.key, at |-> a.at] \in verified

\* The last success shown is a verification of the snapshot and key shown.
SuccessIsBacked ==
    record.success # NoTime =>
        [rev |-> record.snap, key |-> record.key, at |-> record.success] \in verified

NothingDoneNothingShown == record.at = NoTime <=> done = {}

HealthInv ==
    /\ HealthTypes /\ SourceTypeOK /\ AttemptsAreBacked /\ SuccessIsBacked
    /\ NothingDoneNothingShown /\ NewestAttemptIsShown

-----------------------------------------------------------------------------
LEMMA ConstantTypes ==
    /\ \A r \in Revisions : ObservedAt[r] \in Nat /\ r # NoRev
    /\ \A k \in SigningKeys : k \in Nat /\ k # NoKey
    /\ \A p \in Policies : p.snapshot \in Revisions /\ p.until \in Nat
    /\ FreshFor \in Nat
BY SourceAssumption

LEMMA InitHealth == Init => HealthInv
BY ConstantTypes DEF Init, HealthInv, HealthTypes, SourceTypeOK, AttemptsAreBacked,
   SuccessIsBacked, NothingDoneNothingShown, NewestAttemptIsShown, Records, Checks,
   Snapshots, Empty, Idle, Outcomes, NoTime, NoKey

\* An attempt without a verdict on the bytes carries no snapshot.
LEMMA AttemptIsRecord ==
    ASSUME NEW t \in Nat, NEW o \in Outcomes
    PROVE  /\ Attempt(t, o) \in Records
           /\ Attempt(t, o).at = t /\ Attempt(t, o).states = o
           /\ Attempt(t, o).snap = NoRev /\ Attempt(t, o).key = NoKey
BY DEF Attempt, Empty, Records, Snapshots, Outcomes, NoTime, NoKey

\* Steps that leave the record, and only add to what was verified.
LEMMA CheckStep ==
    ASSUME HealthInv, NEW c \in Checkers, NEW m \in Checks,
           ch' = [ch EXCEPT ![c] = m],
           UNCHANGED <<record, policy, key, done, now>>, verified \subseteq verified',
           m.pc = "fetching" => m.rev \in Revisions,
           m.pc # "idle" => m.at \in 1 .. now,
           m.pc = "recording" =>
             /\ m.attempt.at = m.at
             /\ m.attempt.snap # NoRev <=> m.attempt.key # NoKey
             /\ m.attempt.states = "SUCCESS" =>
                  /\ m.attempt.snap # NoRev
                  /\ [rev |-> m.attempt.snap, key |-> m.attempt.key, at |-> m.attempt.at]
                       \in verified'
    PROVE  HealthInv'
<1> USE DEF HealthInv
<1>1. HealthTypes' /\ SourceTypeOK' BY DEF HealthTypes, SourceTypeOK
<1>2. AttemptsAreBacked'
  <2>1. /\ ch'[c] = m
        /\ \A d \in Checkers : d # c => ch'[d] = ch[d]
    BY DEF HealthTypes
  <2> QED BY <2>1 DEF AttemptsAreBacked
<1>3. SuccessIsBacked' /\ NothingDoneNothingShown' /\ NewestAttemptIsShown'
  BY DEF SuccessIsBacked, NothingDoneNothingShown, NewestAttemptIsShown
<1> QED BY <1>1, <1>2, <1>3

LEMMA BeginStep ==
    ASSUME HealthInv, NEW c \in Checkers, NEW rev \in Revisions, Begin(c, rev)
    PROVE  HealthInv'
<1>1. now \in Nat /\ now \in 1 .. now
  BY DEF HealthInv, HealthTypes, NoTime
<1> DEFINE f == [pc |-> "fetching", at |-> now, rev |-> rev, attempt |-> Empty]
           n == [pc |-> "recording", at |-> now, rev |-> rev,
                 attempt |-> Attempt(now, "NOT_EVALUATED")]
<1>2. "NOT_EVALUATED" \in Outcomes /\ Empty \in Records
  BY DEF Outcomes, Empty, Records, Snapshots, NoTime, NoKey
<1>3. CASE Usable(policy, now) /\ rev = policy.snapshot
  <2>1. ch' = [ch EXCEPT ![c] = f] BY <1>3 DEF Begin
  <2>2. f \in Checks BY <1>1, <1>2 DEF Checks, Snapshots
  <2> QED BY <1>1, <2>1, <2>2, CheckStep DEF Begin
<1>4. CASE ~(Usable(policy, now) /\ rev = policy.snapshot)
  <2>1. ch' = [ch EXCEPT ![c] = n] BY <1>4 DEF Begin
  <2>2. /\ n \in Checks /\ n.attempt.at = now /\ n.attempt.states = "NOT_EVALUATED"
        /\ n.attempt.snap = NoRev /\ n.attempt.key = NoKey
        /\ n.pc = "recording" /\ n.at = now
    BY <1>1, <1>2, AttemptIsRecord DEF Checks, Snapshots
  <2> HIDE DEF n
  <2> QED BY <1>1, <2>1, <2>2, CheckStep DEF Begin
<1> QED BY <1>3, <1>4

LEMMA FetchStep ==
    ASSUME HealthInv, NEW c \in Checkers, Fetch(c)
    PROVE  HealthInv'
<1>1. /\ ch[c] \in Checks /\ ch[c].pc = "fetching" /\ ch[c].rev \in Revisions
      /\ ch[c].at \in Nat /\ ch[c].at \in 1 .. now
      /\ key \in Nat /\ key # NoKey
  BY ConstantTypes DEF HealthInv, HealthTypes, AttemptsAreBacked, Fetch, Checks
<1>2. PICK a \in {Verified(c)} \cup {Attempt(ch[c].at, o) : o \in Outcomes \ {"SUCCESS"}} :
        /\ ch' = [ch EXCEPT ![c].pc = "recording", ![c].attempt = a]
        /\ verified' = IF a.states = "SUCCESS"
                       THEN verified \cup {[rev |-> a.snap, key |-> a.key, at |-> a.at]}
                       ELSE verified
  BY DEF Fetch
<1>3. /\ a \in Records /\ a.at = ch[c].at
      /\ a.snap # NoRev <=> a.key # NoKey
      /\ a.states = "SUCCESS" => a.snap # NoRev
  <2>1. CASE \E o \in Outcomes : a = Attempt(ch[c].at, o) /\ o # "SUCCESS"
    BY <1>1, <2>1, AttemptIsRecord
  <2>2. CASE a = Verified(c)
    <3>1. CASE a = Attempt(ch[c].at, "NOT_EVALUATED")
      BY <1>1, <3>1, AttemptIsRecord DEF Outcomes
    <3>2. CASE a = Attempt(ch[c].at, "INTEGRITY_FAILED")
      BY <1>1, <3>2, AttemptIsRecord DEF Outcomes
    <3>3. CASE a = [Attempt(ch[c].at, "SUCCESS") EXCEPT !.snap = ch[c].rev, !.key = key]
      <4>1. /\ Attempt(ch[c].at, "SUCCESS") \in Records
            /\ Attempt(ch[c].at, "SUCCESS").at = ch[c].at
        BY <1>1, AttemptIsRecord DEF Outcomes
      <4> QED BY <1>1, <3>3, <4>1, ConstantTypes DEF Records, Snapshots
    <3> QED BY <2>2, <3>1, <3>2, <3>3 DEF Verified
  <2> QED BY <1>2, <2>1, <2>2
<1> DEFINE m == [ch[c] EXCEPT !.pc = "recording", !.attempt = a]
<1>4. /\ m \in Checks /\ m.pc = "recording" /\ m.at = ch[c].at /\ m.attempt = a
  BY <1>1, <1>3 DEF Checks
<1>5. ch' = [ch EXCEPT ![c] = m] BY <1>2
<1> HIDE DEF m
<1> QED BY <1>1, <1>2, <1>3, <1>4, <1>5, CheckStep DEF Fetch

\* What record_source_attempt makes of the record: a well-formed one at the
\* time of the attempt, whose success is backed whenever the old one's was.
LEMMA MergedIsBacked ==
    ASSUME HealthInv, NEW a \in Records, InOrder(a), a.at \in 1 .. now,
           a.snap # NoRev <=> a.key # NoKey,
           a.states = "SUCCESS" =>
             /\ a.snap # NoRev
             /\ [rev |-> a.snap, key |-> a.key, at |-> a.at] \in verified
    PROVE  LET m == Merged(a)
           IN  /\ m \in Records /\ m.at = a.at /\ m.states = a.states
               /\ m.success <= m.at /\ m.success >= record.success
               /\ m.snap # NoRev <=> m.key # NoKey
               /\ m.success # NoTime => m.snap # NoRev
               /\ m.success # NoTime =>
                    [rev |-> m.snap, key |-> m.key, at |-> m.success] \in verified
               /\ record.success # NoTime /\ m.snap # record.snap
                    => m.success = m.at /\ m.success > record.success
<1>1. /\ record \in Records /\ record.success <= record.at
      /\ record.success \in Nat /\ record.at \in Nat /\ a.at \in Nat
      /\ a.at # NoTime
      /\ record.snap # NoRev <=> record.key # NoKey
      /\ record.success # NoTime => record.snap # NoRev
      /\ record.at = NoTime \/ a.at > record.at
  BY DEF HealthInv, HealthTypes, SourceTypeOK, InOrder, Records, NoTime
<1>2. record.success < a.at BY <1>1 DEF NoTime
<1> DEFINE m == Merged(a)
<1>3. CASE Successful(a)
  <2>1. m = [a EXCEPT !.success = a.at] BY <1>3 DEF Merged
  <2>2. a.states = "SUCCESS" BY <1>3 DEF Successful
  <2>3. /\ m \in Records /\ m.at = a.at /\ m.success = a.at /\ m.states = a.states
        /\ m.snap = a.snap /\ m.key = a.key
    BY <1>1, <2>1 DEF Records
  <2> HIDE DEF m
  <2>4. /\ m.success <= m.at /\ m.success >= record.success
        /\ m.success > record.success
    BY <1>1, <1>2, <2>3
  <2> QED BY <2>2, <2>3, <2>4 DEF m
<1>4. CASE ~Successful(a)
  <2>1. m = [a EXCEPT !.success = record.success,
               !.snap = IF record.snap # NoRev THEN record.snap ELSE a.snap,
               !.key  = IF record.key # NoKey THEN record.key ELSE a.key]
    BY <1>4 DEF Merged
  <2>2. /\ m \in Records /\ m.at = a.at /\ m.success = record.success
        /\ m.states = a.states
        /\ m.snap = IF record.snap # NoRev THEN record.snap ELSE a.snap
        /\ m.key = IF record.key # NoKey THEN record.key ELSE a.key
    BY <1>1, <2>1 DEF Records
  <2> HIDE DEF m
  <2>3. m.success <= m.at /\ m.success >= record.success BY <1>1, <1>2, <2>2
  <2> QED BY <1>1, <2>2, <2>3 DEF HealthInv, SuccessIsBacked, m
<1> QED BY <1>3, <1>4

LEMMA RecordStep ==
    ASSUME HealthInv, NEW c \in Checkers, RecordAttempt(c)
    PROVE  HealthInv'
<1> DEFINE a == ch[c].attempt
           m == Merged(a)
<1>1. /\ ch[c] \in Checks /\ a \in Records /\ a.at \in 1 .. now
      /\ a.snap # NoRev <=> a.key # NoKey
      /\ a.states = "SUCCESS" =>
           /\ a.snap # NoRev
           /\ [rev |-> a.snap, key |-> a.key, at |-> a.at] \in verified
  BY DEF HealthInv, HealthTypes, AttemptsAreBacked, RecordAttempt, Checks
<1>2. /\ a.at \in Nat \ {NoTime} /\ record.at \in Nat /\ now \in Nat
  BY <1>1 DEF HealthInv, HealthTypes, Records, NoTime
<1>3. /\ record' = IF InOrder(a) THEN m ELSE record
      /\ done' = done \cup {[at |-> a.at, states |-> a.states]}
      /\ ch' = [ch EXCEPT ![c] = Idle]
      /\ UNCHANGED <<policy, key, verified, now>>
  BY DEF RecordAttempt
<1>4. /\ ch' \in [Checkers -> Checks] /\ ch'[c].pc = "idle"
      /\ \A d \in Checkers : d # c => ch'[d] = ch[d]
  <2>1. Idle \in Checks
    BY DEF Idle, Checks, Empty, Records, Snapshots, Outcomes, NoTime, NoKey
  <2> QED BY <1>3, <2>1 DEF HealthInv, HealthTypes, Idle
<1>5. AttemptsAreBacked'
  BY <1>3, <1>4 DEF HealthInv, AttemptsAreBacked
<1>6. \A d \in done' : d.at \in Nat
  BY <1>2, <1>3 DEF HealthInv, HealthTypes
<1>7. CASE InOrder(a)
  <2>1. /\ m \in Records /\ m.at = a.at /\ m.states = a.states
        /\ m.success <= m.at
        /\ m.snap # NoRev <=> m.key # NoKey
        /\ m.success # NoTime => m.snap # NoRev
        /\ m.success # NoTime =>
             [rev |-> m.snap, key |-> m.key, at |-> m.success] \in verified
    BY <1>1, <1>7, MergedIsBacked
  <2>2. record' = m BY <1>3, <1>7
  <2> HIDE DEF m, a
  <2>3. HealthTypes'
    BY <1>3, <1>4, <1>6, <2>1, <2>2 DEF HealthInv, HealthTypes
  <2>4. SourceTypeOK' /\ SuccessIsBacked'
    BY <1>1, <1>2, <1>3, <2>1, <2>2 DEF SourceTypeOK, SuccessIsBacked, Records
  <2>5. NothingDoneNothingShown'
    BY <1>2, <1>3, <2>1, <2>2 DEF NothingDoneNothingShown
  <2>6. \A d \in done : d.at <= a.at
    BY <1>2, <1>7 DEF InOrder, HealthInv, HealthTypes, NewestAttemptIsShown,
       NothingDoneNothingShown, NoTime
  <2>7. NewestAttemptIsShown'
    BY <1>2, <1>3, <2>1, <2>2, <2>6 DEF NewestAttemptIsShown
  <2> QED BY <1>5, <2>3, <2>4, <2>5, <2>7 DEF HealthInv
<1>8. CASE ~InOrder(a)
  <2>1. record' = record /\ record.at # NoTime /\ a.at <= record.at
    BY <1>2, <1>3, <1>8 DEF InOrder
  <2> HIDE DEF m, a
  <2>2. HealthTypes'
    BY <1>3, <1>4, <1>6, <2>1 DEF HealthInv, HealthTypes
  <2>3. SourceTypeOK' /\ SuccessIsBacked' /\ NothingDoneNothingShown'
    BY <1>3, <2>1 DEF HealthInv, SourceTypeOK, SuccessIsBacked, NothingDoneNothingShown
  <2>4. NewestAttemptIsShown'
    BY <1>3, <2>1 DEF HealthInv, NewestAttemptIsShown, NothingDoneNothingShown
  <2> QED BY <1>5, <2>2, <2>3, <2>4 DEF HealthInv
<1> QED BY <1>7, <1>8

LEMMA OtherSteps ==
    ASSUME HealthInv,
           \/ \E c \in Checkers : Refuse(c)
           \/ \E p \in Policies : ReplacePolicy(p)
           \/ \E k \in SigningKeys : RotateKey(k)
           \/ Tick
           \/ UNCHANGED vars
    PROVE  HealthInv'
<1>1. ASSUME NEW c \in Checkers, Refuse(c) PROVE HealthInv'
  <2>1. Idle \in Checks /\ Idle.pc = "idle"
    BY DEF Idle, Checks, Empty, Records, Snapshots, Outcomes, NoTime, NoKey
  <2> QED BY <1>1, <2>1, CheckStep DEF Refuse
<1>2. ASSUME policy' \in Policies, key' \in SigningKeys, now' \in {now, now + 1},
             UNCHANGED <<record, ch, done, verified>>
      PROVE  HealthInv'
  <2>1. now \in Nat \ {NoTime} BY DEF HealthInv, HealthTypes
  <2>2. HealthTypes' BY <1>2, <2>1 DEF HealthInv, HealthTypes, NoTime
  <2>3. SourceTypeOK'
    BY <1>2, <2>1 DEF HealthInv, HealthTypes, SourceTypeOK, Records
  <2>4. AttemptsAreBacked'
    BY <1>2, <2>1 DEF HealthInv, HealthTypes, AttemptsAreBacked, Checks
  <2>5. SuccessIsBacked' /\ NothingDoneNothingShown' /\ NewestAttemptIsShown'
    BY <1>2 DEF HealthInv, SuccessIsBacked, NothingDoneNothingShown, NewestAttemptIsShown
  <2> QED BY <2>2, <2>3, <2>4, <2>5 DEF HealthInv
<1>3. policy \in Policies /\ key \in SigningKeys BY DEF HealthInv, HealthTypes
<1> QED BY <1>1, <1>2, <1>3 DEF ReplacePolicy, RotateKey, Tick, vars

LEMMA NextStep == ASSUME HealthInv, [Next]_vars PROVE HealthInv'
BY BeginStep, FetchStep, RecordStep, OtherSteps DEF Next

\* The invariant behind the properties: every success, and every attempt
\* about to be recorded as one, has a verification behind it.
THEOREM HealthInvariant == Spec => []HealthInv
BY InitHealth, NextStep, PTL DEF Spec

\* A record's success is an attempt and names what it verified
\* (source_health_store._valid_record).
THEOREM SourceTypeCorrectness == Spec => []SourceTypeOK
<1>1. HealthInv => SourceTypeOK BY DEF HealthInv
<1> QED BY <1>1, HealthInvariant, PTL

\* HEALTHY means that the snapshot pinned now was verified with the key held
\* now (source_admission.current_source_health), whatever the deployment
\* changed while checks were under way.
THEOREM HealthyIsVerified == Spec => []HealthyMeansVerified
<1>1. HealthInv => HealthyMeansVerified
  <2> SUFFICES ASSUME HealthInv, Status = "HEALTHY"
               PROVE  /\ [rev |-> policy.snapshot, key |-> key, at |-> record.success]
                           \in verified
                      /\ Usable(policy, now)
                      /\ now < ObservedAt[policy.snapshot] + FreshFor
    BY DEF HealthyMeansVerified
  <2>0. CurrentStates # "HEALTHY"
    BY DEF HealthInv, HealthTypes, Records, CurrentStates, Outcomes
  <2>1. /\ Granted /\ CurrentStates = "SUCCESS" /\ Fresh /\ record.success # NoTime
    BY <2>0 DEF Status
  <2>2. record.key = key BY <2>1 DEF CurrentStates
  <2> QED BY <2>1, <2>2 DEF Granted, Fresh, HealthInv, SuccessIsBacked
<1> QED BY <1>1, HealthInvariant, PTL

\* The attempt that started last is the one shown, in whatever order the
\* checks finish (source_health_store.record_attempt).
THEOREM NewestIsShown == Spec => []NewestAttemptIsShown
<1>1. HealthInv => NewestAttemptIsShown BY DEF HealthInv
<1> QED BY <1>1, HealthInvariant, PTL

\* A success is only ever replaced by a newer one
\* (source_policy.record_source_attempt).
THEOREM SuccessesStay == Spec => SuccessesAreKept
<1> DEFINE Kept ==
      /\ record'.success >= record.success
      /\ record.success # NoTime /\ record'.snap # record.snap
           => record'.success = record'.at /\ record'.success > record.success
<1>1. HealthInv /\ [Next]_vars => [Kept]_vars
  <2> SUFFICES ASSUME HealthInv, Next PROVE Kept BY DEF vars
  <2>1. record.success \in Nat BY DEF HealthInv, HealthTypes, Records
  <2>2. ASSUME NEW c \in Checkers, RecordAttempt(c) PROVE Kept
    <3> DEFINE a == ch[c].attempt
    <3>1. /\ a \in Records /\ a.at \in 1 .. now
          /\ a.snap # NoRev <=> a.key # NoKey
          /\ a.states = "SUCCESS" =>
               /\ a.snap # NoRev
               /\ [rev |-> a.snap, key |-> a.key, at |-> a.at] \in verified
      BY <2>2 DEF HealthInv, HealthTypes, AttemptsAreBacked, RecordAttempt, Checks
    <3>2. record' = IF InOrder(a) THEN Merged(a) ELSE record
      BY <2>2 DEF RecordAttempt
    <3>3. CASE InOrder(a)
      <4>1. /\ Merged(a).success >= record.success
            /\ record.success # NoTime /\ Merged(a).snap # record.snap
                 => Merged(a).success = Merged(a).at /\ Merged(a).success > record.success
        BY <3>1, <3>3, MergedIsBacked
      <4> QED BY <3>2, <3>3, <4>1
    <3>4. CASE ~InOrder(a) BY <2>1, <3>2, <3>4
    <3> QED BY <3>3, <3>4
  <2>3. CASE UNCHANGED record BY <2>1, <2>3
  <2> QED BY <2>2, <2>3 DEF Next, Begin, Fetch, Refuse, ReplacePolicy, RotateKey, Tick
<1> QED BY <1>1, HealthInvariant, PTL DEF Spec, SuccessesAreKept

\* The status on record is that of the newest attempt, and HEALTHY only of a
\* snapshot verified under the key and policy of now (record_source_attempt).
THEOREM StatusStaysTrue == Spec => []StatusIsTrue
BY SourceTypeCorrectness, HealthyIsVerified, NewestIsShown, PTL DEF StatusIsTrue


-----------------------------------------------------------------------------
\* The publication of snapshots.

Bundles == Publication!Bundles
OrNone  == Bundles \cup {None}
Trees   == [files : SUBSET Bundles, signed : SUBSET Bundles, latest : [Lanes -> OrNone],
            compat : OrNone, adds : OrNone, at : Publication!Clocks]
Workspaces   == [bundle : OrNone, signed : BOOLEAN, receipt : BOOLEAN]
Publications == [phase : Publication!Phases, bundle : OrNone, signed : BOOLEAN,
                 parent : Nat, commit : Nat]
Entries  == [bundle : OrNone, until : Nat]
Loadings == [phase : {"idle", "pointer", "bundle"}, lane : Lanes, since : Publication!Clocks,
             bundle : OrNone]
Services == [bundle : OrNone, since : Nat, at : Nat]

PublicationTyped ==
    /\ clock \in Publication!Clocks
    /\ dir \in [Publishers -> Workspaces]
    /\ pub \in [Publishers -> Publications]
    /\ hub \in Seq(Trees) /\ Len(hub) \in 1 .. MaxCommits + 1
    /\ cache \in [Lanes \ {Echo} -> Entries]
    /\ load \in [Readers -> Loadings]
    /\ served \in [Readers -> Services]

\* A bundle as a collector writes it, wherever it has got to.
Dated(b) == b \in Bundles /\ b.created <= clock /\ (b.lane # Echo => b.asOf = b.created)

DatesHold ==
    /\ \A p \in Publishers : dir[p].bundle # None => Dated(dir[p].bundle)
    /\ \A p \in Publishers : pub[p].phase # "idle" => Dated(pub[p].bundle)
    /\ \A n \in DOMAIN hub : \A b \in hub[n].files : Dated(b)

HubHolds ==
    /\ Publication!EveryRevisionIsWhole
    /\ \A n \in DOMAIN hub : hub[n].at <= clock

\* Revision n is revision `base` with the bundle b, and its lane's pointer at it.
AddsTo(b, base, n) ==
    /\ n \in DOMAIN hub /\ base \in DOMAIN hub
    /\ hub[n].adds = b
    /\ hub[n].files \ hub[base].files = {b}
    /\ \A l \in Lanes \ {b.lane} : hub[n].latest[l] = hub[base].latest[l]

\* What a publisher has learned of the hub stays true of it.
Learned(q) ==
    /\ q.phase \in {"resolved", "ready", "committed"} => q.parent \in DOMAIN hub
    /\ q.phase = "ready" =>
         /\ q.bundle \notin hub[q.parent].files
         /\ LET previous == Publication!PointerOf(hub[q.parent], q.bundle.lane)
            IN  previous = None \/ Publication!Follows(q.bundle, previous)
    /\ q.phase = "committed" => AddsTo(q.bundle, q.parent, q.commit)

PublishersHold ==
    /\ \A p \in Publishers : Learned(pub[p])
    /\ \A x \in receipts : AddsTo(x.bundle, x.parent, x.commit)

\* b was its lane's pointer in a revision no later than `until`, whose
\* successor, if it has one, is no earlier than `since`.
Current(b, since, until) ==
    \E n \in DOMAIN hub :
        /\ Publication!PointerOf(hub[n], b.lane) = b
        /\ hub[n].at <= until
        /\ n < Len(hub) => hub[n + 1].at >= since

\* What a thread is loading, what the cache holds and what was returned.
Loads(m) ==
    /\ m.phase # "idle" => m.since <= clock
    /\ m.phase = "bundle" =>
         m.bundle \in Bundles /\ m.bundle.lane = m.lane /\ Current(m.bundle, m.since, clock)

Keeps(l, e) ==
    e.until > 0 =>
        /\ e.bundle \in Bundles /\ e.bundle.lane = l
        /\ \E since \in Nat : /\ since <= clock /\ e.until = since + CacheFor
                              /\ Current(e.bundle, since, clock)

Returned(s) ==
    s.bundle # None =>
        /\ s.bundle \in Bundles /\ s.since - s.bundle.asOf <= SnapshotFreshFor
        /\ \E since \in Nat : /\ since <= clock /\ s.since < since + CacheFor
                              /\ Current(s.bundle, since, s.at)

ReadersHold ==
    /\ \A r \in Readers : Loads(load[r]) /\ Returned(served[r])
    /\ \A l \in Lanes \ {Echo} : Keeps(l, cache[l])

PublicationInv == PublicationTyped /\ DatesHold /\ HubHolds /\ PublishersHold /\ ReadersHold

\* The constants as the configuration of the code has them.
PublicationAssumption ==
    Publication!LaneAssumption /\ Publication!ClockAssumption /\ Publication!NoneAssumption

LEMMA PublicationConstants ==
    ASSUME PublicationAssumption
    PROVE  /\ Echo \in Lanes /\ Dol \in Lanes /\ Echo # Dol /\ None \notin Bundles
           /\ SnapshotFreshFor \in Nat /\ CacheFor \in Nat /\ CacheFor > 0
           /\ MaxClock \in Nat /\ MaxCommits \in Nat /\ Publication!Clocks \subseteq Nat
BY DEF PublicationAssumption, Publication!LaneAssumption, Publication!ClockAssumption,
       Publication!NoneAssumption, Publication!Clocks, Bundles

LEMMA PublicationInit ==
    ASSUME PublicationAssumption, Publication!Init PROVE PublicationInv
<1>1. /\ clock = 0 /\ dir = [p \in Publishers |-> Publication!EmptyDir]
      /\ pub = [p \in Publishers |-> Publication!NotPublishing]
      /\ hub = <<Publication!EmptyTree>> /\ receipts = {}
      /\ cache = [l \in Lanes \ {Echo} |-> Publication!NotCached]
      /\ load = [r \in Readers |-> Publication!NotLoading]
      /\ served = [r \in Readers |-> Publication!NothingServed]
  BY DEF Publication!Init
<1>2. 0 \in Publication!Clocks
  BY PublicationConstants DEF Publication!Clocks
<1>3. Publication!EmptyTree \in Trees
  BY <1>2 DEF Publication!EmptyTree, Trees, OrNone
<1>4. hub \in Seq(Trees) /\ Len(hub) = 1 /\ DOMAIN hub = {1} /\ hub[1] = Publication!EmptyTree
  BY <1>1, <1>3
<1>5. PublicationTyped
  <2>1. /\ Publication!EmptyDir \in Workspaces /\ Publication!NotPublishing \in Publications
        /\ Publication!NotCached \in Entries /\ Publication!NothingServed \in Services
    BY DEF Publication!EmptyDir, Workspaces, Publication!NotPublishing, Publications, OrNone,
           Publication!NotCached, Entries, Publication!NothingServed, Services,
           Publication!Phases
  <2>2. Publication!NotLoading \in Loadings
    BY <1>2, PublicationConstants DEF Publication!NotLoading, Loadings, OrNone
  <2>3. Len(hub) \in 1 .. MaxCommits + 1
    BY <1>4, PublicationConstants
  <2> QED BY <1>1, <1>2, <1>4, <2>1, <2>2, <2>3 DEF PublicationTyped
<1>6. DatesHold
  BY <1>1, <1>4 DEF DatesHold, Publication!EmptyDir, Publication!NotPublishing,
     Publication!EmptyTree
<1>7. HubHolds
  BY <1>1, <1>4, PublicationConstants
     DEF HubHolds, Publication!EveryRevisionIsWhole, Publication!EmptyTree
<1>8. PublishersHold
  BY <1>1 DEF PublishersHold, Learned, Publication!NotPublishing
<1>9. ReadersHold
  BY <1>1 DEF ReadersHold, Loads, Returned, Keeps, Publication!NotLoading,
     Publication!NothingServed, Publication!NotCached
<1> QED BY <1>5, <1>6, <1>7, <1>8, <1>9 DEF PublicationInv


LEMMA LearnedStays ==
    ASSUME NEW q, Learned(q), hub' = hub PROVE Learned(q)'
BY DEF Learned, AddsTo, Publication!PointerOf, Publication!Follows

LEMMA CurrentStays ==
    ASSUME NEW b, NEW since, NEW until, Current(b, since, until), hub' = hub
    PROVE  Current(b, since, until)'
BY DEF Current, Publication!PointerOf

\* A step of a publisher in its workspace or on what it knows of the hub.
LEMMA PublisherMoves ==
    ASSUME PublicationInv, NEW p \in Publishers, NEW q \in Publications,
           pub' = [pub EXCEPT ![p] = q], UNCHANGED <<clock, hub, cache, load, served>>,
           dir' \in [Publishers -> Workspaces],
           \A u \in Publishers : dir'[u].bundle # None => Dated(dir'[u].bundle),
           q.phase # "idle" => Dated(q.bundle), Learned(q),
           \A x \in receipts' \ receipts : AddsTo(x.bundle, x.parent, x.commit)
    PROVE  PublicationInv'
<1>1. PublicationTyped'
  BY DEF PublicationInv, PublicationTyped
<1>2. pub'[p] = q /\ \A u \in Publishers \ {p} : pub'[u] = pub[u]
  BY DEF PublicationInv, PublicationTyped
<1>3. DatesHold'
  BY <1>2 DEF PublicationInv, DatesHold, Dated
<1>4. HubHolds'
  BY DEF PublicationInv, HubHolds, Publication!EveryRevisionIsWhole
<1>5. PublishersHold'
  <2>1. ASSUME NEW u \in Publishers PROVE Learned(pub[u])'
    <3>1. PICK m : m = pub'[u]
      OBVIOUS
    <3>2. Learned(m)
      BY <1>2, <3>1 DEF PublicationInv, PublishersHold
    <3>3. Learned(m)'
      BY <3>2, LearnedStays
    <3> QED BY <3>1, <3>3 DEF Learned, AddsTo
  <2>2. ASSUME NEW x \in receipts' PROVE AddsTo(x.bundle, x.parent, x.commit)'
    BY <2>2 DEF PublicationInv, PublishersHold, AddsTo
  <2> QED BY <2>1, <2>2 DEF PublishersHold
<1>6. ReadersHold'
  BY DEF PublicationInv, ReadersHold, Loads, Keeps, Returned, Current, Publication!PointerOf
<1> QED BY <1>1, <1>3, <1>4, <1>5, <1>6 DEF PublicationInv

LEMMA CollectHolds ==
    ASSUME PublicationAssumption, PublicationInv, NEW p \in Publishers,
           Publication!Collect(p) \/ Publication!SignBundle(p) \/ Publication!NewWorkspace(p)
    PROVE  PublicationInv'
<1>1. UNCHANGED <<clock, pub, hub, receipts, cache, load, served>>
  BY DEF Publication!Collect, Publication!SignBundle, Publication!NewWorkspace
<1>2. dir[p] \in Workspaces /\ (dir[p].bundle # None => Dated(dir[p].bundle))
  BY DEF PublicationInv, PublicationTyped, DatesHold
<1>3. PICK d \in Workspaces :
        dir' = [dir EXCEPT ![p] = d] /\ (d.bundle # None => Dated(d.bundle))
  <2>1. CASE Publication!Collect(p)
    <3>1. PICK b \in Publication!Built(p) : dir' = [dir EXCEPT ![p].bundle = b]
      BY <2>1 DEF Publication!Collect
    <3>2. Dated(b) /\ b \in Bundles
      BY <3>1 DEF Publication!Built, Publication!Fresh, Dated, Bundles
    <3> DEFINE d == [dir[p] EXCEPT !.bundle = b]
    <3>3. d \in Workspaces /\ d.bundle = b /\ dir' = [dir EXCEPT ![p] = d]
      BY <1>2, <3>1, <3>2 DEF Workspaces, OrNone, PublicationInv, PublicationTyped
    <3> HIDE DEF d
    <3> QED BY <3>2, <3>3
  <2>2. CASE Publication!SignBundle(p)
    <3> DEFINE d == [dir[p] EXCEPT !.signed = TRUE]
    <3>1. d \in Workspaces /\ d.bundle = dir[p].bundle
      BY <1>2 DEF Workspaces
    <3>2. dir' = [dir EXCEPT ![p] = d]
      BY <2>2 DEF Publication!SignBundle, PublicationInv, PublicationTyped
    <3> HIDE DEF d
    <3> QED BY <1>2, <3>1, <3>2
  <2>3. CASE Publication!NewWorkspace(p)
    <3>1. Publication!EmptyDir \in Workspaces /\ Publication!EmptyDir.bundle = None
      BY DEF Publication!EmptyDir, Workspaces, OrNone
    <3> QED BY <2>3, <3>1 DEF Publication!NewWorkspace
  <2> QED BY <2>1, <2>2, <2>3
<1>4. dir' \in [Publishers -> Workspaces] /\ dir'[p] = d
      /\ \A u \in Publishers \ {p} : dir'[u] = dir[u]
  BY <1>3 DEF PublicationInv, PublicationTyped
<1>5. \A u \in Publishers : dir'[u].bundle # None => Dated(dir'[u].bundle)
  BY <1>3, <1>4 DEF PublicationInv, DatesHold
<1>6. pub[p] \in Publications /\ (pub[p].phase # "idle" => Dated(pub[p].bundle))
      /\ Learned(pub[p]) /\ pub' = [pub EXCEPT ![p] = pub[p]]
  BY <1>1 DEF PublicationInv, PublicationTyped, DatesHold, PublishersHold
<1> QED BY <1>1, <1>4, <1>5, <1>6, PublisherMoves

\* A publication begins, goes on, is given up or is acknowledged.
LEMMA PublishingHolds ==
    ASSUME PublicationAssumption, PublicationInv, NEW p \in Publishers,
           \/ Publication!Freeze(p) \/ Publication!ResolveHead(p) \/ Publication!CheckParent(p)
           \/ Publication!ReadBack(p) \/ Publication!Stop(p)
    PROVE  PublicationInv'
<1>1. UNCHANGED <<clock, hub, cache, load, served>>
  BY DEF Publication!Freeze, Publication!ResolveHead, Publication!CheckParent,
         Publication!ReadBack, Publication!Stop
<1>2. /\ dir[p] \in Workspaces /\ (dir[p].bundle # None => Dated(dir[p].bundle))
      /\ pub[p] \in Publications /\ (pub[p].phase # "idle" => Dated(pub[p].bundle))
      /\ Learned(pub[p])
  BY DEF PublicationInv, PublicationTyped, DatesHold, PublishersHold
<1>3. Len(hub) \in Nat /\ Len(hub) \in DOMAIN hub
  BY DEF PublicationInv, PublicationTyped
<1>4. \A u \in Publishers : dir[u].bundle # None => Dated(dir[u].bundle)
  BY DEF PublicationInv, DatesHold
<1>5. dir \in [Publishers -> Workspaces]
  BY DEF PublicationInv, PublicationTyped
<1>6. /\ Publication!NotPublishing \in Publications
      /\ Publication!NotPublishing.phase = "idle"
      /\ Learned(Publication!NotPublishing)
  BY DEF Publication!NotPublishing, Publications, OrNone, Publication!Phases, Learned
<1>7. CASE Publication!Freeze(p)
  <2> DEFINE q == [Publication!NotPublishing EXCEPT !.phase = "frozen",
                    !.bundle = dir[p].bundle, !.signed = dir[p].signed]
  <2>1. pub' = [pub EXCEPT ![p] = q] /\ UNCHANGED <<dir, receipts>> /\ dir[p].bundle # None
    BY <1>7 DEF Publication!Freeze
  <2>2. q \in Publications /\ q.phase = "frozen" /\ q.bundle = dir[p].bundle
    BY <1>2, <1>6 DEF Publications, Workspaces, Publication!Phases
  <2> HIDE DEF q
  <2>3. Learned(q)
    BY <2>2 DEF Learned
  <2> QED BY <1>1, <1>2, <1>4, <1>5, <2>1, <2>2, <2>3, PublisherMoves
<1>8. CASE Publication!ResolveHead(p)
  <2> DEFINE q == [pub[p] EXCEPT !.phase = "resolved", !.parent = Len(hub)]
  <2>1. pub' = [pub EXCEPT ![p] = q] /\ UNCHANGED <<dir, receipts>> /\ pub[p].phase = "frozen"
    BY <1>8 DEF Publication!ResolveHead, PublicationInv, PublicationTyped
  <2>2. q \in Publications /\ q.phase = "resolved" /\ q.bundle = pub[p].bundle
        /\ q.parent = Len(hub)
    BY <1>2, <1>3 DEF Publications, Publication!Phases
  <2> HIDE DEF q
  <2>3. Learned(q)
    BY <1>3, <2>2 DEF Learned
  <2> QED BY <1>1, <1>2, <1>4, <1>5, <2>1, <2>2, <2>3, PublisherMoves
<1>9. CASE Publication!CheckParent(p)
  <2> DEFINE q == [pub[p] EXCEPT !.phase = "ready"]
             passed == /\ pub[p].bundle \notin hub[pub[p].parent].files
                       /\ LET previous == Publication!PointerOf(hub[pub[p].parent], pub[p].bundle.lane)
                          IN  previous = None \/ Publication!Follows(pub[p].bundle, previous)
  <2>1. /\ pub[p].phase = "resolved" /\ UNCHANGED <<dir, receipts>>
        /\ pub' = IF passed THEN [pub EXCEPT ![p] = q]
                  ELSE [pub EXCEPT ![p] = Publication!NotPublishing]
    BY <1>9 DEF Publication!CheckParent, PublicationInv, PublicationTyped
  <2>2. q \in Publications /\ q.phase = "ready" /\ q.bundle = pub[p].bundle
        /\ q.parent = pub[p].parent
    BY <1>2 DEF Publications, Publication!Phases
  <2>3. q.parent \in DOMAIN hub
    BY <1>2, <2>1, <2>2 DEF Learned
  <2> HIDE DEF q
  <2>4. CASE passed
    <3>1. Learned(q)
      BY <2>2, <2>3, <2>4 DEF Learned
    <3> QED BY <1>1, <1>2, <1>4, <1>5, <2>1, <2>2, <2>4, <3>1, PublisherMoves
  <2>5. CASE ~passed
    BY <1>1, <1>4, <1>5, <1>6, <2>1, <2>5, PublisherMoves
  <2> QED BY <2>4, <2>5
<1>10. CASE Publication!Stop(p)
  <2>1. pub' = [pub EXCEPT ![p] = Publication!NotPublishing] /\ UNCHANGED <<dir, receipts>>
    BY <1>10 DEF Publication!Stop
  <2> QED BY <1>1, <1>4, <1>5, <1>6, <2>1, PublisherMoves
<1>11. CASE Publication!ReadBack(p)
  <2> DEFINE x == [bundle |-> pub[p].bundle, parent |-> pub[p].parent, commit |-> pub[p].commit]
             d == [dir[p] EXCEPT !.receipt = TRUE]
  <2>1. /\ pub[p].phase = "committed" /\ receipts' = receipts \cup {x}
        /\ pub' = [pub EXCEPT ![p] = Publication!NotPublishing]
        /\ dir' = [dir EXCEPT ![p] = d]
    BY <1>11 DEF Publication!ReadBack, PublicationInv, PublicationTyped
  <2>2. AddsTo(x.bundle, x.parent, x.commit)
    BY <1>2, <2>1 DEF Learned
  <2>3. d \in Workspaces /\ d.bundle = dir[p].bundle
    BY <1>2 DEF Workspaces
  <2> HIDE DEF d, x
  <2>4. dir' \in [Publishers -> Workspaces] /\ dir'[p] = d
        /\ \A u \in Publishers \ {p} : dir'[u] = dir[u]
    BY <1>5, <2>1, <2>3
  <2>5. \A u \in Publishers : dir'[u].bundle # None => Dated(dir'[u].bundle)
    BY <1>4, <2>3, <2>4
  <2>6. \A y \in receipts' \ receipts : AddsTo(y.bundle, y.parent, y.commit)
    BY <2>1, <2>2
  <2> QED BY <1>1, <1>6, <2>1, <2>4, <2>5, <2>6, PublisherMoves
<1> QED BY <1>7, <1>8, <1>9, <1>10, <1>11


\* The hub with one more revision.
LEMMA OneMoreRevision ==
    ASSUME hub \in Seq(Trees), NEW t \in Trees, hub' = Append(hub, t)
    PROVE  /\ hub' \in Seq(Trees) /\ Len(hub) \in Nat /\ Len(hub') = Len(hub) + 1
           /\ DOMAIN hub = 1 .. Len(hub) /\ DOMAIN hub' = 1 .. Len(hub) + 1
           /\ hub'[Len(hub) + 1] = t /\ \A n \in DOMAIN hub : hub'[n] = hub[n]
BY AppendProperties, LenProperties

LEMMA LearnedOfMore ==
    ASSUME hub \in Seq(Trees), NEW t \in Trees, hub' = Append(hub, t), NEW q, Learned(q)
    PROVE  Learned(q)'
<1>1. DOMAIN hub \subseteq DOMAIN hub' /\ \A n \in DOMAIN hub : hub'[n] = hub[n]
  BY OneMoreRevision
<1> QED BY <1>1 DEF Learned, AddsTo, Publication!PointerOf, Publication!Follows

\* A pointer that was current is replaced, if at all, by the new revision.
LEMMA CurrentOfMore ==
    ASSUME hub \in Seq(Trees), NEW t \in Trees, hub' = Append(hub, t), t.at = clock,
           clock \in Nat, NEW b, NEW since \in Nat, since <= clock, NEW until,
           Current(b, since, until)
    PROVE  Current(b, since, until)'
<1>1. /\ Len(hub) \in Nat /\ Len(hub') = Len(hub) + 1 /\ DOMAIN hub = 1 .. Len(hub)
      /\ DOMAIN hub' = 1 .. Len(hub) + 1
      /\ hub'[Len(hub) + 1] = t /\ \A n \in DOMAIN hub : hub'[n] = hub[n]
  BY OneMoreRevision
<1>2. PICK n \in DOMAIN hub :
        /\ Publication!PointerOf(hub[n], b.lane) = b /\ hub[n].at <= until
        /\ n < Len(hub) => hub[n + 1].at >= since
  BY DEF Current
<1>3. n \in DOMAIN hub' /\ hub'[n] = hub[n] /\ n \in Nat /\ n <= Len(hub)
  BY <1>1
<1>4. hub'[n + 1].at >= since
  <2>1. CASE n < Len(hub)
    BY <1>1, <1>2, <1>3, <2>1
  <2>2. CASE n = Len(hub)
    BY <1>1, <2>2
  <2> QED BY <1>1, <1>3, <2>1, <2>2
<1> QED BY <1>2, <1>3, <1>4 DEF Current, Publication!PointerOf

\* What the commit of p would write.
Proposed(p) == Publication!Tree(Publication!Main, pub[p].bundle, pub[p].signed)

LEMMA ProposedTree ==
    ASSUME PublicationAssumption, PublicationInv, NEW p \in Publishers, pub[p].phase = "ready",
           pub[p].parent = Len(hub)
    PROVE  /\ Proposed(p) \in Trees /\ Proposed(p).at = clock
           /\ Proposed(p).adds = pub[p].bundle
           /\ Proposed(p).files = Publication!Main.files \cup {pub[p].bundle}
           /\ Proposed(p).latest
                = [Publication!Main.latest EXCEPT ![pub[p].bundle.lane] = pub[p].bundle]
           /\ Proposed(p).compat = IF pub[p].bundle.lane = Echo THEN pub[p].bundle
                                   ELSE Publication!Main.compat
           /\ pub[p].bundle \in Bundles /\ pub[p].bundle.lane \in Lanes
           /\ pub[p].bundle \notin Publication!Main.files
<1>1. pub[p].bundle \in Bundles /\ pub[p].bundle.lane \in Lanes /\ pub[p] \in Publications
  BY DEF PublicationInv, DatesHold, Dated, PublicationTyped, Bundles, Publication!Bundles
<1>2. Publication!Main \in Trees /\ clock \in Publication!Clocks
  BY LenProperties, ElementOfSeq DEF PublicationInv, PublicationTyped, Publication!Main
<1>3. pub[p].bundle \notin Publication!Main.files
  BY DEF PublicationInv, PublishersHold, Learned, Publication!Main
<1>4. Proposed(p) \in Trees
  BY <1>1, <1>2 DEF Proposed, Publication!Tree, Trees, OrNone
<1> QED BY <1>1, <1>3, <1>4 DEF Proposed, Publication!Tree

LEMMA CommitHolds ==
    ASSUME PublicationAssumption, PublicationInv, NEW p \in Publishers, Publication!Commit(p)
    PROVE  PublicationInv'
<1>1. /\ pub[p].phase = "ready" /\ UNCHANGED <<clock, dir, receipts, cache, load, served>>
      /\ pub[p] \in Publications /\ Learned(pub[p]) /\ Dated(pub[p].bundle)
      /\ dir \in [Publishers -> Workspaces]
  BY DEF Publication!Commit, PublicationInv, PublicationTyped, DatesHold, PublishersHold
<1>2. /\ Publication!NotPublishing \in Publications
      /\ Publication!NotPublishing.phase = "idle"
      /\ Learned(Publication!NotPublishing)
  BY DEF Publication!NotPublishing, Publications, OrNone, Publication!Phases, Learned
<1>3. CASE ~Publication!HubAccepts(p)
  <2>1. pub' = [pub EXCEPT ![p] = Publication!NotPublishing] /\ hub' = hub
    BY <1>3 DEF Publication!Commit
  <2>2. \A u \in Publishers : dir[u].bundle # None => Dated(dir[u].bundle)
    BY DEF PublicationInv, DatesHold
  <2> QED BY <1>1, <1>2, <2>1, <2>2, PublisherMoves
<1>4. CASE Publication!HubAccepts(p)
  <2> DEFINE made == [pub[p] EXCEPT !.phase = "committed", !.commit = Len(hub) + 1]
  <2>0. Len(hub) \in Nat
    BY LenProperties DEF PublicationInv, PublicationTyped
  <2>a. /\ made \in Publications /\ made.phase = "committed" /\ made.bundle = pub[p].bundle
        /\ made.parent = pub[p].parent /\ made.commit = Len(hub) + 1
    <3>1. pub[p] \in Publications
      BY <1>1
    <3>2. Len(hub) + 1 \in Nat
      BY <2>0
    <3>3. made \in Publications
      BY <3>1, <3>2 DEF Publications, Publication!Phases
    <3>4. /\ made.phase = "committed" /\ made.bundle = pub[p].bundle
          /\ made.parent = pub[p].parent /\ made.commit = Len(hub) + 1
      BY <3>1 DEF Publications
    <3> QED BY <3>3, <3>4
  <2>b. \/ pub' = [pub EXCEPT ![p] = made]
        \/ pub' = [pub EXCEPT ![p] = Publication!NotPublishing]
    <3>1. \/ pub' = [pub EXCEPT ![p].phase = "committed", ![p].commit = Len(hub) + 1]
          \/ pub' = [pub EXCEPT ![p] = Publication!NotPublishing]
      BY <1>4 DEF Publication!Commit
    <3>2. pub \in [Publishers -> Publications]
      BY DEF PublicationInv, PublicationTyped
    <3>3. [pub EXCEPT ![p].phase = "committed", ![p].commit = Len(hub) + 1]
            = [pub EXCEPT ![p] = made]
      BY <3>2
    <3> QED BY <3>1, <3>3
  <2> HIDE DEF made
  <2>1. PICK t, b, n, q : t = Proposed(p) /\ b = pub[p].bundle /\ n = Len(hub) /\ q = made
    OBVIOUS
  <2>2. /\ pub[p].parent = n /\ n <= MaxCommits /\ hub' = Append(hub, t)
        /\ \/ pub' = [pub EXCEPT ![p] = q]
           \/ pub' = [pub EXCEPT ![p] = Publication!NotPublishing]
    BY <1>1, <1>4, <2>1, <2>b DEF Publication!Commit, Publication!HubAccepts, Proposed
  <2>3. /\ t \in Trees /\ t.at = clock /\ t.adds = b
        /\ t.files = Publication!Main.files \cup {b}
        /\ t.latest = [Publication!Main.latest EXCEPT ![b.lane] = b]
        /\ t.compat = IF b.lane = Echo THEN b ELSE Publication!Main.compat
        /\ b \in Bundles /\ b.lane \in Lanes /\ b \notin Publication!Main.files
    BY <1>1, <2>1, <2>2, ProposedTree
  <2>4. /\ hub \in Seq(Trees) /\ hub' \in Seq(Trees)
        /\ n \in Nat /\ n > 0 /\ Len(hub') = n + 1
        /\ DOMAIN hub = 1 .. n /\ DOMAIN hub' = 1 .. n + 1
        /\ hub'[n + 1] = t /\ \A m \in DOMAIN hub : hub'[m] = hub[m]
    BY <2>1, <2>2, <2>3, OneMoreRevision DEF PublicationInv, PublicationTyped
  <2>5. /\ clock \in Nat /\ MaxCommits \in Nat /\ None \notin Bundles
        /\ Echo \in Lanes /\ Publication!Main = hub[n] /\ hub[n] \in Trees
    BY <2>1, <2>4, PublicationConstants, ElementOfSeq
       DEF PublicationInv, PublicationTyped, Publication!Main
  <2>6. q \in Publications /\ q.phase = "committed" /\ q.bundle = b
        /\ q.parent = n /\ q.commit = n + 1
    BY <2>1, <2>2, <2>a
  <2>7. AddsTo(b, n, n + 1)'
    <3>1. t.files \ hub[n].files = {b}
      BY <2>3, <2>5
    <3>2. \A l \in Lanes \ {b.lane} : t.latest[l] = hub[n].latest[l]
      BY <2>3, <2>5 DEF Trees
    <3>3. n + 1 \in DOMAIN hub' /\ n \in DOMAIN hub' /\ hub'[n + 1] = t /\ hub'[n] = hub[n]
      BY <2>4
    <3> QED BY <2>3, <3>1, <3>2, <3>3 DEF AddsTo
  <2>8. PICK r \in {q, Publication!NotPublishing} : pub' = [pub EXCEPT ![p] = r]
    BY <2>2
  <2>9. r \in Publications /\ (r.phase # "idle" => Dated(r.bundle)) /\ Learned(r)'
    <3>1. CASE r = q
      <4>1. AddsTo(q.bundle, q.parent, q.commit)'
        BY <2>6, <2>7 DEF AddsTo
      <4>2. q.parent \in DOMAIN hub'
        BY <2>4, <2>6
      <4>3. Learned(q)'
        BY <2>6, <4>1, <4>2 DEF Learned
      <4> QED BY <1>1, <2>1, <2>6, <3>1, <4>3 DEF Learned, AddsTo
    <3>2. CASE r = Publication!NotPublishing
      BY <1>2, <2>2, <2>3, <2>4, <3>2, LearnedOfMore
    <3> QED BY <3>1, <3>2
  <2>10. pub' \in [Publishers -> Publications] /\ pub'[p] = r
         /\ \A u \in Publishers \ {p} : pub'[u] = pub[u]
    BY <2>8, <2>9 DEF PublicationInv, PublicationTyped
  <2>11. PublicationTyped'
    <3>1. Len(hub') \in 1 .. MaxCommits + 1
      BY <2>2, <2>4, <2>5
    <3> QED BY <1>1, <2>4, <2>10, <3>1 DEF PublicationInv, PublicationTyped
  <2>12. DatesHold'
    <3>1. ASSUME NEW m \in DOMAIN hub', NEW c \in hub'[m].files PROVE Dated(c)
      <4>1. CASE m = n + 1
        <5>1. c \in hub[n].files \/ c = b
          BY <2>3, <2>4, <2>5, <3>1, <4>1
        <5> QED BY <1>1, <2>1, <2>4, <5>1 DEF PublicationInv, DatesHold
      <4>2. CASE m # n + 1
        BY <2>4, <3>1, <4>2 DEF PublicationInv, DatesHold
      <4> QED BY <4>1, <4>2
    <3> QED BY <1>1, <2>9, <2>10, <3>1 DEF PublicationInv, DatesHold, Dated
  <2>13. HubHolds'
    <3>1. /\ \A l \in Lanes : hub[n].latest[l] # None =>
               hub[n].latest[l] \in hub[n].files /\ hub[n].latest[l].lane = l
          /\ hub[n].compat = hub[n].latest[Echo]
      BY <2>4 DEF PublicationInv, HubHolds, Publication!EveryRevisionIsWhole
    <3>2. /\ \A l \in Lanes : t.latest[l] # None => t.latest[l] \in t.files /\ t.latest[l].lane = l
          /\ t.compat = t.latest[Echo]
      BY <2>3, <2>5, <3>1 DEF Trees
    <3>3. ASSUME NEW m \in DOMAIN hub'
          PROVE  /\ \A l \in Lanes : hub'[m].latest[l] # None =>
                      hub'[m].latest[l] \in hub'[m].files /\ hub'[m].latest[l].lane = l
                 /\ hub'[m].compat = hub'[m].latest[Echo]
                 /\ m > 1 => hub'[m - 1].files \subseteq hub'[m].files
                 /\ hub'[m].at <= clock
      <4>1. CASE m = n + 1
        <5>1. m - 1 = n /\ n \in DOMAIN hub
          BY <2>4, <4>1
        <5>2. hub'[m] = t /\ hub'[m - 1] = hub[n]
          BY <2>4, <4>1, <5>1
        <5>3. hub[n].files \subseteq t.files /\ t.at <= clock
          BY <2>3, <2>5
        <5> QED BY <3>2, <5>2, <5>3
      <4>2. CASE m # n + 1
        <5>1. m \in DOMAIN hub /\ hub'[m] = hub[m] /\ (m > 1 => hub'[m - 1] = hub[m - 1])
          BY <2>4, <4>2
        <5> QED BY <5>1 DEF PublicationInv, HubHolds, Publication!EveryRevisionIsWhole
      <4> QED BY <4>1, <4>2
    <3> QED BY <1>1, <3>3 DEF HubHolds, Publication!EveryRevisionIsWhole
  <2>14. PublishersHold'
    <3>1. ASSUME NEW u \in Publishers PROVE Learned(pub[u])'
      <4>1. PICK m : m = pub'[u]
        OBVIOUS
      <4>2. Learned(m)'
        <5>1. CASE u = p
          BY <2>9, <2>10, <4>1, <5>1
        <5>2. CASE u # p
          <6>1. Learned(m)
            BY <2>10, <4>1, <5>2 DEF PublicationInv, PublishersHold
          <6> QED BY <2>2, <2>3, <2>4, <6>1, LearnedOfMore
        <5> QED BY <5>1, <5>2
      <4> QED BY <4>1, <4>2 DEF Learned, AddsTo
    <3>2. ASSUME NEW x \in receipts' PROVE AddsTo(x.bundle, x.parent, x.commit)'
      <4>1. AddsTo(x.bundle, x.parent, x.commit)
        BY <1>1, <3>2 DEF PublicationInv, PublishersHold
      <4> QED BY <2>4, <4>1 DEF AddsTo
    <3> QED BY <3>1, <3>2 DEF PublishersHold
  <2>15. ReadersHold'
    <3>1. ASSUME NEW c, NEW since \in Nat, since <= clock, NEW until, Current(c, since, until)
          PROVE  Current(c, since, until)'
      BY <2>2, <2>3, <2>4, <2>5, <3>1, CurrentOfMore
    <3>2. ASSUME NEW m \in Loadings, Loads(m) PROVE Loads(m)'
      <4>1. m.since \in Nat
        BY PublicationConstants DEF Loadings
      <4>2. PICK now1 : now1 = clock
        OBVIOUS
      <4>3. m.phase = "bundle" => Current(m.bundle, m.since, now1)'
        BY <3>1, <3>2, <4>1, <4>2 DEF Loads
      <4> QED BY <1>1, <3>2, <4>2, <4>3 DEF Loads, Current
    <3>3. ASSUME NEW s, Returned(s) PROVE Returned(s)'
      BY <1>1, <3>1, <3>3 DEF Returned
    <3>4. ASSUME NEW l, NEW e, Keeps(l, e) PROVE Keeps(l, e)'
      <4>1. PICK now1 : now1 = clock
        OBVIOUS
      <4>2. ASSUME NEW since \in Nat, since <= clock, Current(e.bundle, since, now1)
            PROVE  Current(e.bundle, since, now1)'
        BY <3>1, <4>2
      <4> QED BY <1>1, <3>4, <4>1, <4>2 DEF Keeps, Current
    <3>5. ASSUME NEW r1 \in Readers PROVE Loads(load[r1])' /\ Returned(served[r1])'
      <4>1. PICK m, s : m = load[r1] /\ s = served[r1]
        OBVIOUS
      <4>2. Loads(m)' /\ Returned(s)'
        BY <3>2, <3>3, <4>1 DEF PublicationInv, PublicationTyped, ReadersHold
      <4> QED BY <1>1, <4>1, <4>2 DEF Loads, Returned, Current
    <3>6. ASSUME NEW l \in Lanes \ {Echo} PROVE Keeps(l, cache[l])'
      <4>1. PICK e : e = cache[l]
        OBVIOUS
      <4>2. Keeps(l, e)'
        BY <3>4, <4>1 DEF PublicationInv, ReadersHold
      <4> QED BY <1>1, <4>1, <4>2 DEF Keeps, Current
    <3> QED BY <3>5, <3>6 DEF ReadersHold
  <2> QED BY <2>11, <2>12, <2>13, <2>14, <2>15 DEF PublicationInv
<1> QED BY <1>3, <1>4


\* A step of a reader.
LEMMA ReaderMoves ==
    ASSUME PublicationInv, NEW r \in Readers, NEW m \in Loadings, NEW s \in Services,
           load' = [load EXCEPT ![r] = m], served' = [served EXCEPT ![r] = s],
           Loads(m), Returned(s), UNCHANGED <<clock, dir, pub, hub, receipts>>,
           cache' \in [Lanes \ {Echo} -> Entries],
           \A l \in Lanes \ {Echo} : Keeps(l, cache'[l])
    PROVE  PublicationInv'
<1>1. PublicationTyped'
  BY DEF PublicationInv, PublicationTyped
<1>2. /\ load'[r] = m /\ \A u \in Readers \ {r} : load'[u] = load[u]
      /\ served'[r] = s /\ \A u \in Readers \ {r} : served'[u] = served[u]
  BY DEF PublicationInv, PublicationTyped
<1>3. DatesHold'
  BY DEF PublicationInv, DatesHold, Dated
<1>4. HubHolds'
  BY DEF PublicationInv, HubHolds, Publication!EveryRevisionIsWhole
<1>5. PublishersHold'
  BY DEF PublicationInv, PublishersHold, Learned, AddsTo, Publication!PointerOf,
         Publication!Follows
<1>6. ReadersHold'
  <2>1. ASSUME NEW u \in Readers PROVE Loads(load[u])' /\ Returned(served[u])'
    <3>1. PICK v, w : v = load'[u] /\ w = served'[u]
      OBVIOUS
    <3>2. Loads(v) /\ Returned(w)
      BY <1>2, <3>1 DEF PublicationInv, ReadersHold
    <3> QED BY <3>1, <3>2 DEF Loads, Returned, Current, Publication!PointerOf
  <2>2. ASSUME NEW l \in Lanes \ {Echo} PROVE Keeps(l, cache[l])'
    BY DEF Keeps, Current, Publication!PointerOf
  <2> QED BY <2>1, <2>2 DEF ReadersHold
<1> QED BY <1>1, <1>3, <1>4, <1>5, <1>6 DEF PublicationInv

\* Where a lane's pointer leads.
LEMMA PointersLead ==
    ASSUME PublicationAssumption, PublicationInv, NEW n \in DOMAIN hub, NEW l \in Lanes,
           Publication!PointerOf(hub[n], l) # None
    PROVE  /\ Publication!PointerOf(hub[n], l) \in hub[n].files
           /\ Publication!PointerOf(hub[n], l).lane = l
           /\ Dated(Publication!PointerOf(hub[n], l))
<1>1. Publication!PointerOf(hub[n], l) = hub[n].latest[l]
  BY DEF PublicationInv, HubHolds, Publication!EveryRevisionIsWhole, Publication!PointerOf
<1>2. hub[n].latest[l] \in hub[n].files /\ hub[n].latest[l].lane = l
  BY <1>1 DEF PublicationInv, HubHolds, Publication!EveryRevisionIsWhole
<1> QED BY <1>1, <1>2 DEF PublicationInv, DatesHold

LEMMA ReaderHolds ==
    ASSUME PublicationAssumption, PublicationInv, NEW r \in Readers, Publication!ReaderStep(r)
    PROVE  PublicationInv'
<1>1. UNCHANGED <<clock, dir, pub, hub, receipts>>
  BY DEF Publication!ReaderStep, Publication!BeginLoad, Publication!ReadPointer,
         Publication!ReadBundle, Publication!ReaderFails
<1>2. /\ load \in [Readers -> Loadings] /\ load[r] \in Loadings /\ Loads(load[r])
      /\ served \in [Readers -> Services] /\ served[r] \in Services /\ Returned(served[r])
      /\ cache \in [Lanes \ {Echo} -> Entries]
      /\ \A l \in Lanes \ {Echo} : Keeps(l, cache[l])
  BY DEF PublicationInv, PublicationTyped, ReadersHold
<1>3. /\ clock \in Nat /\ clock \in Publication!Clocks /\ Publication!Clocks \subseteq Nat
      /\ None \notin Bundles /\ Echo \in Lanes /\ CacheFor \in Nat /\ CacheFor > 0
  BY PublicationConstants DEF PublicationInv, PublicationTyped
<1>4. /\ Publication!NotLoading \in Loadings /\ Loads(Publication!NotLoading)
      /\ Publication!NothingServed \in Services /\ Returned(Publication!NothingServed)
  <2>1. 0 \in Publication!Clocks
    BY PublicationConstants DEF Publication!Clocks
  <2> QED BY <1>3, <2>1 DEF Publication!NotLoading, Loadings, Loads, OrNone,
             Publication!NothingServed, Services, Returned
<1>5. served = [served EXCEPT ![r] = served[r]]
  BY <1>2
<1>6. ASSUME NEW l \in Lanes, Publication!BeginLoad(r, l) PROVE PublicationInv'
  <2>1. UNCHANGED cache
    BY <1>6 DEF Publication!BeginLoad
  <2>2. CASE l # Echo /\ Publication!CacheHolds(l)
    <3>1. PICK e, s : e = cache[l] /\ s = [bundle |-> e.bundle, since |-> clock, at |-> clock]
      OBVIOUS
    <3>2. /\ load' = [load EXCEPT ![r] = Publication!NotLoading]
          /\ served' = [served EXCEPT ![r] = s]
      BY <1>6, <2>2, <3>1 DEF Publication!BeginLoad, Publication!Returns
    <3>3. e \in Entries /\ e.until > clock /\ clock - e.bundle.created <= SnapshotFreshFor
      BY <1>2, <2>2, <3>1 DEF Publication!CacheHolds
    <3>4. e.until \in Nat /\ e.until > 0
      BY <1>3, <3>3 DEF Entries
    <3>5. e.bundle \in Bundles /\ e.bundle.lane = l
      BY <1>2, <2>2, <3>1, <3>4 DEF Keeps
    <3>6. PICK since \in Nat : /\ since <= clock /\ e.until = since + CacheFor
                               /\ Current(e.bundle, since, clock)
      BY <1>2, <2>2, <3>1, <3>4 DEF Keeps
    <3>7. PICK n \in DOMAIN hub : Publication!PointerOf(hub[n], l) = e.bundle
      BY <3>5, <3>6 DEF Current
    <3>8. e.bundle.asOf = e.bundle.created
      BY <1>3, <2>2, <3>5, <3>7, PointersLead DEF Dated
    <3>9. s \in Services /\ s.bundle = e.bundle /\ s.since = clock /\ s.at = clock
      BY <1>3, <3>1, <3>5 DEF Services, OrNone
    <3>10. Returned(s)
      BY <3>3, <3>5, <3>6, <3>8, <3>9 DEF Returned
    <3> QED BY <1>1, <1>2, <1>4, <2>1, <3>2, <3>9, <3>10, ReaderMoves
  <2>3. CASE ~(l # Echo /\ Publication!CacheHolds(l))
    <3>1. PICK m : m = [phase |-> "pointer", lane |-> l, since |-> clock, bundle |-> None]
      OBVIOUS
    <3>2. /\ load' = [load EXCEPT ![r] = m]
          /\ served' = [served EXCEPT ![r] = Publication!NothingServed]
      BY <1>6, <2>3, <3>1 DEF Publication!BeginLoad
    <3>3. m \in Loadings /\ Loads(m)
      BY <1>3, <3>1 DEF Loadings, OrNone, Loads
    <3> QED BY <1>1, <1>2, <1>4, <2>1, <3>2, <3>3, ReaderMoves
  <2> QED BY <2>2, <2>3
<1>7. CASE Publication!ReadPointer(r)
  <2>1. PICK b, l, n : /\ l = load[r].lane /\ b = Publication!PointerOf(Publication!Main, l)
                       /\ n = Len(hub)
    OBVIOUS
  <2>2. load[r].phase = "pointer" /\ UNCHANGED <<cache, served>> /\ l \in Lanes
    BY <1>2, <1>7, <2>1 DEF Publication!ReadPointer, Loadings
  <2>3. CASE b = None
    <3>1. load' = [load EXCEPT ![r] = Publication!NotLoading]
      BY <1>7, <2>1, <2>3 DEF Publication!ReadPointer
    <3> QED BY <1>1, <1>2, <1>4, <1>5, <2>2, <3>1, ReaderMoves
  <2>4. CASE b # None
    <3> DEFINE m == [load[r] EXCEPT !.phase = "bundle", !.bundle = b]
    <3>1. load' = [load EXCEPT ![r] = m]
      BY <1>2, <1>7, <2>1, <2>4 DEF Publication!ReadPointer
    <3>2. n \in DOMAIN hub /\ n \in Nat /\ b = Publication!PointerOf(hub[n], l)
      BY <2>1, LenProperties DEF PublicationInv, PublicationTyped, Publication!Main
    <3>3. b \in Bundles /\ b.lane = l
      BY <2>2, <2>4, <3>2, PointersLead DEF Dated
    <3>4. /\ m \in Loadings
      BY <1>2, <3>3 DEF Loadings, OrNone
    <3>5. m.phase = "bundle" /\ m.bundle = b /\ m.lane = l /\ m.since = load[r].since
      BY <1>2, <2>1 DEF Loadings
    <3> HIDE DEF m
    <3>6. hub[n].at <= clock
      BY <3>2 DEF PublicationInv, HubHolds
    <3>7. Current(b, m.since, clock)
      BY <2>1, <3>2, <3>3, <3>6 DEF Current
    <3>8. m.since <= clock
      BY <1>2, <2>2, <3>5 DEF Loads
    <3>9. Loads(m)
      BY <3>3, <3>5, <3>7, <3>8 DEF Loads
    <3> QED BY <1>1, <1>2, <1>5, <2>2, <3>1, <3>4, <3>9, ReaderMoves
  <2> QED BY <2>3, <2>4
<1>8. CASE Publication!ReadBundle(r)
  <2>1. PICK b, l, since : b = load[r].bundle /\ l = load[r].lane /\ since = load[r].since
    OBVIOUS
  <2>2. /\ load[r].phase = "bundle" /\ l \in Lanes /\ since \in Nat /\ since <= clock
        /\ b \in Bundles /\ b.lane = l /\ Current(b, since, clock)
    BY <1>2, <1>3, <1>8, <2>1 DEF Publication!ReadBundle, Loadings, Loads
  <2>3. CASE b \in Publication!Main.files /\ Publication!Fresh(b, since)
    <3>1. PICK s, e : /\ s = [bundle |-> b, since |-> since, at |-> clock]
                      /\ e = [bundle |-> b, until |-> since + CacheFor]
      OBVIOUS
    <3>2. /\ load' = [load EXCEPT ![r] = Publication!NotLoading]
          /\ served' = [served EXCEPT ![r] = s]
          /\ cache' = IF l = Echo THEN cache ELSE [cache EXCEPT ![l] = e]
      BY <1>8, <2>1, <2>3, <3>1 DEF Publication!ReadBundle, Publication!Returns
    <3>3. /\ s \in Services /\ s.bundle = b /\ s.since = since /\ s.at = clock
          /\ e \in Entries /\ e.bundle = b /\ e.until = since + CacheFor
      BY <1>3, <2>2, <3>1 DEF Services, Entries, OrNone
    <3>4. since - b.asOf <= SnapshotFreshFor
      BY <2>3 DEF Publication!Fresh
    <3>5. Returned(s)
      BY <1>3, <2>2, <3>3, <3>4 DEF Returned
    <3>6. Keeps(l, e)
      BY <2>2, <3>3 DEF Keeps
    <3>7. cache' \in [Lanes \ {Echo} -> Entries]
          /\ \A k \in Lanes \ {Echo} : Keeps(k, cache'[k])
      <4>1. CASE l = Echo
        BY <1>2, <3>2, <4>1
      <4>2. CASE l # Echo
        <5>1. cache' = [cache EXCEPT ![l] = e]
          BY <3>2, <4>2
        <5>2. cache' \in [Lanes \ {Echo} -> Entries] /\ cache'[l] = e
              /\ \A k \in Lanes \ {Echo, l} : cache'[k] = cache[k]
          BY <1>2, <2>2, <3>3, <4>2, <5>1
        <5> QED BY <1>2, <3>6, <5>2
      <4> QED BY <4>1, <4>2
    <3> QED BY <1>1, <1>4, <3>2, <3>3, <3>5, <3>7, ReaderMoves
  <2>4. CASE ~(b \in Publication!Main.files /\ Publication!Fresh(b, since))
    <3>1. load' = [load EXCEPT ![r] = Publication!NotLoading] /\ UNCHANGED <<cache, served>>
      BY <1>8, <2>1, <2>4 DEF Publication!ReadBundle
    <3> QED BY <1>1, <1>2, <1>4, <1>5, <3>1, ReaderMoves
  <2> QED BY <2>3, <2>4
<1>9. CASE Publication!ReaderFails(r)
  <2>1. load' = [load EXCEPT ![r] = Publication!NotLoading] /\ UNCHANGED <<cache, served>>
    BY <1>9 DEF Publication!ReaderFails
  <2> QED BY <1>1, <1>2, <1>4, <1>5, <2>1, ReaderMoves
<1> QED BY <1>6, <1>7, <1>8, <1>9 DEF Publication!ReaderStep

\* Time passes: what was so at the old time is so at the new one.
LEMMA TickHolds ==
    ASSUME PublicationAssumption, PublicationInv, Publication!Tick PROVE PublicationInv'
<1>1. /\ clock' = clock + 1 /\ clock < MaxClock
      /\ UNCHANGED <<dir, pub, hub, receipts, cache, load, served>>
  BY DEF Publication!Tick
<1>2. /\ clock \in Nat /\ MaxClock \in Nat /\ Publication!Clocks \subseteq Nat
  BY PublicationConstants DEF PublicationInv, PublicationTyped
<1>3. clock' \in Publication!Clocks /\ clock' \in Nat /\ clock <= clock'
  BY <1>1, <1>2 DEF Publication!Clocks
<1>4. PublicationTyped'
  BY <1>1, <1>3 DEF PublicationInv, PublicationTyped
<1>5. DatesHold'
  <2>1. ASSUME NEW b, Dated(b) PROVE Dated(b)'
    <3>1. b.created \in Nat
      BY <1>2, <2>1 DEF Dated, Bundles, Publication!Bundles
    <3> QED BY <1>1, <1>2, <2>1, <3>1 DEF Dated
  <2>2. ASSUME NEW p \in Publishers, dir[p].bundle # None PROVE Dated(dir[p].bundle)'
    <3>1. PICK b : b = dir[p].bundle
      OBVIOUS
    <3>2. Dated(b)'
      BY <2>1, <2>2, <3>1 DEF PublicationInv, DatesHold
    <3> QED BY <1>1, <3>1, <3>2 DEF Dated
  <2>3. ASSUME NEW p \in Publishers, pub[p].phase # "idle" PROVE Dated(pub[p].bundle)'
    <3>1. PICK b : b = pub[p].bundle
      OBVIOUS
    <3>2. Dated(b)'
      BY <2>1, <2>3, <3>1 DEF PublicationInv, DatesHold
    <3> QED BY <1>1, <3>1, <3>2 DEF Dated
  <2>4. \A n \in DOMAIN hub : \A b \in hub[n].files : Dated(b)'
    BY <2>1 DEF PublicationInv, DatesHold
  <2> QED BY <1>1, <2>2, <2>3, <2>4 DEF DatesHold
<1>6. HubHolds'
  <2>1. ASSUME NEW n \in DOMAIN hub PROVE hub[n].at <= clock'
    <3>1. hub[n].at <= clock /\ hub[n].at \in Nat
      <4>1. hub[n] \in Trees
        BY ElementOfSeq DEF PublicationInv, PublicationTyped
      <4>2. hub[n].at \in Nat
        BY <1>2, <4>1 DEF Trees
      <4> QED BY <4>2 DEF PublicationInv, HubHolds
    <3> QED BY <1>1, <1>2, <3>1
  <2> QED BY <1>1, <2>1 DEF PublicationInv, HubHolds, Publication!EveryRevisionIsWhole
<1>7. PublishersHold'
  BY <1>1 DEF PublicationInv, PublishersHold, Learned, AddsTo, Publication!PointerOf,
         Publication!Follows
<1>8. ReadersHold'
  <2>1. ASSUME NEW b, NEW since, Current(b, since, clock) PROVE Current(b, since, clock')
    <3>1. PICK n \in DOMAIN hub :
            /\ Publication!PointerOf(hub[n], b.lane) = b /\ hub[n].at <= clock
            /\ n < Len(hub) => hub[n + 1].at >= since
      BY <2>1 DEF Current
    <3>2. hub[n].at <= clock'
      BY <1>1, <1>6 DEF HubHolds
    <3> QED BY <3>1, <3>2 DEF Current
  <2>2. ASSUME NEW b, NEW since, NEW until, Current(b, since, until)
        PROVE  Current(b, since, until)'
    BY <1>1, <2>2, CurrentStays
  <2>3. PICK later : later = clock'
    OBVIOUS
  <2>4. ASSUME NEW u \in Readers PROVE Loads(load[u])' /\ Returned(served[u])'
    <3>1. PICK v, w : v = load[u] /\ w = served[u]
      OBVIOUS
    <3>2. Loads(v) /\ Returned(w) /\ v \in Loadings
      BY <3>1 DEF PublicationInv, PublicationTyped, ReadersHold
    <3>3. v.phase # "idle" => v.since <= later
      <4>1. v.since \in Nat
        BY <1>2, <3>2 DEF Loadings
      <4> QED BY <1>1, <1>2, <2>3, <3>2, <4>1 DEF Loads
    <3>4. v.phase = "bundle" => Current(v.bundle, v.since, later)'
      BY <2>1, <2>2, <2>3, <3>2 DEF Loads
    <3>5. Loads(v)'
      BY <2>3, <3>2, <3>3, <3>4 DEF Loads, Current
    <3>6. Returned(w)'
      <4>1. ASSUME w.bundle # None
            PROVE  \E since \in Nat : /\ since <= later /\ w.since < since + CacheFor
                                      /\ Current(w.bundle, since, w.at)'
        <5>1. PICK since \in Nat : /\ since <= clock /\ w.since < since + CacheFor
                                   /\ Current(w.bundle, since, w.at)
          BY <3>2, <4>1 DEF Returned
        <5>2. since <= later
          BY <1>1, <1>2, <2>3, <5>1
        <5> QED BY <2>2, <5>1, <5>2
      <4> QED BY <2>3, <3>2, <4>1 DEF Returned, Current
    <3> QED BY <1>1, <3>1, <3>5, <3>6 DEF Loads, Returned, Current
  <2>5. ASSUME NEW l \in Lanes \ {Echo} PROVE Keeps(l, cache[l])'
    <3>1. PICK e : e = cache[l]
      OBVIOUS
    <3>2. Keeps(l, e)
      BY <3>1 DEF PublicationInv, ReadersHold
    <3>3. ASSUME e.until > 0
          PROVE  \E since \in Nat : /\ since <= later /\ e.until = since + CacheFor
                                    /\ Current(e.bundle, since, later)'
      <4>1. PICK since \in Nat : /\ since <= clock /\ e.until = since + CacheFor
                                 /\ Current(e.bundle, since, clock)
        BY <3>2, <3>3 DEF Keeps
      <4>2. since <= later
        BY <1>1, <1>2, <2>3, <4>1
      <4>3. Current(e.bundle, since, later)'
        BY <2>1, <2>2, <2>3, <4>1
      <4> QED BY <4>1, <4>2, <4>3
    <3>4. Keeps(l, e)'
      BY <2>3, <3>2, <3>3 DEF Keeps, Current
    <3> QED BY <1>1, <3>1, <3>4 DEF Keeps, Current
  <2> QED BY <1>1, <2>4, <2>5 DEF ReadersHold
<1> QED BY <1>4, <1>5, <1>6, <1>7, <1>8 DEF PublicationInv


LEMMA PublicationNext ==
    ASSUME PublicationAssumption, PublicationInv, [Publication!Next]_Publication!vars
    PROVE  PublicationInv'
<1>1. ASSUME NEW p \in Publishers, Publication!PublisherStep(p) PROVE PublicationInv'
  BY <1>1, CollectHolds, PublishingHolds, CommitHolds DEF Publication!PublisherStep
<1>2. CASE UNCHANGED Publication!vars
  BY <1>2 DEF Publication!vars, PublicationInv, PublicationTyped, DatesHold, Dated, HubHolds,
     Publication!EveryRevisionIsWhole, PublishersHold, Learned, AddsTo, ReadersHold, Loads,
     Keeps, Returned, Current, Publication!PointerOf, Publication!Follows
<1> QED BY <1>1, <1>2, ReaderHolds, TickHolds DEF Publication!Next

THEOREM PublicationInvariant ==
    ASSUME PublicationAssumption PROVE Publication!Spec => []PublicationInv
<1>1. PublicationInv /\ [Publication!Next]_Publication!vars => PublicationInv'
  BY PublicationNext
<1> QED BY <1>1, PublicationInit, PTL DEF Publication!Spec

\* Whatever publishers race, stop and retry, and however many: every revision of
\* the hub is whole, and a receipt names the commit that added its bundle, and
\* nothing else, to the revision its publisher had checked.
THEOREM PublicationsStayWhole ==
    ASSUME PublicationAssumption PROVE Publication!Spec => []PublicationsAreWhole
<1>1. PublicationInv => Publication!PublicationsAreWhole
  <2> SUFFICES ASSUME PublicationInv PROVE Publication!PublicationsAreWhole
    OBVIOUS
  <2>1. Publication!PublicationTypeOK
    <3>1. ASSUME NEW n \in DOMAIN hub
          PROVE  hub[n].at \in Publication!Clocks /\ hub[n].files \subseteq Publication!Bundles
      <4>1. hub[n] \in Trees
        BY ElementOfSeq DEF PublicationInv, PublicationTyped
      <4> QED BY <4>1 DEF Trees, Bundles
    <3> QED BY <3>1 DEF PublicationInv, PublicationTyped, Publication!PublicationTypeOK,
               Workspaces, Publications, Loadings, OrNone, Bundles
  <2>2. Publication!ReceiptsNameTheirCommit
    BY DEF PublicationInv, PublishersHold, AddsTo, Publication!ReceiptsNameTheirCommit
  <2> QED BY <2>1, <2>2 DEF Publication!PublicationsAreWhole, PublicationInv, HubHolds
<1> QED BY <1>1, PublicationInvariant, PTL DEF PublicationsAreWhole

\* However slow a load and whatever other threads cached meanwhile, what it
\* returned was its lane's pointer no more than CacheFor before the load began,
\* and was fresh when it began.
THEOREM ServedStaysCurrent ==
    ASSUME PublicationAssumption PROVE Publication!Spec => []ServedIsCurrent
<1>1. ASSUME PublicationInv PROVE Publication!ServedIsCurrent
  <2>1. ASSUME NEW r \in Readers, served[r].bundle # None
        PROVE  \E n \in DOMAIN hub :
                  /\ Publication!PointerOf(hub[n], served[r].bundle.lane) = served[r].bundle
                  /\ hub[n].at <= served[r].at
                  /\ n < Len(hub) => hub[n + 1].at + CacheFor > served[r].since
    <3>1. PICK since \in Nat : /\ served[r].since < since + CacheFor
                               /\ Current(served[r].bundle, since, served[r].at)
      BY <1>1, <2>1 DEF PublicationInv, ReadersHold, Returned
    <3>2. PICK n \in DOMAIN hub :
            /\ Publication!PointerOf(hub[n], served[r].bundle.lane) = served[r].bundle
            /\ hub[n].at <= served[r].at
            /\ n < Len(hub) => hub[n + 1].at >= since
      BY <3>1 DEF Current
    <3>3. served[r].since \in Nat /\ CacheFor \in Nat
      BY <1>1, PublicationConstants DEF PublicationInv, PublicationTyped, Services
    <3>4. n < Len(hub) => hub[n + 1].at + CacheFor > served[r].since
      <4>1. ASSUME n < Len(hub) PROVE hub[n + 1].at \in Nat
        <5>1. DOMAIN hub = 1 .. Len(hub) /\ Len(hub) \in Nat /\ hub \in Seq(Trees)
          BY <1>1, LenProperties DEF PublicationInv, PublicationTyped
        <5>2. n + 1 \in DOMAIN hub
          BY <3>2, <4>1, <5>1
        <5>3. hub[n + 1] \in Trees
          BY <5>1, <5>2, ElementOfSeq
        <5> QED BY <5>3, PublicationConstants DEF Trees
      <4> QED BY <3>1, <3>2, <3>3, <4>1
    <3> QED BY <3>2, <3>4
  <2>2. Publication!ServedIsFresh
    BY <1>1 DEF PublicationInv, ReadersHold, Returned, Publication!ServedIsFresh
  <2> QED BY <2>1, <2>2 DEF Publication!ServedIsCurrent, Publication!ServedWasCurrent
<1> QED BY <1>1, PublicationInvariant, PTL DEF ServedIsCurrent


\* What a step does to the hub: nothing, or the commit of a publisher that had
\* checked the head.
LEMMA HubMoves ==
    ASSUME [Publication!Next]_Publication!vars
    PROVE  \/ hub' = hub
           \/ clock' = clock /\ \E p \in Publishers :
                /\ pub[p].phase = "ready" /\ pub[p].parent = Len(hub)
                /\ hub' = Append(hub, Proposed(p))
<1>1. ASSUME NEW p \in Publishers, Publication!PublisherStep(p), hub' # hub
      PROVE  /\ clock' = clock /\ pub[p].phase = "ready" /\ pub[p].parent = Len(hub)
             /\ hub' = Append(hub, Proposed(p))
  BY <1>1 DEF Publication!PublisherStep, Publication!Collect, Publication!SignBundle,
     Publication!NewWorkspace, Publication!Freeze, Publication!ResolveHead,
     Publication!CheckParent, Publication!Commit, Publication!HubAccepts, Proposed,
     Publication!ReadBack, Publication!Stop
<1>2. ASSUME NEW r \in Readers, Publication!ReaderStep(r) PROVE hub' = hub
  BY <1>2 DEF Publication!ReaderStep, Publication!BeginLoad, Publication!ReadPointer,
     Publication!ReadBundle, Publication!ReaderFails
<1> QED BY <1>1, <1>2 DEF Publication!Next, Publication!Tick, Publication!vars

\* An accepted commit publishes the bundle in the register, and nothing else
\* moves the register.
LEMMA RegisterStep ==
    ASSUME PublicationAssumption, PublicationInv, [Publication!Next]_Publication!vars
    PROVE  [Publication!Register!Next]_Publication!Register!vars
<1>1. CASE hub' = hub
  BY <1>1 DEF Publication!Register!vars, Publication!Main
<1>2. ASSUME NEW p \in Publishers, pub[p].phase = "ready", pub[p].parent = Len(hub),
             hub' = Append(hub, Proposed(p)), clock' = clock
      PROVE  Publication!Register!Next
  <2>1. PICK t, b, n : t = Proposed(p) /\ b = pub[p].bundle /\ n = Len(hub)
    OBVIOUS
  <2>2. /\ t \in Trees /\ t.files = Publication!Main.files \cup {b}
        /\ t.latest = [Publication!Main.latest EXCEPT ![b.lane] = b]
        /\ b \in Bundles /\ b.lane \in Lanes /\ b \notin Publication!Main.files
    BY <1>2, <2>1, ProposedTree
  <2>3. /\ n \in DOMAIN hub /\ Len(hub') = n + 1 /\ hub'[n + 1] = t
        /\ Publication!Main = hub[n]
    BY <1>2, <2>1, <2>2, OneMoreRevision DEF PublicationInv, PublicationTyped, Publication!Main
  <2>4. Publication!Main' = t
    BY <2>3 DEF Publication!Main
  <2>5. Publication!Main.latest[b.lane] # None =>
          Publication!Follows(b, Publication!Main.latest[b.lane])
    <3>1. Publication!PointerOf(hub[n], b.lane) = hub[n].latest[b.lane]
      BY <2>3 DEF PublicationInv, HubHolds, Publication!EveryRevisionIsWhole,
         Publication!PointerOf
    <3> QED BY <1>2, <2>1, <2>3, <3>1 DEF PublicationInv, PublishersHold, Learned
  <2>6. Publication!Register!Publish(b)
    BY <2>2, <2>4, <2>5 DEF Publication!Register!Publish
  <2>7. Publication!Main.files' # Publication!Main.files
    BY <2>2, <2>4
  <2> QED BY <2>2, <2>6, <2>7 DEF Publication!Register!Next, Bundles
<1> QED BY <1>1, <1>2, HubMoves

\* An admission of a pinned revision changes only by growing stale.
LEMMA AdmissionAges ==
    ASSUME PublicationAssumption, PublicationInv, [Publication!Next]_Publication!vars,
           NEW n \in DOMAIN hub,
           Publication!AdmissionAt(n, clock)' # Publication!AdmissionAt(n, clock)
    PROVE  /\ Publication!AdmissionAt(n, clock) = "OK"
           /\ Publication!AdmissionAt(n, clock)' = "SOURCE_STALE"
<1>1. hub'[n] = hub[n]
  BY HubMoves, ProposedTree, OneMoreRevision DEF PublicationInv, PublicationTyped
<1>2. clock \in Nat /\ SnapshotFreshFor \in Nat /\ Echo # Dol /\ Dol \in Lanes
  BY PublicationConstants DEF PublicationInv, PublicationTyped
<1>3. PICK b, later : b = hub[n].latest[Dol] /\ later = clock'
  OBVIOUS
<1>4. later \in Nat /\ clock <= later
  <2>1. clock' = clock \/ clock' = clock + 1
    BY HubMoves DEF Publication!Next, Publication!PublisherStep, Publication!ReaderStep,
       Publication!Tick, Publication!vars, Publication!Collect, Publication!SignBundle,
       Publication!NewWorkspace, Publication!Freeze, Publication!ResolveHead,
       Publication!CheckParent, Publication!Commit, Publication!ReadBack, Publication!Stop,
       Publication!BeginLoad, Publication!ReadPointer, Publication!ReadBundle,
       Publication!ReaderFails
  <2> QED BY <1>2, <1>3, <2>1
<1>5. b # None => b.created \in Nat /\ b.created <= clock
  <2>1. Publication!PointerOf(hub[n], Dol) = b
    BY <1>2, <1>3 DEF Publication!PointerOf
  <2>2. b # None => Dated(b)
    BY <1>2, <2>1, PointersLead
  <2> QED BY <2>2, PublicationConstants DEF Dated, Bundles, Publication!Bundles
<1> QED BY <1>1, <1>2, <1>3, <1>4, <1>5 DEF Publication!AdmissionAt

\* Publishers that race, stop and retry implement the register of snapshots that
\* grows by one new snapshot at a time and moves no pointer back, and what the
\* operator's admission answers for a pinned revision changes only by ageing.
THEOREM HistoryIsKept ==
    ASSUME PublicationAssumption PROVE Publication!Spec => HistoryStands
<1>1. Publication!Init => Publication!Register!Init
  <2> SUFFICES ASSUME Publication!Init PROVE Publication!Register!Init
    OBVIOUS
  <2>1. Len(hub) = 1 /\ hub[1] = Publication!EmptyTree
    BY DEF Publication!Init
  <2> QED BY <2>1 DEF Publication!Register!Init, Publication!Main, Publication!EmptyTree
<1>2. PublicationInv /\ [Publication!Next]_Publication!vars
        => [Publication!Register!Next]_Publication!Register!vars
  BY RegisterStep
<1>3. PublicationInv /\ [Publication!Next]_Publication!vars =>
        [Publication!OnlyAges]_<<hub, clock>>
  BY AdmissionAges DEF Publication!OnlyAges
<1>4. Publication!Spec => Publication!RegisterSpec
  BY <1>1, <1>2, PublicationInvariant, PTL
     DEF Publication!Spec, Publication!RegisterSpec, Publication!Register!Spec
<1>5. Publication!Spec => Publication!PinnedRevisionsOnlyAge
  BY <1>3, PublicationInvariant, PTL DEF Publication!Spec, Publication!PinnedRevisionsOnlyAge
<1> QED BY <1>4, <1>5 DEF Publication!HistoryStands, HistoryStands

-----------------------------------------------------------------------------
\* The rotation of the reader's credentials.  From the moment the generation of an
\* attempt is set, nothing changes the settings until the attempt has ended; so
\* every process that carries the generation carries all of those settings.

Pointers   == [Boards -> [commit : Nat, asOf : Nat]]
Configs    == [secrets : [Rotation!Secrets -> {"old", "new"}], gen : 0 .. MaxRotations,
               rev : Sources, attested : Sources]
Logins     == Nat \X Nat
Spaces     == [cfg : Configs, tokens : SUBSET Logins, cache : Pointers]
Answers    == [cfg : Configs, lanes : Pointers, records : RecordSets]
Rotations  == [pc : {"idle", "pin", "pointers", "install", "health", "login", "logout",
                     "board", "build", "done", "failed"},
               kind : {"none", "rotate", "diagnose"}, attempt : 0 .. MaxRotations, rev : Nat,
               expected : Pointers, installed : 0 .. Len(Order), tries : 0 .. MaxTries - 1,
               session : Logins \cup {<<>>}, board : Answers \cup {<<>>}]

RotationTyped ==
    /\ day \in 0 .. LastDay
    /\ history \in Seq(Pointers) /\ Len(history) \in 1 .. MaxPublications
    /\ settings \in Configs
    /\ procs \in Seq(Spaces) /\ Len(procs) \in {1, 2}
    /\ rotation \in Rotations

BeforeLogout == {"pin", "pointers", "install", "health", "login"}
AfterInstall == {"health", "login", "logout", "board", "build"}

\* A process that carries the generation of the attempt carries its settings.
GenerationsHold ==
    /\ settings.gen <= rotation.attempt
    /\ \A i \in DOMAIN procs : procs[i].cfg.gen <= settings.gen
    /\ Rotation!Running =>
         /\ \A k \in 1 .. rotation.installed : settings.secrets[Order[k]] = "new"
         /\ settings.gen = rotation.attempt =>
              /\ rotation.installed = Len(Order)
              /\ \A i \in DOMAIN procs :
                    procs[i].cfg.gen = rotation.attempt => procs[i].cfg = settings
         /\ rotation.pc \notin {"pin", "pointers"} => rotation.kind = "rotate"
    /\ rotation.pc \in AfterInstall => settings.gen = rotation.attempt
    /\ rotation.pc = "build" =>
         /\ rotation.board \in Answers
         /\ rotation.board.cfg.gen = rotation.attempt => rotation.board.cfg = settings

\* What is bound of the pointers is of the pinned revision.
PointersAreBound ==
    /\ rotation.pc = "pin" => rotation.expected = Rotation!Unbound
    /\ rotation.pc \notin {"idle", "pin", "failed"} => rotation.rev \in DOMAIN history
    /\ \A l \in Boards : rotation.expected[l] # Rotation!NotRead =>
          rotation.rev \in DOMAIN history /\ rotation.expected[l] = history[rotation.rev][l]
    /\ rotation.pc \in AfterInstall \cup {"install", "done"} =>
          \A l \in Boards : rotation.expected[l] # Rotation!NotRead
    /\ rotation.rev \in 0 .. Len(history)

\* A session that may still be handed out was never handed out before; the one to
\* be logged out is in one process; and the one that was logged out is in none.
SessionsAreOnce ==
    /\ \A i \in DOMAIN procs : \A login \in procs[i].tokens :
         /\ login[1] <= rotation.attempt
         /\ rotation.pc \in BeforeLogout /\ login[1] = rotation.attempt =>
              login[2] < rotation.tries
    /\ rotation.pc = "logout" => \A i, j \in DOMAIN procs :
         rotation.session \in procs[i].tokens /\ rotation.session \in procs[j].tokens => i = j
    /\ Rotation!TheSessionIsGone

EvidenceHolds ==
    /\ Rotation!EvidenceIsFromTheSuccessor /\ Rotation!EvidenceWasFresh
    /\ Rotation!Finished("rotate") => evidence[1].board.lanes = rotation.expected

RotationInv ==
    RotationTyped /\ GenerationsHold /\ PointersAreBound /\ SessionsAreOnce /\ EvidenceHolds


LEMMA RotationConstants ==
    ASSUME Rotation!RotationAssumption
    PROVE  /\ Order \in Seq(Rotation!Secrets) /\ Len(Order) \in Nat
           /\ \A s \in Rotation!Secrets : \E k \in 1 .. Len(Order) : s = Order[k]
           /\ \A k \in 1 .. Len(Order) : Order[k] \in Rotation!Secrets
           /\ Target \in Sources /\ FreshDays \in Nat /\ LastDay \in Nat /\ MaxRotations \in Nat
           /\ MaxTries \in Nat \ {0} /\ MaxPublications \in Nat \ {0}
<1>1. Order \in Seq(Rotation!Secrets)
  BY DEF Rotation!RotationAssumption
<1>2. Len(Order) \in Nat /\ DOMAIN Order = 1 .. Len(Order)
  BY <1>1, LenProperties
<1> QED BY <1>1, <1>2 DEF Rotation!RotationAssumption, Rotation!Secrets

LEMMA RotationInit ==
    ASSUME Rotation!RotationAssumption, Rotation!Init
    PROVE  RotationInv
<1>1. Rotation!NotRead \in [commit : Nat, asOf : Nat] /\ Rotation!Unbound \in Pointers
  BY DEF Rotation!NotRead, Rotation!Unbound, Pointers
<1>2. settings \in Configs /\ settings.gen = 0
  BY RotationConstants DEF Rotation!Init, Configs
<1>3. PICK p : p = Rotation!Process(settings)
  OBVIOUS
<1>4. p \in Spaces /\ p.cfg = settings /\ p.tokens = {}
  BY <1>1, <1>2, <1>3 DEF Rotation!Process, Spaces, Rotation!Unbound
<1>5. procs = <<p>> /\ Len(procs) = 1 /\ procs \in Seq(Spaces) /\ DOMAIN procs = {1} /\ procs[1] = p
  BY <1>3, <1>4 DEF Rotation!Init
<1>6. PICK h : h = [l \in Boards |-> [commit |-> 1, asOf |-> 0]]
  OBVIOUS
<1>7. h \in Pointers
  BY <1>6 DEF Pointers
<1>8. history = <<h>> /\ history \in Seq(Pointers) /\ Len(history) = 1
  BY <1>6, <1>7 DEF Rotation!Init
<1>9. /\ rotation \in Rotations /\ rotation.pc = "idle" /\ rotation.attempt = 0
      /\ rotation.rev = 0 /\ rotation.expected = Rotation!Unbound
  BY <1>1, RotationConstants DEF Rotation!Init, Rotation!Idle, Rotations
<1>10. RotationTyped
  BY <1>2, <1>5, <1>8, <1>9, RotationConstants DEF RotationTyped, Rotation!Init
<1>11. GenerationsHold
  BY <1>2, <1>4, <1>5, <1>9 DEF GenerationsHold, Rotation!Running, AfterInstall
<1>0. PointersAreBound
  BY <1>8, <1>9 DEF PointersAreBound, Rotation!Unbound, AfterInstall
<1>13. SessionsAreOnce
  BY <1>4, <1>5, <1>9 DEF SessionsAreOnce, BeforeLogout, Rotation!TheSessionIsGone,
     Rotation!Finished
<1>14. EvidenceHolds
  BY <1>9 DEF EvidenceHolds, Rotation!EvidenceIsFromTheSuccessor, Rotation!EvidenceWasFresh,
     Rotation!Finished
<1> QED BY <1>10, <1>11, <1>0, <1>13, <1>14 DEF RotationInv

-----------------------------------------------------------------------------
\* Steps around the job.

\* Each process is one there was, d places later, or has just started.
Succeeds(d) ==
    \A i \in DOMAIN procs' :
        \/ /\ i + d \in DOMAIN procs
           /\ procs'[i].cfg = procs[i + d].cfg /\ procs'[i].tokens = procs[i + d].tokens
        \/ procs'[i].cfg = settings /\ procs'[i].tokens = {}

LEMMA PlatformKeeps ==
    ASSUME RotationInv, NEW d \in {0, 1}, Succeeds(d),
           procs' \in Seq(Spaces), Len(procs') \in {1, 2},
           UNCHANGED <<day, history, settings, rotation, evidence>>
    PROVE  RotationInv'
<1>1. RotationTyped'
  BY DEF RotationInv, RotationTyped
<1>2. DOMAIN procs' \subseteq Nat /\ DOMAIN procs \subseteq Nat
  BY LenProperties DEF RotationInv, RotationTyped
<1>3. settings.gen \in Nat
  BY DEF RotationInv, RotationTyped, Configs
<1>4. GenerationsHold'
  <2>1. \A i \in DOMAIN procs' : procs'[i].cfg.gen <= settings.gen
    BY <1>3 DEF Succeeds, RotationInv, GenerationsHold
  <2>2. Rotation!Running /\ settings.gen = rotation.attempt =>
            \A i \in DOMAIN procs' :
                procs'[i].cfg.gen = rotation.attempt => procs'[i].cfg = settings
    BY DEF Succeeds, RotationInv, GenerationsHold
  <2> QED BY <2>1, <2>2 DEF RotationInv, GenerationsHold, Rotation!Running
<1>5. PointersAreBound'
  BY DEF RotationInv, PointersAreBound
<1>6. SessionsAreOnce'
  <2>1. \A i \in DOMAIN procs' : \A login \in procs'[i].tokens :
         /\ login[1] <= rotation.attempt
         /\ rotation.pc \in BeforeLogout /\ login[1] = rotation.attempt =>
              login[2] < rotation.tries
    BY DEF Succeeds, RotationInv, SessionsAreOnce
  <2>2. ASSUME rotation.pc = "logout", NEW i \in DOMAIN procs', NEW j \in DOMAIN procs',
               rotation.session \in procs'[i].tokens, rotation.session \in procs'[j].tokens
        PROVE  i = j
    <3>1. /\ i + d \in DOMAIN procs /\ rotation.session \in procs[i + d].tokens
          /\ j + d \in DOMAIN procs /\ rotation.session \in procs[j + d].tokens
      BY <2>2 DEF Succeeds
    <3>2. i + d = j + d
      BY <2>2, <3>1 DEF RotationInv, SessionsAreOnce
    <3> QED BY <1>2, <3>2
  <2>3. Rotation!TheSessionIsGone'
    BY DEF Succeeds, RotationInv, SessionsAreOnce, Rotation!TheSessionIsGone, Rotation!Finished
  <2> QED BY <2>1, <2>2, <2>3 DEF SessionsAreOnce
<1>7. EvidenceHolds'
  BY DEF RotationInv, EvidenceHolds, Rotation!EvidenceIsFromTheSuccessor,
     Rotation!EvidenceWasFresh, Rotation!Finished
<1> QED BY <1>1, <1>4, <1>5, <1>6, <1>7 DEF RotationInv

LEMMA PlatformSteps ==
    ASSUME RotationInv,
           Rotation!Boot \/ Rotation!Retire \/ Rotation!Crash \/ Rotation!Fetch \/ Rotation!Lapse
    PROVE  RotationInv'
<1>1. /\ procs \in Seq(Spaces) /\ settings \in Configs /\ Len(procs) \in {1, 2}
      /\ history \in Seq(Pointers) /\ Len(history) \in Nat \ {0}
  BY DEF RotationInv, RotationTyped
<1>2. DOMAIN procs = 1 .. Len(procs) /\ \A i \in DOMAIN procs : procs[i] \in Spaces
  BY <1>1, LenProperties, ElementOfSeq
<1>3. PICK p : p = Rotation!Process(settings)
  OBVIOUS
<1>4. p \in Spaces /\ p.cfg = settings /\ p.tokens = {}
  BY <1>1, <1>3 DEF Rotation!Process, Rotation!NotRead, Spaces, Pointers
<1>0. procs \in Seq(Spaces)
  BY <1>1
<1>5. CASE Rotation!Boot
  <2>1. procs' = Append(procs, p) /\ Len(procs) = 1
    BY <1>3, <1>5 DEF Rotation!Boot
  <2>2. procs' \in Seq(Spaces) /\ Len(procs') = 2 /\ procs'[1] = procs[1] /\ procs'[2] = p
    <3>0. procs' = Append(procs, p) /\ p \in Spaces
      BY <1>4, <2>1
    <3>1. /\ procs' \in Seq(Spaces) /\ Len(procs') = Len(procs) + 1
          /\ \A i \in 1 .. Len(procs) : procs'[i] = procs[i]
          /\ procs'[Len(procs) + 1] = p
      BY <1>0, <3>0, AppendProperties
    <3>2. Len(procs) + 1 = 2 /\ 1 \in 1 .. Len(procs)
      BY <2>1
    <3> QED BY <3>1, <3>2
  <2>3. DOMAIN procs' = 1 .. 2
    BY <2>2, LenProperties
  <2>4. Succeeds(0)
    BY <1>2, <1>4, <2>1, <2>2, <2>3 DEF Succeeds
  <2> QED BY <1>5, <2>2, <2>4, PlatformKeeps DEF Rotation!Boot
<1>6. CASE Rotation!Retire
  <2>1. procs' = Tail(procs) /\ Len(procs) = 2
    BY <1>6 DEF Rotation!Retire
  <2>2. procs # <<>> /\ procs' \in Seq(Spaces) /\ Len(procs') = 1
    BY <1>0, <2>1, HeadTailProperties, EmptySeq
  <2>3. DOMAIN procs' = 1 .. 1 /\ procs'[1] = procs[2]
    <3>1. \A i \in 1 .. 1 : procs'[i] = procs[i + 1]
      BY <1>0, <2>1, <2>2, HeadTailProperties
    <3> QED BY <2>2, <3>1, LenProperties
  <2>4. Succeeds(1)
    BY <1>2, <2>1, <2>3 DEF Succeeds
  <2> QED BY <1>6, <2>2, <2>4, PlatformKeeps DEF Rotation!Retire
<1>7. ASSUME NEW i \in DOMAIN procs, NEW q \in Spaces, procs' = [procs EXCEPT ![i] = q],
             \/ q.cfg = procs[i].cfg /\ q.tokens = procs[i].tokens
             \/ q.cfg = settings /\ q.tokens = {},
             UNCHANGED <<day, history, settings, rotation, evidence>>
      PROVE  RotationInv'
  <2>1. procs' \in Seq(Spaces) /\ Len(procs') = Len(procs) /\ DOMAIN procs' = DOMAIN procs
    BY <1>1, <1>7, ExceptSeq
  <2>2. procs'[i] = q /\ \A j \in DOMAIN procs : j # i => procs'[j] = procs[j]
    BY <1>7
  <2>3. Succeeds(0)
    BY <1>2, <1>7, <2>1, <2>2 DEF Succeeds
  <2> QED BY <1>1, <1>7, <2>1, <2>3, PlatformKeeps
<1>8. CASE Rotation!Crash
  <2>1. PICK i \in DOMAIN procs : procs' = [procs EXCEPT ![i] = p]
    BY <1>3, <1>8 DEF Rotation!Crash
  <2> QED BY <1>4, <1>7, <1>8, <2>1 DEF Rotation!Crash
<1>9. ASSUME NEW i \in DOMAIN procs, NEW l \in Boards, NEW s \in [commit : Nat, asOf : Nat],
             procs' = [procs EXCEPT ![i].cache[l] = s],
             UNCHANGED <<day, history, settings, rotation, evidence>>
      PROVE  RotationInv'
  <2>1. PICK q : q = [procs[i] EXCEPT !.cache[l] = s]
    OBVIOUS
  <2>2. procs[i] \in Spaces
    BY <1>2
  <2>3. q \in Spaces /\ q.cfg = procs[i].cfg /\ q.tokens = procs[i].tokens
    BY <2>1, <2>2 DEF Spaces, Pointers
  <2>4. procs' = [procs EXCEPT ![i] = q]
    BY <1>9, <2>1
  <2> QED BY <1>7, <1>9, <2>3, <2>4
<1>10. CASE Rotation!Fetch
  <2>1. PICK i \in DOMAIN procs, l \in Boards :
            procs' = [procs EXCEPT ![i].cache[l] = Rotation!Latest(history)[l]]
    BY <1>10 DEF Rotation!Fetch
  <2>2. PICK s : s = Rotation!Latest(history)[l]
    OBVIOUS
  <2>3. history[Len(history)] \in Pointers
    BY <1>1, ElementOfSeq
  <2>4. s \in [commit : Nat, asOf : Nat]
    BY <2>2, <2>3 DEF Rotation!Latest, Pointers
  <2> QED BY <1>9, <1>10, <2>1, <2>2, <2>4 DEF Rotation!Fetch
<1>11. CASE Rotation!Lapse
  <2>1. PICK i \in DOMAIN procs, l \in Boards :
            procs' = [procs EXCEPT ![i].cache[l] = Rotation!NotRead]
    BY <1>11 DEF Rotation!Lapse
  <2>2. Rotation!NotRead \in [commit : Nat, asOf : Nat]
    BY DEF Rotation!NotRead
  <2> QED BY <1>9, <1>11, <2>1, <2>2 DEF Rotation!Lapse
<1> QED BY <1>5, <1>6, <1>8, <1>10, <1>11

LEMMA WorldSteps ==
    ASSUME Rotation!RotationAssumption, RotationInv,
           Rotation!NextDay \/ Rotation!Publish \/ Rotation!Deploy \/ UNCHANGED Rotation!vars
    PROVE  RotationInv'
<1>1. CASE Rotation!NextDay \/ UNCHANGED Rotation!vars
  <2>1. UNCHANGED <<history, settings, procs, rotation, evidence>>
    BY <1>1 DEF Rotation!NextDay, Rotation!vars
  <2>2. day' \in 0 .. LastDay
    BY <1>1, RotationConstants DEF Rotation!NextDay, Rotation!vars, RotationInv, RotationTyped
  <2> QED BY <2>1, <2>2 DEF RotationInv, RotationTyped, GenerationsHold, Rotation!Running,
         PointersAreBound, SessionsAreOnce, Rotation!TheSessionIsGone, Rotation!Finished,
         EvidenceHolds, Rotation!EvidenceIsFromTheSuccessor, Rotation!EvidenceWasFresh
<1>2. CASE Rotation!Publish
  <2>1. UNCHANGED <<day, settings, procs, rotation, evidence>> /\ Len(history) < MaxPublications
    BY <1>2 DEF Rotation!Publish
  <2>2. PICK l \in Boards :
          history' = Append(history, [Rotation!Latest(history) EXCEPT
                                         ![l] = [commit |-> Len(history) + 1, asOf |-> day]])
    BY <1>2 DEF Rotation!Publish
  <2>3. history \in Seq(Pointers) /\ Len(history) \in Nat \ {0} /\ day \in Nat
    BY RotationConstants DEF RotationInv, RotationTyped
  <2>4. history[Len(history)] \in Pointers
    BY <2>3, ElementOfSeq
  <2>5. PICK h : h = [Rotation!Latest(history) EXCEPT
                         ![l] = [commit |-> Len(history) + 1, asOf |-> day]]
    OBVIOUS
  <2>6. h \in Pointers
    BY <2>3, <2>4, <2>5 DEF Rotation!Latest, Pointers
  <2>7. /\ history' \in Seq(Pointers) /\ Len(history') = Len(history) + 1
        /\ \A n \in DOMAIN history : n \in DOMAIN history' /\ history'[n] = history[n]
    BY <2>2, <2>3, <2>5, <2>6, AppendProperties, LenProperties
  <2>8. RotationTyped'
    BY <2>1, <2>3, <2>7, RotationConstants DEF RotationInv, RotationTyped
  <2>9. PointersAreBound'
    <3>1. rotation.rev \in 0 .. Len(history')
      BY <2>3, <2>7 DEF RotationInv, PointersAreBound
    <3> QED BY <2>1, <2>7, <3>1 DEF RotationInv, PointersAreBound
  <2> QED BY <2>1, <2>8, <2>9 DEF RotationInv, GenerationsHold, Rotation!Running,
         SessionsAreOnce, Rotation!TheSessionIsGone, Rotation!Finished,
         EvidenceHolds, Rotation!EvidenceIsFromTheSuccessor, Rotation!EvidenceWasFresh
<1>3. CASE Rotation!Deploy
  <2>1. /\ UNCHANGED <<day, history, procs, rotation, evidence>>
        /\ ~ Rotation!Running
    BY <1>3 DEF Rotation!Deploy
  <2>2. PICK r \in Sources, a \in Sources :
          settings' = [settings EXCEPT !.rev = r, !.attested = a]
    BY <1>3 DEF Rotation!Deploy
  <2>3. settings' \in Configs /\ settings'.gen = settings.gen
    BY <2>2 DEF RotationInv, RotationTyped, Configs
  <2>4. RotationTyped'
    BY <2>1, <2>3 DEF RotationInv, RotationTyped
  <2>5. GenerationsHold'
    BY <2>1, <2>3 DEF RotationInv, GenerationsHold, Rotation!Running, AfterInstall
  <2> QED BY <2>1, <2>4, <2>5 DEF RotationInv, PointersAreBound,
         SessionsAreOnce, Rotation!TheSessionIsGone, Rotation!Finished,
         EvidenceHolds, Rotation!EvidenceIsFromTheSuccessor, Rotation!EvidenceWasFresh
<1> QED BY <1>1, <1>2, <1>3


-----------------------------------------------------------------------------
\* Steps of the job.

\* The job remembers what it remembered.
Same == /\ rotation'.kind = rotation.kind /\ rotation'.attempt = rotation.attempt
        /\ rotation'.rev = rotation.rev /\ rotation'.expected = rotation.expected
        /\ rotation'.installed = rotation.installed /\ rotation'.session = rotation.session

\* Steps of the job that neither bind nor change anything.
Turns == {<<"install", "health">>, <<"health", "health">>, <<"health", "login">>,
          <<"board", "board">>, <<"board", "build">>, <<"build", "board">>}

LEMMA JobTurns ==
    ASSUME RotationInv, UNCHANGED <<day, history, settings, procs, evidence>>,
           rotation' \in Rotations, Same, rotation'.tries \in Nat,
           rotation'.tries >= rotation.tries,
           \/ <<rotation.pc, rotation'.pc>> \in Turns
           \/ Rotation!Running /\ rotation'.pc = "failed",
           rotation'.pc = "health" => settings.gen = rotation.attempt,
           rotation'.pc = "build" =>
              /\ rotation'.board \in Answers
              /\ rotation'.board.cfg.gen = rotation.attempt => rotation'.board.cfg = settings
    PROVE  RotationInv'
<1>1. RotationTyped'
  BY DEF RotationInv, RotationTyped
<1>2. GenerationsHold'
  BY DEF RotationInv, GenerationsHold, Rotation!Running, AfterInstall, Same, Turns
<1>3. PointersAreBound'
  BY DEF RotationInv, PointersAreBound, AfterInstall, Same, Turns, Rotation!Running
<1>4. SessionsAreOnce'
  <2>1. \A i \in DOMAIN procs : \A login \in procs[i].tokens : login[2] \in Nat
    <3>1. \A i \in DOMAIN procs : procs[i] \in Spaces
      BY LenProperties, ElementOfSeq DEF RotationInv, RotationTyped
    <3> QED BY <3>1 DEF Spaces, Logins
  <2>2. rotation.tries \in Nat
    BY DEF RotationInv, RotationTyped, Rotations
  <2>3. rotation'.pc \in BeforeLogout => rotation.pc \in BeforeLogout
    BY DEF Turns, BeforeLogout
  <2>4. rotation'.pc \notin {"logout", "done"}
    BY DEF Turns
  <2>5. rotation'.pc \in {"board", "build"} => rotation.pc \in {"board", "build"}
    BY DEF Turns
  <2>6. \A i \in DOMAIN procs : \A login \in procs[i].tokens :
         /\ login[1] <= rotation.attempt
         /\ rotation'.pc \in BeforeLogout /\ login[1] = rotation.attempt =>
              login[2] < rotation'.tries
    BY <2>1, <2>2, <2>3 DEF RotationInv, SessionsAreOnce
  <2> QED BY <2>4, <2>5, <2>6 DEF RotationInv, SessionsAreOnce, Same,
         Rotation!TheSessionIsGone, Rotation!Finished
<1>5. EvidenceHolds'
  <2>1. ~ Rotation!Finished("rotate")'
    BY DEF Rotation!Finished, Turns
  <2> QED BY <2>1 DEF EvidenceHolds, Rotation!EvidenceIsFromTheSuccessor,
         Rotation!EvidenceWasFresh
<1> QED BY <1>1, <1>2, <1>3, <1>4, <1>5 DEF RotationInv

LEMMA AgainTurns ==
    ASSUME Rotation!RotationAssumption, rotation \in Rotations,
           NEW pc \in {"health", "board"}, Rotation!Again(pc)
    PROVE  /\ rotation' \in Rotations /\ Same /\ rotation'.tries \in Nat
           /\ rotation'.tries >= rotation.tries
           /\ \/ rotation'.pc = pc /\ rotation'.tries = rotation.tries + 1
              \/ rotation'.pc = "failed" /\ rotation'.tries = rotation.tries
<1>1. rotation.tries \in Nat /\ MaxTries \in Nat
  BY RotationConstants DEF Rotations
<1>2. CASE rotation.tries + 1 < MaxTries
  <2>1. rotation' = [rotation EXCEPT !.pc = pc, !.tries = @ + 1]
    BY <1>2 DEF Rotation!Again
  <2>2. PICK n : n = rotation.tries + 1
    OBVIOUS
  <2>3. n \in 0 .. MaxTries - 1 /\ n \in Nat /\ n >= rotation.tries
    BY <1>1, <1>2, <2>2
  <2>4. rotation' = [rotation EXCEPT !.pc = pc, !.tries = n]
    BY <2>1, <2>2
  <2>5. rotation' \in Rotations /\ Same /\ rotation'.pc = pc /\ rotation'.tries = n
    BY <2>3, <2>4 DEF Rotations, Same
  <2> QED BY <2>2, <2>3, <2>5
<1>3. CASE ~ (rotation.tries + 1 < MaxTries)
  <2>1. rotation' = [rotation EXCEPT !.pc = "failed"]
    BY <1>3 DEF Rotation!Again
  <2> QED BY <1>1, <2>1 DEF Rotations, Same
<1> QED BY <1>2, <1>3

LEMMA TurningSteps ==
    ASSUME Rotation!RotationAssumption, RotationInv,
           Rotation!Fail \/ Rotation!Installed \/ Rotation!Health \/ Rotation!GetBoard
    PROVE  RotationInv'
<1>1. rotation \in Rotations /\ rotation.tries \in Nat /\ settings \in Configs
  BY DEF RotationInv, RotationTyped, Rotations
<1>2. UNCHANGED <<day, history, settings, procs, evidence>>
  BY DEF Rotation!Fail, Rotation!Installed, Rotation!Health, Rotation!GetBoard, Rotation!Step,
     Rotation!Quiet
<1>3. ASSUME NEW pc \in {"failed", "health", "login"}, rotation' = [rotation EXCEPT !.pc = pc]
      PROVE  /\ rotation' \in Rotations /\ Same /\ rotation'.pc = pc
             /\ rotation'.tries = rotation.tries
  BY <1>1, <1>3 DEF Rotations, Same
<1>4. CASE Rotation!Fail
  <2>1. Rotation!Running /\ rotation' = [rotation EXCEPT !.pc = "failed"]
    BY <1>4 DEF Rotation!Fail
  <2> QED BY <1>1, <1>2, <1>3, <2>1, JobTurns
<1>5. CASE Rotation!Installed
  <2>1. /\ rotation.pc = "install" /\ settings.gen = rotation.attempt
        /\ rotation' = [rotation EXCEPT !.pc = "health"]
    BY <1>5 DEF Rotation!Installed, Rotation!Step
  <2>2. <<"install", "health">> \in Turns
    BY DEF Turns
  <2> QED BY <1>1, <1>2, <1>3, <2>1, <2>2, JobTurns
<1>6. CASE Rotation!Health
  <2>1. rotation.pc = "health" /\ settings.gen = rotation.attempt /\ Rotation!Running
    BY <1>6 DEF Rotation!Health, Rotation!Step, RotationInv, GenerationsHold, AfterInstall,
       Rotation!Running
  <2>2. <<"health", "health">> \in Turns /\ <<"health", "login">> \in Turns
    BY DEF Turns
  <2>3. CASE Rotation!Again("health")
    BY <1>1, <1>2, <2>1, <2>2, <2>3, AgainTurns, JobTurns
  <2>4. CASE rotation' = [rotation EXCEPT !.pc = "login"]
    BY <1>1, <1>2, <1>3, <2>1, <2>2, <2>4, JobTurns
  <2> QED BY <1>6, <2>3, <2>4 DEF Rotation!Health
<1>7. CASE Rotation!GetBoard
  <2>1. rotation.pc = "board" /\ settings.gen = rotation.attempt /\ Rotation!Running
    BY <1>7 DEF Rotation!GetBoard, Rotation!Step, RotationInv, GenerationsHold, AfterInstall,
       Rotation!Running
  <2>2. <<"board", "board">> \in Turns /\ <<"board", "build">> \in Turns
    BY DEF Turns
  <2>3. CASE Rotation!Again("board")
    BY <1>1, <1>2, <2>1, <2>2, <2>3, AgainTurns, JobTurns
  <2>4. CASE ~ Rotation!Again("board")
    <3>1. PICK i \in DOMAIN procs, rs \in RecordSets :
            rotation' = [rotation EXCEPT !.pc = "build",
                           !.board = [cfg |-> procs[i].cfg, lanes |-> procs[i].cache, records |-> rs]]
      BY <1>7, <2>4 DEF Rotation!GetBoard
    <3>2. PICK b : b = [cfg |-> procs[i].cfg, lanes |-> procs[i].cache, records |-> rs]
      OBVIOUS
    <3>3. procs[i] \in Spaces
      BY LenProperties, ElementOfSeq DEF RotationInv, RotationTyped
    <3>4. b \in Answers /\ b.cfg = procs[i].cfg
      BY <3>2, <3>3 DEF Spaces, Answers
    <3>5. rotation' = [rotation EXCEPT !.pc = "build", !.board = b]
      BY <3>1, <3>2
    <3>6. /\ rotation' \in Rotations /\ Same /\ rotation'.pc = "build" /\ rotation'.board = b
          /\ rotation'.tries = rotation.tries
      BY <1>1, <3>4, <3>5 DEF Rotations, Same
    <3>7. b.cfg.gen = rotation.attempt => b.cfg = settings
      BY <2>1, <3>4 DEF RotationInv, GenerationsHold
    <3> QED BY <1>1, <1>2, <2>1, <2>2, <3>4, <3>6, <3>7, JobTurns
  <2> QED BY <2>3, <2>4
<1> QED BY <1>4, <1>5, <1>6, <1>7

LEMMA BeginKeeps ==
    ASSUME Rotation!RotationAssumption, RotationInv, Rotation!Begin
    PROVE  RotationInv'
<1>1. PICK k \in {"rotate", "diagnose"} :
        rotation' = [Rotation!Idle EXCEPT !.pc = "pin", !.kind = k,
                                          !.attempt = rotation.attempt + 1]
  BY DEF Rotation!Begin
<1>2. /\ rotation \in Rotations /\ rotation.attempt < MaxRotations
      /\ UNCHANGED <<day, history, settings, procs, evidence>>
  BY DEF Rotation!Begin, RotationInv, RotationTyped
<1>3. rotation.attempt \in Nat /\ rotation.attempt + 1 \in 0 .. MaxRotations
  BY <1>2, RotationConstants DEF Rotations
<1>4. Rotation!NotRead \in [commit : Nat, asOf : Nat] /\ Rotation!Unbound \in Pointers
  BY DEF Rotation!NotRead, Rotation!Unbound, Pointers
<1>5. /\ rotation' \in Rotations /\ rotation'.pc = "pin"
      /\ rotation'.attempt = rotation.attempt + 1
      /\ rotation'.rev = 0 /\ rotation'.expected = Rotation!Unbound /\ rotation'.installed = 0
  <2>1. Rotation!Idle \in Rotations /\ Rotation!Idle.rev = 0 /\ Rotation!Idle.installed = 0
        /\ Rotation!Idle.expected = Rotation!Unbound
    BY <1>4, RotationConstants DEF Rotation!Idle, Rotations
  <2>2. PICK a, idle : a = rotation.attempt + 1 /\ idle = Rotation!Idle
    OBVIOUS
  <2>3. rotation' = [idle EXCEPT !.pc = "pin", !.kind = k, !.attempt = a]
    BY <1>1, <2>2
  <2> QED BY <1>3, <2>1, <2>2, <2>3 DEF Rotations
<1>6. settings.gen \in Nat /\ settings.gen <= rotation.attempt
  BY DEF RotationInv, RotationTyped, Configs, GenerationsHold
<1>7. \A i \in DOMAIN procs : procs[i] \in Spaces
  BY LenProperties, ElementOfSeq DEF RotationInv, RotationTyped
<1>8. RotationTyped'
  BY <1>2, <1>5 DEF RotationInv, RotationTyped
<1>9. GenerationsHold'
  <2>1. settings.gen < rotation'.attempt
    BY <1>3, <1>5, <1>6
  <2>2. settings.gen <= rotation'.attempt /\ settings.gen # rotation'.attempt
    BY <1>3, <1>5, <1>6, <2>1
  <2>3. \A n \in 1 .. rotation'.installed : FALSE
    BY <1>5
  <2> QED BY <1>2, <1>5, <2>2, <2>3 DEF RotationInv, GenerationsHold, AfterInstall
<1>10. PointersAreBound'
  <2>1. Len(history) \in Nat
    BY LenProperties DEF RotationInv, RotationTyped
  <2> QED BY <1>2, <1>5, <2>1 DEF RotationInv, PointersAreBound, AfterInstall, Rotation!Unbound
<1>11. SessionsAreOnce'
  <2>1. \A i \in DOMAIN procs : \A login \in procs[i].tokens :
           login[1] \in Nat /\ login[1] <= rotation.attempt
    BY <1>7 DEF Spaces, Logins, RotationInv, SessionsAreOnce
  <2>2. \A i \in DOMAIN procs : \A login \in procs[i].tokens :
           login[1] <= rotation'.attempt /\ login[1] # rotation'.attempt
    BY <1>3, <1>5, <2>1
  <2> QED BY <1>2, <1>5, <2>2 DEF SessionsAreOnce, Rotation!TheSessionIsGone, Rotation!Finished
<1>12. EvidenceHolds'
  BY <1>5 DEF EvidenceHolds, Rotation!EvidenceIsFromTheSuccessor, Rotation!EvidenceWasFresh,
     Rotation!Finished
<1> QED BY <1>8, <1>9, <1>10, <1>11, <1>12 DEF RotationInv

\* The evidence of an attempt that is not finished says nothing yet.
LEMMA UnfinishedEvidence ==
    ASSUME rotation'.pc # "done" \/ rotation'.kind # "rotate"
    PROVE  EvidenceHolds'
BY DEF EvidenceHolds, Rotation!EvidenceIsFromTheSuccessor, Rotation!EvidenceWasFresh,
   Rotation!Finished

\* The steps that bind pointers.
LEMMA BindingSteps ==
    ASSUME RotationInv, Rotation!Pin \/ Rotation!ReadPointer \/ Rotation!Bound
    PROVE  RotationInv'
<1>1. /\ UNCHANGED <<day, history, settings, procs, evidence>>
      /\ rotation \in Rotations /\ history \in Seq(Pointers) /\ Len(history) \in Nat \ {0}
      /\ DOMAIN history = 1 .. Len(history)
  BY LenProperties DEF RotationInv, RotationTyped, Rotation!Pin, Rotation!ReadPointer,
     Rotation!Bound, Rotation!Step, Rotation!Quiet
<1>2. ASSUME rotation.pc \in {"pin", "pointers"}, rotation' \in Rotations,
             rotation'.attempt = rotation.attempt, rotation'.tries = rotation.tries,
             rotation'.installed = rotation.installed, rotation'.kind = rotation.kind,
             \/ rotation'.pc = "pointers"
             \/ rotation'.pc = "install" /\ rotation.kind = "rotate"
             \/ rotation'.pc = "done" /\ rotation.kind # "rotate",
             PointersAreBound'
      PROVE  RotationInv'
  <2>1. RotationTyped'
    BY <1>1, <1>2 DEF RotationInv, RotationTyped
  <2>2. GenerationsHold'
    BY <1>1, <1>2 DEF RotationInv, GenerationsHold, Rotation!Running, AfterInstall
  <2>3. SessionsAreOnce'
    BY <1>1, <1>2 DEF RotationInv, SessionsAreOnce, BeforeLogout, Rotation!TheSessionIsGone,
       Rotation!Finished
  <2> QED BY <1>2, <2>1, <2>2, <2>3, UnfinishedEvidence DEF RotationInv
<1>3. CASE Rotation!Pin
  <2>1. PICK n : n = Len(history)
    OBVIOUS
  <2>2. rotation.pc = "pin" /\ rotation' = [rotation EXCEPT !.pc = "pointers", !.rev = n]
    BY <1>3, <2>1 DEF Rotation!Pin, Rotation!Step
  <2>3. /\ rotation' \in Rotations /\ rotation'.pc = "pointers" /\ rotation'.rev = n
        /\ rotation'.expected = rotation.expected /\ rotation'.kind = rotation.kind
        /\ rotation'.attempt = rotation.attempt /\ rotation'.tries = rotation.tries
        /\ rotation'.installed = rotation.installed
    BY <1>1, <2>1, <2>2 DEF Rotations
  <2>4. \A l \in Boards : rotation.expected[l] = Rotation!NotRead
    BY <2>2 DEF RotationInv, PointersAreBound, Rotation!Unbound
  <2>5. PointersAreBound'
    BY <1>1, <2>1, <2>3, <2>4 DEF PointersAreBound, AfterInstall
  <2> QED BY <1>2, <2>2, <2>3, <2>5
<1>4. CASE Rotation!ReadPointer
  <2>1. PICK l \in Boards : rotation' = [rotation EXCEPT !.expected[l] = history[rotation.rev][l]]
    BY <1>4 DEF Rotation!ReadPointer, Rotation!Pointer
  <2>2. rotation.pc = "pointers" /\ rotation.rev \in DOMAIN history
    BY <1>4 DEF Rotation!ReadPointer, Rotation!Step, RotationInv, PointersAreBound
  <2>3. PICK s : s = history[rotation.rev][l]
    OBVIOUS
  <2>4. history[rotation.rev] \in Pointers
    BY <1>1, <2>2, ElementOfSeq
  <2>5. s \in [commit : Nat, asOf : Nat] /\ rotation' = [rotation EXCEPT !.expected[l] = s]
    BY <2>1, <2>3, <2>4 DEF Pointers
  <2>6. /\ rotation' \in Rotations /\ rotation'.pc = "pointers" /\ rotation'.rev = rotation.rev
        /\ rotation'.kind = rotation.kind
        /\ rotation'.attempt = rotation.attempt /\ rotation'.tries = rotation.tries
        /\ rotation'.installed = rotation.installed
    BY <1>1, <2>2, <2>5 DEF Rotations, Pointers
  <2>7. rotation'.expected = [rotation.expected EXCEPT ![l] = s] /\ rotation.expected \in Pointers
    BY <1>1, <2>5 DEF Rotations
  <2>8. \A m \in Boards : rotation'.expected[m] = IF m = l THEN s ELSE rotation.expected[m]
    BY <2>7 DEF Pointers
  <2>9. PointersAreBound'
    BY <1>1, <2>2, <2>3, <2>6, <2>8 DEF RotationInv, PointersAreBound, AfterInstall
  <2> QED BY <1>2, <2>2, <2>6, <2>9
<1>5. CASE Rotation!Bound
  <2>1. PICK pc : pc = IF rotation.kind = "rotate" THEN "install" ELSE "done"
    OBVIOUS
  <2>2. /\ rotation.pc = "pointers" /\ rotation' = [rotation EXCEPT !.pc = pc]
        /\ \A l \in Boards : rotation.expected[l] # Rotation!NotRead
    BY <1>5, <2>1 DEF Rotation!Bound, Rotation!Step
  <2>3. /\ rotation' \in Rotations /\ rotation'.pc = pc /\ rotation'.rev = rotation.rev
        /\ rotation'.kind = rotation.kind /\ rotation'.expected = rotation.expected
        /\ rotation'.attempt = rotation.attempt /\ rotation'.tries = rotation.tries
        /\ rotation'.installed = rotation.installed
    BY <1>1, <2>1, <2>2 DEF Rotations
  <2>4. PointersAreBound'
    <3>1. pc \notin {"idle", "pin", "failed"}
      BY <2>1
    <3> QED BY <1>1, <2>2, <2>3, <3>1 DEF RotationInv, PointersAreBound
  <2> QED BY <1>2, <2>1, <2>2, <2>3, <2>4
<1> QED BY <1>3, <1>4, <1>5

\* The steps that change the settings.
LEMMA InstallingSteps ==
    ASSUME Rotation!RotationAssumption, RotationInv,
           Rotation!InstallSecret \/ Rotation!SetGeneration
    PROVE  RotationInv'
<1>1. /\ UNCHANGED <<day, history, procs, evidence>>
      /\ rotation \in Rotations /\ settings \in Configs /\ rotation.pc = "install"
      /\ rotation.installed \in 0 .. Len(Order) /\ rotation.attempt \in 0 .. MaxRotations
  BY DEF RotationInv, RotationTyped, Rotations, Rotation!InstallSecret, Rotation!SetGeneration,
     Rotation!Step
<1>2. rotation.kind = "rotate" /\ rotation.attempt \in Nat /\ settings.gen \in Nat
  BY <1>1, RotationConstants DEF RotationInv, GenerationsHold, Rotation!Running, Configs
<1>3. ASSUME rotation' \in Rotations, settings' \in Configs, rotation'.pc = "install",
             rotation'.attempt = rotation.attempt, rotation'.tries = rotation.tries,
             rotation'.kind = rotation.kind, rotation'.rev = rotation.rev,
             rotation'.expected = rotation.expected, GenerationsHold'
      PROVE  RotationInv'
  <2>1. RotationTyped'
    BY <1>1, <1>3 DEF RotationInv, RotationTyped
  <2>2. PointersAreBound'
    BY <1>1, <1>3 DEF RotationInv, PointersAreBound
  <2>3. SessionsAreOnce'
    BY <1>1, <1>3 DEF RotationInv, SessionsAreOnce, BeforeLogout, Rotation!TheSessionIsGone,
       Rotation!Finished
  <2> QED BY <1>3, <2>1, <2>2, <2>3, UnfinishedEvidence DEF RotationInv
<1>4. CASE Rotation!InstallSecret
  <2>1. PICK n : n = rotation.installed + 1
    OBVIOUS
  <2>2. /\ rotation.installed < Len(Order)
        /\ settings' = [settings EXCEPT !.secrets[Order[n]] = "new"]
        /\ rotation' = [rotation EXCEPT !.installed = n]
    BY <1>4, <2>1 DEF Rotation!InstallSecret
  <2>3. n \in 1 .. Len(Order) /\ n \in 0 .. Len(Order) /\ Order[n] \in Rotation!Secrets
    <3>1. Len(Order) \in Nat /\ \A k \in 1 .. Len(Order) : Order[k] \in Rotation!Secrets
      BY RotationConstants
    <3>2. n \in 1 .. Len(Order) /\ n \in 0 .. Len(Order)
      BY <1>1, <2>1, <2>2, <3>1
    <3> QED BY <3>1, <3>2
  <2>4. /\ rotation' \in Rotations /\ rotation'.pc = "install" /\ rotation'.installed = n
        /\ rotation'.attempt = rotation.attempt /\ rotation'.tries = rotation.tries
        /\ rotation'.kind = rotation.kind /\ rotation'.rev = rotation.rev
        /\ rotation'.expected = rotation.expected
    BY <1>1, <2>2, <2>3 DEF Rotations
  <2>5. /\ settings' \in Configs /\ settings'.gen = settings.gen
        /\ settings'.secrets = [settings.secrets EXCEPT ![Order[n]] = "new"]
        /\ settings.secrets \in [Rotation!Secrets -> {"old", "new"}]
    BY <1>1, <2>2, <2>3 DEF Configs
  <2>6. \A k \in 1 .. n : settings'.secrets[Order[k]] = "new"
    <3>1. ASSUME NEW k \in 1 .. n, k # n PROVE settings.secrets[Order[k]] = "new"
      <4>1. k \in 1 .. rotation.installed
        BY <1>1, <2>1, <3>1
      <4> QED BY <1>1, <4>1 DEF RotationInv, GenerationsHold, Rotation!Running
    <3>2. \A k \in 1 .. n : Order[k] \in Rotation!Secrets
      BY <2>3, RotationConstants
    <3> QED BY <2>3, <2>5, <3>1, <3>2
  <2>7. settings.gen # rotation.attempt
    <3>1. rotation.installed # Len(Order)
      BY <1>1, <2>2, RotationConstants
    <3> QED BY <1>1, <3>1 DEF RotationInv, GenerationsHold, Rotation!Running
  <2>8. GenerationsHold'
    BY <1>1, <1>2, <2>4, <2>5, <2>6, <2>7 DEF RotationInv, GenerationsHold, Rotation!Running,
       AfterInstall
  <2> QED BY <1>3, <2>4, <2>5, <2>8
<1>5. CASE Rotation!SetGeneration
  <2>1. /\ rotation.installed = Len(Order) /\ settings.gen # rotation.attempt
        /\ settings' = [settings EXCEPT !.gen = rotation.attempt] /\ rotation' = rotation
    BY <1>5 DEF Rotation!SetGeneration, Rotation!GenerationDue
  <2>2. /\ settings' \in Configs /\ settings'.gen = rotation.attempt
        /\ settings'.secrets = settings.secrets
    BY <1>1, <2>1 DEF Configs
  <2>3. \A i \in DOMAIN procs : procs[i].cfg.gen \in Nat /\ procs[i].cfg.gen < rotation.attempt
    <3>1. \A i \in DOMAIN procs : procs[i] \in Spaces
      BY LenProperties, ElementOfSeq DEF RotationInv, RotationTyped
    <3>2. \A i \in DOMAIN procs : procs[i].cfg.gen \in Nat
      BY <3>1, RotationConstants DEF Spaces, Configs
    <3>3. /\ settings.gen <= rotation.attempt
          /\ \A i \in DOMAIN procs : procs[i].cfg.gen <= settings.gen
      BY DEF RotationInv, GenerationsHold
    <3> QED BY <1>2, <2>1, <3>2, <3>3
  <2>4. /\ \A i \in DOMAIN procs : procs[i].cfg.gen <= rotation.attempt
        /\ \A i \in DOMAIN procs : procs[i].cfg.gen # rotation.attempt
        /\ rotation.attempt <= rotation.attempt
    BY <1>2, <2>3
  <2>5. GenerationsHold'
    BY <1>1, <1>2, <2>1, <2>2, <2>4 DEF RotationInv, GenerationsHold, Rotation!Running,
       AfterInstall
  <2> QED BY <1>1, <1>3, <2>1, <2>2, <2>5
<1> QED BY <1>4, <1>5


\* Sessions are opened and closed in one process; its configuration stays.
LEMMA TokensChange ==
    ASSUME RotationInv, NEW i \in DOMAIN procs, NEW T \in SUBSET Logins,
           procs' = [procs EXCEPT ![i].tokens = T]
    PROVE  /\ procs' \in Seq(Spaces) /\ Len(procs') = Len(procs) /\ DOMAIN procs' = DOMAIN procs
           /\ procs'[i].tokens = T
           /\ \A j \in DOMAIN procs : /\ procs'[j].cfg = procs[j].cfg
                                      /\ j # i => procs'[j] = procs[j]
<1>1. procs \in Seq(Spaces)
  BY DEF RotationInv, RotationTyped
<1>2. procs[i] \in Spaces /\ i \in 1 .. Len(procs)
  BY <1>1, LenProperties, ElementOfSeq
<1>3. PICK q : q = [procs[i] EXCEPT !.tokens = T]
  OBVIOUS
<1>4. q \in Spaces /\ q.tokens = T /\ q.cfg = procs[i].cfg
  BY <1>2, <1>3 DEF Spaces
<1>5. procs' = [procs EXCEPT ![i] = q]
  BY <1>3
<1>6. procs' \in Seq(Spaces) /\ Len(procs') = Len(procs)
  BY <1>1, <1>2, <1>4, <1>5, ExceptSeq
<1>7. DOMAIN procs' = DOMAIN procs /\ procs'[i] = q
      /\ \A j \in DOMAIN procs : j # i => procs'[j] = procs[j]
  BY <1>5
<1> QED BY <1>4, <1>6, <1>7

\* What a step of the job keeps that changes sessions alone.
LEMMA SessionStepKeeps ==
    ASSUME RotationInv, UNCHANGED <<day, history, settings, evidence>>,
           procs' \in Seq(Spaces), Len(procs') = Len(procs), DOMAIN procs' = DOMAIN procs,
           \A i \in DOMAIN procs : procs'[i].cfg = procs[i].cfg,
           rotation.pc \in {"login", "logout"},
           rotation' \in Rotations, rotation'.pc \in {"health", "logout", "board", "failed"},
           rotation'.kind = rotation.kind, rotation'.attempt = rotation.attempt,
           rotation'.rev = rotation.rev, rotation'.expected = rotation.expected,
           rotation'.installed = rotation.installed, SessionsAreOnce'
    PROVE  RotationInv'
<1>1. RotationTyped'
  BY DEF RotationInv, RotationTyped
<1>2. GenerationsHold'
  BY DEF RotationInv, GenerationsHold, Rotation!Running, AfterInstall
<1>3. PointersAreBound'
  BY DEF RotationInv, PointersAreBound, AfterInstall
<1> QED BY <1>1, <1>2, <1>3, UnfinishedEvidence DEF RotationInv

LEMMA LoginKeeps ==
    ASSUME Rotation!RotationAssumption, RotationInv, Rotation!Login
    PROVE  RotationInv'
<1>1. PICK i \in DOMAIN procs :
          IF Rotation!Admits(procs[i])
          THEN LET token == <<rotation.attempt, rotation.tries>>
               IN  /\ procs' = [procs EXCEPT ![i].tokens = @ \cup {token}]
                   /\ IF procs[i].cfg.gen = rotation.attempt
                      THEN rotation' = [rotation EXCEPT !.pc = "logout", !.session = token]
                      ELSE Rotation!Again("health")
          ELSE Rotation!Again("health") /\ UNCHANGED procs
  BY DEF Rotation!Login
<1>2. /\ rotation.pc = "login" /\ UNCHANGED <<day, history, settings, evidence>>
      /\ rotation \in Rotations /\ procs \in Seq(Spaces)
  BY DEF Rotation!Login, Rotation!Step, Rotation!Quiet, RotationInv, RotationTyped
<1>3. rotation.attempt \in Nat /\ rotation.tries \in Nat
  BY <1>2, RotationConstants DEF Rotations
<1>4. PICK token : token = <<rotation.attempt, rotation.tries>>
  OBVIOUS
<1>5. token \in Logins /\ token[1] = rotation.attempt /\ token[2] = rotation.tries
  BY <1>3, <1>4 DEF Logins
<1>6. \A j \in DOMAIN procs : procs[j] \in Spaces
  BY <1>2, LenProperties, ElementOfSeq
<1>7. \A j \in DOMAIN procs : \A login \in procs[j].tokens :
         /\ login[1] \in Nat /\ login[2] \in Nat /\ login[1] <= rotation.attempt
         /\ login[1] = rotation.attempt => login[2] < rotation.tries
  BY <1>2, <1>6 DEF Spaces, Logins, RotationInv, SessionsAreOnce, BeforeLogout
<1>8. PICK T : T = procs[i].tokens \cup {token}
  OBVIOUS
<1>9. T \in SUBSET Logins
  BY <1>5, <1>6, <1>8 DEF Spaces
<1>10. /\ procs' \in Seq(Spaces) /\ Len(procs') = Len(procs) /\ DOMAIN procs' = DOMAIN procs
       /\ \A j \in DOMAIN procs : /\ procs'[j].cfg = procs[j].cfg
                                  /\ procs'[j].tokens \subseteq procs[j].tokens \cup {token}
                                  /\ j # i => procs'[j] = procs[j]
  <2>1. CASE procs' = [procs EXCEPT ![i].tokens = @ \cup {token}]
    <3>1. procs' = [procs EXCEPT ![i].tokens = T]
      BY <1>8, <2>1
    <3>2. /\ procs' \in Seq(Spaces) /\ Len(procs') = Len(procs) /\ DOMAIN procs' = DOMAIN procs
          /\ procs'[i].tokens = T
          /\ \A j \in DOMAIN procs : /\ procs'[j].cfg = procs[j].cfg
                                     /\ j # i => procs'[j] = procs[j]
      BY <1>9, <3>1, TokensChange
    <3> QED BY <1>8, <3>2
  <2>2. CASE procs' = procs
    BY <1>2, <2>2
  <2> QED BY <1>1, <1>4, <2>1, <2>2
<1>11. CASE Rotation!Again("health")
  <2>1. /\ rotation' \in Rotations /\ Same
        /\ \/ rotation'.pc = "health" /\ rotation'.tries = rotation.tries + 1
           \/ rotation'.pc = "failed" /\ rotation'.tries = rotation.tries
    BY <1>2, <1>11, AgainTurns
  <2>2. SessionsAreOnce'
    <3>1. ASSUME NEW j \in DOMAIN procs', NEW login \in procs'[j].tokens
          PROVE  /\ login[1] <= rotation'.attempt
                 /\ rotation'.pc \in BeforeLogout /\ login[1] = rotation'.attempt =>
                      login[2] < rotation'.tries
      <4>1. CASE login = token
        BY <1>3, <1>5, <2>1, <4>1 DEF Same, BeforeLogout
      <4>2. CASE login \in procs[j].tokens
        BY <1>3, <1>7, <1>10, <2>1, <4>2 DEF Same, BeforeLogout
      <4> QED BY <1>10, <3>1, <4>1, <4>2
    <3> QED BY <2>1, <3>1 DEF SessionsAreOnce, Rotation!TheSessionIsGone, Rotation!Finished
  <2> QED BY <1>2, <1>10, <2>1, <2>2, SessionStepKeeps DEF Same
<1>12. CASE rotation' = [rotation EXCEPT !.pc = "logout", !.session = token]
  <2>1. /\ rotation' \in Rotations /\ rotation'.pc = "logout" /\ rotation'.session = token
        /\ rotation'.kind = rotation.kind /\ rotation'.attempt = rotation.attempt
        /\ rotation'.rev = rotation.rev /\ rotation'.expected = rotation.expected
        /\ rotation'.installed = rotation.installed
    BY <1>2, <1>5, <1>12 DEF Rotations
  <2>2. SessionsAreOnce'
    <3>1. \A j \in DOMAIN procs : token \notin procs[j].tokens
      BY <1>3, <1>5, <1>7
    <3>2. \A j \in DOMAIN procs' : token \in procs'[j].tokens => j = i
      BY <1>10, <3>1
    <3>3. \A j \in DOMAIN procs' : \A login \in procs'[j].tokens : login[1] <= rotation'.attempt
      BY <1>3, <1>5, <1>7, <1>10, <2>1
    <3> QED BY <2>1, <3>2, <3>3 DEF SessionsAreOnce, BeforeLogout, Rotation!TheSessionIsGone,
           Rotation!Finished
  <2> QED BY <1>2, <1>10, <2>1, <2>2, SessionStepKeeps
<1> QED BY <1>1, <1>4, <1>11, <1>12

LEMMA LogoutKeeps ==
    ASSUME Rotation!RotationAssumption, RotationInv, Rotation!Logout
    PROVE  RotationInv'
<1>1. PICK i \in DOMAIN procs :
          /\ procs' = [procs EXCEPT ![i].tokens = @ \ {rotation.session}]
          /\ rotation' = IF Rotation!LogoutAnswered(procs[i])
                         THEN [rotation EXCEPT !.pc = "board", !.tries = 0]
                         ELSE [rotation EXCEPT !.pc = "failed"]
  BY DEF Rotation!Logout
<1>2. /\ rotation.pc = "logout" /\ UNCHANGED <<day, history, settings, evidence>>
      /\ rotation \in Rotations /\ procs \in Seq(Spaces)
  BY DEF Rotation!Logout, Rotation!Step, Rotation!Quiet, RotationInv, RotationTyped
<1>3. PICK T : T = procs[i].tokens \ {rotation.session}
  OBVIOUS
<1>4. procs[i] \in Spaces
  BY <1>2, LenProperties, ElementOfSeq
<1>5. T \in SUBSET Logins /\ procs' = [procs EXCEPT ![i].tokens = T]
  BY <1>1, <1>3, <1>4 DEF Spaces
<1>6. /\ procs' \in Seq(Spaces) /\ Len(procs') = Len(procs) /\ DOMAIN procs' = DOMAIN procs
      /\ procs'[i].tokens = T
      /\ \A j \in DOMAIN procs : /\ procs'[j].cfg = procs[j].cfg
                                 /\ j # i => procs'[j] = procs[j]
  BY <1>5, TokensChange
<1>7. \A j \in DOMAIN procs' : procs'[j].tokens \subseteq procs[j].tokens
  BY <1>3, <1>6
<1>8. /\ rotation' \in Rotations
      /\ rotation'.pc = IF Rotation!LogoutAnswered(procs[i]) THEN "board" ELSE "failed"
      /\ rotation'.kind = rotation.kind /\ rotation'.attempt = rotation.attempt
      /\ rotation'.rev = rotation.rev /\ rotation'.expected = rotation.expected
      /\ rotation'.installed = rotation.installed /\ rotation'.session = rotation.session
  <2>1. 0 \in 0 .. MaxTries - 1
    BY RotationConstants
  <2>2. CASE Rotation!LogoutAnswered(procs[i])
    BY <1>1, <1>2, <2>1, <2>2 DEF Rotations
  <2>3. CASE ~ Rotation!LogoutAnswered(procs[i])
    BY <1>1, <1>2, <2>3 DEF Rotations
  <2> QED BY <2>2, <2>3
<1>9. SessionsAreOnce'
  <2>1. \A j \in DOMAIN procs' : \A login \in procs'[j].tokens : login[1] <= rotation'.attempt
    BY <1>6, <1>7, <1>8 DEF RotationInv, SessionsAreOnce
  <2>2. rotation'.pc = "board" => \A j \in DOMAIN procs' : rotation.session \notin procs'[j].tokens
    BY <1>2, <1>3, <1>6, <1>8 DEF Rotation!LogoutAnswered, RotationInv, SessionsAreOnce
  <2> QED BY <1>8, <2>1, <2>2 DEF SessionsAreOnce, BeforeLogout, Rotation!TheSessionIsGone,
         Rotation!Finished
<1> QED BY <1>2, <1>6, <1>8, <1>9, SessionStepKeeps

LEMMA BuildKeeps ==
    ASSUME Rotation!RotationAssumption, RotationInv, Rotation!GetBuild
    PROVE  RotationInv'
<1>1. /\ rotation.pc = "build" /\ UNCHANGED <<day, history, settings, procs>>
      /\ rotation \in Rotations /\ settings.gen = rotation.attempt /\ Rotation!Running
  BY DEF Rotation!GetBuild, Rotation!Step, Rotation!Quiet, RotationInv, RotationTyped,
     GenerationsHold, AfterInstall, Rotation!Running
<1>2. CASE Rotation!Again("board") /\ UNCHANGED evidence
  <2>1. <<"build", "board">> \in Turns
    BY DEF Turns
  <2> QED BY <1>1, <1>2, <2>1, AgainTurns, JobTurns
<1>3. CASE ~ (Rotation!Again("board") /\ UNCHANGED evidence)
  <2>1. PICK i \in DOMAIN procs :
             /\ Rotation!Complete(procs[i].cfg) /\ Rotation!MatchesThePointers
             /\ rotation' = [rotation EXCEPT !.pc = "done"]
             /\ evidence' = <<[board |-> rotation.board, build |-> procs[i].cfg, day |-> day]>>
    BY <1>3 DEF Rotation!GetBuild
  <2>2. /\ rotation' \in Rotations /\ rotation'.pc = "done" /\ Same
        /\ rotation'.tries = rotation.tries
    BY <1>1, <2>1 DEF Rotations, Same
  <2>3. RotationTyped'
    BY <1>1, <2>2 DEF RotationInv, RotationTyped
  <2>4. GenerationsHold'
    BY <1>1, <2>2 DEF RotationInv, GenerationsHold, AfterInstall, Rotation!Running, Same
  <2>5. PointersAreBound'
    BY <1>1, <2>2 DEF RotationInv, PointersAreBound, AfterInstall, Same
  <2>6. SessionsAreOnce'
    BY <1>1, <2>2 DEF RotationInv, SessionsAreOnce, BeforeLogout, Same,
       Rotation!TheSessionIsGone, Rotation!Finished
  <2>7. /\ evidence'[1].board = rotation.board /\ evidence'[1].build = procs[i].cfg
        /\ evidence'[1].day = day
    BY <2>1
  <2>8. /\ procs[i].cfg = settings /\ rotation.board.cfg = settings
        /\ rotation.board \in Answers /\ rotation.installed = Len(Order)
    BY <1>1, <2>1 DEF RotationInv, GenerationsHold, Rotation!Complete, Rotation!GenerationBound
  <2>9. /\ settings.rev = Target /\ settings.attested = Target
        /\ \A s \in Rotation!Secrets : settings.secrets[s] = "new"
    <3>1. procs[i].cfg.rev = Target /\ procs[i].cfg.attested = procs[i].cfg.rev
      BY <2>1 DEF Rotation!Complete, Rotation!SourceBound, Rotation!Attested
    <3>2. \A k \in 1 .. Len(Order) : settings.secrets[Order[k]] = "new"
      BY <1>1, <2>8 DEF RotationInv, GenerationsHold
    <3> QED BY <2>8, <3>1, <3>2, RotationConstants
  <2>10. Rotation!EvidenceIsFromTheSuccessor'
    BY <1>1, <2>2, <2>7, <2>8, <2>9 DEF Rotation!EvidenceIsFromTheSuccessor, Same
  <2>11. ASSUME NEW l \in Boards
         PROVE  evidence'[1].day - evidence'[1].board.lanes[l].asOf <= FreshDays
    <3>1. PICK s : s = rotation.board.lanes[l]
      OBVIOUS
    <3>2. s \in [commit : Nat, asOf : Nat]
      BY <2>8, <3>1 DEF Answers, Pointers
    <3>3. Rotation!SnapshotErrors(s) = {}
      BY <2>1, <3>1 DEF Rotation!Complete
    <3>4. s # Rotation!NotRead /\ ~ (day - s.asOf > FreshDays)
      BY <3>3 DEF Rotation!SnapshotErrors
    <3>5. day \in Nat /\ s.asOf \in Nat /\ FreshDays \in Nat
      BY <3>2, RotationConstants DEF RotationInv, RotationTyped
    <3> QED BY <2>7, <3>1, <3>4, <3>5
  <2>12. evidence'[1].board.lanes = rotation'.expected
    BY <2>1, <2>2, <2>7 DEF Rotation!MatchesThePointers, Same
  <2>13. EvidenceHolds'
    BY <2>10, <2>11, <2>12 DEF EvidenceHolds, Rotation!EvidenceWasFresh
  <2> QED BY <2>3, <2>4, <2>5, <2>6, <2>13 DEF RotationInv
<1> QED BY <1>2, <1>3

LEMMA RotationNext ==
    ASSUME Rotation!RotationAssumption, RotationInv, [Rotation!Next]_Rotation!vars
    PROVE  RotationInv'
BY PlatformSteps, WorldSteps, TurningSteps, BeginKeeps, BindingSteps, InstallingSteps,
   LoginKeeps, LogoutKeeps, BuildKeeps DEF Rotation!Next, Rotation!Attempt

\* However processes restart and crash, requests are answered by which process, pointers
\* move and attempts fail, the invariant holds.
THEOREM RotationInvariant ==
    ASSUME Rotation!RotationAssumption PROVE Rotation!Spec => []RotationInv
<1>1. Rotation!Init => RotationInv
  BY RotationInit
<1>2. RotationInv /\ [Rotation!Next]_Rotation!vars => RotationInv'
  BY RotationNext
<1> QED BY <1>1, <1>2, PTL DEF Rotation!Spec

\* What a finished rotation rests on came from processes that had loaded every
\* replacement and the attested target revision, and from the pointers of one dataset
\* revision, fresh when they were accepted; the session reported as logged out is alive
\* in no process (rotate-space-credentials.yml, evaluate, validate_runtime_report).
THEOREM RotationEvidenceStands ==
    ASSUME Rotation!RotationAssumption
    PROVE  Rotation!Spec => []EvidenceIsTheSuccessors
<1>1. ASSUME RotationInv PROVE Rotation!EvidenceIsTheSuccessors
  <2>1. Rotation!RotationTypeOK
    BY <1>1, RotationConstants DEF RotationInv, RotationTyped, Configs, Rotations,
       PointersAreBound, Rotation!RotationTypeOK
  <2>2. Rotation!EvidenceIsOneRevision
    <3>1. ASSUME rotation.pc = "done" PROVE rotation.expected = history[rotation.rev]
                                            /\ rotation.rev \in DOMAIN history
      <4>1. /\ rotation.rev \in DOMAIN history
            /\ \A l \in Boards : rotation.expected[l] = history[rotation.rev][l]
        BY <1>1, <3>1 DEF RotationInv, PointersAreBound
      <4>2. history[rotation.rev] \in Pointers /\ rotation.expected \in Pointers
        BY <1>1, <4>1, LenProperties, ElementOfSeq DEF RotationInv, RotationTyped, Rotations
      <4> QED BY <4>1, <4>2 DEF Pointers
    <3> QED BY <1>1, <3>1 DEF RotationInv, EvidenceHolds, Rotation!EvidenceIsOneRevision,
           Rotation!Finished
  <2> QED BY <1>1, <2>1, <2>2 DEF Rotation!EvidenceIsTheSuccessors, RotationInv, SessionsAreOnce,
         EvidenceHolds
<1> QED BY <1>1, RotationInvariant, PTL DEF EvidenceIsTheSuccessors


-----------------------------------------------------------------------------
\* The release contract.  An artifact that says it is of a gate lies where that gate
\* left it, so a complete report has looked at every gate's own artifact.

Runs      == [status : {"running"}, at : Nat, hf : Nat]
Artifacts == [status : {"PASS", "FAIL"}, gate : Gates, hf : Nat, started : Nat, finished : Nat]

ReleaseInv ==
    /\ instant \in Nat /\ space \in Nat
    /\ begunGates \in [Gates -> Runs \cup {Release!NotRun}]
    /\ artifacts \in [Gates -> Artifacts \cup {Release!NotRun}]
    /\ \A g \in Gates : artifacts[g] # Release!NotRun => artifacts[g].gate = g
    /\ report.captured \in Nat /\ report.until \in Nat
    /\ \A ref \in report.refs : ref.gate \in Gates /\ ref.path \in Gates

LEMMA ReleaseNext ==
    ASSUME Release!ContractAssumption, ReleaseInv, [Release!Next]_Release!vars
    PROVE  ReleaseInv'
<1>1. LastInstant \in Nat
  BY DEF Release!ContractAssumption
<1>2. CASE Release!NextInstant \/ Release!Redeploy \/ UNCHANGED Release!vars
  BY <1>2 DEF ReleaseInv, Release!NextInstant, Release!Redeploy, Release!vars
<1>3. ASSUME NEW g \in Gates, Release!BeginGate(g) PROVE ReleaseInv'
  <2>1. PICK r : r = [status |-> "running", at |-> instant,
                      hf |-> IF g \in Runtime THEN space ELSE Release!NoHf]
    OBVIOUS
  <2>2. r \in Runs
    BY <2>1 DEF ReleaseInv, Runs, Release!NoHf
  <2>3. begunGates' = [begunGates EXCEPT ![g] = r]
    BY <1>3, <2>1 DEF Release!BeginGate
  <2> QED BY <1>3, <2>2, <2>3 DEF ReleaseInv, Release!BeginGate
<1>4. ASSUME NEW g \in Gates, Release!EndGate(g) PROVE ReleaseInv'
  <2>1. PICK s \in {"PASS", "FAIL"} :
          artifacts' = [artifacts EXCEPT ![g] =
              [status |-> s, gate |-> g, hf |-> begunGates[g].hf, started |-> begunGates[g].at,
               finished |-> instant]]
    BY <1>4 DEF Release!EndGate
  <2>2. PICK a : a = [status |-> s, gate |-> g, hf |-> begunGates[g].hf,
                      started |-> begunGates[g].at, finished |-> instant]
    OBVIOUS
  <2>3. begunGates[g] \in Runs
    BY <1>4 DEF ReleaseInv, Release!EndGate
  <2>4. a \in Artifacts /\ a.gate = g
    BY <2>2, <2>3 DEF ReleaseInv, Runs, Artifacts
  <2>5. artifacts' = [artifacts EXCEPT ![g] = a]
    BY <2>1, <2>2
  <2>6. begunGates' = [begunGates EXCEPT ![g] = Release!NotRun]
        /\ UNCHANGED <<instant, space, report>>
    BY <1>4 DEF Release!EndGate
  <2> QED BY <2>4, <2>5, <2>6 DEF ReleaseInv
<1>5. CASE Release!WriteReport
  <2>1. PICK G \in SUBSET Gates, until \in instant + 1 .. LastInstant + 1,
             path \in [Gates -> Gates] :
          report' = [captured |-> instant, until |-> until, hf |-> space,
                     refs |-> {[gate |-> g, path |-> path[g], digest |-> artifacts[path[g]]]
                                 : g \in G}]
    BY <1>5 DEF Release!WriteReport
  <2>2. /\ report'.captured = instant /\ report'.until = until
        /\ report'.refs = {[gate |-> g, path |-> path[g], digest |-> artifacts[path[g]]] : g \in G}
    BY <2>1
  <2>3. until \in Nat
    BY <1>1 DEF ReleaseInv
  <2>4. \A ref \in report'.refs : ref.gate \in Gates /\ ref.path \in Gates
    BY <2>2
  <2> QED BY <1>5, <2>2, <2>3, <2>4 DEF ReleaseInv, Release!WriteReport
<1> QED BY <1>2, <1>3, <1>4, <1>5 DEF Release!Next

\* Whatever is redeployed, run again and reported in whatever order: a report that is
\* complete stays so until the moment it expires at, its gates ran on one revision of
\* the Space, and each gate passed, in its own artifact, before the report (validate).
THEOREM CompleteReportsStand ==
    ASSUME Release!ContractAssumption PROVE Release!Spec => []CompleteReportsHold
<1>1. Release!Init => ReleaseInv
  BY DEF Release!Init, ReleaseInv, Release!NoReport, Release!NotRun
<1>2. ReleaseInv /\ [Release!Next]_Release!vars => ReleaseInv'
  BY ReleaseNext
<1>3. ASSUME ReleaseInv, Release!Complete PROVE Release!CompleteReportsHold
  <2>1. /\ Runtime \subseteq Gates /\ \A g \in Gates : MaxAge[g] \in Nat
        /\ report.captured <= instant /\ report.captured \in Nat /\ report.until \in Nat
        /\ instant \in Nat /\ Release!AllGates
    BY <1>3 DEF Release!ContractAssumption, Release!Complete, Release!CompleteAt, ReleaseInv
  <2>2. ASSUME NEW ref \in report.refs
        PROVE  /\ ref.gate \in Gates /\ ref.path = ref.gate
               /\ Release!Intact(ref)
               /\ Release!Subject(ref.gate, artifacts[ref.path])
               /\ artifacts[ref.path].status = "PASS"
               /\ Release!Timely(ref.gate, artifacts[ref.path], instant)
               /\ artifacts[ref.path].finished \in Nat
               /\ artifacts[ref.path] # Release!NotRun
    <3>1. /\ Release!Intact(ref) /\ Release!Subject(ref.gate, artifacts[ref.path])
          /\ Release!Passed(artifacts[ref.path])
          /\ Release!Timely(ref.gate, artifacts[ref.path], instant)
      BY <1>3 DEF Release!Complete, Release!CompleteAt
    <3>2. ref.gate \in Gates /\ ref.path \in Gates
      BY <1>3 DEF ReleaseInv
    <3>3. artifacts[ref.path].status = "PASS"
      BY <3>1 DEF Release!Passed
    <3>4. artifacts[ref.path] # Release!NotRun
      BY <3>3 DEF Release!NotRun
    <3>5. artifacts[ref.path] \in Artifacts /\ artifacts[ref.path].gate = ref.path
      BY <1>3, <3>2, <3>4 DEF ReleaseInv
    <3>6. artifacts[ref.path].gate = ref.gate
      BY <3>1 DEF Release!Subject
    <3>7. artifacts[ref.path].finished \in Nat
      BY <3>5 DEF Artifacts
    <3> QED BY <3>1, <3>2, <3>3, <3>4, <3>5, <3>6, <3>7
  <2>3. Release!CompleteUntilItExpires
    <3> SUFFICES ASSUME NEW t \in instant .. report.until - 1 PROVE Release!CompleteAt(t)
      BY DEF Release!CompleteUntilItExpires
    <3>1. t \in Nat /\ report.captured <= t /\ t < report.until
      BY <2>1
    <3>2. ASSUME NEW ref \in report.refs
          PROVE  Release!Timely(ref.gate, artifacts[ref.path], t)
      <4>1. PICK f, m : f = artifacts[ref.path].finished /\ m = MaxAge[ref.gate]
        OBVIOUS
      <4>2. f \in Nat /\ m \in Nat /\ report.until <= f + m
        BY <2>1, <2>2, <4>1 DEF Release!Timely
      <4>3. t < f + m
        BY <2>1, <3>1, <4>2
      <4> QED BY <2>2, <4>1, <4>3 DEF Release!Timely
    <3> QED BY <2>1, <2>2, <3>1, <3>2 DEF Release!CompleteAt, Release!Passed
  <2>4. \A g \in Gates : \E ref \in report.refs : ref.gate = g
    BY <2>1 DEF Release!AllGates
  <2>5. Release!OneRevisionOfTheSpace
    <3>1. ASSUME NEW g \in Runtime PROVE artifacts[g].hf = report.hf
      <4>1. PICK ref \in report.refs : ref.gate = g
        BY <2>1, <2>4
      <4> QED BY <2>2, <4>1 DEF Release!Subject
    <3> QED BY <3>1 DEF Release!OneRevisionOfTheSpace
  <2>6. Release!EveryGateStandsForItself
    <3>1. ASSUME NEW g \in Gates
          PROVE  /\ artifacts[g] # Release!NotRun /\ artifacts[g].status = "PASS"
                 /\ artifacts[g].finished <= report.captured
      <4>1. PICK ref \in report.refs : ref.gate = g
        BY <2>4
      <4> QED BY <2>2, <4>1 DEF Release!Timely
    <3> QED BY <3>1 DEF Release!EveryGateStandsForItself
  <2> QED BY <2>3, <2>5, <2>6 DEF Release!CompleteReportsHold
<1>4. ReleaseInv => Release!CompleteReportsHold
  BY <1>3 DEF Release!CompleteReportsHold, Release!CompleteUntilItExpires,
     Release!OneRevisionOfTheSpace, Release!EveryGateStandsForItself
<1> QED BY <1>1, <1>2, <1>4, PTL DEF Release!Spec, CompleteReportsHold
-----------------------------------------------------------------------------
\* The least of some numbers, and the greatest below a bound.
LEMMA LeastNumber ==
    ASSUME NEW S \in SUBSET Nat, S # {}
    PROVE  \E x \in S : \A y \in S : x <= y
<1>1. PICK x \in S : \A y \in Nat : <<y, x>> \in OpToRel(<, Nat) => y \notin S
  BY NatLessThanWellFounded, WFMin
<1>2. ASSUME NEW y \in S PROVE x <= y
  <2>1. x \in Nat /\ y \in Nat
    OBVIOUS
  <2>2. <<y, x>> \notin OpToRel(<, Nat)
    BY <1>1
  <2> QED BY <2>1, <2>2 DEF OpToRel
<1> QED BY <1>2

LEMMA GreatestNumber ==
    ASSUME NEW N \in Nat, NEW S \in SUBSET (0 .. N), S # {}
    PROVE  \E x \in S : \A y \in S : y <= x
<1>1. PICK T : T = {N - x : x \in S}
  OBVIOUS
<1>2. T \in SUBSET Nat /\ T # {}
  <2>1. \A x \in S : N - x \in Nat
    OBVIOUS
  <2> QED BY <1>1, <2>1
<1>3. PICK z \in T : \A y \in T : z <= y
  BY <1>2, LeastNumber
<1>4. PICK x \in S : z = N - x
  BY <1>1
<1>5. ASSUME NEW y \in S PROVE y <= x
  <2>1. z <= N - y
    BY <1>1, <1>3
  <2>2. x \in 0 .. N /\ y \in 0 .. N
    OBVIOUS
  <2> QED BY <1>4, <2>1, <2>2
<1> QED BY <1>5

LEMMA PartsAreFewer ==
    ASSUME NEW S, IsFiniteSet(S), NEW T, T \subseteq S
    PROVE  /\ IsFiniteSet(T) /\ Cardinality(T) \in Nat /\ Cardinality(S) \in Nat
           /\ Cardinality(T) <= Cardinality(S)
           /\ T # S => Cardinality(T) < Cardinality(S)
<1>1. IsFiniteSet(T) /\ Cardinality(T) <= Cardinality(S)
  BY FS_Subset
<1>2. Cardinality(T) \in Nat /\ Cardinality(S) \in Nat
  BY <1>1, FS_CardinalityType
<1>3. T # S => Cardinality(T) # Cardinality(S)
  BY FS_Subset
<1> QED BY <1>1, <1>2, <1>3

\* Induction, for a property given as the set of the numbers that have it.
LEMMA EachStep ==
    ASSUME NEW N \in Nat, NEW P, 0 \in P, \A n \in 0 .. N : n < N /\ n \in P => n + 1 \in P
    PROVE  0 .. N \subseteq P
<1> DEFINE B == {n \in 0 .. N : n \notin P}
<1>1. SUFFICES ASSUME B # {} PROVE FALSE
  OBVIOUS
<1>2. PICK x \in B : \A y \in B : x <= y
  <2>1. B \in SUBSET Nat
    OBVIOUS
  <2> QED BY <1>1, <2>1, LeastNumber
<1>3. x \in 0 .. N /\ x \notin P /\ x # 0
  BY <1>2
<1>4. x - 1 \in 0 .. N /\ x - 1 < N /\ x - 1 \notin B
  BY <1>2, <1>3
<1> QED BY <1>3, <1>4

-----------------------------------------------------------------------------
\* The ECHO lane from the archive to the board.  What is kept while the records stream
\* are the first of those that belong, in order; what a verified bundle holds was
\* admitted on the day the run began and again on the day it was stamped.

Facilities == [id : Nat, state : Targets, age : 0 .. Window, inspected : Nat,
               name : [len : 1 .. NameMax, at : Nat]]

\* The order of a load is a strict order, total on different identities.
LEMMA PrecedesIsAnOrder ==
    ASSUME Export!EchoAssumption, NEW x \in Facilities, NEW y \in Facilities, NEW z \in Facilities
    PROVE  /\ ~Export!Precedes(x, x)
           /\ Export!Precedes(x, y) /\ Export!Precedes(y, z) => Export!Precedes(x, z)
           /\ x.id # y.id => Export!Precedes(x, y) \/ Export!Precedes(y, x)
           /\ Export!Precedes(x, y) => ~Export!Precedes(y, x)
<1>1. /\ x.age \in Nat /\ y.age \in Nat /\ z.age \in Nat
      /\ x.id \in Nat /\ y.id \in Nat /\ z.id \in Nat
  BY DEF Facilities, Export!EchoAssumption
<1> QED BY <1>1 DEF Export!Precedes

\* Places that are closed downwards are the first so many.
LEMMA FirstPlaces ==
    ASSUME NEW n \in Nat, NEW D \in SUBSET (1 .. n),
           \A i \in D, j \in 1 .. n : j < i => j \in D
    PROVE  Cardinality(D) \in 0 .. n /\ D = 1 .. Cardinality(D)
<1>1. CASE D = {}
  <2>1. Cardinality(D) = 0
    BY <1>1, FS_EmptySet
  <2> QED BY <1>1, <2>1
<1>2. CASE D # {}
  <2>1. D \in SUBSET (0 .. n)
    OBVIOUS
  <2>2. PICK g \in D : \A y \in D : y <= g
    BY <1>2, <2>1, GreatestNumber
  <2>3. D = 1 .. g
    <3>1. \A j \in D : j \in 1 .. g
      BY <2>2
    <3>2. \A j \in 1 .. g : j \in 1 .. n /\ (j = g \/ j < g)
      BY <2>2
    <3> QED BY <2>2, <3>1, <3>2
  <2>4. g \in 1 .. n
    BY <2>2
  <2>5. Cardinality(1 .. g) = g
    BY <2>4, FS_Interval
  <2> QED BY <2>3, <2>4, <2>5
<1> QED BY <1>1, <1>2

Ascending(K) == \A i, j \in 1 .. Len(K) : i < j => Export!Precedes(K[i], K[j])

\* The first Take of E, in order.
FirstOf(K, E) ==
    /\ K \in Seq(Facilities) /\ Ascending(K) /\ Len(K) <= Take
    /\ \A i \in 1 .. Len(K) : K[i] \in E
    /\ \A y \in E : \/ \E i \in 1 .. Len(K) : K[i] = y
                    \/ Len(K) = Take /\ \A i \in 1 .. Len(K) : Export!Precedes(K[i], y)

\* A record put in its place, before the last is dropped.
PlacedAt(K, x, A, p) ==
    /\ p \in 0 .. Len(K) /\ A \in Seq(Facilities) /\ Len(A) = Len(K) + 1
    /\ \A i \in 1 .. p : A[i] = K[i] /\ Export!Precedes(K[i], x)
    /\ A[p + 1] = x
    /\ \A i \in 1 .. Len(K) : i > p => A[i + 1] = K[i] /\ ~Export!Precedes(K[i], x)

LEMMA PlacedProperties ==
    ASSUME Export!EchoAssumption, NEW K \in Seq(Facilities), Ascending(K), NEW x \in Facilities
    PROVE  \E p : PlacedAt(K, x, Export!Placed(K, x), p)
<1>1. PICK n : n = Len(K)
  OBVIOUS
<1>2. n \in Nat /\ DOMAIN K = 1 .. n /\ \A i \in 1 .. n : K[i] \in Facilities
  BY <1>1, LenProperties, ElementOfSeq
<1>3. PICK D : D = {i \in 1 .. n : Export!Precedes(K[i], x)}
  OBVIOUS
<1>4. \A i \in D, j \in 1 .. n : j < i => j \in D
  <2> SUFFICES ASSUME NEW i \in D, NEW j \in 1 .. n, j < i PROVE j \in D
    OBVIOUS
  <2>1. i \in 1 .. n /\ Export!Precedes(K[i], x) /\ K[i] \in Facilities /\ K[j] \in Facilities
    BY <1>2, <1>3
  <2>2. Export!Precedes(K[j], K[i])
    BY <1>1, <2>1 DEF Ascending
  <2>3. Export!Precedes(K[j], x)
    BY <2>1, <2>2, PrecedesIsAnOrder
  <2> QED BY <1>3, <2>3
<1>5. PICK p : p = Cardinality(D)
  OBVIOUS
<1>6. p \in 0 .. n /\ D = 1 .. p
  <2>1. D \in SUBSET (1 .. n)
    BY <1>3
  <2> QED BY <1>2, <1>4, <1>5, <2>1, FirstPlaces
<1>7. PICK before, after, one : /\ before = SubSeq(K, 1, p) /\ after = SubSeq(K, p + 1, n)
                                /\ one = <<x>>
  OBVIOUS
<1>8. /\ before \in Seq(Facilities) /\ Len(before) = p
      /\ \A i \in 1 .. p : before[i] = K[i]
  <2>1. \A i \in 1 .. p : K[i] \in Facilities
    BY <1>2, <1>6
  <2>2. 1 \in Int /\ p \in Int /\ p - 1 + 1 = p
    BY <1>6
  <2>3. /\ SubSeq(K, 1, p) \in Seq(Facilities)
        /\ Len(SubSeq(K, 1, p)) = IF 1 <= p THEN p - 1 + 1 ELSE 0
        /\ \A i \in 1 .. p - 1 + 1 : SubSeq(K, 1, p)[i] = K[1 + i - 1]
    BY <2>1, <2>2, SubSeqProperties
  <2>4. \A i \in 1 .. p : 1 + i - 1 = i
    BY <1>6
  <2> QED BY <1>6, <1>7, <2>2, <2>3, <2>4
<1>9. /\ after \in Seq(Facilities) /\ Len(after) = n - p
      /\ \A i \in 1 .. n - p : after[i] = K[p + i]
  <2>1. \A i \in p + 1 .. n : K[i] \in Facilities
    BY <1>2, <1>6
  <2>2. p + 1 \in Int /\ n \in Int /\ n - (p + 1) + 1 = n - p
    BY <1>2, <1>6
  <2>3. /\ SubSeq(K, p + 1, n) \in Seq(Facilities)
        /\ Len(SubSeq(K, p + 1, n)) = IF p + 1 <= n THEN n - (p + 1) + 1 ELSE 0
        /\ \A i \in 1 .. n - (p + 1) + 1 : SubSeq(K, p + 1, n)[i] = K[(p + 1) + i - 1]
    BY <2>1, <2>2, SubSeqProperties
  <2>4. \A i \in 1 .. n - p : (p + 1) + i - 1 = p + i
    BY <1>2, <1>6
  <2>5. p + 1 <= n \/ n - p = 0
    BY <1>2, <1>6
  <2> QED BY <1>7, <2>2, <2>3, <2>4, <2>5
<1>10. one \in Seq(Facilities) /\ Len(one) = 1 /\ one[1] = x
  BY <1>7
<1>11. PICK head : head = before \o one
  OBVIOUS
<1>12. /\ head \in Seq(Facilities) /\ Len(head) = p + 1
       /\ \A i \in 1 .. p : head[i] = K[i]
       /\ head[p + 1] = x
  <2>1. /\ head \in Seq(Facilities) /\ Len(head) = p + 1
        /\ \A i \in 1 .. p + 1 : head[i] = IF i <= p THEN before[i] ELSE one[i - p]
    <3>1. /\ before \o one \in Seq(Facilities)
          /\ Len(before \o one) = Len(before) + Len(one)
          /\ \A i \in 1 .. Len(before) + Len(one) :
                (before \o one)[i] = IF i <= Len(before) THEN before[i] ELSE one[i - Len(before)]
      BY <1>8, <1>10, ConcatProperties
    <3> QED BY <1>8, <1>10, <1>11, <3>1
  <2>2. \A i \in 1 .. p : i \in 1 .. p + 1 /\ i <= p
    BY <1>6
  <2>3. p + 1 \in 1 .. p + 1 /\ ~(p + 1 <= p) /\ (p + 1) - p = 1
    BY <1>6
  <2> QED BY <1>8, <1>10, <2>1, <2>2, <2>3
<1>13. PICK A : A = head \o after
  OBVIOUS
<1>14. /\ A \in Seq(Facilities) /\ Len(A) = n + 1
       /\ \A i \in 1 .. p + 1 : A[i] = head[i]
       /\ \A i \in 1 .. n - p : A[p + 1 + i] = after[i]
  <2>1. /\ A \in Seq(Facilities) /\ Len(A) = (p + 1) + (n - p)
        /\ \A i \in 1 .. (p + 1) + (n - p) :
              A[i] = IF i <= p + 1 THEN head[i] ELSE after[i - (p + 1)]
    <3>1. /\ head \o after \in Seq(Facilities)
          /\ Len(head \o after) = Len(head) + Len(after)
          /\ \A i \in 1 .. Len(head) + Len(after) :
                (head \o after)[i] = IF i <= Len(head) THEN head[i] ELSE after[i - Len(head)]
      BY <1>9, <1>12, ConcatProperties
    <3> QED BY <1>9, <1>12, <1>13, <3>1
  <2>2. (p + 1) + (n - p) = n + 1
    BY <1>2, <1>6
  <2>3. \A i \in 1 .. p + 1 : i \in 1 .. n + 1 /\ i <= p + 1
    BY <1>2, <1>6
  <2>4. \A i \in 1 .. n - p : /\ p + 1 + i \in 1 .. n + 1 /\ ~(p + 1 + i <= p + 1)
                              /\ (p + 1 + i) - (p + 1) = i
    BY <1>2, <1>6
  <2> QED BY <2>1, <2>2, <2>3, <2>4
<1>15. A = Export!Placed(K, x)
  <2>1. Export!Placed(K, x) = SubSeq(K, 1, p) \o <<x>> \o SubSeq(K, p + 1, Len(K))
    <3>1. p = Export!Cardinality({i \in DOMAIN K : Export!Precedes(K[i], x)})
      BY <1>2, <1>3, <1>5 DEF Export!Cardinality, Cardinality
    <3> QED BY <3>1 DEF Export!Placed
  <2> QED BY <1>1, <1>7, <1>11, <1>13, <2>1
<1>16. \A i \in 1 .. p : A[i] = K[i] /\ Export!Precedes(K[i], x)
  <2>1. \A i \in 1 .. p : i \in D /\ i \in 1 .. p + 1
    BY <1>6
  <2> QED BY <1>3, <1>12, <1>14, <2>1
<1>17. A[p + 1] = x
  BY <1>6, <1>12, <1>14
<1>18. ASSUME NEW i \in 1 .. n, i > p PROVE A[i + 1] = K[i] /\ ~Export!Precedes(K[i], x)
  <2>1. i - p \in 1 .. n - p /\ p + 1 + (i - p) = i + 1 /\ p + (i - p) = i /\ i \notin 1 .. p
    BY <1>2, <1>6, <1>18
  <2> QED BY <1>3, <1>6, <1>9, <1>14, <2>1
<1>19. PlacedAt(K, x, A, p)
  BY <1>1, <1>6, <1>14, <1>16, <1>17, <1>18 DEF PlacedAt
<1> QED BY <1>15, <1>19

LEMMA PlacedAscends ==
    ASSUME Export!EchoAssumption, NEW K \in Seq(Facilities), Ascending(K), NEW x \in Facilities,
           NEW A, NEW p, PlacedAt(K, x, A, p), \A i \in 1 .. Len(K) : K[i].id # x.id
    PROVE  Ascending(A)
<1>1. PICK n : n = Len(K)
  OBVIOUS
<1>2. n \in Nat /\ \A i \in 1 .. n : K[i] \in Facilities
  BY <1>1, LenProperties, ElementOfSeq
<1>3. /\ p \in 0 .. n /\ Len(A) = n + 1
      /\ \A i \in 1 .. p : A[i] = K[i] /\ Export!Precedes(K[i], x)
      /\ A[p + 1] = x
      /\ \A i \in 1 .. n : i > p => A[i + 1] = K[i] /\ ~Export!Precedes(K[i], x)
  BY <1>1 DEF PlacedAt
<1>4. \A i, j \in 1 .. n : i < j => Export!Precedes(K[i], K[j])
  BY <1>1 DEF Ascending
<1>5. \A i \in 1 .. n : i > p => Export!Precedes(x, K[i])
  BY <1>1, <1>2, <1>3, PrecedesIsAnOrder
<1>6. ASSUME NEW i \in 1 .. n + 1, NEW j \in 1 .. n + 1, i < j
      PROVE  Export!Precedes(A[i], A[j])
  <2>1. i \in Nat /\ j \in Nat /\ p \in Nat
    BY <1>2, <1>3
  <2>2. CASE j <= p
    <3>1. i \in 1 .. p /\ j \in 1 .. p /\ i \in 1 .. n /\ j \in 1 .. n
      BY <1>2, <1>3, <1>6, <2>1, <2>2
    <3> QED BY <1>3, <1>4, <1>6, <3>1
  <2>3. CASE j = p + 1
    <3>1. i \in 1 .. p
      BY <1>6, <2>1, <2>3
    <3> QED BY <1>3, <2>3, <3>1
  <2>4. CASE j > p + 1
    <3>1. j - 1 \in 1 .. n /\ j - 1 > p /\ (j - 1) + 1 = j
      BY <1>2, <2>1, <2>4
    <3>2. A[j] = K[j - 1]
      BY <1>3, <3>1
    <3>3. CASE i <= p
      <4>1. i \in 1 .. p /\ i \in 1 .. n /\ i < j - 1
        BY <1>2, <1>3, <2>1, <2>4, <3>3
      <4> QED BY <1>3, <1>4, <3>1, <3>2, <4>1
    <3>4. CASE i = p + 1
      BY <1>3, <1>5, <3>1, <3>2, <3>4
    <3>5. CASE i > p + 1
      <4>1. i - 1 \in 1 .. n /\ i - 1 > p /\ (i - 1) + 1 = i /\ i - 1 < j - 1
        BY <1>2, <1>6, <2>1, <3>5
      <4>2. A[i] = K[i - 1]
        BY <1>3, <4>1
      <4> QED BY <1>4, <3>1, <3>2, <4>1, <4>2
    <3> QED BY <2>1, <3>3, <3>4, <3>5
  <2> QED BY <2>1, <2>2, <2>3, <2>4
<1> QED BY <1>3, <1>6 DEF Ascending

\* A record that streams by: the first of those seen before, and it, are kept.
LEMMA KeepKeeps ==
    ASSUME Export!EchoAssumption, NEW K, NEW E, E \subseteq Facilities, FirstOf(K, E),
           NEW x \in Facilities, \A y \in E : y.id # x.id
    PROVE  FirstOf(Export!Keep(K, x), E \cup {x})
<1>1. PICK n : n = Len(K)
  OBVIOUS
<1>2. /\ K \in Seq(Facilities) /\ Ascending(K) /\ n <= Take /\ n \in Nat
      /\ \A i \in 1 .. n : K[i] \in E
      /\ \A y \in E : \/ \E i \in 1 .. n : K[i] = y
                      \/ n = Take /\ \A i \in 1 .. n : Export!Precedes(K[i], y)
  BY <1>1, LenProperties DEF FirstOf
<1>3. PICK A : A = Export!Placed(K, x)
  OBVIOUS
<1>4. PICK p : PlacedAt(K, x, A, p)
  BY <1>2, <1>3, PlacedProperties
<1>5. /\ p \in 0 .. n /\ A \in Seq(Facilities) /\ Len(A) = n + 1
      /\ \A i \in 1 .. p : A[i] = K[i] /\ Export!Precedes(K[i], x)
      /\ A[p + 1] = x
      /\ \A i \in 1 .. n : i > p => A[i + 1] = K[i] /\ ~Export!Precedes(K[i], x)
  BY <1>1, <1>4 DEF PlacedAt
<1>6. Ascending(A)
  BY <1>1, <1>2, <1>4, PlacedAscends
<1>7. Take \in Nat \ {0}
  BY DEF Export!EchoAssumption
<1>8. \A i \in 1 .. n + 1 : A[i] \in E \cup {x}
  <2> SUFFICES ASSUME NEW i \in 1 .. n + 1 PROVE A[i] \in E \cup {x}
    OBVIOUS
  <2>1. CASE i \in 1 .. p
    BY <1>2, <1>5, <2>1
  <2>2. CASE i = p + 1
    BY <1>5, <2>2
  <2>3. CASE i > p + 1
    <3>1. i - 1 \in 1 .. n /\ i - 1 > p /\ (i - 1) + 1 = i
      BY <1>2, <1>5, <2>3
    <3> QED BY <1>2, <1>5, <3>1
  <2> QED BY <1>2, <1>5, <2>1, <2>2, <2>3
<1>9. \A i \in 1 .. n : \E j \in 1 .. n + 1 : A[j] = K[i]
  <2> SUFFICES ASSUME NEW i \in 1 .. n PROVE \E j \in 1 .. n + 1 : A[j] = K[i]
    OBVIOUS
  <2>1. CASE i <= p
    BY <1>2, <1>5, <2>1
  <2>2. CASE i > p
    BY <1>2, <1>5, <2>2
  <2> QED BY <1>2, <1>5, <2>1, <2>2
<1>10. CASE n < Take
  <2>1. n + 1 <= Take /\ ~(n + 1 > Take)
    BY <1>2, <1>7, <1>10
  <2>2. Export!Keep(K, x) = A
    BY <1>3, <1>5, <2>1 DEF Export!Keep
  <2>3. \A y \in E : \E i \in 1 .. n : K[i] = y
    BY <1>2, <1>7, <1>10
  <2>4. \A y \in E : \E j \in 1 .. n + 1 : A[j] = y
    BY <1>9, <2>3
  <2>5. p + 1 \in 1 .. n + 1
    BY <1>2, <1>5
  <2>6. \A y \in E \cup {x} : \E j \in 1 .. n + 1 : A[j] = y
    BY <1>5, <2>4, <2>5
  <2> QED BY <1>5, <1>6, <1>8, <2>1, <2>2, <2>6 DEF FirstOf
<1>11. CASE n = Take
  <2>1. PICK C : C = SubSeq(A, 1, Take)
    OBVIOUS
  <2>2. Export!Keep(K, x) = C
    <3>1. n + 1 > Take
      BY <1>2, <1>11
    <3> QED BY <1>3, <1>5, <2>1, <3>1 DEF Export!Keep
  <2>3. C \in Seq(Facilities) /\ Len(C) = n /\ \A i \in 1 .. n : C[i] = A[i]
    <3>1. \A i \in 1 .. n : A[i] \in Facilities
      <4>1. \A i \in 1 .. n + 1 : A[i] \in Facilities
        BY <1>5, ElementOfSeq
      <4> QED BY <1>2, <4>1
    <3>2. 1 \in Int /\ n \in Int /\ n - 1 + 1 = n /\ 1 <= n
      BY <1>2, <1>7, <1>11
    <3>3. /\ SubSeq(A, 1, n) \in Seq(Facilities)
          /\ Len(SubSeq(A, 1, n)) = IF 1 <= n THEN n - 1 + 1 ELSE 0
          /\ \A i \in 1 .. n - 1 + 1 : SubSeq(A, 1, n)[i] = A[1 + i - 1]
      BY <3>1, <3>2, SubSeqProperties
    <3>4. \A i \in 1 .. n : 1 + i - 1 = i
      BY <1>2
    <3> QED BY <1>11, <2>1, <3>2, <3>3, <3>4
  <2>4. \A i, j \in 1 .. n + 1 : i < j => Export!Precedes(A[i], A[j])
    BY <1>5, <1>6 DEF Ascending
  <2>5. \A i \in 1 .. n : i \in 1 .. n + 1 /\ i < n + 1
    BY <1>2
  <2>6. Ascending(C)
    BY <2>3, <2>4, <2>5 DEF Ascending
  <2>7. \A i \in 1 .. n : C[i] \in E \cup {x}
    BY <1>8, <2>3, <2>5
  <2>8. n + 1 \in 1 .. n + 1
    BY <1>2
  <2>9. \A i \in 1 .. n : Export!Precedes(C[i], A[n + 1])
    BY <2>3, <2>4, <2>5, <2>8
  <2>10. ASSUME NEW y \in E \cup {x}, \A i \in 1 .. n : C[i] # y
         PROVE  \A i \in 1 .. n : Export!Precedes(C[i], y)
    <3>1. CASE A[n + 1] = y
      BY <2>9, <3>1
    <3>2. CASE A[n + 1] # y
      <4>1. \A j \in 1 .. n + 1 : A[j] # y
        <5>1. \A j \in 1 .. n + 1 : j \in 1 .. n \/ j = n + 1
          BY <1>2
        <5> QED BY <2>3, <2>10, <3>2, <5>1
      <4>2. y # x
        <5>1. p + 1 \in 1 .. n + 1
          BY <1>2, <1>5
        <5> QED BY <1>5, <4>1, <5>1
      <4>3. y \in E /\ \A i \in 1 .. n : K[i] # y
        BY <1>9, <4>1, <4>2
      <4>4. \A i \in 1 .. n : Export!Precedes(K[i], y)
        BY <1>2, <4>3
      <4>5. A[n + 1] \in E \cup {x} /\ A[n + 1] \in Facilities
        BY <1>5, <1>8, <2>8
      <4>6. y \in Facilities
        BY <4>3
      <4>7. CASE p = n
        <5>1. \A i \in 1 .. n : C[i] = K[i]
          BY <1>5, <2>3, <4>7
        <5> QED BY <4>4, <5>1
      <4>8. CASE p # n
        <5>1. n \in 1 .. n /\ n > p
          BY <1>2, <1>5, <4>8
        <5>2. A[n + 1] = K[n]
          BY <1>5, <5>1
        <5>3. Export!Precedes(A[n + 1], y)
          BY <4>4, <5>1, <5>2
        <5>4. ASSUME NEW i \in 1 .. n PROVE Export!Precedes(C[i], y)
          <6>1. C[i] \in Facilities
            BY <2>3, ElementOfSeq
          <6>2. Export!Precedes(C[i], A[n + 1])
            BY <2>9
          <6> QED BY <4>5, <4>6, <5>3, <6>1, <6>2, PrecedesIsAnOrder
        <5> QED BY <5>4
      <4> QED BY <4>7, <4>8
    <3> QED BY <3>1, <3>2
  <2> QED BY <1>11, <2>2, <2>3, <2>6, <2>7, <2>10 DEF FirstOf
<1> QED BY <1>2, <1>7, <1>10, <1>11

-----------------------------------------------------------------------------
\* The records one by one, as they stream.
Streams(g, b, states, time, n) ==
    g = [m \in 0 .. n |->
            IF m = 0 THEN <<>>
            ELSE IF Export!Eligible(b.records[m], states, time)
            THEN Export!Keep(g[m - 1], b.records[m])
            ELSE g[m - 1]]

LEMMA StreamExists ==
    ASSUME NEW b, NEW states, NEW time, NEW N \in Nat
    PROVE  \E g : Streams(g, b, states, time, N)
<1> DEFINE P == {n \in 0 .. N : \E g : Streams(g, b, states, time, n)}
<1>1. 0 \in P
  <2>1. Streams([m \in 0 .. 0 |-> <<>>], b, states, time, 0)
    BY DEF Streams
  <2> QED BY <2>1
<1>2. ASSUME NEW n \in 0 .. N, n < N, n \in P PROVE n + 1 \in P
  <2>1. PICK g : Streams(g, b, states, time, n)
    BY <1>2
  <2>2. PICK x, e : x = b.records[n + 1] /\ e = Export!Eligible(x, states, time)
    OBVIOUS
  <2>3. PICK k : k = IF e THEN Export!Keep(g[n], x) ELSE g[n]
    OBVIOUS
  <2> DEFINE h == [m \in 0 .. n + 1 |-> IF m = n + 1 THEN k ELSE g[m]]
  <2>4. ASSUME NEW m \in 0 .. n + 1
        PROVE  h[m] = IF m = 0 THEN <<>>
                      ELSE IF Export!Eligible(b.records[m], states, time)
                      THEN Export!Keep(h[m - 1], b.records[m])
                      ELSE h[m - 1]
    <3>1. CASE m = n + 1
      <4>1. h[m - 1] = g[n] /\ h[m] = k /\ m # 0
        BY <3>1
      <4> QED BY <2>2, <2>3, <3>1, <4>1
    <3>2. CASE m # n + 1
      <4>1. m \in 0 .. n /\ h[m] = g[m] /\ (m # 0 => m - 1 \in 0 .. n /\ h[m - 1] = g[m - 1])
        BY <3>2
      <4> QED BY <2>1, <4>1 DEF Streams
    <3> QED BY <3>1, <3>2
  <2>5. Streams(h, b, states, time, n + 1)
    BY <2>4 DEF Streams
  <2> QED BY <1>2, <2>5
<1> HIDE DEF P
<1>3. 0 .. N \subseteq P
  BY <1>1, <1>2, EachStep
<1> QED BY <1>3 DEF P

\* What is selected is the last of these.
StreamedBy(g, b, states, time, N) ==
    /\ g[0] = <<>> /\ Export!Selected(b, states, time) = g[N]
    /\ \A n \in 0 .. N : n < N =>
          g[n + 1] = IF Export!Eligible(b.records[n + 1], states, time)
                     THEN Export!Keep(g[n], b.records[n + 1]) ELSE g[n]

LEMMA SelectedStreams ==
    ASSUME NEW b, NEW states, NEW time, NEW N \in Nat, N = Len(b.records)
    PROVE  \E g : StreamedBy(g, b, states, time, N)
<1> DEFINE f == CHOOSE g : g = [m \in 0 .. N |->
                   IF m = 0 THEN <<>>
                   ELSE IF Export!Eligible(b.records[m], states, time)
                   THEN Export!Keep(g[m - 1], b.records[m])
                   ELSE g[m - 1]]
<1>1. \E g : g = [m \in 0 .. N |->
                   IF m = 0 THEN <<>>
                   ELSE IF Export!Eligible(b.records[m], states, time)
                   THEN Export!Keep(g[m - 1], b.records[m])
                   ELSE g[m - 1]]
  <2>1. PICK g : Streams(g, b, states, time, N)
    BY StreamExists
  <2> QED BY <2>1 DEF Streams
<1>2. f = [m \in 0 .. N |->
             IF m = 0 THEN <<>>
             ELSE IF Export!Eligible(b.records[m], states, time)
             THEN Export!Keep(f[m - 1], b.records[m])
             ELSE f[m - 1]]
  BY <1>1
<1>3. Export!Selected(b, states, time) = f[N]
  BY DEF Export!Selected
<1> HIDE DEF f
<1>4. f[0] = <<>>
  BY <1>2
<1>5. ASSUME NEW n \in 0 .. N, n < N
      PROVE  f[n + 1] = IF Export!Eligible(b.records[n + 1], states, time)
                        THEN Export!Keep(f[n], b.records[n + 1]) ELSE f[n]
  <2>1. n + 1 \in 0 .. N /\ n + 1 # 0 /\ (n + 1) - 1 = n
    BY <1>5
  <2> QED BY <1>2, <2>1
<1>6. StreamedBy(f, b, states, time, N)
  BY <1>3, <1>4, <1>5 DEF StreamedBy
<1> QED BY <1>6

Distinct(s) == \A i, j \in 1 .. Len(s) : s[i].id = s[j].id => i = j

\* Those of the first n records that belong.
Due(b, states, time, n) == {b.records[i] : i \in {j \in 1 .. n : Export!Eligible(b.records[j], states, time)}}

LEMMA SelectedAreFirst ==
    ASSUME Export!EchoAssumption, NEW b, b.records \in Seq(Facilities), Distinct(b.records),
           NEW states, NEW time
    PROVE  FirstOf(Export!Selected(b, states, time), Due(b, states, time, Len(b.records)))
<1>1. PICK N, s : N = Len(b.records) /\ s = b.records
  OBVIOUS
<1>2. N \in Nat /\ \A i \in 1 .. N : s[i] \in Facilities
  BY <1>1, LenProperties, ElementOfSeq
<1>3. PICK g : StreamedBy(g, b, states, time, N)
  BY <1>1, <1>2, SelectedStreams
<1>4. /\ g[0] = <<>> /\ Export!Selected(b, states, time) = g[N]
      /\ \A n \in 0 .. N : n < N =>
            g[n + 1] = IF Export!Eligible(s[n + 1], states, time)
                       THEN Export!Keep(g[n], s[n + 1]) ELSE g[n]
  BY <1>1, <1>3 DEF StreamedBy
<1> DEFINE D(n) == {s[i] : i \in {j \in 1 .. n : Export!Eligible(s[j], states, time)}}
<1> DEFINE P == {n \in 0 .. N : FirstOf(g[n], D(n))}
<1>5. 0 \in P
  <2>1. D(0) = {}
    OBVIOUS
  <2>2. FirstOf(<<>>, {})
    <3>1. <<>> \in Seq(Facilities) /\ Len(<<>>) = 0 /\ 1 .. 0 = {}
      BY EmptySeq
    <3>2. 0 <= Take
      BY DEF Export!EchoAssumption
    <3> QED BY <3>1, <3>2 DEF FirstOf, Ascending
  <2>3. 0 \in 0 .. N /\ g[0] = <<>>
    BY <1>2, <1>4
  <2> HIDE DEF D
  <2>4. FirstOf(g[0], D(0))
    BY <2>1, <2>2, <2>3
  <2> QED BY <2>3, <2>4
<1>6. ASSUME NEW n \in 0 .. N, n < N, n \in P PROVE n + 1 \in P
  <2>1. PICK x, E : x = s[n + 1] /\ E = D(n)
    OBVIOUS
  <2>2. n + 1 \in 1 .. N /\ x \in Facilities /\ n + 1 \in 0 .. N
    BY <1>2, <1>6, <2>1
  <2>3. FirstOf(g[n], E) /\ E \subseteq Facilities
    <3>1. \A i \in 1 .. n : i \in 1 .. N
      BY <1>2, <1>6
    <3> QED BY <1>2, <1>6, <2>1, <3>1
  <2>4. \A y \in E : y.id # x.id
    <3> SUFFICES ASSUME NEW y \in E PROVE y.id # x.id
      OBVIOUS
    <3>1. PICK i \in 1 .. n : y = s[i]
      BY <2>1
    <3>2. i \in 1 .. N /\ i # n + 1
      BY <1>2, <1>6
    <3> QED BY <1>1, <2>1, <2>2, <3>1, <3>2 DEF Distinct
  <2>5. \A j : j \in 1 .. n + 1 <=> j \in 1 .. n \/ j = n + 1
    BY <1>6
  <2>6. CASE Export!Eligible(x, states, time)
    <3>1. D(n + 1) = E \cup {x}
      BY <2>1, <2>5, <2>6
    <3>2. g[n + 1] = Export!Keep(g[n], x)
      BY <1>4, <1>6, <2>1, <2>6
    <3>3. FirstOf(Export!Keep(g[n], x), E \cup {x})
      BY <2>2, <2>3, <2>4, KeepKeeps
    <3> QED BY <2>2, <3>1, <3>2, <3>3
  <2>7. CASE ~Export!Eligible(x, states, time)
    <3>1. D(n + 1) = E
      BY <2>1, <2>5, <2>7
    <3>2. g[n + 1] = g[n]
      BY <1>4, <1>6, <2>1, <2>7
    <3> QED BY <2>2, <2>3, <3>1, <3>2
  <2> QED BY <2>6, <2>7
<1> HIDE DEF P
<1>7. 0 .. N \subseteq P
  BY <1>2, <1>5, <1>6, EachStep
<1>8. N \in P
  BY <1>2, <1>7
<1>9. D(N) = Due(b, states, time, N)
  BY <1>1 DEF Due
<1> QED BY <1>1, <1>4, <1>8, <1>9 DEF P

\* The first of a finite set, as the property puts it.
LEMMA FirstMeans ==
    ASSUME Export!EchoAssumption, NEW E, E \subseteq Facilities, IsFiniteSet(E),
           NEW K, FirstOf(K, E)
    PROVE  LET given == {K[i] : i \in DOMAIN K}
           IN  /\ given \subseteq E
               /\ Cardinality(given) = IF Cardinality(E) < Take THEN Cardinality(E) ELSE Take
               /\ \A x \in given, y \in E \ given : Export!Precedes(x, y)
               /\ \A i \in 1 .. Len(K) - 1 : Export!Precedes(K[i], K[i + 1])
<1>1. PICK n, G : n = Len(K) /\ G = {K[i] : i \in DOMAIN K}
  OBVIOUS
<1>2. /\ n \in Nat /\ DOMAIN K = 1 .. n /\ n <= Take
      /\ \A i \in 1 .. n : K[i] \in Facilities
      /\ \A i \in 1 .. n : K[i] \in E
      /\ \A i, j \in 1 .. n : i < j => Export!Precedes(K[i], K[j])
      /\ \A y \in E : \/ \E i \in 1 .. n : K[i] = y
                      \/ n = Take /\ \A i \in 1 .. n : Export!Precedes(K[i], y)
  BY <1>1, LenProperties, ElementOfSeq DEF FirstOf, Ascending
<1>3. G \subseteq E
  BY <1>1, <1>2
<1>4. \A x \in G, y \in E \ G : Export!Precedes(x, y)
  BY <1>1, <1>2
<1>5. Cardinality(G) = n
  <2>1. K \in [1 .. n -> G]
    <3>1. K \in Seq(Facilities)
      BY DEF FirstOf
    <3>2. K \in [1 .. n -> Facilities]
      BY <1>1, <3>1, LenProperties
    <3> QED BY <1>1, <1>2, <3>2
  <2>2. ASSUME NEW i \in 1 .. n, NEW j \in 1 .. n, K[i] = K[j] PROVE i = j
    <3>1. K[i] \in Facilities /\ K[j] \in Facilities
      BY <1>2
    <3>2. ~Export!Precedes(K[i], K[j]) /\ ~Export!Precedes(K[j], K[i])
      BY <2>2, <3>1, PrecedesIsAnOrder
    <3>3. ~(i < j) /\ ~(j < i)
      BY <1>2, <3>2
    <3> QED BY <1>2, <3>3
  <2>3. \A y \in G : \E i \in 1 .. n : K[i] = y
    BY <1>1, <1>2
  <2>4. K \in Bijection(1 .. n, G)
    BY <2>1, <2>2, <2>3 DEF Bijection, Injection, Surjection, IsInjective
  <2>5. ExistsBijection(1 .. n, G)
    BY <2>4 DEF ExistsBijection
  <2> QED BY <1>2, <2>5, FS_CountingElements
<1>6. n = IF Cardinality(E) < Take THEN Cardinality(E) ELSE Take
  <2>1. /\ Cardinality(G) \in Nat /\ Cardinality(E) \in Nat
        /\ Cardinality(G) <= Cardinality(E)
    BY <1>3, PartsAreFewer
  <2>2. Take \in Nat
    BY DEF Export!EchoAssumption
  <2>3. CASE n = Take
    BY <1>5, <2>1, <2>2, <2>3
  <2>4. CASE n # Take
    <3>1. E = G
      BY <1>1, <1>2, <1>3, <2>4
    <3>2. n < Take
      BY <1>2, <2>2, <2>4
    <3> QED BY <1>5, <3>1, <3>2
  <2> QED BY <2>3, <2>4
<1>7. \A i \in 1 .. n - 1 : Export!Precedes(K[i], K[i + 1])
  <2>1. \A i \in 1 .. n - 1 : i \in 1 .. n /\ i + 1 \in 1 .. n /\ i < i + 1
    BY <1>2
  <2> QED BY <1>2, <2>1
<1> QED BY <1>1, <1>3, <1>4, <1>5, <1>6, <1>7

-----------------------------------------------------------------------------
\* The lane's inductive invariant.
Ingestions == [phase : {"idle", "streaming", "failed"}, began : Nat, asOf : Nat,
            seen : 0 .. MaxRows, rejected : 0 .. MaxRows, records : Seq(Facilities)]
Exports == [asOf : Nat, created : Nat, records : Seq(Facilities), root : Seq(Facilities),
            count : Nat, seen : 0 .. MaxRows, rejected : 0 .. MaxRows]

Readings == [phase : {"idle", "manifest", "receipt", "records", "refused"}, now : Nat,
          states : SUBSET Targets, bundle : Exports \cup {Absent}, selected : {<<>>}]

\* Records that may be shown on a day.
Admitted(s, time) ==
    \A i \in 1 .. Len(s) : ~Export!Screened(s[i].name) /\ Export!Between(s[i].inspected, time) <= Window

Whole(b) == b \in Exports /\ Distinct(b.records) /\ Admitted(b.records, b.created)

IngestionHolds ==
    /\ ingestion \in Ingestions /\ ingestion.began <= today
    /\ Len(ingestion.records) <= ingestion.seen
    /\ ingestion.phase = "streaming" =>
         /\ ingestion.asOf <= ingestion.began
         /\ ingestion.began - ingestion.asOf <= FreshDate
         /\ ingestion.seen = Len(ingestion.records) + ingestion.rejected
         /\ Distinct(ingestion.records) /\ Admitted(ingestion.records, ingestion.began)
    /\ ingestion.phase = "failed" /\ Len(ingestion.records) >= Floor => ingestion.began < today

LoadHolds ==
    /\ reading \in Readings
    /\ reading.phase \in {"manifest", "receipt", "records"} => Whole(reading.bundle)
    /\ reading.phase \in {"receipt", "records"} =>
         Export!ManifestAccepted(reading.bundle, reading.now)

ShownHolds ==
    /\ Len(displayed.records) <= Take
    /\ displayed.bundle # Absent =>
         /\ Whole(displayed.bundle) /\ displayed.now \in Nat
         /\ displayed.now - displayed.bundle.asOf <= FreshDate
         /\ displayed.records = Export!Selected(displayed.bundle, displayed.states, displayed.now)

ExportInv ==
    /\ today \in 0 .. MaxDay
    /\ staged = Absent \/ Whole(staged)
    /\ pointed = Absent \/ Whole(pointed)
    /\ IngestionHolds /\ LoadHolds /\ ShownHolds

LEMMA ExportConstants ==
    ASSUME Export!EchoAssumption
    PROVE  /\ Window \in Nat /\ FreshDate \in Nat /\ NameMax \in Nat /\ NameMax > 0
           /\ MaxRows \in Nat /\ MaxDay \in Nat /\ Floor \in Nat /\ Floor > 0
           /\ Take \in Nat /\ Take > 0
  BY DEF Export!EchoAssumption

\* A row that none of the reasons rejects is a record that may be shown that day.
LEMMA NotRejected ==
    ASSUME Export!EchoAssumption, NEW row \in Rows, NEW time \in Nat, ~Export!Rejected(row, time)
    PROVE  LET x == Export!RecordOf(row)
           IN  /\ x \in Facilities /\ x.id = row.id
               /\ ~Export!Screened(x.name) /\ Export!Between(x.inspected, time) <= Window
<1>1. \A i \in 1 .. 8 : ~Export!Reasons(row, time)[i].applies
  BY DEF Export!Rejected, Export!Reasons
<1>2. /\ row.state \in Targets /\ row.age <= Window /\ row.inspected # Absent
      /\ ~Export!Screened(Export!Clean(row.name))
      /\ row.id # Absent /\ row.name.len # 0
      /\ ~(Export!Between(row.inspected, time) > Window)
  <2>1. /\ ~Export!Reasons(row, time)[1].applies /\ ~Export!Reasons(row, time)[4].applies
        /\ ~Export!Reasons(row, time)[5].applies /\ ~Export!Reasons(row, time)[6].applies
        /\ ~Export!Reasons(row, time)[7].applies /\ ~Export!Reasons(row, time)[8].applies
    BY <1>1
  <2>2. row.state \in Targets
    BY <2>1 DEF Export!Reasons
  <2>3. ~(row.age > Window)
    BY <2>1 DEF Export!Reasons
  <2>4. row.inspected # Absent
    BY <2>1 DEF Export!Reasons
  <2>5. ~Export!Screened(Export!Clean(row.name))
    BY <2>1 DEF Export!Reasons
  <2>6. row.id # Absent /\ row.name.len # 0
    BY <2>1 DEF Export!Reasons
  <2>7. ~(Export!Between(row.inspected, time) > Window)
    BY <2>1, <2>4 DEF Export!Reasons
  <2>8. row.age <= Window
    BY <2>3, ExportConstants DEF Export!EchoAssumption, Export!IsRow
  <2> QED BY <2>2, <2>4, <2>5, <2>6, <2>7, <2>8
<1>3. /\ row.id \in Nat /\ row.inspected \in Nat /\ row.age \in 0 .. Window
      /\ row.name \in [len : Nat, at : Nat]
  BY <1>2, ExportConstants DEF Export!EchoAssumption, Export!IsRow
<1>4. PICK c : c = Export!Clean(row.name)
  OBVIOUS
<1>5. c \in [len : 1 .. NameMax, at : Nat]
  <2>1. PICK l, a : l = row.name.len /\ a = row.name.at
    OBVIOUS
  <2>2. l \in Nat /\ l # 0 /\ a \in Nat
    BY <1>2, <1>3, <2>1
  <2>3. PICK m : m = IF l > NameMax THEN NameMax ELSE l
    OBVIOUS
  <2>4. m \in 1 .. NameMax
    BY <2>2, <2>3, ExportConstants
  <2>5. c = [row.name EXCEPT !.len = m]
    BY <1>3, <1>4, <2>1, <2>3 DEF Export!Clean
  <2> QED BY <1>3, <2>1, <2>2, <2>4, <2>5
<1>6. PICK x : x = Export!RecordOf(row)
  OBVIOUS
<1>7. x = [id |-> row.id, state |-> row.state, age |-> row.age,
           inspected |-> row.inspected, name |-> c]
  BY <1>4, <1>6 DEF Export!RecordOf
<1>8. x \in Facilities
  BY <1>2, <1>3, <1>5, <1>7 DEF Facilities
<1>9. Export!Between(row.inspected, time) <= Window
  <2>1. Export!Between(row.inspected, time) \in Int
    BY <1>3, ExportConstants DEF Export!Between
  <2> QED BY <1>2, <2>1, ExportConstants
<1> QED BY <1>2, <1>4, <1>6, <1>7, <1>8, <1>9

\* A record more.
LEMMA AppendAdmits ==
    ASSUME NEW s \in Seq(Facilities), Distinct(s), NEW time, Admitted(s, time), NEW x \in Facilities,
           \A i \in 1 .. Len(s) : s[i].id # x.id,
           ~Export!Screened(x.name), Export!Between(x.inspected, time) <= Window
    PROVE  /\ Append(s, x) \in Seq(Facilities) /\ Len(Append(s, x)) = Len(s) + 1
           /\ Distinct(Append(s, x)) /\ Admitted(Append(s, x), time)
<1>1. PICK n, a : n = Len(s) /\ a = Append(s, x)
  OBVIOUS
<1>2. /\ n \in Nat /\ a \in Seq(Facilities) /\ Len(a) = n + 1 /\ a[n + 1] = x
      /\ \A i \in 1 .. n : a[i] = s[i]
  BY <1>1, LenProperties, AppendProperties
<1>3. \A i \in 1 .. n + 1 : i \in 1 .. n \/ i = n + 1
  BY <1>2
<1>4. Distinct(a)
  <2> SUFFICES ASSUME NEW i \in 1 .. n + 1, NEW j \in 1 .. n + 1, a[i].id = a[j].id PROVE i = j
    BY <1>2 DEF Distinct
  <2>1. CASE i \in 1 .. n /\ j \in 1 .. n
    BY <1>1, <1>2, <2>1 DEF Distinct
  <2>2. CASE i = n + 1 /\ j \in 1 .. n
    BY <1>1, <1>2, <2>2
  <2>3. CASE i \in 1 .. n /\ j = n + 1
    BY <1>1, <1>2, <2>3
  <2> QED BY <1>3, <2>1, <2>2, <2>3
<1>5. Admitted(a, time)
  <2>1. \A i \in 1 .. n : ~Export!Screened(s[i].name) /\ Export!Between(s[i].inspected, time) <= Window
    BY <1>1 DEF Admitted
  <2> QED BY <1>2, <1>3, <2>1 DEF Admitted
<1> QED BY <1>1, <1>2, <1>4, <1>5

-----------------------------------------------------------------------------
\* Ingestion.
LEMMA BeginRunKeeps ==
    ASSUME Export!EchoAssumption, ExportInv, Export!BeginRun
    PROVE  ExportInv'
<1>1. PICK asOf \in 0 .. today :
        /\ today - asOf <= FreshDate
        /\ ingestion' = [Export!NoRun EXCEPT !.phase = "streaming", !.began = today, !.asOf = asOf]
  BY DEF Export!BeginRun
<1>2. PICK r : r = ingestion'
  OBVIOUS
<1>3. <<>> \in Seq(Facilities) /\ Len(<<>>) = 0 /\ 1 .. 0 = {}
  BY EmptySeq
<1>4. today \in Nat /\ asOf \in Nat /\ asOf <= today
  BY ExportConstants DEF ExportInv
<1>5. /\ r.phase = "streaming" /\ r.began = today /\ r.asOf = asOf /\ r.seen = 0
      /\ r.rejected = 0 /\ r.records = <<>>
  BY <1>1, <1>2 DEF Export!NoRun
<1>6. r \in Ingestions
  <2>1. PICK base : base = Export!NoRun
    OBVIOUS
  <2>2. base \in Ingestions
    BY <1>3, <2>1, ExportConstants DEF Export!NoRun, Ingestions
  <2>3. r = [base EXCEPT !.phase = "streaming", !.began = today, !.asOf = asOf]
    BY <1>1, <1>2, <2>1
  <2> QED BY <1>4, <2>2, <2>3 DEF Ingestions
<1>7. Distinct(<<>>) /\ Admitted(<<>>, today)
  BY <1>3 DEF Distinct, Admitted
<1>8. UNCHANGED <<today, staged, pointed, reading, displayed>>
  BY DEF Export!BeginRun
<1>9. IngestionHolds'
  BY <1>1, <1>2, <1>3, <1>4, <1>5, <1>6, <1>7, <1>8 DEF IngestionHolds
<1> QED BY <1>8, <1>9 DEF ExportInv, LoadHolds, ShownHolds

LEMMA StreamRowKeeps ==
    ASSUME Export!EchoAssumption, ExportInv, Export!StreamRow
    PROVE  ExportInv'
<1>1. PICK r : r = ingestion
  OBVIOUS
<1>2. /\ r \in Ingestions /\ r.phase = "streaming" /\ r.began <= today /\ r.asOf <= r.began
      /\ r.began - r.asOf <= FreshDate /\ r.seen = Len(r.records) + r.rejected
      /\ Distinct(r.records) /\ Admitted(r.records, r.began) /\ r.seen < MaxRows
  BY <1>1 DEF ExportInv, IngestionHolds, Export!StreamRow
<1>3. PICK row \in Rows :
        ingestion' = IF Export!Rejected(row, r.began)
                     THEN [r EXCEPT !.seen = @ + 1, !.rejected = Export!Counted(row)]
                     ELSE IF \E i \in DOMAIN r.records : r.records[i].id = row.id
                     THEN Export!NoRun
                     ELSE [r EXCEPT !.seen = @ + 1, !.records = Append(@, Export!RecordOf(row))]
  BY <1>1 DEF Export!StreamRow
<1>4. UNCHANGED <<today, staged, pointed, reading, displayed>>
  BY DEF Export!StreamRow
<1>5. PICK k, n, m, began, asOf, s : /\ k = r.seen /\ n = Len(r.records) /\ m = r.rejected
                                     /\ began = r.began /\ asOf = r.asOf /\ s = r.records
  OBVIOUS
<1>6. /\ k \in Nat /\ n \in Nat /\ m \in Nat /\ k = n + m /\ k + 1 \in 0 .. MaxRows
      /\ m + 1 \in 0 .. MaxRows /\ s \in Seq(Facilities) /\ began \in Nat /\ asOf \in Nat
      /\ today \in Nat
  <2>1. /\ k \in 0 .. MaxRows /\ m \in 0 .. MaxRows /\ s \in Seq(Facilities)
        /\ began \in Nat /\ asOf \in Nat
    BY <1>2, <1>5 DEF Ingestions
  <2>2. n \in Nat
    BY <1>5, <2>1, LenProperties
  <2>3. k = n + m /\ k < MaxRows
    BY <1>2, <1>5
  <2>4. today \in Nat /\ MaxRows \in Nat
    BY ExportConstants DEF ExportInv
  <2>5. k + 1 \in 0 .. MaxRows /\ m + 1 \in 0 .. MaxRows
    BY <2>1, <2>2, <2>3, <2>4
  <2> QED BY <2>1, <2>2, <2>3, <2>4, <2>5
<1>7. IngestionHolds'
  <2>1. CASE Export!Rejected(row, r.began)
    <3>1. PICK q : q = [r EXCEPT !.seen = k + 1, !.rejected = m + 1]
      OBVIOUS
    <3>2. ingestion' = q
      BY <1>1, <1>3, <1>5, <2>1, <3>1 DEF Export!Counted
    <3>3. /\ q \in Ingestions /\ q.phase = "streaming" /\ q.began = began /\ q.asOf = asOf
          /\ q.seen = k + 1 /\ q.rejected = m + 1 /\ q.records = s
      BY <1>2, <1>5, <1>6, <3>1 DEF Ingestions
    <3>4. k + 1 = n + (m + 1) /\ n <= k + 1
      BY <1>6
    <3> QED BY <1>2, <1>4, <1>5, <3>2, <3>3, <3>4 DEF IngestionHolds
  <2>2. CASE ~Export!Rejected(row, r.began) /\ \E i \in DOMAIN r.records : r.records[i].id = row.id
    <3>1. ingestion' = Export!NoRun
      BY <1>3, <2>2
    <3>2. <<>> \in Seq(Facilities) /\ Len(<<>>) = 0
      BY EmptySeq
    <3>3. Export!NoRun \in Ingestions
      BY <3>2, ExportConstants DEF Export!NoRun, Ingestions
    <3> QED BY <1>4, <1>6, <3>1, <3>2, <3>3 DEF IngestionHolds, Export!NoRun
  <2>3. CASE ~Export!Rejected(row, r.began) /\ ~(\E i \in DOMAIN r.records : r.records[i].id = row.id)
    <3>1. PICK x, a : x = Export!RecordOf(row) /\ a = Append(s, x)
      OBVIOUS
    <3>2. PICK q : q = [r EXCEPT !.seen = k + 1, !.records = a]
      OBVIOUS
    <3>3. ingestion' = q
      BY <1>3, <1>5, <2>3, <3>1, <3>2
    <3>4. /\ x \in Facilities /\ x.id = row.id
          /\ ~Export!Screened(x.name) /\ Export!Between(x.inspected, began) <= Window
      BY <1>5, <1>6, <2>3, <3>1, NotRejected
    <3>5. \A i \in 1 .. Len(s) : s[i].id # x.id
      BY <1>5, <1>6, <2>3, <3>4, LenProperties
    <3>6. a \in Seq(Facilities) /\ Len(a) = n + 1 /\ Distinct(a) /\ Admitted(a, began)
      BY <1>2, <1>5, <1>6, <3>1, <3>4, <3>5, AppendAdmits
    <3>7. /\ q \in Ingestions /\ q.phase = "streaming" /\ q.began = began /\ q.asOf = asOf
          /\ q.seen = k + 1 /\ q.rejected = m /\ q.records = a
      BY <1>2, <1>5, <1>6, <3>2, <3>6 DEF Ingestions
    <3>8. k + 1 = (n + 1) + m /\ n + 1 <= k + 1
      BY <1>6
    <3> QED BY <1>2, <1>4, <1>5, <3>3, <3>6, <3>7, <3>8 DEF IngestionHolds
  <2> QED BY <2>1, <2>2, <2>3
<1> QED BY <1>4, <1>7 DEF ExportInv, LoadHolds, ShownHolds

LEMMA NothingIngested ==
    ASSUME Export!EchoAssumption
    PROVE  /\ Export!NoRun \in Ingestions /\ Export!NoRun.phase = "idle" /\ Export!NoRun.began = 0
           /\ Export!NoRun.seen = 0 /\ Len(Export!NoRun.records) = 0
<1>1. <<>> \in Seq(Facilities) /\ Len(<<>>) = 0
  BY EmptySeq
<1>2. Export!NoRun \in Ingestions
  BY <1>1, ExportConstants DEF Export!NoRun, Ingestions
<1> QED BY <1>1, <1>2 DEF Export!NoRun

\* An ingestion that ends on the day it began verifies.
LEMMA SameDayVerifies ==
    ASSUME Export!EchoAssumption, NEW r \in Ingestions, NEW d \in Nat, r.began = d,
           r.asOf <= d, d - r.asOf <= FreshDate, r.seen = Len(r.records) + r.rejected,
           Distinct(r.records), Admitted(r.records, d), Len(r.records) >= Floor
    PROVE  Export!Verifies(Export!BundleOf(r, d), d)
<1>1. PICK b, s : b = Export!BundleOf(r, d) /\ s = r.records
  OBVIOUS
<1>2. /\ b.asOf = r.asOf /\ b.created = d /\ b.records = s /\ b.root = s /\ b.count = Len(s)
      /\ b.seen = r.seen /\ b.rejected = r.rejected
  BY <1>1 DEF Export!BundleOf
<1>3. s \in Seq(Facilities) /\ Len(s) \in Nat /\ DOMAIN s = 1 .. Len(s)
  BY <1>1, LenProperties DEF Ingestions
<1>4. Len(s) > 0
  BY <1>1, <1>3, ExportConstants
<1>5. ASSUME NEW i \in DOMAIN s PROVE Export!RecordVerifies(s[i], d)
  <2>1. s[i] \in Facilities /\ i \in 1 .. Len(s)
    BY <1>3, ElementOfSeq
  <2>2. s[i].name.len > 0 /\ s[i].state \in Targets /\ s[i].age \in 0 .. Window
    BY <2>1 DEF Facilities
  <2>3. ~Export!Screened(s[i].name) /\ Export!Between(s[i].inspected, d) <= Window
    BY <1>1, <2>1 DEF Admitted
  <2> QED BY <2>2, <2>3 DEF Export!RecordVerifies
<1>6. \A i, j \in DOMAIN s : s[i].id = s[j].id => i = j
  BY <1>1, <1>3 DEF Distinct
<1>7. b.seen = b.count + b.rejected
  BY <1>1, <1>2
<1>8. /\ b.asOf <= d /\ b.asOf <= b.created /\ b.created <= d /\ d - b.asOf <= FreshDate
      /\ b.count > 0 /\ b.count = Len(b.records) /\ b.root = b.records
  BY <1>2, <1>4
<1>9. /\ \A i \in DOMAIN b.records : Export!RecordVerifies(b.records[i], b.created)
      /\ \A i, j \in DOMAIN b.records : b.records[i].id = b.records[j].id => i = j
  BY <1>2, <1>5, <1>6
<1> QED BY <1>1, <1>7, <1>8, <1>9 DEF Export!Verifies

\* What verifies is whole.
LEMMA VerifiedIsWhole ==
    ASSUME Export!EchoAssumption, NEW r \in Ingestions, NEW d \in Nat,
           Distinct(r.records), Export!Verifies(Export!BundleOf(r, d), d)
    PROVE  Whole(Export!BundleOf(r, d))
<1>1. PICK b, s : b = Export!BundleOf(r, d) /\ s = r.records
  OBVIOUS
<1>2. b = [asOf |-> r.asOf, created |-> d, records |-> s, root |-> s,
           count |-> Len(s), seen |-> r.seen, rejected |-> r.rejected]
  BY <1>1 DEF Export!BundleOf
<1>3. s \in Seq(Facilities) /\ Len(s) \in Nat /\ DOMAIN s = 1 .. Len(s)
  BY <1>1, LenProperties DEF Ingestions
<1>4. r.asOf \in Nat /\ r.seen \in 0 .. MaxRows /\ r.rejected \in 0 .. MaxRows
  BY DEF Ingestions
<1>5. b \in Exports
  BY <1>2, <1>3, <1>4 DEF Exports
<1>6. \A i \in DOMAIN s : Export!RecordVerifies(s[i], d)
  BY <1>1, <1>2 DEF Export!Verifies
<1>7. Admitted(s, d)
  BY <1>3, <1>6 DEF Admitted, Export!RecordVerifies
<1>8. b.records = s /\ b.created = d
  BY <1>2
<1> QED BY <1>1, <1>5, <1>7, <1>8 DEF Whole

LEMMA FinishRunKeeps ==
    ASSUME Export!EchoAssumption, ExportInv, Export!FinishRun
    PROVE  ExportInv'
<1>1. PICK r, d : r = ingestion /\ d = today
  OBVIOUS
<1>2. d \in Nat
  BY <1>1, ExportConstants DEF ExportInv
<1>3. /\ r \in Ingestions /\ r.phase = "streaming" /\ r.began <= d /\ Len(r.records) <= r.seen
      /\ r.asOf <= r.began /\ r.began - r.asOf <= FreshDate
      /\ r.seen = Len(r.records) + r.rejected
      /\ Distinct(r.records) /\ Admitted(r.records, r.began)
  BY <1>1 DEF ExportInv, IngestionHolds, Export!FinishRun
<1>4. UNCHANGED <<today, pointed, reading, displayed>>
  BY DEF Export!FinishRun
<1>5. PICK b : b = Export!BundleOf(r, d)
  OBVIOUS
<1>6. CASE Len(r.records) >= Floor /\ Export!Verifies(b, d)
  <2>1. staged' = b /\ ingestion' = Export!NoRun
    BY <1>1, <1>5, <1>6 DEF Export!FinishRun
  <2>2. Whole(b)
    BY <1>2, <1>3, <1>5, <1>6, VerifiedIsWhole
  <2>3. IngestionHolds'
    BY <1>1, <1>2, <1>4, <2>1, NothingIngested DEF IngestionHolds
  <2> QED BY <1>4, <2>1, <2>2, <2>3 DEF ExportInv, LoadHolds, ShownHolds
<1>7. CASE ~(Len(r.records) >= Floor /\ Export!Verifies(b, d))
  <2>1. PICK q : q = [r EXCEPT !.phase = "failed"]
    OBVIOUS
  <2>2. staged' = Absent /\ ingestion' = q
    BY <1>1, <1>5, <1>7, <2>1 DEF Export!FinishRun
  <2>3. /\ q \in Ingestions /\ q.phase = "failed" /\ q.began = r.began /\ q.records = r.records
        /\ q.seen = r.seen
    BY <1>3, <2>1 DEF Ingestions
  <2>4. ASSUME Len(r.records) >= Floor PROVE r.began < d
    <3>1. r.began # d
      BY <1>2, <1>3, <1>5, <1>7, <2>4, SameDayVerifies
    <3>2. r.began \in Nat
      BY <1>3 DEF Ingestions
    <3> QED BY <1>2, <1>3, <3>1, <3>2
  <2>5. IngestionHolds'
    BY <1>1, <1>3, <1>4, <2>2, <2>3, <2>4 DEF IngestionHolds
  <2> QED BY <1>4, <2>2, <2>5 DEF ExportInv, LoadHolds, ShownHolds
<1> QED BY <1>6, <1>7

LEMMA NextRunKeeps ==
    ASSUME Export!EchoAssumption, ExportInv, Export!NextRun
    PROVE  ExportInv'
<1>1. ingestion' = Export!NoRun /\ UNCHANGED <<today, staged, pointed, reading, displayed>>
  BY DEF Export!NextRun
<1>2. today \in Nat
  BY ExportConstants DEF ExportInv
<1>3. IngestionHolds'
  BY <1>1, <1>2, NothingIngested DEF IngestionHolds
<1> QED BY <1>1, <1>3 DEF ExportInv, LoadHolds, ShownHolds

LEMMA PublishKeeps ==
    ASSUME ExportInv, Export!Publish
    PROVE  ExportInv'
<1>1. (pointed' = staged \/ pointed' = pointed) /\ staged' = Absent /\ staged # Absent
  BY DEF Export!Publish
<1>2. UNCHANGED <<today, ingestion, reading, displayed>>
  BY DEF Export!Publish
<1> QED BY <1>1, <1>2 DEF ExportInv, IngestionHolds, LoadHolds, ShownHolds

LEMMA NextDayKeeps ==
    ASSUME Export!EchoAssumption, ExportInv, Export!NextDay
    PROVE  ExportInv'
<1>1. PICK d : d = today + 1
  OBVIOUS
<1>2. today' = d /\ UNCHANGED <<ingestion, staged, pointed, reading, displayed>>
  BY <1>1 DEF Export!NextDay
<1>3. today \in Nat /\ d \in 0 .. MaxDay
  BY <1>1, ExportConstants DEF Export!NextDay, ExportInv
<1>4. PICK e : e = ingestion.began
  OBVIOUS
<1>5. e \in Nat /\ e <= today
  BY <1>4 DEF ExportInv, IngestionHolds, Ingestions
<1>6. e <= d /\ e < d
  BY <1>1, <1>3, <1>5
<1>7. IngestionHolds'
  BY <1>2, <1>4, <1>6 DEF ExportInv, IngestionHolds
<1> QED BY <1>2, <1>3, <1>7 DEF ExportInv, LoadHolds, ShownHolds

-----------------------------------------------------------------------------
\* The runtime's reader.
LEMMA NothingRead ==
    ASSUME NEW phase \in {"idle", "refused"}
    PROVE  LET taken == [Export!NoRead EXCEPT !.phase = phase] IN taken \in Readings /\ taken.phase = phase
  BY DEF Export!NoRead, Readings

LEMMA LoadPointerKeeps ==
    ASSUME Export!EchoAssumption, ExportInv, Export!LoadPointer
    PROVE  ExportInv'
<1>1. PICK states \in SUBSET Targets :
        reading' = [Export!NoRead EXCEPT !.phase = "manifest", !.now = today, !.states = states,
                                         !.bundle = pointed]
  BY DEF Export!LoadPointer
<1>2. /\ pointed # Absent /\ displayed' = Export!NothingServed
      /\ UNCHANGED <<today, ingestion, staged, pointed>>
  BY DEF Export!LoadPointer
<1>3. Whole(pointed) /\ pointed \in Exports /\ today \in Nat
  BY <1>2, ExportConstants DEF ExportInv, Whole
<1>4. PICK base, taken : base = Export!NoRead /\ taken = reading'
  OBVIOUS
<1>5. base \in Readings
  BY <1>4 DEF Export!NoRead, Readings
<1>6. taken = [base EXCEPT !.phase = "manifest", !.now = today, !.states = states,
                          !.bundle = pointed]
  BY <1>1, <1>4
<1>7. taken \in Readings /\ taken.phase = "manifest" /\ taken.bundle = pointed
  BY <1>3, <1>5, <1>6 DEF Readings
<1>8. LoadHolds'
  BY <1>2, <1>3, <1>4, <1>7 DEF LoadHolds
<1>9. ShownHolds'
  <2>1. Export!NothingServed.bundle = Absent /\ Len(Export!NothingServed.records) = 0
    BY EmptySeq DEF Export!NothingServed
  <2> QED BY <1>2, <2>1, ExportConstants DEF ShownHolds
<1> QED BY <1>2, <1>8, <1>9 DEF ExportInv, IngestionHolds

LEMMA LoadManifestKeeps ==
    ASSUME ExportInv, Export!LoadManifest
    PROVE  ExportInv'
<1>1. UNCHANGED <<today, ingestion, staged, pointed, displayed>>
  BY DEF Export!LoadManifest
<1>2. reading \in Readings /\ reading.phase = "manifest" /\ Whole(reading.bundle)
  BY DEF Export!LoadManifest, ExportInv, LoadHolds
<1>3. LoadHolds'
  <2>1. CASE /\ reading' = [reading EXCEPT !.phase = "receipt"]
             /\ Export!ManifestAccepted(reading.bundle, reading.now)
    <3>1. PICK taken : taken = reading'
      OBVIOUS
    <3>2. /\ taken \in Readings /\ taken.phase = "receipt" /\ taken.bundle = reading.bundle
          /\ taken.now = reading.now
      BY <1>2, <2>1, <3>1 DEF Readings
    <3>3. Whole(taken.bundle) /\ Export!ManifestAccepted(taken.bundle, taken.now)
      BY <1>2, <2>1, <3>2
    <3> QED BY <3>1, <3>2, <3>3 DEF LoadHolds
  <2>2. CASE reading' = [Export!NoRead EXCEPT !.phase = "refused"]
    BY <2>2, NothingRead DEF LoadHolds
  <2> QED BY <2>1, <2>2 DEF Export!LoadManifest
<1> QED BY <1>1, <1>3 DEF ExportInv, IngestionHolds, ShownHolds

LEMMA LoadReceiptKeeps ==
    ASSUME ExportInv, Export!LoadReceipt
    PROVE  ExportInv'
<1>1. UNCHANGED <<today, ingestion, staged, pointed, displayed>>
  BY DEF Export!LoadReceipt
<1>2. /\ reading \in Readings /\ reading.phase = "receipt" /\ Whole(reading.bundle)
      /\ Export!ManifestAccepted(reading.bundle, reading.now)
  BY DEF Export!LoadReceipt, ExportInv, LoadHolds
<1>3. LoadHolds'
  <2>1. CASE reading' = [reading EXCEPT !.phase = "records"]
    <3>1. PICK taken : taken = reading'
      OBVIOUS
    <3>2. /\ taken \in Readings /\ taken.phase = "records" /\ taken.bundle = reading.bundle
          /\ taken.now = reading.now
      BY <1>2, <2>1, <3>1 DEF Readings
    <3>3. Whole(taken.bundle) /\ Export!ManifestAccepted(taken.bundle, taken.now)
      BY <1>2, <3>2
    <3> QED BY <3>1, <3>2, <3>3 DEF LoadHolds
  <2>2. CASE reading' = [Export!NoRead EXCEPT !.phase = "refused"]
    BY <2>2, NothingRead DEF LoadHolds
  <2> QED BY <2>1, <2>2 DEF Export!LoadReceipt
<1> QED BY <1>1, <1>3 DEF ExportInv, IngestionHolds, ShownHolds

LEMMA LoadEndsKeeps ==
    ASSUME ExportInv, Export!LoadEnds
    PROVE  ExportInv'
<1>1. reading' = Export!NoRead /\ UNCHANGED <<today, ingestion, staged, pointed, displayed>>
  BY DEF Export!LoadEnds
<1>2. Export!NoRead \in Readings /\ Export!NoRead.phase = "idle"
  BY DEF Export!NoRead, Readings
<1>3. LoadHolds'
  BY <1>1, <1>2 DEF LoadHolds
<1> QED BY <1>1, <1>3 DEF ExportInv, IngestionHolds, ShownHolds

\* The runtime's verifier admits every record of a whole bundle.
LEMMA WholeIsAccepted ==
    ASSUME Export!EchoAssumption, NEW b, Whole(b), NEW i \in DOMAIN b.records
    PROVE  Export!RecordAccepted(b.records[i], b.created)
<1>1. PICK s : s = b.records
  OBVIOUS
<1>2. s \in Seq(Facilities) /\ Admitted(s, b.created)
  BY <1>1 DEF Whole, Exports
<1>3. s[i] \in Facilities /\ i \in 1 .. Len(s)
  BY <1>1, <1>2, LenProperties, ElementOfSeq
<1>4. s[i].name.len \in 1 .. NameMax /\ s[i].state \in Targets /\ s[i].age \in 0 .. Window
  BY <1>3 DEF Facilities
<1>5. ~Export!Screened(s[i].name) /\ Export!Between(s[i].inspected, b.created) <= Window
  BY <1>2, <1>3 DEF Admitted
<1> QED BY <1>1, <1>4, <1>5 DEF Export!RecordAccepted

LEMMA StreamRecordsKeeps ==
    ASSUME Export!EchoAssumption, ExportInv, Export!StreamRecords
    PROVE  ExportInv'
<1>1. UNCHANGED <<today, ingestion, staged, pointed>>
  BY DEF Export!StreamRecords
<1>2. PICK b, time, states : b = reading.bundle /\ time = reading.now /\ states = reading.states
  OBVIOUS
<1>3. /\ reading \in Readings /\ Whole(b) /\ Export!ManifestAccepted(b, time)
      /\ time \in Nat
  BY <1>2 DEF Export!StreamRecords, ExportInv, LoadHolds, Readings
<1>4. \A i \in DOMAIN b.records : Export!RecordAccepted(b.records[i], b.created)
  BY <1>3, WholeIsAccepted
<1>5. PICK got \in Export!Downloads :
        IF got = "intact" /\ \A i \in DOMAIN b.records : Export!RecordAccepted(b.records[i], b.created)
        THEN /\ displayed' = [bundle |-> b, now |-> time, states |-> states,
                              records |-> Export!Selected(b, states, time)]
             /\ reading' = Export!NoRead
        ELSE /\ reading' = [Export!NoRead EXCEPT !.phase = IF got = "intact" THEN "rejected" ELSE "refused"]
             /\ UNCHANGED displayed
  BY <1>2 DEF Export!StreamRecords
<1>6. CASE got = "intact"
  <2>1. PICK k : k = Export!Selected(b, states, time)
    OBVIOUS
  <2>2. /\ displayed' = [bundle |-> b, now |-> time, states |-> states, records |-> k]
        /\ reading' = Export!NoRead
    BY <1>4, <1>5, <1>6, <2>1
  <2>3. b.records \in Seq(Facilities) /\ Distinct(b.records)
    BY <1>3 DEF Whole, Exports
  <2>4. Len(k) <= Take
    <3>1. FirstOf(k, Due(b, states, time, Len(b.records)))
      BY <2>1, <2>3, SelectedAreFirst
    <3> QED BY <3>1 DEF FirstOf
  <2>5. time - b.asOf <= FreshDate
    BY <1>3 DEF Export!ManifestAccepted
  <2>6. ShownHolds'
    BY <1>3, <2>1, <2>2, <2>4, <2>5 DEF ShownHolds
  <2>7. Export!NoRead \in Readings /\ Export!NoRead.phase = "idle"
    BY DEF Export!NoRead, Readings
  <2>8. LoadHolds'
    BY <2>2, <2>7 DEF LoadHolds
  <2> QED BY <1>1, <2>6, <2>8 DEF ExportInv, IngestionHolds
<1>7. CASE got # "intact"
  <2>1. reading' = [Export!NoRead EXCEPT !.phase = "refused"] /\ UNCHANGED displayed
    BY <1>5, <1>7
  <2>2. LoadHolds'
    BY <2>1, NothingRead DEF LoadHolds
  <2> QED BY <1>1, <2>1, <2>2 DEF ExportInv, IngestionHolds, ShownHolds
<1> QED BY <1>6, <1>7

-----------------------------------------------------------------------------
\* What the invariant says of a load that was served.
LEMMA ServedIsFirst ==
    ASSUME Export!EchoAssumption, ShownHolds, displayed.bundle # Absent
    PROVE  Export!ServedAreTheFirst
<1>1. PICK b, states, time, K, N, due :
        /\ b = displayed.bundle /\ states = displayed.states /\ time = displayed.now
        /\ K = displayed.records /\ N = Len(b.records) /\ due = Due(b, states, time, N)
  OBVIOUS
<1>2. b.records \in Seq(Facilities) /\ Distinct(b.records) /\ K = Export!Selected(b, states, time)
  BY <1>1 DEF ShownHolds, Whole, Exports
<1>3. N \in Nat /\ DOMAIN b.records = 1 .. N /\ \A i \in 1 .. N : b.records[i] \in Facilities
  BY <1>1, <1>2, LenProperties, ElementOfSeq
<1>4. FirstOf(K, due)
  BY <1>1, <1>2, SelectedAreFirst
<1>5. due \subseteq Facilities
  BY <1>1, <1>3 DEF Due
<1>6. due = {x \in {b.records[i] : i \in DOMAIN b.records} : Export!Eligible(x, states, time)}
  BY <1>1, <1>3 DEF Due
<1>7. IsFiniteSet(due)
  <2>1. PICK D : D = {j \in 1 .. N : Export!Eligible(b.records[j], states, time)}
    OBVIOUS
  <2>2. IsFiniteSet(1 .. N) /\ D \subseteq 1 .. N
    BY <1>3, <2>1, FS_Interval
  <2>3. IsFiniteSet(D)
    BY <2>2, PartsAreFewer
  <2>4. IsFiniteSet({b.records[i] : i \in D})
    <3> DEFINE f == [i \in D |-> b.records[i]]
    <3> DEFINE R == {b.records[i] : i \in D}
    <3>1. f \in Surjection(D, R)
      BY DEF Surjection
    <3>2. \E h \in Surjection(D, R) : TRUE
      BY <3>1
    <3> HIDE DEF f, R
    <3>3. IsFiniteSet(R)
      BY <2>3, <3>1, FS_Surjection
    <3> QED BY <3>3 DEF R
  <2> QED BY <1>1, <2>1, <2>4 DEF Due
<1>8. PICK given : given = {K[i] : i \in DOMAIN K}
  OBVIOUS
<1>9. /\ given \subseteq due
      /\ Cardinality(given) = IF Cardinality(due) < Take THEN Cardinality(due) ELSE Take
      /\ \A x \in given, y \in due \ given : Export!Precedes(x, y)
      /\ \A i \in 1 .. Len(K) - 1 : Export!Precedes(K[i], K[i + 1])
  <2>1. LET held == {K[i] : i \in DOMAIN K}
        IN  /\ held \subseteq due
            /\ Cardinality(held) = IF Cardinality(due) < Take THEN Cardinality(due) ELSE Take
            /\ \A x \in held, y \in due \ held : Export!Precedes(x, y)
            /\ \A i \in 1 .. Len(K) - 1 : Export!Precedes(K[i], K[i + 1])
    BY <1>4, <1>5, <1>7, FirstMeans
  <2> QED BY <1>8, <2>1
<1>10. Cardinality(given) = Export!Cardinality(given) /\ Cardinality(due) = Export!Cardinality(due)
  BY DEF Cardinality, Export!Cardinality
<1>11. Export!Cardinality(given)
         = IF Export!Cardinality(due) < Take THEN Export!Cardinality(due) ELSE Take
  BY <1>9, <1>10
<1> QED BY <1>1, <1>6, <1>8, <1>9, <1>11 DEF Export!ServedAreTheFirst

LEMMA ServedMayBeShown ==
    ASSUME Export!EchoAssumption, ShownHolds, displayed.bundle # Absent
    PROVE  Export!ServedIsPermitted
<1>1. PICK b, states, time, K, N :
        /\ b = displayed.bundle /\ states = displayed.states /\ time = displayed.now
        /\ K = displayed.records /\ N = Len(b.records)
  OBVIOUS
<1>2. /\ b.records \in Seq(Facilities) /\ Distinct(b.records) /\ Admitted(b.records, b.created)
      /\ K = Export!Selected(b, states, time) /\ time \in Nat /\ time - b.asOf <= FreshDate
  BY <1>1 DEF ShownHolds, Whole, Exports
<1>3. N \in Nat /\ \A i \in 1 .. N : b.records[i] \in Facilities
  BY <1>1, <1>2, LenProperties, ElementOfSeq
<1>4. FirstOf(K, Due(b, states, time, N))
  BY <1>1, <1>2, SelectedAreFirst
<1>5. DOMAIN K = 1 .. Len(K) /\ \A i \in 1 .. Len(K) : K[i] \in Due(b, states, time, N)
  BY <1>4, LenProperties DEF FirstOf
<1>6. ASSUME NEW i \in DOMAIN K
      PROVE  ~Export!Screened(K[i].name) /\ time - K[i].inspected <= Window
  <2>1. PICK j \in 1 .. N : K[i] = b.records[j] /\ Export!Eligible(b.records[j], states, time)
    BY <1>5 DEF Due
  <2>2. PICK x, e : x = b.records[j] /\ e = x.inspected
    OBVIOUS
  <2>3. ~Export!Screened(x.name)
    BY <1>1, <1>2, <2>2 DEF Admitted
  <2>4. e \in Nat
    BY <1>3, <2>2 DEF Facilities
  <2>5. Export!Between(e, time) <= Window
    BY <2>1, <2>2 DEF Export!Eligible
  <2>6. time - e <= Window
    BY <1>2, <2>4, <2>5, ExportConstants DEF Export!Between
  <2> QED BY <2>1, <2>2, <2>3, <2>6
<1> QED BY <1>1, <1>2, <1>6 DEF Export!ServedIsPermitted

LEMMA ExportInvIsEnough ==
    ASSUME Export!EchoAssumption, ExportInv
    PROVE  Export!LaneIsSound
<1>1. Export!EchoTypeOK
  <2>1. PICK n : n = Len(ingestion.records)
    OBVIOUS
  <2>2. /\ ingestion.phase \in {"idle", "streaming", "failed"}
        /\ ingestion.seen \in 0 .. MaxRows /\ ingestion.rejected \in 0 .. MaxRows
        /\ ingestion.records \in Seq(Facilities) /\ n <= ingestion.seen
    BY <2>1 DEF ExportInv, IngestionHolds, Ingestions
  <2>3. n <= MaxRows
    <3>1. n \in Nat
      BY <2>1, <2>2, LenProperties
    <3> QED BY <2>2, <3>1, ExportConstants
  <2>4. reading.phase \in {"idle", "manifest", "receipt", "records", "refused", "rejected"}
    BY DEF ExportInv, LoadHolds, Readings
  <2>5. today \in 0 .. MaxDay /\ Len(displayed.records) <= Take
    BY DEF ExportInv, ShownHolds
  <2> QED BY <2>1, <2>2, <2>3, <2>4, <2>5 DEF Export!EchoTypeOK
<1>2. Export!RunsFailOnlyAcrossMidnight
  BY DEF ExportInv, IngestionHolds, Export!RunsFailOnlyAcrossMidnight
<1>3. Export!PublishedRecordsAreReadable
  BY DEF ExportInv, LoadHolds, Readings, Export!PublishedRecordsAreReadable
<1>4. ShownHolds
  BY DEF ExportInv
<1>5. CASE displayed.bundle # Absent
  <2>1. Export!ServedAreTheFirst /\ Export!ServedIsPermitted
    BY <1>4, <1>5, ServedIsFirst, ServedMayBeShown
  <2> QED BY <1>1, <1>2, <1>3, <2>1 DEF Export!LaneIsSound
<1>6. CASE displayed.bundle = Absent
  <2>1. Export!ServedAreTheFirst /\ Export!ServedIsPermitted
    BY <1>6 DEF Export!ServedAreTheFirst, Export!ServedIsPermitted
  <2> QED BY <1>1, <1>2, <1>3, <2>1 DEF Export!LaneIsSound
<1> QED BY <1>5, <1>6

LEMMA ExportInitHolds ==
    ASSUME Export!EchoAssumption, Export!Init
    PROVE  ExportInv
<1>1. /\ today = 0 /\ ingestion = Export!NoRun /\ staged = Absent /\ pointed = Absent
      /\ reading = Export!NoRead /\ displayed = Export!NothingServed
  BY DEF Export!Init
<1>2. today \in 0 .. MaxDay
  BY <1>1, ExportConstants
<1>3. IngestionHolds
  BY <1>1, NothingIngested DEF IngestionHolds
<1>4. LoadHolds
  <2>1. Export!NoRead \in Readings /\ Export!NoRead.phase = "idle"
    BY DEF Export!NoRead, Readings
  <2> QED BY <1>1, <2>1 DEF LoadHolds
<1>5. ShownHolds
  <2>1. Export!NothingServed.bundle = Absent /\ Len(Export!NothingServed.records) = 0
    BY EmptySeq DEF Export!NothingServed
  <2> QED BY <1>1, <2>1, ExportConstants DEF ShownHolds
<1> QED BY <1>1, <1>2, <1>3, <1>4, <1>5 DEF ExportInv

LEMMA ExportNextHolds ==
    ASSUME Export!EchoAssumption, ExportInv, [Export!Next]_(Export!vars)
    PROVE  ExportInv'
<1>1. CASE Export!BeginRun
  BY <1>1, BeginRunKeeps
<1>2. CASE Export!StreamRow
  BY <1>2, StreamRowKeeps
<1>3. CASE Export!FinishRun
  BY <1>3, FinishRunKeeps
<1>4. CASE Export!NextRun
  BY <1>4, NextRunKeeps
<1>5. CASE Export!Publish
  BY <1>5, PublishKeeps
<1>6. CASE Export!LoadPointer
  BY <1>6, LoadPointerKeeps
<1>7. CASE Export!LoadManifest
  BY <1>7, LoadManifestKeeps
<1>8. CASE Export!LoadReceipt
  BY <1>8, LoadReceiptKeeps
<1>9. CASE Export!StreamRecords
  BY <1>9, StreamRecordsKeeps
<1>10. CASE Export!LoadEnds
  BY <1>10, LoadEndsKeeps
<1>11. CASE Export!NextDay
  BY <1>11, NextDayKeeps
<1>12. CASE UNCHANGED Export!vars
  BY <1>12 DEF Export!vars, ExportInv, IngestionHolds, LoadHolds, ShownHolds
<1> QED BY <1>1, <1>2, <1>3, <1>4, <1>5, <1>6, <1>7, <1>8, <1>9, <1>10, <1>11, <1>12
        DEF Export!Next

\* What the lane serves are the first of all the records that belong, for every limit
\* and every archive; nothing is served that a reason excludes or past its dates; an
\* intact fresh snapshot is never rejected by the runtime's verifier; an ingestion that
\* reached its floor fails only across midnight (export_echo_snapshot.py,
\* verify_snapshot.py, echo_snapshot.py).
THEOREM LaneStaysSound ==
    ASSUME Export!EchoAssumption
    PROVE  Export!Spec => []LaneIsSound
<1>1. Export!Init => ExportInv
  BY ExportInitHolds
<1>2. ExportInv /\ [Export!Next]_(Export!vars) => ExportInv'
  BY ExportNextHolds
<1>3. ExportInv => Export!LaneIsSound
  BY ExportInvIsEnough
<1> QED BY <1>1, <1>2, <1>3, PTL DEF Export!Spec, LaneIsSound
-----------------------------------------------------------------------------
\* The collection of the other registries.  What is kept of a sequence is in its order,
\* and what a longer sequence holds more comes after it.

\* The kept elements of s, one by one.
KeptBy(g, s, S, N) ==
    /\ N = Len(s) /\ g[0] = <<>> /\ Collection!Those(s, S) = g[N]
    /\ \A n \in 0 .. N : n < N => g[n + 1] = IF s[n + 1] \in S THEN Append(g[n], s[n + 1]) ELSE g[n]

KeepsOneByOne(g, s, S, n) ==
    g = [m \in 0 .. n |-> IF m = 0 THEN <<>>
                          ELSE IF s[m] \in S THEN Append(g[m - 1], s[m]) ELSE g[m - 1]]

LEMMA KeepingExists ==
    ASSUME NEW s, NEW S, NEW N \in Nat
    PROVE  \E g : KeepsOneByOne(g, s, S, N)
<1> DEFINE P == {n \in 0 .. N : \E g : KeepsOneByOne(g, s, S, n)}
<1>1. 0 \in P
  <2>1. KeepsOneByOne([m \in 0 .. 0 |-> <<>>], s, S, 0)
    BY DEF KeepsOneByOne
  <2> QED BY <2>1
<1>2. ASSUME NEW n \in 0 .. N, n < N, n \in P PROVE n + 1 \in P
  <2>1. PICK g : KeepsOneByOne(g, s, S, n)
    BY <1>2
  <2>2. PICK k : k = IF s[n + 1] \in S THEN Append(g[n], s[n + 1]) ELSE g[n]
    OBVIOUS
  <2> DEFINE h == [m \in 0 .. n + 1 |-> IF m = n + 1 THEN k ELSE g[m]]
  <2>3. ASSUME NEW m \in 0 .. n + 1
        PROVE  h[m] = IF m = 0 THEN <<>>
                      ELSE IF s[m] \in S THEN Append(h[m - 1], s[m]) ELSE h[m - 1]
    <3>1. CASE m = n + 1
      <4>1. h[m - 1] = g[n] /\ h[m] = k /\ m # 0
        BY <3>1
      <4> QED BY <2>2, <3>1, <4>1
    <3>2. CASE m # n + 1
      <4>1. m \in 0 .. n /\ h[m] = g[m] /\ (m # 0 => m - 1 \in 0 .. n /\ h[m - 1] = g[m - 1])
        BY <3>2
      <4> QED BY <2>1, <4>1 DEF KeepsOneByOne
    <3> QED BY <3>1, <3>2
  <2>4. KeepsOneByOne(h, s, S, n + 1)
    BY <2>3 DEF KeepsOneByOne
  <2> QED BY <1>2, <2>4
<1> HIDE DEF P
<1>3. 0 .. N \subseteq P
  BY <1>1, <1>2, EachStep
<1> QED BY <1>3 DEF P

LEMMA KeptOneByOne ==
    ASSUME NEW s, NEW S, NEW N \in Nat, N = Len(s)
    PROVE  \E g : KeptBy(g, s, S, N)
<1> DEFINE f == CHOOSE g : g = [m \in 0 .. N |-> IF m = 0 THEN <<>>
                   ELSE IF s[m] \in S THEN Append(g[m - 1], s[m]) ELSE g[m - 1]]
<1>1. \E g : g = [m \in 0 .. N |-> IF m = 0 THEN <<>>
                   ELSE IF s[m] \in S THEN Append(g[m - 1], s[m]) ELSE g[m - 1]]
  <2>1. PICK g : KeepsOneByOne(g, s, S, N)
    BY KeepingExists
  <2> QED BY <2>1 DEF KeepsOneByOne
<1>2. f = [m \in 0 .. N |-> IF m = 0 THEN <<>>
             ELSE IF s[m] \in S THEN Append(f[m - 1], s[m]) ELSE f[m - 1]]
  BY <1>1
<1>3. Collection!Those(s, S) = f[N]
  BY DEF Collection!Those
<1> HIDE DEF f
<1>4. f[0] = <<>>
  BY <1>2
<1>5. ASSUME NEW n \in 0 .. N, n < N
      PROVE  f[n + 1] = IF s[n + 1] \in S THEN Append(f[n], s[n + 1]) ELSE f[n]
  <2>1. n + 1 \in 0 .. N /\ n + 1 # 0 /\ (n + 1) - 1 = n
    BY <1>5
  <2> QED BY <1>2, <2>1
<1>6. KeptBy(f, s, S, N)
  BY <1>3, <1>4, <1>5 DEF KeptBy
<1> QED BY <1>6

\* One step of it.
LEMMA KeepStep ==
    ASSUME NEW X, NEW s \in Seq(X), NEW S, NEW N, NEW g, KeptBy(g, s, S, N),
           NEW n \in 0 .. N, n < N, g[n] \in Seq(X)
    PROVE  /\ n + 1 \in 1 .. N /\ s[n + 1] \in X /\ g[n + 1] \in Seq(X)
           /\ s[n + 1] \in S => /\ Len(g[n + 1]) = Len(g[n]) + 1
                                /\ g[n + 1][Len(g[n]) + 1] = s[n + 1]
                                /\ \A m \in 1 .. Len(g[n]) : g[n + 1][m] = g[n][m]
           /\ s[n + 1] \notin S => g[n + 1] = g[n]
<1>1. N = Len(s) /\ N \in Nat
  BY LenProperties DEF KeptBy
<1>2. n + 1 \in 1 .. N
  BY <1>1
<1>3. s[n + 1] \in X
  BY <1>1, <1>2, ElementOfSeq
<1>4. g[n + 1] = IF s[n + 1] \in S THEN Append(g[n], s[n + 1]) ELSE g[n]
  BY DEF KeptBy
<1> QED BY <1>2, <1>3, <1>4, AppendProperties

\* What is kept of a part of s are elements of that part that are in S, no more.
LEMMA KeptBelong ==
    ASSUME NEW X, NEW s \in Seq(X), NEW S, NEW N, NEW g, KeptBy(g, s, S, N), NEW n \in 0 .. N
    PROVE  /\ g[n] \in Seq(X) /\ Len(g[n]) \in 0 .. n
           /\ \A m \in 1 .. Len(g[n]) : g[n][m] \in S /\ \E k \in 1 .. n : s[k] = g[n][m]
<1> DEFINE Good(i) == /\ g[i] \in Seq(X) /\ Len(g[i]) \in 0 .. i
                      /\ \A m \in 1 .. Len(g[i]) : g[i][m] \in S /\ \E k \in 1 .. i : s[k] = g[i][m]
           P == {i \in 0 .. N : Good(i)}
<1>1. N \in Nat
  BY LenProperties DEF KeptBy
<1>2. 0 \in P
  <2>1. g[0] \in Seq(X) /\ Len(g[0]) = 0
    BY EmptySeq DEF KeptBy
  <2> QED BY <1>1, <2>1
<1>3. ASSUME NEW i \in 0 .. N, i < N, i \in P PROVE i + 1 \in P
  <2>1. PICK l \in Nat : l = Len(g[i]) /\ l <= i
    BY <1>3
  <2>2. g[i] \in Seq(X) /\ \A m \in 1 .. l : g[i][m] \in S /\ \E k \in 1 .. i : s[k] = g[i][m]
    BY <1>3, <2>1
  <2>3. /\ i + 1 \in 1 .. N /\ g[i + 1] \in Seq(X)
        /\ s[i + 1] \in S => /\ Len(g[i + 1]) = l + 1 /\ g[i + 1][l + 1] = s[i + 1]
                             /\ \A m \in 1 .. l : g[i + 1][m] = g[i][m]
        /\ s[i + 1] \notin S => g[i + 1] = g[i]
    BY <1>3, <2>1, <2>2, KeepStep
  <2>4. CASE s[i + 1] \in S
    <3>1. ASSUME NEW m \in 1 .. l + 1
          PROVE  g[i + 1][m] \in S /\ \E k \in 1 .. i + 1 : s[k] = g[i + 1][m]
      <4>1. CASE m = l + 1
        BY <2>3, <2>4, <4>1
      <4>2. CASE m # l + 1
        <5>1. m \in 1 .. l
          BY <4>2
        <5>2. PICK k \in 1 .. i : s[k] = g[i][m]
          BY <2>2, <5>1
        <5> QED BY <2>2, <2>3, <2>4, <5>1, <5>2
      <4> QED BY <4>1, <4>2
    <3> QED BY <1>3, <2>1, <2>3, <2>4, <3>1
  <2>5. CASE s[i + 1] \notin S
    <3>1. ASSUME NEW m \in 1 .. l
          PROVE  g[i][m] \in S /\ \E k \in 1 .. i + 1 : s[k] = g[i][m]
      <4>1. PICK k \in 1 .. i : s[k] = g[i][m]
        BY <2>2
      <4> QED BY <2>2, <4>1
    <3> QED BY <1>3, <2>1, <2>2, <2>3, <2>5, <3>1
  <2> QED BY <2>4, <2>5
<1> HIDE DEF P
<1>4. 0 .. N \subseteq P
  BY <1>1, <1>2, <1>3, EachStep
<1> QED BY <1>4 DEF P

\* Each element of it that is in S is kept, at a place of its own, in order.
LEMMA KeptInOrder ==
    ASSUME NEW X, NEW s \in Seq(X), NEW S, NEW N, NEW g, KeptBy(g, s, S, N), NEW n \in 0 .. N,
           NEW i \in 1 .. n, s[i] \in S
    PROVE  /\ Len(g[i]) = Len(g[i - 1]) + 1
           /\ Len(g[i]) \in 1 .. Len(g[n]) /\ g[n][Len(g[i])] = s[i]
<1> DEFINE Good(j) == Len(g[i]) \in 1 .. Len(g[j]) /\ g[j][Len(g[i])] = s[i]
           P == {j \in 0 .. N : j < i \/ Good(j)}
<1> HIDE DEF Good
<1>1. N \in Nat /\ i - 1 \in 0 .. N /\ i - 1 < N /\ (i - 1) + 1 = i
  BY LenProperties DEF KeptBy
<1>2. \A j \in 0 .. N : g[j] \in Seq(X) /\ Len(g[j]) \in Nat
  BY <1>1, KeptBelong
<1>3. Len(g[i]) = Len(g[i - 1]) + 1 /\ g[i][Len(g[i])] = s[i]
  <2>1. g[i - 1] \in Seq(X)
    BY <1>1, <1>2
  <2>2. s[(i - 1) + 1] \in S
    BY <1>1
  <2>3. /\ Len(g[(i - 1) + 1]) = Len(g[i - 1]) + 1
        /\ g[(i - 1) + 1][Len(g[i - 1]) + 1] = s[(i - 1) + 1]
    BY <1>1, <2>1, <2>2, KeepStep
  <2> QED BY <1>1, <2>3
<1>4. 0 \in P
  BY <1>1
<1>5. ASSUME NEW j \in 0 .. N, j < N, j \in P PROVE j + 1 \in P
  <2>0. j + 1 \in 0 .. N
    BY <1>1, <1>5
  <2>1. CASE j + 1 < i
    BY <2>0, <2>1
  <2>2. CASE j + 1 = i
    <3>1. Len(g[i]) \in 1 .. Len(g[i])
      BY <1>1, <1>2, <1>3
    <3>2. Good(j + 1)
      BY <1>3, <2>2, <3>1 DEF Good
    <3> QED BY <2>0, <3>2
  <2>3. CASE i <= j
    <3>1. Len(g[i]) \in 1 .. Len(g[j]) /\ g[j][Len(g[i])] = s[i]
      BY <1>1, <1>5, <2>3 DEF Good
    <3>2. PICK l, p \in Nat : l = Len(g[j]) /\ p = Len(g[i])
      BY <1>1, <1>2
    <3>3. p \in 1 .. l /\ g[j][p] = s[i]
      BY <3>1, <3>2
    <3>4. /\ s[j + 1] \in S => Len(g[j + 1]) = l + 1 /\ \A m \in 1 .. l : g[j + 1][m] = g[j][m]
          /\ s[j + 1] \notin S => g[j + 1] = g[j]
      BY <1>2, <1>5, <3>2, KeepStep
    <3>5. Good(j + 1)
      BY <3>2, <3>3, <3>4 DEF Good
    <3> QED BY <2>0, <3>5
  <2> QED BY <1>1, <2>1, <2>2, <2>3
<1> HIDE DEF P
<1>6. 0 .. N \subseteq P
  BY <1>1, <1>4, <1>5, EachStep
<1>7. n \in P /\ ~(n < i)
  BY <1>1, <1>6
<1> QED BY <1>3, <1>7 DEF P, Good

\* Those are elements of s that are in S, and no more than s has.
LEMMA ThoseBelong ==
    ASSUME NEW X, NEW s \in Seq(X), NEW S
    PROVE  /\ Collection!Those(s, S) \in Seq(X)
           /\ Len(Collection!Those(s, S)) \in 0 .. Len(s)
           /\ \A m \in 1 .. Len(Collection!Those(s, S)) :
                 /\ Collection!Those(s, S)[m] \in X \cap S
                 /\ \E k \in 1 .. Len(s) : s[k] = Collection!Those(s, S)[m]
<1>1. PICK N \in Nat : N = Len(s)
  BY LenProperties
<1>2. PICK g : KeptBy(g, s, S, N)
  BY <1>1, KeptOneByOne
<1>3. PICK t : t = g[N]
  OBVIOUS
<1>4. /\ t \in Seq(X) /\ Len(t) \in 0 .. N
      /\ \A m \in 1 .. Len(t) : t[m] \in S /\ \E k \in 1 .. N : s[k] = t[m]
  BY <1>1, <1>2, <1>3, KeptBelong
<1>5. \A m \in 1 .. Len(t) : t[m] \in X
  BY <1>4, ElementOfSeq
<1>6. Collection!Those(s, S) = t
  BY <1>2, <1>3 DEF KeptBy
<1> QED BY <1>1, <1>4, <1>5, <1>6

\* Each element of s that is in S is among those, and two places of s stay two.
LEMMA ThoseInOrder ==
    ASSUME NEW X, NEW s \in Seq(X), NEW S, NEW i \in 1 .. Len(s), s[i] \in S
    PROVE  \E k \in 1 .. Len(Collection!Those(s, S)) : Collection!Those(s, S)[k] = s[i]
<1>1. PICK N \in Nat : N = Len(s)
  BY LenProperties
<1>2. PICK g : KeptBy(g, s, S, N)
  BY <1>1, KeptOneByOne
<1>3. PICK t : t = g[N]
  OBVIOUS
<1>4. Collection!Those(s, S) = t
  BY <1>2, <1>3 DEF KeptBy
<1>5. Len(g[i]) \in 1 .. Len(t) /\ t[Len(g[i])] = s[i]
  BY <1>1, <1>2, <1>3, KeptInOrder
<1> QED BY <1>4, <1>5

LEMMA TwoOfThose ==
    ASSUME NEW X, NEW s \in Seq(X), NEW S, NEW i \in 1 .. Len(s), NEW j \in 1 .. Len(s),
           i < j, s[i] \in S, s[j] \in S
    PROVE  \E k, l \in 1 .. Len(Collection!Those(s, S)) :
              k # l /\ Collection!Those(s, S)[k] = s[i] /\ Collection!Those(s, S)[l] = s[j]
<1>1. PICK N \in Nat : N = Len(s)
  BY LenProperties
<1>2. PICK g : KeptBy(g, s, S, N)
  BY <1>1, KeptOneByOne
<1>3. PICK t : t = g[N]
  OBVIOUS
<1>4. Collection!Those(s, S) = t
  BY <1>2, <1>3 DEF KeptBy
<1>5. Len(g[i]) \in 1 .. Len(t) /\ t[Len(g[i])] = s[i]
  <2>1. N \in 0 .. N /\ i \in 1 .. N /\ s[i] \in S /\ KeptBy(g, s, S, N)
    BY <1>1, <1>2
  <2>2. Len(g[i]) \in 1 .. Len(g[N]) /\ g[N][Len(g[i])] = s[i]
    BY ONLY <2>1, s \in Seq(X), KeptInOrder
  <2> QED BY <1>3, <2>2
<1>6. /\ Len(g[j]) = Len(g[j - 1]) + 1
      /\ Len(g[j]) \in 1 .. Len(t) /\ t[Len(g[j])] = s[j]
  <2>1. N \in 0 .. N /\ j \in 1 .. N /\ s[j] \in S /\ KeptBy(g, s, S, N)
    BY <1>1, <1>2
  <2>2. /\ Len(g[j]) = Len(g[j - 1]) + 1
        /\ Len(g[j]) \in 1 .. Len(g[N]) /\ g[N][Len(g[j])] = s[j]
    BY ONLY <2>1, s \in Seq(X), KeptInOrder
  <2> QED BY <1>3, <2>2
<1>7. j - 1 \in 0 .. N /\ i \in 1 .. j - 1
  BY <1>1
<1>8. Len(g[i]) \in 1 .. Len(g[j - 1])
  BY <1>2, <1>7, KeptInOrder
<1>9. Len(g[j - 1]) \in Nat
  BY <1>2, <1>7, KeptBelong
<1>10. Len(g[i]) # Len(g[j])
  BY ONLY <1>6, <1>8, <1>9
<1> QED BY ONLY <1>4, <1>5, <1>6, <1>10

\* When t is put behind s, those of s stay and those of t come after them: all of t
\* when it is in S, none of it when none is.
LEMMA ThoseOfConcat ==
    ASSUME NEW X, NEW s \in Seq(X), NEW t \in Seq(X), NEW S
    PROVE  /\ (\A i \in 1 .. Len(t) : t[i] \in S) =>
                 Collection!Those(s \o t, S) = Collection!Those(s, S) \o t
           /\ (\A i \in 1 .. Len(t) : t[i] \notin S) =>
                 Collection!Those(s \o t, S) = Collection!Those(s, S)
<1>1. PICK N, M \in Nat : N = Len(s) /\ M = Len(t)
  BY LenProperties
<1>2. PICK u : u = s \o t
  OBVIOUS
<1>3. /\ u \in Seq(X) /\ Len(u) = N + M
      /\ \A i \in 1 .. N + M : u[i] = IF i <= N THEN s[i] ELSE t[i - N]
  BY <1>1, <1>2, ConcatProperties
<1>4. PICK g : KeptBy(g, u, S, N + M)
  <2>1. N + M \in Nat
    BY <1>1
  <2> QED BY <1>3, <2>1, KeptOneByOne
<1>5. PICK h : KeptBy(h, s, S, N)
  BY <1>1, KeptOneByOne
<1>6. g[N] = h[N]
  <2> DEFINE P == {n \in 0 .. N : g[n] = h[n]}
  <2>1. 0 \in P
    BY <1>1, <1>4, <1>5 DEF KeptBy
  <2>2. ASSUME NEW n \in 0 .. N, n < N, n \in P PROVE n + 1 \in P
    <3>1. n + 1 \in 0 .. N /\ n + 1 \in 1 .. N + M /\ n \in 0 .. N + M /\ n < N + M
      BY <1>1, <2>2
    <3>2. u[n + 1] = s[n + 1]
      BY <1>3, <3>1
    <3>3. g[n + 1] = IF u[n + 1] \in S THEN Append(g[n], u[n + 1]) ELSE g[n]
      BY <1>4, <3>1 DEF KeptBy
    <3>4. h[n + 1] = IF s[n + 1] \in S THEN Append(h[n], s[n + 1]) ELSE h[n]
      BY <1>5, <2>2 DEF KeptBy
    <3> QED BY <2>2, <3>1, <3>2, <3>3, <3>4
  <2> HIDE DEF P
  <2>3. 0 .. N \subseteq P
    BY <1>1, <2>1, <2>2, EachStep
  <2>4. N \in P
    BY <1>1, <2>3
  <2> QED BY <2>4 DEF P
<1>7. PICK c : c = h[N]
  OBVIOUS
<1>8. /\ Collection!Those(u, S) = g[N + M] /\ Collection!Those(s, S) = c
      /\ g[N] = c /\ c \in Seq(X)
  <2>1. h[N] \in Seq(X)
    <3>1. N \in 0 .. N
      BY <1>1
    <3> QED BY <1>5, <3>1, KeptBelong
  <2>2. Collection!Those(u, S) = g[N + M] /\ Collection!Those(s, S) = h[N]
    BY <1>4, <1>5 DEF KeptBy
  <2> QED BY <1>6, <1>7, <2>1, <2>2
<1>9. ASSUME \A i \in 1 .. M : t[i] \in S
      PROVE  g[N + M] = c \o t
  <2>1. PICK l \in Nat : l = Len(c)
    BY <1>8, LenProperties
  <2> DEFINE Good(n) == /\ Len(g[N + n]) = l + n
                        /\ \A m \in 1 .. l + n : g[N + n][m] = IF m <= l THEN c[m] ELSE t[m - l]
             P == {n \in 0 .. M : Good(n)}
  <2> HIDE DEF Good
  <2>2. 0 \in P
    <3>1. N + 0 = N /\ l + 0 = l /\ 0 \in 0 .. M
      BY <1>1, <2>1
    <3>2. Good(0)
      BY <1>8, <2>1, <3>1 DEF Good
    <3> QED BY <3>1, <3>2
  <2>3. ASSUME NEW n \in 0 .. M, n < M, n \in P PROVE n + 1 \in P
    <3>1. /\ N + n \in 0 .. N + M /\ N + n < N + M /\ (N + n) + 1 = N + (n + 1)
          /\ N + (n + 1) \in 1 .. N + M /\ ~(N + (n + 1) <= N) /\ (N + (n + 1)) - N = n + 1
          /\ n + 1 \in 1 .. M /\ n + 1 \in 0 .. M
      BY <1>1, <2>3
    <3>2. u[N + (n + 1)] = t[n + 1] /\ t[n + 1] \in S
      BY <1>3, <1>9, <3>1
    <3>3. g[N + n] \in Seq(X)
      BY <1>3, <1>4, <3>1, KeptBelong
    <3>4. Len(g[N + n]) = l + n /\ \A m \in 1 .. l + n : g[N + n][m] = IF m <= l THEN c[m] ELSE t[m - l]
      BY <2>3 DEF Good
    <3>5. /\ Len(g[N + (n + 1)]) = (l + n) + 1 /\ g[N + (n + 1)][(l + n) + 1] = t[n + 1]
          /\ \A m \in 1 .. l + n : g[N + (n + 1)][m] = g[N + n][m]
      <4>1. PICK K, k : K = N + M /\ k = N + n
        OBVIOUS
      <4>2. KeptBy(g, u, S, K) /\ k \in 0 .. K /\ k < K /\ g[k] \in Seq(X) /\ u[k + 1] \in S
        BY <1>4, <3>1, <3>2, <3>3, <4>1
      <4>3. /\ Len(g[k + 1]) = Len(g[k]) + 1 /\ g[k + 1][Len(g[k]) + 1] = u[k + 1]
            /\ \A m \in 1 .. Len(g[k]) : g[k + 1][m] = g[k][m]
        BY <1>3, <4>2, KeepStep
      <4> QED BY <3>1, <3>2, <3>4, <4>1, <4>3
    <3>6. ASSUME NEW m \in 1 .. l + (n + 1)
          PROVE  g[N + (n + 1)][m] = IF m <= l THEN c[m] ELSE t[m - l]
      <4>1. CASE m = (l + n) + 1
        <5>1. ~(m <= l) /\ m - l = n + 1
          BY <2>1, <4>1
        <5> QED BY <3>5, <4>1, <5>1
      <4>2. CASE m # (l + n) + 1
        <5>1. m \in 1 .. l + n
          BY <2>1, <4>2
        <5> QED BY <3>4, <3>5, <5>1
      <4> QED BY <4>1, <4>2
    <3>7. (l + n) + 1 = l + (n + 1)
      BY <2>1
    <3>8. Good(n + 1)
      BY <3>5, <3>6, <3>7 DEF Good
    <3> QED BY <3>1, <3>8
  <2> HIDE DEF P
  <2>4. 0 .. M \subseteq P
    BY <1>1, <2>2, <2>3, EachStep
  <2>5. Good(M)
    BY <1>1, <2>4 DEF P
  <2>6. PICK v : v = g[N + M]
    OBVIOUS
  <2>7. PICK w : w = c \o t
    OBVIOUS
  <2>8. v \in Seq(X) /\ Len(v) = l + M /\ \A m \in 1 .. l + M : v[m] = IF m <= l THEN c[m] ELSE t[m - l]
    <3>1. N + M \in 0 .. N + M
      BY <1>1
    <3>2. v \in Seq(X)
      BY <1>3, <1>4, <2>6, <3>1, KeptBelong
    <3> QED BY <2>5, <2>6, <3>2 DEF Good
  <2>9. w \in Seq(X) /\ Len(w) = l + M /\ \A m \in 1 .. l + M : w[m] = IF m <= l THEN c[m] ELSE t[m - l]
    BY <1>1, <1>8, <2>1, <2>7, ConcatProperties
  <2>10. v = w
    BY <2>8, <2>9, SeqEqual
  <2> QED BY <2>6, <2>7, <2>10
<1>10. ASSUME \A i \in 1 .. M : t[i] \notin S
       PROVE  g[N + M] = c
  <2> DEFINE P == {n \in 0 .. M : g[N + n] = c}
  <2>1. 0 \in P
    BY <1>1, <1>8
  <2>2. ASSUME NEW n \in 0 .. M, n < M, n \in P PROVE n + 1 \in P
    <3>1. /\ N + n \in 0 .. N + M /\ N + n < N + M /\ (N + n) + 1 = N + (n + 1)
          /\ N + (n + 1) \in 1 .. N + M /\ ~(N + (n + 1) <= N) /\ (N + (n + 1)) - N = n + 1
          /\ n + 1 \in 1 .. M /\ n + 1 \in 0 .. M
      BY <1>1, <2>2
    <3>2. u[N + (n + 1)] = t[n + 1] /\ t[n + 1] \notin S
      BY <1>3, <1>10, <3>1
    <3>3. g[(N + n) + 1] = IF u[(N + n) + 1] \in S THEN Append(g[N + n], u[(N + n) + 1]) ELSE g[N + n]
      BY <1>4, <3>1 DEF KeptBy
    <3> QED BY <2>2, <3>1, <3>2, <3>3
  <2> HIDE DEF P
  <2>3. 0 .. M \subseteq P
    BY <1>1, <2>1, <2>2, EachStep
  <2>4. M \in P
    BY <1>1, <2>3
  <2> QED BY <2>4 DEF P
<1> QED BY <1>1, <1>2, <1>8, <1>9, <1>10

\* The first n of a sequence.
LEMMA FirstOnes ==
    ASSUME NEW X, NEW s \in Seq(X), NEW n \in Nat
    PROVE  /\ Collection!FirstOf(n, s) \in Seq(X)
           /\ Len(Collection!FirstOf(n, s)) = IF Len(s) < n THEN Len(s) ELSE n
           /\ Len(Collection!FirstOf(n, s)) \in 0 .. Len(s) /\ Len(Collection!FirstOf(n, s)) <= n
           /\ \A i \in 1 .. Len(Collection!FirstOf(n, s)) : Collection!FirstOf(n, s)[i] = s[i]
<1>1. PICK l \in Nat : l = Len(s)
  BY LenProperties
<1>2. PICK m \in Nat : m = IF Len(s) < n THEN Len(s) ELSE n
  BY <1>1
<1>3. m <= l /\ m <= n /\ \A i \in 1 .. m : i \in 1 .. l
  BY <1>1, <1>2
<1>4. \A i \in 1 .. m : s[i] \in X
  BY <1>1, <1>3, ElementOfSeq
<1>5. /\ SubSeq(s, 1, m) \in Seq(X)
      /\ Len(SubSeq(s, 1, m)) = IF 1 <= m THEN m - 1 + 1 ELSE 0
      /\ \A i \in 1 .. m - 1 + 1 : SubSeq(s, 1, m)[i] = s[1 + i - 1]
  BY <1>4, SubSeqProperties
<1>6. Len(SubSeq(s, 1, m)) = m /\ \A i \in 1 .. m : SubSeq(s, 1, m)[i] = s[i]
  BY <1>5
<1>7. Collection!FirstOf(n, s) = SubSeq(s, 1, m)
  BY <1>2 DEF Collection!FirstOf
<1> QED BY <1>1, <1>2, <1>3, <1>5, <1>6, <1>7

\* The filings of a state, in their order.
IsFiling(r) == /\ r.size \in Nat /\ r.rank \in Nat
               /\ r.taken \in BOOLEAN /\ r.org \in BOOLEAN /\ r.valid \in BOOLEAN

LEMMA FilingsAre ==
    ASSUME Collection!CollectionAssumption
    PROVE  /\ \A r \in Filings : IsFiling(r)
           /\ Page \in Nat /\ Page > 0 /\ PerState \in Nat /\ PerState > 0
           /\ Attempts \in Nat /\ Attempts > 0 /\ MaxRows \in Nat /\ MaxDay \in Nat
           /\ Len(Asked) \in Nat /\ Len(Asked) > 0 /\ DOMAIN Asked = 1 .. Len(Asked)
           /\ \A i, j \in 1 .. Len(Asked) : Asked[i] = Asked[j] => i = j
           /\ Registries \subseteq {"fmcsa", "usaspending", "form5500"}
<1>1. \A r \in Filings : IsFiling(r)
  BY DEF Collection!CollectionAssumption, IsFiling
<1>2. /\ Page \in Nat /\ Page > 0 /\ PerState \in Nat /\ PerState > 0
      /\ Attempts \in Nat /\ Attempts > 0 /\ MaxRows \in Nat /\ MaxDay \in Nat
  BY DEF Collection!CollectionAssumption
<1>3. Len(Asked) \in Nat /\ DOMAIN Asked = 1 .. Len(Asked)
  BY LenProperties DEF Collection!CollectionAssumption
<1>4. /\ Len(Asked) > 0 /\ Registries \subseteq {"fmcsa", "usaspending", "form5500"}
      /\ \A i, j \in DOMAIN Asked : Asked[i] = Asked[j] => i = j
  BY DEF Collection!CollectionAssumption
<1> QED BY <1>1, <1>2, <1>3, <1>4

\* A sponsor was first met at one of its filings, and not after any of them.
LEMMA FirstMetIs ==
    ASSUME NEW rows \in Seq(Filings), NEW i \in 1 .. Len(rows)
    PROVE  /\ Collection!FirstMet(rows, rows[i].name) \in 1 .. Len(rows)
           /\ rows[Collection!FirstMet(rows, rows[i].name)].name = rows[i].name
<1>1. DOMAIN rows = 1 .. Len(rows) /\ Len(rows) \in Nat
  BY LenProperties
<1> DEFINE S == {k \in 1 .. Len(rows) : rows[k].name = rows[i].name}
<1>2. S \in SUBSET Nat /\ i \in S
  BY <1>1
<1>3. PICK x \in S : \A y \in S : x <= y
  BY <1>2, LeastNumber
<1>4. \E k \in DOMAIN rows : /\ rows[k].name = rows[i].name
                             /\ \A j \in DOMAIN rows : rows[j].name = rows[i].name => k <= j
  BY <1>1, <1>3
<1> HIDE DEF S
<1> QED BY <1>1, <1>4 DEF Collection!FirstMet

\* Every sponsor has one filing that is taken for it, with the most participants.
LEMMA OneForASponsor ==
    ASSUME Collection!CollectionAssumption, NEW rows \in Seq(Filings), NEW i \in 1 .. Len(rows)
    PROVE  /\ \E j \in Collection!OnePerSponsor(rows) :
                 /\ rows[j].name = rows[i].name
                 /\ \A k \in 1 .. Len(rows) : rows[k].name = rows[i].name => rows[k].size <= rows[j].size
           /\ i \in Collection!OnePerSponsor(rows) =>
                 \A j \in Collection!OnePerSponsor(rows) : rows[j].name = rows[i].name => j = i
<1>1. PICK n \in Nat : n = Len(rows)
  BY LenProperties
<1>2. DOMAIN rows = 1 .. n /\ \A k \in 1 .. n : rows[k] \in Filings
  BY <1>1, LenProperties, ElementOfSeq
<1>3. \A k \in 1 .. n : rows[k].size \in Nat
  BY <1>2, FilingsAre DEF IsFiling
<1> DEFINE SameSponsor(k) == rows[k].name = rows[i].name
           Best(j, m) == /\ j \in 1 .. m /\ SameSponsor(j)
                         /\ \A k \in 1 .. m : SameSponsor(k) =>
                               rows[k].size < rows[j].size \/ (rows[k].size = rows[j].size /\ j <= k)
           P == {m \in 0 .. n : (\E k \in 1 .. m : SameSponsor(k)) => \E j \in 1 .. n : Best(j, m)}
<1> HIDE DEF SameSponsor
<1>4. 0 \in P
  BY <1>1
<1>5. ASSUME NEW m \in 0 .. n, m < n, m \in P PROVE m + 1 \in P
  <2>1. /\ m + 1 \in 0 .. n /\ m + 1 \in 1 .. n /\ \A k \in 1 .. m + 1 : k = m + 1 \/ k \in 1 .. m
        /\ \A k \in 1 .. m : k \in 1 .. n /\ k \in 1 .. m + 1 /\ k <= m + 1
    BY <1>1, <1>5
  <2>2. CASE ~ \E k \in 1 .. m : SameSponsor(k)
    <3>1. SameSponsor(m + 1) => Best(m + 1, m + 1)
      BY <2>1, <2>2
    <3> QED BY <2>1, <2>2, <3>1
  <2>3. CASE \E k \in 1 .. m : SameSponsor(k)
    <3>1. PICK j \in 1 .. n : Best(j, m)
      BY <1>5, <2>3
    <3>2. \A k \in 1 .. n : rows[k].size \in Nat
      BY <1>3
    <3>3. CASE SameSponsor(m + 1) /\ rows[m + 1].size > rows[j].size
      <4>1. ASSUME NEW k \in 1 .. m + 1, SameSponsor(k)
            PROVE  \/ rows[k].size < rows[m + 1].size
                   \/ rows[k].size = rows[m + 1].size /\ m + 1 <= k
        <5>1. CASE k = m + 1
          BY <2>1, <5>1
        <5>2. CASE k \in 1 .. m
          <6>1. rows[k].size <= rows[j].size /\ k \in 1 .. n
            BY <1>3, <2>1, <3>1, <4>1, <5>2
          <6> QED BY <1>3, <2>1, <3>1, <3>3, <6>1
        <5> QED BY <2>1, <5>1, <5>2
      <4>2. Best(m + 1, m + 1)
        BY <2>1, <3>3, <4>1
      <4> QED BY <2>1, <4>2
    <3>4. CASE ~(SameSponsor(m + 1) /\ rows[m + 1].size > rows[j].size)
      <4>1. ASSUME NEW k \in 1 .. m + 1, SameSponsor(k)
            PROVE  rows[k].size < rows[j].size \/ (rows[k].size = rows[j].size /\ j <= k)
        <5>1. CASE k = m + 1
          <6>1. j <= m + 1 /\ ~(rows[m + 1].size > rows[j].size)
            BY <2>1, <3>1, <3>4, <4>1, <5>1
          <6> QED BY <1>3, <2>1, <3>1, <5>1, <6>1
        <5>2. CASE k \in 1 .. m
          BY <3>1, <4>1, <5>2
        <5> QED BY <2>1, <5>1, <5>2
      <4>2. Best(j, m + 1)
        BY <2>1, <3>1, <4>1
      <4> QED BY <2>1, <4>2
    <3> QED BY <3>3, <3>4
  <2> QED BY <2>2, <2>3
<1> HIDE DEF P
<1>6. 0 .. n \subseteq P
  BY <1>1, <1>4, <1>5, EachStep
<1>7. PICK j \in 1 .. n : Best(j, n)
  <2>1. n \in P /\ SameSponsor(i)
    BY <1>1, <1>6 DEF SameSponsor
  <2> QED BY <1>1, <2>1 DEF P
<1>8. j \in Collection!OnePerSponsor(rows) /\ rows[j].name = rows[i].name
  BY <1>2, <1>7 DEF SameSponsor, Collection!OnePerSponsor
<1>9. \A k \in 1 .. n : rows[k].name = rows[i].name => rows[k].size <= rows[j].size
  BY <1>3, <1>7 DEF SameSponsor
<1>10. ASSUME i \in Collection!OnePerSponsor(rows), NEW k \in Collection!OnePerSponsor(rows),
              rows[k].name = rows[i].name
       PROVE  k = i
  <2>1. k \in 1 .. n /\ i \in 1 .. n
    BY <1>1, <1>2 DEF Collection!OnePerSponsor
  <2>2. rows[k].size < rows[i].size \/ (rows[k].size = rows[i].size /\ i <= k)
    BY <1>2, <1>10, <2>1 DEF Collection!OnePerSponsor
  <2>3. rows[i].size < rows[k].size \/ (rows[i].size = rows[k].size /\ k <= i)
    BY <1>2, <1>10, <2>1 DEF Collection!OnePerSponsor
  <2>4. rows[i].size \in Nat /\ rows[k].size \in Nat
    BY <1>3, <2>1
  <2> QED BY <2>1, <2>2, <2>3, <2>4
<1> QED BY <1>1, <1>8, <1>9, <1>10

\* The filings that are taken are in a strict order in which no two are equal.
LEMMA AboveIsAnOrder ==
    ASSUME Collection!CollectionAssumption, NEW rows \in Seq(Filings),
           NEW i \in Collection!OnePerSponsor(rows), NEW j \in Collection!OnePerSponsor(rows),
           NEW k \in Collection!OnePerSponsor(rows)
    PROVE  /\ ~Collection!Above(rows, i, i)
           /\ Collection!Above(rows, i, j) /\ Collection!Above(rows, j, k) => Collection!Above(rows, i, k)
           /\ i = j \/ Collection!Above(rows, i, j) \/ Collection!Above(rows, j, i)
           /\ ~Collection!Above(rows, i, j) => rows[i].rank <= rows[j].rank
<1>1. DOMAIN rows = 1 .. Len(rows) /\ Len(rows) \in Nat
  BY LenProperties
<1>2. i \in 1 .. Len(rows) /\ j \in 1 .. Len(rows) /\ k \in 1 .. Len(rows)
  BY <1>1 DEF Collection!OnePerSponsor
<1>3. rows[i] \in Filings /\ rows[j] \in Filings /\ rows[k] \in Filings
  BY <1>2, ElementOfSeq
<1>4. PICK a, b, c \in Nat : a = rows[i].rank /\ b = rows[j].rank /\ c = rows[k].rank
  BY <1>3, FilingsAre DEF IsFiling
<1>5. PICK x, y, z \in Nat : /\ x = Collection!FirstMet(rows, rows[i].name)
                             /\ y = Collection!FirstMet(rows, rows[j].name)
                             /\ z = Collection!FirstMet(rows, rows[k].name)
  <2>1. /\ Collection!FirstMet(rows, rows[i].name) \in 1 .. Len(rows)
        /\ Collection!FirstMet(rows, rows[j].name) \in 1 .. Len(rows)
        /\ Collection!FirstMet(rows, rows[k].name) \in 1 .. Len(rows)
    BY <1>2, FirstMetIs
  <2> QED BY <1>1, <2>1
<1>6. x = y => i = j
  <2>1. rows[x].name = rows[i].name /\ rows[y].name = rows[j].name
    BY <1>2, <1>5, FirstMetIs
  <2>2. rows[i].name = rows[j].name => i = j
    BY <1>2, OneForASponsor
  <2> QED BY <2>1, <2>2
<1>7. /\ Collection!Above(rows, i, i) <=> a > a \/ (a = a /\ x < x)
      /\ Collection!Above(rows, i, j) <=> a > b \/ (a = b /\ x < y)
      /\ Collection!Above(rows, j, i) <=> b > a \/ (b = a /\ y < x)
      /\ Collection!Above(rows, j, k) <=> b > c \/ (b = c /\ y < z)
      /\ Collection!Above(rows, i, k) <=> a > c \/ (a = c /\ x < z)
  BY <1>4, <1>5 DEF Collection!Above
<1>8. ~Collection!Above(rows, i, i)
  BY <1>7
<1>9. Collection!Above(rows, i, j) /\ Collection!Above(rows, j, k) => Collection!Above(rows, i, k)
  BY <1>7
<1>10. i = j \/ Collection!Above(rows, i, j) \/ Collection!Above(rows, j, i)
  BY <1>6, <1>7
<1>11. ~Collection!Above(rows, i, j) => rows[i].rank <= rows[j].rank
  BY <1>4, <1>7
<1> QED BY <1>8, <1>9, <1>10, <1>11

\* How many of the filings that are taken are above one of them.
Height(rows, i) == Cardinality({j \in Collection!OnePerSponsor(rows) : Collection!Above(rows, j, i)})

LEMMA TakenAreFew ==
    ASSUME NEW rows \in Seq(Filings)
    PROVE  /\ Collection!OnePerSponsor(rows) \subseteq 1 .. Len(rows)
           /\ IsFiniteSet(Collection!OnePerSponsor(rows))
           /\ Cardinality(Collection!OnePerSponsor(rows)) \in 0 .. Len(rows)
<1>1. DOMAIN rows = 1 .. Len(rows) /\ Len(rows) \in Nat
  BY LenProperties
<1>2. Collection!OnePerSponsor(rows) \subseteq 1 .. Len(rows)
  BY <1>1 DEF Collection!OnePerSponsor
<1>3. IsFiniteSet(1 .. Len(rows)) /\ Cardinality(1 .. Len(rows)) = Len(rows)
  BY <1>1, FS_Interval
<1> QED BY <1>1, <1>2, <1>3, PartsAreFewer

LEMMA HeightsOrder ==
    ASSUME Collection!CollectionAssumption, NEW rows \in Seq(Filings),
           NEW i \in Collection!OnePerSponsor(rows)
    PROVE  /\ Height(rows, i) \in 0 .. Cardinality(Collection!OnePerSponsor(rows)) - 1
           /\ \A j \in Collection!OnePerSponsor(rows) :
                 Collection!Above(rows, j, i) => Height(rows, j) < Height(rows, i)
<1>1. PICK D : D = Collection!OnePerSponsor(rows)
  OBVIOUS
<1>2. IsFiniteSet(D) /\ Cardinality(D) \in Nat
  BY <1>1, TakenAreFew
<1> DEFINE A(k) == {j \in D : Collection!Above(rows, j, k)}
<1>3. i \in D /\ i \notin A(i) /\ A(i) \subseteq D
  BY <1>1, AboveIsAnOrder
<1>4. IsFiniteSet(A(i)) /\ Cardinality(A(i)) \in Nat /\ Cardinality(A(i)) < Cardinality(D)
  <2>1. A(i) # D
    BY <1>3
  <2> QED BY <1>2, <1>3, <2>1, PartsAreFewer
<1>5. ASSUME NEW j \in D, Collection!Above(rows, j, i)
      PROVE  Cardinality(A(j)) < Cardinality(A(i))
  <2>1. A(j) \subseteq A(i)
    BY <1>1, <1>5, AboveIsAnOrder
  <2>2. j \in A(i) /\ j \notin A(j)
    BY <1>1, <1>5, AboveIsAnOrder
  <2>3. A(j) # A(i)
    BY <2>2
  <2> HIDE DEF A
  <2> QED BY <1>4, <2>1, <2>3, PartsAreFewer
<1>6. \A k : Height(rows, k) = Cardinality(A(k))
  BY <1>1 DEF Height
<1> HIDE DEF A
<1>7. Height(rows, i) \in 0 .. Cardinality(D) - 1
  BY <1>2, <1>4, <1>6
<1> QED BY <1>1, <1>5, <1>6, <1>7

\* The one with n above it is the one at place n + 1.
LEMMA EveryHeight ==
    ASSUME Collection!CollectionAssumption, NEW rows \in Seq(Filings)
    PROVE  /\ \A i, j \in Collection!OnePerSponsor(rows) : Height(rows, i) = Height(rows, j) => i = j
           /\ \A n \in 1 .. Cardinality(Collection!OnePerSponsor(rows)) :
                 \E i \in Collection!OnePerSponsor(rows) : Height(rows, i) = n - 1
<1>1. PICK D : D = Collection!OnePerSponsor(rows)
  OBVIOUS
<1>2. PICK c \in Nat : IsFiniteSet(D) /\ c = Cardinality(D)
  BY <1>1, TakenAreFew
<1>3. \A i \in D : Height(rows, i) \in 0 .. c - 1
  BY <1>1, <1>2, HeightsOrder
<1>4. ASSUME NEW i \in D, NEW j \in D, Height(rows, i) = Height(rows, j) PROVE i = j
  <2>1. i = j \/ Collection!Above(rows, i, j) \/ Collection!Above(rows, j, i)
    BY <1>1, AboveIsAnOrder
  <2>2. Collection!Above(rows, i, j) => Height(rows, i) < Height(rows, j)
    BY <1>1, HeightsOrder
  <2>3. Collection!Above(rows, j, i) => Height(rows, j) < Height(rows, i)
    BY <1>1, HeightsOrder
  <2>4. Height(rows, i) \in Int /\ Height(rows, j) \in Int
    BY <1>3
  <2> QED BY <1>4, <2>1, <2>2, <2>3, <2>4
<1> DEFINE place == [i \in D |-> Height(rows, i) + 1]
<1>5. place \in [D -> 1 .. c]
  <2>1. \A i \in D : Height(rows, i) + 1 \in 1 .. c
    BY <1>2, <1>3
  <2> QED BY <2>1
<1>6. \A i, j \in D : place[i] = place[j] => i = j
  <2>1. ASSUME NEW i \in D, NEW j \in D, place[i] = place[j] PROVE i = j
    <3>1. Height(rows, i) + 1 = Height(rows, j) + 1
      BY <2>1
    <3>2. Height(rows, i) \in Int /\ Height(rows, j) \in Int
      BY <1>3
    <3> QED BY <1>4, <3>1, <3>2
  <2> QED BY <2>1
<1>7. \A i \in D : place[i] = Height(rows, i) + 1
  OBVIOUS
<1> HIDE DEF place
<1>8. place \in Injection(D, 1 .. c)
  BY <1>5, <1>6 DEF Injection, IsInjective
<1>9. place \in Surjection(D, 1 .. c)
  <2>1. IsFiniteSet(1 .. c) /\ Cardinality(1 .. c) = c
    BY <1>2, FS_Interval
  <2> QED BY <1>2, <1>8, <2>1, FS_Injection
<1>10. ASSUME NEW n \in 1 .. c PROVE \E i \in D : Height(rows, i) = n - 1
  <2>1. PICK i \in D : place[i] = n
    BY <1>9 DEF Surjection
  <2>2. Height(rows, i) \in Int /\ Height(rows, i) + 1 = n
    BY <1>3, <1>7, <2>1
  <2> QED BY <2>2
<1> QED BY <1>1, <1>2, <1>4, <1>10

\* What is put in order: the filings taken, each at the place after those above it.
LEMMA OrderedAre ==
    ASSUME Collection!CollectionAssumption, NEW rows \in Seq(Filings)
    PROVE  LET D == Collection!OnePerSponsor(rows)
               o == Collection!Ordered(rows, D)
           IN  /\ o \in Seq(Filings) /\ Len(o) = Cardinality(D)
               /\ \A n \in 1 .. Cardinality(D) : \E i \in D : o[n] = rows[i] /\ Height(rows, i) = n - 1
<1>1. PICK D : D = Collection!OnePerSponsor(rows)
  OBVIOUS
<1>2. PICK c \in Nat : c = Cardinality(D)
  BY <1>1, TakenAreFew
<1>3. PICK o : o = Collection!Ordered(rows, D)
  OBVIOUS
<1> DEFINE At(n) == CHOOSE i \in D : Cardinality({j \in D : Collection!Above(rows, j, i)}) = n - 1
<1>4. ASSUME NEW n \in 1 .. c PROVE At(n) \in D /\ Height(rows, At(n)) = n - 1
  <2>1. PICK i \in D : Height(rows, i) = n - 1
    BY <1>1, <1>2, EveryHeight
  <2>2. \E k \in D : Cardinality({j \in D : Collection!Above(rows, j, k)}) = n - 1
    BY <1>1, <2>1 DEF Height
  <2>3. At(n) \in D /\ Cardinality({j \in D : Collection!Above(rows, j, At(n))}) = n - 1
    BY <2>2
  <2> QED BY <1>1, <2>3 DEF Height
<1>5. o = [n \in 1 .. c |-> rows[At(n)]]
  <2>1. \A S : Collection!Cardinality(S) = Cardinality(S)
    BY DEF Collection!Cardinality, Cardinality
  <2>3. Collection!Ordered(rows, D) =
          [n \in 1 .. Collection!Cardinality(D) |->
             rows[CHOOSE i \in D : Collection!Cardinality({j \in D : Collection!Above(rows, j, i)}) = n - 1]]
    BY Zenon DEF Collection!Ordered
  <2>4. ASSUME NEW n \in 1 .. c
        PROVE  Collection!Ordered(rows, D)[n] = rows[At(n)]
    <3>1. \A i \in D : Collection!Cardinality({j \in D : Collection!Above(rows, j, i)})
                       = Cardinality({j \in D : Collection!Above(rows, j, i)})
      BY <2>1
    <3>2. (CHOOSE i \in D : Collection!Cardinality({j \in D : Collection!Above(rows, j, i)}) = n - 1)
          = At(n)
      BY <3>1
    <3> QED BY <1>2, <2>1, <2>3, <3>2
  <2> HIDE DEF At
  <2> QED BY <1>2, <1>3, <2>1, <2>3, <2>4
<1> HIDE DEF At
<1>6. ASSUME NEW n \in 1 .. c PROVE rows[At(n)] \in Filings
  <2>1. At(n) \in 1 .. Len(rows)
    BY <1>1, <1>4, TakenAreFew
  <2> QED BY <2>1, ElementOfSeq
<1>7. o \in [1 .. c -> Filings]
  BY <1>5, <1>6
<1>8. o \in Seq(Filings) /\ Len(o) = c
  <2>1. o \in Seq(Filings)
    BY <1>2, <1>7, SeqDef
  <2> QED BY <1>2, <1>7, <2>1, LenProperties
<1>9. \A n \in 1 .. c : \E i \in D : o[n] = rows[i] /\ Height(rows, i) = n - 1
  BY <1>4, <1>5
<1> QED BY <1>1, <1>2, <1>3, <1>8, <1>9

\* What the adapter of a lane makes of a source's rows.
Adapted(lane, rows, state) ==
    CASE lane = "fmcsa" -> Collection!Carriers(rows, state)
      [] lane = "usaspending" -> Collection!Awards(rows, state)
      [] lane = "form5500" -> Collection!Plans(rows, state)

LEMMA ReturnedIs ==
    \A rows, state : Collection!Returned(rows, state) = Adapted(job.lane, rows, state)
  BY DEF Collection!Returned, Collection!Lane, Adapted

LEMMA MineAre ==
    ASSUME NEW rows \in Seq(Filings), NEW state
    PROVE  /\ Collection!Mine(rows, state) \in Seq(Filings)
           /\ \A m \in 1 .. Len(Collection!Mine(rows, state)) : Collection!Mine(rows, state)[m].state = state
<1>1. PICK S : S = {r \in Filings : r.taken /\ r.state = state}
  OBVIOUS
<1>2. PICK t : t = Collection!Those(rows, S)
  OBVIOUS
<1>3. t \in Seq(Filings) /\ \A m \in 1 .. Len(t) : t[m] \in S
  BY <1>2, ThoseBelong
<1>4. Collection!Mine(rows, state) = t
  BY <1>1, <1>2 DEF Collection!Mine
<1> QED BY <1>1, <1>3, <1>4

LEMMA AdmittedAre ==
    ASSUME NEW rows \in Seq(Filings)
    PROVE  /\ Collection!Admitted(rows) \in Seq(Filings)
           /\ Len(Collection!Admitted(rows)) \in 0 .. Len(rows)
           /\ \A m \in 1 .. Len(Collection!Admitted(rows)) :
                 /\ Collection!Admitted(rows)[m].org
                 /\ \E k \in 1 .. Len(rows) : rows[k] = Collection!Admitted(rows)[m]
           /\ \A k \in 1 .. Len(rows) : rows[k].org =>
                 \E m \in 1 .. Len(Collection!Admitted(rows)) : Collection!Admitted(rows)[m] = rows[k]
<1>1. PICK S : S = {r \in Filings : r.org}
  OBVIOUS
<1>2. PICK t : t = Collection!Those(rows, S)
  OBVIOUS
<1>3. /\ t \in Seq(Filings) /\ Len(t) \in 0 .. Len(rows)
      /\ \A m \in 1 .. Len(t) : t[m] \in S /\ \E k \in 1 .. Len(rows) : rows[k] = t[m]
  BY <1>2, ThoseBelong
<1>4. ASSUME NEW k \in 1 .. Len(rows), rows[k].org
      PROVE  \E m \in 1 .. Len(t) : t[m] = rows[k]
  <2>1. rows[k] \in S
    BY <1>1, <1>4, ElementOfSeq
  <2> QED BY <1>2, <2>1, ThoseInOrder
<1>5. Collection!Admitted(rows) = t
  BY <1>1, <1>2 DEF Collection!Admitted
<1> QED BY <1>1, <1>3, <1>4, <1>5

LEMMA AdapterGives ==
    ASSUME Collection!CollectionAssumption, NEW lane \in Registries,
           NEW rows \in Seq(Filings), NEW state
    PROVE  /\ Adapted(lane, rows, state) \in Seq(Filings)
           /\ \A m \in 1 .. Len(Adapted(lane, rows, state)) : Adapted(lane, rows, state)[m].state = state
<1> DEFINE Mine == Collection!Mine(rows, state)
<1>1. Mine \in Seq(Filings) /\ \A m \in 1 .. Len(Mine) : Mine[m].state = state
  BY MineAre
<1> HIDE DEF Mine
<1>2. Page \in Nat
  BY FilingsAre
<1>3. CASE lane = "fmcsa"
  <2>1. PICK a : a = Collection!Admitted(Mine)
    OBVIOUS
  <2>2. a \in Seq(Filings) /\ \A m \in 1 .. Len(a) : \E k \in 1 .. Len(Mine) : Mine[k] = a[m]
    BY <1>1, <2>1, AdmittedAre
  <2>3. PICK f : f = Collection!FirstOf(Page, a)
    OBVIOUS
  <2>4. f \in Seq(Filings) /\ Len(f) \in 0 .. Len(a) /\ \A m \in 1 .. Len(f) : f[m] = a[m]
    BY <1>2, <2>2, <2>3, FirstOnes
  <2>5. \A m \in 1 .. Len(f) : f[m].state = state
    <3>1. ASSUME NEW m \in 1 .. Len(f) PROVE f[m].state = state
      <4>1. Len(f) \in Nat /\ Len(a) \in Nat
        BY <2>2, <2>4, LenProperties
      <4>2. m \in 1 .. Len(a) /\ f[m] = a[m]
        BY <2>4, <4>1
      <4>3. PICK k \in 1 .. Len(Mine) : Mine[k] = a[m]
        BY <2>2, <4>2
      <4> QED BY <1>1, <4>2, <4>3
    <3> QED BY <3>1
  <2>6. Adapted(lane, rows, state) = f
    BY <1>3, <2>1, <2>3 DEF Adapted, Collection!Carriers, Mine
  <2> QED BY <2>4, <2>5, <2>6
<1>4. CASE lane = "usaspending"
  <2>1. PICK f : f = Collection!FirstOf(Page, rows)
    OBVIOUS
  <2>2. f \in Seq(Filings)
    BY <1>2, <2>1, FirstOnes
  <2>3. Adapted(lane, rows, state) = Collection!Mine(f, state)
    BY <1>4, <2>1 DEF Adapted, Collection!Awards
  <2> QED BY <2>2, <2>3, MineAre
<1>5. CASE lane = "form5500"
  <2>1. PICK D : D = Collection!OnePerSponsor(Mine)
    OBVIOUS
  <2>2. PICK c \in Nat : c = Cardinality(D)
    BY <1>1, <2>1, TakenAreFew
  <2>3. PICK o : o = Collection!Ordered(Mine, D)
    OBVIOUS
  <2>4. /\ o \in Seq(Filings) /\ Len(o) = c
        /\ \A n \in 1 .. c : \E i \in D : o[n] = Mine[i] /\ Height(Mine, i) = n - 1
    BY <1>1, <2>1, <2>2, <2>3, OrderedAre
  <2>5. PICK f : f = Collection!FirstOf(Page, o)
    OBVIOUS
  <2>6. f \in Seq(Filings) /\ Len(f) \in 0 .. c /\ \A m \in 1 .. Len(f) : f[m] = o[m]
    BY <1>2, <2>4, <2>5, FirstOnes
  <2>7. ASSUME NEW m \in 1 .. Len(f) PROVE f[m].state = state
    <3>1. m \in 1 .. c
      BY <2>2, <2>6
    <3>2. PICK i \in D : o[m] = Mine[i]
      BY <2>4, <3>1
    <3>3. i \in 1 .. Len(Mine)
      BY <1>1, <2>1, <3>2, TakenAreFew
    <3> QED BY <1>1, <2>6, <3>2, <3>3
  <2>8. Adapted(lane, rows, state) = f
    BY <1>5, <2>1, <2>3, <2>5 DEF Adapted, Collection!Plans, Mine
  <2> QED BY <2>6, <2>7, <2>8
<1> QED BY <1>3, <1>4, <1>5, FilingsAre

\* The page of a state's sponsors: as many as there are or as a page has, and no filing
\* taken for a sponsor that is left out is above one of the page.
PageIsBest(mine, rows) ==
    LET names == {mine[k].name : k \in DOMAIN mine}
    IN  /\ Len(rows) = IF Collection!Cardinality(names) < Page
                       THEN Collection!Cardinality(names) ELSE Page
        /\ \A n \in names :
             \/ \E k \in DOMAIN rows : rows[k].name = n
             \/ \E j \in DOMAIN mine :
                   /\ mine[j].name = n
                   /\ \A m \in DOMAIN mine : mine[m].name = n => mine[m].size <= mine[j].size
                   /\ \A k \in DOMAIN rows : rows[k].rank >= mine[j].rank

LEMMA PlansAreBest ==
    ASSUME Collection!CollectionAssumption, NEW mine \in Seq(Filings)
    PROVE  PageIsBest(mine, Collection!FirstOf(Page, Collection!Ordered(mine, Collection!OnePerSponsor(mine))))
<1>1. PICK D : D = Collection!OnePerSponsor(mine)
  OBVIOUS
<1>2. PICK c \in Nat : c = Cardinality(D) /\ IsFiniteSet(D) /\ D \subseteq 1 .. Len(mine)
  BY <1>1, TakenAreFew
<1>3. PICK o : o = Collection!Ordered(mine, D)
  OBVIOUS
<1>4. /\ o \in Seq(Filings) /\ Len(o) = c
      /\ \A n \in 1 .. c : \E i \in D : o[n] = mine[i] /\ Height(mine, i) = n - 1
  BY <1>1, <1>2, <1>3, OrderedAre
<1>5. Page \in Nat /\ Page > 0
  BY FilingsAre
<1>6. PICK rows : rows = Collection!FirstOf(Page, o)
  OBVIOUS
<1>7. /\ rows \in Seq(Filings) /\ Len(rows) = (IF c < Page THEN c ELSE Page)
      /\ Len(rows) \in 0 .. c /\ \A m \in 1 .. Len(rows) : rows[m] = o[m]
  BY <1>4, <1>5, <1>6, FirstOnes
<1>8. DOMAIN mine = 1 .. Len(mine) /\ DOMAIN rows = 1 .. Len(rows) /\ Len(mine) \in Nat
  BY <1>7, LenProperties
<1>9. PICK names : names = {mine[k].name : k \in DOMAIN mine}
  OBVIOUS
<1>10. Cardinality(names) = c
  <2> DEFINE f == [i \in D |-> mine[i].name]
  <2>1. f \in [D -> names]
    BY <1>2, <1>8, <1>9
  <2>2. ASSUME NEW i \in D, NEW j \in D, f[i] = f[j] PROVE i = j
    <3>1. mine[i].name = mine[j].name /\ i \in 1 .. Len(mine) /\ j \in 1 .. Len(mine)
      BY <1>2, <2>2
    <3> QED BY <1>1, <3>1, OneForASponsor
  <2>3. ASSUME NEW n \in names PROVE \E i \in D : f[i] = n
    <3>1. PICK k \in 1 .. Len(mine) : mine[k].name = n
      BY <1>8, <1>9
    <3>2. PICK i \in D : mine[i].name = mine[k].name
      BY <1>1, OneForASponsor
    <3> QED BY <3>1, <3>2
  <2> HIDE DEF f
  <2>4. f \in Injection(D, names)
    BY <2>1, <2>2 DEF Injection, IsInjective
  <2>5. f \in Surjection(D, names)
    BY <2>1, <2>3 DEF Surjection
  <2> QED BY <1>2, <2>4, <2>5, FS_Surjection
<1>11. ASSUME NEW n \in names, \A k \in 1 .. Len(rows) : rows[k].name # n
       PROVE  \E j \in 1 .. Len(mine) :
                /\ mine[j].name = n
                /\ \A m \in 1 .. Len(mine) : mine[m].name = n => mine[m].size <= mine[j].size
                /\ \A k \in 1 .. Len(rows) : rows[k].rank >= mine[j].rank
  <2>1. PICK i \in 1 .. Len(mine) : mine[i].name = n
    BY <1>8, <1>9
  <2>2. PICK j \in D : /\ mine[j].name = n
                       /\ \A m \in 1 .. Len(mine) : mine[m].name = n => mine[m].size <= mine[j].size
    BY <1>1, <2>1, OneForASponsor
  <2>3. PICK h \in Nat : h = Height(mine, j) /\ h <= c - 1
    BY <1>1, <1>2, HeightsOrder
  <2>4. ~(h + 1 \in 1 .. Len(rows))
    <3>1. SUFFICES ASSUME h + 1 \in 1 .. Len(rows) PROVE FALSE
      OBVIOUS
    <3>2. h + 1 \in 1 .. c /\ (h + 1) - 1 = h
      BY <1>2, <2>3
    <3>3. PICK k \in D : o[h + 1] = mine[k] /\ Height(mine, k) = h
      BY <1>4, <3>2
    <3>4. k = j
      BY <1>1, <2>3, <3>3, EveryHeight
    <3>5. rows[h + 1].name = n
      BY <1>7, <2>2, <3>1, <3>3, <3>4
    <3> QED BY <1>11, <3>1, <3>5
  <2>5. ASSUME NEW k \in 1 .. Len(rows) PROVE rows[k].rank >= mine[j].rank
    <3>1. k \in 1 .. c /\ k - 1 < h
      BY <1>2, <1>7, <2>3, <2>4
    <3>2. PICK i2 \in D : o[k] = mine[i2] /\ Height(mine, i2) = k - 1
      BY <1>4, <3>1
    <3>3. ~Collection!Above(mine, j, i2)
      <4>1. Collection!Above(mine, j, i2) => Height(mine, j) < Height(mine, i2)
        BY <1>1, HeightsOrder
      <4> QED BY <2>3, <3>1, <3>2, <4>1
    <3>4. mine[j].rank <= mine[i2].rank
      BY <1>1, <3>3, AboveIsAnOrder
    <3>5. mine[j] \in Filings /\ mine[i2] \in Filings
      BY <1>2, ElementOfSeq
    <3>6. mine[j].rank \in Nat /\ mine[i2].rank \in Nat
      BY <3>5, FilingsAre DEF IsFiling
    <3> QED BY <1>7, <3>2, <3>4, <3>6
  <2> QED BY <1>2, <2>2, <2>5
<1>12. Collection!Cardinality(names) = c
  BY <1>10 DEF Collection!Cardinality, Cardinality
<1>13. PageIsBest(mine, rows)
  BY <1>7, <1>8, <1>9, <1>11, <1>12 DEF PageIsBest
<1> QED BY <1>1, <1>3, <1>6, <1>13

-----------------------------------------------------------------------------
\* The collection's inductive invariant.
KeptOf(lane, raw, state) == Collection!FirstOf(PerState, Collection!Admitted(Adapted(lane, raw, state)))

InState(state) == {r \in Filings : r.state = state}

Countings == [returned : Nat, excluded : Nat, unselected : Nat, selected : Nat]

Captures == [records : Seq(Filings), counts : Seq(Countings), windows : Seq(Nat),
             created : {Absent} \cup 0 .. MaxDay]

CaptureJobs ==
    [lane : Registries,
     phase : {"ready", "calling", "waiting", "building", "written", "failed"},
     at : 1 .. Len(Asked), attempt : 0 .. Attempts - 1,
     stop : {Absent, "exhausted", "refused", "contract", "verify"}]

\* What was collected for the first n states is what was kept of the answers for them.
Captured(b, as, lane, n) ==
    /\ Len(b.counts) = n /\ Len(b.windows) = n
    /\ \A i \in 1 .. n :
          /\ Collection!Those(b.records, InState(Asked[i])) = KeptOf(lane, as[i], Asked[i])
          /\ Collection!Acceptable(Adapted(lane, as[i], Asked[i]))
          /\ b.counts[i] = Collection!Counts(Adapted(lane, as[i], Asked[i]))
    /\ \A k \in 1 .. Len(b.records) :
          /\ b.records[k].valid /\ b.records[k].org
          /\ \E i \in 1 .. n : b.records[k].state = Asked[i]

RefusalCause(as, lane, time) ==
    \/ \A i \in 1 .. Len(as) : KeptOf(lane, as[i], Asked[i]) = <<>>
    \/ \E i, j \in 1 .. Len(as) :
         \E k \in 1 .. Len(KeptOf(lane, as[i], Asked[i])), l \in 1 .. Len(KeptOf(lane, as[j], Asked[j])) :
            /\ <<i, k>> # <<j, l>>
            /\ KeptOf(lane, as[i], Asked[i])[k].id = KeptOf(lane, as[j], Asked[j])[l].id
    \/ lane = "form5500" /\ time > 1

CaptureHolds ==
    /\ job.phase \in {"ready", "calling", "waiting"} =>
          Len(answers) = job.at - 1 /\ Captured(collected, answers, job.lane, job.at - 1)
    /\ job.phase \in {"building", "written"} =>
          Len(answers) = Len(Asked) /\ Captured(collected, answers, job.lane, Len(Asked))
    /\ job.stop = "verify" =>
          job.phase = "failed" /\ Len(answers) = Len(Asked) /\ RefusalCause(answers, job.lane, date)

CollectionInv ==
    /\ date \in 0 .. MaxDay /\ job \in CaptureJobs /\ collected \in Captures
    /\ answers \in Seq(Seq(Filings)) /\ Len(answers) <= Len(Asked)
    /\ CaptureHolds

Balanced(c, n) == c.selected = n /\ c.returned = c.excluded + c.unselected + c.selected

LEMMA KeptAre ==
    ASSUME Collection!CollectionAssumption, NEW lane \in Registries, NEW raw \in Seq(Filings), NEW state
    PROVE  /\ KeptOf(lane, raw, state) \in Seq(Filings) /\ Len(KeptOf(lane, raw, state)) <= PerState
           /\ \A m \in 1 .. Len(KeptOf(lane, raw, state)) :
                 LET r == KeptOf(lane, raw, state)[m]
                 IN  /\ r \in Filings /\ r.org /\ r.state = state
                     /\ Collection!Acceptable(Adapted(lane, raw, state)) => r.valid
           /\ Collection!Counts(Adapted(lane, raw, state)) \in Countings
           /\ Balanced(Collection!Counts(Adapted(lane, raw, state)), Len(KeptOf(lane, raw, state)))
<1>1. PICK rows : rows = Adapted(lane, raw, state)
  OBVIOUS
<1>2. rows \in Seq(Filings) /\ \A m \in 1 .. Len(rows) : rows[m].state = state
  BY <1>1, AdapterGives
<1>3. PICK a : a = Collection!Admitted(rows)
  OBVIOUS
<1>4. /\ a \in Seq(Filings) /\ Len(a) \in 0 .. Len(rows)
      /\ \A m \in 1 .. Len(a) : a[m].org /\ \E k \in 1 .. Len(rows) : rows[k] = a[m]
  BY <1>2, <1>3, AdmittedAre
<1>5. PerState \in Nat
  BY FilingsAre
<1>6. PICK f : f = Collection!FirstOf(PerState, a)
  OBVIOUS
<1>7. /\ f \in Seq(Filings) /\ Len(f) \in 0 .. Len(a) /\ Len(f) <= PerState
      /\ \A m \in 1 .. Len(f) : f[m] = a[m]
  BY <1>4, <1>5, <1>6, FirstOnes
<1>8. KeptOf(lane, raw, state) = f
  BY <1>1, <1>3, <1>6 DEF KeptOf
<1>9. PICK n, k, m \in Nat : n = Len(rows) /\ k = Len(a) /\ m = Len(f) /\ k <= n /\ m <= k
  BY <1>2, <1>4, <1>7, LenProperties
<1>10. ASSUME NEW i \in 1 .. m
       PROVE  /\ f[i] \in Filings /\ f[i].org /\ f[i].state = state
              /\ Collection!Acceptable(rows) => f[i].valid
  <2>1. i \in 1 .. k /\ f[i] = a[i]
    BY <1>7, <1>9
  <2>2. f[i] \in Filings
    BY <1>7, <1>9, ElementOfSeq
  <2>3. PICK j \in 1 .. n : rows[j] = a[i]
    BY <1>4, <1>9, <2>1
  <2>4. Collection!Acceptable(rows) => a[i].valid
    BY <1>3, <1>4, <1>9, <2>1, LenProperties DEF Collection!Acceptable
  <2> QED BY <1>2, <1>4, <1>9, <2>1, <2>2, <2>3, <2>4
<1>11. Collection!Counts(rows) = [returned |-> n, excluded |-> n - k, unselected |-> k - m, selected |-> m]
  BY <1>3, <1>6, <1>9 DEF Collection!Counts
<1>12. n - k \in Nat /\ k - m \in Nat /\ n = (n - k) + (k - m) + m
  BY <1>9
<1>13. Collection!Counts(rows) \in Countings
  BY <1>9, <1>11, <1>12 DEF Countings
<1>14. Balanced(Collection!Counts(rows), m)
  BY <1>11, <1>12 DEF Balanced
<1> QED BY <1>1, <1>7, <1>8, <1>9, <1>10, <1>13, <1>14

\* One more state.
Extended(b, lane, raw, state, time) ==
    [b EXCEPT !.records = b.records \o KeptOf(lane, raw, state),
              !.counts = Append(b.counts, Collection!Counts(Adapted(lane, raw, state))),
              !.windows = Append(b.windows, time)]

LEMMA OneMoreState ==
    ASSUME Collection!CollectionAssumption, NEW lane \in Registries, NEW b \in Captures,
           NEW as, NEW n \in Nat, n < Len(Asked), Captured(b, as, lane, n),
           NEW raw \in Seq(Filings), NEW time \in 0 .. MaxDay,
           Collection!Acceptable(Adapted(lane, raw, Asked[n + 1])),
           NEW z, z[n + 1] = raw, \A i \in 1 .. n : z[i] = as[i], NEW c,
           c = Extended(b, lane, raw, Asked[n + 1], time)
    PROVE  c \in Captures /\ Captured(c, z, lane, n + 1)
<1>1. PICK N \in Nat : N = Len(Asked) /\ \A i, j \in 1 .. N : Asked[i] = Asked[j] => i = j
  BY FilingsAre
<1>2. n + 1 \in 1 .. N /\ \A i \in 1 .. n + 1 : i = n + 1 \/ i \in 1 .. n
  <2>1. n \in Nat /\ N \in Nat /\ n < N
    BY <1>1
  <2> QED BY ONLY <2>1
<1>3. PICK state, new, count : /\ state = Asked[n + 1] /\ new = KeptOf(lane, raw, state)
                               /\ count = Collection!Counts(Adapted(lane, raw, state))
  OBVIOUS
<1>4. /\ new \in Seq(Filings) /\ count \in Countings
      /\ \A m \in 1 .. Len(new) : /\ new[m] \in Filings /\ new[m].org /\ new[m].state = state
                                  /\ new[m].valid
  <2>1. /\ Collection!CollectionAssumption /\ lane \in Registries /\ raw \in Seq(Filings)
        /\ Collection!Acceptable(Adapted(lane, raw, state))
    BY <1>3
  <2> QED BY ONLY <1>3, <2>1, KeptAre
<1>5. PICK s, q, w : s = b.records /\ q = b.counts /\ w = b.windows
  OBVIOUS
<1>6. s \in Seq(Filings) /\ q \in Seq(Countings) /\ w \in Seq(Nat)
  BY <1>5 DEF Captures
<1>7. Len(q) = n /\ Len(w) = n
  BY <1>5 DEF Captured
<1>8. time \in Nat
  BY FilingsAre
<1>9. PICK u, x, v : u = s \o new /\ x = Append(q, count) /\ v = Append(w, time)
  OBVIOUS
<1>10. /\ u \in Seq(Filings) /\ Len(u) = Len(s) + Len(new)
       /\ \A i \in 1 .. Len(s) + Len(new) : u[i] = IF i <= Len(s) THEN s[i] ELSE new[i - Len(s)]
  BY <1>4, <1>6, <1>9, ConcatProperties
<1>11. /\ x \in Seq(Countings) /\ Len(x) = n + 1 /\ x[n + 1] = count /\ \A i \in 1 .. n : x[i] = q[i]
  BY ONLY n \in Nat, <1>4, <1>6, <1>7, <1>9, AppendProperties
<1>12. v \in Seq(Nat) /\ Len(v) = n + 1
  BY ONLY n \in Nat, <1>6, <1>7, <1>8, <1>9, AppendProperties
<1>14. c = [b EXCEPT !.records = u, !.counts = x, !.windows = v]
  BY <1>3, <1>5, <1>9 DEF Extended
<1>15. c \in Captures /\ c.records = u /\ c.counts = x /\ c.windows = v
  <2>1. c.records = u /\ c.counts = x /\ c.windows = v
    BY <1>5, <1>14 DEF Captures
  <2>2. u \in Seq(Filings) /\ x \in Seq(Countings) /\ v \in Seq(Nat)
    BY <1>10, <1>11, <1>12
  <2>3. c \in Captures
    BY ONLY <1>5, <1>14, <2>2 DEF Captures
  <2> QED BY <2>1, <2>3
<1>16. PICK k, l \in Nat : k = Len(s) /\ l = Len(new)
  BY <1>4, <1>6, LenProperties
<1>17. \A i \in 1 .. k : \E j \in 1 .. n : s[i].state = Asked[j]
  BY <1>5, <1>16 DEF Captured
<1>18. ASSUME NEW i \in 1 .. n
       PROVE  Collection!Those(u, InState(Asked[i])) = Collection!Those(s, InState(Asked[i]))
  <2>1. state # Asked[i]
    <3>1. i \in 1 .. N /\ i # n + 1
      BY ONLY n \in Nat, N \in Nat, i \in 1 .. n, <1>2
    <3> QED BY ONLY <1>1, <1>2, <1>3, <3>1
  <2>2. \A m \in 1 .. Len(new) : new[m] \notin InState(Asked[i])
    BY <1>4, <2>1 DEF InState
  <2> QED BY <1>4, <1>6, <1>9, <2>2, ThoseOfConcat
<1>19. Collection!Those(u, InState(state)) = new
  <2>1. PICK t : t = Collection!Those(s, InState(state))
    OBVIOUS
  <2>2. /\ t \in Seq(Filings) /\ Len(t) \in 0 .. k
        /\ \A m \in 1 .. Len(t) : t[m] \in InState(state) /\ \E i \in 1 .. k : s[i] = t[m]
    BY <1>6, <1>16, <2>1, ThoseBelong
  <2>3. t = <<>>
    <3>1. SUFFICES ASSUME Len(t) > 0 PROVE FALSE
      BY <1>16, <2>2, EmptySeq
    <3>2. 1 \in 1 .. Len(t)
      BY <1>16, <2>2, <3>1
    <3>3. PICK i \in 1 .. k : s[i] = t[1]
      BY <2>2, <3>2
    <3>4. PICK j \in 1 .. n : s[i].state = Asked[j]
      BY <1>17
    <3>5. s[i].state = state
      BY <2>2, <3>2, <3>3 DEF InState
    <3>6. j \in 1 .. N /\ j # n + 1
      BY ONLY n \in Nat, N \in Nat, j \in 1 .. n, <1>2
    <3> QED BY ONLY <1>1, <1>2, <1>3, <3>4, <3>5, <3>6
  <2>4. \A m \in 1 .. Len(new) : new[m] \in InState(state)
    BY <1>4 DEF InState
  <2>5. Collection!Those(u, InState(state)) = t \o new
    <3>1. new \in Seq(Filings) /\ s \in Seq(Filings) /\ u = s \o new
      BY <1>4, <1>6, <1>9
    <3> QED BY ONLY <2>1, <2>4, <3>1, ThoseOfConcat
  <2> QED BY <1>4, <2>3, <2>5, ConcatEmptySeq
<1>20. ASSUME NEW i \in 1 .. n + 1
       PROVE  /\ Collection!Those(u, InState(Asked[i])) = KeptOf(lane, z[i], Asked[i])
              /\ Collection!Acceptable(Adapted(lane, z[i], Asked[i]))
              /\ x[i] = Collection!Counts(Adapted(lane, z[i], Asked[i]))
  <2>1. CASE i = n + 1
    BY <1>3, <1>11, <1>19, <2>1
  <2>2. CASE i \in 1 .. n
    <3>1. /\ Collection!Those(s, InState(Asked[i])) = KeptOf(lane, as[i], Asked[i])
          /\ Collection!Acceptable(Adapted(lane, as[i], Asked[i]))
          /\ q[i] = Collection!Counts(Adapted(lane, as[i], Asked[i]))
      BY <1>5, <2>2 DEF Captured
    <3> QED BY <1>11, <1>18, <2>2, <3>1
  <2> QED BY <1>2, <2>1, <2>2
<1>21. ASSUME NEW i \in 1 .. Len(u)
       PROVE  u[i].valid /\ u[i].org /\ \E j \in 1 .. n + 1 : u[i].state = Asked[j]
  <2>1. i \in 1 .. k + l
    BY <1>10, <1>16
  <2>2. CASE i <= k
    <3>1. i \in 1 .. k /\ u[i] = s[i]
      BY <1>10, <1>16, <2>1, <2>2
    <3>2. s[i].valid /\ s[i].org
      BY <1>5, <1>16, <3>1 DEF Captured
    <3>3. PICK j \in 1 .. n : s[i].state = Asked[j]
      BY <1>17, <3>1
    <3>4. j \in 1 .. n + 1
      BY ONLY n \in Nat, j \in 1 .. n
    <3> QED BY ONLY <3>1, <3>2, <3>3, <3>4
  <2>3. CASE ~(i <= k)
    <3>1. i - k \in 1 .. l /\ u[i] = new[i - k]
      BY <1>10, <1>16, <2>1, <2>3
    <3>2. n + 1 \in 1 .. n + 1
      BY ONLY n \in Nat
    <3>3. new[i - k].valid /\ new[i - k].org /\ new[i - k].state = Asked[n + 1]
      BY ONLY <1>3, <1>4, <1>16, <3>1
    <3> QED BY ONLY <3>1, <3>2, <3>3
  <2> QED BY <2>2, <2>3
<1>22. Captured(c, z, lane, n + 1)
  BY <1>11, <1>12, <1>15, <1>20, <1>21 DEF Captured
<1> QED BY <1>9, <1>15, <1>22

\* A capture that is complete verifies, or there is a cause that is not the collector's.
LEMMA RefusedForACause ==
    ASSUME Collection!CollectionAssumption, NEW b \in Captures, NEW as,
           as \in Seq(Seq(Filings)), Len(as) = Len(Asked), job.lane \in Registries,
           Captured(b, as, job.lane, Len(Asked)), b.created \in 0 .. MaxDay,
           ~Collection!BundleVerifies(b)
    PROVE  RefusalCause(as, job.lane, b.created)
<1>1. PICK N \in Nat : /\ N = Len(Asked) /\ N > 0 /\ DOMAIN Asked = 1 .. N
                       /\ \A i, j \in 1 .. N : Asked[i] = Asked[j] => i = j
  BY FilingsAre
<1>2. PICK lane : lane = job.lane /\ lane \in Registries
  OBVIOUS
<1>3. PICK s, q, w, d : s = b.records /\ q = b.counts /\ w = b.windows /\ d = b.created
  OBVIOUS
<1>4. /\ s \in Seq(Filings) /\ q \in Seq(Countings) /\ w \in Seq(Nat) /\ d \in Nat
      /\ Len(q) = N /\ Len(w) = N
  <2>1. /\ s \in Seq(Filings) /\ q \in Seq(Countings) /\ w \in Seq(Nat)
    BY <1>3 DEF Captures
  <2>2. d \in Nat
    BY <1>3, FilingsAre
  <2> QED BY <1>1, <1>3, <2>1, <2>2 DEF Captured
<1>5. DOMAIN q = 1 .. N /\ DOMAIN w = 1 .. N /\ DOMAIN s = 1 .. Len(s) /\ Len(s) \in Nat
  BY <1>4, LenProperties
<1>6. \A i \in 1 .. N : as[i] \in Seq(Filings)
  BY <1>1, ElementOfSeq
<1>7. \A i \in 1 .. N : /\ Collection!Those(s, InState(Asked[i])) = KeptOf(lane, as[i], Asked[i])
                        /\ q[i] = Collection!Counts(Adapted(lane, as[i], Asked[i]))
  BY <1>1, <1>2, <1>3 DEF Captured
<1>8. \A k \in 1 .. Len(s) : /\ s[k].valid /\ s[k].org
                             /\ \E i \in 1 .. N : s[k].state = Asked[i]
  BY <1>1, <1>3 DEF Captured
<1>9. Collection!CoverageHolds(b)
  <2>1. ASSUME NEW i \in 1 .. N
        PROVE  /\ q[i].selected = Len(Collection!Selected(b, i)) /\ q[i].selected <= PerState
               /\ q[i].returned = q[i].excluded + q[i].unselected + q[i].selected
    <3>1. Collection!Selected(b, i) = KeptOf(lane, as[i], Asked[i])
      BY <1>3, <1>7 DEF Collection!Selected, InState
    <3>2. PICK raw, state : raw = as[i] /\ state = Asked[i] /\ raw \in Seq(Filings)
      BY <1>6
    <3>3. /\ Len(KeptOf(lane, raw, state)) <= PerState
          /\ Balanced(Collection!Counts(Adapted(lane, raw, state)), Len(KeptOf(lane, raw, state)))
      BY ONLY Collection!CollectionAssumption, <1>2, <3>2, KeptAre
    <3> QED BY <1>7, <3>1, <3>2, <3>3 DEF Balanced
  <2> QED BY <1>1, <1>3, <1>4, <1>5, <1>8, <2>1 DEF Collection!CoverageHolds
<1>10. CASE Len(s) = 0
  <2>1. ASSUME NEW i \in 1 .. N PROVE KeptOf(lane, as[i], Asked[i]) = <<>>
    <3>1. PICK t : t = Collection!Those(s, InState(Asked[i]))
      OBVIOUS
    <3>2. t \in Seq(Filings) /\ Len(t) \in 0 .. Len(s)
      BY <1>4, <3>1, ThoseBelong
    <3>3. t = <<>>
      BY <1>10, <3>2, EmptySeq
    <3> QED BY <1>7, <3>1, <3>3
  <2> QED BY <1>1, <1>2, <2>1 DEF RefusalCause
<1>11. CASE \E i, j \in 1 .. Len(s) : s[i].id = s[j].id /\ i # j
  <2>1. PICK i, j \in 1 .. Len(s) : s[i].id = s[j].id /\ i < j
    BY <1>5, <1>11
  <2>2. PICK m, p \in 1 .. N : s[i].state = Asked[m] /\ s[j].state = Asked[p]
    BY <1>8
  <2>3. PICK t, v : t = KeptOf(lane, as[m], Asked[m]) /\ v = KeptOf(lane, as[p], Asked[p])
    OBVIOUS
  <2>4. PICK S, T : S = InState(Asked[m]) /\ T = InState(Asked[p])
    OBVIOUS
  <2>5. /\ s \in Seq(Filings) /\ i \in 1 .. Len(s) /\ j \in 1 .. Len(s) /\ i < j
        /\ s[i] \in S /\ s[j] \in T
        /\ t = Collection!Those(s, S) /\ v = Collection!Those(s, T)
    <3>1. s[i] \in S /\ s[j] \in T
      BY <1>4, <2>2, <2>4, ElementOfSeq DEF InState
    <3>2. t = Collection!Those(s, S) /\ v = Collection!Those(s, T)
      BY <1>7, <2>3, <2>4
    <3> QED BY <1>4, <2>1, <3>1, <3>2
  <2>6. \E k \in 1 .. Len(t), l \in 1 .. Len(v) : <<m, k>> # <<p, l>> /\ t[k].id = v[l].id
    <3>1. CASE m = p
      <4>1. S = T /\ t = v
        BY <2>3, <2>4, <3>1
      <4>2. PICK k, l \in 1 .. Len(t) : k # l /\ t[k] = s[i] /\ t[l] = s[j]
        <5>1. \E k, l \in 1 .. Len(Collection!Those(s, S)) :
                 k # l /\ Collection!Those(s, S)[k] = s[i] /\ Collection!Those(s, S)[l] = s[j]
          <6>1. s[j] \in S
            BY <2>5, <4>1
          <6> QED BY ONLY <2>5, <6>1, TwoOfThose
        <5> QED BY <2>5, <4>1, <5>1
      <4> QED BY <2>1, <4>1, <4>2
    <3>2. CASE m # p
      <4>1. PICK k \in 1 .. Len(t) : t[k] = s[i]
        BY ONLY <2>5, ThoseInOrder
      <4>2. PICK l \in 1 .. Len(v) : v[l] = s[j]
        BY ONLY <2>5, ThoseInOrder
      <4> QED BY <2>1, <3>2, <4>1, <4>2
    <3> QED BY <3>1, <3>2
  <2>7. \E k \in 1 .. Len(KeptOf(lane, as[m], Asked[m])), l \in 1 .. Len(KeptOf(lane, as[p], Asked[p])) :
            /\ <<m, k>> # <<p, l>>
            /\ KeptOf(lane, as[m], Asked[m])[k].id = KeptOf(lane, as[p], Asked[p])[l].id
    BY <2>3, <2>6
  <2>8. m \in 1 .. Len(as) /\ p \in 1 .. Len(as)
    BY <1>1
  <2>9. RefusalCause(as, lane, d)
    BY <2>7, <2>8 DEF RefusalCause
  <2> QED BY <1>2, <1>3, <2>9
<1>12. CASE ~Collection!TimingHolds(b)
  <2>1. lane = "form5500" /\ \E i \in 1 .. N : ~(d - w[i] <= 1)
    BY <1>2, <1>3, <1>5, <1>12 DEF Collection!TimingHolds, Collection!Lane
  <2>2. PICK i \in 1 .. N : ~(d - w[i] <= 1)
    BY <2>1
  <2>3. w[i] \in Nat
    BY <1>4, ElementOfSeq
  <2>4. d > 1
    BY <1>4, <2>2, <2>3
  <2> QED BY <1>2, <1>3, <2>1, <2>4 DEF RefusalCause
<1>13. Len(s) = 0 \/ (\E i, j \in 1 .. Len(s) : s[i].id = s[j].id /\ i # j) \/ ~Collection!TimingHolds(b)
  <2>1. SUFFICES ASSUME Len(s) > 0, \A i, j \in 1 .. Len(s) : s[i].id = s[j].id => i = j,
                        Collection!TimingHolds(b)
                 PROVE  FALSE
    BY <1>5
  <2>2. Collection!BundleVerifies(b)
    BY <1>3, <1>5, <1>8, <1>9, <2>1 DEF Collection!BundleVerifies
  <2> QED BY <2>2
<1> QED BY <1>10, <1>11, <1>12, <1>13

-----------------------------------------------------------------------------
LEMMA CollectionInitHolds ==
    ASSUME Collection!CollectionAssumption, Collection!Init
    PROVE  CollectionInv
<1>1. /\ date = 0 /\ answers = <<>> /\ collected = Collection!EmptyBundle
      /\ job \in [lane : Registries, phase : {"ready"}, at : {1}, attempt : {0}, stop : {Absent}]
  BY DEF Collection!Init
<1>2. date \in 0 .. MaxDay
  BY <1>1, FilingsAre
<1>3. job \in CaptureJobs /\ job.phase = "ready" /\ job.at = 1 /\ job.stop = Absent
  BY <1>1, FilingsAre DEF CaptureJobs
<1>4. answers \in Seq(Seq(Filings)) /\ Len(answers) = 0 /\ Len(answers) <= Len(Asked)
  BY <1>1, EmptySeq, FilingsAre
<1>5. PICK b : b = collected
  OBVIOUS
<1>6. /\ <<>> \in Seq(Filings) /\ <<>> \in Seq(Countings) /\ <<>> \in Seq(Nat) /\ Len(<<>>) = 0
  BY EmptySeq
<1>7. b \in Captures /\ Len(b.records) = 0 /\ Len(b.counts) = 0 /\ Len(b.windows) = 0
  BY <1>1, <1>5, <1>6 DEF Captures, Collection!EmptyBundle
<1>8. Captured(b, answers, job.lane, 0)
  BY <1>7 DEF Captured
<1>9. Absent # "verify"
  BY DEF Collection!CollectionAssumption
<1>10. CaptureHolds
  BY <1>3, <1>4, <1>5, <1>8, <1>9 DEF CaptureHolds
<1> QED BY <1>2, <1>3, <1>4, <1>5, <1>7, <1>10 DEF CollectionInv

\* A step of the job that gets no answer.
LEMMA CallsAndPauses ==
    ASSUME Collection!CollectionAssumption, CollectionInv,
           Collection!Began \/ Collection!CallFails \/ Collection!Retry
    PROVE  CollectionInv'
<1>1. PICK j, b, as : j = job /\ b = collected /\ as = answers
  OBVIOUS
<1>2. UNCHANGED <<date, answers, collected>>
  BY DEF Collection!Began, Collection!CallFails, Collection!Retry
<1>3. j \in CaptureJobs /\ j.phase \in {"ready", "calling", "waiting"} /\ j.stop # "verify"
  <2>1. j \in CaptureJobs
    BY <1>1 DEF CollectionInv
  <2>2. j.phase \in {"ready", "calling", "waiting"}
    BY <1>1 DEF Collection!Began, Collection!CallFails, Collection!Retry
  <2> QED BY <1>1, <2>1, <2>2 DEF CollectionInv, CaptureHolds
<1>4. Len(as) = j.at - 1 /\ Captured(b, as, j.lane, j.at - 1)
  BY <1>1, <1>3 DEF CollectionInv, CaptureHolds
<1>5. PICK k : k = job'
  OBVIOUS
<1>6. /\ k \in CaptureJobs /\ k.lane = j.lane /\ k.at = j.at /\ k.stop # "verify"
      /\ k.phase \in {"calling", "waiting", "failed"}
  <2>1. CASE Collection!Began \/ Collection!Retry
    <3>1. k = [j EXCEPT !.phase = "calling"]
      BY <1>1, <1>5, <2>1 DEF Collection!Began, Collection!Retry
    <3> QED BY <1>3, <3>1 DEF CaptureJobs
  <2>2. CASE Collection!CallFails
    <3>1. \/ /\ k = [j EXCEPT !.phase = "waiting", !.attempt = @ + 1] /\ j.attempt < Attempts - 1
          \/ \E why \in {"exhausted", "refused"} : k = [j EXCEPT !.phase = "failed", !.stop = why]
      BY <1>1, <1>5, <2>2 DEF Collection!CallFails, Collection!NextAttempt, Collection!MayRetry
    <3>2. CASE \E why \in {"exhausted", "refused"} : k = [j EXCEPT !.phase = "failed", !.stop = why]
      BY <1>3, <3>2 DEF CaptureJobs
    <3>3. CASE k = [j EXCEPT !.phase = "waiting", !.attempt = @ + 1] /\ j.attempt < Attempts - 1
      <4>1. PICK a : a = j.attempt + 1
        OBVIOUS
      <4>2. a \in 0 .. Attempts - 1
        BY <1>3, <3>3, <4>1, FilingsAre DEF CaptureJobs
      <4>3. k = [j EXCEPT !.phase = "waiting", !.attempt = a]
        BY <3>3, <4>1
      <4> QED BY <1>3, <4>2, <4>3 DEF CaptureJobs
    <3> QED BY <3>1, <3>2, <3>3
  <2> QED BY <2>1, <2>2
<1>7. CaptureHolds'
  BY <1>1, <1>2, <1>4, <1>5, <1>6 DEF CaptureHolds
<1> QED BY <1>2, <1>5, <1>6, <1>7 DEF CollectionInv

LEMMA AnswerIsChecked ==
    ASSUME Collection!CollectionAssumption, CollectionInv, Collection!CallReturns
    PROVE  CollectionInv'
<1>1. PICK j, b, as, time : j = job /\ b = collected /\ as = answers /\ time = date
  OBVIOUS
<1>2. /\ j \in CaptureJobs /\ j.phase = "calling" /\ j.stop # "verify" /\ b \in Captures
      /\ time \in 0 .. MaxDay /\ as \in Seq(Seq(Filings))
  BY <1>1 DEF CollectionInv, CaptureHolds, Collection!CallReturns
<1>3. Len(as) = j.at - 1 /\ Captured(b, as, j.lane, j.at - 1)
  BY <1>1, <1>2 DEF CollectionInv, CaptureHolds
<1>4. PICK at, lane, state : at = j.at /\ lane = j.lane /\ state = Asked[at]
  OBVIOUS
<1>5. PICK N \in Nat : N = Len(Asked)
  BY FilingsAre
<1>6. at \in 1 .. N /\ lane \in Registries
  BY <1>2, <1>4, <1>5 DEF CaptureJobs
<1>7. PICK n \in Nat : n = at - 1 /\ n + 1 = at /\ n < N
  BY <1>6
<1>8. PICK raw \in UNION {[1 .. m -> Filings] : m \in 0 .. MaxRows} :
        /\ answers' = Append(as, raw)
        /\ IF Collection!Acceptable(Adapted(lane, raw, state))
           THEN /\ collected' = Collection!Gathered(Adapted(lane, raw, state))
                /\ job' = IF at = N THEN [j EXCEPT !.phase = "building"]
                          ELSE [j EXCEPT !.at = @ + 1, !.attempt = 0]
           ELSE job' = [j EXCEPT !.phase = "failed", !.stop = "contract"] /\ collected' = collected
  BY <1>1, <1>4, <1>5, ReturnedIs DEF Collection!CallReturns, Collection!State
<1>9. date' = date
  BY DEF Collection!CallReturns
<1>10. raw \in Seq(Filings)
  <2>1. PICK m \in 0 .. MaxRows : raw \in [1 .. m -> Filings]
    OBVIOUS
  <2>2. m \in Nat
    BY FilingsAre
  <2> QED BY <2>1, <2>2, SeqDef
<1>11. PICK z : z = Append(as, raw)
  OBVIOUS
<1>12. /\ z \in Seq(Seq(Filings)) /\ Len(z) = at
       /\ z[n + 1] = raw /\ \A i \in 1 .. n : z[i] = as[i]
  <2>1. Len(as) = n
    BY <1>3, <1>4, <1>7
  <2>2. PICK T : T = Seq(Filings)
    OBVIOUS
  <2>3. as \in Seq(T) /\ raw \in T
    BY <1>2, <1>10, <2>2
  <2>4. z \in Seq(T) /\ Len(z) = Len(as) + 1 /\ z[Len(as) + 1] = raw
    BY ONLY <1>11, <2>3, AppendProperties
  <2>5. \A i \in 1 .. Len(as) : z[i] = as[i]
    BY ONLY <1>11, <2>3, AppendProperties
  <2> QED BY ONLY <1>7, <2>1, <2>2, <2>4, <2>5
<1>13. answers' = z
  BY <1>8, <1>11
<1>14. PICK k : k = job'
  OBVIOUS
<1>15. CASE ~Collection!Acceptable(Adapted(lane, raw, state))
  <2>1. k = [j EXCEPT !.phase = "failed", !.stop = "contract"] /\ collected' = b
    BY <1>1, <1>8, <1>14, <1>15
  <2>2. k \in CaptureJobs /\ k.phase = "failed" /\ k.stop = "contract"
    BY <1>2, <2>1 DEF CaptureJobs
  <2>3. CaptureHolds'
    BY <1>14, <2>2 DEF CaptureHolds
  <2>4. Len(z) <= Len(Asked)
    BY <1>5, <1>6, <1>12
  <2> QED BY <1>1, <1>2, <1>9, <1>12, <1>13, <1>14, <2>1, <2>2, <2>3, <2>4 DEF CollectionInv
<1>16. CASE Collection!Acceptable(Adapted(lane, raw, state))
  <2>1. PICK c : c = Extended(b, lane, raw, Asked[n + 1], time)
    OBVIOUS
  <2>2. collected' = c
    BY <1>1, <1>4, <1>7, <1>8, <1>16, <2>1 DEF Collection!Gathered, Extended, KeptOf
  <2>3. c \in Captures /\ Captured(c, z, lane, at)
    <3>1. /\ n = Len(as) /\ n < Len(Asked) /\ Captured(b, as, lane, n)
          /\ Collection!Acceptable(Adapted(lane, raw, Asked[n + 1]))
      BY <1>3, <1>4, <1>5, <1>7, <1>16
    <3>2. c \in Captures /\ Captured(c, z, lane, n + 1)
      BY ONLY Collection!CollectionAssumption, n \in Nat, <1>2, <1>6, <1>10, <1>12, <2>1, <3>1,
         OneMoreState
    <3> QED BY <1>7, <1>11, <3>2
  <2>4. /\ k \in CaptureJobs /\ k.lane = lane /\ k.stop # "verify"
        /\ \/ k.phase = "building" /\ at = N
           \/ k.phase = "calling" /\ k.at = at + 1
    <3>1. CASE at = N
      <4>1. k = [j EXCEPT !.phase = "building"]
        BY <1>8, <1>14, <1>16, <3>1
      <4> QED BY <1>2, <1>4, <3>1, <4>1 DEF CaptureJobs
    <3>2. CASE at # N
      <4>1. PICK a : a = at + 1
        OBVIOUS
      <4>2. a \in 1 .. N /\ 0 \in 0 .. Attempts - 1
        BY <1>6, <3>2, <4>1, FilingsAre
      <4>3. k = [j EXCEPT !.at = a, !.attempt = 0]
        BY <1>4, <1>8, <1>14, <1>16, <3>2, <4>1
      <4> QED BY <1>2, <1>4, <1>5, <4>1, <4>2, <4>3 DEF CaptureJobs
    <3> QED BY <3>1, <3>2
  <2>5. PICK up : up = at + 1 /\ up - 1 = at
    BY <1>6
  <2>6. CaptureHolds'
    <3>1. CASE k.phase = "building" /\ at = N
      BY <1>5, <1>12, <1>13, <1>14, <2>2, <2>3, <2>4, <3>1 DEF CaptureHolds
    <3>2. CASE k.phase = "calling" /\ k.at = at + 1
      BY <1>12, <1>13, <1>14, <2>2, <2>3, <2>4, <2>5, <3>2 DEF CaptureHolds
    <3> QED BY <2>4, <3>1, <3>2
  <2>7. Len(z) <= Len(Asked)
    BY <1>5, <1>6, <1>12
  <2> QED BY <1>1, <1>2, <1>9, <1>12, <1>13, <1>14, <2>2, <2>3, <2>4, <2>6, <2>7 DEF CollectionInv
<1> QED BY <1>15, <1>16

LEMMA CaptureIsBuilt ==
    ASSUME Collection!CollectionAssumption, CollectionInv, Collection!Build
    PROVE  CollectionInv'
<1>1. PICK j, b, as, time : j = job /\ b = collected /\ as = answers /\ time = date
  OBVIOUS
<1>2. /\ j \in CaptureJobs /\ j.phase = "building" /\ j.stop # "verify" /\ b \in Captures
      /\ time \in 0 .. MaxDay /\ as \in Seq(Seq(Filings))
  BY <1>1 DEF CollectionInv, CaptureHolds, Collection!Build
<1>3. Len(as) = Len(Asked) /\ Captured(b, as, j.lane, Len(Asked))
  BY <1>1, <1>2 DEF CollectionInv, CaptureHolds
<1>4. PICK c, k : c = [b EXCEPT !.created = time] /\ k = job'
  OBVIOUS
<1>5. /\ c \in Captures /\ c.created = time
      /\ c.records = b.records /\ c.counts = b.counts /\ c.windows = b.windows
  BY <1>2, <1>4 DEF Captures
<1>6. Captured(c, as, j.lane, Len(Asked))
  BY <1>3, <1>5 DEF Captured
<1>7. UNCHANGED <<date, answers>> /\ Len(as) <= Len(Asked)
  BY <1>1 DEF Collection!Build, CollectionInv
<1>8. CASE Collection!BundleVerifies(c)
  <2>1. collected' = c /\ k = [j EXCEPT !.phase = "written"]
    BY <1>1, <1>4, <1>8 DEF Collection!Build
  <2>2. k \in CaptureJobs /\ k.phase = "written" /\ k.lane = j.lane /\ k.stop # "verify"
    BY <1>2, <2>1 DEF CaptureJobs
  <2>3. CaptureHolds'
    BY <1>1, <1>3, <1>4, <1>6, <1>7, <2>1, <2>2 DEF CaptureHolds
  <2> QED BY <1>1, <1>2, <1>4, <1>5, <1>7, <2>1, <2>2, <2>3 DEF CollectionInv
<1>9. CASE ~Collection!BundleVerifies(c)
  <2>1. /\ collected' = Collection!EmptyBundle
        /\ k = [j EXCEPT !.phase = "failed", !.stop = "verify"]
    BY <1>1, <1>4, <1>9 DEF Collection!Build
  <2>2. k \in CaptureJobs /\ k.phase = "failed" /\ k.lane = j.lane
    BY <1>2, <2>1 DEF CaptureJobs
  <2>3. RefusalCause(as, j.lane, time)
    <3>1. job.lane \in Registries
      BY <1>1, <1>2 DEF CaptureJobs
    <3> QED BY <1>1, <1>2, <1>3, <1>5, <1>6, <1>9, <3>1, RefusedForACause
  <2>4. Collection!EmptyBundle \in Captures
    <3>1. <<>> \in Seq(Filings) /\ <<>> \in Seq(Countings) /\ <<>> \in Seq(Nat)
      BY EmptySeq
    <3> QED BY <3>1 DEF Captures, Collection!EmptyBundle
  <2>5. CaptureHolds'
    BY <1>1, <1>3, <1>4, <1>7, <2>2, <2>3 DEF CaptureHolds
  <2> QED BY <1>1, <1>2, <1>4, <1>7, <2>1, <2>2, <2>4, <2>5 DEF CollectionInv
<1> QED BY <1>8, <1>9

LEMMA CaptureDayPasses ==
    ASSUME Collection!CollectionAssumption, CollectionInv, Collection!NextDay
    PROVE  CollectionInv'
<1>1. PICK d : d = date + 1
  OBVIOUS
<1>2. date' = d /\ UNCHANGED <<job, answers, collected>>
  BY <1>1 DEF Collection!NextDay
<1>3. date \in Nat /\ d \in 0 .. MaxDay /\ (date > 1 => d > 1)
  BY <1>1, FilingsAre DEF Collection!NextDay, CollectionInv
<1>4. CaptureHolds'
  BY <1>2, <1>3 DEF CollectionInv, CaptureHolds, RefusalCause
<1> QED BY <1>2, <1>3, <1>4 DEF CollectionInv

LEMMA CollectionNextHolds ==
    ASSUME Collection!CollectionAssumption, CollectionInv, [Collection!Next]_(Collection!vars)
    PROVE  CollectionInv'
<1>1. CASE Collection!Began \/ Collection!CallFails \/ Collection!Retry
  BY <1>1, CallsAndPauses
<1>2. CASE Collection!CallReturns
  BY <1>2, AnswerIsChecked
<1>3. CASE Collection!Build
  BY <1>3, CaptureIsBuilt
<1>4. CASE Collection!NextDay
  BY <1>4, CaptureDayPasses
<1>5. CASE UNCHANGED Collection!vars
  BY <1>5 DEF Collection!vars, CollectionInv, CaptureHolds
<1> QED BY <1>1, <1>2, <1>3, <1>4, <1>5 DEF Collection!Next, Collection!JobStep

LEMMA CollectionInvIsEnough ==
    ASSUME Collection!CollectionAssumption, CollectionInv
    PROVE  BundlesAreWhole
<1>1. PICK N \in Nat : N = Len(Asked) /\ DOMAIN Asked = 1 .. N
  BY FilingsAre
<1>2. PICK lane : lane = job.lane /\ lane \in Registries
  BY DEF CollectionInv, CaptureJobs
<1>3. PICK as : as = answers
  OBVIOUS
<1>4. as \in Seq(Seq(Filings)) /\ Len(as) <= N
  BY <1>1, <1>3 DEF CollectionInv
<1>5. PICK n \in Nat : n = Len(as) /\ DOMAIN as = 1 .. n /\ n <= N
  BY <1>4, LenProperties
<1>6. \A i \in 1 .. n : as[i] \in Seq(Filings)
  BY <1>4, <1>5, ElementOfSeq
<1>7. Collection!CollectionTypeOK
  BY <1>1, <1>3, <1>4 DEF CollectionInv, CaptureJobs, Captures, Collection!CollectionTypeOK
<1>8. Collection!WrittenBundlesAreComplete
  <2>1. SUFFICES ASSUME job.phase = "written" PROVE Collection!WrittenBundlesAreComplete
    BY DEF Collection!WrittenBundlesAreComplete
  <2>2. n = N /\ Captured(collected, as, lane, N)
    BY <1>1, <1>2, <1>3, <1>5, <2>1 DEF CollectionInv, CaptureHolds
  <2>3. PICK s : s = collected.records /\ s \in Seq(Filings)
    BY DEF CollectionInv, Captures
  <2>4. ASSUME NEW i \in 1 .. N
        PROVE  /\ Collection!Selected(collected, i)
                    = Collection!FirstOf(PerState, Collection!Admitted(Collection!Returned(as[i], Asked[i])))
               /\ \A k \in DOMAIN Collection!Returned(as[i], Asked[i]) :
                     Collection!Returned(as[i], Asked[i])[k].org => Collection!Returned(as[i], Asked[i])[k].valid
               /\ collected.counts[i].returned = Len(Collection!Returned(as[i], Asked[i]))
    <3>1. PICK raw, state, rows : raw = as[i] /\ state = Asked[i] /\ rows = Adapted(lane, raw, state)
      OBVIOUS
    <3>2. Collection!Returned(as[i], Asked[i]) = rows
      BY <1>2, <3>1, ReturnedIs
    <3>3. rows \in Seq(Filings)
      BY <1>2, <1>6, <2>2, <3>1, AdapterGives
    <3>4. /\ Collection!Those(s, InState(state)) = KeptOf(lane, raw, state)
          /\ Collection!Acceptable(rows) /\ collected.counts[i] = Collection!Counts(rows)
      BY <2>2, <2>3, <3>1 DEF Captured
    <3>5. Collection!Selected(collected, i) = Collection!FirstOf(PerState, Collection!Admitted(rows))
      BY <2>3, <3>1, <3>4 DEF Collection!Selected, InState, KeptOf
    <3>6. ASSUME NEW k \in 1 .. Len(rows), rows[k].org
          PROVE  rows[k].valid
      <4>1. PICK m \in 1 .. Len(Collection!Admitted(rows)) : Collection!Admitted(rows)[m] = rows[k]
        BY <3>3, <3>6, AdmittedAre
      <4>2. DOMAIN Collection!Admitted(rows) = 1 .. Len(Collection!Admitted(rows))
        <5>1. Collection!Admitted(rows) \in Seq(Filings)
          BY <3>3, AdmittedAre
        <5> QED BY <5>1, LenProperties
      <4> QED BY <3>4, <4>1, <4>2 DEF Collection!Acceptable
    <3>7. DOMAIN rows = 1 .. Len(rows)
      BY <3>3, LenProperties
    <3>8. collected.counts[i].returned = Len(rows)
      BY <3>4 DEF Collection!Counts
    <3> QED BY <3>2, <3>5, <3>6, <3>7, <3>8
  <2>5. \A k \in DOMAIN s : \E i \in 1 .. N : s[k].state = Asked[i]
    BY <2>2, <2>3, LenProperties DEF Captured
  <2> QED BY <1>1, <1>3, <1>5, <2>2, <2>3, <2>4, <2>5 DEF Collection!WrittenBundlesAreComplete
<1>9. Collection!CompleteCapturesAreRefusedForACause
  <2>1. SUFFICES ASSUME job.stop = "verify" PROVE Collection!CompleteCapturesAreRefusedForACause
    BY DEF Collection!CompleteCapturesAreRefusedForACause
  <2>2. RefusalCause(as, lane, date)
    BY <1>2, <1>3, <2>1 DEF CollectionInv, CaptureHolds
  <2>3. PICK kept : kept = [i \in DOMAIN as |-> Collection!FirstOf(PerState,
                              Collection!Admitted(Collection!Returned(as[i], Asked[i])))]
    OBVIOUS
  <2>4. DOMAIN kept = 1 .. n /\ \A i \in 1 .. n : kept[i] = KeptOf(lane, as[i], Asked[i])
    BY <1>2, <1>5, <2>3, ReturnedIs DEF KeptOf
  <2>5. \A i \in 1 .. n : DOMAIN kept[i] = 1 .. Len(kept[i])
    <3>1. ASSUME NEW i \in 1 .. n PROVE DOMAIN kept[i] = 1 .. Len(kept[i])
      <4>1. PICK raw, state, t : raw = as[i] /\ state = Asked[i] /\ t = KeptOf(lane, raw, state)
        OBVIOUS
      <4>2. t \in Seq(Filings)
        BY <1>2, <1>6, <4>1, KeptAre
      <4>3. DOMAIN t = 1 .. Len(t)
        BY <4>2, LenProperties
      <4> QED BY <2>4, <4>1, <4>3
    <3> QED BY <3>1
  <2>6. \/ \A i \in DOMAIN kept : kept[i] = <<>>
        \/ \E i, j \in DOMAIN kept : \E k \in DOMAIN kept[i], l \in DOMAIN kept[j] :
              <<i, k>> # <<j, l>> /\ kept[i][k].id = kept[j][l].id
        \/ lane = "form5500" /\ date > 1
    <3>1. CASE \A i \in 1 .. n : KeptOf(lane, as[i], Asked[i]) = <<>>
      BY <2>4, <3>1
    <3>2. ASSUME NEW i \in 1 .. n, NEW j \in 1 .. n,
                 NEW k \in 1 .. Len(KeptOf(lane, as[i], Asked[i])),
                 NEW l \in 1 .. Len(KeptOf(lane, as[j], Asked[j])),
                 <<i, k>> # <<j, l>>,
                 KeptOf(lane, as[i], Asked[i])[k].id = KeptOf(lane, as[j], Asked[j])[l].id
          PROVE  \E i2, j2 \in DOMAIN kept : \E k2 \in DOMAIN kept[i2], l2 \in DOMAIN kept[j2] :
                    <<i2, k2>> # <<j2, l2>> /\ kept[i2][k2].id = kept[j2][l2].id
      <4>1. /\ i \in DOMAIN kept /\ j \in DOMAIN kept /\ k \in DOMAIN kept[i] /\ l \in DOMAIN kept[j]
            /\ <<i, k>> # <<j, l>> /\ kept[i][k].id = kept[j][l].id
        BY <2>4, <2>5, <3>2
      <4> QED BY <4>1, Zenon
    <3>3. \/ \A i \in 1 .. n : KeptOf(lane, as[i], Asked[i]) = <<>>
          \/ \E i, j \in 1 .. n :
                \E k \in 1 .. Len(KeptOf(lane, as[i], Asked[i])), l \in 1 .. Len(KeptOf(lane, as[j], Asked[j])) :
                   /\ <<i, k>> # <<j, l>>
                   /\ KeptOf(lane, as[i], Asked[i])[k].id = KeptOf(lane, as[j], Asked[j])[l].id
          \/ lane = "form5500" /\ date > 1
      BY <1>5, <2>2 DEF RefusalCause
    <3>4. CASE \E i, j \in 1 .. n :
                 \E k \in 1 .. Len(KeptOf(lane, as[i], Asked[i])), l \in 1 .. Len(KeptOf(lane, as[j], Asked[j])) :
                    /\ <<i, k>> # <<j, l>>
                    /\ KeptOf(lane, as[i], Asked[i])[k].id = KeptOf(lane, as[j], Asked[j])[l].id
      <4>1. PICK i, j \in 1 .. n :
               \E k \in 1 .. Len(KeptOf(lane, as[i], Asked[i])), l \in 1 .. Len(KeptOf(lane, as[j], Asked[j])) :
                  /\ <<i, k>> # <<j, l>>
                  /\ KeptOf(lane, as[i], Asked[i])[k].id = KeptOf(lane, as[j], Asked[j])[l].id
        BY <3>4
      <4>2. PICK k \in 1 .. Len(KeptOf(lane, as[i], Asked[i])), l \in 1 .. Len(KeptOf(lane, as[j], Asked[j])) :
               /\ <<i, k>> # <<j, l>>
               /\ KeptOf(lane, as[i], Asked[i])[k].id = KeptOf(lane, as[j], Asked[j])[l].id
        BY <4>1
      <4>3. \E i2, j2 \in DOMAIN kept : \E k2 \in DOMAIN kept[i2], l2 \in DOMAIN kept[j2] :
               <<i2, k2>> # <<j2, l2>> /\ kept[i2][k2].id = kept[j2][l2].id
        BY <3>2, <4>2
      <4> QED BY <4>3, Zenon
    <3> QED BY <3>1, <3>3, <3>4, Zenon
  <2> QED BY <1>2, <1>3, <2>3, <2>6
          DEF Collection!CompleteCapturesAreRefusedForACause, Collection!Lane
<1>10. Collection!BestPlansArePublished
  <2>1. SUFFICES ASSUME job.phase = "written" /\ lane = "form5500"
                 PROVE  Collection!BestPlansArePublished
    BY <1>2 DEF Collection!BestPlansArePublished, Collection!Lane
  <2>2. n = N
    BY <1>1, <1>3, <1>5, <2>1 DEF CollectionInv, CaptureHolds
  <2>4. ASSUME NEW i \in 1 .. N
        PROVE  PageIsBest(Collection!Mine(as[i], Asked[i]), Collection!Returned(as[i], Asked[i]))
    <3>1. PICK raw, state, mine : raw = as[i] /\ state = Asked[i] /\ mine = Collection!Mine(raw, state)
      OBVIOUS
    <3>2. mine \in Seq(Filings)
      BY <1>6, <2>2, <3>1, MineAre
    <3>3. PageIsBest(mine, Collection!FirstOf(Page, Collection!Ordered(mine, Collection!OnePerSponsor(mine))))
      BY <3>2, PlansAreBest
    <3>4. Collection!Returned(raw, state)
            = Collection!FirstOf(Page, Collection!Ordered(mine, Collection!OnePerSponsor(mine)))
      BY <1>2, <2>1, <3>1, ReturnedIs DEF Adapted, Collection!Plans
    <3> QED BY <3>1, <3>3, <3>4
  <2>5. \A i \in 1 .. N : PageIsBest(Collection!Mine(answers[i], Asked[i]),
                                    Collection!Returned(answers[i], Asked[i]))
    BY <1>3, <2>4
  <2> QED BY <1>1, <2>5, Zenon DEF Collection!BestPlansArePublished, PageIsBest
<1> QED BY <1>7, <1>8, <1>9, <1>10 DEF BundlesAreWhole

\* A bundle that is written holds, for every requested state, the first organizations of
\* what the source last answered for it, and the best sponsors are on the page of their
\* state; a capture that is complete is refused only because it is empty, names one
\* organization twice, or took more than one midnight, for every registry, every number
\* of states and rows, and whatever failed and was retried (collect_bundle,
\* benefit_frontier.collect, verify_bundle).
THEOREM BundlesStayWhole ==
    ASSUME Collection!CollectionAssumption
    PROVE  Collection!Spec => []BundlesAreWhole
<1>1. Collection!Init => CollectionInv
  BY CollectionInitHolds
<1>2. CollectionInv /\ [Collection!Next]_(Collection!vars) => CollectionInv'
  BY CollectionNextHolds
<1>3. CollectionInv => BundlesAreWhole
  BY CollectionInvIsEnough
<1> QED BY <1>1, <1>2, <1>3, PTL DEF Collection!Spec

-----------------------------------------------------------------------------
\* The union-find: who climbs from parent to parent in a forest of N comes to a root
\* within N steps.
ClimbBy(g, N, p, i) == g = [n \in 0 .. N |-> IF n = 0 THEN i ELSE p[g[n - 1]]]

RootOf(N, p, i) ==
    LET up[n \in 0 .. N] == IF n = 0 THEN i ELSE p[up[n - 1]] IN up[N]

Climb(g, N, p, i) ==
    /\ g[0] = i /\ RootOf(N, p, i) = g[N]
    /\ \A n \in 0 .. N : n < N => g[n + 1] = p[g[n]]

LEMMA ClimbExists ==
    ASSUME NEW N \in Nat, NEW p, NEW i
    PROVE  \E g : ClimbBy(g, N, p, i)
<1> DEFINE P == {n \in 0 .. N : \E g : ClimbBy(g, n, p, i)}
<1>1. 0 \in P
  <2>1. ClimbBy([m \in 0 .. 0 |-> i], 0, p, i)
    BY DEF ClimbBy
  <2> QED BY <2>1
<1>2. ASSUME NEW n \in 0 .. N, n < N, n \in P PROVE n + 1 \in P
  <2>1. PICK g : ClimbBy(g, n, p, i)
    BY <1>2
  <2>2. PICK k : k = p[g[n]]
    OBVIOUS
  <2> DEFINE h == [m \in 0 .. n + 1 |-> IF m = n + 1 THEN k ELSE g[m]]
  <2>3. ASSUME NEW m \in 0 .. n + 1
        PROVE  h[m] = IF m = 0 THEN i ELSE p[h[m - 1]]
    <3>1. CASE m = n + 1
      <4>1. h[m - 1] = g[n] /\ h[m] = k /\ m # 0
        BY <3>1
      <4> QED BY <2>2, <3>1, <4>1
    <3>2. CASE m # n + 1
      <4>1. m \in 0 .. n /\ h[m] = g[m] /\ (m # 0 => m - 1 \in 0 .. n /\ h[m - 1] = g[m - 1])
        BY <3>2
      <4> QED BY <2>1, <4>1 DEF ClimbBy
    <3> QED BY <3>1, <3>2
  <2>4. ClimbBy(h, n + 1, p, i)
    BY <2>3 DEF ClimbBy
  <2> QED BY <1>2, <2>4
<1> HIDE DEF P
<1>3. 0 .. N \subseteq P
  BY <1>1, <1>2, EachStep
<1> QED BY <1>3 DEF P

LEMMA ClimbStepByStep ==
    ASSUME NEW N \in Nat, NEW p, NEW i
    PROVE  \E g : Climb(g, N, p, i)
<1> DEFINE f == CHOOSE g : g = [n \in 0 .. N |-> IF n = 0 THEN i ELSE p[g[n - 1]]]
<1>1. \E g : g = [n \in 0 .. N |-> IF n = 0 THEN i ELSE p[g[n - 1]]]
  <2>1. PICK g : ClimbBy(g, N, p, i)
    BY ClimbExists
  <2> QED BY <2>1 DEF ClimbBy
<1>2. f = [n \in 0 .. N |-> IF n = 0 THEN i ELSE p[f[n - 1]]]
  BY <1>1
<1>3. RootOf(N, p, i) = f[N]
  BY DEF RootOf
<1> HIDE DEF f
<1>4. f[0] = i
  BY <1>2
<1>5. ASSUME NEW n \in 0 .. N, n < N PROVE f[n + 1] = p[f[n]]
  <2>1. n + 1 \in 0 .. N /\ n + 1 # 0 /\ (n + 1) - 1 = n
    BY <1>5
  <2> QED BY <1>2, <2>1
<1>6. Climb(f, N, p, i)
  BY <1>3, <1>4, <1>5 DEF Climb
<1> QED BY <1>6

\* Every part of a forest that is closed under its parents has a root.
Forest(N, p) ==
    /\ p \in [1 .. N -> 1 .. N]
    /\ \A S \in SUBSET (1 .. N) :
          S # {} /\ (\A x \in S : p[x] \in S) => \E x \in S : p[x] = x

LEMMA ClimbStays ==
    ASSUME NEW N \in Nat, NEW p \in [1 .. N -> 1 .. N], NEW i \in 1 .. N,
           NEW g, Climb(g, N, p, i)
    PROVE  \A n \in 0 .. N : g[n] \in 1 .. N
<1> DEFINE P == {n \in 0 .. N : g[n] \in 1 .. N}
<1>1. 0 \in P
  BY DEF Climb
<1>2. ASSUME NEW n \in 0 .. N, n < N, n \in P PROVE n + 1 \in P
  <2>1. g[n + 1] = p[g[n]] /\ n + 1 \in 0 .. N
    BY <1>2 DEF Climb
  <2> QED BY <1>2, <2>1
<1> HIDE DEF P
<1>3. 0 .. N \subseteq P
  BY <1>1, <1>2, EachStep
<1> QED BY <1>3 DEF P

\* Among N + 1 places two are one.
LEMMA ClimbReturns ==
    ASSUME NEW N \in Nat, NEW g, \A n \in 0 .. N : g[n] \in 1 .. N
    PROVE  \E a, b \in 0 .. N : a < b /\ g[a] = g[b]
<1> DEFINE h == [n \in 0 .. N |-> g[n]]
<1>1. h \in [0 .. N -> 1 .. N]
  OBVIOUS
<1>2. /\ IsFiniteSet(0 .. N) /\ Cardinality(0 .. N) = N + 1
      /\ IsFiniteSet(1 .. N) /\ Cardinality(1 .. N) = N
  <2>1. N \in Int /\ 0 \in Int /\ 1 \in Int /\ ~(0 > N) /\ (1 > N => N = 0)
    OBVIOUS
  <2>2. IsFiniteSet(0 .. N) /\ Cardinality(0 .. N) = N - 0 + 1
    BY <2>1, FS_Interval
  <2>3. IsFiniteSet(1 .. N) /\ Cardinality(1 .. N) = IF 1 > N THEN 0 ELSE N - 1 + 1
    BY <2>1, FS_Interval
  <2> QED BY <2>1, <2>2, <2>3
<1> HIDE DEF h
<1>3. Cardinality(1 .. N) < Cardinality(0 .. N)
  BY <1>2
<1>4. PICK a, b \in 0 .. N : a # b /\ h[a] = h[b]
  BY <1>1, <1>2, <1>3, FS_PigeonHole
<1>5. g[a] = g[b] /\ (a < b \/ b < a)
  BY <1>4 DEF h
<1> QED BY <1>5

LEMMA RootIs ==
    ASSUME NEW N \in Nat, NEW p, Forest(N, p), NEW i \in 1 .. N
    PROVE  RootOf(N, p, i) \in 1 .. N /\ p[RootOf(N, p, i)] = RootOf(N, p, i)
<1>0. p \in [1 .. N -> 1 .. N]
  BY DEF Forest
<1>1. PICK g : Climb(g, N, p, i)
  BY ClimbStepByStep
<1>2. \A n \in 0 .. N : g[n] \in 1 .. N
  BY <1>0, <1>1, ClimbStays
<1>3. PICK a, b \in 0 .. N : a < b /\ g[a] = g[b]
  BY <1>2, ClimbReturns
<1>4. PICK S : S = {g[n] : n \in {m \in 0 .. N : a <= m /\ m < b}}
  OBVIOUS
<1>5. S \in SUBSET (1 .. N) /\ S # {}
  BY <1>2, <1>3, <1>4
<1>6. ASSUME NEW x \in S PROVE p[x] \in S
  <2>1. PICK n \in 0 .. N : a <= n /\ n < b /\ x = g[n]
    BY <1>4
  <2>2. p[x] = g[n + 1] /\ n + 1 \in 0 .. N
    BY <1>1, <2>1 DEF Climb
  <2>3. CASE n + 1 = b
    BY <1>3, <1>4, <2>2, <2>3
  <2>4. CASE n + 1 # b
    <3>1. a <= n + 1 /\ n + 1 < b
      BY <2>1, <2>4
    <3> QED BY <1>4, <2>2, <3>1
  <2> QED BY <2>3, <2>4
<1>7. PICK r \in S : p[r] = r
  BY <1>5, <1>6 DEF Forest
<1>8. PICK c \in 0 .. N : g[c] = r
  BY <1>4
<1> DEFINE P == {n \in 0 .. N : c <= n => g[n] = r}
<1>9. 0 \in P
  BY <1>8
<1>10. ASSUME NEW n \in 0 .. N, n < N, n \in P PROVE n + 1 \in P
  <2>1. g[n + 1] = p[g[n]] /\ n + 1 \in 0 .. N
    BY <1>1, <1>10 DEF Climb
  <2>2. CASE c <= n
    BY <1>7, <1>10, <2>1, <2>2
  <2>3. CASE ~(c <= n)
    BY <1>8, <2>1, <2>3
  <2> QED BY <2>2, <2>3
<1> HIDE DEF P
<1>11. 0 .. N \subseteq P
  BY <1>9, <1>10, EachStep
<1>12. g[N] = r
  <2>1. N \in P
    BY <1>11
  <2> QED BY <1>8, <2>1 DEF P
<1>13. RootOf(N, p, i) = r
  BY <1>1, <1>12 DEF Climb
<1> QED BY <1>5, <1>7, <1>13

LEMMA RootOfParent ==
    ASSUME NEW N \in Nat, NEW p, Forest(N, p), NEW i \in 1 .. N
    PROVE  RootOf(N, p, p[i]) = RootOf(N, p, i)
<1>1. PICK g : Climb(g, N, p, i)
  BY ClimbStepByStep
<1>2. PICK h : Climb(h, N, p, p[i])
  BY ClimbStepByStep
<1> DEFINE P == {n \in 0 .. N : h[n] = p[g[n]]}
<1>3. 0 \in P
  BY <1>1, <1>2 DEF Climb
<1>4. ASSUME NEW n \in 0 .. N, n < N, n \in P PROVE n + 1 \in P
  <2>1. g[n + 1] = p[g[n]] /\ h[n + 1] = p[h[n]] /\ n + 1 \in 0 .. N
    BY <1>1, <1>2, <1>4 DEF Climb
  <2> QED BY <1>4, <2>1
<1> HIDE DEF P
<1>5. 0 .. N \subseteq P
  BY <1>3, <1>4, EachStep
<1>6. h[N] = p[g[N]]
  <2>1. N \in P
    BY <1>5
  <2> QED BY <2>1 DEF P
<1> QED BY <1>1, <1>2, <1>6, RootIs DEF Climb

\* What is alike along the parents, and tells a root by itself, is the root.
LEMMA RootByLabel ==
    ASSUME NEW N \in Nat, NEW p, Forest(N, p), NEW f,
           \A x \in 1 .. N : f[p[x]] = f[x], \A x \in 1 .. N : p[x] = x => f[x] = x,
           NEW i \in 1 .. N
    PROVE  RootOf(N, p, i) = f[i]
<1>0. p \in [1 .. N -> 1 .. N]
  BY DEF Forest
<1>1. PICK g : Climb(g, N, p, i)
  BY ClimbStepByStep
<1>2. \A n \in 0 .. N : g[n] \in 1 .. N
  BY <1>0, <1>1, ClimbStays
<1> DEFINE P == {n \in 0 .. N : f[g[n]] = f[i]}
<1>3. 0 \in P
  BY <1>1 DEF Climb
<1>4. ASSUME NEW n \in 0 .. N, n < N, n \in P PROVE n + 1 \in P
  <2>1. g[n + 1] = p[g[n]] /\ n + 1 \in 0 .. N /\ g[n] \in 1 .. N
    BY <1>1, <1>2, <1>4 DEF Climb
  <2> QED BY <1>4, <2>1
<1> HIDE DEF P
<1>5. 0 .. N \subseteq P
  BY <1>3, <1>4, EachStep
<1>6. f[g[N]] = f[i]
  <2>1. N \in P
    BY <1>5
  <2> QED BY <2>1 DEF P
<1>7. RootOf(N, p, i) = g[N]
  BY <1>1 DEF Climb
<1>8. g[N] \in 1 .. N /\ p[g[N]] = g[N]
  BY <1>7, RootIs
<1> QED BY <1>6, <1>7, <1>8

LEMMA RootOfRoot ==
    ASSUME NEW N \in Nat, NEW p, NEW r, p[r] = r
    PROVE  RootOf(N, p, r) = r
<1>1. PICK g : Climb(g, N, p, r)
  BY ClimbStepByStep
<1> DEFINE P == {n \in 0 .. N : g[n] = r}
<1>2. 0 \in P
  BY <1>1 DEF Climb
<1>3. ASSUME NEW n \in 0 .. N, n < N, n \in P PROVE n + 1 \in P
  BY <1>1, <1>3 DEF Climb
<1> HIDE DEF P
<1>4. 0 .. N \subseteq P
  BY <1>2, <1>3, EachStep
<1>5. N \in P
  BY <1>4
<1> QED BY <1>1, <1>5 DEF P, Climb

\* A union keeps the forest, and puts what was under one root under the other.
LinkTwo(N, p, i, j) == [p EXCEPT ![RootOf(N, p, j)] = RootOf(N, p, i)]

LEMMA LinkedTwo ==
    ASSUME NEW N \in Nat, NEW p, Forest(N, p), NEW i \in 1 .. N, NEW j \in 1 .. N,
           NEW q, q = LinkTwo(N, p, i, j)
    PROVE  /\ Forest(N, q)
           /\ \A x \in 1 .. N :
                 RootOf(N, q, x) = IF RootOf(N, p, x) = RootOf(N, p, j) THEN RootOf(N, p, i)
                                   ELSE RootOf(N, p, x)
<1>0. p \in [1 .. N -> 1 .. N]
  BY DEF Forest
<1>1. PICK a, b : a = RootOf(N, p, i) /\ b = RootOf(N, p, j)
  OBVIOUS
<1>2. a \in 1 .. N /\ b \in 1 .. N /\ p[a] = a /\ p[b] = b
  BY <1>1, RootIs
<1>3. q = [p EXCEPT ![b] = a]
  BY <1>1 DEF LinkTwo
<1>4. /\ q \in [1 .. N -> 1 .. N] /\ q[b] = a
      /\ \A x \in 1 .. N : x # b => q[x] = p[x]
  BY <1>0, <1>2, <1>3
<1>5. CASE a = b
  <2>1. q = p
    BY <1>0, <1>2, <1>3, <1>5
  <2> QED BY <1>1, <1>5, <2>1
<1>6. CASE a # b
  <2>1. ASSUME NEW S \in SUBSET (1 .. N), S # {}, \A x \in S : q[x] \in S
        PROVE  \E x \in S : q[x] = x
    <3>1. CASE b \in S
      BY <1>2, <1>4, <1>6, <2>1, <3>1
    <3>2. CASE b \notin S
      <4>1. \A x \in S : p[x] \in S /\ q[x] = p[x]
        BY <1>4, <2>1, <3>2
      <4>2. PICK x \in S : p[x] = x
        BY <2>1, <4>1 DEF Forest
      <4> QED BY <4>1, <4>2
    <3> QED BY <3>1, <3>2
  <2>2. Forest(N, q)
    BY <1>4, <2>1 DEF Forest
  <2>3. PICK f : f = [x \in 1 .. N |-> IF RootOf(N, p, x) = b THEN a ELSE RootOf(N, p, x)]
    OBVIOUS
  <2>4. ASSUME NEW x \in 1 .. N PROVE f[q[x]] = f[x]
    <3>1. CASE x = b
      <4>1. RootOf(N, p, a) = a /\ RootOf(N, p, b) = b
        BY <1>2, RootOfRoot
      <4> QED BY <1>2, <1>4, <1>6, <2>3, <3>1, <4>1
    <3>2. CASE x # b
      <4>1. q[x] = p[x] /\ p[x] \in 1 .. N
        BY <1>0, <1>4, <3>2
      <4>2. RootOf(N, p, p[x]) = RootOf(N, p, x)
        BY RootOfParent
      <4> QED BY <2>3, <4>1, <4>2
    <3> QED BY <3>1, <3>2
  <2>5. ASSUME NEW x \in 1 .. N, q[x] = x PROVE f[x] = x
    <3>1. x # b /\ p[x] = x
      BY <1>4, <1>6, <2>5
    <3>2. RootOf(N, p, x) = x
      BY <3>1, RootOfRoot
    <3> QED BY <2>3, <3>1, <3>2
  <2>6. ASSUME NEW x \in 1 .. N PROVE RootOf(N, q, x) = f[x]
    BY <2>2, <2>4, <2>5, RootByLabel
  <2> QED BY <1>1, <2>2, <2>3, <2>6
<1> QED BY <1>5, <1>6

\* The members of a key are put under the first of them, one by one.
LinkAll(N, p, M) ==
    LET upTo[n \in 0 .. N] ==
            IF n = 0 THEN p
            ELSE IF n \in M \ {Pull!First(M)} THEN LinkTwo(N, upTo[n - 1], Pull!First(M), n)
            ELSE upTo[n - 1]
    IN  upTo[N]

Links(h, N, p, M) ==
    /\ h[0] = p /\ LinkAll(N, p, M) = h[N]
    /\ \A n \in 0 .. N : n < N =>
          h[n + 1] = IF n + 1 \in M \ {Pull!First(M)} THEN LinkTwo(N, h[n], Pull!First(M), n + 1)
                     ELSE h[n]

LinksBy(h, L, N, p, M) ==
    h = [n \in 0 .. L |->
            IF n = 0 THEN p
            ELSE IF n \in M \ {Pull!First(M)} THEN LinkTwo(N, h[n - 1], Pull!First(M), n)
            ELSE h[n - 1]]

LEMMA LinksExist ==
    ASSUME NEW N \in Nat, NEW p, NEW M
    PROVE  \E h : LinksBy(h, N, N, p, M)
<1> DEFINE P == {n \in 0 .. N : \E h : LinksBy(h, n, N, p, M)}
<1>1. 0 \in P
  <2>1. LinksBy([m \in 0 .. 0 |-> p], 0, N, p, M)
    BY DEF LinksBy
  <2> QED BY <2>1
<1>2. ASSUME NEW n \in 0 .. N, n < N, n \in P PROVE n + 1 \in P
  <2>1. PICK g : LinksBy(g, n, N, p, M)
    BY <1>2
  <2>2. PICK k : k = IF n + 1 \in M \ {Pull!First(M)} THEN LinkTwo(N, g[n], Pull!First(M), n + 1)
                     ELSE g[n]
    OBVIOUS
  <2> DEFINE h == [m \in 0 .. n + 1 |-> IF m = n + 1 THEN k ELSE g[m]]
  <2>3. ASSUME NEW m \in 0 .. n + 1
        PROVE  h[m] = IF m = 0 THEN p
                      ELSE IF m \in M \ {Pull!First(M)} THEN LinkTwo(N, h[m - 1], Pull!First(M), m)
                      ELSE h[m - 1]
    <3>1. CASE m = n + 1
      <4>1. h[m - 1] = g[n] /\ h[m] = k /\ m # 0
        BY <3>1
      <4> HIDE DEF h
      <4> QED BY <2>2, <3>1, <4>1
    <3>2. CASE m # n + 1
      <4>1. m \in 0 .. n /\ h[m] = g[m] /\ (m # 0 => m - 1 \in 0 .. n /\ h[m - 1] = g[m - 1])
        BY <3>2
      <4> HIDE DEF h
      <4> QED BY <2>1, <4>1 DEF LinksBy
    <3> QED BY <3>1, <3>2
  <2>4. LinksBy(h, n + 1, N, p, M)
    BY <2>3 DEF LinksBy
  <2> QED BY <1>2, <2>4
<1> HIDE DEF P
<1>3. 0 .. N \subseteq P
  BY <1>1, <1>2, EachStep
<1> QED BY <1>3 DEF P

LEMMA LinkOneByOne ==
    ASSUME NEW N \in Nat, NEW p, NEW M
    PROVE  \E h : Links(h, N, p, M)
<1> DEFINE f == CHOOSE h : h = [n \in 0 .. N |->
                    IF n = 0 THEN p
                    ELSE IF n \in M \ {Pull!First(M)} THEN LinkTwo(N, h[n - 1], Pull!First(M), n)
                    ELSE h[n - 1]]
<1>1. \E h : h = [n \in 0 .. N |->
                    IF n = 0 THEN p
                    ELSE IF n \in M \ {Pull!First(M)} THEN LinkTwo(N, h[n - 1], Pull!First(M), n)
                    ELSE h[n - 1]]
  <2>1. PICK h : LinksBy(h, N, N, p, M)
    BY LinksExist
  <2> QED BY <2>1 DEF LinksBy
<1>2. f = [n \in 0 .. N |->
              IF n = 0 THEN p
              ELSE IF n \in M \ {Pull!First(M)} THEN LinkTwo(N, f[n - 1], Pull!First(M), n)
              ELSE f[n - 1]]
  BY <1>1
<1>3. LinkAll(N, p, M) = f[N]
  BY DEF LinkAll
<1> HIDE DEF f
<1>4. f[0] = p
  BY <1>2
<1>5. ASSUME NEW n \in 0 .. N, n < N
      PROVE  f[n + 1] = IF n + 1 \in M \ {Pull!First(M)} THEN LinkTwo(N, f[n], Pull!First(M), n + 1)
                        ELSE f[n]
  <2>1. n + 1 \in 0 .. N /\ n + 1 # 0 /\ (n + 1) - 1 = n
    BY <1>5
  <2> QED BY <1>2, <2>1
<1>6. Links(f, N, p, M)
  BY <1>3, <1>4, <1>5 DEF Links
<1> QED BY <1>6

LEMMA FirstIs ==
    ASSUME NEW N \in Nat, NEW M \in SUBSET (1 .. N), M # {}
    PROVE  Pull!First(M) \in M /\ \A m \in M : Pull!First(M) <= m
<1>1. PICK f \in M : \A m \in M : f <= m
  <2>1. M \in SUBSET Nat
    OBVIOUS
  <2> QED BY <2>1, LeastNumber
<1> QED BY <1>1 DEF Pull!First

\* Saturated: with one of the records under a root, S has all of them.
Saturated(N, p, S) ==
    \A x, y \in 1 .. N : RootOf(N, p, x) = RootOf(N, p, y) /\ x \in S => y \in S

Met(h, N, M, n) == RootOf(N, h[n - 1], Pull!First(M)) = RootOf(N, h[n - 1], n)

\* After n positions.
Stage(h, N, p, M, n) ==
    /\ Forest(N, h[n])
    /\ \A x, y \in 1 .. N : RootOf(N, p, x) = RootOf(N, p, y) => RootOf(N, h[n], x) = RootOf(N, h[n], y)
    /\ \A m \in M : m <= n => RootOf(N, h[n], m) = RootOf(N, h[n], Pull!First(M))
    /\ \A S \in SUBSET (1 .. N) :
          /\ Saturated(N, p, S)
          /\ \A m \in M \ {Pull!First(M)} : m <= n /\ ~Met(h, N, M, m) => (m \in S <=> Pull!First(M) \in S)
          => Saturated(N, h[n], S)

LEMMA LinkAgain ==
    ASSUME NEW N \in Nat, NEW p, Forest(N, p), NEW M \in SUBSET (1 .. N), M # {},
           NEW h, Links(h, N, p, M), NEW n \in 0 .. N, n < N, Stage(h, N, p, M, n)
    PROVE  Stage(h, N, p, M, n + 1)
<1>1. PICK f : f = Pull!First(M)
  OBVIOUS
<1>2. f \in 1 .. N /\ f \in M
  BY <1>1, FirstIs
<1>3. PICK a, b : a = h[n] /\ b = h[n + 1]
  OBVIOUS
<1>4. CASE ~(n + 1 \in M \ {f})
  <2>1. a = b
    BY <1>1, <1>3, <1>4 DEF Links
  <2>2. \A m \in M : m <= n + 1 => m <= n \/ m = f
    BY <1>4
  <2>3. \A m \in M \ {f} : m <= n => m <= n + 1
    OBVIOUS
  <2>4. \A m \in M : m <= n + 1 => RootOf(N, b, m) = RootOf(N, b, f)
    BY <1>1, <1>3, <2>1, <2>2 DEF Stage
  <2>5. ASSUME NEW S \in SUBSET (1 .. N), Saturated(N, p, S),
               \A m \in M \ {f} : m <= n + 1 /\ ~Met(h, N, M, m) => (m \in S <=> f \in S)
        PROVE  Saturated(N, b, S)
    BY <1>1, <1>3, <2>1, <2>3, <2>5 DEF Stage
  <2> QED BY <1>1, <1>3, <2>1, <2>4, <2>5 DEF Stage
<1>5. CASE n + 1 \in M \ {f}
  <2>1. b = LinkTwo(N, a, f, n + 1) /\ n + 1 \in 1 .. N
    BY <1>1, <1>3, <1>5 DEF Links
  <2>2. PICK k : k = n + 1
    OBVIOUS
  <2>3. Forest(N, a)
    BY <1>3 DEF Stage
  <2>4. /\ Forest(N, b)
        /\ \A x \in 1 .. N : RootOf(N, b, x) = IF RootOf(N, a, x) = RootOf(N, a, k) THEN RootOf(N, a, f)
                                               ELSE RootOf(N, a, x)
    BY <1>2, <2>1, <2>2, <2>3, LinkedTwo
  <2>5. \A x, y \in 1 .. N : RootOf(N, p, x) = RootOf(N, p, y) => RootOf(N, b, x) = RootOf(N, b, y)
    BY <1>3, <2>4 DEF Stage
  <2>6. ASSUME NEW m \in M, m <= n + 1 PROVE RootOf(N, b, m) = RootOf(N, b, f)
    <3>1. m <= n \/ m = k
      BY <2>2, <2>6
    <3>2. m <= n => RootOf(N, a, m) = RootOf(N, a, f)
      BY <1>1, <1>3 DEF Stage
    <3>3. m \in 1 .. N
      OBVIOUS
    <3> QED BY <1>2, <2>4, <3>1, <3>2, <3>3
  <2>7. ASSUME NEW S \in SUBSET (1 .. N), Saturated(N, p, S),
               \A m \in M \ {f} : m <= n + 1 /\ ~Met(h, N, M, m) => (m \in S <=> f \in S)
        PROVE  Saturated(N, b, S)
    <3>1. \A m \in M \ {f} : m <= n => m <= n + 1
      OBVIOUS
    <3>2. Saturated(N, a, S)
      BY <1>1, <1>3, <2>7, <3>1 DEF Stage
    <3>3. RootOf(N, a, f) # RootOf(N, a, k) => (k \in S <=> f \in S)
      <4>1. k \in M \ {f} /\ k <= n + 1 /\ k - 1 = n
        BY <1>5, <2>2
      <4>2. RootOf(N, a, f) # RootOf(N, a, k) => ~Met(h, N, M, k)
        BY <1>1, <1>3, <4>1 DEF Met
      <4> QED BY <2>7, <4>1, <4>2
    <3>4. ASSUME NEW x \in 1 .. N, NEW y \in 1 .. N, RootOf(N, b, x) = RootOf(N, b, y), x \in S
          PROVE  y \in S
      <4>1. k \in 1 .. N
        BY <2>1, <2>2
      <4>2. CASE RootOf(N, a, x) = RootOf(N, a, y)
        BY <3>2, <3>4, <4>2 DEF Saturated
      <4>3. CASE RootOf(N, a, x) # RootOf(N, a, y) /\ RootOf(N, a, x) = RootOf(N, a, k)
        <5>1. RootOf(N, a, y) = RootOf(N, a, f)
          BY <2>4, <3>4, <4>3
        <5>2. k \in S
          BY <3>2, <3>4, <4>1, <4>3 DEF Saturated
        <5>3. f \in S
          BY <3>3, <4>3, <5>1, <5>2
        <5> QED BY <1>2, <3>2, <5>1, <5>3 DEF Saturated
      <4>4. CASE RootOf(N, a, x) # RootOf(N, a, y) /\ RootOf(N, a, x) # RootOf(N, a, k)
        <5>1. RootOf(N, a, y) = RootOf(N, a, k) /\ RootOf(N, a, x) = RootOf(N, a, f)
          BY <2>4, <3>4, <4>4
        <5>2. f \in S
          BY <1>2, <3>2, <3>4, <5>1 DEF Saturated
        <5>3. k \in S
          BY <3>3, <4>4, <5>1, <5>2
        <5> QED BY <3>2, <4>1, <5>1, <5>3 DEF Saturated
      <4> QED BY <4>2, <4>3, <4>4
    <3> QED BY <3>4 DEF Saturated
  <2> QED BY <1>1, <1>3, <2>4, <2>5, <2>6, <2>7 DEF Stage
<1> QED BY <1>4, <1>5

LEMMA LinkedOneByOne ==
    ASSUME NEW N \in Nat, NEW p, Forest(N, p), NEW M \in SUBSET (1 .. N), M # {},
           NEW h, Links(h, N, p, M)
    PROVE  \A n \in 0 .. N : Stage(h, N, p, M, n)
<1> DEFINE P == {n \in 0 .. N : Stage(h, N, p, M, n)}
<1>1. 0 \in P
  <2>1. h[0] = p /\ \A m \in M : ~(m <= 0)
    BY DEF Links
  <2>2. Stage(h, N, p, M, 0)
    BY <2>1 DEF Stage
  <2> QED BY <2>2
<1>2. ASSUME NEW n \in 0 .. N, n < N, n \in P PROVE n + 1 \in P
  BY <1>2, LinkAgain
<1> HIDE DEF P
<1>3. 0 .. N \subseteq P
  BY <1>1, <1>2, EachStep
<1> QED BY <1>3 DEF P

\* What had been linked when the turn of i came.
LEMMA LinkedBefore ==
    ASSUME NEW N \in Nat, NEW p, NEW M \in SUBSET (1 .. N), NEW i \in M \ {Pull!First(M)},
           NEW h, Links(h, N, p, M), NEW K, K = {j \in M : j < i}
    PROVE  LinkAll(N, p, K) = h[i - 1] /\ K # {} /\ Pull!First(K) = Pull!First(M)
<1>1. PICK f : f = Pull!First(M)
  OBVIOUS
<1>2. f \in M /\ (\A m \in M : f <= m) /\ f \in 1 .. N /\ i \in 1 .. N /\ f < i
  <2>1. f \in M /\ \A m \in M : f <= m
    BY <1>1, FirstIs
  <2>2. f # i /\ f <= i /\ f \in 1 .. N /\ i \in 1 .. N
    BY <1>1, <2>1
  <2> QED BY <2>1, <2>2
<1>3. f \in K /\ K \in SUBSET (1 .. N) /\ K \subseteq M
  BY <1>2
<1>4. Pull!First(K) = f
  <2>1. Pull!First(K) \in K /\ Pull!First(K) <= f
    BY <1>3, FirstIs
  <2>2. f <= Pull!First(K) /\ Pull!First(K) \in 1 .. N
    BY <1>2, <1>3, <2>1
  <2> QED BY <1>2, <2>1, <2>2
<1>5. PICK g : Links(g, N, p, K)
  BY LinkOneByOne
<1>6. \A n \in 0 .. N : n < N =>
         /\ g[n + 1] = IF n + 1 \in K \ {f} THEN LinkTwo(N, g[n], f, n + 1) ELSE g[n]
         /\ h[n + 1] = IF n + 1 \in M \ {f} THEN LinkTwo(N, h[n], f, n + 1) ELSE h[n]
  BY <1>1, <1>4, <1>5 DEF Links
<1> DEFINE P == {n \in 0 .. N : g[n] = IF n <= i - 1 THEN h[n] ELSE h[i - 1]}
<1>7. 0 \in P
  <2>1. g[0] = h[0] /\ 0 <= i - 1
    BY <1>2, <1>5 DEF Links
  <2> QED BY <2>1
<1>8. ASSUME NEW n \in 0 .. N, n < N, n \in P PROVE n + 1 \in P
  <2>1. n + 1 \in 0 .. N /\ n \in Nat
    BY <1>8
  <2>2. CASE n + 1 <= i - 1
    <3>1. n <= i - 1 /\ (n + 1 \in K <=> n + 1 \in M)
      BY <1>2, <2>1, <2>2
    <3>2. g[n] = h[n]
      BY <1>8, <3>1
    <3>3. g[n + 1] = h[n + 1]
      BY <1>6, <1>8, <3>1, <3>2
    <3> QED BY <2>1, <2>2, <3>3
  <2>3. CASE ~(n + 1 <= i - 1)
    <3>1. n + 1 \notin K /\ (n <= i - 1 => n = i - 1)
      BY <1>2, <2>1, <2>3
    <3>2. g[n] = h[i - 1]
      BY <1>8, <3>1
    <3>3. g[n + 1] = h[i - 1]
      BY <1>6, <1>8, <3>1, <3>2
    <3> QED BY <2>1, <2>3, <3>3
  <2> QED BY <2>2, <2>3
<1> HIDE DEF P
<1>9. 0 .. N \subseteq P
  BY <1>7, <1>8, EachStep
<1>10. g[N] = h[i - 1]
  <2>1. N \in P /\ ~(N <= i - 1)
    BY <1>2, <1>9
  <2> QED BY <2>1 DEF P
<1>11. LinkAll(N, p, K) = h[i - 1]
  BY <1>5, <1>10 DEF Links
<1> QED BY <1>1, <1>3, <1>4, <1>11

\* The turn of i comes, and it is not with the first of the key yet.
Late(N, p, M, i) ==
    RootOf(N, LinkAll(N, p, {j \in M : j < i}), Pull!First(M))
        # RootOf(N, LinkAll(N, p, {j \in M : j < i}), i)

\* A key joins its members, and nothing but what they were joined to.
LEMMA LinkedAll ==
    ASSUME NEW N \in Nat, NEW p, Forest(N, p), NEW M \in SUBSET (1 .. N), M # {},
           NEW q, q = LinkAll(N, p, M)
    PROVE  /\ Forest(N, q)
           /\ \A x, y \in 1 .. N : RootOf(N, p, x) = RootOf(N, p, y) => RootOf(N, q, x) = RootOf(N, q, y)
           /\ \A x, y \in M : RootOf(N, q, x) = RootOf(N, q, y)
           /\ \A S \in SUBSET (1 .. N) :
                 /\ Saturated(N, p, S)
                 /\ \A m \in M \ {Pull!First(M)} : Late(N, p, M, m) => (m \in S <=> Pull!First(M) \in S)
                 => Saturated(N, q, S)
<1>1. PICK h : Links(h, N, p, M)
  BY LinkOneByOne
<1>2. Stage(h, N, p, M, N)
  <2>1. N \in 0 .. N
    OBVIOUS
  <2> QED BY <1>1, <2>1, LinkedOneByOne
<1>3. h[N] = q
  BY <1>1 DEF Links
<1>4. \A m \in M : m <= N
  OBVIOUS
<1>5. Forest(N, q)
  BY <1>2, <1>3 DEF Stage
<1>6. \A x, y \in 1 .. N : RootOf(N, p, x) = RootOf(N, p, y) => RootOf(N, q, x) = RootOf(N, q, y)
  BY <1>2, <1>3 DEF Stage
<1>7. \A x, y \in M : RootOf(N, q, x) = RootOf(N, q, y)
  <2>1. \A m \in M : RootOf(N, q, m) = RootOf(N, q, Pull!First(M))
    BY <1>2, <1>3, <1>4 DEF Stage
  <2> QED BY <2>1
<1>8. ASSUME NEW S \in SUBSET (1 .. N), Saturated(N, p, S),
             \A m \in M \ {Pull!First(M)} : Late(N, p, M, m) => (m \in S <=> Pull!First(M) \in S)
      PROVE  Saturated(N, q, S)
  <2>1. ASSUME NEW m \in M \ {Pull!First(M)}, ~Met(h, N, M, m) PROVE m \in S <=> Pull!First(M) \in S
    <3>1. PICK K : K = {j \in M : j < m}
      OBVIOUS
    <3>2. LinkAll(N, p, K) = h[m - 1]
      BY <1>1, <3>1, LinkedBefore
    <3>3. Late(N, p, M, m)
      BY <2>1, <3>1, <3>2 DEF Late, Met
    <3> QED BY <1>8, <3>3
  <2> QED BY <1>2, <1>3, <1>8, <2>1 DEF Stage
<1> QED BY <1>5, <1>6, <1>7, <1>8

-----------------------------------------------------------------------------
\* The groups of a pull.  What links two records, told of the records alone.
Keyed(rs, k) == {i \in 1 .. Len(rs) : k \in rs[i].ids}
Named(rs, c) == {i \in 1 .. Len(rs) : rs[i].candidate = c}
Across(rs, M) == Pull!Cardinality({rs[i].source : i \in M}) >= 2

KeysOf(rs) == UNION {rs[i].ids : i \in 1 .. Len(rs)}
NamesOf(rs) == {rs[i].candidate : i \in 1 .. Len(rs)} \ {Pull!NoCandidate}

ShareId(rs, i, j) == rs[i].ids \cap rs[j].ids # {}
ShareName(rs, i, j) ==
    /\ rs[i].candidate = rs[j].candidate /\ rs[i].candidate # Pull!NoCandidate
    /\ Across(rs, Named(rs, rs[i].candidate))

\* Closed under shared identifiers; and under all that links.
IdClosed(rs, S) == \A x \in S, y \in 1 .. Len(rs) : ShareId(rs, x, y) => y \in S
Closed(rs, S) ==
    \A x \in S, y \in 1 .. Len(rs) : ShareId(rs, x, y) \/ ShareName(rs, x, y) => y \in S

\* A link that was recorded joins two records of one group: two that share an identifier,
\* or two that share a name and are apart by identifiers.
IdLink(rs, p, link) ==
    \E x, y \in 1 .. Len(rs) :
       /\ link = {x, y} /\ x # y /\ RootOf(Len(rs), p, x) = RootOf(Len(rs), p, y)
       /\ ShareId(rs, x, y)

NameLink(rs, p, link) ==
    \E x, y \in 1 .. Len(rs) :
       /\ link = {x, y} /\ x # y /\ RootOf(Len(rs), p, x) = RootOf(Len(rs), p, y)
       /\ ShareName(rs, x, y)
       /\ \E S \in SUBSET (1 .. Len(rs)) : IdClosed(rs, S) /\ x \in S /\ y \notin S

Respects(S, links) == \A link \in links : link \subseteq S \/ link \cap S = {}

\* The groups so far: what the keys done with join, and nothing that not all keys, or not
\* the links recorded, join.
KeysJoin(rs, p, il) ==
    \A k \in KeysOf(rs) \ il : \A x, y \in Keyed(rs, k) : RootOf(Len(rs), p, x) = RootOf(Len(rs), p, y)
NamesJoin(rs, p, nl) ==
    \A c \in NamesOf(rs) \ nl : Across(rs, Named(rs, c)) =>
        \A x, y \in Named(rs, c) : RootOf(Len(rs), p, x) = RootOf(Len(rs), p, y)
OnlyKeysJoin(rs, p) ==
    \A S \in SUBSET (1 .. Len(rs)) : Closed(rs, S) => Saturated(Len(rs), p, S)
OnlyLinksJoin(rs, p, bi, bn) ==
    \A S \in SUBSET (1 .. Len(rs)) : Respects(S, bi) /\ Respects(S, bn) => Saturated(Len(rs), p, S)

Grouped(rs, p, bi, bn, il, nl) ==
    /\ Forest(Len(rs), p) /\ il \subseteq KeysOf(rs) /\ nl \subseteq NamesOf(rs)
    /\ \A link \in bi : IdLink(rs, p, link)
    /\ \A link \in bn : NameLink(rs, p, link)
    /\ KeysJoin(rs, p, il) /\ NamesJoin(rs, p, nl)
    /\ OnlyKeysJoin(rs, p) /\ OnlyLinksJoin(rs, p, bi, bn)

\* The links a key adds.
Pairs(M) == {{Pull!First(M), i} : i \in M \ {Pull!First(M)}}
LatePairs(N, p, M) == {{Pull!First(M), i} : i \in {j \in M \ {Pull!First(M)} : Late(N, p, M, j)}}

\* One key.
LEMMA KeyJoins ==
    ASSUME NEW rs, NEW N \in Nat, N = Len(rs), NEW p, NEW bi, NEW bn, NEW il, NEW nl,
           Grouped(rs, p, bi, bn, il, nl), NEW k \in il, NEW M, M = Keyed(rs, k),
           NEW q, q = LinkAll(N, p, M), NEW new, new = Pairs(M)
    PROVE  Grouped(rs, q, bi \cup new, bn, il \ {k}, nl)
<1>1. Forest(N, p) /\ il \subseteq KeysOf(rs) /\ nl \subseteq NamesOf(rs)
  BY DEF Grouped
<1>2. M \in SUBSET (1 .. N) /\ M # {} /\ \A x \in 1 .. N : x \in M <=> k \in rs[x].ids
  BY <1>1 DEF Keyed, KeysOf
<1>3. PICK f : f = Pull!First(M)
  OBVIOUS
<1>4. f \in M /\ f \in 1 .. N
  BY <1>2, <1>3, FirstIs
<1>4a. new = {{f, i} : i \in M \ {f}}
  BY <1>3 DEF Pairs
<1>5. /\ Forest(N, q)
      /\ \A x, y \in 1 .. N : RootOf(N, p, x) = RootOf(N, p, y) => RootOf(N, q, x) = RootOf(N, q, y)
      /\ \A x, y \in M : RootOf(N, q, x) = RootOf(N, q, y)
  BY <1>1, <1>2, LinkedAll
<1>6. ASSUME NEW S \in SUBSET (1 .. N), Saturated(N, p, S), \A m \in M \ {f} : m \in S <=> f \in S
      PROVE  Saturated(N, q, S)
  BY <1>1, <1>2, <1>3, <1>6, LinkedAll
<1>7. ASSUME NEW link \in bi \cup new PROVE IdLink(rs, q, link)
  <2>1. CASE link \in bi
    <3>1. PICK x, y \in 1 .. N :
             /\ link = {x, y} /\ x # y /\ RootOf(N, p, x) = RootOf(N, p, y) /\ ShareId(rs, x, y)
      BY <2>1 DEF Grouped, IdLink
    <3> QED BY <1>5, <3>1 DEF IdLink
  <2>2. CASE link \in new
    <3>1. PICK i \in M \ {f} : link = {f, i}
      BY <1>4a, <2>2
    <3>2. ShareId(rs, f, i) /\ RootOf(N, q, f) = RootOf(N, q, i) /\ i \in 1 .. N
      BY <1>2, <1>4, <1>5 DEF ShareId
    <3> QED BY <1>4, <3>1, <3>2 DEF IdLink
  <2> QED BY <1>7, <2>1, <2>2
<1>8. ASSUME NEW link \in bn PROVE NameLink(rs, q, link)
  <2>1. PICK x, y \in 1 .. N :
           /\ link = {x, y} /\ x # y /\ RootOf(N, p, x) = RootOf(N, p, y) /\ ShareName(rs, x, y)
           /\ \E S \in SUBSET (1 .. N) : IdClosed(rs, S) /\ x \in S /\ y \notin S
    BY <1>8 DEF Grouped, NameLink
  <2>2. RootOf(N, q, x) = RootOf(N, q, y)
    BY <1>5, <2>1
  <2> QED BY <2>1, <2>2 DEF NameLink
<1>9. KeysJoin(rs, q, il \ {k})
  <2>1. ASSUME NEW j \in KeysOf(rs) \ (il \ {k}), NEW x \in Keyed(rs, j), NEW y \in Keyed(rs, j)
        PROVE  RootOf(N, q, x) = RootOf(N, q, y)
    <3>1. CASE j = k
      BY <1>5, <3>1
    <3>2. CASE j # k
      <4>1. RootOf(N, p, x) = RootOf(N, p, y)
        BY <3>2 DEF Grouped, KeysJoin
      <4>2. x \in 1 .. N /\ y \in 1 .. N
        BY DEF Keyed
      <4> QED BY <1>5, <4>1, <4>2
    <3> QED BY <3>1, <3>2
  <2> QED BY <2>1 DEF KeysJoin
<1>10. NamesJoin(rs, q, nl)
  <2>1. ASSUME NEW c \in NamesOf(rs) \ nl, Across(rs, Named(rs, c)),
               NEW x \in Named(rs, c), NEW y \in Named(rs, c)
        PROVE  RootOf(N, q, x) = RootOf(N, q, y)
    <3>1. RootOf(N, p, x) = RootOf(N, p, y)
      BY <2>1 DEF Grouped, NamesJoin
    <3>2. x \in 1 .. N /\ y \in 1 .. N
      BY DEF Named
    <3> QED BY <1>5, <3>1, <3>2
  <2> QED BY <2>1 DEF NamesJoin
<1>11. ASSUME NEW S \in SUBSET (1 .. N), Closed(rs, S) PROVE Saturated(N, q, S)
  <2>1. Saturated(N, p, S)
    BY <1>11 DEF Grouped, OnlyKeysJoin
  <2>2. ASSUME NEW m \in M \ {f} PROVE m \in S <=> f \in S
    <3>1. ShareId(rs, m, f) /\ ShareId(rs, f, m) /\ m \in 1 .. N
      BY <1>2, <1>4 DEF ShareId
    <3> QED BY <1>4, <1>11, <3>1 DEF Closed
  <2> QED BY <1>6, <2>1, <2>2
<1>12. ASSUME NEW S \in SUBSET (1 .. N), Respects(S, bi \cup new), Respects(S, bn)
       PROVE  Saturated(N, q, S)
  <2>1. Respects(S, bi)
    BY <1>12 DEF Respects
  <2>2. Saturated(N, p, S)
    BY <1>12, <2>1 DEF Grouped, OnlyLinksJoin
  <2>3. ASSUME NEW m \in M \ {f} PROVE m \in S <=> f \in S
    <3>1. {f, m} \in new
      BY <1>4a
    <3>2. {f, m} \subseteq S \/ {f, m} \cap S = {}
      BY <1>12, <3>1 DEF Respects
    <3> QED BY <3>2
  <2> QED BY <1>6, <2>2, <2>3
<1>13. OnlyKeysJoin(rs, q) /\ OnlyLinksJoin(rs, q, bi \cup new, bn)
  BY <1>11, <1>12 DEF OnlyKeysJoin, OnlyLinksJoin
<1> QED BY <1>1, <1>5, <1>7, <1>8, <1>9, <1>10, <1>13 DEF Grouped

\* One candidate key, when all identifiers are done with.
LEMMA NameJoins ==
    ASSUME NEW rs, NEW N \in Nat, N = Len(rs), NEW p, NEW bi, NEW bn, NEW nl,
           Grouped(rs, p, bi, bn, {}, nl), NEW c \in nl, NEW M, M = Named(rs, c), Across(rs, M),
           NEW q, q = LinkAll(N, p, M),
           NEW new, new = LatePairs(N, p, M)
    PROVE  Grouped(rs, q, bi, bn \cup new, {}, nl \ {c})
<1>1. Forest(N, p) /\ nl \subseteq NamesOf(rs)
  BY DEF Grouped
<1>2. /\ M \in SUBSET (1 .. N) /\ M # {} /\ c # Pull!NoCandidate
      /\ \A x \in 1 .. N : x \in M <=> rs[x].candidate = c
  BY <1>1 DEF Named, NamesOf
<1>3. PICK f : f = Pull!First(M)
  OBVIOUS
<1>4. f \in M /\ f \in 1 .. N
  BY <1>2, <1>3, FirstIs
<1>4a. new = {{f, i} : i \in {j \in M \ {f} : Late(N, p, M, j)}}
  BY <1>3 DEF LatePairs
<1>5. /\ Forest(N, q)
      /\ \A x, y \in 1 .. N : RootOf(N, p, x) = RootOf(N, p, y) => RootOf(N, q, x) = RootOf(N, q, y)
      /\ \A x, y \in M : RootOf(N, q, x) = RootOf(N, q, y)
  BY <1>1, <1>2, LinkedAll
<1>6. ASSUME NEW S \in SUBSET (1 .. N), Saturated(N, p, S),
             \A m \in M \ {f} : Late(N, p, M, m) => (m \in S <=> f \in S)
      PROVE  Saturated(N, q, S)
  BY <1>1, <1>2, <1>3, <1>6, LinkedAll
<1>7. \A x, y \in 1 .. N : ShareId(rs, x, y) => RootOf(N, p, x) = RootOf(N, p, y)
  <2>1. ASSUME NEW x \in 1 .. N, NEW y \in 1 .. N, ShareId(rs, x, y)
        PROVE  RootOf(N, p, x) = RootOf(N, p, y)
    <3>1. PICK k : k \in rs[x].ids /\ k \in rs[y].ids
      BY <2>1 DEF ShareId
    <3>2. k \in KeysOf(rs) /\ x \in Keyed(rs, k) /\ y \in Keyed(rs, k)
      BY <3>1 DEF KeysOf, Keyed
    <3> QED BY <3>2 DEF Grouped, KeysJoin
  <2> QED BY <2>1
<1>8. ASSUME NEW m \in M PROVE m \in 1 .. N /\ ShareName(rs, f, m) /\ ShareName(rs, m, f)
  <2>1. m \in 1 .. N /\ rs[m].candidate = c /\ rs[f].candidate = c
    BY <1>2, <1>4
  <2> QED BY <1>2, <2>1 DEF ShareName
<1>9. ASSUME NEW i \in M \ {f}, Late(N, p, M, i)
      PROVE  \E S \in SUBSET (1 .. N) : IdClosed(rs, S) /\ f \in S /\ i \notin S
  <2>1. PICK K : K = {j \in M : j < i}
    OBVIOUS
  <2>2. PICK h : Links(h, N, p, M)
    BY LinkOneByOne
  <2>3. K # {} /\ K \in SUBSET (1 .. N)
    <3>1. M \in SUBSET (1 .. N) /\ i \in M \ {Pull!First(M)}
      BY <1>2, <1>3
    <3>2. K # {}
      BY ONLY <3>1, <2>1, <2>2, N \in Nat, LinkedBefore
    <3>3. K \subseteq M
      BY <2>1
    <3> QED BY <3>1, <3>2, <3>3
  <2>4. PICK r : r = LinkAll(N, p, K)
    OBVIOUS
  <2>5. \A x, y \in 1 .. N : RootOf(N, p, x) = RootOf(N, p, y) => RootOf(N, r, x) = RootOf(N, r, y)
    BY <1>1, <2>3, <2>4, LinkedAll
  <2>6. RootOf(N, r, f) # RootOf(N, r, i)
    BY <1>3, <1>9, <2>1, <2>4 DEF Late
  <2>7. PICK S : S = {x \in 1 .. N : RootOf(N, r, x) = RootOf(N, r, f)}
    OBVIOUS
  <2>8. IdClosed(rs, S)
    BY <1>7, <2>5, <2>7 DEF IdClosed
  <2> QED BY <1>4, <2>6, <2>7, <2>8
<1>10. ASSUME NEW link \in bi PROVE IdLink(rs, q, link)
  <2>1. PICK x, y \in 1 .. N :
           /\ link = {x, y} /\ x # y /\ RootOf(N, p, x) = RootOf(N, p, y) /\ ShareId(rs, x, y)
    BY <1>10 DEF Grouped, IdLink
  <2> QED BY <1>5, <2>1 DEF IdLink
<1>11. ASSUME NEW link \in bn \cup new PROVE NameLink(rs, q, link)
  <2>1. CASE link \in bn
    <3>1. PICK x, y \in 1 .. N :
             /\ link = {x, y} /\ x # y /\ RootOf(N, p, x) = RootOf(N, p, y) /\ ShareName(rs, x, y)
             /\ \E S \in SUBSET (1 .. N) : IdClosed(rs, S) /\ x \in S /\ y \notin S
      BY <2>1 DEF Grouped, NameLink
    <3>2. RootOf(N, q, x) = RootOf(N, q, y)
      BY <1>5, <3>1
    <3> QED BY <3>1, <3>2 DEF NameLink
  <2>2. CASE link \in new
    <3>1. PICK i \in M \ {f} : link = {f, i} /\ Late(N, p, M, i)
      BY <1>4a, <2>2
    <3>2. ShareName(rs, f, i) /\ RootOf(N, q, f) = RootOf(N, q, i) /\ i \in 1 .. N
      BY <1>4, <1>5, <1>8
    <3>3. \E S \in SUBSET (1 .. N) : IdClosed(rs, S) /\ f \in S /\ i \notin S
      BY <1>9, <3>1
    <3> QED BY <1>4, <3>1, <3>2, <3>3 DEF NameLink
  <2> QED BY <1>11, <2>1, <2>2
<1>12. KeysJoin(rs, q, {})
  <2>1. ASSUME NEW j \in KeysOf(rs), NEW x \in Keyed(rs, j), NEW y \in Keyed(rs, j)
        PROVE  RootOf(N, q, x) = RootOf(N, q, y)
    <3>1. RootOf(N, p, x) = RootOf(N, p, y)
      BY DEF Grouped, KeysJoin
    <3>2. x \in 1 .. N /\ y \in 1 .. N
      BY DEF Keyed
    <3> QED BY <1>5, <3>1, <3>2
  <2> QED BY <2>1 DEF KeysJoin
<1>13. NamesJoin(rs, q, nl \ {c})
  <2>1. ASSUME NEW b \in NamesOf(rs) \ (nl \ {c}), Across(rs, Named(rs, b)),
               NEW x \in Named(rs, b), NEW y \in Named(rs, b)
        PROVE  RootOf(N, q, x) = RootOf(N, q, y)
    <3>1. CASE b = c
      BY <1>5, <3>1
    <3>2. CASE b # c
      <4>1. RootOf(N, p, x) = RootOf(N, p, y)
        BY <2>1, <3>2 DEF Grouped, NamesJoin
      <4>2. x \in 1 .. N /\ y \in 1 .. N
        BY DEF Named
      <4> QED BY <1>5, <4>1, <4>2
    <3> QED BY <3>1, <3>2
  <2> QED BY <2>1 DEF NamesJoin
<1>14. ASSUME NEW S \in SUBSET (1 .. N), Closed(rs, S) PROVE Saturated(N, q, S)
  <2>1. Saturated(N, p, S)
    BY <1>14 DEF Grouped, OnlyKeysJoin
  <2>2. ASSUME NEW m \in M \ {f} PROVE m \in S <=> f \in S
    BY <1>4, <1>8, <1>14 DEF Closed
  <2> QED BY <1>6, <2>1, <2>2
<1>15. ASSUME NEW S \in SUBSET (1 .. N), Respects(S, bi), Respects(S, bn \cup new)
       PROVE  Saturated(N, q, S)
  <2>1. Respects(S, bn)
    BY <1>15 DEF Respects
  <2>2. Saturated(N, p, S)
    BY <1>15, <2>1 DEF Grouped, OnlyLinksJoin
  <2>3. ASSUME NEW m \in M \ {f}, Late(N, p, M, m) PROVE m \in S <=> f \in S
    <3>1. {f, m} \in new
      BY <1>4a, <2>3
    <3>2. {f, m} \subseteq S \/ {f, m} \cap S = {}
      BY <1>15, <3>1 DEF Respects
    <3> QED BY <3>2
  <2> QED BY <1>6, <2>2, <2>3
<1>16. OnlyKeysJoin(rs, q) /\ OnlyLinksJoin(rs, q, bi, bn \cup new)
  BY <1>14, <1>15 DEF OnlyKeysJoin, OnlyLinksJoin
<1> QED BY <1>1, <1>5, <1>10, <1>11, <1>12, <1>13, <1>16 DEF Grouped

\* A candidate key of one source joins nothing.
LEMMA NameOfOneSource ==
    ASSUME NEW rs, NEW p, NEW bi, NEW bn, NEW nl, Grouped(rs, p, bi, bn, {}, nl),
           NEW c \in nl, ~Across(rs, Named(rs, c))
    PROVE  Grouped(rs, p, bi, bn, {}, nl \ {c})
<1>1. NamesJoin(rs, p, nl \ {c})
  BY DEF Grouped, NamesJoin
<1> QED BY <1>1 DEF Grouped

\* Before any key every record is a group of its own.
LEMMA EachByItself ==
    ASSUME NEW rs, NEW N \in Nat, N = Len(rs), NEW p, p = [i \in 1 .. N |-> i]
    PROVE  Grouped(rs, p, {}, {}, KeysOf(rs), NamesOf(rs))
<1>1. Forest(N, p)
  BY DEF Forest
<1>2. ASSUME NEW i \in 1 .. N PROVE RootOf(N, p, i) = i
  <2>1. p[i] = i
    OBVIOUS
  <2> QED BY <2>1, RootOfRoot
<1>3. \A S \in SUBSET (1 .. N) : Saturated(N, p, S)
  BY <1>2 DEF Saturated
<1>4. KeysJoin(rs, p, KeysOf(rs)) /\ NamesJoin(rs, p, NamesOf(rs))
  BY DEF KeysJoin, NamesJoin
<1>5. OnlyKeysJoin(rs, p) /\ OnlyLinksJoin(rs, p, {}, {})
  BY <1>3 DEF OnlyKeysJoin, OnlyLinksJoin
<1> QED BY <1>1, <1>4, <1>5 DEF Grouped

-----------------------------------------------------------------------------
\* What the module says of a pull, told of its records.
LEMMA FindIsRoot ==
    ASSUME NEW p, NEW i
    PROVE  Pull!Find(p, i) = RootOf(Len(pulled), p, i)
BY DEF Pull!Find, RootOf

LEMMA UnionIsLinkTwo ==
    ASSUME NEW p, NEW i, NEW j
    PROVE  Pull!Union(p, i, j) = LinkTwo(Len(pulled), p, i, j)
BY FindIsRoot DEF Pull!Union, LinkTwo

LEMMA UnionAllIsLinkAll ==
    ASSUME NEW p, NEW M
    PROVE  Pull!UnionAll(p, M) = LinkAll(Len(pulled), p, M)
BY DEF Pull!UnionAll, LinkAll, Pull!Union, LinkTwo, Pull!Find, RootOf

LEMMA JoinedByIdentifiers ==
    ASSUME NEW i, NEW j
    PROVE  Pull!Joined(Pull!SameIdentifier, i, j) <=>
           \A S \in SUBSET Pull!Positions :
              i \in S /\ (\A x \in S, y \in Pull!Positions : Pull!SameIdentifier(x, y) => y \in S) => j \in S
BY DEF Pull!Joined

LEMMA SourcesAreAcross ==
    ASSUME NEW M
    PROVE  Pull!AcrossSources(M) <=> Across(pulled, M)
BY DEF Pull!AcrossSources, Across

-----------------------------------------------------------------------------
PullInv ==
    /\ pulled \in Seq(Kinds) /\ readAt \in Nat
    /\ Grouped(pulled, parents, idLinks, nameLinks, idsLeft, namesLeft)

LEMMA RecordsHaveLength ==
    ASSUME pulled \in Seq(Kinds)
    PROVE  Len(pulled) \in Nat /\ Pull!Positions = 1 .. Len(pulled)
BY DEF Pull!Positions

LEMMA KeysAndNames ==
    ASSUME pulled \in Seq(Kinds)
    PROVE  Pull!Identifiers = KeysOf(pulled) /\ Pull!Candidates = NamesOf(pulled)
BY RecordsHaveLength DEF Pull!Identifiers, Pull!Candidates, KeysOf, NamesOf

LEMMA PullInitHolds ==
    ASSUME Pull!ConstellationAssumption, Pull!Init
    PROVE  PullInv
<1>1. PICK n \in 1 .. MaxRecords : pulled \in [1 .. n -> Kinds]
  BY DEF Pull!Init
<1>2. n \in Nat
  BY DEF Pull!ConstellationAssumption
<1>3. pulled \in Seq(Kinds)
  BY <1>1, <1>2
<1>4. Len(pulled) \in Nat /\ parents = [i \in 1 .. Len(pulled) |-> i]
  BY <1>3, RecordsHaveLength DEF Pull!Init
<1>5. Grouped(pulled, parents, {}, {}, KeysOf(pulled), NamesOf(pulled))
  BY <1>4, EachByItself
<1> QED BY <1>3, <1>5, KeysAndNames DEF PullInv, Pull!Init

LEMMA LinkIdentifierKeeps ==
    ASSUME PullInv, Pull!LinkIdentifier
    PROVE  PullInv'
<1>1. PICK rs, N, p, bi, bn, il, nl :
         /\ rs = pulled /\ N = Len(rs) /\ p = parents /\ bi = idLinks /\ bn = nameLinks
         /\ il = idsLeft /\ nl = namesLeft
  OBVIOUS
<1>2. rs \in Seq(Kinds) /\ N \in Nat /\ Grouped(rs, p, bi, bn, il, nl) /\ Pull!Positions = 1 .. N
  BY <1>1, RecordsHaveLength DEF PullInv
<1>3. PICK k \in il :
         LET M == Pull!Linked({i \in Pull!Positions : k \in pulled[i].ids})
         IN  /\ parents' = Pull!UnionAll(p, M)
             /\ idLinks' = bi \cup {{Pull!First(M), i} : i \in M \ {Pull!First(M)}}
             /\ idsLeft' = il \ {k}
  BY <1>1 DEF Pull!LinkIdentifier
<1>4. PICK M : M = Keyed(rs, k)
  OBVIOUS
<1>5. Pull!Linked({i \in Pull!Positions : k \in pulled[i].ids}) = M
  BY <1>1, <1>2, <1>4 DEF Pull!Linked, Keyed
<1>6. /\ parents' = LinkAll(N, p, M)
      /\ idLinks' = bi \cup Pairs(M)
      /\ idsLeft' = il \ {k}
  BY <1>1, <1>3, <1>5, UnionAllIsLinkAll DEF Pairs
<1>7. pulled' = rs /\ nameLinks' = bn /\ namesLeft' = nl /\ readAt' = readAt
  BY <1>1 DEF Pull!LinkIdentifier
<1>8. PICK q, new : q = LinkAll(N, p, M) /\ new = Pairs(M)
  OBVIOUS
<1>9. Grouped(rs, q, bi \cup new, bn, il \ {k}, nl)
  BY <1>1, <1>2, <1>4, <1>8, KeyJoins
<1>10. Grouped(pulled', parents', idLinks', nameLinks', idsLeft', namesLeft')
  BY <1>6, <1>7, <1>8, <1>9
<1> QED BY <1>2, <1>7, <1>10 DEF PullInv

LEMMA LinkCandidateKeeps ==
    ASSUME PullInv, Pull!LinkCandidate
    PROVE  PullInv'
<1>1. PICK rs, N, p, bi, bn, nl :
         /\ rs = pulled /\ N = Len(rs) /\ p = parents /\ bi = idLinks /\ bn = nameLinks
         /\ nl = namesLeft
  OBVIOUS
<1>2. rs \in Seq(Kinds) /\ N \in Nat /\ Grouped(rs, p, bi, bn, {}, nl) /\ Pull!Positions = 1 .. N
  BY <1>1, RecordsHaveLength DEF PullInv, Pull!LinkCandidate
<1>3. PICK c \in nl :
         LET M == {i \in Pull!Positions : pulled[i].candidate = c}
         IN  /\ namesLeft' = nl \ {c}
             /\ IF Pull!AcrossSources(M)
                THEN /\ parents' = Pull!UnionAll(p, M)
                     /\ nameLinks' = bn \cup {{Pull!First(M), i} : i \in Pull!Newly(p, M)}
                ELSE UNCHANGED <<parents, nameLinks>>
  BY <1>1 DEF Pull!LinkCandidate
<1>4. PICK M : M = Named(rs, c)
  OBVIOUS
<1>5. {i \in Pull!Positions : pulled[i].candidate = c} = M
  BY <1>1, <1>2, <1>4 DEF Named
<1>6. pulled' = rs /\ idLinks' = bi /\ idsLeft' = {} /\ readAt' = readAt /\ namesLeft' = nl \ {c}
  BY <1>1, <1>3 DEF Pull!LinkCandidate
<1>7. CASE Across(rs, M)
  <2>1. /\ parents' = Pull!UnionAll(p, M)
        /\ nameLinks' = bn \cup {{Pull!First(M), i} : i \in Pull!Newly(p, M)}
    BY <1>1, <1>3, <1>5, <1>7, SourcesAreAcross
  <2>2. Pull!Newly(p, M) = {j \in M \ {Pull!First(M)} : Late(N, p, M, j)}
    BY <1>1, FindIsRoot, UnionAllIsLinkAll DEF Pull!Newly, Late
  <2>3. PICK q, new : q = LinkAll(N, p, M) /\ new = LatePairs(N, p, M)
    OBVIOUS
  <2>4. Grouped(rs, q, bi, bn \cup new, {}, nl \ {c})
    BY <1>1, <1>2, <1>4, <1>7, <2>3, NameJoins
  <2>5. parents' = q /\ nameLinks' = bn \cup new
    BY <1>1, <2>1, <2>2, <2>3, UnionAllIsLinkAll DEF LatePairs
  <2>6. Grouped(pulled', parents', idLinks', nameLinks', idsLeft', namesLeft')
    BY <1>6, <2>4, <2>5
  <2> QED BY <1>2, <1>6, <2>6 DEF PullInv
<1>8. CASE ~Across(rs, M)
  <2>1. parents' = p /\ nameLinks' = bn
    BY <1>1, <1>3, <1>5, <1>8, SourcesAreAcross
  <2>2. Grouped(rs, p, bi, bn, {}, nl \ {c})
    BY <1>2, <1>4, <1>8, NameOfOneSource
  <2>3. Grouped(pulled', parents', idLinks', nameLinks', idsLeft', namesLeft')
    BY <1>6, <2>1, <2>2
  <2> QED BY <1>2, <1>6, <2>3 DEF PullInv
<1> QED BY <1>7, <1>8

LEMMA PullNextHolds ==
    ASSUME Pull!ConstellationAssumption, PullInv, [Pull!Next]_(Pull!vars)
    PROVE  PullInv'
<1>1. CASE Pull!LinkIdentifier
  BY <1>1, LinkIdentifierKeeps
<1>2. CASE Pull!LinkCandidate
  BY <1>2, LinkCandidateKeeps
<1>3. CASE Pull!Later
  <2>1. /\ pulled' = pulled /\ parents' = parents /\ idLinks' = idLinks /\ nameLinks' = nameLinks
        /\ idsLeft' = idsLeft /\ namesLeft' = namesLeft /\ readAt' = readAt + 1
    BY <1>3 DEF Pull!Later
  <2> QED BY <2>1 DEF PullInv
<1>4. CASE UNCHANGED Pull!vars
  <2>1. /\ pulled' = pulled /\ parents' = parents /\ idLinks' = idLinks /\ nameLinks' = nameLinks
        /\ idsLeft' = idsLeft /\ namesLeft' = namesLeft /\ readAt' = readAt
    BY <1>4 DEF Pull!vars
  <2> QED BY <2>1 DEF PullInv
<1> QED BY <1>1, <1>2, <1>3, <1>4 DEF Pull!Next

-----------------------------------------------------------------------------
\* What the groups are when all keys are done with.
GroupOf(N, p, i) == {j \in 1 .. N : RootOf(N, p, j) = RootOf(N, p, i)}

LEMMA SharersAreTogether ==
    ASSUME NEW rs, NEW N \in Nat, N = Len(rs), NEW p, NEW bi, NEW bn,
           Grouped(rs, p, bi, bn, {}, {}), NEW x \in 1 .. N, NEW y \in 1 .. N,
           ShareId(rs, x, y) \/ ShareName(rs, x, y)
    PROVE  RootOf(N, p, x) = RootOf(N, p, y)
<1>1. CASE ShareId(rs, x, y)
  <2>1. PICK k : k \in rs[x].ids /\ k \in rs[y].ids
    BY <1>1 DEF ShareId
  <2>2. k \in KeysOf(rs) /\ x \in Keyed(rs, k) /\ y \in Keyed(rs, k)
    BY <2>1 DEF KeysOf, Keyed
  <2> QED BY <2>2 DEF Grouped, KeysJoin
<1>2. CASE ShareName(rs, x, y)
  <2>1. PICK c : c = rs[x].candidate
    OBVIOUS
  <2>2. c \in NamesOf(rs) /\ x \in Named(rs, c) /\ y \in Named(rs, c) /\ Across(rs, Named(rs, c))
    BY <1>2, <2>1 DEF ShareName, NamesOf, Named
  <2> QED BY <2>2 DEF Grouped, NamesJoin
<1> QED BY <1>1, <1>2

\* A group is a connected part.
LEMMA GroupIsConnected ==
    ASSUME NEW rs, NEW N \in Nat, N = Len(rs), NEW p, NEW bi, NEW bn,
           Grouped(rs, p, bi, bn, {}, {}), NEW i \in 1 .. N, NEW j \in 1 .. N
    PROVE  RootOf(N, p, j) = RootOf(N, p, i) <=>
               \A S \in SUBSET (1 .. N) : i \in S /\ Closed(rs, S) => j \in S
<1>1. ASSUME RootOf(N, p, j) = RootOf(N, p, i), NEW S \in SUBSET (1 .. N), i \in S, Closed(rs, S)
      PROVE  j \in S
  BY <1>1 DEF Grouped, OnlyKeysJoin, Saturated
<1>2. ASSUME \A S \in SUBSET (1 .. N) : i \in S /\ Closed(rs, S) => j \in S
      PROVE  RootOf(N, p, j) = RootOf(N, p, i)
  <2>1. PICK S : S = GroupOf(N, p, i)
    OBVIOUS
  <2>2. S \in SUBSET (1 .. N) /\ i \in S
    BY <2>1 DEF GroupOf
  <2>3. ASSUME NEW x \in S, NEW y \in 1 .. N, ShareId(rs, x, y) \/ ShareName(rs, x, y)
        PROVE  y \in S
    <3>1. x \in 1 .. N /\ RootOf(N, p, x) = RootOf(N, p, i)
      BY <2>1 DEF GroupOf
    <3>2. RootOf(N, p, x) = RootOf(N, p, y)
      BY <2>3, <3>1, SharersAreTogether
    <3> QED BY <2>1, <3>1, <3>2 DEF GroupOf
  <2>4. Closed(rs, S)
    BY <2>3 DEF Closed
  <2> QED BY <1>2, <2>1, <2>2, <2>4 DEF GroupOf
<1> QED BY <1>1, <1>2

\* A link is within one group or apart from it.
LEMMA LinkIsWithin ==
    ASSUME NEW rs, NEW N \in Nat, N = Len(rs), NEW p, NEW bi, NEW bn,
           Grouped(rs, p, bi, bn, {}, {}), NEW i \in 1 .. N, NEW G, G = GroupOf(N, p, i),
           NEW link \in bi \cup bn
    PROVE  link \subseteq G \/ link \cap G = {}
<1>1. PICK x, y \in 1 .. N : link = {x, y} /\ RootOf(N, p, x) = RootOf(N, p, y)
  BY DEF Grouped, IdLink, NameLink
<1> QED BY <1>1 DEF GroupOf

\* A group in which nothing was linked is one record.
LEMMA UnlinkedIsAlone ==
    ASSUME NEW rs, NEW N \in Nat, N = Len(rs), NEW p, NEW bi, NEW bn,
           Grouped(rs, p, bi, bn, {}, {}), NEW i \in 1 .. N, NEW G, G = GroupOf(N, p, i),
           \A link \in bi \cup bn : ~(link \subseteq G)
    PROVE  G = {i}
<1>1. i \in G /\ G \subseteq 1 .. N
  BY DEF GroupOf
<1>2. ASSUME NEW link \in bi \cup bn PROVE link \cap {i} = {}
  BY <1>1, LinkIsWithin
<1>3. Respects({i}, bi) /\ Respects({i}, bn)
  BY <1>2 DEF Respects
<1>4. Saturated(N, p, {i})
  <2>1. {i} \in SUBSET (1 .. N)
    OBVIOUS
  <2> QED BY <1>3, <2>1 DEF Grouped, OnlyLinksJoin
<1>5. ASSUME NEW j \in G PROVE j = i
  <2>1. j \in 1 .. N /\ RootOf(N, p, i) = RootOf(N, p, j)
    BY DEF GroupOf
  <2>2. j \in {i}
    BY <1>4, <2>1 DEF Saturated
  <2> QED BY <2>2
<1> QED BY <1>1, <1>5

\* Where no name linked two, identifiers join all.
LEMMA JoinedWithoutNames ==
    ASSUME NEW rs, NEW N \in Nat, N = Len(rs), NEW p, NEW bi, NEW bn,
           Grouped(rs, p, bi, bn, {}, {}), NEW i \in 1 .. N, NEW G, G = GroupOf(N, p, i),
           \A link \in bn : ~(link \subseteq G),
           NEW a \in G, NEW b \in G, NEW S \in SUBSET (1 .. N), IdClosed(rs, S), a \in S
    PROVE  b \in S
<1>1. a \in 1 .. N /\ b \in 1 .. N /\ RootOf(N, p, a) = RootOf(N, p, b) /\ G \subseteq 1 .. N
  BY DEF GroupOf
<1>2. PICK T : T = S \cap G
  OBVIOUS
<1>3. ASSUME NEW link \in bi PROVE link \subseteq T \/ link \cap T = {}
  <2>1. PICK x, y \in 1 .. N : link = {x, y} /\ RootOf(N, p, x) = RootOf(N, p, y) /\ ShareId(rs, x, y)
    BY DEF Grouped, IdLink
  <2>2. ShareId(rs, y, x)
    BY <2>1 DEF ShareId
  <2>3. x \in S <=> y \in S
    BY <2>1, <2>2 DEF IdClosed
  <2>4. x \in G <=> y \in G
    BY <2>1 DEF GroupOf
  <2> QED BY <1>2, <2>1, <2>3, <2>4
<1>4. ASSUME NEW link \in bn PROVE link \cap T = {}
  <2>1. link \subseteq G \/ link \cap G = {}
    BY LinkIsWithin
  <2> QED BY <1>2, <2>1
<1>5. Respects(T, bi) /\ Respects(T, bn)
  BY <1>3, <1>4 DEF Respects
<1>6. Saturated(N, p, T)
  <2>1. T \in SUBSET (1 .. N)
    BY <1>2
  <2> QED BY <1>5, <2>1 DEF Grouped, OnlyLinksJoin
<1>7. b \in T
  BY <1>1, <1>2, <1>6 DEF Saturated
<1> QED BY <1>2, <1>7

\* Where a name linked two, they are apart by identifiers.
LEMMA ApartWithoutTheirName ==
    ASSUME NEW rs, NEW N \in Nat, N = Len(rs), NEW p, NEW bi, NEW bn,
           Grouped(rs, p, bi, bn, {}, {}), NEW link \in bn
    PROVE  \E x, y \in 1 .. N :
              /\ link = {x, y} /\ ShareName(rs, x, y)
              /\ \E S \in SUBSET (1 .. N) : IdClosed(rs, S) /\ x \in S /\ y \notin S
BY DEF Grouped, NameLink

-----------------------------------------------------------------------------
\* The same, as the module says it.
LEMMA GroupIs ==
    ASSUME PullInv, NEW i \in Pull!Positions
    PROVE  Pull!Group(i) = GroupOf(Len(pulled), parents, i)
BY RecordsHaveLength, FindIsRoot DEF PullInv, Pull!Group, GroupOf

LEMMA ResolvedIs ==
    ASSUME PullInv, Pull!Resolved
    PROVE  Grouped(pulled, parents, idLinks, nameLinks, {}, {})
BY DEF PullInv, Pull!Resolved

LEMMA SharedAre ==
    ASSUME PullInv, NEW x \in Pull!Positions, NEW y \in Pull!Positions
    PROVE  /\ Pull!SameIdentifier(x, y) <=> ShareId(pulled, x, y)
           /\ Pull!SameOrganization(x, y) <=> ShareId(pulled, x, y) \/ ShareName(pulled, x, y)
<1>1. {z \in Pull!Positions : pulled[z].candidate = pulled[x].candidate}
        = Named(pulled, pulled[x].candidate)
  BY RecordsHaveLength DEF PullInv, Named
<1> QED BY <1>1 DEF Pull!SameIdentifier, Pull!SameOrganization, ShareId, ShareName, Across

LEMMA JoinedIs ==
    ASSUME PullInv, NEW i \in Pull!Positions, NEW j \in Pull!Positions
    PROVE  /\ Pull!Joined(Pull!SameIdentifier, i, j) <=>
                \A S \in SUBSET (1 .. Len(pulled)) : i \in S /\ IdClosed(pulled, S) => j \in S
           /\ Pull!Joined(Pull!SameOrganization, i, j) <=>
                \A S \in SUBSET (1 .. Len(pulled)) : i \in S /\ Closed(pulled, S) => j \in S
<1>1. PICK N : N = Len(pulled) /\ Pull!Positions = 1 .. N
  BY RecordsHaveLength DEF PullInv
<1>2. \A S \in SUBSET (1 .. N) :
         (\A x \in S, y \in 1 .. N : Pull!SameIdentifier(x, y) => y \in S) <=> IdClosed(pulled, S)
  BY <1>1, SharedAre DEF IdClosed
<1>3. \A S \in SUBSET (1 .. N) :
         (\A x \in S, y \in 1 .. N : Pull!SameOrganization(x, y) => y \in S) <=> Closed(pulled, S)
  BY <1>1, SharedAre DEF Closed
<1>4. Pull!Joined(Pull!SameIdentifier, i, j) <=>
        \A S \in SUBSET (1 .. N) :
           i \in S /\ (\A x \in S, y \in 1 .. N : Pull!SameIdentifier(x, y) => y \in S) => j \in S
  BY <1>1 DEF Pull!Joined
<1>5. Pull!Joined(Pull!SameOrganization, i, j) <=>
        \A S \in SUBSET (1 .. N) :
           i \in S /\ (\A x \in S, y \in 1 .. N : Pull!SameOrganization(x, y) => y \in S) => j \in S
  BY <1>1 DEF Pull!Joined
<1> QED BY <1>1, <1>2, <1>3, <1>4, <1>5

LEMMA PairHasTwo ==
    ASSUME NEW x, NEW y, x # y
    PROVE  IsFiniteSet({x, y}) /\ Cardinality({x, y}) = 2
<1>1. IsFiniteSet({x}) /\ Cardinality({x}) = 1
  BY FS_Singleton
<1>2. IsFiniteSet({x} \cup {y}) /\ Cardinality({x} \cup {y}) = Cardinality({x}) + 1
  BY <1>1, FS_AddElement
<1>3. {x} \cup {y} = {x, y}
  OBVIOUS
<1> QED BY <1>1, <1>2, <1>3

\* More than one element, and any one of them: there is another.
LEMMA AnotherOne ==
    ASSUME NEW S, Cardinality(S) > 1, NEW x \in S
    PROVE  \E y \in S : y # x
<1>1. SUFFICES ASSUME \A y \in S : y = x PROVE FALSE
  OBVIOUS
<1>2. S = {x}
  BY <1>1
<1>3. Cardinality({x}) = 1
  BY FS_Singleton
<1> QED BY <1>2, <1>3

LEMMA CardinalityIsPulls ==
    ASSUME NEW S
    PROVE  Pull!Cardinality(S) = Cardinality(S)
BY DEF Cardinality, Pull!Cardinality, IsFiniteSet, Pull!IsFiniteSet

LEMMA LinksHaveTwo ==
    ASSUME PullInv
    PROVE  Pull!ConstellationTypeOK
<1>1. PICK N : N = Len(pulled) /\ Pull!Positions = 1 .. N
  BY RecordsHaveLength DEF PullInv
<1>2. ASSUME NEW link \in idLinks \cup nameLinks
      PROVE  link \subseteq Pull!Positions /\ Pull!Cardinality(link) = 2
  <2>1. PICK x, y \in 1 .. N : link = {x, y} /\ x # y
    BY <1>1 DEF PullInv, Grouped, IdLink, NameLink
  <2> QED BY <1>1, <2>1, PairHasTwo, CardinalityIsPulls
<1>3. parents \in [Pull!Positions -> Pull!Positions]
  BY <1>1 DEF PullInv, Grouped, Forest
<1>4. idsLeft \subseteq Pull!Identifiers /\ namesLeft \subseteq Pull!Candidates
  BY KeysAndNames DEF PullInv, Grouped
<1> QED BY <1>2, <1>3, <1>4 DEF Pull!ConstellationTypeOK

LEMMA GroupsAreComponents ==
    ASSUME PullInv
    PROVE  Pull!GroupsAreTheComponents
<1>1. SUFFICES ASSUME Pull!Resolved, NEW i \in Pull!Positions, NEW j \in Pull!Positions
               PROVE  (j \in Pull!Group(i)) <=> Pull!Joined(Pull!SameOrganization, i, j)
  BY DEF Pull!GroupsAreTheComponents
<1>2. PICK rs, N, p, bi, bn : rs = pulled /\ N = Len(rs) /\ p = parents /\ bi = idLinks /\ bn = nameLinks
  OBVIOUS
<1>3. N \in Nat /\ Pull!Positions = 1 .. N /\ Grouped(rs, p, bi, bn, {}, {})
  BY <1>1, <1>2, RecordsHaveLength, ResolvedIs DEF PullInv
<1>4. j \in Pull!Group(i) <=> RootOf(N, p, j) = RootOf(N, p, i)
  BY <1>2, <1>3, GroupIs DEF GroupOf
<1>5. RootOf(N, p, j) = RootOf(N, p, i) <=>
          \A S \in SUBSET (1 .. N) : i \in S /\ Closed(rs, S) => j \in S
  BY <1>2, <1>3, GroupIsConnected
<1> QED BY <1>2, <1>4, <1>5, JoinedIs

\* A group in which a name linked two is not joined by identifiers, and one in which no
\* name did is.
LEMMA NamedOrIdentified ==
    ASSUME PullInv, Pull!Resolved, NEW i \in Pull!Positions, NEW G, G = Pull!Group(i)
    PROVE  /\ Pull!Exact(G) => \E x, y \in G : ~Pull!Joined(Pull!SameIdentifier, x, y)
           /\ ~Pull!Exact(G) => \A x, y \in G : Pull!Joined(Pull!SameIdentifier, x, y)
           /\ ~Pull!Exact(G) /\ ~Pull!Shared(G) => G = {i}
<1>1. PICK rs, N, p, bi, bn : rs = pulled /\ N = Len(rs) /\ p = parents /\ bi = idLinks /\ bn = nameLinks
  OBVIOUS
<1>2. N \in Nat /\ Pull!Positions = 1 .. N /\ Grouped(rs, p, bi, bn, {}, {})
  BY <1>1, RecordsHaveLength, ResolvedIs DEF PullInv
<1>3. G = GroupOf(N, p, i) /\ G \subseteq 1 .. N
  BY <1>1, GroupIs DEF GroupOf
<1>4. /\ Pull!Exact(G) <=> \E link \in bn : link \subseteq G
      /\ Pull!Shared(G) <=> \E link \in bi : link \subseteq G
  BY <1>1 DEF Pull!Exact, Pull!Shared
<1>5. ASSUME Pull!Exact(G) PROVE \E x, y \in G : ~Pull!Joined(Pull!SameIdentifier, x, y)
  <2>1. PICK link \in bn : link \subseteq G
    BY <1>4, <1>5
  <2>2. PICK x, y \in 1 .. N :
           link = {x, y} /\ \E S \in SUBSET (1 .. N) : IdClosed(rs, S) /\ x \in S /\ y \notin S
    BY <1>1, <1>2, ApartWithoutTheirName
  <2>3. ~Pull!Joined(Pull!SameIdentifier, x, y)
    BY <1>1, <1>2, <2>2, JoinedIs
  <2> QED BY <2>1, <2>2, <2>3
<1>6. ASSUME ~Pull!Exact(G), NEW x \in G, NEW y \in G PROVE Pull!Joined(Pull!SameIdentifier, x, y)
  <2>1. ASSUME NEW S \in SUBSET (1 .. N), x \in S, IdClosed(rs, S) PROVE y \in S
    BY <1>1, <1>2, <1>3, <1>4, <1>6, <2>1, JoinedWithoutNames
  <2> QED BY <1>1, <1>2, <1>3, <2>1, JoinedIs
<1>7. ASSUME ~Pull!Exact(G), ~Pull!Shared(G) PROVE G = {i}
  <2>1. \A link \in bi \cup bn : ~(link \subseteq G)
    BY <1>4, <1>7
  <2> QED BY <1>1, <1>2, <1>3, <2>1, UnlinkedIsAlone
<1> QED BY <1>5, <1>6, <1>7

LEMMA ReviewIsNeeded ==
    ASSUME PullInv
    PROVE  Pull!ReviewedUnlessIdentified
<1>1. SUFFICES ASSUME Pull!Resolved, NEW G \in Pull!Groups, Pull!Cardinality(G) > 1
               PROVE  Pull!ReviewRequired(G) <=> \E i, j \in G : ~Pull!Joined(Pull!SameIdentifier, i, j)
  BY DEF Pull!ReviewedUnlessIdentified
<1>2. PICK i \in Pull!Positions : G = Pull!Group(i)
  BY DEF Pull!Groups
<1>3. i \in G
  BY <1>2 DEF Pull!Group
<1>4. Pull!Exact(G) \/ Pull!Shared(G)
  <2>1. PICK j \in G : j # i
    BY <1>1, <1>3, CardinalityIsPulls, AnotherOne
  <2> QED BY <1>1, <1>2, <2>1, NamedOrIdentified
<1>5. Pull!ReviewRequired(G) <=> Pull!Exact(G)
  BY <1>4 DEF Pull!ReviewRequired, Pull!Status
<1> QED BY <1>1, <1>2, <1>5, NamedOrIdentified

LEMMA BestIsIdentified ==
    ASSUME PullInv
    PROVE  Pull!TheBestGradeIsIdentified
<1>1. SUFFICES ASSUME Pull!Resolved, NEW i \in Pull!Positions, Pull!Grade(i) = "A"
               PROVE  \E j \in Pull!Positions :
                         pulled[j].source # pulled[i].source /\ Pull!Joined(Pull!SameIdentifier, i, j)
  BY DEF Pull!TheBestGradeIsIdentified
<1>2. PICK G : G = Pull!Group(i)
  OBVIOUS
<1>3. Pull!Cardinality(Pull!Sources(G)) > 1 /\ Pull!Status(G) = "DETERMINISTIC_IDENTIFIER"
  BY <1>1, <1>2 DEF Pull!Grade
<1>4. i \in G /\ G \subseteq Pull!Positions
  BY <1>2 DEF Pull!Group
<1>5. pulled[i].source \in Pull!Sources(G)
  BY <1>4 DEF Pull!Sources
<1>6. PICK s \in Pull!Sources(G) : s # pulled[i].source
  BY <1>3, <1>5, CardinalityIsPulls, AnotherOne
<1>7. PICK j \in G : s = pulled[j].source
  BY <1>6 DEF Pull!Sources
<1>8. ~Pull!Exact(G)
  BY <1>3 DEF Pull!Status
<1> QED BY <1>1, <1>2, <1>4, <1>6, <1>7, <1>8, NamedOrIdentified

\* A record that shares a key with a group, or the candidate key of one a name linked,
\* is of that group.
LEMMA SharerIsInTheGroup ==
    ASSUME PullInv, Pull!Resolved, NEW i \in Pull!Positions, NEW j \in Pull!Positions,
           Pull!SameOrganization(i, j)
    PROVE  Pull!Group(i) = Pull!Group(j)
<1>1. PICK rs, N, p, bi, bn : rs = pulled /\ N = Len(rs) /\ p = parents /\ bi = idLinks /\ bn = nameLinks
  OBVIOUS
<1>2. N \in Nat /\ Pull!Positions = 1 .. N /\ Grouped(rs, p, bi, bn, {}, {})
  BY <1>1, RecordsHaveLength, ResolvedIs DEF PullInv
<1>3. ShareId(rs, i, j) \/ ShareName(rs, i, j)
  BY <1>1, SharedAre
<1>4. RootOf(N, p, i) = RootOf(N, p, j)
  BY <1>1, <1>2, <1>3, SharersAreTogether
<1>5. GroupOf(N, p, i) = GroupOf(N, p, j)
  BY <1>4 DEF GroupOf
<1>6. Pull!Group(i) = GroupOf(N, p, i) /\ Pull!Group(j) = GroupOf(N, p, j)
  BY <1>1, GroupIs
<1> QED BY <1>5, <1>6

LEMMA GroupOfItsMember ==
    ASSUME NEW i \in Pull!Positions, NEW j \in Pull!Group(i)
    PROVE  j \in Pull!Positions /\ Pull!Group(j) = Pull!Group(i)
BY DEF Pull!Group

KeysIn(G) == UNION {pulled[i].ids : i \in G}
NamesIn(G) == {pulled[i].candidate : i \in G} \ {Pull!NoCandidate}

LEMMA FingerprintIs ==
    ASSUME NEW G
    PROVE  Pull!Fingerprint(G) =
             IF KeysIn(G) # {} THEN <<"IDENTIFIER", KeysIn(G)>>
             ELSE IF Pull!Exact(G) /\ NamesIn(G) # {} THEN <<"CANDIDATE", NamesIn(G)>>
             ELSE <<"PROVENANCE", G>>
BY DEF Pull!Fingerprint, KeysIn, NamesIn

LEMMA IdsTellGroups ==
    ASSUME PullInv
    PROVE  Pull!GroupIdsAreDistinct
<1>1. SUFFICES ASSUME Pull!Resolved, NEW G \in Pull!Groups, NEW H \in Pull!Groups,
                      Pull!Fingerprint(G) = Pull!Fingerprint(H)
               PROVE  G = H
  BY DEF Pull!GroupIdsAreDistinct
<1>2. PICK g \in Pull!Positions : G = Pull!Group(g)
  BY DEF Pull!Groups
<1>3. PICK h \in Pull!Positions : H = Pull!Group(h)
  BY DEF Pull!Groups
<1>4. ASSUME NEW i \in G, NEW j \in H, Pull!SameOrganization(i, j) PROVE G = H
  <2>1. i \in Pull!Positions /\ Pull!Group(i) = G
    BY <1>2, GroupOfItsMember
  <2>2. j \in Pull!Positions /\ Pull!Group(j) = H
    BY <1>3, GroupOfItsMember
  <2> QED BY <1>1, <1>4, <2>1, <2>2, SharerIsInTheGroup
<1>5. CASE KeysIn(G) # {}
  <2>1. Pull!Fingerprint(G) = <<"IDENTIFIER", KeysIn(G)>>
    BY <1>5, FingerprintIs
  <2>2. KeysIn(H) = KeysIn(G)
    BY <1>1, <2>1, FingerprintIs
  <2>3. PICK k : k \in KeysIn(G) /\ k \in KeysIn(H)
    BY <1>5, <2>2
  <2>4. PICK i \in G : k \in pulled[i].ids
    BY <2>3 DEF KeysIn
  <2>5. PICK j \in H : k \in pulled[j].ids
    BY <2>3 DEF KeysIn
  <2>6. Pull!SameOrganization(i, j)
    BY <2>4, <2>5 DEF Pull!SameOrganization, Pull!SameIdentifier
  <2> QED BY <1>4, <2>6
<1>6. CASE KeysIn(G) = {} /\ Pull!Exact(G) /\ NamesIn(G) # {}
  <2>1. Pull!Fingerprint(G) = <<"CANDIDATE", NamesIn(G)>>
    BY <1>6, FingerprintIs
  <2>2. NamesIn(H) = NamesIn(G)
    BY <1>1, <2>1, FingerprintIs
  <2>3. PICK link \in nameLinks : link \subseteq G
    BY <1>6 DEF Pull!Exact
  <2>4. PICK rs, N, p, bi : rs = pulled /\ N = Len(rs) /\ p = parents /\ bi = idLinks
    OBVIOUS
  <2>5. N \in Nat /\ Pull!Positions = 1 .. N /\ Grouped(rs, p, bi, nameLinks, {}, {})
    BY <1>1, <2>4, RecordsHaveLength, ResolvedIs DEF PullInv
  <2>6. PICK x, y \in 1 .. N : link = {x, y} /\ ShareName(rs, x, y)
    <3>1. PICK bn : bn = nameLinks
      OBVIOUS
    <3> QED BY <2>3, <2>4, <2>5, <3>1, ApartWithoutTheirName
  <2>7. x \in G /\ pulled[x].candidate # Pull!NoCandidate /\ pulled[x].candidate \in NamesIn(G)
    BY <2>3, <2>4, <2>6 DEF ShareName, NamesIn
  <2>8. PICK j \in H : pulled[j].candidate = pulled[x].candidate
    BY <2>2, <2>7 DEF NamesIn
  <2>9. j \in Pull!Positions /\ ShareName(pulled, x, j)
    BY <1>3, <2>4, <2>6, <2>8, GroupOfItsMember DEF ShareName
  <2>10. Pull!SameOrganization(x, j)
    BY <2>5, <2>9, SharedAre
  <2> QED BY <1>4, <2>7, <2>10
<1>7. CASE KeysIn(G) = {} /\ ~(Pull!Exact(G) /\ NamesIn(G) # {})
  <2>1. Pull!Fingerprint(G) = <<"PROVENANCE", G>>
    BY <1>7, FingerprintIs
  <2> QED BY <1>1, <2>1, FingerprintIs
<1> QED BY <1>5, <1>6, <1>7

-----------------------------------------------------------------------------
\* The clocks.
LEMMA ClocksRunDown ==
    ASSUME NEW k, Pull!IsKind(k), readAt \in Nat, readAt' \in Nat, readAt' > readAt,
           Lifetime \in [DOMAIN Lifetime -> Nat], Before \in Nat, After \in Nat, Shortest \in Nat
    PROVE  /\ Pull!Clock(k) = "STALE" => Pull!Clock(k)' = "STALE"
           /\ Pull!Clock(k)' \in {"CURRENT", "RECHECK_DUE"} => Pull!Clock(k) \in {"CURRENT", "RECHECK_DUE"}
<1>1. CASE k.date = Pull!NoDate
  BY <1>1 DEF Pull!Clock
<1>2. CASE k.date # Pull!NoDate
  <2>1. PICK e, r : e = Pull!ExpiresAt(k) /\ r = Pull!RecheckAt(k)
    OBVIOUS
  <2>2. e \in Int
    BY <1>2, <2>1 DEF Pull!IsKind, Pull!ExpiresAt
  <2>3. Pull!Clock(k) = IF readAt > e THEN "STALE" ELSE IF readAt >= r THEN "RECHECK_DUE" ELSE "CURRENT"
    BY <1>2, <2>1 DEF Pull!Clock
  <2>4. Pull!Clock(k)' = IF readAt' > e THEN "STALE" ELSE IF readAt' >= r THEN "RECHECK_DUE" ELSE "CURRENT"
    BY <1>2, <2>1 DEF Pull!Clock, Pull!ExpiresAt, Pull!RecheckAt
  <2>5. readAt > e => readAt' > e
    BY <2>2
  <2> QED BY <2>3, <2>4, <2>5
<1> QED BY <1>1, <1>2

LEMMA TimeWeakens ==
    ASSUME Pull!ConstellationAssumption, PullInv, PullInv', [Pull!Next]_(Pull!vars), readAt' > readAt,
           NEW i \in Pull!Positions
    PROVE  /\ Pull!Rank[Pull!Grade(i)] <= Pull!Rank[Pull!Grade(i)']
           /\ Pull!Clock(pulled[i]) = "STALE" => Pull!Clock(pulled[i])' = "STALE"
<1>1. readAt \in Nat /\ readAt' \in Nat
  BY DEF PullInv
<1>2. UNCHANGED <<pulled, parents, idLinks, nameLinks>>
  <2>1. CASE Pull!LinkIdentifier
    BY <1>1, <2>1 DEF Pull!LinkIdentifier
  <2>2. CASE Pull!LinkCandidate
    BY <1>1, <2>2 DEF Pull!LinkCandidate
  <2>3. CASE Pull!Later
    BY <2>3 DEF Pull!Later
  <2>4. CASE UNCHANGED Pull!vars
    BY <1>1, <2>4 DEF Pull!vars
  <2> QED BY <2>1, <2>2, <2>3, <2>4 DEF Pull!Next
<1>3. PICK k : k = pulled[i]
  OBVIOUS
<1>4. pulled[i]' = k
  BY <1>2, <1>3
<1>5. Pull!IsKind(k)
  <2>1. k \in Kinds
    BY <1>3, RecordsHaveLength DEF PullInv
  <2> QED BY <2>1 DEF Pull!ConstellationAssumption
<1>6. /\ Pull!Clock(k) = "STALE" => Pull!Clock(k)' = "STALE"
      /\ Pull!Clock(k)' \in {"CURRENT", "RECHECK_DUE"} => Pull!Clock(k) \in {"CURRENT", "RECHECK_DUE"}
  BY <1>1, <1>5, ClocksRunDown DEF Pull!ConstellationAssumption
<1>7. PICK several, clock1, clock2 :
         /\ several <=> /\ Pull!Cardinality(Pull!Sources(Pull!Group(i))) > 1
                        /\ Pull!Status(Pull!Group(i)) = "DETERMINISTIC_IDENTIFIER"
         /\ clock1 = Pull!Clock(k) /\ clock2 = Pull!Clock(k)'
  <2>1. \E b \in BOOLEAN : b <=> /\ Pull!Cardinality(Pull!Sources(Pull!Group(i))) > 1
                                 /\ Pull!Status(Pull!Group(i)) = "DETERMINISTIC_IDENTIFIER"
    OBVIOUS
  <2> QED BY <2>1
<1>8. several <=> /\ Pull!Cardinality(Pull!Sources(Pull!Group(i)))' > 1
                  /\ Pull!Status(Pull!Group(i))' = "DETERMINISTIC_IDENTIFIER"
  <2>1. Pull!Group(i)' = Pull!Group(i)
    BY <1>2 DEF Pull!Group, Pull!Find, Pull!Positions
  <2> QED BY <1>2, <1>7, <2>1 DEF Pull!Sources, Pull!Status, Pull!Shared, Pull!Exact
<1>9. Pull!Grade(i) = IF clock1 = "STALE" \/ ~k.cited THEN "D"
                      ELSE IF k.signed /\ several THEN "A"
                      ELSE IF k.signed /\ clock1 \in {"CURRENT", "RECHECK_DUE"} THEN "B" ELSE "C"
  BY <1>3, <1>7 DEF Pull!Grade
<1>10. Pull!Grade(i)' = IF clock2 = "STALE" \/ ~k.cited THEN "D"
                        ELSE IF k.signed /\ several THEN "A"
                        ELSE IF k.signed /\ clock2 \in {"CURRENT", "RECHECK_DUE"} THEN "B" ELSE "C"
  BY <1>4, <1>7, <1>8 DEF Pull!Grade
<1>11. /\ clock1 = "STALE" => clock2 = "STALE"
       /\ clock2 \in {"CURRENT", "RECHECK_DUE"} => clock1 \in {"CURRENT", "RECHECK_DUE"}
  BY <1>6, <1>7
<1>12. /\ Pull!Rank["A"] = 1 /\ Pull!Rank["B"] = 2 /\ Pull!Rank["C"] = 3 /\ Pull!Rank["D"] = 4
  BY DEF Pull!Rank
<1>13. Pull!Rank[Pull!Grade(i)] <= Pull!Rank[Pull!Grade(i)']
  BY <1>9, <1>10, <1>11, <1>12
<1>14. Pull!Clock(pulled[i]) = "STALE" => Pull!Clock(pulled[i])' = "STALE"
  BY <1>3, <1>4, <1>6 DEF Pull!Clock, Pull!ExpiresAt, Pull!RecheckAt
<1> QED BY <1>13, <1>14

\* Whatever order the records of a pull and their keys come in, however many there are,
\* the groups of the union-find are the connected parts of the records under shared
\* identifiers and the candidate keys of several sources, and no two have one id; a group
\* needs no review just when identifiers alone join all of it, and the best grade has
\* another source behind it joined that way; time alone never improves a grade or a
\* clock (evidence_constellation.py).
THEOREM GroupsStayRight ==
    ASSUME Pull!ConstellationAssumption
    PROVE  Pull!Spec => GroupsAreRight
<1>1. Pull!Init => PullInv
  BY PullInitHolds
<1>2. PullInv /\ [Pull!Next]_(Pull!vars) => PullInv'
  BY PullNextHolds
<1>3. PullInv => /\ Pull!ConstellationTypeOK
                 /\ Pull!GroupsAreTheComponents
                 /\ Pull!ReviewedUnlessIdentified
                 /\ Pull!GroupIdsAreDistinct
                 /\ Pull!TheBestGradeIsIdentified
  BY LinksHaveTwo, GroupsAreComponents, ReviewIsNeeded, IdsTellGroups, BestIsIdentified
<1>4. PullInv /\ PullInv' /\ [Pull!Next]_(Pull!vars) =>
         [readAt' > readAt =>
            \A i \in Pull!Positions : /\ Pull!Rank[Pull!Grade(i)] <= Pull!Rank[Pull!Grade(i)']
                                      /\ Pull!Clock(pulled[i]) = "STALE" => Pull!Clock(pulled[i])' = "STALE"]_(Pull!vars)
  BY TimeWeakens
<1> QED BY <1>1, <1>2, <1>3, <1>4, PTL DEF Pull!Spec, GroupsAreRight, Pull!TimeOnlyWeakens
=============================================================================
