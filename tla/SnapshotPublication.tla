------------------------- MODULE SnapshotPublication -------------------------
(***************************************************************************)
(* The federal refresh: collectors write a local bundle, publishers put    *)
(* bundles on the dataset hub with one compare-and-swap commit, and the    *)
(* web runtime and the operator's admission read them back.                *)
(*                                                                         *)
(* A bundle stands for its three content-addressed files: the record is    *)
(* its digest, and the path it is published under is a function of it.     *)
(* The hub is the sequence of the revisions of its main branch; a revision *)
(* is the tree a reader sees there.  Reads of one bundle's files are one   *)
(* step: they are under one content-addressed path, which no commit        *)
(* changes (EveryRevisionIsWhole).  Any hub call may fail and any process  *)
(* may stop before its next step (Stop, ReaderFails).                      *)
(***************************************************************************)
EXTENDS Naturals, Sequences

CONSTANTS
    Lanes,       \* the lanes, the keys of latest/<lane>.json
    Echo,        \* the lane of the EPA exporter: a source date, latest.json
    Dol,         \* the lane whose bundles may carry an admission signature
    Tags,        \* tells apart bundles built in one tick
    Publishers,  \* runners: a collector, then a publisher, in one directory
    Readers,     \* request threads of the web runtime
    SigningKey,  \* whether DOL_SNAPSHOT_SIGNING_KEY is configured
    FreshFor,    \* FRESHNESS_DAYS in ticks
    CacheFor,    \* the 15 minutes of _CACHE in ticks
    MaxClock,    \* bound on the clock
    MaxCommits,  \* bound on the hub
    None

LaneAssumption == {Echo, Dol} \subseteq Lanes /\ Echo # Dol
ClockAssumption == {FreshFor, CacheFor, MaxClock, MaxCommits} \subseteq Nat /\ CacheFor > 0

Clocks == 0 .. MaxClock

\* A federal bundle has no source date of its own: asOf is its created_at.
Bundles == [lane : Lanes, created : Clocks, asOf : Clocks, tag : Tags]

NoneAssumption == None \notin Bundles

VARIABLES
    clock,
    dir,        \* dir[p]: p's workspace: the bundle, its signature, the receipt
    pub,        \* pub[p]: the publication p is in the middle of
    hub,        \* the revisions of main
    receipts,   \* publication receipts written, status VERIFIED_PUBLISHED
    cache,      \* _CACHE: per federal lane, what was loaded and until when
    load,       \* load[r]: the load r is in the middle of
    served      \* served[r]: what r's last load returned

vars == <<clock, dir, pub, hub, receipts, cache, load, served>>

EmptyDir == [bundle |-> None, signed |-> FALSE, receipt |-> FALSE]
NotPublishing == [phase |-> "idle", bundle |-> None, signed |-> FALSE, parent |-> 0, commit |-> 0]
NotLoading == [phase |-> "idle", lane |-> Echo, since |-> 0, bundle |-> None]
NothingServed == [bundle |-> None, since |-> 0, at |-> 0]
NotCached == [bundle |-> None, until |-> 0]

\* The repository exists and holds no snapshot.
EmptyTree == [files |-> {}, signed |-> {}, latest |-> [l \in Lanes |-> None],
              compat |-> None, adds |-> None, at |-> 0]

Init ==
    /\ clock = 0
    /\ dir = [p \in Publishers |-> EmptyDir]
    /\ pub = [p \in Publishers |-> NotPublishing]
    /\ hub = <<EmptyTree>>
    /\ receipts = {}
    /\ cache = [l \in Lanes \ {Echo} |-> NotCached]
    /\ load = [r \in Readers |-> NotLoading]
    /\ served = [r \in Readers |-> NothingServed]

-----------------------------------------------------------------------------
(* Rules *)

\* What main resolves to.
Main == hub[Len(hub)]

\* Mutated form: freshness counts from the processing date.
FreshByProcessing(b, now) == b.created <= now /\ b.asOf <= b.created /\ now - b.created <= FreshFor

\* The age that must stay within FRESHNESS_DAYS, and no date in the future.
Fresh(b, now) == b.created <= now /\ b.asOf <= b.created /\ now - b.asOf <= FreshFor

\* latest.json for ECHO, latest/<lane>.json for the others.
PointerOf(tree, l) == IF l = Echo THEN tree.compat ELSE tree.latest[l]

\* A publication may not move the lane's pointer to an older processing date,
\* nor, for ECHO, to an older source date.
Follows(b, previous) ==
    /\ previous.created <= b.created
    /\ b.lane = Echo => previous.asOf <= b.asOf

\* Mutated form: the compatibility pointer is left out of the commit.
TreeLessCompat(parent, b, signed) ==
    [parent EXCEPT !.files = @ \cup {b}, !.signed = IF signed THEN @ \cup {b} ELSE @,
                   !.latest[b.lane] = b, !.adds = b, !.at = clock]

\* What one commit writes: the bundle's files, its signature, its lane's pointer
\* and, for ECHO, the compatibility pointer.
Tree(parent, b, signed) ==
    [files  |-> parent.files \cup {b},
     signed |-> IF signed THEN parent.signed \cup {b} ELSE parent.signed,
     latest |-> [parent.latest EXCEPT ![b.lane] = b],
     compat |-> IF b.lane = Echo THEN b ELSE parent.compat,
     adds   |-> b,
     at     |-> clock]

\* Mutated form: the pointer is read from main, not from the pinned revision.
AdmissionAtMain(n, now) ==
    LET b == Main.latest[Dol] IN
    IF b = None \/ b \notin Main.signed THEN "SOURCE_TRANSPORT_UNAVAILABLE"
    ELSE IF b.created > now THEN "SOURCE_INTEGRITY_FAILED"
    ELSE IF now - b.created >= FreshFor THEN "SOURCE_STALE"
    ELSE "OK"

\* What the operator's admission answers for a reviewed revision: the first Hold
\* it meets, or OK.
AdmissionAt(n, now) ==
    LET b == hub[n].latest[Dol] IN
    IF b = None \/ b \notin hub[n].signed THEN "SOURCE_TRANSPORT_UNAVAILABLE"
    ELSE IF b.created > now THEN "SOURCE_INTEGRITY_FAILED"
    ELSE IF now - b.created >= FreshFor THEN "SOURCE_STALE"
    ELSE "OK"

-----------------------------------------------------------------------------
(* Collection: a new directory, then for the signed lane the signature *)

Built(p) ==
    {b \in Bundles : b.created = clock /\ Fresh(b, clock) /\ (b.lane = Echo \/ b.asOf = clock)}

Collect(p) ==
    /\ dir[p] = EmptyDir
    /\ \E b \in Built(p) : dir' = [dir EXCEPT ![p].bundle = b]
    /\ UNCHANGED <<clock, pub, hub, receipts, cache, load, served>>

\* The signature is written into the directory after the bundle is in place.
SignBundle(p) ==
    /\ SigningKey
    /\ dir[p].bundle # None
    /\ dir[p].bundle.lane = Dol
    /\ ~dir[p].signed
    /\ pub[p].phase = "idle"
    /\ dir' = [dir EXCEPT ![p].signed = TRUE]
    /\ UNCHANGED <<clock, pub, hub, receipts, cache, load, served>>

\* The next job starts in a new workspace.
NewWorkspace(p) ==
    /\ pub[p].phase = "idle"
    /\ dir[p] # EmptyDir
    /\ dir' = [dir EXCEPT ![p] = EmptyDir]
    /\ UNCHANGED <<clock, pub, hub, receipts, cache, load, served>>

-----------------------------------------------------------------------------
(* Publication *)

\* The receipt's path must be new; freeze the bytes and verify them.
Freeze(p) ==
    /\ pub[p].phase = "idle"
    /\ dir[p].bundle # None
    /\ ~dir[p].receipt
    /\ Fresh(dir[p].bundle, clock)
    /\ pub' = [pub EXCEPT ![p] = [NotPublishing EXCEPT !.phase = "frozen",
                          !.bundle = dir[p].bundle, !.signed = dir[p].signed]]
    /\ UNCHANGED <<clock, dir, hub, receipts, cache, load, served>>

ResolveHead(p) ==
    /\ pub[p].phase = "frozen"
    /\ pub' = [pub EXCEPT ![p].phase = "resolved", ![p].parent = Len(hub)]
    /\ UNCHANGED <<clock, dir, hub, receipts, cache, load, served>>

\* Mutated form: the lane's pointer is not compared.
CheckParentPrefixOnly(p) ==
    /\ pub[p].phase = "resolved"
    /\ pub' = IF pub[p].bundle \notin hub[pub[p].parent].files
              THEN [pub EXCEPT ![p].phase = "ready"]
              ELSE [pub EXCEPT ![p] = NotPublishing]
    /\ UNCHANGED <<clock, dir, hub, receipts, cache, load, served>>

\* Mutated form: a pointer that does not follow leaves the publication undecided.
CheckParentKeepsGoing(p) ==
    /\ pub[p].phase = "resolved"
    /\ pub' = [pub EXCEPT ![p].phase = "absent"]
    /\ UNCHANGED <<clock, dir, hub, receipts, cache, load, served>>

\* Only a not-found answer at the parent proves the prefix absent; the pointer
\* is read at the parent as well, and a revision never changes.
CheckParent(p) ==
    LET b == pub[p].bundle
        parent == hub[pub[p].parent]
        previous == PointerOf(parent, b.lane)
    IN
    /\ pub[p].phase = "resolved"
    /\ pub' = IF b \notin parent.files /\ (previous = None \/ Follows(b, previous))
              THEN [pub EXCEPT ![p].phase = "ready"]
              ELSE [pub EXCEPT ![p] = NotPublishing]
    /\ UNCHANGED <<clock, dir, hub, receipts, cache, load, served>>

\* Mutated form: the commit names no parent.
HubAcceptsAny(p) == Len(hub) >= pub[p].parent

\* create_commit with parent_commit: the hub refuses when its head has moved, and
\* an accepted commit may go unacknowledged.
HubAccepts(p) == pub[p].parent = Len(hub)

Commit(p) ==
    /\ pub[p].phase = "ready"
    /\ IF HubAccepts(p)
       THEN /\ Len(hub) <= MaxCommits
            /\ hub' = Append(hub, Tree(Main, pub[p].bundle, pub[p].signed))
            /\ \/ pub' = [pub EXCEPT ![p].phase = "committed", ![p].commit = Len(hub) + 1]
               \/ pub' = [pub EXCEPT ![p] = NotPublishing]
       ELSE /\ pub' = [pub EXCEPT ![p] = NotPublishing]
            /\ UNCHANGED hub
    /\ UNCHANGED <<clock, dir, receipts, cache, load, served>>

\* Every written file is downloaded at the returned commit and compared; only then
\* is the receipt written.
ReadBack(p) ==
    LET b == pub[p].bundle
        revision == pub[p].commit
    IN
    /\ pub[p].phase = "committed"
    /\ b \in hub[revision].files /\ hub[revision].latest[b.lane] = b
    /\ receipts' = receipts \cup {[bundle |-> b, parent |-> pub[p].parent, commit |-> revision]}
    /\ dir' = [dir EXCEPT ![p].receipt = TRUE]
    /\ pub' = [pub EXCEPT ![p] = NotPublishing]
    /\ UNCHANGED <<clock, hub, cache, load, served>>

Stop(p) ==
    /\ pub[p].phase # "idle"
    /\ pub' = [pub EXCEPT ![p] = NotPublishing]
    /\ UNCHANGED <<clock, dir, hub, receipts, cache, load, served>>

-----------------------------------------------------------------------------
(* Readers *)

Returns(r, b, since) ==
    /\ served' = [served EXCEPT ![r] = [bundle |-> b, since |-> since, at |-> clock]]
    /\ load' = [load EXCEPT ![r] = NotLoading]

\* Mutated form: the cached entry does not expire while its data is fresh.
CacheHoldsWhileFresh(l) ==
    /\ cache[l].bundle # None
    /\ clock - cache[l].bundle.created <= FreshFor

CacheHolds(l) ==
    /\ cache[l].until > clock
    /\ clock - cache[l].bundle.created <= FreshFor

\* The federal cache is consulted under its lock; ECHO has none.
BeginLoad(r, l) ==
    /\ load[r].phase = "idle"
    /\ IF l # Echo /\ CacheHolds(l)
       THEN Returns(r, cache[l].bundle, clock)
       ELSE /\ load' = [load EXCEPT ![r] = [phase |-> "pointer", lane |-> l,
                                            since |-> clock, bundle |-> None]]
            /\ served' = [served EXCEPT ![r] = NothingServed]
    /\ UNCHANGED <<clock, dir, pub, hub, receipts, cache>>

ReadPointer(r) ==
    LET b == PointerOf(Main, load[r].lane) IN
    /\ load[r].phase = "pointer"
    /\ load' = IF b = None THEN [load EXCEPT ![r] = NotLoading]
               ELSE [load EXCEPT ![r].phase = "bundle", ![r].bundle = b]
    /\ UNCHANGED <<clock, dir, pub, hub, receipts, cache, served>>

\* The files are read wherever main now is, verified against the pointer and the
\* clock the load began with, and cached without looking at the cache again.
ReadBundle(r) ==
    LET b == load[r].bundle
        l == load[r].lane
        since == load[r].since
    IN
    /\ load[r].phase = "bundle"
    /\ IF b \in Main.files /\ Fresh(b, since)
       THEN /\ Returns(r, b, since)
            /\ cache' = IF l = Echo THEN cache
                        ELSE [cache EXCEPT ![l] = [bundle |-> b, until |-> since + CacheFor]]
       ELSE /\ load' = [load EXCEPT ![r] = NotLoading]
            /\ UNCHANGED <<cache, served>>
    /\ UNCHANGED <<clock, dir, pub, hub, receipts>>

ReaderFails(r) ==
    /\ load[r].phase # "idle"
    /\ load' = [load EXCEPT ![r] = NotLoading]
    /\ UNCHANGED <<clock, dir, pub, hub, receipts, cache, served>>

Tick ==
    /\ clock < MaxClock
    /\ clock' = clock + 1
    /\ UNCHANGED <<dir, pub, hub, receipts, cache, load, served>>

PublisherStep(p) ==
    \/ Collect(p) \/ SignBundle(p) \/ NewWorkspace(p)
    \/ Freeze(p) \/ ResolveHead(p) \/ CheckParent(p)
    \/ Commit(p) \/ ReadBack(p) \/ Stop(p)

ReaderStep(r) ==
    \/ \E l \in Lanes : BeginLoad(r, l)
    \/ ReadPointer(r) \/ ReadBundle(r) \/ ReaderFails(r)

Next ==
    \/ \E p \in Publishers : PublisherStep(p)
    \/ \E r \in Readers : ReaderStep(r)
    \/ Tick

Spec == Init /\ [][Next]_vars

-----------------------------------------------------------------------------
(* Properties *)

Phases == {"idle", "frozen", "resolved", "ready", "committed"}

\* Type of the state.
PublicationTypeOK ==
    /\ clock \in Clocks
    /\ dir \in [Publishers -> [bundle : Bundles \cup {None}, signed : BOOLEAN, receipt : BOOLEAN]]
    /\ pub \in [Publishers -> [phase : Phases, bundle : Bundles \cup {None},
                               signed : BOOLEAN, parent : Nat, commit : Nat]]
    /\ Len(hub) \in 1 .. MaxCommits + 1
    /\ \A n \in DOMAIN hub : hub[n].at \in Clocks /\ hub[n].files \subseteq Bundles
    /\ load \in [Readers -> [phase : {"idle", "pointer", "bundle"}, lane : Lanes,
                             since : Clocks, bundle : Bundles \cup {None}]]

\* Whatever publishers race, crash and retry, the dataset behaves as the abstract
\* register: one new snapshot at a time, none twice, no pointer moves back
\* (publish_snapshot.py, the prefix and pointer checks and the parent commit).
Register == INSTANCE PublishedRegister
    WITH published <- Main.files, latest <- Main.latest

RegisterSpec == Register!Spec

\* A publication receipt is never issued for a commit that replaced the state the
\* publisher had checked: the commit it names adds its bundle, and nothing else,
\* to the parent revision it names (the observed_parent_commit of the receipt).
ReceiptsNameTheirCommit ==
    \A x \in receipts :
        /\ x.commit \in DOMAIN hub
        /\ hub[x.commit].adds = x.bundle
        /\ hub[x.commit].files \ hub[x.parent].files = {x.bundle}
        /\ \A l \in Lanes \ {x.bundle.lane} : hub[x.commit].latest[l] = hub[x.parent].latest[l]

\* At every revision a reader can pin, each pointer leads to files that are there,
\* the compatibility pointer is ECHO's, and no file of an earlier revision is gone.
EveryRevisionIsWhole ==
    \A n \in DOMAIN hub :
        /\ \A l \in Lanes : hub[n].latest[l] # None =>
               hub[n].latest[l] \in hub[n].files /\ hub[n].latest[l].lane = l
        /\ hub[n].compat = hub[n].latest[Echo]
        /\ n > 1 => hub[n - 1].files \subseteq hub[n].files

\* What a load returns was the lane's pointer on main at some moment no earlier
\* than CacheFor before the load began and no later than its end, however slow
\* the load was and whatever other threads put in the cache meanwhile.
ServedWasCurrent ==
    \A r \in Readers : LET s == served[r] IN
        s.bundle # None =>
            \E n \in DOMAIN hub :
                /\ PointerOf(hub[n], s.bundle.lane) = s.bundle
                /\ hub[n].at <= s.at
                /\ n < Len(hub) => hub[n + 1].at + CacheFor > s.since

\* No load returns data whose own date, the source date for ECHO, is past its
\* freshness at the moment the load began, from the cache either.
ServedIsFresh ==
    \A r \in Readers : served[r].bundle # None =>
        served[r].since - served[r].bundle.asOf <= FreshFor

OnlyAges ==
    \A n \in DOMAIN hub : AdmissionAt(n, clock)' # AdmissionAt(n, clock) =>
        AdmissionAt(n, clock) = "OK" /\ AdmissionAt(n, clock)' = "SOURCE_STALE"

\* The answer for a revision the operator has pinned changes only by ageing:
\* nothing published later can turn an admissible revision into another answer
\* than stale, or make an inadmissible one admissible.
PinnedRevisionsOnlyAge == [][OnlyAges]_<<hub, clock>>

\* What is published is published whole, and a receipt tells which commit did it
\* (publish_snapshot.py).
PublicationsAreWhole == PublicationTypeOK /\ ReceiptsNameTheirCommit /\ EveryRevisionIsWhole

\* What is served was current and fresh (federal_snapshot.py, echo_snapshot.py).
ServedIsCurrent == ServedWasCurrent /\ ServedIsFresh

\* Neither the register of snapshots nor a pinned revision is rewritten.
HistoryStands == RegisterSpec /\ PinnedRevisionsOnlyAge

=============================================================================
