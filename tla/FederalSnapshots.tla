--------------------------- MODULE FederalSnapshots ---------------------------
(***************************************************************************)
(* The federal snapshots, the health of the source admitted from them, and *)
(* the groups that are made of the records they serve.  A check of the     *)
(* source reads one pinned revision of the dataset and never its head, and *)
(* a pull is grouped as it was read, so the three share no variable.       *)
(***************************************************************************)
EXTENDS SourceHealth

CONSTANTS
    Lanes, Echo, Dol, Tags, Publishers, Readers, SigningKey,
    SnapshotFreshFor, CacheFor, MaxClock, MaxCommits, None,            \* publication
    Kinds, MaxRecords, Benefit, Lifetime, Before, After, Shortest,     \* constellation
    LastReading

VARIABLES
    clock, dir, pub, hub, receipts, cache, load, served,
    pulled, parents, idLinks, nameLinks, idsLeft, namesLeft, readAt

Publication == INSTANCE SnapshotPublication WITH FreshFor <- SnapshotFreshFor

Pull == INSTANCE Constellation WITH
    LastTime <- LastReading, records <- pulled, parent <- parents, byId <- idLinks,
    byName <- nameLinks, ids <- idsLeft, names <- namesLeft, now <- readAt

snapshotVars == <<clock, dir, pub, hub, receipts, cache, load, served>>
pullVars     == <<pulled, parents, idLinks, nameLinks, idsLeft, namesLeft, readAt>>

\* Whatever publishers race, crash and retry: a publication receipt is never issued
\* for a commit that replaced the state the publisher had checked; at every revision
\* a reader can pin, each pointer leads to files that are there and no file of an
\* earlier revision is gone (publish_snapshot.py).
PublicationsAreWhole == Publication!PublicationsAreWhole

\* What a load returns was the lane's pointer on main at some moment no earlier
\* than the cache's life before the load began and no later than its end, and its
\* own date was not past its freshness when the load began (federal_snapshot.py,
\* echo_snapshot.py).
ServedIsCurrent == Publication!ServedIsCurrent

\* The dataset behaves as the abstract register (one new snapshot at a time, none
\* twice, no pointer moves back), and the answer for a revision the operator has
\* pinned changes only by ageing (publish_snapshot.py, source_admission.py).
HistoryStands == Publication!HistoryStands

\* Whatever order the records and the keys come in, the groups are the connected
\* parts of the records under shared identifiers and candidate keys, with ids of
\* their own; a group needs no review just when identifiers alone join all of it,
\* and the best grade has another source behind it joined that way.  Time alone
\* never improves what is said of a record: its grade does not rise and a stale
\* clock stays stale (evidence_constellation.py).
GroupsAreRight ==
    /\ []/\ Pull!ConstellationTypeOK
         /\ Pull!GroupsAreTheComponents
         /\ Pull!ReviewedUnlessIdentified
         /\ Pull!GroupIdsAreDistinct
         /\ Pull!TheBestGradeIsIdentified
    /\ Pull!TimeOnlyWeakens
=============================================================================
