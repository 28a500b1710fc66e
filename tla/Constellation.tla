----------------------------- MODULE Constellation -----------------------------
(***************************************************************************)
(* src/app/evidence_constellation.py: the records of one pull are grouped  *)
(* into organizations, first by shared authoritative identifiers and then  *)
(* by exact name, state and ZIP across sources, in a union-find; every     *)
(* group gets a status and an id, every record a clock and a proof grade.  *)
(* The records come in any order, and so do the keys they are linked by.   *)
(* The clocks run on over the same records afterwards.                     *)
(***************************************************************************)
EXTENDS Integers, Sequences, FiniteSets

CONSTANTS
    Kinds,         \* records a source may report; see IsKind
    MaxRecords,    \* bound: records of a pull
    Benefit,       \* the source whose clock is an anniversary
    Lifetime,      \* _LIFETIME_DAYS, in steps of the clock
    Before, After, \* the anniversary's ninety days before and thirty after
    Shortest,      \* the least number of days before a recheck
    LastTime       \* bound: the clock stops here

NoCandidate == "none"
NoDate == -1

IsKind(k) ==
    /\ DOMAIN k = {"ids", "candidate", "source", "date", "signed", "cited"}
    /\ IsFiniteSet(k.ids) /\ k.source \in DOMAIN Lifetime
    /\ k.date \in Nat \cup {NoDate} /\ {k.signed, k.cited} \subseteq BOOLEAN

ConstellationAssumption ==
    /\ \A k \in Kinds : IsKind(k)
    /\ Lifetime \in [DOMAIN Lifetime -> Nat] /\ {MaxRecords, Before, After, Shortest, LastTime} \subseteq Nat

VARIABLES
    records,  \* the pull
    parent,   \* the union-find over their positions
    byId,     \* identifier_links
    byName,   \* candidate_links
    ids,      \* identifiers still to be linked by
    names,    \* candidate keys still to be linked by
    now       \* the time the clocks are read at

vars == <<records, parent, byId, byName, ids, names, now>>

Positions == DOMAIN records
Identifiers == UNION {records[i].ids : i \in Positions}
Candidates == {records[i].candidate : i \in Positions} \ {NoCandidate}

Init ==
    /\ \E n \in 1 .. MaxRecords : records \in [1 .. n -> Kinds]
    /\ parent = [i \in Positions |-> i]
    /\ byId = {} /\ byName = {} /\ now = 0
    /\ ids = Identifiers /\ names = Candidates

------------------------------------------------------------------------------
(* _UnionFind; find also shortens the path, which leaves the root alone.   *)

Find(p, i) ==
    LET up[n \in 0 .. Len(records)] == IF n = 0 THEN i ELSE p[up[n - 1]]
    IN  up[Len(records)]

Union(p, i, j) == [p EXCEPT ![Find(p, j)] = Find(p, i)]

First(M) == CHOOSE i \in M : \A j \in M : i <= j

\* The members of a key, each united with the first.
UnionAll(p, M) ==
    LET upTo[n \in 0 .. Len(records)] ==
            IF n = 0 THEN p
            ELSE IF n \in M \ {First(M)} THEN Union(upTo[n - 1], First(M), n) ELSE upTo[n - 1]
    IN  upTo[Len(records)]

\* Mutated form: of the members of a key only the last is linked.
LinkedLast(M) == IF M = {} THEN {} ELSE {First(M), CHOOSE i \in M : \A j \in M : j <= i}
\* Those a key links.
Linked(M) == M

LinkIdentifier ==
    /\ \E k \in ids :
          LET M == Linked({i \in Positions : k \in records[i].ids})
          IN  /\ parent' = UnionAll(parent, M)
              /\ byId' = byId \cup {{First(M), i} : i \in M \ {First(M)}}
              /\ ids' = ids \ {k}
    /\ UNCHANGED <<records, byName, names, now>>

AcrossSources(M) == Cardinality({records[i].source : i \in M}) >= 2

\* Mutated form: the first member is linked to itself.
NewlyEach(p, M) == M
\* The members not with the first yet when their turn comes.
Newly(p, M) ==
    {i \in M \ {First(M)} :
        Find(UnionAll(p, {j \in M : j < i}), First(M)) # Find(UnionAll(p, {j \in M : j < i}), i)}

LinkCandidate ==
    /\ ids = {}
    /\ \E c \in names :
          LET M == {i \in Positions : records[i].candidate = c}
          IN  /\ names' = names \ {c}
              /\ IF AcrossSources(M)
                 THEN /\ parent' = UnionAll(parent, M)
                      /\ byName' = byName \cup {{First(M), i} : i \in Newly(parent, M)}
                 ELSE UNCHANGED <<parent, byName>>
    /\ UNCHANGED <<records, byId, ids, now>>

Resolved == ids = {} /\ names = {}

\* The same records, annotated later.
Later ==
    /\ Resolved /\ now < LastTime /\ now' = now + 1
    /\ UNCHANGED <<records, parent, byId, byName, ids, names>>

Next == LinkIdentifier \/ LinkCandidate \/ Later

Spec == Init /\ [][Next]_vars

------------------------------------------------------------------------------
(* What a group and a record are told to be.                               *)

Group(i) == {j \in Positions : Find(parent, j) = Find(parent, i)}
Groups == {Group(i) : i \in Positions}
Sources(G) == {records[i].source : i \in G}
Shared(G) == \E link \in byId : link \subseteq G
Exact(G) == \E link \in byName : link \subseteq G

\* Mutated form: an identifier shared by two makes the whole group deterministic.
StatusOfAPair(G) ==
    IF Shared(G) THEN "DETERMINISTIC_IDENTIFIER"
    ELSE IF Exact(G) THEN "EXACT_NAME_STATE_ZIP_CANDIDATE"
    ELSE IF \E i \in G : records[i].ids # {} THEN "SOURCE_IDENTIFIER_ONLY" ELSE "UNRESOLVED"
Status(G) ==
    IF Shared(G) /\ Exact(G) THEN "MIXED_IDENTIFIER_AND_EXACT_CANDIDATE"
    ELSE IF Shared(G) THEN "DETERMINISTIC_IDENTIFIER"
    ELSE IF Exact(G) THEN "EXACT_NAME_STATE_ZIP_CANDIDATE"
    ELSE IF \E i \in G : records[i].ids # {} THEN "SOURCE_IDENTIFIER_ONLY" ELSE "UNRESOLVED"

ReviewRequired(G) == Status(G) \notin {"DETERMINISTIC_IDENTIFIER", "SOURCE_IDENTIFIER_ONLY"}

\* Mutated form: a candidate key names a group nothing was linked in.
FingerprintByName(G) ==
    LET keys == UNION {records[i].ids : i \in G}
        candidates == {records[i].candidate : i \in G} \ {NoCandidate}
    IN  IF keys # {} THEN <<"IDENTIFIER", keys>>
        ELSE IF candidates # {} THEN <<"CANDIDATE", candidates>>
        ELSE <<"PROVENANCE", G>>
\* What a group's id is the digest of; a position stands for the receipt and
\* record id that are a record's own.
Fingerprint(G) ==
    LET keys == UNION {records[i].ids : i \in G}
        candidates == {records[i].candidate : i \in G} \ {NoCandidate}
    IN  IF keys # {} THEN <<"IDENTIFIER", keys>>
        ELSE IF Exact(G) /\ candidates # {} THEN <<"CANDIDATE", candidates>>
        ELSE <<"PROVENANCE", G>>

\* _deal_clock.
ExpiresAt(k) == IF k.source = Benefit THEN k.date + After ELSE k.date + Lifetime[k.source]
RecheckAt(k) ==
    IF k.source = Benefit THEN k.date - Before
    ELSE LET third == (Lifetime[k.source] * 2) \div 3
         IN  k.date + IF third > Shortest THEN third ELSE Shortest

\* Mutated form: the two thresholds are swapped.
ClockSwapped(k) ==
    IF k.date = NoDate THEN "UNKNOWN"
    ELSE IF now > ExpiresAt(k) THEN "RECHECK_DUE"
    ELSE IF now >= RecheckAt(k) THEN "STALE" ELSE "CURRENT"
Clock(k) ==
    IF k.date = NoDate THEN "UNKNOWN"
    ELSE IF now > ExpiresAt(k) THEN "STALE"
    ELSE IF now >= RecheckAt(k) THEN "RECHECK_DUE" ELSE "CURRENT"

\* Mutated form: any group of several sources will do.
GradeOfSources(i) ==
    IF Clock(records[i]) = "STALE" \/ ~records[i].cited THEN "D"
    ELSE IF records[i].signed /\ Cardinality(Sources(Group(i))) > 1 THEN "A"
    ELSE IF records[i].signed /\ Clock(records[i]) \in {"CURRENT", "RECHECK_DUE"} THEN "B" ELSE "C"
\* _proof.
Grade(i) ==
    IF Clock(records[i]) = "STALE" \/ ~records[i].cited THEN "D"
    ELSE IF /\ records[i].signed /\ Cardinality(Sources(Group(i))) > 1
            /\ Status(Group(i)) = "DETERMINISTIC_IDENTIFIER" THEN "A"
    ELSE IF records[i].signed /\ Clock(records[i]) \in {"CURRENT", "RECHECK_DUE"} THEN "B" ELSE "C"

------------------------------------------------------------------------------

ConstellationTypeOK ==
    /\ parent \in [Positions -> Positions]
    /\ \A link \in byId \cup byName : link \subseteq Positions /\ Cardinality(link) = 2
    /\ ids \subseteq Identifiers /\ names \subseteq Candidates

SameIdentifier(i, j) == records[i].ids \cap records[j].ids # {}
SameOrganization(i, j) ==
    \/ SameIdentifier(i, j)
    \/ /\ records[i].candidate = records[j].candidate /\ records[i].candidate # NoCandidate
       /\ Cardinality({records[m].source : m \in {x \in Positions : records[x].candidate = records[i].candidate}}) >= 2

\* i and j are joined by a chain of pairs that R relates.
Joined(R(_, _), i, j) ==
    \A S \in SUBSET Positions :
        i \in S /\ (\A x \in S, y \in Positions : R(x, y) => y \in S) => j \in S

\* Whatever order the records and the keys come in, the groups are the
\* connected parts of the records under shared identifiers and the candidate
\* keys of several sources.
GroupsAreTheComponents ==
    Resolved => \A i, j \in Positions : (j \in Group(i)) <=> Joined(SameOrganization, i, j)

\* A group of several records needs no review just when identifiers alone join
\* all of them: one pair that shares an identifier does not vouch for a record
\* that only its name brought in, in whatever order they were linked.
ReviewedUnlessIdentified ==
    Resolved => \A G \in Groups :
        Cardinality(G) > 1 =>
            (ReviewRequired(G) <=> \E i, j \in G : ~Joined(SameIdentifier, i, j))

\* Two groups never have the same id.
GroupIdsAreDistinct ==
    Resolved => \A G, H \in Groups : G # H => Fingerprint(G) # Fingerprint(H)

\* The best grade has another source behind it, joined by identifiers alone.
TheBestGradeIsIdentified ==
    Resolved => \A i \in Positions : Grade(i) = "A" =>
        \E j \in Positions : records[j].source # records[i].source /\ Joined(SameIdentifier, i, j)

Rank == [A |-> 1, B |-> 2, C |-> 3, D |-> 4]

\* Time alone never improves what is said of a record: its grade does not rise
\* and a stale clock stays stale.
TimeOnlyWeakens ==
    [][now' > now =>
         \A i \in Positions : /\ Rank[Grade(i)] <= Rank[Grade(i)']
                              /\ Clock(records[i]) = "STALE" => Clock(records[i])' = "STALE"]_vars

=============================================================================
