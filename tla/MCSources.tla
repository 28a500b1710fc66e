------------------------------ MODULE MCSources ------------------------------
(***************************************************************************)
(* The way of federal snapshots, for TLC: their publication and loading,   *)
(* the health of the admitted source, and the groups and clocks made of    *)
(* the records.  They share no variable; `part` says which of them a       *)
(* behaviour is about, and the others rest in their initial state.         *)
(***************************************************************************)
EXTENDS FederalSnapshots, TLC, Integers

CONSTANTS c1, c2, tag

VARIABLE part

\* An old snapshot and a new one, signed with different keys.
MCRevisions == {"old", "new"}
MCObservedAt == [r \in MCRevisions |-> IF r = "old" THEN 1 ELSE 3]
MCSignedWith == [r \in MCRevisions |-> IF r = "old" THEN 1 ELSE 2]
MCPolicies == {[snapshot |-> "old", until |-> 9, research |-> TRUE],
               [snapshot |-> "new", until |-> 4, research |-> TRUE],
               [snapshot |-> "new", until |-> 9, research |-> FALSE]}

\* Two publishers that race; two threads that load; and one whose data and cache age.
Race == INSTANCE SnapshotPublication WITH
    Readers <- {}, Tags <- {tag}, FreshFor <- SnapshotFreshFor, MaxClock <- 2
Loads == INSTANCE SnapshotPublication WITH
    Publishers <- {c1}, Tags <- {tag}, FreshFor <- SnapshotFreshFor, SigningKey <- FALSE,
    MaxClock <- 1
Ages == INSTANCE SnapshotPublication WITH
    Publishers <- {c1}, Readers <- {c1}, FreshFor <- SnapshotFreshFor, SigningKey <- FALSE

Kind(i, c, s, d) == [ids |-> i, candidate |-> c, source |-> s, date |-> d, signed |-> TRUE, cited |-> TRUE]

\* Identifiers of two systems, two candidate keys and three sources.
GroupKinds ==
    {Kind({"uei"}, "c1", "fmcsa", 0), Kind({"uei", "frs"}, "none", "echo", 0), Kind({"frs"}, "c2", "echo", 0),
     Kind({}, "c1", "echo", 0), Kind({}, "c1", "form5500", 0), Kind({}, "c2", "fmcsa", 0), Kind({}, "none", "fmcsa", 0)}

ClockKinds ==
    {Kind({"uei"}, "none", "fmcsa", 0), Kind({"uei"}, "none", "echo", 1), Kind({}, "c1", "form5500", 3),
     [Kind({"uei"}, "c1", "echo", 0) EXCEPT !.signed = FALSE], [Kind({"uei"}, "c1", "fmcsa", 2) EXCEPT !.cited = FALSE],
     Kind({"uei"}, "c1", "echo", -1)}

Lifetimes == [s \in {"fmcsa", "echo", "form5500"} |-> IF s = "fmcsa" THEN 1 ELSE 3]

MCKinds == GroupKinds \cup ClockKinds

\* Pulls of more records, and fewer records over the time their clocks take.
Groups == INSTANCE Constellation WITH
    Kinds <- GroupKinds, LastTime <- 0, records <- pulled, parent <- parents, byId <- idLinks,
    byName <- nameLinks, ids <- idsLeft, names <- namesLeft, now <- readAt
Clocks == INSTANCE Constellation WITH
    Kinds <- ClockKinds, MaxRecords <- MaxRecords - 1, LastTime <- LastReading, records <- pulled,
    parent <- parents, byId <- idLinks, byName <- nameLinks, ids <- idsLeft, names <- namesLeft,
    now <- readAt

ASSUME /\ Publication!LaneAssumption /\ Publication!ClockAssumption /\ Publication!NoneAssumption
       /\ Pull!ConstellationAssumption

\* Checks, publishers and readers are interchangeable.
Perms == Permutations({c1, c2})

NoPull ==
    /\ pulled = <<>> /\ parents = <<>> /\ idLinks = {} /\ nameLinks = {}
    /\ idsLeft = {} /\ namesLeft = {} /\ readAt = 0

SourcesInit ==
    /\ part \in {"health", "race", "loads", "ages", "groups", "clocks"}
    /\ Init
    /\ \/ part = "health"
       \/ policy = [snapshot |-> "old", until |-> 9, research |-> TRUE] /\ key = 1
    /\ Publication!Init
    /\ CASE part = "groups" -> Groups!Init [] part = "clocks" -> Clocks!Init [] OTHER -> NoPull

\* The lanes age alike, and each by itself; the dates tell ECHO's bundles apart.
OfOneLane ==
    LET bundles == (Publication!Main.files \cup {dir[c1].bundle}) \ {None}
        lanes == {b.lane : b \in bundles}
                 \cup {load[r].lane : r \in {q \in Readers : load[q].phase # "idle"}}
    IN  /\ \A l, m \in lanes : l = m
        /\ \A b \in bundles : b.lane = Echo => b.tag = tag

SourcesNext ==
  /\ UNCHANGED part
  /\ \/ part = "health" /\ Next /\ UNCHANGED <<snapshotVars, pullVars>>
     \/ /\ \/ part = "race" /\ Race!Next
           \/ part = "loads" /\ Loads!Next
           \/ part = "ages" /\ Ages!Next /\ OfOneLane'
        /\ UNCHANGED <<vars, pullVars>>
     \/ /\ \/ part = "groups" /\ Groups!Next
           \/ part = "clocks" /\ Clocks!Next
        /\ UNCHANGED <<vars, snapshotVars>>

SourcesSpec == SourcesInit /\ [][SourcesNext]_<<part, vars, snapshotVars, pullVars>>

=============================================================================
