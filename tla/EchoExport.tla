------------------------------ MODULE EchoExport ------------------------------
(***************************************************************************)
(* The EPA ECHO lane: the exporter archive is streamed row by row into a   *)
(* bundle, the bundle verifies itself, it is published, and the runtime    *)
(* reads it back with a verifier of its own (the production image does not *)
(* carry the ingestor's).  The day may change between any two steps.       *)
(*                                                                         *)
(* Hashes are what they bind: a root or a file hash is the sequence of     *)
(* records it was computed from, and a downloaded part that is not the     *)
(* part of its snapshot, whole, is one with intact = FALSE.  A name is its *)
(* length and the position at which a personal name or a residence shows   *)
(* in it (0 for none).  Publishing is one step here; its races are the     *)
(* subject of SnapshotPublication.                                         *)
(***************************************************************************)
EXTENDS Naturals, Sequences, FiniteSets

CONSTANTS
    Rows,        \* the rows an archive may hold
    Targets,     \* DEFAULT_TARGET_STATES
    Window,      \* MAX_INSPECTION_AGE_DAYS
    FreshFor,    \* FRESHNESS_DAYS
    NameMax,     \* _MAX_TEXT_LENGTH["org_name"]
    Floor,       \* --minimum-records
    Take,        \* the caller's limit
    MaxRows,     \* bound on the rows of an archive
    MaxDay,      \* bound on the calendar
    None

IsRow(row) ==
    /\ {row.id, row.inspected} \subseteq Nat \cup {None}
    /\ row.age \in Nat /\ {row.active, row.federal} \subseteq BOOLEAN
    /\ row.name \in [len : Nat, at : Nat]

EchoAssumption ==
    /\ {Window, FreshFor, MaxRows, MaxDay} \subseteq Nat
    /\ {NameMax, Floor, Take} \subseteq Nat \ {0}
    /\ \A row \in Rows : IsRow(row)

VARIABLES
    day,        \* today, UTC
    run,        \* the ingestion under way
    bundle,     \* the verified bundle in the output directory, or None
    latest,     \* the bundle latest.json points to, or None
    read,       \* the load under way
    served      \* what the last load returned

vars == <<day, run, bundle, latest, read, served>>

NoRun == [phase |-> "idle", began |-> 0, asOf |-> 0, seen |-> 0, rejected |-> 0, records |-> <<>>]
NoRead == [phase |-> "idle", now |-> 0, states |-> {}, bundle |-> None, selected |-> <<>>]
NothingServed == [bundle |-> None, now |-> 0, states |-> {}, records |-> <<>>]

Init ==
    /\ day = 0
    /\ run = NoRun
    /\ bundle = None
    /\ latest = None
    /\ read = NoRead
    /\ served = NothingServed

-----------------------------------------------------------------------------
(* Rows *)

Between(a, b) == IF b < a THEN MaxDay + Window + 1 ELSE b - a    \* days from a to b, too many if negative

Screened(name) == name.at # 0 /\ name.at <= name.len

\* Mutated form: only the fields that have no limit of their own are cut, at 256.
CleanElsewhere(name) == name

\* _clean cuts the text to the field's limit, before it is screened.
Clean(name) == [name EXCEPT !.len = IF @ > NameMax THEN NameMax ELSE @]

\* The reasons in the order they are tried; the first that applies is counted.
Reasons(row, now) == <<
    [reason |-> "OUTSIDE_TARGET_TERRITORY", applies |-> row.state \notin Targets],
    [reason |-> "NOT_ACTIVE", applies |-> ~row.active],
    [reason |-> "FEDERAL_FACILITY", applies |-> row.federal],
    [reason |-> "OUTSIDE_MONITORING_WINDOW", applies |-> row.age > Window],
    [reason |-> "NO_VALID_INSPECTION_DATE", applies |-> row.inspected = None],
    [reason |-> "PERSON_OR_RESIDENCE_NAME", applies |-> Screened(Clean(row.name))],
    [reason |-> "MISSING_AUTHORITY_IDENTITY", applies |-> row.id = None \/ row.name.len = 0],
    [reason |-> "INSPECTION_DATE_OUTSIDE_MONITORING_WINDOW",
     applies |-> row.inspected # None /\ Between(row.inspected, now) > Window] >>

Rejected(row, now) == \E i \in DOMAIN Reasons(row, now) : Reasons(row, now)[i].applies

RecordOf(row) == [id |-> row.id, state |-> row.state, age |-> row.age,
                  inspected |-> row.inspected, name |-> Clean(row.name)]

-----------------------------------------------------------------------------
(* Ingestion *)

\* The archive's date must not be in the future and not be stale.
BeginRun ==
    /\ run.phase = "idle" /\ bundle = None
    /\ \E asOf \in 0 .. day :
          /\ day - asOf <= FreshFor
          /\ run' = [NoRun EXCEPT !.phase = "streaming", !.began = day, !.asOf = asOf]
    /\ UNCHANGED <<day, bundle, latest, read, served>>

\* Mutated form: a row rejected by its actual inspection date is not counted.
CountedButDates(row) ==
    run.rejected + IF Reasons(row, run.began)[8].applies THEN 0 ELSE 1

Counted(row) == run.rejected + 1

\* A repeated registry identity fails the run; everything else is counted once.
StreamRow ==
    /\ run.phase = "streaming"
    /\ run.seen < MaxRows
    /\ \E row \in Rows :
          run' = IF Rejected(row, run.began)
                 THEN [run EXCEPT !.seen = @ + 1, !.rejected = Counted(row)]
                 ELSE IF \E i \in DOMAIN run.records : run.records[i].id = row.id
                 THEN NoRun
                 ELSE [run EXCEPT !.seen = @ + 1, !.records = Append(@, RecordOf(row))]
    /\ UNCHANGED <<day, bundle, latest, read, served>>

BundleOf(r, created) ==
    [asOf |-> r.asOf, created |-> created, records |-> r.records, root |-> r.records,
     count |-> Len(r.records), seen |-> r.seen, rejected |-> r.rejected]

\* verify_snapshot._validate_record
RecordVerifies(x, created) ==
    /\ x.name.len > 0 /\ ~Screened(x.name)
    /\ x.state \in Targets
    /\ x.age \in 0 .. Window
    /\ Between(x.inspected, created) <= Window

\* verify_snapshot.verify: dates, every record, identities, bindings, accounting.
Verifies(b, now) ==
    /\ b.asOf <= now /\ b.asOf <= b.created /\ b.created <= now
    /\ now - b.asOf <= FreshFor
    /\ b.count > 0 /\ b.count = Len(b.records) /\ b.root = b.records
    /\ \A i \in DOMAIN b.records : RecordVerifies(b.records[i], b.created)
    /\ \A i, j \in DOMAIN b.records : b.records[i].id = b.records[j].id => i = j
    /\ b.seen = b.count + b.rejected

\* The manifest is stamped when the stream ends; the staged directory replaces the
\* output only if it verifies, and is removed otherwise.
FinishRun ==
    /\ run.phase = "streaming"
    /\ IF Len(run.records) >= Floor /\ Verifies(BundleOf(run, day), day)
       THEN bundle' = BundleOf(run, day) /\ run' = NoRun
       ELSE bundle' = None /\ run' = [run EXCEPT !.phase = "failed"]
    /\ UNCHANGED <<day, latest, read, served>>

NextRun ==
    /\ run.phase = "failed"
    /\ run' = NoRun
    /\ UNCHANGED <<day, bundle, latest, read, served>>

\* The publisher verifies the bundle again, and refuses an older source date.
Publish ==
    /\ bundle # None
    /\ latest' = IF /\ Verifies(bundle, day)
                    /\ latest # None => latest.asOf <= bundle.asOf /\ latest.created <= bundle.created
                 THEN bundle ELSE latest
    /\ bundle' = None
    /\ UNCHANGED <<day, run, read, served>>

-----------------------------------------------------------------------------
(* The runtime's reader *)

\* What a download can bring: the part asked for, or something else.
Downloads == {"intact", "altered"}

\* echo_snapshot._validate_snapshot on an unaltered manifest
ManifestAccepted(b, now) ==
    /\ b.count > 0
    /\ b.seen = b.count + b.rejected
    /\ b.asOf <= now /\ b.asOf <= b.created /\ b.created <= now
    /\ now - b.asOf <= FreshFor

\* echo_snapshot._validate_record
RecordAccepted(x, created) ==
    /\ x.name.len \in 1 .. NameMax /\ ~Screened(x.name)
    /\ x.state \in Targets
    /\ x.age \in 0 .. Window
    /\ Between(x.inspected, created) <= Window

\* Smaller reported age first, then the registry identity.
Precedes(x, y) == x.age < y.age \/ (x.age = y.age /\ x.id < y.id)

\* Mutated form: the window is not tried again on the day of the load.
EligibleSinceAdmission(x, states, now) == x.state \in states

Eligible(x, states, now) == x.state \in states /\ Between(x.inspected, now) <= Window

\* Appended and sorted: it comes after those that precede it.
Placed(selected, x) ==
    LET before == Cardinality({i \in DOMAIN selected : Precedes(selected[i], x)})
    IN  SubSeq(selected, 1, before) \o <<x>> \o SubSeq(selected, before + 1, Len(selected))

\* Mutated form: the list is cut before the new record is put in its place.
KeepCut(selected, x) ==
    Placed(IF Len(selected) >= Take THEN SubSeq(selected, 1, Take - 1) ELSE selected, x)

\* Mutated form: nothing is dropped.
KeepAll(selected, x) == Placed(selected, x)

\* A record is put in its place and the last is dropped beyond the limit.
Keep(selected, x) ==
    LET all == Placed(selected, x)
    IN  IF Len(all) > Take THEN SubSeq(all, 1, Take) ELSE all

\* The records are kept one by one as they stream.
Selected(b, states, now) ==
    LET kept[n \in 0 .. Len(b.records)] ==
            IF n = 0 THEN <<>>
            ELSE IF Eligible(b.records[n], states, now) THEN Keep(kept[n - 1], b.records[n])
            ELSE kept[n - 1]
    IN  kept[Len(b.records)]

LoadPointer ==
    /\ read.phase = "idle"
    /\ latest # None
    /\ \E states \in SUBSET Targets \ {{}} :
          read' = [NoRead EXCEPT !.phase = "manifest", !.now = day, !.states = states, !.bundle = latest]
    /\ served' = NothingServed
    /\ UNCHANGED <<day, run, bundle, latest>>

\* The manifest's digest is recomputed and compared with the pointer's.
LoadManifest ==
    /\ read.phase = "manifest"
    /\ \E got \in Downloads :
          read' = IF got = "intact" /\ ManifestAccepted(read.bundle, read.now)
                  THEN [read EXCEPT !.phase = "receipt"] ELSE [NoRead EXCEPT !.phase = "refused"]
    /\ UNCHANGED <<day, run, bundle, latest, served>>

\* The receipt must be bound to this manifest.
LoadReceipt ==
    /\ read.phase = "receipt"
    /\ \E got \in Downloads :
          read' = IF got = "intact"
                  THEN [read EXCEPT !.phase = "records"] ELSE [NoRead EXCEPT !.phase = "refused"]
    /\ UNCHANGED <<day, run, bundle, latest, served>>

\* Records are selected as they stream; the hashes are known only at the end.
StreamRecords ==
    LET b == read.bundle IN
    /\ read.phase = "records"
    /\ \E got \in Downloads :
          IF got = "intact" /\ \A i \in DOMAIN b.records : RecordAccepted(b.records[i], b.created)
          THEN /\ served' = [bundle |-> b, now |-> read.now, states |-> read.states,
                             records |-> Selected(b, read.states, read.now)]
               /\ read' = NoRead
          ELSE /\ read' = [NoRead EXCEPT !.phase = IF got = "intact" THEN "rejected" ELSE "refused"]
               /\ UNCHANGED served
    /\ UNCHANGED <<day, run, bundle, latest>>

LoadEnds ==
    /\ read.phase \in {"refused", "rejected"}
    /\ read' = NoRead
    /\ UNCHANGED <<day, run, bundle, latest, served>>

NextDay ==
    /\ day < MaxDay
    /\ day' = day + 1
    /\ UNCHANGED <<run, bundle, latest, read, served>>

Next ==
    \/ BeginRun \/ StreamRow \/ FinishRun \/ NextRun \/ Publish
    \/ LoadPointer \/ LoadManifest \/ LoadReceipt \/ StreamRecords \/ LoadEnds
    \/ NextDay

Spec == Init /\ [][Next]_vars

-----------------------------------------------------------------------------
(* Properties *)

\* Type of the state.
EchoTypeOK ==
    /\ day \in 0 .. MaxDay
    /\ run.phase \in {"idle", "streaming", "failed"}
    /\ run.seen \in 0 .. MaxRows /\ run.rejected \in 0 .. MaxRows
    /\ Len(run.records) <= MaxRows
    /\ read.phase \in {"idle", "manifest", "receipt", "records", "refused", "rejected"}
    /\ Len(served.records) <= Take

\* An ingestion that reached its floor fails its own verification only when the
\* day changed while it ran: the archive's rows are admitted against the day the
\* run began, verified against the day it ended (iter_operational_echo_records,
\* ingest_zip).
RunsFailOnlyAcrossMidnight ==
    run.phase = "failed" /\ Len(run.records) >= Floor => run.began < day

\* The two verifiers agree where it matters: a record of a published snapshot is
\* never rejected by the runtime, so an intact snapshot that is fresh can be read.
PublishedRecordsAreReadable == read.phase # "rejected"

\* What a load returns are the first Take of all the records of the snapshot that
\* are in the requested states and inside the window today, in order: dropping
\* records while streaming loses none that belong.
ServedAreTheFirst ==
    served.bundle # None =>
        LET all == {served.bundle.records[i] : i \in DOMAIN served.bundle.records}
            due == {x \in all : Eligible(x, served.states, served.now)}
            given == {served.records[i] : i \in DOMAIN served.records}
        IN
        /\ given \subseteq due
        /\ Cardinality(given) = IF Cardinality(due) < Take THEN Cardinality(due) ELSE Take
        /\ \A x \in given, y \in due \ given : Precedes(x, y)
        /\ \A i \in 1 .. Len(served.records) - 1 : Precedes(served.records[i], served.records[i + 1])

\* Nothing is served that names a person, that was inspected outside the window of
\* the day it is served, or from an export past its freshness that day.
ServedIsPermitted ==
    served.bundle # None =>
        /\ served.now - served.bundle.asOf <= FreshFor
        /\ \A i \in DOMAIN served.records :
              /\ ~Screened(served.records[i].name)
              /\ served.now - served.records[i].inspected <= Window

\* The lane from the archive to the board.
LaneIsSound ==
    /\ EchoTypeOK
    /\ RunsFailOnlyAcrossMidnight
    /\ PublishedRecordsAreReadable
    /\ ServedAreTheFirst
    /\ ServedIsPermitted
=============================================================================
