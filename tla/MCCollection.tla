----------------------------- MODULE MCCollection -----------------------------
(***************************************************************************)
(* The collection of federal records and the release that proves it is     *)
(* read, for TLC: the ECHO exporter, the other registries, the rotation of *)
(* the reader's credentials and the contract of the release gates.  They   *)
(* share no variable; `part` says which of them a behaviour is about.      *)
(***************************************************************************)
EXTENDS FederalCollection, Sequences, FiniteSets

CONSTANTS VA, MD, TX, l1, l2

VARIABLE part

-----------------------------------------------------------------------------
(* The exporter *)

Plain == [len |-> 1, at |-> 0]
Long == [len |-> 3, at |-> 0]
Person == [len |-> 1, at |-> 1]
\* The personal part is beyond the cut.
LongPerson == [len |-> 3, at |-> 3]

Facility(id, state, age, inspected, name) ==
    [id |-> id, state |-> state, active |-> TRUE, federal |-> FALSE,
     age |-> age, inspected |-> inspected, name |-> name]

Rejections == {
    Facility(6, TX, 0, 0, Plain),
    [Facility(7, VA, 0, 0, Plain) EXCEPT !.active = FALSE],
    [Facility(8, VA, 0, 0, Plain) EXCEPT !.federal = TRUE],
    Facility(9, VA, 9, 0, Plain),
    Facility(10, VA, 0, Absent, Plain),
    Facility(Absent, VA, 0, 0, Plain) }

\* Names that are cut or screened, dates at both ends of the window, and a row
\* for each of the other reasons; a row may come twice.
SomeRows == Rejections \cup {
    Facility(2, MD, 1, 0, Long),
    Facility(3, VA, 0, 1, LongPerson),
    Facility(5, MD, 0, 0, Person) }

\* Records that are admitted, in two states and with ages that tie.
GoodRows == {
    Facility(1, VA, 1, 0, Plain), Facility(2, MD, 0, 1, Plain), Facility(3, VA, 0, 1, Long) }

\* Exports of up to two rows of every kind, over days that pass at any step.
Lane == INSTANCE EchoExport WITH
    FreshFor <- FreshDate, None <- Absent, Rows <- SomeRows, MaxRows <- 2,
    day <- today, run <- ingestion, bundle <- staged, latest <- pointed, read <- reading,
    served <- displayed
\* Exports of three records, more than a load returns.
Choice == INSTANCE EchoExport WITH
    FreshFor <- FreshDate, None <- Absent, Rows <- GoodRows, MaxDay <- 1,
    day <- today, run <- ingestion, bundle <- staged, latest <- pointed, read <- reading,
    served <- displayed
AllRows == SomeRows \cup GoodRows

-----------------------------------------------------------------------------
(* The registries *)

Filing(id, state, org, valid) ==
    [id |-> id, name |-> id, state |-> state, taken |-> TRUE, org |-> org, valid |-> valid,
     size |-> 1, rank |-> id]

\* A carrier in two states, a sole proprietor, a row that breaks the contract, and
\* one the adapter drops.
CarrierRows == {
    Filing(1, VA, TRUE, TRUE), Filing(2, VA, TRUE, TRUE), Filing(1, MD, TRUE, TRUE),
    Filing(3, MD, FALSE, TRUE), Filing(4, VA, TRUE, FALSE),
    [Filing(5, MD, TRUE, TRUE) EXCEPT !.taken = FALSE] }

\* One sponsor with two filings, and others above it, one of them no organization
\* and of the rank of the other.
PlanRows == {
    Filing(1, VA, TRUE, TRUE),
    [Filing(2, VA, TRUE, TRUE) EXCEPT !.name = 1, !.size = 2],
    [Filing(3, VA, FALSE, TRUE) EXCEPT !.rank = 4],
    Filing(4, VA, TRUE, TRUE) }

BothStates == <<VA, MD>>
AllFilings == CarrierRows \cup PlanRows

\* Carriers and awards, within a day; benefit plans, over days that pass.
Carriers == INSTANCE FrontierCollection WITH
    Lanes <- Registries \ {"form5500"}, Requested <- Asked, Rows <- CarrierRows,
    None <- Absent, MaxDay <- 0, day <- date, bundle <- collected
Plans == INSTANCE FrontierCollection WITH
    Lanes <- {"form5500"}, Requested <- Asked, Rows <- PlanRows,
    None <- Absent, day <- date, bundle <- collected

-----------------------------------------------------------------------------
(* The credentials, and the release *)

TwoSecrets == <<"DAVID_DATASET_READ_TOKEN", "DAVID_ACCESS_KEY">>

\* A job that is run again, on a Space that may be of another revision; and one
\* that reads two lanes while snapshots are published and a day passes.
Retry == INSTANCE ReaderRotation WITH
    Lanes <- Boards, Revisions <- Sources, Fresh <- FreshDays, LastDay <- 0, MaxCommits <- 1,
    MaxAttempts <- MaxRotations, MaxTries <- 1, RecordSets <- {{"SIGNED"}}, job <- rotation
Refreshed == INSTANCE ReaderRotation WITH
    Lanes <- Boards, Revisions <- {Target}, Fresh <- FreshDays, MaxCommits <- MaxPublications,
    MaxAttempts <- 1, job <- rotation
Receipts == {{"SIGNED"}, {"SIGNED", "UNAVAILABLE"}}

\* A gate run on the Space and one run in isolation, which goes stale sooner.
GateAges == [g \in {"live", "unit"} |-> IF g = "live" THEN 2 ELSE 1]

ASSUME /\ Export!EchoAssumption /\ Rotation!RotationAssumption /\ Release!ContractAssumption
       /\ Collection!CollectionAssumption

\* Where no pointer moves the lanes are alike, and everyone reads one first.
ReadInOrder ==
    \A seen \in {rotation.expected} \cup {procs[i].cache : i \in DOMAIN procs} :
        seen[l2] # Rotation!NotRead => seen[l1] # Rotation!NotRead

CollectionInit ==
    /\ part \in {"lane", "choice", "carriers", "plans", "retry", "refreshed", "gates"}
    /\ Export!Init
    /\ IF part = "carriers" THEN Carriers!Init ELSE Plans!Init
    /\ IF part = "retry" THEN Rotation!Init ELSE Refreshed!Init
    /\ Release!Init

CollectionNext ==
  /\ UNCHANGED part
  /\ \/ /\ \/ part = "lane" /\ Lane!Next
           \/ part = "choice" /\ Choice!Next
        /\ UNCHANGED <<frontierVars, rotationVars, gateVars>>
     \/ /\ \/ part = "carriers" /\ Carriers!Next
           \/ part = "plans" /\ Plans!Next
        /\ UNCHANGED <<echoVars, rotationVars, gateVars>>
     \/ /\ \/ part = "retry" /\ Retry!Next /\ ReadInOrder'
           \/ part = "refreshed" /\ Refreshed!Next
        /\ UNCHANGED <<echoVars, frontierVars, gateVars>>
     \/ part = "gates" /\ Release!Next /\ UNCHANGED <<echoVars, frontierVars, rotationVars>>

CollectionSpec ==
    CollectionInit /\ [][CollectionNext]_<<part, echoVars, frontierVars, rotationVars, gateVars>>

=============================================================================
