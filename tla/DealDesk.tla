------------------------------- MODULE DealDesk -------------------------------
(***************************************************************************)
(* The broker desk (app/dealdesk.py behind the /api/deal-desk handlers of  *)
(* app/server.py) with its PostgreSQL store: opportunities move through    *)
(* sales stages, contact needs a clearance that expires, and a do-not-call *)
(* request suppresses every opportunity of the same business.              *)
(*                                                                         *)
(* One process serves requests in several threads, which share _STATE      *)
(* (memory) and _KNOWN (known).  There is no lock around a handler: it     *)
(* reads memory and computes a candidate row (a request action), builds a  *)
(* snapshot of ALL rows (TakeSnapshot), writes the snapshot to the         *)
(* database (Write), puts its own row into memory (Publish), and then      *)
(* enriches the record for its answer, which can commit again (Enrich,     *)
(* Answer).  Threads interleave between these steps.  A write can fail,    *)
(* with or without effect; the process can restart at any moment.          *)
(*                                                                         *)
(* Abstractions.  A clearance is the time it expires at, 0 when there is   *)
(* none or it is revoked.  Of the channels only the business phone a       *)
(* clearance needs is kept.  Businesses carry a name, so every observation *)
(* of an opportunity shares an alias (Named).  Notes, owners, history and  *)
(* the event table, which no code reads, are left out, and so are rows     *)
(* written by versions before suppression aliases existed.                 *)
(***************************************************************************)
EXTENDS Integers

CONSTANTS
    Opps,          \* opportunity ids
    Aliases,       \* the name and official identifiers of businesses, as aliases
    Unrestorable,  \* aliases a saved identity does not reproduce (Restored)
    Observations,  \* Observations[o]: what the sources may report of o
    Handlers,      \* request threads
    Dispositions,  \* the dispositions and update targets the instance uses
    Targets,
    Hours,         \* the clearance lives a request may ask for
    Faults,        \* whether the store can fail and the process restart
    MaxTime        \* bound on the clock

Observation == [ids : SUBSET Aliases, blocked : BOOLEAN]

ASSUME DeskAssumption ==
    /\ Observations \in [Opps -> SUBSET Observation]
    /\ Unrestorable \subseteq Aliases
    /\ Hours \subseteq Nat \ {0}
    /\ Faults \in BOOLEAN /\ MaxTime \in Nat

\* Every observation of an opportunity carries the name that its id was made from.
ASSUME Named ==
    \A o \in Opps : \E name \in Aliases \ Unrestorable :
        \A obs \in Observations[o] : name \in obs.ids

VARIABLES
    clock,      \* wall time
    known,      \* _KNOWN: the last observation of each opportunity on the board
    memory,     \* _STATE: the saved rows
    store,      \* the table david_dealdesk_state
    health,     \* _PERSISTENCE_HEALTH
    task,       \* what each thread is working on
    promised,   \* history: the aliases of every do-not-call request committed
    crowded     \* history: two requests have been in progress at once

vars == <<clock, known, memory, store, health, task, promised, crowded>>

-----------------------------------------------------------------------------
\* Data.

STAGES == {"REVIEW", "RESEARCH", "READY", "CONTACTED", "MEETING", "PROPOSAL",
           "WON", "LOST", "BLOCKED"}

CONTACT_STAGES == {"READY", "CONTACTED", "MEETING", "PROPOSAL", "WON"}

TRANSITIONS == [s \in STAGES |->
    CASE s = "REVIEW"    -> {"RESEARCH", "BLOCKED"}
      [] s = "RESEARCH"  -> {"READY", "BLOCKED"}
      [] s = "READY"     -> {"CONTACTED", "RESEARCH", "BLOCKED"}
      [] s = "CONTACTED" -> {"MEETING", "READY", "LOST", "BLOCKED"}
      [] s = "MEETING"   -> {"PROPOSAL", "LOST", "BLOCKED"}
      [] s = "PROPOSAL"  -> {"WON", "LOST", "BLOCKED"}
      [] s = "WON"       -> {}
      [] OTHER           -> {"RESEARCH"}]

Times == 0..MaxTime
ExpiryTimes == {0} \cup {t + n : t \in Times, n \in Hours}

\* A saved row.  `suppressed` are the aliases of its active suppression, `dnc`
\* is last_disposition = DO_NOT_CALL, `identity` the aliases of subject_identity.
Row == [stage : STAGES, phone : BOOLEAN, expires : ExpiryTimes, dnc : BOOLEAN,
        suppressed : SUBSET Aliases, identity : SUBSET Aliases]

Blank == [stage |-> "REVIEW", phone |-> FALSE, expires |-> 0, dnc |-> FALSE,
          suppressed |-> {}, identity |-> {}]

Empty == [o \in {} |-> Blank]
IsTable(t) == DOMAIN t \subseteq Opps /\ t \in [DOMAIN t -> Row]
\* dict.update
Overlay(table, rows) == [o \in DOMAIN table \cup DOMAIN rows |->
                            IF o \in DOMAIN rows THEN rows[o] ELSE table[o]]
With(table, o, row) == Overlay(table, [x \in {o} |-> row])

\* A thread between two of its steps.  `rows` is the snapshot it writes, of which
\* it will publish the rows of `install`; `sheet` is the clearance of the row a
\* call sheet was asked for, -1 when none was.
Idle == [pc |-> "idle"]
Phases == {"commit", "write", "publish", "enrich", "answer", "sheet"}
IsTask(t) ==
    /\ DOMAIN t = {"pc", "then", "opp", "seen", "candidate", "rows", "install", "promise",
                   "sheet"}
    /\ t.pc \in Phases /\ t.then \in {"enrich", "answer", "done"}
    /\ t.opp \in Opps /\ t.seen \in Observations[t.opp]
    /\ t.candidate \in Row /\ IsTable(t.rows)
    /\ t.install \subseteq DOMAIN t.rows
    /\ t.promise \subseteq Aliases /\ t.sheet \in ExpiryTimes \cup {-1}

\* A thread that reloads memory: `rows` is what it read, normalized; they are
\* written back first ("rewrite") if normalizing changed them.  Then memory is
\* cleared ("reload") and filled ("install").
Reload(pc, rows) == [pc |-> pc, rows |-> rows]
ReloadPhases == {"reload", "rewrite", "install"}
IsReload(t) == DOMAIN t = {"pc", "rows"} /\ t.pc \in ReloadPhases /\ IsTable(t.rows)
Reloading == \E h \in Handlers : task[h].pc \in ReloadPhases

TypeOK ==
    /\ clock \in Times
    /\ DOMAIN known \subseteq Opps
    /\ \A o \in DOMAIN known : known[o] \in Observations[o]
    /\ IsTable(memory) /\ IsTable(store)
    /\ health \in {"ready", "unavailable"}
    /\ DOMAIN task = Handlers
    /\ \A h \in Handlers : task[h] = Idle \/ IsReload(task[h]) \/ IsTask(task[h])
    /\ promised \subseteq Aliases
    /\ crowded \in BOOLEAN

Init ==
    /\ clock = 0
    /\ known = [o \in {} |-> {}]
    /\ memory = Empty /\ store = Empty
    /\ health = "ready"
    /\ task = [h \in Handlers |-> Idle]
    /\ promised = {} /\ crowded = FALSE

-----------------------------------------------------------------------------
\* Reading memory.

Saved(o) == IF o \in DOMAIN memory THEN memory[o] ELSE Blank

\* _current_clearance: neither revoked nor expired, for a business phone on record.
Current(row) == row.phone /\ row.expires > clock

\* Mutated form: only the opportunity's own row is consulted.
SuppressedItself(o, obs) == Saved(o).suppressed # {}

\* _active_suppression: some row, of whichever opportunity, suppresses the business.
Suppressed(o, obs) == \E x \in DOMAIN memory : memory[x].suppressed \cap obs.ids # {}

\* _contact_gate: open when research and clearance may go on.
GateOpen(o, obs) == ~ Suppressed(o, obs) /\ ~ obs.blocked

\* The aliases subject_ids finds in a saved identity: identifiers of a system the
\* identifier table does not list under its own name are not found again.
Restored(identity) == identity \ Unrestorable

\* _backfill_legacy_suppressions: each do-not-call row gets the aliases of the
\* identity saved with it.
Normalized(table) ==
    [o \in DOMAIN table |->
        LET ids == Restored(table[o].identity)
        IN  IF /\ table[o].dnc
               /\ ids # {}
               /\ <<table[o].suppressed, table[o].identity>> # <<ids, ids>>
            THEN [table[o] EXCEPT !.stage = "BLOCKED", !.suppressed = ids, !.identity = ids]
            ELSE table[o]]

-----------------------------------------------------------------------------
\* Requests: the readiness check, the read of the saved row, and the checks.

\* The request may start; an opportunity must be on the board (_saved).
Admitted(h, o) == task[h] = Idle /\ health = "ready" /\ o \in DOMAIN known

Working(h, o, obs, pc) ==
    [pc |-> pc, opp |-> o, seen |-> obs, candidate |-> Blank, rows |-> Empty,
     install |-> {}, then |-> "done", promise |-> {}, sheet |-> -1]

\* Commit the candidate row for `o`, and then enrich the record for the answer.
Propose(h, o, candidate, promise) ==
    /\ task' = [task EXCEPT ![h] = [Working(h, o, known[o], "commit") EXCEPT
                   !.candidate = candidate, !.promise = promise, !.then = "enrich"]]
    /\ UNCHANGED <<clock, known, memory, store, health, promised>>

\* board, export_rows: one record of it; the source may report it anew.
Board(h, o, obs) ==
    /\ task[h] = Idle /\ health = "ready"
    /\ task' = [task EXCEPT ![h] = Working(h, o, obs, "enrich")]
    /\ UNCHANGED <<clock, known, memory, store, health, promised>>

\* record_research: a channel the business publishes; any clearance is dropped.
RecordResearch(h, o, isPhone) ==
    /\ Admitted(h, o)
    /\ GateOpen(o, known[o])
    /\ Saved(o).stage = "RESEARCH" \/ "RESEARCH" \in TRANSITIONS[Saved(o).stage]
    /\ Propose(h, o, [Saved(o) EXCEPT !.stage = "RESEARCH", !.phone = @ \/ isPhone,
                                      !.expires = 0], {})

\* record_clearance.
RecordClearance(h, o, hours) ==
    /\ Admitted(h, o)
    /\ GateOpen(o, known[o])
    /\ Saved(o).stage = "RESEARCH" /\ Saved(o).phone
    /\ Propose(h, o, [Saved(o) EXCEPT !.stage = "READY", !.expires = clock + hours], {})

\* update: READY is never entered here, other contact stages need a clearance.
Update(h, o, stage) ==
    /\ Admitted(h, o)
    /\ GateOpen(o, known[o]) \/ stage = "BLOCKED"
    /\ stage = Saved(o).stage \/ stage \in TRANSITIONS[Saved(o).stage]
    /\ stage # "READY"
    /\ stage \in CONTACT_STAGES => Current(Saved(o))
    /\ Propose(h, o, [Saved(o) EXCEPT !.stage = stage,
                         !.expires = IF stage \in {"RESEARCH", "BLOCKED", "LOST"}
                                     THEN 0 ELSE @], {})

\* Mutated form: a do-not-call request leaves the clearance as it is.
DisposedUnrevoked(row, d, ids) ==
    [row EXCEPT
        !.dnc = (d = "DO_NOT_CALL"),
        !.stage = IF d = "DO_NOT_CALL" THEN "BLOCKED"
                  ELSE IF d = "MEETING_BOOKED" THEN "MEETING"
                  ELSE IF d \in {"NOT_INTERESTED", "WRONG_BUSINESS"} THEN "LOST"
                  ELSE "CONTACTED",
        !.suppressed = IF d = "DO_NOT_CALL" THEN ids ELSE @]

\* The row after a disposition.
Disposed(row, d, ids) ==
    [row EXCEPT
        !.dnc = (d = "DO_NOT_CALL"),
        !.stage = IF d = "DO_NOT_CALL" THEN "BLOCKED"
                  ELSE IF d = "MEETING_BOOKED" THEN "MEETING"
                  ELSE IF d \in {"NOT_INTERESTED", "WRONG_BUSINESS"} THEN "LOST"
                  ELSE "CONTACTED",
        !.suppressed = IF d = "DO_NOT_CALL" THEN ids ELSE @,
        !.expires = IF d \in {"DO_NOT_CALL", "NOT_INTERESTED", "WRONG_BUSINESS"}
                    THEN 0 ELSE @]

\* record_disposition: it does not read the contact gate.
RecordDisposition(h, o, d) ==
    /\ Admitted(h, o)
    /\ d \notin {"DO_NOT_CALL", "WRONG_BUSINESS"} =>
          Current(Saved(o)) /\ Saved(o).stage \in {"READY", "CONTACTED"}
    /\ Propose(h, o, Disposed(Saved(o), d, known[o].ids),
               IF d = "DO_NOT_CALL" THEN known[o].ids ELSE {})

\* call_sheet: the row is read first, the record enriched afterwards.
CallSheet(h, o) ==
    /\ Admitted(h, o)
    /\ task' = [task EXCEPT ![h] = [Working(h, o, known[o], "enrich") EXCEPT
                                       !.sheet = Saved(o).expires]]
    /\ UNCHANGED <<clock, known, memory, store, health, promised>>

-----------------------------------------------------------------------------
\* Committing (_commit, _persist).

\* The snapshot of every row in memory, with the candidate in place of its row.
TakeSnapshot(h) ==
    LET o == task[h].opp
        row == [task[h].candidate EXCEPT !.identity = known[o].ids]
    IN  /\ task[h].pc = "commit"
        /\ task' = [task EXCEPT ![h] = [@ EXCEPT !.pc = "write", !.candidate = Blank,
                                   !.rows = With(memory, o, row), !.install = {o}]]
        /\ UNCHANGED <<clock, known, memory, store, health, promised>>

\* Mutated form: rows already stored are kept (ON CONFLICT DO NOTHING).
UpsertedNewRows(rows) == Overlay(rows, store)

\* The store after an upsert of the rows.
Upserted(rows) == Overlay(store, rows)

Write(h) ==
    /\ task[h].pc = "write"
    /\ store' = Upserted(task[h].rows)
    /\ health' = "ready"
    /\ task' = [task EXCEPT ![h] = [@ EXCEPT !.pc = "publish"]]
    /\ UNCHANGED <<clock, known, memory, promised>>

\* The transaction fails, or commits and its acknowledgement is lost: the request
\* ends with an error and memory keeps the old row.
WriteFails(h) ==
    /\ Faults
    /\ task[h].pc = "write"
    /\ store' \in {store, Upserted(task[h].rows)}
    /\ health' = "unavailable"
    /\ task' = [task EXCEPT ![h] = Idle]
    /\ UNCHANGED <<clock, known, memory, promised>>

Publish(h) ==
    LET t == task[h]
    IN  /\ t.pc = "publish"
        /\ memory' = Overlay(memory, [o \in t.install |-> t.rows[o]])
        /\ promised' = promised \cup t.promise
        /\ task' = [task EXCEPT ![h] =
                       IF t.then = "done" THEN Idle
                       ELSE [t EXCEPT !.pc = t.then, !.rows = Empty, !.install = {},
                                      !.promise = {}, !.then = "done"]]
        /\ UNCHANGED <<clock, known, store, health>>

-----------------------------------------------------------------------------
\* Enriching the record of the answer (enrich).

\* _backfill_legacy_suppression: the row with its suppression extended to the
\* aliases of the observation, and its identity replaced by the observation's.
Extended(row, obs) ==
    IF row.dnc \/ row.suppressed # {}
    THEN [row EXCEPT !.stage = "BLOCKED", !.expires = 0,
                     !.suppressed = @ \cup obs.ids, !.identity = obs.ids]
    ELSE row

\* The record is put on the board.  Its own suppression is extended and committed;
\* else every do-not-call row is normalized in place and memory is persisted.
Enrich(h) ==
    LET t == task[h]
        own == Extended(Saved(t.opp), t.seen)
        all == Normalized(memory)
    IN  /\ t.pc = "enrich"
        /\ known' = With(known, t.opp, t.seen)
        /\ \/ /\ own # Saved(t.opp)
              /\ task' = [task EXCEPT ![h] = [t EXCEPT !.pc = "commit", !.candidate = own,
                                                       !.then = "answer"]]
              /\ UNCHANGED memory
           \/ /\ own = Saved(t.opp) /\ all # memory
              /\ memory' = all
              /\ task' = [task EXCEPT ![h] = [t EXCEPT !.pc = "write", !.rows = all,
                                                       !.then = "answer"]]
           \/ /\ own = Saved(t.opp) /\ all = memory
              /\ task' = [task EXCEPT ![h] = [@ EXCEPT !.pc = "answer"]]
              /\ UNCHANGED memory
        /\ UNCHANGED <<clock, store, health, promised>>

\* What the answer says: the record may be called now.
CallReady(o, obs) ==
    Current(Saved(o)) /\ Saved(o).stage \in CONTACT_STAGES /\ GateOpen(o, obs)

\* The gate is read again: a current clearance of a blocked record is revoked;
\* else the request ends, with a call sheet if one was asked for and may be given.
Answer(h) ==
    LET t == task[h]
        row == Saved(t.opp)
    IN  /\ t.pc = "answer"
        /\ \/ /\ ~ GateOpen(t.opp, t.seen) /\ Current(row)
              /\ task' = [task EXCEPT ![h] = [t EXCEPT !.pc = "commit", !.then = "done",
                             !.candidate = [row EXCEPT !.stage = "BLOCKED", !.expires = 0]]]
           \/ /\ GateOpen(t.opp, t.seen) \/ ~ Current(row)
              /\ task' = [task EXCEPT ![h] =
                             IF CallReady(t.opp, t.seen) /\ t.sheet > clock
                             THEN [t EXCEPT !.pc = "sheet"] ELSE Idle]
        /\ UNCHANGED <<clock, known, memory, store, health, promised>>

\* The call sheet is on the broker's screen until the next request.
SheetUsed(h) ==
    /\ task[h].pc = "sheet"
    /\ task' = [task EXCEPT ![h] = Idle]
    /\ UNCHANGED <<clock, known, memory, store, health, promised>>

-----------------------------------------------------------------------------
\* Health of the store (_refresh_postgres_health, _load).

\* A probe of the schema contract fails while the store is thought ready.
ProbeFails ==
    /\ Faults
    /\ health = "ready" /\ ~ Reloading
    /\ health' = "unavailable"
    /\ UNCHANGED <<clock, known, memory, store, task, promised>>

\* A request finds the store unavailable and, if no other thread is at it, reads
\* the rows to reload memory.
ReloadReads(h) ==
    /\ health = "unavailable" /\ ~ Reloading
    /\ task[h] = Idle
    /\ task' = [task EXCEPT ![h] = Reload(IF Normalized(store) = store THEN "reload"
                                          ELSE "rewrite", Normalized(store))]
    /\ UNCHANGED <<clock, known, memory, store, health, promised>>

ReloadWrites(h) ==
    /\ task[h].pc = "rewrite"
    /\ store' = Upserted(task[h].rows)
    /\ health' = "ready"
    /\ task' = [task EXCEPT ![h] = [@ EXCEPT !.pc = "reload"]]
    /\ UNCHANGED <<clock, known, memory, promised>>

\* Memory is emptied, and filled in a second step that other threads can precede.
ReloadClears(h) ==
    /\ task[h].pc = "reload"
    /\ memory' = Empty
    /\ task' = [task EXCEPT ![h] = [@ EXCEPT !.pc = "install"]]
    /\ UNCHANGED <<clock, known, store, health, promised>>

\* Mutated form: the store is found ready again, and its rows are not taken over.
ReloadForgets(h) ==
    /\ task[h].pc = "install"
    /\ health' = "ready"
    /\ task' = [task EXCEPT ![h] = Idle]
    /\ UNCHANGED <<clock, known, memory, store, promised>>

ReloadInstalls(h) ==
    /\ task[h].pc = "install"
    /\ memory' = Overlay(memory, task[h].rows)
    /\ health' = "ready"
    /\ task' = [task EXCEPT ![h] = Idle]
    /\ UNCHANGED <<clock, known, store, promised>>

ReloadFails(h) ==
    /\ Faults
    /\ task[h].pc = "rewrite"
    /\ store' \in {store, Upserted(task[h].rows)}
    /\ health' = "unavailable"
    /\ task' = [task EXCEPT ![h] = Idle]
    /\ UNCHANGED <<clock, known, memory, promised>>

\* The process restarts; _load reads the store, or gives up with no rows.
Restart ==
    /\ Faults
    /\ known' = [o \in {} |-> {}]
    /\ task' = [h \in Handlers |-> Idle]
    /\ \/ /\ store' = Normalized(store)
          /\ memory' = Normalized(store)
          /\ health' = "ready"
       \/ /\ memory' = Empty
          /\ health' = "unavailable"
          /\ store' \in {store, Normalized(store)}
    /\ UNCHANGED <<clock, promised>>

Tick ==
    /\ clock < MaxTime
    /\ clock' = clock + 1
    /\ UNCHANGED <<known, memory, store, health, task, promised>>

Request(h) ==
    \E o \in Opps :
        \/ \E obs \in Observations[o] : Board(h, o, obs)
        \/ \E isPhone \in BOOLEAN : RecordResearch(h, o, isPhone)
        \/ \E hours \in Hours : RecordClearance(h, o, hours)
        \/ \E stage \in Targets : Update(h, o, stage)
        \/ \E d \in Dispositions : RecordDisposition(h, o, d)
        \/ CallSheet(h, o)

Step(h) ==
    \/ TakeSnapshot(h) \/ Write(h) \/ WriteFails(h) \/ Publish(h)
    \/ Enrich(h) \/ Answer(h) \/ SheetUsed(h)
    \/ ReloadReads(h) \/ ReloadWrites(h) \/ ReloadFails(h)
    \/ ReloadClears(h) \/ ReloadInstalls(h)

OneAtATime == \A h, k \in Handlers : h # k => Idle \in {task[h], task[k]}

Next ==
    /\ \/ \E h \in Handlers : Request(h) \/ Step(h)
       \/ ProbeFails
       \/ Restart
       \/ Tick
    /\ crowded' = (crowded \/ ~ OneAtATime')

Spec == Init /\ [][Next]_vars

-----------------------------------------------------------------------------
\* Safety.

\* A do-not-call request suppresses the business for good: whenever the desk
\* serves, every opportunity on the board that shares an alias with a committed
\* request is suppressed, across failed writes, reloads and restarts ("permanently
\* suppresses this business identity", _contact_gate).
SuppressionIsPermanent ==
    health = "ready" /\ ~ Reloading =>
        \A o \in DOMAIN known :
            known[o].ids \cap promised # {} => Suppressed(o, known[o])

\* Between requests, memory is what a restart would load: no row a client was
\* told of is missing from the store, and no row the store got without an
\* acknowledgement is missing from memory (_commit, _mark_postgres_unavailable,
\* _refresh_postgres_health).
MemoryIsTheStore ==
    /\ health = "ready"
    /\ \A h \in Handlers : task[h].pc \in {"idle", "sheet"}
    => memory = store

\* As long as requests come one at a time, whenever the desk serves, every
\* opportunity that shares an alias with a committed do-not-call request is
\* suppressed, across failed writes, reloads and restarts (_contact_gate), and
\* memory is what a restart would load whenever no request is being handled (_commit).
SuppressionSurvivesAlone == ~ crowded => SuppressionIsPermanent /\ MemoryIsTheStore

\* As long as requests come one at a time, no call sheet is given for a business
\* that asked not to be called, not even for another opportunity of it that was
\* cleared before the request (call_sheet, enrich, _active_suppression).
NoSheetAfterDoNotCallAlone ==
    [][~ crowded' =>
        \A h \in Handlers : task[h].pc # "sheet" /\ task'[h].pc = "sheet" =>
            known[task[h].opp].ids \cap promised = {}]_vars

\* Whatever the threads interleave, a row in a contact stage has a clearance for
\* a recorded phone, and a suppressed row is neither cleared nor in a contact
\* stage, in memory and in the store (record_clearance, update,
\* record_disposition, _backfill_legacy_suppression).
RowsAreCoherent ==
    \A table \in {memory, store} : \A o \in DOMAIN table :
        /\ table[o].stage \in CONTACT_STAGES => table[o].expires > 0 /\ table[o].phone
        /\ table[o].suppressed # {} =>
              table[o].expires = 0 /\ table[o].stage \notin CONTACT_STAGES

\* The aliases under which a business is suppressed are never dropped: observing
\* the record again under fewer identifiers, or reloading it, leaves them
\* ("Stable business aliases used for irreversible contact suppression",
\* dealdesk.py:276).
SuppressionKeepsItsAliases ==
    [][\A o \in DOMAIN memory \cap DOMAIN memory' :
          memory[o].suppressed \subseteq memory'[o].suppressed]_vars
=============================================================================
