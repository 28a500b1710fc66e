------------------------------ MODULE DeskFile --------------------------------
(***************************************************************************)
(* The desk's file store (app/dealdesk.py with DAVID_DEAL_DESK_PATH and no *)
(* database).  Before it does anything else, every desk request and every  *)
(* health check probes the file: under the file's lock it reads the rows   *)
(* and replaces the file by the same bytes (Probe, Replace); after the     *)
(* lock it clears _STATE and fills it with what it read (Clear, Fill).     *)
(* The handler then computes a row from _STATE (Handle), builds a snapshot *)
(* of all rows (Commit), replaces the file by the snapshot under the lock  *)
(* (Acquire, Write), publishes its row (Publish) and enriches the record   *)
(* for its answer, which may write again (Enrich).                         *)
(*                                                                         *)
(* A row is the set of requests in its history, all that the properties    *)
(* tell apart: DealDesk models what the rows say.  Requests are valid and  *)
(* their opportunities known.  The lock is held by whoever is in a phase   *)
(* of Holding; the kernel releases it when its holder ends.                *)
(***************************************************************************)
EXTENDS Integers

CONSTANTS
    Handlers,    \* request threads of the process
    Opps,        \* opportunity ids
    Requests,    \* updates of opportunities
    Of,          \* Of[r]: the opportunity r updates
    Look,        \* a request that only reads: a health check or the board
    Clearances,  \* updates that give a row a clearance, which an answer may revoke
    Shifting,    \* suppressions whose identity what is observed later may change
    Faults       \* whether file operations can fail and the process restart

ASSUME DeskFileAssumption ==
    /\ Of \in [Requests -> Opps]
    /\ Look \notin Requests
    /\ Clearances \subseteq Requests /\ Shifting \subseteq Requests
    /\ Faults \in BOOLEAN

VARIABLES
    file,        \* the rows in the file; none when it does not exist
    memory,      \* _STATE
    health,      \* _PERSISTENCE_HEALTH
    task,        \* what each thread is doing
    acked,       \* history: the updates answered with success
    crowded      \* history: two requests have been in progress at once

vars == <<file, memory, health, task, acked, crowded>>

-----------------------------------------------------------------------------
\* Data.

Empty == [o \in {} |-> {}]
Tables == UNION {[D -> SUBSET Requests] : D \in SUBSET Opps}
\* dict.update, and the update of one row
Overlay(table, rows) == [o \in DOMAIN table \cup DOMAIN rows |->
                            IF o \in DOMAIN rows THEN rows[o] ELSE table[o]]
With(table, o, row) == Overlay(table, [x \in {o} |-> row])
Has(row, updates) == row \cap updates # {}
\* Whether normalizing suppressed rows can change one of them.
MayShift(table) == \E o \in DOMAIN table : Has(table[o], Shifting)
Saved(o) == IF o \in DOMAIN memory THEN memory[o] ELSE {}

Waiting == {"probe", "normalize", "persist", "rewrite"}
Holding == {"probing", "normalizing", "writing", "rewriting"}
Phases == Waiting \cup Holding \cup {"clear", "fill", "handle", "commit", "publish", "enrich"}

\* What a thread is doing: for which request and opportunity, the row it will
\* commit, the rows it read or will write, whether this commit is its last.
Task == [pc : Phases \cup {"idle"}, for : Requests \cup {Look}, opp : Opps \cup {Look},
         row : SUBSET Requests, rows : Tables, last : BOOLEAN]

At(h, pc) == task[h].pc = pc
Busy(h) == ~At(h, "idle")
Start(r) == [pc |-> "probe", for |-> r, opp |-> Look, row |-> {}, rows |-> Empty, last |-> FALSE]
Idle == [Start(Look) EXCEPT !.pc = "idle"]

\* Types, and: the row of an update's own commit has the update in its history.
FileTypeOK ==
    /\ file \in Tables /\ memory \in Tables
    /\ health \in {"ready", "unavailable"}
    /\ acked \subseteq Requests /\ crowded \in BOOLEAN
    /\ task \in [Handlers -> Task]
    /\ \A h \in Handlers :
        /\ task[h].pc \in {"commit", "persist", "writing", "publish"} =>
              /\ task[h].opp \in Opps
              /\ ~task[h].last => task[h].for \in task[h].row
        /\ task[h].pc = "enrich" => task[h].opp \in Opps

Init ==
    /\ file = Empty /\ memory = Empty
    /\ health = "ready"
    /\ task = [h \in Handlers |-> Idle]
    /\ acked = {} /\ crowded = FALSE

-----------------------------------------------------------------------------
\* The lock.

\* Mutated form: the lock is shared.
LockFreeShared == TRUE

LockFree == \A h \in Handlers : task[h].pc \notin Holding

Goto(h, pc) == task' = [task EXCEPT ![h].pc = pc]
End(h) == task' = [task EXCEPT ![h] = Idle]

\* Mutated form: a writer that fails goes on as if it had written.
FailedOn(h) == IF At(h, "writing") THEN Goto(h, "publish") ELSE End(h)

Failed(h) == End(h)

\* Mutated form: a thread waits for the lock without a deadline.
DeadlineNever(h) == FALSE

\* Two seconds have passed and somebody else has the lock.
Deadline(h) == ~LockFree

LockTimeout(h) ==
    /\ task[h].pc \in Waiting
    /\ Deadline(h)
    /\ health' = "unavailable" /\ End(h)
    /\ UNCHANGED <<file, memory, acked>>

\* A temporary file cannot be written or moved: the file stays as it is.
OperationFails(h) ==
    /\ Faults
    /\ task[h].pc \in Holding
    /\ health' = "unavailable" /\ Failed(h)
    /\ UNCHANGED <<file, memory, acked>>

-----------------------------------------------------------------------------
\* A request.

Ask(h, r) ==
    /\ ~Busy(h)
    /\ task' = [task EXCEPT ![h] = Start(r)]
    /\ UNCHANGED <<file, memory, health, acked>>

Probe(h) ==
    /\ At(h, "probe") /\ LockFree
    /\ task' = [task EXCEPT ![h].pc = "probing", ![h].rows = file]
    /\ UNCHANGED <<file, memory, health, acked>>

Replace(h) ==
    /\ At(h, "probing")
    /\ file' = task[h].rows
    /\ \/ Goto(h, "clear")
       \/ MayShift(task[h].rows) /\ Goto(h, "normalize")
    /\ UNCHANGED <<memory, health, acked>>

\* Rows read that lacked part of their identity are written back first.
WriteBack(h) ==
    /\ At(h, "normalizing")
    /\ file' = task[h].rows /\ health' = "ready"
    /\ Goto(h, "clear")
    /\ UNCHANGED <<memory, acked>>

Clear(h) ==
    /\ At(h, "clear")
    /\ memory' = Empty
    /\ Goto(h, "fill")
    /\ UNCHANGED <<file, health, acked>>

Fill(h) ==
    /\ At(h, "fill")
    /\ memory' = Overlay(memory, task[h].rows)
    /\ health' = "ready"
    /\ Goto(h, "handle")
    /\ UNCHANGED <<file, acked>>

\* Whether the store is ready is read again, after the probe that says so.
NotReady(h) ==
    /\ At(h, "handle") /\ health # "ready"
    /\ End(h)
    /\ UNCHANGED <<file, memory, health, acked>>

\* A health check is answered; the board is enriched, one record at a time.
HandleLook(h) ==
    /\ At(h, "handle") /\ health = "ready" /\ task[h].for = Look
    /\ \/ End(h)
       \/ \E o \in Opps :
            task' = [task EXCEPT ![h].pc = "enrich", ![h].opp = o, ![h].rows = Empty]
    /\ UNCHANGED <<file, memory, health, acked>>

\* Mutated form: the candidate is the saved row, without the new event.
CandidateUnchanged(o, r) == Saved(o)

Candidate(o, r) == Saved(o) \cup {r}

Handle(h) ==
    /\ At(h, "handle") /\ health = "ready" /\ task[h].for \in Requests
    /\ LET o == Of[task[h].for] IN
       task' = [task EXCEPT ![h].pc = "commit", ![h].opp = o, ![h].rows = Empty,
                            ![h].row = Candidate(o, task[h].for)]
    /\ UNCHANGED <<file, memory, health, acked>>

Commit(h) ==
    /\ At(h, "commit")
    /\ task' = [task EXCEPT ![h].pc = "persist",
                            ![h].rows = With(memory, task[h].opp, task[h].row)]
    /\ UNCHANGED <<file, memory, health, acked>>

Acquire(h) ==
    /\ \/ At(h, "normalize") /\ Goto(h, "normalizing")
       \/ At(h, "persist") /\ Goto(h, "writing")
       \/ At(h, "rewrite") /\ Goto(h, "rewriting")
    /\ LockFree
    /\ UNCHANGED <<file, memory, health, acked>>

Write(h) ==
    /\ At(h, "writing")
    /\ file' = task[h].rows /\ health' = "ready"
    /\ Goto(h, "publish")
    /\ UNCHANGED <<memory, acked>>

\* _persist(_STATE): memory as it is while it is written.
Rewrite(h) ==
    /\ At(h, "rewriting")
    /\ file' = memory /\ health' = "ready"
    /\ End(h) /\ acked' = acked \cup ({task[h].for} \ {Look})
    /\ UNCHANGED memory

Publish(h) ==
    /\ At(h, "publish")
    /\ memory' = With(memory, task[h].opp, task[h].row)
    /\ IF task[h].last
       THEN End(h) /\ acked' = acked \cup ({task[h].for} \ {Look})
       ELSE /\ task' = [task EXCEPT ![h].pc = "enrich", ![h].row = {}, ![h].rows = Empty]
            /\ UNCHANGED acked
    /\ UNCHANGED <<file, health>>

\* The answer.  What the sources say of the business may have it write every row
\* again, or commit the row again with its clearance revoked.
Enrich(h) ==
    /\ At(h, "enrich")
    /\ \/ End(h) /\ acked' = acked \cup ({task[h].for} \ {Look})
       \/ MayShift(memory) /\ Goto(h, "rewrite") /\ UNCHANGED acked
       \/ /\ Has(Saved(task[h].opp), Clearances)
          /\ task' = [task EXCEPT ![h].pc = "commit", ![h].last = TRUE,
                                   ![h].row = Saved(task[h].opp)]
          /\ UNCHANGED acked
    /\ UNCHANGED <<file, memory, health>>

\* The process ends at any point; the next one loads the file, or cannot.
Restart ==
    /\ Faults
    /\ task' = [h \in Handlers |-> Idle]
    /\ \/ memory' = file /\ health' = "ready"
       \/ memory' = Empty /\ health' = "unavailable"
    /\ UNCHANGED <<file, acked>>

Step(h) ==
    \/ LockTimeout(h) \/ OperationFails(h)
    \/ Probe(h) \/ Replace(h) \/ WriteBack(h) \/ Clear(h) \/ Fill(h) \/ NotReady(h)
    \/ HandleLook(h) \/ Handle(h) \/ Commit(h) \/ Acquire(h)
    \/ Write(h) \/ Rewrite(h) \/ Publish(h) \/ Enrich(h)

OneAtATime == \A g, h \in Handlers : g # h => ~(Busy(g) /\ Busy(h))
CountCrowd == crowded' = (crowded \/ ~OneAtATime')

Next ==
    /\ \/ \E h \in Handlers, r \in Requests \cup {Look} : Ask(h, r)
       \/ \E h \in Handlers : Step(h)
       \/ Restart
    /\ CountCrowd

Spec == Init /\ [][Next]_vars

\* A thread is not stopped for ever; nobody has to ask.
FairSpec == Spec /\ \A h \in Handlers : WF_vars(Step(h) /\ CountCrowd)

-----------------------------------------------------------------------------
\* Properties.

\* Success means durable: an update answered with success stays in the history of
\* its opportunity on file, through failed writes and restarts (_commit persists
\* before it publishes).
AcknowledgedIsOnFile ==
    \A r \in acked : Of[r] \in DOMAIN file /\ r \in file[Of[r]]

\* As long as requests come one at a time, that is so, whichever operations fail
\* and whenever the process restarts.
AloneSuccessIsOnFile == ~crowded => AcknowledgedIsOnFile

\* A probe puts back what it found: although it replaces the file by bytes it
\* read before, it never undoes a write that another thread made in between
\* (_probe_file_store reads and replaces under one lock).
ProbesKeepTheFile ==
    [][\A h \in Handlers : At(h, "probing") /\ task'[h] # task[h] => file' = file]_vars

\* Every request ends, with an answer or a refusal, however many others compete
\* for the lock: whoever waits for it gets it or gives up (_file_store_lock).
EveryRequestEnds == \A h \in Handlers : Busy(h) ~> ~Busy(h)

=============================================================================
