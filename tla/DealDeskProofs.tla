---------------------------- MODULE DealDeskProofs ----------------------------
(***************************************************************************)
(* Proofs about DealDesk, for any opportunities, observations and number   *)
(* of request threads.                                                     *)
(*                                                                         *)
(* Threads overwrite each other's rows, so nothing can be said of how two  *)
(* rows of different threads relate.  What holds is a property of single   *)
(* rows: every row in memory, in the store, in a snapshot under way and in *)
(* a candidate is sound by itself, and every check reads one sound row.    *)
(***************************************************************************)
EXTENDS DealDesk, TLAPS

\* An alias that every observation of the opportunity carries (Named).
Name(o) == CHOOSE n \in Aliases \ Unrestorable : \A obs \in Observations[o] : n \in obs.ids

\* A row of opportunity o.  The first two conjuncts are RowsAreCoherent; a
\* suppressed row must also be recognised by _active_suppression whatever the
\* sources report of the opportunity, and so must survive normalization.
Sound(o, row) ==
    /\ row.stage \in CONTACT_STAGES => row.expires > 0 /\ row.phone
    /\ row.suppressed # {} =>
          row.expires = 0 /\ row.stage \notin CONTACT_STAGES /\ Name(o) \in row.suppressed
    /\ row.dnc => row.suppressed # {}
    /\ row.identity # {} => Name(o) \in row.identity

SoundTable(t) == IsTable(t) /\ \A o \in DOMAIN t : Sound(o, t[o])

\* A thread; past its enrich it works on an opportunity of the board K.
SoundTask(t, K) ==
    \/ t = Idle
    \/ IsReload(t) /\ SoundTable(t.rows)
    \/ /\ IsTask(t) /\ SoundTable(t.rows)
       /\ Sound(t.opp, t.candidate)
       /\ IF t.pc = "enrich" THEN t.install = {} ELSE t.opp \in K

\* The inductive invariant.
DeskInv ==
    /\ clock \in Times
    /\ DOMAIN known \subseteq Opps
    /\ \A o \in DOMAIN known : known[o] \in Observations[o]
    /\ health \in {"ready", "unavailable"}
    /\ promised \subseteq Aliases
    /\ SoundTable(memory)
    /\ SoundTable(store)
    /\ DOMAIN task = Handlers
    /\ \A h \in Handlers : SoundTask(task[h], DOMAIN known)

-----------------------------------------------------------------------------
\* Rows and tables.

LEMMA NameIsKept ==
    ASSUME NEW o \in Opps, NEW obs \in Observations[o]
    PROVE  /\ Name(o) \in obs.ids
           /\ Name(o) \notin Unrestorable
           /\ obs.ids \subseteq Aliases
<1>1. \E n \in Aliases \ Unrestorable : \A x \in Observations[o] : n \in x.ids
  BY Named
<1>2. Name(o) \in Aliases \ Unrestorable /\ \A x \in Observations[o] : Name(o) \in x.ids
  BY <1>1 DEF Name
<1>3. obs \in Observation
  BY DeskAssumption
<1> QED BY <1>2, <1>3 DEF Observation

LEMMA ExpiriesAreNaturals == ExpiryTimes \subseteq Nat
BY DeskAssumption DEF ExpiryTimes, Times

LEMMA BlankIsSound ==
    ASSUME NEW o
    PROVE  Blank \in Row /\ Sound(o, Blank)
BY DEF Blank, Row, STAGES, ExpiryTimes, Sound, CONTACT_STAGES

LEMMA EmptyIsSound == SoundTable(Empty)
BY DEF SoundTable, IsTable, Empty

LEMMA OverlayIsSound ==
    ASSUME NEW s, NEW t, SoundTable(s), SoundTable(t)
    PROVE  /\ SoundTable(Overlay(s, t))
           /\ DOMAIN Overlay(s, t) = DOMAIN s \cup DOMAIN t
<1> DEFINE u == Overlay(s, t)
<1>1. DOMAIN u = DOMAIN s \cup DOMAIN t
  BY DEF Overlay
<1>2. ASSUME NEW o \in DOMAIN u PROVE u[o] \in Row /\ Sound(o, u[o])
  <2>1. u[o] = IF o \in DOMAIN t THEN t[o] ELSE s[o]
    BY <1>1 DEF Overlay
  <2> QED BY <1>1, <2>1 DEF SoundTable, IsTable
<1>3. u = [o \in DOMAIN u |-> u[o]]
  BY <1>1 DEF Overlay
<1>4. u \in [DOMAIN u -> Row]
  BY <1>2, <1>3
<1>5. DOMAIN u \subseteq Opps
  BY <1>1 DEF SoundTable, IsTable
<1> QED BY <1>1, <1>2, <1>4, <1>5 DEF SoundTable, IsTable

LEMMA WithIsSound ==
    ASSUME NEW t, SoundTable(t), NEW o \in Opps, NEW row \in Row, Sound(o, row)
    PROVE  /\ SoundTable(With(t, o, row))
           /\ DOMAIN With(t, o, row) = DOMAIN t \cup {o}
<1>1. SoundTable([x \in {o} |-> row])
  BY DEF SoundTable, IsTable
<1> QED BY <1>1, OverlayIsSound DEF With

LEMMA NormalizedIsSound ==
    ASSUME NEW t, SoundTable(t)
    PROVE  SoundTable(Normalized(t))
<1> DEFINE u == Normalized(t)
<1>1. DOMAIN u = DOMAIN t
  BY DEF Normalized
<1>2. ASSUME NEW o \in DOMAIN t PROVE u[o] \in Row /\ Sound(o, u[o])
  <2> DEFINE ids == Restored(t[o].identity)
  <2>1. t[o] \in Row /\ Sound(o, t[o]) /\ o \in Opps
    BY DEF SoundTable, IsTable
  <2>2. CASE u[o] = t[o]
    BY <2>1, <2>2
  <2>3. CASE u[o] # t[o]
    <3>1. /\ t[o].dnc /\ ids # {}
          /\ u[o] = [t[o] EXCEPT !.stage = "BLOCKED", !.suppressed = ids, !.identity = ids]
      BY <2>3 DEF Normalized
    <3>2. t[o].identity \subseteq Aliases /\ t[o].identity # {} /\ ids \subseteq Aliases
      BY <2>1, <3>1 DEF Row, Restored
    <3>3. Name(o) \notin Unrestorable
      <4>1. \E n \in Aliases \ Unrestorable : \A x \in Observations[o] : n \in x.ids
        BY <2>1, Named
      <4> QED BY <4>1 DEF Name
    <3>4. Name(o) \in ids
      BY <2>1, <3>2, <3>3 DEF Sound, Restored
    <3>5. u[o] \in Row
      BY <2>1, <3>1, <3>2 DEF Row, STAGES
    <3>6. t[o].expires = 0
      BY <2>1, <3>1 DEF Sound
    <3>7. /\ u[o].stage = "BLOCKED" /\ u[o].suppressed = ids /\ u[o].identity = ids
          /\ u[o].expires = 0
      BY <2>1, <3>1, <3>6 DEF Row
    <3> QED BY <3>4, <3>5, <3>7 DEF Sound, CONTACT_STAGES
  <2> QED BY <2>2, <2>3
<1>3. u = [o \in DOMAIN u |-> u[o]]
  BY <1>1 DEF Normalized
<1>4. u \in [DOMAIN u -> Row]
  BY <1>1, <1>2, <1>3
<1> QED BY <1>1, <1>2, <1>4 DEF SoundTable, IsTable

LEMMA SavedIsSound ==
    ASSUME SoundTable(memory), NEW o \in Opps
    PROVE  Saved(o) \in Row /\ Sound(o, Saved(o))
BY BlankIsSound DEF Saved, SoundTable, IsTable

\* An open gate means that the row of the opportunity is not suppressed.
LEMMA OpenGateIsUnsuppressed ==
    ASSUME SoundTable(memory), NEW o \in Opps, NEW obs \in Observations[o], GateOpen(o, obs)
    PROVE  Saved(o).suppressed = {}
<1>1. CASE o \in DOMAIN memory
  <2>1. memory[o].suppressed \cap obs.ids = {}
    BY <1>1 DEF GateOpen, Suppressed
  <2>2. Sound(o, memory[o]) /\ Saved(o) = memory[o]
    BY <1>1 DEF SoundTable, Saved
  <2> QED BY <2>1, <2>2, NameIsKept DEF Sound
<1>2. CASE o \notin DOMAIN memory
  BY <1>2 DEF Saved, Blank
<1> QED BY <1>1, <1>2

-----------------------------------------------------------------------------
\* Threads.

LEMMA OneThreadMoves ==
    ASSUME NEW h \in Handlers, NEW T, DOMAIN T = Handlers, NEW K, NEW L, K \subseteq L,
           \A x \in Handlers : SoundTask(T[x], K),
           NEW t, SoundTask(t, L)
    PROVE  LET U == [T EXCEPT ![h] = t]
           IN  DOMAIN U = Handlers /\ \A x \in Handlers : SoundTask(U[x], L)
<1> DEFINE U == [T EXCEPT ![h] = t]
<1>1. ASSUME NEW x \in Handlers PROVE SoundTask(U[x], L)
  <2>1. CASE x = h
    BY <2>1
  <2>2. CASE x # h
    <3>1. U[x] = T[x]
      BY <2>2
    <3>2. SoundTask(T[x], L)
      BY DEF SoundTask
    <3> QED BY <3>1, <3>2
  <2> QED BY <2>1, <2>2
<1> QED BY <1>1

LEMMA IdleIsSound == ASSUME NEW K PROVE SoundTask(Idle, K)
BY DEF SoundTask

LEMMA WorkingIsSound ==
    ASSUME NEW h, NEW o \in Opps, NEW obs \in Observations[o], NEW K, NEW e \in ExpiryTimes
    PROVE  /\ SoundTask(Working(h, o, obs, "enrich"), K)
           /\ SoundTask([Working(h, o, obs, "enrich") EXCEPT !.sheet = e], K)
BY BlankIsSound, EmptyIsSound DEF Working, SoundTask, IsTask, Phases, SoundTable

LEMMA ProposalIsSound ==
    ASSUME NEW h, NEW o \in Opps, NEW obs \in Observations[o], NEW K, o \in K,
           NEW c \in Row, Sound(o, c), NEW p \in SUBSET Aliases
    PROVE  SoundTask([Working(h, o, obs, "commit") EXCEPT
                         !.candidate = c, !.promise = p, !.then = "enrich"], K)
BY EmptyIsSound DEF Working, SoundTask, IsTask, Phases, SoundTable

-----------------------------------------------------------------------------
\* Requests.

\* A request changes nothing but the task of its thread.
LEMMA RequestKeeps ==
    ASSUME DeskInv, NEW h \in Handlers, NEW t, SoundTask(t, DOMAIN known),
           task' = [task EXCEPT ![h] = t],
           UNCHANGED <<clock, known, memory, store, health, promised>>
    PROVE  DeskInv'
<1>1. DOMAIN task' = Handlers /\ \A x \in Handlers : SoundTask(task'[x], DOMAIN known)
  BY OneThreadMoves DEF DeskInv
<1> QED BY <1>1 DEF DeskInv

LEMMA ProposeKeeps ==
    ASSUME DeskInv, NEW h \in Handlers, NEW o \in DOMAIN known, NEW c \in Row, Sound(o, c),
           NEW p \in SUBSET Aliases, Propose(h, o, c, p)
    PROVE  DeskInv'
<1>1. o \in Opps /\ known[o] \in Observations[o]
  BY DEF DeskInv
<1>2. SoundTask([Working(h, o, known[o], "commit") EXCEPT
                    !.candidate = c, !.promise = p, !.then = "enrich"], DOMAIN known)
  BY <1>1, ProposalIsSound
<1> QED BY <1>2, RequestKeeps DEF Propose

LEMMA RequestsKeep ==
    ASSUME DeskInv, NEW h \in Handlers, Request(h)
    PROVE  DeskInv'
<1>1. PICK o \in Opps :
        \/ \E obs \in Observations[o] : Board(h, o, obs)
        \/ \E isPhone \in BOOLEAN : RecordResearch(h, o, isPhone)
        \/ \E hours \in Hours : RecordClearance(h, o, hours)
        \/ \E stage \in Targets : Update(h, o, stage)
        \/ \E d \in Dispositions : RecordDisposition(h, o, d)
        \/ CallSheet(h, o)
  BY DEF Request
<1>2. Saved(o) \in Row /\ Sound(o, Saved(o))
  BY SavedIsSound DEF DeskInv
<1>3. /\ Saved(o).expires \in ExpiryTimes /\ Saved(o).expires \in Nat
      /\ clock \in Nat /\ 0 \in ExpiryTimes
  BY <1>2, ExpiriesAreNaturals DEF Row, DeskInv, Times, ExpiryTimes
<1>4. ASSUME o \in DOMAIN known
      PROVE  /\ known[o] \in Observations[o]
             /\ GateOpen(o, known[o]) => Saved(o).suppressed = {}
             /\ known[o].ids \in SUBSET Aliases /\ Name(o) \in known[o].ids
  BY <1>4, OpenGateIsUnsuppressed, NameIsKept DEF DeskInv
<1>5. ASSUME NEW obs \in Observations[o], Board(h, o, obs) PROVE DeskInv'
  BY <1>3, <1>5, WorkingIsSound, RequestKeeps DEF Board
<1>6. ASSUME NEW isPhone \in BOOLEAN, RecordResearch(h, o, isPhone) PROVE DeskInv'
  <2> DEFINE c == [Saved(o) EXCEPT !.stage = "RESEARCH", !.phone = @ \/ isPhone,
                                   !.expires = 0]
  <2>1. o \in DOMAIN known /\ Propose(h, o, c, {})
    BY <1>6 DEF RecordResearch, Admitted
  <2>2. c \in Row
    BY <1>2, <1>3 DEF Row, STAGES
  <2>3. /\ c.stage = "RESEARCH" /\ c.expires = 0 /\ c.suppressed = Saved(o).suppressed
        /\ c.dnc = Saved(o).dnc /\ c.identity = Saved(o).identity
    BY <1>2 DEF Row
  <2>4. Sound(o, c)
    BY <1>2, <2>3 DEF Sound, CONTACT_STAGES
  <2> QED BY <2>1, <2>2, <2>4, ProposeKeeps
<1>7. ASSUME NEW hours \in Hours, RecordClearance(h, o, hours) PROVE DeskInv'
  <2> DEFINE c == [Saved(o) EXCEPT !.stage = "READY", !.expires = clock + hours]
  <2>1. /\ o \in DOMAIN known /\ Propose(h, o, c, {})
        /\ GateOpen(o, known[o]) /\ Saved(o).phone
    BY <1>7 DEF RecordClearance, Admitted
  <2>2. clock + hours \in ExpiryTimes /\ clock + hours > 0
    BY <1>3, DeskAssumption DEF ExpiryTimes, DeskInv
  <2>3. c \in Row
    BY <1>2, <2>2 DEF Row, STAGES
  <2>4. /\ c.expires = clock + hours /\ c.suppressed = Saved(o).suppressed
        /\ c.phone = Saved(o).phone /\ c.dnc = Saved(o).dnc
        /\ c.identity = Saved(o).identity
    BY <1>2 DEF Row
  <2>5. c.suppressed = {}
    BY <1>4, <2>1, <2>4
  <2>6. Sound(o, c)
    BY <1>2, <2>1, <2>2, <2>4, <2>5 DEF Sound
  <2> QED BY <2>1, <2>3, <2>6, ProposeKeeps
<1>8. ASSUME NEW stage \in Targets, Update(h, o, stage) PROVE DeskInv'
  <2> DEFINE c == [Saved(o) EXCEPT !.stage = stage,
                      !.expires = IF stage \in {"RESEARCH", "BLOCKED", "LOST"} THEN 0 ELSE @]
  <2>1. /\ o \in DOMAIN known /\ Propose(h, o, c, {})
        /\ stage = Saved(o).stage \/ stage \in TRANSITIONS[Saved(o).stage]
        /\ stage \in CONTACT_STAGES => Current(Saved(o))
    BY <1>8 DEF Update, Admitted
  <2>2. stage \in STAGES
    <3>1. Saved(o).stage \in STAGES
      BY <1>2 DEF Row
    <3>2. TRANSITIONS[Saved(o).stage] \subseteq STAGES
      BY <3>1 DEF TRANSITIONS, STAGES
    <3> QED BY <2>1, <3>1, <3>2
  <2>3. c \in Row
    BY <1>2, <1>3, <2>2 DEF Row
  <2>4. /\ c.stage = stage /\ c.expires \in {0, Saved(o).expires}
        /\ c.expires = 0 => stage \in {"RESEARCH", "BLOCKED", "LOST"} \/ Saved(o).expires = 0
        /\ c.suppressed = Saved(o).suppressed /\ c.phone = Saved(o).phone
        /\ c.dnc = Saved(o).dnc /\ c.identity = Saved(o).identity
    BY <1>2 DEF Row
  <2>5. stage \in CONTACT_STAGES => Saved(o).phone /\ Saved(o).expires > 0
    BY <1>3, <2>1 DEF Current
  <2>6. Sound(o, c)
    BY <1>2, <1>3, <2>4, <2>5 DEF Sound, CONTACT_STAGES
  <2> QED BY <2>1, <2>3, <2>6, ProposeKeeps
<1>9. ASSUME NEW d \in Dispositions, RecordDisposition(h, o, d) PROVE DeskInv'
  <2> DEFINE ids == known[o].ids
             c == Disposed(Saved(o), d, ids)
             p == IF d = "DO_NOT_CALL" THEN ids ELSE {}
  <2>1. /\ o \in DOMAIN known /\ Propose(h, o, c, p)
        /\ d \notin {"DO_NOT_CALL", "WRONG_BUSINESS"} => Current(Saved(o))
    BY <1>9 DEF RecordDisposition, Admitted
  <2>2. ids \in SUBSET Aliases /\ Name(o) \in ids /\ p \in SUBSET Aliases
    BY <1>4, <2>1
  <2>3. c \in Row
    BY <1>2, <1>3, <2>2 DEF Disposed, Row, STAGES
  <2>4. c.identity = Saved(o).identity /\ c.phone = Saved(o).phone
    BY <1>2 DEF Disposed, Row
  <2>5. CASE d = "DO_NOT_CALL"
    <3>1. c.stage = "BLOCKED" /\ c.expires = 0 /\ c.suppressed = ids
      BY <1>2, <2>5 DEF Disposed, Row
    <3>2. Sound(o, c)
      BY <1>2, <2>2, <2>4, <3>1 DEF Sound, CONTACT_STAGES
    <3> QED BY <2>1, <2>2, <2>3, <3>2, ProposeKeeps
  <2>6. CASE d # "DO_NOT_CALL"
    <3>1. c.suppressed = Saved(o).suppressed /\ c.dnc = FALSE
      BY <1>2, <2>6 DEF Disposed, Row
    <3>2. CASE d \in {"WRONG_BUSINESS", "NOT_INTERESTED"}
      <4>1. c.stage = "LOST" /\ c.expires = 0
        BY <1>2, <3>2 DEF Disposed, Row
      <4>2. Sound(o, c)
        BY <1>2, <2>4, <3>1, <4>1 DEF Sound, CONTACT_STAGES
      <4> QED BY <2>1, <2>2, <2>3, <4>2, ProposeKeeps
    <3>3. CASE d \notin {"WRONG_BUSINESS", "NOT_INTERESTED"}
      <4>1. Saved(o).phone /\ Saved(o).expires > 0
        BY <1>3, <2>1, <2>6, <3>3 DEF Current
      <4>2. c.expires = Saved(o).expires
        BY <1>2, <2>6, <3>3 DEF Disposed, Row
      <4>3. Sound(o, c)
        BY <1>2, <1>3, <2>4, <3>1, <4>1, <4>2 DEF Sound
      <4> QED BY <2>1, <2>2, <2>3, <4>3, ProposeKeeps
    <3> QED BY <3>2, <3>3
  <2> QED BY <2>5, <2>6
<1>10. CASE CallSheet(h, o)
  <2>1. o \in DOMAIN known
    BY <1>10 DEF CallSheet, Admitted
  <2>2. SoundTask([Working(h, o, known[o], "enrich") EXCEPT !.sheet = Saved(o).expires],
                  DOMAIN known)
    BY <1>3, <1>4, <2>1, WorkingIsSound
  <2> QED BY <1>10, <2>2, RequestKeeps DEF CallSheet
<1> QED BY <1>1, <1>5, <1>6, <1>7, <1>8, <1>9, <1>10

-----------------------------------------------------------------------------
\* The steps of a request, the reload and the environment.

\* A thread moves on; the shared state stays sound.
LEMMA MoveKeeps ==
    ASSUME DeskInv, NEW h \in Handlers, NEW t, SoundTask(t, DOMAIN known),
           task' = [task EXCEPT ![h] = t],
           SoundTable(memory'), SoundTable(store'), health' \in {"ready", "unavailable"},
           promised' \subseteq Aliases, UNCHANGED <<clock, known>>
    PROVE  DeskInv'
<1>1. DOMAIN task' = Handlers /\ \A x \in Handlers : SoundTask(task'[x], DOMAIN known)
  BY OneThreadMoves DEF DeskInv
<1> QED BY <1>1 DEF DeskInv

\* A thread in one of the phases of a request.
LEMMA AtWork ==
    ASSUME DeskInv, NEW h \in Handlers, task[h].pc \in Phases
    PROVE  /\ IsTask(task[h]) /\ SoundTable(task[h].rows)
           /\ Sound(task[h].opp, task[h].candidate)
           /\ IF task[h].pc = "enrich" THEN task[h].install = {} ELSE task[h].opp \in DOMAIN known
BY DEF DeskInv, SoundTask, Idle, IsReload, ReloadPhases, Phases

\* A thread in one of the phases of a reload.
LEMMA AtReload ==
    ASSUME DeskInv, NEW h \in Handlers, task[h].pc \in ReloadPhases
    PROVE  IsReload(task[h]) /\ SoundTable(task[h].rows)
BY DEF DeskInv, SoundTask, Idle, IsTask, ReloadPhases, Phases

LEMMA CommitKeeps ==
    ASSUME DeskInv, NEW h \in Handlers,
           TakeSnapshot(h) \/ Write(h) \/ WriteFails(h) \/ Publish(h)
    PROVE  DeskInv'
<1> USE DEF Phases
<1>1. CASE TakeSnapshot(h)
  <2> DEFINE t == task[h]
             row == [t.candidate EXCEPT !.identity = known[t.opp].ids]
             u == [t EXCEPT !.pc = "write", !.candidate = Blank,
                            !.rows = With(memory, t.opp, row), !.install = {t.opp}]
  <2>1. /\ t.pc = "commit" /\ task' = [task EXCEPT ![h] = u]
        /\ UNCHANGED <<clock, known, memory, store, health, promised>>
    BY <1>1 DEF TakeSnapshot
  <2>2. IsTask(t) /\ Sound(t.opp, t.candidate) /\ t.opp \in DOMAIN known
    BY <2>1, AtWork
  <2>3. t.opp \in Opps /\ t.candidate \in Row /\ known[t.opp] \in Observations[t.opp]
    BY <2>2 DEF IsTask, DeskInv
  <2>4. known[t.opp].ids \subseteq Aliases /\ Name(t.opp) \in known[t.opp].ids
    BY <2>3, NameIsKept
  <2>5. row \in Row
    BY <2>3, <2>4 DEF Row
  <2>6. Sound(t.opp, row)
    BY <2>2, <2>3, <2>4 DEF Sound, Row
  <2>7. /\ SoundTable(With(memory, t.opp, row))
        /\ t.opp \in DOMAIN With(memory, t.opp, row)
    <3>1. SoundTable(memory)
      BY DEF DeskInv
    <3> HIDE DEF row, t
    <3>2. DOMAIN With(memory, t.opp, row) = DOMAIN memory \cup {t.opp}
      BY <2>3, <2>5, <2>6, <3>1, WithIsSound
    <3> QED BY <2>3, <2>5, <2>6, <3>1, <3>2, WithIsSound
  <2>8. SoundTask(u, DOMAIN known)
    BY <2>2, <2>3, <2>7, BlankIsSound DEF SoundTask, IsTask, SoundTable
  <2> QED BY <2>1, <2>8, RequestKeeps
<1>2. CASE Write(h)
  <2>1. IsTask(task[h]) /\ SoundTable(task[h].rows) /\ task[h].opp \in DOMAIN known
        /\ Sound(task[h].opp, task[h].candidate)
    BY <1>2, AtWork DEF Write
  <2>2. SoundTask([task[h] EXCEPT !.pc = "publish"], DOMAIN known)
    BY <2>1 DEF SoundTask, IsTask
  <2>3. SoundTable(store')
    BY <1>2, <2>1, OverlayIsSound DEF Write, Upserted, DeskInv
  <2> QED BY <1>2, <2>2, <2>3, MoveKeeps DEF Write, DeskInv
<1>3. CASE WriteFails(h)
  <2>1. SoundTable(task[h].rows)
    BY <1>3, AtWork DEF WriteFails
  <2>2. SoundTable(store')
    BY <1>3, <2>1, OverlayIsSound DEF WriteFails, Upserted, DeskInv
  <2> QED BY <1>3, <2>2, IdleIsSound, MoveKeeps DEF WriteFails, DeskInv
<1>4. CASE Publish(h)
  <2> DEFINE t == task[h]
             rows == [o \in t.install |-> t.rows[o]]
             u == IF t.then = "done" THEN Idle
                  ELSE [t EXCEPT !.pc = t.then, !.rows = Empty, !.install = {},
                                 !.promise = {}, !.then = "done"]
  <2>1. /\ t.pc = "publish" /\ task' = [task EXCEPT ![h] = u]
        /\ memory' = Overlay(memory, rows) /\ promised' = promised \cup t.promise
        /\ UNCHANGED <<clock, known, store, health>>
    BY <1>4 DEF Publish
  <2>2. IsTask(t) /\ SoundTable(t.rows) /\ t.opp \in DOMAIN known
        /\ Sound(t.opp, t.candidate)
    BY <2>1, AtWork
  <2>3. SoundTable(rows)
    BY <2>2 DEF SoundTable, IsTable, IsTask
  <2>4. SoundTable(memory')
    BY <2>1, <2>3, OverlayIsSound DEF DeskInv
  <2>5. SoundTask(u, DOMAIN known)
    <3>1. CASE t.then = "done"
      BY <3>1, IdleIsSound
    <3>2. CASE t.then # "done"
      BY <2>2, <3>2, EmptyIsSound DEF SoundTask, IsTask, SoundTable
    <3> QED BY <3>1, <3>2
  <2>6. promised' \subseteq Aliases
    BY <2>1, <2>2 DEF IsTask, DeskInv
  <2> QED BY <2>1, <2>4, <2>5, <2>6, MoveKeeps DEF DeskInv
<1> QED BY <1>1, <1>2, <1>3, <1>4

LEMMA EnrichKeeps ==
    ASSUME DeskInv, NEW h \in Handlers, Enrich(h)
    PROVE  DeskInv'
<1> USE DEF Phases
<1> DEFINE t == task[h]
           own == Extended(Saved(t.opp), t.seen)
           all == Normalized(memory)
           L == DOMAIN known'
<1>1. /\ IsTask(t) /\ SoundTable(t.rows) /\ Sound(t.opp, t.candidate) /\ t.pc = "enrich"
      /\ t.opp \in Opps /\ t.seen \in Observations[t.opp] /\ t.install = {}
  BY AtWork DEF Enrich, IsTask
<1>2. /\ known' = With(known, t.opp, t.seen)
      /\ UNCHANGED <<clock, store, health, promised>>
  BY DEF Enrich
<1>3. /\ L = DOMAIN known \cup {t.opp} /\ L \subseteq Opps
      /\ \A o \in L : known'[o] \in Observations[o]
  BY <1>1, <1>2 DEF With, Overlay, DeskInv
<1>4. own \in Row /\ Sound(t.opp, own)
  <2>1. Saved(t.opp) \in Row /\ Sound(t.opp, Saved(t.opp))
    BY <1>1, SavedIsSound DEF DeskInv
  <2>2. t.seen.ids \subseteq Aliases /\ Name(t.opp) \in t.seen.ids
    BY <1>1, NameIsKept
  <2>3. CASE Saved(t.opp).dnc \/ Saved(t.opp).suppressed # {}
    <3>1. own = [Saved(t.opp) EXCEPT !.stage = "BLOCKED", !.expires = 0,
                    !.suppressed = @ \cup t.seen.ids, !.identity = t.seen.ids]
      BY <2>3 DEF Extended
    <3>2. own \in Row
      <4>1. 0 \in ExpiryTimes
        BY DEF ExpiryTimes
      <4> QED BY <2>1, <2>2, <3>1, <4>1 DEF Row, STAGES
    <3>3. /\ own.stage = "BLOCKED" /\ own.expires = 0 /\ own.identity = t.seen.ids
          /\ Name(t.opp) \in own.suppressed
      BY <2>1, <2>2, <3>1 DEF Row
    <3>4. Sound(t.opp, own)
      BY <2>2, <3>3 DEF Sound, CONTACT_STAGES
    <3> QED BY <3>2, <3>4
  <2>4. CASE ~ (Saved(t.opp).dnc \/ Saved(t.opp).suppressed # {})
    BY <2>1, <2>4 DEF Extended
  <2> QED BY <2>3, <2>4
<1>5. SoundTable(all)
  BY NormalizedIsSound DEF DeskInv
<1>6. ASSUME NEW u, SoundTask(u, L), task' = [task EXCEPT ![h] = u], SoundTable(memory')
      PROVE  DeskInv'
  <2>1. DOMAIN task' = Handlers /\ \A x \in Handlers : SoundTask(task'[x], L)
    BY <1>3, <1>6, OneThreadMoves DEF DeskInv
  <2> QED BY <1>2, <1>3, <1>6, <2>1 DEF DeskInv
<1>7. CASE /\ task' = [task EXCEPT ![h] = [t EXCEPT !.pc = "commit", !.candidate = own,
                                                    !.then = "answer"]]
           /\ UNCHANGED memory
  <2>1. SoundTask([t EXCEPT !.pc = "commit", !.candidate = own, !.then = "answer"], L)
    BY <1>1, <1>3, <1>4 DEF SoundTask, IsTask
  <2> QED BY <1>6, <1>7, <2>1 DEF DeskInv
<1>8. CASE /\ task' = [task EXCEPT ![h] = [t EXCEPT !.pc = "write", !.rows = all,
                                                    !.then = "answer"]]
           /\ memory' = all
  <2>1. SoundTask([t EXCEPT !.pc = "write", !.rows = all, !.then = "answer"], L)
    BY <1>1, <1>3, <1>5 DEF SoundTask, IsTask, SoundTable
  <2> QED BY <1>5, <1>6, <1>8, <2>1
<1>9. CASE /\ task' = [task EXCEPT ![h] = [@ EXCEPT !.pc = "answer"]]
           /\ UNCHANGED memory
  <2>1. SoundTask([t EXCEPT !.pc = "answer"], L)
    BY <1>1, <1>3 DEF SoundTask, IsTask
  <2> QED BY <1>6, <1>9, <2>1 DEF DeskInv
<1> QED BY <1>7, <1>8, <1>9 DEF Enrich

LEMMA AnswerKeeps ==
    ASSUME DeskInv, NEW h \in Handlers, Answer(h) \/ SheetUsed(h)
    PROVE  DeskInv'
<1> USE DEF Phases
<1>1. CASE Answer(h)
  <2> DEFINE t == task[h]
             row == Saved(t.opp)
             c == [row EXCEPT !.stage = "BLOCKED", !.expires = 0]
  <2>1. /\ IsTask(t) /\ SoundTable(t.rows) /\ Sound(t.opp, t.candidate)
        /\ t.opp \in DOMAIN known /\ t.opp \in Opps
    BY <1>1, AtWork DEF Answer, IsTask
  <2>2. row \in Row /\ Sound(t.opp, row) /\ 0 \in ExpiryTimes
    BY <2>1, SavedIsSound DEF DeskInv, ExpiryTimes
  <2>3. c \in Row
    BY <2>2 DEF Row, STAGES
  <2>4. Sound(t.opp, c)
    BY <2>2 DEF Sound, Row, CONTACT_STAGES
  <2>5. SoundTask([t EXCEPT !.pc = "commit", !.then = "done", !.candidate = c], DOMAIN known)
    <3> HIDE DEF c
    <3> QED BY <2>1, <2>3, <2>4 DEF SoundTask, IsTask
  <2>6. SoundTask([t EXCEPT !.pc = "sheet"], DOMAIN known)
    BY <2>1 DEF SoundTask, IsTask
  <2>7. UNCHANGED <<clock, known, memory, store, health, promised>>
    BY <1>1 DEF Answer
  <2>8. \E u \in {[t EXCEPT !.pc = "commit", !.then = "done", !.candidate = c],
                  [t EXCEPT !.pc = "sheet"], Idle} : task' = [task EXCEPT ![h] = u]
    BY <1>1 DEF Answer
  <2> QED BY <2>5, <2>6, <2>7, <2>8, IdleIsSound, RequestKeeps
<1>2. CASE SheetUsed(h)
  BY <1>2, IdleIsSound, RequestKeeps DEF SheetUsed
<1> QED BY <1>1, <1>2

LEMMA ReloadKeeps ==
    ASSUME DeskInv, NEW h \in Handlers,
           \/ ReloadReads(h) \/ ReloadWrites(h) \/ ReloadFails(h)
           \/ ReloadClears(h) \/ ReloadInstalls(h)
    PROVE  DeskInv'
<1> USE DEF ReloadPhases
<1>1. CASE ReloadReads(h)
  <2>1. SoundTable(Normalized(store))
    BY NormalizedIsSound DEF DeskInv
  <2>2. ASSUME NEW pc \in ReloadPhases
        PROVE  SoundTask(Reload(pc, Normalized(store)), DOMAIN known)
    BY <2>1 DEF SoundTask, IsReload, Reload, SoundTable
  <2> QED BY <1>1, <2>2, RequestKeeps DEF ReloadReads
<1>2. ASSUME task[h].pc \in ReloadPhases
      PROVE  /\ SoundTable(task[h].rows)
             /\ \A pc \in ReloadPhases : SoundTask([task[h] EXCEPT !.pc = pc], DOMAIN known)
  <2>1. IsReload(task[h]) /\ SoundTable(task[h].rows)
    BY <1>2, AtReload
  <2> QED BY <2>1 DEF SoundTask, IsReload
<1>3. CASE ReloadWrites(h)
  <2>1. SoundTable(store')
    BY <1>2, <1>3, OverlayIsSound DEF ReloadWrites, Upserted, DeskInv
  <2> QED BY <1>2, <1>3, <2>1, MoveKeeps DEF ReloadWrites, DeskInv
<1>4. CASE ReloadFails(h)
  <2>1. SoundTable(store')
    BY <1>2, <1>4, OverlayIsSound DEF ReloadFails, Upserted, DeskInv
  <2> QED BY <1>4, <2>1, IdleIsSound, MoveKeeps DEF ReloadFails, DeskInv
<1>5. CASE ReloadClears(h)
  BY <1>2, <1>5, EmptyIsSound, MoveKeeps DEF ReloadClears, DeskInv
<1>6. CASE ReloadInstalls(h)
  <2>1. SoundTable(memory')
    BY <1>2, <1>6, OverlayIsSound DEF ReloadInstalls, DeskInv
  <2> QED BY <1>6, <2>1, IdleIsSound, MoveKeeps DEF ReloadInstalls, DeskInv
<1> QED BY <1>1, <1>3, <1>4, <1>5, <1>6

LEMMA EnvironmentKeeps ==
    ASSUME DeskInv, ProbeFails \/ Restart \/ Tick
    PROVE  DeskInv'
<1>1. CASE ProbeFails
  BY <1>1 DEF ProbeFails, DeskInv
<1>2. CASE Restart
  <2>1. SoundTable(Normalized(store))
    BY NormalizedIsSound DEF DeskInv
  <2>2. SoundTable(memory') /\ SoundTable(store') /\ health' \in {"ready", "unavailable"}
    BY <1>2, <2>1, EmptyIsSound DEF Restart, DeskInv
  <2>3. DOMAIN known' = {} /\ task' = [h \in Handlers |-> Idle]
        /\ UNCHANGED <<clock, promised>>
    BY <1>2 DEF Restart
  <2> QED BY <2>2, <2>3, IdleIsSound DEF DeskInv
<1>3. CASE Tick
  <2>1. clock' \in Times
    BY <1>3, DeskAssumption DEF Tick, Times, DeskInv
  <2> QED BY <1>3, <2>1 DEF Tick, DeskInv
<1> QED BY <1>1, <1>2, <1>3

-----------------------------------------------------------------------------
\* Theorems.

LEMMA NextKeeps ==
    ASSUME DeskInv, [Next]_vars
    PROVE  DeskInv'
<1>1. CASE UNCHANGED vars
  BY <1>1 DEF vars, DeskInv
<1>2. ASSUME NEW h \in Handlers, Request(h) PROVE DeskInv'
  BY <1>2, RequestsKeep
<1>3. ASSUME NEW h \in Handlers, Step(h) PROVE DeskInv'
  BY <1>3, CommitKeeps, EnrichKeeps, AnswerKeeps, ReloadKeeps DEF Step
<1>4. CASE ProbeFails \/ Restart \/ Tick
  BY <1>4, EnvironmentKeeps
<1> QED BY <1>1, <1>2, <1>3, <1>4 DEF Next

\* The inductive invariant: every row, wherever it is, is sound by itself.
THEOREM DeskInvariant == Spec => []DeskInv
<1>1. Init => DeskInv
  <2> SUFFICES ASSUME Init PROVE DeskInv
    OBVIOUS
  <2>1. clock \in Times
    BY DeskAssumption DEF Init, Times
  <2> QED BY <2>1, EmptyIsSound, IdleIsSound DEF Init, DeskInv
<1>2. DeskInv /\ [Next]_vars => DeskInv'
  BY NextKeeps
<1> QED BY <1>1, <1>2, PTL DEF Spec

\* Every reachable state of the desk is well typed.
THEOREM DeskTypeCorrectness == Spec => []TypeOK
<1>1. Init => crowded \in BOOLEAN
  BY DEF Init
<1>2. crowded \in BOOLEAN /\ [Next]_vars => (crowded \in BOOLEAN)'
  BY DEF Next, vars
<1>3. DeskInv /\ crowded \in BOOLEAN => TypeOK
  BY DEF DeskInv, TypeOK, SoundTable, SoundTask
<1> QED BY <1>1, <1>2, <1>3, DeskInvariant, PTL DEF Spec

\* Whatever the threads interleave, and whatever write fails, no row of memory or
\* of the store is in a contact stage without a clearance for a phone on record,
\* or suppressed and cleared (record_clearance, update, record_disposition,
\* _backfill_legacy_suppression).
THEOREM RowsStayCoherent == Spec => []RowsAreCoherent
<1>1. DeskInv => RowsAreCoherent
  BY DEF DeskInv, RowsAreCoherent, SoundTable, Sound
<1> QED BY <1>1, DeskInvariant, PTL


-----------------------------------------------------------------------------
(***************************************************************************)
(* One request at a time, and every report of an opportunity names the     *)
(* same aliases, all of which a saved identity reproduces.  A suppression  *)
(* then covers all aliases of its opportunity, and only the thread that    *)
(* is at work can stand between memory and the store.                      *)
(***************************************************************************)

SteadyReports ==
    \A o \in Opps : \A a, b \in Observations[o] : a.ids = b.ids /\ a.ids \cap Unrestorable = {}

\* The aliases of an opportunity.
Ids(o) == UNION {obs.ids : obs \in Observations[o]}

Full(o, row) == row.suppressed \in {{}, Ids(o)} /\ row.identity \in {{}, Ids(o)}
FullTable(t) == \A o \in DOMAIN t : Full(o, t[o])
Suppressions(t) == UNION {t[o].suppressed : o \in DOMAIN t}

\* What the thread at work knows of memory m, the store s and the promises p:
\* while it reads rows; while it saves them; while it reloads them.
Serving(t, m, s) ==
    /\ m = s /\ Full(t.opp, t.candidate)
    /\ IF t.pc # "commit" THEN t.promise = {}
       ELSE /\ t.promise \subseteq t.candidate.suppressed
            /\ t.opp \in DOMAIN m => m[t.opp].suppressed \subseteq t.candidate.suppressed

Saving(t, m, s, p) ==
    /\ FullTable(t.rows) /\ Full(t.opp, t.candidate)
    /\ DOMAIN s \subseteq DOMAIN t.rows
    /\ Overlay(m, [o \in t.install |-> t.rows[o]]) = t.rows
    /\ p \cup t.promise \subseteq Suppressions(t.rows)
    /\ p \subseteq Suppressions(m)
    /\ t.pc = "publish" => s = t.rows

Recovering(t, m, s) ==
    /\ t.rows = IF t.pc = "rewrite" THEN Normalized(s) ELSE s
    /\ t.pc = "install" => m = Empty

Fits(t, m, s, p) ==
    /\ t.pc \in {"commit", "enrich", "answer", "sheet"} => Serving(t, m, s)
    /\ t.pc \in {"write", "publish"} => Saving(t, m, s, p)
    /\ t.pc \in ReloadPhases => Recovering(t, m, s)

AloneInv ==
    /\ OneAtATime
    /\ FullTable(memory) /\ FullTable(store)
    /\ promised \subseteq Suppressions(store)
    /\ (\A h \in Handlers : task[h] = Idle) /\ health = "ready" => memory = store
    /\ \A h \in Handlers : task[h] # Idle => Fits(task[h], memory, store, promised)

LEMMA SteadyIds ==
    ASSUME SteadyReports, NEW o \in Opps
    PROVE  /\ Restored(Ids(o)) = Ids(o)
           /\ \A obs \in Observations[o] : obs.ids = Ids(o) /\ obs.ids # {}
<1>1. \A obs \in Observations[o] : obs.ids = Ids(o)
  BY DEF SteadyReports, Ids
<1>2. Ids(o) \cap Unrestorable = {}
  BY DEF SteadyReports, Ids
<1> QED BY <1>1, <1>2, NameIsKept DEF Restored

LEMMA BlankIsFull == \A o : Full(o, Blank)
BY DEF Full, Blank

\* The rows of a table win over what they are laid over.
LEMMA OverlayOfLess ==
    ASSUME NEW s, NEW t, IsTable(t), DOMAIN s \subseteq DOMAIN t
    PROVE  Overlay(s, t) = t
<1>1. DOMAIN s \cup DOMAIN t = DOMAIN t
  OBVIOUS
<1>2. t = [o \in DOMAIN t |-> t[o]]
  BY DEF IsTable
<1> QED BY <1>1, <1>2 DEF Overlay

LEMMA OverlayOfNothing ==
    ASSUME NEW m, IsTable(m), NEW r
    PROVE  Overlay(m, [o \in {} |-> r[o]]) = m
<1>1. m = [o \in DOMAIN m |-> m[o]]
  BY DEF IsTable
<1> QED BY <1>1 DEF Overlay

LEMMA WithIsFull ==
    ASSUME NEW t, NEW o, NEW row, IsTable(t), FullTable(t), Full(o, row),
           o \in DOMAIN t => t[o].suppressed \subseteq row.suppressed
    PROVE  /\ DOMAIN With(t, o, row) = DOMAIN t \cup {o}
           /\ FullTable(With(t, o, row))
           /\ Suppressions(t) \cup row.suppressed \subseteq Suppressions(With(t, o, row))
           /\ Overlay(t, [x \in {o} |-> With(t, o, row)[x]]) = With(t, o, row)
<1> DEFINE w == With(t, o, row)
<1>1. DOMAIN w = DOMAIN t \cup {o} /\ \A x \in DOMAIN w : w[x] = IF x = o THEN row ELSE t[x]
  BY DEF With, Overlay
<1>2. FullTable(w)
  BY <1>1 DEF FullTable
<1>3. \A x \in DOMAIN t : t[x].suppressed \subseteq w[x].suppressed
  BY <1>1
<1>4. Suppressions(t) \cup row.suppressed \subseteq Suppressions(w)
  BY <1>1, <1>3 DEF Suppressions
<1>5. [x \in {o} |-> w[x]] = [x \in {o} |-> row]
  BY <1>1
<1>6. Overlay(t, [x \in {o} |-> w[x]]) = w
  BY <1>5 DEF With
<1> QED BY <1>1, <1>2, <1>4, <1>6

LEMMA NormalizedIsFull ==
    ASSUME SteadyReports, NEW t, SoundTable(t), FullTable(t)
    PROVE  /\ DOMAIN Normalized(t) = DOMAIN t
           /\ FullTable(Normalized(t))
           /\ Suppressions(t) \subseteq Suppressions(Normalized(t))
<1> DEFINE u == Normalized(t)
<1>1. DOMAIN u = DOMAIN t
  BY DEF Normalized
<1>2. ASSUME NEW o \in DOMAIN t
      PROVE  Full(o, u[o]) /\ t[o].suppressed \subseteq u[o].suppressed
  <2> DEFINE ids == Restored(t[o].identity)
  <2>1. o \in Opps /\ t[o] \in Row /\ Full(o, t[o])
    BY <1>2 DEF SoundTable, IsTable, FullTable
  <2>2. CASE u[o] = t[o]
    BY <2>1, <2>2
  <2>3. CASE u[o] # t[o]
    <3>1. /\ ids # {}
          /\ u[o] = [t[o] EXCEPT !.stage = "BLOCKED", !.suppressed = ids, !.identity = ids]
      BY <1>2, <2>3 DEF Normalized
    <3>2. t[o].identity # {}
      BY <3>1 DEF Restored
    <3>3. t[o].identity = Ids(o)
      BY <2>1, <3>2 DEF Full
    <3>4. ids = Ids(o)
      BY <2>1, <3>3, SteadyIds
    <3>5. u[o].suppressed = ids /\ u[o].identity = ids
      BY <2>1, <3>1 DEF Row
    <3> QED BY <2>1, <3>4, <3>5 DEF Full
  <2> QED BY <2>2, <2>3
<1>3. FullTable(u)
  BY <1>1, <1>2 DEF FullTable
<1>4. Suppressions(t) \subseteq Suppressions(u)
  BY <1>1, <1>2 DEF Suppressions
<1> QED BY <1>1, <1>3, <1>4


-----------------------------------------------------------------------------
\* One request at a time: the steps.

\* The only thread at work moves on, or ends.
LEMMA AloneMove ==
    ASSUME DeskInv, AloneInv, NEW h \in Handlers, NEW t, task' = [task EXCEPT ![h] = t],
           OneAtATime', task[h] # Idle \/ t # Idle,
           FullTable(memory'), FullTable(store'), promised' \subseteq Suppressions(store'),
           t = Idle => (health' = "ready" => memory' = store'),
           t # Idle => Fits(t, memory', store', promised')
    PROVE  AloneInv'
<1>1. task'[h] = t /\ \A k \in Handlers : k # h => task'[k] = task[k]
  BY DEF DeskInv
<1>2. \A k \in Handlers : k # h => task[k] = Idle
  BY <1>1 DEF AloneInv, OneAtATime
<1> QED BY <1>1, <1>2 DEF AloneInv

\* A request that may start finds memory and the store alike.
LEMMA AdmittedFindsTheStore ==
    ASSUME DeskInv, AloneInv, NEW h \in Handlers, NEW t, task' = [task EXCEPT ![h] = t],
           OneAtATime', t # Idle, task[h] = Idle, health = "ready"
    PROVE  memory = store
<1>1. task'[h] = t /\ \A k \in Handlers : k # h => task'[k] = task[k]
  BY DEF DeskInv
<1>2. \A k \in Handlers : task[k] = Idle
  BY <1>1 DEF OneAtATime
<1> QED BY <1>2 DEF AloneInv

\* A request that begins by reading memory.
LEMMA AloneServes ==
    ASSUME DeskInv, AloneInv, NEW h \in Handlers, NEW t, task' = [task EXCEPT ![h] = t],
           OneAtATime', task[h] = Idle, health = "ready",
           UNCHANGED <<memory, store, promised>>,
           t.pc \in {"enrich", "commit"}, Full(t.opp, t.candidate),
           t.pc = "enrich" => t.promise = {},
           t.pc = "commit" =>
               /\ t.promise \subseteq t.candidate.suppressed
               /\ t.opp \in DOMAIN memory => memory[t.opp].suppressed \subseteq t.candidate.suppressed
    PROVE  AloneInv'
<1>1. t # Idle
  BY DEF Idle
<1>2. memory = store
  BY <1>1, AdmittedFindsTheStore
<1>3. Fits(t, memory', store', promised')
  BY <1>2 DEF Fits, Serving, ReloadPhases
<1> QED BY <1>1, <1>3, AloneMove DEF AloneInv

LEMMA AloneProposes ==
    ASSUME DeskInv, AloneInv, NEW h \in Handlers, NEW o \in DOMAIN known, NEW c, NEW p,
           OneAtATime', Admitted(h, o), Propose(h, o, c, p),
           Full(o, c), p \subseteq c.suppressed, Saved(o).suppressed \subseteq c.suppressed
    PROVE  AloneInv'
<1> DEFINE t == [Working(h, o, known[o], "commit") EXCEPT
                    !.candidate = c, !.promise = p, !.then = "enrich"]
<1>1. t.pc = "commit" /\ t.opp = o /\ t.candidate = c /\ t.promise = p
  BY DEF Working
<1>2. /\ task' = [task EXCEPT ![h] = t] /\ UNCHANGED <<memory, store, promised>>
      /\ task[h] = Idle /\ health = "ready"
  BY DEF Propose, Admitted
<1>3. o \in DOMAIN memory => memory[o].suppressed \subseteq c.suppressed
  BY DEF Saved
<1> HIDE DEF t
<1> QED BY <1>1, <1>2, <1>3, AloneServes

LEMMA SavedIsFull ==
    ASSUME AloneInv, NEW o
    PROVE  Full(o, Saved(o))
BY BlankIsFull DEF AloneInv, FullTable, Saved

LEMMA AloneRequests ==
    ASSUME SteadyReports, DeskInv, AloneInv, NEW h \in Handlers, Request(h), OneAtATime'
    PROVE  AloneInv'
<1>1. PICK o \in Opps :
        \/ \E obs \in Observations[o] : Board(h, o, obs)
        \/ \E isPhone \in BOOLEAN : RecordResearch(h, o, isPhone)
        \/ \E hours \in Hours : RecordClearance(h, o, hours)
        \/ \E stage \in Targets : Update(h, o, stage)
        \/ \E d \in Dispositions : RecordDisposition(h, o, d)
        \/ CallSheet(h, o)
  BY DEF Request
<1>2. Saved(o) \in Row /\ Full(o, Saved(o))
  BY SavedIsSound, SavedIsFull DEF DeskInv
<1>3. o \in DOMAIN known => known[o].ids = Ids(o)
  BY SteadyIds DEF DeskInv
<1>4. ASSUME NEW c, Admitted(h, o), Propose(h, o, c, {}),
             c.suppressed = Saved(o).suppressed, c.identity = Saved(o).identity
      PROVE  AloneInv'
  <2>1. o \in DOMAIN known
    BY <1>4 DEF Admitted
  <2>2. Full(o, c)
    BY <1>2, <1>4 DEF Full
  <2> QED BY <1>4, <2>1, <2>2, AloneProposes
<1>5. ASSUME NEW obs \in Observations[o], Board(h, o, obs) PROVE AloneInv'
  <2> DEFINE t == Working(h, o, obs, "enrich")
  <2>1. t.pc = "enrich" /\ t.opp = o /\ t.candidate = Blank /\ t.promise = {}
    BY DEF Working
  <2>2. /\ task' = [task EXCEPT ![h] = t] /\ UNCHANGED <<memory, store, promised>>
        /\ task[h] = Idle /\ health = "ready"
    BY <1>5 DEF Board
  <2> HIDE DEF t
  <2> QED BY <2>1, <2>2, BlankIsFull, AloneServes
<1>6. ASSUME NEW isPhone \in BOOLEAN, RecordResearch(h, o, isPhone) PROVE AloneInv'
  <2> DEFINE c == [Saved(o) EXCEPT !.stage = "RESEARCH", !.phone = @ \/ isPhone, !.expires = 0]
  <2>1. Admitted(h, o) /\ Propose(h, o, c, {})
    BY <1>6 DEF RecordResearch
  <2>2. c.suppressed = Saved(o).suppressed /\ c.identity = Saved(o).identity
    BY <1>2 DEF Row
  <2> HIDE DEF c
  <2> QED BY <1>4, <2>1, <2>2
<1>7. ASSUME NEW hours \in Hours, RecordClearance(h, o, hours) PROVE AloneInv'
  <2> DEFINE c == [Saved(o) EXCEPT !.stage = "READY", !.expires = clock + hours]
  <2>1. Admitted(h, o) /\ Propose(h, o, c, {})
    BY <1>7 DEF RecordClearance
  <2>2. c.suppressed = Saved(o).suppressed /\ c.identity = Saved(o).identity
    BY <1>2 DEF Row
  <2> HIDE DEF c
  <2> QED BY <1>4, <2>1, <2>2
<1>8. ASSUME NEW stage \in Targets, Update(h, o, stage) PROVE AloneInv'
  <2> DEFINE c == [Saved(o) EXCEPT !.stage = stage,
                      !.expires = IF stage \in {"RESEARCH", "BLOCKED", "LOST"} THEN 0 ELSE @]
  <2>1. Admitted(h, o) /\ Propose(h, o, c, {})
    BY <1>8 DEF Update
  <2>2. c.suppressed = Saved(o).suppressed /\ c.identity = Saved(o).identity
    BY <1>2 DEF Row
  <2> HIDE DEF c
  <2> QED BY <1>4, <2>1, <2>2
<1>9. ASSUME NEW d \in Dispositions, RecordDisposition(h, o, d) PROVE AloneInv'
  <2> DEFINE ids == known[o].ids
             c == Disposed(Saved(o), d, ids)
             p == IF d = "DO_NOT_CALL" THEN ids ELSE {}
  <2>1. o \in DOMAIN known /\ Admitted(h, o) /\ Propose(h, o, c, p)
    BY <1>9 DEF RecordDisposition, Admitted
  <2>2. /\ c.suppressed = IF d = "DO_NOT_CALL" THEN ids ELSE Saved(o).suppressed
        /\ c.identity = Saved(o).identity
    BY <1>2 DEF Disposed, Row
  <2>3. ids = Ids(o)
    BY <1>3, <2>1
  <2>4. Full(o, c)
    BY <1>2, <2>2, <2>3 DEF Full
  <2>5. p \subseteq c.suppressed /\ Saved(o).suppressed \subseteq c.suppressed
    BY <1>2, <2>2, <2>3 DEF Full
  <2> HIDE DEF c, p
  <2> QED BY <2>1, <2>4, <2>5, AloneProposes
<1>10. CASE CallSheet(h, o)
  <2> DEFINE t == [Working(h, o, known[o], "enrich") EXCEPT !.sheet = Saved(o).expires]
  <2>1. t.pc = "enrich" /\ t.opp = o /\ t.candidate = Blank /\ t.promise = {}
    BY DEF Working
  <2>2. /\ task' = [task EXCEPT ![h] = t] /\ UNCHANGED <<memory, store, promised>>
        /\ task[h] = Idle /\ health = "ready"
    BY <1>10 DEF CallSheet, Admitted
  <2> HIDE DEF t
  <2> QED BY <2>1, <2>2, BlankIsFull, AloneServes
<1> QED BY <1>1, <1>5, <1>6, <1>7, <1>8, <1>9, <1>10


LEMMA AloneCommits ==
    ASSUME SteadyReports, DeskInv, AloneInv, NEW h \in Handlers, OneAtATime',
           TakeSnapshot(h) \/ Write(h) \/ WriteFails(h) \/ Publish(h)
    PROVE  AloneInv'
<1> USE DEF Phases, ReloadPhases
<1>0. ASSUME task[h].pc \in Phases
      PROVE  /\ task[h] # Idle /\ IsTask(task[h]) /\ IsTable(task[h].rows)
             /\ Fits(task[h], memory, store, promised)
  BY <1>0, AtWork DEF AloneInv, Idle, SoundTable
<1>1. CASE TakeSnapshot(h)
  <2> DEFINE t == task[h]
             o == t.opp
             row == [t.candidate EXCEPT !.identity = known[o].ids]
             rows == With(memory, o, row)
             u == [t EXCEPT !.pc = "write", !.candidate = Blank, !.rows = rows, !.install = {o}]
  <2>1. /\ t.pc = "commit" /\ task' = [task EXCEPT ![h] = u]
        /\ UNCHANGED <<known, memory, store, health, promised>>
    BY <1>1 DEF TakeSnapshot
  <2>2. IsTask(t) /\ Serving(t, memory, store) /\ o \in DOMAIN known /\ o \in Opps
    BY <1>0, <2>1, AtWork DEF Fits, IsTask
  <2>3. known[o].ids = Ids(o)
    BY <2>2, SteadyIds DEF DeskInv
  <2>4. row.suppressed = t.candidate.suppressed /\ row.identity = Ids(o)
    BY <2>2, <2>3 DEF IsTask, Row
  <2>5. /\ Full(o, row) /\ t.promise \subseteq row.suppressed
        /\ o \in DOMAIN memory => memory[o].suppressed \subseteq row.suppressed
    BY <2>1, <2>2, <2>4 DEF Full, Serving
  <2>6. IsTable(memory) /\ FullTable(memory)
    BY DEF DeskInv, SoundTable, AloneInv
  <2>7. /\ u.pc = "write" /\ u.opp = o /\ u.candidate = Blank /\ u.rows = rows
        /\ u.install = {o} /\ u.promise = t.promise
    BY <2>2 DEF IsTask
  <2> HIDE DEF row
  <2>8. /\ DOMAIN rows = DOMAIN memory \cup {o} /\ FullTable(rows)
        /\ Suppressions(memory) \cup row.suppressed \subseteq Suppressions(rows)
        /\ Overlay(memory, [x \in {o} |-> rows[x]]) = rows
    BY <2>5, <2>6, WithIsFull
  <2>9. promised \subseteq Suppressions(memory) /\ memory = store
    BY <2>2 DEF Serving, AloneInv
  <2> HIDE DEF rows, u, o
  <2>10. Saving(u, memory, store, promised)
    BY <2>5, <2>7, <2>8, <2>9, BlankIsFull DEF Saving
  <2>11. Fits(u, memory', store', promised') /\ u # Idle
    BY <2>1, <2>7, <2>10 DEF Fits, Idle
  <2> QED BY <2>1, <2>11, AloneMove DEF AloneInv
<1>2. CASE Write(h)
  <2> DEFINE t == task[h]
             u == [t EXCEPT !.pc = "publish"]
  <2>1. /\ t.pc = "write" /\ task' = [task EXCEPT ![h] = u] /\ store' = Overlay(store, t.rows)
        /\ UNCHANGED <<memory, promised>>
    BY <1>2 DEF Write, Upserted
  <2>2. IsTask(t) /\ IsTable(t.rows) /\ Saving(t, memory, store, promised)
    BY <1>0, <2>1 DEF Fits
  <2>3. store' = t.rows
    BY <2>1, <2>2, OverlayOfLess DEF Saving
  <2>4. /\ u.pc = "publish" /\ u.opp = t.opp /\ u.candidate = t.candidate /\ u.rows = t.rows
        /\ u.install = t.install /\ u.promise = t.promise
    BY <2>2 DEF IsTask
  <2> HIDE DEF u
  <2>5. Saving(u, memory', store', promised')
    BY <2>1, <2>2, <2>3, <2>4 DEF Saving
  <2>6. Fits(u, memory', store', promised') /\ u # Idle
    BY <2>4, <2>5 DEF Fits, Idle
  <2>7. FullTable(store') /\ promised' \subseteq Suppressions(store')
    BY <2>1, <2>2, <2>3 DEF Saving
  <2> QED BY <2>1, <2>6, <2>7, AloneMove DEF AloneInv
<1>3. CASE WriteFails(h)
  <2> DEFINE t == task[h]
  <2>1. /\ t.pc = "write" /\ task' = [task EXCEPT ![h] = Idle]
        /\ store' \in {store, Overlay(store, t.rows)} /\ health' = "unavailable"
        /\ UNCHANGED <<memory, promised>>
    BY <1>3 DEF WriteFails, Upserted
  <2>2. IsTable(t.rows) /\ Saving(t, memory, store, promised) /\ t # Idle
    BY <1>0, <2>1 DEF Fits
  <2>3. store' \in {store, t.rows}
    BY <2>1, <2>2, OverlayOfLess DEF Saving
  <2>4. FullTable(store') /\ promised' \subseteq Suppressions(store')
    BY <2>1, <2>2, <2>3 DEF Saving, AloneInv
  <2>5. health' # "ready" /\ FullTable(memory')
    BY <2>1 DEF AloneInv
  <2> QED BY <2>1, <2>2, <2>4, <2>5, AloneMove
<1>4. CASE Publish(h)
  <2> DEFINE t == task[h]
             u == IF t.then = "done" THEN Idle
                  ELSE [t EXCEPT !.pc = t.then, !.rows = Empty, !.install = {},
                                 !.promise = {}, !.then = "done"]
  <2>1. /\ t.pc = "publish" /\ task' = [task EXCEPT ![h] = u]
        /\ memory' = Overlay(memory, [o \in t.install |-> t.rows[o]])
        /\ promised' = promised \cup t.promise /\ UNCHANGED <<store, health>>
    BY <1>4 DEF Publish
  <2>2. IsTask(t) /\ t # Idle /\ Saving(t, memory, store, promised)
    BY <1>0, <2>1 DEF Fits
  <2>3. memory' = store /\ store' = store /\ promised' \subseteq Suppressions(store)
    BY <2>1, <2>2 DEF Saving
  <2>4. ASSUME t.then # "done"
        PROVE  /\ u.pc \in {"enrich", "answer"} /\ u.opp = t.opp /\ u.candidate = t.candidate
               /\ u.promise = {}
    BY <2>2, <2>4 DEF IsTask
  <2> HIDE DEF u
  <2>5. u # Idle => Fits(u, memory', store', promised')
    <3> SUFFICES ASSUME u # Idle PROVE Fits(u, memory', store', promised')
      OBVIOUS
    <3>1. t.then # "done"
      BY DEF u
    <3> QED BY <2>2, <2>3, <2>4, <3>1 DEF Fits, Serving, Saving
  <2>6. FullTable(store') /\ FullTable(memory')
    BY <2>3 DEF AloneInv
  <2> QED BY <2>1, <2>2, <2>3, <2>5, <2>6, AloneMove
<1> QED BY <1>1, <1>2, <1>3, <1>4

LEMMA AloneEnriches ==
    ASSUME SteadyReports, DeskInv, AloneInv, NEW h \in Handlers, OneAtATime', Enrich(h)
    PROVE  AloneInv'
<1> USE DEF Phases, ReloadPhases
<1> DEFINE t == task[h]
           saved == Saved(t.opp)
           own == Extended(saved, t.seen)
           all == Normalized(memory)
<1>1. /\ t.pc = "enrich" /\ IsTask(t) /\ t # Idle /\ t.install = {}
      /\ t.opp \in Opps /\ t.seen \in Observations[t.opp]
  BY AtWork DEF Enrich, IsTask, Idle
<1>2. /\ memory = store /\ Full(t.opp, t.candidate) /\ t.promise = {}
      /\ promised \subseteq Suppressions(memory)
  BY <1>1 DEF AloneInv, Fits, Serving
<1>3. UNCHANGED <<store, promised>> /\ FullTable(memory) /\ SoundTable(memory)
  BY DEF Enrich, AloneInv, DeskInv
<1>4. CASE /\ task' = [task EXCEPT ![h] = [t EXCEPT !.pc = "commit", !.candidate = own,
                                                    !.then = "answer"]]
           /\ UNCHANGED memory
  <2> DEFINE u == [t EXCEPT !.pc = "commit", !.candidate = own, !.then = "answer"]
  <2>1. /\ u.pc = "commit" /\ u.opp = t.opp /\ u.candidate = own /\ u.promise = {}
    BY <1>1, <1>2 DEF IsTask
  <2>2. saved \in Row /\ Full(t.opp, saved) /\ t.seen.ids = Ids(t.opp)
    BY <1>1, SavedIsSound, SavedIsFull, SteadyIds DEF DeskInv
  <2>3. \/ own = saved
        \/ own.suppressed = saved.suppressed \cup Ids(t.opp) /\ own.identity = Ids(t.opp)
    BY <2>2 DEF Extended, Row
  <2>4. Full(t.opp, own) /\ saved.suppressed \subseteq own.suppressed
    BY <2>2, <2>3 DEF Full
  <2>5. t.opp \in DOMAIN memory => memory[t.opp].suppressed \subseteq own.suppressed
    BY <2>4 DEF Saved
  <2> HIDE DEF u, own
  <2>6. Fits(u, memory', store', promised') /\ u # Idle
    BY <1>2, <1>3, <1>4, <2>1, <2>4, <2>5 DEF Fits, Serving, Idle
  <2>7. task' = [task EXCEPT ![h] = u]
    BY <1>4 DEF u
  <2> QED BY <1>3, <1>4, <2>6, <2>7, AloneMove DEF AloneInv
<1>5. CASE /\ task' = [task EXCEPT ![h] = [t EXCEPT !.pc = "write", !.rows = all,
                                                    !.then = "answer"]]
           /\ memory' = all
  <2> DEFINE u == [t EXCEPT !.pc = "write", !.rows = all, !.then = "answer"]
  <2>1. /\ u.pc = "write" /\ u.opp = t.opp /\ u.candidate = t.candidate /\ u.promise = {}
        /\ u.rows = all /\ u.install = {}
    BY <1>1, <1>2 DEF IsTask
  <2>2. /\ DOMAIN all = DOMAIN memory /\ FullTable(all)
        /\ Suppressions(memory) \subseteq Suppressions(all)
    BY <1>3, NormalizedIsFull
  <2>3. IsTable(all)
    BY <1>3, NormalizedIsSound DEF SoundTable
  <2> HIDE DEF u, all
  <2>4. Overlay(all, [o \in {} |-> all[o]]) = all
    BY <2>3, OverlayOfNothing
  <2>5. Saving(u, all, store, promised)
    BY <1>2, <2>1, <2>2, <2>4 DEF Saving
  <2>6. Fits(u, memory', store', promised') /\ u # Idle
    BY <1>3, <1>5, <2>1, <2>5 DEF Fits, Idle
  <2>7. task' = [task EXCEPT ![h] = u] /\ FullTable(memory')
    BY <1>5, <2>2 DEF u
  <2> QED BY <1>3, <2>6, <2>7, AloneMove DEF AloneInv
<1>6. CASE /\ task' = [task EXCEPT ![h] = [@ EXCEPT !.pc = "answer"]]
           /\ UNCHANGED memory
  <2> DEFINE u == [t EXCEPT !.pc = "answer"]
  <2>1. u.pc = "answer" /\ u.opp = t.opp /\ u.candidate = t.candidate /\ u.promise = {}
    BY <1>1, <1>2 DEF IsTask
  <2>2. task' = [task EXCEPT ![h] = u]
    BY <1>6 DEF DeskInv
  <2> HIDE DEF u
  <2>3. Fits(u, memory', store', promised') /\ u # Idle
    BY <1>2, <1>3, <1>6, <2>1 DEF Fits, Serving, Idle
  <2> QED BY <1>3, <1>6, <2>2, <2>3, AloneMove DEF AloneInv
<1> QED BY <1>4, <1>5, <1>6 DEF Enrich

LEMMA AloneAnswers ==
    ASSUME DeskInv, AloneInv, NEW h \in Handlers, OneAtATime', Answer(h) \/ SheetUsed(h)
    PROVE  AloneInv'
<1> USE DEF Phases, ReloadPhases
<1> DEFINE t == task[h]
           row == Saved(t.opp)
           c == [row EXCEPT !.stage = "BLOCKED", !.expires = 0]
           u == [t EXCEPT !.pc = "commit", !.then = "done", !.candidate = c]
           v == [t EXCEPT !.pc = "sheet"]
<1>1. t.pc \in {"answer", "sheet"} /\ IsTask(t) /\ t # Idle /\ t.opp \in Opps
  BY AtWork DEF Answer, SheetUsed, IsTask, Idle
<1>2. /\ memory = store /\ Full(t.opp, t.candidate) /\ t.promise = {}
      /\ UNCHANGED <<memory, store, promised>>
  BY <1>1 DEF AloneInv, Fits, Serving, Answer, SheetUsed
<1>3. \E w \in {u, v, Idle} : task' = [task EXCEPT ![h] = w]
  BY DEF Answer, SheetUsed
<1>4. row \in Row /\ Full(t.opp, row)
  BY <1>1, SavedIsSound, SavedIsFull DEF DeskInv
<1>5. c.suppressed = row.suppressed /\ c.identity = row.identity
  BY <1>4 DEF Row
<1>6. Full(t.opp, c) /\ (t.opp \in DOMAIN memory => memory[t.opp].suppressed \subseteq c.suppressed)
  BY <1>4, <1>5 DEF Full, Saved
<1>7. /\ u.pc = "commit" /\ u.opp = t.opp /\ u.candidate = c /\ u.promise = {}
      /\ v.pc = "sheet" /\ v.opp = t.opp /\ v.candidate = t.candidate /\ v.promise = {}
  BY <1>1, <1>2 DEF IsTask
<1> HIDE DEF u, v, c
<1>8. Fits(u, memory', store', promised') /\ Fits(v, memory', store', promised')
  BY <1>2, <1>6, <1>7 DEF Fits, Serving
<1> QED BY <1>1, <1>2, <1>3, <1>8, AloneMove DEF AloneInv

LEMMA AloneReloads ==
    ASSUME SteadyReports, DeskInv, AloneInv, NEW h \in Handlers, OneAtATime',
           \/ ReloadReads(h) \/ ReloadWrites(h) \/ ReloadFails(h)
           \/ ReloadClears(h) \/ ReloadInstalls(h)
    PROVE  AloneInv'
<1> USE DEF ReloadPhases
<1> DEFINE t == task[h]
<1>0. /\ DOMAIN Normalized(store) = DOMAIN store /\ FullTable(Normalized(store))
      /\ Suppressions(store) \subseteq Suppressions(Normalized(store))
      /\ IsTable(Normalized(store)) /\ IsTable(store)
  BY NormalizedIsFull, NormalizedIsSound DEF DeskInv, AloneInv, SoundTable
<1>1. CASE ReloadReads(h)
  <2> DEFINE u == Reload(IF Normalized(store) = store THEN "reload" ELSE "rewrite",
                         Normalized(store))
  <2>1. task' = [task EXCEPT ![h] = u] /\ UNCHANGED <<memory, store, promised>>
    BY <1>1 DEF ReloadReads
  <2>2. Fits(u, memory', store', promised') /\ u # Idle
    BY <2>1 DEF Fits, Recovering, Reload, Idle
  <2> QED BY <2>1, <2>2, AloneMove DEF AloneInv
<1>2. ASSUME t.pc \in ReloadPhases
      PROVE  /\ t # Idle /\ Recovering(t, memory, store) /\ IsTable(t.rows)
             /\ \A pc : [t EXCEPT !.pc = pc] = [pc |-> pc, rows |-> t.rows]
  <2>1. t # Idle /\ IsReload(t) /\ SoundTable(t.rows)
    BY <1>2, AtReload DEF Idle
  <2>2. Recovering(t, memory, store)
    BY <1>2, <2>1 DEF AloneInv, Fits
  <2> QED BY <2>1, <2>2 DEF SoundTable, IsReload
<1>3. CASE ReloadWrites(h)
  <2> DEFINE u == [t EXCEPT !.pc = "reload"]
  <2>1. /\ t.pc = "rewrite" /\ task' = [task EXCEPT ![h] = u]
        /\ store' = Overlay(store, t.rows) /\ UNCHANGED <<memory, promised>>
    BY <1>3, <1>2 DEF ReloadWrites, Upserted
  <2>2. t.rows = Normalized(store) /\ u = [pc |-> "reload", rows |-> t.rows]
    BY <1>2, <2>1 DEF Recovering
  <2>3. store' = t.rows
    BY <1>0, <2>1, <2>2, OverlayOfLess
  <2>4. Fits(u, memory', store', promised') /\ u # Idle
    BY <2>2, <2>3 DEF Fits, Recovering, Idle
  <2>5. FullTable(store') /\ promised' \subseteq Suppressions(store')
    BY <1>0, <2>1, <2>2, <2>3 DEF AloneInv
  <2> QED BY <2>1, <2>4, <2>5, AloneMove DEF AloneInv
<1>4. CASE ReloadFails(h)
  <2>1. /\ t.pc = "rewrite" /\ task' = [task EXCEPT ![h] = Idle] /\ health' = "unavailable"
        /\ store' \in {store, Overlay(store, t.rows)} /\ UNCHANGED <<memory, promised>>
    BY <1>4 DEF ReloadFails, Upserted
  <2>2. t.rows = Normalized(store) /\ t # Idle
    BY <1>2, <2>1 DEF Recovering
  <2>3. store' \in {store, t.rows}
    BY <1>0, <2>1, <2>2, OverlayOfLess
  <2>4. FullTable(store') /\ promised' \subseteq Suppressions(store')
    BY <1>0, <2>1, <2>2, <2>3 DEF AloneInv
  <2> QED BY <2>1, <2>2, <2>4, AloneMove DEF AloneInv
<1>5. CASE ReloadClears(h)
  <2> DEFINE u == [t EXCEPT !.pc = "install"]
  <2>1. /\ t.pc = "reload" /\ task' = [task EXCEPT ![h] = u]
        /\ memory' = Empty /\ UNCHANGED <<store, promised>>
    BY <1>5, <1>2 DEF ReloadClears
  <2>2. t.rows = store /\ u = [pc |-> "install", rows |-> t.rows]
    BY <1>2, <2>1 DEF Recovering
  <2>3. Fits(u, memory', store', promised') /\ u # Idle
    BY <2>1, <2>2 DEF Fits, Recovering, Idle
  <2>4. FullTable(memory')
    BY <2>1 DEF FullTable, Empty
  <2> QED BY <2>1, <2>3, <2>4, AloneMove DEF AloneInv
<1>6. CASE ReloadInstalls(h)
  <2>1. /\ t.pc = "install" /\ task' = [task EXCEPT ![h] = Idle]
        /\ memory' = Overlay(memory, t.rows) /\ UNCHANGED <<store, promised>>
    BY <1>6 DEF ReloadInstalls
  <2>2. t.rows = store /\ memory = Empty /\ t # Idle
    BY <1>2, <2>1 DEF Recovering
  <2>3. memory' = store
    BY <1>0, <2>1, <2>2, OverlayOfLess DEF Empty
  <2> QED BY <2>1, <2>2, <2>3, AloneMove DEF AloneInv
<1> QED BY <1>1, <1>3, <1>4, <1>5, <1>6

LEMMA AloneEnvironment ==
    ASSUME SteadyReports, DeskInv, AloneInv, OneAtATime', ProbeFails \/ Restart \/ Tick
    PROVE  AloneInv'
<1>1. CASE ProbeFails
  BY <1>1 DEF ProbeFails, AloneInv
<1>2. CASE Restart
  <2>1. /\ FullTable(Normalized(store)) /\ FullTable(Empty)
        /\ Suppressions(store) \subseteq Suppressions(Normalized(store))
    BY NormalizedIsFull DEF DeskInv, AloneInv, FullTable, Empty
  <2>2. /\ store' \in {store, Normalized(store)} /\ memory' \in {Empty, Normalized(store)}
        /\ health' = "ready" => memory' = store'
        /\ task' = [h \in Handlers |-> Idle] /\ promised' = promised
    BY <1>2 DEF Restart
  <2>3. FullTable(store') /\ FullTable(memory') /\ promised' \subseteq Suppressions(store')
    BY <2>1, <2>2 DEF AloneInv
  <2> QED BY <2>2, <2>3 DEF AloneInv
<1>3. CASE Tick
  BY <1>3 DEF Tick, AloneInv
<1> QED BY <1>1, <1>2, <1>3

LEMMA AloneNext ==
    ASSUME SteadyReports, DeskInv, ~ crowded => AloneInv, [Next]_vars, ~ crowded'
    PROVE  AloneInv'
<1>1. CASE UNCHANGED vars
  BY <1>1 DEF vars, AloneInv, OneAtATime
<1>2. CASE Next
  <2>1. OneAtATime' /\ ~ crowded
    BY <1>2 DEF Next
  <2>2. ASSUME NEW h \in Handlers, Request(h) PROVE AloneInv'
    BY <2>1, <2>2, AloneRequests
  <2>3. ASSUME NEW h \in Handlers, Step(h) PROVE AloneInv'
    BY <2>1, <2>3, AloneCommits, AloneEnriches, AloneAnswers, AloneReloads DEF Step
  <2>4. CASE ProbeFails \/ Restart \/ Tick
    BY <2>1, <2>4, AloneEnvironment
  <2> QED BY <1>2, <2>2, <2>3, <2>4 DEF Next
<1> QED BY <1>1, <1>2

\* Memory holds every promise whenever the desk serves.
LEMMA ServingMemoryKeepsPromises ==
    ASSUME DeskInv, AloneInv, health = "ready", ~ Reloading
    PROVE  promised \subseteq Suppressions(memory)
<1>1. CASE \A h \in Handlers : task[h] = Idle
  BY <1>1 DEF AloneInv
<1>2. ASSUME NEW h \in Handlers, task[h] # Idle PROVE promised \subseteq Suppressions(memory)
  <2>1. task[h].pc \in Phases
    BY <1>2 DEF DeskInv, SoundTask, IsTask, IsReload, Reloading
  <2>2. Fits(task[h], memory, store, promised)
    BY <1>2 DEF AloneInv
  <2>3. CASE task[h].pc \in {"write", "publish"}
    BY <2>2, <2>3 DEF Fits, Saving
  <2>4. CASE task[h].pc \notin {"write", "publish"}
    BY <2>1, <2>2, <2>4 DEF Fits, Serving, AloneInv, Phases
  <2> QED BY <2>3, <2>4
<1> QED BY <1>1, <1>2

\* A memory that holds every promise suppresses whoever shares an alias with one.
LEMMA PromisesSuppress ==
    ASSUME SteadyReports, NEW o \in Opps, NEW obs \in Observations[o],
           FullTable(memory), promised \subseteq Suppressions(memory),
           obs.ids \cap promised # {}
    PROVE  Suppressed(o, obs)
BY DEF Suppressions, Suppressed

LEMMA AloneInvariant ==
    ASSUME SteadyReports
    PROVE  Spec => [](DeskInv /\ (~ crowded => AloneInv))
<1>1. Init => DeskInv
  <2> SUFFICES ASSUME Init PROVE DeskInv
    OBVIOUS
  <2>1. clock \in Times
    BY DeskAssumption DEF Init, Times
  <2> QED BY <2>1, EmptyIsSound, IdleIsSound DEF Init, DeskInv
<1>2. Init => AloneInv
  BY DEF Init, AloneInv, OneAtATime, FullTable, Empty
<1>3. DeskInv /\ (~ crowded => AloneInv) /\ [Next]_vars
      => (DeskInv /\ (~ crowded => AloneInv))'
  BY NextKeeps, AloneNext
<1> QED BY <1>1, <1>2, <1>3, PTL DEF Spec

\* As long as requests come one at a time, a do-not-call request is permanent for
\* every opportunity that shares an alias with it, and memory is what the store
\* holds between requests, whichever writes fail, with or without effect, and
\* whenever the process restarts (_contact_gate, _commit, _load).
THEOREM SuppressionIsPermanentAlone ==
    ASSUME SteadyReports
    PROVE  Spec => []SuppressionSurvivesAlone
<1>1. ASSUME DeskInv, AloneInv PROVE SuppressionIsPermanent
  <2> SUFFICES ASSUME health = "ready", ~ Reloading, NEW o \in DOMAIN known,
                      known[o].ids \cap promised # {}
               PROVE  Suppressed(o, known[o])
    BY DEF SuppressionIsPermanent
  <2>1. o \in Opps /\ known[o] \in Observations[o]
    BY <1>1 DEF DeskInv
  <2>2. promised \subseteq Suppressions(memory) /\ FullTable(memory)
    BY <1>1, ServingMemoryKeepsPromises DEF AloneInv
  <2> QED BY <2>1, <2>2, PromisesSuppress
<1>2. ASSUME DeskInv, AloneInv PROVE MemoryIsTheStore
  <2> SUFFICES ASSUME health = "ready", \A h \in Handlers : task[h].pc \in {"idle", "sheet"}
               PROVE  memory = store
    BY DEF MemoryIsTheStore
  <2>1. CASE \A h \in Handlers : task[h] = Idle
    BY <1>2, <2>1 DEF AloneInv
  <2>2. ASSUME NEW h \in Handlers, task[h] # Idle PROVE memory = store
    <3>1. task[h].pc = "sheet"
      BY <1>2, <2>2 DEF DeskInv, SoundTask, IsTask, IsReload, Phases, ReloadPhases
    <3> QED BY <1>2, <2>2, <3>1 DEF AloneInv, Fits, Serving
  <2> QED BY <2>1, <2>2
<1>3. DeskInv /\ (~ crowded => AloneInv) => SuppressionSurvivesAlone
  BY <1>1, <1>2 DEF SuppressionSurvivesAlone
<1> QED BY <1>3, AloneInvariant, PTL

\* A call sheet is given by an answer, and only of a record that may be called.
LEMMA OnlyAnswersGiveSheets ==
    ASSUME DeskInv, Next, NEW h \in Handlers, task[h].pc # "sheet", task'[h].pc = "sheet"
    PROVE  Answer(h) /\ CallReady(task[h].opp, task[h].seen)
<1>1. DOMAIN task = Handlers
  BY DEF DeskInv
<1>2. PICK g \in Handlers : Request(g) \/ Step(g)
  <2>1. ~ (ProbeFails \/ Restart \/ Tick)
    BY DEF ProbeFails, Restart, Tick, Idle
  <2> QED BY <2>1 DEF Next
<1>3. ~ Request(g)
  <2>1. ASSUME NEW o, NEW obs PROVE ~ Board(g, o, obs)
    BY <1>1 DEF Board, Working
  <2>2. ASSUME NEW o, NEW c, NEW p PROVE ~ Propose(g, o, c, p)
    BY <1>1 DEF Propose, Working
  <2>3. ASSUME NEW o PROVE ~ CallSheet(g, o)
    BY <1>1 DEF CallSheet, Working
  <2> QED BY <2>1, <2>2, <2>3 DEF Request, RecordResearch, RecordClearance, Update,
                                  RecordDisposition
<1>4. ~ (TakeSnapshot(g) \/ Write(g) \/ WriteFails(g) \/ Publish(g))
  <2>1. ASSUME task[g].pc \in Phases PROVE IsTask(task[g])
    BY <2>1, AtWork
  <2>2. ~ TakeSnapshot(g)
    BY <1>1, <2>1 DEF TakeSnapshot, Phases, IsTask
  <2>3. ~ (Write(g) \/ WriteFails(g))
    BY <1>1, <2>1 DEF Write, WriteFails, Phases, IsTask, Idle
  <2>4. ~ Publish(g)
    <3> DEFINE u == [task[g] EXCEPT !.pc = task[g].then, !.rows = Empty, !.install = {},
                                    !.promise = {}, !.then = "done"]
    <3> SUFFICES ASSUME Publish(g) PROVE FALSE
      OBVIOUS
    <3>1. IsTask(task[g])
      BY <2>1 DEF Publish, Phases
    <3>2. u.pc \in {"enrich", "answer", "done"}
      BY <3>1 DEF IsTask
    <3>3. task' = [task EXCEPT ![g] = IF task[g].then = "done" THEN Idle ELSE u]
      BY DEF Publish
    <3> HIDE DEF u
    <3> QED BY <1>1, <3>2, <3>3 DEF Idle
  <2> QED BY <2>2, <2>3, <2>4
<1>5. ~ (Enrich(g) \/ SheetUsed(g))
  <2>1. ASSUME task[g].pc = "enrich" PROVE IsTask(task[g])
    BY <2>1, AtWork DEF Phases
  <2> QED BY <1>1, <2>1 DEF Enrich, SheetUsed, IsTask, Idle
<1>6. ~ (ReloadReads(g) \/ ReloadWrites(g) \/ ReloadFails(g) \/ ReloadClears(g) \/ ReloadInstalls(g))
  <2>1. ASSUME task[g].pc \in ReloadPhases PROVE DOMAIN task[g] = {"pc", "rows"}
    BY <2>1, AtReload DEF IsReload
  <2> QED BY <1>1, <2>1 DEF ReloadReads, ReloadWrites, ReloadFails, ReloadClears, ReloadInstalls,
                            ReloadPhases, Reload, Idle
<1>7. Answer(g)
  BY <1>2, <1>3, <1>4, <1>5, <1>6 DEF Step
<1>8. IsTask(task[g]) /\ task[g].pc = "answer"
  BY <1>7, AtWork DEF Answer, Phases
<1>9. g = h
  BY <1>1, <1>7 DEF Answer
<1>10. CallReady(task[h].opp, task[h].seen)
  <2> DEFINE t == task[h]
             u == [t EXCEPT !.pc = "commit", !.then = "done",
                            !.candidate = [Saved(t.opp) EXCEPT !.stage = "BLOCKED", !.expires = 0]]
             v == [t EXCEPT !.pc = "sheet"]
  <2>1. u.pc = "commit"
    BY <1>8, <1>9 DEF IsTask
  <2>2. \/ task' = [task EXCEPT ![h] = u]
        \/ task' = [task EXCEPT ![h] = IF CallReady(t.opp, t.seen) /\ t.sheet > clock
                                       THEN v ELSE Idle]
    BY <1>7, <1>9 DEF Answer
  <2> HIDE DEF u, v
  <2> QED BY <1>1, <2>1, <2>2 DEF Idle
<1> QED BY <1>7, <1>9, <1>10

\* As long as requests come one at a time, no call sheet is given for a business
\* that asked not to be called, by whichever of its opportunities (call_sheet,
\* _active_suppression).
THEOREM NoSheetAfterDoNotCall ==
    ASSUME SteadyReports
    PROVE  Spec => NoSheetAfterDoNotCallAlone
<1> DEFINE Inv == DeskInv /\ (~ crowded => AloneInv)
           Kept == ~ crowded' =>
               \A h \in Handlers : task[h].pc # "sheet" /\ task'[h].pc = "sheet" =>
                   known[task[h].opp].ids \cap promised = {}
<1>1. Inv /\ [Next]_vars => [Kept]_vars
  <2> SUFFICES ASSUME Inv, Next, ~ crowded', NEW h \in Handlers,
                      task[h].pc # "sheet", task'[h].pc = "sheet"
               PROVE  known[task[h].opp].ids \cap promised = {}
    OBVIOUS
  <2>1. AloneInv /\ DOMAIN task = Handlers
    BY DEF Next, DeskInv
  <2>2. Answer(h) /\ CallReady(task[h].opp, task[h].seen)
    BY <2>1, OnlyAnswersGiveSheets
  <2> DEFINE t == task[h]
  <2>3. /\ t.pc = "answer" /\ t # Idle /\ t.opp \in Opps /\ t.seen \in Observations[t.opp]
        /\ t.opp \in DOMAIN known
    BY <2>2, AtWork DEF Answer, Phases, IsTask, Idle
  <2>4. promised \subseteq Suppressions(memory) /\ FullTable(memory)
    BY <2>1, <2>3 DEF AloneInv, Fits, Serving
  <2>5. t.seen.ids \cap promised = {}
    BY <2>2, <2>3, <2>4, PromisesSuppress DEF CallReady, GateOpen
  <2>6. known[t.opp].ids = t.seen.ids
    BY <2>3, SteadyIds DEF DeskInv
  <2> QED BY <2>5, <2>6
<1>2. [][Kept]_vars => NoSheetAfterDoNotCallAlone
  BY PTL DEF NoSheetAfterDoNotCallAlone
<1> QED BY <1>1, <1>2, AloneInvariant, PTL DEF Spec
=============================================================================
