---------------------------- MODULE DeskFileProofs ----------------------------
(***************************************************************************)
(* Proofs about DeskFile, for any opportunities, requests and threads: a   *)
(* probe never undoes a write; and with one thread what is acknowledged is *)
(* on file, through failures and restarts.                                 *)
(***************************************************************************)
EXTENDS DeskFile, TLAPS

\* The lock has one holder, and a probe that holds it has read the present file.
OneHolder ==
    \A g, h \in Handlers : task[g].pc \in Holding /\ task[h].pc \in Holding => g = h
ProbesSawTheFile == \A h \in Handlers : At(h, "probing") => task[h].rows = file

FileInv == FileTypeOK /\ OneHolder /\ ProbesSawTheFile

LEMMA EmptyIsTable == Empty \in Tables
<1>1. Empty \in [{} -> SUBSET Requests]
  BY DEF Empty
<1> QED BY <1>1 DEF Tables

LEMMA TableOverlay ==
    ASSUME NEW t \in Tables, NEW u \in Tables
    PROVE  Overlay(t, u) \in Tables
<1>1. PICK D \in SUBSET Opps : t \in [D -> SUBSET Requests]
  BY DEF Tables
<1>2. PICK E \in SUBSET Opps : u \in [E -> SUBSET Requests]
  BY DEF Tables
<1>3. Overlay(t, u) \in [D \cup E -> SUBSET Requests]
  BY <1>1, <1>2 DEF Overlay
<1> QED BY <1>3 DEF Tables

LEMMA TableWith ==
    ASSUME NEW t \in Tables, NEW o \in Opps, NEW row \in SUBSET Requests
    PROVE  With(t, o, row) \in Tables
<1>1. [x \in {o} |-> row] \in [{o} -> SUBSET Requests]
  OBVIOUS
<1>2. [x \in {o} |-> row] \in Tables
  BY <1>1 DEF Tables
<1> QED BY <1>2, TableOverlay DEF With

LEMMA SavedIsRow ==
    ASSUME FileTypeOK, NEW o
    PROVE  Saved(o) \in SUBSET Requests
<1>1. PICK D \in SUBSET Opps : memory \in [D -> SUBSET Requests]
  BY DEF FileTypeOK, Tables
<1> QED BY <1>1 DEF Saved

\* One thread moves to a well-typed state; it may take the lock if it is free.
LEMMA MoveKeeps ==
    ASSUME FileInv, crowded' \in BOOLEAN, NEW h \in Handlers, NEW t \in Task,
           task' = [task EXCEPT ![h] = t],
           file' \in Tables, memory' \in Tables,
           health' \in {"ready", "unavailable"}, acked' \subseteq Requests,
           t.pc \in {"commit", "persist", "writing", "publish"} =>
              t.opp \in Opps /\ (~t.last => t.for \in t.row),
           t.pc = "enrich" => t.opp \in Opps,
           t.pc \in Holding => LockFree \/ task[h].pc \in Holding,
           t.pc = "probing" => t.rows = file',
           file' # file => task[h].pc \in Holding
    PROVE  FileInv'
<1>1. /\ task'[h] = t
      /\ \A g \in Handlers : g # h => task'[g] = task[g]
      /\ task' \in [Handlers -> Task]
  BY DEF FileInv, FileTypeOK
<1>2. FileTypeOK'
  <2>1. ASSUME NEW g \in Handlers
        PROVE  /\ task'[g].pc \in {"commit", "persist", "writing", "publish"} =>
                    /\ task'[g].opp \in Opps
                    /\ ~task'[g].last => task'[g].for \in task'[g].row
               /\ task'[g].pc = "enrich" => task'[g].opp \in Opps
    BY <1>1 DEF FileInv, FileTypeOK
  <2> QED BY <1>1, <2>1 DEF FileTypeOK
<1>3. OneHolder'
  BY <1>1 DEF FileInv, OneHolder, LockFree
<1>4. ProbesSawTheFile'
  <2> SUFFICES ASSUME NEW g \in Handlers, task'[g].pc = "probing" PROVE task'[g].rows = file'
    BY DEF ProbesSawTheFile, At
  <2>1. CASE g = h
    BY <1>1, <2>1
  <2>2. CASE g # h
    <3>1. task[g].pc = "probing" /\ task'[g] = task[g] /\ task[g].rows = file
      BY <1>1, <2>2 DEF FileInv, ProbesSawTheFile, At
    <3>2. task[h].pc \notin Holding
      BY <2>2, <3>1 DEF FileInv, OneHolder, Holding
    <3> QED BY <3>1, <3>2
  <2> QED BY <2>1, <2>2
<1> QED BY <1>2, <1>3, <1>4 DEF FileInv

LEMMA IdleIsTask == \A r \in Requests \cup {Look} : Start(r) \in Task /\ Idle \in Task /\ Idle.pc = "idle"
  <1>1. ASSUME NEW r \in Requests \cup {Look} PROVE Start(r) \in Task
    BY EmptyIsTable DEF Start, Task, Phases, Waiting
  <1>2. Idle \in Task /\ Idle.pc = "idle"
    BY <1>1 DEF Idle, Start, Task
  <1> QED BY <1>1, <1>2

LEMMA FileInit == Init => FileInv
BY EmptyIsTable, IdleIsTask DEF Init, FileInv, FileTypeOK, OneHolder, ProbesSawTheFile, At, Holding

\* A step that only changes the phase of a thread, and neither takes the lock
\* nor starts a commit.
LEMMA PhaseKeeps ==
    ASSUME FileInv, crowded' \in BOOLEAN, NEW h \in Handlers, NEW pc, Goto(h, pc),
           pc \in {"clear", "fill", "handle", "normalize", "rewrite"},
           file' \in Tables, memory' \in Tables,
           health' \in {"ready", "unavailable"}, acked' \subseteq Requests,
           file' # file => task[h].pc \in Holding
    PROVE  FileInv'
<1> DEFINE t == [task[h] EXCEPT !.pc = pc]
<1>1. task[h] \in Task
  BY DEF FileInv, FileTypeOK
<1>2. t \in Task /\ t.pc = pc
  BY <1>1 DEF Task, Phases, Waiting
<1>3. task' = [task EXCEPT ![h] = t]
  BY DEF Goto
<1> HIDE DEF t
<1> QED BY <1>2, <1>3, MoveKeeps DEF Holding

LEMMA EndKeeps ==
    ASSUME FileInv, crowded' \in BOOLEAN, NEW h \in Handlers, End(h),
           file' \in Tables, memory' \in Tables,
           health' \in {"ready", "unavailable"}, acked' \subseteq Requests,
           file' # file => task[h].pc \in Holding
    PROVE  FileInv'
<1>1. Idle \in Task /\ Idle.pc = "idle"
  BY IdleIsTask
<1> QED BY <1>1, MoveKeeps DEF End, Holding

LEMMA TaskFields ==
    ASSUME FileInv, crowded' \in BOOLEAN, NEW h \in Handlers
    PROVE  /\ task[h] \in Task /\ task[h].rows \in Tables /\ task[h].row \in SUBSET Requests
           /\ task[h].for \in Requests \cup {Look}
           /\ file \in Tables /\ memory \in Tables
           /\ health \in {"ready", "unavailable"} /\ acked \subseteq Requests
BY DEF FileInv, FileTypeOK, Task

LEMMA AskStep ==
    ASSUME FileInv, crowded' \in BOOLEAN, NEW h \in Handlers, NEW r \in Requests \cup {Look}, Ask(h, r)
    PROVE  FileInv'
<1>1. Start(r) \in Task /\ Start(r).pc = "probe"
  BY IdleIsTask DEF Start
<1> QED BY <1>1, TaskFields, MoveKeeps DEF Ask, Holding

LEMMA ProbeStep ==
    ASSUME FileInv, crowded' \in BOOLEAN, NEW h \in Handlers, Probe(h)
    PROVE  FileInv'
<1> DEFINE t == [task[h] EXCEPT !.pc = "probing", !.rows = file]
<1>1. t \in Task /\ t.pc = "probing" /\ t.rows = file
  BY TaskFields DEF Task, Phases, Holding
<1>2. task' = [task EXCEPT ![h] = t] /\ LockFree
      /\ UNCHANGED <<file, memory, health, acked>>
  BY DEF Probe
<1> HIDE DEF t
<1> QED BY <1>1, <1>2, TaskFields, MoveKeeps

LEMMA ReadStep ==
    ASSUME FileInv, crowded' \in BOOLEAN, NEW h \in Handlers,
           Replace(h) \/ WriteBack(h) \/ Clear(h) \/ Fill(h)
    PROVE  FileInv'
<1>1. CASE Replace(h)
  BY <1>1, TaskFields, PhaseKeeps DEF Replace, At, Holding
<1>2. CASE WriteBack(h)
  BY <1>2, TaskFields, PhaseKeeps DEF WriteBack, At, Holding
<1>3. CASE Clear(h)
  BY <1>3, TaskFields, EmptyIsTable, PhaseKeeps DEF Clear
<1>4. CASE Fill(h)
  BY <1>4, TaskFields, TableOverlay, PhaseKeeps DEF Fill
<1> QED BY <1>1, <1>2, <1>3, <1>4

LEMMA EndingStep ==
    ASSUME FileInv, crowded' \in BOOLEAN, NEW h \in Handlers,
           LockTimeout(h) \/ OperationFails(h) \/ NotReady(h) \/ Rewrite(h)
    PROVE  FileInv'
<1>1. CASE LockTimeout(h) \/ OperationFails(h) \/ NotReady(h)
  BY <1>1, TaskFields, EndKeeps DEF LockTimeout, OperationFails, Failed, NotReady
<1>2. CASE Rewrite(h)
  BY <1>2, TaskFields, EndKeeps DEF Rewrite, At, Holding
<1> QED BY <1>1, <1>2

LEMMA LookStep ==
    ASSUME FileInv, crowded' \in BOOLEAN, NEW h \in Handlers, HandleLook(h)
    PROVE  FileInv'
<1>1. CASE End(h)
  BY <1>1, TaskFields, EndKeeps DEF HandleLook
<1>2. ASSUME NEW o \in Opps,
             task' = [task EXCEPT ![h].pc = "enrich", ![h].opp = o, ![h].rows = Empty]
      PROVE  FileInv'
  <2> DEFINE t == [task[h] EXCEPT !.pc = "enrich", !.opp = o, !.rows = Empty]
  <2>1. t \in Task /\ t.pc = "enrich" /\ t.opp \in Opps
    BY TaskFields, EmptyIsTable DEF Task, Phases
  <2>2. task' = [task EXCEPT ![h] = t]
    BY <1>2
  <2> HIDE DEF t
  <2> QED BY <2>1, <2>2, TaskFields, MoveKeeps DEF HandleLook, Holding
<1> QED BY <1>1, <1>2 DEF HandleLook

LEMMA HandleStep ==
    ASSUME FileInv, crowded' \in BOOLEAN, NEW h \in Handlers, Handle(h)
    PROVE  FileInv'
<1> DEFINE r == task[h].for
           t == [task[h] EXCEPT !.pc = "commit", !.opp = Of[r], !.rows = Empty,
                                !.row = Candidate(Of[r], r)]
<1>1. r \in Requests /\ Of[r] \in Opps
  BY DeskFileAssumption DEF Handle
<1>2. Candidate(Of[r], r) \in SUBSET Requests /\ r \in Candidate(Of[r], r)
  BY <1>1, SavedIsRow DEF Candidate, FileInv
<1>3. task' = [task EXCEPT ![h] = t] /\ UNCHANGED <<file, memory, health, acked>>
  BY DEF Handle
<1>4. t \in Task /\ t.pc = "commit" /\ t.opp \in Opps /\ t.for \in t.row
  BY <1>1, <1>2, TaskFields, EmptyIsTable DEF Task, Phases
<1> HIDE DEF t
<1> QED BY <1>3, <1>4, TaskFields, MoveKeeps DEF Holding

LEMMA CommitStep ==
    ASSUME FileInv, crowded' \in BOOLEAN, NEW h \in Handlers, Commit(h)
    PROVE  FileInv'
<1> DEFINE t == [task[h] EXCEPT !.pc = "persist",
                                !.rows = With(memory, task[h].opp, task[h].row)]
<1>1. task[h].opp \in Opps /\ (~task[h].last => task[h].for \in task[h].row)
  BY DEF Commit, At, FileInv, FileTypeOK
<1>2. With(memory, task[h].opp, task[h].row) \in Tables
  BY <1>1, TaskFields, TableWith
<1>3. task' = [task EXCEPT ![h] = t] /\ UNCHANGED <<file, memory, health, acked>>
  BY DEF Commit
<1>4. /\ t \in Task /\ t.pc = "persist" /\ t.opp = task[h].opp
      /\ t.last = task[h].last /\ t.for = task[h].for /\ t.row = task[h].row
  BY <1>2, TaskFields DEF Task, Phases, Waiting
<1> HIDE DEF t
<1> QED BY <1>1, <1>3, <1>4, TaskFields, MoveKeeps DEF Holding

\* A step that moves a thread within its commit, or takes the lock for it.
LEMMA WithinCommitKeeps ==
    ASSUME FileInv, crowded' \in BOOLEAN, NEW h \in Handlers, NEW pc, Goto(h, pc),
           \/ task[h].pc = "persist" /\ pc = "writing" /\ LockFree
           \/ task[h].pc = "writing" /\ pc = "publish"
           \/ pc \in {"normalizing", "rewriting"} /\ LockFree,
           file' \in Tables, UNCHANGED <<memory, acked>>,
           health' \in {"ready", "unavailable"},
           file' # file => task[h].pc \in Holding
    PROVE  FileInv'
<1> DEFINE t == [task[h] EXCEPT !.pc = pc]
<1>1. task' = [task EXCEPT ![h] = t]
  BY DEF Goto
<1>2. /\ t \in Task /\ t.pc = pc /\ t.opp = task[h].opp
      /\ t.last = task[h].last /\ t.for = task[h].for /\ t.row = task[h].row
  BY TaskFields DEF Task, Phases, Holding
<1>3. task[h].pc \in {"persist", "writing"} =>
        task[h].opp \in Opps /\ (~task[h].last => task[h].for \in task[h].row)
  BY DEF FileInv, FileTypeOK
<1> HIDE DEF t
<1> QED BY <1>1, <1>2, <1>3, TaskFields, MoveKeeps DEF Holding

LEMMA WriteStep ==
    ASSUME FileInv, crowded' \in BOOLEAN, NEW h \in Handlers, Acquire(h) \/ Write(h)
    PROVE  FileInv'
<1>1. CASE Acquire(h)
  BY <1>1, TaskFields, WithinCommitKeeps DEF Acquire, At
<1>2. CASE Write(h)
  BY <1>2, TaskFields, WithinCommitKeeps DEF Write, At, Holding
<1> QED BY <1>1, <1>2

LEMMA PublishStep ==
    ASSUME FileInv, crowded' \in BOOLEAN, NEW h \in Handlers, Publish(h)
    PROVE  FileInv'
<1>1. task[h].opp \in Opps
  BY DEF Publish, At, FileInv, FileTypeOK
<1>2. memory' \in Tables /\ UNCHANGED <<file, health>>
  BY <1>1, TaskFields, TableWith DEF Publish
<1>3. CASE End(h) /\ acked' = acked \cup ({task[h].for} \ {Look})
  BY <1>2, <1>3, TaskFields, EndKeeps
<1>4. CASE /\ task' = [task EXCEPT ![h].pc = "enrich", ![h].row = {}, ![h].rows = Empty]
           /\ UNCHANGED acked
  <2> DEFINE t == [task[h] EXCEPT !.pc = "enrich", !.row = {}, !.rows = Empty]
  <2>1. t \in Task /\ t.pc = "enrich" /\ t.opp \in Opps
    BY <1>1, TaskFields, EmptyIsTable DEF Task, Phases
  <2>2. task' = [task EXCEPT ![h] = t]
    BY <1>4
  <2> HIDE DEF t
  <2> QED BY <1>2, <1>4, <2>1, <2>2, TaskFields, MoveKeeps DEF Holding
<1> QED BY <1>3, <1>4 DEF Publish

LEMMA EnrichStep ==
    ASSUME FileInv, crowded' \in BOOLEAN, NEW h \in Handlers, Enrich(h)
    PROVE  FileInv'
<1>0. UNCHANGED <<file, memory, health>> /\ At(h, "enrich")
  BY DEF Enrich
<1>1. CASE End(h) /\ acked' = acked \cup ({task[h].for} \ {Look})
  BY <1>0, <1>1, TaskFields, EndKeeps
<1>2. CASE Goto(h, "rewrite") /\ UNCHANGED acked
  BY <1>0, <1>2, TaskFields, PhaseKeeps
<1>3. CASE /\ task' = [task EXCEPT ![h].pc = "commit", ![h].last = TRUE,
                                   ![h].row = Saved(task[h].opp)]
           /\ UNCHANGED acked
  <2> DEFINE t == [task[h] EXCEPT !.pc = "commit", !.last = TRUE, !.row = Saved(task[h].opp)]
  <2>1. Saved(task[h].opp) \in SUBSET Requests /\ task[h].opp \in Opps
    BY <1>0, SavedIsRow DEF FileInv, FileTypeOK, At
  <2>2. t \in Task /\ t.pc = "commit" /\ t.opp \in Opps /\ t.last
    BY <2>1, TaskFields DEF Task, Phases
  <2>3. task' = [task EXCEPT ![h] = t]
    BY <1>3
  <2> HIDE DEF t
  <2> QED BY <1>0, <1>3, <2>2, <2>3, TaskFields, MoveKeeps DEF Holding
<1> QED BY <1>1, <1>2, <1>3 DEF Enrich

LEMMA RestartStep ==
    ASSUME FileInv, crowded' \in BOOLEAN, Restart
    PROVE  FileInv'
<1>1. task' = [h \in Handlers |-> Idle] /\ Idle \in Task /\ Idle.pc = "idle"
  BY IdleIsTask DEF Restart
<1>2. /\ file' \in Tables /\ memory' \in Tables /\ acked' \subseteq Requests
      /\ health' \in {"ready", "unavailable"}
  BY EmptyIsTable DEF Restart, FileInv, FileTypeOK
<1> QED BY <1>1, <1>2 DEF FileInv, FileTypeOK, OneHolder, ProbesSawTheFile, At, Holding

LEMMA FileNext == FileInv /\ [Next]_vars => FileInv'
<1> SUFFICES ASSUME FileInv, [Next]_vars PROVE FileInv'
  OBVIOUS
<1>0. crowded' \in BOOLEAN
  BY DEF Next, CountCrowd, vars, FileInv, FileTypeOK
<1>1. ASSUME NEW h \in Handlers, Step(h) PROVE FileInv'
  BY <1>0, <1>1, EndingStep, ProbeStep, ReadStep, LookStep, HandleStep, CommitStep, WriteStep,
     PublishStep, EnrichStep DEF Step
<1>2. CASE UNCHANGED vars
  BY <1>2 DEF vars, FileInv, FileTypeOK, OneHolder, ProbesSawTheFile, At, Saved
<1> QED BY <1>0, <1>1, <1>2, AskStep, RestartStep DEF Next

\* The invariant holds of every behaviour.
THEOREM FileInvariant == Spec => []FileInv
BY FileInit, FileNext, PTL DEF Spec

\* The file, memory and threads keep their types, and the row of an update's
\* commit has the update in its history (_commit).
THEOREM FileTypeCorrectness == Spec => []FileTypeOK
<1>1. FileInv => FileTypeOK
  BY DEF FileInv
<1> QED BY <1>1, FileInvariant, PTL

\* A probe puts back what it found, whatever the other threads do: it never
\* undoes a write made between its read and its replace (_probe_file_store).
THEOREM ProbesAreHarmless == Spec => ProbesKeepTheFile
<1>1. ASSUME FileInv, [Next]_vars, NEW h \in Handlers, At(h, "probing"), task'[h] # task[h]
      PROVE  file' = file
  <2>1. task[h].rows = file /\ task \in [Handlers -> Task] /\ task[h].pc \in Holding
    BY <1>1 DEF FileInv, FileTypeOK, ProbesSawTheFile, At, Holding
  <2>2. ASSUME NEW g \in Handlers, Step(g) PROVE file' = file
    <3>1. CASE g # h
      <4>1. task[g].pc \notin Holding
        BY <1>1, <2>1, <3>1 DEF FileInv, OneHolder
      <4> QED BY <2>2, <4>1 DEF Step, LockTimeout, OperationFails, Probe, Replace, WriteBack,
                Clear, Fill, NotReady, HandleLook, Handle, Commit, Acquire, Write, Rewrite,
                Publish, Enrich, At, Holding
    <3>2. CASE g = h
      BY <1>1, <2>1, <2>2, <3>2 DEF Step, LockTimeout, OperationFails, Probe, Replace, WriteBack,
                Clear, Fill, NotReady, HandleLook, Handle, Commit, Acquire, Write, Rewrite,
                Publish, Enrich, At, Holding
    <3> QED BY <3>1, <3>2
  <2>3. CASE UNCHANGED vars
    BY <2>3 DEF vars
  <2> QED BY <1>1, <2>2, <2>3 DEF Next, Ask, Restart
<1>2. FileInv /\ [Next]_vars =>
        [\A h \in Handlers : At(h, "probing") /\ task'[h] # task[h] => file' = file]_vars
  BY <1>1
<1> QED BY <1>2, FileInvariant, PTL DEF Spec, ProbesKeepTheFile
-----------------------------------------------------------------------------
(***************************************************************************)
(* One request at a time.  Two threads lose each other's rows; alone, a    *)
(* thread's memory is the file whenever it computes, writes or answers,    *)
(* and its snapshot is the file with one row that has grown.               *)
(***************************************************************************)
OnFile(f, r) == Of[r] \in DOMAIN f /\ r \in f[Of[r]]

Reading    == {"probing", "normalize", "normalizing", "clear", "fill"}
Computing  == {"handle", "commit", "persist", "writing", "enrich", "rewrite", "rewriting"}
Committing == {"commit", "persist", "writing", "publish"}

\* What a thread in state t relies on, with memory m and file f.
Safe(t, m, f) ==
    /\ t.pc \in Reading => t.rows = f
    /\ t.pc = "fill" => m = Empty
    /\ t.pc \in Computing => m = f
    /\ t.pc \in Reading \cup {"probe", "handle"} => ~t.last
    /\ t.pc \in Committing =>
         /\ t.opp \in DOMAIN m => m[t.opp] \subseteq t.row
         /\ ~t.last => t.opp = Of[t.for]
    /\ t.pc \in {"persist", "writing"} => t.rows = With(m, t.opp, t.row)
    /\ t.pc = "publish" => f = With(m, t.opp, t.row)
    /\ t.pc \in {"enrich", "rewrite", "rewriting"} \/ (t.pc \in Committing /\ t.last)
         => t.for = Look \/ OnFile(f, t.for)

AloneInv ==
    /\ FileInv /\ OneAtATime
    /\ \A h \in Handlers : Safe(task[h], memory, file)
    /\ \A r \in acked : OnFile(file, r)

\* A snapshot whose own row has grown still has every update the table had.
LEMMA GrownRowKeeps ==
    ASSUME NEW m, NEW o, NEW row, NEW r, o \in DOMAIN m => m[o] \subseteq row
    PROVE  /\ OnFile(m, r) => OnFile(With(m, o, row), r)
           /\ o = Of[r] /\ r \in row => OnFile(With(m, o, row), r)
<1> DEFINE w == With(m, o, row)
<1>1. DOMAIN w = DOMAIN m \cup {o}
  BY DEF With, Overlay
<1>2. w[o] = row
  BY DEF With, Overlay
<1>3. \A x \in DOMAIN m : x # o => w[x] = m[x]
  BY DEF With, Overlay
<1> HIDE DEF w
<1> QED BY <1>1, <1>2, <1>3 DEF OnFile, w

LEMMA OverlayOfEmpty == ASSUME NEW t \in Tables PROVE Overlay(Empty, t) = t
<1>1. DOMAIN Empty = {} BY DEF Empty
<1>2. t = [o \in DOMAIN t |-> t[o]] BY DEF Tables
<1> QED BY <1>1, <1>2 DEF Overlay

\* No other thread is at work.
Free(h) == \A g \in Handlers : g # h => ~Busy(g)

LEMMA RestIsSafe == ASSUME NEW t, t.pc = "idle" PROVE \A m, f : Safe(t, m, f)
BY DEF Safe, Reading, Computing, Committing

\* A step of the only thread, to a state that relies on what is there.
LEMMA AloneMove ==
    ASSUME AloneInv, OneAtATime', NEW h \in Handlers, Free(h), NEW t,
           task' = [task EXCEPT ![h] = t], FileInv',
           Safe(t, memory', file'),
           \A r \in acked' : OnFile(file', r)
    PROVE  AloneInv'
<1>1. task'[h] = t /\ \A g \in Handlers : g # h => task'[g] = task[g]
  BY DEF AloneInv, FileInv, FileTypeOK
<1>2. \A g \in Handlers : g # h => task'[g].pc = "idle"
  BY <1>1 DEF Free, Busy, At
<1>3. \A g \in Handlers : Safe(task'[g], memory', file')
  BY <1>1, <1>2, RestIsSafe
<1> QED BY <1>3 DEF AloneInv

LEMMA IdleIsSafe == \A m, f : Safe(Idle, m, f)
BY DEF Safe, Idle, Start, Reading, Computing, Committing

LEMMA AloneNext ==
    ASSUME AloneInv, [Next]_vars, OneAtATime'
    PROVE  AloneInv'
<1>0. FileInv' BY FileNext DEF AloneInv
<1>1. ASSUME NEW h \in Handlers, Free(h), End(h), \A r \in acked' : OnFile(file', r)
      PROVE  AloneInv'
  BY <1>0, <1>1, AloneMove, IdleIsSafe DEF End
<1>2. ASSUME NEW h \in Handlers, Free(h), NEW pc, Goto(h, pc), file' = file, memory' = memory,
             UNCHANGED acked,
             \/ task[h].pc = "probing" /\ pc \in {"clear", "normalize"}
             \/ task[h].pc = "normalize" /\ pc = "normalizing"
             \/ task[h].pc = "normalizing" /\ pc = "clear"
             \/ task[h].pc = "persist" /\ pc = "writing"
             \/ task[h].pc = "rewrite" /\ pc = "rewriting"
             \/ task[h].pc = "enrich" /\ pc = "rewrite"
      PROVE  AloneInv'
  <2> DEFINE t == [task[h] EXCEPT !.pc = pc]
  <2>1. task[h] \in Task /\ Safe(task[h], memory, file)
    BY DEF AloneInv, FileInv, FileTypeOK
  <2>2. /\ t.pc = pc /\ t.rows = task[h].rows /\ t.last = task[h].last
        /\ t.opp = task[h].opp /\ t.for = task[h].for /\ t.row = task[h].row
    BY <2>1 DEF Task
  <2>3. task' = [task EXCEPT ![h] = t] BY <1>2 DEF Goto
  <2> HIDE DEF t
  <2>4. Safe(t, memory, file)
    BY <1>2, <2>1, <2>2 DEF Safe, Reading, Computing, Committing
  <2> QED BY <1>0, <1>2, <2>3, <2>4, AloneMove DEF AloneInv
<1>3. ASSUME NEW h \in Handlers, NEW r \in Requests \cup {Look}, Ask(h, r)
      PROVE  AloneInv'
  <2>1. Safe(Start(r), memory, file)
    BY DEF Safe, Start, Reading, Computing, Committing
  <2>2. task' = [task EXCEPT ![h] = Start(r)] /\ UNCHANGED <<file, memory, acked>>
    BY <1>3 DEF Ask
  <2>3. task'[h] = Start(r) /\ \A g \in Handlers : g # h => task'[g] = task[g]
    BY <2>2 DEF AloneInv, FileInv, FileTypeOK
  <2>4. Free(h)
    BY <2>3 DEF Free, OneAtATime, Busy, At, Start
  <2> QED BY <1>0, <2>1, <2>2, <2>4, AloneMove DEF AloneInv
<1>4. ASSUME NEW h \in Handlers, Step(h) PROVE AloneInv'
  <2>0. /\ task[h] \in Task /\ Safe(task[h], memory, file)
        /\ \A r \in acked : OnFile(file, r)
        /\ memory \in Tables /\ file \in Tables
    BY DEF AloneInv, FileInv, FileTypeOK
  <2>16. Free(h)
    <3>1. Busy(h)
      BY <1>4 DEF Step, LockTimeout, OperationFails, Probe, Replace, WriteBack, Clear, Fill,
                  NotReady, HandleLook, Handle, Commit, Acquire, Write, Rewrite, Publish, Enrich,
                  At, Busy, Waiting, Holding
    <3> QED BY <3>1 DEF Free, AloneInv, OneAtATime
  <2>1. CASE LockTimeout(h) \/ OperationFails(h) \/ NotReady(h)
    BY <2>16, <2>0, <2>1, <1>1 DEF LockTimeout, OperationFails, Failed, NotReady
  <2>2. CASE Probe(h)
    <3> DEFINE t == [task[h] EXCEPT !.pc = "probing", !.rows = file]
    <3>1. ~task[h].last BY <2>0, <2>2 DEF Safe, Probe, At
    <3>2. t.pc = "probing" /\ t.rows = file /\ t.last = task[h].last
      BY <2>0 DEF Task
    <3>3. task' = [task EXCEPT ![h] = t] BY <2>2 DEF Probe
    <3> HIDE DEF t
    <3>4. Safe(t, memory, file)
      BY <3>1, <3>2 DEF Safe, Reading, Computing, Committing
    <3> QED BY <2>16, <1>0, <2>0, <2>2, <3>3, <3>4, AloneMove DEF Probe
  <2>3. CASE Replace(h)
    <3>1. task[h].rows = file BY <2>0, <2>3 DEF Safe, Reading, Replace, At
    <3> QED BY <2>16, <1>2, <2>3, <3>1 DEF Replace, At
  <2>4. CASE WriteBack(h)
    <3>1. task[h].rows = file BY <2>0, <2>4 DEF Safe, Reading, WriteBack, At
    <3> QED BY <2>16, <1>2, <2>4, <3>1 DEF WriteBack, At
  <2>5. CASE Clear(h)
    <3> DEFINE t == [task[h] EXCEPT !.pc = "fill"]
    <3>1. task[h].rows = file /\ ~task[h].last
      BY <2>0, <2>5 DEF Safe, Reading, Clear, At
    <3>2. t.pc = "fill" /\ t.rows = task[h].rows /\ t.last = task[h].last
      BY <2>0 DEF Task
    <3>3. task' = [task EXCEPT ![h] = t] BY <2>5 DEF Clear, Goto
    <3> HIDE DEF t
    <3>4. Safe(t, Empty, file)
      BY <3>1, <3>2 DEF Safe, Reading, Computing, Committing
    <3> QED BY <2>16, <1>0, <2>0, <2>5, <3>3, <3>4, AloneMove DEF Clear
  <2>6. CASE Fill(h)
    <3> DEFINE t == [task[h] EXCEPT !.pc = "handle"]
    <3>1. task[h].rows = file /\ ~task[h].last /\ memory = Empty
      BY <2>0, <2>6 DEF Safe, Reading, Fill, At
    <3>2. t.pc = "handle" /\ t.last = task[h].last
      BY <2>0 DEF Task
    <3>3. task' = [task EXCEPT ![h] = t] /\ memory' = file
      BY <2>0, <2>6, <3>1, OverlayOfEmpty DEF Fill, Goto
    <3> HIDE DEF t
    <3>4. Safe(t, file, file)
      BY <3>1, <3>2 DEF Safe, Reading, Computing, Committing
    <3> QED BY <2>16, <1>0, <2>0, <2>6, <3>3, <3>4, AloneMove DEF Fill
  <2>7. CASE HandleLook(h)
    <3>1. CASE End(h) BY <2>16, <1>1, <2>0, <2>7, <3>1 DEF HandleLook
    <3>2. ASSUME NEW o \in Opps,
                 task' = [task EXCEPT ![h].pc = "enrich", ![h].opp = o, ![h].rows = Empty]
          PROVE  AloneInv'
      <4> DEFINE t == [task[h] EXCEPT !.pc = "enrich", !.opp = o, !.rows = Empty]
      <4>1. memory = file /\ task[h].for = Look
        BY <2>0, <2>7 DEF Safe, Computing, HandleLook, At
      <4>2. t.pc = "enrich" /\ t.for = Look
        BY <2>0, <4>1 DEF Task
      <4>3. task' = [task EXCEPT ![h] = t] BY <3>2
      <4> HIDE DEF t
      <4>4. Safe(t, memory, file)
        BY <4>1, <4>2 DEF Safe, Reading, Computing, Committing
      <4> QED BY <2>16, <1>0, <2>0, <2>7, <4>3, <4>4, AloneMove DEF HandleLook
    <3> QED BY <2>7, <3>1, <3>2 DEF HandleLook
  <2>8. CASE Handle(h)
    <3> DEFINE r == task[h].for
               o == Of[r]
               t == [task[h] EXCEPT !.pc = "commit", !.opp = o, !.rows = Empty,
                                    !.row = Candidate(o, r)]
    <3>1. memory = file /\ ~task[h].last
      BY <2>0, <2>8 DEF Safe, Computing, Handle, At
    <3>2. /\ t.pc = "commit" /\ t.opp = o /\ t.for = r /\ t.row = Candidate(o, r)
          /\ t.last = task[h].last
      BY <2>0 DEF Task
    <3>3. task' = [task EXCEPT ![h] = t] BY <2>8 DEF Handle
    <3>4. o \in DOMAIN memory => memory[o] \subseteq Candidate(o, r)
      BY DEF Candidate, Saved
    <3> HIDE DEF t
    <3>5. Safe(t, memory, file)
      BY <3>1, <3>2, <3>4 DEF Safe, Reading, Computing, Committing
    <3> QED BY <2>16, <1>0, <2>0, <2>8, <3>3, <3>5, AloneMove DEF Handle
  <2>9. CASE Commit(h)
    <3> DEFINE w == With(memory, task[h].opp, task[h].row)
               t == [task[h] EXCEPT !.pc = "persist", !.rows = w]
    <3>1. task[h].pc = "commit" BY <2>9 DEF Commit, At
    <3>2. /\ t.pc = "persist" /\ t.rows = w /\ t.opp = task[h].opp
          /\ t.row = task[h].row /\ t.last = task[h].last /\ t.for = task[h].for
      BY <2>0 DEF Task
    <3>3. task' = [task EXCEPT ![h] = t] BY <2>9 DEF Commit
    <3> HIDE DEF t
    <3>4. Safe(t, memory, file)
      BY <2>0, <3>1, <3>2 DEF Safe, Reading, Computing, Committing
    <3> QED BY <2>16, <1>0, <2>0, <2>9, <3>3, <3>4, AloneMove DEF Commit
  <2>10. CASE Acquire(h)
    BY <2>16, <2>10, <1>2 DEF Acquire, At
  <2>11. CASE Write(h)
    <3> DEFINE w == With(memory, task[h].opp, task[h].row)
               t == [task[h] EXCEPT !.pc = "publish"]
    <3>1. task[h].pc = "writing" BY <2>11 DEF Write, At
    <3>2. /\ memory = file /\ task[h].rows = w
          /\ task[h].opp \in DOMAIN memory => memory[task[h].opp] \subseteq task[h].row
          /\ ~task[h].last => task[h].opp = Of[task[h].for]
          /\ task[h].last => task[h].for = Look \/ OnFile(file, task[h].for)
      BY <2>0, <3>1 DEF Safe, Computing, Committing
    <3>3. \A r : OnFile(file, r) => OnFile(w, r) BY <3>2, GrownRowKeeps
    <3>4. /\ t.pc = "publish" /\ t.opp = task[h].opp
          /\ t.row = task[h].row /\ t.last = task[h].last /\ t.for = task[h].for
      BY <2>0 DEF Task
    <3>5. task' = [task EXCEPT ![h] = t] /\ file' = w /\ UNCHANGED <<memory, acked>>
      BY <2>11, <3>2 DEF Write, Goto
    <3> HIDE DEF t
    <3>6. Safe(t, memory, w)
      BY <3>2, <3>3, <3>4 DEF Safe, Reading, Computing, Committing
    <3>7. \A r \in acked' : OnFile(file', r) BY <2>0, <3>3, <3>5
    <3> QED BY <2>16, <1>0, <3>5, <3>6, <3>7, AloneMove
  <2>12. CASE Rewrite(h)
    <3>1. memory = file /\ (task[h].for = Look \/ OnFile(file, task[h].for))
      BY <2>0, <2>12 DEF Safe, Computing, Rewrite, At
    <3>2. file' = file /\ End(h) /\ acked' = acked \cup ({task[h].for} \ {Look})
      BY <2>12, <3>1 DEF Rewrite
    <3>3. \A r \in acked' : OnFile(file', r) BY <2>0, <3>1, <3>2
    <3> QED BY <2>16, <1>1, <3>2, <3>3
  <2>13. CASE Publish(h)
    <3> DEFINE t == [task[h] EXCEPT !.pc = "enrich", !.row = {}, !.rows = Empty]
    <3>1. task[h].pc = "publish" BY <2>13 DEF Publish, At
    <3>2. /\ file = With(memory, task[h].opp, task[h].row)
          /\ task[h].opp \in DOMAIN memory => memory[task[h].opp] \subseteq task[h].row
          /\ ~task[h].last => task[h].opp = Of[task[h].for]
          /\ task[h].last => task[h].for = Look \/ OnFile(file, task[h].for)
          /\ ~task[h].last => task[h].for \in task[h].row
      BY <2>0, <3>1 DEF Safe, Committing, AloneInv, FileInv, FileTypeOK
    <3>3. task[h].for = Look \/ OnFile(file, task[h].for)
      BY <3>2, GrownRowKeeps
    <3>4. file' = file /\ memory' = file BY <2>13, <3>2 DEF Publish
    <3>5. CASE End(h) /\ acked' = acked \cup ({task[h].for} \ {Look})
      <4>1. \A r \in acked' : OnFile(file', r) BY <2>0, <3>3, <3>4, <3>5
      <4> QED BY <2>16, <1>1, <3>5, <4>1
    <3>6. CASE task' = [task EXCEPT ![h] = t] /\ UNCHANGED acked
      <4>1. t.pc = "enrich" /\ t.for = task[h].for
        BY <2>0 DEF Task
      <4> HIDE DEF t
      <4>2. Safe(t, file, file)
        BY <3>3, <4>1 DEF Safe, Reading, Computing, Committing
      <4> QED BY <2>16, <1>0, <2>0, <3>4, <3>6, <4>2, AloneMove
    <3> QED BY <2>13, <3>5, <3>6 DEF Publish
  <2>14. CASE Enrich(h)
    <3>1. /\ task[h].pc = "enrich" /\ UNCHANGED <<file, memory, health>>
          /\ memory = file /\ (task[h].for = Look \/ OnFile(file, task[h].for))
      BY <2>0, <2>14 DEF Safe, Computing, Enrich, At
    <3>2. CASE End(h) /\ acked' = acked \cup ({task[h].for} \ {Look})
      <4>1. \A r \in acked' : OnFile(file', r) BY <2>0, <3>1, <3>2
      <4> QED BY <2>16, <1>1, <3>2, <4>1
    <3>3. CASE Goto(h, "rewrite") /\ UNCHANGED acked
      BY <2>16, <1>2, <3>1, <3>3
    <3> DEFINE t == [task[h] EXCEPT !.pc = "commit", !.last = TRUE,
                                    !.row = Saved(task[h].opp)]
    <3>4. CASE task' = [task EXCEPT ![h] = t] /\ UNCHANGED acked
      <4>1. /\ t.pc = "commit" /\ t.last /\ t.row = Saved(task[h].opp)
            /\ t.opp = task[h].opp /\ t.for = task[h].for
        BY <2>0 DEF Task
      <4>2. task[h].opp \in DOMAIN memory => memory[task[h].opp] \subseteq t.row
        BY <4>1 DEF Saved
      <4> HIDE DEF t
      <4>3. Safe(t, memory, file)
        BY <3>1, <4>1, <4>2 DEF Safe, Reading, Computing, Committing
      <4> QED BY <2>16, <1>0, <2>0, <3>1, <3>4, <4>3, AloneMove
    <3> QED BY <2>14, <3>2, <3>3, <3>4 DEF Enrich
  <2> QED BY <1>4, <2>1, <2>2, <2>3, <2>4, <2>5, <2>6, <2>7, <2>8, <2>9, <2>10,
             <2>11, <2>12, <2>13, <2>14 DEF Step
<1>5. CASE Restart
  BY <1>0, <1>5, IdleIsSafe DEF Restart, AloneInv
<1>6. CASE UNCHANGED vars
  BY <1>0, <1>6 DEF vars, AloneInv
<1> QED BY <1>3, <1>4, <1>5, <1>6 DEF Next

\* As long as requests come one at a time, nothing that was answered with success
\* is lost, through failed operations and restarts (_commit persists before it
\* publishes); two requests at once can lose a row.
THEOREM AloneSuccessIsDurable == Spec => []AloneSuccessIsOnFile
<1> DEFINE Inv == FileInv /\ (~crowded => AloneInv)
<1>1. Init => Inv
  <2> SUFFICES ASSUME Init PROVE AloneInv
    BY FileInit
  <2>1. Idle.pc = "idle"
    BY IdleIsTask
  <2> QED BY <2>1, FileInit, IdleIsSafe DEF Init, AloneInv, OneAtATime, Busy, At
<1>2. Inv /\ [Next]_vars => Inv'
  <2> SUFFICES ASSUME Inv, [Next]_vars, ~crowded' PROVE AloneInv'
    BY FileNext
  <2>1. CASE UNCHANGED vars
    <3>1. OneAtATime' <=> OneAtATime
      BY <2>1 DEF vars, OneAtATime, Busy, At
    <3> QED BY <2>1, <3>1, AloneNext DEF vars, AloneInv
  <2>2. CASE Next
    <3>1. OneAtATime' /\ ~crowded
      BY <2>2 DEF Next, CountCrowd
    <3> QED BY <3>1, AloneNext
  <2> QED BY <2>1, <2>2
<1>3. Inv => AloneSuccessIsOnFile
  BY DEF AloneInv, AloneSuccessIsOnFile, AcknowledgedIsOnFile, OnFile
<1> QED BY <1>1, <1>2, <1>3, PTL DEF Spec
=============================================================================
