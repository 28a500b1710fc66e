------------------------------ MODULE MCProgress ------------------------------
(***************************************************************************)
(* What must eventually happen, for TLC: requests on the desk's file end,  *)
(* a board refresh frees its slot, transactions end, a webhook test is     *)
(* answered, a rotation attempt and a collection job end.  They share no   *)
(* variable; `part` says which of them a behaviour is about, and each has  *)
(* the fairness of its own module.  No symmetry: these are liveness        *)
(* properties.                                                             *)
(***************************************************************************)
EXTENDS DeskFile, Sequences, TLC

CONSTANTS h1, h2, o1, o2, r1, r2, t1, t2, l1, g, VA, MD, None

VARIABLES
    part,
    cache, echo, slot, th, answer, minted, now, torn,
    collation, holder, tx, item, granted, withdrawn, recalled,
    pc, dns, todo, conn, left, received, status, reply,
    day, history, settings, restart, procs, rotation, evidence,
    job, answers, collected

\* Updates of two opportunities.
MCOf == (r1 :> o1) @@ (r2 :> o2)

\* Two threads, which look and update one opportunity.
NextOfACrowd ==
    /\ \/ \E h \in Handlers, r \in {r1, Look} : Ask(h, r)
       \/ \E h \in Handlers : Step(h)
       \/ Restart
    /\ CountCrowd

\* One thread, which updates both.
NextAlone ==
    /\ \/ \E r \in Requests \cup {Look} : Ask(h1, r)
       \/ Step(h1)
       \/ Restart
    /\ CountCrowd

\* Two threads that refresh one board, while its snapshot stops being fresh.
Boards == INSTANCE PublicBoards WITH
    Threads <- {t1, t2}, FrontierKeys <- {"frontier"}, DealKeys <- {}, ProofLimit <- 2,
    BoardLimit <- 1, BoardTTL <- 1, EchoTTL <- 3, FreshUntil <- 2, MaxTime <- 4, MaxReceipts <- 3

\* Two scopes that the database sorts the other way round than the code.
Transactions == INSTANCE LedgerLocks WITH
    Txns <- {t1, t2}, Grants <- {g}, Scopes <- {"B", "b"},
    CodeOrder <- [s \in {"B", "b"} |-> IF s = "B" THEN 1 ELSE 2],
    Collations <- {[s \in {"B", "b"} |-> IF s = "b" THEN 1 ELSE 2]}

\* Two public addresses and a private one between them.
Webhook == INSTANCE CrmWebhook WITH
    answer <- reply, Addresses <- {"a", "p", "z"}, Public <- {"a", "z"},
    Rank <- [x \in {"a", "p", "z"} |-> CASE x = "a" -> 1 [] x = "p" -> 2 [] OTHER -> 3],
    Timeout <- 2

\* One lane, and a publication between the pin and the canary.
Rotation == INSTANCE ReaderRotation WITH
    job <- rotation, Lanes <- {l1}, Order <- <<"DAVID_DATASET_READ_TOKEN", "DAVID_ACCESS_KEY">>,
    Reader <- "DAVID_DATASET_READ_TOKEN", LoginSecrets <- {"DAVID_ACCESS_KEY"},
    Revisions <- {"target"}, Target <- "target", Fresh <- 0, LastDay <- 0,
    MaxCommits <- 2, MaxAttempts <- 1, MaxTries <- 2,
    RecordSets <- {{"SIGNED"}, {"SIGNED", "UNAVAILABLE"}}

Filing(id, state, valid) ==
    [id |-> id, name |-> id, state |-> state, taken |-> TRUE, org |-> TRUE, valid |-> valid,
     size |-> 1, rank |-> id]

\* Captures of at most two rows, one of which breaks the contract.
Collection == INSTANCE FrontierCollection WITH
    bundle <- collected, Lanes <- {"fmcsa", "form5500"}, Requested <- <<VA, MD>>,
    Rows <- {Filing(1, VA, TRUE), Filing(2, MD, TRUE), Filing(3, VA, FALSE)},
    Page <- 2, PerState <- 1, Attempts <- 3, MaxRows <- 2, MaxDay <- 2

ASSUME /\ Boards!BoardsAssumption /\ Transactions!LocksAssumption /\ Webhook!WebhookAssumption
       /\ Rotation!RotationAssumption /\ Collection!CollectionAssumption

boardVars == <<cache, echo, slot, th, answer, minted, now, torn>>
lockVars == <<collation, holder, tx, item, granted, withdrawn, recalled>>
hookVars == <<pc, dns, todo, conn, left, received, status, reply>>
rotationVars == <<history, settings, restart, procs, rotation, evidence>>
jobVars == <<job, answers, collected>>
others == <<day, boardVars, lockVars, hookVars, rotationVars, jobVars>>

ProgressInit ==
    /\ part \in {"crowd", "alone", "boards", "locks", "webhook", "rotation", "collection"}
    /\ Init
    /\ Boards!Init
    /\ Transactions!Init /\ (part = "locks" \/ item \in [{"B", "b"} -> {"quiet"}])
    /\ Webhook!Init /\ (part = "webhook" \/ dns = {})
    /\ Rotation!Init
    /\ Collection!Init /\ (part = "collection" \/ job.lane = "fmcsa")

ProgressNext ==
  /\ UNCHANGED part
  /\ \/ /\ part = "crowd" /\ NextOfACrowd
        /\ UNCHANGED others
     \/ /\ part = "alone" /\ NextAlone
        /\ UNCHANGED others
     \/ /\ part = "boards" /\ Boards!Next
        /\ UNCHANGED <<vars, day, lockVars, hookVars, rotationVars, jobVars>>
     \/ /\ part = "locks" /\ Transactions!Next
        /\ UNCHANGED <<vars, day, boardVars, hookVars, rotationVars, jobVars>>
     \/ /\ part = "webhook" /\ Webhook!Next
        /\ UNCHANGED <<vars, day, boardVars, lockVars, rotationVars, jobVars>>
     \/ /\ part = "rotation" /\ Rotation!Next
        /\ UNCHANGED <<vars, boardVars, lockVars, hookVars, jobVars>>
     \/ /\ part = "collection" /\ Collection!Next
        /\ UNCHANGED <<vars, boardVars, lockVars, hookVars, rotationVars>>

\* The fairness of each module, for the behaviours that are about it.
Fairness ==
    /\ \A h \in Handlers : WF_vars(part \in {"crowd", "alone"} /\ Step(h) /\ CountCrowd)
    /\ \A t \in {t1, t2} : WF_boardVars(part = "boards" /\ Boards!Work(t))
    /\ \A t \in {t1, t2} : SF_lockVars(part = "locks" /\ Transactions!Step(t))
    /\ WF_hookVars(part = "webhook"
                     /\ (Webhook!Resolve \/ Webhook!GiveUp \/ Webhook!Connect \/ Webhook!Send \/ Webhook!Judge))
    /\ WF_rotationVars(part = "rotation" /\ Rotation!Attempt)
    /\ WF_jobVars(part = "collection" /\ Collection!JobStep)

ProgressSpec == ProgressInit /\ [][ProgressNext]_<<part, vars, others>> /\ Fairness

-----------------------------------------------------------------------------
\* Whoever asks is answered: a desk request ends however many compete for the file,
\* a board refresh frees its slot however it ends, every transaction ends, deadlocked
\* or not, and every test of the webhook is answered.
RequestsEnd ==
    /\ EveryRequestEnds
    /\ Boards!SlotIsFreed
    /\ Transactions!EveryTransactionEnds
    /\ part = "webhook" => Webhook!EveryTestIsAnswered

\* Every rotation attempt ends, also when a publication between the pin and the
\* canary makes the bound snapshots ones no process will ever serve again; and every
\* collection job, whatever the source does.
JobsEnd ==
    /\ Rotation!EveryAttemptEnds
    /\ part = "collection" => Collection!EveryJobEnds
=============================================================================
