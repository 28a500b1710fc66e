------------------------------- MODULE WorkLoop -------------------------------
(***************************************************************************)
(* POST /api/work: a bounded loop over the decay of the lead scores        *)
(* (src/app/work.py) that appends a receipt per step and one for the loop  *)
(* to the receipt lake (src/app/receipt_lake.py), with its best-effort     *)
(* mirror file.  The request chooses the budget and the threshold, neither *)
(* of which the server bounds.  Steps never ask for an abort and the early *)
(* exit on consistent outputs is disabled, so a loop ends converged, at    *)
(* its budget, or with an error that the server answers 503.               *)
(***************************************************************************)
EXTENDS Integers, Sequences, FiniteSets

CONSTANTS
    Requests,    \* request threads
    Budgets,     \* max_steps a request may ask for, any integer
    Thresholds,  \* convergence_threshold, any number
    Curves       \* the average score by step: sequences of scores

WorkAssumption ==
    /\ Budgets \subseteq Int /\ Thresholds \subseteq Int
    /\ Curves \subseteq Seq(Nat)
    /\ \A c \in Curves, b \in Budgets : Len(c) >= b /\ Len(c) > 0

VARIABLES
    loop,    \* what each request's loop is doing
    lake,    \* _LAKE
    mirror   \* the JSON-lines file

vars == <<loop, lake, mirror>>

Idle == [pc |-> "idle", budget |-> 0, threshold |-> 0, curve |-> <<>>,
         score |-> 0, steps |-> <<>>, exit |-> "none"]

Init ==
    /\ loop = [r \in Requests |-> Idle]
    /\ lake = <<>> /\ mirror = <<>>

\* work and run_territory_pulse: the first score is that of the age now.
BeginWork(r) ==
    /\ loop[r].pc = "idle"
    /\ \E b \in Budgets, t \in Thresholds, c \in Curves :
         loop' = [loop EXCEPT ![r] = [Idle EXCEPT
                    !.pc = IF b > 0 THEN "step" ELSE "receipt", !.budget = b, !.threshold = t,
                    !.curve = c, !.score = c[1],
                    !.exit = IF b > 0 THEN "none" ELSE "budgetExhausted"]]
    /\ UNCHANGED <<lake, mirror>>

\* Mutated form: a request's receipt takes the place of its last one.
AppendedLatest(receipt) ==
    lake' = Append(SelectSeq(lake, LAMBDA e : e.request # receipt.request), receipt)

\* receipt_lake.append under its lock: the mirror may miss a receipt.
Appended(receipt) == lake' = Append(lake, receipt)
Mirrored(receipt) == mirror' \in {mirror, Append(mirror, receipt)}

Magnitude(a, b) == IF a > b THEN a - b ELSE b - a

\* Mutated form: the first step counts as converged.
ConvergedAtOnce(l, delta) == delta <= l.threshold

\* Adjacent scores; the first step has none before it.
Converged(l, delta) == Len(l.steps) > 0 /\ delta <= l.threshold

Exit(l, delta) ==
    IF Converged(l, delta) THEN "converged"
    ELSE IF Len(l.steps) + 1 = l.budget THEN "budgetExhausted" ELSE "none"

\* One step: rescore, witness, append the event, then test the exits.
Step(r) ==
    /\ loop[r].pc = "step"
    /\ LET l == loop[r]
           i == Len(l.steps)
           score == l.curve[i + 1]
           delta == IF i = 0 THEN 0 ELSE Magnitude(l.score, score)
           event == [request |-> r, kind |-> "event", index |-> i]
       IN  /\ Appended(event) /\ Mirrored(event)
           /\ loop' = [loop EXCEPT ![r] = [l EXCEPT !.score = score,
                          !.steps = Append(@, [index |-> i, score |-> score, delta |-> delta]),
                          !.exit = Exit(l, delta),
                          !.pc = IF Exit(l, delta) = "none" THEN "step" ELSE "receipt"]]

\* build_loop_receipt, appended after the loop; the answer follows.
Finish(r) ==
    /\ loop[r].pc = "receipt"
    /\ LET receipt == [request |-> r, kind |-> "loop", index |-> Len(loop[r].steps)]
       IN  Appended(receipt) /\ Mirrored(receipt)
    /\ loop' = [loop EXCEPT ![r].pc = "answered"]

\* A step raises: what it appended stays, the answer is 503.
Fail(r) ==
    /\ loop[r].pc = "step"
    /\ loop' = [loop EXCEPT ![r].pc = "failed"]
    /\ UNCHANGED <<lake, mirror>>

Next == \E r \in Requests : BeginWork(r) \/ Step(r) \/ Finish(r) \/ Fail(r)

Spec == Init /\ [][Next]_vars

Matching(kind) == {p \in DOMAIN lake : lake[p].kind = kind}
Newer(kind, p) == {q \in Matching(kind) : p < q}

\* Mutated form: a limit of none is no limit.
QueryZeroIsAll(kind, limit) ==
    IF limit <= 0 THEN Matching(kind)
    ELSE {p \in Matching(kind) : Cardinality(Newer(kind, p)) < limit}

\* GET /api/lake: the places shown, filtered, newest last, the tail on request.
Query(kind, limit) ==
    IF limit < 0 THEN Matching(kind)
    ELSE {p \in Matching(kind) : Cardinality(Newer(kind, p)) < limit}

-----------------------------------------------------------------------------
(***************************************************************************)
(* Properties.                                                             *)
(***************************************************************************)
Mine(r) == {p \in DOMAIN lake : lake[p].request = r}

\* The lake holds, for each request, the events of the steps in its trace,
\* in order and without a hole whatever other loops append in between, then
\* its loop receipt, and nothing else (run_territory_pulse, append).
LakeIsWhatTheLoopsDid ==
    /\ \A p \in DOMAIN lake : lake[p].request \in Requests
    /\ \A r \in Requests :
          LET n == Len(loop[r].steps)
          IN  /\ {lake[p].index : p \in Mine(r)} =
                    0 .. (IF loop[r].pc = "answered" THEN n ELSE n - 1)
              /\ \A p, q \in Mine(r) : p < q => lake[p].index < lake[q].index
              /\ \A p \in Mine(r) : lake[p].kind = IF lake[p].index < n THEN "event" ELSE "loop"

\* A loop says converged exactly when its last step was the first to move no
\* further than the threshold, and budgetExhausted exactly when it ran the
\* budget without one; never more steps than asked for (run_loop).
ExitReasonsAreTrue ==
    \A r \in Requests :
        LET l == loop[r]
            quiet == {k \in 2..Len(l.steps) : l.steps[k].delta <= l.threshold}
        IN  l.pc \in {"receipt", "answered"} =>
              /\ l.exit = "converged" => quiet = {Len(l.steps)}
              /\ l.exit = "budgetExhausted" =>
                    quiet = {} /\ Len(l.steps) = IF l.budget > 0 THEN l.budget ELSE 0

\* A query with a limit shows that many of the receipts an unlimited one shows, or
\* all if there are fewer, and none newer than a receipt it shows is left out.
TailsAreSuffixes ==
    \A k \in {"event", "loop"}, n \in -1 .. 2 :
        LET all == Cardinality(Query(k, -1))
        IN  /\ Query(k, n) \subseteq Query(k, -1)
            /\ \A p \in Query(k, n), q \in Query(k, -1) : p < q => q \in Query(k, n)
            /\ n >= 0 => Cardinality(Query(k, n)) = IF n < all THEN n ELSE all

\* The three together: what is on record of a loop is what it did.
LoopsAreOnRecord == LakeIsWhatTheLoopsDid /\ ExitReasonsAreTrue /\ TailsAreSuffixes
=============================================================================
