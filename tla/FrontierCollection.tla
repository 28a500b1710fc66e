-------------------------- MODULE FrontierCollection --------------------------
(***************************************************************************)
(* One scheduled collection job: for each requested state in turn it calls *)
(* the lane's official source, with bounded retries, checks every admitted *)
(* row, keeps the first ones, and builds a bundle that must verify.  The   *)
(* source may answer, fail in a way worth a retry, or refuse; the day may  *)
(* change between any two steps.                                           *)
(*                                                                         *)
(* A row of a source is the record its adapter would make of it: who       *)
(* (id, name, state), whether the adapter's own filter takes it (taken),   *)
(* whether its name ends in a legal suffix (org), whether its projection   *)
(* passes validate_record (valid), and for benefit filings the number of   *)
(* participants (size) and the place in the order (rank).                  *)
(***************************************************************************)
EXTENDS Naturals, Sequences, FiniteSets

CONSTANTS
    Lanes,       \* the lanes a job may be for
    Requested,   \* the requested states, a sequence without repetition
    Rows,        \* the rows a source may hold
    Page,        \* the rows an adapter returns at most (50)
    PerState,    \* --per-state-limit
    Attempts,    \* 3
    MaxRows,     \* bound on the rows of an answer
    MaxDay,      \* bound on the calendar
    None

CollectionAssumption ==
    /\ Lanes \subseteq {"fmcsa", "usaspending", "form5500"}
    /\ Requested \in Seq({Requested[i] : i \in DOMAIN Requested}) /\ Len(Requested) > 0
    /\ \A i, j \in DOMAIN Requested : Requested[i] = Requested[j] => i = j
    /\ {Page, PerState, Attempts} \subseteq Nat \ {0}
    /\ {MaxRows, MaxDay} \subseteq Nat
    /\ None \notin {"exhausted", "refused", "contract", "verify"}
    /\ \A r \in Rows : {r.size, r.rank} \subseteq Nat /\ {r.taken, r.org, r.valid} \subseteq BOOLEAN

VARIABLES
    day,       \* today, UTC
    job,       \* its lane, phase, state under way, attempt, why it stopped
    answers,   \* what the source last answered for each completed state
    bundle     \* the records, accounting and windows collected, then the bundle written

vars == <<day, job, answers, bundle>>

Lane == job.lane

EmptyBundle == [records |-> <<>>, counts |-> <<>>, windows |-> <<>>, created |-> None]

Init ==
    /\ day = 0
    /\ job \in [lane : Lanes, phase : {"ready"}, at : {1}, attempt : {0}, stop : {None}]
    /\ answers = <<>>
    /\ bundle = EmptyBundle

-----------------------------------------------------------------------------
(* The adapters: what a source's rows become *)

\* The elements of s that are in S, in their order.
Those(s, S) ==
    LET those[n \in 0 .. Len(s)] ==
            IF n = 0 THEN <<>>
            ELSE IF s[n] \in S THEN Append(those[n - 1], s[n]) ELSE those[n - 1]
    IN those[Len(s)]

Mine(rows, state) == Those(rows, {r \in Rows : r.taken /\ r.state = state})

FirstOf(n, s) == SubSeq(s, 1, IF Len(s) < n THEN Len(s) ELSE n)

Admitted(rows) == Those(rows, {r \in Rows : r.org})

\* Carriers: a legal suffix is required here, and the adapter stops at a page.
Carriers(rows, state) == FirstOf(Page, Admitted(Mine(rows, state)))

\* Awards: the source was asked for a page, and the filter drops some of it.
Awards(rows, state) == Mine(FirstOf(Page, rows), state)

\* One filing for a sponsor, the one with most participants, the first of equals.
OnePerSponsor(rows) ==
    {i \in DOMAIN rows : \A j \in DOMAIN rows : rows[j].name = rows[i].name =>
        rows[j].size < rows[i].size \/ (rows[j].size = rows[i].size /\ i <= j)}

FirstMet(rows, name) ==
    CHOOSE i \in DOMAIN rows : /\ rows[i].name = name
                              /\ \A j \in DOMAIN rows : rows[j].name = name => i <= j

\* By rank; those of one rank in the order in which their sponsors were met.
Above(rows, i, j) ==
    \/ rows[i].rank > rows[j].rank
    \/ /\ rows[i].rank = rows[j].rank
       /\ FirstMet(rows, rows[i].name) < FirstMet(rows, rows[j].name)

Ordered(rows, places) ==
    [n \in 1 .. Cardinality(places) |->
        rows[CHOOSE i \in places : Cardinality({j \in places : Above(rows, j, i)}) = n - 1]]

\* Mutated form: the page is taken before the filings are put in order.
PlansCut(rows, state) ==
    LET page == FirstOf(Page, Mine(rows, state)) IN Ordered(page, OnePerSponsor(page))

\* Benefit plans: in order, a page of them.
Plans(rows, state) ==
    LET mine == Mine(rows, state) IN FirstOf(Page, Ordered(mine, OnePerSponsor(mine)))

Returned(rows, state) ==
    CASE Lane = "fmcsa" -> Carriers(rows, state)
      [] Lane = "usaspending" -> Awards(rows, state)
      [] Lane = "form5500" -> Plans(rows, state)

-----------------------------------------------------------------------------
(* Collection *)

State == Requested[job.at]

\* Mutated form: only the rows that are kept are checked.
AcceptableKept(rows) == \A i \in DOMAIN FirstOf(PerState, Admitted(rows)) :
                            FirstOf(PerState, Admitted(rows))[i].valid

\* Every admitted row must project, the ones beyond the limit too.
Acceptable(rows) == \A i \in DOMAIN Admitted(rows) : Admitted(rows)[i].valid

Counts(rows) ==
    LET admitted == Len(Admitted(rows))
        selected == Len(FirstOf(PerState, Admitted(rows))) IN
    [returned |-> Len(rows), excluded |-> Len(rows) - admitted,
     unselected |-> admitted - selected, selected |-> selected]

Began ==
    /\ job.phase = "ready"
    /\ job' = [job EXCEPT !.phase = "calling"]
    /\ UNCHANGED <<day, answers, bundle>>

\* Mutated form: an attempt begins the count anew.
NextAttemptAnew == [job EXCEPT !.phase = "waiting"]

NextAttempt == [job EXCEPT !.phase = "waiting", !.attempt = @ + 1]

\* Mutated form: one attempt more.
MayRetryOnceMore == job.attempt < Attempts

MayRetry == job.attempt < Attempts - 1

\* The call fails: a retry after a pause, or the end of the job.
CallFails ==
    /\ job.phase = "calling"
    /\ \E retryable \in BOOLEAN :
          job' = IF retryable /\ MayRetry THEN NextAttempt
                 ELSE [job EXCEPT !.phase = "failed",
                                  !.stop = IF retryable THEN "exhausted" ELSE "refused"]
    /\ UNCHANGED <<day, answers, bundle>>

Retry ==
    /\ job.phase = "waiting"
    /\ job' = [job EXCEPT !.phase = "calling"]
    /\ UNCHANGED <<day, answers, bundle>>

Gathered(rows) ==
    [bundle EXCEPT !.records = @ \o FirstOf(PerState, Admitted(rows)),
                   !.counts = Append(@, Counts(rows)),
                   !.windows = Append(@, day)]

\* The call returns: its rows are checked and the first of them are kept.
CallReturns ==
    /\ job.phase = "calling"
    /\ \E raw \in UNION {[1 .. n -> Rows] : n \in 0 .. MaxRows} :
          LET rows == Returned(raw, State) IN
          /\ answers' = Append(answers, raw)
          /\ IF Acceptable(rows)
             THEN /\ bundle' = Gathered(rows)
                  /\ job' = IF job.at = Len(Requested) THEN [job EXCEPT !.phase = "building"]
                            ELSE [job EXCEPT !.at = @ + 1, !.attempt = 0]
             ELSE /\ job' = [job EXCEPT !.phase = "failed", !.stop = "contract"]
                  /\ UNCHANGED bundle
    /\ UNCHANGED day

Selected(b, i) == Those(b.records, {r \in Rows : r.state = Requested[i]})

\* _coverage: every state completed, its counts those of its records, balanced, and no
\* record that is counted for no state.
CoverageHolds(b) ==
    /\ Len(b.counts) = Len(Requested)
    /\ \A i \in DOMAIN b.counts :
          LET c == b.counts[i] IN
          /\ c.selected = Len(Selected(b, i)) /\ c.selected <= PerState
          /\ c.returned = c.excluded + c.unselected + c.selected
    /\ \A k \in DOMAIN b.records : \E i \in DOMAIN Requested : b.records[k].state = Requested[i]

\* Mutated form: a basis of the day of the capture only.
TimingHoldsToday(b) == Lane = "form5500" => \A i \in DOMAIN b.windows : b.created = b.windows[i]

\* _verify_capture_timing: a capture may finish on the day after its query's basis.
TimingHolds(b) ==
    Lane = "form5500" => \A i \in DOMAIN b.windows : b.created - b.windows[i] <= 1

BundleVerifies(b) ==
    /\ Len(b.records) > 0
    /\ \A i \in DOMAIN b.records : b.records[i].valid /\ b.records[i].org
    /\ \A i, j \in DOMAIN b.records : b.records[i].id = b.records[j].id => i = j
    /\ CoverageHolds(b)
    /\ TimingHolds(b)

\* build_bundle stamps and verifies, write_bundle verifies and renames into place.
Build ==
    /\ job.phase = "building"
    /\ LET b == [bundle EXCEPT !.created = day] IN
       IF BundleVerifies(b)
       THEN bundle' = b /\ job' = [job EXCEPT !.phase = "written"]
       ELSE bundle' = EmptyBundle /\ job' = [job EXCEPT !.phase = "failed", !.stop = "verify"]
    /\ UNCHANGED <<day, answers>>

NextDay ==
    /\ day < MaxDay
    /\ day' = day + 1
    /\ UNCHANGED <<job, answers, bundle>>

JobStep == Began \/ CallFails \/ CallReturns \/ Retry \/ Build

Next == JobStep \/ NextDay

\* The job is one thread, its calls have a timeout and its pauses are bounded.
Spec == Init /\ [][Next]_vars /\ WF_vars(JobStep)

-----------------------------------------------------------------------------
(* Properties *)

\* Type of the state.
CollectionTypeOK ==
    /\ day \in 0 .. MaxDay
    /\ job.phase \in {"ready", "calling", "waiting", "building", "written", "failed"}
    /\ job.at \in DOMAIN Requested
    /\ job.attempt \in 0 .. Attempts - 1
    /\ job.stop \in {None, "exhausted", "refused", "contract", "verify"}
    /\ Len(answers) <= Len(Requested)
    /\ bundle.created \in {None} \cup 0 .. MaxDay

\* A bundle that is written covers every requested state with what the source last
\* answered for it, up to the limit, whatever failed and was retried in between; no
\* admitted row beyond the limit was broken (collect_bundle).
WrittenBundlesAreComplete ==
    job.phase = "written" =>
        /\ Len(answers) = Len(Requested)
        /\ \A i \in DOMAIN Requested :
              LET rows == Returned(answers[i], Requested[i]) IN
              /\ Selected(bundle, i) = FirstOf(PerState, Admitted(rows))
              /\ \A k \in DOMAIN rows : rows[k].org => rows[k].valid
              /\ bundle.counts[i].returned = Len(rows)
        /\ \A k \in DOMAIN bundle.records :
              \E i \in DOMAIN Requested : bundle.records[k].state = Requested[i]

\* A capture the source answered in full is refused when it is built only because it
\* is empty, names one organization twice, or took more than one midnight: what is
\* counted while collecting agrees with what the verifier counts.
CompleteCapturesAreRefusedForACause ==
    job.stop = "verify" =>
        LET kept == [i \in DOMAIN answers |->
                        FirstOf(PerState, Admitted(Returned(answers[i], Requested[i])))] IN
        \/ \A i \in DOMAIN kept : kept[i] = <<>>
        \/ \E i, j \in DOMAIN kept : \E k \in DOMAIN kept[i], l \in DOMAIN kept[j] :
              <<i, k>> # <<j, l>> /\ kept[i][k].id = kept[j][l].id
        \/ Lane = "form5500" /\ day > 1

\* No sponsor that ranks above a published one is left out of the page of its state
\* (collect's order is applied before its cut).
BestPlansArePublished ==
    job.phase = "written" /\ Lane = "form5500" =>
        \A i \in DOMAIN Requested :
            LET mine == Mine(answers[i], Requested[i])
                rows == Returned(answers[i], Requested[i])
                names == {mine[k].name : k \in DOMAIN mine} IN
            /\ Len(rows) = IF Cardinality(names) < Page THEN Cardinality(names) ELSE Page
            /\ \A n \in names :
                 \/ \E k \in DOMAIN rows : rows[k].name = n
                 \/ \E j \in DOMAIN mine :
                       /\ mine[j].name = n
                       /\ \A m \in DOMAIN mine : mine[m].name = n => mine[m].size <= mine[j].size
                       /\ \A k \in DOMAIN rows : rows[k].rank >= mine[j].rank

\* Every job ends: retries are bounded for each state, whatever the source does.
EveryJobEnds == <>(job.phase \in {"written", "failed"})
=============================================================================
