---------------------------- MODULE ReferenceLedger ----------------------------
(***************************************************************************)
(* The reference ledger (src/app/domain/david_reference.py, class Ledger): *)
(* what every ledger of this system promises.  A graph of nodes identified *)
(* by their content, each no longer-lived than what it derives from, and   *)
(* revocations that reach everything derived.  There is no clock: each     *)
(* call brings its own reading of the time.                                *)
(*                                                                         *)
(* A transaction is a short series of these operations; the reference runs *)
(* one at a time, the production ledger some together (InsertTwo, and      *)
(* Revoke of several roots).                                               *)
(***************************************************************************)
EXTENDS Naturals, FiniteSets

CONSTANTS
    Ids,       \* node digests
    Contents,  \* kinds and bodies
    Expiries, Times

TimesAssumption == Expiries \subseteq Nat /\ Times \subseteq Nat

VARIABLES
    dag,     \* nodes and edges, by id
    events   \* how many revocation events name each node

vars == <<dag, events>>

States == {"VALID", "REVOKED"}

Init ==
    /\ dag = [i \in {} |-> {}]
    /\ events = [i \in Ids |-> 0]

\* The recursive query over the edges, from i upwards.
Walk(d, i) ==
    LET up[n \in 0..Cardinality(DOMAIN d)] ==
          IF n = 0 THEN {i} ELSE UNION {{j} \cup d[j].parents : j \in up[n - 1]}
    IN  up[Cardinality(DOMAIN d)]

\* ... and downwards.
Derived(d, R) == {j \in DOMAIN d : Walk(d, j) \cap R # {}}

State(d, i, t) ==
    IF i \notin DOMAIN d THEN "MISSING"
    ELSE IF \E a \in Walk(d, i) : d[a].state # "VALID" THEN "REVOKED"
    ELSE IF \E a \in Walk(d, i) : d[a].expires <= t THEN "STALE" ELSE "VALID"

\* Mutated form: a derivation may outlive what it derives from.
InsertableForLonger(d, c, t) ==
    /\ c.expires > t
    /\ \A i \in DOMAIN d : d[i].content # c.content \/ d[i].parents # c.parents
                           \/ d[i].expires # c.expires
    /\ \A p \in c.parents : State(d, p, t) = "VALID"

\* New content on valid evidence that outlives it.  A retry of stored content
\* changes nothing, whether it is answered or refused.
Insertable(d, c, t) ==
    /\ c.expires > t
    /\ \A i \in DOMAIN d : d[i].content # c.content \/ d[i].parents # c.parents
                           \/ d[i].expires # c.expires
    /\ \A p \in c.parents : State(d, p, t) = "VALID" /\ c.expires <= d[p].expires

With(d, i, c) ==
    [j \in DOMAIN d \cup {i} |->
        IF j = i THEN [content |-> c.content, parents |-> c.parents,
                       expires |-> c.expires, state |-> "VALID"] ELSE d[j]]

Candidate(d) == [content : Contents, parents : SUBSET DOMAIN d, expires : Expiries]

\* append.
Insert ==
    /\ \E c \in Candidate(dag), t \in Times :
         /\ Insertable(dag, c, t)
         /\ \E i \in Ids \ DOMAIN dag : dag' = With(dag, i, c)
    /\ UNCHANGED events

\* Two appends of one transaction, the second derived from the first.
InsertTwo ==
    /\ \E c \in Candidate(dag), t \in Times :
         /\ Insertable(dag, c, t)
         /\ \E i, j \in Ids \ DOMAIN dag, x \in Expiries, body \in Contents :
              LET second == [content |-> body, parents |-> {i}, expires |-> x]
              IN  /\ i # j /\ Insertable(With(dag, i, c), second, t)
                  /\ dag' = With(With(dag, i, c), j, second)
    /\ UNCHANGED events

\* Mutated form: only the direct derivations are reached.
RevocableOneStep(R) == {j \in DOMAIN dag : j \in R \/ dag[j].parents \cap R # {}}

\* Mutated form: what is revoked already is revoked, and recorded, again.
RevocableAgain(R) == Derived(dag, R)

Revocable(R) == {j \in Derived(dag, R) : dag[j].state = "VALID"}

\* revoke: one event for each node it changes.
Revoke ==
    \E R \in SUBSET DOMAIN dag :
        LET reached == Revocable(R)
        IN  /\ dag' = [i \in DOMAIN dag |-> IF i \in reached
                                            THEN [dag[i] EXCEPT !.state = "REVOKED"] ELSE dag[i]]
            /\ events' = [i \in Ids |-> IF i \in reached THEN events[i] + 1 ELSE events[i]]

Next == Revoke \/ Insert \/ InsertTwo

Spec == Init /\ [][Next]_vars

-----------------------------------------------------------------------------
(***************************************************************************)
(* Properties.                                                             *)
(***************************************************************************)
\* Whoever reads a node at any time from any clock: it is valid only if all
\* it rests on stands, and it is stale before what it rests on is (append).
ValidityIsInherited ==
    \A i \in DOMAIN dag, t \in Times : State(dag, i, t) = "VALID" =>
        \A a \in Walk(dag, i) : State(dag, a, t) = "VALID" /\ dag[i].expires <= dag[a].expires

\* No node stands on a revoked one, stored states alone taken (revoke).
NothingStandsOnRevoked ==
    \A i \in DOMAIN dag : dag[i].state = "VALID" => \A a \in Walk(dag, i) : dag[a].state = "VALID"

\* Every revoked node has one event, in whatever order overlapping lineages
\* were revoked; no other node has one (revoke).
EachRevocationIsRecordedOnce ==
    \A i \in Ids : events[i] = IF i \in DOMAIN dag /\ dag[i].state = "REVOKED" THEN 1 ELSE 0

\* A revocation reaches all that rests on the node, for every later reader, and is
\* recorded once.
RevocationsAreWhole ==
    ValidityIsInherited /\ NothingStandsOnRevoked /\ EachRevocationIsRecordedOnce

=============================================================================
