------------------------------ MODULE CrmWebhook ------------------------------
(***************************************************************************)
(* POST /api/webhook/test (src/app/server.py): one attempt to push the     *)
(* leads to an approved CRM host.  The host's addresses are resolved once, *)
(* refused all together when one is not public, and tried in order until   *)
(* one connects; the request is sent on that connection only, under one    *)
(* deadline.  The network may fail at every call, before or after the CRM  *)
(* took the request, and the name may resolve to something else meanwhile. *)
(***************************************************************************)
EXTENDS Naturals, Sequences, FiniteSets

CONSTANTS
    Addresses,  \* addresses the host may resolve to
    Public,     \* those that are public
    Rank,       \* their order as packed bytes
    Timeout     \* total_timeout, in steps of the clock

NoAddress == "nowhere"

WebhookAssumption ==
    /\ IsFiniteSet(Addresses) /\ Public \subseteq Addresses /\ NoAddress \notin Addresses
    /\ Rank \in [Addresses -> Nat] /\ \A a, b \in Addresses : a # b => Rank[a] # Rank[b]
    /\ Timeout \in Nat \ {0}

VARIABLES
    pc,        \* where the request is
    dns,       \* what the name resolves to now
    todo,      \* the validated addresses not tried yet
    conn,      \* the address connected to
    left,      \* what is left of the deadline
    received,  \* the CRM's copies: the address each came in at
    status,    \* what the CRM said of the last one: none, accepted, refused
    answer     \* the answer to the operator

vars == <<pc, dns, todo, conn, left, received, status, answer>>

Answers == {"none", "sent", "unsent"}

Init ==
    /\ pc = "resolve" /\ dns \in SUBSET Addresses
    /\ todo = <<>> /\ conn = NoAddress /\ left = Timeout
    /\ received = <<>> /\ status = "none" /\ answer = "none"

Say(a) == answer' = a /\ pc' = "done"

\* Another answer of the name server, at any time.
Rebind ==
    /\ pc \notin {"resolve", "done"} /\ dns' \in SUBSET Addresses
    /\ UNCHANGED <<pc, todo, conn, left, received, status, answer>>

\* _webhook_destination: all of the addresses, or none.
Acceptable(S) == S # {} /\ S \subseteq Public

\* sorted(): the addresses in the order of their packed bytes.
Sorted(S) ==
    {s \in [1..Cardinality(S) -> S] : \A i, j \in DOMAIN s : i < j => Rank[s[i]] < Rank[s[j]]}

Resolve ==
    /\ pc = "resolve"
    /\ IF Acceptable(dns)
       THEN /\ todo' \in Sorted(dns)
            /\ pc' = "connect" /\ UNCHANGED answer
       ELSE Say("unsent") /\ UNCHANGED todo
    /\ UNCHANGED <<dns, conn, left, received, status>>

\* No address is left, or no time.
GiveUp ==
    /\ pc = "connect" /\ (todo = <<>> \/ left = 0)
    /\ Say("unsent")
    /\ UNCHANGED <<dns, todo, conn, left, received, status>>

\* Mutated form: the name is resolved again to connect.
TargetByName == dns

\* _PinnedHTTPSConnection connects to the validated address.
Target == {Head(todo)}

Connect ==
    /\ pc = "connect" /\ todo # <<>> /\ left > 0
    /\ todo' = Tail(todo)
    /\ left' \in 0..left
    /\ \/ conn' \in Target /\ pc' = "send"
       \/ UNCHANGED <<conn, pc>>     \* refused, timed out, or a bad certificate
    /\ UNCHANGED <<dns, received, status, answer>>

\* Mutated form: a failed exchange moves on to the next address.
LostRetries == pc' = "connect" /\ UNCHANGED answer

\* Mutated form: the socket has no timeout left.
LostHangs == UNCHANGED <<pc, answer>>

\* Any error of the exchange is an answer.
Lost == Say("unsent")

\* The request goes out; the CRM may take it and its answer may get lost.
Send ==
    /\ pc = "send"
    /\ left' \in 0..left
    /\ \/ /\ Lost /\ UNCHANGED <<received, status>>
       \/ /\ left > 0
          /\ received' = Append(received, conn)
          /\ status' \in {"accepted", "refused"}
          /\ \/ pc' = "judge" /\ UNCHANGED answer
             \/ Lost
    /\ UNCHANGED <<dns, todo, conn>>

\* Mutated form: any response is a success.
JudgedAny == "sent"

\* 200 to 299 only.
Judged == IF status = "accepted" THEN "sent" ELSE "unsent"

Judge ==
    /\ pc = "judge" /\ Say(Judged)
    /\ UNCHANGED <<dns, todo, conn, left, received, status>>

Next == Rebind \/ Resolve \/ GiveUp \/ Connect \/ Send \/ Judge

\* Every call on the socket has a timeout, so the handler always goes on.
Spec == Init /\ [][Next]_vars /\ WF_vars(Resolve \/ GiveUp \/ Connect \/ Send \/ Judge)

-----------------------------------------------------------------------------
(***************************************************************************)
(* Properties.                                                             *)
(***************************************************************************)
\* The CRM gets the leads at most once, whichever addresses failed before
\* and whether or not its answer came back: a POST is not repeated.
DeliveredAtMostOnce == Len(received) <= 1

\* The operator is told "sent" only of a request the CRM took and accepted
\* (server.py: "never fake success").
SentMeansAccepted == answer = "sent" => Len(received) = 1 /\ status = "accepted"

\* Nothing goes to an address that is not public, whatever the name resolves
\* to between the validation and the connection.
OnlyValidatedAddresses == conn # NoAddress => conn \in Public

\* The push is honest towards the CRM and the operator (webhook_test).
WebhookIsHonest == DeliveredAtMostOnce /\ SentMeansAccepted /\ OnlyValidatedAddresses

\* Every test is answered: with a failure at every call, too.
EveryTestIsAnswered == <>(answer # "none")

=============================================================================
