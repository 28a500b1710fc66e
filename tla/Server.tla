-------------------------------- MODULE Server --------------------------------
(***************************************************************************)
(* What the request threads of the server share besides the receipt chain: *)
(* the operators' sessions, the file of consents, the anonymous boards and *)
(* the receipt lake; and the webhook test, which is one request alone.     *)
(* src/app/server.py keeps each of them in globals of its own, and no      *)
(* handler touches two of them in one step, so they share no variable.     *)
(***************************************************************************)
EXTENDS Integers

CONSTANTS
    Callers,                                  \* request threads
    Tokens, Users, TTL,                       \* sessions
    Consents, FileErrors, MaxStops,           \* consents; bound on restarts
    FrontierKeys, DealKeys, ProofLimit, BoardLimit, BoardTTL, EchoTTL, FreshUntil,
    Budgets, Thresholds, Curves,              \* work loops
    Addresses, Public, Rank, Timeout,         \* webhook
    MaxTime, MaxMinted                        \* bounds on the clocks, on receipts of boards

VARIABLES
    sessions, owner, gone, req, desk, decisions, now,
    leads, file, submission, answered, kept, clean, stops,
    cache, echo, slot, fetching, page, minted, minute, torn,
    loop, lake, mirror,
    pc, dns, todo, conn, left, received, status, reply

Sessions == INSTANCE OperatorSessions WITH Threads <- Callers

\* Each submission is handled by a thread of its own.
Consent == INSTANCE ConsentCapture WITH
    MaxRestarts <- MaxStops, req <- submission, restarts <- stops

Boards == INSTANCE PublicBoards WITH
    Threads <- Callers, MaxReceipts <- MaxMinted,
    th <- fetching, answer <- page, now <- minute

Work == INSTANCE WorkLoop WITH Requests <- Callers

Webhook == INSTANCE CrmWebhook WITH answer <- reply

sessionVars == <<sessions, owner, gone, req, desk, decisions, now>>
consentVars == <<leads, file, submission, answered, kept, clean, stops>>
boardVars   == <<cache, echo, slot, fetching, page, minted, minute, torn>>
loopVars    == <<loop, lake, mirror>>
hookVars    == <<pc, dns, todo, conn, left, received, status, reply>>

-----------------------------------------------------------------------------
\* No write is put under another operator's name, whatever sessions come and go
\* while the request runs; a request that begins after a logout was answered writes
\* nothing on the desk, and one that got its scope's lock after it nothing in the
\* workflow (_operator_actor, load_operator_context).
SessionsAreHonoured == Sessions!SessionsAreHonoured

\* A consent acknowledged since the process started is listed, whatever other
\* submissions, failed writes and restarts do; those written one at a time, by
\* writes that neither fail nor are cut off, are on file after any restart
\* (post_optin, _save_optin).
ConsentsAreKept == Consent!ConsentsAreKept

\* Requests that trim at once can kill each other with a KeyError, yet once none is
\* trimming both dictionaries are within bounds, but for boards of which an expired
\* one was dropped under the trimming; their keys are distinct, and whoever holds the
\* slot is collecting a frontier board (_store_public_receipt, _cache_public_board).
CachesAreBoundedAtRest == Boards!PublicTypeOK /\ Boards!CachesAreBoundedAtRest

\* A request nobody overlapped is never failed by the caches, and the board it just
\* fetched shows only receipts that /api/verify then finds; and no anonymous board
\* shows an ECHO record later than one board TTL after its snapshot stopped being
\* fresh (_store_public_receipt, _cache_public_board, fetch_echo).
BoardsAnswerTruly == Boards!AloneRequestsVerify /\ Boards!CachedEchoIsRecent

\* The lake holds, in order, exactly the receipts of the steps and ends of loops
\* that ran, however requests interleave; a loop says it converged, or ran out of
\* budget, only when it did; and a limited query returns the newest end of the
\* unlimited one (run_loop, receipt_lake.append).
LoopsAreOnRecord == Work!LoopsAreOnRecord

\* The CRM gets the leads at most once, whichever addresses failed before, and only
\* at a validated address; "sent" is said only of a request it took and accepted
\* (webhook_test).
WebhookIsHonest == Webhook!WebhookIsHonest
=============================================================================
