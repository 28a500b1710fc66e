------------------------------- MODULE MCServer -------------------------------
(***************************************************************************)
(* What the threads of the server share, for TLC: the receipt chain, and   *)
(* the parts of the module Server.  `part` says which of them a behaviour  *)
(* is about, and the others rest in their initial state.                   *)
(***************************************************************************)
EXTENDS MCReceiptChain, Server

CONSTANTS frontier, deal

VARIABLE part

\* Scores that fall fast, and slowly until they do not fall at all.
MCCurves == {<<4, 3, 3>>, <<4, 2, 0>>}

\* Budgets below, at and above one step; thresholds on both sides of none.
MCBudgets == {0, 1, 3}
MCThresholds == -1 .. 1

\* Two public addresses and a private one between them.
MCRank == [x \in {"a", "p", "z"} |-> CASE x = "a" -> 1 [] x = "p" -> 2 [] OTHER -> 3]

\* One query of each kind, and boards that last.
Refreshes == INSTANCE PublicBoards WITH
    Threads <- Callers, DealKeys <- {deal}, MaxReceipts <- MaxMinted,
    th <- fetching, answer <- page, now <- minute

\* One query at a time is cached here, but more receipts come than there is room for.
Overflow == INSTANCE PublicBoards WITH
    Threads <- Callers, FrontierKeys <- {}, DealKeys <- {deal}, MaxReceipts <- 5,
    th <- fetching, answer <- page, now <- minute

\* Three queries, whose boards expire at once: one is dropped while another is stored.
Drops == INSTANCE PublicBoards WITH
    Threads <- Callers, FrontierKeys <- {}, BoardTTL <- 0, MaxTime <- 0, MaxReceipts <- 0,
    th <- fetching, answer <- page, now <- minute

\* One frontier query while its ECHO snapshot stops being fresh.
Ageing == INSTANCE PublicBoards WITH
    Threads <- Callers, DealKeys <- {}, MaxTime <- 2, MaxReceipts <- 1,
    th <- fetching, answer <- page, now <- minute

ASSUME /\ Refreshes!BoardsAssumption /\ Overflow!BoardsAssumption /\ Drops!BoardsAssumption /\ Ageing!BoardsAssumption
       /\ Sessions!SessionAssumption /\ Consent!ConsentAssumption /\ Boards!BoardsAssumption
       /\ Work!WorkAssumption /\ Webhook!WebhookAssumption

Parts == {"receipts", "boards", "overflow", "drops", "ageing", "sessions", "consent", "loops", "webhook"}

ServerInit ==
    /\ part \in Parts
    /\ Init /\ Boards!Init /\ Sessions!Init /\ Consent!Init /\ Work!Init /\ Webhook!Init
    /\ part = "webhook" \/ dns = {}

BoardsNext ==
    \/ part = "boards" /\ Refreshes!Next
    \/ part = "overflow" /\ Overflow!Next
    \/ part = "drops" /\ Drops!Next
    \/ part = "ageing" /\ Ageing!Next

ServerNext ==
  /\ UNCHANGED part
  /\ \/ /\ part = "receipts" /\ Next
        /\ UNCHANGED <<boardVars, sessionVars, consentVars, loopVars, hookVars>>
     \/ /\ BoardsNext
        /\ UNCHANGED <<vars, sessionVars, consentVars, loopVars, hookVars>>
     \/ /\ part = "sessions" /\ Sessions!Next
        /\ UNCHANGED <<vars, boardVars, consentVars, loopVars, hookVars>>
     \/ /\ part = "consent" /\ Consent!Next
        /\ UNCHANGED <<vars, boardVars, sessionVars, loopVars, hookVars>>
     \/ /\ part = "loops" /\ Work!Next
        /\ UNCHANGED <<vars, boardVars, sessionVars, consentVars, hookVars>>
     \/ /\ part = "webhook" /\ Webhook!Next
        /\ UNCHANGED <<vars, boardVars, sessionVars, consentVars, loopVars>>

ServerSpec ==
    ServerInit
    /\ [][ServerNext]_<<part, vars, boardVars, sessionVars, consentVars, loopVars, hookVars>>
=============================================================================
