---------------------------- MODULE ConsentCapture ----------------------------
(***************************************************************************)
(* POST /api/optin (src/app/server.py): a submitted consent is put in the  *)
(* process's list and the whole list is written over the file named by     *)
(* SZL_OPTIN_PATH, by every request thread for itself: open truncates,     *)
(* the list is serialised, the bytes go to the start of the file when it   *)
(* is closed.  Write errors are swallowed.  A start reads the file back    *)
(* and ignores one it cannot parse.                                        *)
(***************************************************************************)
EXTENDS Naturals, Sequences, FiniteSets, SequencesExt

CONSTANTS
    Consents,     \* submissions, each made once, by a thread of its own
    FileErrors,   \* may a write fail?
    MaxRestarts   \* bound on restarts

ConsentAssumption == FileErrors \in BOOLEAN /\ MaxRestarts \in Nat

VARIABLES
    leads,     \* _OPTIN_LEADS
    file,      \* the file: the list it holds, its length, does it parse?
    req,       \* what each submission's request is doing
    answered,  \* submissions told that their consent was recorded
    kept,      \* ... since the process started
    clean,     \* no two requests wrote at once, none failed or was cut off
    restarts

vars == <<leads, file, req, answered, kept, clean, restarts>>

Truncated == [items |-> <<>>, len |-> 0, ok |-> FALSE]
Missing   == [items |-> <<>>, len |-> 0, ok |-> TRUE]

Idle == [pc |-> "idle", bytes |-> <<>>]

Init ==
    /\ leads = <<>> /\ file = Missing
    /\ req = [c \in Consents |-> Idle]
    /\ answered = {} /\ kept = {} /\ clean = TRUE /\ restarts = 0

Goto(c, pc) == req' = [req EXCEPT ![c].pc = pc]
Writing == {c \in Consents : req[c].pc \in {"serialise", "close"}}

\* Mutated form: a copy of the list is extended and put back.
ListedOverNewest(c) == IF leads = <<>> THEN <<c>> ELSE Append(Front(leads), c)

Listed(c) == Append(leads, c)

\* A named, consenting submission, with its receipt.
Submit(c) ==
    /\ req[c].pc = "idle" /\ c \notin answered
    /\ leads' = Listed(c)
    /\ Goto(c, "open")
    /\ UNCHANGED <<file, answered, kept, clean, restarts>>

Open(c) ==
    /\ req[c].pc = "open"
    /\ \/ /\ file' = Truncated /\ clean' = (clean /\ Writing = {})
          /\ Goto(c, "serialise")
       \/ /\ FileErrors
          /\ clean' = FALSE /\ UNCHANGED file
          /\ Goto(c, "answer")
    /\ UNCHANGED <<leads, answered, kept, restarts>>

\* Mutated form: only what is new is serialised.
SerialisedNew(c) == <<c>>

Serialised(c) == leads

Serialise(c) ==
    /\ req[c].pc = "serialise"
    /\ req' = [req EXCEPT ![c] = [pc |-> "close", bytes |-> Serialised(c)]]
    /\ UNCHANGED <<leads, file, answered, kept, clean, restarts>>

\* The bytes overwrite what another thread put there since the truncation;
\* a shorter list leaves the tail of a longer one behind it.
Written(bytes) ==
    IF Len(bytes) >= file.len THEN [items |-> bytes, len |-> Len(bytes), ok |-> TRUE]
    ELSE [file EXCEPT !.ok = FALSE]

Close(c) ==
    /\ req[c].pc = "close"
    /\ \/ file' = Written(req[c].bytes) /\ UNCHANGED clean
       \/ FileErrors /\ clean' = FALSE /\ UNCHANGED file
    /\ Goto(c, "answer")
    /\ UNCHANGED <<leads, answered, kept, restarts>>

Answer(c) ==
    /\ req[c].pc = "answer"
    /\ answered' = answered \cup {c} /\ kept' = kept \cup {c}
    /\ Goto(c, "idle")
    /\ UNCHANGED <<leads, file, clean, restarts>>

\* _load_optin.
Loaded == IF file.ok THEN file.items ELSE <<>>

\* The process stops anywhere and starts again; a cut-off submission may be
\* made once more.
Restart ==
    /\ restarts < MaxRestarts
    /\ leads' = Loaded
    /\ req' = [c \in Consents |-> Idle]
    /\ kept' = {} /\ restarts' = restarts + 1
    /\ clean' = (clean /\ Writing = {})
    /\ UNCHANGED <<file, answered>>

Next == Restart \/ \E c \in Consents : Submit(c) \/ Open(c) \/ Serialise(c) \/ Close(c) \/ Answer(c)

Spec == Init /\ [][Next]_vars

-----------------------------------------------------------------------------
(***************************************************************************)
(* Properties.                                                             *)
(***************************************************************************)
\* While the process lives, GET /api/optin/leads lists every consent it has
\* acknowledged, however the submissions overlap and whatever fails.
AcknowledgedAreListed == \A c \in kept : c \in ToSet(leads)

\* As long as no two submissions wrote at once, no write failed and no stop
\* cut one off, every acknowledged consent outlives a restart.
UndisturbedConsentsAreDurable ==
    clean /\ Writing = {} => \A c \in answered : c \in ToSet(Loaded)

\* No acknowledged consent is lost (optin, _persist_optin).
ConsentsAreKept == AcknowledgedAreListed /\ UndisturbedConsentsAreDurable

=============================================================================
