---------------------------- MODULE PublicBoards ----------------------------
(***************************************************************************)
(* The anonymous, read-only boards of src/app/server.py: two process-wide  *)
(* dictionaries - rendered boards and the receipts behind them - that      *)
(* request threads fill and trim without a lock, the semaphore that admits *)
(* one live refresh at a time, and the verified ECHO selection that        *)
(* src/app/frontier_sources.py keeps in a cache of its own.                *)
(*                                                                         *)
(* A dictionary is the sequence of its entries in insertion order.  The    *)
(* eviction loop of both is one loop here, over the dictionary a thread is *)
(* trimming; its three reads and its pop are steps of their own, because   *)
(* another request may run between them.                                   *)
(***************************************************************************)
EXTENDS Naturals, Sequences, FiniteSets, SequencesExt

CONSTANTS
    Threads,      \* threads of the request pool
    FrontierKeys, \* frontier-desk queries (limit and states), admitted one at a time
    DealKeys,     \* deal-desk queries, not limited
    ProofLimit,   \* _PUBLIC_RECEIPT_LIMIT
    BoardLimit,   \* _PUBLIC_BOARD_CACHE_LIMIT
    BoardTTL,     \* _PUBLIC_BOARD_CACHE_TTL_SECONDS
    EchoTTL,      \* the 15 minutes of fetch_echo
    FreshUntil,   \* when the installed ECHO snapshot passes FRESHNESS_DAYS
    MaxTime,      \* bound on the clock
    MaxReceipts   \* bound on the receipts minted

Keys == FrontierKeys \cup DealKeys
Free == "free"    \* the slot, when nobody has it
PerBoard == 2     \* receipts a board of the instance carries at most

BoardsAssumption ==
    /\ FrontierKeys \cap DealKeys = {} /\ Free \notin Threads
    /\ ProofLimit \in Nat /\ ProofLimit >= PerBoard
    /\ BoardLimit \in Nat /\ BoardLimit > 0
    /\ BoardTTL \in Nat /\ EchoTTL \in Nat /\ FreshUntil \in Nat
    /\ MaxTime \in Nat /\ MaxReceipts \in Nat

VARIABLES
    cache,   \* _PUBLIC_RECEIPTS ("proofs") and _PUBLIC_BOARD_CACHE ("boards")
    echo,    \* _ECHO_CACHE: until when, and the receipt of its record
    slot,    \* who holds _PUBLIC_FRONTIER_LIMITER
    th,      \* what each request thread is doing
    answer,  \* the last answer each thread gave
    minted,  \* receipts minted so far
    now,
    torn     \* an expired board was dropped while boards were trimmed, and no
             \* trimming of them has finished since (a history variable)

vars == <<cache, echo, slot, th, answer, minted, now, torn>>

Limit == [proofs |-> ProofLimit, boards |-> BoardLimit]

KeyOf(c, e) == IF c = "proofs" THEN e ELSE e.key
NoEcho   == [until |-> 0, id |-> 0]
NoAnswer == [result |-> "none", ids |-> {}, echo |-> FALSE]
Idle     == [pc |-> "idle", key |-> "none", todo |-> <<>>, ids |-> {}, echo |-> FALSE,
             table |-> "proofs", size |-> 0, victim |-> {}, alone |-> FALSE]

Init ==
    /\ cache = [proofs |-> <<>>, boards |-> <<>>]
    /\ echo = NoEcho
    /\ slot = Free
    /\ th = [t \in Threads |-> Idle]
    /\ answer = [t \in Threads |-> NoAnswer]
    /\ minted = 0
    /\ now = 0 /\ torn = FALSE

At(t, pc) == th[t].pc = pc
Goto(t, pc) == th' = [th EXCEPT ![t].pc = pc]

\* The request of t ends with this result.
Answer(t, result, ids, withEcho) ==
    /\ answer' = [answer EXCEPT ![t] =
                    [result |-> result, ids |-> ids, echo |-> withEcho]]
    /\ th' = [th EXCEPT ![t] = Idle]

Cached(k) == {e \in ToSet(cache.boards) : e.key = k}

\* dict[key] = entry: a key that is there keeps its place.
Put(c, e) ==
    IF \E i \in DOMAIN cache[c] : KeyOf(c, cache[c][i]) = KeyOf(c, e)
    THEN [i \in DOMAIN cache[c] |->
            IF KeyOf(c, cache[c][i]) = KeyOf(c, e) THEN e ELSE cache[c][i]]
    ELSE Append(cache[c], e)

\* dict.pop(key, None), the key being the element of ks.
Without(c, ks) ==
    LET at == {i \in DOMAIN cache[c] : KeyOf(c, cache[c][i]) \in ks}
    IN  IF at = {} THEN cache[c] ELSE RemoveAt(cache[c], CHOOSE i \in at : TRUE)

\* t is in the eviction loop of the dictionary.
Trims(t, c) == th[t].pc \in {"trimming", "iterating", "evicting"} /\ th[t].table = c

(***************************************************************************)
(* A request: the cached board, the slot, the sources.                     *)
(***************************************************************************)
Ask(t, k) ==
    /\ At(t, "idle")
    /\ LET alone == \A u \in Threads \ {t} : At(u, "idle")
       IN  th' = [u \in Threads |->
                    IF u # t THEN [th[u] EXCEPT !.alone = FALSE]
                    ELSE [Idle EXCEPT !.pc = "looking", !.key = k, !.alone = alone]]
    /\ answer' = [answer EXCEPT ![t] = NoAnswer]
    /\ UNCHANGED <<cache, echo, slot, minted, now, torn>>

\* _cached_public_board, when it has the board and it has not expired.
Hit(t) ==
    /\ At(t, "looking")
    /\ \E e \in Cached(th[t].key) :
         /\ e.until > now
         /\ Answer(t, "cached", e.ids, e.echo)
    /\ UNCHANGED <<cache, echo, slot, minted, now, torn>>

Miss(t) ==
    /\ At(t, "looking")
    /\ \A e \in Cached(th[t].key) : e.until <= now
    /\ Goto(t, IF Cached(th[t].key) = {} THEN "admitting" ELSE "dropping")
    /\ UNCHANGED <<cache, echo, slot, answer, minted, now, torn>>

\* The expired board is popped; by then the entry may be a newer one.
DropExpired(t) ==
    /\ At(t, "dropping")
    /\ cache' = [cache EXCEPT !.boards = Without("boards", {th[t].key})]
    /\ torn' = (torn \/ \E u \in Threads : Trims(u, "boards"))
    /\ Goto(t, "admitting")
    /\ UNCHANGED <<echo, slot, answer, minted, now>>

Admit(t) ==
    /\ At(t, "admitting")
    /\ th[t].key \in FrontierKeys => slot = Free
    /\ slot' = IF th[t].key \in FrontierKeys THEN t ELSE slot
    /\ Goto(t, "collecting")
    /\ UNCHANGED <<cache, echo, answer, minted, now, torn>>

\* acquire(blocking=False) returns false: 429.
RefuseBusy(t) ==
    /\ At(t, "admitting")
    /\ th[t].key \in FrontierKeys /\ slot # Free
    /\ Answer(t, "busy", {}, FALSE)
    /\ UNCHANGED <<cache, echo, slot, minted, now, torn>>

Released(t) == IF slot = t THEN Free ELSE slot

\* Mutated form: the ECHO cache keeps its selection for its whole TTL.
EchoForItsTTL(id) ==
    IF id = 0 THEN echo
    ELSE [until |-> now + EchoTTL, id |-> id]

\* fetch_echo caches what it loaded for 15 minutes, and never past the
\* freshness of the snapshot.
EchoCached(id) ==
    LET until == IF now + EchoTTL < FreshUntil THEN now + EchoTTL ELSE FreshUntil
    IN  IF id # 0 /\ until > now THEN [until |-> until, id |-> id] ELSE echo

Collected(t, ids, echoId) ==
    th' = [th EXCEPT ![t].pc = "storing", ![t].todo = ids, ![t].ids = ToSet(ids),
                     ![t].echo = echoId # 0]

\* _fetch_scheduled_lane: a verified lane binds fresh receipts, or the source
\* is unavailable.
LaneFetched(up) == IF up THEN <<minted + 1>> ELSE <<>>

\* fetch_echo: the selection in its cache with the receipts it has, or one
\* loaded from a snapshot that is still fresh; no id when unavailable.
EchoLoads(up) == echo.until <= now /\ up /\ now < FreshUntil

EchoFetched(up, next) ==
    IF echo.until > now THEN echo.id ELSE IF EchoLoads(up) THEN next ELSE 0

\* frontier_opportunities: every source answers or not, on its own.
CollectFrontier(t) ==
    /\ At(t, "collecting")
    /\ th[t].key \in FrontierKeys
    /\ \E laneUp, echoUp \in BOOLEAN :
         LET lane   == LaneFetched(laneUp)
             echoId == EchoFetched(echoUp, minted + Len(lane) + 1)
         IN  /\ minted' = minted + Len(lane) + (IF EchoLoads(echoUp) THEN 1 ELSE 0)
             /\ echo' = IF EchoLoads(echoUp) THEN EchoCached(echoId) ELSE echo
             /\ Collected(t, lane \o (IF echoId = 0 THEN <<>> ELSE <<echoId>>), echoId)
    /\ minted' <= MaxReceipts
    /\ slot' = Released(t)
    /\ UNCHANGED <<cache, answer, now, torn>>

CollectDeals(t) ==
    /\ At(t, "collecting")
    /\ th[t].key \in DealKeys
    /\ \E n \in 0 .. PerBoard :
         /\ minted' = minted + n
         /\ Collected(t, [i \in 1 .. n |-> minted + i], 0)
    /\ minted' <= MaxReceipts
    /\ UNCHANGED <<cache, echo, slot, answer, now, torn>>

\* Mutated form: the slot is released only after a successful refresh.
CollectFailsHolding(t) ==
    /\ At(t, "collecting")
    /\ Answer(t, "sources", {}, FALSE)
    /\ UNCHANGED <<cache, echo, slot, minted, now, torn>>

\* The sources raise, or answer with example data: 503, the slot released.
CollectFails(t) ==
    /\ At(t, "collecting")
    /\ Answer(t, "sources", {}, FALSE)
    /\ slot' = Released(t)
    /\ UNCHANGED <<cache, echo, minted, now, torn>>

(***************************************************************************)
(* _store_public_receipt for every record, then _cache_public_board: an    *)
(* insertion and the eviction loop.                                        *)
(***************************************************************************)
InsertReceipt(t) ==
    /\ At(t, "storing")
    /\ th[t].todo # <<>>
    /\ cache' = [cache EXCEPT !.proofs = Put("proofs", Head(th[t].todo))]
    /\ th' = [th EXCEPT ![t].todo = Tail(@), ![t].pc = "trimming", ![t].table = "proofs"]
    /\ UNCHANGED <<echo, slot, answer, minted, now, torn>>

InsertBoard(t) ==
    /\ At(t, "storing")
    /\ th[t].todo = <<>>
    /\ cache' = [cache EXCEPT !.boards =
                   Put("boards", [key |-> th[t].key, until |-> now + BoardTTL,
                                  ids |-> th[t].ids, echo |-> th[t].echo])]
    /\ th' = [th EXCEPT ![t].pc = "trimming", ![t].table = "boards"]
    /\ UNCHANGED <<echo, slot, answer, minted, now, torn>>

\* while len(d) > limit: iter(d)
TrimMore(t) ==
    /\ At(t, "trimming")
    /\ Len(cache[th[t].table]) > Limit[th[t].table]
    /\ th' = [th EXCEPT ![t].pc = "iterating", ![t].size = Len(cache[th[t].table])]
    /\ UNCHANGED <<cache, echo, slot, answer, minted, now, torn>>

TrimDone(t) ==
    /\ At(t, "trimming")
    /\ Len(cache[th[t].table]) <= Limit[th[t].table]
    /\ IF th[t].table = "boards"
       THEN Answer(t, "fresh", th[t].ids, th[t].echo) /\ torn' = FALSE
       ELSE Goto(t, "storing") /\ UNCHANGED <<answer, torn>>
    /\ UNCHANGED <<cache, echo, slot, minted, now>>

\* Mutated form: the newest entry is evicted.
VictimIsLast(t) == Last(cache[th[t].table])

Victim(t) == Head(cache[th[t].table])

\* next(iter(d)): the oldest key.
PeekOldest(t) ==
    /\ At(t, "iterating")
    /\ Len(cache[th[t].table]) = th[t].size
    /\ th' = [th EXCEPT ![t].pc = "evicting", ![t].victim = {KeyOf(th[t].table, Victim(t))}]
    /\ UNCHANGED <<cache, echo, slot, answer, minted, now, torn>>

\* The dictionary changed size between iter() and next(): RuntimeError.
PeekFails(t) ==
    /\ At(t, "iterating")
    /\ Len(cache[th[t].table]) # th[t].size
    /\ Answer(t, "error", {}, FALSE)
    /\ UNCHANGED <<cache, echo, slot, minted, now, torn>>

Holds(t) == \E e \in ToSet(cache[th[t].table]) : KeyOf(th[t].table, e) \in th[t].victim

\* Mutated form: one entry is evicted, without looking at the size again.
EvictOnce(t) ==
    /\ At(t, "evicting") /\ Holds(t)
    /\ cache' = [cache EXCEPT ![th[t].table] = Without(th[t].table, th[t].victim)]
    /\ IF th[t].table = "boards"
       THEN Answer(t, "fresh", th[t].ids, th[t].echo) /\ torn' = FALSE
       ELSE Goto(t, "storing") /\ UNCHANGED <<answer, torn>>
    /\ UNCHANGED <<echo, slot, minted, now>>

Evict(t) ==
    /\ At(t, "evicting") /\ Holds(t)
    /\ cache' = [cache EXCEPT ![th[t].table] = Without(th[t].table, th[t].victim)]
    /\ Goto(t, "trimming")
    /\ UNCHANGED <<echo, slot, answer, minted, now, torn>>

\* Another thread popped the key first: KeyError.
EvictFails(t) ==
    /\ At(t, "evicting") /\ ~Holds(t)
    /\ Answer(t, "error", {}, FALSE)
    /\ UNCHANGED <<cache, echo, slot, minted, now, torn>>

\* A tick is minutes: it falls between requests or while sources are asked,
\* not within the memory work that stores a board.
Tick ==
    /\ now < MaxTime
    /\ \A t \in Threads : th[t].pc \notin {"storing", "trimming", "iterating", "evicting"}
    /\ now' = now + 1
    /\ UNCHANGED <<cache, echo, slot, th, answer, minted, torn>>

Work(t) ==
    \/ Hit(t) \/ Miss(t) \/ DropExpired(t) \/ Admit(t) \/ RefuseBusy(t)
    \/ CollectFrontier(t) \/ CollectDeals(t) \/ CollectFails(t)
    \/ InsertReceipt(t) \/ InsertBoard(t) \/ TrimMore(t) \/ TrimDone(t)
    \/ PeekOldest(t) \/ PeekFails(t) \/ Evict(t) \/ EvictFails(t)

Next ==
    \/ \E t \in Threads, k \in Keys : Ask(t, k)
    \/ \E t \in Threads : Work(t)
    \/ Tick

Spec == Init /\ [][Next]_vars /\ \A t \in Threads : WF_vars(Work(t))

-----------------------------------------------------------------------------
(***************************************************************************)
(* Properties.                                                             *)
(***************************************************************************)
\* The type of the state: entries of a dictionary have distinct keys, and
\* who holds the slot is collecting a frontier board.
PublicTypeOK ==
    /\ \A c \in {"proofs", "boards"} : \A i, j \in DOMAIN cache[c] :
         KeyOf(c, cache[c][i]) = KeyOf(c, cache[c][j]) => i = j
    /\ \A t \in Threads :
         slot = t <=> At(t, "collecting") /\ th[t].key \in FrontierKeys

\* "Keep a bounded proof cache" (server._store_public_receipt): requests that
\* trim at once can kill each other with a KeyError, yet once none is trimming
\* the dictionary is within its bound.  The same of boards, unless an expired
\* board was dropped under the trimming: that can kill all who trim, and then
\* the next who trims to the end restores the bound.
CachesAreBoundedAtRest ==
    /\ (\A t \in Threads : ~Trims(t, "proofs")) => Len(cache.proofs) <= ProofLimit
    /\ (\A t \in Threads : ~Trims(t, "boards")) /\ ~torn => Len(cache.boards) <= BoardLimit

Ends(t) == th[t].pc # "idle" /\ th'[t].pc = "idle"

\* A request nobody overlapped is never failed by the caches, and the board
\* it just fetched shows only receipts that /api/verify then finds.
AloneRequestsVerify ==
    [][\A t \in Threads :
         Ends(t) /\ th[t].alone
           => /\ answer'[t].result # "error"
              /\ answer'[t].result = "fresh"
                   => answer'[t].ids \subseteq ToSet(cache'.proofs)]_vars

\* Two caches and a freshness limit: no anonymous board shows an ECHO
\* record later than one board TTL after its snapshot stopped being fresh.
CachedEchoIsRecent ==
    [][\A t \in Threads :
         Ends(t) /\ answer'[t].result = "cached" /\ answer'[t].echo
           => now < FreshUntil + BoardTTL]_vars

\* The slot of a live refresh is released however the refresh ends, so
\* anonymous callers are not turned away for ever.
SlotIsFreed == \A t \in Threads : (slot = t) ~> (slot # t)

=============================================================================
