---------------------------- MODULE ReceiptChain ----------------------------
(***************************************************************************)
(* The receipts a server process mints (src/app/receipts.py), witnessed    *)
(* by the four organs (src/app/consensus.py), and the request threads that *)
(* mint them (src/app/server.py, src/app/frontier_sources.py).             *)
(*                                                                         *)
(* A receipt is identified with the hash of its payload: its index in      *)
(* built.  FastAPI runs each handler in a thread of a pool, so the steps   *)
(* of make_receipt - read the tip, build and sign, witness, advance the    *)
(* tip - interleave with those of other requests; only the public-source   *)
(* collectors hold a lock around them.                                     *)
(***************************************************************************)
EXTENDS Naturals, Sequences, FiniteSets

CONSTANTS
    Threads,       \* threads of the request pool
    Kinds,         \* the surfaces that mint: subset of Surfaces
    SigningKey,    \* SZL_COSIGN_PRIVATE_PEM is set
    VerifyingKey,  \* SZL_COSIGN_PUBLIC_PEM is set
    MaxReceipts,   \* bound on the receipts built
    MaxRestarts    \* bound on the restarts of the process

Surfaces == {"source", "ask", "pulse", "optin", "board"}
Nobody   == "nobody"

ASSUME ReceiptAssumption ==
    /\ Kinds \subseteq Surfaces /\ Nobody \notin Threads
    /\ SigningKey \in BOOLEAN /\ VerifyingKey \in BOOLEAN
    /\ MaxReceipts \in Nat /\ MaxRestarts \in Nat

VARIABLES
    built,     \* every payload whose hash was computed, in that order
    issued,    \* the receipts make_receipt returned
    stored,    \* the receipts a handler put in _STATE["receipts"]
    tip,       \* _chain_tip["hash"]
    keys,      \* _WITNESS_KEYS, as the number of their generation
    lock,      \* the holder of _RECEIPT_LOCK
    th,        \* what each request thread is doing
    restarts

vars == <<built, issued, stored, tip, keys, lock, th, restarts>>

Genesis  == 0
NoKeys   == 0
Organs   == {"a11oy", "sentra", "killinchu", "amaru"}
Threshold == 3

Permitted == {"PUBLIC", "FIRST_PARTY_CONSENT", "INTERNAL_OPERATIONAL"}

Idle == [pc |-> "idle", kind |-> "ask", id |-> 0, keys |-> NoKeys]

Init ==
    /\ built = <<>> /\ issued = {} /\ stored = {}
    /\ tip = Genesis /\ keys = NoKeys /\ lock = Nobody
    /\ th = [t \in Threads |-> Idle]
    /\ restarts = 0

At(t, pc) == th[t].pc = pc
Goto(t, pc) == th' = [th EXCEPT ![t].pc = pc]

(***************************************************************************)
(* The payload: the signal a surface passes carries public, and for a      *)
(* consent the class FIRST_PARTY_CONSENT; without a class a signal is      *)
(* PUBLIC when it says so and UNCLASSIFIED otherwise.                      *)
(***************************************************************************)
Signal(k) == [public |-> k # "optin",
              class  |-> CASE k = "optin"  -> "FIRST_PARTY_CONSENT"
                           [] k = "source" -> "PUBLIC"
                           [] OTHER        -> ""]

\* Mutated form: the declared class is dropped, only the public flag counts.
SourceClassFromFlag(s) == IF s.public THEN "PUBLIC" ELSE "UNCLASSIFIED"

SourceClass(s) ==
    IF s.class # "" THEN s.class
    ELSE IF s.public THEN "PUBLIC" ELSE "UNCLASSIFIED"

Payload(k, signed) ==
    [kind |-> k, prev |-> tip, class |-> SourceClass(Signal(k)),
     permitted |-> SourceClass(Signal(k)) \in Permitted,
     signed |-> signed, witnesses |-> 0, witnessed |-> FALSE]

(***************************************************************************)
(* verify_receipt: the verdict on an unaltered receipt, and the state of   *)
(* its link when a predecessor is supplied.                                *)
(***************************************************************************)
Verdict(r) ==
    IF ~r.permitted \/ (r.signed /\ ~VerifyingKey) THEN "FAILED"
    ELSE IF r.signed THEN "SIGNATURE_VERIFIED"
    ELSE "HASH_INTEGRITY_VERIFIED"

ChainState(r, previous) ==
    IF r.prev = Genesis THEN "GENESIS_DECLARED"
    ELSE IF previous = {} THEN "UNVERIFIED_PREDECESSOR"
    ELSE IF r.prev \in previous THEN "VERIFIED" ELSE "FAILED"

(***************************************************************************)
(* Requests.                                                               *)
(***************************************************************************)
\* Mutated form: the public-source collectors mint without their lock.
ArriveUnlocked(t, k) ==
    /\ At(t, "idle")
    /\ Len(built) + Cardinality({u \in Threads : th[u].pc \in {"reset", "locking", "building"}})
         < MaxReceipts
    /\ th' = [th EXCEPT ![t] = [Idle EXCEPT !.kind = k,
                !.pc = IF k = "pulse" THEN "reset" ELSE "building"]]
    /\ UNCHANGED <<built, issued, stored, tip, keys, lock, restarts>>

\* A request reaches the point where it mints: the pulse resets the chain
\* first, a public-source record is minted under _RECEIPT_LOCK.
Arrive(t, k) ==
    /\ At(t, "idle")
    /\ Len(built) + Cardinality({u \in Threads : th[u].pc \in {"reset", "locking", "building"}})
         < MaxReceipts
    /\ th' = [th EXCEPT ![t] = [Idle EXCEPT !.kind = k,
                !.pc = CASE k = "pulse"  -> "reset"
                         [] k = "source" -> "locking"
                         [] OTHER        -> "building"]]
    /\ UNCHANGED <<built, issued, stored, tip, keys, lock, restarts>>

ResetChain(t) ==
    /\ At(t, "reset")
    /\ tip' = Genesis
    /\ Goto(t, "building")
    /\ UNCHANGED <<built, issued, stored, keys, lock, restarts>>

TakeLock(t) ==
    /\ At(t, "locking")
    /\ lock = Nobody
    /\ lock' = t
    /\ Goto(t, "building")
    /\ UNCHANGED <<built, issued, stored, tip, keys, restarts>>

\* Mutated form: the tip moves to a receipt that is still to be witnessed.
BuildAdvances(t) ==
    /\ At(t, "building")
    /\ \E signed \in IF SigningKey THEN BOOLEAN ELSE {FALSE} :
         built' = Append(built, Payload(th[t].kind, signed))
    /\ tip' = Len(built')
    /\ th' = [th EXCEPT ![t].pc = "witnessing", ![t].id = Len(built')]
    /\ UNCHANGED <<issued, stored, keys, lock, restarts>>

\* The payload is built on the tip, hashed and signed; signing may fail.
Build(t) ==
    /\ At(t, "building")
    /\ \E signed \in IF SigningKey THEN BOOLEAN ELSE {FALSE} :
         built' = Append(built, Payload(th[t].kind, signed))
    /\ th' = [th EXCEPT ![t].pc = "witnessing", ![t].id = Len(built')]
    /\ UNCHANGED <<issued, stored, tip, keys, lock, restarts>>

(***************************************************************************)
(* The witnesses: keys are generated once per process, unless two threads  *)
(* both find none.  Every thread signs and tallies with the keys it got.   *)
(***************************************************************************)
\* Mutated form: the tally reads the keys the process holds by then.
TallyKeysByGlobal(t) == keys

TallyKeys(t) == th[t].keys

Tally(t) == Cardinality({o \in Organs : th[t].keys = TallyKeys(t)})

ReadKeys(t) ==
    /\ At(t, "witnessing")
    /\ th' = [th EXCEPT ![t].keys = keys,
                        ![t].pc = IF keys = NoKeys THEN "generating" ELSE "signing"]
    /\ UNCHANGED <<built, issued, stored, tip, keys, lock, restarts>>

\* The generation is numbered by the receipt it is first used for.
GenerateKeys(t) ==
    /\ At(t, "generating")
    /\ keys' = th[t].id
    /\ th' = [th EXCEPT ![t].keys = th[t].id, ![t].pc = "signing"]
    /\ UNCHANGED <<built, issued, stored, tip, lock, restarts>>

WitnessEvent(t) ==
    /\ At(t, "signing")
    /\ built' = [built EXCEPT ![th[t].id].witnesses = Tally(t),
                              ![th[t].id].witnessed = TRUE]
    /\ Goto(t, "advancing")
    /\ UNCHANGED <<issued, stored, tip, keys, lock, restarts>>

\* _witness swallows every exception: the receipt has no consensus block.
WitnessFails(t) ==
    /\ th[t].pc \in {"witnessing", "generating", "signing"}
    /\ Goto(t, "advancing")
    /\ UNCHANGED <<built, issued, stored, tip, keys, lock, restarts>>

Advance(t) ==
    /\ At(t, "advancing")
    /\ tip' = th[t].id
    /\ issued' = issued \cup {th[t].id}
    /\ lock' = IF lock = t THEN Nobody ELSE lock
    /\ Goto(t, "storing")
    /\ UNCHANGED <<built, stored, keys, restarts>>

Store(t) ==
    /\ At(t, "storing")
    /\ stored' = stored \cup {th[t].id}
    /\ th' = [th EXCEPT ![t] = Idle]
    /\ UNCHANGED <<built, issued, tip, keys, lock, restarts>>

\* The process restarts: the tip, the keys and the receipts are its memory.
Restart ==
    /\ restarts < MaxRestarts
    /\ restarts' = restarts + 1
    /\ tip' = Genesis /\ keys' = NoKeys /\ lock' = Nobody /\ stored' = {}
    /\ th' = [t \in Threads |-> Idle]
    /\ UNCHANGED <<built, issued>>

Step(t) ==
    \/ ResetChain(t) \/ TakeLock(t) \/ Build(t)
    \/ ReadKeys(t) \/ GenerateKeys(t) \/ WitnessEvent(t) \/ WitnessFails(t)
    \/ Advance(t) \/ Store(t)

Next ==
    \/ \E t \in Threads, k \in Kinds : Arrive(t, k)
    \/ \E t \in Threads : Step(t)
    \/ Restart

Spec == Init /\ [][Next]_vars

-----------------------------------------------------------------------------
(***************************************************************************)
(* Properties.                                                             *)
(***************************************************************************)
Ids == 1 .. Len(built)

\* The type of the state: who holds the lock is minting a source receipt.
ChainTypeOK ==
    /\ tip \in {Genesis} \cup issued
    /\ stored \subseteq issued /\ issued \subseteq Ids
    /\ \A t \in Threads :
         lock = t <=> /\ th[t].kind = "source"
                      /\ th[t].pc \in {"building", "witnessing", "generating",
                                       "signing", "advancing"}

\* Receipts of public-source records (frontier_sources._attach_receipt)
\* never share a predecessor, whatever the surfaces without the lock do,
\* unless the chain was reset or the process restarted in between.
SourceReceiptsForkOnlyAtGenesis ==
    \A i, j \in Ids :
        /\ i # j
        /\ built[i].kind = "source" /\ built[j].kind = "source"
        /\ built[i].prev = built[j].prev
        => built[i].prev = Genesis

\* The predecessor a receipt declares was itself returned to a caller and
\* re-derives (receipts.verify_receipt): a failed mint, an overtaken one or
\* a restart leaves no dangling link.
EveryPredecessorWasIssued ==
    \A i \in Ids : built[i].prev # Genesis
                     => ChainState(built[i], issued) = "VERIFIED"

\* Threads that raced to generate the witness keys still sign and tally
\* with one set of them: every consensus block reaches its threshold.
EveryConsensusIsReached ==
    \A i \in Ids : built[i].witnessed => built[i].witnesses >= Threshold

\* What the operator can look up verifies, when the verifying key is set
\* wherever the signing key is: /api/verify never calls its own receipt
\* FAILED.
StoredReceiptsVerify ==
    (SigningKey => VerifyingKey)
        => \A i \in stored : Verdict(built[i]) # "FAILED"

\* What a receipt says holds: its predecessor was issued, its consensus reached,
\* and once stored it verifies.
ReceiptsAreSound ==
    ChainTypeOK /\ EveryPredecessorWasIssued /\ EveryConsensusIsReached /\ StoredReceiptsVerify

\* "in-memory hash-chain tip for the session" (receipts.py:23): within a
\* session no two receipts have the same predecessor.
ReceiptsFormOneChain ==
    \A i, j \in issued :
        i # j /\ built[i].prev = built[j].prev => built[i].prev = Genesis

=============================================================================
