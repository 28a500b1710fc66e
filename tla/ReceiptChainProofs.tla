------------------------- MODULE ReceiptChainProofs -------------------------
(***************************************************************************)
(* What ReceiptChain promises for any number of threads, receipts and      *)
(* restarts: the links of the hash chain, the lock of the public-source    *)
(* collectors, the witness tally and the verdict on a stored receipt.      *)
(***************************************************************************)
EXTENDS ReceiptChain, FiniteSetTheorems, TLAPS

Classes  == {"PUBLIC", "FIRST_PARTY_CONSENT", "UNCLASSIFIED"}
Receipts == [kind : Surfaces, prev : Nat, class : Classes, permitted : BOOLEAN,
             signed : BOOLEAN, witnesses : Nat, witnessed : BOOLEAN]

\* The steps of a mint between the build and the return.
Witnessing == {"witnessing", "generating", "signing", "advancing"}
Steps      == {"idle", "reset", "locking", "building", "storing"} \cup Witnessing
Minting    == {m \in [pc : Steps, kind : Surfaces, id : Nat, keys : Nat] :
                 /\ m.pc = "reset"   => m.kind = "pulse"
                 /\ m.pc = "locking" => m.kind = "source"}

StateTypes ==
    /\ built \in Seq(Receipts)
    /\ issued \subseteq Ids /\ stored \subseteq issued
    /\ tip \in {Genesis} \cup issued
    /\ keys \in Nat
    /\ th \in [Threads -> Minting]

HolderMints ==
    \A t \in Threads :
        lock = t <=> /\ th[t].kind = "source"
                     /\ th[t].pc \in {"building"} \cup Witnessing

\* A receipt being witnessed is one thread's, and nobody has it yet.
MintsAreOwn ==
    /\ \A t \in Threads :
         /\ th[t].pc \in Witnessing => th[t].id \in Ids \ issued
         /\ th[t].pc = "storing" => th[t].id \in issued
    /\ \A t, u \in Threads :
         /\ t # u
         /\ th[t].pc \in Witnessing /\ th[u].pc \in Witnessing
         => th[t].id # th[u].id

PredecessorsAreIssued == \A i \in Ids : built[i].prev \in {Genesis} \cup issued

\* The tip has left the predecessor of a source receipt, unless the thread
\* that built it still holds the lock; it never comes back, because the tip
\* only ever moves to a receipt that was not issued before.
TipMovesOn ==
    \A i \in Ids :
        built[i].kind = "source" /\ built[i].prev # Genesis
        => \/ tip # built[i].prev
           \/ \E t \in Threads : /\ lock = t
                                 /\ th[t].pc \in Witnessing /\ th[t].id = i

ReceiptsVerify ==
    \A i \in Ids : built[i].permitted /\ (built[i].signed => SigningKey)

ChainInv ==
    /\ StateTypes /\ HolderMints /\ MintsAreOwn /\ PredecessorsAreIssued
    /\ TipMovesOn /\ SourceReceiptsForkOnlyAtGenesis
    /\ EveryConsensusIsReached /\ ReceiptsVerify

-----------------------------------------------------------------------------
\* Four organs sign: the tally with the thread's own keys is complete.
LEMMA TallyIsComplete == ASSUME NEW t PROVE Tally(t) = 4
<1>1. Tally(t) = Cardinality(Organs)
  <2>1. {o \in Organs : th[t].keys = TallyKeys(t)} = Organs
    BY DEF TallyKeys
  <2> QED BY <2>1 DEF Tally
<1>2. /\ IsFiniteSet({"a11oy"}) /\ Cardinality({"a11oy"}) = 1
  BY FS_Singleton
<1>3. /\ IsFiniteSet({"a11oy"} \cup {"sentra"})
      /\ Cardinality({"a11oy"} \cup {"sentra"}) = 2
  BY <1>2, FS_AddElement
<1>4. /\ IsFiniteSet({"a11oy"} \cup {"sentra"} \cup {"killinchu"})
      /\ Cardinality({"a11oy"} \cup {"sentra"} \cup {"killinchu"}) = 3
  BY <1>3, FS_AddElement
<1>5. Cardinality({"a11oy"} \cup {"sentra"} \cup {"killinchu"} \cup {"amaru"}) = 4
  BY <1>4, FS_AddElement
<1>6. Organs = {"a11oy"} \cup {"sentra"} \cup {"killinchu"} \cup {"amaru"}
  BY DEF Organs
<1> QED BY <1>1, <1>5, <1>6

\* What build_receipt puts in a payload, whatever the surface.
LEMMA PayloadIsPermitted ==
    ASSUME NEW k \in Surfaces, NEW signed \in BOOLEAN, tip \in Nat
    PROVE  /\ Payload(k, signed) \in Receipts
           /\ Payload(k, signed).kind = k
           /\ Payload(k, signed).prev = tip
           /\ Payload(k, signed).permitted
           /\ Payload(k, signed).signed = signed
           /\ ~Payload(k, signed).witnessed
<1>1. SourceClass(Signal(k)) \in Permitted \cap Classes
  BY DEF SourceClass, Signal, Surfaces, Permitted, Classes
<1> QED BY <1>1 DEF Payload, Receipts

LEMMA InitChain == Init => ChainInv
<1> SUFFICES ASSUME Init PROVE ChainInv OBVIOUS
<1> USE DEF Init
<1>1. StateTypes
  BY DEF StateTypes, Ids, Genesis, NoKeys, Minting, Steps, Surfaces, Idle
<1>2. HolderMints BY ReceiptAssumption DEF HolderMints, Idle, Witnessing
<1>3. MintsAreOwn BY DEF MintsAreOwn, Idle, Witnessing
<1>4. Ids = {} BY DEF Ids
<1> QED BY <1>1, <1>2, <1>3, <1>4
        DEF ChainInv, PredecessorsAreIssued, TipMovesOn, ReceiptsVerify,
            SourceReceiptsForkOnlyAtGenesis, EveryConsensusIsReached

-----------------------------------------------------------------------------
\* Steps that build and issue nothing: the links of the receipts, and the
\* mints under way, stay as they are, and the tip stays or is reset.
LEMMA QuietStep ==
    ASSUME ChainInv,
           built' \in Seq(Receipts), Len(built') = Len(built),
           \A i \in Ids : /\ built'[i].kind = built[i].kind
                          /\ built'[i].prev = built[i].prev
                          /\ built'[i].permitted = built[i].permitted
                          /\ built'[i].signed = built[i].signed,
           EveryConsensusIsReached',
           issued' = issued, stored' \subseteq issued, keys' \in Nat,
           th' \in [Threads -> Minting], HolderMints',
           \A t \in Threads :
               /\ th'[t].pc \in Witnessing
                    => th[t].pc \in Witnessing /\ th'[t].id = th[t].id
               /\ th'[t].pc = "storing"
                    => th[t].pc = "storing" /\ th'[t].id = th[t].id,
           \/ tip' = Genesis
           \/ /\ tip' = tip
              /\ \A t \in Threads :
                   lock = t /\ th[t].pc \in Witnessing
                     => /\ lock' = t /\ th'[t].pc \in Witnessing
                        /\ th'[t].id = th[t].id
    PROVE  ChainInv'
<1> USE DEF ChainInv
<1>0. Ids' = Ids BY DEF Ids
<1>1. StateTypes' BY <1>0 DEF StateTypes
<1>2. MintsAreOwn' BY <1>0 DEF MintsAreOwn
<1>3. PredecessorsAreIssued' BY <1>0 DEF PredecessorsAreIssued
<1>4. TipMovesOn'
  <2> SUFFICES ASSUME NEW i \in Ids, built[i].kind = "source",
                      built[i].prev # Genesis
               PROVE  \/ tip' # built[i].prev
                      \/ \E t \in Threads : /\ lock' = t
                                            /\ th'[t].pc \in Witnessing
                                            /\ th'[t].id = i
    BY <1>0 DEF TipMovesOn
  <2> QED BY DEF TipMovesOn
<1>5. SourceReceiptsForkOnlyAtGenesis'
  BY <1>0 DEF SourceReceiptsForkOnlyAtGenesis
<1>6. ReceiptsVerify' BY <1>0 DEF ReceiptsVerify
<1> QED BY <1>1, <1>2, <1>3, <1>4, <1>5, <1>6

\* A payload built on the tip.  A source receipt is built by the holder of
\* the lock, so no other source receipt still waits for the tip to move.
LEMMA BuildStep ==
    ASSUME ChainInv, NEW t \in Threads, Build(t)
    PROVE  ChainInv'
<1> USE DEF ChainInv
<1>1. PICK signed \in BOOLEAN :
        /\ signed => SigningKey
        /\ built' = Append(built, Payload(th[t].kind, signed))
  BY ReceiptAssumption DEF Build
<1> DEFINE n == Len(built) + 1
           r == Payload(th[t].kind, signed)
<1>2. /\ th[t].kind \in Surfaces /\ tip \in Nat
      /\ th[t] \in Minting
      /\ Len(built) \in Nat
  BY DEF StateTypes, Minting, Ids, Genesis
<1>3. /\ r \in Receipts /\ r.kind = th[t].kind /\ r.prev = tip
      /\ r.permitted /\ r.signed = signed /\ ~r.witnessed
  BY <1>2, PayloadIsPermitted
<1>a. built' = Append(built, r) /\ built \in Seq(Receipts)
  BY <1>1 DEF StateTypes
<1> HIDE DEF r
<1>4. /\ built' \in Seq(Receipts) /\ Len(built') = n
      /\ built'[n] = r
      /\ \A i \in Ids : built'[i] = built[i]
      /\ Ids' = Ids \cup {n} /\ n \notin Ids
  <2>1. /\ built' \in Seq(Receipts) /\ Len(built') = n
        /\ built'[n] = r
        /\ \A i \in 1 .. Len(built) : built'[i] = built[i]
    BY <1>a, <1>2, <1>3
  <2>2. 1 .. n = (1 .. Len(built)) \cup {n} /\ n \notin 1 .. Len(built)
    BY <1>2
  <2> QED BY <2>1, <2>2 DEF Ids
<1>5. /\ th[t].pc = "building"
      /\ th' = [th EXCEPT ![t].pc = "witnessing", ![t].id = n]
      /\ UNCHANGED <<issued, stored, tip, keys, lock>>
  BY <1>4 DEF Build, At
<1>6. /\ th' \in [Threads -> Minting]
      /\ th'[t].pc = "witnessing" /\ th'[t].id = n /\ th'[t].kind = th[t].kind
      /\ \A u \in Threads : u # t => th'[u] = th[u]
      /\ \A u \in Threads : th'[u].kind = th[u].kind
  <2>1. th' = [th EXCEPT ![t] = [th[t] EXCEPT !.pc = "witnessing", !.id = n]]
    BY <1>5
  <2>2. th \in [Threads -> Minting] /\ n \in Nat
    BY <1>2 DEF StateTypes
  <2>3. [th[t] EXCEPT !.pc = "witnessing", !.id = n] \in Minting
    BY <1>2, <2>2 DEF Minting, Steps, Witnessing
  <2> QED BY <2>1, <2>2, <2>3, <1>2 DEF Minting
<1> HIDE DEF n
<1>7. StateTypes'
  BY <1>4, <1>5, <1>6 DEF StateTypes
<1>8. HolderMints'
  <2> SUFFICES ASSUME NEW u \in Threads
               PROVE  (lock = u <=> /\ th'[u].kind = "source"
                                    /\ th'[u].pc \in {"building"} \cup Witnessing)
    BY <1>5 DEF HolderMints
  <2>1. CASE u = t BY <2>1, <1>5, <1>6 DEF HolderMints, Witnessing
  <2>2. CASE u # t BY <2>2, <1>5, <1>6 DEF HolderMints
  <2> QED BY <2>1, <2>2
<1>9. MintsAreOwn'
  <2>1. issued \subseteq Ids BY DEF StateTypes
  <2>2. ASSUME NEW u \in Threads
        PROVE  /\ th'[u].pc \in Witnessing => th'[u].id \in Ids' \ issued'
               /\ th'[u].pc = "storing" => th'[u].id \in issued'
    <3>1. CASE u = t BY <3>1, <2>1, <1>4, <1>5, <1>6
    <3>2. CASE u # t BY <3>2, <1>4, <1>5, <1>6 DEF MintsAreOwn
    <3> QED BY <3>1, <3>2
  <2>3. ASSUME NEW u \in Threads, NEW w \in Threads, u # w,
               th'[u].pc \in Witnessing, th'[w].pc \in Witnessing
        PROVE  th'[u].id # th'[w].id
    <3>1. CASE u = t BY <3>1, <2>3, <1>4, <1>6 DEF MintsAreOwn
    <3>2. CASE w = t BY <3>2, <2>3, <1>4, <1>6 DEF MintsAreOwn
    <3>3. CASE u # t /\ w # t BY <3>3, <2>3, <1>6 DEF MintsAreOwn
    <3> QED BY <3>1, <3>2, <3>3
  <2> QED BY <2>2, <2>3 DEF MintsAreOwn
<1>10. PredecessorsAreIssued'
  BY <1>3, <1>4, <1>5 DEF PredecessorsAreIssued, StateTypes
<1>11. ASSUME NEW i \in Ids, built[i].kind = "source", built[i].prev # Genesis,
              th[t].kind = "source"
       PROVE  tip # built[i].prev
  <2>1. lock = t BY <1>5, <1>11 DEF HolderMints
  <2>2. th[t].pc \notin Witnessing BY <1>5 DEF Witnessing
  <2> QED BY <2>1, <2>2, <1>11 DEF TipMovesOn
<1>12. TipMovesOn'
  <2> SUFFICES ASSUME NEW i \in Ids', built'[i].kind = "source",
                      built'[i].prev # Genesis, tip = built'[i].prev
               PROVE  \E u \in Threads : /\ lock = u
                                         /\ th'[u].pc \in Witnessing
                                         /\ th'[u].id = i
    BY <1>5 DEF TipMovesOn
  <2>1. CASE i = n
    <3>1. lock = t BY <2>1, <1>3, <1>4, <1>5 DEF HolderMints
    <3> QED BY <3>1, <2>1, <1>6 DEF Witnessing
  <2>2. CASE i \in Ids
    <3>1. PICK u \in Threads : lock = u /\ th[u].pc \in Witnessing /\ th[u].id = i
      BY <2>2, <1>4 DEF TipMovesOn
    <3>2. u # t BY <3>1, <1>5 DEF Witnessing
    <3> QED BY <3>1, <3>2, <1>6
  <2> QED BY <2>1, <2>2, <1>4
<1>13. SourceReceiptsForkOnlyAtGenesis'
  <2> SUFFICES ASSUME NEW i \in Ids', NEW j \in Ids', i # j,
                      built'[i].kind = "source", built'[j].kind = "source",
                      built'[i].prev = built'[j].prev, built'[i].prev # Genesis
               PROVE  FALSE
    BY DEF SourceReceiptsForkOnlyAtGenesis
  <2>1. CASE i \in Ids /\ j \in Ids
    BY <2>1, <1>4 DEF SourceReceiptsForkOnlyAtGenesis
  <2>2. CASE i = n /\ j \in Ids BY <2>2, <1>3, <1>4, <1>11
  <2>3. CASE j = n /\ i \in Ids BY <2>3, <1>3, <1>4, <1>11
  <2> QED BY <2>1, <2>2, <2>3, <1>4
<1>14. EveryConsensusIsReached'
  BY <1>3, <1>4 DEF EveryConsensusIsReached
<1>15. ReceiptsVerify' BY <1>1, <1>3, <1>4 DEF ReceiptsVerify
<1> QED BY <1>7, <1>8, <1>9, <1>10, <1>12, <1>13, <1>14, <1>15

\* The tip moves to a receipt nobody had, which no receipt names yet.
LEMMA AdvanceStep ==
    ASSUME ChainInv, NEW t \in Threads, Advance(t)
    PROVE  ChainInv'
<1> USE DEF ChainInv
<1> DEFINE id == th[t].id
<1>1. /\ th[t].pc = "advancing" /\ th[t] \in Minting
      /\ id \in Ids \ issued
      /\ issued' = issued \cup {id} /\ tip' = id
      /\ UNCHANGED <<built, stored, keys>>
      /\ lock' = IF lock = t THEN Nobody ELSE lock
  BY DEF Advance, At, MintsAreOwn, Witnessing, StateTypes
<1>2. /\ th' \in [Threads -> Minting]
      /\ th'[t].pc = "storing" /\ th'[t].id = id /\ th'[t].kind = th[t].kind
      /\ \A u \in Threads : u # t => th'[u] = th[u]
  BY <1>1 DEF Advance, Goto, StateTypes, Minting, Steps
<1> HIDE DEF id
<1>3. Ids' = Ids BY <1>1 DEF Ids
<1>4. StateTypes' BY <1>1, <1>2, <1>3 DEF StateTypes
<1>5. HolderMints'
  <2> SUFFICES ASSUME NEW u \in Threads
               PROVE  (lock' = u <=> /\ th'[u].kind = "source"
                                     /\ th'[u].pc \in {"building"} \cup Witnessing)
    BY DEF HolderMints
  <2>1. CASE u = t
    BY <2>1, <1>1, <1>2, ReceiptAssumption DEF HolderMints, Witnessing
  <2>2. CASE u # t
    BY <2>2, <1>1, <1>2, ReceiptAssumption DEF HolderMints
  <2> QED BY <2>1, <2>2
<1>6. MintsAreOwn'
  <2>1. ASSUME NEW u \in Threads
        PROVE  /\ th'[u].pc \in Witnessing => th'[u].id \in Ids' \ issued'
               /\ th'[u].pc = "storing" => th'[u].id \in issued'
    <3>1. CASE u = t BY <3>1, <1>1, <1>2 DEF Witnessing
    <3>2. CASE u # t
      <4>1. th'[u] = th[u] BY <3>2, <1>2
      <4>2. th[u].pc \in Witnessing => th[u].id # th[t].id
        BY <3>2, <1>1 DEF MintsAreOwn, Witnessing
      <4> QED BY <4>1, <4>2, <1>1, <1>3 DEF MintsAreOwn, id
    <3> QED BY <3>1, <3>2
  <2>2. ASSUME NEW u \in Threads, NEW w \in Threads, u # w,
               th'[u].pc \in Witnessing, th'[w].pc \in Witnessing
        PROVE  th'[u].id # th'[w].id
    <3>1. u # t /\ w # t BY <2>2, <1>2 DEF Witnessing
    <3> QED BY <2>2, <3>1, <1>2 DEF MintsAreOwn
  <2> QED BY <2>1, <2>2 DEF MintsAreOwn
<1>7. PredecessorsAreIssued' BY <1>1, <1>3 DEF PredecessorsAreIssued
<1>8. TipMovesOn'
  BY <1>1, <1>3 DEF TipMovesOn, PredecessorsAreIssued
<1>9. SourceReceiptsForkOnlyAtGenesis' /\ EveryConsensusIsReached' /\ ReceiptsVerify'
  BY <1>1, <1>3 DEF SourceReceiptsForkOnlyAtGenesis, EveryConsensusIsReached, ReceiptsVerify
<1> QED BY <1>4, <1>5, <1>6, <1>7, <1>8, <1>9

\* The signature block and the witness block change no link.
LEMMA WitnessStep ==
    ASSUME ChainInv, NEW t \in Threads, WitnessEvent(t)
    PROVE  ChainInv'
<1> USE DEF ChainInv
<1> DEFINE id == th[t].id
           r  == [built[id] EXCEPT !.witnesses = 4, !.witnessed = TRUE]
<1>1. /\ th[t].pc = "signing" /\ th[t] \in Minting /\ id \in Ids
      /\ th' = [th EXCEPT ![t] = [th[t] EXCEPT !.pc = "advancing"]]
      /\ UNCHANGED <<issued, stored, tip, keys, lock>>
  BY DEF WitnessEvent, At, Goto, MintsAreOwn, Witnessing, StateTypes
<1>2. built' = [built EXCEPT ![id] = r]
  BY TallyIsComplete DEF WitnessEvent
<1>3. built \in Seq(Receipts) /\ built[id] \in Receipts
  BY <1>1 DEF StateTypes, Ids
<1>4. /\ r \in Receipts /\ r.witnesses = 4
      /\ r.kind = built[id].kind /\ r.prev = built[id].prev
      /\ r.permitted = built[id].permitted /\ r.signed = built[id].signed
  BY <1>3 DEF Receipts
<1> HIDE DEF r
<1>5. /\ built' \in Seq(Receipts) /\ Len(built') = Len(built)
      /\ \A i \in Ids : built'[i] = IF i = id THEN r ELSE built[i]
  BY <1>1, <1>2, <1>3, <1>4 DEF Ids
<1>6. \A i \in Ids : /\ built'[i].kind = built[i].kind
                     /\ built'[i].prev = built[i].prev
                     /\ built'[i].permitted = built[i].permitted
                     /\ built'[i].signed = built[i].signed
  BY <1>4, <1>5
<1>7. EveryConsensusIsReached'
  <2>1. Ids' = Ids BY <1>5 DEF Ids
  <2> QED BY <2>1, <1>4, <1>5 DEF EveryConsensusIsReached, Threshold
<1>8. /\ th' \in [Threads -> Minting]
      /\ th'[t].pc = "advancing" /\ th'[t].id = id /\ th'[t].kind = th[t].kind
      /\ \A u \in Threads : u # t => th'[u] = th[u]
  BY <1>1 DEF StateTypes, Minting, Steps, Witnessing
<1>9. HolderMints'
  <2> SUFFICES ASSUME NEW u \in Threads
               PROVE  (lock = u <=> /\ th'[u].kind = "source"
                                    /\ th'[u].pc \in {"building"} \cup Witnessing)
    BY <1>1 DEF HolderMints
  <2>1. CASE u = t BY <2>1, <1>1, <1>8 DEF HolderMints, Witnessing
  <2>2. CASE u # t BY <2>2, <1>8 DEF HolderMints
  <2> QED BY <2>1, <2>2
<1> HIDE DEF id
<1>10. stored \subseteq issued /\ keys \in Nat BY DEF StateTypes
<1>11. \A u \in Threads :
         /\ th'[u].pc \in Witnessing <=> th[u].pc \in Witnessing
         /\ th'[u].id = th[u].id
         /\ th'[u].pc = "storing" => th[u].pc = "storing"
  BY <1>1, <1>8 DEF Witnessing, id
<1> QED BY <1>1, <1>5, <1>6, <1>7, <1>8, <1>9, <1>10, <1>11, QuietStep

-----------------------------------------------------------------------------
\* The remaining steps of a thread change its own entry, and perhaps the
\* keys, the lock and the stored receipts.
LEMMA ThreadStep ==
    ASSUME ChainInv, NEW t \in Threads, NEW m \in Minting,
           th' = [th EXCEPT ![t] = m],
           UNCHANGED <<built, issued>>, stored' \subseteq issued, keys' \in Nat,
           tip' \in {tip, Genesis},
           m.pc \in Witnessing => th[t].pc \in Witnessing /\ m.id = th[t].id,
           th[t].pc \in Witnessing => m.pc \in Witnessing,
           m.pc # "storing",
           \/ /\ lock' = lock
              /\ lock = t <=> m.kind = "source" /\ m.pc \in {"building"} \cup Witnessing
           \/ /\ lock = Nobody /\ lock' = t
              /\ m.kind = "source" /\ m.pc \in {"building"} \cup Witnessing
    PROVE  ChainInv'
<1> USE DEF ChainInv
<1>1. /\ built \in Seq(Receipts) /\ th \in [Threads -> Minting]
      /\ stored' \subseteq issued
      /\ EveryConsensusIsReached'
  BY DEF StateTypes, EveryConsensusIsReached, Ids
<1>2. /\ th' \in [Threads -> Minting] /\ th'[t] = m
      /\ \A u \in Threads : u # t => th'[u] = th[u]
  BY <1>1
<1>3. HolderMints'
  <2> SUFFICES ASSUME NEW u \in Threads
               PROVE  (lock' = u <=> /\ th'[u].kind = "source"
                                     /\ th'[u].pc \in {"building"} \cup Witnessing)
    BY DEF HolderMints
  <2>1. CASE u = t BY <2>1, <1>2, ReceiptAssumption
  <2>2. CASE u # t BY <2>2, <1>2, ReceiptAssumption DEF HolderMints
  <2> QED BY <2>1, <2>2
<1>4. \A u \in Threads :
         /\ th'[u].pc \in Witnessing
              => th[u].pc \in Witnessing /\ th'[u].id = th[u].id
         /\ th'[u].pc = "storing" => th[u].pc = "storing" /\ th'[u].id = th[u].id
         /\ th[u].pc \in Witnessing => th'[u].pc \in Witnessing
  BY <1>2
<1>5. \/ tip' = Genesis
      \/ /\ tip' = tip
         /\ \A u \in Threads :
              lock = u /\ th[u].pc \in Witnessing
                => /\ lock' = u /\ th'[u].pc \in Witnessing
                   /\ th'[u].id = th[u].id
  BY <1>4, ReceiptAssumption
<1> QED BY <1>1, <1>2, <1>3, <1>4, <1>5, QuietStep

LEMMA MintingSteps ==
    ASSUME ChainInv, NEW t \in Threads,
           \/ \E k \in Kinds : Arrive(t, k)
           \/ ResetChain(t) \/ TakeLock(t) \/ ReadKeys(t) \/ GenerateKeys(t)
           \/ WitnessFails(t) \/ Store(t)
    PROVE  ChainInv'
<1>1. /\ th[t] \in Minting /\ stored \subseteq issued /\ keys \in Nat
      /\ th \in [Threads -> Minting]
      /\ lock = t <=> /\ th[t].kind = "source"
                      /\ th[t].pc \in {"building"} \cup Witnessing
  BY DEF ChainInv, StateTypes, HolderMints
<1>2. ASSUME NEW k \in Kinds, Arrive(t, k) PROVE ChainInv'
  <2> DEFINE m == [Idle EXCEPT !.kind = k,
                     !.pc = CASE k = "pulse"  -> "reset"
                              [] k = "source" -> "locking"
                              [] OTHER        -> "building"]
  <2>1. m \in Minting /\ m.kind = k /\ m.id = 0
    BY <1>2, ReceiptAssumption DEF Minting, Steps, Idle, Surfaces, NoKeys
  <2>2. m.pc \in {"reset", "locking", "building"} /\ (k = "source" => m.pc = "locking")
    BY DEF Idle
  <2>3. th' = [th EXCEPT ![t] = m] BY <1>2 DEF Arrive
  <2> HIDE DEF m
  <2> QED BY <1>1, <1>2, <2>1, <2>2, <2>3, ThreadStep DEF Arrive, At, Witnessing
<1>3. CASE ResetChain(t)
  <2> DEFINE m == [th[t] EXCEPT !.pc = "building"]
  <2>1. m \in Minting /\ m.pc = "building" /\ m.kind = th[t].kind
    BY <1>1 DEF Minting, Steps
  <2>2. th' = [th EXCEPT ![t] = m] BY <1>3 DEF ResetChain, Goto
  <2>3. th[t].kind # "source" BY <1>1, <1>3 DEF Minting, ResetChain, At
  <2> HIDE DEF m
  <2> QED BY <1>1, <1>3, <2>1, <2>2, <2>3, ThreadStep DEF ResetChain, At, Witnessing
<1>4. CASE TakeLock(t)
  <2> DEFINE m == [th[t] EXCEPT !.pc = "building"]
  <2>1. m \in Minting /\ m.pc = "building" /\ m.kind = "source"
    BY <1>1, <1>4 DEF Minting, Steps, TakeLock, At
  <2>2. th' = [th EXCEPT ![t] = m] BY <1>4 DEF TakeLock, Goto
  <2> HIDE DEF m
  <2> QED BY <1>1, <1>4, <2>1, <2>2, ThreadStep DEF TakeLock, At, Witnessing
<1>5. CASE ReadKeys(t)
  <2> DEFINE m == [th[t] EXCEPT !.keys = keys,
                     !.pc = IF keys = NoKeys THEN "generating" ELSE "signing"]
  <2>1. /\ m \in Minting /\ m.pc \in {"generating", "signing"}
        /\ m.kind = th[t].kind /\ m.id = th[t].id
    BY <1>1 DEF Minting, Steps, Witnessing
  <2>2. th' = [th EXCEPT ![t] = m] BY <1>5 DEF ReadKeys
  <2> HIDE DEF m
  <2> QED BY <1>1, <1>5, <2>1, <2>2, ThreadStep DEF ReadKeys, At, Witnessing
<1>6. CASE GenerateKeys(t)
  <2> DEFINE m == [th[t] EXCEPT !.keys = th[t].id, !.pc = "signing"]
  <2>1. /\ m \in Minting /\ m.pc = "signing"
        /\ m.kind = th[t].kind /\ m.id = th[t].id /\ th[t].id \in Nat
    BY <1>1 DEF Minting, Steps, Witnessing
  <2>2. th' = [th EXCEPT ![t] = m] BY <1>6 DEF GenerateKeys
  <2> HIDE DEF m
  <2> QED BY <1>1, <1>6, <2>1, <2>2, ThreadStep DEF GenerateKeys, At, Witnessing
<1>7. CASE WitnessFails(t)
  <2> DEFINE m == [th[t] EXCEPT !.pc = "advancing"]
  <2>1. /\ m \in Minting /\ m.pc = "advancing"
        /\ m.kind = th[t].kind /\ m.id = th[t].id
    BY <1>1 DEF Minting, Steps, Witnessing
  <2>2. th' = [th EXCEPT ![t] = m] BY <1>7 DEF WitnessFails, Goto
  <2> HIDE DEF m
  <2> QED BY <1>1, <1>7, <2>1, <2>2, ThreadStep DEF WitnessFails, Witnessing
<1>8. CASE Store(t)
  <2>1. /\ Idle \in Minting /\ Idle.pc = "idle"
        /\ th[t].pc = "storing" /\ th[t].id \in issued
    BY <1>8 DEF Idle, Minting, Steps, Surfaces, NoKeys, Store, At, ChainInv, MintsAreOwn
  <2>2. th' = [th EXCEPT ![t] = Idle] BY <1>8 DEF Store
  <2> QED BY <1>1, <1>8, <2>1, <2>2, ThreadStep DEF Store, Witnessing
<1> QED BY <1>2, <1>3, <1>4, <1>5, <1>6, <1>7, <1>8

LEMMA RestartStep == ASSUME ChainInv, Restart PROVE ChainInv'
<1>1. /\ built \in Seq(Receipts)
      /\ EveryConsensusIsReached'
      /\ th' = [t \in Threads |-> Idle] /\ Idle \in Minting
      /\ lock' = Nobody /\ stored' = {} /\ tip' = Genesis /\ keys' = 0
      /\ UNCHANGED <<built, issued>>
  BY DEF ChainInv, StateTypes, Restart, EveryConsensusIsReached, Ids,
         Idle, Minting, Steps, Surfaces, NoKeys
<1>2. HolderMints'
  BY <1>1, ReceiptAssumption DEF HolderMints, Idle, Witnessing
<1>3. \A t \in Threads : th'[t].pc \notin Witnessing /\ th'[t].pc # "storing"
  BY <1>1 DEF Idle, Witnessing
<1> QED BY <1>1, <1>2, <1>3, QuietStep

\* The invariant that the properties below need: types, the holder of the
\* lock, the ownership of a receipt being minted, and the links.
THEOREM ChainInvariant == Spec => []ChainInv
<1>1. Init => ChainInv BY InitChain
<1>2. ChainInv /\ [Next]_vars => ChainInv'
  <2> SUFFICES ASSUME ChainInv, [Next]_vars PROVE ChainInv' OBVIOUS
  <2>1. ASSUME NEW t \in Threads, NEW k \in Kinds, Arrive(t, k) PROVE ChainInv'
    BY <2>1, MintingSteps
  <2>2. ASSUME NEW t \in Threads, Step(t) PROVE ChainInv'
    BY <2>2, MintingSteps, BuildStep, WitnessStep, AdvanceStep DEF Step
  <2>3. CASE Restart BY <2>3, RestartStep
  <2>4. CASE UNCHANGED vars
    BY <2>4 DEF vars, ChainInv, StateTypes, Ids, HolderMints, MintsAreOwn,
         PredecessorsAreIssued, TipMovesOn, SourceReceiptsForkOnlyAtGenesis,
         EveryConsensusIsReached, ReceiptsVerify
  <2> QED BY <2>1, <2>2, <2>3, <2>4 DEF Next
<1> QED BY <1>1, <1>2, PTL DEF Spec

\* The state keeps its types and the lock has the right holder
\* (frontier_sources._RECEIPT_LOCK), for any number of threads.
THEOREM ChainTypeCorrectness == Spec => []ChainTypeOK
<1>1. ChainInv => ChainTypeOK
  BY DEF ChainInv, StateTypes, HolderMints, ChainTypeOK, Witnessing
<1> QED BY <1>1, ChainInvariant, PTL

\* Two public-source receipts share a predecessor only at the genesis, for
\* any number of threads, although no other surface takes their lock
\* (frontier_sources._attach_receipt).
THEOREM SourceLinksAreUnique == Spec => []SourceReceiptsForkOnlyAtGenesis
<1>1. ChainInv => SourceReceiptsForkOnlyAtGenesis BY DEF ChainInv
<1> QED BY <1>1, ChainInvariant, PTL

\* No receipt names a predecessor that was not returned to a caller
\* (receipts.make_receipt advances the tip last).
THEOREM LinksAreIssued == Spec => []EveryPredecessorWasIssued
<1>1. ChainInv => EveryPredecessorWasIssued
  BY DEF ChainInv, PredecessorsAreIssued, EveryPredecessorWasIssued, ChainState
<1> QED BY <1>1, ChainInvariant, PTL

\* A consensus block always has its quorum, also when threads raced to
\* generate the keys (consensus.witness_event).
THEOREM WitnessesAgree == Spec => []EveryConsensusIsReached
<1>1. ChainInv => EveryConsensusIsReached BY DEF ChainInv
<1> QED BY <1>1, ChainInvariant, PTL

\* With the verifying key set wherever the signing key is, no receipt the
\* operator can look up is called FAILED (receipts.verify_receipt).
THEOREM StoredVerify == Spec => []StoredReceiptsVerify
<1>1. ChainInv => StoredReceiptsVerify
  BY DEF ChainInv, StateTypes, ReceiptsVerify, StoredReceiptsVerify, Verdict
<1> QED BY <1>1, ChainInvariant, PTL

\* Whatever the threads, restarts and keys do, a receipt names an issued
\* predecessor, claims a consensus only when its witnesses agreed, and, where the
\* verifying key is set with the signing key, verifies
\* once stored (receipts.py).
THEOREM ReceiptsStaySound == Spec => []ReceiptsAreSound
BY ChainTypeCorrectness, LinksAreIssued, WitnessesAgree, StoredVerify, PTL DEF ReceiptsAreSound
=============================================================================
