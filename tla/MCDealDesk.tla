------------------------------ MODULE MCDealDesk ------------------------------
(***************************************************************************)
(* Instances of DealDesk for TLC.                                          *)
(***************************************************************************)
EXTENDS DealDesk, TLC

CONSTANTS o1, o2, name, number, newname

Seen(ids, blocked) == [ids |-> ids, blocked |-> blocked]

\* Two opportunities of one business that changed its name, each always reported
\* with the same aliases; the first may turn out to be no business channel.
Steady == [o \in Opps |-> IF o = o1 THEN {Seen({name, number}, FALSE), Seen({name, number}, TRUE)}
                          ELSE {Seen({newname, number}, FALSE)}]

\* The official number is not in every report of the first opportunity.
Varying == [o \in Opps |-> IF o = o1 THEN {Seen({name, number}, FALSE), Seen({name}, FALSE)}
                           ELSE {Seen({newname, number}, FALSE)}]

Symmetry == Permutations(Handlers)
=============================================================================
