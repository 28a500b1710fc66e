-------------------------- MODULE MCDealDeskThreads --------------------------
(***************************************************************************)
(* DealDesk for TLC, in two instances of the constants of the              *)
(* configuration: "threads" runs requests on one opportunity in two        *)
(* threads, "alone" runs requests on two opportunities one at a time.      *)
(***************************************************************************)
EXTENDS MCDealDesk

VARIABLE instance

Threads == INSTANCE DealDesk WITH
    Opps <- {o1}, Aliases <- {name, number}, Observations <- [o \in {o1} |-> Varying[o]],
    Dispositions <- {"DO_NOT_CALL"}, Targets <- {"CONTACTED"}, MaxTime <- 0

Alone == INSTANCE DealDesk WITH Observations <- Steady

\* What the sources report in either of them.
Reported == [o \in Opps |-> Steady[o] \cup Varying[o]]

DeskInit == instance \in {"threads", "alone"} /\ Init

DeskNext ==
    /\ UNCHANGED instance
    /\ \/ instance = "threads" /\ Threads!Next
       \/ instance = "alone" /\ Alone!Next /\ OneAtATime'

DeskSpec == DeskInit /\ [][DeskNext]_<<vars, instance>>
=============================================================================
