-------------------------- MODULE AtMostOnceDelivery --------------------------
(***************************************************************************)
(* What the outbox promises its callers (the docstring of                  *)
(* begin_outbox_dispatch, app/domain/david_postgres.py): an item is        *)
(* attempted at most once; an attempt whose outcome was not recorded in    *)
(* time is settled as DELIVERY_UNKNOWN and never retried; an item can be   *)
(* cancelled only before its attempt.  Leases, tokens, workers and crashes *)
(* are details of the implementation.                                      *)
(***************************************************************************)
CONSTANT Items
VARIABLE delivery

Settled == {"PUBLISHED", "DELIVERY_UNKNOWN", "CANCELLED"}

Moves == {<<"absent", "waiting">>,
          <<"waiting", "DISPATCHING">>, <<"waiting", "CANCELLED">>,
          <<"DISPATCHING", "PUBLISHED">>, <<"DISPATCHING", "DELIVERY_UNKNOWN">>}

Init == delivery = [i \in Items |-> "absent"]

\* One transaction may settle several items, but starts at most one attempt.
Next ==
    /\ delivery' \in [Items -> {"absent", "waiting", "DISPATCHING"} \cup Settled]
    /\ \A i \in Items : delivery'[i] # delivery[i] => <<delivery[i], delivery'[i]>> \in Moves
    /\ \A i, j \in Items :
        /\ delivery[i] = "waiting" /\ delivery'[i] = "DISPATCHING"
        /\ delivery[j] = "waiting" /\ delivery'[j] = "DISPATCHING"
        => i = j

Spec == Init /\ [][Next]_delivery
=============================================================================
