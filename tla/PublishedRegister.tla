-------------------------- MODULE PublishedRegister --------------------------
(***************************************************************************)
(* What the snapshot publisher promises of the public dataset, whoever     *)
(* publishes and whatever fails: snapshots are added one at a time, none   *)
(* is ever published twice or taken back, and the pointer of a lane never  *)
(* returns to an older processing or source date.                          *)
(***************************************************************************)
CONSTANTS Bundles, Lanes, None

\* No lane's pointer moves from a bundle to one that does not follow it.
CONSTANT Follows(_, _)

VARIABLES published, latest

vars == <<published, latest>>

Init ==
    /\ published = {}
    /\ latest = [l \in Lanes |-> None]

Publish(b) ==
    /\ b \notin published
    /\ latest[b.lane] # None => Follows(b, latest[b.lane])
    /\ published' = published \cup {b}
    /\ latest' = [latest EXCEPT ![b.lane] = b]

\* Nothing else changes the register.
Next == published' # published /\ \E b \in Bundles : Publish(b)

Spec == Init /\ [][Next]_vars
=============================================================================
