------------------------------ MODULE Custody ------------------------------
(***************************************************************************)
(* What the filing core promises of a scan: it is held from the moment it   *)
(* arrives, and then it is either filed, for good, or discarded.            *)
(***************************************************************************)
CONSTANT Docs

VARIABLE custody

Stages == {"absent", "held", "filed", "discarded"}

Init == custody = [d \in Docs |-> "absent"]

Move(d, from, to) ==
    /\ custody[d] = from
    /\ custody' = [custody EXCEPT ![d] = to]

Arrive(d) == Move(d, "absent", "held")
File(d) == Move(d, "held", "filed")
Discard(d) == Move(d, "held", "discarded")

Next == \E d \in Docs : Arrive(d) \/ File(d) \/ Discard(d)

Spec == Init /\ [][Next]_custody

=============================================================================
