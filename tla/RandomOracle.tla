---------------------------- MODULE RandomOracle ----------------------------
(***************************************************************************)
(* What a random oracle promises, the way the simulator game reads it: a   *)
(* function that is sampled lazily.  A point gets its value when it is     *)
(* first needed, by whoever needs it, and keeps it for ever.               *)
(***************************************************************************)
CONSTANTS Point, Value

VARIABLE assigned    \* the part of the function that is already fixed

Init == assigned = [p \in {} |-> {}]

(* Fix the value of one point that has none. *)
Assign(p, v) ==
    /\ p \notin DOMAIN assigned
    /\ assigned' = [q \in DOMAIN assigned \cup {p} |->
                        IF q = p THEN v ELSE assigned[q]]

Next == \E p \in Point, v \in Value : Assign(p, v)

Spec == Init /\ [][Next]_assigned
=============================================================================
