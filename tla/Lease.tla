------------------------------- MODULE Lease -------------------------------
(***************************************************************************)
(* What a claim with a time limit promises: a resource has at most one     *)
(* holder, and gets a new one only after the former lease was given up or  *)
(* has run out.                                                            *)
(***************************************************************************)
CONSTANTS Resources, Holders, NoOne

VARIABLE holder \* [Resources -> Holders \cup {NoOne}]

Init == holder = [x \in Resources |-> NoOne]

Acquire(x, h) ==
    /\ holder[x] = NoOne
    /\ holder' = [holder EXCEPT ![x] = h]

(* Leases end one at a time when released, several at a time with time. *)
End(S) ==
    holder' = [x \in Resources |-> IF x \in S THEN NoOne ELSE holder[x]]

Next ==
    \/ \E x \in Resources, h \in Holders : Acquire(x, h)
    \/ \E S \in SUBSET Resources : End(S)

Spec == Init /\ [][Next]_holder
=============================================================================
