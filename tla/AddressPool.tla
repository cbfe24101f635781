----------------------------- MODULE AddressPool -----------------------------
(* What the address pool promises a VPS: it is given an address that nobody *)
(* holds, at most one, and the address is its own until it is given back.   *)
CONSTANTS Addr, Holder, Nobody
VARIABLE holder

HeldBy(h) == {a \in Addr : holder[a] = h}

Init == holder = [a \in Addr |-> Nobody]

Grant(a, h) ==
    /\ a \in HeldBy(Nobody) /\ HeldBy(h) = {}
    /\ holder' = [holder EXCEPT ![a] = h]

GiveBack(S) == holder' = [a \in Addr |-> IF a \in S THEN Nobody ELSE holder[a]]

Next == (\E a \in Addr, h \in Holder : Grant(a, h)) \/ (\E S \in SUBSET Addr : GiveBack(S))

Spec == Init /\ [][Next]_holder
=============================================================================
