----------------------------- MODULE Credential -----------------------------
(* What a holder of a secret is promised: a credential (a session, an API   *)
(* key) is issued once, to one user, is good until it ends, and an ended    *)
(* credential is never good again and never becomes somebody else's.        *)
CONSTANTS Id, User, Nobody
VARIABLE holder     \* whom a credential speaks for: Nobody, a user, or "ended"

Init == holder = [i \in Id |-> Nobody]

Issue(i, u) == holder[i] = Nobody /\ holder' = [holder EXCEPT ![i] = u]
\* One ends, or many at a time.
End(S) ==
    /\ \A i \in S : holder[i] \in User
    /\ holder' = [i \in Id |-> IF i \in S THEN "ended" ELSE holder[i]]

Next == (\E i \in Id, u \in User : Issue(i, u)) \/ (\E S \in SUBSET Id : End(S))

Spec == Init /\ [][Next]_holder
=============================================================================
