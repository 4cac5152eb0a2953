---------------------------- MODULE MCMembership ----------------------------
(* The user of d1 only ever asks for one account, that of any other device *)
(* changes between two.  The client of d1 may name any device, as if it    *)
(* registered another of its user's, that of d2 names itself, as client.rs *)
(* does.  What d1 is registered with at first is open, d2 is unknown.      *)
EXTENDS Membership

CONSTANTS d1, d2, a1, a2

MCNames == [d \in Device |-> IF d = d1 THEN Device ELSE {d}]
MCWants == [d \in Device |-> IF d = d1 THEN {a1} ELSE {a1, a2}]

MCInit == Init /\ db[d2] = NoAccount
MCSpec == MCInit /\ [][Next]_vars /\ Fairness
=============================================================================
