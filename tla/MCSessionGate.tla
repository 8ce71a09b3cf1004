---------------------------- MODULE MCSessionGate ----------------------------
(* Small instances of SessionGate for TLC.                                 *)
EXTENDS SessionGate

CONSTANTS n1, n2, p1, p2, there, w1, w2

MCSeedUser == [name |-> n1, password |-> p1]
MCCredentials == {<<n1, p1>>, <<n2, p2>>}

(* One tab by itself, or next to a client that signs in and sets up.       *)
MCBudgets ==
    {[events |-> 3, others |-> FALSE], [events |-> 1, others |-> TRUE]}
MCNextToOthers == {[events |-> 2, others |-> TRUE]}
MCGuesses == {<<n2, p2>>}
=============================================================================
