---------------------------- MODULE TokenLifecycle ----------------------------
(***************************************************************************)
(* What the token endpoints promise of a token's life, whatever runs next  *)
(* to them: it is issued once, revoked at most once, deleted only after it *)
(* was revoked, and never comes back.                                      *)
(***************************************************************************)
CONSTANT Tokens

VARIABLE life     \* the state of each token

States == {"unused", "live", "revoked", "deleted"}

Init == life \in [Tokens -> {"unused", "live"}]

Advance(t, from, to) ==
    /\ life[t] = from
    /\ life' = [life EXCEPT ![t] = to]

Issue(t) == Advance(t, "unused", "live")
Revoke(t) == Advance(t, "live", "revoked")
Delete(t) == Advance(t, "revoked", "deleted")

Next == \E t \in Tokens : Issue(t) \/ Revoke(t) \/ Delete(t)

Spec == Init /\ [][Next]_life
=============================================================================
