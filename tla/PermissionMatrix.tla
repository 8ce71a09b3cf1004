--------------------------- MODULE PermissionMatrix ---------------------------
(***************************************************************************)
(* What the dashboard shows of the permissions: a matrix of tokens and     *)
(* operations.  A request replaces the whole row of one token by a list    *)
(* that some payload may hold (or by nothing, when the token goes), and a  *)
(* change of backend clears the matrix.                                    *)
(***************************************************************************)
CONSTANTS Tokens, Ops, OpLists

VARIABLE matrix   \* the operations granted to each token

Init == matrix \in [Tokens -> SUBSET Ops]

Assign(t, S) == matrix' = [matrix EXCEPT ![t] = S]

Clear == matrix' = [t \in Tokens |-> {}]

Next == Clear \/ \E t \in Tokens : \E S \in OpLists \cup {{}} : Assign(t, S)

Spec == Init /\ [][Next]_matrix
=============================================================================
