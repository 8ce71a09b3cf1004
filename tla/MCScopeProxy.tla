----------------------------- MODULE MCScopeProxy -----------------------------
(* Small instances of ScopeProxy for TLC.                                  *)
EXTENDS ScopeProxy, TLC

CONSTANTS a, b, o1, o2, o3, e1, e2

(* o1 and o2 are one endpoint under two operationIds, o3 is another        *)
(* endpoint.                                                               *)
MCEndpointOf == (o1 :> e1) @@ (o2 :> e1) @@ (o3 :> e2)

(* Server a renames o1 to o2 and drops o3; b serves the same operation as  *)
(* a, under the same identity.                                             *)
MCSpecsOf == (a :> {{o1, o3}, {o2}}) @@ (b :> {{o1}})

MCOpLists == {{o1}, {o3}}
MCOneList == {{o1}}
MCPutPairs == {<<b, b>>}
MCMixedPairs == {<<a, b>>, <<b, b>>}
MCPinned == {[endpoint |-> b, openapi |-> None]}
MCPresets == MCPinned \cup {[endpoint |-> None, openapi |-> None]}

(* Three token requests together, or one with two PUTs and a refresh; all. *)
MCRequestMixes ==
    {[tokenCalls |-> 3, puts |-> 0, jobs |-> 0, calls |-> 1],
     [tokenCalls |-> 1, puts |-> 2, jobs |-> 1, calls |-> 1]}
MCAnyMix ==
    {[tokenCalls |-> Cardinality(TokenCalls), puts |-> Cardinality(Puts),
      jobs |-> Cardinality(Jobs), calls |-> Cardinality(Calls)]}

(* Requests of a kind, and tokens, are interchangeable.                    *)
Symmetry ==
    UNION {Permutations(S) : S \in {TokenCalls, Tokens, Jobs, Puts}}
=============================================================================
