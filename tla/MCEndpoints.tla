------------------------------ MODULE MCEndpoints ------------------------------
(***************************************************************************)
(* Endpoints that exclude each other, endpoints that overlap although      *)
(* neither matches the other, and requests for one, several and none.      *)
(***************************************************************************)
EXTENDS Endpoints, TLC

MCUris == {<<"/", "a">>, <<"/", "*">>, <<"/", "a", "*">>, <<"/", "*", "b">>}

MCRequests ==
  {[method |-> "GET", uri |-> <<"/", "a", "?", "k", "=">>],
   [method |-> "PUT", uri |-> <<"/", "a", "b">>],
   [method |-> "GET", uri |-> <<"/", "a", "b", "?", "&", "=">>],
   [method |-> "GET", uri |-> <<"/", "+">>]}

MCHandlers == [u \in MCUris |-> IF u = <<"/", "a", "*">> THEN {"GET"} ELSE {"GET", "PUT"}]

\* A caller or a worker is as good as any other, and so is a node.
Symmetry == Permutations(Workers) \cup Permutations(Nodes)
=============================================================================
