---------------------------- MODULE MCTlsContext ----------------------------
(* The instance of TlsContext that TLC checks: instances and addresses are *)
(* interchangeable.                                                        *)
EXTENDS TlsContext, TLC

Symmetry == Permutations(Instances) \cup Permutations(Contexts)
=============================================================================
