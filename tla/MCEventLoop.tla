---------------------------- MODULE MCEventLoop ----------------------------
(* Instances of EventLoop for TLC. *)
EXTENDS EventLoop, TLC

\* Workers, connections and request objects are interchangeable; only the
\* runs without liveness use it.
Symmetry ==
    Permutations(Workers) \cup Permutations(Conns) \cup Permutations(Requests)

=============================================================================
