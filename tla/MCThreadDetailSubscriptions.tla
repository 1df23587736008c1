-------------------- MODULE MCThreadDetailSubscriptions --------------------
(* Small instances of the subscription cache.                              *)
EXTENDS ThreadDetailSubscriptions, TLC

CONSTANTS t1, t2, e1

OneEnvironment == [t \in Thread |-> e1]

\* Nothing tells two threads or two consumers apart.
Symmetric == Permutations(Thread) \cup Permutations(Consumer)
=============================================================================
