-------------------------- MODULE MCCanDispatcher --------------------------
(* Instances of CanDispatcher: two threads, two protocol instances. *)
EXTENDS CanDispatcher, TLC

CONSTANTS t1, t2, u1, u2, id1, id2

\* One instance may listen to all, as those of a logger do.
MCFilters == {{id1}, {id1, id2}}

Symmetry == Permutations(Threads) \cup Permutations(Users)
=============================================================================
