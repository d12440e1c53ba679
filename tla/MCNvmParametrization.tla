------------------------ MODULE MCNvmParametrization ------------------------
(* Instances of NvmParametrization: lists of one element each. *)
EXTENDS NvmParametrization

MCListOf == [e \in Elements |-> e]

\* Lists on nodes of their own, or all on one node.
MCNodeOfEach == [l \in Lists |-> l]
MCNodeOfOne == [l \in Lists |-> 1]
=============================================================================
