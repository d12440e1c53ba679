------------------------------ MODULE ListSeals ------------------------------
(***************************************************************************)
(* What the parametrization promises, whatever fails and whoever interferes: *)
(* a list is sealed, that is, given the CRC by which its values count as      *)
(* valid, only with the contents the user has approved.                      *)
(***************************************************************************)
CONSTANTS
    Keys,           \* lists
    Contents        \* contents of a list

VARIABLES
    contents,       \* what a list holds
    seal,           \* the contents its CRC was computed from
    approved        \* the contents the user has last approved

vars == <<contents, seal, approved>>

Init ==
    /\ contents \in [Keys -> Contents]
    /\ seal \in [Keys -> Contents]
    /\ approved \in [Keys -> Contents]

Write == contents' \in [Keys -> Contents] /\ UNCHANGED <<seal, approved>>

Approve == approved' \in [Keys -> Contents] /\ UNCHANGED <<contents, seal>>

Seal(k) == seal' = [seal EXCEPT ![k] = approved[k]] /\ UNCHANGED <<contents, approved>>

Next == Write \/ Approve \/ \E k \in Keys : Seal(k)

Spec == Init /\ [][Next]_vars
=============================================================================
