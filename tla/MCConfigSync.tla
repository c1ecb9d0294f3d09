---------------------------- MODULE MCConfigSync ----------------------------
(* One ConfigMap; each configuration says which states it takes. *)
EXTENDS ConfigSync, TLC

CONSTANTS g1, g2

Cm(kind, group) == [kind |-> kind, group |-> group]

GroupedObjects == {Cm("synced", g2), Cm("private", g2), Cm("fromPolaris", g2)}
AllObjects == {Cm("synced", NoGroup), Cm("synced", g2), Cm("private", g2),
               Cm("fromPolaris", NoGroup)}

(* The workers are interchangeable. *)
Symmetry == Permutations(Workers)
=============================================================================
