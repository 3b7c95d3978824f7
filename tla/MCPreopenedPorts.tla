-------------------------- MODULE MCPreopenedPorts --------------------------
EXTENDS PreopenedPorts, TLC

(* Devices and entries of the list can be renamed; descriptors are ordered. *)
Symmetry == Permutations(Name) \union Permutations(Node)
=============================================================================
