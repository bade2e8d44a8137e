------------------------------ MODULE MCNameGate ------------------------------
(***************************************************************************)
(* Small instances of NameGate for TLC.                                    *)
(***************************************************************************)
EXTENDS NameGate, TLC

\* Nodes and registries are interchangeable.
Symmetry == Permutations(Node) \cup Permutations(Registry)
=============================================================================
