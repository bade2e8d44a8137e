------------------------------ MODULE MCNameSearch ------------------------------
(***************************************************************************)
(* Small instances of NameSearch for TLC.                                  *)
(***************************************************************************)
EXTENDS NameSearch

\* An empty genesis, and one whose only registry has id 2.
MCGenesis == {<<>>} \cup {2 :> n : n \in Matching}
=============================================================================
