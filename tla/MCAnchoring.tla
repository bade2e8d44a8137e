------------------------------ MODULE MCAnchoring ------------------------------
(***************************************************************************)
(* Small instances of Anchoring, its ledger and its genesis for TLC.       *)
(***************************************************************************)
EXTENDS AnchoringLedger, AnchoringGenesis, TLC

\* Addresses are interchangeable: no definition orders them.
AddrSymmetry == Permutations(Addr)

\* Nor does any order checksums.
Symmetry == AddrSymmetry \cup Permutations(Checksum)

\* The chain starts empty, and no role hash happens to be valid UTF-8.
NoGenesisStates == {}
NoUtf8Roles == {}
=============================================================================
