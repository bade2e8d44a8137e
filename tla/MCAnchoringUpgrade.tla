--------------------------- MODULE MCAnchoringUpgrade ---------------------------
(***************************************************************************)
(* Small instances of AnchoringUpgrade for TLC.                            *)
(***************************************************************************)
EXTENDS AnchoringUpgrade, TLC

\* Genesis states with up to two record versions whose ids and indexes may be zero
\* or have holes, in any order, in one or two registries; the first address is the
\* admin of them and of the module.
GenesisAdmin == CHOOSE addr \in Addr : TRUE
GenesisRecord ==
    [registryId : {2}, recordId : 0 .. 2, index : 0 .. 2,
     checksum : Checksum \cup {NoChecksum},
     status : {CHOOSE status \in Status : TRUE}, isLatest : BOOLEAN]
GenesisAdmins == {RegistryRole(id, RoleAdmin) : id \in 1 .. 2}
SomeGenesisStates ==
    [admin : {GenesisAdmin},
     registries : {[id \in ids |-> [id |-> id, creator |-> GenesisAdmin]] :
                      ids \in {{2}, {1, 2}, {0, 2}}},
     records : UNION {[1 .. n -> GenesisRecord] : n \in 0 .. 2},
     roleAdmins : {[role \in GenesisAdmins |-> role]},
     roleMembers : {{<<role, GenesisAdmin>> : role \in GenesisAdmins}}]

\* Checksums are interchangeable; addresses are not, one is chosen above.
ChecksumSymmetry == Permutations(Checksum)

\* No role hash happens to be valid UTF-8.
NoUtf8Roles == {}
=============================================================================
