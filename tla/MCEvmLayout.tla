------------------------------- MODULE MCEvmLayout ------------------------------
(***************************************************************************)
(* Small instances of EvmLayout for TLC.                                   *)
(***************************************************************************)
EXTENDS EvmLayout, TLC

\* Two genesis states, one with a hole in its registry ids; the first address is
\* the admin of all.
LayoutAdmin == CHOOSE addr \in Addr : TRUE
LayoutGenesisStates ==
    {[admin |-> LayoutAdmin,
      registries |-> [id \in ids |-> [id |-> id, creator |-> LayoutAdmin]],
      records |-> <<>>,
      roleAdmins |-> [role \in {RegistryRole(id, RoleAdmin) : id \in ids} |-> role],
      roleMembers |-> {<<RegistryRole(id, RoleAdmin), LayoutAdmin>> : id \in ids}] :
         ids \in {{2}, {1, 2, 3}}}

\* The first and the third registry share a name.
SomeNames == <<"alpha", "beta", "alpha">>
ChecksumSymmetry == Permutations(Checksum)
NoUtf8Roles == {}
=============================================================================
