---------------------------- MODULE AnchoringGenesis ----------------------------
(***************************************************************************)
(* Genesis import and export of x/anchoring.  A genesis state holds the    *)
(* params, the registries, a list of record versions and the two role      *)
(* tables; InitGenesis rebuilds every counter and index from it.           *)
(***************************************************************************)
EXTENDS Anchoring, Sequences, FiniteSetsExt

CONSTANTS
    GenesisStates,  \* the genesis states the chain may be started from
    Utf8Roles       \* the roles whose 32-byte hash is valid UTF-8

ASSUME Utf8Assumption == Utf8Roles \subseteq Role

\* A record as a genesis file gives it: any field may be zero.
ListedRecord == [registryId : Nat, recordId : Nat, index : Nat,
                 checksum : Checksum \cup {NoChecksum},
                 status : Status \cup {NoStatus}, isLatest : BOOLEAN]

ASSUME GenesisAssumption ==
    \A g \in GenesisStates :
       /\ g.admin \in Addr
       /\ IsFiniteSet(DOMAIN g.registries)
       /\ IsMap(g.registries, Nat, [id : Nat, creator : Addr])
       /\ g.records \in Seq(ListedRecord)
       /\ IsFiniteSet(DOMAIN g.roleAdmins)
       /\ IsMap(g.roleAdmins, Role, Role)
       /\ IsFiniteSet(g.roleMembers)
       /\ g.roleMembers \subseteq Role \X Addr

\* All the collections of the keeper.
Collections ==
    [admin |-> admin, registries |-> registries, registryCount |-> registryCount,
     records |-> records,
     recordIdByRegistryAndChecksum |-> recordIdByRegistryAndChecksum,
     recordIdByChecksumAndRegistry |-> recordIdByChecksumAndRegistry,
     recordsCountByRegistry |-> recordsCountByRegistry,
     recordIndices |-> recordIndices,
     roleAdmins |-> roleAdmins, roleMembers |-> roleMembers]

GenKey(rec) == <<rec.registryId, rec.recordId, rec.index>>

-----------------------------------------------------------------------------
(***************************************************************************)
(* Validation and import                                                   *)
(***************************************************************************)

\* One version of a group is flagged, whichever it is.
ValidateIsLatestAnyIndex(versions) ==
    Cardinality({v \in versions : v.isLatest}) = 1

\* Exactly one version of a group is flagged, and it has the highest index.
ValidateIsLatest(versions) ==
    LET latest == {v \in versions : v.isLatest}
    IN  Cardinality(latest) = 1 /\ \A l \in latest, v \in versions : v.index <= l.index

ValidateRecord(rec) ==
    /\ rec.recordId # 0 /\ rec.index # 0
    /\ ValidateRecordForCreate(rec.checksum, rec.status)

\* The checks of GenesisState.Validate, which InitGenesis repeats.
Validate(g) ==
    LET recs == {g.records[i] : i \in DOMAIN g.records}
    IN  /\ \A key \in DOMAIN g.registries : g.registries[key].id = key /\ key # 0
        /\ \A rec \in recs : ValidateRecord(rec) /\ rec.registryId \in DOMAIN g.registries
        /\ \A i, j \in DOMAIN g.records :
              GenKey(g.records[i]) = GenKey(g.records[j]) => i = j
        /\ \A rec \in recs :
              ValidateIsLatest({v \in recs : v.registryId = rec.registryId /\
                                             v.recordId = rec.recordId})

\* The number of registries.
MaxRegistryIdCounted(regs) == Cardinality(DOMAIN regs)

\* RegistryCount is the highest id, "to avoid collisions".
MaxRegistryId(regs) == Max(DOMAIN regs \cup {0})

\* The first version in the list decides.
HighestIndexFirst(recs, stream) ==
    LET positions == {i \in DOMAIN recs :
                         <<recs[i].registryId, recs[i].recordId>> = stream}
    IN  recs[Min(positions)].index

HighestIndex(recs, stream) ==
    Max({recs[i].index : i \in {j \in DOMAIN recs :
            <<recs[j].registryId, recs[j].recordId>> = stream}})

\* The record id of a checksum: a later version in the list overwrites an
\* earlier one's.
LastRecordId(recs, registryId, checksum) ==
    LET positions == {i \in DOMAIN recs : recs[i].registryId = registryId /\
                                          recs[i].checksum = checksum}
    IN  recs[Max(positions)].recordId

\* What InitGenesis writes.
InitGenesis(g) ==
    LET recs == g.records
        at == {recs[i] : i \in DOMAIN recs}
        streams == {<<rec.registryId, rec.recordId>> : rec \in at}
        sums == {<<rec.registryId, rec.checksum>> : rec \in at}
    IN  [admin |-> g.admin,
         registries |-> g.registries,
         registryCount |-> MaxRegistryId(g.registries),
         records |-> [key \in {GenKey(rec) : rec \in at} |->
                         CHOOSE rec \in at : GenKey(rec) = key],
         recordIdByRegistryAndChecksum |->
            [k \in sums |-> LastRecordId(recs, k[1], k[2])],
         recordIdByChecksumAndRegistry |->
            [k \in {<<s[2], s[1]>> : s \in sums} |-> LastRecordId(recs, k[2], k[1])],
         recordsCountByRegistry |->
            [id \in DOMAIN g.registries |->
                Max({rec.recordId : rec \in {v \in at : v.registryId = id}} \cup {0})],
         recordIndices |-> [s \in streams |-> HighestIndex(recs, s)],
         roleAdmins |-> g.roleAdmins,
         roleMembers |-> g.roleMembers]

-----------------------------------------------------------------------------
(***************************************************************************)
(* Export                                                                  *)
(***************************************************************************)

KeyBefore(a, b) ==
    \/ a[1] < b[1]
    \/ a[1] = b[1] /\ a[2] < b[2]
    \/ a[1] = b[1] /\ a[2] = b[2] /\ a[3] < b[3]

\* The collection's walk visits the versions in key order.
WalkRecords ==
    [i \in 1 .. Cardinality(DOMAIN records) |->
        records[CHOOSE key \in DOMAIN records :
                   Cardinality({k \in DOMAIN records : KeyBefore(k, key)}) = i - 1]]

ExportGenesis ==
    [admin |-> admin, registries |-> registries, records |-> WalkRecords,
     roleAdmins |-> roleAdmins, roleMembers |-> roleMembers]

\* The genesis file is JSON and its role tables are keyed by the raw bytes of
\* the hash as a string: bytes that are not UTF-8 become U+FFFD, and the key
\* names another role when it is read back.
JSONRole(role) == IF role \in Utf8Roles THEN role ELSE [replaced |-> role]

GenesisFile(g) ==
    [g EXCEPT !.roleAdmins = [r \in {JSONRole(role) : role \in DOMAIN g.roleAdmins} |->
                                 g.roleAdmins[CHOOSE role \in DOMAIN g.roleAdmins :
                                                 JSONRole(role) = r]],
              !.roleMembers = {<<JSONRole(m[1]), m[2]>> : m \in g.roleMembers}]

-----------------------------------------------------------------------------
(***************************************************************************)
(* A chain started from a genesis state                                    *)
(***************************************************************************)

GenesisInit ==
    \E g \in {h \in GenesisStates : Validate(h)} :
       LET c == InitGenesis(g)
       IN  /\ admin = c.admin
           /\ registries = c.registries
           /\ registryCount = c.registryCount
           /\ records = c.records
           /\ recordIdByRegistryAndChecksum = c.recordIdByRegistryAndChecksum
           /\ recordIdByChecksumAndRegistry = c.recordIdByChecksumAndRegistry
           /\ recordsCountByRegistry = c.recordsCountByRegistry
           /\ recordIndices = c.recordIndices
           /\ roleAdmins = c.roleAdmins
           /\ roleMembers = c.roleMembers

GenesisSpec == GenesisInit /\ [][Next]_vars

-----------------------------------------------------------------------------
(***************************************************************************)
(* Properties                                                              *)
(***************************************************************************)

\* Export then import is the identity on every reachable state: the exported
\* state validates, and InitGenesis rebuilds from it exactly the counters and
\* indexes the messages have maintained one step at a time
\* (keeper/genesis.go:13-187).
RoundTrip == Validate(ExportGenesis) /\ InitGenesis(ExportGenesis) = Collections

\* Whatever genesis was accepted, with holes in its ids or not and in any order,
\* the indexes lead to stored versions, every id in use is covered by its counter,
\* so the next AddRegistry and AddRecord find a free key, and the version an index
\* leads to is the one flagged latest (types/genesis.go:44-68,
\* keeper/genesis.go:21-95, keeper/anchoring.go:17-140).
GenesisConsistent ==
    /\ OneLatestVersion
    /\ DOMAIN registries \subseteq 1 .. registryCount
    /\ DOMAIN recordsCountByRegistry = DOMAIN registries
    /\ \A s \in DOMAIN recordIndices :
          /\ s[2] <= recordsCountByRegistry[s[1]]
          /\ <<s[1], s[2], recordIndices[s]>> \in DOMAIN records
    /\ \A key \in DOMAIN records :
          /\ <<key[1], key[2]>> \in DOMAIN recordIndices
          /\ key[3] <= recordIndices[<<key[1], key[2]>>]

\* "role_admins mapping: encoded RBAC role key -> admin role bytes" and
\* "role_members mapping: encoded (role, account) RBAC pair key -> marker bytes",
\* proto/nvnmchain/anchoring/v1/genesis.proto:24-28: a chain started from the
\* exported genesis file has the role members the exporting chain had.
RolesSurviveExport ==
    InitGenesis(GenesisFile(ExportGenesis)).roleMembers = roleMembers
=============================================================================
