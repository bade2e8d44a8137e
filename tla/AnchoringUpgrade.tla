---------------------------- MODULE AnchoringUpgrade ----------------------------
(***************************************************************************)
(* The v1_4 upgrade: a chain whose records do not name their registry and  *)
(* that still has the registry_id_by_name index runs the v1 to v2 store    *)
(* migration of x/anchoring in the upgrade block, and goes on.             *)
(***************************************************************************)
EXTENDS AnchoringGenesis

CONSTANT Name   \* registry names

VARIABLES
    version,            \* consensus version of x/anchoring
    registryIdByName    \* the retired index: the entries left in the store

upgradeVars == <<vars, version, registryIdByName>>

\* The chain starts from a genesis file, or is a v1 chain: the same state, but for
\* the field that Record did not have and the index that v1 kept.
UpgradeInit ==
    \/ /\ version = 2
       /\ GenesisInit
       /\ registryIdByName = {}
    \/ /\ version = 1
       /\ \E g \in {h \in GenesisStates : Validate(h)} :
             LET c == InitGenesis(g)
             IN  /\ admin = c.admin
                 /\ registries = c.registries
                 /\ registryCount = c.registryCount
                 /\ records = [key \in DOMAIN c.records |->
                                  [c.records[key] EXCEPT !.registryId = 0]]
                 /\ recordIdByRegistryAndChecksum = c.recordIdByRegistryAndChecksum
                 /\ recordIdByChecksumAndRegistry = c.recordIdByChecksumAndRegistry
                 /\ recordsCountByRegistry = c.recordsCountByRegistry
                 /\ recordIndices = c.recordIndices
                 /\ roleAdmins = c.roleAdmins
                 /\ roleMembers = c.roleMembers
       /\ registryIdByName \in SUBSET (Name \X DOMAIN registries)

\* A migration of the latest versions only.
MigratedLatest(key) ==
    IF key[3] = recordIndices[<<key[1], key[2]>>]
    THEN [records[key] EXCEPT !.registryId = key[1]] ELSE records[key]

\* The registry id is that of the record's key.
Migrated(key) == [records[key] EXCEPT !.registryId = key[1]]

\* Migrate1to2, in the upgrade handler's RunMigrations: once, and all or nothing,
\* since the block that runs it is.
MigrateStore ==
    /\ version = 1
    /\ version' = 2
    /\ records' = [key \in DOMAIN records |-> Migrated(key)]
    /\ registryIdByName' = {}
    /\ UNCHANGED <<admin, registries, registryCount, recordIdByRegistryAndChecksum,
                   recordIdByChecksumAndRegistry, recordsCountByRegistry,
                   recordIndices, rbacVars>>

UpgradeNext ==
    \/ MigrateStore
    \/ version = 2 /\ Next /\ UNCHANGED <<version, registryIdByName>>

UpgradeSpec == UpgradeInit /\ [][UpgradeNext]_upgradeVars

-----------------------------------------------------------------------------
(***************************************************************************)
(* Properties                                                              *)
(***************************************************************************)

\* After the upgrade, and whatever is added to the old records, every version
\* names the registry it is stored under, so the state can be exported into a
\* genesis that validates, and no name entry is left
\* (migrations/v2/store.go:47-89, types/genesis.go:44-68).
UpgradedStateValid ==
    version = 2 =>
       /\ \A key \in DOMAIN records : GenKey(records[key]) = key
       /\ Validate(ExportGenesis)
       /\ registryIdByName = {}

\* The migration changes of a record the registry id only, and every other step
\* is add-only, whatever holes the genesis had: no id is handed out twice
\* (migrations/v2/store.go:67-76, keeper/genesis.go:35-38, 91-95).
UpgradeKeepsRecords ==
    [][IF version' = version THEN AddOnlyStep
       ELSE /\ DOMAIN records' = DOMAIN records
            /\ \A key \in DOMAIN records :
                  [records'[key] EXCEPT !.registryId = 0] = records[key]]_upgradeVars
=============================================================================
