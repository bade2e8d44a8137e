------------------------------- MODULE Anchoring -------------------------------
(***************************************************************************)
(* The x/anchoring module: registries, versioned records and the           *)
(* role-based access control (x/anchoring/rbac) that guards them.          *)
(*                                                                         *)
(* Every collection of keeper.Keeper is a variable, a collections.Map      *)
(* being a function whose DOMAIN is the set of keys present.  Every        *)
(* message handler is one action.  A handler that returns an error leaves  *)
(* no trace, because baseapp discards the cached store of a failed         *)
(* message, so an error path is an action that is not enabled.             *)
(***************************************************************************)
EXTENDS Integers, FiniteSets

CONSTANTS
    Addr,           \* account addresses
    Checksum,       \* non-empty checksums
    NoChecksum,     \* the empty checksum
    RoleName,       \* the non-empty role strings of MsgGrantRole / MsgRevokeRole
    RoleAdmin,      \* the role string "admin"
    RoleEditor,     \* the role string "editor"
    Status,         \* non-empty record statuses
    NoStatus,       \* the empty status
    NoAddr,         \* the empty address string of MsgUpdateParams.Admin
    MaxRegistries,  \* bound on RegistryCount
    MaxVersions,    \* bound on the number of stored record versions
    MaxMembers      \* bound on the number of role members

ASSUME RoleAssumption ==
    /\ {RoleAdmin, RoleEditor} \subseteq RoleName
    /\ RoleAdmin # RoleEditor

ASSUME SentinelAssumption ==
    /\ NoChecksum \notin Checksum
    /\ NoStatus \notin Status
    /\ NoAddr \notin Addr

ASSUME BoundAssumption ==
    /\ MaxRegistries \in Nat
    /\ MaxVersions \in Nat
    /\ MaxMembers \in Nat

VARIABLES
    admin,                          \* Params.Admin, the module admin
    registries,                     \* registryId => registry
    registryCount,                  \* total number of registries
    records,                        \* registryId, recordId, index => record
    recordIdByRegistryAndChecksum,  \* registryId, checksum => recordId
    recordIdByChecksumAndRegistry,  \* checksum, registryId => recordId
    recordsCountByRegistry,         \* registryId => record count
    recordIndices,                  \* registryId, recordId => latest index
    roleAdmins,                     \* role => its admin role
    roleMembers                     \* set of (role, account)

recordVars == <<records, recordIdByRegistryAndChecksum,
                recordIdByChecksumAndRegistry, recordsCountByRegistry,
                recordIndices>>
rbacVars == <<roleAdmins, roleMembers>>
vars == <<admin, registries, registryCount, recordVars, rbacVars>>

Id == Nat \ {0}

Registry == [id : Id, creator : Addr]

Record == [registryId : Id, recordId : Id, index : Id,
           checksum : Checksum, status : Status, isLatest : BOOLEAN]

(***************************************************************************)
(* A role is the hash of "registry:<id>:<role>" or of                      *)
(* "record:<id>:<checksum>:<role>" with the last two in hexadecimal.  The  *)
(* two formats are injective and share no value, so the triple of their    *)
(* fields, with no checksum in a registry role, stands for the hash.       *)
(***************************************************************************)
Role == [registryId : Id, checksum : Checksum \cup {NoChecksum}, role : RoleName]

\* A collections.Map with no entry, and collections.Map.Set.
EmptyMap == [k \in {} |-> k]

Put(f, key, value) ==
    [k \in DOMAIN f \cup {key} |-> IF k = key THEN value ELSE f[k]]

-----------------------------------------------------------------------------
(***************************************************************************)
(* Roles and permissions                                                   *)
(***************************************************************************)

RegistryRole(registryId, role) ==
    [registryId |-> registryId, checksum |-> NoChecksum, role |-> role]

\* A record role hashed without its registry.
RecordRoleUnscoped(registryId, checksum, role) ==
    [registryId |-> 1, checksum |-> checksum, role |-> role]

RecordRole(registryId, checksum, role) ==
    [registryId |-> registryId, checksum |-> checksum, role |-> role]

isRecordRole(registryId, checksum) == registryId # 0 /\ checksum # NoChecksum

scopedRole(registryId, checksum, role) ==
    IF isRecordRole(registryId, checksum)
    THEN RecordRole(registryId, checksum, role)
    ELSE RegistryRole(registryId, role)

HasRole(role, addr) == <<role, addr>> \in roleMembers

Members(role) == {addr \in Addr : HasRole(role, addr)}

\* A check that looks for a role nobody holds.
IsSoleAdminNever(adminRole) == Members(adminRole) = {}

IsSoleAdmin(adminRole) == Cardinality(Members(adminRole)) = 1

requiredRoles == {RoleAdmin, RoleEditor}

checkRecordRoles(sender, registryId, checksum) ==
    /\ checksum # NoChecksum
    /\ \E role \in requiredRoles :
          HasRole(RecordRole(registryId, checksum, role), sender)

checkRegistryRoles(sender, registryId) ==
    \E role \in requiredRoles : HasRole(RegistryRole(registryId, role), sender)

checkPermission(sender, registryId, checksum) ==
    \/ checkRecordRoles(sender, registryId, checksum)
    \/ checkRegistryRoles(sender, registryId)

\* A scope check that does not look for the registry.
ensureRoleScopeExistsUnchecked(registryId, checksum) ==
    isRecordRole(registryId, checksum) =>
       <<checksum, registryId>> \in DOMAIN recordIdByChecksumAndRegistry

ensureRoleScopeExists(registryId, checksum) ==
    /\ registryId \in DOMAIN registries
    /\ isRecordRole(registryId, checksum) =>
          <<checksum, registryId>> \in DOMAIN recordIdByChecksumAndRegistry

-----------------------------------------------------------------------------
(***************************************************************************)
(* Registries and records                                                  *)
(***************************************************************************)

\* InitGenesis of the default genesis state.
Init ==
    /\ admin \in Addr
    /\ registries = EmptyMap
    /\ registryCount = 0
    /\ records = EmptyMap
    /\ recordIdByRegistryAndChecksum = EmptyMap
    /\ recordIdByChecksumAndRegistry = EmptyMap
    /\ recordsCountByRegistry = EmptyMap
    /\ recordIndices = EmptyMap
    /\ roleAdmins = EmptyMap
    /\ roleMembers = {}

initializeRegistryRecordCounter(registryId) ==
    Put(recordsCountByRegistry, registryId, 0)

AddRegistry(sender) ==
    LET registryId == registryCount + 1
        adminRole == RegistryRole(registryId, RoleAdmin)
    IN  /\ registryCount < MaxRegistries
        /\ registries' = Put(registries, registryId,
                             [id |-> registryId, creator |-> sender])
        /\ roleAdmins' = Put(roleAdmins, adminRole, adminRole)
        /\ roleMembers' = roleMembers \cup {<<adminRole, sender>>}
        /\ recordsCountByRegistry' = initializeRegistryRecordCounter(registryId)
        /\ registryCount' = registryId
        /\ UNCHANGED <<admin, records, recordIdByRegistryAndChecksum,
                       recordIdByChecksumAndRegistry, recordIndices>>

\* The empty-field checks; the length checks constrain no modelled value.
ValidateRecordForCreate(checksum, status) ==
    checksum # NoChecksum /\ status # NoStatus

\* A new checksum that takes over the registry's first record.
RecordIdForReused(registryId, checksum) ==
    IF <<registryId, checksum>> \in DOMAIN recordIdByRegistryAndChecksum
    THEN recordIdByRegistryAndChecksum[<<registryId, checksum>>]
    ELSE 1

\* A new checksum that skips a record id.
RecordIdForSkips(registryId, checksum) ==
    IF <<registryId, checksum>> \in DOMAIN recordIdByRegistryAndChecksum
    THEN recordIdByRegistryAndChecksum[<<registryId, checksum>>]
    ELSE recordsCountByRegistry[registryId] + 2

\* The stream a record goes to: that of its checksum, or the next free one.
RecordIdFor(registryId, checksum) ==
    IF <<registryId, checksum>> \in DOMAIN recordIdByRegistryAndChecksum
    THEN recordIdByRegistryAndChecksum[<<registryId, checksum>>]
    ELSE recordsCountByRegistry[registryId] + 1

\* A first version with index 0.
NextIndexFromZero(registryId, recordId) ==
    IF <<registryId, recordId>> \in DOMAIN recordIndices
    THEN recordIndices[<<registryId, recordId>>] + 1
    ELSE 0

NextIndex(registryId, recordId) ==
    IF <<registryId, recordId>> \in DOMAIN recordIndices
    THEN recordIndices[<<registryId, recordId>>] + 1
    ELSE 1

\* A store of the new version that forgets the previous one's flag.
StoreLatestOnly(rec) ==
    Put(records, <<rec.registryId, rec.recordId, rec.index>>, rec)

\* A store that writes the new version over the previous one as well.
StoreLatestClobbers(rec) ==
    LET prev == <<rec.registryId, rec.recordId, rec.index - 1>>
        stored == Put(records, <<rec.registryId, rec.recordId, rec.index>>, rec)
    IN  IF rec.index > 1
        THEN Put(stored, prev, [rec EXCEPT !.isLatest = FALSE])
        ELSE stored

\* Store the new version; the previous one is no longer the latest.
StoreLatest(rec) ==
    LET prev == <<rec.registryId, rec.recordId, rec.index - 1>>
        stored == Put(records, <<rec.registryId, rec.recordId, rec.index>>, rec)
    IN  IF rec.index > 1
        THEN Put(stored, prev, [stored[prev] EXCEPT !.isLatest = FALSE])
        ELSE stored

\* A registration of a new checksum that misses the checksum-first index.
IndexChecksumOneSided(registryId, checksum, recordId) ==
    /\ recordIdByRegistryAndChecksum' =
          Put(recordIdByRegistryAndChecksum, <<registryId, checksum>>, recordId)
    /\ UNCHANGED recordIdByChecksumAndRegistry

IndexChecksum(registryId, checksum, recordId) ==
    /\ recordIdByChecksumAndRegistry' =
          Put(recordIdByChecksumAndRegistry, <<checksum, registryId>>, recordId)
    /\ recordIdByRegistryAndChecksum' =
          Put(recordIdByRegistryAndChecksum, <<registryId, checksum>>, recordId)

AddRecord(sender, registryId, checksum, status) ==
    LET isNew == <<registryId, checksum>>
                    \notin DOMAIN recordIdByRegistryAndChecksum
        recordId == RecordIdFor(registryId, checksum)
        index == NextIndex(registryId, recordId)
    IN  /\ ValidateRecordForCreate(checksum, status)
        /\ registryId \in DOMAIN registries
        /\ checkPermission(sender, registryId, checksum)
        /\ isNew => registryId \in DOMAIN recordsCountByRegistry
        /\ index > 1 => <<registryId, recordId, index - 1>> \in DOMAIN records
        /\ Cardinality(DOMAIN records) < MaxVersions
        /\ IF isNew
           THEN /\ recordsCountByRegistry' =
                      Put(recordsCountByRegistry, registryId, recordId)
                /\ IndexChecksum(registryId, checksum, recordId)
           ELSE UNCHANGED <<recordsCountByRegistry,
                            recordIdByRegistryAndChecksum,
                            recordIdByChecksumAndRegistry>>
        /\ recordIndices' = Put(recordIndices, <<registryId, recordId>>, index)
        /\ records' = StoreLatest([registryId |-> registryId,
                                   recordId |-> recordId, index |-> index,
                                   checksum |-> checksum, status |-> status,
                                   isLatest |-> TRUE])
        /\ UNCHANGED <<admin, registries, registryCount, rbacVars>>

UpdateRecordStatus(sender, registryId, recordId, index, newStatus) ==
    LET key == <<registryId, recordId, index>>
    IN  /\ newStatus # NoStatus
        /\ key \in DOMAIN records
        /\ checkPermission(sender, registryId, records[key].checksum)
        /\ records' = Put(records, key,
                          [records[key] EXCEPT !.status = newStatus])
        /\ UNCHANGED <<admin, registries, registryCount,
                       recordIdByRegistryAndChecksum,
                       recordIdByChecksumAndRegistry, recordsCountByRegistry,
                       recordIndices, rbacVars>>

-----------------------------------------------------------------------------
(***************************************************************************)
(* Role administration and parameters                                      *)
(***************************************************************************)

isModuleAdmin(addr) == addr = admin

\* rbac.GrantRole and rbac.RevokeRole ask for the admin role of the role.
HoldsAdminOf(admins, role, addr) ==
    role \in DOMAIN admins /\ HasRole(admins[role], addr)

\* The break-glass path: the module admin makes anyone a registry admin.
BreakGlass(granter, checksum, role) ==
    /\ checksum = NoChecksum
    /\ role = RoleAdmin
    /\ isModuleAdmin(granter)

GrantRole(granter, grantee, registryId, checksum, role) ==
    LET scoped == scopedRole(registryId, checksum, role)
        admins == Put(roleAdmins, scoped, RegistryRole(registryId, RoleAdmin))
    IN  /\ ensureRoleScopeExists(registryId, checksum)
        /\ \/ BreakGlass(granter, checksum, role)
           \/ HoldsAdminOf(admins, scoped, granter)
        /\ Cardinality(roleMembers) < MaxMembers
        /\ roleAdmins' = admins
        /\ roleMembers' = roleMembers \cup {<<scoped, grantee>>}
        /\ UNCHANGED <<admin, registries, registryCount, recordVars>>

RevokeRole(revoker, revokee, registryId, checksum, role) ==
    LET scoped == scopedRole(registryId, checksum, role)
    IN  /\ ensureRoleScopeExists(registryId, checksum)
        /\ HasRole(scoped, revokee)
        /\ ~ (/\ ~ isRecordRole(registryId, checksum)
              /\ role = RoleAdmin
              /\ IsSoleAdmin(RegistryRole(registryId, RoleAdmin)))
        /\ HoldsAdminOf(roleAdmins, scoped, revoker)
        /\ roleMembers' = roleMembers \ {<<scoped, revokee>>}
        /\ UNCHANGED <<admin, registries, registryCount, recordVars, roleAdmins>>

UpdateParams(authority, newAdmin) ==
    /\ isModuleAdmin(authority)
    /\ admin' = IF newAdmin # NoAddr THEN newAdmin ELSE admin
    /\ UNCHANGED <<registries, registryCount, recordVars, rbacVars>>

RegistryIds == 1 .. MaxRegistries
ScopeChecksum == Checksum \cup {NoChecksum}

Next ==
    \/ \E sender \in Addr : AddRegistry(sender)
    \/ \E sender \in Addr, registryId \in RegistryIds,
          checksum \in ScopeChecksum, status \in Status \cup {NoStatus} :
             AddRecord(sender, registryId, checksum, status)
    \/ \E sender \in Addr, key \in DOMAIN records, status \in Status \cup {NoStatus} :
             UpdateRecordStatus(sender, key[1], key[2], key[3], status)
    \/ \E granter, grantee \in Addr, registryId \in RegistryIds,
          checksum \in ScopeChecksum, role \in RoleName :
             GrantRole(granter, grantee, registryId, checksum, role)
    \/ \E revoker, revokee \in Addr, registryId \in RegistryIds,
          checksum \in ScopeChecksum, role \in RoleName :
             RevokeRole(revoker, revokee, registryId, checksum, role)
    \/ \E authority \in Addr, newAdmin \in Addr \cup {NoAddr} :
             UpdateParams(authority, newAdmin)

Spec == Init /\ [][Next]_vars

-----------------------------------------------------------------------------
(***************************************************************************)
(* Properties                                                              *)
(***************************************************************************)

IsMap(f, keys, values) ==
    DOMAIN f \subseteq keys /\ f \in [DOMAIN f -> values]

\* The type invariant: what each collection of the keeper holds.
TypeOK ==
    /\ admin \in Addr
    /\ IsMap(registries, Id, Registry)
    /\ registryCount \in Nat
    /\ IsMap(records, Id \X Id \X Id, Record)
    /\ IsMap(recordIdByRegistryAndChecksum, Id \X Checksum, Id)
    /\ IsMap(recordIdByChecksumAndRegistry, Checksum \X Id, Id)
    /\ IsMap(recordsCountByRegistry, Id, Nat)
    /\ IsMap(recordIndices, Id \X Id, Id)
    /\ IsMap(roleAdmins, Role, Role)
    /\ roleMembers \subseteq Role \X Addr

\* Registry ids are 1, 2, ..., RegistryCount and each registry has a record
\* counter, so AddRegistry never reuses an id and AddRecord always finds its
\* counter (keeper/anchoring.go:17-54, 85-88).
RegistriesDense ==
    /\ DOMAIN registries = 1 .. registryCount
    /\ \A id \in DOMAIN registries : registries[id].id = id
    /\ DOMAIN recordsCountByRegistry = DOMAIN registries

\* The record ids of a registry are 1, ..., its record count, and the versions
\* of a record are 1, ..., RecordIndices: no version is ever missing or out of
\* the index, and each is stored under the key its own fields name
\* (keeper/anchoring.go:82-137).
StreamsDense ==
    /\ \A r \in DOMAIN registries : \A n \in 1 .. recordsCountByRegistry[r] :
          <<r, n>> \in DOMAIN recordIndices
    /\ \A s \in DOMAIN recordIndices :
          /\ s[1] \in DOMAIN registries
          /\ s[2] <= recordsCountByRegistry[s[1]]
          /\ \A i \in 1 .. recordIndices[s] : <<s[1], s[2], i>> \in DOMAIN records
    /\ \A key \in DOMAIN records :
          /\ <<key[1], key[2]>> \in DOMAIN recordIndices
          /\ key[3] <= recordIndices[<<key[1], key[2]>>]
          /\ key = <<records[key].registryId, records[key].recordId,
                     records[key].index>>

\* Of the versions of a record exactly one is flagged is_latest, and it is the
\* one RecordIndices points to, whatever order records are added and statuses
\* updated in (keeper/anchoring.go:119-137).
OneLatestVersion ==
    \A key \in DOMAIN records :
       records[key].isLatest <=> key[3] = recordIndices[<<key[1], key[2]>>]

\* The two checksum indexes mirror each other and name existing streams; every
\* version in a stream carries the stream's checksum and no checksum has two
\* streams in a registry: records are versioned per checksum within a registry
\* (keeper/anchoring.go:82-102).
OneStreamPerChecksum ==
    /\ \A k \in DOMAIN recordIdByRegistryAndChecksum :
          /\ <<k[2], k[1]>> \in DOMAIN recordIdByChecksumAndRegistry
          /\ recordIdByChecksumAndRegistry[<<k[2], k[1]>>] =
                recordIdByRegistryAndChecksum[k]
          /\ <<k[1], recordIdByRegistryAndChecksum[k]>> \in DOMAIN recordIndices
    /\ \A k \in DOMAIN recordIdByChecksumAndRegistry :
          <<k[2], k[1]>> \in DOMAIN recordIdByRegistryAndChecksum
    /\ \A key \in DOMAIN records, c \in Checksum :
          records[key].checksum = c <=>
             /\ <<key[1], c>> \in DOMAIN recordIdByRegistryAndChecksum
             /\ recordIdByRegistryAndChecksum[<<key[1], c>>] = key[2]

\* No sequence of grants, revocations and module-admin changes leaves a
\* registry without an admin: RevokeRole refuses the last one
\* (keeper/msg_server.go:210-222).
RegistryHasAdmin ==
    \A id \in DOMAIN registries :
       Members(RegistryRole(id, RoleAdmin)) # {}

\* Every role that somebody holds is a role of an existing registry, and its
\* admin role is that registry's admin role; with RegistryHasAdmin, somebody
\* can revoke it, so RevokeRole never fails with "role admin not configured"
\* for a role that is held (keeper/msg_server.go:150-154, rbac/keeper.go:64-73).
HeldRolesRevocable ==
    \A m \in roleMembers :
       /\ m[1].registryId \in DOMAIN registries
       /\ m[1] \in DOMAIN roleAdmins
       /\ roleAdmins[m[1]] = RegistryRole(m[1].registryId, RoleAdmin)

\* What a step may do to existing registries and record versions; the counter
\* moves with each new registry and only then.
AddOnlyStep ==
    /\ \A id \in DOMAIN registries :
          id \in DOMAIN registries' /\ registries'[id] = registries[id]
    /\ Cardinality(DOMAIN registries') - Cardinality(DOMAIN registries) =
          registryCount' - registryCount
    /\ \A key \in DOMAIN records :
          /\ key \in DOMAIN records'
          /\ \E status \in Status, latest \in {FALSE, records[key].isLatest} :
                records'[key] = [records[key] EXCEPT !.status = status,
                                                     !.isLatest = latest]

\* Registries and record versions are add-only: a later step changes of an
\* existing version at most the status and the is_latest flag, and the flag
\* only from true to false (keeper/anchoring.go:121-137, 166-169).
AddOnly == [][AddOnlyStep]_vars

\* Who may add a record with a given checksum to a registry.
Writers(registryId, checksum) ==
    {addr \in Addr : checkPermission(addr, registryId, checksum)}

\* Registries do not interfere: a step changes the authority over the records
\* of at most one registry, so a grant in one registry gives no right in
\* another one that holds the same checksum (keeper/keeper.go:187-196).
AuthorityIsolated ==
    [][\A r1, r2 \in RegistryIds :
          r1 # r2 =>
             \/ \A c \in Checksum : Writers(r1, c)' = Writers(r1, c)
             \/ \A c \in Checksum : Writers(r2, c)' = Writers(r2, c)]_vars
=============================================================================
