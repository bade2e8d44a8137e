---------------------------- MODULE AnchoringProofs ----------------------------
(***************************************************************************)
(* Proofs about Anchoring, for every set of addresses, checksums, role     *)
(* names and statuses and every value of the bounds.                       *)
(***************************************************************************)
EXTENDS Anchoring, FiniteSetTheorems, TLAPS

(***************************************************************************)
(* Lemmas about the collections                                            *)
(***************************************************************************)

\* What Put (collections.Map.Set) does to the domain and to each entry.
LEMMA PutEntries ==
    ASSUME NEW f, NEW key, NEW value
    PROVE  /\ DOMAIN Put(f, key, value) = DOMAIN f \cup {key}
           /\ Put(f, key, value)[key] = value
           /\ \A k \in DOMAIN f : k # key => Put(f, key, value)[k] = f[k]
  BY DEF Put

\* Put keeps a map well typed.
LEMMA PutIsMap ==
    ASSUME NEW keys, NEW values, NEW f, IsMap(f, keys, values),
           NEW key \in keys, NEW value \in values
    PROVE  IsMap(Put(f, key, value), keys, values)
  BY DEF Put, IsMap

\* A role built by scopedRole is a role.
LEMMA RoleType ==
    ASSUME NEW r \in Id, NEW c \in ScopeChecksum, NEW n \in RoleName
    PROVE  /\ RegistryRole(r, n) \in Role
           /\ RecordRole(r, c, n) \in Role
           /\ scopedRole(r, c, n) = [registryId |-> r, checksum |-> c, role |-> n]
  BY DEF RegistryRole, RecordRole, scopedRole, isRecordRole, Role, ScopeChecksum, Id

\* A function has finitely many values on a finite set.
LEMMA FiniteValues ==
    ASSUME NEW S, IsFiniteSet(S), NEW f
    PROVE  IsFiniteSet({f[x] : x \in S})
  <1> DEFINE T == {f[x] : x \in S}
             h == [x \in S |-> f[x]]
  <1>1. h \in [S -> T] /\ \A t \in T : \E x \in S : h[x] = t
    OBVIOUS
  <1> HIDE DEF h, T
  <1>2. h \in Surjection(S, T)
    BY <1>1 DEF Surjection
  <1>3. IsFiniteSet(T)
    BY <1>2, FS_Surjection
  <1> QED BY <1>3 DEF T

-----------------------------------------------------------------------------
(***************************************************************************)
(* Type correctness                                                        *)
(***************************************************************************)

\* The empty collections have their types.
LEMMA InitType == Init => TypeOK
  BY DEF Init, TypeOK, IsMap, EmptyMap

\* AddRegistry stores a registry and its admin role under ids of the right type
\* (keeper/anchoring.go:17-54).
LEMMA AddRegistryType ==
    ASSUME TypeOK, NEW sender \in Addr, AddRegistry(sender)
    PROVE  TypeOK'
  <1> DEFINE registryId == registryCount + 1
             adminRole == RegistryRole(registryId, RoleAdmin)
  <1>1. registryId \in Id
    BY DEF TypeOK, Id
  <1>2. adminRole \in Role
    BY <1>1, RoleAssumption DEF RegistryRole, Role
  <1>3. [id |-> registryId, creator |-> sender] \in Registry
    BY <1>1 DEF Registry
  <1>4. IsMap(registries, Id, Registry)'
    BY <1>1, <1>3, PutIsMap DEF TypeOK, AddRegistry
  <1>5. IsMap(roleAdmins, Role, Role)'
    BY <1>2, PutIsMap DEF TypeOK, AddRegistry
  <1>6. IsMap(recordsCountByRegistry, Id, Nat)'
    BY <1>1, PutIsMap DEF TypeOK, AddRegistry, initializeRegistryRecordCounter
  <1>7. roleMembers' \subseteq Role \X Addr
    BY <1>2 DEF TypeOK, AddRegistry
  <1>8. registryCount' \in Nat
    BY DEF TypeOK, AddRegistry
  <1> QED
    BY <1>4, <1>5, <1>6, <1>7, <1>8 DEF TypeOK, AddRegistry

\* The record id and index AddRecord picks.
LEMMA AddRecordKey ==
    ASSUME TypeOK, NEW r \in Id, NEW c \in Checksum,
           <<r, c>> \notin DOMAIN recordIdByRegistryAndChecksum
              => r \in DOMAIN recordsCountByRegistry
    PROVE  /\ RecordIdFor(r, c) \in Id
           /\ NextIndex(r, RecordIdFor(r, c)) \in Id
  <1>1. RecordIdFor(r, c) \in Id
    BY DEF TypeOK, IsMap, RecordIdFor, Id
  <1> QED
    BY <1>1 DEF TypeOK, IsMap, NextIndex, Id

\* What StoreLatest does to the collection of records.
KeyOf(rec) == <<rec.registryId, rec.recordId, rec.index>>
PrevOf(rec) == <<rec.registryId, rec.recordId, rec.index - 1>>

\* What storing a version changes: its own key, and the flag of the previous
\* version (keeper/anchoring.go:119-137).
LEMMA StoreLatestEntries ==
    ASSUME NEW rec \in Record, IsMap(records, Id \X Id \X Id, Record),
           rec.index > 1 => PrevOf(rec) \in DOMAIN records
    PROVE  /\ IsMap(StoreLatest(rec), Id \X Id \X Id, Record)
           /\ DOMAIN StoreLatest(rec) = DOMAIN records \cup {KeyOf(rec)}
           /\ StoreLatest(rec)[KeyOf(rec)] = rec
           /\ rec.index > 1 =>
                 StoreLatest(rec)[PrevOf(rec)] =
                    [records[PrevOf(rec)] EXCEPT !.isLatest = FALSE]
           /\ \A k \in DOMAIN records :
                 k # KeyOf(rec) /\ (rec.index > 1 => k # PrevOf(rec))
                    => StoreLatest(rec)[k] = records[k]
  <1> DEFINE key == KeyOf(rec)
             prev == PrevOf(rec)
             stored == Put(records, key, rec)
             demoted == [stored[prev] EXCEPT !.isLatest = FALSE]
  <1>1. key \in Id \X Id \X Id /\ key # prev
    BY DEF Record, Id, KeyOf, PrevOf
  <1>2. IsMap(stored, Id \X Id \X Id, Record)
    BY <1>1, PutIsMap, ZenonT(20)
  <1>3. /\ DOMAIN stored = DOMAIN records \cup {key}
        /\ stored[key] = rec
        /\ \A k \in DOMAIN records : k # key => stored[k] = records[k]
    BY DEF Put
  <1>4. CASE rec.index > 1
    <2>1. StoreLatest(rec) = Put(stored, prev, demoted)
      BY <1>4 DEF StoreLatest, KeyOf, PrevOf
    <2>2. prev \in DOMAIN records /\ stored[prev] = records[prev]
      BY <1>1, <1>3, <1>4
    <2>3. prev \in Id \X Id \X Id /\ records[prev] \in Record
      BY <2>2 DEF IsMap
    <2>4. demoted \in Record
      BY <2>2, <2>3, ZenonT(20) DEF Record
    <2>5. IsMap(StoreLatest(rec), Id \X Id \X Id, Record)
      BY <1>2, <2>1, <2>3, <2>4, PutIsMap
    <2>6. /\ DOMAIN StoreLatest(rec) = DOMAIN stored \cup {prev}
          /\ StoreLatest(rec)[prev] = demoted
          /\ \A k \in DOMAIN stored : k # prev => StoreLatest(rec)[k] = stored[k]
      BY <2>1 DEF Put
    <2> HIDE DEF stored
    <2> QED
      BY <1>1, <1>3, <1>4, <2>2, <2>5, <2>6
  <1>5. CASE ~ (rec.index > 1)
    <2>1. StoreLatest(rec) = stored
      BY <1>5 DEF StoreLatest, KeyOf
    <2> QED
      BY <1>2, <1>3, <1>5, <2>1
  <1> QED
    BY <1>4, <1>5

\* AddRecord keeps the types of the seven entries it writes (keeper/anchoring.go:67-140).
LEMMA AddRecordType ==
    ASSUME TypeOK, NEW sender \in Addr, NEW r \in RegistryIds,
           NEW c \in ScopeChecksum, NEW status \in Status \cup {NoStatus},
           AddRecord(sender, r, c, status)
    PROVE  TypeOK'
  <1> DEFINE recordId == RecordIdFor(r, c)
             index == NextIndex(r, recordId)
             rec == [registryId |-> r, recordId |-> recordId, index |-> index,
                     checksum |-> c, status |-> status, isLatest |-> TRUE]
  <1>1. r \in Id /\ c \in Checksum /\ status \in Status
    BY BoundAssumption DEF AddRecord, ValidateRecordForCreate, RegistryIds, Id,
       ScopeChecksum
  <1>2. recordId \in Id /\ index \in Id
    BY <1>1, AddRecordKey DEF AddRecord
  <1>3. rec \in Record
    BY <1>1, <1>2 DEF Record
  <1>4. records' = StoreLatest(rec)
    BY DEF AddRecord
  <1>5. index > 1 => <<r, recordId, index - 1>> \in DOMAIN records
    BY DEF AddRecord
  <1>6. IsMap(records, Id \X Id \X Id, Record)'
    <2>1. rec.index > 1 => PrevOf(rec) \in DOMAIN records
      BY <1>5 DEF PrevOf
    <2> HIDE DEF rec
    <2> QED BY <1>3, <1>4, <2>1, StoreLatestEntries, ZenonT(20) DEF TypeOK
  <1>7. IsMap(recordIndices, Id \X Id, Id)'
    BY <1>1, <1>2, PutIsMap, ZenonT(20) DEF TypeOK, AddRecord
  <1>8. CASE <<r, c>> \notin DOMAIN recordIdByRegistryAndChecksum
    <2>1. IsMap(recordsCountByRegistry, Id, Nat)'
      BY <1>1, <1>2, <1>8 DEF TypeOK, AddRecord, Id, IsMap, Put
    <2>2. IsMap(recordIdByRegistryAndChecksum, Id \X Checksum, Id)'
      BY <1>1, <1>2, <1>8, PutIsMap DEF TypeOK, AddRecord, IndexChecksum
    <2>3. IsMap(recordIdByChecksumAndRegistry, Checksum \X Id, Id)'
      BY <1>1, <1>2, <1>8, PutIsMap DEF TypeOK, AddRecord, IndexChecksum
    <2> QED
      BY <1>6, <1>7, <2>1, <2>2, <2>3 DEF TypeOK, AddRecord, rbacVars
  <1>9. CASE <<r, c>> \in DOMAIN recordIdByRegistryAndChecksum
    BY <1>6, <1>7, <1>9 DEF TypeOK, AddRecord, rbacVars
  <1> QED
    BY <1>8, <1>9

\* UpdateRecordStatus replaces a status by a status (keeper/anchoring.go:152-183).
LEMMA UpdateRecordStatusType ==
    ASSUME TypeOK, NEW sender \in Addr, NEW key \in DOMAIN records,
           NEW status \in Status \cup {NoStatus},
           UpdateRecordStatus(sender, key[1], key[2], key[3], status)
    PROVE  TypeOK'
  <1>1. key \in Id \X Id \X Id /\ records[key] \in Record
    BY DEF TypeOK, IsMap
  <1>2. <<key[1], key[2], key[3]>> = key
    BY <1>1
  <1>3. [records[key] EXCEPT !.status = status] \in Record
    BY <1>1 DEF UpdateRecordStatus, Record
  <1>4. records' = Put(records, key, [records[key] EXCEPT !.status = status])
    BY <1>2 DEF UpdateRecordStatus
  <1>5. IsMap(records, Id \X Id \X Id, Record)'
    BY <1>1, <1>3, <1>4, PutIsMap, ZenonT(20) DEF TypeOK
  <1> QED
    BY <1>5 DEF TypeOK, UpdateRecordStatus, rbacVars

\* GrantRole writes a role, its admin role and a member (keeper/msg_server.go:125-176).
LEMMA GrantRoleType ==
    ASSUME TypeOK, NEW granter \in Addr, NEW grantee \in Addr,
           NEW r \in RegistryIds, NEW c \in ScopeChecksum, NEW n \in RoleName,
           GrantRole(granter, grantee, r, c, n)
    PROVE  TypeOK'
  <1>1. r \in Id
    BY BoundAssumption DEF RegistryIds, Id
  <1>2. scopedRole(r, c, n) \in Role /\ RegistryRole(r, RoleAdmin) \in Role
    BY <1>1, RoleType, RoleAssumption DEF Role, ScopeChecksum
  <1>3. IsMap(roleAdmins, Role, Role)'
    BY <1>2, PutIsMap DEF TypeOK, GrantRole
  <1>4. roleMembers' \subseteq Role \X Addr
    BY <1>2 DEF TypeOK, GrantRole
  <1> QED
    BY <1>3, <1>4 DEF TypeOK, GrantRole, recordVars

\* RevokeRole only removes a member (keeper/msg_server.go:178-229).
LEMMA RevokeRoleType ==
    ASSUME TypeOK, NEW revoker, NEW revokee, NEW r, NEW c, NEW n,
           RevokeRole(revoker, revokee, r, c, n)
    PROVE  TypeOK'
  BY DEF TypeOK, RevokeRole, recordVars

\* UpdateParams stores an address as admin (keeper/msg_update_params.go).
LEMMA UpdateParamsType ==
    ASSUME TypeOK, NEW authority, NEW newAdmin \in Addr \cup {NoAddr},
           UpdateParams(authority, newAdmin)
    PROVE  TypeOK'
  BY DEF TypeOK, UpdateParams, recordVars, rbacVars

\* Every message keeps the types.
LEMMA TypeStep == TypeOK /\ [Next]_vars => TypeOK'
  <1> SUFFICES ASSUME TypeOK, [Next]_vars
               PROVE  TypeOK'
    OBVIOUS
  <1>1. CASE UNCHANGED vars
    BY <1>1 DEF TypeOK, vars, recordVars, rbacVars
  <1>2. CASE Next
    BY <1>2, AddRegistryType, AddRecordType, UpdateRecordStatusType,
       GrantRoleType, RevokeRoleType, UpdateParamsType DEF Next
  <1> QED
    BY <1>1, <1>2

\* Every message handler keeps the collections of the keeper well typed.
THEOREM TypeCorrect == Spec => []TypeOK
  BY InitType, TypeStep, PTL DEF Spec

-----------------------------------------------------------------------------
(***************************************************************************)
(* Roles: a registry always has an admin, and held roles can be revoked    *)
(***************************************************************************)

RoleInv == HeldRolesRevocable /\ RegistryHasAdmin

\* Handlers that touch neither the registries nor the roles keep RoleInv.
LEMMA RoleInvUnchanged ==
    ASSUME RoleInv, UNCHANGED <<registries, roleAdmins, roleMembers>>
    PROVE  RoleInv'
  BY ZenonT(20) DEF RoleInv, HeldRolesRevocable, RegistryHasAdmin, Members, HasRole

\* More members never take a registry's admin away.
LEMMA AddRegistryRoles ==
    ASSUME TypeOK, RoleInv, NEW sender \in Addr, AddRegistry(sender)
    PROVE  RoleInv'
  <1> DEFINE registryId == registryCount + 1
             adminRole == RegistryRole(registryId, RoleAdmin)
  <1>1. /\ DOMAIN registries' = DOMAIN registries \cup {registryId}
        /\ DOMAIN roleAdmins' = DOMAIN roleAdmins \cup {adminRole}
        /\ roleAdmins'[adminRole] = adminRole
        /\ \A k \in DOMAIN roleAdmins : k # adminRole => roleAdmins'[k] = roleAdmins[k]
        /\ roleMembers' = roleMembers \cup {<<adminRole, sender>>}
    BY DEF AddRegistry, Put
  <1>2. adminRole.registryId = registryId
    BY DEF RegistryRole
  <1>3. HeldRolesRevocable'
    BY <1>1, <1>2 DEF RoleInv, HeldRolesRevocable
  <1>4. RegistryHasAdmin'
    BY <1>1 DEF RoleInv, RegistryHasAdmin, Members, HasRole
  <1> QED
    BY <1>3, <1>4 DEF RoleInv

\* GrantRole sets the admin of the role before it adds the member, so a held role
\* has one (keeper/msg_server.go:150-154).
LEMMA GrantRoleRoles ==
    ASSUME TypeOK, RoleInv, NEW granter \in Addr, NEW grantee \in Addr,
           NEW r \in RegistryIds, NEW c \in ScopeChecksum, NEW n \in RoleName,
           GrantRole(granter, grantee, r, c, n)
    PROVE  RoleInv'
  <1> DEFINE scoped == scopedRole(r, c, n)
  <1>1. /\ registries' = registries
        /\ DOMAIN roleAdmins' = DOMAIN roleAdmins \cup {scoped}
        /\ roleAdmins'[scoped] = RegistryRole(r, RoleAdmin)
        /\ \A k \in DOMAIN roleAdmins : k # scoped => roleAdmins'[k] = roleAdmins[k]
        /\ roleMembers' = roleMembers \cup {<<scoped, grantee>>}
        /\ r \in DOMAIN registries
    BY DEF GrantRole, Put, ensureRoleScopeExists
  <1>2. r \in Id
    BY BoundAssumption DEF RegistryIds, Id
  <1>3. scoped.registryId = r
    BY <1>2, RoleType
  <1>4. HeldRolesRevocable'
    <2> HIDE DEF scoped
    <2> QED BY <1>1, <1>3 DEF RoleInv, HeldRolesRevocable
  <1>5. RegistryHasAdmin'
    BY <1>1 DEF RoleInv, RegistryHasAdmin, Members, HasRole
  <1> QED
    BY <1>4, <1>5 DEF RoleInv

\* Only the revocation of an admin can empty a registry's admins, and then
\* IsSoleAdmin leaves another one.
LEMMA RevokeRoleRoles ==
    ASSUME TypeOK, RoleInv, NEW revoker \in Addr, NEW revokee \in Addr,
           NEW r \in RegistryIds, NEW c \in ScopeChecksum, NEW n \in RoleName,
           RevokeRole(revoker, revokee, r, c, n)
    PROVE  RoleInv'
  <1> DEFINE scoped == scopedRole(r, c, n)
  <1>1. /\ registries' = registries
        /\ roleAdmins' = roleAdmins
        /\ roleMembers' = roleMembers \ {<<scoped, revokee>>}
        /\ HasRole(scoped, revokee)
    BY DEF RevokeRole
  <1>2. r \in Id
    BY BoundAssumption DEF RegistryIds, Id
  <1>3. scoped = [registryId |-> r, checksum |-> c, role |-> n]
    BY <1>2, RoleType
  <1>4. HeldRolesRevocable'
    BY <1>1 DEF RoleInv, HeldRolesRevocable
  <1>5. ASSUME NEW id \in DOMAIN registries
        PROVE  Members(RegistryRole(id, RoleAdmin))' # {}
    <2> DEFINE adminRole == RegistryRole(id, RoleAdmin)
    <2>1. PICK addr \in Addr : <<adminRole, addr>> \in roleMembers
      BY ZenonT(20) DEF RoleInv, RegistryHasAdmin, Members, HasRole
    <2>2. CASE scoped # adminRole
      BY <1>1, <2>1, <2>2 DEF Members, HasRole
    <2>3. CASE scoped = adminRole
      <3>1. r = id /\ c = NoChecksum /\ n = RoleAdmin
        BY <1>3, <2>3 DEF RegistryRole
      <3>2. Cardinality(Members(adminRole)) # 1
        BY <3>1 DEF RevokeRole, isRecordRole, IsSoleAdmin
      <3>3. Members(adminRole) # {revokee}
        BY <3>2, FS_Singleton, ZenonT(20)
      <3>4. revokee \in Members(adminRole)
        BY <1>1, <2>3 DEF Members
      <3>5. PICK other \in Members(adminRole) : other # revokee
        BY <3>3, <3>4
      <3>6. <<adminRole, other>> \in roleMembers'
        BY <1>1, <3>5 DEF Members, HasRole
      <3> QED
        BY <3>5, <3>6 DEF Members, HasRole
    <2> QED
      BY <2>2, <2>3
  <1>6. RegistryHasAdmin'
    BY <1>1, <1>5 DEF RegistryHasAdmin
  <1> QED
    BY <1>4, <1>6 DEF RoleInv

\* Every message keeps RoleInv.
LEMMA RoleStep == TypeOK /\ RoleInv /\ [Next]_vars => RoleInv'
  <1> SUFFICES ASSUME TypeOK, RoleInv, [Next]_vars
               PROVE  RoleInv'
    OBVIOUS
  <1>1. ASSUME NEW sender \in Addr, AddRegistry(sender)
        PROVE  RoleInv'
    BY <1>1, AddRegistryRoles
  <1>2. ASSUME NEW sender, NEW r, NEW c, NEW status, AddRecord(sender, r, c, status)
        PROVE  RoleInv'
    BY <1>2, RoleInvUnchanged DEF AddRecord, rbacVars
  <1>3. ASSUME NEW sender, NEW r, NEW n, NEW i, NEW status,
               UpdateRecordStatus(sender, r, n, i, status)
        PROVE  RoleInv'
    BY <1>3, RoleInvUnchanged DEF UpdateRecordStatus, rbacVars
  <1>4. ASSUME NEW authority, NEW newAdmin, UpdateParams(authority, newAdmin)
        PROVE  RoleInv'
    BY <1>4, RoleInvUnchanged DEF UpdateParams, rbacVars
  <1>5. CASE UNCHANGED vars
    BY <1>5, RoleInvUnchanged DEF vars, rbacVars
  <1> QED
    BY <1>1, <1>2, <1>3, <1>4, <1>5, GrantRoleRoles, RevokeRoleRoles DEF Next

\* RoleInv holds in every reachable state.
LEMMA RoleInvariant == Spec => []RoleInv
  <1>1. Init => RoleInv
    BY DEF Init, EmptyMap, RoleInv, HeldRolesRevocable, RegistryHasAdmin
  <1> QED
    BY <1>1, RoleStep, TypeCorrect, PTL DEF Spec

\* No registry is ever left without an admin.
THEOREM AdminAlways == Spec => []RegistryHasAdmin
  <1>1. RoleInv => RegistryHasAdmin
    BY DEF RoleInv
  <1> QED
    BY <1>1, RoleInvariant, PTL

\* Every role somebody holds is administered by the admins of its registry.
THEOREM RevocableAlways == Spec => []HeldRolesRevocable
  <1>1. RoleInv => HeldRolesRevocable
    BY DEF RoleInv
  <1> QED
    BY <1>1, RoleInvariant, PTL

-----------------------------------------------------------------------------
(***************************************************************************)
(* Records: streams are dense, have one checksum and one latest version    *)
(***************************************************************************)

RecordInv ==
    /\ RegistriesDense
    /\ StreamsDense
    /\ OneLatestVersion
    /\ OneStreamPerChecksum

\* Handlers that touch neither registries nor records keep RecordInv.
LEMMA RecordInvUnchanged ==
    ASSUME RecordInv, UNCHANGED <<registries, registryCount, recordVars>>
    PROVE  RecordInv'
  BY DEF RecordInv, RegistriesDense, StreamsDense, OneLatestVersion,
         OneStreamPerChecksum, recordVars

\* A new registry takes the next id, with a counter of its own and no record
\* (keeper/anchoring.go:17-54).
LEMMA AddRegistryRecords ==
    ASSUME TypeOK, RecordInv, NEW sender \in Addr, AddRegistry(sender)
    PROVE  RecordInv'
  <1> DEFINE registryId == registryCount + 1
  <1>1. /\ DOMAIN registries' = DOMAIN registries \cup {registryId}
        /\ registries'[registryId].id = registryId
        /\ \A k \in DOMAIN registries : k # registryId => registries'[k] = registries[k]
        /\ DOMAIN recordsCountByRegistry' =
              DOMAIN recordsCountByRegistry \cup {registryId}
        /\ recordsCountByRegistry'[registryId] = 0
        /\ \A k \in DOMAIN recordsCountByRegistry :
              k # registryId => recordsCountByRegistry'[k] = recordsCountByRegistry[k]
        /\ registryCount' = registryId
        /\ UNCHANGED <<records, recordIdByRegistryAndChecksum,
                       recordIdByChecksumAndRegistry, recordIndices>>
    BY DEF AddRegistry, Put, initializeRegistryRecordCounter
  <1>2. registryId \notin DOMAIN registries /\ registryCount \in Nat
    BY DEF TypeOK, RecordInv, RegistriesDense
  <1>3. RegistriesDense'
    BY <1>1, <1>2 DEF RecordInv, RegistriesDense
  <1>4. StreamsDense'
    BY <1>1, <1>2 DEF RecordInv, RegistriesDense, StreamsDense
  <1>5. OneLatestVersion' /\ OneStreamPerChecksum'
    BY <1>1, SMTT(30) DEF RecordInv, OneLatestVersion, OneStreamPerChecksum
  <1> QED
    BY <1>3, <1>4, <1>5 DEF RecordInv

\* A status update moves no id, index or flag (keeper/anchoring.go:152-183).
LEMMA UpdateRecordStatusRecords ==
    ASSUME TypeOK, RecordInv, NEW sender \in Addr, NEW key \in DOMAIN records,
           NEW status \in Status \cup {NoStatus},
           UpdateRecordStatus(sender, key[1], key[2], key[3], status)
    PROVE  RecordInv'
  <1>1. key \in Id \X Id \X Id /\ records[key] \in Record
    BY DEF TypeOK, IsMap
  <1>2. records' = Put(records, key, [records[key] EXCEPT !.status = status])
    BY <1>1 DEF UpdateRecordStatus
  <1>3. /\ DOMAIN records' = DOMAIN records
        /\ \A k \in DOMAIN records :
              /\ records'[k].registryId = records[k].registryId
              /\ records'[k].recordId = records[k].recordId
              /\ records'[k].index = records[k].index
              /\ records'[k].checksum = records[k].checksum
              /\ records'[k].isLatest = records[k].isLatest
    BY <1>1, <1>2, SMTT(30) DEF Put, Record
  <1>4. UNCHANGED <<registries, registryCount, recordIdByRegistryAndChecksum,
                    recordIdByChecksumAndRegistry, recordsCountByRegistry,
                    recordIndices>>
    BY DEF UpdateRecordStatus
  <1> QED
    BY <1>3, <1>4, SMTT(30) DEF RecordInv, RegistriesDense, StreamsDense,
       OneLatestVersion, OneStreamPerChecksum

\* What AddRecord does in a state that satisfies the invariant: the new
\* version's key is fresh; it opens the registry's next stream, or follows the
\* latest version of the stream of its checksum.
AddedRecord(r, c, status) ==
    [registryId |-> r, recordId |-> RecordIdFor(r, c),
     index |-> NextIndex(r, RecordIdFor(r, c)),
     checksum |-> c, status |-> status, isLatest |-> TRUE]

\* The stream AddRecord extends: an existing one, whose next version is free, or a
\* new one under the next record id.
StreamExtended(r, c, status, n, i) ==
    /\ r \in Id /\ n \in Id /\ i \in Id
    /\ r \in DOMAIN registries
    /\ c \in Checksum /\ status \in Status
    /\ \/ /\ <<r, c>> \notin DOMAIN recordIdByRegistryAndChecksum
          /\ n = recordsCountByRegistry[r] + 1
          /\ <<r, n>> \notin DOMAIN recordIndices
          /\ i = 1
       \/ /\ <<r, c>> \in DOMAIN recordIdByRegistryAndChecksum
          /\ n = recordIdByRegistryAndChecksum[<<r, c>>]
          /\ <<r, n>> \in DOMAIN recordIndices
          /\ n <= recordsCountByRegistry[r]
          /\ i = recordIndices[<<r, n>>] + 1
          /\ i > 1
    /\ <<r, n, i>> \notin DOMAIN records
    /\ i > 1 => <<r, n, i - 1>> \in DOMAIN records
    /\ recordsCountByRegistry[r] \in Nat

\* AddRecord extends a stream (keeper/anchoring.go:82-118).
LEMMA AddRecordEffect ==
    ASSUME TypeOK, RecordInv, NEW sender \in Addr, NEW r \in RegistryIds,
           NEW c \in ScopeChecksum, NEW status \in Status \cup {NoStatus},
           AddRecord(sender, r, c, status),
           NEW n, n = RecordIdFor(r, c), NEW i, i = NextIndex(r, n)
    PROVE  StreamExtended(r, c, status, n, i)
  <1>1. r \in Id /\ c \in Checksum /\ status \in Status /\ r \in DOMAIN registries
    <2>1. ValidateRecordForCreate(c, status) /\ r \in DOMAIN registries
      BY Zenon DEF AddRecord
    <2>2. r \in Id
      BY BoundAssumption DEF RegistryIds, Id
    <2> QED BY <2>1, <2>2 DEF ValidateRecordForCreate, ScopeChecksum
  <1>2. n \in Id /\ i \in Id
    BY <1>1, AddRecordKey, Zenon DEF AddRecord
  <1>3. recordsCountByRegistry[r] \in Nat
    BY <1>1, SMTT(30) DEF TypeOK, IsMap, RecordInv, RegistriesDense
  <1>4. CASE <<r, c>> \notin DOMAIN recordIdByRegistryAndChecksum
    <2>1. n = recordsCountByRegistry[r] + 1
      BY <1>4 DEF RecordIdFor
    <2>2. <<r, n>> \notin DOMAIN recordIndices
      BY <1>3, <2>1 DEF RecordInv, StreamsDense
    <2>3. i = 1
      BY <2>2, SMTT(30) DEF NextIndex
    <2>4. <<r, n, i>> \notin DOMAIN records
      BY <2>2 DEF RecordInv, StreamsDense
    <2> QED
      BY <1>1, <1>2, <1>3, <1>4, <2>1, <2>2, <2>3, <2>4 DEF StreamExtended
  <1>5. CASE <<r, c>> \in DOMAIN recordIdByRegistryAndChecksum
    <2>1. n = recordIdByRegistryAndChecksum[<<r, c>>]
      BY <1>5, Zenon DEF RecordIdFor
    <2>2. <<r, n>> \in DOMAIN recordIndices
      BY <1>5, <2>1, ZenonT(20) DEF RecordInv, OneStreamPerChecksum
    <2>3. i = recordIndices[<<r, n>>] + 1 /\ recordIndices[<<r, n>>] \in Id
      BY <2>2 DEF NextIndex, TypeOK, IsMap
    <2>4. n <= recordsCountByRegistry[r]
      BY <2>2 DEF RecordInv, StreamsDense
    <2>5. <<r, n, i>> \notin DOMAIN records
      BY <2>3 DEF RecordInv, StreamsDense, Id
    <2>6. <<r, n, i - 1>> \in DOMAIN records
      BY <2>2, <2>3 DEF RecordInv, StreamsDense, Id
    <2> QED
      BY <1>1, <1>2, <1>3, <1>5, <2>1, <2>2, <2>3, <2>4, <2>5, <2>6, SMTT(30)
         DEF Id, StreamExtended
  <1> QED
    BY <1>4, <1>5

\* AddRecord keeps counters, indexes, flags and versions in agreement
\* (keeper/anchoring.go:67-140).
LEMMA AddRecordRecords ==
    ASSUME TypeOK, RecordInv, NEW sender \in Addr, NEW r \in RegistryIds,
           NEW c \in ScopeChecksum, NEW status \in Status \cup {NoStatus},
           AddRecord(sender, r, c, status)
    PROVE  RecordInv'
  <1> DEFINE n == RecordIdFor(r, c)
             i == NextIndex(r, n)
             key == <<r, n, i>>
             prev == <<r, n, i - 1>>
             rec == AddedRecord(r, c, status)
             isNew == <<r, c>> \notin DOMAIN recordIdByRegistryAndChecksum
  <1>1. /\ r \in Id /\ n \in Id /\ i \in Id
        /\ r \in DOMAIN registries
        /\ c \in Checksum /\ status \in Status
        /\ isNew => /\ n = recordsCountByRegistry[r] + 1
                    /\ <<r, n>> \notin DOMAIN recordIndices
                    /\ i = 1
        /\ ~ isNew => /\ n = recordIdByRegistryAndChecksum[<<r, c>>]
                      /\ <<r, n>> \in DOMAIN recordIndices
                      /\ n <= recordsCountByRegistry[r]
                      /\ i = recordIndices[<<r, n>>] + 1
                      /\ i > 1
        /\ key \notin DOMAIN records
        /\ i > 1 => prev \in DOMAIN records
        /\ recordsCountByRegistry[r] \in Nat
    <2>1. StreamExtended(r, c, status, n, i)
      BY AddRecordEffect, Zenon
    <2> HIDE DEF n, i
    <2> QED BY <2>1, SMTT(30) DEF StreamExtended
  <1>2. /\ rec.registryId = r /\ rec.recordId = n /\ rec.index = i
        /\ rec.checksum = c /\ rec.isLatest = TRUE
        /\ rec \in Record
        /\ KeyOf(rec) = key /\ PrevOf(rec) = prev
    BY <1>1, ZenonT(20) DEF AddedRecord, Record, KeyOf, PrevOf
  <1>3. records' = StoreLatest(rec)
    BY ZenonT(20) DEF AddRecord, AddedRecord
  <1>4. /\ DOMAIN recordIndices' = DOMAIN recordIndices \cup {<<r, n>>}
        /\ recordIndices'[<<r, n>>] = i
        /\ \A k \in DOMAIN recordIndices :
              k # <<r, n>> => recordIndices'[k] = recordIndices[k]
    BY SMTT(30) DEF AddRecord, Put
  <1>5. /\ registries' = registries /\ registryCount' = registryCount
        /\ isNew =>
              /\ recordsCountByRegistry' = Put(recordsCountByRegistry, r, n)
              /\ recordIdByRegistryAndChecksum' =
                    Put(recordIdByRegistryAndChecksum, <<r, c>>, n)
              /\ recordIdByChecksumAndRegistry' =
                    Put(recordIdByChecksumAndRegistry, <<c, r>>, n)
        /\ ~ isNew => UNCHANGED <<recordsCountByRegistry,
                                  recordIdByRegistryAndChecksum,
                                  recordIdByChecksumAndRegistry>>
    BY DEF AddRecord, IndexChecksum
  <1> HIDE DEF n, i, rec
  <1>6. /\ DOMAIN records' = DOMAIN records \cup {key}
        /\ records'[key] = rec
        /\ i > 1 => records'[prev] = [records[prev] EXCEPT !.isLatest = FALSE]
        /\ \A k \in DOMAIN records :
              k # key /\ (i > 1 => k # prev) => records'[k] = records[k]
    <2>1. IsMap(records, Id \X Id \X Id, Record)
      BY SMTT(30) DEF TypeOK
    <2> QED
      BY <1>1, <1>2, <1>3, <2>1, StoreLatestEntries, ZenonT(20)
  <1>7. \A k \in DOMAIN records :
           /\ k # key
           /\ records'[k].registryId = records[k].registryId
           /\ records'[k].recordId = records[k].recordId
           /\ records'[k].index = records[k].index
           /\ records'[k].checksum = records[k].checksum
           /\ records'[k].isLatest = (records[k].isLatest /\ ~ (i > 1 /\ k = prev))
    <2> TAKE k \in DOMAIN records
    <2>1. records[k] \in Record /\ k # key
      BY <1>1, SMTT(30) DEF TypeOK, IsMap
    <2>2. CASE i > 1 /\ k = prev
      <3>1. records'[k] = [records[k] EXCEPT !.isLatest = FALSE]
        BY <1>6, <2>2
      <3> QED
        BY <2>1, <2>2, <3>1, ZenonT(20) DEF Record
    <2>3. CASE ~ (i > 1 /\ k = prev)
      <3>1. records'[k] = records[k]
        BY <1>6, <2>1, <2>3
      <3>2. records[k].isLatest \in BOOLEAN
        BY <2>1 DEF Record
      <3> QED
        BY <2>1, <2>3, <3>1, <3>2
    <2> QED
      BY <2>2, <2>3
  <1>8. /\ DOMAIN recordsCountByRegistry' = DOMAIN registries
        /\ recordsCountByRegistry[r] <= recordsCountByRegistry'[r]
        /\ recordsCountByRegistry'[r] =
              IF isNew THEN n ELSE recordsCountByRegistry[r]
        /\ \A q \in DOMAIN registries :
              q # r => recordsCountByRegistry'[q] = recordsCountByRegistry[q]
    <2>1. DOMAIN recordsCountByRegistry = DOMAIN registries
      BY SMTT(30) DEF RecordInv, RegistriesDense
    <2>2. CASE isNew
      <3>1. recordsCountByRegistry' = Put(recordsCountByRegistry, r, n)
        BY <1>5, <2>2
      <3>2. recordsCountByRegistry[r] <= n
        BY <1>1, <2>2
      <3> QED
        BY <1>1, <2>1, <2>2, <3>1, <3>2, ZenonT(20) DEF Put
    <2>3. CASE ~ isNew
      BY <1>1, <1>5, <2>1, <2>3
    <2> QED
      BY <2>2, <2>3
  <1>9. RegistriesDense'
    BY <1>5, <1>8 DEF RecordInv, RegistriesDense
  <1>10. StreamsDense'
    <2>1. ASSUME NEW q \in DOMAIN registries', NEW m \in 1 .. recordsCountByRegistry'[q]
          PROVE  <<q, m>> \in DOMAIN recordIndices'
      <3>1. CASE q = r /\ isNew /\ m = n
        BY <1>4, <3>1
      <3>2. CASE ~ (q = r /\ isNew /\ m = n)
        <4>1. q \in DOMAIN registries
          BY <1>5, SMTT(30)
        <4>2. m \in 1 .. recordsCountByRegistry[q]
          BY <1>1, <1>8, <3>2, <4>1, SMTT(30) DEF Id
        <4> QED
          BY <1>4, <4>1, <4>2 DEF RecordInv, StreamsDense
      <3> QED
        BY <3>1, <3>2
    <2>2. ASSUME NEW t \in DOMAIN recordIndices'
          PROVE  /\ t[1] \in DOMAIN registries'
                 /\ t[2] <= recordsCountByRegistry'[t[1]]
                 /\ \A j \in 1 .. recordIndices'[t] :
                       <<t[1], t[2], j>> \in DOMAIN records'
      <3>1. t \in Id \X Id
        BY <1>1, <1>4, SMTT(30) DEF TypeOK, IsMap
      <3>2. t[1] \in DOMAIN registries'
        <4>1. CASE t = <<r, n>>
          BY <1>1, <1>5, <4>1
        <4>2. CASE t # <<r, n>>
          BY <1>4, <1>5, <4>2, SMTT(30) DEF RecordInv, StreamsDense
        <4> QED
          BY <4>1, <4>2, SMTT(30)
      <3>3. t[2] <= recordsCountByRegistry'[t[1]]
        <4>1. CASE t = <<r, n>>
          BY <1>1, <1>8, <4>1 DEF Id
        <4>2. CASE t # <<r, n>>
          <5>1. /\ t \in DOMAIN recordIndices
                /\ t[1] \in DOMAIN registries
                /\ t[2] <= recordsCountByRegistry[t[1]]
            BY <1>4, <4>2, SMTT(30) DEF RecordInv, StreamsDense
          <5>2. CASE t[1] = r
            BY <1>1, <1>8, <3>1, <5>1, <5>2, SMTT(30) DEF Id
          <5>3. CASE t[1] # r
            BY <1>8, <5>1, <5>3
          <5> QED
            BY <5>2, <5>3, SMTT(30)
        <4> QED
          BY <4>1, <4>2, Zenon
      <3>4. ASSUME NEW j \in 1 .. recordIndices'[t]
            PROVE  <<t[1], t[2], j>> \in DOMAIN records'
        <4>1. CASE t = <<r, n>>
          <5>1. CASE j = i
            BY <1>6, <4>1, <5>1
          <5>2. CASE j # i
            <6>1. j \in 1 .. i - 1 /\ i > 1
              BY <1>1, <1>4, <4>1, <5>2, SMTT(30) DEF Id
            <6>2. <<r, n>> \in DOMAIN recordIndices /\ j \in 1 .. recordIndices[<<r, n>>]
              <7>1. ~ isNew
                BY <1>1, <6>1
              <7>2. recordIndices[<<r, n>>] \in Id
                BY <1>1, <7>1 DEF TypeOK, IsMap
              <7> QED
                BY <1>1, <6>1, <7>1, <7>2, SMTT(30) DEF Id
            <6> QED
              BY <1>6, <4>1, <6>2 DEF RecordInv, StreamsDense
          <5> QED
            BY <5>1, <5>2
        <4>2. CASE t # <<r, n>>
          BY <1>4, <1>6, <4>2, SMTT(30) DEF RecordInv, StreamsDense
        <4> QED
          BY <4>1, <4>2
      <3> QED
        BY <3>2, <3>3, <3>4, SMTT(30)
    <2>3. ASSUME NEW k \in DOMAIN records'
          PROVE  /\ <<k[1], k[2]>> \in DOMAIN recordIndices'
                 /\ k[3] <= recordIndices'[<<k[1], k[2]>>]
                 /\ k = <<records'[k].registryId, records'[k].recordId,
                          records'[k].index>>
      <3>1. CASE k = key
        BY <1>1, <1>2, <1>4, <1>6, <3>1, SMTT(30) DEF Id
      <3>2. CASE k # key
        <4>1. k \in DOMAIN records /\ k \in Id \X Id \X Id
          BY <1>6, <3>2, SMTT(30) DEF TypeOK, IsMap
        <4>2. /\ <<k[1], k[2]>> \in DOMAIN recordIndices
              /\ k[3] <= recordIndices[<<k[1], k[2]>>]
              /\ k = <<records[k].registryId, records[k].recordId, records[k].index>>
          BY <4>1, ZenonT(20) DEF RecordInv, StreamsDense
        <4>3. k[3] <= recordIndices'[<<k[1], k[2]>>]
          <5>1. CASE <<k[1], k[2]>> = <<r, n>>
            <6>1. ~ isNew /\ recordIndices[<<r, n>>] \in Id
              BY <1>1, <4>2, <5>1 DEF TypeOK, IsMap
            <6>2. k[3] <= recordIndices[<<r, n>>] /\ k[3] \in Id
              BY <4>1, <4>2, <5>1
            <6>3. k[3] <= i
              BY <1>1, <6>1, <6>2 DEF Id
            <6> QED
              BY <1>4, <5>1, <6>3, SMTT(30)
          <5>2. CASE <<k[1], k[2]>> # <<r, n>>
            BY <1>4, <4>2, <5>2
          <5> QED
            BY <5>1, <5>2
        <4> QED
          BY <1>4, <1>7, <4>1, <4>2, <4>3, ZenonT(20)
      <3> QED
        BY <3>1, <3>2
    <2> QED
      BY <2>1, <2>2, <2>3 DEF StreamsDense
  <1>11. OneLatestVersion'
    <2> SUFFICES ASSUME NEW k \in DOMAIN records'
                 PROVE  records'[k].isLatest <=>
                           k[3] = recordIndices'[<<k[1], k[2]>>]
      BY ZenonT(20) DEF OneLatestVersion
    <2>1. CASE k = key
      BY <1>2, <1>4, <1>6, <2>1
    <2>2. CASE k # key
      <3>1. k \in DOMAIN records /\ k \in Id \X Id \X Id
        BY <1>6, <2>2 DEF TypeOK, IsMap
      <3>2. /\ records[k].isLatest <=> k[3] = recordIndices[<<k[1], k[2]>>]
            /\ <<k[1], k[2]>> \in DOMAIN recordIndices
            /\ k[3] <= recordIndices[<<k[1], k[2]>>]
        BY <3>1, SMTT(30) DEF RecordInv, OneLatestVersion, StreamsDense
      <3>3. records'[k].isLatest <=> (records[k].isLatest /\ ~ (i > 1 /\ k = prev))
        BY <1>7, <3>1, ZenonT(20)
      <3>4. CASE <<k[1], k[2]>> = <<r, n>>
        <4>1. ~ isNew
          BY <1>1, <3>2, <3>4
        <4>2. k = <<r, n, k[3]>>
          BY <3>1, <3>4
        <4>3. k[3] # i
          BY <2>2, <4>2
        <4>4. recordIndices'[<<k[1], k[2]>>] = i
          BY <1>4, <3>4, SMTT(30)
        <4>5. records[k].isLatest => k = prev /\ i > 1
          <5>1. recordIndices[<<r, n>>] \in Id /\ i = recordIndices[<<r, n>>] + 1
            BY <1>1, <4>1, SMTT(30) DEF TypeOK, IsMap
          <5>2. i - 1 = recordIndices[<<r, n>>] /\ i > 1
            BY <5>1 DEF Id
          <5>3. records[k].isLatest => k[3] = i - 1
            BY <3>2, <3>4, <5>2, SMTT(30)
          <5> QED
            BY <4>2, <5>2, <5>3, SMTT(30)
        <4> QED
          BY <3>3, <4>3, <4>4, <4>5
      <3>5. CASE <<k[1], k[2]>> # <<r, n>>
        BY <1>4, <3>2, <3>3, <3>5
      <3> QED
        BY <3>4, <3>5, SMTT(30)
    <2> QED
      BY <2>1, <2>2
  <1>12. OneStreamPerChecksum'
    <2>1. CASE isNew
      <3>1. /\ DOMAIN recordIdByRegistryAndChecksum' =
                  DOMAIN recordIdByRegistryAndChecksum \cup {<<r, c>>}
            /\ recordIdByRegistryAndChecksum'[<<r, c>>] = n
            /\ \A k \in DOMAIN recordIdByRegistryAndChecksum :
                  recordIdByRegistryAndChecksum'[k] = recordIdByRegistryAndChecksum[k]
        BY <1>5, <2>1 DEF Put
      <3>2. /\ DOMAIN recordIdByChecksumAndRegistry' =
                  DOMAIN recordIdByChecksumAndRegistry \cup {<<c, r>>}
            /\ recordIdByChecksumAndRegistry'[<<c, r>>] = n
            /\ \A k \in DOMAIN recordIdByChecksumAndRegistry :
                  k # <<c, r>> => recordIdByChecksumAndRegistry'[k] =
                                     recordIdByChecksumAndRegistry[k]
        BY <1>5, <2>1 DEF Put
      <3>3. ASSUME NEW k \in DOMAIN recordIdByRegistryAndChecksum'
            PROVE  /\ <<k[2], k[1]>> \in DOMAIN recordIdByChecksumAndRegistry'
                   /\ recordIdByChecksumAndRegistry'[<<k[2], k[1]>>] =
                         recordIdByRegistryAndChecksum'[k]
                   /\ <<k[1], recordIdByRegistryAndChecksum'[k]>>
                         \in DOMAIN recordIndices'
        <4>1. CASE k = <<r, c>>
          BY <1>4, <3>1, <3>2, <4>1, SMTT(30)
        <4>2. CASE k # <<r, c>>
          <5>1. k \in DOMAIN recordIdByRegistryAndChecksum /\ k \in Id \X Checksum
            BY <3>1, <4>2 DEF TypeOK, IsMap
          <5>2. <<k[2], k[1]>> # <<c, r>>
            BY <4>2, <5>1, SMTT(30)
          <5> QED
            BY <1>4, <3>1, <3>2, <5>1, <5>2 DEF RecordInv, OneStreamPerChecksum
        <4> QED
          BY <4>1, <4>2
      <3>4. ASSUME NEW k \in DOMAIN recordIdByChecksumAndRegistry'
            PROVE  <<k[2], k[1]>> \in DOMAIN recordIdByRegistryAndChecksum'
        BY <3>1, <3>2, SMTT(30) DEF RecordInv, OneStreamPerChecksum
      <3>5. ASSUME NEW k \in DOMAIN records', NEW d \in Checksum
            PROVE  records'[k].checksum = d <=>
                      /\ <<k[1], d>> \in DOMAIN recordIdByRegistryAndChecksum'
                      /\ recordIdByRegistryAndChecksum'[<<k[1], d>>] = k[2]
        <4>1. CASE k = key
          <5>1. ASSUME <<r, d>> \in DOMAIN recordIdByRegistryAndChecksum
                PROVE  recordIdByRegistryAndChecksum[<<r, d>>] # n
            BY <1>1, <2>1, <5>1, ZenonT(20) DEF RecordInv, OneStreamPerChecksum
          <5> QED
            BY <1>2, <1>6, <3>1, <4>1, <5>1, SMTT(30)
        <4>2. CASE k # key
          <5>1. k \in DOMAIN records /\ k \in Id \X Id \X Id
            BY <1>6, <4>2, SMTT(30) DEF TypeOK, IsMap
          <5>2. <<k[1], k[2]>> # <<r, n>>
            BY <1>1, <2>1, <5>1, ZenonT(20) DEF RecordInv, StreamsDense
          <5>3. records'[k].checksum = records[k].checksum
            BY <1>7, <5>1, SMTT(30)
          <5>4. records[k].checksum = d <=>
                      /\ <<k[1], d>> \in DOMAIN recordIdByRegistryAndChecksum
                      /\ recordIdByRegistryAndChecksum[<<k[1], d>>] = k[2]
            BY <5>1, SMTT(30) DEF RecordInv, OneStreamPerChecksum
          <5> QED
            BY <2>1, <3>1, <5>2, <5>3, <5>4
        <4> QED
          BY <4>1, <4>2
      <3> QED
        BY <3>3, <3>4, <3>5 DEF OneStreamPerChecksum
    <2>2. CASE ~ isNew
      <3>1. ASSUME NEW k \in DOMAIN records', NEW d \in Checksum
            PROVE  records'[k].checksum = d <=>
                      /\ <<k[1], d>> \in DOMAIN recordIdByRegistryAndChecksum'
                      /\ recordIdByRegistryAndChecksum'[<<k[1], d>>] = k[2]
        <4>1. CASE k = key
          <5>1. /\ prev \in DOMAIN records
                /\ records[prev].checksum = d <=>
                      /\ <<r, d>> \in DOMAIN recordIdByRegistryAndChecksum
                      /\ recordIdByRegistryAndChecksum[<<r, d>>] = n
                /\ records[prev].checksum = c
            BY <1>1, <2>2, SMTT(30) DEF RecordInv, OneStreamPerChecksum
          <5> QED
            BY <1>2, <1>5, <1>6, <2>2, <4>1, <5>1, SMTT(30)
        <4>2. CASE k # key
          <5>1. k \in DOMAIN records
            BY <1>6, <4>2, SMTT(30)
          <5> QED
            BY <1>5, <1>7, <2>2, <5>1 DEF RecordInv, OneStreamPerChecksum
        <4> QED
          BY <4>1, <4>2
      <3> QED
        BY <1>4, <1>5, <2>2, <3>1 DEF RecordInv, OneStreamPerChecksum
    <2> QED
      BY <2>1, <2>2, SMTT(30)
  <1> QED
    BY <1>9, <1>10, <1>11, <1>12, SMTT(30) DEF RecordInv

\* Every message keeps RecordInv.
LEMMA RecordStep == TypeOK /\ RecordInv /\ [Next]_vars => RecordInv'
  <1> SUFFICES ASSUME TypeOK, RecordInv, [Next]_vars
               PROVE  RecordInv'
    OBVIOUS
  <1>1. ASSUME NEW granter, NEW grantee, NEW r, NEW c, NEW role,
               GrantRole(granter, grantee, r, c, role)
        PROVE  RecordInv'
    BY <1>1, RecordInvUnchanged DEF GrantRole
  <1>2. ASSUME NEW revoker, NEW revokee, NEW r, NEW c, NEW role,
               RevokeRole(revoker, revokee, r, c, role)
        PROVE  RecordInv'
    BY <1>2, RecordInvUnchanged DEF RevokeRole
  <1>3. ASSUME NEW authority, NEW newAdmin, UpdateParams(authority, newAdmin)
        PROVE  RecordInv'
    BY <1>3, RecordInvUnchanged DEF UpdateParams
  <1>4. CASE UNCHANGED vars
    BY <1>4, RecordInvUnchanged DEF vars
  <1> QED
    BY <1>1, <1>2, <1>3, <1>4, AddRegistryRecords, AddRecordRecords,
       UpdateRecordStatusRecords, ZenonT(20) DEF Next

\* RecordInv holds in every reachable state.
LEMMA RecordInvariant == Spec => []RecordInv
  <1>1. Init => RecordInv
    BY DEF Init, EmptyMap, RecordInv, RegistriesDense, StreamsDense,
           OneLatestVersion, OneStreamPerChecksum
  <1> QED
    BY <1>1, RecordStep, TypeCorrect, PTL DEF Spec

\* Exactly one version of a record is the latest, and RecordIndices names it.
THEOREM OneLatestAlways == Spec => []OneLatestVersion
  <1>1. RecordInv => OneLatestVersion
    BY DEF RecordInv
  <1> QED
    BY <1>1, RecordInvariant, PTL

\* Records are versioned per checksum within a registry, and the two checksum
\* indexes agree.
THEOREM OneStreamAlways == Spec => []OneStreamPerChecksum
  <1>1. RecordInv => OneStreamPerChecksum
    BY DEF RecordInv
  <1> QED
    BY <1>1, RecordInvariant, PTL

\* No version of a record is ever missing.
THEOREM DenseAlways == Spec => [](RegistriesDense /\ StreamsDense)
  <1>1. RecordInv => RegistriesDense /\ StreamsDense
    BY DEF RecordInv
  <1> QED
    BY <1>1, RecordInvariant, PTL

\* A checksum's stream is in the collections: its record has an index, and a stored
\* version of that checksum under every index up to it.
LEMMA StreamStored ==
    ASSUME TypeOK, RecordInv, NEW k \in DOMAIN recordIdByRegistryAndChecksum,
           NEW n, n = recordIdByRegistryAndChecksum[k]
    PROVE  /\ k \in Id \X Checksum /\ k = <<k[1], k[2]>> /\ n \in Id
           /\ <<k[1], n>> \in DOMAIN recordIndices
           /\ recordIndices[<<k[1], n>>] \in Id
           /\ \A j \in 1 .. recordIndices[<<k[1], n>>] :
                 /\ <<k[1], n, j>> \in DOMAIN records
                 /\ records[<<k[1], n, j>>] \in Record
                 /\ records[<<k[1], n, j>>].checksum = k[2]
  <1>1. k \in Id \X Checksum /\ n \in Id
    BY DEF TypeOK, IsMap
  <1>2. <<k[1], n>> \in DOMAIN recordIndices
    BY Zenon DEF RecordInv, OneStreamPerChecksum
  <1>3. recordIndices[<<k[1], n>>] \in Id
    BY <1>2 DEF TypeOK, IsMap
  <1>4. ASSUME NEW j \in 1 .. recordIndices[<<k[1], n>>]
        PROVE  <<k[1], n, j>> \in DOMAIN records
    <2>1. \A s \in DOMAIN recordIndices : \A i \in 1 .. recordIndices[s] :
             <<s[1], s[2], i>> \in DOMAIN records
      BY Zenon DEF RecordInv, StreamsDense
    <2> QED BY <1>2, <2>1
  <1>5. ASSUME NEW j \in 1 .. recordIndices[<<k[1], n>>]
        PROVE  records[<<k[1], n, j>>].checksum = k[2]
    <2>1. \A key \in DOMAIN records, c \in Checksum :
             /\ <<key[1], c>> \in DOMAIN recordIdByRegistryAndChecksum
             /\ recordIdByRegistryAndChecksum[<<key[1], c>>] = key[2]
             => records[key].checksum = c
      BY DEF RecordInv, OneStreamPerChecksum
    <2>2. k = <<k[1], k[2]>> /\ k[2] \in Checksum
      BY <1>1
    <2> QED BY <1>4, <2>1, <2>2
  <1>6. \A key \in DOMAIN records : records[key] \in Record
    BY DEF TypeOK, IsMap
  <1> QED BY <1>1, <1>2, <1>3, <1>4, <1>5, <1>6

\* What AddOnlyStep allows a version to become.
Later(rec, new) ==
    \E status \in Status, latest \in {FALSE, rec.isLatest} :
        new = [rec EXCEPT !.status = status, !.isLatest = latest]

\* A version that stays, gets a status, or is no longer the latest is a later form of
\* itself.
LEMMA LaterForms ==
    ASSUME NEW rec \in Record
    PROVE  /\ Later(rec, rec)
           /\ Later(rec, [rec EXCEPT !.isLatest = FALSE])
           /\ \A status \in Status : Later(rec, [rec EXCEPT !.status = status])
  <1>1. rec.status \in Status
    BY DEF Record
  <1>2. rec = [rec EXCEPT !.status = rec.status, !.isLatest = rec.isLatest]
    BY Zenon DEF Record
  <1>3. [rec EXCEPT !.isLatest = FALSE] =
           [rec EXCEPT !.status = rec.status, !.isLatest = FALSE]
    BY Zenon DEF Record
  <1>4. ASSUME NEW status \in Status
        PROVE  [rec EXCEPT !.status = status] =
                  [rec EXCEPT !.status = status, !.isLatest = rec.isLatest]
    BY Zenon DEF Record
  <1>5. Later(rec, rec)
    BY <1>1, <1>2, Zenon DEF Later
  <1>6. Later(rec, [rec EXCEPT !.isLatest = FALSE])
    BY <1>1, <1>3, Zenon DEF Later
  <1>7. ASSUME NEW status \in Status PROVE Later(rec, [rec EXCEPT !.status = status])
    BY <1>4, Zenon DEF Later
  <1> QED BY <1>5, <1>6, <1>7

-----------------------------------------------------------------------------
(***************************************************************************)
(* Walks in the order of the keys                                          *)
(***************************************************************************)

\* R orders the elements of S, one before the other.
Orders(R, S) ==
    /\ \A x \in S : <<x, x>> \notin R
    /\ \A x, y, z \in S : <<x, y>> \in R /\ <<y, z>> \in R => <<x, z>> \in R
    /\ \A x, y \in S : x # y => <<x, y>> \in R \/ <<y, x>> \in R

\* The elements of S before x.
Below(R, S, x) == {y \in S : <<y, x>> \in R}

\* A set of numbers with an element has a least one.
LEMMA Least ==
    ASSUME NEW S \in SUBSET Nat, S # {}
    PROVE  \E x \in S : \A y \in S : x <= y
  <1> DEFINE R == {ss \in Nat \X Nat : ss[1] < ss[2]}
  <1>1. IsWellFoundedOn(R, Nat)
    BY NatLessThanWellFounded, Zenon DEF OpToRel
  <1>2. PICK x \in S : \A y \in S : <<y, x>> \notin R
    <2> HIDE DEF R
    <2> QED BY <1>1, WFMin, Zenon
  <1>3. ASSUME NEW y \in S
        PROVE  x <= y
    <2>1. x \in Nat /\ y \in Nat
      OBVIOUS
    <2>2. <<y, x>> \notin R
      BY <1>2
    <2> QED
      BY <2>1, <2>2
  <1> QED
    BY <1>2, <1>3

\* The number of elements before x, which tells its place, grows along the order.
LEMMA RankGrows ==
    ASSUME NEW R, NEW S, IsFiniteSet(S), Orders(R, S)
    PROVE  /\ \A x \in S : Cardinality(Below(R, S, x)) \in 0 .. Cardinality(S) - 1
           /\ \A x, y \in S : <<x, y>> \in R =>
                 Cardinality(Below(R, S, x)) < Cardinality(Below(R, S, y))
  <1>1. Cardinality(S) \in Nat
    BY FS_CardinalityType
  <1>2. \A x \in S : /\ Below(R, S, x) \in SUBSET S
                     /\ x \notin Below(R, S, x)
    BY Zenon DEF Below, Orders
  <1>3. \A x \in S : /\ IsFiniteSet(Below(R, S, x))
                     /\ Cardinality(Below(R, S, x)) \in Nat
    BY <1>2, FS_Subset, FS_CardinalityType
  <1>4. \A x \in S : Cardinality(Below(R, S, x)) \in 0 .. Cardinality(S) - 1
    <2> TAKE x \in S
    <2>1. Cardinality(Below(R, S, x)) <= Cardinality(S)
      BY <1>2, FS_Subset
    <2>2. Cardinality(Below(R, S, x)) # Cardinality(S)
      BY <1>2, FS_Subset
    <2> QED
      BY <1>1, <1>3, <2>1, <2>2
  <1>5. ASSUME NEW x \in S, NEW y \in S, <<x, y>> \in R
        PROVE  Cardinality(Below(R, S, x)) < Cardinality(Below(R, S, y))
    <2>1. Below(R, S, x) \in SUBSET Below(R, S, y) /\ x \in Below(R, S, y)
      BY <1>5 DEF Below, Orders
    <2>2. Cardinality(Below(R, S, x)) <= Cardinality(Below(R, S, y))
      BY <1>3, <2>1, FS_Subset
    <2>3. Cardinality(Below(R, S, x)) # Cardinality(Below(R, S, y))
      BY <1>2, <1>3, <2>1, FS_Subset
    <2> QED
      BY <1>3, <2>2, <2>3
  <1> QED
    BY <1>4, <1>5

\* Elements of different places, all below n, are at most n.
LEMMA RanksBelow ==
    ASSUME NEW R, NEW S, IsFiniteSet(S), Orders(R, S), NEW T \in SUBSET S, NEW n \in Nat,
           \A x \in T : Cardinality(Below(R, S, x)) < n
    PROVE  Cardinality(T) <= n
  <1> DEFINE f == [x \in T |-> Cardinality(Below(R, S, x))]
  <1>1. f \in [T -> 0 .. n - 1]
    BY RankGrows
  <1>2. \A x, y \in T : f[x] = f[y] => x = y
    <2> SUFFICES ASSUME NEW x \in T, NEW y \in T, x # y
                 PROVE  f[x] # f[y]
      OBVIOUS
    <2>1. <<x, y>> \in R \/ <<y, x>> \in R
      BY DEF Orders
    <2>2. /\ Cardinality(Below(R, S, x)) \in Int
          /\ Cardinality(Below(R, S, y)) \in Int
      BY RankGrows
    <2>3. \/ Cardinality(Below(R, S, x)) < Cardinality(Below(R, S, y))
          \/ Cardinality(Below(R, S, y)) < Cardinality(Below(R, S, x))
      BY <2>1, RankGrows
    <2> QED
      BY <2>2, <2>3
  <1>3. f \in Injection(T, 0 .. n - 1)
    BY <1>1, <1>2 DEF Injection, IsInjective
  <1>4. IsFiniteSet(0 .. n - 1) /\ Cardinality(0 .. n - 1) = n
    BY FS_Interval
  <1> HIDE DEF f
  <1> QED
    BY <1>3, <1>4, FS_Injection

\* Every place is taken.
LEMMA RankOnto ==
    ASSUME NEW R, NEW S, IsFiniteSet(S), Orders(R, S), NEW n \in 0 .. Cardinality(S) - 1
    PROVE  \E x \in S : Cardinality(Below(R, S, x)) = n
  <1> DEFINE T == {x \in S : Cardinality(Below(R, S, x)) >= n}
             ranks == {Cardinality(Below(R, S, x)) : x \in T}
  <1>1. Cardinality(S) \in Nat /\ n \in Nat
    BY FS_CardinalityType
  <1>2. \A x \in S : Cardinality(Below(R, S, x)) \in Nat
    BY RankGrows
  <1>3. T # {}
    <2> SUFFICES ASSUME T = {}
                 PROVE  FALSE
      OBVIOUS
    <2>1. \A x \in S : Cardinality(Below(R, S, x)) < n
      BY <1>1, <1>2
    <2>2. Cardinality(S) <= n
      BY <1>1, <2>1, RanksBelow
    <2> QED
      BY <1>1, <2>2
  <1>4. ranks \in SUBSET Nat /\ ranks # {}
    BY <1>2, <1>3
  <1>5. PICK x \in T : \A y \in T :
           Cardinality(Below(R, S, x)) <= Cardinality(Below(R, S, y))
    <2>1. PICK m \in ranks : \A k \in ranks : m <= k
      <3> HIDE DEF ranks
      <3> QED BY <1>4, Least
    <2> QED
      BY <2>1
  <1>6. \A y \in Below(R, S, x) : Cardinality(Below(R, S, y)) < n
    <2> TAKE y \in Below(R, S, x)
    <2>1. y \in S /\ <<y, x>> \in R /\ x \in S
      BY <1>5 DEF Below
    <2>2. Cardinality(Below(R, S, y)) < Cardinality(Below(R, S, x))
      BY <2>1, RankGrows
    <2> QED
      BY <1>1, <1>2, <1>5, <2>1, <2>2
  <1>7. Cardinality(Below(R, S, x)) <= n
    <2>1. Below(R, S, x) \in SUBSET S
      BY DEF Below
    <2> QED
      BY <1>1, <1>6, <2>1, RanksBelow
  <1> QED
    BY <1>1, <1>2, <1>5, <1>7
=============================================================================
