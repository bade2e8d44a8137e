------------------------------ MODULE KeeperProofs ------------------------------
(***************************************************************************)
(* Proofs about the keeper at work, from the invariants of AnchoringProofs.*)
(*   - a message never changes a registry, a record version or the         *)
(*     authority over another registry, and is a step of RecordLedger or   *)
(*     none, so that the collections implement the record ledger;          *)
(*   - the precompile calls of an EVM transaction take effect whole or not *)
(*     at all and act for its signer, for every set of accounts and        *)
(*     contracts, every call depth and every number of calls.              *)
(***************************************************************************)
EXTENDS AnchoringLedger, AnchoringEvm, AnchoringProofs

-----------------------------------------------------------------------------
(***************************************************************************)
(* Registries and record versions are add-only                             *)
(***************************************************************************)

\* There are as many registries as RegistryCount says.
LEMMA CountsRegistries ==
    ASSUME registryCount \in Nat, RegistriesDense
    PROVE  Cardinality(DOMAIN registries) = registryCount
  <1>1. Cardinality(1 .. registryCount) =
           IF 1 > registryCount THEN 0 ELSE registryCount - 1 + 1
    BY FS_Interval
  <1> QED BY <1>1 DEF RegistriesDense

\* A handler that leaves registries and records alone is add-only.
LEMMA AddOnlyUnchanged ==
    ASSUME TypeOK, RecordInv, UNCHANGED <<registries, registryCount, records>>
    PROVE  AddOnlyStep
  <1>1. \A key \in DOMAIN records : Later(records[key], records'[key])
    BY LaterForms, Zenon DEF TypeOK, IsMap
  <1>2. registryCount \in Nat /\ Cardinality(DOMAIN registries) = registryCount
    BY CountsRegistries DEF TypeOK, RecordInv
  <1>3. Cardinality(DOMAIN registries') - Cardinality(DOMAIN registries) =
           registryCount' - registryCount
    BY <1>2
  <1> QED BY <1>1, <1>3, Zenon DEF AddOnlyStep, Later

\* A new registry takes a free id (keeper/anchoring.go:17-54).
LEMMA AddRegistryAddOnly ==
    ASSUME TypeOK, RecordInv, NEW sender \in Addr, AddRegistry(sender)
    PROVE  AddOnlyStep
  <1>1. /\ DOMAIN registries = 1 .. registryCount
        /\ registryCount \in Nat /\ registryCount' = registryCount + 1
        /\ Cardinality(DOMAIN registries) = registryCount
    BY CountsRegistries DEF TypeOK, RecordInv, RegistriesDense, AddRegistry
  <1>2. RegistriesDense' /\ registryCount' \in Nat
    BY AddRegistryRecords, <1>1 DEF RecordInv
  <1>3. Cardinality(DOMAIN registries') = registryCount'
    <2>1. DOMAIN registries' = 1 .. registryCount'
      BY <1>2 DEF RegistriesDense
    <2>2. Cardinality(1 .. registryCount + 1) = registryCount + 1
      BY <1>1, FS_Interval
    <2> QED BY <1>1, <2>1, <2>2
  <1>4. Cardinality(DOMAIN registries') - Cardinality(DOMAIN registries) =
           registryCount' - registryCount
    BY <1>1, <1>3
  <1>5. \A id \in DOMAIN registries :
           id \in DOMAIN registries' /\ registries'[id] = registries[id]
    BY <1>1 DEF AddRegistry, Put
  <1>6. records' = records
    BY DEF AddRegistry
  <1>7. \A key \in DOMAIN records : Later(records[key], records'[key])
    BY <1>6, LaterForms, Zenon DEF TypeOK, IsMap
  <1> QED BY <1>4, <1>5, <1>6, <1>7, Zenon DEF AddOnlyStep, Later

\* A new version leaves the earlier ones, but for the flag of the one before it
\* (keeper/anchoring.go:119-137).
LEMMA AddRecordAddOnly ==
    ASSUME TypeOK, RecordInv, NEW sender \in Addr, NEW r \in RegistryIds,
           NEW c \in ScopeChecksum, NEW status \in Status \cup {NoStatus},
           AddRecord(sender, r, c, status)
    PROVE  AddOnlyStep
  <1> DEFINE n == RecordIdFor(r, c)
             i == NextIndex(r, n)
             key == <<r, n, i>>
             prev == <<r, n, i - 1>>
             rec == AddedRecord(r, c, status)
             isNew == <<r, c>> \notin DOMAIN recordIdByRegistryAndChecksum
  <1>1. /\ r \in Id /\ n \in Id /\ i \in Id
        /\ r \in DOMAIN registries
        /\ c \in Checksum /\ status \in Status
        /\ isNew => /\ n = recordsCountByRegistry[r] + 1
                    /\ <<r, n>> \notin DOMAIN recordIndices
                    /\ i = 1
        /\ ~ isNew => /\ n = recordIdByRegistryAndChecksum[<<r, c>>]
                      /\ <<r, n>> \in DOMAIN recordIndices
                      /\ n <= recordsCountByRegistry[r]
                      /\ i = recordIndices[<<r, n>>] + 1
                      /\ i > 1
        /\ key \notin DOMAIN records
        /\ i > 1 => prev \in DOMAIN records
        /\ recordsCountByRegistry[r] \in Nat
    <2>1. StreamExtended(r, c, status, n, i)
      BY AddRecordEffect, Zenon
    <2> HIDE DEF n, i
    <2> QED BY <2>1, SMTT(30) DEF StreamExtended
  <1>2. records' = StoreLatest(rec) /\ UNCHANGED <<registries, registryCount>>
    BY DEF AddRecord, AddedRecord
  <1>3. rec \in Record /\ KeyOf(rec) = <<r, n, i>> /\ PrevOf(rec) = <<r, n, i - 1>>
        /\ rec.index = i
    BY <1>1 DEF AddedRecord, Record, KeyOf, PrevOf
  <1>4. IsMap(records, Id \X Id \X Id, Record)
    BY DEF TypeOK
  <1> HIDE DEF rec, n, i
  <1>5. /\ DOMAIN StoreLatest(rec) = DOMAIN records \cup {KeyOf(rec)}
        /\ rec.index > 1 =>
              StoreLatest(rec)[PrevOf(rec)] = [records[PrevOf(rec)] EXCEPT !.isLatest = FALSE]
        /\ \A k \in DOMAIN records :
              k # KeyOf(rec) /\ (rec.index > 1 => k # PrevOf(rec))
                 => StoreLatest(rec)[k] = records[k]
    BY <1>1, <1>3, <1>4, StoreLatestEntries, Zenon
  <1>6. ASSUME NEW k \in DOMAIN records
        PROVE  k \in DOMAIN records' /\ Later(records[k], records'[k])
    <2>1. records[k] \in Record /\ k # KeyOf(rec)
      BY <1>1, <1>3, <1>4 DEF IsMap
    <2>2. records'[k] = records[k] \/ records'[k] = [records[k] EXCEPT !.isLatest = FALSE]
      BY <1>2, <1>5, <2>1
    <2> QED BY <1>2, <1>5, <2>1, <2>2, LaterForms, Zenon
  <1>7. registryCount \in Nat /\ Cardinality(DOMAIN registries) = registryCount
    BY CountsRegistries DEF TypeOK, RecordInv
  <1>8. Cardinality(DOMAIN registries') - Cardinality(DOMAIN registries) =
           registryCount' - registryCount
    BY <1>2, <1>7
  <1> QED BY <1>2, <1>6, <1>8, Zenon DEF AddOnlyStep, Later

\* A status update changes the status of one version (keeper/anchoring.go:152-183).
LEMMA UpdateRecordStatusAddOnly ==
    ASSUME TypeOK, RecordInv, NEW sender \in Addr, NEW key \in DOMAIN records,
           NEW status \in Status \cup {NoStatus},
           UpdateRecordStatus(sender, key[1], key[2], key[3], status)
    PROVE  AddOnlyStep
  <1>1. key \in Id \X Id \X Id /\ status \in Status
    BY DEF TypeOK, IsMap, UpdateRecordStatus
  <1>2. /\ records' = Put(records, key, [records[key] EXCEPT !.status = status])
        /\ UNCHANGED <<registries, registryCount>>
    BY <1>1 DEF UpdateRecordStatus
  <1>3. ASSUME NEW k \in DOMAIN records
        PROVE  k \in DOMAIN records' /\ Later(records[k], records'[k])
    <2>1. records[k] \in Record
      BY DEF TypeOK, IsMap
    <2>2. /\ k \in DOMAIN records'
          /\ \/ records'[k] = records[k]
             \/ records'[k] = [records[k] EXCEPT !.status = status]
      <3>1. CASE k = key
        BY <1>2, <3>1 DEF Put
      <3>2. CASE k # key
        BY <1>2, <3>2 DEF Put
      <3> QED BY <3>1, <3>2
    <2> QED BY <1>1, <2>1, <2>2, LaterForms, Zenon
  <1>4. registryCount \in Nat /\ Cardinality(DOMAIN registries) = registryCount
    BY CountsRegistries DEF TypeOK, RecordInv
  <1>5. Cardinality(DOMAIN registries') - Cardinality(DOMAIN registries) =
           registryCount' - registryCount
    BY <1>2, <1>4
  <1> QED BY <1>2, <1>3, <1>5, Zenon DEF AddOnlyStep, Later

\* Whatever messages come, a registry and a record version stay what they are, but
\* for a version's status and the flag it loses (keeper/anchoring.go:121-137,
\* 166-169).
THEOREM AddOnlyAlways == Spec => AddOnly
  <1>1. ASSUME TypeOK, RecordInv, Next PROVE AddOnlyStep
    <2>1. ASSUME NEW granter, NEW grantee, NEW r, NEW c, NEW role,
                 GrantRole(granter, grantee, r, c, role)
          PROVE  AddOnlyStep
      BY <1>1, <2>1, AddOnlyUnchanged DEF GrantRole, recordVars
    <2>2. ASSUME NEW revoker, NEW revokee, NEW r, NEW c, NEW role,
                 RevokeRole(revoker, revokee, r, c, role)
          PROVE  AddOnlyStep
      BY <1>1, <2>2, AddOnlyUnchanged DEF RevokeRole, recordVars
    <2>3. ASSUME NEW authority, NEW newAdmin, UpdateParams(authority, newAdmin)
          PROVE  AddOnlyStep
      BY <1>1, <2>3, AddOnlyUnchanged DEF UpdateParams, recordVars
    <2> QED
      BY <1>1, <2>1, <2>2, <2>3, AddRegistryAddOnly, AddRecordAddOnly,
         UpdateRecordStatusAddOnly, ZenonT(20) DEF Next
  <1>2. TypeOK /\ RecordInv /\ [Next]_vars => [AddOnlyStep]_vars
    BY <1>1
  <1> QED BY <1>2, TypeCorrect, RecordInvariant, PTL DEF Spec, AddOnly

-----------------------------------------------------------------------------
(***************************************************************************)
(* Registries do not interfere                                             *)
(***************************************************************************)

\* The members of the roles of every registry but one stay.
OnlyRolesOf(id) ==
    \A role \in Role, addr \in Addr :
        role.registryId # id => (<<role, addr>> \in roleMembers' <=> <<role, addr>> \in roleMembers)

\* The right to write to a registry comes from that registry's roles
\* (keeper/keeper.go:150-196).
LEMMA WritersFollowRoles ==
    ASSUME NEW id, OnlyRolesOf(id), NEW r \in RegistryIds, r # id, NEW c \in Checksum
    PROVE  Writers(r, c)' = Writers(r, c)
  <1>1. r \in Id /\ c \in ScopeChecksum
    BY BoundAssumption DEF RegistryIds, Id, ScopeChecksum
  <1>2. \A name \in requiredRoles :
           /\ RegistryRole(r, name) \in Role /\ RegistryRole(r, name).registryId = r
           /\ RecordRole(r, c, name) \in Role /\ RecordRole(r, c, name).registryId = r
    <2> SUFFICES ASSUME NEW name \in requiredRoles
                 PROVE  /\ RegistryRole(r, name) \in Role
                        /\ RegistryRole(r, name).registryId = r
                        /\ RecordRole(r, c, name) \in Role
                        /\ RecordRole(r, c, name).registryId = r
      OBVIOUS
    <2>1. name \in RoleName
      BY RoleAssumption DEF requiredRoles
    <2> QED BY <1>1, <2>1, RoleType DEF RegistryRole, RecordRole
  <1>3. \A addr \in Addr : \A name \in requiredRoles :
           /\ HasRole(RegistryRole(r, name), addr)' <=> HasRole(RegistryRole(r, name), addr)
           /\ HasRole(RecordRole(r, c, name), addr)' <=> HasRole(RecordRole(r, c, name), addr)
    <2> SUFFICES ASSUME NEW addr \in Addr, NEW name \in requiredRoles
                 PROVE  /\ <<RegistryRole(r, name), addr>> \in roleMembers' <=>
                              <<RegistryRole(r, name), addr>> \in roleMembers
                        /\ <<RecordRole(r, c, name), addr>> \in roleMembers' <=>
                              <<RecordRole(r, c, name), addr>> \in roleMembers
      BY DEF HasRole
    <2> QED BY <1>2 DEF OnlyRolesOf
  <1>4. \A addr \in Addr : checkPermission(addr, r, c)' <=> checkPermission(addr, r, c)
    BY <1>3, Zenon DEF checkPermission, checkRecordRoles, checkRegistryRoles
  <1> QED BY <1>4, Zenon DEF Writers

\* Every message changes the members of one registry's roles at most: the new
\* registry's, or those of the registry the grant or the revocation names
\* (keeper/msg_server.go:130-229).
LEMMA OneRegistryPerStep ==
    ASSUME TypeOK, Next
    PROVE  \E id \in Int : OnlyRolesOf(id)
  <1>1. ASSUME NEW sender \in Addr, AddRegistry(sender)
        PROVE  OnlyRolesOf(registryCount + 1)
    BY <1>1 DEF AddRegistry, OnlyRolesOf, RegistryRole
  <1>2. ASSUME NEW granter \in Addr, NEW grantee \in Addr, NEW r \in RegistryIds,
               NEW c \in ScopeChecksum, NEW name \in RoleName,
               GrantRole(granter, grantee, r, c, name)
        PROVE  OnlyRolesOf(r)
    BY <1>2 DEF GrantRole, OnlyRolesOf, scopedRole, RegistryRole, RecordRole
  <1>3. ASSUME NEW revoker \in Addr, NEW revokee \in Addr, NEW r \in RegistryIds,
               NEW c \in ScopeChecksum, NEW name \in RoleName,
               RevokeRole(revoker, revokee, r, c, name)
        PROVE  OnlyRolesOf(r)
    BY <1>3 DEF RevokeRole, OnlyRolesOf, scopedRole, RegistryRole, RecordRole
  <1>4. ASSUME roleMembers' = roleMembers PROVE OnlyRolesOf(0)
    BY <1>4 DEF OnlyRolesOf
  <1>5. ASSUME NEW sender, NEW r, NEW c, NEW status, AddRecord(sender, r, c, status)
        PROVE  OnlyRolesOf(0)
    BY <1>4, <1>5 DEF AddRecord, rbacVars
  <1>6. ASSUME NEW sender, NEW r, NEW n, NEW i, NEW status,
               UpdateRecordStatus(sender, r, n, i, status)
        PROVE  OnlyRolesOf(0)
    BY <1>4, <1>6 DEF UpdateRecordStatus, rbacVars
  <1>7. ASSUME NEW authority, NEW newAdmin, UpdateParams(authority, newAdmin)
        PROVE  OnlyRolesOf(0)
    BY <1>4, <1>7 DEF UpdateParams, rbacVars
  <1>8. registryCount + 1 \in Int /\ 0 \in Int /\ RegistryIds \subseteq Int
    BY DEF TypeOK, RegistryIds
  <1> QED BY <1>1, <1>2, <1>3, <1>5, <1>6, <1>7, <1>8, ZenonT(20) DEF Next

\* No message changes the authority over the records of two registries
\* (keeper/keeper.go:187-196).
THEOREM AuthorityIsolatedAlways == Spec => AuthorityIsolated
  <1> DEFINE Apart ==
         \A r1, r2 \in RegistryIds :
             r1 # r2 =>
                \/ \A c \in Checksum : Writers(r1, c)' = Writers(r1, c)
                \/ \A c \in Checksum : Writers(r2, c)' = Writers(r2, c)
  <1>1. ASSUME TypeOK, Next PROVE Apart
    <2>1. PICK id \in Int : OnlyRolesOf(id)
      BY <1>1, OneRegistryPerStep
    <2>2. ASSUME NEW r1 \in RegistryIds, NEW r2 \in RegistryIds, r1 # r2
          PROVE  \/ \A c \in Checksum : Writers(r1, c)' = Writers(r1, c)
                 \/ \A c \in Checksum : Writers(r2, c)' = Writers(r2, c)
      <3>1. CASE r1 # id
        BY <2>1, <3>1, WritersFollowRoles, Zenon
      <3>2. CASE r2 # id
        BY <2>1, <3>2, WritersFollowRoles, Zenon
      <3> QED BY <2>2, <3>1, <3>2
    <2> QED BY <2>2, Zenon
  <1>2. TypeOK /\ [Next]_vars => [Apart]_vars
    BY <1>1
  <1> QED BY <1>2, TypeCorrect, PTL DEF Spec, AuthorityIsolated

-----------------------------------------------------------------------------
(***************************************************************************)
(* Sequences given by their entries                                        *)
(***************************************************************************)

\* A function on 1 .. n is a sequence of length n.
LEMMA FunctionIsSeq ==
    ASSUME NEW V, NEW n \in Nat, NEW f \in [1 .. n -> V]
    PROVE  f \in Seq(V) /\ Len(f) = n
  OBVIOUS

\* A function with one entry more is that entry appended.
LEMMA OneMore ==
    ASSUME NEW V, NEW n \in Nat, NEW f \in [1 .. n -> V], NEW g \in [1 .. n + 1 -> V],
           \A j \in 1 .. n : g[j] = f[j]
    PROVE  g = Append(f, g[n + 1])
  <1>1. f \in Seq(V) /\ Len(f) = n /\ g[n + 1] \in V
    BY FunctionIsSeq
  <1>2. g \in Seq(V) /\ Len(g) = n + 1
    <2>1. n + 1 \in Nat
      OBVIOUS
    <2> QED BY <2>1, FunctionIsSeq
  <1>3. \A j \in 1 .. n + 1 : Append(f, g[n + 1])[j] = g[j]
    BY <1>1
  <1> QED BY <1>1, <1>2, <1>3

\* A function whose only entry is v is the sequence of v.
LEMMA OnlyOne ==
    ASSUME NEW V, NEW g \in [1 .. 1 -> V]
    PROVE  g = <<g[1]>>
  OBVIOUS

-----------------------------------------------------------------------------
(***************************************************************************)
(* The streams of the collections                                          *)
(***************************************************************************)

\* The bound that AddRegistry keeps.
Bounded == registryCount <= MaxRegistries

\* Registry ids stay within the range the messages name.
LEMMA RegistriesBounded == Spec => []Bounded
  <1>1. Init => Bounded
    BY BoundAssumption DEF Init, Bounded
  <1>2. TypeOK /\ Bounded /\ [Next]_vars
           => Bounded'
    <2> SUFFICES ASSUME TypeOK, Bounded, [Next]_vars
                 PROVE  Bounded'
      OBVIOUS
    <2>1. ASSUME NEW sender, AddRegistry(sender) PROVE Bounded'
      BY <2>1, BoundAssumption DEF AddRegistry, TypeOK, Bounded
    <2>2. ASSUME NEW sender, NEW r, NEW c, NEW status, AddRecord(sender, r, c, status)
          PROVE  registryCount' = registryCount
      BY <2>2 DEF AddRecord
    <2>3. ASSUME NEW sender, NEW r, NEW n, NEW i, NEW status,
                 UpdateRecordStatus(sender, r, n, i, status)
          PROVE  registryCount' = registryCount
      BY <2>3 DEF UpdateRecordStatus
    <2>4. ASSUME NEW granter, NEW grantee, NEW r, NEW c, NEW role,
                 GrantRole(granter, grantee, r, c, role)
          PROVE  registryCount' = registryCount
      BY <2>4 DEF GrantRole
    <2>5. ASSUME NEW revoker, NEW revokee, NEW r, NEW c, NEW role,
                 RevokeRole(revoker, revokee, r, c, role)
          PROVE  registryCount' = registryCount
      BY <2>5 DEF RevokeRole
    <2>6. ASSUME NEW authority, NEW newAdmin, UpdateParams(authority, newAdmin)
          PROVE  registryCount' = registryCount
      BY <2>6 DEF UpdateParams
    <2>7. ASSUME UNCHANGED vars PROVE registryCount' = registryCount
      BY <2>7 DEF vars
    <2> QED BY <2>1, <2>2, <2>3, <2>4, <2>5, <2>6, <2>7, ZenonT(20) DEF Next, Bounded
  <1> QED BY <1>1, <1>2, TypeCorrect, PTL DEF Spec

\* Two checksums of a registry have two records.
LEMMA StreamsApart ==
    ASSUME TypeOK, RecordInv, NEW k \in DOMAIN recordIdByRegistryAndChecksum,
           NEW l \in DOMAIN recordIdByRegistryAndChecksum, k # l
    PROVE  <<k[1], recordIdByRegistryAndChecksum[k]>>
              # <<l[1], recordIdByRegistryAndChecksum[l]>>
  <1> DEFINE n == recordIdByRegistryAndChecksum[k]
             m == recordIdByRegistryAndChecksum[l]
  <1>1. SUFFICES ASSUME k[1] = l[1], n = m PROVE FALSE
    OBVIOUS
  <1>2. /\ k = <<k[1], k[2]>> /\ l = <<l[1], l[2]>>
        /\ recordIndices[<<k[1], n>>] \in Id
        /\ \A j \in 1 .. recordIndices[<<k[1], n>>] :
              records[<<k[1], n, j>>].checksum = k[2]
        /\ \A j \in 1 .. recordIndices[<<l[1], m>>] :
              records[<<l[1], m, j>>].checksum = l[2]
    BY StreamStored
  <1> HIDE DEF n, m
  <1>3. 1 \in 1 .. recordIndices[<<k[1], n>>]
    BY <1>2 DEF Id
  <1> QED BY <1>1, <1>2, <1>3, Zenon

\* The stream of a checksum is the sequence of the statuses of its versions.
LEMMA StreamIsSeq ==
    ASSUME TypeOK, RecordInv, NEW k \in DOMAIN recordIdByRegistryAndChecksum,
           NEW n, n = recordIdByRegistryAndChecksum[k]
    PROVE  /\ recordIndices[<<k[1], n>>] \in Nat
           /\ StreamOf(k) \in [1 .. recordIndices[<<k[1], n>>] -> Status]
           /\ \A j \in 1 .. recordIndices[<<k[1], n>>] :
                 StreamOf(k)[j] = records[<<k[1], n, j>>].status
  <1>1. /\ recordIndices[<<k[1], n>>] \in Id
        /\ \A j \in 1 .. recordIndices[<<k[1], n>>] : records[<<k[1], n, j>>] \in Record
    BY StreamStored
  <1>2. \A j \in 1 .. recordIndices[<<k[1], n>>] : records[<<k[1], n, j>>].status \in Status
    BY <1>1 DEF Record
  <1> QED BY <1>1, <1>2 DEF StreamOf, Id

\* Every stream is the sequence of the statuses of its stored versions.
StreamsTyped ==
    \A k \in DOMAIN recordIdByRegistryAndChecksum :
       LET n == recordIdByRegistryAndChecksum[k]
       IN  /\ StreamOf(k) \in [1 .. recordIndices[<<k[1], n>>] -> Status]
           /\ \A j \in 1 .. recordIndices[<<k[1], n>>] :
                 StreamOf(k)[j] = records[<<k[1], n, j>>].status

\* StreamIsSeq, said of every checksum.
LEMMA StreamsAreTyped == TypeOK /\ RecordInv => StreamsTyped
  BY StreamIsSeq DEF StreamsTyped

-----------------------------------------------------------------------------
(***************************************************************************)
(* Messages as steps of the ledger                                         *)
(***************************************************************************)

\* A message that leaves the streams' collections alone is no step of the ledger.
LEMMA NoLedgerStep ==
    ASSUME UNCHANGED <<records, recordIdByRegistryAndChecksum, recordIndices>>
    PROVE  LedgerStreams' = LedgerStreams
  BY DEF LedgerStreams, StreamOf

\* AddRecord extends the stream of its checksum and no other (keeper/anchoring.go:67-148).
LEMMA AddRecordAppends ==
    ASSUME TypeOK, RecordInv, NEW sender \in Addr, NEW r \in RegistryIds,
           NEW c \in ScopeChecksum, NEW status \in Status \cup {NoStatus},
           AddRecord(sender, r, c, status)
    PROVE  /\ c \in Checksum /\ status \in Status
           /\ LedgerStreams' = Ledger!Extended(<<r, c>>, status)
  <1> DEFINE n == RecordIdFor(r, c)
             i == NextIndex(r, n)
             key == <<r, n, i>>
             prev == <<r, n, i - 1>>
             rec == AddedRecord(r, c, status)
             isNew == <<r, c>> \notin DOMAIN recordIdByRegistryAndChecksum
  <1>1. /\ r \in Id /\ n \in Id /\ i \in Id
        /\ r \in DOMAIN registries
        /\ c \in Checksum /\ status \in Status
        /\ isNew => /\ n = recordsCountByRegistry[r] + 1
                    /\ <<r, n>> \notin DOMAIN recordIndices
                    /\ i = 1
        /\ ~ isNew => /\ n = recordIdByRegistryAndChecksum[<<r, c>>]
                      /\ <<r, n>> \in DOMAIN recordIndices
                      /\ n <= recordsCountByRegistry[r]
                      /\ i = recordIndices[<<r, n>>] + 1
                      /\ i > 1
        /\ key \notin DOMAIN records
        /\ i > 1 => prev \in DOMAIN records
        /\ recordsCountByRegistry[r] \in Nat
    <2>1. StreamExtended(r, c, status, n, i)
      BY AddRecordEffect, Zenon
    <2> HIDE DEF n, i
    <2> QED BY <2>1, SMTT(30) DEF StreamExtended
  <1>2. /\ rec.index = i /\ rec.status = status /\ rec \in Record
        /\ KeyOf(rec) = key /\ PrevOf(rec) = prev
    BY <1>1, ZenonT(20) DEF AddedRecord, Record, KeyOf, PrevOf
  <1>3. records' = StoreLatest(rec)
    BY ZenonT(20) DEF AddRecord, AddedRecord
  <1>4. /\ recordIndices'[<<r, n>>] = i
        /\ \A k \in DOMAIN recordIndices :
              k # <<r, n>> => recordIndices'[k] = recordIndices[k]
    BY SMTT(30) DEF AddRecord, Put
  <1>5. recordIdByRegistryAndChecksum' =
           IF isNew THEN Put(recordIdByRegistryAndChecksum, <<r, c>>, n)
           ELSE recordIdByRegistryAndChecksum
    BY DEF AddRecord, IndexChecksum
  <1> HIDE DEF n, i, rec
  <1>6. /\ records'[key] = rec
        /\ i > 1 => records'[prev] = [records[prev] EXCEPT !.isLatest = FALSE]
        /\ \A k \in DOMAIN records :
              k # key /\ (i > 1 => k # prev) => records'[k] = records[k]
    <2>1. IsMap(records, Id \X Id \X Id, Record)
      BY DEF TypeOK
    <2> QED
      BY <1>1, <1>2, <1>3, <2>1, StoreLatestEntries, ZenonT(20)
  <1>7. \A k \in DOMAIN records : records'[k].status = records[k].status
    <2> TAKE k \in DOMAIN records
    <2>1. records[k] \in Record /\ k # key
      BY <1>1, SMTT(30) DEF TypeOK, IsMap
    <2>2. records'[k] = records[k] \/ records'[k] = [records[k] EXCEPT !.isLatest = FALSE]
      BY <1>6, <2>1, Zenon
    <2> QED BY <2>1, <2>2 DEF Record
  <1>8. /\ DOMAIN recordIdByRegistryAndChecksum' =
              DOMAIN recordIdByRegistryAndChecksum \cup {<<r, c>>}
        /\ recordIdByRegistryAndChecksum'[<<r, c>>] = n
        /\ \A k \in DOMAIN recordIdByRegistryAndChecksum :
              recordIdByRegistryAndChecksum'[k] = recordIdByRegistryAndChecksum[k]
    <2>1. CASE isNew
      BY <1>5, <2>1 DEF Put
    <2>2. CASE ~ isNew
      BY <1>1, <1>5, <2>2, Zenon
    <2> QED BY <2>1, <2>2
  <1>9. /\ TypeOK' /\ RecordInv'
    BY AddRecordType, AddRecordRecords
  <1>10. ASSUME NEW k \in DOMAIN recordIdByRegistryAndChecksum, k # <<r, c>>
         PROVE  StreamOf(k)' = StreamOf(k)
    <2> DEFINE m == recordIdByRegistryAndChecksum[k]
    <2>1. /\ <<k[1], m>> \in DOMAIN recordIndices
          /\ \A j \in 1 .. recordIndices[<<k[1], m>>] : <<k[1], m, j>> \in DOMAIN records
      BY StreamStored
    <2>2. <<k[1], m>> # <<r, n>>
      <3>1. CASE isNew
        BY <1>1, <2>1, <3>1
      <3>2. CASE ~ isNew
        <4>1. <<k[1], m>> # <<<<r, c>>[1], recordIdByRegistryAndChecksum[<<r, c>>]>>
          BY <1>10, <3>2, StreamsApart
        <4> QED BY <1>1, <3>2, <4>1
      <3> QED BY <3>1, <3>2
    <2>3. recordIndices'[<<k[1], m>>] = recordIndices[<<k[1], m>>]
      BY <1>4, <2>1, <2>2
    <2>4. recordIdByRegistryAndChecksum'[k] = m
      BY <1>8
    <2> HIDE DEF m
    <2>5. StreamOf(k)' = [j \in 1 .. recordIndices'[<<k[1], m>>] |->
                             records'[<<k[1], m, j>>].status]
      BY <2>4 DEF StreamOf
    <2>6. StreamOf(k) = [j \in 1 .. recordIndices[<<k[1], m>>] |->
                             records[<<k[1], m, j>>].status]
      BY DEF StreamOf, m
    <2> QED BY <1>7, <2>1, <2>3, <2>5, <2>6
  <1>11. /\ StreamOf(<<r, c>>)' \in [1 .. i -> Status]
         /\ \A j \in 1 .. i : StreamOf(<<r, c>>)'[j] = records'[<<r, n, j>>].status
         /\ StreamOf(<<r, c>>)'[i] = status
    <2>1. /\ StreamOf(<<r, c>>)' \in [1 .. recordIndices'[<<<<r, c>>[1], n>>] -> Status]
          /\ \A j \in 1 .. recordIndices'[<<<<r, c>>[1], n>>] :
                StreamOf(<<r, c>>)'[j] = records'[<<<<r, c>>[1], n, j>>].status
      <3>1. <<r, c>> \in DOMAIN recordIdByRegistryAndChecksum'
        BY <1>8
      <3>2. StreamsTyped'
        BY <1>9, StreamsAreTyped, PTL
      <3> QED BY <1>8, <3>1, <3>2 DEF StreamsTyped
    <2>2. i \in 1 .. i
      BY <1>1 DEF Id
    <2> QED BY <1>2, <1>4, <1>6, <2>1, <2>2, SMTT(30)
  <1>12. StreamOf(<<r, c>>)' = IF isNew THEN <<status>>
                               ELSE Append(StreamOf(<<r, c>>), status)
    <2>1. CASE isNew
      BY <1>1, <1>11, <2>1, OnlyOne
    <2>2. CASE ~ isNew
      <3> DEFINE len == recordIndices[<<r, n>>]
      <3>1. <<r, c>> \in DOMAIN recordIdByRegistryAndChecksum /\ <<r, c>>[1] = r
            /\ n = recordIdByRegistryAndChecksum[<<r, c>>]
        BY <1>1, <2>2
      <3>2. /\ recordIndices[<<<<r, c>>[1], n>>] \in Nat
            /\ StreamOf(<<r, c>>) \in [1 .. recordIndices[<<<<r, c>>[1], n>>] -> Status]
            /\ \A j \in 1 .. recordIndices[<<<<r, c>>[1], n>>] :
                  StreamOf(<<r, c>>)[j] = records[<<<<r, c>>[1], n, j>>].status
        BY <3>1, StreamIsSeq
      <3>3. \A j \in 1 .. recordIndices[<<<<r, c>>[1], n>>] :
               <<<<r, c>>[1], n, j>> \in DOMAIN records
        BY <3>1, StreamStored
      <3>4. /\ len \in Nat /\ i = len + 1
            /\ StreamOf(<<r, c>>) \in [1 .. len -> Status]
            /\ \A j \in 1 .. len : StreamOf(<<r, c>>)[j] = records[<<r, n, j>>].status
            /\ \A j \in 1 .. len : <<r, n, j>> \in DOMAIN records
        BY <1>1, <2>2, <3>1, <3>2, <3>3, Zenon
      <3> HIDE DEF len
      <3>5. ASSUME NEW j \in 1 .. len
            PROVE  StreamOf(<<r, c>>)'[j] = StreamOf(<<r, c>>)[j]
        <4>1. j \in 1 .. i
          BY <3>4
        <4>2. StreamOf(<<r, c>>)'[j] = records'[<<r, n, j>>].status
          BY <1>11, <4>1, Zenon
        <4> QED BY <1>7, <3>4, <4>2
      <3>6. StreamOf(<<r, c>>)' = Append(StreamOf(<<r, c>>), StreamOf(<<r, c>>)'[len + 1])
        <4>1. StreamOf(<<r, c>>)' \in [1 .. len + 1 -> Status]
          BY <1>11, <3>4, Zenon
        <4> QED BY <3>4, <3>5, <4>1, OneMore, Zenon
      <3> QED BY <1>11, <2>2, <3>4, <3>6, Zenon
    <2> QED BY <2>1, <2>2
  <1>13. LedgerStreams' = [k \in DOMAIN recordIdByRegistryAndChecksum' |-> StreamOf(k)']
    BY DEF LedgerStreams
  <1>14. LedgerStreams = [k \in DOMAIN recordIdByRegistryAndChecksum |-> StreamOf(k)]
    BY DEF LedgerStreams
  <1> QED BY <1>1, <1>8, <1>10, <1>12, <1>13, <1>14, Zenon DEF Ledger!Extended

\* UpdateRecordStatus sets the status of one version of its stream
\* (keeper/anchoring.go:152-183).
LEMMA UpdateSetsStatus ==
    ASSUME TypeOK, RecordInv, NEW sender \in Addr, NEW key \in DOMAIN records,
           NEW status \in Status \cup {NoStatus},
           UpdateRecordStatus(sender, key[1], key[2], key[3], status),
           NEW k, k = <<key[1], records[key].checksum>>
    PROVE  /\ key[1] \in DOMAIN registries /\ records[key].checksum \in Checksum
           /\ status \in Status
           /\ Ledger!SetStatus(k, key[3], status)
  <1>1. /\ key \in Id \X Id \X Id /\ key = <<key[1], key[2], key[3]>>
        /\ status \in Status /\ records[key] \in Record
    BY DEF TypeOK, IsMap, UpdateRecordStatus
  <1>2. /\ records' = Put(records, key, [records[key] EXCEPT !.status = status])
        /\ UNCHANGED <<recordIdByRegistryAndChecksum, recordIndices>>
    BY <1>1, SMTT(30) DEF UpdateRecordStatus
  <1>3. /\ k \in DOMAIN recordIdByRegistryAndChecksum
        /\ recordIdByRegistryAndChecksum[k] = key[2]
        /\ k[1] = key[1]
    <2>1. records[key].checksum \in Checksum
      BY <1>1 DEF Record
    <2> QED BY <2>1, SMTT(30) DEF RecordInv, OneStreamPerChecksum
  <1>4. key[1] \in DOMAIN registries /\ key[3] \in 1 .. recordIndices[<<key[1], key[2]>>]
    <2>1. /\ <<key[1], key[2]>> \in DOMAIN recordIndices
          /\ key[3] <= recordIndices[<<key[1], key[2]>>]
      BY DEF RecordInv, StreamsDense
    <2>2. recordIndices[<<key[1], key[2]>>] \in Id
      BY <2>1 DEF TypeOK, IsMap
    <2>3. key[1] \in DOMAIN registries
      BY <2>1 DEF RecordInv, StreamsDense
    <2> QED BY <1>1, <2>1, <2>2, <2>3, SMTT(30) DEF Id
  <1>5. /\ records'[key].status = status
        /\ \A q \in DOMAIN records : q # key => records'[q] = records[q]
    <2>1. [records[key] EXCEPT !.status = status].status = status
      BY <1>1 DEF Record
    <2> QED BY <1>2, <2>1, Zenon DEF Put
  <1>6. ASSUME NEW l \in DOMAIN recordIdByRegistryAndChecksum
        PROVE  StreamOf(l)' = IF l = k THEN [StreamOf(k) EXCEPT ![key[3]] = status]
                              ELSE StreamOf(l)
    <2> DEFINE m == recordIdByRegistryAndChecksum[l]
               len == recordIndices[<<l[1], m>>]
    <2>1. \A j \in 1 .. len : <<l[1], m, j>> \in DOMAIN records
      BY StreamStored
    <2>2. StreamOf(l)' = [j \in 1 .. len |-> records'[<<l[1], m, j>>].status]
      BY <1>2 DEF StreamOf
    <2>3. StreamOf(l) = [j \in 1 .. len |-> records[<<l[1], m, j>>].status]
      BY DEF StreamOf
    <2>4. CASE l = k
      <3>1. \A j \in 1 .. len : <<l[1], m, j>> = key <=> j = key[3]
        BY <1>1, <1>3, <2>4
      <3>2. \A j \in 1 .. len : records'[<<l[1], m, j>>].status =
                                    IF j = key[3] THEN status
                                    ELSE records[<<l[1], m, j>>].status
        BY <1>5, <2>1, <3>1
      <3> HIDE DEF m, len
      <3>3. [StreamOf(l) EXCEPT ![key[3]] = status] =
               [j \in 1 .. len |-> IF j = key[3] THEN status
                                   ELSE records[<<l[1], m, j>>].status]
        BY <2>3, Zenon
      <3>4. StreamOf(l)' = [StreamOf(l) EXCEPT ![key[3]] = status]
        BY <2>2, <3>2, <3>3, Zenon
      <3> QED BY <2>4, <3>4
    <2>5. CASE l # k
      <3>1. <<l[1], m>> # <<key[1], key[2]>>
        BY <1>3, <2>5, StreamsApart
      <3>2. \A j \in 1 .. len : <<l[1], m, j>> # key
        BY <1>1, <3>1
      <3> HIDE DEF m, len
      <3>3. \A j \in 1 .. len : records'[<<l[1], m, j>>].status =
                                    records[<<l[1], m, j>>].status
        BY <1>5, <2>1, <3>2
      <3> QED BY <2>2, <2>3, <2>5, <3>3, Zenon
    <2> QED BY <2>4, <2>5, SMTT(30)
  <1>7. LedgerStreams' = [l \in DOMAIN recordIdByRegistryAndChecksum |-> StreamOf(l)']
    BY <1>2 DEF LedgerStreams
  <1>8. LedgerStreams = [l \in DOMAIN recordIdByRegistryAndChecksum |-> StreamOf(l)]
    BY DEF LedgerStreams
  <1>9. key[3] \in DOMAIN StreamOf(k)
    BY <1>3, <1>4, StreamIsSeq
  <1>10. records[key].checksum \in Checksum
    BY <1>1 DEF Record
  <1> QED BY <1>1, <1>3, <1>4, <1>6, <1>7, <1>8, <1>9, <1>10, SMTT(30) DEF Ledger!SetStatus

\* Every message is a step of the ledger or none: an added record lands at the end of
\* the stream of its own checksum, a status update changes one version, and nothing
\* else moves (keeper/anchoring.go:67-183).
THEOREM LedgerImplemented == Spec => ImplementsLedger
  <1>1. Init => Ledger!Init
    BY DEF Init, EmptyMap, Ledger!Init, LedgerStreams
  <1>2. ASSUME TypeOK, RecordInv, Bounded, [Next]_vars
        PROVE  [Ledger!Next]_LedgerStreams
    <2>1. ASSUME NEW sender \in Addr, NEW r \in RegistryIds, NEW c \in ScopeChecksum,
                 NEW status \in Status \cup {NoStatus}, AddRecord(sender, r, c, status)
          PROVE  Ledger!Next
      <3>1. /\ <<r, c>> \in RegistryIds \X Checksum /\ status \in Status
            /\ Ledger!AppendVersion(<<r, c>>, status)
        BY <1>2, <2>1, AddRecordAppends DEF Ledger!AppendVersion
      <3> QED BY <3>1, Zenon DEF Ledger!Next
    <2>2. ASSUME NEW sender \in Addr, NEW key \in DOMAIN records,
                 NEW status \in Status \cup {NoStatus},
                 UpdateRecordStatus(sender, key[1], key[2], key[3], status)
          PROVE  Ledger!Next
      <3> DEFINE k == <<key[1], records[key].checksum>>
      <3>1. /\ key[1] \in DOMAIN registries /\ records[key].checksum \in Checksum
            /\ status \in Status /\ Ledger!SetStatus(k, key[3], status)
        BY <1>2, <2>2, UpdateSetsStatus, SMTT(30)
      <3>2. DOMAIN registries \subseteq RegistryIds
        BY <1>2, BoundAssumption, SMTT(30) DEF RecordInv, RegistriesDense, RegistryIds, TypeOK, Bounded
      <3>3. k \in RegistryIds \X Checksum
        BY <3>1, <3>2
      <3>4. k \in DOMAIN LedgerStreams /\ key[3] \in DOMAIN LedgerStreams[k]
        BY <3>1 DEF Ledger!SetStatus
      <3> HIDE DEF k
      <3> QED BY <3>1, <3>3, <3>4, Zenon DEF Ledger!Next
    <2>3. ASSUME NEW sender, AddRegistry(sender) PROVE LedgerStreams' = LedgerStreams
      BY <2>3, NoLedgerStep DEF AddRegistry
    <2>4. ASSUME NEW granter, NEW grantee, NEW r, NEW c, NEW role,
                 GrantRole(granter, grantee, r, c, role)
          PROVE  LedgerStreams' = LedgerStreams
      BY <2>4, NoLedgerStep DEF GrantRole, recordVars
    <2>5. ASSUME NEW revoker, NEW revokee, NEW r, NEW c, NEW role,
                 RevokeRole(revoker, revokee, r, c, role)
          PROVE  LedgerStreams' = LedgerStreams
      BY <2>5, NoLedgerStep DEF RevokeRole, recordVars
    <2>6. ASSUME NEW authority, NEW newAdmin, UpdateParams(authority, newAdmin)
          PROVE  LedgerStreams' = LedgerStreams
      BY <2>6, NoLedgerStep DEF UpdateParams, recordVars
    <2>7. ASSUME UNCHANGED vars PROVE LedgerStreams' = LedgerStreams
      BY <2>7, NoLedgerStep DEF vars, recordVars
    <2> QED
      BY <1>2, <2>1, <2>2, <2>3, <2>4, <2>5, <2>6, <2>7, ZenonT(20) DEF Next
  <1> QED
    BY <1>1, <1>2, TypeCorrect, RecordInvariant, RegistriesBounded, PTL
       DEF Spec, ImplementsLedger, Ledger!Spec

-----------------------------------------------------------------------------
(***************************************************************************)
(* Transactions: the inductive invariant                                   *)
(***************************************************************************)

\* The keeper's collections as a snapshot holds them.
At(s) == INSTANCE Anchoring WITH
    admin <- s.admin, registries <- s.registries, registryCount <- s.registryCount,
    records <- s.records, recordIdByRegistryAndChecksum <- s.byRegistry,
    recordIdByChecksumAndRegistry <- s.byChecksum,
    recordsCountByRegistry <- s.counts, recordIndices <- s.indices,
    roleAdmins <- s.roleAdmins, roleMembers <- s.roleMembers

\* What every handler keeps, of the store and of a snapshot.
StoreSound == TypeOK /\ RecordInv /\ RoleInv

SnapshotSound(s) ==
    /\ At(s)!TypeOK
    /\ At(s)!RegistriesDense /\ At(s)!StreamsDense
    /\ At(s)!OneLatestVersion /\ At(s)!OneStreamPerChecksum
    /\ At(s)!HeldRolesRevocable /\ At(s)!RegistryHasAdmin

\* The logs of a transaction of the sender announce exactly the registries and the
\* versions that are there beyond those of the store it began with.
Announced(base, sender, ls, registryIds, keys) ==
    /\ DOMAIN base.registries \subseteq registryIds
    /\ DOMAIN base.records \subseteq keys
    /\ \A l \in ls : l.caller = sender
    /\ \A l \in ls : l.event = "AddRegistry" =>
          \E id \in registryIds \ DOMAIN base.registries : l.key = <<id>>
    /\ \A id \in registryIds \ DOMAIN base.registries :
          \E l \in ls : l.event = "AddRegistry" /\ l.key = <<id>>
    /\ \A l \in ls : l.event = "AddRecord" => l.key \in keys \ DOMAIN base.records
    /\ \A key \in keys \ DOMAIN base.records :
          \E l \in ls : l.event = "AddRecord" /\ l.key = key

FrameSound(base, sender, f) ==
    /\ SnapshotSound(f.store)
    /\ Announced(base, sender, f.logs, DOMAIN f.store.registries, DOMAIN f.store.records)

FramesSound == \A i \in DOMAIN frames : FrameSound(frames[1].store, origin, frames[i])

IsSeq(s) == s \in Seq({s[i] : i \in DOMAIN s})

\* Every open frame can be undone to a sound store with truthful logs.
EvmInv ==
    /\ IsSeq(frames)
    /\ failing \in BOOLEAN
    /\ origin \in EOA
    /\ IF idle THEN logs = {} ELSE frames[1].logs = {}
    /\ failing => Len(frames) > 1
    /\ ~ failing => StoreSound
    /\ ~ failing /\ ~ idle =>
          Announced(frames[1].store, origin, logs, DOMAIN registries, DOMAIN records)
    /\ \A l \in logs : l.caller = origin
    /\ FramesSound

-----------------------------------------------------------------------------
(***************************************************************************)
(* Snapshots                                                               *)
(***************************************************************************)

\* A snapshot of a sound store is sound (the state database's Snapshot).
LEMMA TakenSound ==
    ASSUME StoreSound
    PROVE  SnapshotSound(MultiStoreSnapshot)
  <1> SUFFICES ASSUME NEW s, s = MultiStoreSnapshot
               PROVE  SnapshotSound(s)
    OBVIOUS
  <1>1. /\ s.admin = admin /\ s.registries = registries
        /\ s.registryCount = registryCount /\ s.records = records
        /\ s.byRegistry = recordIdByRegistryAndChecksum
        /\ s.byChecksum = recordIdByChecksumAndRegistry
        /\ s.counts = recordsCountByRegistry /\ s.indices = recordIndices
        /\ s.roleAdmins = roleAdmins /\ s.roleMembers = roleMembers
    BY SMTT(30) DEF MultiStoreSnapshot
  <1>2. At(s)!TypeOK
    BY <1>1, SMTT(30) DEF StoreSound, TypeOK, At!TypeOK, IsMap, At!IsMap, Id, At!Id, Record,
       At!Record, Registry, At!Registry, Role, At!Role
  <1>3. At(s)!RegistriesDense /\ At(s)!StreamsDense
    BY <1>1 DEF StoreSound, RecordInv, RegistriesDense, StreamsDense,
       At!RegistriesDense, At!StreamsDense
  <1>4. At(s)!OneLatestVersion
    BY <1>1, Zenon DEF StoreSound, RecordInv, OneLatestVersion, At!OneLatestVersion
  <1>5. At(s)!OneStreamPerChecksum
    BY <1>1, SMTT(30) DEF StoreSound, RecordInv, OneStreamPerChecksum, At!OneStreamPerChecksum
  <1>6. At(s)!HeldRolesRevocable /\ At(s)!RegistryHasAdmin
    BY <1>1 DEF StoreSound, RoleInv, HeldRolesRevocable, At!HeldRolesRevocable,
       RegistryHasAdmin, At!RegistryHasAdmin, Members, At!Members, HasRole, At!HasRole,
       RegistryRole, At!RegistryRole
  <1> QED
    BY <1>2, <1>3, <1>4, <1>5, <1>6, SMTT(30) DEF SnapshotSound

\* The message handlers keep the store sound.
LEMMA SoundStep ==
    ASSUME StoreSound, [Next]_vars
    PROVE  StoreSound'
  BY TypeStep, RecordStep, RoleStep DEF StoreSound

\* A store that is put back from a sound snapshot is sound (RevertToSnapshot).
LEMMA RestoredSound ==
    ASSUME NEW s, SnapshotSound(s), Restore(s)
    PROVE  StoreSound'
  <1>1. TypeOK'
    BY Zenon DEF SnapshotSound, Restore, TypeOK, At!TypeOK, IsMap, At!IsMap, Id, At!Id, Record,
       At!Record, Registry, At!Registry, Role, At!Role
  <1>2. RegistriesDense' /\ StreamsDense'
    BY Zenon DEF SnapshotSound, Restore, RegistriesDense, StreamsDense, At!RegistriesDense,
       At!StreamsDense
  <1>3. OneLatestVersion'
    BY Zenon DEF SnapshotSound, Restore, OneLatestVersion, At!OneLatestVersion
  <1>4. OneStreamPerChecksum'
    BY SMTT(30) DEF SnapshotSound, Restore, OneStreamPerChecksum, At!OneStreamPerChecksum
  <1>5. HeldRolesRevocable' /\ RegistryHasAdmin'
    BY DEF SnapshotSound, Restore, HeldRolesRevocable, At!HeldRolesRevocable,
       RegistryHasAdmin, At!RegistryHasAdmin, Members, At!Members, HasRole, At!HasRole,
       RegistryRole, At!RegistryRole
  <1> QED
    BY <1>1, <1>2, <1>3, <1>4, <1>5, SMTT(30) DEF StoreSound, RecordInv, RoleInv

-----------------------------------------------------------------------------
(***************************************************************************)
(* Frames                                                                  *)
(***************************************************************************)

\* A sequence is a sequence of its own elements.
LEMMA SeqOfOwn ==
    ASSUME NEW T, NEW s \in Seq(T)
    PROVE  IsSeq(s)
  BY DEF IsSeq

\* A sequence is a function on 1 to its length.
LEMMA SeqDomain ==
    ASSUME NEW T, NEW s \in Seq(T)
    PROVE  DOMAIN s = 1 .. Len(s) /\ Len(s) \in Nat /\ \A i \in DOMAIN s : s[i] \in T
  OBVIOUS

\* The frames of a transaction in progress.
LEMMA FramesDomain ==
    ASSUME NEW s, IsSeq(s), s # <<>>
    PROVE  DOMAIN s = 1 .. Len(s) /\ Len(s) \in Nat \ {0}
  BY DEF IsSeq

\* Opening a frame.
LEMMA Push ==
    ASSUME NEW s, IsSeq(s), NEW f, NEW t, t = Append(s, f)
    PROVE  /\ IsSeq(t)
           /\ Len(t) = Len(s) + 1
           /\ t # <<>>
           /\ t[Len(s) + 1] = f
           /\ DOMAIN t = DOMAIN s \cup {Len(s) + 1}
           /\ \A i \in DOMAIN s : t[i] = s[i]
  <1>1. PICK T : s \in Seq(T) /\ f \in T
    <2>1. s \in Seq({s[i] : i \in DOMAIN s} \cup {f})
      BY DEF IsSeq
    <2> QED
      BY <2>1
  <1>2. t \in Seq(T)
    BY <1>1
  <1>3. IsSeq(t)
    BY <1>2, SeqOfOwn, Zenon
  <1> QED
    BY <1>1, <1>2, <1>3

\* Closing the innermost frame.
LEMMA Pop ==
    ASSUME NEW s, IsSeq(s), s # <<>>, NEW t, t = SubSeq(s, 1, Len(s) - 1)
    PROVE  /\ IsSeq(t)
           /\ Len(t) = Len(s) - 1
           /\ DOMAIN t = 1 .. Len(s) - 1
           /\ \A i \in DOMAIN t : t[i] = s[i]
  <1> DEFINE n == Len(s) - 1
  <1>1. PICK T : s \in Seq(T)
    BY DEF IsSeq
  <1>2. DOMAIN s = 1 .. Len(s) /\ \A i \in DOMAIN s : s[i] \in T
    BY <1>1, SeqDomain
  <1>3. n \in Nat /\ n <= Len(s)
    BY <1>1, <1>2, FramesDomain, SMTT(30)
  <1> HIDE DEF n
  <1>4. SubSeq(s, 1, n) \in Seq(T) /\ Len(SubSeq(s, 1, n)) = n
    BY <1>1, <1>3
  <1>5. t = SubSeq(s, 1, n)
    BY DEF n
  <1>6. t \in Seq(T) /\ IsSeq(t)
    BY <1>4, <1>5, SeqOfOwn, Zenon
  <1>7. Len(t) = n
    BY <1>4, <1>5, Zenon
  <1>8. DOMAIN t = 1 .. n
    BY <1>6, <1>7, SeqDomain, Zenon
  <1>9. \A i \in 1 .. n : SubSeq(s, 1, n)[i] = s[i]
    BY <1>1, <1>3
  <1>10. \A i \in DOMAIN t : t[i] = s[i]
    BY <1>5, <1>8, <1>9, Zenon
  <1> QED
    BY <1>6, <1>7, <1>8, <1>10, Zenon DEF n

\* A frame opened on a sound store with truthful logs is sound.
LEMMA OpenedSound ==
    ASSUME StoreSound, NEW base, NEW sender, NEW address,
           Announced(base, sender, logs, DOMAIN registries, DOMAIN records)
    PROVE  FrameSound(base, sender, Frame(address))
  <1>1. /\ Frame(address).store = MultiStoreSnapshot
        /\ Frame(address).logs = logs
        /\ MultiStoreSnapshot.registries = registries
        /\ MultiStoreSnapshot.records = records
    BY SMTT(30) DEF Frame, MultiStoreSnapshot
  <1> QED
    BY <1>1, TakenSound, Zenon DEF FrameSound

-----------------------------------------------------------------------------
(***************************************************************************)
(* Steps that open and close frames                                        *)
(***************************************************************************)

\* A transaction begins on a sound store with no logs.
LEMMA BeginTxInv ==
    ASSUME EvmInv, NEW sender \in EOA, NEW address, BeginTx(sender, address)
    PROVE  EvmInv'
  <1> DEFINE f == Frame(address)
             base == f.store
  <1>1. /\ frames = <<>> /\ logs = {} /\ ~ failing
        /\ origin' = sender /\ frames' = <<f>>
        /\ UNCHANGED <<vars, failing, logs>>
    <2>1. ~ (Len(frames) > 1)
      BY DEF BeginTx, idle
    <2> QED
      BY <2>1 DEF BeginTx, idle, EvmInv
  <1>2. base.registries = registries /\ base.records = records /\ f.logs = logs
    BY DEF Frame, MultiStoreSnapshot
  <1> HIDE DEF f
  <1>3. Announced(base, sender, logs, DOMAIN registries, DOMAIN records)
    BY <1>1, <1>2, SMTT(30) DEF Announced
  <1>4. StoreSound
    BY <1>1, SMTT(30) DEF EvmInv
  <1>5. FrameSound(base, sender, f)
    BY <1>3, <1>4, OpenedSound, SMTT(30) DEF f
  <1>6. StoreSound'
    BY <1>1, <1>4, SoundStep, SMTT(30)
  <1>7. DOMAIN frames' = {1} /\ frames'[1] = f /\ frames' # <<>>
    BY <1>1
  <1>8. IsSeq(frames')
    <2>1. <<f>> \in Seq({f})
      OBVIOUS
    <2> QED
      BY <1>1, <2>1, SeqOfOwn, Zenon
  <1>9. DOMAIN registries' = DOMAIN registries /\ DOMAIN records' = DOMAIN records
    BY <1>1 DEF vars, recordVars
  <1> QED
    BY <1>1, <1>2, <1>3, <1>5, <1>6, <1>7, <1>8, <1>9, Zenon DEF EvmInv, FramesSound, idle

\* The frames after one more is opened, whatever its call does to the store.
LEMMA Opened ==
    ASSUME EvmInv, frames # <<>>, ~ failing, NEW address,
           frames' = Append(frames, Frame(address)), origin' = origin
    PROVE  /\ IsSeq(frames') /\ frames' # <<>>
           /\ Len(frames') > 1
           /\ frames'[1] = frames[1]
           /\ FramesSound'
  <1> DEFINE f == Frame(address)
             base == frames[1].store
  <1>1. /\ StoreSound /\ IsSeq(frames)
        /\ Announced(base, origin, logs, DOMAIN registries, DOMAIN records)
        /\ \A i \in DOMAIN frames : FrameSound(base, origin, frames[i])
    BY DEF EvmInv, FramesSound, idle
  <1>2. FrameSound(base, origin, f)
    BY <1>1, OpenedSound
  <1> HIDE DEF f
  <1>3. frames' = Append(frames, f)
    BY DEF f
  <1>4. IsSeq(frames') /\ frames' # <<>> /\ Len(frames') = Len(frames) + 1
    BY <1>1, <1>3, Push, Zenon
  <1>5. frames'[Len(frames) + 1] = f
    BY <1>1, <1>3, Push, SMTT(30)
  <1>6. DOMAIN frames' = DOMAIN frames \cup {Len(frames) + 1}
    BY <1>1, <1>3, Push, SMTT(30)
  <1>7. \A i \in DOMAIN frames : frames'[i] = frames[i]
    BY <1>1, <1>3, Push, SMTT(30)
  <1>8. 1 \in DOMAIN frames /\ Len(frames) \in Nat \ {0}
    BY <1>1, FramesDomain, SMTT(30)
  <1> QED
    BY <1>1, <1>2, <1>4, <1>5, <1>6, <1>7, <1>8, SMTT(30) DEF FramesSound

\* A frame is opened inside another.
LEMMA EnterInv ==
    ASSUME EvmInv, NEW address, Enter(address)
    PROVE  EvmInv'
  <1>1. /\ frames # <<>> /\ ~ failing
        /\ frames' = Append(frames, Frame(address))
        /\ UNCHANGED <<vars, origin, failing, logs>>
    BY DEF Enter, idle
  <1>2. /\ IsSeq(frames') /\ frames' # <<>>
        /\ frames'[1] = frames[1]
        /\ FramesSound'
    BY <1>1, Opened
  <1>3. StoreSound'
    BY <1>1, SoundStep DEF EvmInv
  <1>4. DOMAIN registries' = DOMAIN registries /\ DOMAIN records' = DOMAIN records
    BY <1>1 DEF vars, recordVars
  <1> QED
    BY <1>1, <1>2, <1>3, <1>4, SMTT(30) DEF EvmInv, idle

\* What is left of the invariant when the innermost frame is closed.
LEMMA Closed ==
    ASSUME EvmInv, frames # <<>>, frames' = SubSeq(frames, 1, Len(frames) - 1),
           origin' = origin
    PROVE  /\ IsSeq(frames')
           /\ FrameSound(frames[1].store, origin, frames[Len(frames)])
           /\ Len(frames) \in Nat \ {0}
           /\ frames' = <<>> <=> Len(frames) = 1
           /\ frames' # <<>> => frames'[1] = frames[1]
           /\ FramesSound'
  <1>1. IsSeq(frames)
    BY DEF EvmInv
  <1>2. /\ IsSeq(frames')
        /\ Len(frames') = Len(frames) - 1
        /\ DOMAIN frames' = 1 .. Len(frames) - 1
        /\ \A i \in DOMAIN frames' : frames'[i] = frames[i]
    BY <1>1, Pop, Zenon
  <1>3. DOMAIN frames = 1 .. Len(frames) /\ Len(frames) \in Nat \ {0}
    BY <1>1, FramesDomain
  <1>4. frames' = <<>> <=> Len(frames) = 1
    <2>1. frames' = <<>> => Len(frames') = 0
      BY Zenon
    <2>2. frames' # <<>> => Len(frames') \in Nat \ {0}
      BY <1>2, FramesDomain
    <2> QED
      BY <1>2, <1>3, <2>1, <2>2, SMTT(30)
  <1>5. \A i \in DOMAIN frames' : i \in DOMAIN frames
    BY <1>2, <1>3, SMTT(30)
  <1>6. \A i \in DOMAIN frames : FrameSound(frames[1].store, origin, frames[i])
    BY DEF EvmInv, FramesSound
  <1>7. Len(frames) \in DOMAIN frames
    BY <1>3
  <1>8. frames' # <<>> => 1 \in DOMAIN frames'
    BY <1>2, <1>3, <1>4
  <1> QED
    BY <1>2, <1>3, <1>4, <1>5, <1>6, <1>7, <1>8, SMTT(30) DEF FramesSound

\* A frame returns; with the outermost one the transaction is over.
LEMMA LeaveInv ==
    ASSUME EvmInv, Leave
    PROVE  EvmInv'
  <1>1. /\ frames # <<>> /\ ~ failing
        /\ frames' = SubSeq(frames, 1, Len(frames) - 1)
        /\ logs' = IF Len(frames) = 1 THEN {} ELSE logs
        /\ UNCHANGED <<vars, origin, failing>>
    BY DEF Leave, idle
  <1>2. /\ IsSeq(frames')
        /\ frames' = <<>> <=> Len(frames) = 1
        /\ frames' # <<>> => frames'[1] = frames[1]
        /\ FramesSound'
    BY <1>1, Closed, SMTT(30)
  <1>3. StoreSound'
    BY <1>1, SoundStep DEF EvmInv
  <1>4. DOMAIN registries' = DOMAIN registries /\ DOMAIN records' = DOMAIN records
    BY <1>1, SMTT(30) DEF vars, recordVars
  <1>5. CASE frames' = <<>>
    BY <1>1, <1>2, <1>3, <1>5, SMTT(30) DEF EvmInv, idle
  <1>6. CASE frames' # <<>>
    BY <1>1, <1>2, <1>3, <1>4, <1>6, SMTT(30) DEF EvmInv, idle
  <1> QED
    BY <1>5, <1>6

\* Closing a frame and putting its snapshot and its logs back: a frame that
\* reverts, and a precompile call that has failed.
LEMMA UndoneInv ==
    ASSUME EvmInv, frames # <<>>, Undo(top),
           frames' = SubSeq(frames, 1, Len(frames) - 1), failing' = FALSE,
           origin' = origin
    PROVE  EvmInv'
  <1> DEFINE f == frames[Len(frames)]
             base == frames[1].store
  <1>1. /\ IsSeq(frames')
        /\ FrameSound(base, origin, f)
        /\ frames' = <<>> <=> Len(frames) = 1
        /\ frames' # <<>> => frames'[1] = frames[1]
        /\ FramesSound'
    BY Closed
  <1>2. Restore(f.store) /\ logs' = f.logs
    BY DEF Undo, top
  <1>3. StoreSound'
    BY <1>1, <1>2, RestoredSound, SMTT(30) DEF FrameSound
  <1>4. Announced(base, origin, logs', DOMAIN registries', DOMAIN records')
    BY <1>1, <1>2, SMTT(30) DEF FrameSound, Restore
  <1>5. \A l \in logs' : l.caller = origin
    BY <1>4, SMTT(30) DEF Announced
  <1>6. Len(frames) = 1 => logs' = {}
    BY <1>2 DEF EvmInv, idle
  <1>7. CASE frames' = <<>>
    <2>1. logs' = {} /\ idle' /\ ~ failing'
      BY <1>1, <1>6, <1>7, SMTT(30) DEF idle
    <2>2. DOMAIN frames' = {}
      BY <1>7, SMTT(30)
    <2>3. origin' \in EOA
      BY DEF EvmInv
    <2> QED
      BY <1>1, <1>3, <2>1, <2>2, <2>3, Zenon DEF EvmInv
  <1>8. CASE frames' # <<>>
    BY <1>1, <1>3, <1>4, <1>5, <1>8, Zenon DEF EvmInv, idle
  <1> QED
    BY <1>7, <1>8

\* A frame that reverts.
LEMMA RevertInv ==
    ASSUME EvmInv, Revert
    PROVE  EvmInv'
  <1>1. /\ frames # <<>> /\ Undo(top)
        /\ frames' = SubSeq(frames, 1, Len(frames) - 1)
        /\ failing' = FALSE /\ origin' = origin
    BY DEF Revert, idle, Undo, EvmInv
  <1> QED
    BY <1>1, UndoneInv, Zenon

\* A precompile call that has failed.
LEMMA ReturnsInv ==
    ASSUME EvmInv, RunNativeActionReturns
    PROVE  EvmInv'
  <1>1. frames # <<>>
    <2>1. Len(<<>>) = 0
      BY SMTT(30)
    <2> QED
      BY <2>1 DEF EvmInv, RunNativeActionReturns
  <1> QED
    BY <1>1, UndoneInv, Zenon DEF RunNativeActionReturns

\* A call fails after any of its writes: the frame it opened before the first one
\* is sound, whatever state the writes left (precompiles/common.go:44-97).
LEMMA ExecuteFailsInv ==
    ASSUME EvmInv, NEW value, NEW readOnly, ExecuteFails(value, readOnly)
    PROVE  EvmInv'
  <1>1. /\ frames # <<>> /\ ~ failing
        /\ frames' = Append(frames, Frame(top.address))
        /\ failing' = TRUE
        /\ UNCHANGED <<origin, logs>>
    BY DEF ExecuteFails, idle
  <1>2. /\ IsSeq(frames') /\ frames' # <<>> /\ Len(frames') > 1
        /\ frames'[1] = frames[1]
        /\ FramesSound'
    BY <1>1, Opened, SMTT(30)
  <1> QED
    BY <1>1, <1>2, SMTT(30) DEF EvmInv, idle

\* A Cosmos transaction comes between two EVM transactions.
LEMMA CosmosInv ==
    ASSUME EvmInv, idle, Next, UNCHANGED txVars
    PROVE  EvmInv'
  <1>1. frames = <<>> /\ UNCHANGED <<origin, frames, failing, logs>>
    BY DEF idle, txVars
  <1>2. ~ failing
    BY <1>1 DEF EvmInv
  <1>3. StoreSound'
    BY <1>2, SoundStep, SMTT(30) DEF EvmInv
  <1> QED
    BY <1>1, <1>2, <1>3, SMTT(30) DEF EvmInv, FramesSound, idle

-----------------------------------------------------------------------------
(***************************************************************************)
(* Calls that succeed                                                      *)
(***************************************************************************)

\* A method of the precompile runs a message handler.
LEMMA MethodIsNext ==
    ASSUME NEW caller \in Addr, Method(caller)
    PROVE  Next
  <1>1. CASE AddRegistryCall(caller)
    BY <1>1, SMTT(30) DEF AddRegistryCall, Next
  <1>2. CASE \E registryId \in RegistryIds, checksum \in ScopeChecksum, status \in Status :
                AddRecordCall(caller, registryId, checksum, status)
    BY <1>2, ZenonT(30) DEF AddRecordCall, Next
  <1>3. CASE \E key \in DOMAIN records, status \in Status :
                UpdateRecordStatusCall(caller, key, status)
    BY <1>3, ZenonT(30) DEF UpdateRecordStatusCall, Next
  <1>4. CASE \E account \in Addr, registryId \in RegistryIds, checksum \in ScopeChecksum,
                role \in RoleName :
                   GrantRoleCall(caller, account, registryId, checksum, role)
    BY <1>4, ZenonT(30) DEF GrantRoleCall, Next
  <1>5. CASE \E account \in Addr, registryId \in RegistryIds, checksum \in ScopeChecksum,
                role \in RoleName :
                   RevokeRoleCall(caller, account, registryId, checksum, role)
    BY <1>5, Zenon DEF RevokeRoleCall, Next
  <1> QED
    BY <1>1, <1>2, <1>3, <1>4, <1>5, SMTT(30) DEF Method

\* A log of another event changes nothing in what is announced.
LEMMA OtherLog ==
    ASSUME NEW base, NEW caller, NEW key, NEW event,
           event \notin {"AddRegistry", "AddRecord"},
           Announced(base, caller, logs, DOMAIN registries, DOMAIN records),
           emitEvent(event, caller, key),
           DOMAIN registries' = DOMAIN registries, DOMAIN records' = DOMAIN records
    PROVE  Announced(base, caller, logs', DOMAIN registries', DOMAIN records')
  <1> DEFINE l == [event |-> event, caller |-> caller, key |-> key]
  <1>1. logs' = logs \cup {l} /\ l.event = event /\ l.caller = caller
    BY SMTT(30) DEF emitEvent
  <1> HIDE DEF l
  <1> QED
    BY <1>1, SMTT(30) DEF Announced

\* AddRegistry announces the id that it has just taken (precompile/events.go:15-27).
LEMMA AddRegistryLog ==
    ASSUME StoreSound, NEW base, NEW caller \in Addr, AddRegistryCall(caller),
           Announced(base, caller, logs, DOMAIN registries, DOMAIN records)
    PROVE  Announced(base, caller, logs', DOMAIN registries', DOMAIN records')
  <1> DEFINE id == registryCount + 1
             l == [event |-> "AddRegistry", caller |-> caller, key |-> <<id>>]
  <1>1. /\ DOMAIN registries' = DOMAIN registries \cup {id}
        /\ DOMAIN records' = DOMAIN records
        /\ logs' = logs \cup {l}
    BY ZenonT(30) DEF AddRegistryCall, AddRegistry, Put, emitEvent
  <1>2. id \notin DOMAIN registries
    BY DEF StoreSound, TypeOK, RecordInv, RegistriesDense
  <1>3. l.event = "AddRegistry" /\ l.caller = caller /\ l.key = <<id>>
    OBVIOUS
  <1> HIDE DEF id, l
  <1>4. id \notin DOMAIN base.registries
    BY <1>2, SMTT(30) DEF Announced
  <1> QED
    BY <1>1, <1>3, <1>4, SMTT(30) DEF Announced

\* AddRecord stores one version, under a key that was free, and RecordIndices leads
\* to it (keeper/anchoring.go:104-137).
LEMMA AddRecordStores ==
    ASSUME TypeOK, RecordInv, NEW sender \in Addr, NEW r \in RegistryIds,
           NEW c \in ScopeChecksum, NEW status \in Status \cup {NoStatus},
           AddRecord(sender, r, c, status)
    PROVE  LET n == RecordIdFor(r, c)
               i == NextIndex(r, n)
           IN  /\ <<r, n, i>> \notin DOMAIN records
               /\ DOMAIN records' = DOMAIN records \cup {<<r, n, i>>}
               /\ recordIndices'[<<r, n>>] = i
               /\ registries' = registries
  <1> DEFINE n == RecordIdFor(r, c)
             i == NextIndex(r, n)
             key == <<r, n, i>>
             prev == <<r, n, i - 1>>
             rec == AddedRecord(r, c, status)
             isNew == <<r, c>> \notin DOMAIN recordIdByRegistryAndChecksum
  <1>1. /\ r \in Id /\ n \in Id /\ i \in Id
        /\ r \in DOMAIN registries
        /\ c \in Checksum /\ status \in Status
        /\ isNew => /\ n = recordsCountByRegistry[r] + 1
                    /\ <<r, n>> \notin DOMAIN recordIndices
                    /\ i = 1
        /\ ~ isNew => /\ n = recordIdByRegistryAndChecksum[<<r, c>>]
                      /\ <<r, n>> \in DOMAIN recordIndices
                      /\ n <= recordsCountByRegistry[r]
                      /\ i = recordIndices[<<r, n>>] + 1
                      /\ i > 1
        /\ key \notin DOMAIN records
        /\ i > 1 => prev \in DOMAIN records
        /\ recordsCountByRegistry[r] \in Nat
    <2>1. StreamExtended(r, c, status, n, i)
      BY AddRecordEffect, Zenon
    <2> HIDE DEF n, i
    <2> QED BY <2>1, Zenon DEF StreamExtended
  <1>2. /\ rec \in Record /\ rec.index = i
        /\ KeyOf(rec) = key /\ PrevOf(rec) = prev
    BY <1>1, ZenonT(20) DEF AddedRecord, Record, KeyOf, PrevOf
  <1>3. records' = StoreLatest(rec)
    BY ZenonT(20) DEF AddRecord, AddedRecord
  <1>4. recordIndices'[<<r, n>>] = i /\ registries' = registries
    BY SMTT(30) DEF AddRecord, Put
  <1> HIDE DEF n, i, rec
  <1>5. DOMAIN records' = DOMAIN records \cup {key}
    <2>1. IsMap(records, Id \X Id \X Id, Record)
      BY DEF TypeOK
    <2> QED
      BY <1>1, <1>2, <1>3, <2>1, StoreLatestEntries, ZenonT(20)
  <1> QED
    BY <1>1, <1>4, <1>5, Zenon DEF n, i

\* AddRecord announces the key of the version that it has just stored, with the
\* index it reads back from RecordIndices (precompile/events.go:29-49).
LEMMA AddRecordLog ==
    ASSUME StoreSound, NEW base, NEW caller \in Addr, NEW r \in RegistryIds,
           NEW c \in ScopeChecksum, NEW status \in Status,
           AddRecordCall(caller, r, c, status),
           Announced(base, caller, logs, DOMAIN registries, DOMAIN records)
    PROVE  Announced(base, caller, logs', DOMAIN registries', DOMAIN records')
  <1> DEFINE n == RecordIdFor(r, c)
             i == NextIndex(r, n)
             key == <<r, n, i>>
             l == [event |-> "AddRecord", caller |-> caller, key |-> key]
  <1>1. AddRecord(caller, r, c, status) /\ TypeOK /\ RecordInv
    BY Zenon DEF AddRecordCall, StoreSound
  <1>2. /\ key \notin DOMAIN records
        /\ DOMAIN records' = DOMAIN records \cup {key}
        /\ recordIndices'[<<r, n>>] = i
        /\ registries' = registries
    BY <1>1, AddRecordStores, Zenon
  <1>3. logs' = logs \cup {l}
    BY <1>2, Zenon DEF AddRecordCall, emitEvent
  <1>4. l.event = "AddRecord" /\ l.caller = caller /\ l.key = key
    BY SMTT(30)
  <1> HIDE DEF key, l
  <1>5. key \notin DOMAIN base.records
    BY <1>2 DEF Announced
  <1> QED
    BY <1>2, <1>3, <1>4, <1>5, ZenonT(30) DEF Announced

\* Each method leaves logs that tell what it did to the store.
LEMMA MethodLog ==
    ASSUME StoreSound, NEW base, NEW caller \in Addr, Method(caller),
           Announced(base, caller, logs, DOMAIN registries, DOMAIN records)
    PROVE  Announced(base, caller, logs', DOMAIN registries', DOMAIN records')
  <1>1. ASSUME NEW key \in DOMAIN records, NEW status \in Status,
               UpdateRecordStatusCall(caller, key, status)
        PROVE  Announced(base, caller, logs', DOMAIN registries', DOMAIN records')
    <2>1. UpdateRecordStatus(caller, key[1], key[2], key[3], status)
      BY <1>1, SMTT(30) DEF UpdateRecordStatusCall
    <2>2. key = <<key[1], key[2], key[3]>>
      BY DEF StoreSound, TypeOK, IsMap
    <2>3. DOMAIN records' = DOMAIN records /\ registries' = registries
      BY <2>1, <2>2, SMTT(30) DEF UpdateRecordStatus, Put
    <2> QED
      BY <1>1, <2>3, OtherLog, SMTT(30) DEF UpdateRecordStatusCall
  <1>2. ASSUME NEW account, NEW r, NEW c, NEW role, GrantRoleCall(caller, account, r, c, role)
        PROVE  Announced(base, caller, logs', DOMAIN registries', DOMAIN records')
    BY <1>2, OtherLog, SMTT(30) DEF GrantRoleCall, GrantRole, recordVars
  <1>3. ASSUME NEW account, NEW r, NEW c, NEW role, RevokeRoleCall(caller, account, r, c, role)
        PROVE  Announced(base, caller, logs', DOMAIN registries', DOMAIN records')
    BY <1>3, OtherLog, SMTT(30) DEF RevokeRoleCall, RevokeRole, recordVars
  <1> QED
    BY <1>1, <1>2, <1>3, AddRegistryLog, AddRecordLog, Zenon DEF Method

\* A call that succeeds: Execute runs its handler for the signer alone
\* (precompile/anchoring.go:107-196).
LEMMA ExecuteInv ==
    ASSUME EvmInv, NEW value, NEW readOnly, Execute(value, readOnly)
    PROVE  EvmInv'
  <1> DEFINE base == frames[1].store
  <1>1. /\ frames # <<>> /\ ~ failing
        /\ top.address = origin
        /\ Method(top.address)
        /\ UNCHANGED <<origin, frames, failing>>
    BY SMTT(30) DEF Execute, Admits, ensureEOACaller, idle
  <1>2. origin \in Addr
    BY EvmAssumption, SMTT(30) DEF EvmInv
  <1>3. StoreSound /\ Announced(base, origin, logs, DOMAIN registries, DOMAIN records)
    BY <1>1 DEF EvmInv, idle
  <1>4. StoreSound'
    BY <1>1, <1>2, <1>3, MethodIsNext, SoundStep, SMTT(30)
  <1>5. Announced(base, origin, logs', DOMAIN registries', DOMAIN records')
    BY <1>1, <1>2, <1>3, MethodLog, SMTT(30)
  <1>6. \A l \in logs' : l.caller = origin
    BY <1>5 DEF Announced
  <1> QED
    BY <1>1, <1>4, <1>5, <1>6, SMTT(30) DEF EvmInv, FramesSound, idle

-----------------------------------------------------------------------------
(***************************************************************************)
(* The results                                                             *)
(***************************************************************************)

\* Before the first transaction.
LEMMA EvmInvInit == EvmInit => EvmInv
  <1> SUFFICES ASSUME EvmInit
               PROVE  EvmInv
    OBVIOUS
  <1>1. StoreSound
    <2>1. RecordInv
      BY DEF EvmInit, Init, EmptyMap, RecordInv, RegistriesDense, StreamsDense,
             OneLatestVersion, OneStreamPerChecksum
    <2>2. RoleInv
      BY DEF EvmInit, Init, EmptyMap, RoleInv, HeldRolesRevocable, RegistryHasAdmin
    <2> QED
      BY <2>1, <2>2, InitType, SMTT(30) DEF StoreSound, EvmInit
  <1>2. IsSeq(frames)
    <2>1. <<>> \in Seq({})
      OBVIOUS
    <2> QED
      BY <2>1, SeqOfOwn, Zenon DEF EvmInit
  <1>3. frames = <<>> /\ DOMAIN frames = {} /\ failing = FALSE /\ logs = {} /\ origin \in EOA
    BY DEF EvmInit
  <1> QED
    BY <1>1, <1>2, <1>3, Zenon DEF EvmInv, FramesSound, idle

\* Every step of a transaction keeps the invariant.
LEMMA EvmInvStep == EvmInv /\ [EvmNext]_evmVars => EvmInv'
  <1> SUFFICES ASSUME EvmInv, [EvmNext]_evmVars
               PROVE  EvmInv'
    BY SMTT(30)
  <1>1. CASE UNCHANGED evmVars
    <2>1. UNCHANGED vars /\ UNCHANGED <<origin, frames, failing, logs, registries, records>>
      BY <1>1 DEF evmVars, txVars, vars, recordVars
    <2>2. StoreSound => StoreSound'
      BY <2>1, SoundStep, SMTT(30)
    <2> QED
      BY <2>1, <2>2, Zenon DEF EvmInv, FramesSound, idle
  <1>2. CASE EvmNext
    BY <1>2, BeginTxInv, EnterInv, LeaveInv, RevertInv, ExecuteInv, ExecuteFailsInv,
       ReturnsInv, CosmosInv, SMTT(30) DEF EvmNext
  <1> QED
    BY <1>1, <1>2, SMTT(30)

\* The invariant holds throughout.
LEMMA EvmInvariant == EvmSpec => []EvmInv
  BY EvmInvInit, EvmInvStep, PTL DEF EvmSpec

\* Whatever frames are nested, reverted and caught, and wherever a call fails, calls
\* take effect whole or not at all and the logs of a transaction announce exactly
\* the registries and the versions it has made.
THEOREM AtomicAlways == EvmSpec => []CallsAtomic
  <1>1. EvmInv => CallsAtomic
    <2> SUFFICES ASSUME EvmInv
                 PROVE  CallsAtomic
      BY SMTT(30)
    <2>1. ~ failing => /\ RegistriesDense /\ StreamsDense /\ OneLatestVersion
                       /\ RegistryHasAdmin /\ HeldRolesRevocable
      BY DEF EvmInv, StoreSound, RecordInv, RoleInv
    <2>2. ASSUME ~ idle, ~ failing
          PROVE  /\ Logged("AddRegistry") =
                       {<<id>> : id \in DOMAIN registries \ DOMAIN frames[1].store.registries}
                 /\ Logged("AddRecord") = DOMAIN records \ DOMAIN frames[1].store.records
      <3>1. Announced(frames[1].store, origin, logs, DOMAIN registries, DOMAIN records)
        BY <2>2, SMTT(30) DEF EvmInv
      <3>2. Logged("AddRecord") = DOMAIN records \ DOMAIN frames[1].store.records
        BY <3>1, SMTT(30) DEF Announced, Logged
      <3>3. ASSUME NEW k
            PROVE  k \in Logged("AddRegistry") <=>
                      \E id \in DOMAIN registries \ DOMAIN frames[1].store.registries :
                         k = <<id>>
        BY <3>1, SMTT(40) DEF Announced, Logged
      <3> QED
        BY <3>2, <3>3, SMTT(30)
    <2> QED
      BY <2>1, <2>2 DEF CallsAtomic
  <1> QED
    BY <1>1, EvmInvariant, PTL

\* Only the account that signed the transaction ever acts through the precompile.
THEOREM SignersAlways == EvmSpec => []OnlySignersAct
  <1>1. EvmInv => OnlySignersAct
    BY DEF EvmInv, OnlySignersAct
  <1> QED
    BY <1>1, EvmInvariant, PTL
=============================================================================
