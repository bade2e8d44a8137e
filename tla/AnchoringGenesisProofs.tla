------------------------- MODULE AnchoringGenesisProofs -------------------------
(***************************************************************************)
(* Proofs about genesis and the v1_4 upgrade: export then import is the    *)
(* identity, and a chain that starts from any accepted genesis, or upgrades *)
(* from v1, keeps its counters, indexes and records in agreement, for any  *)
(* number of registries, records and versions and any holes in their ids.  *)
(***************************************************************************)
EXTENDS AnchoringUpgrade, AnchoringProofs

-----------------------------------------------------------------------------
(***************************************************************************)
(* The invariant of a chain that did not start empty                       *)
(***************************************************************************)

\* The type invariant, with recs for the records.
Typed(recs) ==
    /\ admin \in Addr
    /\ IsMap(registries, Id, Registry)
    /\ registryCount \in Nat
    /\ IsMap(recs, Id \X Id \X Id, Record)
    /\ IsMap(recordIdByRegistryAndChecksum, Id \X Checksum, Id)
    /\ IsMap(recordIdByChecksumAndRegistry, Checksum \X Id, Id)
    /\ IsMap(recordsCountByRegistry, Id, Nat)
    /\ IsMap(recordIndices, Id \X Id, Id)
    /\ IsMap(roleAdmins, Role, Role)
    /\ roleMembers \subseteq Role \X Addr

\* Registries are stored under their ids, which RegistryCount covers.
Counted ==
    /\ IsFiniteSet(DOMAIN registries)
    /\ \A id \in DOMAIN registries : registries[id].id = id /\ id <= registryCount
    /\ DOMAIN recordsCountByRegistry = DOMAIN registries

\* Every index leads to a stored version and to a stream the counter covers.
Indexed(recs) ==
    /\ \A s \in DOMAIN recordIndices :
          /\ s[1] \in DOMAIN registries
          /\ s[2] <= recordsCountByRegistry[s[1]]
          /\ <<s[1], s[2], recordIndices[s]>> \in DOMAIN recs
    /\ \A k \in DOMAIN recordIdByRegistryAndChecksum :
          <<k[1], recordIdByRegistryAndChecksum[k]>> \in DOMAIN recordIndices

\* Every version is stored under its own key, indexed, and flagged when it is the
\* one its index leads to.
Stored(recs) ==
    /\ IsFiniteSet(DOMAIN recs)
    /\ \A key \in DOMAIN recs :
          /\ <<key[1], key[2]>> \in DOMAIN recordIndices
          /\ key[3] <= recordIndices[<<key[1], key[2]>>]
          /\ GenKey(recs[key]) = key
          /\ recs[key].isLatest <=> key[3] = recordIndices[<<key[1], key[2]>>]

Sound(recs) == Typed(recs) /\ Counted /\ Indexed(recs) /\ Stored(recs)

\* The records the migration leaves.
Migration == [key \in DOMAIN records |-> Migrated(key)]

\* A v2 chain is sound, and a v1 chain is one migration away from it.
UpgradeInv ==
    \/ /\ version = 2
       /\ Sound(records)
       /\ registryIdByName = {}
    \/ /\ version = 1
       /\ Sound(Migration)
       /\ \A key \in DOMAIN records :
             records[key] = [Migrated(key) EXCEPT !.registryId = 0]

-----------------------------------------------------------------------------
(***************************************************************************)
(* Maxima                                                                  *)
(***************************************************************************)

\* A number of S that none exceeds is its maximum.
LEMMA MaxIs ==
    ASSUME NEW S \in SUBSET Int, NEW m \in S, \A y \in S : y <= m
    PROVE  Max(S) = m
  <1>1. \E x \in S : \A y \in S : x >= y
    OBVIOUS
  <1>2. Max(S) \in S /\ \A y \in S : Max(S) >= y
    BY <1>1, Zenon DEF Max
  <1>3. Max(S) \in Int /\ m \in Int /\ Max(S) >= m /\ Max(S) <= m
    BY <1>2, Zenon
  <1> QED BY <1>3

\* A finite set of numbers has a maximum.
LEMMA MaxOfFinite ==
    ASSUME NEW S \in SUBSET Nat, IsFiniteSet(S), S # {}
    PROVE  Max(S) \in S /\ \A y \in S : y <= Max(S)
  <1> DEFINE R == {p \in S \X S : p[1] < p[2]}
             n == Cardinality(S) - 1
  <1>1. \A x, y \in S : <<x, y>> \in R <=> x < y
    OBVIOUS
  <1>2. Orders(R, S)
    BY <1>1 DEF Orders
  <1>3. Cardinality(S) \in Nat /\ Cardinality(S) # 0
    BY FS_CardinalityType, FS_EmptySet
  <1>4. n \in 0 .. Cardinality(S) - 1
    BY <1>3
  <1> HIDE DEF R
  <1>5. PICK x \in S : Cardinality(Below(R, S, x)) = n
    BY <1>2, <1>4, RankOnto, Zenon
  <1>6. \A y \in S : y <= x
    <2> SUFFICES ASSUME NEW y \in S, ~ (y <= x)
                 PROVE  FALSE
      OBVIOUS
    <2>1. <<x, y>> \in R
      BY <1>1
    <2>2. n < Cardinality(Below(R, S, y)) /\ Cardinality(Below(R, S, y)) \in 0 .. n
      BY <1>2, <1>5, <2>1, RankGrows
    <2> QED BY <1>3, <2>2
  <1>7. Max(S) = x
    BY <1>6, MaxIs
  <1> QED BY <1>6, <1>7

-----------------------------------------------------------------------------
(***************************************************************************)
(* The walk of an export                                                   *)
(***************************************************************************)

\* The keys of Records.
RecordKey == Id \X Id \X Id

\* The order of the walk, as the set of its pairs.
RecordOrder(S) == {p \in S \X S : KeyBefore(p[1], p[2])}

\* Versions are ordered by registry, record and index.
LEMMA RecordsOrdered ==
    ASSUME NEW S \in SUBSET RecordKey
    PROVE  /\ Orders(RecordOrder(S), S)
           /\ \A key \in S : {k \in S : KeyBefore(k, key)} = Below(RecordOrder(S), S, key)
  <1>1. \A x, y \in S : <<x, y>> \in RecordOrder(S) <=> KeyBefore(x, y)
    BY DEF RecordOrder
  <1>2. \A x \in S : /\ x[1] \in Int /\ x[2] \in Int /\ x[3] \in Int
                     /\ x = <<x[1], x[2], x[3]>>
    BY DEF RecordKey, Id
  <1>3. \A x \in S : ~ KeyBefore(x, x)
    BY <1>2 DEF KeyBefore
  <1>4. \A x, y, z \in S : KeyBefore(x, y) /\ KeyBefore(y, z) => KeyBefore(x, z)
    BY <1>2 DEF KeyBefore
  <1>5. \A x, y \in S : x # y => KeyBefore(x, y) \/ KeyBefore(y, x)
    <2> SUFFICES ASSUME NEW x \in S, NEW y \in S, x # y
                 PROVE  KeyBefore(x, y) \/ KeyBefore(y, x)
      OBVIOUS
    <2>1. x[1] # y[1] \/ x[2] # y[2] \/ x[3] # y[3]
      BY <1>2
    <2> QED
      BY <1>2, <2>1 DEF KeyBefore
  <1>6. Orders(RecordOrder(S), S)
    BY <1>1, <1>3, <1>4, <1>5 DEF Orders
  <1>7. \A key \in S : {k \in S : KeyBefore(k, key)} = Below(RecordOrder(S), S, key)
    BY <1>1 DEF Below
  <1> QED
    BY <1>6, <1>7

\* The versions before a key.
Earlier(key) == Cardinality({k \in DOMAIN records : KeyBefore(k, key)})

\* The key the walk visits at i.
KeyAt(i) == CHOOSE key \in DOMAIN records : Earlier(key) = i - 1

\* The walk visits every key once (keeper/genesis.go:148-154).
LEMMA WalkVisitsRecords ==
    ASSUME IsMap(records, RecordKey, Record), IsFiniteSet(DOMAIN records)
    PROVE  /\ WalkRecords \in Seq(Record)
           /\ \A i \in DOMAIN WalkRecords :
                 KeyAt(i) \in DOMAIN records /\ WalkRecords[i] = records[KeyAt(i)]
           /\ \A i, j \in DOMAIN WalkRecords : KeyAt(i) = KeyAt(j) => i = j
           /\ \A key \in DOMAIN records : \E i \in DOMAIN WalkRecords : KeyAt(i) = key
  <1> DEFINE S == DOMAIN records
             size == Cardinality(S)
  <1>1. S \in SUBSET RecordKey /\ IsFiniteSet(S) /\ size \in Nat
    BY FS_CardinalityType DEF IsMap
  <1>2. \A key \in S : Earlier(key) = Cardinality(Below(RecordOrder(S), S, key))
    BY <1>1, RecordsOrdered, Zenon DEF Earlier
  <1>3. \A n \in 0 .. size - 1 : \E key \in S : Earlier(key) = n
    BY <1>1, <1>2, RecordsOrdered, RankOnto
  <1>4. \A key \in S : Earlier(key) \in 0 .. size - 1
    BY <1>1, <1>2, RecordsOrdered, RankGrows
  <1>5. ASSUME NEW x \in S, NEW y \in S, Earlier(x) = Earlier(y)
        PROVE  x = y
    <2> SUFFICES ASSUME x # y
                 PROVE  FALSE
      OBVIOUS
    <2>1. <<x, y>> \in RecordOrder(S) \/ <<y, x>> \in RecordOrder(S)
      BY <1>1, RecordsOrdered DEF Orders
    <2>2. Earlier(x) < Earlier(y) \/ Earlier(y) < Earlier(x)
      BY <1>1, <1>2, <2>1, RecordsOrdered, RankGrows
    <2> QED
      BY <1>4, <1>5, <2>2
  <1>6. ASSUME NEW i \in 1 .. size
        PROVE  KeyAt(i) \in S /\ Earlier(KeyAt(i)) = i - 1
    <2>1. i - 1 \in 0 .. size - 1
      BY <1>1
    <2>2. \E key \in S : Earlier(key) = i - 1
      BY <1>3, <2>1
    <2> QED
      BY <2>2 DEF KeyAt
  <1>7. WalkRecords = [i \in 1 .. size |-> records[KeyAt(i)]]
    BY Zenon DEF WalkRecords, KeyAt, Earlier
  <1>8. WalkRecords \in [1 .. size -> Record]
    BY <1>6, <1>7 DEF IsMap
  <1>9. WalkRecords \in Seq(Record) /\ DOMAIN WalkRecords = 1 .. size
    BY <1>1, <1>8
  <1>10. ASSUME NEW i \in 1 .. size, NEW j \in 1 .. size, KeyAt(i) = KeyAt(j)
         PROVE  i = j
    <2>1. i - 1 = j - 1
      BY <1>6, <1>10
    <2> QED BY <2>1
  <1>11. ASSUME NEW key \in S
         PROVE  \E i \in 1 .. size : KeyAt(i) = key
    <2> DEFINE i == Earlier(key) + 1
    <2>1. i \in 1 .. size /\ i - 1 = Earlier(key)
      BY <1>1, <1>4
    <2> HIDE DEF i
    <2>2. KeyAt(i) \in S /\ Earlier(KeyAt(i)) = Earlier(key)
      BY <1>6, <2>1
    <2>3. KeyAt(i) = key
      BY <1>5, <2>2
    <2> QED BY <2>1, <2>3
  <1> QED
    BY <1>6, <1>7, <1>9, <1>10, <1>11

\* The list an export gives holds every version, each once and under its own key.
LEMMA ExportedRecords ==
    ASSUME IsMap(records, RecordKey, Record), Stored(records)
    PROVE  /\ WalkRecords \in Seq(Record)
           /\ \A i \in DOMAIN WalkRecords :
                 /\ GenKey(WalkRecords[i]) \in DOMAIN records
                 /\ WalkRecords[i] = records[GenKey(WalkRecords[i])]
           /\ \A i, j \in DOMAIN WalkRecords :
                 GenKey(WalkRecords[i]) = GenKey(WalkRecords[j]) => i = j
           /\ \A key \in DOMAIN records :
                 \E i \in DOMAIN WalkRecords : WalkRecords[i] = records[key]
  <1>1. /\ IsFiniteSet(DOMAIN records)
        /\ \A key \in DOMAIN records : GenKey(records[key]) = key
    BY Zenon DEF Stored
  <1> QED
    BY <1>1, WalkVisitsRecords

\* The versions that are stored.
Versions == {records[key] : key \in DOMAIN records}

\* What is exported is what is stored.
LEMMA ExportedVersions ==
    ASSUME IsMap(records, RecordKey, Record), Stored(records)
    PROVE  /\ {WalkRecords[i] : i \in DOMAIN WalkRecords} = Versions
           /\ Versions \subseteq Record
           /\ \A v \in Versions : /\ GenKey(v) \in DOMAIN records /\ v = records[GenKey(v)]
                                  /\ GenKey(v) \in RecordKey
  <1>1. \A i \in DOMAIN WalkRecords : WalkRecords[i] \in Versions
    BY ExportedRecords DEF Versions
  <1>2. \A v \in Versions : \E i \in DOMAIN WalkRecords : WalkRecords[i] = v
    BY ExportedRecords DEF Versions
  <1>3. {WalkRecords[i] : i \in DOMAIN WalkRecords} = Versions
    BY <1>1, <1>2
  <1>4. Versions \subseteq Record
    BY DEF Versions, IsMap
  <1>5. ASSUME NEW v \in Versions
        PROVE  /\ GenKey(v) \in DOMAIN records /\ v = records[GenKey(v)]
               /\ GenKey(v) \in RecordKey
    <2>1. PICK key \in DOMAIN records : v = records[key]
      BY DEF Versions
    <2>2. GenKey(v) = key
      BY <2>1, Zenon DEF Stored
    <2> QED BY <2>1, <2>2 DEF IsMap
  <1> QED
    BY <1>3, <1>4, <1>5

\* A sound state is exported into a genesis that validates, whatever holes its ids
\* have (types/genesis.go:15-86, keeper/genesis.go:133-209).
LEMMA ExportValidates ==
    ASSUME Sound(records)
    PROVE  Validate(ExportGenesis)
  <1> DEFINE g == ExportGenesis
             recs == {g.records[i] : i \in DOMAIN g.records}
  <1>1. /\ IsMap(records, RecordKey, Record) /\ Stored(records) /\ Counted
        /\ Indexed(records) /\ IsMap(registries, Id, Registry)
        /\ IsMap(recordIndices, Id \X Id, Id)
    BY DEF Sound, Typed, RecordKey
  <1>2. g.records = WalkRecords /\ g.registries = registries
    BY DEF ExportGenesis
  <1>3. recs = Versions
    BY <1>1, <1>2, ExportedVersions
  <1>4. \A key \in DOMAIN registries : registries[key].id = key /\ key # 0
    BY <1>1 DEF Counted, IsMap, Id
  <1>5. ASSUME NEW rec \in Versions
        PROVE  ValidateRecord(rec) /\ rec.registryId \in DOMAIN registries
    <2>1. rec \in Record /\ GenKey(rec) \in DOMAIN records
      BY <1>1, ExportedVersions
    <2>2. ValidateRecord(rec)
      BY <2>1, SentinelAssumption DEF Record, Id, ValidateRecord, ValidateRecordForCreate
    <2>3. <<rec.registryId, rec.recordId>> \in DOMAIN recordIndices
      BY <1>1, <2>1 DEF Stored, GenKey
    <2>4. rec.registryId \in DOMAIN registries
      BY <1>1, <2>3, Zenon DEF Indexed
    <2> QED
      BY <2>2, <2>4
  <1>6. \A i, j \in DOMAIN WalkRecords :
           GenKey(WalkRecords[i]) = GenKey(WalkRecords[j]) => i = j
    BY <1>1, ExportedRecords
  <1>7. ASSUME NEW rec \in Versions
        PROVE  ValidateIsLatest({v \in Versions : v.registryId = rec.registryId /\
                                                  v.recordId = rec.recordId})
    <2> DEFINE r == rec.registryId
               n == rec.recordId
               group == {v \in Versions : v.registryId = r /\ v.recordId = n}
               last == records[<<r, n, recordIndices[<<r, n>>]>>]
    <2>1. <<r, n>> \in DOMAIN recordIndices
      BY <1>1, ExportedVersions, Zenon DEF Stored, GenKey
    <2>2. <<r, n, recordIndices[<<r, n>>]>> \in DOMAIN records
      BY <1>1, <2>1 DEF Indexed
    <2>3. /\ last \in Versions
          /\ last.registryId = r /\ last.recordId = n
          /\ last.index = recordIndices[<<r, n>>]
      BY <1>1, <2>2 DEF Versions, Stored, GenKey
    <2>4. ASSUME NEW v \in group
          PROVE  /\ v.isLatest <=> v.index = recordIndices[<<r, n>>]
                 /\ v.index <= recordIndices[<<r, n>>]
                 /\ v = records[<<r, n, v.index>>]
      <3>1. /\ v \in Versions /\ GenKey(v) = <<r, n, v.index>>
            /\ GenKey(v) \in DOMAIN records /\ v = records[GenKey(v)]
        BY <1>1, ExportedVersions DEF GenKey
      <3> QED
        BY <1>1, <3>1 DEF Stored
    <2>5. {v \in group : v.isLatest} = {last}
      <3>1. last \in group /\ last.isLatest
        BY <2>3, <2>4
      <3>2. \A v \in group : v.isLatest => v = last
        BY <2>4, Zenon
      <3> HIDE DEF group, last
      <3> QED BY <3>1, <3>2
    <2>6. Cardinality({last}) = 1
      BY FS_Singleton, Zenon
    <2>7. \A v \in group : v.index <= last.index
      BY <2>3, <2>4, Zenon
    <2> HIDE DEF group, last
    <2>8. ValidateIsLatest(group)
      BY <2>5, <2>6, <2>7 DEF ValidateIsLatest
    <2> QED
      BY <2>8 DEF group
  <1> HIDE DEF g
  <1> QED
    BY <1>2, <1>3, <1>4, <1>5, <1>6, <1>7, Zenon DEF Validate, g

-----------------------------------------------------------------------------
(***************************************************************************)
(* Export then import                                                      *)
(***************************************************************************)

FinitelyMany == IsFiniteSet(DOMAIN records)

\* A message stores one version at most, so there are always finitely many
\* (keeper/anchoring.go:119-137).
LEMMA FinitelyManyStep == FinitelyMany /\ [Next]_vars => FinitelyMany'
  <1> SUFFICES ASSUME FinitelyMany, [Next]_vars
               PROVE  FinitelyMany'
    OBVIOUS
  <1>1. ASSUME NEW rec PROVE IsFiniteSet(DOMAIN StoreLatest(rec))
    <2> DEFINE stored == Put(records, KeyOf(rec), rec)
    <2>1. DOMAIN stored = DOMAIN records \cup {KeyOf(rec)}
      BY DEF Put
    <2>2. IsFiniteSet(DOMAIN stored)
      BY <2>1, FS_AddElement DEF FinitelyMany
    <2>3. \A value : DOMAIN Put(stored, PrevOf(rec), value) = DOMAIN stored \cup {PrevOf(rec)}
      BY DEF Put
    <2>4. \A value : IsFiniteSet(DOMAIN Put(stored, PrevOf(rec), value))
      BY <2>2, <2>3, FS_AddElement
    <2> HIDE DEF stored
    <2>5. StoreLatest(rec) =
             IF rec.index > 1
             THEN Put(stored, PrevOf(rec), [stored[PrevOf(rec)] EXCEPT !.isLatest = FALSE])
             ELSE stored
      BY Zenon DEF StoreLatest, stored, KeyOf, PrevOf
    <2> QED BY <2>2, <2>4, <2>5
  <1>2. ASSUME NEW sender, NEW r, NEW c, NEW status, AddRecord(sender, r, c, status)
        PROVE  FinitelyMany'
    BY <1>1, <1>2 DEF AddRecord, FinitelyMany
  <1>3. ASSUME NEW sender, NEW r, NEW n, NEW i, NEW status,
               UpdateRecordStatus(sender, r, n, i, status)
        PROVE  FinitelyMany'
    <2>1. DOMAIN records' = DOMAIN records \cup {<<r, n, i>>}
      BY <1>3 DEF UpdateRecordStatus, Put
    <2> QED BY <2>1, FS_AddElement DEF FinitelyMany
  <1>4. ASSUME NEW sender, AddRegistry(sender) PROVE records' = records
    BY <1>4 DEF AddRegistry
  <1>5. ASSUME NEW granter, NEW grantee, NEW r, NEW c, NEW role,
               GrantRole(granter, grantee, r, c, role)
        PROVE  records' = records
    BY <1>5 DEF GrantRole, recordVars
  <1>6. ASSUME NEW revoker, NEW revokee, NEW r, NEW c, NEW role,
               RevokeRole(revoker, revokee, r, c, role)
        PROVE  records' = records
    BY <1>6 DEF RevokeRole, recordVars
  <1>7. ASSUME NEW authority, NEW newAdmin, UpdateParams(authority, newAdmin)
        PROVE  records' = records
    BY <1>7 DEF UpdateParams, recordVars
  <1>8. ASSUME UNCHANGED vars PROVE records' = records
    BY <1>8 DEF vars, recordVars
  <1>9. ASSUME records' = records PROVE FinitelyMany'
    BY <1>9 DEF FinitelyMany
  <1> QED
    BY <1>2, <1>3, <1>4, <1>5, <1>6, <1>7, <1>8, <1>9, ZenonT(20) DEF Next

\* A chain that started empty has finitely many versions.
LEMMA FiniteRecords == Spec => []FinitelyMany
  <1>1. Init => FinitelyMany
    BY FS_EmptySet DEF Init, EmptyMap, FinitelyMany
  <1> QED
    BY <1>1, FinitelyManyStep, PTL DEF Spec

\* A chain that started empty is sound.
LEMMA DenseIsSound ==
    ASSUME TypeOK, RecordInv, FinitelyMany
    PROVE  Sound(records)
  <1>1. Typed(records)
    BY DEF TypeOK, Typed
  <1>2. Counted
    <2>1. /\ registryCount \in Nat /\ DOMAIN registries = 1 .. registryCount
          /\ \A id \in DOMAIN registries : registries[id].id = id
          /\ DOMAIN recordsCountByRegistry = DOMAIN registries
      BY DEF TypeOK, RecordInv, RegistriesDense
    <2>2. IsFiniteSet(1 .. registryCount)
      BY <2>1, FS_Interval
    <2> QED BY <2>1, <2>2 DEF Counted
  <1>3. Indexed(records)
    <2>1. ASSUME NEW s \in DOMAIN recordIndices
          PROVE  /\ s[1] \in DOMAIN registries
                 /\ s[2] <= recordsCountByRegistry[s[1]]
                 /\ <<s[1], s[2], recordIndices[s]>> \in DOMAIN records
      <3>1. recordIndices[s] \in 1 .. recordIndices[s]
        BY DEF TypeOK, IsMap, Id
      <3> QED BY <3>1 DEF RecordInv, StreamsDense
    <2>2. \A k \in DOMAIN recordIdByRegistryAndChecksum :
             <<k[1], recordIdByRegistryAndChecksum[k]>> \in DOMAIN recordIndices
      BY Zenon DEF RecordInv, OneStreamPerChecksum
    <2> QED BY <2>1, <2>2 DEF Indexed
  <1>4. Stored(records)
    BY DEF RecordInv, StreamsDense, OneLatestVersion, Stored, GenKey, FinitelyMany
  <1> QED BY <1>1, <1>2, <1>3, <1>4 DEF Sound

\* RegistryCount is the highest id.
LEMMA CountRebuilt ==
    ASSUME TypeOK, RecordInv
    PROVE  MaxRegistryId(registries) = registryCount
  <1> DEFINE S == DOMAIN registries \cup {0}
  <1>1. /\ registryCount \in Nat
        /\ S \in SUBSET Int /\ registryCount \in S /\ \A y \in S : y <= registryCount
    BY DEF TypeOK, RecordInv, RegistriesDense
  <1> HIDE DEF S
  <1>2. Max(S) = registryCount
    BY <1>1, MaxIs
  <1> QED BY <1>2 DEF MaxRegistryId, S

\* The record count of a registry is its highest record id.
LEMMA RecordsCountRebuilt ==
    ASSUME TypeOK, RecordInv, Sound(records), NEW id \in DOMAIN registries
    PROVE  Max({rec.recordId : rec \in {v \in Versions : v.registryId = id}} \cup {0}) =
              recordsCountByRegistry[id]
  <1> DEFINE S == {rec.recordId : rec \in {v \in Versions : v.registryId = id}} \cup {0}
             m == recordsCountByRegistry[id]
  <1>1. /\ IsMap(records, RecordKey, Record) /\ Stored(records) /\ Indexed(records)
        /\ IsMap(recordsCountByRegistry, Id, Nat)
        /\ DOMAIN recordsCountByRegistry = DOMAIN registries
    BY DEF Sound, Typed, RecordKey, Counted
  <1>2. m \in Nat
    BY <1>1 DEF IsMap
  <1>3. ASSUME NEW v \in Versions, v.registryId = id
        PROVE  v.recordId \in Int /\ v.recordId <= m
    <2>1. v \in Record /\ <<id, v.recordId>> \in DOMAIN recordIndices
      BY <1>1, <1>3, ExportedVersions, Zenon DEF Stored, GenKey
    <2>2. v.recordId \in Int
      BY <2>1 DEF Record, Id
    <2>3. v.recordId <= m
      BY <1>1, <2>1, Zenon DEF Indexed
    <2> QED BY <2>2, <2>3
  <1>4. m \in S
    <2>1. CASE m = 0
      BY <2>1
    <2>2. CASE m # 0
      <3>1. m \in 1 .. recordsCountByRegistry[id]
        BY <1>2, <2>2
      <3>2. <<id, m>> \in DOMAIN recordIndices
        BY <3>1 DEF RecordInv, StreamsDense
      <3> DEFINE key == <<id, m, recordIndices[<<id, m>>]>>
      <3>3. key \in DOMAIN records
        BY <1>1, <3>2 DEF Indexed
      <3>4. GenKey(records[key]) = key /\ records[key] \in Versions
        BY <1>1, <3>3 DEF Stored, Versions
      <3>5. records[key].registryId = id /\ records[key].recordId = m
        BY <3>4 DEF GenKey
      <3> QED BY <3>4, <3>5
    <2> QED BY <2>1, <2>2
  <1>5. S \in SUBSET Int /\ \A y \in S : y <= m
    BY <1>2, <1>3
  <1> HIDE DEF S, m
  <1>6. Max(S) = m
    BY <1>4, <1>5, MaxIs
  <1> QED BY <1>6 DEF S, m

\* The highest index of a stream is the one its index entry names.
LEMMA IndexRebuilt ==
    ASSUME Sound(records), NEW s \in DOMAIN recordIndices
    PROVE  HighestIndex(WalkRecords, s) = recordIndices[s]
  <1> DEFINE P == {j \in DOMAIN WalkRecords :
                      <<WalkRecords[j].registryId, WalkRecords[j].recordId>> = s}
             S == {WalkRecords[i].index : i \in P}
             m == recordIndices[s]
             key == <<s[1], s[2], m>>
  <1>1. /\ IsMap(records, RecordKey, Record) /\ Stored(records) /\ Indexed(records)
        /\ IsMap(recordIndices, Id \X Id, Id)
    BY DEF Sound, Typed, RecordKey
  <1>2. m \in Id /\ s = <<s[1], s[2]>> /\ key \in DOMAIN records
    BY <1>1 DEF IsMap, Indexed
  <1>3. ASSUME NEW i \in P
        PROVE  WalkRecords[i].index \in Int /\ WalkRecords[i].index <= m
    <2> DEFINE v == WalkRecords[i]
    <2>1. v \in Record /\ GenKey(v) \in DOMAIN records
      BY <1>1, ExportedRecords
    <2>2. GenKey(v) = <<v.registryId, v.recordId, v.index>>
      BY DEF GenKey
    <2> QED BY <1>1, <2>1, <2>2 DEF Stored, Record, Id
  <1>4. m \in S
    <2>1. PICK i \in DOMAIN WalkRecords : WalkRecords[i] = records[key]
      BY <1>1, <1>2, ExportedRecords
    <2>2. GenKey(records[key]) = key
      BY <1>1, <1>2 DEF Stored
    <2>3. /\ WalkRecords[i].registryId = s[1] /\ WalkRecords[i].recordId = s[2]
          /\ WalkRecords[i].index = m
      BY <2>1, <2>2 DEF GenKey
    <2> QED BY <1>2, <2>1, <2>3
  <1>5. S \in SUBSET Int /\ \A y \in S : y <= m
    BY <1>3
  <1> HIDE DEF S, m
  <1>6. Max(S) = m
    BY <1>4, <1>5, MaxIs
  <1> QED BY <1>6 DEF HighestIndex, S, m

\* A checksum is in the exported list exactly when the index has it, and the list
\* gives it the record id the index has.
LEMMA ChecksumsRebuilt ==
    ASSUME TypeOK, RecordInv, Sound(records)
    PROVE  /\ {<<rec.registryId, rec.checksum>> : rec \in Versions} =
                 DOMAIN recordIdByRegistryAndChecksum
           /\ \A k \in DOMAIN recordIdByRegistryAndChecksum :
                 LastRecordId(WalkRecords, k[1], k[2]) = recordIdByRegistryAndChecksum[k]
  <1>1. IsMap(records, RecordKey, Record) /\ Stored(records)
    BY DEF Sound, Typed, RecordKey
  <1>2. ASSUME NEW v \in Versions
        PROVE  /\ <<v.registryId, v.checksum>> \in DOMAIN recordIdByRegistryAndChecksum
               /\ recordIdByRegistryAndChecksum[<<v.registryId, v.checksum>>] = v.recordId
    <2>1. /\ v \in Record /\ GenKey(v) \in DOMAIN records /\ v = records[GenKey(v)]
      BY <1>1, ExportedVersions
    <2>2. v.checksum \in Checksum /\ GenKey(v)[1] = v.registryId /\ GenKey(v)[2] = v.recordId
      BY <2>1 DEF Record, GenKey
    <2> QED BY <2>1, <2>2 DEF RecordInv, OneStreamPerChecksum
  <1>3. ASSUME NEW k \in DOMAIN recordIdByRegistryAndChecksum
        PROVE  \E v \in Versions : /\ k = <<v.registryId, v.checksum>>
                                   /\ v.registryId = k[1] /\ v.checksum = k[2]
    <2> DEFINE n == recordIdByRegistryAndChecksum[k]
               key == <<k[1], n, 1>>
    <2>1. /\ k = <<k[1], k[2]>>
          /\ key \in DOMAIN records /\ records[key].checksum = k[2]
      <3>1. /\ k = <<k[1], k[2]>>
            /\ recordIndices[<<k[1], n>>] \in Id
            /\ \A j \in 1 .. recordIndices[<<k[1], n>>] :
                  /\ <<k[1], n, j>> \in DOMAIN records
                  /\ records[<<k[1], n, j>>].checksum = k[2]
        BY StreamStored
      <3>2. 1 \in 1 .. recordIndices[<<k[1], n>>]
        BY <3>1 DEF Id
      <3> QED BY <3>1, <3>2
    <2>2. GenKey(records[key]) = key /\ records[key] \in Versions
      BY <1>1, <2>1, Zenon DEF Stored, Versions
    <2>3. records[key].registryId = k[1]
      BY <2>2 DEF GenKey
    <2> QED BY <2>1, <2>2, <2>3
  <1>4. {<<rec.registryId, rec.checksum>> : rec \in Versions} =
           DOMAIN recordIdByRegistryAndChecksum
    BY <1>2, <1>3
  <1>5. ASSUME NEW k \in DOMAIN recordIdByRegistryAndChecksum
        PROVE  LastRecordId(WalkRecords, k[1], k[2]) = recordIdByRegistryAndChecksum[k]
    <2> DEFINE P == {i \in DOMAIN WalkRecords : /\ WalkRecords[i].registryId = k[1]
                                                /\ WalkRecords[i].checksum = k[2]}
    <2>1. WalkRecords \in Seq(Record)
      BY <1>1, ExportedRecords
    <2>2. P \in SUBSET Nat /\ IsFiniteSet(P)
      <3>1. DOMAIN WalkRecords = 1 .. Len(WalkRecords) /\ Len(WalkRecords) \in Nat
        BY <2>1
      <3>2. IsFiniteSet(1 .. Len(WalkRecords)) /\ P \in SUBSET (1 .. Len(WalkRecords))
        BY <3>1, FS_Interval
      <3> QED BY <3>2, FS_Subset
    <2>3. P # {}
      <3>1. PICK v \in Versions : v.registryId = k[1] /\ v.checksum = k[2]
        BY <1>3
      <3>2. \E i \in DOMAIN WalkRecords : WalkRecords[i] = v
        BY <1>1, ExportedVersions
      <3> QED BY <3>1, <3>2
    <2>4. Max(P) \in P
      <3> HIDE DEF P
      <3> QED BY <2>2, <2>3, MaxOfFinite
    <2>5. ASSUME NEW i \in P
          PROVE  WalkRecords[i].recordId = recordIdByRegistryAndChecksum[k]
      <3>1. WalkRecords[i] \in Versions
        BY <1>1, ExportedVersions
      <3>2. k = <<k[1], k[2]>>
        BY <1>3
      <3> QED BY <1>2, <3>1, <3>2
    <2>6. WalkRecords[Max(P)].recordId = recordIdByRegistryAndChecksum[k]
      BY <2>4, <2>5
    <2> QED BY <2>6, Zenon DEF LastRecordId
  <1> QED BY <1>4, <1>5

\* InitGenesis rebuilds from an export every collection as the messages left it
\* (keeper/genesis.go:13-131).
LEMMA CollectionsRebuilt ==
    ASSUME TypeOK, RecordInv, Sound(records)
    PROVE  InitGenesis(ExportGenesis) = Collections
  <1> DEFINE g == ExportGenesis
             at == {g.records[i] : i \in DOMAIN g.records}
             streams == {<<rec.registryId, rec.recordId>> : rec \in at}
             sums == {<<rec.registryId, rec.checksum>> : rec \in at}
             swapped == {<<s[2], s[1]>> : s \in sums}
  <1>1. /\ IsMap(records, RecordKey, Record) /\ Stored(records) /\ Indexed(records)
        /\ IsMap(recordIndices, Id \X Id, Id)
        /\ IsMap(recordIdByRegistryAndChecksum, Id \X Checksum, Id)
        /\ IsMap(recordIdByChecksumAndRegistry, Checksum \X Id, Id)
        /\ IsMap(recordsCountByRegistry, Id, Nat)
        /\ DOMAIN recordsCountByRegistry = DOMAIN registries
    BY DEF Sound, Typed, RecordKey, Counted
  <1>2. /\ g.admin = admin /\ g.registries = registries /\ g.records = WalkRecords
        /\ g.roleAdmins = roleAdmins /\ g.roleMembers = roleMembers
    BY DEF ExportGenesis
  <1>3. at = Versions
    BY <1>1, <1>2, ExportedVersions
  <1>4. [key \in {GenKey(rec) : rec \in at} |-> CHOOSE rec \in at : GenKey(rec) = key] =
           records
    <2>1. {GenKey(rec) : rec \in Versions} = DOMAIN records
      <3>1. \A key \in DOMAIN records : records[key] \in Versions /\ GenKey(records[key]) = key
        BY <1>1, Zenon DEF Versions, Stored
      <3>2. \A v \in Versions : GenKey(v) \in DOMAIN records
        BY <1>1, ExportedVersions
      <3> QED BY <3>1, <3>2
    <2>2. ASSUME NEW key \in DOMAIN records
          PROVE  (CHOOSE rec \in Versions : GenKey(rec) = key) = records[key]
      <3>1. records[key] \in Versions /\ GenKey(records[key]) = key
        BY <1>1, Zenon DEF Versions, Stored
      <3>2. \A v \in Versions : GenKey(v) = key => v = records[key]
        BY <1>1, ExportedVersions
      <3> QED BY <3>1, <3>2
    <2>3. records = [key \in DOMAIN records |-> records[key]]
      BY <1>1 DEF IsMap
    <2>4. [key \in DOMAIN records |-> CHOOSE rec \in Versions : GenKey(rec) = key] =
             [key \in DOMAIN records |-> records[key]]
      BY <2>2, Zenon
    <2> QED BY <1>3, <2>1, <2>3, <2>4, ZenonT(30)
  <1>5. sums = DOMAIN recordIdByRegistryAndChecksum
    BY <1>3, ChecksumsRebuilt, Zenon
  <1>6. [k \in sums |-> LastRecordId(g.records, k[1], k[2])] = recordIdByRegistryAndChecksum
    <2>1. recordIdByRegistryAndChecksum =
             [k \in DOMAIN recordIdByRegistryAndChecksum |-> recordIdByRegistryAndChecksum[k]]
      BY <1>1 DEF IsMap
    <2>2. \A k \in DOMAIN recordIdByRegistryAndChecksum :
             LastRecordId(WalkRecords, k[1], k[2]) = recordIdByRegistryAndChecksum[k]
      BY ChecksumsRebuilt
    <2> HIDE DEF sums
    <2> QED BY <1>2, <1>5, <2>1, <2>2, Zenon
  <1>7. [k \in swapped |-> LastRecordId(g.records, k[2], k[1])] =
           recordIdByChecksumAndRegistry
    <2> HIDE DEF sums
    <2>1. recordIdByChecksumAndRegistry =
             [k \in DOMAIN recordIdByChecksumAndRegistry |-> recordIdByChecksumAndRegistry[k]]
      BY <1>1 DEF IsMap
    <2>2. ASSUME NEW k \in DOMAIN recordIdByChecksumAndRegistry
          PROVE  /\ k \in swapped
                 /\ LastRecordId(WalkRecords, k[2], k[1]) = recordIdByChecksumAndRegistry[k]
      <3> DEFINE s == <<k[2], k[1]>>
      <3>1. k = <<s[2], s[1]>> /\ s[1] = k[2] /\ s[2] = k[1]
        BY <1>1 DEF IsMap
      <3>2. s \in DOMAIN recordIdByRegistryAndChecksum
        BY DEF RecordInv, OneStreamPerChecksum
      <3>3. recordIdByChecksumAndRegistry[<<s[2], s[1]>>] = recordIdByRegistryAndChecksum[s]
        BY <3>2, Zenon DEF RecordInv, OneStreamPerChecksum
      <3>4. LastRecordId(WalkRecords, s[1], s[2]) = recordIdByRegistryAndChecksum[s]
        BY <3>2, ChecksumsRebuilt
      <3> HIDE DEF s
      <3>5. LastRecordId(WalkRecords, k[2], k[1]) = recordIdByChecksumAndRegistry[k]
        BY <3>1, <3>3, <3>4
      <3> QED BY <1>5, <3>1, <3>2, <3>5
    <2>3. ASSUME NEW s \in sums
          PROVE  <<s[2], s[1]>> \in DOMAIN recordIdByChecksumAndRegistry
      BY <1>5, Zenon DEF RecordInv, OneStreamPerChecksum
    <2>4. swapped = DOMAIN recordIdByChecksumAndRegistry
      BY <2>2, <2>3
    <2> HIDE DEF swapped
    <2> QED BY <1>2, <2>1, <2>2, <2>4, Zenon
  <1>8. [id \in DOMAIN g.registries |->
           Max({rec.recordId : rec \in {v \in at : v.registryId = id}} \cup {0})] =
           recordsCountByRegistry
    <2>1. recordsCountByRegistry =
             [id \in DOMAIN recordsCountByRegistry |-> recordsCountByRegistry[id]]
      BY <1>1 DEF IsMap
    <2> HIDE DEF at
    <2> QED BY <1>1, <1>2, <1>3, <2>1, RecordsCountRebuilt, Zenon
  <1>9. streams = DOMAIN recordIndices
    <2>1. \A s \in DOMAIN recordIndices : s \in streams
      <3> SUFFICES ASSUME NEW s \in DOMAIN recordIndices
                   PROVE  s \in streams
        OBVIOUS
      <3> DEFINE key == <<s[1], s[2], recordIndices[s]>>
      <3>1. s = <<s[1], s[2]>> /\ key \in DOMAIN records
        BY <1>1 DEF IsMap, Indexed
      <3>2. GenKey(records[key]) = key /\ records[key] \in Versions
        BY <1>1, <3>1 DEF Stored, Versions
      <3>3. records[key].registryId = s[1] /\ records[key].recordId = s[2]
        BY <3>2 DEF GenKey
      <3> HIDE DEF key
      <3> QED BY <1>3, <3>1, <3>2, <3>3
    <2>2. \A v \in Versions : <<v.registryId, v.recordId>> \in DOMAIN recordIndices
      BY <1>1, ExportedVersions, Zenon DEF Stored, GenKey
    <2> HIDE DEF at
    <2> QED BY <1>3, <2>1, <2>2
  <1>10. [s \in streams |-> HighestIndex(g.records, s)] = recordIndices
    <2>1. recordIndices = [s \in DOMAIN recordIndices |-> recordIndices[s]]
      BY <1>1 DEF IsMap
    <2> HIDE DEF streams
    <2> QED BY <1>2, <1>9, <2>1, IndexRebuilt, Zenon
  <1> QED
    BY <1>2, <1>4, <1>6, <1>7, <1>8, <1>10, CountRebuilt, ZenonT(30)
       DEF InitGenesis, Collections

\* Export then import is the identity on every state of a chain that started empty
\* (keeper/genesis.go:13-187).
THEOREM RoundTripAlways == Spec => []RoundTrip
  <1>1. TypeOK /\ RecordInv /\ FinitelyMany => RoundTrip
    BY DenseIsSound, ExportValidates, CollectionsRebuilt DEF RoundTrip
  <1> QED
    BY <1>1, TypeCorrect, RecordInvariant, FiniteRecords, PTL

-----------------------------------------------------------------------------
(***************************************************************************)
(* Import of an accepted genesis                                           *)
(***************************************************************************)

Accepted(g) == g \in GenesisStates /\ Validate(g)

\* The record versions a genesis lists.
Listed(g) == {g.records[i] : i \in DOMAIN g.records}

SameStream(v, w) == v.registryId = w.registryId /\ v.recordId = w.recordId

\* An accepted genesis lists finitely many well-formed versions, of known registries
\* and each under a key of its own (types/genesis.go:22-58).
LEMMA AcceptedRecords ==
    ASSUME NEW g, Accepted(g)
    PROVE  /\ DOMAIN g.records \in SUBSET Nat /\ IsFiniteSet(DOMAIN g.records)
           /\ IsFiniteSet(Listed(g))
           /\ Listed(g) \subseteq Record
           /\ \A v \in Listed(g) : v.registryId \in DOMAIN g.registries
           /\ \A v, w \in Listed(g) : GenKey(v) = GenKey(w) => v = w
  <1>1. /\ g.records \in Seq(ListedRecord)
        /\ IsMap(g.registries, Nat, [id : Nat, creator : Addr])
    BY GenesisAssumption, Zenon DEF Accepted
  <1>2. /\ \A key \in DOMAIN g.registries : g.registries[key].id = key /\ key # 0
        /\ \A v \in Listed(g) : ValidateRecord(v) /\ v.registryId \in DOMAIN g.registries
        /\ \A i, j \in DOMAIN g.records :
              GenKey(g.records[i]) = GenKey(g.records[j]) => i = j
    BY Zenon DEF Accepted, Validate, Listed
  <1>3. /\ DOMAIN g.records = 1 .. Len(g.records) /\ Len(g.records) \in Nat
        /\ \A i \in DOMAIN g.records : g.records[i] \in ListedRecord
    BY <1>1
  <1>4. DOMAIN g.records \in SUBSET Nat /\ IsFiniteSet(DOMAIN g.records)
    <2>1. IsFiniteSet(1 .. Len(g.records)) /\ 1 .. Len(g.records) \in SUBSET Nat
      BY <1>3, FS_Interval
    <2> QED BY <1>3, <2>1
  <1>5. IsFiniteSet(Listed(g))
    BY <1>4, FiniteValues DEF Listed
  <1>6. ASSUME NEW v \in Listed(g)
        PROVE  v \in Record
    <2>1. v \in ListedRecord
      BY <1>3 DEF Listed
    <2>2. v.registryId # 0 /\ v.recordId # 0 /\ v.index # 0
      BY <1>2 DEF ValidateRecord
    <2>3. v.checksum # NoChecksum /\ v.status # NoStatus
      BY <1>2 DEF ValidateRecord, ValidateRecordForCreate
    <2> QED BY <2>1, <2>2, <2>3 DEF ListedRecord, Record, Id
  <1>7. \A v, w \in Listed(g) : GenKey(v) = GenKey(w) => v = w
    BY <1>2 DEF Listed
  <1> QED BY <1>2, <1>4, <1>5, <1>6, <1>7

\* In every stream of an accepted genesis a version with the highest index is flagged
\* latest (types/record_validation.go:93-106).
LEMMA AcceptedLatest ==
    ASSUME NEW g, Accepted(g), NEW v \in Listed(g)
    PROVE  \E l \in Listed(g) :
              /\ l.isLatest /\ SameStream(l, v)
              /\ \A w \in Listed(g) : SameStream(w, v) /\ w.isLatest => w = l
              /\ \A w \in Listed(g) : SameStream(w, v) => w.index <= l.index
  <1> DEFINE group == {w \in Listed(g) : w.registryId = v.registryId /\
                                         w.recordId = v.recordId}
             latest == {w \in group : w.isLatest}
  <1>1. ValidateIsLatest(group)
    BY Zenon DEF Accepted, Validate, Listed
  <1>2. Cardinality(latest) = 1 /\ \A l \in latest, w \in group : w.index <= l.index
    BY <1>1 DEF ValidateIsLatest
  <1>3. IsFiniteSet(latest)
    <2>1. latest \in SUBSET Listed(g)
      OBVIOUS
    <2> QED BY <2>1, AcceptedRecords, FS_Subset
  <1>4. PICK l : latest = {l}
    <2> HIDE DEF latest
    <2> QED BY <1>2, <1>3, FS_Singleton
  <1> QED BY <1>2, <1>4 DEF SameStream

\* The indexes and counters InitGenesis computes come from the list, and nothing
\* in it exceeds them (keeper/genesis.go:69-95).
LEMMA ImportedIndex ==
    ASSUME NEW g, Accepted(g), NEW v \in Listed(g),
           NEW m, m = HighestIndex(g.records, <<v.registryId, v.recordId>>)
    PROVE  /\ m \in Id
           /\ \E w \in Listed(g) : SameStream(w, v) /\ w.index = m
           /\ \A w \in Listed(g) : SameStream(w, v) => w.index <= m
  <1> DEFINE P == {j \in DOMAIN g.records :
                      <<g.records[j].registryId, g.records[j].recordId>> =
                         <<v.registryId, v.recordId>>}
             S == {g.records[i].index : i \in P}
  <1>1. \A w \in Listed(g) : w.index \in Id
    BY AcceptedRecords DEF Record
  <1>2. S \in SUBSET Nat
    BY <1>1 DEF Listed, Id
  <1>3. IsFiniteSet(P)
    <2>1. P \in SUBSET DOMAIN g.records
      OBVIOUS
    <2> QED BY <2>1, AcceptedRecords, FS_Subset
  <1>4. IsFiniteSet(S)
    <2> DEFINE f == [i \in P |-> g.records[i].index]
    <2>1. S = {f[i] : i \in P}
      BY Zenon
    <2>2. DOMAIN f = P
      OBVIOUS
    <2>3. IsFiniteSet({f[i] : i \in P})
      <3> HIDE DEF f, P
      <3> QED BY <1>3, <2>2, FiniteValues
    <2> QED BY <2>1, <2>3, Zenon
  <1>5. \A w \in Listed(g) : SameStream(w, v) => w.index \in S
    BY DEF Listed, SameStream
  <1>6. \A y \in S : \E w \in Listed(g) : SameStream(w, v) /\ w.index = y
    BY DEF Listed, SameStream
  <1>7. S # {}
    BY <1>5 DEF SameStream
  <1>8. m = Max(S)
    BY Zenon DEF HighestIndex
  <1> HIDE DEF S
  <1>9. m \in S /\ \A y \in S : y <= m
    BY <1>2, <1>4, <1>7, <1>8, MaxOfFinite
  <1> QED BY <1>1, <1>5, <1>6, <1>9

\* The record id of a checksum is that of a listed version.
LEMMA ImportedChecksum ==
    ASSUME NEW g, Accepted(g), NEW v \in Listed(g)
    PROVE  \E w \in Listed(g) :
              /\ w.registryId = v.registryId
              /\ w.recordId = LastRecordId(g.records, v.registryId, v.checksum)
  <1> DEFINE P == {i \in DOMAIN g.records : g.records[i].registryId = v.registryId /\
                                            g.records[i].checksum = v.checksum}
  <1>1. P \in SUBSET Nat /\ IsFiniteSet(P)
    <2>1. P \in SUBSET DOMAIN g.records
      OBVIOUS
    <2> HIDE DEF P
    <2> QED BY <2>1, AcceptedRecords, FS_Subset
  <1>2. P # {}
    BY DEF Listed
  <1>3. LastRecordId(g.records, v.registryId, v.checksum) = g.records[Max(P)].recordId
    BY Zenon DEF LastRecordId
  <1>4. Max(P) \in P
    <2> HIDE DEF P
    <2> QED BY <1>1, <1>2, MaxOfFinite
  <1> QED BY <1>3, <1>4, Zenon DEF Listed

\* RegistryCount covers every registry id.
LEMMA ImportedRegistryCount ==
    ASSUME NEW g, Accepted(g)
    PROVE  /\ MaxRegistryId(g.registries) \in Nat
           /\ \A id \in DOMAIN g.registries : id <= MaxRegistryId(g.registries)
  <1> DEFINE S == DOMAIN g.registries \cup {0}
  <1>1. S \in SUBSET Nat /\ IsFiniteSet(S) /\ S # {}
    <2>1. DOMAIN g.registries \in SUBSET Nat /\ IsFiniteSet(DOMAIN g.registries)
      BY GenesisAssumption DEF Accepted, IsMap
    <2> QED BY <2>1, FS_AddElement
  <1>2. MaxRegistryId(g.registries) = Max(S)
    BY DEF MaxRegistryId
  <1> HIDE DEF S
  <1>3. Max(S) \in S /\ \A y \in S : y <= Max(S)
    BY <1>1, MaxOfFinite
  <1> QED BY <1>1, <1>2, <1>3 DEF S

\* The record count of a registry covers its record ids.
LEMMA ImportedRecordsCount ==
    ASSUME NEW g, Accepted(g), NEW id, NEW m,
           m = Max({rec.recordId : rec \in {v \in Listed(g) : v.registryId = id}} \cup {0})
    PROVE  /\ m \in Nat
           /\ \A v \in Listed(g) : v.registryId = id => v.recordId <= m
  <1> DEFINE T == {v \in Listed(g) : v.registryId = id}
             U == {rec.recordId : rec \in T}
             S == U \cup {0}
  <1>1. \A v \in Listed(g) : v.recordId \in Nat
    BY AcceptedRecords DEF Record, Id
  <1>2. IsFiniteSet(T)
    <2>1. T \in SUBSET Listed(g)
      OBVIOUS
    <2> QED BY <2>1, AcceptedRecords, FS_Subset
  <1>3. IsFiniteSet(U)
    <2> DEFINE f == [rec \in T |-> rec.recordId]
    <2>1. U = {f[rec] : rec \in T}
      BY Zenon
    <2>2. DOMAIN f = T
      OBVIOUS
    <2>3. IsFiniteSet({f[rec] : rec \in T})
      <3> HIDE DEF f, T
      <3> QED BY <1>2, <2>2, FiniteValues
    <2> QED BY <2>1, <2>3, Zenon
  <1>4. IsFiniteSet(S)
    <2> HIDE DEF U
    <2> QED BY <1>3, FS_AddElement
  <1>5. S \in SUBSET Nat /\ S # {}
    BY <1>1
  <1>6. m = Max(S)
    OBVIOUS
  <1>7. m \in S /\ \A y \in S : y <= m
    <2> HIDE DEF S
    <2> QED BY <1>4, <1>5, <1>6, MaxOfFinite, Zenon
  <1> QED BY <1>5, <1>7

\* The collections hold what InitGenesis writes, and recs are the records it writes.
Loaded(g, recs) ==
    LET c == InitGenesis(g)
    IN  /\ admin = c.admin
        /\ registries = c.registries
        /\ registryCount = c.registryCount
        /\ recs = c.records
        /\ recordIdByRegistryAndChecksum = c.recordIdByRegistryAndChecksum
        /\ recordIdByChecksumAndRegistry = c.recordIdByChecksumAndRegistry
        /\ recordsCountByRegistry = c.recordsCountByRegistry
        /\ recordIndices = c.recordIndices
        /\ roleAdmins = c.roleAdmins
        /\ roleMembers = c.roleMembers

\* What InitGenesis writes for each registry and each listed version.
LEMMA LoadedEntries ==
    ASSUME NEW g, Accepted(g), NEW recs, Loaded(g, recs)
    PROVE  /\ admin = g.admin /\ registries = g.registries
           /\ registryCount = MaxRegistryId(g.registries)
           /\ roleAdmins = g.roleAdmins /\ roleMembers = g.roleMembers
           /\ recordIdByRegistryAndChecksum =
                 [k \in {<<rec.registryId, rec.checksum>> : rec \in Listed(g)} |->
                     LastRecordId(g.records, k[1], k[2])]
           /\ recordIdByChecksumAndRegistry =
                 [k \in {<<s[2], s[1]>> :
                            s \in {<<rec.registryId, rec.checksum>> : rec \in Listed(g)}} |->
                     LastRecordId(g.records, k[2], k[1])]
           /\ recordsCountByRegistry =
                 [id \in DOMAIN g.registries |->
                     Max({rec.recordId : rec \in {v \in Listed(g) : v.registryId = id}}
                         \cup {0})]
           /\ recordIndices =
                 [s \in {<<rec.registryId, rec.recordId>> : rec \in Listed(g)} |->
                     HighestIndex(g.records, s)]
  BY Zenon DEF Loaded, InitGenesis, Listed

\* The records are the listed versions, each under its own key.
LEMMA LoadedRecords ==
    ASSUME NEW g, Accepted(g), NEW recs, Loaded(g, recs)
    PROVE  /\ IsMap(recs, RecordKey, Record)
           /\ IsFiniteSet(DOMAIN recs)
           /\ \A key \in DOMAIN recs : recs[key] \in Listed(g) /\ GenKey(recs[key]) = key
           /\ \A v \in Listed(g) : GenKey(v) \in DOMAIN recs /\ recs[GenKey(v)] = v
  <1>1. recs = [key \in {GenKey(rec) : rec \in Listed(g)} |->
                   CHOOSE rec \in Listed(g) : GenKey(rec) = key]
    BY Zenon DEF Loaded, InitGenesis, Listed
  <1>2. DOMAIN recs = {GenKey(rec) : rec \in Listed(g)}
    BY <1>1
  <1>3. ASSUME NEW key \in DOMAIN recs
        PROVE  recs[key] \in Listed(g) /\ GenKey(recs[key]) = key
    <2>1. recs[key] = CHOOSE rec \in Listed(g) : GenKey(rec) = key
      BY <1>1
    <2>2. \E rec \in Listed(g) : GenKey(rec) = key
      BY <1>2
    <2> QED BY <2>1, <2>2
  <1>4. ASSUME NEW v \in Listed(g)
        PROVE  GenKey(v) \in DOMAIN recs /\ recs[GenKey(v)] = v
    <2>1. GenKey(v) \in DOMAIN recs
      BY <1>2
    <2> QED BY <1>3, <2>1, AcceptedRecords
  <1>5. \A v \in Listed(g) : v \in Record /\ GenKey(v) \in RecordKey
    BY AcceptedRecords DEF Record, GenKey, RecordKey
  <1>6. IsMap(recs, RecordKey, Record)
    <2>1. DOMAIN recs \subseteq RecordKey
      BY <1>2, <1>5
    <2>2. \A key \in DOMAIN recs : recs[key] \in Record
      BY <1>3, <1>5
    <2>3. recs \in [DOMAIN recs -> Record]
      BY <1>1, <2>2, Zenon
    <2> QED BY <2>1, <2>3 DEF IsMap
  <1>7. IsFiniteSet(DOMAIN recs)
    <2> DEFINE f == [v \in Listed(g) |-> GenKey(v)]
    <2>1. DOMAIN f = Listed(g) /\ DOMAIN recs = {f[v] : v \in Listed(g)}
      BY <1>2
    <2> HIDE DEF f
    <2> QED BY <2>1, AcceptedRecords, FiniteValues
  <1> QED BY <1>3, <1>4, <1>6, <1>7

\* The entry of RecordIndices for the stream of a listed version.
LEMMA LoadedIndices ==
    ASSUME NEW g, Accepted(g), NEW recs, Loaded(g, recs)
    PROVE  /\ IsMap(recordIndices, Id \X Id, Id)
           /\ \A s \in DOMAIN recordIndices :
                 \E v \in Listed(g) : /\ s = <<v.registryId, v.recordId>>
                                      /\ v.index = recordIndices[s]
           /\ \A v \in Listed(g) :
                 /\ <<v.registryId, v.recordId>> \in DOMAIN recordIndices
                 /\ v.index <= recordIndices[<<v.registryId, v.recordId>>]
                 /\ v.isLatest <=> v.index = recordIndices[<<v.registryId, v.recordId>>]
  <1>1. recordIndices = [s \in {<<rec.registryId, rec.recordId>> : rec \in Listed(g)} |->
                            HighestIndex(g.records, s)]
    BY LoadedEntries, Zenon
  <1>2. ASSUME NEW v \in Listed(g)
        PROVE  /\ <<v.registryId, v.recordId>> \in DOMAIN recordIndices
               /\ recordIndices[<<v.registryId, v.recordId>>] =
                     HighestIndex(g.records, <<v.registryId, v.recordId>>)
    BY <1>1
  <1>3. \A s \in DOMAIN recordIndices :
           \E v \in Listed(g) : s = <<v.registryId, v.recordId>>
    BY <1>1
  <1>4. ASSUME NEW v \in Listed(g)
        PROVE  /\ recordIndices[<<v.registryId, v.recordId>>] \in Id
               /\ \E w \in Listed(g) :
                     /\ SameStream(w, v)
                     /\ w.index = recordIndices[<<v.registryId, v.recordId>>]
               /\ \A w \in Listed(g) :
                     SameStream(w, v) => w.index <= recordIndices[<<v.registryId, v.recordId>>]
    BY <1>2, ImportedIndex, Zenon
  <1>5. \A v \in Listed(g) : v.registryId \in Id /\ v.recordId \in Id /\ v.index \in Id
    BY AcceptedRecords DEF Record
  <1>6. IsMap(recordIndices, Id \X Id, Id)
    <2>1. DOMAIN recordIndices \subseteq Id \X Id
      BY <1>3, <1>5
    <2>2. \A s \in DOMAIN recordIndices : recordIndices[s] \in Id
      BY <1>3, <1>4
    <2>3. recordIndices \in [DOMAIN recordIndices -> Id]
      BY <1>1, <2>2
    <2> QED BY <2>1, <2>3 DEF IsMap
  <1>7. ASSUME NEW s \in DOMAIN recordIndices
        PROVE  \E v \in Listed(g) : /\ s = <<v.registryId, v.recordId>>
                                    /\ v.index = recordIndices[s]
    <2>1. PICK v \in Listed(g) : s = <<v.registryId, v.recordId>>
      BY <1>3
    <2>2. PICK w \in Listed(g) : SameStream(w, v) /\ w.index = recordIndices[s]
      BY <1>4, <2>1
    <2> QED BY <2>1, <2>2 DEF SameStream
  <1>8. ASSUME NEW v \in Listed(g)
        PROVE  /\ v.index <= recordIndices[<<v.registryId, v.recordId>>]
               /\ v.isLatest <=> v.index = recordIndices[<<v.registryId, v.recordId>>]
    <2> DEFINE m == recordIndices[<<v.registryId, v.recordId>>]
    <2>1. PICK l \in Listed(g) :
             /\ l.isLatest /\ SameStream(l, v)
             /\ \A w \in Listed(g) : SameStream(w, v) /\ w.isLatest => w = l
             /\ \A w \in Listed(g) : SameStream(w, v) => w.index <= l.index
      BY AcceptedLatest
    <2>2. PICK t \in Listed(g) : SameStream(t, v) /\ t.index = m
      BY <1>4, SMTT(30)
    <2>3. l.index <= m /\ m <= l.index /\ v.index <= m
      BY <1>4, <2>1, <2>2 DEF SameStream
    <2>4. l.index = m
      BY <1>4, <1>5, <2>3, SMTT(30) DEF Id
    <2>5. v.isLatest => v.index = m
      BY <2>1, <2>4 DEF SameStream
    <2>6. ASSUME v.index = m PROVE v.isLatest
      <3>1. GenKey(v) = GenKey(l)
        BY <2>1, <2>4, <2>6, SMTT(30) DEF GenKey, SameStream
      <3>2. v = l
        BY <3>1, AcceptedRecords, SMTT(30)
      <3> QED BY <2>1, <3>2
    <2>7. v.isLatest \in BOOLEAN
      BY AcceptedRecords DEF Record
    <2> QED BY <2>3, <2>5, <2>6, <2>7
  <1> QED BY <1>2, <1>6, <1>7, <1>8

\* The checksum indexes lead to streams of the list.
LEMMA LoadedChecksums ==
    ASSUME NEW g, Accepted(g), NEW recs, Loaded(g, recs)
    PROVE  /\ IsMap(recordIdByRegistryAndChecksum, Id \X Checksum, Id)
           /\ IsMap(recordIdByChecksumAndRegistry, Checksum \X Id, Id)
           /\ \A k \in DOMAIN recordIdByRegistryAndChecksum :
                 <<k[1], recordIdByRegistryAndChecksum[k]>> \in DOMAIN recordIndices
  <1> DEFINE sums == {<<rec.registryId, rec.checksum>> : rec \in Listed(g)}
             swapped == {<<s[2], s[1]>> : s \in sums}
  <1>1. /\ recordIdByRegistryAndChecksum = [k \in sums |-> LastRecordId(g.records, k[1], k[2])]
        /\ recordIdByChecksumAndRegistry =
              [k \in swapped |-> LastRecordId(g.records, k[2], k[1])]
    BY LoadedEntries, Zenon
  <1>2. \A v \in Listed(g) : v.registryId \in Id /\ v.recordId \in Id /\ v.checksum \in Checksum
    BY AcceptedRecords DEF Record
  <1>3. ASSUME NEW s \in sums
        PROVE  /\ s \in Id \X Checksum
               /\ \E w \in Listed(g) : /\ w.registryId = s[1]
                                       /\ w.recordId = LastRecordId(g.records, s[1], s[2])
    <2>1. PICK v \in Listed(g) : s = <<v.registryId, v.checksum>>
      OBVIOUS
    <2>2. s[1] = v.registryId /\ s[2] = v.checksum
      BY <2>1
    <2>3. s \in Id \X Checksum
      BY <1>2, <2>1
    <2>4. \E w \in Listed(g) : /\ w.registryId = s[1]
                               /\ w.recordId = LastRecordId(g.records, s[1], s[2])
      BY <2>2, ImportedChecksum
    <2> QED BY <2>3, <2>4
  <1> HIDE DEF sums
  <1>4. \A s \in sums : LastRecordId(g.records, s[1], s[2]) \in Id
    BY <1>2, <1>3
  <1>5. IsMap(recordIdByRegistryAndChecksum, Id \X Checksum, Id)
    BY <1>1, <1>3, <1>4 DEF IsMap
  <1>6. IsMap(recordIdByChecksumAndRegistry, Checksum \X Id, Id)
    <2>1. ASSUME NEW k \in swapped
          PROVE  k \in Checksum \X Id /\ LastRecordId(g.records, k[2], k[1]) \in Id
      <3>1. PICK s \in sums : k = <<s[2], s[1]>>
        OBVIOUS
      <3>2. k[1] = s[2] /\ k[2] = s[1]
        BY <3>1
      <3> QED BY <1>3, <1>4, <3>1, <3>2
    <2> HIDE DEF swapped
    <2> QED BY <1>1, <2>1 DEF IsMap
  <1>7. ASSUME NEW k \in DOMAIN recordIdByRegistryAndChecksum
        PROVE  <<k[1], recordIdByRegistryAndChecksum[k]>> \in DOMAIN recordIndices
    <2>1. k \in sums /\ recordIdByRegistryAndChecksum[k] = LastRecordId(g.records, k[1], k[2])
      BY <1>1
    <2>2. PICK w \in Listed(g) : /\ w.registryId = k[1]
                                 /\ w.recordId = recordIdByRegistryAndChecksum[k]
      BY <1>3, <2>1
    <2>3. <<w.registryId, w.recordId>> \in DOMAIN recordIndices
      BY LoadedIndices
    <2> QED BY <2>2, <2>3
  <1> QED BY <1>5, <1>6, <1>7

\* Whatever genesis is accepted, with holes in its ids or not and in any order, the
\* state it is imported into is sound (keeper/genesis.go:13-131).
LEMMA ImportSound ==
    ASSUME NEW g, Accepted(g), NEW recs, Loaded(g, recs)
    PROVE  Sound(recs)
  <1>1. /\ admin = g.admin /\ registries = g.registries
        /\ registryCount = MaxRegistryId(g.registries)
        /\ roleAdmins = g.roleAdmins /\ roleMembers = g.roleMembers
    BY LoadedEntries, Zenon
  <1>2. /\ g.admin \in Addr
        /\ IsFiniteSet(DOMAIN g.registries)
        /\ IsMap(g.registries, Nat, [id : Nat, creator : Addr])
        /\ IsMap(g.roleAdmins, Role, Role)
        /\ g.roleMembers \subseteq Role \X Addr
    BY GenesisAssumption, Zenon DEF Accepted
  <1>3. \A key \in DOMAIN g.registries : g.registries[key].id = key /\ key # 0
    BY Zenon DEF Accepted, Validate
  <1>4. IsMap(registries, Id, Registry)
    <2>1. ASSUME NEW key \in DOMAIN g.registries
          PROVE  key \in Id /\ g.registries[key] \in Registry
      <3>1. key \in Nat /\ g.registries[key] \in [id : Nat, creator : Addr]
        BY <1>2 DEF IsMap
      <3>2. key \in Id /\ g.registries[key].id \in Id
        BY <1>3, <3>1 DEF Id
      <3> QED BY <3>1, <3>2 DEF Registry
    <2> QED BY <1>1, <1>2, <2>1 DEF IsMap
  <1>5. registryCount \in Nat /\ \A id \in DOMAIN registries : id <= registryCount
    BY <1>1, ImportedRegistryCount
  <1>6. recordsCountByRegistry =
           [id \in DOMAIN g.registries |->
               Max({rec.recordId : rec \in {v \in Listed(g) : v.registryId = id}} \cup {0})]
    BY LoadedEntries, Zenon
  <1>7. ASSUME NEW id \in DOMAIN registries
        PROVE  /\ recordsCountByRegistry[id] \in Nat
               /\ \A v \in Listed(g) : v.registryId = id
                                          => v.recordId <= recordsCountByRegistry[id]
    <2>1. recordsCountByRegistry[id] =
             Max({rec.recordId : rec \in {v \in Listed(g) : v.registryId = id}} \cup {0})
      BY <1>1, <1>6, Zenon
    <2> QED BY <2>1, ImportedRecordsCount, Zenon
  <1>8. DOMAIN recordsCountByRegistry = DOMAIN registries
    BY <1>1, <1>6
  <1>9. IsMap(recordsCountByRegistry, Id, Nat)
    <2>1. recordsCountByRegistry \in [DOMAIN recordsCountByRegistry -> Nat]
      <3>1. recordsCountByRegistry = [id \in DOMAIN recordsCountByRegistry |->
                                         recordsCountByRegistry[id]]
        BY <1>6, Zenon
      <3> QED BY <1>7, <1>8, <3>1
    <2>2. DOMAIN recordsCountByRegistry \subseteq Id
      BY <1>4, <1>8 DEF IsMap
    <2> QED BY <2>1, <2>2 DEF IsMap
  <1>10. Typed(recs)
    BY <1>1, <1>2, <1>4, <1>5, <1>9, LoadedRecords, LoadedIndices, LoadedChecksums, Zenon
       DEF Typed, RecordKey
  <1>11. Counted
    BY <1>1, <1>2, <1>3, <1>5, <1>8, Zenon DEF Counted
  <1>12. ASSUME NEW s \in DOMAIN recordIndices
         PROVE  /\ s[1] \in DOMAIN registries
                /\ s[2] <= recordsCountByRegistry[s[1]]
                /\ <<s[1], s[2], recordIndices[s]>> \in DOMAIN recs
    <2>1. PICK v \in Listed(g) : s = <<v.registryId, v.recordId>> /\ v.index = recordIndices[s]
      BY LoadedIndices
    <2>2. s[1] = v.registryId /\ s[2] = v.recordId
      BY <2>1, SMTT(30)
    <2>3. v.registryId \in DOMAIN registries
      BY <1>1, AcceptedRecords
    <2>4. GenKey(v) \in DOMAIN recs /\ GenKey(v) = <<s[1], s[2], recordIndices[s]>>
      BY <2>1, <2>2, LoadedRecords, Zenon DEF GenKey
    <2> QED BY <1>7, <2>2, <2>3, <2>4, SMTT(30)
  <1>13. Indexed(recs)
    BY <1>12, LoadedChecksums, SMTT(30) DEF Indexed
  <1>14. ASSUME NEW key \in DOMAIN recs
         PROVE  /\ <<key[1], key[2]>> \in DOMAIN recordIndices
                /\ key[3] <= recordIndices[<<key[1], key[2]>>]
                /\ GenKey(recs[key]) = key
                /\ recs[key].isLatest <=> key[3] = recordIndices[<<key[1], key[2]>>]
    <2> DEFINE v == recs[key]
    <2>1. v \in Listed(g) /\ GenKey(v) = key
      BY LoadedRecords
    <2>2. key[1] = v.registryId /\ key[2] = v.recordId /\ key[3] = v.index
      BY <2>1, SMTT(30) DEF GenKey
    <2> HIDE DEF v
    <2>3. /\ <<v.registryId, v.recordId>> \in DOMAIN recordIndices
          /\ v.index <= recordIndices[<<v.registryId, v.recordId>>]
          /\ v.isLatest <=> v.index = recordIndices[<<v.registryId, v.recordId>>]
      BY <2>1, LoadedIndices
    <2> QED BY <2>1, <2>2, <2>3 DEF v
  <1>15. Stored(recs)
    BY <1>14, LoadedRecords, Zenon DEF Stored
  <1> QED BY <1>10, <1>11, <1>13, <1>15 DEF Sound

-----------------------------------------------------------------------------
(***************************************************************************)
(* Messages on a chain that did not start empty                            *)
(***************************************************************************)

\* Typed is the type invariant.
LEMMA TypedIsTypeOK == Typed(records) <=> TypeOK
  BY DEF Typed, TypeOK

\* Messages that touch neither registries nor records.
LEMMA SoundUnchanged ==
    ASSUME Sound(records), TypeOK', UNCHANGED <<registries, registryCount, recordVars>>
    PROVE  Sound(records)' /\ AddOnlyStep
  <1>1. /\ registries' = registries /\ registryCount' = registryCount /\ records' = records
        /\ recordIdByRegistryAndChecksum' = recordIdByRegistryAndChecksum
        /\ recordsCountByRegistry' = recordsCountByRegistry
        /\ recordIndices' = recordIndices
    BY DEF recordVars
  <1>2. Typed(records)'
    BY DEF Typed, TypeOK
  <1>3. Counted' /\ Indexed(records)' /\ Stored(records)'
    BY <1>1, Zenon DEF Sound, Counted, Indexed, Stored
  <1>4. \A key \in DOMAIN records : Later(records[key], records'[key])
    BY <1>1, LaterForms, Zenon DEF Sound, Typed, IsMap
  <1>5. Cardinality(DOMAIN registries) \in Nat /\ registryCount \in Nat
    BY FS_CardinalityType DEF Sound, Counted, Typed
  <1>6. Cardinality(DOMAIN registries') - Cardinality(DOMAIN registries) =
           registryCount' - registryCount
    BY <1>1, <1>5
  <1>7. AddOnlyStep
    BY <1>1, <1>4, <1>6, Zenon DEF AddOnlyStep, Later
  <1> QED BY <1>2, <1>3, <1>7 DEF Sound

\* A new registry takes an id above every id in use (keeper/anchoring.go:17-54).
LEMMA AddRegistrySound ==
    ASSUME Sound(records), TypeOK', NEW sender \in Addr, AddRegistry(sender)
    PROVE  Sound(records)' /\ AddOnlyStep
  <1> DEFINE id == registryCount + 1
  <1>1. /\ DOMAIN registries' = DOMAIN registries \cup {id}
        /\ registries'[id].id = id
        /\ \A k \in DOMAIN registries : k # id => registries'[k] = registries[k]
        /\ DOMAIN recordsCountByRegistry' = DOMAIN recordsCountByRegistry \cup {id}
        /\ recordsCountByRegistry'[id] = 0
        /\ \A k \in DOMAIN recordsCountByRegistry :
              k # id => recordsCountByRegistry'[k] = recordsCountByRegistry[k]
        /\ registryCount' = id
        /\ records' = records /\ recordIndices' = recordIndices
        /\ recordIdByRegistryAndChecksum' = recordIdByRegistryAndChecksum
    BY DEF AddRegistry, Put, initializeRegistryRecordCounter
  <1>2. /\ registryCount \in Nat
        /\ IsFiniteSet(DOMAIN registries)
        /\ \A k \in DOMAIN registries : k \in Nat /\ registries[k].id = k /\ k <= registryCount
        /\ DOMAIN recordsCountByRegistry = DOMAIN registries
    BY DEF Sound, Typed, Counted, IsMap, Id
  <1>3. id \notin DOMAIN registries
    BY <1>2, SMTT(30)
  <1>4. /\ IsFiniteSet(DOMAIN registries')
        /\ Cardinality(DOMAIN registries') = Cardinality(DOMAIN registries) + 1
        /\ Cardinality(DOMAIN registries) \in Nat
    <2>1. /\ IsFiniteSet(DOMAIN registries \cup {id})
          /\ Cardinality(DOMAIN registries \cup {id}) = Cardinality(DOMAIN registries) + 1
          /\ Cardinality(DOMAIN registries) \in Nat
      <3> HIDE DEF id
      <3> QED BY <1>2, <1>3, FS_AddElement, FS_CardinalityType
    <2> QED BY <1>1, <2>1
  <1>5. \A k \in DOMAIN registries : /\ k \in DOMAIN registries'
                                     /\ registries'[k] = registries[k]
                                     /\ recordsCountByRegistry'[k] = recordsCountByRegistry[k]
    BY <1>1, <1>2, <1>3
  <1>6. Counted'
    BY <1>1, <1>2, <1>4, <1>5 DEF Counted
  <1>7. Indexed(records)'
    BY <1>1, <1>5, Zenon DEF Sound, Indexed
  <1>8. Stored(records)'
    BY <1>1, Zenon DEF Sound, Stored
  <1>9. Typed(records)'
    BY DEF Typed, TypeOK
  <1>10. \A key \in DOMAIN records : Later(records[key], records'[key])
    BY <1>1, LaterForms, Zenon DEF Sound, Typed, IsMap
  <1>11. Cardinality(DOMAIN registries') - Cardinality(DOMAIN registries) =
            registryCount' - registryCount
    BY <1>1, <1>2, <1>4
  <1>12. AddOnlyStep
    BY <1>1, <1>5, <1>10, <1>11, Zenon DEF AddOnlyStep, Later
  <1> QED BY <1>6, <1>7, <1>8, <1>9, <1>12, SMTT(30) DEF Sound

\* A status update moves no id, index or flag (keeper/anchoring.go:152-183).
LEMMA UpdateRecordStatusSound ==
    ASSUME Sound(records), TypeOK', NEW sender \in Addr, NEW key \in DOMAIN records,
           NEW status \in Status \cup {NoStatus},
           UpdateRecordStatus(sender, key[1], key[2], key[3], status)
    PROVE  Sound(records)' /\ AddOnlyStep
  <1>1. /\ key = <<key[1], key[2], key[3]>> /\ status \in Status
        /\ IsMap(records, RecordKey, Record)
    BY DEF Sound, Typed, IsMap, RecordKey, UpdateRecordStatus
  <1>2. /\ records' = Put(records, key, [records[key] EXCEPT !.status = status])
        /\ UNCHANGED <<registries, registryCount, recordIdByRegistryAndChecksum,
                       recordsCountByRegistry, recordIndices>>
    BY <1>1 DEF UpdateRecordStatus
  <1>3. DOMAIN records' = DOMAIN records
    BY <1>2 DEF Put
  <1>4. ASSUME NEW k \in DOMAIN records
        PROVE  /\ records[k] \in Record
               /\ \/ records'[k] = records[k]
                  \/ records'[k] = [records[k] EXCEPT !.status = status]
    <2>1. records[k] \in Record
      BY <1>1 DEF IsMap
    <2>2. CASE k = key
      BY <1>2, <2>1, <2>2 DEF Put
    <2>3. CASE k # key
      BY <1>2, <2>1, <2>3 DEF Put
    <2> QED BY <2>2, <2>3
  <1>5. ASSUME NEW k \in DOMAIN records
        PROVE  /\ GenKey(records'[k]) = GenKey(records[k])
               /\ records'[k].isLatest = records[k].isLatest
               /\ Later(records[k], records'[k])
    <2>1. CASE records'[k] = records[k]
      BY <1>4, <2>1, LaterForms, Zenon
    <2>2. CASE records'[k] = [records[k] EXCEPT !.status = status]
      <3>1. Later(records[k], records'[k])
        <4>1. Later(records[k], [records[k] EXCEPT !.status = status])
          BY <1>1, <1>4, LaterForms, Zenon
        <4> QED BY <2>2, <4>1
      <3>2. /\ records'[k].registryId = records[k].registryId
            /\ records'[k].recordId = records[k].recordId
            /\ records'[k].index = records[k].index
            /\ records'[k].isLatest = records[k].isLatest
        BY <1>4, <2>2 DEF Record
      <3> QED BY <3>1, <3>2 DEF GenKey
    <2> QED BY <1>4, <2>1, <2>2
  <1>6. Counted' /\ Indexed(records)'
    BY <1>2, <1>3, Zenon DEF Sound, Counted, Indexed
  <1>7. Stored(records)'
    BY <1>2, <1>3, <1>5, Zenon DEF Sound, Stored
  <1>8. Typed(records)'
    BY DEF Typed, TypeOK
  <1>9. Cardinality(DOMAIN registries) \in Nat /\ registryCount \in Nat
    BY FS_CardinalityType, Zenon DEF Sound, Counted, Typed
  <1>10. Cardinality(DOMAIN registries') - Cardinality(DOMAIN registries) =
            registryCount' - registryCount
    BY <1>2, <1>9
  <1>11. AddOnlyStep
    BY <1>2, <1>3, <1>5, <1>10, Zenon DEF AddOnlyStep, Later
  <1> QED BY <1>6, <1>7, <1>8, <1>11 DEF Sound

\* The version AddRecord stores opens a stream that the counter did not cover, or
\* follows the version the index leads to.
Follows(r, c, n, i) ==
    \/ /\ <<r, c>> \notin DOMAIN recordIdByRegistryAndChecksum
       /\ n = recordsCountByRegistry[r] + 1
       /\ <<r, n>> \notin DOMAIN recordIndices
       /\ i = 1
    \/ /\ <<r, c>> \in DOMAIN recordIdByRegistryAndChecksum
       /\ n <= recordsCountByRegistry[r]
       /\ <<r, n>> \in DOMAIN recordIndices
       /\ i = recordIndices[<<r, n>>] + 1
       /\ i > 1
       /\ <<r, n, i - 1>> \in DOMAIN records

\* Whatever holes the ids have, the key of the new version is free
\* (keeper/anchoring.go:82-118).
LEMMA NewVersion ==
    ASSUME Sound(records), NEW sender \in Addr, NEW r \in RegistryIds,
           NEW c \in ScopeChecksum, NEW status \in Status \cup {NoStatus},
           AddRecord(sender, r, c, status),
           NEW n, n = RecordIdFor(r, c), NEW i, i = NextIndex(r, n)
    PROVE  /\ r \in DOMAIN registries /\ c \in Checksum /\ status \in Status
           /\ r \in Id /\ n \in Id /\ i \in Id
           /\ recordsCountByRegistry[r] \in Nat
           /\ Follows(r, c, n, i)
           /\ <<r, n, i>> \notin DOMAIN records
  <1>1. /\ TypeOK /\ Counted /\ Indexed(records) /\ Stored(records)
        /\ IsMap(recordsCountByRegistry, Id, Nat) /\ IsMap(recordIndices, Id \X Id, Id)
    BY TypedIsTypeOK, Zenon DEF Sound, Typed
  <1>2. r \in Id /\ c \in Checksum /\ status \in Status /\ r \in DOMAIN registries
    <2>1. ValidateRecordForCreate(c, status) /\ r \in DOMAIN registries
      BY Zenon DEF AddRecord
    <2>2. r \in Id
      BY BoundAssumption DEF RegistryIds, Id
    <2> QED BY <2>1, <2>2 DEF ValidateRecordForCreate, ScopeChecksum
  <1>3. n \in Id /\ i \in Id
    BY <1>1, <1>2, AddRecordKey, Zenon DEF AddRecord
  <1>4. recordsCountByRegistry[r] \in Nat
    BY <1>1, <1>2 DEF IsMap, Counted
  <1>5. CASE <<r, c>> \notin DOMAIN recordIdByRegistryAndChecksum
    <2>1. n = recordsCountByRegistry[r] + 1
      BY <1>5, Zenon DEF RecordIdFor
    <2>2. <<r, n>> \notin DOMAIN recordIndices
      <3>1. ASSUME <<r, n>> \in DOMAIN recordIndices PROVE n <= recordsCountByRegistry[r]
        BY <1>1, <3>1, Zenon DEF Indexed
      <3> QED BY <1>4, <2>1, <3>1
    <2>3. i = 1
      BY <2>2, SMTT(30) DEF NextIndex
    <2>4. <<r, n, i>> \notin DOMAIN records
      BY <1>1, <2>2 DEF Stored
    <2> QED BY <1>2, <1>3, <1>4, <1>5, <2>1, <2>2, <2>3, <2>4, ZenonT(30) DEF Follows
  <1>6. CASE <<r, c>> \in DOMAIN recordIdByRegistryAndChecksum
    <2>1. n = recordIdByRegistryAndChecksum[<<r, c>>]
      BY <1>6, Zenon DEF RecordIdFor
    <2>2. <<r, n>> \in DOMAIN recordIndices
      BY <1>1, <1>6, <2>1, ZenonT(20) DEF Indexed
    <2>3. i = recordIndices[<<r, n>>] + 1 /\ recordIndices[<<r, n>>] \in Id
      BY <1>1, <2>2 DEF NextIndex, IsMap
    <2>4. n <= recordsCountByRegistry[r] /\ <<r, n, recordIndices[<<r, n>>]>> \in DOMAIN records
      BY <1>1, <2>2 DEF Indexed
    <2>5. i - 1 = recordIndices[<<r, n>>] /\ i > 1
      BY <2>3 DEF Id
    <2>6. <<r, n, i>> \notin DOMAIN records
      <3> DEFINE k == <<r, n, i>>
      <3>1. ASSUME k \in DOMAIN records PROVE k[3] <= recordIndices[<<k[1], k[2]>>]
        BY <1>1, <3>1, Zenon DEF Stored
      <3>2. k[1] = r /\ k[2] = n /\ k[3] = i
        OBVIOUS
      <3>3. ~ (i <= recordIndices[<<r, n>>])
        BY <2>3 DEF Id
      <3> QED BY <3>1, <3>2, <3>3, Zenon
    <2> QED BY <1>2, <1>3, <1>4, <1>6, <2>2, <2>3, <2>4, <2>5, <2>6, Zenon DEF Follows
  <1> QED BY <1>5, <1>6, Zenon

\* No id exceeds itself.
LEMMA IdOrdered == \A x \in Id : x <= x
  BY DEF Id

\* A counter does not exceed the id after it.
LEMMA CountBelowNext == \A x \in Nat : \A y : y = x + 1 => x <= y
  OBVIOUS

\* AddRecord keeps counters, indexes, flags and versions in agreement, whatever
\* holes the ids have (keeper/anchoring.go:67-140).
LEMMA AddRecordSound ==
    ASSUME Sound(records), TypeOK', NEW sender \in Addr, NEW r \in RegistryIds,
           NEW c \in ScopeChecksum, NEW status \in Status \cup {NoStatus},
           AddRecord(sender, r, c, status)
    PROVE  Sound(records)' /\ AddOnlyStep
  <1> DEFINE n == RecordIdFor(r, c)
             i == NextIndex(r, n)
             key == <<r, n, i>>
             prev == <<r, n, i - 1>>
             rec == AddedRecord(r, c, status)
             isNew == <<r, c>> \notin DOMAIN recordIdByRegistryAndChecksum
  <1>1. /\ r \in DOMAIN registries /\ c \in Checksum /\ status \in Status
        /\ r \in Id /\ n \in Id /\ i \in Id
        /\ recordsCountByRegistry[r] \in Nat
        /\ Follows(r, c, n, i)
        /\ key \notin DOMAIN records
    BY NewVersion, Zenon
  <1>2. /\ records' = StoreLatest(rec)
        /\ registries' = registries /\ registryCount' = registryCount
        /\ recordIndices' = Put(recordIndices, <<r, n>>, i)
        /\ isNew => /\ recordsCountByRegistry' = Put(recordsCountByRegistry, r, n)
                    /\ recordIdByRegistryAndChecksum' =
                          Put(recordIdByRegistryAndChecksum, <<r, c>>, n)
        /\ ~ isNew => /\ recordsCountByRegistry' = recordsCountByRegistry
                      /\ recordIdByRegistryAndChecksum' = recordIdByRegistryAndChecksum
    BY Zenon DEF AddRecord, AddedRecord, IndexChecksum
  <1>3. /\ rec \in Record /\ KeyOf(rec) = key /\ PrevOf(rec) = prev
        /\ rec.index = i /\ rec.isLatest /\ GenKey(rec) = key
    BY <1>1, Zenon DEF AddedRecord, Record, KeyOf, PrevOf, GenKey
  <1>4. /\ IsMap(records, Id \X Id \X Id, Record) /\ Counted /\ Indexed(records)
        /\ Stored(records) /\ IsMap(recordIndices, Id \X Id, Id)
        /\ registryCount \in Nat
    BY DEF Sound, Typed
  <1> HIDE DEF n, i, rec
  <1>5. i > 1 => prev \in DOMAIN records
    <2>1. i = 1 \/ prev \in DOMAIN records
      BY <1>1, Zenon DEF Follows
    <2> QED BY <2>1
  <1>6. /\ DOMAIN records' = DOMAIN records \cup {key}
        /\ records'[key] = rec
        /\ i > 1 => records'[prev] = [records[prev] EXCEPT !.isLatest = FALSE]
        /\ \A k \in DOMAIN records :
              k # key /\ (i > 1 => k # prev) => records'[k] = records[k]
    <2>1. /\ DOMAIN StoreLatest(rec) = DOMAIN records \cup {KeyOf(rec)}
          /\ StoreLatest(rec)[KeyOf(rec)] = rec
          /\ rec.index > 1 =>
                StoreLatest(rec)[PrevOf(rec)] = [records[PrevOf(rec)] EXCEPT !.isLatest = FALSE]
          /\ \A k \in DOMAIN records :
                k # KeyOf(rec) /\ (rec.index > 1 => k # PrevOf(rec))
                   => StoreLatest(rec)[k] = records[k]
      BY <1>3, <1>4, <1>5, StoreLatestEntries, Zenon
    <2> HIDE DEF key, prev
    <2> QED BY <1>2, <1>3, <2>1
  <1>7. /\ DOMAIN recordIndices' = DOMAIN recordIndices \cup {<<r, n>>}
        /\ recordIndices'[<<r, n>>] = i
        /\ \A s \in DOMAIN recordIndices : s # <<r, n>> => recordIndices'[s] = recordIndices[s]
    BY <1>2 DEF Put
  <1>8. /\ DOMAIN recordsCountByRegistry' = DOMAIN registries
        /\ n <= recordsCountByRegistry'[r]
        /\ recordsCountByRegistry[r] <= recordsCountByRegistry'[r]
        /\ \A id \in DOMAIN registries :
              id # r => recordsCountByRegistry'[id] = recordsCountByRegistry[id]
    <2>1. CASE isNew
      <3>1. n = recordsCountByRegistry[r] + 1
        BY <1>1, <2>1, Zenon DEF Follows
      <3>2. recordsCountByRegistry' = Put(recordsCountByRegistry, r, n)
        BY <1>2, <2>1, SMTT(30)
      <3>3. DOMAIN recordsCountByRegistry = DOMAIN registries
        BY <1>4, ZenonT(30) DEF Counted
      <3>4. /\ DOMAIN recordsCountByRegistry' = DOMAIN registries
            /\ recordsCountByRegistry'[r] = n
            /\ \A id \in DOMAIN registries :
                  id # r => recordsCountByRegistry'[id] = recordsCountByRegistry[id]
        BY <1>1, <3>2, <3>3, SMTT(30) DEF Put
      <3>5. recordsCountByRegistry[r] <= n
        BY <1>1, <3>1, CountBelowNext, Zenon
      <3> QED BY <1>1, <3>4, <3>5, IdOrdered, Zenon
    <2>2. CASE ~ isNew
      <3>1. n <= recordsCountByRegistry[r]
        BY <1>1, <2>2, Zenon DEF Follows
      <3>2. recordsCountByRegistry' = recordsCountByRegistry
        BY <1>2, <2>2, Zenon
      <3>3. recordsCountByRegistry[r] <= recordsCountByRegistry[r]
        BY <1>1
      <3> QED BY <1>4, <3>1, <3>2, <3>3, Zenon DEF Counted
    <2> QED BY <2>1, <2>2, Zenon
  <1>9. Counted'
    BY <1>2, <1>4, <1>8 DEF Counted
  <1>10. ASSUME NEW s \in DOMAIN recordIndices'
         PROVE  /\ s[1] \in DOMAIN registries'
                /\ s[2] <= recordsCountByRegistry'[s[1]]
                /\ <<s[1], s[2], recordIndices'[s]>> \in DOMAIN records'
    <2>1. CASE s = <<r, n>>
      BY <1>1, <1>2, <1>6, <1>7, <1>8, <2>1, SMTT(30)
    <2>2. CASE s # <<r, n>>
      <3>1. s \in DOMAIN recordIndices /\ recordIndices'[s] = recordIndices[s]
        BY <1>7, <2>2, Zenon
      <3>2. /\ s[1] \in DOMAIN registries
            /\ s[2] <= recordsCountByRegistry[s[1]]
            /\ <<s[1], s[2], recordIndices[s]>> \in DOMAIN records
        BY <1>4, <3>1, Zenon DEF Indexed
      <3>3. s[2] \in Int /\ recordsCountByRegistry[s[1]] \in Int
        BY <1>4, <3>1, <3>2, SMTT(30) DEF IsMap, Id, Counted, Sound, Typed
      <3>4. s[2] <= recordsCountByRegistry'[s[1]]
        <4>1. CASE s[1] = r
          <5>1. recordsCountByRegistry'[r] \in Int
            BY <1>1, <1>2, <1>8 DEF TypeOK, IsMap
          <5>2. recordsCountByRegistry[s[1]] <= recordsCountByRegistry'[s[1]]
            BY <1>8, <4>1, Zenon
          <5>3. recordsCountByRegistry'[s[1]] \in Int
            BY <4>1, <5>1, Zenon
          <5> QED BY <3>2, <3>3, <5>2, <5>3, SMTT(30)
        <4>2. CASE s[1] # r
          BY <1>8, <3>2, <4>2, Zenon
        <4> QED BY <4>1, <4>2, SMTT(30)
      <3> QED BY <1>2, <1>6, <3>1, <3>2, <3>4
    <2> QED BY <2>1, <2>2, Zenon
  <1>11. ASSUME NEW k \in DOMAIN recordIdByRegistryAndChecksum'
         PROVE  <<k[1], recordIdByRegistryAndChecksum'[k]>> \in DOMAIN recordIndices'
    <2>1. CASE k \in DOMAIN recordIdByRegistryAndChecksum
      <3>1. recordIdByRegistryAndChecksum'[k] = recordIdByRegistryAndChecksum[k]
        BY <1>2, <2>1, SMTT(30) DEF Put
      <3> QED BY <1>4, <1>7, <2>1, <3>1, Zenon DEF Indexed
    <2>2. CASE k \notin DOMAIN recordIdByRegistryAndChecksum
      <3>1. k = <<r, c>> /\ recordIdByRegistryAndChecksum'[k] = n
        BY <1>2, <2>2, SMTT(30) DEF Put
      <3> QED BY <1>7, <3>1
    <2> QED BY <2>1, <2>2, Zenon
  <1>12. Indexed(records)'
    BY <1>10, <1>11 DEF Indexed
  <1>13. ASSUME NEW k \in DOMAIN records
         PROVE  /\ records[k] \in Record /\ k # key
                /\ k # prev \/ ~ (i > 1) => records'[k] = records[k]
                /\ k = prev /\ i > 1 => records'[k] = [records[k] EXCEPT !.isLatest = FALSE]
    BY <1>1, <1>4, <1>6, SMTT(30) DEF IsMap
  <1>14. ASSUME NEW k \in DOMAIN records'
         PROVE  /\ <<k[1], k[2]>> \in DOMAIN recordIndices'
                /\ k[3] <= recordIndices'[<<k[1], k[2]>>]
                /\ GenKey(records'[k]) = k
                /\ records'[k].isLatest <=> k[3] = recordIndices'[<<k[1], k[2]>>]
    <2>1. CASE k = key
      <3>1. <<k[1], k[2]>> = <<r, n>> /\ k[3] = i
        BY <2>1
      <3>2. i <= i
        BY <1>1, IdOrdered, Zenon
      <3> QED BY <1>3, <1>6, <1>7, <2>1, <3>1, <3>2, SMTT(30)
    <2>2. CASE k # key
      <3> DEFINE s == <<k[1], k[2]>>
      <3>1. /\ k \in DOMAIN records /\ records[k] \in Record
            /\ k = <<k[1], k[2], k[3]>> /\ k[3] \in Id
        BY <1>4, <1>6, <2>2, SMTT(30) DEF IsMap
      <3>2. /\ s \in DOMAIN recordIndices /\ k[3] <= recordIndices[s]
            /\ GenKey(records[k]) = k
            /\ records[k].isLatest <=> k[3] = recordIndices[s]
            /\ recordIndices[s] \in Id
        BY <1>4, <3>1 DEF Stored, IsMap
      <3>3. CASE s # <<r, n>>
        <4>1. k # prev
          BY <3>3
        <4>2. records'[k] = records[k]
          BY <1>13, <3>1, <4>1, Zenon
        <4> QED BY <1>7, <3>2, <3>3, <4>2, Zenon
      <3>4. CASE s = <<r, n>>
        <4>1. i = recordIndices[<<r, n>>] + 1 /\ i > 1
          BY <1>1, <3>2, <3>4, SMTT(30) DEF Follows
        <4>2. k[3] < i /\ recordIndices'[s] = i /\ s \in DOMAIN recordIndices'
          <5>1. recordIndices'[s] = i /\ s \in DOMAIN recordIndices'
            BY <1>7, <3>4, Zenon
          <5>2. i = recordIndices[s] + 1
            BY <3>4, <4>1, Zenon
          <5> HIDE DEF s
          <5> QED BY <3>1, <3>2, <5>1, <5>2 DEF Id
        <4>3. GenKey(records'[k]) = k /\ records'[k].isLatest = FALSE
          <5>1. CASE k = prev
            <6>1. records'[k] = [records[k] EXCEPT !.isLatest = FALSE]
              BY <1>13, <3>1, <4>1, <5>1
            <6>2. /\ records'[k].registryId = records[k].registryId
                  /\ records'[k].recordId = records[k].recordId
                  /\ records'[k].index = records[k].index
                  /\ records'[k].isLatest = FALSE
              BY <3>1, <6>1, SMTT(30) DEF Record
            <6> QED BY <3>2, <6>2 DEF GenKey
          <5>2. CASE k # prev
            <6>1. records'[k] = records[k]
              BY <1>13, <3>1, <5>2, Zenon
            <6>2. k[1] = r /\ k[2] = n
              BY <3>4
            <6>3. k[3] # i - 1
              BY <3>1, <5>2, <6>2, SMTT(30)
            <6>4. k[3] # recordIndices[s]
              BY <3>2, <3>4, <4>1, <6>3 DEF Id
            <6>5. records[k].isLatest = FALSE
              BY <3>1, <3>2, <6>4, Zenon DEF Record
            <6> QED BY <3>2, <6>1, <6>5
          <5> QED BY <5>1, <5>2, Zenon
        <4>4. k[3] # i /\ k[3] <= i
          BY <1>1, <3>1, <4>2, SMTT(40) DEF Id
        <4> QED BY <4>2, <4>3, <4>4, SMTT(30)
      <3> QED BY <3>3, <3>4, Zenon
    <2> QED BY <2>1, <2>2
  <1>15. Stored(records)'
    <2>1. IsFiniteSet(DOMAIN records')
      BY <1>4, <1>6, FS_AddElement, ZenonT(30) DEF Stored
    <2> QED BY <1>14, <2>1, Zenon DEF Stored
  <1>16. Typed(records)'
    BY Zenon DEF Typed, TypeOK
  <1>17. \A k \in DOMAIN records : k \in DOMAIN records' /\ Later(records[k], records'[k])
    BY <1>6, <1>13, LaterForms, Zenon
  <1>18. Cardinality(DOMAIN registries') - Cardinality(DOMAIN registries) =
            registryCount' - registryCount
    <2>1. Cardinality(DOMAIN registries) \in Nat
      BY <1>4, FS_CardinalityType, Zenon DEF Counted
    <2> QED BY <1>2, <1>4, <2>1, SMTT(30)
  <1>19. AddOnlyStep
    BY <1>2, <1>17, <1>18, Zenon DEF AddOnlyStep, Later
  <1> QED BY <1>9, <1>12, <1>15, <1>16, <1>19 DEF Sound

\* Every message keeps a sound state sound, and is add-only.
LEMMA MessageSound ==
    ASSUME Sound(records), Next
    PROVE  Sound(records)' /\ AddOnlyStep
  <1>1. TypeOK
    BY TypedIsTypeOK DEF Sound
  <1>2. TypeOK'
    BY <1>1, TypeStep
  <1>3. ASSUME NEW granter, NEW grantee, NEW r, NEW c, NEW role,
               GrantRole(granter, grantee, r, c, role)
        PROVE  UNCHANGED <<registries, registryCount, recordVars>>
    BY <1>3 DEF GrantRole
  <1>4. ASSUME NEW revoker, NEW revokee, NEW r, NEW c, NEW role,
               RevokeRole(revoker, revokee, r, c, role)
        PROVE  UNCHANGED <<registries, registryCount, recordVars>>
    BY <1>4 DEF RevokeRole
  <1>5. ASSUME NEW authority, NEW newAdmin, UpdateParams(authority, newAdmin)
        PROVE  UNCHANGED <<registries, registryCount, recordVars>>
    BY <1>5 DEF UpdateParams
  <1>6. CASE UNCHANGED <<registries, registryCount, recordVars>>
    BY <1>2, <1>6, SoundUnchanged
  <1> QED
    BY <1>2, <1>3, <1>4, <1>5, <1>6, AddRegistrySound, AddRecordSound,
       UpdateRecordStatusSound, ZenonT(20) DEF Next

-----------------------------------------------------------------------------
(***************************************************************************)
(* The upgrade                                                             *)
(***************************************************************************)

\* A chain starts sound, or one migration away from it (app/app.go:1038-1050,
\* migrations/v2/store.go:11-52).
LEMMA UpgradeInitInv == UpgradeInit => UpgradeInv
  <1> SUFFICES ASSUME UpgradeInit
               PROVE  UpgradeInv
    OBVIOUS
  <1>1. CASE version = 2 /\ GenesisInit /\ registryIdByName = {}
    <2>1. PICK g : Accepted(g) /\ Loaded(g, records)
      BY <1>1, Zenon DEF GenesisInit, Accepted, Loaded
    <2> QED BY <1>1, <2>1, ImportSound DEF UpgradeInv
  <1>2. CASE version = 1 /\ ~ (version = 2 /\ GenesisInit /\ registryIdByName = {})
    <2>1. PICK g \in GenesisStates :
             /\ Validate(g)
             /\ Loaded(g, InitGenesis(g).records)
             /\ records = [key \in DOMAIN InitGenesis(g).records |->
                              [InitGenesis(g).records[key] EXCEPT !.registryId = 0]]
      BY <1>2, Zenon DEF UpgradeInit, Loaded
    <2> DEFINE recs == InitGenesis(g).records
    <2>2. Sound(recs)
      BY <2>1, ImportSound DEF Accepted
    <2> HIDE DEF recs
    <2>3. records = [key \in DOMAIN recs |-> [recs[key] EXCEPT !.registryId = 0]]
      BY <2>1 DEF recs
    <2>4. DOMAIN records = DOMAIN recs
      BY <2>3
    <2>5. ASSUME NEW key \in DOMAIN records
          PROVE  /\ Migrated(key) = recs[key]
                 /\ records[key] = [Migrated(key) EXCEPT !.registryId = 0]
      <3>1. recs[key] \in Record /\ key[1] = recs[key].registryId
        <4>1. recs[key] \in Record
          BY <2>2, <2>4 DEF Sound, Typed, IsMap
        <4>2. GenKey(recs[key]) = key
          BY <2>2, <2>4, Zenon DEF Sound, Stored
        <4> QED BY <4>1, <4>2 DEF GenKey
      <3>2. records[key] = [recs[key] EXCEPT !.registryId = 0]
        BY <2>3, <2>4
      <3>3. [records[key] EXCEPT !.registryId = key[1]] = recs[key]
        BY <3>1, <3>2, Zenon DEF Record
      <3> QED BY <3>2, <3>3, Zenon DEF Migrated
    <2>6. recs = [key \in DOMAIN recs |-> recs[key]]
      BY <2>2 DEF Sound, Typed, IsMap
    <2>7. Migration = recs
      BY <2>4, <2>5, <2>6, Zenon DEF Migration
    <2> QED BY <1>2, <2>2, <2>5, <2>7, Zenon DEF UpgradeInv
  <1>3. version = 1 \/ (version = 2 /\ GenesisInit /\ registryIdByName = {})
    BY DEF UpgradeInit
  <1> QED BY <1>1, <1>2, <1>3

\* The migration makes a v1 chain sound and changes of its records the registry id
\* only (migrations/v2/store.go:47-89).
LEMMA MigrateStoreInv ==
    ASSUME UpgradeInv, MigrateStore
    PROVE  /\ version = 1 /\ version' = 2
           /\ UpgradeInv'
           /\ DOMAIN records' = DOMAIN records
           /\ \A key \in DOMAIN records :
                 [records'[key] EXCEPT !.registryId = 0] = records[key]
  <1>1. version = 1 /\ version' = 2 /\ records' = Migration /\ registryIdByName' = {}
    BY DEF MigrateStore, Migration
  <1>2. /\ Sound(Migration)
        /\ \A key \in DOMAIN records : records[key] = [Migrated(key) EXCEPT !.registryId = 0]
    BY <1>1 DEF UpgradeInv
  <1>3. DOMAIN records' = DOMAIN records /\ \A key \in DOMAIN records : records'[key] = Migrated(key)
    BY <1>1 DEF Migration
  <1>4. UNCHANGED <<admin, registries, registryCount, recordIdByRegistryAndChecksum,
                    recordIdByChecksumAndRegistry, recordsCountByRegistry,
                    recordIndices, roleAdmins, roleMembers>>
    BY DEF MigrateStore, rbacVars
  <1> DEFINE m == Migration
  <1>5. Sound(m) /\ records' = m
    BY <1>1, <1>2
  <1> HIDE DEF m
  <1>6. Typed(records)' /\ Counted' /\ Indexed(records)' /\ Stored(records)'
    BY <1>4, <1>5, Zenon DEF Sound, Typed, Counted, Indexed, Stored
  <1>7. UpgradeInv'
    BY <1>1, <1>6 DEF UpgradeInv, Sound
  <1> QED BY <1>1, <1>2, <1>3, <1>7

\* Every step keeps the invariant and does to the records what it may.
LEMMA UpgradeStep ==
    ASSUME UpgradeInv, UpgradeNext
    PROVE  /\ UpgradeInv'
           /\ IF version' = version THEN AddOnlyStep
              ELSE /\ DOMAIN records' = DOMAIN records
                   /\ \A key \in DOMAIN records :
                         [records'[key] EXCEPT !.registryId = 0] = records[key]
  <1>1. CASE MigrateStore
    BY <1>1, MigrateStoreInv
  <1>2. CASE version = 2 /\ Next /\ UNCHANGED <<version, registryIdByName>>
    <2>1. Sound(records) /\ registryIdByName = {}
      BY <1>2 DEF UpgradeInv
    <2>2. Sound(records)' /\ AddOnlyStep
      BY <1>2, <2>1, MessageSound
    <2>3. UpgradeInv'
      BY <1>2, <2>1, <2>2 DEF UpgradeInv
    <2> QED BY <1>2, <2>2, <2>3
  <1> QED BY <1>1, <1>2 DEF UpgradeNext

\* A state that nothing changes keeps the invariant.
LEMMA UpgradeStutter == UpgradeInv /\ UNCHANGED upgradeVars => UpgradeInv'
  <1> SUFFICES ASSUME UpgradeInv, UNCHANGED upgradeVars
               PROVE  UpgradeInv'
    OBVIOUS
  <1>1. UNCHANGED <<admin, registries, registryCount, records,
                    recordIdByRegistryAndChecksum, recordIdByChecksumAndRegistry,
                    recordsCountByRegistry, recordIndices, roleAdmins, roleMembers,
                    version, registryIdByName>>
    BY DEF upgradeVars, vars, recordVars, rbacVars
  <1> QED BY <1>1, Zenon DEF UpgradeInv, Sound, Typed, Counted, Indexed, Stored,
             Migration, Migrated

\* UpgradeInv holds in every reachable state.
LEMMA UpgradeInvariant == UpgradeSpec => []UpgradeInv
  <1>1. UpgradeInv /\ [UpgradeNext]_upgradeVars => UpgradeInv'
    BY UpgradeStep, UpgradeStutter
  <1> QED BY <1>1, UpgradeInitInv, PTL DEF UpgradeSpec

\* Whatever genesis was accepted, before the upgrade and after it, the indexes lead to
\* stored versions, the counters cover every id in use, and the version an index leads
\* to is the one flagged latest (keeper/genesis.go:21-95, keeper/anchoring.go:17-140).
THEOREM GenesisConsistentAlways == UpgradeSpec => []GenesisConsistent
  <1>1. ASSUME NEW recs, Sound(recs), DOMAIN recs = DOMAIN records,
               \A key \in DOMAIN records : records[key].isLatest = recs[key].isLatest
        PROVE  GenesisConsistent
    <2>1. /\ registryCount \in Nat /\ DOMAIN registries \subseteq Id
          /\ \A id \in DOMAIN registries : id <= registryCount
          /\ DOMAIN recordsCountByRegistry = DOMAIN registries
      BY <1>1 DEF Sound, Typed, Counted, IsMap
    <2>2. DOMAIN registries \subseteq 1 .. registryCount
      BY <2>1 DEF Id
    <2>3. OneLatestVersion
      BY <1>1, Zenon DEF Sound, Stored, OneLatestVersion
    <2>4. \A s \in DOMAIN recordIndices :
             /\ s[2] <= recordsCountByRegistry[s[1]]
             /\ <<s[1], s[2], recordIndices[s]>> \in DOMAIN records
      BY <1>1, Zenon DEF Sound, Indexed
    <2>5. \A key \in DOMAIN records :
             /\ <<key[1], key[2]>> \in DOMAIN recordIndices
             /\ key[3] <= recordIndices[<<key[1], key[2]>>]
      BY <1>1, Zenon DEF Sound, Stored
    <2> QED BY <2>1, <2>2, <2>3, <2>4, <2>5, Zenon DEF GenesisConsistent
  <1>2. UpgradeInv => GenesisConsistent
    <2>1. CASE Sound(records)
      BY <1>1, <2>1, SMTT(30)
    <2>2. ASSUME Sound(Migration),
                 \A key \in DOMAIN records :
                    records[key] = [Migrated(key) EXCEPT !.registryId = 0]
          PROVE  GenesisConsistent
      <3> DEFINE m == Migration
      <3>1. DOMAIN m = DOMAIN records /\ \A key \in DOMAIN records : m[key] = Migrated(key)
        BY DEF Migration
      <3>2. \A key \in DOMAIN records : m[key] \in Record
        BY <2>2, <3>1 DEF Sound, Typed, IsMap
      <3>3. \A key \in DOMAIN records : records[key].isLatest = m[key].isLatest
        BY <2>2, <3>1, <3>2 DEF Record
      <3> HIDE DEF m
      <3>4. Sound(m)
        BY <2>2 DEF m
      <3> QED BY <1>1, <3>1, <3>3, <3>4
    <2> QED BY <2>1, <2>2, Zenon DEF UpgradeInv
  <1> QED BY <1>2, UpgradeInvariant, PTL

\* After the upgrade every version names its registry, the state can be exported, and
\* no name entry is left (migrations/v2/store.go:47-89).
THEOREM UpgradedAlwaysValid == UpgradeSpec => []UpgradedStateValid
  <1>1. ASSUME UpgradeInv, version = 2 PROVE Sound(records) /\ registryIdByName = {}
    BY <1>1 DEF UpgradeInv
  <1>2. UpgradeInv => UpgradedStateValid
    BY <1>1, ExportValidates, Zenon DEF UpgradedStateValid, Sound, Stored
  <1> QED BY <1>2, UpgradeInvariant, PTL

\* The migration changes of a record the registry id only, and every other step is
\* add-only, whatever holes the genesis had (migrations/v2/store.go:67-76).
THEOREM UpgradeAlwaysKeepsRecords == UpgradeSpec => UpgradeKeepsRecords
  <1> DEFINE Keeps == IF version' = version THEN AddOnlyStep
                      ELSE /\ DOMAIN records' = DOMAIN records
                           /\ \A key \in DOMAIN records :
                                 [records'[key] EXCEPT !.registryId = 0] = records[key]
  <1>1. UpgradeInv /\ [UpgradeNext]_upgradeVars => [Keeps]_upgradeVars
    BY UpgradeStep
  <1> QED BY <1>1, UpgradeInvariant, PTL DEF UpgradeSpec, UpgradeKeepsRecords
=============================================================================
