---------------------------- MODULE EvmReadProofs ---------------------------
(***************************************************************************)
(* What the contract reads back from the storage that the migration writes,*)
(* and the theorems about EvmLayout, for every state that a chain started  *)
(* from an accepted genesis can reach.                                     *)
(***************************************************************************)
EXTENDS EvmLayoutProofs, AnchoringGenesisProofs

-----------------------------------------------------------------------------
(***************************************************************************)
(* The migration                                                           *)
(***************************************************************************)

\* All writes, those of zeros included.
Written ==
    Registries \cup NamesOut \cup RecordCounts \cup RecordsOut \cup Latest \cup RecordIds \cup
       HeaderOut \cup Checksums \cup (RoleAdminsOut \cup RoleMembersOut)

AllWrites ==
    migrateRegistries \o migrateRecordCounts \o migrateRecords \o
       migrateLatestIndexes \o migrateRecordIDs \o migrateHeader \o
       migrateChecksumIndex \o migrateRoles

\* Each slot once.
LEMMA WrittenEmitted ==
    LayoutInv => Emits(AllWrites, Written)
  <1> SUFFICES ASSUME LayoutInv PROVE Emits(AllWrites, Written)
    OBVIOUS
  <1> DEFINE T1 == {"registries"}
             T2 == {"registriesByName"}
             T3 == {"recordCount"}
             T4 == {"records"}
             T5 == {"latestIndex"}
             T6 == {"recordIDByChecksum"}
             T7 == {"header"}
             T8 == {"registriesByChecksum"}
             T9 == {"roleAdmin"}
             T10 == {"roleMembers", "roleMemberCount"}
  <1>1. /\ Emits(migrateRegistries, Registries \cup NamesOut)
        /\ InTables(Registries \cup NamesOut, T1 \cup T2)
    <2> DEFINE ids == WalkIds(DOMAIN registries)
               s == Joined([i \in DOMAIN ids |-> registryWrites(ids[i], registries[ids[i]])])
               t == nameWrites(ByName(ids)[Len(ids)])
    <2>1. migrateRegistries = s \o t
      BY DEF migrateRegistries
    <2>2. Emits(s, Registries) /\ InTables(Registries, T1)
      BY RegistriesEmitted DEF LayoutInv
    <2>3. Emits(t, NamesOut) /\ InTables(NamesOut, T2)
      BY NamesEmitted DEF LayoutInv
    <2>4. T1 \cap T2 = {}
      OBVIOUS
    <2> HIDE DEF s, t, T1, T2
    <2> QED BY <2>1, <2>2, <2>3, <2>4, EmitsTables, Zenon
  <1>2. Emits(migrateRecordCounts, RecordCounts) /\ InTables(RecordCounts, T3)
    BY RecordCountsEmitted DEF LayoutInv
  <1>3. Emits(migrateRecords, RecordsOut) /\ InTables(RecordsOut, T4)
    BY RecordsEmitted DEF LayoutInv
  <1>4. Emits(migrateLatestIndexes, Latest) /\ InTables(Latest, T5)
    BY LatestEmitted DEF LayoutInv
  <1>5. Emits(migrateRecordIDs, RecordIds) /\ InTables(RecordIds, T6)
    BY RecordIdsEmitted DEF LayoutInv
  <1>6. Emits(migrateHeader, HeaderOut) /\ InTables(HeaderOut, T7)
    BY HeaderEmitted
  <1>7. Emits(migrateChecksumIndex, Checksums) /\ InTables(Checksums, T8)
    <2>1. DOMAIN recordIdByChecksumAndRegistry \subseteq Checksum \X Id
      BY DEF LayoutInv
    <2>2. IsFiniteSet(DOMAIN recordIdByChecksumAndRegistry)
      BY DEF LayoutInv
    <2> QED BY <2>1, <2>2, ChecksumIndexEmitted, SMTT(30)
  <1>8. /\ Emits(migrateRoles, RoleAdminsOut \cup RoleMembersOut)
        /\ InTables(RoleAdminsOut \cup RoleMembersOut, T9 \cup T10)
    <2> DEFINE roles == InSomeOrder(DOMAIN roleAdmins)
               s == [i \in DOMAIN roles |->
                        Write(<<"roleAdmin", roles[i]>>, Packed(roleAdmins[roles[i]]))]
    <2>1. migrateRoles = s \o migrateMembers
      BY DEF migrateRoles
    <2>2. Emits(s, RoleAdminsOut) /\ InTables(RoleAdminsOut, T9)
      BY RoleAdminsEmitted, SMTT(30) DEF LayoutInv
    <2>3. Emits(migrateMembers, RoleMembersOut) /\ InTables(RoleMembersOut, T10)
      BY RoleMembersEmitted, SMTT(30) DEF LayoutInv
    <2>4. T9 \cap T10 = {}
      OBVIOUS
    <2> HIDE DEF s, T9, T10
    <2> QED BY <2>1, <2>2, <2>3, <2>4, EmitsTables, Zenon
  <1>9. /\ (T1 \cup T2) \cap T3 = {}
        /\ (T1 \cup T2 \cup T3) \cap T4 = {}
        /\ (T1 \cup T2 \cup T3 \cup T4) \cap T5 = {}
        /\ (T1 \cup T2 \cup T3 \cup T4 \cup T5) \cap T6 = {}
        /\ (T1 \cup T2 \cup T3 \cup T4 \cup T5 \cup T6) \cap T7 = {}
        /\ (T1 \cup T2 \cup T3 \cup T4 \cup T5 \cup T6 \cup T7) \cap T8 = {}
        /\ (T1 \cup T2 \cup T3 \cup T4 \cup T5 \cup T6 \cup T7 \cup T8) \cap (T9 \cup T10) = {}
    OBVIOUS
  <1> HIDE DEF T1, T2, T3, T4, T5, T6, T7, T8, T9, T10
  <1> DEFINE A2 == Registries \cup NamesOut
             A3 == A2 \cup RecordCounts
             A4 == A3 \cup RecordsOut
             A5 == A4 \cup Latest
             A6 == A5 \cup RecordIds
             A7 == A6 \cup HeaderOut
             A8 == A7 \cup Checksums
             A9 == RoleAdminsOut \cup RoleMembersOut
             U2 == T1 \cup T2
             U3 == U2 \cup T3
             U4 == U3 \cup T4
             U5 == U4 \cup T5
             U6 == U5 \cup T6
             U7 == U6 \cup T7
             U8 == U7 \cup T8
             U9 == T9 \cup T10
             s3 == migrateRegistries \o migrateRecordCounts
             s4 == s3 \o migrateRecords
             s5 == s4 \o migrateLatestIndexes
             s6 == s5 \o migrateRecordIDs
             s7 == s6 \o migrateHeader
             s8 == s7 \o migrateChecksumIndex
  <1>10. AllWrites = s8 \o migrateRoles /\ Written = A8 \cup A9
    BY DEF AllWrites, Written
  <1>11. Emits(migrateRegistries, A2) /\ InTables(A2, U2) /\ U2 \cap T3 = {}
    BY <1>1, <1>9, SMTT(30)
  <1>12. Emits(migrateRoles, A9) /\ InTables(A9, U9) /\ U8 \cap U9 = {}
    BY <1>8, <1>9, SMTT(30)
  <1>13. /\ U3 \cap T4 = {} /\ U4 \cap T5 = {} /\ U5 \cap T6 = {}
         /\ U6 \cap T7 = {} /\ U7 \cap T8 = {}
    BY <1>9, SMTT(30)
  <1> HIDE DEF A2, U2, A9, U9
  <1>14. Emits(s3, A3) /\ InTables(A3, U3)
    BY <1>2, <1>11, EmitsTables, Zenon
  <1> HIDE DEF s3, A3, U3
  <1>15. Emits(s4, A4) /\ InTables(A4, U4)
    BY <1>3, <1>13, <1>14, EmitsTables, Zenon
  <1> HIDE DEF s4, A4, U4
  <1>16. Emits(s5, A5) /\ InTables(A5, U5)
    BY <1>4, <1>13, <1>15, EmitsTables, Zenon
  <1> HIDE DEF s5, A5, U5
  <1>17. Emits(s6, A6) /\ InTables(A6, U6)
    BY <1>5, <1>13, <1>16, EmitsTables, Zenon
  <1> HIDE DEF s6, A6, U6
  <1>18. Emits(s7, A7) /\ InTables(A7, U7)
    BY <1>6, <1>13, <1>17, EmitsTables, SMTT(30)
  <1> HIDE DEF s7, A7, U7
  <1>19. Emits(s8, A8) /\ InTables(A8, U8)
    BY <1>7, <1>13, <1>18, EmitsTables, Zenon
  <1> HIDE DEF s8, A8, U8
  <1>20. Emits(s8 \o migrateRoles, A8 \cup A9)
    BY <1>12, <1>19, EmitsTables, Zenon
  <1> QED BY <1>10, <1>20, SMTT(30)

\* What the migration emits.
Kept == {w \in Written : w.value # Word(0)}

\* Each slot once, and no zeros.
LEMMA MigrateEmits ==
    ASSUME LayoutInv
    PROVE  Emits(Migrate, Kept)
  <1>1. Migrate = skipZero(AllWrites)
    BY DEF Migrate, AllWrites
  <1>2. Emits(AllWrites, Written)
    BY WrittenEmitted
  <1>3. Emits(skipZero(AllWrites), {w \in Written : w.value # Word(0)})
    BY <1>2, EmitsNonZero, SMTT(30)
  <1> QED BY <1>1, <1>3 DEF Kept

\* SlotsWrittenOnce and DumpComplete, of any state with LayoutInv.
LEMMA DumpHeld ==
    LayoutInv => SlotsWrittenOnce /\ DumpComplete
  <1> SUFFICES ASSUME LayoutInv PROVE SlotsWrittenOnce /\ DumpComplete
    OBVIOUS
  <1>1. Emits(Migrate, Kept)
    BY MigrateEmits
  <1>2. SlotsWrittenOnce
    BY <1>1, SMTT(30) DEF Emits, SlotsWrittenOnce
  <1>3. Migrate \in Seq(Kept)
    BY <1>1 DEF Emits
  <1> DEFINE writes == Migrate
  <1>4. writes \in Seq(Kept)
    BY <1>3, SMTT(30)
  <1> HIDE DEF writes
  <1>5. \A fault \in 0 .. Len(DumpOf(writes, 0).out) :
           /\ DumpOf(writes, fault).err <=> fault # 0
           /\ ~ DumpOf(writes, fault).err => Loads(DumpOf(writes, fault).out, writes)
    BY <1>4, DumpLoads, SMTT(30)
  <1>6. DumpComplete
    BY <1>5, SMTT(30) DEF DumpComplete, writes
  <1> QED BY <1>2, <1>6, SMTT(30)

-----------------------------------------------------------------------------
(***************************************************************************)
(* Storage                                                                 *)
(***************************************************************************)

\* The storage holds every write, zeros by absence.
LEMMA ReadWritten ==
    ASSUME LayoutInv
    PROVE  /\ \A w \in Written : Read(Storage, w.slot) = w.value
           /\ \A slot : (\A w \in Written : w.slot # slot) => Read(Storage, slot) = Word(0)
  <1> DEFINE slots == {w.slot : w \in Kept}
             at == [slot \in slots |-> (CHOOSE w \in Kept : w.slot = slot).value]
  <1>1. \A v, w \in Written : v.slot = w.slot => v = w
    <2>1. Emits(AllWrites, Written)
      BY WrittenEmitted
    <2> QED BY <2>1, SMTT(30) DEF Emits
  <1>2. Storage = at
    <2>1. Emits(Migrate, Kept)
      BY MigrateEmits
    <2>2. Range(Migrate) = Kept
      BY <2>1, SMTT(30) DEF Emits, Range
    <2> QED BY <2>2, SMTT(30) DEF Storage
  <1>3. \A w \in Written : w \in Kept \/ w.value = Word(0)
    BY DEF Kept
  <1>4. Kept \subseteq Written
    BY DEF Kept
  <1>5. \A w \in Kept : at[w.slot] = w.value
    <2> SUFFICES ASSUME NEW w \in Kept PROVE at[w.slot] = w.value
      OBVIOUS
    <2> DEFINE v == CHOOSE u \in Kept : u.slot = w.slot
    <2>1. v \in Kept /\ v.slot = w.slot
      BY SMTT(30)
    <2>2. at[w.slot] = v.value
      BY SMTT(30)
    <2> HIDE DEF v, at
    <2> QED BY <1>1, <1>4, <2>1, <2>2, SMTT(30)
  <1>6. DOMAIN at = slots
    OBVIOUS
  <1> HIDE DEF at
  <1>7. \A w \in Written : w.slot \in slots => w \in Kept
    BY <1>1, <1>4, SMTT(30)
  <1>8. \A w \in Written : Read(Storage, w.slot) = w.value
    <2> SUFFICES ASSUME NEW w \in Written PROVE Read(Storage, w.slot) = w.value
      OBVIOUS
    <2>1. CASE w \in Kept
      <3>1. w.slot \in slots
        BY <2>1
      <3> QED BY <1>2, <1>5, <1>6, <2>1, <3>1, SMTT(30) DEF Read
    <2>2. CASE w \notin Kept
      <3>1. w.slot \notin slots /\ w.value = Word(0)
        BY <1>3, <1>7, <2>2, SMTT(30)
      <3> HIDE DEF slots
      <3> QED BY <1>2, <1>6, <3>1, SMTT(30) DEF Read
    <2> QED BY <2>1, <2>2, SMTT(30)
  <1>9. \A slot : (\A w \in Written : w.slot # slot) => Read(Storage, slot) = Word(0)
    <2> SUFFICES ASSUME NEW slot, \A w \in Written : w.slot # slot
                 PROVE  Read(Storage, slot) = Word(0)
      OBVIOUS
    <2>1. slot \notin slots
      BY <1>4, SMTT(30)
    <2> HIDE DEF slots
    <2> QED BY <1>2, <1>6, <2>1, SMTT(30) DEF Read
  <1> QED BY <1>8, <1>9, SMTT(30)

\* A list that was written is read back.
LEMMA ListRead ==
    ASSUME NEW storage, NEW table, NEW key, NEW list \in Seq(Nat),
           \A w \in IdsOut(table, key, list) : Read(storage, w.slot) = w.value
    PROVE  ReadIds(storage, table, key) = list
  <1> DEFINE N == Len(list)
             word(i) == (i - 1) \div IdsPerWord
             place(i) == ((i - 1) % IdsPerWord) + 1
  <1>1. Read(storage, <<table, key>>) = <<N>>
    <2> DEFINE w == Write(<<table, key>>, Word(N))
    <2>1. w \in IdsOut(table, key, list)
      BY DEF IdsOut
    <2>2. w.slot = <<table, key>> /\ w.value = <<N>>
      BY DEF Write, Word
    <2> HIDE DEF w
    <2> QED BY <2>1, <2>2, Zenon
  <1>2. ASSUME NEW i \in 1 .. N
        PROVE  IdAt(Read(storage, <<table, key, word(i)>>), place(i)) = list[i]
    <2> DEFINE v == word(i) + 1
               x == WordIds(list, v)
               w == Write(<<table, key, v - 1>>, Packed(x))
    <2>1. v \in 1 .. Words(list) /\ x[place(i)] = list[i]
      BY IdRead, SMTT(30)
    <2>2. w \in IdsOut(table, key, list)
      BY <2>1, Zenon DEF IdsOut
    <2>3. v - 1 = word(i)
      <3>1. word(i) \in Int
        BY LayoutAssumption
      <3> HIDE DEF word
      <3> QED BY <3>1
    <2>4. w.slot = <<table, key, word(i)>> /\ w.value = Packed(x)
      BY <2>3, SMTT(30) DEF Write
    <2> HIDE DEF w, x, v, word, place
    <2>5. Read(storage, <<table, key, word(i)>>) = Packed(x)
      BY <2>2, <2>4, SMTT(30)
    <2>6. IdAt(Packed(x), place(i)) = x[place(i)]
      BY DEF IdAt, Packed, Word
    <2> QED BY <2>1, <2>5, <2>6, SMTT(30)
  <1>3. ReadIds(storage, table, key)
           = [i \in 1 .. N |-> IdAt(Read(storage, <<table, key, word(i)>>), place(i))]
    BY <1>1, SMTT(30) DEF ReadIds
  <1> HIDE DEF word, place, N
  <1>4. [i \in 1 .. N |-> IdAt(Read(storage, <<table, key, word(i)>>), place(i))]
           = [i \in 1 .. N |-> list[i]]
    BY <1>2
  <1>5. list = [i \in 1 .. N |-> list[i]]
    BY DEF N
  <1> QED BY <1>3, <1>4, <1>5, SMTT(30)

\* A list that was not written reads as the empty one.
LEMMA NoListRead ==
    ASSUME NEW storage, NEW table, NEW key, Read(storage, <<table, key>>) = Word(0)
    PROVE  ReadIds(storage, table, key) = <<>>
  <1>1. Read(storage, <<table, key>>)[1] = 0
    BY DEF Word
  <1>2. 1 .. 0 = {}
    OBVIOUS
  <1> QED BY <1>1, <1>2, SMTT(30) DEF ReadIds

\* The writes of a table.
LEMMA WrittenTables ==
    ASSUME LayoutInv, NEW w \in Written
    PROVE  /\ w.slot[1] = "registriesByName" => w \in NamesOut
           /\ w.slot[1] = "registriesByChecksum" => w \in Checksums
           /\ w.slot[1] \in {"roleMembers", "roleMemberCount"} => w \in RoleMembersOut
  <1>1. InTables(Registries, {"registries"})
    BY RegistriesEmitted, Zenon DEF LayoutInv
  <1>2. InTables(NamesOut, {"registriesByName"})
    BY NamesEmitted DEF LayoutInv
  <1>3. InTables(RecordCounts, {"recordCount"})
    BY RecordCountsEmitted DEF LayoutInv
  <1>4. InTables(RecordsOut, {"records"})
    BY RecordsEmitted, SMTT(30) DEF LayoutInv
  <1>5. InTables(Latest, {"latestIndex"})
    BY LatestEmitted, SMTT(30) DEF LayoutInv
  <1>6. InTables(RecordIds, {"recordIDByChecksum"})
    BY RecordIdsEmitted, SMTT(30) DEF LayoutInv
  <1>7. InTables(HeaderOut, {"header"})
    BY HeaderEmitted, SMTT(30)
  <1>8. InTables(Checksums, {"registriesByChecksum"})
    <2>1. DOMAIN recordIdByChecksumAndRegistry \subseteq Checksum \X Id
      BY DEF LayoutInv
    <2>2. IsFiniteSet(DOMAIN recordIdByChecksumAndRegistry)
      BY DEF LayoutInv
    <2> QED BY <2>1, <2>2, ChecksumIndexEmitted, SMTT(30)
  <1>9. InTables(RoleAdminsOut, {"roleAdmin"})
    BY RoleAdminsEmitted, Zenon DEF LayoutInv
  <1>10. InTables(RoleMembersOut, {"roleMembers", "roleMemberCount"})
    BY RoleMembersEmitted DEF LayoutInv
  <1> QED
    BY <1>1, <1>2, <1>3, <1>4, <1>5, <1>6, <1>7, <1>8, <1>9, <1>10, SMTT(30) DEF InTables, Written

-----------------------------------------------------------------------------
(***************************************************************************)
(* What the contract reads back                                            *)
(***************************************************************************)

\* A walk over ids is a list of numbers.
LEMMA IdsTyped ==
    ASSUME NEW D, IsFiniteSet(D), D \subseteq Id
    PROVE  WalkIds(D) \in Seq(Nat)
  <1>1. Ascends(WalkIds(D), D)
    BY IdsWalked DEF Id
  <1>2. WalkIds(D) \in Seq(D)
    BY <1>1, SMTT(30) DEF Ascends
  <1>3. D \subseteq Nat
    BY DEF Id
  <1> QED BY <1>2, <1>3, SeqWider, Zenon

\* The registries of a checksum are read back.
LEMMA ChecksumsRead ==
    ASSUME LayoutInv, NEW c \in Checksum
    PROVE  ReadIds(Storage, "registriesByChecksum", c) =
              WalkIds({key[1] : key \in {k \in DOMAIN recordIdByRegistryAndChecksum : k[2] = c}})
  <1> DEFINE D == DOMAIN recordIdByRegistryAndChecksum
             E == DOMAIN recordIdByChecksumAndRegistry
             ids == {key[1] : key \in {k \in D : k[2] = c}}
             list == WalkIds(Of(E, c))
             storage == Storage
             table == "registriesByChecksum"
  <1>1. D \subseteq Id \X Checksum /\ E = {<<k[2], k[1]>> : k \in D} /\ IsFiniteSet(E)
    BY DEF LayoutInv
  <1>2. Of(E, c) = ids
    <2>1. \A x : x \in Of(E, c) <=> \E q \in E : q[1] = c /\ q[2] = x
      BY DEF Of
    <2>2. \A x : x \in ids <=> \E k \in D : k[2] = c /\ k[1] = x
      OBVIOUS
    <2> HIDE DEF D, E, ids
    <2>3. ASSUME NEW k \in D
          PROVE  /\ <<k[2], k[1]>> \in E
                 /\ <<k[2], k[1]>>[1] = k[2] /\ <<k[2], k[1]>>[2] = k[1]
      BY <1>1, SMTT(30)
    <2>4. \A q \in E : \E k \in D : q[1] = k[2] /\ q[2] = k[1]
      BY <1>1, SMTT(30)
    <2>5. ids \subseteq Of(E, c)
      <3> SUFFICES ASSUME NEW x \in ids PROVE x \in Of(E, c)
        OBVIOUS
      <3>1. PICK k \in D : k[2] = c /\ k[1] = x
        BY <2>2, SMTT(30)
      <3> QED BY <2>1, <2>3, <3>1, Zenon
    <2>6. Of(E, c) \subseteq ids
      <3> SUFFICES ASSUME NEW x \in Of(E, c) PROVE x \in ids
        OBVIOUS
      <3>1. PICK q \in E : q[1] = c /\ q[2] = x
        BY <2>1, SMTT(30)
      <3> QED BY <2>2, <2>4, <3>1, SMTT(30)
    <2> QED BY <2>5, <2>6, SMTT(30)
  <1>3. CASE c \in {k[1] : k \in E}
    <2>1. ChecksumOut(E, c) \subseteq Written
      BY <1>3 DEF Checksums, Written
    <2>2. \A w \in IdsOut(table, c, list) : Read(storage, w.slot) = w.value
      <3>1. \A w \in Written : Read(storage, w.slot) = w.value
        BY ReadWritten
      <3> QED BY <2>1, <3>1, SMTT(30) DEF ChecksumOut
    <2>3. list \in Seq(Nat)
      <3>1. IsFiniteSet(Of(E, c)) /\ Of(E, c) \subseteq Id
        <4>1. ids \subseteq Id
          BY <1>1
        <4> DEFINE f == [p \in E |-> p[2]]
        <4>2. Of(E, c) \subseteq {f[p] : p \in E}
          BY DEF Of
        <4> HIDE DEF E, f
        <4>3. IsFiniteSet({f[p] : p \in E})
          BY <1>1, FiniteValues, SMTT(30)
        <4>4. IsFiniteSet(Of(E, c))
          BY <4>2, <4>3, FS_Subset, SMTT(30)
        <4> QED BY <1>2, <4>1, <4>4, SMTT(30)
      <3> DEFINE S == Of(E, c)
      <3> HIDE DEF S
      <3>2. IsFiniteSet(S) /\ S \subseteq Id
        BY <3>1 DEF S
      <3>3. WalkIds(S) \in Seq(Nat)
        BY <3>2, IdsTyped, SMTT(30)
      <3> QED BY <3>3, SMTT(30) DEF S
    <2> HIDE DEF list, storage, table
    <2>4. ReadIds(storage, table, c) = list
      BY <2>2, <2>3, ListRead, SMTT(30)
    <2> QED BY <1>2, <2>4, SMTT(30) DEF list, storage, table
  <1>4. CASE c \notin {k[1] : k \in E}
    <2>1. Of(E, c) = {}
      BY <1>4 DEF Of
    <2>2. \A w \in Written : w.slot # <<table, c>>
      <3> SUFFICES ASSUME NEW w \in Written, w.slot = <<table, c>> PROVE FALSE
        OBVIOUS
      <3>1. w.slot[1] = "registriesByChecksum" /\ w.slot[2] = c
        OBVIOUS
      <3>2. w \in Checksums
        BY <3>1, WrittenTables, SMTT(30)
      <3>3. PICK d \in {k[1] : k \in E} : w \in ChecksumOut(E, d)
        BY <3>2, SMTT(30) DEF Checksums
      <3>4. w.slot[2] = d
        BY <3>3, IdsSlots, SMTT(30) DEF ChecksumOut
      <3> QED BY <1>4, <3>1, <3>3, <3>4, SMTT(30)
    <2>3. Read(storage, <<table, c>>) = Word(0)
      BY <2>2, ReadWritten, SMTT(30)
    <2> HIDE DEF storage, table
    <2>4. ReadIds(storage, table, c) = <<>>
      BY <2>3, NoListRead, SMTT(30)
    <2> QED BY <1>2, <2>1, <2>4, IdsNone, Zenon DEF storage, table
  <1> QED BY <1>3, <1>4, SMTT(30)

\* The registries of a name are read back.
LEMMA NamesRead ==
    ASSUME LayoutInv, NEW name
    PROVE  ReadIds(Storage, "registriesByName", name) =
              WalkIds({id \in DOMAIN registries : NameOf[id] = name})
  <1> DEFINE D == DOMAIN registries
             S == {id \in D : NameOf[id] = name}
             list == WalkIds(S)
             storage == Storage
             table == "registriesByName"
  <1>1. D \subseteq Id /\ IsFiniteSet(D)
    BY DEF LayoutInv
  <1>2. CASE name \in {NameOf[id] : id \in D}
    <2>1. NameOut(name) \subseteq Written
      BY <1>2 DEF NamesOut, Written
    <2>2. NameOut(name) = IdsOut(table, name, list)
      BY DEF NameOut, NameIds
    <2>3. \A w \in IdsOut(table, name, list) : Read(storage, w.slot) = w.value
      <3>1. \A w \in Written : Read(storage, w.slot) = w.value
        BY ReadWritten, SMTT(30)
      <3> HIDE DEF list, storage, table
      <3> QED BY <2>1, <2>2, <3>1, SMTT(30)
    <2>4. list \in Seq(Nat)
      <3>1. IsFiniteSet(S) /\ S \subseteq Id
        BY <1>1, FS_Subset, SMTT(30)
      <3> HIDE DEF S
      <3> QED BY <3>1, IdsTyped, SMTT(30)
    <2> HIDE DEF list, storage, table
    <2>5. ReadIds(storage, table, name) = list
      BY <2>3, <2>4, ListRead, SMTT(30)
    <2> QED BY <2>5, SMTT(30) DEF list, storage, table
  <1>3. CASE name \notin {NameOf[id] : id \in D}
    <2>1. S = {}
      BY <1>3
    <2>2. \A w \in Written : w.slot # <<table, name>>
      <3> SUFFICES ASSUME NEW w \in Written, w.slot = <<table, name>> PROVE FALSE
        OBVIOUS
      <3>1. w.slot[1] = "registriesByName" /\ w.slot[2] = name
        OBVIOUS
      <3>2. w \in NamesOut
        BY <3>1, WrittenTables, SMTT(30)
      <3>3. PICK d \in {NameOf[id] : id \in D} : w \in NameOut(d)
        BY <3>2, SMTT(30) DEF NamesOut
      <3>4. w.slot[2] = d
        BY <3>3, IdsSlots, SMTT(30) DEF NameOut
      <3> QED BY <1>3, <3>1, <3>3, <3>4, SMTT(30)
    <2>3. Read(storage, <<table, name>>) = Word(0)
      BY <2>2, ReadWritten, SMTT(30)
    <2> HIDE DEF storage, table
    <2>4. ReadIds(storage, table, name) = <<>>
      BY <2>3, NoListRead, SMTT(30)
    <2> QED BY <2>1, <2>4, IdsNone, SMTT(30) DEF storage, table
  <1> QED BY <1>2, <1>3, SMTT(30)

\* The members of a role, and their number, are read back.
LEMMA RolesRead ==
    ASSUME LayoutInv, NEW role
    PROVE  /\ \A a : Read(Storage, <<"roleMembers", role, a>>) = Word(1)
                       <=> <<role, a>> \in roleMembers
           /\ Read(Storage, <<"roleMemberCount", role>>) = Word(Cardinality(Members(role)))
  <1> DEFINE storage == Storage
             M == roleMembers
  <1>1. \A w \in Written : Read(storage, w.slot) = w.value
    BY ReadWritten
  <1>2. \A slot : (\A w \in Written : w.slot # slot) => Read(storage, slot) = Word(0)
    BY ReadWritten
  <1>3. RoleMembersOut \subseteq Written
    BY DEF Written
  <1>4. \A w \in RoleMembersOut : \/ \E p \in M : w = MemberWrite(p)
                                  \/ \E c \in {m[1] : m \in M} : w = CountWrite(M, c)
    BY DEF RoleMembersOut, MembersOut
  <1>5. \A p \in M : MemberWrite(p) \in RoleMembersOut
    BY DEF RoleMembersOut, MembersOut
  <1>6. \A c \in {m[1] : m \in M} : CountWrite(M, c) \in RoleMembersOut
    BY DEF RoleMembersOut, MembersOut
  <1>7. \A p \in M : /\ MemberWrite(p).slot = <<"roleMembers", p[1], p[2]>>
                    /\ MemberWrite(p).value = Word(1)
    BY DEF MemberWrite, Write
  <1>8. \A c : /\ CountWrite(M, c).slot = <<"roleMemberCount", c>>
               /\ CountWrite(M, c).value = Word(Cardinality(Of(M, c)))
    BY DEF CountWrite, Write
  <1>9. M \subseteq Role \X Addr
    BY DEF LayoutInv
  <1>10. Members(role) = Of(M, role)
    BY <1>9, SMTT(30) DEF Members, HasRole, Of
  <1> HIDE DEF storage
  <1>11. ASSUME NEW a
         PROVE  Read(storage, <<"roleMembers", role, a>>) = Word(1) <=> <<role, a>> \in M
    <2>1. CASE <<role, a>> \in M
      <3> DEFINE w == MemberWrite(<<role, a>>)
      <3>1. w \in Written
        BY <1>3, <1>5, <2>1, SMTT(30)
      <3>2. w.slot = <<"roleMembers", role, a>> /\ w.value = Word(1)
        BY <1>7, <2>1, SMTT(30)
      <3> HIDE DEF w
      <3> QED BY <1>1, <2>1, <3>1, <3>2, SMTT(30)
    <2>2. CASE <<role, a>> \notin M
      <3>1. \A w \in Written : w.slot # <<"roleMembers", role, a>>
        <4> SUFFICES ASSUME NEW w \in Written, w.slot = <<"roleMembers", role, a>> PROVE FALSE
          OBVIOUS
        <4>1. w \in RoleMembersOut
          BY WrittenTables, SMTT(30)
        <4>2. ASSUME NEW p \in M, w = MemberWrite(p) PROVE FALSE
          <5>1. p[1] = role /\ p[2] = a
            BY <1>7, <4>2, SMTT(30)
          <5>2. p = <<p[1], p[2]>>
            BY <1>9, SMTT(30)
          <5> QED BY <2>2, <5>1, <5>2, SMTT(30)
        <4>3. ASSUME NEW c, w = CountWrite(M, c) PROVE FALSE
          BY <1>8, <4>3, SMTT(30)
        <4> QED BY <1>4, <4>1, <4>2, <4>3, SMTT(30)
      <3>2. Read(storage, <<"roleMembers", role, a>>) = Word(0)
        BY <1>2, <3>1, SMTT(30)
      <3> QED BY <2>2, <3>2, SMTT(30) DEF Word
    <2> QED BY <2>1, <2>2, SMTT(30)
  <1>12. Read(storage, <<"roleMemberCount", role>>) = Word(Cardinality(Of(M, role)))
    <2>1. CASE role \in {m[1] : m \in M}
      <3> DEFINE w == CountWrite(M, role)
      <3>1. w \in Written
        BY <1>3, <1>6, <2>1, SMTT(30)
      <3>2. w.slot = <<"roleMemberCount", role>> /\ w.value = Word(Cardinality(Of(M, role)))
        BY <1>8
      <3> HIDE DEF w
      <3> QED BY <1>1, <3>1, <3>2, SMTT(30)
    <2>2. CASE role \notin {m[1] : m \in M}
      <3>1. \A w \in Written : w.slot # <<"roleMemberCount", role>>
        <4> SUFFICES ASSUME NEW w \in Written, w.slot = <<"roleMemberCount", role>> PROVE FALSE
          OBVIOUS
        <4>1. w \in RoleMembersOut
          BY WrittenTables, SMTT(30)
        <4>2. ASSUME NEW p \in M, w = MemberWrite(p) PROVE FALSE
          BY <1>7, <4>2, SMTT(30)
        <4>3. ASSUME NEW c \in {m[1] : m \in M}, w = CountWrite(M, c) PROVE FALSE
          <5>1. c = role
            BY <1>8, <4>3, SMTT(30)
          <5> QED BY <2>2, <5>1, SMTT(30)
        <4> QED BY <1>4, <4>1, <4>2, <4>3, SMTT(30)
      <3>2. Read(storage, <<"roleMemberCount", role>>) = Word(0)
        BY <1>2, <3>1, SMTT(30)
      <3>3. Of(M, role) = {}
        BY <2>2, SMTT(30) DEF Of
      <3> QED BY <3>2, <3>3, FS_EmptySet, SMTT(30)
    <2> QED BY <2>1, <2>2, SMTT(30)
  <1> QED BY <1>10, <1>11, <1>12, SMTT(30) DEF storage

\* ReadsBack, of any state with LayoutInv.
LEMMA ReadBack ==
    LayoutInv => ReadsBack
  <1> SUFFICES ASSUME LayoutInv PROVE ReadsBack
    OBVIOUS
  <1> DEFINE Holds(role, a) == Read(Storage, <<"roleMembers", role, a>>) = Word(1)
             count(role) == Read(Storage, <<"roleMemberCount", role>>)
  <1>1. \A c \in Checksum :
           ReadIds(Storage, "registriesByChecksum", c) =
              WalkIds({key[1] : key \in {k \in DOMAIN recordIdByRegistryAndChecksum : k[2] = c}})
    BY ChecksumsRead, SMTT(30)
  <1>2. \A name \in Range(NameOf) :
           ReadIds(Storage, "registriesByName", name) =
              WalkIds({id \in DOMAIN registries : NameOf[id] = name})
    BY NamesRead
  <1>3. ASSUME NEW role
        PROVE  /\ count(role) = Word(Cardinality({a \in Addr : Holds(role, a)}))
               /\ IsSoleAdmin(role) <=> count(role) = Word(1)
    <2>1. count(role) = Word(Cardinality(Members(role)))
      BY RolesRead, SMTT(30)
    <2>2. \A a : Holds(role, a) <=> <<role, a>> \in roleMembers
      BY RolesRead, Zenon
    <2> HIDE DEF Holds, count
    <2>3. {a \in Addr : Holds(role, a)} = Members(role)
      BY <2>2 DEF Members, HasRole
    <2>4. IsSoleAdmin(role) <=> count(role) = Word(1)
      BY <2>1 DEF IsSoleAdmin, Word
    <2> QED BY <2>1, <2>3, <2>4, SMTT(30)
  <1> HIDE DEF Holds, count
  <1>4. \A role \in {m[1] : m \in roleMembers} \cup DOMAIN roleAdmins :
           /\ count(role) = Word(Cardinality({a \in Addr : Holds(role, a)}))
           /\ IsSoleAdmin(role) <=> count(role) = Word(1)
    BY <1>3, SMTT(30)
  <1> QED BY <1>1, <1>2, <1>4, Zenon DEF ReadsBack, Holds, count

-----------------------------------------------------------------------------
(***************************************************************************)
(* The invariant of a chain                                                *)
(***************************************************************************)

\* Finitely many checksums and roles, and two checksum indexes with the same pairs.
Mirrored ==
    /\ IsFiniteSet(DOMAIN recordIdByRegistryAndChecksum)
    /\ DOMAIN recordIdByChecksumAndRegistry =
          {<<k[2], k[1]>> : k \in DOMAIN recordIdByRegistryAndChecksum}
    /\ IsFiniteSet(DOMAIN roleAdmins)
    /\ IsFiniteSet(roleMembers)

\* InitGenesis writes both indexes (keeper/genesis.go:62-77).
LEMMA MirroredInit ==
    ASSUME NEW g, Accepted(g), Loaded(g, records)
    PROVE  Mirrored
  <1> DEFINE S == {<<rec.registryId, rec.checksum>> : rec \in Listed(g)}
             f == [rec \in Listed(g) |-> <<rec.registryId, rec.checksum>>]
  <1>1. /\ roleAdmins = g.roleAdmins /\ roleMembers = g.roleMembers
        /\ recordIdByRegistryAndChecksum = [k \in S |-> LastRecordId(g.records, k[1], k[2])]
        /\ recordIdByChecksumAndRegistry =
              [k \in {<<s[2], s[1]>> : s \in S} |-> LastRecordId(g.records, k[2], k[1])]
    BY LoadedEntries, ZenonT(30)
  <1>2. IsFiniteSet(DOMAIN g.roleAdmins) /\ IsFiniteSet(g.roleMembers)
    BY GenesisAssumption DEF Accepted
  <1>3. IsFiniteSet(S)
    <2>1. IsFiniteSet(Listed(g))
      BY AcceptedRecords, SMTT(30)
    <2>2. S = {f[rec] : rec \in Listed(g)}
      BY SMTT(30)
    <2> HIDE DEF S, f
    <2>3. IsFiniteSet({f[rec] : rec \in Listed(g)})
      BY <2>1, FiniteValues, SMTT(30)
    <2> QED BY <2>2, <2>3, SMTT(30)
  <1> HIDE DEF S
  <1>4. /\ DOMAIN recordIdByRegistryAndChecksum = S
        /\ DOMAIN recordIdByChecksumAndRegistry = {<<s[2], s[1]>> : s \in S}
    BY <1>1
  <1> QED BY <1>1, <1>2, <1>3, <1>4, SMTT(30) DEF Mirrored

\* AddRecord writes a new checksum to both indexes or to neither
\* (keeper/anchoring.go:93-102).
LEMMA MirroredStep == Mirrored /\ [Next]_vars => Mirrored'
  <1> SUFFICES ASSUME Mirrored, [Next]_vars
               PROVE  Mirrored'
    OBVIOUS
  <1> DEFINE D == DOMAIN recordIdByRegistryAndChecksum
             E == DOMAIN recordIdByChecksumAndRegistry
             Same == UNCHANGED <<recordIdByRegistryAndChecksum, recordIdByChecksumAndRegistry>>
  <1>1. /\ IsFiniteSet(D) /\ E = {<<k[2], k[1]>> : k \in D}
        /\ IsFiniteSet(DOMAIN roleAdmins) /\ IsFiniteSet(roleMembers)
    BY DEF Mirrored
  <1>2. ASSUME NEW role, NEW value PROVE IsFiniteSet(DOMAIN Put(roleAdmins, role, value))
    <2>1. DOMAIN Put(roleAdmins, role, value) = DOMAIN roleAdmins \cup {role}
      BY SMTT(30) DEF Put
    <2> QED BY <1>1, <2>1, FS_AddElement, SMTT(30)
  <1>3. ASSUME NEW m PROVE IsFiniteSet(roleMembers \cup {m})
    BY <1>1, FS_AddElement, SMTT(30)
  <1>4. ASSUME NEW m PROVE IsFiniteSet(roleMembers \ {m})
    BY <1>1, FS_RemoveElement, SMTT(30)
  <1>5. ASSUME NEW sender, AddRegistry(sender)
        PROVE  Same /\ IsFiniteSet(DOMAIN roleAdmins') /\ IsFiniteSet(roleMembers')
    BY <1>2, <1>3, <1>5, ZenonT(30) DEF AddRegistry
  <1>6. ASSUME NEW sender, NEW r, NEW c, NEW status, AddRecord(sender, r, c, status)
        PROVE  Mirrored'
    <2>1. roleAdmins' = roleAdmins /\ roleMembers' = roleMembers
      BY <1>6, SMTT(30) DEF AddRecord, rbacVars
    <2>2. \/ Same
          \/ D' = D \cup {<<r, c>>} /\ E' = E \cup {<<c, r>>}
      BY <1>6, SMTT(30) DEF AddRecord, IndexChecksum, Put
    <2>3. CASE Same
      BY <1>1, <2>1, <2>3, SMTT(30) DEF Mirrored
    <2>4. CASE D' = D \cup {<<r, c>>} /\ E' = E \cup {<<c, r>>}
      <3> DEFINE k0 == <<r, c>>
      <3>1. <<k0[2], k0[1]>> = <<c, r>>
        OBVIOUS
      <3>2. IsFiniteSet(D \cup {k0})
        BY <1>1, FS_AddElement, Zenon
      <3>3. D' = D \cup {k0} /\ E' = E \cup {<<k0[2], k0[1]>>}
        BY <2>4, <3>1
      <3> HIDE DEF k0
      <3>4. E \cup {<<k0[2], k0[1]>>} = {<<k[2], k[1]>> : k \in D \cup {k0}}
        BY <1>1, SMTT(30)
      <3> QED BY <1>1, <2>1, <3>2, <3>3, <3>4, SMTT(30) DEF Mirrored
    <2> QED BY <2>2, <2>3, <2>4
  <1>7. ASSUME NEW sender, NEW r, NEW n, NEW i, NEW status,
               UpdateRecordStatus(sender, r, n, i, status)
        PROVE  Same /\ UNCHANGED <<roleAdmins, roleMembers>>
    BY <1>7, SMTT(30) DEF UpdateRecordStatus, rbacVars
  <1>8. ASSUME NEW granter, NEW grantee, NEW r, NEW c, NEW role,
               GrantRole(granter, grantee, r, c, role)
        PROVE  Same /\ IsFiniteSet(DOMAIN roleAdmins') /\ IsFiniteSet(roleMembers')
    BY <1>2, <1>3, <1>8, Zenon DEF GrantRole, recordVars
  <1>9. ASSUME NEW revoker, NEW revokee, NEW r, NEW c, NEW role,
               RevokeRole(revoker, revokee, r, c, role)
        PROVE  Same /\ IsFiniteSet(DOMAIN roleAdmins') /\ IsFiniteSet(roleMembers')
    BY <1>1, <1>4, <1>9, Zenon DEF RevokeRole, recordVars
  <1>10. ASSUME NEW authority, NEW newAdmin, UpdateParams(authority, newAdmin)
         PROVE  Same /\ UNCHANGED <<roleAdmins, roleMembers>>
    BY <1>10 DEF UpdateParams, recordVars, rbacVars
  <1>11. ASSUME UNCHANGED vars PROVE Same /\ UNCHANGED <<roleAdmins, roleMembers>>
    BY <1>11, SMTT(30) DEF vars, recordVars, rbacVars
  <1>12. ASSUME Same, IsFiniteSet(DOMAIN roleAdmins'), IsFiniteSet(roleMembers')
         PROVE  Mirrored'
    BY <1>1, <1>12, SMTT(30) DEF Mirrored
  <1>13. ASSUME Same, UNCHANGED <<roleAdmins, roleMembers>>
         PROVE  Mirrored'
    BY <1>1, <1>13, SMTT(30) DEF Mirrored
  <1> HIDE DEF Same
  <1> QED
    BY <1>5, <1>6, <1>7, <1>8, <1>9, <1>10, <1>11, <1>12, <1>13, ZenonT(20) DEF Next

\* A sound state has all that the layout needs.
LEMMA SoundLayout ==
    ASSUME Sound(records), Mirrored
    PROVE  LayoutInv
  <1> DEFINE D == DOMAIN recordIdByRegistryAndChecksum
             I == DOMAIN recordIndices
             R == DOMAIN records
  <1>1. /\ registryCount \in Nat /\ DOMAIN registries \subseteq Id
        /\ DOMAIN recordsCountByRegistry \subseteq Id /\ R \subseteq Id \X Id \X Id
        /\ I \subseteq Id \X Id /\ D \subseteq Id \X Checksum
        /\ roleMembers \subseteq Role \X Addr
    BY DEF Sound, Typed, IsMap
  <1>2. IsFiniteSet(DOMAIN registries) /\ DOMAIN recordsCountByRegistry = DOMAIN registries
    BY SMTT(30) DEF Sound, Counted
  <1>3. IsFiniteSet(R)
    BY SMTT(30) DEF Sound, Stored
  <1>4. IsFiniteSet(I)
    <2> DEFINE f == [key \in R |-> <<key[1], key[2]>>]
    <2>1. \A s \in I : <<s[1], s[2], recordIndices[s]>> \in R
      BY SMTT(30) DEF Sound, Indexed
    <2>2. \A s \in I : s = <<s[1], s[2]>>
      BY <1>1, SMTT(30)
    <2>3. \A s \in I : s = f[<<s[1], s[2], recordIndices[s]>>]
      BY <2>1, <2>2, SMTT(30)
    <2> HIDE DEF f, I, R
    <2>4. I \subseteq {f[key] : key \in R}
      BY <2>1, <2>3, Zenon
    <2>5. IsFiniteSet({f[key] : key \in R})
      BY <1>3, FiniteValues
    <2> QED BY <2>4, <2>5, FS_Subset, SMTT(30)
  <1>5. IsFiniteSet(D) /\ DOMAIN recordIdByChecksumAndRegistry = {<<k[2], k[1]>> : k \in D}
    BY DEF Mirrored
  <1>6. IsFiniteSet({<<k[2], k[1]>> : k \in D})
    <2> DEFINE f == [k \in D |-> <<k[2], k[1]>>]
    <2>1. {<<k[2], k[1]>> : k \in D} = {f[k] : k \in D}
      OBVIOUS
    <2> HIDE DEF f, D
    <2>2. IsFiniteSet({f[k] : k \in D})
      BY <1>5, FiniteValues
    <2> QED BY <2>1, <2>2, Zenon
  <1>7. IsFiniteSet(DOMAIN roleAdmins) /\ IsFiniteSet(roleMembers)
    BY DEF Mirrored
  <1> QED BY <1>1, <1>2, <1>3, <1>4, <1>5, <1>6, <1>7, ZenonT(30) DEF LayoutInv

\* A chain from any accepted genesis has it in every state.
LEMMA LayoutAlways == GenesisSpec => []LayoutInv
  <1> DEFINE Inv == Sound(records) /\ Mirrored
  <1>1. GenesisInit => Inv
    <2> SUFFICES ASSUME GenesisInit PROVE Inv
      OBVIOUS
    <2>1. PICK g : Accepted(g) /\ Loaded(g, records)
      BY Zenon DEF GenesisInit, Accepted, Loaded
    <2> QED BY <2>1, ImportSound, MirroredInit, SMTT(30)
  <1>2. Inv /\ [Next]_vars => Inv'
    <2> SUFFICES ASSUME Inv, [Next]_vars PROVE Inv'
      BY SMTT(30)
    <2>1. Mirrored'
      BY MirroredStep, SMTT(30)
    <2>2. CASE Next
      BY <2>1, <2>2, MessageSound, SMTT(30)
    <2>3. CASE UNCHANGED vars
      <3>1. UNCHANGED <<admin, registries, registryCount, records,
                        recordIdByRegistryAndChecksum, recordIdByChecksumAndRegistry,
                        recordsCountByRegistry, recordIndices, roleAdmins, roleMembers>>
        BY <2>3, SMTT(30) DEF vars, recordVars, rbacVars
      <3>2. Sound(records)'
        BY <3>1, ZenonT(30) DEF Sound, Typed, Counted, Indexed, Stored
      <3> QED BY <2>1, <3>2, SMTT(30)
    <2> QED BY <2>2, <2>3, SMTT(30)
  <1>3. Inv => LayoutInv
    BY SoundLayout, SMTT(30)
  <1> QED BY <1>1, <1>2, <1>3, PTL DEF GenesisSpec

-----------------------------------------------------------------------------
(***************************************************************************)
(* Theorems                                                                *)
(***************************************************************************)

\* The dump has one meaning: the migration of a chain writes no slot twice, whatever
\* genesis it started from and whatever messages it executed
\* (evmlayout/migrate.go:20-42).
THEOREM SlotsAlwaysWrittenOnce == GenesisSpec => []SlotsWrittenOnce
  BY LayoutAlways, DumpHeld, PTL

\* A dump that was closed without an error is complete, for every size of block and at
\* whichever write the file fails (evmlayout/dump.go:39-72).
THEOREM DumpAlwaysComplete == GenesisSpec => []DumpComplete
  BY LayoutAlways, DumpHeld, PTL

\* The migration refuses the chains with a hole in their registry ids, and only them
\* (evmlayout/migrate.go:57-81).
THEOREM GapsAlwaysRefused == GenesisSpec => []GapsRefused
  <1>1. LayoutInv => GapsRefused
    BY GapsFound, SMTT(30) DEF LayoutInv
  <1> QED BY <1>1, LayoutAlways, PTL

\* The contract reads back the registries of each checksum and of each name, and the
\* members of each role with their number, however many ids fit in a word
\* (evmlayout/migrate.go:82-88, 155-232, evmlayout/layout.go:143-157).
THEOREM AlwaysReadsBack == GenesisSpec => []ReadsBack
  BY LayoutAlways, ReadBack, PTL
=============================================================================
