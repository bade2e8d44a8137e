------------------------------- MODULE EvmLayout -------------------------------
(***************************************************************************)
(* x/anchoring/evmlayout: the module's state written as the storage of the *)
(* anchoring contract, one (slot, value) pair at a time.                   *)
(*                                                                         *)
(* A slot is the path that the code hashes: keccak is injective here.  A   *)
(* string is one value: how Solidity packs its bytes is left out.          *)
(***************************************************************************)
EXTENDS AnchoringGenesis, EvmDump

CONSTANTS
    NameOf,         \* registryId => the registry's name, ASCII-folded
    IdsPerWord      \* uint64 ids in a storage word; 4 in the code

ASSUME LayoutAssumption ==
    /\ RegistryIds \subseteq DOMAIN NameOf
    /\ IdsPerWord \in Nat \ {0}

Write(slot, value) == [slot |-> slot, value |-> value]

\* A storage word that holds a number, and one that holds anything else.
Word(n) == <<n>>
Packed(x) == <<"packed", x>>

-----------------------------------------------------------------------------
(***************************************************************************)
(* Walks: a collection is visited in the byte order of its keys            *)
(***************************************************************************)

KeyLess(a, b) == \E i \in DOMAIN a : a[i] < b[i] /\ \A j \in 1 .. i - 1 : a[j] = b[j]

\* The keys in the order of their codes, which are tuples of numbers.
Walk(keys, code) ==
    [i \in 1 .. Cardinality(keys) |->
        CHOOSE key \in keys :
           Cardinality({k \in keys : KeyLess(code[k], code[key])}) = i - 1]

WalkIds(ids) == Walk(ids, [id \in ids |-> <<id>>])

WalkTuples(keys) == Walk(keys, [key \in keys |-> key])

\* Some order of the strings or hashes of a set, and their numbers in it.
WithoutFirst(S) == S \ {CHOOSE x \in S : TRUE}

Left(S) ==
    LET left[n \in 0 .. Cardinality(S)] == IF n = 0 THEN S ELSE WithoutFirst(left[n - 1])
    IN  left

InSomeOrder(S) == [i \in 1 .. Cardinality(S) |-> CHOOSE x \in Left(S)[i - 1] : TRUE]

Position(S) == LET seq == InSomeOrder(S) IN [x \in S |-> CHOOSE i \in DOMAIN seq : seq[i] = x]

\* Pairs of a number and a string, of a string and a number, and of two strings
\* or hashes.
WalkIdStrings(pairs) ==
    LET second == Position({p[2] : p \in pairs})
    IN  Walk(pairs, [p \in pairs |-> <<p[1], second[p[2]]>>])

WalkStringIds(pairs) ==
    LET first == Position({p[1] : p \in pairs})
    IN  Walk(pairs, [p \in pairs |-> <<first[p[1]], p[2]>>])

WalkStrings(pairs) ==
    LET first == Position({p[1] : p \in pairs})
        second == Position({p[2] : p \in pairs})
    IN  Walk(pairs, [p \in pairs |-> <<first[p[1]], second[p[2]]>>])

-----------------------------------------------------------------------------
(***************************************************************************)
(* The layout                                                              *)
(***************************************************************************)

registryWrites(id, registry) ==
    <<Write(<<"registries", id, "id">>, Word(registry.id)),
      Write(<<"registries", id, "name">>, Packed(NameOf[id])),
      Write(<<"registries", id, "creator">>, Packed(registry.creator))>>

packRecord(rec) == Packed(<<rec.recordId, rec.index, rec.isLatest, rec.registryId>>)

recordWrites(key, rec) ==
    <<Write(<<"records", key, "checksum">>, Packed(rec.checksum)),
      Write(<<"records", key, "status">>, Packed(rec.status)),
      Write(<<"records", key, "packed">>, packRecord(rec))>>

\* The length, then the ids, IdsPerWord to a word.
idsWrites(table, key, list) ==
    <<Write(<<table, key>>, Word(Len(list)))>> \o
       [w \in 1 .. (Len(list) + IdsPerWord - 1) \div IdsPerWord |->
           Write(<<table, key, w - 1>>,
                 Packed(SubSeq(list, (w - 1) * IdsPerWord + 1,
                               Min({w * IdsPerWord, Len(list)}))))]

-----------------------------------------------------------------------------
(***************************************************************************)
(* The steps of Migrate: the writes in order                               *)
(***************************************************************************)

\* A registry's id is appended to the ids of its name.
appendName(byName, id) ==
    Put(byName, NameOf[id],
        Append(IF NameOf[id] \in DOMAIN byName THEN byName[NameOf[id]] ELSE <<>>, id))

ByName(ids) ==
    LET byName[n \in 0 .. Len(ids)] ==
            IF n = 0 THEN EmptyMap ELSE appendName(byName[n - 1], ids[n])
    IN  byName

\* The ids of each name, in some order of the names.
nameWrites(byName) ==
    LET names == InSomeOrder(DOMAIN byName)
    IN  Joined([i \in DOMAIN names |->
                   idsWrites("registriesByName", names[i], byName[names[i]])])

\* Registries, then the name index.
migrateRegistries ==
    LET ids == WalkIds(DOMAIN registries)
    IN  Joined([i \in DOMAIN ids |-> registryWrites(ids[i], registries[ids[i]])]) \o
        nameWrites(ByName(ids)[Len(ids)])

\* A walk that does not look for gaps.
migrateRegistriesRefusesCount ==
    LET ids == WalkIds(DOMAIN registries)
    IN  registryCount # IF ids = <<>> THEN 0 ELSE ids[Len(ids)]

\* An id that does not follow the previous one stops the walk; then the count
\* has to be the last id.
migrateRegistriesRefuses ==
    LET ids == WalkIds(DOMAIN registries)
        previous(i) == IF i = 1 THEN 0 ELSE ids[i - 1]
    IN  \/ \E i \in DOMAIN ids : ids[i] # previous(i) + 1
        \/ registryCount # previous(Len(ids) + 1)

migrateRecordCounts ==
    LET ids == WalkIds(DOMAIN recordsCountByRegistry)
    IN  [i \in DOMAIN ids |->
            Write(<<"recordCount", ids[i]>>, Word(recordsCountByRegistry[ids[i]]))]

migrateRecords ==
    LET keys == WalkTuples(DOMAIN records)
    IN  Joined([i \in DOMAIN keys |-> recordWrites(keys[i], records[keys[i]])])

migrateLatestIndexes ==
    LET keys == WalkTuples(DOMAIN recordIndices)
    IN  [i \in DOMAIN keys |->
            Write(<<"latestIndex", keys[i][1], keys[i][2]>>, Word(recordIndices[keys[i]]))]

migrateRecordIDs ==
    LET keys == WalkIdStrings(DOMAIN recordIdByRegistryAndChecksum)
    IN  [i \in DOMAIN keys |->
            Write(<<"recordIDByChecksum", keys[i][1], keys[i][2]>>,
                  Word(recordIdByRegistryAndChecksum[keys[i]]))]

migrateHeader == <<Write(<<"header">>, Packed(<<admin, registryCount>>))>>

\* Empty lists are not written.
flush(checksum, list) ==
    IF list = <<>> THEN <<>> ELSE idsWrites("registriesByChecksum", checksum, list)

\* The checksum's registries are collected until the checksum changes.
visitChecksum(acc, key) ==
    IF key[1] # acc.current
    THEN [current |-> key[1], registries |-> <<key[2]>>,
          out |-> acc.out \o flush(acc.current, acc.registries)]
    ELSE [acc EXCEPT !.registries = Append(@, key[2])]

ChecksumsVisited(walk) ==
    LET visited[n \in 0 .. Len(walk)] ==
            IF n = 0 THEN [current |-> NoChecksum, registries |-> <<>>, out |-> <<>>]
            ELSE visitChecksum(visited[n - 1], walk[n])
    IN  visited

\* A list for every key of the walk.
migrateChecksumIndexEach ==
    LET walk == WalkStringIds(DOMAIN recordIdByChecksumAndRegistry)
    IN  Joined([i \in DOMAIN walk |-> flush(walk[i][1], <<walk[i][2]>>)])

\* The last group is written after the walk.
migrateChecksumIndex ==
    LET walk == WalkStringIds(DOMAIN recordIdByChecksumAndRegistry)
        last == ChecksumsVisited(walk)[Len(walk)]
    IN  last.out \o flush(last.current, last.registries)

flushCount(role, members) ==
    IF members = 0 THEN <<>> ELSE <<Write(<<"roleMemberCount", role>>, Word(members))>>

NoRole == RegistryRole(0, RoleAdmin)

\* The count of a role's members is not started again with the next role.
visitMemberNoReset(acc, key) ==
    [current |-> key[1],
     members |-> acc.members + 1,
     out |-> acc.out \o
             (IF key[1] # acc.current THEN flushCount(acc.current, acc.members) ELSE <<>>) \o
             <<Write(<<"roleMembers", key[1], key[2]>>, Word(1))>>]

visitMember(acc, key) ==
    [current |-> key[1],
     members |-> (IF key[1] # acc.current THEN 0 ELSE acc.members) + 1,
     out |-> acc.out \o
             (IF key[1] # acc.current THEN flushCount(acc.current, acc.members) ELSE <<>>) \o
             <<Write(<<"roleMembers", key[1], key[2]>>, Word(1))>>]

MembersVisited(walk) ==
    LET visited[n \in 0 .. Len(walk)] ==
            IF n = 0 THEN [current |-> NoRole, members |-> 0, out |-> <<>>]
            ELSE visitMember(visited[n - 1], walk[n])
    IN  visited

migrateMembers ==
    LET walk == WalkStrings(roleMembers)
        last == MembersVisited(walk)[Len(walk)]
    IN  last.out \o flushCount(last.current, last.members)

migrateRoles ==
    LET roles == InSomeOrder(DOMAIN roleAdmins)
    IN  [i \in DOMAIN roles |->
            Write(<<"roleAdmin", roles[i]>>, Packed(roleAdmins[roles[i]]))] \o migrateMembers

\* Zero values are dropped.
emit(out, write) == IF write.value = Word(0) THEN out ELSE Append(out, write)

Emitted(writes) ==
    LET out[n \in 0 .. Len(writes)] ==
            IF n = 0 THEN <<>> ELSE emit(out[n - 1], writes[n])
    IN  out

skipZero(writes) == Emitted(writes)[Len(writes)]

Migrate ==
    skipZero(migrateRegistries \o migrateRecordCounts \o migrateRecords \o
             migrateLatestIndexes \o migrateRecordIDs \o migrateHeader \o
             migrateChecksumIndex \o migrateRoles)

-----------------------------------------------------------------------------
(***************************************************************************)
(* Properties                                                              *)
(***************************************************************************)

\* The contract's storage; a slot that was never written reads as zero.
Storage ==
    LET writes == Range(Migrate)
    IN  [slot \in {w.slot : w \in writes} |->
            (CHOOSE w \in writes : w.slot = slot).value]

Read(storage, slot) == IF slot \in DOMAIN storage THEN storage[slot] ELSE Word(0)

\* An id of a packed word.
IdAt(word, i) == IF word = Word(0) THEN 0 ELSE word[2][i]

\* The list of ids the contract reads back from an array.
ReadIds(storage, table, key) ==
    [i \in 1 .. Read(storage, <<table, key>>)[1] |->
        IdAt(Read(storage, <<table, key, (i - 1) \div IdsPerWord>>),
             ((i - 1) % IdsPerWord) + 1)]

\* Each slot is written once, so that the dump, whose loader takes the pairs in
\* any order, has one meaning (evmlayout/migrate.go:20-42).
SlotsWrittenOnce ==
    LET writes == Migrate
    IN  \A i, j \in DOMAIN writes : writes[i].slot = writes[j].slot => i = j

\* A chain whose genesis left a hole in the registry ids is refused, and no
\* other is: the contract pages registries by arithmetic
\* (evmlayout/migrate.go:57-81).
GapsRefused == migrateRegistriesRefuses <=> DOMAIN registries # 1 .. registryCount

\* The contract reads back what the chain held: the ids of the registries that
\* hold a checksum, or bear a name, complete and in ascending order, however many
\* fit in a word; and the member counts that only the contract keeps agree with
\* the members it is given, so its last-admin check decides as IsSoleAdmin did
\* (evmlayout/migrate.go:82-88, 155-232, evmlayout/layout.go:143-157,
\* rbac/keeper.go:48-62).
ReadsBack ==
    LET storage == Storage
        Holds(role, a) == Read(storage, <<"roleMembers", role, a>>) = Word(1)
        count(role) == Read(storage, <<"roleMemberCount", role>>)
    IN  /\ \A c \in Checksum :
              ReadIds(storage, "registriesByChecksum", c) =
                 WalkIds({key[1] : key \in {k \in DOMAIN recordIdByRegistryAndChecksum :
                                               k[2] = c}})
        /\ \A name \in Range(NameOf) :
              ReadIds(storage, "registriesByName", name) =
                 WalkIds({id \in DOMAIN registries : NameOf[id] = name})
        /\ \A role \in {m[1] : m \in roleMembers} \cup DOMAIN roleAdmins :
              /\ count(role) = Word(Cardinality({a \in Addr : Holds(role, a)}))
              /\ IsSoleAdmin(role) <=> count(role) = Word(1)

\* A dump that was closed without an error holds every write of the migration
\* once and in order, whether or not the last block is full, and a dump that hit
\* a failing write is never taken for one (evmlayout/dump.go:39-72,
\* evmlayout/migrate.go:20-42).
DumpComplete ==
    LET writes == Migrate
        chunks == Len(DumpOf(writes, 0).out)
    IN  \A fault \in 0 .. chunks :
           LET dump == DumpOf(writes, fault)
           IN  /\ dump.err <=> fault # 0
               /\ ~ dump.err => Loads(dump.out, writes)
=============================================================================
