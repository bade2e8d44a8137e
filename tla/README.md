# A TLA+ model of nvnmchain

nvnmchain is a Cosmos SDK consumer chain with an EVM. This directory models the
parts of it that are the chain's own: the anchoring module `x/anchoring`
(registries of versioned records with role-based access control, its genesis and
upgrade, its queries, its off-chain name index, its EVM precompile and its export
to contract storage) and the tax module `x/tax` with the fee distribution around
it. Paths in comments and below are relative to the repository root, or to
`x/anchoring/` where that is clear.

## 1. The system and its hard behaviours

| Part | State | Operations | Interacts with |
| --- | --- | --- | --- |
| Keeper and messages (`keeper/anchoring.go`, `keeper/msg_server.go`) | Params.admin, Registries, RegistryCount, Records, two checksum indexes, RecordsCountByRegistry, RecordIndices | AddRegistry, AddRecord, UpdateRecordStatus, GrantRole, RevokeRole, UpdateParams | RBAC, genesis, precompile |
| RBAC (`rbac/`) | role admins, role members | GrantRole, RevokeRole, SetRoleAdmin, IsSoleAdmin | every message |
| Genesis (`keeper/genesis.go`, `types/genesis.go`) | the genesis file | Validate, InitGenesis, ExportGenesis | rebuilds all counters and indexes |
| Upgrade (`migrations/v2/store.go`) | v1 records without a registry id, the retired name index | Migrate1to2 | runs in the upgrade block |
| Queries (`keeper/query.go`) | none; a paging client's offset or key | Records, Registries, SearchRegistriesByName | keeper, name index |
| Name index (`nameindex/`, `keeper/nameindex_backfill.go`) | a SQLite file per node | ListenCommit, BackfillNameIndex, Search | block commit, node start |
| Precompile (`precompile/`, `precompiles/common.go`) | the EVM transaction: frames, journal, logs | Execute, registriesByName | keeper, state database |
| Contract storage (`evmlayout/`) | slots, a dump file of blocks | Migrate, Put, Close | reads all collections |
| Generated codecs (`types/*.pb.go`, `precompile/anchoring.abi.go`, `precompiles/common.abi.go`) | none; data in transit | Marshal, Size, Unmarshal; EncodedSize, EncodeTo, Decode; selectors | store, transactions, queries, EVM calls |
| `x/tax` and the fee flow (`x/tax/`, `app/app.go`) | tax params, balances | UpdateParams, AllocateTax, the send restriction, EndBlock order | bank, CCV consumer, IBC transfer |

What is hard to test here: sequences of grants and revocations by several
accounts; seven store entries that one AddRecord keeps consistent; counters that
are maintained step by step but rebuilt from scratch after an export; genesis
files with holes in any order; a precompile call that fails between two writes
inside a frame whose caller catches the failure; an index that is written after
the commit and may lose rows in a crash, a listener error or a power loss; paging
while the collection grows; three generated functions per message that must agree
on its fields, for data that is cut short or comes from another version; and an
EndBlock error that would stop the chain.
`PROJECT.json` lists each hazard at its line, with the properties that cover it.

## 2. Modules

| Module | Models | Correspondence |
| --- | --- | --- |
| `Anchoring` | keeper, messages, RBAC | One variable per collection, one action per message. A failing message rolls back, so the code's error returns are guards. A role is a triple (registry, checksum or none, name) in place of the hash of its string. |
| `RecordLedger` | what the module promises | Abstract: a growing sequence of statuses per registry and checksum. |
| `AnchoringLedger` | refinement | Reads the ledger off the collections as the Records query does. |
| `AnchoringProofs` | theorems about `Anchoring` | The invariants; section 5. |
| `KeeperProofs` | theorems about `Anchoring`, `AnchoringLedger` and `AnchoringEvm` | What a message may never do, the refinement, EVM transactions. |
| `AnchoringGenesis` | genesis | `Validate`, `InitGenesis`, `ExportGenesis` as operators on all collections; a genesis is a record with a list of versions, because their order matters. |
| `AnchoringUpgrade` | v1 to v2 | A chain from a genesis, or a v1 chain that migrates, then the messages. |
| `AnchoringGenesisProofs` | theorems about genesis and upgrade | Section 5. |
| `RecordQuery` | Query/Records | The walks and the page step as operators, a client as actions `Begin` and `Continue` between messages. |
| `RecordQueryProofs` | theorems about `RecordQuery` | Section 5. |
| `AnchoringEvm` | precompile transactions | A stack of frames with snapshots; `Execute` runs a whole message action, `ExecuteFails` stops it after some of its writes, `RunNativeActionReturns` undoes it. |
| `NameIndex` | listener, backfill, node | Commit and ListenCommit are separate actions, with crashes, power loss, listener errors and state sync in between. |
| `NameSearch` | SearchRegistriesByName | A client that follows next_key over `NameIndex`. |
| `NameGate` | registriesByName | Several nodes with different indexes execute the same blocks and answer eth_call. |
| `EvmLayout` | `evmlayout/migrate.go`, `layout.go` | The writes of each migration step in order, a reader of the resulting storage. A loop of the code that carries something along is a recursive function on its turns. |
| `EvmDump` | `evmlayout/dump.go` | `PutPair` (`Dump.Put`), `Flush` and `Close` as operators; `EvmLayout` dumps every migration with them, with any one write of the file failing. |
| `EvmWalkProofs`, `EvmLayoutProofs`, `EvmReadProofs` | theorems about `EvmLayout` and `EvmDump` | Walks, lists and the dump; what each step writes; what is read back, and the four theorems. |
| `FieldRows` | a field in generated code | The row that stands for the block of statements about one field. |
| `ProtoMessages`, `AbiMessages` | the generated messages and tuples | For each one three tables, one per generated function, each read off its function: what is written, what is counted, what is read. |
| `ProtoCodec` | the statements protobuf code is made of | Varints, lengths, `skip`, map entries, `Marshal`, `Size`, one turn of `Unmarshal`'s loop, on sequences of bytes. |
| `AbiCodec` | the statements go-abi code is made of | Words, strings, arrays and tuples, on sequences of 32-byte words. |
| `PrecompileCalls` | `precompile/anchoring.go`, `types.go`, `events.go` | Selectors, dispatch, the request each handler builds, its return data and its log. |
| `Codec` | transfers | A sender, data that may be damaged on the way, a reader that takes one field per step. |
| `FeeFlow` | x/tax and the fees | Balances of users and module accounts, params, one action for a block's end with its EndBlockers in order. |
| `NodeProofs` | theorems about `NameIndex`, `NameSearch`, `NameGate` and `FeeFlow` | Section 5. |

The `MC*` modules give constants their values and define symmetry sets.

Composition: `AnchoringEvm`, `RecordQuery`, `AnchoringGenesis`, `AnchoringUpgrade`
and `EvmLayout` all extend `Anchoring` and use its actions or collections as they
are; `EvmLayout` also extends `EvmDump`, `NameSearch` extends `NameIndex`, and
`Codec` runs `PrecompileCalls` over `AbiCodec` beside `ProtoCodec`.

Abstractions common to all: names, URIs, metadata and descriptions are left out
where no guard or property reads them (their length limits constrain no modelled
value); checksums and addresses are model values; a hash is injective; gas is a
failure that may come between any two writes. Counters are `uint64` in the code
and naturals here: reaching 2^64 by increments of one is not a case. The codecs
keep the widths: see the bounds below.

The code outside the repository is modelled by how the repository uses it and
marked external in the map: go-abi's primitives, the SDK's commit and listener calls, the EVM state
database's journal, SQLite's transactions and checkpoints, the CCV consumer
module's distribution and IBC transfer.

## 3. Runs

Each run is `tlc -config <cfg> <module>`; all finish within about two minutes.

| Run | Instance | Shows |
| --- | --- | --- |
| `anchoring_records` | `MCAnchoring`, `AnchoringRecords.cfg`: 2 addresses, 2 checksums, 2 statuses, 2 registries, 3 versions | ids dense, one latest version, one stream per checksum, add-only, export and import are inverse, and `RecordLedger` is implemented |
| `anchoring_roles` | `AnchoringRoles.cfg`: 5 role memberships, 2 registries, 2 addresses | no registry is orphaned, every held role can be revoked, a step changes the authority of at most the registry it names |
| `anchoring_export` | violation | see section 6 |
| `anchoring_upgrade` | `MCAnchoringUpgrade`: genesis states of 0 to 2 versions with ids from 0 to 2, holes, missing checksums and any order, of which `Validate` refuses its share, v1 and v2 | counters cover all ids, one latest version, the state after the upgrade validates, nothing but the registry id changes |
| `record_query` | `MCRecordQuery`: 4 versions, page limits 0 and above the maximum | a client misses nothing, pages within a registry are stable and bounded, answers are the latest versions |
| `anchoring_evm` | `MCAnchoringEvm`: an account and a contract, depth 2, 2 precompile calls | logs match what was written, no handler sees half-written state, only signers act |
| `evm_layout` | `MCEvmLayout`: 3 registries, 2 ids per word, dump blocks of 4 | slots are written once, gaps refused, lists and member counts read back, a dump closed without an error holds every write once and in order |
| `codec` | `MCCodec`: every message and tuple with all fields set, with none, with one at a time at its edges; cut anywhere, an unknown field anywhere, any word changed | the functions of a message agree, unknown fields are skipped, nothing is read in part, ABI data has one form, calls and answers carry each value to its place, Unmarshal's loop ends |
| `name_gate` | 2 nodes, 2 blocks | nodes agree; contracts get no answer |
| `name_search` | `MCNameSearch`: a genesis without registries or with id 2 alone, ids up to 4, 2 names, pages of 1 | rows are the chain's, a start repairs, registries are eventually indexed, paging is ordered, complete and ends |
| `fee_flow` | `MCFeeFlow`: 2 users, rates from -10% to 110% | the chain never halts, fees are taxed once, the reward buffer holds fees only |
| `fee_flow_max_tax` | violation | see section 6 |

**Bounds.** Every interaction the properties are about needs two of something:
two accounts that grant and revoke each other, two registries with the same
checksum, two versions between which a status changes, a third version for a
previous one that is not the first. Two ids per storage word give empty, partly
full, full and several words. Dump blocks of four and the migrations of all the
genesis states give every remainder. Ids up to four and pages of one give a cursor
with rows on both sides, also when the genesis left out the first id. The
constants `MaxRegistries`, `MaxVersions`, `MaxMembers`, `MaxDepth`, `MaxCalls` and
`MaxHeight` only cut the state space; the first three are guards of the actions
they bound.

The codecs have no bound on behaviour, one transfer being a handful of steps. Their
values are chosen instead: all fields set to different values, so that two swapped
ones show; then one field at a time at zero, at 127 and 128, at the highest word, at
the empty and at a string of 128 bytes, where an encoding changes its length. A word
has `WordBits` = 29 bits: like 64 it leaves one bit to the last byte of the longest
varint, which is the case that matters, and int overflow stays within TLC's
integers. `MaxUint8`, `MaxUint64` and `MaxInt` are small numbers the stray words
lie on both sides of; a field number is as wide as `Int32Bits` leaves it.

**Symmetry** is used for addresses and checksums, which no definition orders
(where a walk visits strings in byte order, it is any fixed order), users, nodes
and registries of `NameGate`. The run with liveness uses none.

**Fairness.** Only `NameSearch` states any: a node that is down is started again
(operators and service managers do), and a client with a next key goes on asking.
Nothing is assumed of the chain, of the listener or of crashes. `EventuallyIndexed`
is further conditional on restarts happening, because the code's only repair is the
backfill at start; `PagingEnds` on a node that stays up.

**Deadlock** is checked everywhere but in `codec`, where a transfer ends.

## 4. Properties worth knowing

- `RegistryHasAdmin`, `HeldRolesRevocable`: together, no role can become
  irrevocable. The second is what makes the first useful.
- `ImplementsLedger`: the two checksum indexes, the counters, the index table and
  the flags together behave as one append-only sequence per checksum.
- `RoundTrip`: what messages maintain incrementally is what `InitGenesis` computes
  from scratch, field by field.
- `CallsAtomic`: logs match the state and no handler meets half-written state; it
  relies on the precompile's snapshot being journaled before the handler runs.
- `StartRepairs`: comparing row count and RegistryCount is enough, because rows are
  always registries of the chain (`IndexFaithful`): the counts agree only if no id is
  missing from either, and with holes in the ids they never do.
- `ProtoRoundTrip`, `AbiRoundTrip`: the tables of a message come from three functions
  and are read off each one; nothing in the model makes them agree.
- `AbiCanonical`: Decode accepts only what Encode would write, so no offset is ever
  followed to data that belongs to another field.
- `WholeFieldsOnly`: a message that was cut at a field boundary is read without the
  rest, as protobuf has it, but never with part of a value.
- `NeverHalts`: whatever `UpdateParams` accepts, the end of a block accepts.

## 5. Proofs

`AnchoringProofs` proves, for any sets of addresses, checksums, roles and statuses
and any bounds (the named assumptions of `Anchoring` and nothing else; each other
module adds those it declares):

- `TypeCorrect`: `Spec => []TypeOK`;
- `AdminAlways` and `RevocableAlways`: `RegistryHasAdmin`, `HeldRolesRevocable`;
- `DenseAlways`, `OneLatestAlways`, `OneStreamAlways`: `StreamsDense` with
  `RegistriesDense`, `OneLatestVersion`, `OneStreamPerChecksum`.

The argument. `TypeOK` is inductive by itself. `RoleInv` is the conjunction of the
two role properties, each preserved given `TypeOK`; they are shown together
because the same handlers write a role's admin and its members. That the last
admin stays rests on RevokeRole's count: a set that is not a singleton is not
emptied by removing one member. `RecordInv` is the conjunction of the four record properties: none is
inductive alone, because AddRecord reads the record id from the checksum index,
the version from `RecordIndices` and the free id from the counter, and writes all
of them. `AddRecordEffect` collects what the action does to a stream; each
conjunct is then shown from it.

`KeeperProofs` proves two action properties from these invariants.
`AddOnlyAlways` (`AddOnly`): each handler leaves a stored version as it is, sets its
status, or clears its flag, and that a new version never lands on a stored one is
`StreamsDense`. `AuthorityIsolatedAlways` (`AuthorityIsolated`): the right to write to
a registry is read from that registry's roles alone (`WritersFollowRoles`), and every
message changes the members of one registry's roles at most (`OneRegistryPerStep`).

The same module proves `LedgerImplemented`: `Spec => ImplementsLedger`, the
step simulation by the mapping of `AnchoringLedger`. `AddRecordAppends` shows that an
added record is the ledger's append and `UpdateSetsStatus` that a status update is
its assignment; every other message changes no collection the streams are read from.
That the other streams stay is `StreamsApart`: two checksums of a registry never have
the same record id, which follows from `OneStreamPerChecksum` and `StreamsDense`.

It also proves `AtomicAlways` and `SignersAlways` (`CallsAtomic`,
`OnlySignersAct`) for any accounts, contracts, depth and number of calls. Neither is
inductive: a frame may be undone, and the property says nothing of what is then put
back. `EvmInv` says it of every open frame: its snapshot satisfies the invariants of
`Anchoring`, and its logs announce exactly what that snapshot holds beyond the store the
transaction began with. A failing call needs nothing of the state its writes left,
since its frame was opened before the first of them.

`RecordQueryProofs` proves `NothingMissedAlways`, `RegistryPagesAlways` and
`AnswersLatestAlways` (`NothingMissed`, `RegistryPagesStable`, `AnswersLatest`) for any
page limits. `NothingMissed` says nothing of a listing in progress; `QueryInv` does:
each stream the client wants is in its pages, or has a place in the listing as it is now
that the pages have not passed (`Covered`). A stream added in between moves a place
ahead or leaves it, never back (`GrowthKeepsCovered`). Within a registry the n-th entry
is record n (`FromFirst`), because ids are dense. The place of a stream is the number of
streams before it; the lemmas on ranks and walks in `AnchoringProofs` show that a walk
in order visits each key at that place.

`AnchoringGenesisProofs` proves four results about genesis and upgrade.

- `RoundTripAlways` (`RoundTrip`). An export lists the versions in the order of their
  keys. `WalkVisitsRecords` shows that the walk visits every key once, so that the list
  holds exactly the stored versions (`ExportedVersions`); what `InitGenesis` computes
  from the list is then compared with each collection in turn (`CountRebuilt` to
  `CollectionsRebuilt`). A counter is rebuilt as a maximum over ids, which is the
  counter the messages kept because the ids are dense; the last entry of a checksum in
  the list names its record id because a checksum has one stream.
- `GenesisConsistentAlways`, `UpgradedAlwaysValid`, `UpgradeAlwaysKeepsRecords`
  (`GenesisConsistent`, `UpgradedStateValid`, `UpgradeKeepsRecords`), for any set of
  genesis states whose fields have their types and that list finitely many roles
  (`GenesisAssumption`; a genesis is a file). `RecordInv` is of no use here: a genesis
  may have holes, and one stream may hold several checksums. The invariant is `Sound`, which asks for less and is still inductive: registries and
  versions are stored under their own keys, every index leads to a stored version and
  to an id the counter covers, every stored version has an index that is not below it,
  and the flag is on the version the index leads to. `UpgradeInv` says that a v2 chain
  is `Sound` and that a v1 chain would be if it were migrated now. `ImportSound` shows
  that whatever `Validate` accepts is imported into a `Sound` state, whatever the order
  of its list; it rests on `AcceptedLatest`, that the version flagged in a stream is its
  highest, which only the validation guarantees. `NewVersion` shows that AddRecord
  still finds a free key when ids have holes, and `ExportValidates` that a `Sound` state
  exports into a genesis that validates.

`EvmReadProofs` proves the four properties of the migration to contract storage,
`SlotsAlwaysWrittenOnce`, `GapsAlwaysRefused`, `AlwaysReadsBack` and
`DumpAlwaysComplete` (`SlotsWrittenOnce`, `GapsRefused`, `ReadsBack`, `DumpComplete`),
for every chain that `AnchoringGenesis` describes, any number of ids in a word and any
number of pairs in a block. `EvmWalkProofs` and `EvmLayoutProofs` lead up to them.

- *Loops.* What a loop has computed after n turns is a function of n. `Iterates` shows
  that the function exists and follows its equations, and `Induct` that what holds
  before the first turn and is kept by each turn holds after every one: the set of turns
  where it fails would have a least element. Both speak of a set or a function where the
  library's theorems have an operator, so the provers can instantiate them.
- *The dump.* `DumpHolds` is the loop's invariant without a failure: the file is a
  sequence of full blocks and they and the pending pairs are the writes so far.
  `DumpFails` is the one with a failure: while the file is shorter than the failing
  write nothing differs, and afterwards the error stays. `DumpLoads` joins them.
- *Walks.* `WalkVisits` shows that a walk visits each key once and in the order of its
  code; `GapsFound` compares the ids of such a walk with 1 to the count;
  `NamesCollected` shows that the list collected for a name is the walk of its
  registries.
- *Steps.* `Emits(writes, out)` says that a sequence writes exactly the pairs of a set and
  no slot twice. Each step of `Migrate` emits a set that is written down from the
  collections alone (`RegistriesEmitted` to `RoleMembersEmitted`). Two are hard: the loops
  over checksums and over role members, which write a group when the next one begins
  and the last one after the loop. Their invariants (in `ChecksumsEmitted` and
  `MembersEmitted`) say which groups are out and what is held of the current one, and
  rest on a walk never coming back to a group it has left (`GroupEnds`).
  `WrittenEmitted` puts the steps together: the sets of two steps have no slot in common.
- *Reading.* `ReadWritten` shows that a slot reads as what was written to it, dropped zeros
  included, and any other as zero; `ListRead` that the ids of a list come back from their
  words, the last one full or not.
- *The chain.* All this needs little of a state, `LayoutInv`: finitely many keys of
  their types, and the two checksum indexes with the same pairs. `SoundLayout` gets it
  from `Sound` and from `Mirrored`, which is inductive by itself; `RecordInv` would be too
  much, since a genesis may have holes. `LayoutAlways` is the result.

`NodeProofs` proves `FaithfulAlways` and `StartAlwaysRepairs` (`IndexFaithful`,
`StartRepairs`) for any names, genesis and bound. `IInv` says what `IndexFaithful`
leaves out: the committed, block and transaction views lie within each other, the rows
and the checkpoint within the committed view, and the ids of a block are kept until
its listener has run. The start rests on `BackfillCompletes`: the backfill compares
two counts, and rows that are a subset of the registries and as many as
`RegistryCount` are all of them, with holes in the ids or without. `PagesExactAlways`
(`PagesExact`) is about the client of `NameSearch`, whatever the page limit. `SearchInv`
adds to `IInv` where the cursor stands among the ids seen (`Paged`) and that every
expected id is still on the chain, and in the index of a node that can answer
(`Promised`): a crash may lose its row, and the backfill puts it back before the node
answers again.

It also proves `AgreementAlways` and `NoContractAlways` for any number of
nodes, blocks and registries. Agreement is not inductive: that two nodes agree on
common blocks says nothing of a block only one has run. The invariant is that every
block result is the same refusal, into which no index enters.

The same module proves `ChainNeverHalts`, `FeesTaxedOnce` and `BufferOnlyFees`
(`NeverHalts`, `TaxedOnce`, `BufferHoldsFees`) for any users, rates, fraction and
amounts. None is inductive alone. That the chain goes on needs the stored rate to be
a fraction (`FeeTypeOK`) and the recipient not to be a blocked address, which is what
`UpdateParams` checks long before the block end relies on it; `FeeInv` conjoins these
with the three properties. `Portion` shows that a truncated share is no more than
the amount, so no transfer of a block's end overdraws an account; `Moves` says what a
transfer does to each balance, also one to oneself; `Taxed`, `Distributed` and
`Transmitted` are the three stages of a block's end and `EndBlockFeeInv` chains them.
That users and incoming transfers keep out of the two accounts is the case of
`SendFeeInv` and `RecvPacketFeeInv`, from the blocked addresses and the send restriction.

Only model-checked:

- liveness (`EventuallyIndexed`, `PagingEnds`), which the prover does not do;
- the eight properties of `Codec`: its encoders and decoders are recursive operators over
  tables of fields, which keeps them out of the prover's reach, and the instance is
  every message the code has;
- `RolesSurviveExport` and `TaxAtMost40Percent`, which fail (section 6).

Every other property a run checks is a theorem.

## 6. Where code and documents disagree

- `fee_flow_max_tax`: `README.md:55` gives 40% as the highest tax; `MaxTax` in
  `x/tax/types/params.go:14` is one, and a rate of 100% is accepted.
- `anchoring_export`: the role tables of the exported genesis are keyed by raw
  hash bytes held in a Go string. The genesis file is JSON, whose encoder replaces
  bytes that are not UTF-8, so the roles read back are others. The replacement is
  the behaviour of the JSON marshaller, a library; the keys are the module's.
  `RoundTrip` shows that the in-memory export has no such loss.

Noted without a run: `x/anchoring/readme.md:329` says that only registry admins
grant roles, while the module admin may grant the registry admin role
(`keeper/msg_server.go:156`); `nameindex/store.go:84` calls ids dense, which a
genesis with holes is not (every start then walks the collection again); a
genesis may hold a stream whose versions have different checksums; the root
README calls the tax params governable, while only the tax address may change them.

## 7. Not modelled

Application wiring, ante handlers and commands: constructor calls and lists of
library decorators. In generated code the getters, descriptors, registration, gRPC
stubs and HTTP gateway, which hold no state, and the packed ABI encodings, which
nothing calls. Text of addresses and times: an injective value. Gas amounts: a
failure may come between any two writes instead. SQL match modes and string packing:
a set of matching names, and one value per string. Zero-height export of staking and
slashing: SDK bookkeeping. Rolling the chain back under a name index: outside the
module. Query/Registries and Query/Registry: one read, or the SDK's paginator.

Three hazards have no property. A genesis with a blocked tax recipient validates and
would stop the second block; `FeeFlow` starts from recipients the bank accepts, as
`UpdateParams` enforces afterwards. A genesis may hold a stream whose versions have
different checksums; no document says it may not. Holes in record ids are not refused
by the migration to contract storage as holes in registry ids are; whether the
contract minds cannot be read here, because the repository does not hold it.

## 8. Plan

Built, in this order: `Anchoring` with its ledger, proofs, genesis, EVM, layout,
name index and search, fee flow, queries, name gate, upgrade, dump; then the codecs
and the precompile's calls, genesis ids with holes under the name index, the proofs
about `FeeFlow` and `NameIndex`, the action properties of `Anchoring` and its
refinement of the ledger; then the proofs about EVM transactions, paging clients,
genesis and upgrade; then those about the migration to contract storage and its dump.

Next, in the model: Query/Registries with the SDK's key paging; several
denominations in `FeeFlow`.

Next, in proofs: the codecs' primitives (varints, words, lengths) written as recursive
functions, so that their round trips can be shown for every value.
