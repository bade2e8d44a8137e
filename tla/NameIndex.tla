------------------------------- MODULE NameIndex -------------------------------
(***************************************************************************)
(* The opt-in registry name index (x/anchoring/nameindex): a SQLite file   *)
(* beside the chain's store that a block listener and a backfill at start  *)
(* keep in step with the Registries collection.                            *)
(*                                                                         *)
(* Of a registry the index needs the id and the name.  AddRegistry assigns *)
(* RegistryCount + 1; a genesis file may leave ids out, and its import     *)
(* sets RegistryCount to the highest id.                                   *)
(* A committed block and a committed SQLite transaction are atomic.  After *)
(* a crash the chain is as last committed; SQLite runs with                *)
(* synchronous=NORMAL, so the file may fall back to its last checkpoint.   *)
(***************************************************************************)
EXTENDS Integers, Sequences, FiniteSets, FiniteSetsExt, TLC

CONSTANTS
    Name,           \* registry names
    Genesis,        \* the registries a chain may start with: id => name
    MaxRegistries   \* bound on RegistryCount

ASSUME MaxRegistriesAssumption == MaxRegistries \in Nat
ASSUME GenesisAssumption ==
    \A g \in Genesis : DOMAIN g \subseteq 1 .. MaxRegistries /\ Range(g) \subseteq Name

VARIABLES
    registries,     \* committed Registries collection
    working,        \* Registries in the block being executed
    txCache,        \* Registries in the transaction being executed
    index,          \* rows of the SQLite file: id => name
    checkpoint,     \* the rows that survive a power loss
    enabled,        \* [anchoring-name-index] enabled, as read at start
    phase,          \* "down", "running", or "committing" before ListenCommit
    changeSet,      \* ids written by the block just committed
    behind          \* history: a listener error or a state sync since the start

chainVars == <<registries, working, txCache>>
nodeVars == <<index, checkpoint, enabled, phase, changeSet, behind>>
vars == <<chainVars, nodeVars>>

RegistryCount(chain) == Max(DOMAIN chain \cup {0})

\* A home directory with nothing committed, or nothing but a genesis block, no row,
\* and the node not started.
Init ==
    /\ registries \in Genesis
    /\ working = registries /\ txCache = registries
    /\ index = [id \in {} |-> id]
    /\ checkpoint = index
    /\ enabled = FALSE
    /\ phase = "down"
    /\ changeSet = {}
    /\ behind = FALSE

-----------------------------------------------------------------------------
(***************************************************************************)
(* Transactions and blocks (baseapp)                                       *)
(***************************************************************************)

AddRegistry(name) ==
    /\ phase = "running"
    /\ RegistryCount(txCache) < MaxRegistries
    /\ txCache' = [id \in DOMAIN txCache \cup {RegistryCount(txCache) + 1} |->
                      IF id \in DOMAIN txCache THEN txCache[id] ELSE name]
    /\ UNCHANGED <<registries, working, nodeVars>>

EndTx(ok) ==
    /\ phase = "running"
    /\ txCache # working
    /\ IF ok
       THEN working' = txCache /\ UNCHANGED txCache
       ELSE txCache' = working /\ UNCHANGED working
    /\ UNCHANGED <<registries, nodeVars>>

\* The listeners collect what is written to the committed store.
WrittenIds == DOMAIN working \ DOMAIN registries

\* cms.Commit; the listeners are called afterwards.
Commit ==
    /\ phase = "running"
    /\ txCache = working
    /\ registries' = working
    /\ changeSet' = WrittenIds
    /\ phase' = IF enabled THEN "committing" ELSE "running"
    /\ UNCHANGED <<working, txCache, index, checkpoint, enabled, behind>>

-----------------------------------------------------------------------------
(***************************************************************************)
(* The store, the listener and the backfill                                *)
(***************************************************************************)

\* A batch of upserts: one SQLite transaction.
Upsert(rows, ids) ==
    [id \in DOMAIN rows \cup ids |->
        IF id \in ids THEN registries[id] ELSE rows[id]]

\* A listener that publishes the first of the block's registries only.
IndexedByBlockPartly(ids) ==
    IF ids = {} THEN index
    ELSE Upsert(index, {CHOOSE id \in ids : \A j \in ids : id <= j})

IndexedByBlock(ids) == Upsert(index, ids)

ListenCommit ==
    /\ phase = "committing"
    /\ index' = IndexedByBlock(changeSet)
    /\ changeSet' = {}
    /\ phase' = "running"
    /\ UNCHANGED <<chainVars, checkpoint, enabled, behind>>

\* An error of Begin, Upsert or Commit rolls the batch back and is only logged.
ListenCommitFails ==
    /\ phase = "committing"
    /\ changeSet # {}
    /\ changeSet' = {}
    /\ phase' = "running"
    /\ behind' = TRUE
    /\ UNCHANGED <<chainVars, index, checkpoint, enabled>>

Checkpoint ==
    /\ phase # "down"
    /\ checkpoint' = index
    /\ UNCHANGED <<chainVars, index, enabled, phase, changeSet, behind>>

\* A backfill that trusts the highest indexed id instead of the row count.
BackfillNameIndexByMaxId(rows) ==
    IF RegistryCount(registries) \in DOMAIN rows \cup {0} THEN rows
    ELSE Upsert(rows, DOMAIN registries)

BackfillNameIndex(rows) ==
    IF Cardinality(DOMAIN rows) = RegistryCount(registries) THEN rows
    ELSE Upsert(rows, DOMAIN registries)

\* NewApp: LoadLatestVersion, then the backfill if the index is enabled.  A
\* failing backfill panics and the node stays down.
Start(enable) ==
    /\ phase = "down"
    /\ phase' = "running"
    /\ enabled' = enable
    /\ index' = IF enable THEN BackfillNameIndex(index) ELSE index
    /\ behind' = FALSE
    /\ UNCHANGED <<chainVars, checkpoint, changeSet>>

\* A snapshot replaces an empty store after the start, past the listeners.
StateSync(snapshot) ==
    /\ phase = "running"
    /\ registries = <<>> /\ working = <<>> /\ txCache = <<>>
    /\ snapshot # <<>>
    /\ registries' = snapshot /\ working' = snapshot /\ txCache' = snapshot
    /\ behind' = TRUE
    /\ UNCHANGED <<index, checkpoint, enabled, phase, changeSet>>

\* The process stops at any point, or the machine loses power.
Crash ==
    /\ phase # "down"
    /\ phase' = "down"
    /\ working' = registries /\ txCache' = registries
    /\ changeSet' = {}
    /\ index' \in {index, checkpoint}
    /\ checkpoint' = index'
    /\ UNCHANGED <<registries, enabled, behind>>

-----------------------------------------------------------------------------
Snapshots == UNION {[1 .. n -> Name] : n \in 1 .. MaxRegistries}

Next ==
    \/ \E name \in Name : AddRegistry(name)
    \/ \E ok \in BOOLEAN : EndTx(ok)
    \/ Commit
    \/ ListenCommit
    \/ ListenCommitFails
    \/ Checkpoint
    \/ \E enable \in BOOLEAN : Start(enable)
    \/ \E snapshot \in Snapshots : StateSync(snapshot)
    \/ Crash

Spec == Init /\ [][Next]_vars

\* The operator or the service manager starts a node that is down.
StartAgain == \E enable \in BOOLEAN : Start(enable)

-----------------------------------------------------------------------------
(***************************************************************************)
(* Properties                                                              *)
(***************************************************************************)

\* Every row is a committed registry with its own name: a rolled-back
\* transaction, a lost block, a failed batch or a crash between the commit and
\* the listener never leaves a row the chain does not have.  And an enabled node
\* that has had no listener error and no state sync since its start has every
\* committed registry, but for the block whose commit is in progress
\* (nameindex/listener.go:14-17, 34-68).
IndexFaithful ==
    /\ \A id \in DOMAIN index : id \in DOMAIN registries /\ index[id] = registries[id]
    /\ enabled /\ phase # "down" /\ ~ behind =>
          \A id \in DOMAIN registries \ changeSet : id \in DOMAIN index

\* A start with the index enabled leaves it complete, whatever the file missed:
\* the row count equals RegistryCount only when no row is missing, also when a
\* genesis left ids out, so comparing the two is enough (keeper/nameindex_backfill.go:13-34).
StartRepairs ==
    [][phase = "down" /\ phase' # "down" /\ enabled' =>
          DOMAIN index' = DOMAIN registries']_vars

\* Every committed registry is eventually indexed on a node that is restarted
\* from time to time with the index enabled, listener errors, crashes and state
\* sync notwithstanding (x/anchoring/readme.md:110-113).
EventuallyIndexed ==
    []<>(phase = "down") =>
       \A id \in 1 .. MaxRegistries :
          (id \in DOMAIN registries) ~> (id \in DOMAIN index \/ ~ enabled)
=============================================================================
