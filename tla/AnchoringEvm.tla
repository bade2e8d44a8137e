------------------------------ MODULE AnchoringEvm ------------------------------
(***************************************************************************)
(* EVM transactions over the anchoring precompile.  A transaction is a     *)
(* stack of call frames; a call into the precompile runs the message       *)
(* handlers of Anchoring on the transaction's cached store and logs what   *)
(* it did.  A frame that reverts, and a precompile call that fails or runs *)
(* out of gas between two of its writes, is undone back to its snapshot.   *)
(***************************************************************************)
EXTENDS Anchoring, Sequences

CONSTANTS
    EOA,        \* the addresses with no code or a delegation for code
    MaxDepth,   \* bound on the call depth
    MaxCalls    \* bound on the precompile calls of a transaction

ASSUME EvmAssumption == EOA \subseteq Addr /\ MaxDepth \in Nat /\ MaxCalls \in Nat

VARIABLES
    origin,     \* sender of the transaction in progress
    frames,     \* its open call frames, the outermost first
    failing,    \* the innermost frame is a precompile call that has failed
    logs,       \* logs of the transaction in progress, its receipt when it ends
    calls       \* precompile calls it has made

txVars == <<origin, frames, failing, logs, calls>>
evmVars == <<vars, txVars>>

idle == frames = <<>>
top == frames[Len(frames)]

-----------------------------------------------------------------------------
(***************************************************************************)
(* Snapshots (the state database)                                          *)
(***************************************************************************)

MultiStoreSnapshot ==
    [admin |-> admin, registries |-> registries, registryCount |-> registryCount,
     records |-> records,
     byRegistry |-> recordIdByRegistryAndChecksum,
     byChecksum |-> recordIdByChecksumAndRegistry,
     counts |-> recordsCountByRegistry, indices |-> recordIndices,
     roleAdmins |-> roleAdmins, roleMembers |-> roleMembers]

Restore(s) ==
    /\ admin' = s.admin
    /\ registries' = s.registries
    /\ registryCount' = s.registryCount
    /\ records' = s.records
    /\ recordIdByRegistryAndChecksum' = s.byRegistry
    /\ recordIdByChecksumAndRegistry' = s.byChecksum
    /\ recordsCountByRegistry' = s.counts
    /\ recordIndices' = s.indices
    /\ roleAdmins' = s.roleAdmins
    /\ roleMembers' = s.roleMembers

Frame(address) == [address |-> address, store |-> MultiStoreSnapshot, logs |-> logs]

\* A precompile call that is not on the journal: its writes stay.
UndoUnjournaled(frame) == UNCHANGED vars /\ logs' = frame.logs

\* The frame's entry on the journal undone: its writes and its logs.
Undo(frame) == Restore(frame.store) /\ logs' = frame.logs

-----------------------------------------------------------------------------
(***************************************************************************)
(* Frames of contracts and of delegated accounts                           *)
(***************************************************************************)

\* A transaction calls a contract, a delegated account or, with the sender as
\* the running address, the precompile itself.
BeginTx(sender, address) ==
    /\ idle
    /\ sender \in EOA
    /\ origin' = sender
    /\ frames' = <<Frame(address)>>
    /\ calls' = 0
    /\ UNCHANGED <<vars, failing, logs>>

Enter(address) ==
    /\ ~ idle /\ ~ failing
    /\ Len(frames) < MaxDepth
    /\ frames' = Append(frames, Frame(address))
    /\ UNCHANGED <<vars, origin, failing, logs, calls>>

\* The end of the outermost frame ends the transaction.
Leave ==
    /\ ~ idle /\ ~ failing
    /\ frames' = SubSeq(frames, 1, Len(frames) - 1)
    /\ logs' = IF Len(frames) = 1 THEN {} ELSE logs
    /\ UNCHANGED <<vars, origin, failing, calls>>

Revert ==
    /\ ~ idle /\ ~ failing
    /\ frames' = SubSeq(frames, 1, Len(frames) - 1)
    /\ Restore(top.store) /\ logs' = top.logs
    /\ UNCHANGED <<origin, failing, calls>>

-----------------------------------------------------------------------------
(***************************************************************************)
(* The precompile                                                          *)
(***************************************************************************)

\* A check of the origin's code only.
ensureEOACallerByOrigin(caller) == origin \in EOA

ensureEOACaller(caller) == caller = origin /\ origin \in EOA

\* What Execute asks of a call to a state-changing method.
Admits(caller, value, readOnly) ==
    ~ readOnly /\ value = 0 /\ ensureEOACaller(caller)

emitEvent(event, caller, key) ==
    logs' = logs \cup {[event |-> event, caller |-> caller, key |-> key]}

AddRegistryCall(caller) ==
    AddRegistry(caller) /\ emitEvent("AddRegistry", caller, <<registryCount + 1>>)

\* The log takes the index from RecordIndices as the handler has left it.
AddRecordCall(caller, registryId, checksum, status) ==
    LET recordId == RecordIdFor(registryId, checksum)
    IN  /\ AddRecord(caller, registryId, checksum, status)
        /\ emitEvent("AddRecord", caller,
                     <<registryId, recordId, recordIndices'[<<registryId, recordId>>]>>)

UpdateRecordStatusCall(caller, key, status) ==
    /\ UpdateRecordStatus(caller, key[1], key[2], key[3], status)
    /\ emitEvent("UpdateRecordStatus", caller, key)

GrantRoleCall(caller, account, registryId, checksum, role) ==
    /\ GrantRole(caller, account, registryId, checksum, role)
    /\ emitEvent("GrantRole", caller, <<registryId>>)

RevokeRoleCall(caller, account, registryId, checksum, role) ==
    /\ RevokeRole(caller, account, registryId, checksum, role)
    /\ emitEvent("RevokeRole", caller, <<registryId>>)

\* The switch over the method ids.
Method(caller) ==
    \/ AddRegistryCall(caller)
    \/ \E registryId \in RegistryIds, checksum \in ScopeChecksum, status \in Status :
          AddRecordCall(caller, registryId, checksum, status)
    \/ \E key \in DOMAIN records, status \in Status :
          UpdateRecordStatusCall(caller, key, status)
    \/ \E account \in Addr, registryId \in RegistryIds, checksum \in ScopeChecksum,
          role \in RoleName :
             GrantRoleCall(caller, account, registryId, checksum, role)
    \/ \E account \in Addr, registryId \in RegistryIds, checksum \in ScopeChecksum,
          role \in RoleName :
             RevokeRoleCall(caller, account, registryId, checksum, role)

Execute(value, readOnly) ==
    /\ ~ idle /\ ~ failing
    /\ Admits(top.address, value, readOnly)
    /\ calls < MaxCalls
    /\ Method(top.address)
    /\ calls' = calls + 1
    /\ UNCHANGED <<origin, frames, failing>>

-----------------------------------------------------------------------------
(***************************************************************************)
(* Calls that fail after some of their writes                              *)
(***************************************************************************)

\* AddRegistry has made its first n writes of five when the gas is spent.
AddRegistryStops(caller, n) ==
    LET registryId == registryCount + 1
        adminRole == RegistryRole(registryId, RoleAdmin)
    IN  /\ registryCount < MaxRegistries
        /\ registries' = Put(registries, registryId,
                             [id |-> registryId, creator |-> caller])
        /\ roleAdmins' = IF n >= 2 THEN Put(roleAdmins, adminRole, adminRole)
                         ELSE roleAdmins
        /\ roleMembers' = IF n >= 3 THEN roleMembers \cup {<<adminRole, caller>>}
                          ELSE roleMembers
        /\ recordsCountByRegistry' =
              IF n >= 4 THEN initializeRegistryRecordCounter(registryId)
              ELSE recordsCountByRegistry
        /\ registryCount' = IF n >= 5 THEN registryId ELSE registryCount
        /\ UNCHANGED <<admin, records, recordIdByRegistryAndChecksum,
                       recordIdByChecksumAndRegistry, recordIndices>>

\* AddRecord has counted the record, then indexed the checksum, then counted the
\* version, then stored it without touching the previous one.
AddRecordStops(caller, registryId, checksum, status, n) ==
    LET isNew == <<registryId, checksum>>
                    \notin DOMAIN recordIdByRegistryAndChecksum
        recordId == RecordIdFor(registryId, checksum)
        index == NextIndex(registryId, recordId)
    IN  /\ registryId \in DOMAIN registries
        /\ checkPermission(caller, registryId, checksum)
        /\ Cardinality(DOMAIN records) < MaxVersions
        /\ recordsCountByRegistry' =
              IF isNew THEN Put(recordsCountByRegistry, registryId, recordId)
              ELSE recordsCountByRegistry
        /\ IF isNew /\ n >= 2
           THEN IndexChecksum(registryId, checksum, recordId)
           ELSE UNCHANGED <<recordIdByRegistryAndChecksum,
                            recordIdByChecksumAndRegistry>>
        /\ recordIndices' =
              IF n >= 3 THEN Put(recordIndices, <<registryId, recordId>>, index)
              ELSE recordIndices
        /\ records' =
              IF n >= 4 THEN Put(records, <<registryId, recordId, index>>,
                                 [registryId |-> registryId, recordId |-> recordId,
                                  index |-> index, checksum |-> checksum,
                                  status |-> status, isLatest |-> TRUE])
              ELSE records
        /\ UNCHANGED <<admin, registries, registryCount, rbacVars>>

\* GrantRole sets the role's admin before it looks at the granter's role.
GrantRoleStops(caller, registryId, checksum, role) ==
    /\ ensureRoleScopeExists(registryId, checksum)
    /\ roleAdmins' = Put(roleAdmins, scopedRole(registryId, checksum, role),
                         RegistryRole(registryId, RoleAdmin))
    /\ UNCHANGED <<admin, registries, registryCount, recordVars, roleMembers>>

\* The call's snapshot is on the journal before the handler runs.
ExecuteFails(value, readOnly) ==
    /\ ~ idle /\ ~ failing
    /\ Admits(top.address, value, readOnly)
    /\ calls < MaxCalls
    /\ \/ \E n \in 1 .. 5 : AddRegistryStops(top.address, n)
       \/ \E registryId \in RegistryIds, checksum \in Checksum, status \in Status,
             n \in 1 .. 4 :
                AddRecordStops(top.address, registryId, checksum, status, n)
       \/ \E registryId \in RegistryIds, checksum \in ScopeChecksum, role \in RoleName :
             GrantRoleStops(top.address, registryId, checksum, role)
    /\ frames' = Append(frames, Frame(top.address))
    /\ failing' = TRUE
    /\ calls' = calls + 1
    /\ UNCHANGED <<origin, logs>>

\* RunNativeAction returns the error and the caller's frame gets control back.
RunNativeActionReturns ==
    /\ failing
    /\ Undo(top)
    /\ frames' = SubSeq(frames, 1, Len(frames) - 1)
    /\ failing' = FALSE
    /\ UNCHANGED <<origin, calls>>

-----------------------------------------------------------------------------
EvmInit ==
    /\ Init
    /\ origin \in EOA
    /\ frames = <<>>
    /\ failing = FALSE
    /\ logs = {}
    /\ calls = 0

\* Cosmos transactions with the module's messages come in between.
EvmNext ==
    \/ \E sender \in EOA, address \in Addr : BeginTx(sender, address)
    \/ \E address \in Addr : Enter(address)
    \/ Leave
    \/ Revert
    \/ \E value \in {0, 1}, readOnly \in BOOLEAN : Execute(value, readOnly)
    \/ \E value \in {0, 1}, readOnly \in BOOLEAN : ExecuteFails(value, readOnly)
    \/ RunNativeActionReturns
    \/ idle /\ Next /\ UNCHANGED txVars

EvmSpec == EvmInit /\ [][EvmNext]_evmVars

-----------------------------------------------------------------------------
(***************************************************************************)
(* Properties                                                              *)
(***************************************************************************)

Logged(event) == {l.key : l \in {m \in logs : m.event = event}}

\* A call takes effect whole or not at all, whatever calls failed half-way and
\* whatever frames reverted and were caught: no handler runs on half-written
\* state, and the receipt tells the truth, for a transaction has made a registry
\* or a record version exactly if a log that survived announces it
\* (precompiles/common.go:44-97, precompile/events.go:15-49).
CallsAtomic ==
    /\ ~ failing =>
          /\ RegistriesDense /\ StreamsDense /\ OneLatestVersion
          /\ RegistryHasAdmin /\ HeldRolesRevocable
    /\ ~ idle /\ ~ failing =>
          /\ Logged("AddRegistry") =
                {<<id>> : id \in DOMAIN registries \ DOMAIN frames[1].store.registries}
          /\ Logged("AddRecord") = DOMAIN records \ DOMAIN frames[1].store.records

\* A contract never acts, even one that was granted a role: what a transaction
\* has done was done by the account that signed it, in a frame of its own
\* (precompile/anchoring.go:114-118, 184-196).
OnlySignersAct == \A l \in logs : l.caller = origin /\ l.caller \in EOA
=============================================================================
