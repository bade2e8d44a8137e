---------------------------- MODULE AnchoringLedger ----------------------------
(***************************************************************************)
(* The keeper's record collections implement the record ledger.            *)
(***************************************************************************)
EXTENDS Anchoring, Sequences

\* The stream of a checksum, read off the collections as the Records query
\* reads it: checksum to record id, record id to latest index, index to version.
StreamOf(key) ==
    LET recordId == recordIdByRegistryAndChecksum[key]
    IN  [i \in 1 .. recordIndices[<<key[1], recordId>>] |->
            records[<<key[1], recordId, i>>].status]

LedgerStreams == [key \in DOMAIN recordIdByRegistryAndChecksum |-> StreamOf(key)]

Ledger == INSTANCE RecordLedger WITH streams <- LedgerStreams

\* AddRecord, UpdateRecordStatus and every other message together implement the
\* record ledger: an added record lands at the end of the stream of its own
\* checksum and no other stream moves (keeper/anchoring.go:67-183).
ImplementsLedger == Ledger!Spec
=============================================================================
