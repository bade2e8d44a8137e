------------------------------ MODULE RecordLedger ------------------------------
(***************************************************************************)
(* What x/anchoring promises about records, without ids, indexes or flags: *)
(* "records are versioned per checksum within a registry".  A registry and *)
(* a checksum name a stream, a stream is a sequence of versions that only  *)
(* grows at its end, and of an existing version only the status changes.   *)
(***************************************************************************)
EXTENDS Naturals, Sequences

CONSTANTS RegistryIds, Checksum, Status

VARIABLE streams    \* registry, checksum => sequence of statuses

Extended(key, status) ==
    [k \in DOMAIN streams \cup {key} |->
        IF k # key THEN streams[k]
        ELSE IF key \in DOMAIN streams THEN Append(streams[key], status)
             ELSE <<status>>]

Init == DOMAIN streams = {}

AppendVersion(key, status) == streams' = Extended(key, status)

SetStatus(key, index, status) ==
    /\ key \in DOMAIN streams
    /\ index \in DOMAIN streams[key]
    /\ streams' = [streams EXCEPT ![key][index] = status]

Next ==
    \E key \in RegistryIds \X Checksum, status \in Status :
       \/ AppendVersion(key, status)
       \/ key \in DOMAIN streams /\ \E index \in DOMAIN streams[key] :
             SetStatus(key, index, status)

Spec == Init /\ [][Next]_streams
=============================================================================
