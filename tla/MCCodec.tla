--------------------------------- MODULE MCCodec ---------------------------------
(***************************************************************************)
(* A small instance of Codec for TLC: every message and tuple with all its *)
(* fields set, to values that differ, with none set, and with one field at *)
(* a time at the values where its encoding changes length.                 *)
(***************************************************************************)
EXTENDS Codec

\* One more than the longest string whose length takes one byte.
LongString == [i \in 1 .. 128 |-> 97]

RECURSIVE FullProto(_)
FullField(row, i) ==
    CASE row.kind = "uint64" -> 200 + i
      [] row.kind = "enum" -> 3
      [] row.kind = "bool" -> TRUE
      [] row.kind \in {"string", "bytes"} -> <<64 + i, 80 + i>>
      [] row.kind = "custom" -> 150
      [] row.kind \in {"message", "pointer"} -> FullProto(row.t)
      [] row.kind = "list" -> <<FullProto(row.t), Zero(row.t)>>
      [] row.kind = "msgmap" -> 0 :> Zero(row.t) @@ 300 :> FullProto(row.t)
      [] row.kind = "bytesmap" -> <<>> :> <<7>> @@ <<64 + i>> :> <<>>
FullProto(type) ==
    LET rows == ProtoUnmarshal[type]
        fields == {rows[i].f : i \in DOMAIN rows}
        at(f) == CHOOSE i \in DOMAIN rows : rows[i].f = f
    IN  [f \in fields |-> FullField(rows[at(f)], at(f))]

EdgeValues(row) ==
    CASE row.kind = "uint64" -> {0, 127, 128, MaxWord}
      [] row.kind = "enum" -> {0, 4, -1}
      [] row.kind = "bool" -> {FALSE}
      [] row.kind \in {"string", "bytes"} -> {<<>>, LongString}
      [] row.kind = "custom" -> {0, 9}
      [] row.kind = "pointer" -> {Nil}
      [] row.kind = "list" -> {<<>>, <<FullProto(row.t)>>}
      [] IsMap(row.kind) -> {<<>>}
      [] OTHER -> {}

ProtoTransfer(type, v, fault) == <<"proto", type, fault, v>>

\* No field set; a decimal is always a number.
RECURSIVE UnsetProto(_)
UnsetField(row) ==
    CASE row.kind = "custom" -> 0
      [] row.kind = "message" -> UnsetProto(row.t)
      [] OTHER -> ZeroOf(row)
UnsetProto(type) ==
    LET rows == ToSet(ProtoUnmarshal[type])
    IN  [f \in {row.f : row \in rows} |-> UnsetField(CHOOSE row \in rows : row.f = f)]

ProtoTransfers ==
    UNION {LET rows == ToSet(ProtoUnmarshal[type])
               full == FullProto(type)
           IN  {ProtoTransfer(type, full, fault) : fault \in {"none", "cut", "unknown"}}
               \cup {ProtoTransfer(type, UnsetProto(type), fault) :
                        fault \in {"none", "unknown"}}
               \cup UNION {{ProtoTransfer(type, [full EXCEPT ![row.f] = v], "none") :
                               v \in EdgeValues(row)} : row \in rows}
           : type \in DOMAIN ProtoUnmarshal}

-----------------------------------------------------------------------------
Text(words) == [len |-> 32 * Len(words) - 1, words |-> words]

RECURSIVE FullAbi(_, _)
FullAbiField(row, i) ==
    CASE row.kind = "uint8" -> 2
      [] row.kind \in {"uint64", "uint256", "address"} -> 300 + i
      [] row.kind = "bool" -> TRUE
      [] row.kind \in {"string", "bytes"} -> Text(<<400 + i>>)
      [] row.kind = "strings" -> <<Text(<<500 + i>>), NoString>>
      [] row.kind \in {"tuple", "inplace"} -> FullAbi(row.t, i)
      [] row.kind = "slice" -> <<FullAbi(row.t, 10), FullAbi(row.t, 20)>>
FullAbi(type, base) ==
    LET rows == AbiDecode[type].fields
        fields == {rows[i].f : i \in DOMAIN rows}
        at(f) == CHOOSE i \in DOMAIN rows : rows[i].f = f
    IN  [f \in fields |-> FullAbiField(rows[at(f)], base + at(f))]

AbiEdgeValues(row) ==
    CASE row.kind = "uint8" -> {0, MaxUint8}
      [] row.kind \in {"uint64", "uint256", "address"} -> {0, MaxUint64}
      [] row.kind = "bool" -> {FALSE}
      [] row.kind \in {"string", "bytes"} -> {NoString, Text(<<1, 2>>)}
      [] row.kind \in {"strings", "slice"} -> {<<>>}
      [] OTHER -> {}

AbiTransfer(type, v, fault) == <<"abi", type, fault, v>>

AbiTransfers ==
    UNION {LET full == FullAbi(type, 0)
           IN  {AbiTransfer(type, full, fault) :
                   fault \in {"none", "cut", "more", "changed"}}
               \cup UNION {{AbiTransfer(type, [full EXCEPT ![row.f] = v], "none") :
                               v \in AbiEdgeValues(row)} :
                              row \in ToSet(AbiDecode[type].fields)}
           : type \in DOMAIN AbiDecode}

-----------------------------------------------------------------------------
Caller == 77
Results(method) ==
    CASE method = "AddRecord" -> {[RecordId |-> 701, Index |-> 702]}
      [] method = "AddRegistry" -> {[RegistryId |-> 703]}
      [] method = "Records" ->
            {[Records |-> recs, Pagination |-> page] :
                recs \in {<<>>, <<FullAbi("Record", 30), FullAbi("Record", 40)>>},
                page \in {{}, {FullAbi("PageResponse", 50)}}}
      [] method \in {"Registries", "RegistriesByName"} ->
            {[Registries |-> regs, Pagination |-> page] :
                regs \in {<<>>, <<FullAbi("Registry", 30), FullAbi("Registry", 40)>>},
                page \in {{}, {FullAbi("PageResponse", 50)}}}
      [] OTHER -> {<<>>}

CallTransfers ==
    UNION {LET type == CallType(method)
               full == FullAbi(type, 0)
               argss == {full} \cup UNION {{[full EXCEPT ![row.f] = v] : v \in AbiEdgeValues(row)} :
                                              row \in ToSet(AbiDecode[type].fields)}
           IN  {<<"call", method, [caller |-> Caller, res |-> res], args>> :
                   args \in argss, res \in Results(method)}
           : method \in DOMAIN Methods}

MCTransfers == ProtoTransfers \cup AbiTransfers \cup CallTransfers
=============================================================================
