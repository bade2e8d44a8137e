---------------------------------- MODULE Codec ----------------------------------
(***************************************************************************)
(* Values on their way through the generated codecs.  A transfer is one of *)
(*   proto   a message marshalled by one party and unmarshalled, field by  *)
(*           field, by another;                                            *)
(*   abi     a tuple encoded and decoded;                                  *)
(*   call    a call of the precompile: arguments, request, answer, log.    *)
(* What travels may be cut short, carry fields the reader does not know,   *)
(* or have one word changed or words added.                                *)
(***************************************************************************)
EXTENDS PrecompileCalls, ProtoCodec

CONSTANTS
    Transfers,      \* the transfers <<codec, type, how, value>>: how is the fault of
                    \* a message or tuple, the caller and the module's answer of a call
    NewFieldNumber, \* a field number no message has yet
    StrayWords      \* the words a changed word may become

VARIABLES
    job,            \* the transfer
    stage,          \* "start", "sent", "served", "done"
    wire,           \* the data in transit
    out             \* the reader's position and what it has read

vars == <<job, stage, wire, out>>

Init ==
    /\ \E t \in Transfers :
          job = [codec |-> t[1], type |-> t[2], how |-> t[3], v |-> t[4]]
    /\ stage = "start"
    /\ wire = <<>>
    /\ out = Failed

-----------------------------------------------------------------------------
(***************************************************************************)
(* Protobuf                                                                *)
(***************************************************************************)

\* The orders in which Marshal may meet the keys of the maps of a message.
MapOrders(type, v) ==
    LET maps == {row.f : row \in {r \in ToSet(ProtoMarshal[type]) : IsMap(r.kind)}}
        orders(f) == SetToSeqs(DOMAIN v[f])
    IN  FoldSet(LAMBDA f, ords : {(f :> o) @@ ord : o \in orders(f), ord \in ords},
                {<<>>}, maps)

\* The positions at which a field starts, and the end of the data.
RECURSIVE FieldStarts(_, _, _)
FieldStarts(type, data, at) ==
    IF at >= Len(data) THEN {at}
    ELSE LET field == ReadField(type, data, at, Zero(type))
         IN  {at} \cup IF field.ok THEN FieldStarts(type, data, field.at) ELSE {}

\* A field of each wire type: a number, eight bytes, a string, a group, four bytes.
FieldsNumbered(n) ==
    {<<8 * n, 133, 1>>,
     <<8 * n + 1, 1, 2, 3, 4, 5, 6, 7, 8>>,
     <<8 * n + 2, 2, 120, 121>>,
     <<8 * n + 3, 8, 1, 18, 1, 120, 8 * n + 4>>,
     <<8 * n + 5, 1, 2, 3, 4>>}

\* Field 1 is unknown to Record: the first version kept the registry's name there.
UnknownFields(type) ==
    UNION {FieldsNumbered(n) :
              n \in {1, NewFieldNumber} \ {row.n : row \in ToSet(ProtoUnmarshal[type])}}

Arrivals(type, data, fault) ==
    CASE fault = "none" -> {data}
      [] fault = "cut" ->
            {SubSeq(data, 1, n) : n \in 0 .. Len(data) - 1} \cup
            UNION {{data \o SubSeq(field, 1, n) : n \in 1 .. Len(field) - 1} :
                      field \in UnknownFields(type)}
      [] fault = "unknown" ->
            {SubSeq(data, 1, at) \o field \o After(data, at) :
                at \in FieldStarts(type, data, 0), field \in UnknownFields(type)}

SendProto ==
    /\ stage = "start" /\ job.codec = "proto"
    /\ \E ord \in MapOrders(job.type, job.v) :
          wire' \in Arrivals(job.type, Marshal(job.type, job.v, ord), job.how)
    /\ out' = Read(Zero(job.type), 0)
    /\ stage' = "sent"
    /\ UNCHANGED job

ReadProto ==
    /\ stage = "sent" /\ job.codec = "proto"
    /\ out.at < Len(wire)
    /\ out' = ReadField(job.type, wire, out.at, out.v)
    /\ stage' = IF out'.ok THEN "sent" ELSE "done"
    /\ UNCHANGED <<job, wire>>

\* The loop is left: a position behind the data is an error.
EndProto ==
    /\ stage = "sent" /\ job.codec = "proto"
    /\ out.at >= Len(wire)
    /\ out' = IF out.at > Len(wire) THEN Failed ELSE out
    /\ stage' = "done"
    /\ UNCHANGED <<job, wire>>

-----------------------------------------------------------------------------
(***************************************************************************)
(* ABI tuples                                                              *)
(***************************************************************************)

AbiArrivals(data, fault) ==
    CASE fault = "none" -> {data}
      [] fault = "cut" -> {SubSeq(data, 1, n) : n \in 0 .. Len(data) - 1}
      [] fault = "more" -> {data \o <<word>> : word \in StrayWords}
      [] fault = "changed" ->
            {[data EXCEPT ![i] = word] : i \in DOMAIN data, word \in StrayWords}

SendAbi ==
    /\ stage = "start" /\ job.codec = "abi"
    /\ wire' \in AbiArrivals(Encode(job.type, job.v), job.how)
    /\ stage' = "sent"
    /\ UNCHANGED <<job, out>>

ReadAbi ==
    /\ stage = "sent" /\ job.codec = "abi"
    /\ out' = AbiDecodeFrom(job.type, wire)
    /\ stage' = "done"
    /\ UNCHANGED <<job, wire>>

-----------------------------------------------------------------------------
(***************************************************************************)
(* Calls                                                                   *)
(***************************************************************************)

SendCall ==
    /\ stage = "start" /\ job.codec = "call"
    /\ wire' = EncodeWithSelector(job.type, job.v)
    /\ stage' = "sent"
    /\ UNCHANGED <<job, out>>

\* Execute: out becomes the requests the module got, none where the call is refused,
\* and wire its answer.
ExecuteCall ==
    /\ stage = "sent" /\ job.codec = "call"
    /\ LET handlers == Handlers(SplitMethodID(wire))
           input(h) == AbiDecodeFrom(CallType(h), wire.data)
           requests == {<<h, r>> : h \in handlers, r \in UNION
                          {IF input(h).ok THEN Request(h, input(h).v, job.how.caller) ELSE {} :
                              h \in handlers}}
       IN  /\ out' = [requests |-> requests, ret |-> NotDecoded, events |-> {}]
           /\ IF requests = {} THEN stage' = "done" /\ UNCHANGED wire
              ELSE /\ stage' = "served"
                   /\ \E h \in handlers :
                         wire' = Answer(h, input(h).v, job.how.caller, job.how.res)
    /\ UNCHANGED job

ReceiveCall ==
    /\ stage = "served" /\ job.codec = "call"
    /\ out' = [requests |-> out.requests,
               ret |-> IF ReturnType(job.type) = "" THEN Decoded(<<>>, 0)
                       ELSE AbiDecodeFrom(ReturnType(job.type), wire.data),
               events |-> {DecodeEvent(job.type, log) : log \in wire.logs}]
    /\ stage' = "done"
    /\ UNCHANGED <<job, wire>>

Next == SendProto \/ ReadProto \/ EndProto \/ SendAbi \/ ReadAbi
        \/ SendCall \/ ExecuteCall \/ ReceiveCall

Spec == Init /\ [][Next]_vars

-----------------------------------------------------------------------------
(***************************************************************************)
(* Properties                                                              *)
(***************************************************************************)

Arrived(codec, faults) == stage = "done" /\ job.codec = codec /\ job.how \in faults

\* What Marshal writes, in whatever order it met the keys of a map, is as long as
\* Size said and Unmarshal reads the same message from it: the three generated
\* functions of every message agree on its fields, tags and lengths, up to the
\* longest number and lengths that need two bytes
\* (x/anchoring/types/document.pb.go:336-575, 583-1130, and the like).
ProtoRoundTrip ==
    Arrived("proto", {"none"}) =>
        out.ok /\ out.v = job.v /\ Len(wire) = Size(job.type, job.v)

\* A field that is no part of the message, of any wire type and wherever it stands,
\* changes nothing: a record of the first version, with the registry's name in
\* field 1, and a message of a later version are read with every field they share
\* (x/anchoring/types/document.pb.go:1115-1130, 1131-1208).
UnknownFieldsIgnored ==
    Arrived("proto", {"unknown"}) => out.ok /\ out.v = job.v

\* Data that was cut short is refused or read as the fields that arrived whole: no
\* field gets part of its value, no list element or map entry is half there
\* (x/anchoring/types/document.pb.go:583-1130, genesis.pb.go:393-665).
WholeFieldsOnly ==
    Arrived("proto", {"cut"}) /\ out.ok =>
        \A row \in ToSet(ProtoUnmarshal[job.type]) :
            LET got == out.v[row.f]
                sent == job.v[row.f]
            IN  \/ got = sent
                \/ got = ZeroOf(row)
                \/ row.kind = "list" /\ IsPrefix(got, sent)
                \/ IsMap(row.kind) /\ \A k \in DOMAIN got : k \in DOMAIN sent /\ got[k] = sent[k]

\* Encode writes exactly EncodedSize bytes, Decode reads the same tuple from them
\* and reports that many bytes, with or without data behind them
\* (x/anchoring/precompile/anchoring.abi.go:499-604 and the tuples' methods).
AbiRoundTrip ==
    Arrived("abi", {"none", "more"}) =>
        /\ out.ok /\ out.v = job.v
        /\ out.n = EncodedSize(job.type, job.v)
        /\ job.how = "none" => 32 * Len(wire) = out.n

\* A tuple has one encoding: data that was cut short is refused, and data with one
\* word changed is refused or is exactly what Encode writes for the tuple read
\* from it.  Offsets that point elsewhere, overlap or leave gaps are never followed
\* (x/anchoring/precompile/anchoring.abi.go:567-604 and every Decode).
AbiCanonical ==
    /\ Arrived("abi", {"cut"}) => ~ out.ok
    /\ Arrived("abi", {"changed"}) /\ out.ok =>
          Encode(job.type, out.v) = SubSeq(wire, 1, out.n \div 32)

\* The names under which the module knows the arguments of a call.
ModuleName(f) ==
    CASE f = "Account" -> "Address" [] f = "MatchMode" -> "Mode" [] OTHER -> f
ModuleValue(f, v) == IF f = "Account" THEN BytesToString(v) ELSE v
SignerFields == {"Sender", "Editor", "Admin"}

\* A call reaches the one handler it names, once, with every argument under the
\* module's name for it and its caller as the signer; it is refused only for a match
\* mode that does not exist or for revoking no role
\* (x/anchoring/precompile/anchoring.go:94-143, 260-517).
CallsCarryArguments ==
    stage = "done" /\ job.codec = "call" =>
        LET refused == \/ job.type = "RegistriesByName" /\ job.v.MatchMode > 4
                       \/ job.type = "RevokeRole" /\ job.v.Role.len = 0
        IN  /\ refused <=> out.requests = {}
            /\ \A r \in out.requests :
                  /\ r[1] = job.type
                  /\ \A f \in DOMAIN job.v :
                        r[2][ModuleName(f)] = ModuleValue(f, job.v[f])
                  /\ \A f \in SignerFields \cap DOMAIN r[2] :
                        r[2][f] = BytesToString(job.how.caller)

\* The client reads the module's answer from the return data, and from the log of a
\* transaction who called it, the numbers the module gave out and, for the rest,
\* the arguments of the call under their own names
\* (x/anchoring/precompile/anchoring.go:260-517, events.go:19-61).
AnswersCarryResults ==
    stage = "done" /\ job.codec = "call" /\ out.requests # {} =>
        LET args == IF job.type = "AddRecord" THEN job.v.Record ELSE job.v
            page(p) == IF p = {} THEN [NextKey |-> NoString, Total |-> 0]
                       ELSE CHOOSE x \in p : TRUE
        IN  /\ out.ret.ok
            /\ \A f \in DOMAIN out.ret.v :
                  out.ret.v[f] = IF f = "Pagination" THEN page(job.how.res[f]) ELSE job.how.res[f]
            /\ Cardinality(out.events) = IF job.type \in DOMAIN Events THEN 1 ELSE 0
            /\ \A e \in out.events :
                  /\ e.ok /\ e.v.caller = job.how.caller
                  /\ \A f \in DOMAIN e.v.data :
                        e.v.data[f] = IF f \in DOMAIN job.how.res THEN job.how.res[f] ELSE args[f]

\* Unmarshal's loop ends: a turn gives up, or leaves the position further on and not
\* behind the end of the data, also when it skips a field
\* (x/anchoring/types/document.pb.go:1115-1130).
EachTurnAdvances ==
    stage = "sent" /\ job.codec = "proto" /\ out.at < Len(wire) =>
        LET turn == ReadField(job.type, wire, out.at, out.v)
        IN  turn.ok => turn.at \in out.at + 1 .. Len(wire)
=============================================================================
