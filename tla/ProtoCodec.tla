------------------------------- MODULE ProtoCodec -------------------------------
(***************************************************************************)
(* Protobuf as the generated code does it: MarshalToSizedBuffer writes     *)
(* from the end of a buffer whose length Size computed, Unmarshal reads    *)
(* one field per turn of its loop, skip steps over fields it does not      *)
(* know.  Data is a sequence of bytes; positions count from 0 as in the    *)
(* code.  A word has WordBits bits in place of 64; both leave one bit to   *)
(* the last byte of the longest varint.                                    *)
(***************************************************************************)
EXTENDS ProtoMessages, Integers, Sequences, SequencesExt, FiniteSetsExt,
        Bitwise, TLC

CONSTANTS
    WordBits,       \* the width of uint64 and int
    Int32Bits,      \* the width of int32
    Nil             \* a nil pointer, and a decimal without a number

ASSUME WordAssumption == WordBits % 7 = 1 /\ Int32Bits \in 5 .. WordBits - 4

VarintMax == (WordBits + 6) \div 7
MaxWord == 2 ^ WordBits - 1

\* The conversions int(x) and int32(x), and the sum of two ints.
AsInt(x) == IF x < 2 ^ (WordBits - 1) THEN x ELSE x - 2 ^ WordBits
AsInt32(x) ==
    LET low == x % 2 ^ Int32Bits
    IN  IF low < 2 ^ (Int32Bits - 1) THEN low ELSE low - 2 ^ Int32Bits
IntSum(x, y) == AsInt(x + y)
AsUint(x) == x % 2 ^ WordBits

Failed == [ok |-> FALSE, v |-> 0, at |-> 0]
Read(v, at) == [ok |-> TRUE, v |-> v, at |-> at]
Panicked == <<-1>>

FillBytes(n) == [i \in 1 .. n |-> 0]
After(data, at) == SubSeq(data, at + 1, Len(data))

-----------------------------------------------------------------------------
(***************************************************************************)
(* Varints                                                                 *)
(***************************************************************************)

sov(x) == Min({n \in 1 .. VarintMax : n = VarintMax \/ x < 2 ^ (7 * n)})

RECURSIVE VarintOf(_)
VarintOf(v) == IF v >= 128 THEN <<(v % 128) + 128>> \o VarintOf(v \div 128) ELSE <<v>>

\* The loop runs forward from sov(v) bytes before the data already written.
encodeVarint(buf, v) ==
    LET bytes == VarintOf(v)
        room == sov(v)
    IN  IF Len(bytes) <= room THEN bytes \o FillBytes(room - Len(bytes)) \o buf
        ELSE bytes \o After(buf, Len(bytes) - room)

\* The loop every number, tag and length is read with: seven bits a byte, the
\* bits that do not fit the word dropped, an error where the data ends or after
\* the last byte a word has.
ReadVarint(data, at) ==
    LET ends == {k \in 1 .. VarintMax : at + k <= Len(data) /\ data[at + k] < 128}
        bits(k) == data[at + k] % 2 ^ Min({7, WordBits - 7 * (k - 1)})
    IN  IF ends = {} THEN Failed
        ELSE Read(FoldLeft(LAMBDA a, k : a + bits(k) * 2 ^ (7 * (k - 1)), 0,
                           [k \in 1 .. Min(ends) |-> k]),
                  at + Min(ends))

\* The part a length announces, cut to the data there is.
PartClipped(data, length) ==
    LET post == IntSum(length.at, AsInt(length.v))
    IN  IF ~ length.ok \/ AsInt(length.v) < 0 \/ post < 0 THEN Failed
        ELSE Read(Min({post, Len(data)}), length.at)

\* The bytes behind a length that was read: v is where they end.
Part(data, length) ==
    LET post == IntSum(length.at, AsInt(length.v))
    IN  IF \/ ~ length.ok
           \/ AsInt(length.v) < 0
           \/ post < 0
           \/ post > Len(data)
        THEN Failed ELSE Read(post, length.at)

\* A length that may reach behind the data.
ReadLengthClipped(data, at) == PartClipped(data, ReadVarint(data, at))

\* A length and the bytes it announces.
ReadLength(data, at) == Part(data, ReadVarint(data, at))

\* Where a field of this wire type ends, given its tag and the number behind it; a
\* tag that opens or closes a group is a step of its own.
EndOfField(wireType, tag, number) ==
    CASE wireType = 0 -> number.at
      [] wireType = 1 -> tag.at + 8
      [] wireType = 2 -> IntSum(number.at, AsInt(number.v))
      [] wireType = 5 -> tag.at + 4
      [] OTHER -> tag.at

InGroups(wireType, depth) ==
    CASE wireType = 3 -> depth + 1 [] wireType = 4 -> depth - 1 [] OTHER -> depth

CanSkip(wireType, number, inside, next) ==
    /\ wireType \notin {6, 7}
    /\ wireType \in {0, 2} => number.ok
    /\ wireType = 2 => AsInt(number.v) >= 0
    /\ inside >= 0 /\ next >= 0

\* The end of the field data begins with, whatever it is.
RECURSIVE SkipFrom(_, _, _)
SkipOver(data, inside, next) ==
    IF inside = 0 THEN Read(0, next) ELSE SkipFrom(data, next, inside)
SkipNumber(data, depth, tag, number) ==
    LET wireType == tag.v % 8
        next == EndOfField(wireType, tag, number)
        inside == InGroups(wireType, depth)
    IN  IF CanSkip(wireType, number, inside, next) THEN SkipOver(data, inside, next)
        ELSE Failed
SkipTagged(data, depth, tag) ==
    IF tag.ok THEN SkipNumber(data, depth, tag, ReadVarint(data, tag.at)) ELSE Failed
SkipFrom(data, at, depth) ==
    IF at >= Len(data) THEN Failed ELSE SkipTagged(data, depth, ReadVarint(data, at))

\* A group ends with its tag.
skipNoGroups(data) ==
    IF Len(data) > 0 /\ data[1] % 8 = 3 THEN Read(0, 1) ELSE SkipFrom(data, 0, 0)

skip(data) == SkipFrom(data, 0, 0)

-----------------------------------------------------------------------------
(***************************************************************************)
(* Writing.  A map is a function, and the loop over it may meet its keys   *)
(* in any order: ord gives, for every map field, the order it met them in. *)
(***************************************************************************)

IsMap(kind) == kind \in {"msgmap", "bytesmap"}

RECURSIVE Digits(_)
Digits(n) == IF n < 10 THEN <<48 + n>> ELSE Digits(n \div 10) \o <<48 + (n % 10)>>

\* The text of a decimal; one without a number writes zero.
DecimalText(dec) == IF dec = Nil THEN Digits(0) ELSE Digits(dec)

Tagged(tag, bytes) == <<tag>> \o bytes
Delimited(tag, bytes, buf) == Tagged(tag, encodeVarint(bytes \o buf, Len(bytes)))

\* What a field with this value is left out of the data for.
IsAbsent(row, v) ==
    CASE row.kind \in {"string", "bytes", "list"} -> Len(v) = 0
      [] IsMap(row.kind) -> DOMAIN v = {}
      [] row.kind \in {"uint64", "enum"} -> v = 0
      [] row.kind = "bool" -> ~ v
      [] row.kind = "pointer" -> v = Nil
      [] OTHER -> FALSE

\* An entry of a map is a message of its own; an empty byte value is left out.
BytesEntry(key, v) ==
    Delimited(\h0a, key, IF Len(v) > 0 THEN Delimited(\h12, v, <<>>) ELSE <<>>)

RECURSIVE MarshalToSizedBuffer(_, _, _)
WriteField(buf, row, v, ord) ==
    LET message(m) == MarshalToSizedBuffer(row.t, m, ord)
        msgEntry(key) == Tagged(\h08, encodeVarint(Delimited(\h12, message(v[key]), <<>>), key))
    IN  CASE row.kind \in {"string", "bytes"} -> Delimited(row.n, v, buf)
          [] row.kind \in {"uint64", "enum"} -> Tagged(row.n, encodeVarint(buf, AsUint(v)))
          [] row.kind = "bool" -> <<row.n, 1>> \o buf
          [] row.kind = "custom" -> Delimited(row.n, DecimalText(v), buf)
          [] row.kind \in {"message", "pointer"} -> Delimited(row.n, message(v), buf)
          [] row.kind = "list" ->
                FoldRight(LAMBDA m, b : Delimited(row.n, message(m), b), v, buf)
          [] row.kind = "msgmap" ->
                FoldLeft(LAMBDA b, key : Delimited(row.n, msgEntry(key), b), buf, ord[row.f])
          [] row.kind = "bytesmap" ->
                FoldLeft(LAMBDA b, key : Delimited(row.n, BytesEntry(key, v[key]), b),
                         buf, ord[row.f])
MarshalToSizedBuffer(type, v, ord) ==
    FoldLeft(LAMBDA buf, row : IF IsAbsent(row, v[row.f]) THEN buf
                               ELSE WriteField(buf, row, v[row.f], ord),
             <<>>, ProtoMarshal[type])

-----------------------------------------------------------------------------
SumOf(ns) == FoldLeft(LAMBDA a, b : a + b, 0, ns)
SumOver(S, Op(_)) == FoldSet(LAMBDA x, a : Op(x) + a, 0, S)

\* The size of l bytes with their length in front.
Counted(l) == l + sov(l)

BytesEntrySize(key, v) ==
    1 + Counted(Len(key)) + IF Len(v) > 0 THEN 1 + Counted(Len(v)) ELSE 0

RECURSIVE Size(_, _)
FieldSize(row, v) ==
    LET msgEntry(key) == 1 + sov(key) + 1 + Counted(Size(row.t, v[key]))
    IN  CASE row.kind \in {"string", "bytes"} -> row.n + Counted(Len(v))
          [] row.kind \in {"uint64", "enum"} -> row.n + sov(AsUint(v))
          [] row.kind = "bool" -> row.n + 1
          [] row.kind = "custom" -> row.n + Counted(Len(DecimalText(v)))
          [] row.kind \in {"message", "pointer"} -> row.n + Counted(Size(row.t, v))
          [] row.kind = "list" ->
                SumOf([i \in DOMAIN v |-> row.n + Counted(Size(row.t, v[i]))])
          [] row.kind = "msgmap" ->
                SumOver(DOMAIN v, LAMBDA key : row.n + Counted(msgEntry(key)))
          [] row.kind = "bytesmap" ->
                SumOver(DOMAIN v, LAMBDA key : row.n + Counted(BytesEntrySize(key, v[key])))
Size(type, v) ==
    SumOf([i \in DOMAIN ProtoSize[type] |->
              LET row == ProtoSize[type][i]
              IN  IF IsAbsent(row, v[row.f]) THEN 0 ELSE FieldSize(row, v[row.f])])

\* Marshal returns the first n bytes of a buffer of Size bytes into whose end n
\* bytes were written.
Marshal(type, v, ord) ==
    LET bytes == MarshalToSizedBuffer(type, v, ord)
        size == Size(type, v)
    IN  IF Len(bytes) > size THEN Panicked
        ELSE SubSeq(FillBytes(size - Len(bytes)) \o bytes, 1, Len(bytes))

-----------------------------------------------------------------------------
(***************************************************************************)
(* Reading                                                                 *)
(***************************************************************************)

\* A message before anything is read into it.
RECURSIVE Zero(_)
ZeroOf(row) ==
    CASE row.kind \in {"uint64", "enum"} -> 0
      [] row.kind = "bool" -> FALSE
      [] row.kind \in {"pointer", "custom"} -> Nil
      [] row.kind = "message" -> Zero(row.t)
      [] OTHER -> <<>>
Zero(type) ==
    LET rows == ToSet(ProtoUnmarshal[type])
    IN  [f \in {row.f : row \in rows} |-> ZeroOf(CHOOSE row \in rows : row.f = f)]

DecimalFrom(bytes) ==
    IF bytes = <<>> THEN Read(Nil, 0)
    ELSE IF ToSet(bytes) \subseteq 48 .. 57
    THEN Read(FoldLeft(LAMBDA n, b : 10 * n + (b - 48), 0, bytes), 0) ELSE Failed

WireType(kind) == IF kind \in {"uint64", "enum", "bool"} THEN 0 ELSE 2

\* The position behind a skipped field, wherever that is.
SkippedAnywhere(at, v, skipped) ==
    IF ~ skipped.ok \/ IntSum(at, skipped.at) < 0 THEN Failed
    ELSE Read(v, at + skipped.at)
\* The position behind a skipped field, which must not be behind end.
Skipped(at, end, v, skipped) ==
    IF ~ skipped.ok \/ IntSum(at, skipped.at) < 0 \/ IntSum(at, skipped.at) > end THEN Failed
    ELSE Read(v, at + skipped.at)

\* An unknown field is stepped over wherever it ends.
SkipFieldAnywhere(data, at, end, v) == SkippedAnywhere(at, v, skip(After(data, at)))

\* An unknown field is stepped over if it ends before the end of what is read.
SkipField(data, at, end, v) == Skipped(at, end, v, skip(After(data, at)))

RECURSIVE Unmarshal(_, _, _)

\* The message in the data up to end, read into m.
ReadMessage(type, data, at, end, m) == Unmarshal(type, SubSeq(data, at + 1, end), m)

\* The entry of a map: e is its key and its value so far.  Wire types are not
\* looked at, the parts are held to the end of the data and not of the entry,
\* and the bits of a number key are added to those read before.
NewEntry(row) == IF row.kind = "msgmap" THEN <<0, Zero(row.t)>> ELSE <<<<>>, <<>>>>

NumberKey(e, number) ==
    IF number.ok THEN Read(<<e[1] | number.v, e[2]>>, number.at) ELSE Failed
BytesPart(e, i, data, part) ==
    IF part.ok THEN Read([e EXCEPT ![i] = SubSeq(data, part.at + 1, part.v)], part.v)
    ELSE Failed
MessageValue(e, end, m) == IF m.ok THEN Read(<<e[1], m.v>>, end) ELSE Failed
MessagePart(row, data, e, part) ==
    IF part.ok
    THEN MessageValue(e, part.v, ReadMessage(row.t, data, part.at, part.v, Zero(row.t)))
    ELSE Failed

EntryField(row, data, at, end, e, tag) ==
    LET fieldNum == AsInt32(tag.v \div 8)
    IN  IF ~ tag.ok THEN Failed
        ELSE IF fieldNum \notin {1, 2} THEN SkipField(data, at, end, e)
        ELSE IF row.kind = "bytesmap"
        THEN BytesPart(e, fieldNum, data, ReadLength(data, tag.at))
        ELSE IF fieldNum = 1 THEN NumberKey(e, ReadVarint(data, tag.at))
        ELSE MessagePart(row, data, e, ReadLength(data, tag.at))

RECURSIVE ReadEntry(_, _, _, _)
NextInEntry(row, data, end, field) ==
    IF field.ok THEN ReadEntry(row, data, end, field) ELSE Failed
ReadEntry(row, data, end, e) ==
    IF e.at >= end THEN e
    ELSE NextInEntry(row, data, end,
                     EntryField(row, data, e.at, end, e.v, ReadVarint(data, e.at)))

\* The message a part is read into: a list gets a new element.
Target(row, old) ==
    IF row.kind = "message" \/ (row.kind = "pointer" /\ old # Nil) THEN old ELSE Zero(row.t)

\* The value of the field, where old is the one it had, once its message or its
\* entry is read.
WithMessage(row, old, m) ==
    IF m.ok /\ row.kind = "list" THEN Read(Append(old, m.v), m.at) ELSE m
WithEntry(old, entry) ==
    IF entry.ok THEN Read((entry.v[1] :> entry.v[2]) @@ old, entry.at) ELSE Failed

\* The value a field has once the part of the data from at to end is read.
ReadBytes(row, data, at, end, old) ==
    CASE row.kind \in {"string", "bytes"} -> Read(SubSeq(data, at + 1, end), end)
      [] row.kind = "custom" -> DecimalFrom(SubSeq(data, at + 1, end))
      [] row.kind \in {"message", "pointer", "list"} ->
            WithMessage(row, old, ReadMessage(row.t, data, at, end, Target(row, old)))
      [] IsMap(row.kind) ->
            WithEntry(old, ReadEntry(row, data, end, Read(NewEntry(row), at)))

\* The message m once a number, or the bytes of a part, are in the row's field.
NumberField(row, m, number) ==
    LET value == CASE row.kind = "bool" -> number.v # 0
                   [] row.kind = "enum" -> AsInt32(number.v)
                   [] OTHER -> number.v
    IN  IF number.ok THEN Read([m EXCEPT ![row.f] = value], number.at) ELSE Failed
BytesField(row, m, end, read) ==
    IF read.ok THEN Read([m EXCEPT ![row.f] = read.v], end) ELSE Failed
PartField(row, data, m, part) ==
    IF part.ok
    THEN BytesField(row, m, part.v, ReadBytes(row, data, part.at, part.v, m[row.f]))
    ELSE Failed

KnownField(row, data, m, tag) ==
    IF tag.v % 8 # WireType(row.kind) THEN Failed
    ELSE IF WireType(row.kind) = 0 THEN NumberField(row, m, ReadVarint(data, tag.at))
    ELSE PartField(row, data, m, ReadLength(data, tag.at))

TaggedField(type, data, at, m, tag) ==
    LET fieldNum == AsInt32(tag.v \div 8)
        known == {row \in ToSet(ProtoUnmarshal[type]) : row.n = fieldNum}
    IN  IF ~ tag.ok \/ tag.v % 8 = 4 \/ fieldNum <= 0 THEN Failed
        ELSE IF known = {} THEN SkipField(data, at, Len(data), m)
        ELSE KnownField(CHOOSE row \in known : TRUE, data, m, tag)

\* One turn of Unmarshal's loop: the field at position at, read into m.
ReadField(type, data, at, m) == TaggedField(type, data, at, m, ReadVarint(data, at))

RECURSIVE UnmarshalFrom(_, _, _)
NextField(type, data, field) ==
    IF field.ok THEN UnmarshalFrom(type, data, field) ELSE Failed
UnmarshalFrom(type, data, m) ==
    IF m.at >= Len(data) THEN m
    ELSE NextField(type, data, ReadField(type, data, m.at, m.v))
Unmarshal(type, data, m) == UnmarshalFrom(type, data, Read(m, 0))
=============================================================================
