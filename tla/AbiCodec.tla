------------------------------- MODULE AbiCodec --------------------------------
(***************************************************************************)
(* ABI encoding as the generated tuples do it: a static part with one or   *)
(* more 32-byte words per field, dynamic fields behind it in the order     *)
(* they are written, each one found by an offset in the static part.       *)
(*                                                                         *)
(* Data is a sequence of words; a word is a number.  A string is its       *)
(* length in bytes and the words that hold its bytes.                      *)
(***************************************************************************)
EXTENDS AbiMessages, Integers, Sequences, SequencesExt, TLC

CONSTANTS
    MaxUint8, MaxUint64,    \* the highest values of the two widths
    MaxInt                  \* the highest length or offset DecodeSize takes

ASSUME WidthAssumption == {MaxUint8, MaxUint64, MaxInt} \subseteq Nat \ {0}

\* A failed decoding, and one that consumed n bytes.
NotDecoded == [ok |-> FALSE, v |-> 0, n |-> 0]
Decoded(v, n) == [ok |-> TRUE, v |-> v, n |-> n]

\* What an encoder returns that writes past its buffer.
Panics == <<-1>>

Zeros(n) == [i \in 1 .. n |-> 0]
Overwrite(buf, at, words) ==
    [i \in DOMAIN buf |-> IF i - at \in DOMAIN words THEN words[i - at] ELSE buf[i]]
From(data, at) == SubSeq(data, at \div 32 + 1, Len(data))

-----------------------------------------------------------------------------
(***************************************************************************)
(* The primitives of go-abi                                                *)
(***************************************************************************)

WordsFor(len) == (len + 31) \div 32
EncodeString(s) == <<s.len>> \o s.words

\* A length or an offset: a word that fits an int.
SizeFits(word) == word <= MaxInt

DecodeString(data) ==
    IF Len(data) < 1 \/ ~ SizeFits(data[1]) \/ Len(data) < 1 + WordsFor(data[1])
    THEN NotDecoded
    ELSE Decoded([len |-> data[1], words |-> SubSeq(data, 2, 1 + WordsFor(data[1]))],
                 32 * (1 + WordsFor(data[1])))

EncodeWord(kind, v) == IF kind = "bool" THEN IF v THEN 1 ELSE 0 ELSE v

DecodeWord(kind, data) ==
    IF \/ Len(data) < 1
       \/ kind = "bool" /\ data[1] \notin {0, 1}
       \/ kind = "uint8" /\ data[1] > MaxUint8
       \/ kind = "uint64" /\ data[1] > MaxUint64
    THEN NotDecoded
    ELSE Decoded(IF kind = "bool" THEN data[1] = 1 ELSE data[1], 32)

-----------------------------------------------------------------------------
(***************************************************************************)
(* Tuples and arrays                                                       *)
(***************************************************************************)

IsDynamic(kind) == kind \in {"string", "bytes", "strings", "tuple", "slice"}

Sum(ns) == FoldLeft(LAMBDA a, b : a + b, 0, ns)

RECURSIVE EncodedSize(_, _)
SizeOfField(row, v) ==
    CASE row.kind \in {"string", "bytes"} -> 32 * (1 + Len(v.words))
      [] row.kind = "strings" ->
            32 + Sum([i \in DOMAIN v |-> 32 + 32 * (1 + Len(v[i].words))])
      [] row.kind = "tuple" -> EncodedSize(row.t, v)
      [] row.kind = "slice" ->
            32 + 32 * Len(v) + Sum([i \in DOMAIN v |-> EncodedSize(row.t, v[i])])
EncodedSize(type, v) ==
    LET sizer == AbiEncodedSize[type]
    IN  sizer.static + Sum([i \in DOMAIN sizer.dynamic |->
                               SizeOfField(sizer.dynamic[i], v[sizer.dynamic[i].f])])

\* The offsets of the elements are counted from the length.
EncodeArrayFromLength(elems) ==
    LET start(i) == 32 + 32 * Len(elems) + Sum([j \in 1 .. i - 1 |-> 32 * Len(elems[j])])
    IN  <<Len(elems)>> \o [i \in DOMAIN elems |-> start(i)] \o FlattenSeq(elems)

\* An array of dynamic elements: the length, then an offset for each element,
\* counted from behind the length, then the elements.
EncodeArray(elems) ==
    LET start(i) == 32 * Len(elems) + Sum([j \in 1 .. i - 1 |-> 32 * Len(elems[j])])
    IN  <<Len(elems)>> \o [i \in DOMAIN elems |-> start(i)] \o FlattenSeq(elems)

RECURSIVE EncodeTo(_, _)
EncodeDynamic(row, v) ==
    CASE row.kind \in {"string", "bytes"} -> EncodeString(v)
      [] row.kind = "strings" -> EncodeArray([i \in DOMAIN v |-> EncodeString(v[i])])
      [] row.kind = "tuple" -> EncodeTo(row.t, v)
      [] row.kind = "slice" -> EncodeArray([i \in DOMAIN v |-> EncodeTo(row.t, v[i])])

\* A dynamic field writes its offset, which is where the dynamic data has come
\* to, and then its data there; a static field writes its words in place.
EncodeField(buf, row, v) ==
    IF IsDynamic(row.kind)
    THEN [buf EXCEPT ![row.n \div 32 + 1] = 32 * Len(buf)] \o EncodeDynamic(row, v)
    ELSE LET words == IF row.kind = "inplace" THEN EncodeTo(row.t, v)
                      ELSE <<EncodeWord(row.kind, v)>>
         IN  Overwrite(buf, row.n \div 32, words)
EncodeTo(type, v) ==
    FoldLeft(LAMBDA buf, row : EncodeField(buf, row, v[row.f]),
             Zeros(AbiEncodedSize[type].static \div 32), AbiEncodeTo[type])

\* Encode makes the buffer EncodedSize long: what does not fit panics, what is
\* not written stays zero.
Encode(type, v) ==
    LET size == EncodedSize(type, v) \div 32
        buf == EncodeTo(type, v)
    IN  IF Len(buf) > size THEN Panics ELSE buf \o Zeros(size - Len(buf))

\* An offset that is not compared with where the data has come to.
OffsetFitsAny(word, expected) == SizeFits(word)

\* An offset must be where the dynamic data has come to: "invalid offset".
OffsetFits(word, expected) == SizeFits(word) /\ word = expected

RECURSIVE AbiDecodeFrom(_, _)
DecodeElem(row, data) ==
    IF row.kind = "strings" THEN DecodeString(data) ELSE AbiDecodeFrom(row.t, data)

\* An array: its length must leave room for the offsets, and every element must
\* lie where the previous one ended.
DecodeArray(row, data) ==
    LET rest == Tail(data)
        step(acc, i) ==
            IF ~ acc.ok \/ ~ OffsetFits(rest[i], acc.n) THEN NotDecoded
            ELSE LET elem == DecodeElem(row, From(rest, acc.n))
                 IN  IF elem.ok THEN Decoded(Append(acc.v, elem.v), acc.n + elem.n)
                     ELSE NotDecoded
        all == FoldLeft(step, Decoded(<<>>, 32 * data[1]), [i \in 1 .. data[1] |-> i])
    IN  IF Len(data) < 1 THEN NotDecoded
        ELSE IF ~ SizeFits(data[1]) \/ data[1] > Len(rest) THEN NotDecoded
        ELSE IF all.ok THEN Decoded(all.v, all.n + 32) ELSE NotDecoded

DecodeDynamic(row, data) ==
    CASE row.kind \in {"string", "bytes"} -> DecodeString(data)
      [] row.kind = "tuple" -> AbiDecodeFrom(row.t, data)
      [] row.kind \in {"strings", "slice"} -> DecodeArray(row, data)

\* One field of Decode: acc holds the fields read and the offset the next
\* dynamic field must have.
DecodeField(acc, row, data) ==
    LET at == From(data, row.n)
        read == IF IsDynamic(row.kind)
                THEN IF OffsetFits(at[1], acc.n)
                     THEN DecodeDynamic(row, From(data, acc.n)) ELSE NotDecoded
                ELSE IF row.kind = "inplace" THEN AbiDecodeFrom(row.t, at)
                ELSE DecodeWord(row.kind, at)
    IN  IF ~ acc.ok THEN acc
        ELSE IF ~ read.ok THEN NotDecoded
        ELSE Decoded((row.f :> read.v) @@ acc.v,
                     acc.n + IF IsDynamic(row.kind) THEN read.n ELSE 0)
AbiDecodeFrom(type, data) ==
    LET decoder == AbiDecode[type]
    IN  IF 32 * Len(data) < decoder.min THEN NotDecoded
        ELSE FoldLeft(LAMBDA acc, row : DecodeField(acc, row, data),
                      Decoded(<<>>, decoder.min), decoder.fields)
=============================================================================
