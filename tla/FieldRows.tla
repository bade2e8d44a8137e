------------------------------- MODULE FieldRows -------------------------------
(***************************************************************************)
(* A row of a codec's table stands for the block of generated code that    *)
(* writes, or reads, one field of a message: n is the number the block     *)
(* names the field by (a byte offset in ABI data, the tag byte or the      *)
(* field number in protobuf), kind selects the block's shape, f is the     *)
(* field of the Go struct and t the type of an embedded message.           *)
(***************************************************************************)
Row(n, kind, f, t) == [n |-> n, kind |-> kind, f |-> f, t |-> t]

\* Single values.
U8(n, f) == Row(n, "uint8", f, "")
U64(n, f) == Row(n, "uint64", f, "")
U256(n, f) == Row(n, "uint256", f, "")
Bool(n, f) == Row(n, "bool", f, "")
Address(n, f) == Row(n, "address", f, "")
Str(n, f) == Row(n, "string", f, "")
Bytes(n, f) == Row(n, "bytes", f, "")
Enum(n, f) == Row(n, "enum", f, "")
Custom(n, f) == Row(n, "custom", f, "")

\* ABI: string[], a dynamic tuple, a tuple laid out in place, an array of tuples.
Strs(n, f) == Row(n, "strings", f, "")
Tuple(n, f, t) == Row(n, "tuple", f, t)
InPlace(n, f, t) == Row(n, "inplace", f, t)
Slice(n, f, t) == Row(n, "slice", f, t)

\* Protobuf: an embedded message, a pointer to one, a list of messages, a map
\* with number keys and message values, a map with string keys and byte values.
Msg(n, f, t) == Row(n, "message", f, t)
Ptr(n, f, t) == Row(n, "pointer", f, t)
List(n, f, t) == Row(n, "list", f, t)
MsgMap(n, f, t) == Row(n, "msgmap", f, t)
BytesMap(n, f) == Row(n, "bytesmap", f, "")
=============================================================================
