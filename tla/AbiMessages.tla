------------------------------ MODULE AbiMessages ------------------------------
(***************************************************************************)
(* The tuples of the anchoring precompile as go-abi generated them: for    *)
(* each one what EncodedSize adds up, what EncodeTo writes and what Decode *)
(* reads, in the order of the generated statements.  The three tables of a *)
(* tuple come from three functions; that they agree is what AbiCodec and   *)
(* Codec check.  Offsets are in bytes.                                     *)
(***************************************************************************)
EXTENDS FieldRows

\* The static size, and what is added for the dynamic fields.
Sizer(static, dynamic) == [static |-> static, dynamic |-> dynamic]
SizeString(f) == Row(0, "string", f, "")
SizeBytes(f) == Row(0, "bytes", f, "")
SizeStringSlice(f) == Row(0, "strings", f, "")
SizeTuple(f, t) == Row(0, "tuple", f, t)
SizeSlice(f, t) == Row(0, "slice", f, t)

\* The least length of the data, where the dynamic data must start, and the
\* fields in the order they are read.
Decoder(min, fields) == [min |-> min, fields |-> fields]
-----------------------------------------------------------------------------
(***************************************************************************)
(* precompiles/common.abi.go: the shared tuples.                           *)
(***************************************************************************)

CoinEncodedSize == Sizer(64, <<SizeString("Denom")>>)
CoinEncodeTo == <<Str(0, "Denom"), U256(32, "Amount")>>
CoinDecode == Decoder(64, <<Str(0, "Denom"), U256(32, "Amount")>>)

DecEncodedSize == Sizer(64, <<>>)
DecEncodeTo == <<U256(0, "Value"), U8(32, "Precision")>>
DecDecode == Decoder(64, <<U256(0, "Value"), U8(32, "Precision")>>)

DecCoinEncodedSize == Sizer(96, <<SizeString("Denom")>>)
DecCoinEncodeTo == <<Str(0, "Denom"), U256(32, "Amount"), U8(64, "Precision")>>
DecCoinDecode == Decoder(96,
    <<Str(0, "Denom"), U256(32, "Amount"), U8(64, "Precision")>>)

HeightEncodedSize == Sizer(64, <<>>)
HeightEncodeTo == <<U64(0, "RevisionNumber"), U64(32, "RevisionHeight")>>
HeightDecode == Decoder(64, <<U64(0, "RevisionNumber"), U64(32, "RevisionHeight")>>)

ICS20AllocationEncodedSize == Sizer(160,
    <<SizeString("SourcePort"), SizeString("SourceChannel"),
      SizeSlice("SpendLimit", "Coin"), SizeStringSlice("AllowList"),
      SizeStringSlice("AllowedPacketData")>>)
ICS20AllocationEncodeTo ==
    <<Str(0, "SourcePort"), Str(32, "SourceChannel"),
      Slice(64, "SpendLimit", "Coin"), Strs(96, "AllowList"),
      Strs(128, "AllowedPacketData")>>
ICS20AllocationDecode == Decoder(160,
    <<Str(0, "SourcePort"), Str(32, "SourceChannel"),
      Slice(64, "SpendLimit", "Coin"), Strs(96, "AllowList"),
      Strs(128, "AllowedPacketData")>>)

PageRequestEncodedSize == Sizer(160, <<SizeBytes("Key")>>)
PageRequestEncodeTo ==
    <<Bytes(0, "Key"), U64(32, "Offset"), U64(64, "Limit"), Bool(96, "CountTotal"),
      Bool(128, "Reverse")>>
PageRequestDecode == Decoder(160,
    <<Bytes(0, "Key"), U64(32, "Offset"), U64(64, "Limit"), Bool(96, "CountTotal"),
      Bool(128, "Reverse")>>)

PageResponseEncodedSize == Sizer(64, <<SizeBytes("NextKey")>>)
PageResponseEncodeTo == <<Bytes(0, "NextKey"), U64(32, "Total")>>
PageResponseDecode == Decoder(64, <<Bytes(0, "NextKey"), U64(32, "Total")>>)

DummyCallEncodedSize == Sizer(288,
    <<SizeTuple("A", "Coin"), SizeTuple("B", "DecCoin"),
      SizeTuple("E", "PageRequest"), SizeTuple("F", "PageResponse"),
      SizeTuple("G", "ICS20Allocation")>>)
DummyCallEncodeTo ==
    <<Tuple(0, "A", "Coin"), Tuple(32, "B", "DecCoin"), InPlace(64, "C", "Dec"),
      InPlace(128, "D", "Height"), Tuple(192, "E", "PageRequest"),
      Tuple(224, "F", "PageResponse"), Tuple(256, "G", "ICS20Allocation")>>
DummyCallDecode == Decoder(288,
    <<Tuple(0, "A", "Coin"), Tuple(32, "B", "DecCoin"), InPlace(64, "C", "Dec"),
      InPlace(128, "D", "Height"), Tuple(192, "E", "PageRequest"),
      Tuple(224, "F", "PageResponse"), Tuple(256, "G", "ICS20Allocation")>>)
-----------------------------------------------------------------------------
(***************************************************************************)
(* x/anchoring/precompile/anchoring.abi.go: calls, returns and event data. *)
(***************************************************************************)

RecordEncodedSize == Sizer(320,
    <<SizeString("Uri"), SizeString("Checksum"), SizeString("ChecksumAlgo"),
      SizeString("Metadata"), SizeString("Timestamp"), SizeString("Status")>>)
RecordEncodeTo ==
    <<Str(0, "Uri"), Str(32, "Checksum"), Str(64, "ChecksumAlgo"),
      Str(96, "Metadata"), Str(128, "Timestamp"), Str(160, "Status"),
      U64(192, "RecordId"), U64(224, "Index"), Bool(256, "IsLatest"),
      U64(288, "RegistryId")>>
RecordDecode == Decoder(320,
    <<Str(0, "Uri"), Str(32, "Checksum"), Str(64, "ChecksumAlgo"),
      Str(96, "Metadata"), Str(128, "Timestamp"), Str(160, "Status"),
      U64(192, "RecordId"), U64(224, "Index"), Bool(256, "IsLatest"),
      U64(288, "RegistryId")>>)

RegistryEncodedSize == Sizer(192,
    <<SizeString("Name"), SizeString("Description"), SizeString("Creator"),
      SizeString("CreatedAt"), SizeString("Metadata")>>)
RegistryEncodeTo ==
    <<U64(0, "Id"), Str(32, "Name"), Str(64, "Description"), Str(96, "Creator"),
      Str(128, "CreatedAt"), Str(160, "Metadata")>>
RegistryDecode == Decoder(192,
    <<U64(0, "Id"), Str(32, "Name"), Str(64, "Description"), Str(96, "Creator"),
      Str(128, "CreatedAt"), Str(160, "Metadata")>>)

AddRecordCallEncodedSize == Sizer(32, <<SizeTuple("Record", "Record")>>)
AddRecordCallEncodeTo == <<Tuple(0, "Record", "Record")>>
AddRecordCallDecode == Decoder(32, <<Tuple(0, "Record", "Record")>>)

AddRecordReturnEncodedSize == Sizer(32, <<>>)
AddRecordReturnEncodeTo == <<U64(0, "RecordId")>>
AddRecordReturnDecode == Decoder(32, <<U64(0, "RecordId")>>)

AddRegistryCallEncodedSize == Sizer(96,
    <<SizeString("Name"), SizeString("Description"), SizeString("Metadata")>>)
AddRegistryCallEncodeTo ==
    <<Str(0, "Name"), Str(32, "Description"), Str(64, "Metadata")>>
AddRegistryCallDecode == Decoder(96,
    <<Str(0, "Name"), Str(32, "Description"), Str(64, "Metadata")>>)

AddRegistryReturnEncodedSize == Sizer(32, <<>>)
AddRegistryReturnEncodeTo == <<U64(0, "RegistryId")>>
AddRegistryReturnDecode == Decoder(32, <<U64(0, "RegistryId")>>)

GrantRoleCallEncodedSize == Sizer(128,
    <<SizeString("Checksum"), SizeString("Role")>>)
GrantRoleCallEncodeTo ==
    <<U64(0, "RegistryId"), Str(32, "Checksum"), Address(64, "Account"),
      Str(96, "Role")>>
GrantRoleCallDecode == Decoder(128,
    <<U64(0, "RegistryId"), Str(32, "Checksum"), Address(64, "Account"),
      Str(96, "Role")>>)

RecordsCallEncodedSize == Sizer(160,
    <<SizeString("Checksum"), SizeTuple("Pagination", "PageRequest")>>)
RecordsCallEncodeTo ==
    <<U64(0, "RegistryId"), Str(32, "Checksum"), U64(64, "RecordId"),
      U64(96, "Index"), Tuple(128, "Pagination", "PageRequest")>>
RecordsCallDecode == Decoder(160,
    <<U64(0, "RegistryId"), Str(32, "Checksum"), U64(64, "RecordId"),
      U64(96, "Index"), Tuple(128, "Pagination", "PageRequest")>>)

RecordsReturnEncodedSize == Sizer(64,
    <<SizeSlice("Records", "Record"), SizeTuple("Pagination", "PageResponse")>>)
RecordsReturnEncodeTo ==
    <<Slice(0, "Records", "Record"), Tuple(32, "Pagination", "PageResponse")>>
RecordsReturnDecode == Decoder(64,
    <<Slice(0, "Records", "Record"), Tuple(32, "Pagination", "PageResponse")>>)

RegistriesCallEncodedSize == Sizer(64, <<SizeTuple("Pagination", "PageRequest")>>)
RegistriesCallEncodeTo ==
    <<U64(0, "RegistryId"), Tuple(32, "Pagination", "PageRequest")>>
RegistriesCallDecode == Decoder(64,
    <<U64(0, "RegistryId"), Tuple(32, "Pagination", "PageRequest")>>)

RegistriesReturnEncodedSize == Sizer(64,
    <<SizeSlice("Registries", "Registry"),
      SizeTuple("Pagination", "PageResponse")>>)
RegistriesReturnEncodeTo ==
    <<Slice(0, "Registries", "Registry"), Tuple(32, "Pagination", "PageResponse")>>
RegistriesReturnDecode == Decoder(64,
    <<Slice(0, "Registries", "Registry"), Tuple(32, "Pagination", "PageResponse")>>)

RegistriesByNameCallEncodedSize == Sizer(96,
    <<SizeString("Name"), SizeTuple("Pagination", "PageRequest")>>)
RegistriesByNameCallEncodeTo ==
    <<Str(0, "Name"), U8(32, "MatchMode"), Tuple(64, "Pagination", "PageRequest")>>
RegistriesByNameCallDecode == Decoder(96,
    <<Str(0, "Name"), U8(32, "MatchMode"), Tuple(64, "Pagination", "PageRequest")>>)

RegistriesByNameReturnEncodedSize == Sizer(64,
    <<SizeSlice("Registries", "Registry"),
      SizeTuple("Pagination", "PageResponse")>>)
RegistriesByNameReturnEncodeTo ==
    <<Slice(0, "Registries", "Registry"), Tuple(32, "Pagination", "PageResponse")>>
RegistriesByNameReturnDecode == Decoder(64,
    <<Slice(0, "Registries", "Registry"), Tuple(32, "Pagination", "PageResponse")>>)

RevokeRoleCallEncodedSize == Sizer(128,
    <<SizeString("Checksum"), SizeString("Role")>>)
RevokeRoleCallEncodeTo ==
    <<U64(0, "RegistryId"), Str(32, "Checksum"), Address(64, "Account"),
      Str(96, "Role")>>
RevokeRoleCallDecode == Decoder(128,
    <<U64(0, "RegistryId"), Str(32, "Checksum"), Address(64, "Account"),
      Str(96, "Role")>>)

UpdateRecordStatusCallEncodedSize == Sizer(128, <<SizeString("Status")>>)
UpdateRecordStatusCallEncodeTo ==
    <<U64(0, "RegistryId"), U64(32, "RecordId"), U64(64, "Index"),
      Str(96, "Status")>>
UpdateRecordStatusCallDecode == Decoder(128,
    <<U64(0, "RegistryId"), U64(32, "RecordId"), U64(64, "Index"),
      Str(96, "Status")>>)

AddRecordEventDataEncodedSize == Sizer(128, <<SizeString("Checksum")>>)
AddRecordEventDataEncodeTo ==
    <<U64(0, "RegistryId"), U64(32, "RecordId"), U64(64, "Index"),
      Str(96, "Checksum")>>
AddRecordEventDataDecode == Decoder(128,
    <<U64(0, "RegistryId"), U64(32, "RecordId"), U64(64, "Index"),
      Str(96, "Checksum")>>)

AddRegistryEventDataEncodedSize == Sizer(64, <<SizeString("Name")>>)
AddRegistryEventDataEncodeTo == <<U64(0, "RegistryId"), Str(32, "Name")>>
AddRegistryEventDataDecode == Decoder(64, <<U64(0, "RegistryId"), Str(32, "Name")>>)

GrantRoleEventDataEncodedSize == Sizer(128,
    <<SizeString("Checksum"), SizeString("Role")>>)
GrantRoleEventDataEncodeTo ==
    <<U64(0, "RegistryId"), Str(32, "Checksum"), Address(64, "Account"),
      Str(96, "Role")>>
GrantRoleEventDataDecode == Decoder(128,
    <<U64(0, "RegistryId"), Str(32, "Checksum"), Address(64, "Account"),
      Str(96, "Role")>>)

RevokeRoleEventDataEncodedSize == Sizer(128,
    <<SizeString("Checksum"), SizeString("Role")>>)
RevokeRoleEventDataEncodeTo ==
    <<U64(0, "RegistryId"), Str(32, "Checksum"), Address(64, "Account"),
      Str(96, "Role")>>
RevokeRoleEventDataDecode == Decoder(128,
    <<U64(0, "RegistryId"), Str(32, "Checksum"), Address(64, "Account"),
      Str(96, "Role")>>)

UpdateRecordStatusEventDataEncodedSize == Sizer(128, <<SizeString("Status")>>)
UpdateRecordStatusEventDataEncodeTo ==
    <<U64(0, "RegistryId"), U64(32, "RecordId"), U64(64, "Index"),
      Str(96, "Status")>>
UpdateRecordStatusEventDataDecode == Decoder(128,
    <<U64(0, "RegistryId"), U64(32, "RecordId"), U64(64, "Index"),
      Str(96, "Status")>>)

-----------------------------------------------------------------------------
AbiEncodedSize ==
    [Coin |-> CoinEncodedSize, Dec |-> DecEncodedSize,
     DecCoin |-> DecCoinEncodedSize, Height |-> HeightEncodedSize,
     ICS20Allocation |-> ICS20AllocationEncodedSize,
     PageRequest |-> PageRequestEncodedSize,
     PageResponse |-> PageResponseEncodedSize, DummyCall |-> DummyCallEncodedSize,
     Record |-> RecordEncodedSize, Registry |-> RegistryEncodedSize,
     AddRecordCall |-> AddRecordCallEncodedSize,
     AddRecordReturn |-> AddRecordReturnEncodedSize,
     AddRegistryCall |-> AddRegistryCallEncodedSize,
     AddRegistryReturn |-> AddRegistryReturnEncodedSize,
     GrantRoleCall |-> GrantRoleCallEncodedSize,
     RecordsCall |-> RecordsCallEncodedSize,
     RecordsReturn |-> RecordsReturnEncodedSize,
     RegistriesCall |-> RegistriesCallEncodedSize,
     RegistriesReturn |-> RegistriesReturnEncodedSize,
     RegistriesByNameCall |-> RegistriesByNameCallEncodedSize,
     RegistriesByNameReturn |-> RegistriesByNameReturnEncodedSize,
     RevokeRoleCall |-> RevokeRoleCallEncodedSize,
     UpdateRecordStatusCall |-> UpdateRecordStatusCallEncodedSize,
     AddRecordEventData |-> AddRecordEventDataEncodedSize,
     AddRegistryEventData |-> AddRegistryEventDataEncodedSize,
     GrantRoleEventData |-> GrantRoleEventDataEncodedSize,
     RevokeRoleEventData |-> RevokeRoleEventDataEncodedSize,
     UpdateRecordStatusEventData |-> UpdateRecordStatusEventDataEncodedSize]

AbiEncodeTo ==
    [Coin |-> CoinEncodeTo, Dec |-> DecEncodeTo, DecCoin |-> DecCoinEncodeTo,
     Height |-> HeightEncodeTo, ICS20Allocation |-> ICS20AllocationEncodeTo,
     PageRequest |-> PageRequestEncodeTo, PageResponse |-> PageResponseEncodeTo,
     DummyCall |-> DummyCallEncodeTo, Record |-> RecordEncodeTo,
     Registry |-> RegistryEncodeTo, AddRecordCall |-> AddRecordCallEncodeTo,
     AddRecordReturn |-> AddRecordReturnEncodeTo,
     AddRegistryCall |-> AddRegistryCallEncodeTo,
     AddRegistryReturn |-> AddRegistryReturnEncodeTo,
     GrantRoleCall |-> GrantRoleCallEncodeTo, RecordsCall |-> RecordsCallEncodeTo,
     RecordsReturn |-> RecordsReturnEncodeTo,
     RegistriesCall |-> RegistriesCallEncodeTo,
     RegistriesReturn |-> RegistriesReturnEncodeTo,
     RegistriesByNameCall |-> RegistriesByNameCallEncodeTo,
     RegistriesByNameReturn |-> RegistriesByNameReturnEncodeTo,
     RevokeRoleCall |-> RevokeRoleCallEncodeTo,
     UpdateRecordStatusCall |-> UpdateRecordStatusCallEncodeTo,
     AddRecordEventData |-> AddRecordEventDataEncodeTo,
     AddRegistryEventData |-> AddRegistryEventDataEncodeTo,
     GrantRoleEventData |-> GrantRoleEventDataEncodeTo,
     RevokeRoleEventData |-> RevokeRoleEventDataEncodeTo,
     UpdateRecordStatusEventData |-> UpdateRecordStatusEventDataEncodeTo]

AbiDecode ==
    [Coin |-> CoinDecode, Dec |-> DecDecode, DecCoin |-> DecCoinDecode,
     Height |-> HeightDecode, ICS20Allocation |-> ICS20AllocationDecode,
     PageRequest |-> PageRequestDecode, PageResponse |-> PageResponseDecode,
     DummyCall |-> DummyCallDecode, Record |-> RecordDecode,
     Registry |-> RegistryDecode, AddRecordCall |-> AddRecordCallDecode,
     AddRecordReturn |-> AddRecordReturnDecode,
     AddRegistryCall |-> AddRegistryCallDecode,
     AddRegistryReturn |-> AddRegistryReturnDecode,
     GrantRoleCall |-> GrantRoleCallDecode, RecordsCall |-> RecordsCallDecode,
     RecordsReturn |-> RecordsReturnDecode, RegistriesCall |-> RegistriesCallDecode,
     RegistriesReturn |-> RegistriesReturnDecode,
     RegistriesByNameCall |-> RegistriesByNameCallDecode,
     RegistriesByNameReturn |-> RegistriesByNameReturnDecode,
     RevokeRoleCall |-> RevokeRoleCallDecode,
     UpdateRecordStatusCall |-> UpdateRecordStatusCallDecode,
     AddRecordEventData |-> AddRecordEventDataDecode,
     AddRegistryEventData |-> AddRegistryEventDataDecode,
     GrantRoleEventData |-> GrantRoleEventDataDecode,
     RevokeRoleEventData |-> RevokeRoleEventDataDecode,
     UpdateRecordStatusEventData |-> UpdateRecordStatusEventDataDecode]
=============================================================================
