----------------------------- MODULE ProtoMessages -----------------------------
(***************************************************************************)
(* The protobuf messages of x/anchoring and x/tax as the gogo compiler     *)
(* generated them: for each one the fields MarshalToSizedBuffer writes,    *)
(* from the end of the buffer to its front, with their tag bytes; the      *)
(* fields Size adds up, with the length of their tags; and the fields      *)
(* Unmarshal knows, with their numbers.  The three tables of a message     *)
(* come from three functions, and ProtoCodec runs them against each other. *)
(* The messages of x/tax carry the prefix Tax.                             *)
(***************************************************************************)
EXTENDS FieldRows

-----------------------------------------------------------------------------
(***************************************************************************)
(* x/anchoring/types/params.pb.go                                          *)
(***************************************************************************)

ParamsMarshal == <<Str(\h0a, "Admin")>>
ParamsSize == <<Str(1, "Admin")>>
ParamsUnmarshal == <<Str(1, "Admin")>>
-----------------------------------------------------------------------------
(***************************************************************************)
(* x/anchoring/types/document.pb.go                                        *)
(***************************************************************************)

RegistryMarshal ==
    <<Str(\h32, "Metadata"), Str(\h2a, "CreatedAt"), Str(\h22, "Creator"),
      Str(\h1a, "Description"), Str(\h12, "Name"), U64(\h08, "Id")>>
RegistrySize ==
    <<U64(1, "Id"), Str(1, "Name"), Str(1, "Description"), Str(1, "Creator"),
      Str(1, "CreatedAt"), Str(1, "Metadata")>>
RegistryUnmarshal ==
    <<U64(1, "Id"), Str(2, "Name"), Str(3, "Description"), Str(4, "Creator"),
      Str(5, "CreatedAt"), Str(6, "Metadata")>>

RecordMarshal ==
    <<U64(\h58, "RegistryId"), Bool(\h50, "IsLatest"), U64(\h48, "Index"),
      U64(\h40, "RecordId"), Str(\h3a, "Status"), Str(\h32, "Timestamp"),
      Str(\h2a, "Metadata"), Str(\h22, "ChecksumAlgo"), Str(\h1a, "Checksum"),
      Str(\h12, "Uri")>>
\* The fields of the first version.
RecordSizeV1 ==
    <<Str(1, "Uri"), Str(1, "Checksum"), Str(1, "ChecksumAlgo"), Str(1, "Metadata"),
      Str(1, "Timestamp"), Str(1, "Status"), U64(1, "RecordId"), U64(1, "Index"),
      Bool(1, "IsLatest")>>
RecordSize ==
    <<Str(1, "Uri"), Str(1, "Checksum"), Str(1, "ChecksumAlgo"), Str(1, "Metadata"),
      Str(1, "Timestamp"), Str(1, "Status"), U64(1, "RecordId"), U64(1, "Index"),
      Bool(1, "IsLatest"), U64(1, "RegistryId")>>
RecordUnmarshal ==
    <<Str(2, "Uri"), Str(3, "Checksum"), Str(4, "ChecksumAlgo"), Str(5, "Metadata"),
      Str(6, "Timestamp"), Str(7, "Status"), U64(8, "RecordId"), U64(9, "Index"),
      Bool(10, "IsLatest"), U64(11, "RegistryId")>>
-----------------------------------------------------------------------------
(***************************************************************************)
(* x/anchoring/types/genesis.pb.go                                         *)
(***************************************************************************)

GenesisStateMarshal ==
    <<BytesMap(\h32, "RoleMembers"), BytesMap(\h2a, "RoleAdmins"),
      List(\h1a, "Records", "Record"), MsgMap(\h12, "Registries", "Registry"),
      Msg(\h0a, "Params", "Params")>>
GenesisStateSize ==
    <<Msg(1, "Params", "Params"), MsgMap(1, "Registries", "Registry"),
      List(1, "Records", "Record"), BytesMap(1, "RoleAdmins"),
      BytesMap(1, "RoleMembers")>>
GenesisStateUnmarshal ==
    <<Msg(1, "Params", "Params"), MsgMap(2, "Registries", "Registry"),
      List(3, "Records", "Record"), BytesMap(5, "RoleAdmins"),
      BytesMap(6, "RoleMembers")>>
-----------------------------------------------------------------------------
(***************************************************************************)
(* x/anchoring/types/tx.pb.go                                              *)
(***************************************************************************)

MsgUpdateParamsMarshal == <<Str(\h12, "Admin"), Str(\h0a, "Authority")>>
MsgUpdateParamsSize == <<Str(1, "Authority"), Str(1, "Admin")>>
MsgUpdateParamsUnmarshal == <<Str(1, "Authority"), Str(2, "Admin")>>

MsgUpdateParamsResponseMarshal == <<>>
MsgUpdateParamsResponseSize == <<>>
MsgUpdateParamsResponseUnmarshal == <<>>

MsgAddRegistryMarshal ==
    <<Str(\h22, "Metadata"), Str(\h1a, "Description"), Str(\h12, "Name"),
      Str(\h0a, "Sender")>>
MsgAddRegistrySize ==
    <<Str(1, "Sender"), Str(1, "Name"), Str(1, "Description"), Str(1, "Metadata")>>
MsgAddRegistryUnmarshal ==
    <<Str(1, "Sender"), Str(2, "Name"), Str(3, "Description"), Str(4, "Metadata")>>

MsgAddRegistryResponseMarshal == <<U64(\h08, "RegistryId")>>
MsgAddRegistryResponseSize == <<U64(1, "RegistryId")>>
MsgAddRegistryResponseUnmarshal == <<U64(1, "RegistryId")>>

MsgAddRecordMarshal == <<Ptr(\h12, "Record", "Record"), Str(\h0a, "Sender")>>
MsgAddRecordSize == <<Str(1, "Sender"), Ptr(1, "Record", "Record")>>
MsgAddRecordUnmarshal == <<Str(1, "Sender"), Ptr(2, "Record", "Record")>>

MsgAddRecordResponseMarshal == <<U64(\h08, "RecordId")>>
MsgAddRecordResponseSize == <<U64(1, "RecordId")>>
MsgAddRecordResponseUnmarshal == <<U64(1, "RecordId")>>

MsgUpdateRecordStatusMarshal ==
    <<Str(\h2a, "Status"), U64(\h20, "Index"), U64(\h18, "RecordId"),
      U64(\h10, "RegistryId"), Str(\h0a, "Editor")>>
MsgUpdateRecordStatusSize ==
    <<Str(1, "Editor"), U64(1, "RegistryId"), U64(1, "RecordId"), U64(1, "Index"),
      Str(1, "Status")>>
MsgUpdateRecordStatusUnmarshal ==
    <<Str(1, "Editor"), U64(2, "RegistryId"), U64(3, "RecordId"), U64(4, "Index"),
      Str(5, "Status")>>

MsgUpdateRecordStatusResponseMarshal == <<>>
MsgUpdateRecordStatusResponseSize == <<>>
MsgUpdateRecordStatusResponseUnmarshal == <<>>

MsgGrantRoleMarshal ==
    <<Str(\h2a, "Role"), Str(\h22, "Checksum"), U64(\h18, "RegistryId"),
      Str(\h12, "Address"), Str(\h0a, "Admin")>>
MsgGrantRoleSize ==
    <<Str(1, "Admin"), Str(1, "Address"), U64(1, "RegistryId"), Str(1, "Checksum"),
      Str(1, "Role")>>
MsgGrantRoleUnmarshal ==
    <<Str(1, "Admin"), Str(2, "Address"), U64(3, "RegistryId"), Str(4, "Checksum"),
      Str(5, "Role")>>

MsgGrantRoleResponseMarshal == <<>>
MsgGrantRoleResponseSize == <<>>
MsgGrantRoleResponseUnmarshal == <<>>

MsgRevokeRoleMarshal ==
    <<Str(\h2a, "Role"), Str(\h22, "Checksum"), U64(\h18, "RegistryId"),
      Str(\h12, "Address"), Str(\h0a, "Admin")>>
MsgRevokeRoleSize ==
    <<Str(1, "Admin"), Str(1, "Address"), U64(1, "RegistryId"), Str(1, "Checksum"),
      Str(1, "Role")>>
MsgRevokeRoleUnmarshal ==
    <<Str(1, "Admin"), Str(2, "Address"), U64(3, "RegistryId"), Str(4, "Checksum"),
      Str(5, "Role")>>

MsgRevokeRoleResponseMarshal == <<>>
MsgRevokeRoleResponseSize == <<>>
MsgRevokeRoleResponseUnmarshal == <<>>
-----------------------------------------------------------------------------
(***************************************************************************)
(* x/anchoring/types/query.pb.go                                           *)
(***************************************************************************)

QueryParamsRequestMarshal == <<>>
QueryParamsRequestSize == <<>>
QueryParamsRequestUnmarshal == <<>>

QueryParamsResponseMarshal == <<Msg(\h0a, "Params", "Params")>>
QueryParamsResponseSize == <<Msg(1, "Params", "Params")>>
QueryParamsResponseUnmarshal == <<Msg(1, "Params", "Params")>>

QueryRecordsRequestMarshal ==
    <<Ptr(\h2a, "Pagination", "PageRequest"), U64(\h20, "Index"),
      U64(\h18, "RecordId"), U64(\h10, "RegistryId"), Str(\h0a, "Checksum")>>
QueryRecordsRequestSize ==
    <<Str(1, "Checksum"), U64(1, "RegistryId"), U64(1, "RecordId"), U64(1, "Index"),
      Ptr(1, "Pagination", "PageRequest")>>
QueryRecordsRequestUnmarshal ==
    <<Str(1, "Checksum"), U64(2, "RegistryId"), U64(3, "RecordId"), U64(4, "Index"),
      Ptr(5, "Pagination", "PageRequest")>>

QueryRecordsResponseMarshal ==
    <<Ptr(\h12, "Pagination", "PageResponse"), List(\h0a, "Records", "Record")>>
QueryRecordsResponseSize ==
    <<List(1, "Records", "Record"), Ptr(1, "Pagination", "PageResponse")>>
QueryRecordsResponseUnmarshal ==
    <<List(1, "Records", "Record"), Ptr(2, "Pagination", "PageResponse")>>

QueryRegistriesRequestMarshal ==
    <<Ptr(\h1a, "Pagination", "PageRequest"), U64(\h08, "RegistryId")>>
QueryRegistriesRequestSize ==
    <<U64(1, "RegistryId"), Ptr(1, "Pagination", "PageRequest")>>
QueryRegistriesRequestUnmarshal ==
    <<U64(1, "RegistryId"), Ptr(3, "Pagination", "PageRequest")>>

QueryRegistriesResponseMarshal ==
    <<Ptr(\h12, "Pagination", "PageResponse"),
      List(\h0a, "Registries", "Registry")>>
QueryRegistriesResponseSize ==
    <<List(1, "Registries", "Registry"), Ptr(1, "Pagination", "PageResponse")>>
QueryRegistriesResponseUnmarshal ==
    <<List(1, "Registries", "Registry"), Ptr(2, "Pagination", "PageResponse")>>

QueryRegistryRequestMarshal == <<U64(\h08, "Id")>>
QueryRegistryRequestSize == <<U64(1, "Id")>>
QueryRegistryRequestUnmarshal == <<U64(1, "Id")>>

QueryRegistryResponseMarshal == <<Ptr(\h0a, "Registry", "Registry")>>
QueryRegistryResponseSize == <<Ptr(1, "Registry", "Registry")>>
QueryRegistryResponseUnmarshal == <<Ptr(1, "Registry", "Registry")>>

QuerySearchRegistriesByNameRequestMarshal ==
    <<Ptr(\h1a, "Pagination", "PageRequest"), Enum(\h10, "Mode"),
      Str(\h0a, "Name")>>
QuerySearchRegistriesByNameRequestSize ==
    <<Str(1, "Name"), Enum(1, "Mode"), Ptr(1, "Pagination", "PageRequest")>>
QuerySearchRegistriesByNameRequestUnmarshal ==
    <<Str(1, "Name"), Enum(2, "Mode"), Ptr(3, "Pagination", "PageRequest")>>

QuerySearchRegistriesByNameResponseMarshal ==
    <<Ptr(\h12, "Pagination", "PageResponse"),
      List(\h0a, "Registries", "Registry")>>
QuerySearchRegistriesByNameResponseSize ==
    <<List(1, "Registries", "Registry"), Ptr(1, "Pagination", "PageResponse")>>
QuerySearchRegistriesByNameResponseUnmarshal ==
    <<List(1, "Registries", "Registry"), Ptr(2, "Pagination", "PageResponse")>>
-----------------------------------------------------------------------------
(***************************************************************************)
(* x/tax/types/params.pb.go                                                *)
(***************************************************************************)

TaxParamsMarshal == <<Str(\h12, "TaxAddress"), Custom(\h0a, "Tax")>>
TaxParamsSize == <<Custom(1, "Tax"), Str(1, "TaxAddress")>>
TaxParamsUnmarshal == <<Custom(1, "Tax"), Str(2, "TaxAddress")>>
-----------------------------------------------------------------------------
(***************************************************************************)
(* x/tax/types/genesis.pb.go                                               *)
(***************************************************************************)

TaxGenesisStateMarshal == <<Msg(\h0a, "Params", "TaxParams")>>
TaxGenesisStateSize == <<Msg(1, "Params", "TaxParams")>>
TaxGenesisStateUnmarshal == <<Msg(1, "Params", "TaxParams")>>
-----------------------------------------------------------------------------
(***************************************************************************)
(* x/tax/types/tx.pb.go                                                    *)
(***************************************************************************)

TaxMsgUpdateParamsMarshal ==
    <<Str(\h1a, "TaxAddress"), Str(\h12, "Tax"), Str(\h0a, "Authority")>>
TaxMsgUpdateParamsSize ==
    <<Str(1, "Authority"), Str(1, "Tax"), Str(1, "TaxAddress")>>
TaxMsgUpdateParamsUnmarshal ==
    <<Str(1, "Authority"), Str(2, "Tax"), Str(3, "TaxAddress")>>

TaxMsgUpdateParamsResponseMarshal == <<>>
TaxMsgUpdateParamsResponseSize == <<>>
TaxMsgUpdateParamsResponseUnmarshal == <<>>
-----------------------------------------------------------------------------
(***************************************************************************)
(* x/tax/types/query.pb.go                                                 *)
(***************************************************************************)

TaxQueryParamsRequestMarshal == <<>>
TaxQueryParamsRequestSize == <<>>
TaxQueryParamsRequestUnmarshal == <<>>

TaxQueryParamsResponseMarshal ==
    <<Custom(\h12, "MaxTax"), Msg(\h0a, "Params", "TaxParams")>>
TaxQueryParamsResponseSize == <<Msg(1, "Params", "TaxParams"), Custom(1, "MaxTax")>>
TaxQueryParamsResponseUnmarshal ==
    <<Msg(1, "Params", "TaxParams"), Custom(2, "MaxTax")>>

-----------------------------------------------------------------------------
(***************************************************************************)
(* The page messages of the Cosmos SDK, which these messages embed.        *)
(***************************************************************************)

PageRequestMarshal ==
    <<Bool(\h28, "Reverse"), Bool(\h20, "CountTotal"), U64(\h18, "Limit"),
      U64(\h10, "Offset"), Bytes(\h0a, "Key")>>
PageRequestSize ==
    <<Bytes(1, "Key"), U64(1, "Offset"), U64(1, "Limit"), Bool(1, "CountTotal"),
      Bool(1, "Reverse")>>
PageRequestUnmarshal ==
    <<Bytes(1, "Key"), U64(2, "Offset"), U64(3, "Limit"), Bool(4, "CountTotal"),
      Bool(5, "Reverse")>>

PageResponseMarshal == <<U64(\h10, "Total"), Bytes(\h0a, "NextKey")>>
PageResponseSize == <<Bytes(1, "NextKey"), U64(1, "Total")>>
PageResponseUnmarshal == <<Bytes(1, "NextKey"), U64(2, "Total")>>

-----------------------------------------------------------------------------
ProtoMarshal ==
    [Params |-> ParamsMarshal, Registry |-> RegistryMarshal,
     Record |-> RecordMarshal, GenesisState |-> GenesisStateMarshal,
     MsgUpdateParams |-> MsgUpdateParamsMarshal,
     MsgUpdateParamsResponse |-> MsgUpdateParamsResponseMarshal,
     MsgAddRegistry |-> MsgAddRegistryMarshal,
     MsgAddRegistryResponse |-> MsgAddRegistryResponseMarshal,
     MsgAddRecord |-> MsgAddRecordMarshal,
     MsgAddRecordResponse |-> MsgAddRecordResponseMarshal,
     MsgUpdateRecordStatus |-> MsgUpdateRecordStatusMarshal,
     MsgUpdateRecordStatusResponse |-> MsgUpdateRecordStatusResponseMarshal,
     MsgGrantRole |-> MsgGrantRoleMarshal,
     MsgGrantRoleResponse |-> MsgGrantRoleResponseMarshal,
     MsgRevokeRole |-> MsgRevokeRoleMarshal,
     MsgRevokeRoleResponse |-> MsgRevokeRoleResponseMarshal,
     QueryParamsRequest |-> QueryParamsRequestMarshal,
     QueryParamsResponse |-> QueryParamsResponseMarshal,
     QueryRecordsRequest |-> QueryRecordsRequestMarshal,
     QueryRecordsResponse |-> QueryRecordsResponseMarshal,
     QueryRegistriesRequest |-> QueryRegistriesRequestMarshal,
     QueryRegistriesResponse |-> QueryRegistriesResponseMarshal,
     QueryRegistryRequest |-> QueryRegistryRequestMarshal,
     QueryRegistryResponse |-> QueryRegistryResponseMarshal,
     QuerySearchRegistriesByNameRequest |-> QuerySearchRegistriesByNameRequestMarshal,
     QuerySearchRegistriesByNameResponse |-> QuerySearchRegistriesByNameResponseMarshal,
     TaxParams |-> TaxParamsMarshal, TaxGenesisState |-> TaxGenesisStateMarshal,
     TaxMsgUpdateParams |-> TaxMsgUpdateParamsMarshal,
     TaxMsgUpdateParamsResponse |-> TaxMsgUpdateParamsResponseMarshal,
     TaxQueryParamsRequest |-> TaxQueryParamsRequestMarshal,
     TaxQueryParamsResponse |-> TaxQueryParamsResponseMarshal,
     PageRequest |-> PageRequestMarshal, PageResponse |-> PageResponseMarshal]

ProtoSize ==
    [Params |-> ParamsSize, Registry |-> RegistrySize, Record |-> RecordSize,
     GenesisState |-> GenesisStateSize, MsgUpdateParams |-> MsgUpdateParamsSize,
     MsgUpdateParamsResponse |-> MsgUpdateParamsResponseSize,
     MsgAddRegistry |-> MsgAddRegistrySize,
     MsgAddRegistryResponse |-> MsgAddRegistryResponseSize,
     MsgAddRecord |-> MsgAddRecordSize,
     MsgAddRecordResponse |-> MsgAddRecordResponseSize,
     MsgUpdateRecordStatus |-> MsgUpdateRecordStatusSize,
     MsgUpdateRecordStatusResponse |-> MsgUpdateRecordStatusResponseSize,
     MsgGrantRole |-> MsgGrantRoleSize,
     MsgGrantRoleResponse |-> MsgGrantRoleResponseSize,
     MsgRevokeRole |-> MsgRevokeRoleSize,
     MsgRevokeRoleResponse |-> MsgRevokeRoleResponseSize,
     QueryParamsRequest |-> QueryParamsRequestSize,
     QueryParamsResponse |-> QueryParamsResponseSize,
     QueryRecordsRequest |-> QueryRecordsRequestSize,
     QueryRecordsResponse |-> QueryRecordsResponseSize,
     QueryRegistriesRequest |-> QueryRegistriesRequestSize,
     QueryRegistriesResponse |-> QueryRegistriesResponseSize,
     QueryRegistryRequest |-> QueryRegistryRequestSize,
     QueryRegistryResponse |-> QueryRegistryResponseSize,
     QuerySearchRegistriesByNameRequest |-> QuerySearchRegistriesByNameRequestSize,
     QuerySearchRegistriesByNameResponse |-> QuerySearchRegistriesByNameResponseSize,
     TaxParams |-> TaxParamsSize, TaxGenesisState |-> TaxGenesisStateSize,
     TaxMsgUpdateParams |-> TaxMsgUpdateParamsSize,
     TaxMsgUpdateParamsResponse |-> TaxMsgUpdateParamsResponseSize,
     TaxQueryParamsRequest |-> TaxQueryParamsRequestSize,
     TaxQueryParamsResponse |-> TaxQueryParamsResponseSize,
     PageRequest |-> PageRequestSize, PageResponse |-> PageResponseSize]

ProtoUnmarshal ==
    [Params |-> ParamsUnmarshal, Registry |-> RegistryUnmarshal,
     Record |-> RecordUnmarshal, GenesisState |-> GenesisStateUnmarshal,
     MsgUpdateParams |-> MsgUpdateParamsUnmarshal,
     MsgUpdateParamsResponse |-> MsgUpdateParamsResponseUnmarshal,
     MsgAddRegistry |-> MsgAddRegistryUnmarshal,
     MsgAddRegistryResponse |-> MsgAddRegistryResponseUnmarshal,
     MsgAddRecord |-> MsgAddRecordUnmarshal,
     MsgAddRecordResponse |-> MsgAddRecordResponseUnmarshal,
     MsgUpdateRecordStatus |-> MsgUpdateRecordStatusUnmarshal,
     MsgUpdateRecordStatusResponse |-> MsgUpdateRecordStatusResponseUnmarshal,
     MsgGrantRole |-> MsgGrantRoleUnmarshal,
     MsgGrantRoleResponse |-> MsgGrantRoleResponseUnmarshal,
     MsgRevokeRole |-> MsgRevokeRoleUnmarshal,
     MsgRevokeRoleResponse |-> MsgRevokeRoleResponseUnmarshal,
     QueryParamsRequest |-> QueryParamsRequestUnmarshal,
     QueryParamsResponse |-> QueryParamsResponseUnmarshal,
     QueryRecordsRequest |-> QueryRecordsRequestUnmarshal,
     QueryRecordsResponse |-> QueryRecordsResponseUnmarshal,
     QueryRegistriesRequest |-> QueryRegistriesRequestUnmarshal,
     QueryRegistriesResponse |-> QueryRegistriesResponseUnmarshal,
     QueryRegistryRequest |-> QueryRegistryRequestUnmarshal,
     QueryRegistryResponse |-> QueryRegistryResponseUnmarshal,
     QuerySearchRegistriesByNameRequest |-> QuerySearchRegistriesByNameRequestUnmarshal,
     QuerySearchRegistriesByNameResponse |-> QuerySearchRegistriesByNameResponseUnmarshal,
     TaxParams |-> TaxParamsUnmarshal, TaxGenesisState |-> TaxGenesisStateUnmarshal,
     TaxMsgUpdateParams |-> TaxMsgUpdateParamsUnmarshal,
     TaxMsgUpdateParamsResponse |-> TaxMsgUpdateParamsResponseUnmarshal,
     TaxQueryParamsRequest |-> TaxQueryParamsRequestUnmarshal,
     TaxQueryParamsResponse |-> TaxQueryParamsResponseUnmarshal,
     PageRequest |-> PageRequestUnmarshal, PageResponse |-> PageResponseUnmarshal]
=============================================================================
