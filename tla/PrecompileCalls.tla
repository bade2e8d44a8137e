----------------------------- MODULE PrecompileCalls -----------------------------
(***************************************************************************)
(* A call of the anchoring precompile from end to end: the client encodes  *)
(* arguments behind a selector, Execute finds the handler by the number of *)
(* the selector, the handler decodes, builds the message or the query of   *)
(* the module and turns the result into return data and a log, which the   *)
(* client decodes.  Who may call what is in AnchoringEvm and NameGate.     *)
(***************************************************************************)
EXTENDS AbiCodec

\* Selectors are four bytes; their numbers are 32 bits wide, in two halves.
AddRecordSelector == <<\h64, \hd2, \h52, \h95>>
AddRegistrySelector == <<\h31, \h8b, \h38, \hb1>>
GrantRoleSelector == <<\hb8, \hfd, \hd1, \ha7>>
RecordsSelector == <<\hc7, \hbe, \h5e, \h37>>
RegistriesSelector == <<\h17, \hbd, \h3e, \h65>>
RegistriesByNameSelector == <<\h55, \h22, \he6, \hc6>>
RevokeRoleSelector == <<\hac, \hd5, \h8b, \hc7>>
UpdateRecordStatusSelector == <<\h97, \hb4, \h0c, \h25>>

AddRecordID == <<25810, 21141>>
AddRegistryID == <<12683, 14513>>
GrantRoleID == <<47357, 53671>>
RecordsID == <<51134, 24119>>
RegistriesID == <<6077, 15973>>
RegistriesByNameID == <<21794, 59078>>
RevokeRoleID == <<44245, 35783>>
UpdateRecordStatusID == <<38836, 3109>>

\* The selector EncodeWithSelector puts in front, and the number of the method.
Method(selector, id) == [selector |-> selector, id |-> id]
AddRecordMethod == Method(AddRecordSelector, AddRecordID)
AddRegistryMethod == Method(AddRegistrySelector, AddRegistryID)
GrantRoleMethod == Method(GrantRoleSelector, GrantRoleID)
RecordsMethod == Method(RecordsSelector, RecordsID)
RegistriesMethod == Method(RegistriesSelector, RegistriesID)
RegistriesByNameMethod == Method(RegistriesByNameSelector, RegistriesByNameID)
RevokeRoleMethod == Method(RevokeRoleSelector, RevokeRoleID)
UpdateRecordStatusMethod == Method(UpdateRecordStatusSelector, UpdateRecordStatusID)

Methods ==
    [AddRecord |-> AddRecordMethod, AddRegistry |-> AddRegistryMethod,
     GrantRole |-> GrantRoleMethod, Records |-> RecordsMethod,
     Registries |-> RegistriesMethod, RegistriesByName |-> RegistriesByNameMethod,
     RevokeRole |-> RevokeRoleMethod, UpdateRecordStatus |-> UpdateRecordStatusMethod]

CallType(method) ==
    [AddRecord |-> "AddRecordCall", AddRegistry |-> "AddRegistryCall",
     GrantRole |-> "GrantRoleCall", Records |-> "RecordsCall",
     Registries |-> "RegistriesCall", RegistriesByName |-> "RegistriesByNameCall",
     RevokeRole |-> "RevokeRoleCall",
     UpdateRecordStatus |-> "UpdateRecordStatusCall"][method]

EncodeWithSelector(method, args) ==
    [selector |-> Methods[method].selector, data |-> Encode(CallType(method), args)]

SplitMethodID(input) ==
    LET b == input.selector IN <<256 * b[1] + b[2], 256 * b[3] + b[4]>>

\* The switch of Execute: the handler of a number, if it has one.
Handlers(id) ==
    {case[2] : case \in {c \in
        {<<AddRegistryID, "AddRegistry">>, <<AddRecordID, "AddRecord">>,
         <<UpdateRecordStatusID, "UpdateRecordStatus">>, <<RecordsID, "Records">>,
         <<RegistriesID, "Registries">>, <<RegistriesByNameID, "RegistriesByName">>,
         <<GrantRoleID, "GrantRole">>, <<RevokeRoleID, "RevokeRole">>} : c[1] = id}}

-----------------------------------------------------------------------------
(***************************************************************************)
(* The handlers, up to the call of the module                              *)
(***************************************************************************)

\* The text of an address.
BytesToString(address) == [bech32 |-> address]

FromABIRecord(rec) ==
    [Uri |-> rec.Uri, Checksum |-> rec.Checksum, ChecksumAlgo |-> rec.ChecksumAlgo,
     Metadata |-> rec.Metadata, Timestamp |-> rec.Timestamp, Status |-> rec.Status,
     RecordId |-> rec.RecordId, Index |-> rec.Index, IsLatest |-> rec.IsLatest,
     RegistryId |-> rec.RegistryId]

ToPageRequest(p) ==
    [Key |-> p.Key, Offset |-> p.Offset, Limit |-> p.Limit,
     CountTotal |-> p.CountTotal, Reverse |-> p.Reverse]

MatchModes == 0 .. 4

\* The message a handler hands to the message server, or the request it hands to
\* the query server; a set that is empty where the handler refuses.
AddRegistryRequest(in, caller) ==
    {[Name |-> in.Name, Description |-> in.Description,
      Sender |-> BytesToString(caller), Metadata |-> in.Metadata]}
AddRecordRequest(in, caller) ==
    {[Sender |-> BytesToString(caller), Record |-> FromABIRecord(in.Record)]}

\* The two ids the wrong way round.
UpdateRecordStatusRequestSwapped(in, caller) ==
    {[Editor |-> BytesToString(caller), RegistryId |-> in.RecordId,
      RecordId |-> in.RegistryId, Index |-> in.Index, Status |-> in.Status]}

UpdateRecordStatusRequest(in, caller) ==
    {[Editor |-> BytesToString(caller), RegistryId |-> in.RegistryId,
      RecordId |-> in.RecordId, Index |-> in.Index, Status |-> in.Status]}
RecordsRequest(in) ==
    {[Checksum |-> in.Checksum, RegistryId |-> in.RegistryId,
      RecordId |-> in.RecordId, Index |-> in.Index,
      Pagination |-> ToPageRequest(in.Pagination)]}
RegistriesRequest(in) ==
    {[RegistryId |-> in.RegistryId, Pagination |-> ToPageRequest(in.Pagination)]}
RegistriesByNameRequest(in) ==
    {[Name |-> in.Name, Mode |-> mode, Pagination |-> ToPageRequest(in.Pagination)] :
        mode \in {in.MatchMode} \cap MatchModes}
GrantRoleRequest(in, caller) ==
    {[Admin |-> BytesToString(caller), RegistryId |-> in.RegistryId,
      Checksum |-> in.Checksum, Address |-> BytesToString(in.Account),
      Role |-> in.Role]}
RevokeRoleRequest(in, caller) ==
    {[Admin |-> BytesToString(caller), RegistryId |-> in.RegistryId,
      Checksum |-> in.Checksum, Address |-> BytesToString(in.Account),
      Role |-> role] : role \in {r \in {in.Role} : r.len > 0}}

Request(method, in, caller) ==
    CASE method = "AddRegistry" -> AddRegistryRequest(in, caller)
      [] method = "AddRecord" -> AddRecordRequest(in, caller)
      [] method = "UpdateRecordStatus" -> UpdateRecordStatusRequest(in, caller)
      [] method = "Records" -> RecordsRequest(in)
      [] method = "Registries" -> RegistriesRequest(in)
      [] method = "RegistriesByName" -> RegistriesByNameRequest(in)
      [] method = "GrantRole" -> GrantRoleRequest(in, caller)
      [] method = "RevokeRole" -> RevokeRoleRequest(in, caller)

-----------------------------------------------------------------------------
(***************************************************************************)
(* Logs.  A topic is the first two bytes of its hash.                      *)
(***************************************************************************)

AddRecordEventTopic == <<\h1a, \h32>>
AddRegistryEventTopic == <<\h18, \h17>>
GrantRoleEventTopic == <<\h0f, \h49>>
RevokeRoleEventTopic == <<\h82, \h36>>
UpdateRecordStatusEventTopic == <<\hd7, \hb7>>

\* The topic EncodeTopics writes first, and the one DecodeTopics asks for.
Topics(encode, decode) == [encode |-> encode, decode |-> decode]
AddRecordTopics == Topics(AddRecordEventTopic, AddRecordEventTopic)
AddRegistryTopics == Topics(AddRegistryEventTopic, AddRegistryEventTopic)
GrantRoleTopics == Topics(GrantRoleEventTopic, GrantRoleEventTopic)
RevokeRoleTopics == Topics(RevokeRoleEventTopic, RevokeRoleEventTopic)
UpdateRecordStatusTopics ==
    Topics(UpdateRecordStatusEventTopic, UpdateRecordStatusEventTopic)

Events ==
    [AddRecord |-> AddRecordTopics, AddRegistry |-> AddRegistryTopics,
     GrantRole |-> GrantRoleTopics, RevokeRole |-> RevokeRoleTopics,
     UpdateRecordStatus |-> UpdateRecordStatusTopics]

DataType(event) ==
    [AddRecord |-> "AddRecordEventData", AddRegistry |-> "AddRegistryEventData",
     GrantRole |-> "GrantRoleEventData", RevokeRole |-> "RevokeRoleEventData",
     UpdateRecordStatus |-> "UpdateRecordStatusEventData"][event]

Event(name, caller, data) == [name |-> name, caller |-> caller, data |-> data]

\* Two numbers the wrong way round.
NewAddRecordEventSwapped(caller, registryId, recordId, index, checksum) ==
    Event("AddRecord", caller, [RegistryId |-> registryId, RecordId |-> index,
                                Index |-> recordId, Checksum |-> checksum])

NewAddRecordEvent(caller, registryId, recordId, index, checksum) ==
    Event("AddRecord", caller, [RegistryId |-> registryId, RecordId |-> recordId,
                                Index |-> index, Checksum |-> checksum])
NewAddRegistryEvent(caller, registryId, name) ==
    Event("AddRegistry", caller, [RegistryId |-> registryId, Name |-> name])
NewGrantRoleEvent(caller, registryId, checksum, account, role) ==
    Event("GrantRole", caller, [RegistryId |-> registryId, Checksum |-> checksum,
                                Account |-> account, Role |-> role])
NewRevokeRoleEvent(caller, registryId, checksum, account, role) ==
    Event("RevokeRole", caller, [RegistryId |-> registryId, Checksum |-> checksum,
                                 Account |-> account, Role |-> role])
NewUpdateRecordStatusEvent(caller, registryId, recordId, index, status) ==
    Event("UpdateRecordStatus", caller,
          [RegistryId |-> registryId, RecordId |-> recordId, Index |-> index,
           Status |-> status])

\* The log emitEvent adds.
EncodeEvent(e) ==
    [topics |-> <<Events[e.name].encode, e.caller>>,
     data |-> Encode(DataType(e.name), e.data)]

\* A client that expects the event called name.
DecodeEvent(name, log) ==
    LET data == AbiDecodeFrom(DataType(name), log.data)
    IN  IF Len(log.topics) = 2 /\ log.topics[1] = Events[name].decode /\ data.ok
        THEN Decoded(Event(name, log.topics[2], data.v), data.n) ELSE NotDecoded

-----------------------------------------------------------------------------
(***************************************************************************)
(* The handlers, after the module answered res.  A page response that may  *)
(* be nil is a set of at most one.                                         *)
(***************************************************************************)

ToABIRecord(rec) ==
    [Uri |-> rec.Uri, Checksum |-> rec.Checksum, ChecksumAlgo |-> rec.ChecksumAlgo,
     Metadata |-> rec.Metadata, Timestamp |-> rec.Timestamp, Status |-> rec.Status,
     RecordId |-> rec.RecordId, Index |-> rec.Index, IsLatest |-> rec.IsLatest,
     RegistryId |-> rec.RegistryId]

ToABIRegistry(reg) ==
    [Id |-> reg.Id, Name |-> reg.Name, Description |-> reg.Description,
     Creator |-> reg.Creator, CreatedAt |-> reg.CreatedAt, Metadata |-> reg.Metadata]

NoString == [len |-> 0, words |-> <<>>]

FromPageResponse(pr) ==
    IF pr = {} THEN [NextKey |-> NoString, Total |-> 0]
    ELSE LET p == CHOOSE x \in pr : TRUE IN [NextKey |-> p.NextKey, Total |-> p.Total]

\* The event of a transaction, if it has one.
EventOf(method, in, caller, res) ==
    CASE method = "AddRegistry" -> {NewAddRegistryEvent(caller, res.RegistryId, in.Name)}
      [] method = "AddRecord" ->
            LET doc == FromABIRecord(in.Record)
            IN  {NewAddRecordEvent(caller, doc.RegistryId, res.RecordId, res.Index,
                                   doc.Checksum)}
      [] method = "UpdateRecordStatus" ->
            {NewUpdateRecordStatusEvent(caller, in.RegistryId, in.RecordId, in.Index,
                                        in.Status)}
      [] method = "GrantRole" ->
            {NewGrantRoleEvent(caller, in.RegistryId, in.Checksum, in.Account, in.Role)}
      [] method = "RevokeRole" ->
            {NewRevokeRoleEvent(caller, in.RegistryId, in.Checksum, in.Account, in.Role)}
      [] OTHER -> {}

\* What a handler returns, and its type; an empty tuple has neither.
RecordsReturn(res) ==
    [Records |-> [i \in DOMAIN res.Records |-> ToABIRecord(res.Records[i])],
     Pagination |-> FromPageResponse(res.Pagination)]
RegistriesReturn(res) ==
    [Registries |-> [i \in DOMAIN res.Registries |-> ToABIRegistry(res.Registries[i])],
     Pagination |-> FromPageResponse(res.Pagination)]

ReturnType(method) ==
    [AddRecord |-> "AddRecordReturn", AddRegistry |-> "AddRegistryReturn",
     GrantRole |-> "", RevokeRole |-> "", UpdateRecordStatus |-> "",
     Records |-> "RecordsReturn", Registries |-> "RegistriesReturn",
     RegistriesByName |-> "RegistriesByNameReturn"][method]
ReturnOf(method, res) ==
    CASE method = "AddRecord" -> [RecordId |-> res.RecordId]
      [] method = "AddRegistry" -> [RegistryId |-> res.RegistryId]
      [] method = "Records" -> RecordsReturn(res)
      [] method \in {"Registries", "RegistriesByName"} -> RegistriesReturn(res)
      [] OTHER -> <<>>

\* The output of Run or RunWithStateDB and the logs of the call.
Answer(method, in, caller, res) ==
    [data |-> IF ReturnType(method) = "" THEN <<>>
              ELSE Encode(ReturnType(method), ReturnOf(method, res)),
     logs |-> {EncodeEvent(e) : e \in EventOf(method, in, caller, res)}]
=============================================================================
