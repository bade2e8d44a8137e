------------------------------- MODULE RecordQuery -------------------------------
(***************************************************************************)
(* Query/Records of x/anchoring, and a client that pages through a listing *)
(* by offset while the chain goes on adding records.                       *)
(***************************************************************************)
EXTENDS Anchoring, Sequences, FiniteSetsExt

CONSTANTS
    Limits,             \* the limits the client may ask for, 0 included
    DefaultPageLimit,   \* 50 in the code
    MaxPageLimit        \* 200 in the code

ASSUME LimitsAssumption ==
    /\ Limits \subseteq Nat
    /\ DefaultPageLimit \in Nat \ {0} /\ MaxPageLimit \in Nat \ {0}

VARIABLES
    filter,     \* the registry and the checksum of the listing in progress
    got,        \* the streams of the pages received so far
    expected,   \* history: the streams listed when the client began
    done        \* the client has no listing in progress

clientVars == <<filter, got, expected, done>>
queryVars == <<vars, clientVars>>

Filters == [registryId : RegistryIds \cup {0}, checksum : Checksum \cup {NoChecksum}]

-----------------------------------------------------------------------------
(***************************************************************************)
(* Listings                                                                *)
(***************************************************************************)

sanitizePageRequest(limit) ==
    IF limit = 0 THEN Min({DefaultPageLimit, MaxPageLimit}) ELSE Min({limit, MaxPageLimit})

StreamBefore(a, b) == a[1] < b[1] \/ (a[1] = b[1] /\ a[2] < b[2])

\* The streams (registryId, recordId) a walk visits: those of the registry, those
\* of the checksum by registry, or all.
Streams(f) ==
    IF f.registryId # 0
    THEN {s \in DOMAIN recordIndices : s[1] = f.registryId}
    ELSE IF f.checksum # NoChecksum
    THEN {<<k[2], recordIdByChecksumAndRegistry[k]>> :
             k \in {j \in DOMAIN recordIdByChecksumAndRegistry : j[1] = f.checksum}}
    ELSE DOMAIN recordIndices

\* The number of streams a walk visits before s.
Place(streams, s) == Cardinality({t \in streams : StreamBefore(t, s)})

\* The walk, in the order of the keys.
Walk(streams) ==
    [i \in 1 .. Cardinality(streams) |-> CHOOSE s \in streams : Place(streams, s) = i - 1]

Listing(f) == Walk(Streams(f))

\* The record a listed stream is answered with; a missing one fails the query.
Answered(stream) == <<stream[1], stream[2], recordIndices[stream]>>

\* The step function that skips the entry after the last page.
PageSkips(list, offset, limit) ==
    SubSeq(list, IF offset = 0 THEN 1 ELSE offset + 2,
           Min({offset + limit, Len(list)}))

\* The step function that includes one entry more than it skipped.
PageOverlaps(list, offset, limit) ==
    SubSeq(list, Max({offset, 1}), Min({offset + limit, Len(list)}))

\* The step function: skip the offset, then collect up to the limit.
Page(list, offset, limit) ==
    SubSeq(list, offset + 1, Min({offset + limit, Len(list)}))

-----------------------------------------------------------------------------
(***************************************************************************)
(* Single records                                                          *)
(***************************************************************************)

\* A record id that is resolved in any registry that holds the checksum.
ResolveAnywhere(registryId, checksum) ==
    LET ids == {recordIdByChecksumAndRegistry[k] :
                   k \in {j \in DOMAIN recordIdByChecksumAndRegistry : j[1] = checksum}}
    IN  IF ids = {} THEN 0 ELSE Min(ids)

\* The record id of a checksum in the registry; 0 is the error ErrNotFound.
Resolve(registryId, checksum) ==
    IF <<registryId, checksum>> \in DOMAIN recordIdByRegistryAndChecksum
    THEN recordIdByRegistryAndChecksum[<<registryId, checksum>>] ELSE 0

\* The keys of the answer to a request for one record: none when it is refused
\* or not found.
One(registryId, recordId, checksum, index) ==
    LET id == IF recordId = 0 THEN Resolve(registryId, checksum) ELSE recordId
        latest == IF <<registryId, id>> \in DOMAIN recordIndices
                  THEN recordIndices[<<registryId, id>>] ELSE 0
        key == <<registryId, id, IF index = 0 THEN latest ELSE index>>
    IN  IF registryId # 0 /\ key \in DOMAIN records THEN {key} ELSE {}

-----------------------------------------------------------------------------
(***************************************************************************)
(* The client                                                              *)
(***************************************************************************)

\* The first page of a listing.  A checksum with a registry names one record.
Begin(f, limit) ==
    LET list == Listing(f)
        page == Page(list, 0, sanitizePageRequest(limit))
    IN  /\ done
        /\ f.registryId = 0 \/ f.checksum = NoChecksum
        /\ filter' = f
        /\ expected' = Range(list)
        /\ got' = page
        /\ done' = (Len(page) < sanitizePageRequest(limit))
        /\ UNCHANGED vars

\* The next one, until a page is not full.
Continue(limit) ==
    LET page == Page(Listing(filter), Len(got), sanitizePageRequest(limit))
    IN  /\ ~ done
        /\ got' = got \o page
        /\ done' = (Len(page) < sanitizePageRequest(limit))
        /\ UNCHANGED <<vars, filter, expected>>

QueryInit ==
    /\ Init
    /\ filter = [registryId |-> 0, checksum |-> NoChecksum]
    /\ got = <<>>
    /\ expected = {}
    /\ done = TRUE

QueryNext ==
    \/ \E f \in Filters, limit \in Limits : Begin(f, limit)
    \/ \E limit \in Limits : Continue(limit)
    \/ Next /\ UNCHANGED clientVars

QuerySpec == QueryInit /\ [][QueryNext]_queryVars

-----------------------------------------------------------------------------
(***************************************************************************)
(* Properties                                                              *)
(***************************************************************************)

\* Paging by offset through a growing collection loses nothing: at the end of a
\* listing the client has every stream that was there when it began, although
\* records added in between move the others; and no page it could ask for is
\* longer than MaxPageLimit, or empty before the end
\* (keeper/query.go:33-47, 74-97, 122-226).
NothingMissed ==
    /\ done => expected \subseteq Range(got)
    /\ \A f \in Filters :
          LET list == Listing(f)
          IN  \A limit \in Limits, offset \in 0 .. MaxVersions :
                 LET page == Page(list, offset, sanitizePageRequest(limit))
                 IN  /\ Len(page) <= MaxPageLimit
                     /\ offset < Len(list) => page # <<>>

\* Within a registry paging is stable: record ids are handed out in the order of
\* the walk, so no addition moves an entry and no record is listed twice
\* (keeper/query.go:122-152, keeper/anchoring.go:82-98).
RegistryPagesStable ==
    filter.registryId # 0 =>
       \A i, j \in DOMAIN got : i < j => StreamBefore(got[i], got[j])

\* "unless index is otherwise stated, it will only return the latest record of a
\* document checksum": no listing fails on a stream whose version is missing, and
\* each answers with the latest version, of the checksum that was asked for; a
\* checksum and a registry name exactly one record, the latest, if and only if the
\* registry holds the checksum, and with an index exactly that version
\* (keeper/query.go:99-141, 174-187, 200-216).
AnswersLatest ==
    /\ \A f \in Filters :
          f.registryId = 0 \/ f.checksum = NoChecksum =>
             \A s \in Range(Listing(f)) :
                /\ Answered(s) \in DOMAIN records
                /\ records[Answered(s)].isLatest
                /\ records[Answered(s)].registryId = s[1]
                /\ f.checksum # NoChecksum => records[Answered(s)].checksum = f.checksum
    /\ \A r \in RegistryIds, c \in Checksum :
          /\ \A key \in One(r, 0, c, 0) :
                records[key].checksum = c /\ records[key].registryId = r /\ records[key].isLatest
          /\ (One(r, 0, c, 0) = {}) <=>
                ~ \E key \in DOMAIN records : key[1] = r /\ records[key].checksum = c
          /\ \A index \in 1 .. MaxVersions :
                One(r, 0, c, index) = {key \in DOMAIN records :
                   key[1] = r /\ key[3] = index /\ records[key].checksum = c}
=============================================================================
