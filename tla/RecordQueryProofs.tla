---------------------------- MODULE RecordQueryProofs ----------------------------
(***************************************************************************)
(* Proofs about the record queries: what a listing answers, and what a     *)
(* client that pages through one by offset gets while records are added,   *)
(* for any number of registries, records and versions and any page limits. *)
(***************************************************************************)
EXTENDS RecordQuery, AnchoringProofs

(***************************************************************************)
(* Walks and pages                                                         *)
(***************************************************************************)

\* The keys of RecordIndices.
StreamKey == Id \X Id

\* The order of a walk, as the set of its pairs.
KeyOrder(S) == {p \in S \X S : StreamBefore(p[1], p[2])}

\* Streams are ordered by registry, then by record.
LEMMA StreamsOrdered ==
    ASSUME NEW S \in SUBSET StreamKey
    PROVE  /\ Orders(KeyOrder(S), S)
           /\ \A s \in S : Place(S, s) = Cardinality(Below(KeyOrder(S), S, s))
  <1>1. \A x, y \in S : <<x, y>> \in KeyOrder(S) <=> StreamBefore(x, y)
    BY DEF KeyOrder
  <1>2. \A x \in S : x[1] \in Int /\ x[2] \in Int /\ x = <<x[1], x[2]>>
    BY DEF StreamKey, Id
  <1>3. \A x \in S : ~ StreamBefore(x, x)
    BY <1>2 DEF StreamBefore
  <1>4. \A x, y, z \in S : StreamBefore(x, y) /\ StreamBefore(y, z) => StreamBefore(x, z)
    BY <1>2 DEF StreamBefore
  <1>5. \A x, y \in S : x # y => StreamBefore(x, y) \/ StreamBefore(y, x)
    <2> SUFFICES ASSUME NEW x \in S, NEW y \in S, x # y
                 PROVE  StreamBefore(x, y) \/ StreamBefore(y, x)
      OBVIOUS
    <2>1. x[1] # y[1] \/ x[2] # y[2]
      BY <1>2
    <2> QED
      BY <1>2, <2>1 DEF StreamBefore
  <1>6. Orders(KeyOrder(S), S)
    BY <1>1, <1>3, <1>4, <1>5 DEF Orders
  <1>7. ASSUME NEW s \in S
        PROVE  Place(S, s) = Cardinality(Below(KeyOrder(S), S, s))
    <2>1. {t \in S : StreamBefore(t, s)} = Below(KeyOrder(S), S, s)
      BY <1>1 DEF Below
    <2> QED
      BY <2>1 DEF Place
  <1> QED
    BY <1>6, <1>7

\* A walk visits every stream once, each at its place (keeper/query.go:122-226).
LEMMA WalkVisits ==
    ASSUME NEW S \in SUBSET StreamKey, IsFiniteSet(S)
    PROVE  /\ Cardinality(S) \in Nat
           /\ Walk(S) \in Seq(S) /\ Len(Walk(S)) = Cardinality(S)
           /\ \A i \in 1 .. Cardinality(S) :
                 Walk(S)[i] \in S /\ Place(S, Walk(S)[i]) = i - 1
           /\ \A s \in S : /\ Place(S, s) \in 0 .. Cardinality(S) - 1
                           /\ Walk(S)[Place(S, s) + 1] = s
  <1>1. Cardinality(S) \in Nat
    BY FS_CardinalityType
  <1>2. \A n \in 0 .. Cardinality(S) - 1 : \E s \in S : Place(S, s) = n
    BY StreamsOrdered, RankOnto
  <1>3. ASSUME NEW i \in 1 .. Cardinality(S)
        PROVE  Walk(S)[i] \in S /\ Place(S, Walk(S)[i]) = i - 1
    <2>1. i - 1 \in 0 .. Cardinality(S) - 1
      BY <1>1
    <2>2. \E s \in S : Place(S, s) = i - 1
      BY <1>2, <2>1
    <2>3. Walk(S)[i] = CHOOSE s \in S : Place(S, s) = i - 1
      BY DEF Walk
    <2> QED
      BY <2>2, <2>3
  <1>4. Walk(S) \in [1 .. Cardinality(S) -> S]
    BY <1>3 DEF Walk
  <1>5. Walk(S) \in Seq(S) /\ Len(Walk(S)) = Cardinality(S)
    BY <1>1, <1>4
  <1>6. \A s \in S : Place(S, s) \in 0 .. Cardinality(S) - 1
    BY StreamsOrdered, RankGrows
  <1>7. ASSUME NEW s \in S, NEW t \in S, Place(S, s) = Place(S, t)
        PROVE  s = t
    <2> SUFFICES ASSUME s # t
                 PROVE  FALSE
      OBVIOUS
    <2>1. <<s, t>> \in KeyOrder(S) \/ <<t, s>> \in KeyOrder(S)
      BY StreamsOrdered DEF Orders
    <2>2. Place(S, s) < Place(S, t) \/ Place(S, t) < Place(S, s)
      BY <2>1, StreamsOrdered, RankGrows
    <2> QED
      BY <1>6, <1>7, <2>2
  <1>8. ASSUME NEW s \in S
        PROVE  Walk(S)[Place(S, s) + 1] = s
    <2> DEFINE i == Place(S, s) + 1
    <2>1. i \in 1 .. Cardinality(S) /\ i - 1 = Place(S, s)
      BY <1>1, <1>6
    <2> HIDE DEF i
    <2>2. Walk(S)[i] \in S /\ Place(S, Walk(S)[i]) = Place(S, s)
      BY <1>3, <2>1
    <2>3. Walk(S)[i] = s
      BY <1>7, <2>2
    <2> QED
      BY <2>3 DEF i
  <1> QED
    BY <1>1, <1>3, <1>5, <1>6, <1>8

\* The smaller of two numbers.
LEMMA MinOfTwo ==
    ASSUME NEW a \in Int, NEW b \in Int
    PROVE  Min({a, b}) = IF a <= b THEN a ELSE b
  <1>1. \E x \in {a, b} : \A y \in {a, b} : x <= y
    OBVIOUS
  <1>2. /\ Min({a, b}) \in {a, b}
        /\ Min({a, b}) <= a /\ Min({a, b}) <= b
    BY <1>1 DEF Min
  <1> QED
    BY <1>2

\* Every request has a page limit from 1 to MaxPageLimit (keeper/query.go:33-47).
LEMMA PageLimits ==
    ASSUME NEW limit \in Limits
    PROVE  sanitizePageRequest(limit) \in 1 .. MaxPageLimit
  BY LimitsAssumption, MinOfTwo DEF sanitizePageRequest

\* The entries of a part of a sequence.
LEMMA SubSeqEntries ==
    ASSUME NEW X, NEW s \in Seq(X), NEW a \in Nat, NEW b \in Nat, a <= b, b <= Len(s)
    PROVE  /\ SubSeq(s, a + 1, b) \in Seq(X)
           /\ Len(SubSeq(s, a + 1, b)) = b - a
           /\ \A i \in 1 .. b - a : SubSeq(s, a + 1, b)[i] = s[a + i]
  OBVIOUS

\* A page holds the entries after the offset, up to the limit or to the end
\* (keeper/query.go:74-97).
LEMMA PageEntries ==
    ASSUME NEW X, NEW list \in Seq(X), NEW offset \in Nat, NEW limit \in Nat
    PROVE  /\ Page(list, offset, limit) \in Seq(X)
           /\ Len(Page(list, offset, limit)) <= limit
           /\ offset <= Len(list) => offset + Len(Page(list, offset, limit)) <= Len(list)
           /\ offset <= Len(list) /\ Len(Page(list, offset, limit)) < limit
                 => offset + Len(Page(list, offset, limit)) = Len(list)
           /\ \A i \in 1 .. Len(Page(list, offset, limit)) :
                 Page(list, offset, limit)[i] = list[offset + i]
  <1> DEFINE page == Page(list, offset, limit)
             last == IF offset + limit <= Len(list) THEN offset + limit ELSE Len(list)
  <1>1. Len(list) \in Nat
    OBVIOUS
  <1>2. page = SubSeq(list, offset + 1, last)
    BY <1>1, MinOfTwo DEF Page
  <1>3. last \in Nat /\ last <= Len(list)
    BY <1>1
  <1> HIDE DEF last
  <1>4. CASE offset < Len(list)
    <2>1. last = IF offset + limit <= Len(list) THEN offset + limit ELSE Len(list)
      BY DEF last
    <2>2. offset <= last /\ last - offset \in Nat
      BY <1>1, <1>4, <2>1
    <2>3. last - offset <= limit /\ (last - offset < limit => last = Len(list))
      BY <1>1, <1>4, <2>1
    <2> HIDE DEF page
    <2>4. /\ page \in Seq(X) /\ Len(page) = last - offset
          /\ \A i \in 1 .. last - offset : page[i] = list[offset + i]
      BY <1>2, <1>3, <2>2, SubSeqEntries
    <2>5. offset + Len(page) = last
      BY <1>3, <2>2, <2>4
    <2> QED
      BY <1>1, <1>3, <2>3, <2>4, <2>5 DEF page
  <1>5. CASE offset >= Len(list)
    <2>1. offset + 1 > last
      BY <1>1, <1>3, <1>5
    <2>2. page = <<>>
      BY <1>2, <1>3, <2>1
    <2> QED
      BY <1>5, <2>2
  <1> QED
    BY <1>1, <1>4, <1>5

-----------------------------------------------------------------------------
(***************************************************************************)
(* A client's progress                                                     *)
(***************************************************************************)

\* The client that wants these streams has each or will come to its place: the
\* pages so far go no further than the streams before it.
Covered(S, want, pages, over) ==
    /\ want \subseteq S
    /\ pages \in Seq(StreamKey)
    /\ Len(pages) <= Cardinality(S)
    /\ \A s \in want :
          s \in Range(pages) \/ (~ over /\ Len(pages) <= Place(S, s))

\* The streams of the registry, from its first record on.
FromFirst(registryId, pages) ==
    registryId # 0 => \A n \in DOMAIN pages : pages[n] = <<registryId, n>>

\* A stream added anywhere leaves the others where they are or moves them ahead.
LEMMA GrowthKeepsCovered ==
    ASSUME NEW S, NEW T \in SUBSET StreamKey, IsFiniteSet(T), S \subseteq T,
           NEW want, NEW pages, NEW over, Covered(S, want, pages, over)
    PROVE  Covered(T, want, pages, over)
  <1>1. IsFiniteSet(S) /\ Cardinality(S) <= Cardinality(T)
    BY FS_Subset
  <1>2. Cardinality(S) \in Nat /\ Cardinality(T) \in Nat /\ Len(pages) \in Nat
    BY <1>1, FS_CardinalityType DEF Covered
  <1>3. ASSUME NEW s \in want, Len(pages) <= Place(S, s)
        PROVE  Len(pages) <= Place(T, s)
    <2> DEFINE before == {t \in S : StreamBefore(t, s)}
               beforeNow == {t \in T : StreamBefore(t, s)}
    <2>1. before \subseteq beforeNow /\ before \subseteq S /\ beforeNow \subseteq T
      OBVIOUS
    <2>2. IsFiniteSet(before) /\ IsFiniteSet(beforeNow)
      BY <1>1, <2>1, FS_Subset
    <2>3. /\ Cardinality(before) \in Nat /\ Cardinality(beforeNow) \in Nat
          /\ Cardinality(before) <= Cardinality(beforeNow)
      <3> HIDE DEF before, beforeNow
      <3> QED BY <2>1, <2>2, FS_Subset, FS_CardinalityType
    <2>4. Place(S, s) = Cardinality(before) /\ Place(T, s) = Cardinality(beforeNow)
      BY DEF Place
    <2> HIDE DEF before, beforeNow
    <2> QED
      BY <1>2, <1>3, <2>3, <2>4
  <1> QED
    BY <1>1, <1>2, <1>3 DEF Covered

\* What one more page does: it appends the entries of the listing that follow, and
\* unless it is full it comes to the end (keeper/query.go:74-97).
LEMMA NextPage ==
    ASSUME NEW X, NEW list \in Seq(X), NEW pages \in Seq(X), Len(pages) <= Len(list),
           NEW limit \in Nat, NEW page, page = Page(list, Len(pages), limit)
    PROVE  /\ page \in Seq(X) /\ pages \o page \in Seq(X)
           /\ Len(pages \o page) = Len(pages) + Len(page)
           /\ Len(pages \o page) <= Len(list)
           /\ Len(page) < limit => Len(pages \o page) = Len(list)
           /\ \A i \in 1 .. Len(pages) : (pages \o page)[i] = pages[i]
           /\ \A i \in 1 .. Len(pages \o page) :
                 i > Len(pages) => (pages \o page)[i] = list[i]
  <1> DEFINE n == Len(pages)
             new == pages \o page
  <1>1. n \in Nat /\ n <= Len(list) /\ Len(list) \in Nat
    OBVIOUS
  <1>2. page = Page(list, n, limit)
    OBVIOUS
  <1> HIDE DEF n
  <1>3. /\ page \in Seq(X)
        /\ n + Len(page) <= Len(list)
        /\ Len(page) < limit => n + Len(page) = Len(list)
        /\ \A i \in 1 .. Len(page) : page[i] = list[n + i]
    BY <1>1, <1>2, PageEntries
  <1>4. /\ new \in Seq(X)
        /\ Len(new) = Len(pages) + Len(page)
        /\ \A i \in 1 .. Len(pages) + Len(page) :
              new[i] = IF i <= Len(pages) THEN pages[i] ELSE page[i - Len(pages)]
    BY <1>3
  <1> HIDE DEF new
  <1>5. Len(page) \in Nat /\ Len(new) = n + Len(page) /\ n = Len(pages)
    BY <1>3, <1>4 DEF n
  <1>6. ASSUME NEW i \in 1 .. Len(new), i > n
        PROVE  new[i] = list[i]
    <2> DEFINE j == i - n
    <2>1. j \in 1 .. Len(page) /\ n + j = i /\ i \in 1 .. n + Len(page) /\ ~ (i <= n)
      BY <1>1, <1>5, <1>6
    <2>2. new[i] = page[j]
      BY <1>4, <1>5, <2>1
    <2> HIDE DEF j
    <2> QED
      BY <1>3, <2>1, <2>2
  <1>7. \A i \in 1 .. n : new[i] = pages[i]
    BY <1>1, <1>4, <1>5
  <1>8. Len(new) <= Len(list) /\ (Len(page) < limit => Len(new) = Len(list))
    BY <1>1, <1>3, <1>5
  <1> QED
    BY <1>3, <1>4, <1>5, <1>6, <1>7, <1>8 DEF n, new

\* One more page keeps the client on its way.
LEMMA PageKeepsCovered ==
    ASSUME NEW S \in SUBSET StreamKey, IsFiniteSet(S), NEW want, NEW pages,
           Covered(S, want, pages, FALSE), NEW limit \in Nat, NEW page,
           page = Page(Walk(S), Len(pages), limit)
    PROVE  Covered(S, want, pages \o page, Len(page) < limit)
  <1> DEFINE new == pages \o page
             list == Walk(S)
  <1>1. /\ pages \in Seq(StreamKey) /\ list \in Seq(StreamKey)
        /\ Len(list) = Cardinality(S) /\ Len(pages) <= Len(list)
        /\ page = Page(list, Len(pages), limit)
    BY WalkVisits DEF Covered
  <1> HIDE DEF list
  <1>2. page \in Seq(StreamKey) /\ new \in Seq(StreamKey)
    BY <1>1, NextPage
  <1>3. Len(new) = Len(pages) + Len(page)
    BY <1>1, NextPage
  <1>4. Len(new) <= Cardinality(S) /\ (Len(page) < limit => Len(new) = Cardinality(S))
    BY <1>1, NextPage
  <1>5. \A i \in 1 .. Len(pages) : new[i] = pages[i]
    BY <1>1, NextPage
  <1>6. \A i \in 1 .. Len(new) : i > Len(pages) => new[i] = list[i]
    BY <1>1, NextPage
  <1> HIDE DEF new
  <1>7. Len(pages) \in Nat /\ Len(page) \in Nat /\ Len(new) \in Nat
    BY <1>1, <1>2
  <1>8. DOMAIN new = 1 .. Len(new) /\ DOMAIN pages = 1 .. Len(pages)
    BY <1>1, <1>2
  <1>9. ASSUME NEW s \in want, s \in Range(pages)
        PROVE  s \in Range(new)
    <2>1. PICK i \in 1 .. Len(pages) : pages[i] = s
      BY <1>8, <1>9 DEF Range
    <2>2. i \in 1 .. Len(new) /\ new[i] = s
      BY <1>3, <1>5, <1>7, <2>1
    <2> QED
      BY <1>8, <2>2 DEF Range
  <1>10. ASSUME NEW s \in want, Len(pages) <= Place(S, s)
        PROVE  s \in Range(new) \/ (~ (Len(page) < limit) /\ Len(new) <= Place(S, s))
    <2> DEFINE i == Place(S, s) + 1
    <2>1. /\ Place(S, s) \in 0 .. Cardinality(S) - 1 /\ Cardinality(S) \in Nat
          /\ list[i] = s
      BY WalkVisits DEF Covered, list
    <2>2. i \in Nat /\ i = Place(S, s) + 1
      BY <2>1
    <2> HIDE DEF i
    <2>3. CASE i <= Len(new)
      <3>1. i \in 1 .. Len(new) /\ i > Len(pages)
        BY <1>7, <1>10, <2>1, <2>2, <2>3
      <3>2. new[i] = s
        BY <1>6, <2>1, <3>1
      <3> QED
        BY <1>8, <3>1, <3>2 DEF Range
    <2>4. CASE i > Len(new)
      BY <1>4, <1>7, <2>1, <2>2, <2>4
    <2> QED
      BY <1>7, <2>2, <2>3, <2>4
  <1>11. \A s \in want : s \in Range(new) \/ (~ (Len(page) < limit) /\ Len(new) <= Place(S, s))
    BY <1>9, <1>10 DEF Covered
  <1>12. want \subseteq S
    BY DEF Covered
  <1>13. Covered(S, want, new, Len(page) < limit)
    BY <1>2, <1>4, <1>11, <1>12, Zenon DEF Covered
  <1> QED
    BY <1>13 DEF new

\* The first page is one more page after none.
LEMMA FirstPageCovered ==
    ASSUME NEW S \in SUBSET StreamKey, IsFiniteSet(S), NEW limit \in Nat,
           NEW page, page = Page(Walk(S), 0, limit)
    PROVE  Covered(S, Range(Walk(S)), page, Len(page) < limit)
  <1> DEFINE none == <<>>
  <1>1. none \in Seq(StreamKey) /\ Len(none) = 0
    OBVIOUS
  <1>2. /\ Cardinality(S) \in Nat /\ Len(Walk(S)) = Cardinality(S)
        /\ Walk(S) \in Seq(S)
        /\ \A i \in 1 .. Cardinality(S) : Walk(S)[i] \in S
        /\ \A s \in S : Place(S, s) \in 0 .. Cardinality(S) - 1
    BY WalkVisits
  <1>3. Range(Walk(S)) \subseteq S
    <2>1. DOMAIN Walk(S) = 1 .. Cardinality(S)
      BY <1>2
    <2> QED
      BY <1>2, <2>1 DEF Range
  <1>4. Covered(S, Range(Walk(S)), none, FALSE)
    <2>1. \A s \in S : Len(none) <= Place(S, s)
      BY <1>1, <1>2
    <2>2. Len(none) <= Cardinality(S)
      BY <1>1, <1>2
    <2> HIDE DEF none
    <2> QED
      BY <1>1, <1>3, <2>1, <2>2 DEF Covered
  <1>5. page = Page(Walk(S), Len(none), limit)
    BY <1>1
  <1>6. none \o page = page
    <2>1. page \in Seq(StreamKey)
      <3>1. Walk(S) \in Seq(StreamKey)
        BY <1>2
      <3> QED
        BY <3>1, PageEntries
    <2> QED
      BY <2>1
  <1> HIDE DEF none
  <1>7. Covered(S, Range(Walk(S)), none \o page, Len(page) < limit)
    BY <1>4, <1>5, PageKeepsCovered, Zenon
  <1> QED
    BY <1>6, <1>7, Zenon

-----------------------------------------------------------------------------
(***************************************************************************)
(* The streams of the collections                                          *)
(***************************************************************************)

\* Only finitely many records have been added.
Finite == IsFiniteSet(DOMAIN recordIndices)

\* Every listed stream is in the collections (keeper/anchoring.go:90-102).
LEMMA StreamsStored ==
    ASSUME TypeOK, RecordInv, Finite, NEW f
    PROVE  /\ Streams(f) \subseteq DOMAIN recordIndices
           /\ Streams(f) \in SUBSET StreamKey
           /\ IsFiniteSet(Streams(f))
  <1>1. DOMAIN recordIndices \subseteq StreamKey
    BY DEF TypeOK, IsMap, StreamKey
  <1>2. ASSUME NEW k \in DOMAIN recordIdByChecksumAndRegistry
        PROVE  <<k[2], recordIdByChecksumAndRegistry[k]>> \in DOMAIN recordIndices
    <2>1. k \in Checksum \X Id
      BY DEF TypeOK, IsMap
    <2>2. k = <<k[1], k[2]>> /\ <<k[2], k[1]>> \in DOMAIN recordIdByRegistryAndChecksum
      BY <2>1 DEF RecordInv, OneStreamPerChecksum
    <2> DEFINE j == <<k[2], k[1]>>
    <2>3. /\ recordIdByChecksumAndRegistry[<<j[2], j[1]>>] = recordIdByRegistryAndChecksum[j]
          /\ <<j[1], recordIdByRegistryAndChecksum[j]>> \in DOMAIN recordIndices
      BY <2>2 DEF RecordInv, OneStreamPerChecksum
    <2> QED
      BY <2>2, <2>3
  <1>3. Streams(f) \subseteq DOMAIN recordIndices
    BY <1>2 DEF Streams
  <1> QED
    BY <1>1, <1>3, FS_Subset DEF Finite

\* The records of a registry are 1, 2, ..., so each is at the place of its id
\* (keeper/anchoring.go:82-98).
LEMMA RegistryPlaces ==
    ASSUME TypeOK, RecordInv, Finite, NEW f, f.registryId # 0,
           NEW s \in Streams(f)
    PROVE  s = <<f.registryId, Place(Streams(f), s) + 1>>
  <1> DEFINE r == f.registryId
             n == s[2]
             before == {t \in Streams(f) : StreamBefore(t, s)}
             h == [m \in 1 .. n - 1 |-> <<r, m>>]
  <1>1. s \in DOMAIN recordIndices /\ s[1] = r /\ r \in Id /\ n \in Id /\ s = <<r, n>>
    <2>1. s \in DOMAIN recordIndices /\ s[1] = r
      BY DEF Streams
    <2>2. s \in Id \X Id
      BY <2>1 DEF TypeOK, IsMap
    <2> QED
      BY <2>1, <2>2
  <1>2. /\ r \in DOMAIN registries /\ n <= recordsCountByRegistry[r]
        /\ \A m \in 1 .. recordsCountByRegistry[r] : <<r, m>> \in DOMAIN recordIndices
    BY <1>1 DEF RecordInv, StreamsDense
  <1>3. recordsCountByRegistry[r] \in Nat
    BY <1>2 DEF RecordInv, RegistriesDense, TypeOK, IsMap
  <1>4. \A m \in 1 .. n - 1 : <<r, m>> \in before
    <2> TAKE m \in 1 .. n - 1
    <2>1. m \in 1 .. recordsCountByRegistry[r] /\ m < n
      BY <1>1, <1>2, <1>3 DEF Id
    <2>2. <<r, m>> \in Streams(f)
      BY <1>2, <2>1 DEF Streams
    <2> QED
      BY <1>1, <2>1, <2>2 DEF StreamBefore
  <1>5. ASSUME NEW t \in before
        PROVE  t[2] \in 1 .. n - 1 /\ t = <<r, t[2]>>
    <2>1. t \in StreamKey /\ t[1] = r /\ StreamBefore(t, s)
      BY StreamsStored, Zenon DEF Streams
    <2>2. t = <<t[1], t[2]>> /\ t[2] \in Id /\ t[2] < n
      BY <1>1, <2>1 DEF StreamKey, StreamBefore, Id
    <2> QED
      BY <1>1, <2>1, <2>2 DEF Id
  <1>6. h \in Bijection(1 .. n - 1, before)
    <2>1. h \in [1 .. n - 1 -> before]
      BY <1>4
    <2>2. \A a, b \in 1 .. n - 1 : h[a] = h[b] => a = b
      OBVIOUS
    <2>3. \A t \in before : \E a \in 1 .. n - 1 : h[a] = t
      BY <1>5
    <2> QED
      BY <2>1, <2>2, <2>3, Zenon DEF Bijection, Injection, IsInjective, Surjection, h
  <1>7. Cardinality(before) = n - 1
    <2>1. IsFiniteSet(1 .. n - 1) /\ Cardinality(1 .. n - 1) = n - 1
      <3>1. n - 1 \in Int /\ n - 1 >= 0
        BY <1>1 DEF Id
      <3>2. n - 1 - 1 + 1 = n - 1
        BY <1>1 DEF Id
      <3> HIDE DEF n
      <3> QED
        BY <3>1, <3>2, FS_Interval
    <2> HIDE DEF h, before
    <2> QED
      BY <1>6, <2>1, FS_Bijection DEF ExistsBijection
  <1>8. Place(Streams(f), s) = n - 1
    BY <1>7 DEF Place
  <1> QED
    BY <1>1, <1>8 DEF Id

\* What the walks read of the collections only grows: an entry stays under its key,
\* and the checksum indexes never name another record (keeper/anchoring.go:82-116).
ReadsGrow ==
    /\ DOMAIN recordIndices \subseteq DOMAIN recordIndices'
    /\ \A k \in DOMAIN recordIdByChecksumAndRegistry :
          /\ k \in DOMAIN recordIdByChecksumAndRegistry'
          /\ recordIdByChecksumAndRegistry'[k] = recordIdByChecksumAndRegistry[k]
    /\ Finite'

\* AddRecord enters a new checksum under keys that were free.
LEMMA AddRecordGrows ==
    ASSUME TypeOK, RecordInv, Finite, NEW sender, NEW r, NEW c, NEW status,
           AddRecord(sender, r, c, status)
    PROVE  ReadsGrow
  <1> DEFINE n == RecordIdFor(r, c)
             isNew == <<r, c>> \notin DOMAIN recordIdByRegistryAndChecksum
  <1>1. recordIndices' = Put(recordIndices, <<r, n>>, NextIndex(r, n))
    BY DEF AddRecord
  <1>2. DOMAIN recordIndices' = DOMAIN recordIndices \cup {<<r, n>>}
    BY <1>1 DEF Put
  <1>3. Finite'
    BY <1>2, FS_AddElement DEF Finite
  <1>4. CASE isNew
    <2>1. <<c, r>> \notin DOMAIN recordIdByChecksumAndRegistry
      BY <1>4 DEF RecordInv, OneStreamPerChecksum
    <2>2. recordIdByChecksumAndRegistry' = Put(recordIdByChecksumAndRegistry, <<c, r>>, n)
      BY <1>4 DEF AddRecord, IndexChecksum
    <2>3. \A k \in DOMAIN recordIdByChecksumAndRegistry :
             /\ k \in DOMAIN recordIdByChecksumAndRegistry'
             /\ recordIdByChecksumAndRegistry'[k] = recordIdByChecksumAndRegistry[k]
      BY <2>1, <2>2 DEF Put
    <2> QED
      BY <1>2, <1>3, <2>3 DEF ReadsGrow
  <1>5. CASE ~ isNew
    <2>1. recordIdByChecksumAndRegistry' = recordIdByChecksumAndRegistry
      BY <1>5 DEF AddRecord
    <2> QED
      BY <1>2, <1>3, <2>1 DEF ReadsGrow
  <1> QED
    BY <1>4, <1>5

\* No message takes a stream out of a listing.
LEMMA StreamsGrow ==
    ASSUME TypeOK, RecordInv, Finite, [Next]_vars
    PROVE  Finite' /\ \A f : Streams(f) \subseteq Streams(f)'
  <1>1. ASSUME UNCHANGED <<recordIndices, recordIdByChecksumAndRegistry>>
        PROVE  ReadsGrow
    BY <1>1 DEF ReadsGrow, Finite
  <1>2. ASSUME NEW sender, AddRegistry(sender) PROVE ReadsGrow
    BY <1>1, <1>2 DEF AddRegistry
  <1>3. ASSUME NEW sender, NEW r, NEW n, NEW i, NEW status,
               UpdateRecordStatus(sender, r, n, i, status)
        PROVE  ReadsGrow
    BY <1>1, <1>3 DEF UpdateRecordStatus
  <1>4. ASSUME NEW granter, NEW grantee, NEW r, NEW c, NEW role,
               GrantRole(granter, grantee, r, c, role)
        PROVE  ReadsGrow
    BY <1>1, <1>4 DEF GrantRole, recordVars
  <1>5. ASSUME NEW revoker, NEW revokee, NEW r, NEW c, NEW role,
               RevokeRole(revoker, revokee, r, c, role)
        PROVE  ReadsGrow
    BY <1>1, <1>5 DEF RevokeRole, recordVars
  <1>6. ASSUME NEW authority, NEW newAdmin, UpdateParams(authority, newAdmin)
        PROVE  ReadsGrow
    BY <1>1, <1>6 DEF UpdateParams, recordVars
  <1>7. ASSUME UNCHANGED vars PROVE ReadsGrow
    BY <1>1, <1>7 DEF vars, recordVars
  <1>8. ReadsGrow
    BY <1>2, <1>3, <1>4, <1>5, <1>6, <1>7, AddRecordGrows, ZenonT(20) DEF Next
  <1>9. ASSUME NEW f
        PROVE  Streams(f) \subseteq Streams(f)'
    BY <1>8 DEF ReadsGrow, Streams
  <1> QED
    BY <1>8, <1>9 DEF ReadsGrow

-----------------------------------------------------------------------------
(***************************************************************************)
(* The invariant                                                           *)
(***************************************************************************)

\* NothingMissed is not inductive: it says nothing of a listing in progress.  What
\* carries it from page to page is Covered, for the streams as they are now.
QueryInv ==
    /\ TypeOK /\ RecordInv /\ Finite
    /\ filter \in Filters
    /\ done \in BOOLEAN
    /\ Covered(Streams(filter), expected, got, done)
    /\ FromFirst(filter.registryId, got)

\* No listing is in progress and nothing has been asked for.
LEMMA QueryInvInit == QueryInit => QueryInv
  <1> SUFFICES ASSUME QueryInit
               PROVE  QueryInv
    OBVIOUS
  <1>1. Init
    BY DEF QueryInit
  <1>2. RecordInv
    BY <1>1 DEF Init, EmptyMap, RecordInv, RegistriesDense, StreamsDense,
           OneLatestVersion, OneStreamPerChecksum
  <1>3. TypeOK
    BY <1>1, InitType
  <1>4. Finite
    BY <1>1, FS_EmptySet DEF Init, EmptyMap, Finite
  <1>5. IsFiniteSet(Streams(filter))
    BY <1>2, <1>3, <1>4, StreamsStored
  <1>6. Cardinality(Streams(filter)) \in Nat
    BY <1>5, FS_CardinalityType
  <1>7. got = <<>> /\ expected = {} /\ done = TRUE
        /\ filter = [registryId |-> 0, checksum |-> NoChecksum]
    BY DEF QueryInit
  <1>8. filter \in Filters /\ filter.registryId = 0
    BY <1>7 DEF Filters
  <1>9. Covered(Streams(filter), expected, got, done)
    <2>1. got \in Seq(StreamKey) /\ Len(got) = 0
      BY <1>7
    <2> QED
      BY <1>6, <1>7, <2>1 DEF Covered
  <1>10. FromFirst(filter.registryId, got)
    BY <1>8 DEF FromFirst
  <1>11. done \in BOOLEAN
    BY <1>7
  <1> QED
    BY <1>2, <1>3, <1>4, <1>8, <1>9, <1>10, <1>11 DEF QueryInv

\* What the client lists is a finite set of keys.
ListingFinite == Streams(filter) \in SUBSET StreamKey /\ IsFiniteSet(Streams(filter))

\* So it is before and after a step.
LEMMA ListingKeys == TypeOK /\ RecordInv /\ Finite => ListingFinite
  BY StreamsStored DEF ListingFinite

\* A message moves the streams ahead of the client, never behind it.
LEMMA MessageKeepsInv ==
    ASSUME QueryInv, [Next]_vars, UNCHANGED clientVars
    PROVE  QueryInv'
  <1>1. TypeOK' /\ RecordInv' /\ Finite'
    BY TypeStep, RecordStep, StreamsGrow DEF QueryInv
  <1>2. UNCHANGED <<filter, got, expected, done>>
    BY DEF clientVars
  <1>3. Streams(filter) \subseteq Streams(filter)'
    <2>1. \A f : Streams(f) \subseteq Streams(f)'
      BY StreamsGrow DEF QueryInv
    <2> QED
      BY <1>2, <2>1 DEF Streams
  <1>4. Streams(filter)' \in SUBSET StreamKey /\ IsFiniteSet(Streams(filter)')
    <2>1. ListingFinite'
      BY <1>1, ListingKeys, PTL
    <2> QED
      BY <2>1 DEF ListingFinite
  <1>5. Covered(Streams(filter), expected, got, done)
    BY DEF QueryInv
  <1>6. Covered(Streams(filter)', expected, got, done)
    BY <1>3, <1>4, <1>5, GrowthKeepsCovered
  <1>7. Covered(Streams(filter), expected, got, done)'
    BY <1>2, <1>6
  <1> QED
    BY <1>1, <1>2, <1>7 DEF QueryInv, FromFirst

\* The first page of a listing lists the streams there are.
LEMMA BeginKeepsInv ==
    ASSUME QueryInv, NEW f \in Filters, NEW limit \in Limits, Begin(f, limit)
    PROVE  QueryInv'
  <1> DEFINE S == Streams(f)
             size == sanitizePageRequest(limit)
             page == Page(Walk(S), 0, size)
  <1>1. /\ filter' = f /\ expected' = Range(Walk(S)) /\ got' = page
        /\ done' = (Len(page) < size)
    BY DEF Begin, Listing
  <1>2. UNCHANGED vars
    BY DEF Begin
  <1>3. TypeOK' /\ RecordInv' /\ Finite'
    BY <1>2, TypeStep, RecordStep, StreamsGrow DEF QueryInv
  <1>4. Streams(filter)' = S
    BY <1>1, <1>2 DEF Streams, vars, recordVars
  <1>5. S \in SUBSET StreamKey /\ IsFiniteSet(S)
    BY StreamsStored DEF QueryInv
  <1>6. size \in Nat /\ size > 0
    BY PageLimits, LimitsAssumption
  <1>7. ASSUME NEW n \in DOMAIN page, f.registryId # 0
        PROVE  page[n] = <<f.registryId, n>>
    <2> DEFINE list == Walk(S)
    <2>1. /\ list \in Seq(S) /\ Len(list) = Cardinality(S) /\ Cardinality(S) \in Nat
          /\ \A i \in 1 .. Cardinality(S) : list[i] \in S /\ Place(S, list[i]) = i - 1
      BY <1>5, WalkVisits
    <2>2. page \in Seq(S) /\ 0 + Len(page) <= Len(list)
          /\ \A i \in 1 .. Len(page) : page[i] = list[0 + i]
      <3> HIDE DEF list, S, size
      <3>1. 0 \in Nat /\ 0 <= Len(list)
        BY <2>1
      <3>2. page = Page(list, 0, size)
        BY DEF list
      <3> HIDE DEF page
      <3> QED
        BY <1>6, <2>1, <3>1, <3>2, PageEntries
    <2>3. n \in 1 .. Cardinality(S) /\ page[n] = list[n]
      <3> HIDE DEF page, list, S
      <3> QED BY <2>1, <2>2
    <2>4. list[n] \in S /\ Place(S, list[n]) + 1 = n
      <3> HIDE DEF page, list, S
      <3> QED BY <2>1, <2>3
    <2> HIDE DEF list, page
    <2>5. list[n] = <<f.registryId, Place(S, list[n]) + 1>>
      BY <1>7, <2>4, RegistryPlaces DEF QueryInv
    <2> QED
      BY <2>3, <2>4, <2>5
  <1>8. FromFirst(f.registryId, page)
    BY <1>7 DEF FromFirst
  <1> HIDE DEF S, size
  <1>9. Covered(S, Range(Walk(S)), page, Len(page) < size)
    BY <1>5, <1>6, FirstPageCovered
  <1> HIDE DEF page
  <1>10. Covered(Streams(filter), expected, got, done)' /\ FromFirst(filter.registryId, got)'
    BY <1>1, <1>4, <1>8, <1>9
  <1>11. filter' \in Filters /\ done' \in BOOLEAN
    BY <1>1
  <1> QED
    BY <1>3, <1>10, <1>11 DEF QueryInv

\* A further page starts where the ones before it end, in the streams as they are now.
LEMMA ContinueKeepsInv ==
    ASSUME QueryInv, NEW limit \in Limits, Continue(limit)
    PROVE  QueryInv'
  <1> DEFINE S == Streams(filter)
             size == sanitizePageRequest(limit)
             list == Walk(S)
             page == Page(list, Len(got), size)
             new == got \o page
  <1>1. ~ done /\ got' = new /\ done' = (Len(page) < size)
    BY DEF Continue, Listing
  <1>2. UNCHANGED vars /\ UNCHANGED <<filter, expected>>
    BY DEF Continue
  <1>3. TypeOK' /\ RecordInv' /\ Finite'
    BY <1>2, TypeStep, RecordStep, StreamsGrow DEF QueryInv
  <1>4. Streams(filter)' = S
    BY <1>2 DEF Streams, vars, recordVars
  <1>5. S \in SUBSET StreamKey /\ IsFiniteSet(S)
    BY StreamsStored DEF QueryInv
  <1>6. size \in Nat
    BY PageLimits, LimitsAssumption
  <1>7. Covered(S, expected, got, FALSE)
    BY <1>1 DEF QueryInv, Covered
  <1>8. Covered(S, expected, new, Len(page) < size)
    <2> HIDE DEF S, size
    <2> QED BY <1>5, <1>6, <1>7, PageKeepsCovered, Zenon
  <1>9. ASSUME NEW n \in DOMAIN new, filter.registryId # 0
        PROVE  new[n] = <<filter.registryId, n>>
    <2>1. /\ list \in Seq(StreamKey) /\ Len(list) = Cardinality(S)
          /\ Cardinality(S) \in Nat
          /\ \A i \in 1 .. Cardinality(S) : list[i] \in S /\ Place(S, list[i]) = i - 1
      BY <1>5, WalkVisits
    <2>2. got \in Seq(StreamKey) /\ Len(got) <= Len(list)
      BY <1>7, <2>1 DEF Covered
    <2> HIDE DEF S, size, list
    <2>3. /\ new \in Seq(StreamKey) /\ Len(new) <= Len(list)
          /\ \A i \in 1 .. Len(got) : new[i] = got[i]
          /\ \A i \in 1 .. Len(new) : i > Len(got) => new[i] = list[i]
      BY <1>6, <2>1, <2>2, NextPage
    <2> HIDE DEF new
    <2>4. n \in 1 .. Len(new) /\ DOMAIN got = 1 .. Len(got) /\ Len(got) \in Nat
      BY <2>2, <2>3
    <2>5. CASE n <= Len(got)
      <3>1. n \in 1 .. Len(got)
        BY <2>4, <2>5
      <3>2. new[n] = got[n] /\ n \in DOMAIN got
        BY <2>3, <2>4, <3>1
      <3>3. got[n] = <<filter.registryId, n>>
        BY <1>9, <3>2 DEF QueryInv, FromFirst
      <3> QED
        BY <3>2, <3>3
    <2>6. CASE n > Len(got)
      <3>1. new[n] = list[n] /\ n \in 1 .. Cardinality(S)
        BY <2>1, <2>3, <2>4, <2>6
      <3>2. list[n] \in S /\ Place(S, list[n]) + 1 = n
        BY <2>1, <3>1
      <3>3. list[n] = <<filter.registryId, Place(S, list[n]) + 1>>
        BY <1>9, <3>2, RegistryPlaces DEF QueryInv, S
      <3> QED
        BY <3>1, <3>2, <3>3
    <2> QED
      BY <2>4, <2>5, <2>6
  <1>10. FromFirst(filter.registryId, new)
    BY <1>9 DEF FromFirst
  <1> HIDE DEF S, size, page, new
  <1>11. Covered(Streams(filter), expected, got, done)' /\ FromFirst(filter.registryId, got)'
    BY <1>1, <1>2, <1>4, <1>8, <1>10
  <1>12. filter' \in Filters /\ done' \in BOOLEAN
    BY <1>1, <1>2 DEF QueryInv
  <1> QED
    BY <1>3, <1>11, <1>12 DEF QueryInv

\* Every step keeps the invariant.
LEMMA QueryInvStep == QueryInv /\ [QueryNext]_queryVars => QueryInv'
  <1> SUFFICES ASSUME QueryInv, [QueryNext]_queryVars
               PROVE  QueryInv'
    OBVIOUS
  <1>1. CASE Next /\ UNCHANGED clientVars
    BY <1>1, MessageKeepsInv
  <1>2. CASE UNCHANGED queryVars
    BY <1>2, MessageKeepsInv DEF queryVars
  <1> QED
    BY <1>1, <1>2, BeginKeepsInv, ContinueKeepsInv DEF QueryNext

\* The invariant holds in every reachable state.
LEMMA QueryInvariant == QuerySpec => []QueryInv
  BY QueryInvInit, QueryInvStep, PTL DEF QuerySpec

-----------------------------------------------------------------------------
(***************************************************************************)
(* What the queries promise                                                *)
(***************************************************************************)

\* No page of any listing is too long, or empty before the end (keeper/query.go:33-97).
LEMMA PagesFit ==
    ASSUME TypeOK, RecordInv, Finite, NEW f, NEW limit \in Limits, NEW offset \in Nat,
           NEW page, page = Page(Listing(f), offset, sanitizePageRequest(limit))
    PROVE  /\ Len(page) <= MaxPageLimit
           /\ offset < Len(Listing(f)) => page # <<>>
  <1> DEFINE list == Listing(f)
             size == sanitizePageRequest(limit)
  <1>1. list \in Seq(Streams(f))
    BY StreamsStored, WalkVisits DEF Listing
  <1>2. size \in 1 .. MaxPageLimit /\ size \in Nat /\ MaxPageLimit \in Nat
    BY PageLimits, LimitsAssumption
  <1>3. page = Page(list, offset, size)
    OBVIOUS
  <1> HIDE DEF list, size
  <1>4. /\ page \in Seq(Streams(f)) /\ Len(page) <= size
        /\ offset <= Len(list) /\ Len(page) < size => offset + Len(page) = Len(list)
    <2>1. page \in Seq(Streams(f))
      BY <1>1, <1>2, <1>3, PageEntries, Zenon
    <2>2. Len(page) <= size
      BY <1>1, <1>2, <1>3, PageEntries, Zenon
    <2>3. offset <= Len(list) /\ Len(page) < size => offset + Len(page) = Len(list)
      BY <1>1, <1>2, <1>3, PageEntries
    <2> QED
      BY <2>1, <2>2, <2>3
  <1>5. Len(page) \in Nat /\ Len(list) \in Nat
    BY <1>1, <1>4
  <1>6. Len(page) <= MaxPageLimit
    BY <1>2, <1>4, <1>5
  <1>7. ASSUME offset < Len(list), page = <<>>
        PROVE  FALSE
    <2>1. Len(page) = 0
      BY <1>7
    <2> QED
      BY <1>2, <1>4, <1>5, <1>7, <2>1
  <1> QED
    BY <1>6, <1>7 DEF list

\* Paging by offset loses no stream, whatever is added between two pages
\* (keeper/query.go:33-47, 74-97, 122-226).
THEOREM NothingMissedAlways == QuerySpec => []NothingMissed
  <1>1. QueryInv => NothingMissed
    <2> SUFFICES ASSUME QueryInv
                 PROVE  NothingMissed
      OBVIOUS
    <2>1. done => expected \subseteq Range(got)
      BY DEF QueryInv, Covered
    <2>2. ASSUME NEW f \in Filters
          PROVE  LET list == Listing(f)
                 IN  \A limit \in Limits, offset \in 0 .. MaxVersions :
                        LET page == Page(list, offset, sanitizePageRequest(limit))
                        IN  /\ Len(page) <= MaxPageLimit
                            /\ offset < Len(list) => page # <<>>
      <3> SUFFICES ASSUME NEW limit \in Limits, NEW offset \in 0 .. MaxVersions
                   PROVE  LET page == Page(Listing(f), offset, sanitizePageRequest(limit))
                          IN  /\ Len(page) <= MaxPageLimit
                              /\ offset < Len(Listing(f)) => page # <<>>
        OBVIOUS
      <3>1. offset \in Nat
        OBVIOUS
      <3> QED
        BY <3>1, PagesFit DEF QueryInv
    <2> QED
      BY <2>1, <2>2 DEF NothingMissed
  <1> QED
    BY <1>1, QueryInvariant, PTL

\* Within a registry no record is listed twice and none out of order
\* (keeper/query.go:122-152, keeper/anchoring.go:82-98).
THEOREM RegistryPagesAlways == QuerySpec => []RegistryPagesStable
  <1>1. QueryInv => RegistryPagesStable
    <2> SUFFICES ASSUME QueryInv, filter.registryId # 0,
                        NEW i \in DOMAIN got, NEW j \in DOMAIN got, i < j
                 PROVE  StreamBefore(got[i], got[j])
      BY DEF RegistryPagesStable
    <2>1. got[i] = <<filter.registryId, i>> /\ got[j] = <<filter.registryId, j>>
      BY DEF QueryInv, FromFirst
    <2> QED
      BY <2>1 DEF StreamBefore
  <1> QED
    BY <1>1, QueryInvariant, PTL

\* The latest version of a stream is stored, flagged and filed under its own fields
\* (keeper/anchoring.go:119-137).
LEMMA LatestStored ==
    ASSUME TypeOK, RecordInv, NEW s \in DOMAIN recordIndices
    PROVE  /\ s = <<s[1], s[2]>>
           /\ Answered(s) = <<s[1], s[2], recordIndices[s]>>
           /\ Answered(s) \in DOMAIN records
           /\ records[Answered(s)].isLatest
           /\ records[Answered(s)].registryId = s[1]
  <1> DEFINE key == <<s[1], s[2], recordIndices[s]>>
  <1>1. s = <<s[1], s[2]>> /\ recordIndices[s] \in Id
    BY DEF TypeOK, IsMap
  <1>2. key \in DOMAIN records
    BY <1>1 DEF RecordInv, StreamsDense, Id
  <1>3. key[1] = s[1] /\ key[2] = s[2] /\ key[3] = recordIndices[s]
    OBVIOUS
  <1> HIDE DEF key
  <1>4. key = <<records[key].registryId, records[key].recordId, records[key].index>>
    BY <1>2, Zenon DEF RecordInv, StreamsDense
  <1>5. records[key].isLatest <=> key[3] = recordIndices[<<key[1], key[2]>>]
    BY <1>2 DEF RecordInv, OneLatestVersion
  <1>6. records[key].isLatest
    BY <1>1, <1>3, <1>5
  <1>7. records[key].registryId = s[1]
    BY <1>3, <1>4
  <1>8. Answered(s) = key
    BY DEF Answered, key
  <1> QED
    BY <1>1, <1>2, <1>6, <1>7, <1>8 DEF key

\* A checksum with a registry has its record there, and what is filed under that record
\* is what the registry holds of the checksum (keeper/query.go:99-120).
LEMMA ResolvesRecord ==
    ASSUME TypeOK, RecordInv, NEW r \in RegistryIds, NEW c \in Checksum
    PROVE  /\ Resolve(r, c) # 0 => <<r, Resolve(r, c)>> \in DOMAIN recordIndices
           /\ \A key \in DOMAIN records :
                 key[1] = r => (records[key].checksum = c <=> key[2] = Resolve(r, c))
  <1> DEFINE byChecksum == recordIdByRegistryAndChecksum
  <1>1. \A key \in DOMAIN records : key[2] \in Id
    BY DEF TypeOK, IsMap
  <1>2. \A key \in DOMAIN records :
           records[key].checksum = c <=>
              /\ <<key[1], c>> \in DOMAIN byChecksum
              /\ byChecksum[<<key[1], c>>] = key[2]
    BY DEF RecordInv, OneStreamPerChecksum
  <1>3. CASE <<r, c>> \in DOMAIN byChecksum
    <2>1. Resolve(r, c) = byChecksum[<<r, c>>]
      BY <1>3 DEF Resolve
    <2>2. <<r, byChecksum[<<r, c>>]>> \in DOMAIN recordIndices
      BY <1>3, Zenon DEF RecordInv, OneStreamPerChecksum
    <2> QED
      BY <1>2, <1>3, <2>1, <2>2
  <1>4. CASE <<r, c>> \notin DOMAIN byChecksum
    <2>1. Resolve(r, c) = 0
      BY <1>4 DEF Resolve
    <2>2. ASSUME NEW key \in DOMAIN records, key[1] = r
          PROVE  ~ (records[key].checksum = c) /\ key[2] # 0
      BY <1>1, <1>2, <1>4, <2>2 DEF Id
    <2> QED
      BY <2>1, <2>2
  <1> QED
    BY <1>3, <1>4

\* Every entry of a listing is answered with the latest version of its stream, and of
\* the checksum that was asked for (keeper/query.go:122-226).
LEMMA ListingAnswers ==
    ASSUME TypeOK, RecordInv, Finite, NEW f \in Filters,
           f.registryId = 0 \/ f.checksum = NoChecksum, NEW s \in Range(Listing(f))
    PROVE  /\ Answered(s) \in DOMAIN records
           /\ records[Answered(s)].isLatest
           /\ records[Answered(s)].registryId = s[1]
           /\ f.checksum # NoChecksum => records[Answered(s)].checksum = f.checksum
  <1>1. s \in Streams(f)
    <2>1. Streams(f) \in SUBSET StreamKey /\ IsFiniteSet(Streams(f))
      BY StreamsStored
    <2>2. Listing(f) \in Seq(Streams(f))
      BY <2>1, WalkVisits DEF Listing
    <2> QED
      BY <2>2 DEF Range
  <1>2. s \in DOMAIN recordIndices
    BY <1>1, StreamsStored
  <1>3. /\ s = <<s[1], s[2]>>
        /\ Answered(s) = <<s[1], s[2], recordIndices[s]>>
        /\ Answered(s) \in DOMAIN records
        /\ records[Answered(s)].isLatest
        /\ records[Answered(s)].registryId = s[1]
    BY <1>2, LatestStored
  <1>4. ASSUME f.checksum # NoChecksum
        PROVE  records[Answered(s)].checksum = f.checksum
    <2> DEFINE c == f.checksum
               byRegistry == recordIdByRegistryAndChecksum
    <2>1. c \in Checksum /\ f.registryId = 0
      BY <1>4 DEF Filters
    <2>2. PICK k \in DOMAIN recordIdByChecksumAndRegistry :
             k[1] = c /\ s = <<k[2], recordIdByChecksumAndRegistry[k]>>
      BY <1>1, <1>4, <2>1 DEF Streams
    <2>3. k = <<k[1], k[2]>> /\ <<k[2], c>> \in DOMAIN byRegistry
      BY <2>2 DEF TypeOK, IsMap, RecordInv, OneStreamPerChecksum
    <2> DEFINE j == <<k[2], c>>
    <2>4. recordIdByChecksumAndRegistry[<<j[2], j[1]>>] = byRegistry[j]
      BY <2>3, Zenon DEF RecordInv, OneStreamPerChecksum
    <2>5. byRegistry[<<s[1], c>>] = s[2] /\ <<s[1], c>> \in DOMAIN byRegistry
      BY <2>2, <2>3, <2>4
    <2>6. Answered(s)[1] = s[1] /\ Answered(s)[2] = s[2]
      BY <1>3
    <2> HIDE DEF c
    <2>7. records[Answered(s)].checksum = c
      BY <1>3, <2>1, <2>5, <2>6 DEF RecordInv, OneStreamPerChecksum
    <2> QED
      BY <2>7 DEF c
  <1> QED
    BY <1>3, <1>4

\* A registry and a checksum name the latest version of the checksum's record, if the
\* registry holds the checksum (keeper/query.go:99-120, 174-187).
LEMMA OneLatest ==
    ASSUME TypeOK, RecordInv, NEW r \in RegistryIds, NEW c \in Checksum
    PROVE  /\ \A key \in One(r, 0, c, 0) :
                 records[key].checksum = c /\ records[key].registryId = r /\ records[key].isLatest
           /\ (One(r, 0, c, 0) = {}) <=>
                 ~ \E key \in DOMAIN records : key[1] = r /\ records[key].checksum = c
  <1> DEFINE id == Resolve(r, c)
             s == <<r, id>>
  <1>1. r # 0
    BY BoundAssumption DEF RegistryIds
  <1>2. \A key \in DOMAIN records :
           key[1] = r => (records[key].checksum = c <=> key[2] = id)
    BY ResolvesRecord, Zenon
  <1>3. \A key \in DOMAIN records : <<key[1], key[2]>> \in DOMAIN recordIndices
    BY Zenon DEF RecordInv, StreamsDense
  <1>4. \A key \in DOMAIN records : key[2] \in Id /\ key[3] \in Id
    BY DEF TypeOK, IsMap
  <1> HIDE DEF id
  <1>5. CASE s \in DOMAIN recordIndices
    <2> DEFINE k == <<r, id, recordIndices[s]>>
    <2>1. k \in DOMAIN records /\ records[k].isLatest /\ records[k].registryId = r
      BY <1>5, LatestStored
    <2>2. One(r, 0, c, 0) = {k}
      BY <1>1, <1>5, <2>1 DEF One, id
    <2>3. k[1] = r /\ k[2] = id
      OBVIOUS
    <2> HIDE DEF k
    <2>4. records[k].checksum = c
      BY <1>2, <2>1, <2>3
    <2> QED
      BY <2>1, <2>2, <2>3, <2>4
  <1>6. CASE s \notin DOMAIN recordIndices
    <2>1. <<r, id, 0>> \notin DOMAIN records
      BY <1>3, <1>6
    <2>2. One(r, 0, c, 0) = {}
      BY <1>6, <2>1 DEF One, id
    <2>3. ASSUME NEW key \in DOMAIN records, key[1] = r, records[key].checksum = c
          PROVE  FALSE
      BY <1>2, <1>3, <1>6, <2>3
    <2> QED
      BY <2>2, <2>3
  <1> QED
    BY <1>5, <1>6

\* With an index they name exactly that version (keeper/query.go:174-187).
LEMMA OneVersion ==
    ASSUME TypeOK, RecordInv, NEW r \in RegistryIds, NEW c \in Checksum, NEW index \in Id
    PROVE  One(r, 0, c, index) = {key \in DOMAIN records :
              key[1] = r /\ key[3] = index /\ records[key].checksum = c}
  <1> DEFINE k == <<r, Resolve(r, c), index>>
             named == {key \in DOMAIN records :
                          key[1] = r /\ key[3] = index /\ records[key].checksum = c}
  <1>1. r # 0 /\ index # 0
    BY BoundAssumption DEF RegistryIds, Id
  <1>2. \A key \in DOMAIN records :
           key[1] = r => (records[key].checksum = c <=> key[2] = Resolve(r, c))
    BY ResolvesRecord, Zenon
  <1>3. \A key \in DOMAIN records : key = <<key[1], key[2], key[3]>>
    BY DEF TypeOK, IsMap
  <1>4. One(r, 0, c, index) = IF k \in DOMAIN records THEN {k} ELSE {}
    BY <1>1 DEF One
  <1>5. k[1] = r /\ k[2] = Resolve(r, c) /\ k[3] = index
    OBVIOUS
  <1>6. ASSUME NEW key \in named PROVE key = k
    BY <1>2, <1>3
  <1> HIDE DEF k
  <1>7. k \in DOMAIN records => k \in named
    BY <1>2, <1>5
  <1> HIDE DEF named
  <1>8. One(r, 0, c, index) = named
    <2>1. CASE k \in DOMAIN records
      BY <1>4, <1>6, <1>7, <2>1
    <2>2. CASE k \notin DOMAIN records
      <3>1. named \subseteq DOMAIN records
        BY DEF named
      <3> QED
        BY <1>4, <1>6, <2>2, <3>1
    <2> QED
      BY <2>1, <2>2
  <1> QED
    BY <1>8 DEF named

\* A query without an index answers with the latest versions, and no listing fails on
\* a version that is missing (keeper/query.go:99-141, 174-187, 200-216).
THEOREM AnswersLatestAlways == QuerySpec => []AnswersLatest
  <1>1. QueryInv => AnswersLatest
    <2> SUFFICES ASSUME QueryInv
                 PROVE  AnswersLatest
      OBVIOUS
    <2>1. TypeOK /\ RecordInv /\ Finite
      BY DEF QueryInv
    <2>2. ASSUME NEW f \in Filters, f.registryId = 0 \/ f.checksum = NoChecksum,
                 NEW s \in Range(Listing(f))
          PROVE  /\ Answered(s) \in DOMAIN records
                 /\ records[Answered(s)].isLatest
                 /\ records[Answered(s)].registryId = s[1]
                 /\ f.checksum # NoChecksum => records[Answered(s)].checksum = f.checksum
      BY <2>1, <2>2, ListingAnswers, Zenon
    <2> DEFINE Latest(f) ==
                 \A s \in Range(Listing(f)) :
                    /\ Answered(s) \in DOMAIN records
                    /\ records[Answered(s)].isLatest
                    /\ records[Answered(s)].registryId = s[1]
                    /\ f.checksum # NoChecksum => records[Answered(s)].checksum = f.checksum
               Named(r, c) ==
                 /\ \A key \in One(r, 0, c, 0) :
                       records[key].checksum = c /\ records[key].registryId = r /\ records[key].isLatest
                 /\ (One(r, 0, c, 0) = {}) <=>
                       ~ \E key \in DOMAIN records : key[1] = r /\ records[key].checksum = c
                 /\ \A index \in 1 .. MaxVersions :
                       One(r, 0, c, index) = {key \in DOMAIN records :
                          key[1] = r /\ key[3] = index /\ records[key].checksum = c}
    <2>3. ASSUME NEW f \in Filters, f.registryId = 0 \/ f.checksum = NoChecksum
          PROVE  Latest(f)
      BY <2>2, <2>3, Zenon
    <2>4. ASSUME NEW r \in RegistryIds, NEW c \in Checksum
          PROVE  Named(r, c)
      <3>1. /\ \A key \in One(r, 0, c, 0) :
                  records[key].checksum = c /\ records[key].registryId = r /\ records[key].isLatest
            /\ (One(r, 0, c, 0) = {}) <=>
                  ~ \E key \in DOMAIN records : key[1] = r /\ records[key].checksum = c
        BY <2>1, OneLatest
      <3>2. \A index \in 1 .. MaxVersions :
               One(r, 0, c, index) = {key \in DOMAIN records :
                  key[1] = r /\ key[3] = index /\ records[key].checksum = c}
        <4>1. \A index \in 1 .. MaxVersions : index \in Id
          BY DEF Id
        <4> QED BY <2>1, <4>1, OneVersion, Zenon
      <3> QED BY <3>1, <3>2, Zenon
    <2>5. AnswersLatest <=>
             /\ \A f \in Filters : f.registryId = 0 \/ f.checksum = NoChecksum => Latest(f)
             /\ \A r \in RegistryIds, c \in Checksum : Named(r, c)
      BY Zenon DEF AnswersLatest
    <2> HIDE DEF Latest, Named
    <2> QED
      BY <2>3, <2>4, <2>5, Zenon
  <1> QED
    BY <1>1, QueryInvariant, PTL
=============================================================================
