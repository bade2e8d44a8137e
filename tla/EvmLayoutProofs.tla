--------------------------- MODULE EvmLayoutProofs --------------------------
(***************************************************************************)
(* The writes of the migration, step by step, in any state with finitely   *)
(* many entries: no slot is written twice, and the dump is complete.       *)
(***************************************************************************)
EXTENDS EvmWalkProofs

-----------------------------------------------------------------------------
(***************************************************************************)
(* The checksum index                                                      *)
(***************************************************************************)

\* The slots of a list carry its table and its key.
LEMMA IdsSlots ==
    ASSUME NEW table, NEW key, NEW list, NEW w \in IdsOut(table, key, list)
    PROVE  w.slot[1] = table /\ w.slot[2] = key
  <1>1. w = Write(<<table, key>>, Word(Len(list))) \/
           \E v \in 1 .. Words(list) : w = Write(<<table, key, v - 1>>, Packed(WordIds(list, v)))
    BY DEF IdsOut
  <1>2. CASE w = Write(<<table, key>>, Word(Len(list)))
    <2>1. w.slot = <<table, key>>
      BY <1>2 DEF Write
    <2> QED BY <2>1
  <1>3. ASSUME NEW v \in 1 .. Words(list),
               w = Write(<<table, key, v - 1>>, Packed(WordIds(list, v)))
        PROVE  w.slot[1] = table /\ w.slot[2] = key
    <2>1. w.slot = <<table, key, v - 1>>
      BY <1>3 DEF Write
    <2> QED BY <2>1
  <1> QED BY <1>1, <1>2, <1>3, Zenon

\* The walk of the checksums, key by key.
LEMMA ChecksumSteps ==
    ASSUME NEW A, NEW walk \in Seq(A \X Nat)
    PROVE  /\ ChecksumsVisited(walk)[0] =
                 [current |-> NoChecksum, registries |-> <<>>, out |-> <<>>]
           /\ \A n \in 1 .. Len(walk) :
                 ChecksumsVisited(walk)[n] = visitChecksum(ChecksumsVisited(walk)[n - 1], walk[n])
           /\ \A n \in 0 .. Len(walk) :
                 ChecksumsVisited(walk)[n] = [current |-> ChecksumsVisited(walk)[n].current,
                                              registries |-> ChecksumsVisited(walk)[n].registries,
                                              out |-> ChecksumsVisited(walk)[n].out]
  <1> DEFINE N == Len(walk)
             C == A \cup {NoChecksum}
             W == UNION {IdsOut("registriesByChecksum", q[1], q[2]) : q \in C \X Seq(Nat)}
             S == [current : C, registries : Seq(Nat), out : Seq(W)]
             base == [current |-> NoChecksum, registries |-> <<>>, out |-> <<>>]
             step == [p \in S \X (1 .. N) |-> visitChecksum(p[1], walk[p[2]])]
             visited == ChecksumsVisited(walk)
             Op(x, n) == visitChecksum(x, walk[n])
  <1>1. N \in Nat /\ \A n \in 1 .. N : walk[n] \in A \X Nat
    OBVIOUS
  <1>2. base \in S
    OBVIOUS
  <1>3. ASSUME NEW acc \in S, NEW n \in 1 .. N PROVE Op(acc, n) \in S
    <2>1. /\ walk[n][1] \in C /\ walk[n][2] \in Nat
          /\ acc.current \in C /\ acc.registries \in Seq(Nat) /\ acc.out \in Seq(W)
      BY <1>1
    <2>2. flush(acc.current, acc.registries) \in Seq(W)
      <3> DEFINE A1 == IdsOut("registriesByChecksum", acc.current, acc.registries)
      <3>1. Len(acc.registries) \in Nat
        BY <2>1
      <3>2. idsWrites("registriesByChecksum", acc.current, acc.registries) \in Seq(A1)
        BY <3>1, IdsEmitted DEF Emits
      <3>3. A1 \subseteq W
        <4>1. <<acc.current, acc.registries>> \in C \X Seq(Nat)
          BY <2>1
        <4> HIDE DEF C
        <4> QED BY <4>1
      <3> HIDE DEF A1, W
      <3>4. idsWrites("registriesByChecksum", acc.current, acc.registries) \in Seq(W)
        BY <3>2, <3>3, SeqWider
      <3> QED BY <3>4 DEF flush
    <2> DEFINE out == acc.out \o flush(acc.current, acc.registries)
               one == <<walk[n][2]>>
               more == Append(acc.registries, walk[n][2])
    <2> HIDE DEF W, C
    <2>3. out \in Seq(W) /\ one \in Seq(Nat) /\ more \in Seq(Nat)
      <3>1. out \in Seq(W)
        BY <2>1, <2>2, ConcatFacts
      <3> QED BY <2>1, <3>1
    <2>4. \/ Op(acc, n) = [current |-> walk[n][1], registries |-> one, out |-> out]
          \/ Op(acc, n) = [acc EXCEPT !.registries = more]
      BY DEF visitChecksum
    <2> HIDE DEF Op, out, one, more
    <2>5. CASE Op(acc, n) = [current |-> walk[n][1], registries |-> one, out |-> out]
      BY <2>1, <2>3, <2>5
    <2>6. CASE Op(acc, n) = [acc EXCEPT !.registries = more]
      <3>1. acc \in [current : C, registries : Seq(Nat), out : Seq(W)]
        OBVIOUS
      <3>2. [acc EXCEPT !.registries = more] \in S
        BY <2>3, <3>1, Zenon
      <3> QED BY <2>6, <3>2
    <2> QED BY <2>4, <2>5, <2>6
  <1> HIDE DEF S, base
  <1>4. step \in [S \X (1 .. N) -> S]
    <2> HIDE DEF N
    <2> QED BY <1>3
  <1>5. PICK f : Recurs(f, N, S, base, step)
    <2> HIDE DEF N, step
    <2> QED BY <1>1, <1>2, <1>4, Iterates, Zenon
  <1>6. \A n \in 1 .. N : f[n] = Op(f[n - 1], n)
    <2> HIDE DEF N, Op
    <2> SUFFICES ASSUME NEW n \in 1 .. N PROVE f[n] = Op(f[n - 1], n)
      OBVIOUS
    <2>1. f[n] = step[<<f[n - 1], n>>] /\ f[n - 1] \in S
      <3> HIDE DEF step
      <3> QED BY <1>1, <1>5, RecursStep
    <2>2. \A x \in S : step[<<x, n>>] = Op(x, n)
      BY DEF Op
    <2> HIDE DEF step
    <2> QED BY <2>1, <2>2
  <1>7. f = [n \in 0 .. N |-> IF n = 0 THEN base ELSE Op(f[n - 1], n)]
    <2> HIDE DEF N, Op, step
    <2> QED BY <1>1, <1>5, <1>6 DEF Recurs
  <1>8. visited = [n \in 0 .. N |-> IF n = 0 THEN base ELSE Op(visited[n - 1], n)]
    BY <1>7, Zenon DEF ChecksumsVisited, base
  <1> HIDE DEF visited
  <1>9. visited[0] = base /\ \A n \in 1 .. N : visited[n] = Op(visited[n - 1], n)
    <2>1. N \in Nat
      BY <1>1
    <2> HIDE DEF N, Op
    <2> QED BY <1>8, <2>1
  <1>10. \A n \in 0 .. N : visited[n] \in S
    <2>1. N \in Nat
      BY <1>1
    <2> HIDE DEF N, Op
    <2>2. \A n \in 1 .. N : visited[n - 1] \in S => visited[n] \in S
      BY <1>3, <1>9
    <2> QED BY <1>2, <1>9, <2>1, <2>2, StaysIn, Zenon
  <1>11. \A n \in 0 .. N : visited[n] = [current |-> visited[n].current,
                                       registries |-> visited[n].registries,
                                       out |-> visited[n].out]
    <2>1. \A x \in S : x = [current |-> x.current, registries |-> x.registries, out |-> x.out]
      BY DEF S
    <2> HIDE DEF N
    <2> QED BY <1>10, <2>1
  <1> QED BY <1>9, <1>11 DEF visited, base

\* What the checksum index becomes: for each checksum, the registries that hold it.
ChecksumOut(pairs, c) == IdsOut("registriesByChecksum", c, WalkIds(Of(pairs, c)))

\* The lists of different checksums have different slots.
LEMMA ChecksumsApart ==
    ASSUME NEW pairs, NEW C, NEW c, c \notin C
    PROVE  Apart(UNION {ChecksumOut(pairs, d) : d \in C}, ChecksumOut(pairs, c))
  <1> SUFFICES ASSUME NEW d \in C, NEW v \in ChecksumOut(pairs, d), NEW w \in ChecksumOut(pairs, c)
               PROVE  v.slot # w.slot
    BY DEF Apart
  <1>1. v.slot[2] = d /\ w.slot[2] = c
    BY IdsSlots DEF ChecksumOut
  <1> QED BY <1>1

\* The index is written group by group.
LEMMA ChecksumsEmitted ==
    ASSUME NEW A, NoChecksum \notin A, NEW pairs \in SUBSET (A \X Nat), IsFiniteSet(pairs),
           NEW walk, walk = WalkStringIds(pairs), NEW last, last = ChecksumsVisited(walk)[Len(walk)]
    PROVE  Emits(last.out \o flush(last.current, last.registries),
                 UNION {ChecksumOut(pairs, c) : c \in {p[1] : p \in pairs}})
  <1> DEFINE N == Len(walk)
             visited == ChecksumsVisited(walk)
             Done(n) == UNION {ChecksumOut(pairs, c) : c \in Firsts(walk, n) \ {walk[n][1]}}
             P == {n \in 0 .. N : n # 0 =>
                      /\ visited[n].current = walk[n][1]
                      /\ visited[n].registries = WalkIds(Seconds(walk, n, walk[n][1]))
                      /\ Emits(visited[n].out, Done(n))}
  <1>1. /\ Lists(walk, pairs) /\ Grouped(walk)
        /\ \A i, j \in DOMAIN walk :
              i < j /\ walk[i][1] = walk[j][1] => walk[i][2] < walk[j][2]
    BY StringIdsWalked, Zenon
  <1>2. /\ walk \in Seq(pairs) /\ N \in Nat /\ DOMAIN walk = 1 .. N
        /\ \A i \in 1 .. N : walk[i] \in pairs
    BY <1>1 DEF Lists
  <1>3. \A i \in 1 .. N : walk[i][1] \in A /\ walk[i][2] \in Nat
    BY <1>2
  <1>4. walk \in Seq(A \X Nat)
    BY <1>2, SeqWider
  <1>5. /\ visited[0] = [current |-> NoChecksum, registries |-> <<>>, out |-> <<>>]
        /\ \A n \in 1 .. N : visited[n] = visitChecksum(visited[n - 1], walk[n])
        /\ \A n \in 0 .. N : visited[n] = [current |-> visited[n].current,
                                         registries |-> visited[n].registries,
                                         out |-> visited[n].out]
    BY <1>4, ChecksumSteps, Zenon
  <1> HIDE DEF visited, N
  <1>6. ASSUME NEW n \in 0 .. N, NEW c
        PROVE  /\ IsFiniteSet(Seconds(walk, n, c)) /\ Seconds(walk, n, c) \in SUBSET Nat
               /\ Len(WalkIds(Seconds(walk, n, c))) \in Nat
    <2> DEFINE T == Seconds(walk, n, c)
    <2>1. T \subseteq {p[2] : p \in pairs} /\ T \in SUBSET Nat
      <3>1. \A i \in 1 .. n : walk[i] \in pairs /\ walk[i][2] \in Nat
        BY <1>2, <1>3
      <3> QED BY <3>1 DEF Seconds
    <2>2. IsFiniteSet(T)
      BY <2>1, FiniteComponents, FS_Subset, Zenon
    <2> HIDE DEF T
    <2>3. Ascends(WalkIds(T), T)
      BY <2>1, <2>2, IdsWalked
    <2>4. Len(WalkIds(T)) \in Nat
      BY <2>3 DEF Ascends
    <2> QED BY <2>1, <2>2, <2>4 DEF T
  <1>7. ASSUME NEW n \in 1 .. N PROVE WalkIds(Seconds(walk, n, walk[n][1])) # <<>>
    <2> DEFINE T == Seconds(walk, n, walk[n][1])
    <2>1. walk[n][2] \in T
      BY <1>2 DEF Seconds
    <2>2. IsFiniteSet(T) /\ T \in SUBSET Nat
      BY <1>2, <1>6
    <2> HIDE DEF T
    <2>3. Ascends(WalkIds(T), T)
      BY <2>2, IdsWalked
    <2>4. \E i \in DOMAIN WalkIds(T) : TRUE
      BY <2>1, <2>3 DEF Ascends
    <2>5. WalkIds(T) # <<>>
      BY <2>4
    <2> QED BY <2>5 DEF T
  <1>8. 0 \in P
    BY <1>2
  <1>9. ASSUME NEW n \in 1 .. N, n - 1 \in P PROVE n \in P
    <2> DEFINE acc == visited[n - 1]
               c == walk[n][1]
               r == walk[n][2]
    <2>1. /\ n \in Nat \ {0} /\ n - 1 \in 0 .. N /\ n \in 0 .. N /\ r \in Nat /\ c \in A
          /\ visited[n] = visitChecksum(acc, walk[n])
      <3>1. n \in Nat \ {0} /\ n - 1 \in 0 .. N /\ n \in 0 .. N
        BY <1>2
      <3>2. r \in Nat /\ c \in A
        BY <1>3
      <3>3. visited[n] = visitChecksum(acc, walk[n])
        BY <1>5
      <3> QED BY <3>1, <3>2, <3>3
    <2>2. /\ Firsts(walk, n) = Firsts(walk, n - 1) \cup {c}
          /\ Seconds(walk, n, c) = Seconds(walk, n - 1, c) \cup {r}
      BY <2>1, OneMore, Zenon
    <2>3. \A i \in 1 .. n - 1 : walk[i][1] = c => walk[i][2] < r
      <3>1. \A i \in 1 .. n - 1 : i \in 1 .. N /\ i < n
        BY <1>2
      <3> QED BY <1>1, <1>2, <3>1, Zenon
    <2>4. WalkIds(Seconds(walk, n, c)) = Append(WalkIds(Seconds(walk, n - 1, c)), r)
      <3>1. \A x \in Seconds(walk, n - 1, c) : x < r
        BY <2>3 DEF Seconds
      <3>2. IsFiniteSet(Seconds(walk, n - 1, c)) /\ Seconds(walk, n - 1, c) \in SUBSET Nat
        BY <1>6, <2>1, SMTT(30)
      <3> HIDE DEF c, r
      <3> QED BY <2>1, <2>2, <3>1, <3>2, IdsAppended, SMTT(30)
    <2>5. CASE n = 1
      <3>1. c # acc.current /\ acc.registries = <<>> /\ acc.out = <<>>
        BY <1>5, <2>1, <2>5, SMTT(30)
      <3>2. flush(acc.current, acc.registries) = <<>> /\ <<>> \o <<>> = <<>>
        BY <3>1 DEF flush
      <3>3. visited[n] = [current |-> c, registries |-> <<r>>, out |-> <<>>]
        BY <2>1, <3>1, <3>2, SMTT(30) DEF visitChecksum
      <3>4. Seconds(walk, n - 1, c) = {} /\ Firsts(walk, n) \ {c} = {}
        BY <2>5 DEF Seconds, Firsts
      <3>5. WalkIds(Seconds(walk, n, c)) = <<r>>
        <4>1. Append(<<>>, r) = <<r>>
          OBVIOUS
        <4> HIDE DEF c, r
        <4> QED BY <2>4, <3>4, <4>1, IdsNone, Zenon
      <3>6. Emits(<<>>, Done(n))
        BY <3>4, EmitsNothing, Zenon
      <3>7. /\ visited[n].current = c /\ visited[n].registries = <<r>>
            /\ visited[n].out = <<>>
        BY <3>3
      <3> HIDE DEF Done
      <3> QED BY <2>1, <3>5, <3>6, <3>7, SMTT(30)
    <2>6. CASE n # 1
      <3> DEFINE d == walk[n - 1][1]
      <3>1. n - 1 \in 1 .. N /\ n \in 2 .. N
        BY <1>2, <2>6, SMTT(30)
      <3>2. /\ acc.current = d
            /\ acc.registries = WalkIds(Seconds(walk, n - 1, d))
            /\ Emits(acc.out, Done(n - 1))
        BY <1>9, <3>1, SMTT(30)
      <3>3. CASE c = d
        <4>1. visited[n] = [acc EXCEPT !.registries = Append(acc.registries, r)]
          BY <2>1, <3>2, <3>3, SMTT(30) DEF visitChecksum
        <4>2. acc = [current |-> acc.current, registries |-> acc.registries, out |-> acc.out]
          BY <1>5, <2>1
        <4>3. /\ visited[n].current = acc.current /\ visited[n].out = acc.out
              /\ visited[n].registries = Append(acc.registries, r)
          <5> HIDE DEF acc
          <5> QED BY <4>1, <4>2, SMTT(30)
        <4>4. Firsts(walk, n) \ {c} = Firsts(walk, n - 1) \ {d}
          BY <2>2, <3>3
        <4>5. Done(n) = Done(n - 1)
          BY <4>4, SMTT(30)
        <4> HIDE DEF Done, c, d, acc, r
        <4> QED BY <2>1, <2>4, <3>2, <3>3, <4>3, <4>5, Zenon DEF c
      <3>4. CASE c # d
        <4>1. visited[n] = [current |-> c, registries |-> <<r>>,
                            out |-> acc.out \o flush(acc.current, acc.registries)]
          BY <2>1, <3>2, <3>4, SMTT(30) DEF visitChecksum
        <4>2. /\ c \notin Firsts(walk, n - 1)
              /\ Seconds(walk, n - 1, d) = Of(pairs, d)
          BY <1>1, <3>1, <3>4, GroupEnds, SMTT(30) DEF N
        <4>3. Emits(flush(acc.current, acc.registries), ChecksumOut(pairs, d))
          <5>1. acc.registries # <<>> /\ Len(acc.registries) \in Nat
            BY <1>6, <1>7, <2>1, <3>1, <3>2, SMTT(30)
          <5>2. flush(acc.current, acc.registries) =
                   idsWrites("registriesByChecksum", d, WalkIds(Of(pairs, d)))
            BY <3>2, <4>2, <5>1, SMTT(30) DEF flush
          <5>3. Len(WalkIds(Of(pairs, d))) \in Nat
            BY <3>2, <4>2, <5>1, SMTT(30)
          <5> HIDE DEF acc, d
          <5> QED BY <5>2, <5>3, IdsEmitted, SMTT(30) DEF ChecksumOut
        <4>4. Apart(Done(n - 1), ChecksumOut(pairs, d))
          BY ChecksumsApart, Zenon
        <4>5. Done(n) = Done(n - 1) \cup ChecksumOut(pairs, d)
          <5>1. d \in Firsts(walk, n - 1)
            BY <3>1 DEF Firsts
          <5>2. Firsts(walk, n) \ {c} = (Firsts(walk, n - 1) \ {d}) \cup {d}
            BY <2>2, <4>2, <5>1, SMTT(30)
          <5> QED BY <5>2
        <4>6. Emits(acc.out \o flush(acc.current, acc.registries), Done(n))
          <5> HIDE DEF Done, acc, d
          <5> QED BY <3>2, <4>3, <4>4, <4>5, EmitsConcat, SMTT(30)
        <4>7. Seconds(walk, n - 1, c) = {}
          BY <4>2 DEF Seconds, Firsts
        <4>8. WalkIds(Seconds(walk, n, c)) = <<r>>
          <5>1. Append(<<>>, r) = <<r>>
            OBVIOUS
          <5> HIDE DEF c, r
          <5> QED BY <2>4, <4>7, <5>1, IdsNone, Zenon
        <4>9. /\ visited[n].current = c /\ visited[n].registries = <<r>>
              /\ visited[n].out = acc.out \o flush(acc.current, acc.registries)
          <5> DEFINE out == acc.out \o flush(acc.current, acc.registries)
                     one == <<r>>
          <5>1. visited[n] = [current |-> c, registries |-> one, out |-> out]
            BY <4>1
          <5> HIDE DEF out, one, c
          <5>2. visited[n].current = c /\ visited[n].registries = one /\ visited[n].out = out
            BY <5>1
          <5> QED BY <5>2, SMTT(30) DEF out, one
        <4> HIDE DEF Done, acc, d, r
        <4> QED BY <2>1, <4>6, <4>8, <4>9, Zenon
      <3> QED BY <3>3, <3>4
    <2> QED BY <2>5, <2>6
  <1>10. N \in P
    <2> HIDE DEF P
    <2>1. \A n \in 0 .. N : n \in P
      BY <1>2, <1>8, <1>9, Induct, Zenon
    <2> QED BY <1>2, <2>1
  <1>11. /\ Firsts(walk, N) = {p[1] : p \in pairs}
         /\ \A c : Seconds(walk, N, c) = Of(pairs, c)
    BY <1>1, AllVisited DEF N
  <1>12. last = visited[N]
    BY DEF visited, N
  <1>13. CASE N = 0
    <2>1. {p[1] : p \in pairs} = {}
      BY <1>11, <1>13 DEF Firsts
    <2>2. last.out = <<>> /\ last.registries = <<>>
      BY <1>5, <1>12, <1>13
    <2>3. last.out \o flush(last.current, last.registries) = <<>>
      BY <2>2 DEF flush
    <2> QED BY <2>1, <2>3, EmitsNothing, Zenon
  <1>14. CASE N # 0
    <2> DEFINE d == walk[N][1]
    <2>1. N \in 1 .. N /\ N \in 0 .. N
      BY <1>2, <1>14, SMTT(30)
    <2>2. /\ last.current = d /\ last.registries = WalkIds(Of(pairs, d))
          /\ Emits(last.out, Done(N))
      BY <1>10, <1>11, <1>12, <1>14, Zenon
    <2>3. last.registries # <<>> /\ Len(last.registries) \in Nat
      BY <1>6, <1>7, <1>11, <2>1, <2>2, SMTT(30)
    <2>4. Emits(flush(last.current, last.registries), ChecksumOut(pairs, d))
      <3>1. flush(last.current, last.registries) =
               idsWrites("registriesByChecksum", d, WalkIds(Of(pairs, d)))
        BY <2>2, <2>3, SMTT(30) DEF flush
      <3>2. Len(WalkIds(Of(pairs, d))) \in Nat
        BY <2>2, <2>3, SMTT(30)
      <3> HIDE DEF d
      <3> QED BY <3>1, <3>2, IdsEmitted, SMTT(30) DEF ChecksumOut
    <2>5. Apart(Done(N), ChecksumOut(pairs, d))
      BY ChecksumsApart, Zenon
    <2>6. UNION {ChecksumOut(pairs, c) : c \in {p[1] : p \in pairs}} =
             Done(N) \cup ChecksumOut(pairs, d)
      <3>1. d \in Firsts(walk, N)
        BY <2>1 DEF Firsts
      <3>2. Firsts(walk, N) = (Firsts(walk, N) \ {d}) \cup {d}
        BY <3>1
      <3>3. UNION {ChecksumOut(pairs, c) : c \in Firsts(walk, N)} =
               Done(N) \cup ChecksumOut(pairs, d)
        BY <3>2
      <3> QED BY <1>11, <3>3
    <2> HIDE DEF Done, d
    <2> QED BY <2>2, <2>4, <2>5, <2>6, EmitsConcat, SMTT(30)
  <1> QED BY <1>13, <1>14

-----------------------------------------------------------------------------
(***************************************************************************)
(* The members of the roles                                                *)
(***************************************************************************)

\* One write.
LEMMA EmitsOne ==
    ASSUME NEW w
    PROVE  Emits(<<w>>, {w})
  BY DEF Emits

\* What the roles' members become: the members, and the number of those of each role.
MemberWrite(p) == Write(<<"roleMembers", p[1], p[2]>>, Word(1))
CountWrite(pairs, c) == Write(<<"roleMemberCount", c>>, Word(Cardinality(Of(pairs, c))))
MembersOut(pairs, visited, C) ==
    {MemberWrite(p) : p \in visited} \cup {CountWrite(pairs, c) : c \in C}

\* The walk of the members, key by key.
GoesByMember(visited, walk) ==
    /\ visited[0] = [current |-> NoRole, members |-> 0, out |-> <<>>]
    /\ \A n \in 1 .. Len(walk) : visited[n] = visitMember(visited[n - 1], walk[n])

\* MembersVisited does.
LEMMA MemberSteps ==
    ASSUME NEW A, NEW B, NEW walk \in Seq(A \X B)
    PROVE  GoesByMember(MembersVisited(walk), walk)
  <1> DEFINE N == Len(walk)
             C == A \cup {NoRole}
             V == {MemberWrite(p) : p \in A \X B}
             U == {Write(<<"roleMemberCount", q[1]>>, Word(q[2])) : q \in C \X Nat}
             W == V \cup U
             S == [current : C, members : Nat, out : Seq(W)]
             base == [current |-> NoRole, members |-> 0, out |-> <<>>]
             step == [p \in S \X (1 .. N) |-> visitMember(p[1], walk[p[2]])]
             visited == MembersVisited(walk)
             Op(x, n) == visitMember(x, walk[n])
  <1>1. N \in Nat /\ \A n \in 1 .. N : walk[n] \in A \X B
    OBVIOUS
  <1>2. base \in S
    OBVIOUS
  <1>3. ASSUME NEW acc \in S, NEW n \in 1 .. N PROVE Op(acc, n) \in S
    <2> DEFINE key == walk[n]
               ended == IF key[1] # acc.current THEN flushCount(acc.current, acc.members) ELSE <<>>
               one == <<Write(<<"roleMembers", key[1], key[2]>>, Word(1))>>
               members == (IF key[1] # acc.current THEN 0 ELSE acc.members) + 1
               out == acc.out \o ended \o one
    <2>1. /\ key \in A \X B /\ key[1] \in C
          /\ acc.current \in C /\ acc.members \in Nat /\ acc.out \in Seq(W)
      BY <1>1
    <2>2. ended \in Seq(W)
      <3>1. Write(<<"roleMemberCount", acc.current>>, Word(acc.members)) \in W
        <4> DEFINE q == <<acc.current, acc.members>>
        <4>1. q \in C \X Nat /\ q[1] = acc.current /\ q[2] = acc.members
          BY <2>1
        <4> HIDE DEF q
        <4>2. Write(<<"roleMemberCount", q[1]>>, Word(q[2])) \in W
          BY <4>1, Zenon
        <4> HIDE DEF W
        <4> QED BY <4>1, <4>2
      <3> HIDE DEF W
      <3>2. flushCount(acc.current, acc.members) \in Seq(W)
        BY <3>1 DEF flushCount
      <3> QED BY <3>2
    <2>3. one \in Seq(W)
      <3>1. Write(<<"roleMembers", key[1], key[2]>>, Word(1)) \in W
        <4> HIDE DEF key
        <4> QED BY <2>1, Zenon DEF MemberWrite
      <3> HIDE DEF W
      <3> QED BY <3>1
    <2>4. Op(acc, n) = [current |-> key[1], members |-> members, out |-> out]
      BY DEF visitMember
    <2>5. members \in Nat
      BY <2>1
    <2> HIDE DEF W, C, Op, ended, one, key, members
    <2>6. out \in Seq(W)
      BY <2>1, <2>2, <2>3, ConcatFacts, SMTT(30)
    <2> HIDE DEF out
    <2> QED BY <2>1, <2>4, <2>5, <2>6, SMTT(30)
  <1> HIDE DEF S, base
  <1>4. step \in [S \X (1 .. N) -> S]
    <2> HIDE DEF N
    <2> QED BY <1>3
  <1>5. PICK f : Recurs(f, N, S, base, step)
    <2> HIDE DEF N, step
    <2> QED BY <1>1, <1>2, <1>4, Iterates, Zenon
  <1>6. \A n \in 1 .. N : f[n] = Op(f[n - 1], n)
    <2> HIDE DEF N, Op
    <2> SUFFICES ASSUME NEW n \in 1 .. N PROVE f[n] = Op(f[n - 1], n)
      OBVIOUS
    <2>1. f[n] = step[<<f[n - 1], n>>] /\ f[n - 1] \in S
      <3> HIDE DEF step
      <3> QED BY <1>1, <1>5, RecursStep
    <2>2. \A x \in S : step[<<x, n>>] = Op(x, n)
      BY DEF Op
    <2> HIDE DEF step
    <2> QED BY <2>1, <2>2
  <1>7. f = [n \in 0 .. N |-> IF n = 0 THEN base ELSE Op(f[n - 1], n)]
    <2> HIDE DEF N, Op, step
    <2> QED BY <1>1, <1>5, <1>6 DEF Recurs
  <1>8. visited = [n \in 0 .. N |-> IF n = 0 THEN base ELSE Op(visited[n - 1], n)]
    BY <1>7, Zenon DEF MembersVisited, base
  <1> HIDE DEF visited
  <1>9. visited[0] = base /\ \A n \in 1 .. N : visited[n] = Op(visited[n - 1], n)
    <2>1. N \in Nat
      BY <1>1
    <2> HIDE DEF N, Op
    <2> QED BY <1>8, <2>1
  <1> QED BY <1>9 DEF visited, base, GoesByMember

\* The slot of a new member, and that of a new count, are not taken.
LEMMA MembersApart ==
    ASSUME NEW pairs, NEW A, NEW B, NEW visited \in SUBSET (A \X B), NEW C
    PROVE  /\ \A p \in A \X B : p \notin visited =>
                 Apart(MembersOut(pairs, visited, C), {MemberWrite(p)})
           /\ \A c : c \notin C => Apart(MembersOut(pairs, visited, C), {CountWrite(pairs, c)})
  <1>1. /\ \A p : MemberWrite(p).slot = <<"roleMembers", p[1], p[2]>>
        /\ \A c : CountWrite(pairs, c).slot = <<"roleMemberCount", c>>
    BY DEF MemberWrite, CountWrite, Write
  <1>2. \A p, q \in A \X B : MemberWrite(p).slot = MemberWrite(q).slot => p = q
    <2> SUFFICES ASSUME NEW p \in A \X B, NEW q \in A \X B,
                        <<"roleMembers", p[1], p[2]>> = <<"roleMembers", q[1], q[2]>>
                 PROVE  p = q
      BY <1>1
    <2>1. p[1] = q[1] /\ p[2] = q[2]
      OBVIOUS
    <2> QED BY <2>1, SMTT(30)
  <1>3. \A c, d : CountWrite(pairs, c).slot = CountWrite(pairs, d).slot => c = d
    <2> SUFFICES ASSUME NEW c, NEW d, <<"roleMemberCount", c>> = <<"roleMemberCount", d>>
                 PROVE  c = d
      BY <1>1
    <2> QED OBVIOUS
  <1>4. \A p, c : MemberWrite(p).slot # CountWrite(pairs, c).slot
    <2> SUFFICES ASSUME NEW p, NEW c PROVE <<"roleMembers", p[1], p[2]>> # <<"roleMemberCount", c>>
      BY <1>1
    <2> QED OBVIOUS
  <1>5. \A v \in MembersOut(pairs, visited, C) :
           \/ \E q \in visited : v = MemberWrite(q)
           \/ \E c \in C : v = CountWrite(pairs, c)
    BY DEF MembersOut
  <1>6. ASSUME NEW p \in A \X B, p \notin visited,
               NEW v \in MembersOut(pairs, visited, C), v.slot = MemberWrite(p).slot
        PROVE  FALSE
    BY <1>2, <1>4, <1>5, <1>6, SMTT(30)
  <1>7. ASSUME NEW c, c \notin C,
               NEW v \in MembersOut(pairs, visited, C), v.slot = CountWrite(pairs, c).slot
        PROVE  FALSE
    BY <1>3, <1>4, <1>5, <1>7, SMTT(30)
  <1> QED BY <1>6, <1>7, Zenon DEF Apart

\* The members are written role by role, and each role's count after them.
LEMMA MembersEmitted ==
    ASSUME NEW A, NEW B, NoRole \notin A, NEW pairs \in SUBSET (A \X B), IsFiniteSet(pairs),
           NEW walk, walk = WalkStrings(pairs), NEW last, last = MembersVisited(walk)[Len(walk)]
    PROVE  Emits(last.out \o flushCount(last.current, last.members),
                 MembersOut(pairs, pairs, {p[1] : p \in pairs}))
  <1> DEFINE N == Len(walk)
             visited == MembersVisited(walk)
             Seen(n) == {walk[i] : i \in 1 .. n}
             Done(n) == MembersOut(pairs, Seen(n), Firsts(walk, n) \ {walk[n][1]})
             P == {n \in 0 .. N : n # 0 =>
                      /\ visited[n].current = walk[n][1]
                      /\ visited[n].members = Cardinality(Seconds(walk, n, walk[n][1]))
                      /\ Emits(visited[n].out, Done(n))}
  <1>1. Lists(walk, pairs) /\ Grouped(walk)
    BY StringsWalked
  <1>2. /\ walk \in Seq(pairs) /\ N \in Nat /\ DOMAIN walk = 1 .. N
        /\ \A i \in 1 .. N : walk[i] \in pairs
        /\ \A i, j \in 1 .. N : walk[i] = walk[j] => i = j
        /\ \A p \in pairs : \E i \in 1 .. N : walk[i] = p
    BY <1>1, Zenon DEF Lists
  <1>3. \A i \in 1 .. N : /\ walk[i] \in A \X B /\ walk[i][1] \in A
                          /\ walk[i] = <<walk[i][1], walk[i][2]>>
    BY <1>2
  <1>4. walk \in Seq(A \X B)
    BY <1>2, SeqWider
  <1>5. /\ visited[0] = [current |-> NoRole, members |-> 0, out |-> <<>>]
        /\ \A n \in 1 .. N : visited[n] = visitMember(visited[n - 1], walk[n])
    <2>1. GoesByMember(MembersVisited(walk), walk)
      BY <1>4, MemberSteps, Zenon
    <2> QED BY <2>1 DEF GoesByMember
  <1> HIDE DEF visited, N
  <1>6. ASSUME NEW n \in 0 .. N, NEW c
        PROVE  /\ IsFiniteSet(Seconds(walk, n, c))
               /\ Cardinality(Seconds(walk, n, c)) \in Nat
               /\ Seen(n) \in SUBSET (A \X B)
    <2> DEFINE T == Seconds(walk, n, c)
    <2>1. \A i \in 1 .. n : walk[i] \in pairs /\ walk[i] \in A \X B
      BY <1>2, <1>3
    <2>2. T \in SUBSET {p[2] : p \in pairs}
      BY <2>1 DEF Seconds
    <2>3. IsFiniteSet(T)
      BY <2>2, FiniteComponents, FS_Subset, Zenon
    <2> HIDE DEF T
    <2>4. Cardinality(T) \in Nat
      BY <2>3, FS_CardinalityType, SMTT(30)
    <2> QED BY <2>1, <2>3, <2>4, SMTT(30) DEF T
  <1>7. ASSUME NEW n \in 1 .. N
        PROVE  /\ walk[n] \notin Seen(n - 1)
               /\ walk[n][2] \notin Seconds(walk, n - 1, walk[n][1])
               /\ Seen(n) = Seen(n - 1) \cup {walk[n]}
    <2>1. \A i \in 1 .. n - 1 : i \in 1 .. N /\ i # n
      BY <1>2
    <2>2. \A i \in 1 .. n - 1 : walk[i] # walk[n]
      BY <1>2, <2>1, SMTT(30)
    <2>3. ASSUME NEW i \in 1 .. n - 1, walk[i][1] = walk[n][1], walk[i][2] = walk[n][2]
          PROVE  FALSE
      <3>1. walk[i] = <<walk[i][1], walk[i][2]>> /\ walk[n] = <<walk[n][1], walk[n][2]>>
        BY <1>3, <2>1, SMTT(30)
      <3> QED BY <2>2, <2>3, <3>1, SMTT(30)
    <2>4. walk[n][2] \notin Seconds(walk, n - 1, walk[n][1])
      BY <2>3 DEF Seconds
    <2>5. 1 .. n = (1 .. n - 1) \cup {n}
      BY <1>2
    <2>6. Seen(n) = Seen(n - 1) \cup {walk[n]}
      BY <2>5, Zenon
    <2> QED BY <2>2, <2>4, <2>6, SMTT(30)
  <1>8. 0 \in P
    BY <1>2, SMTT(30)
  <1>9. ASSUME NEW n \in 1 .. N, n - 1 \in P PROVE n \in P
    <2> DEFINE acc == visited[n - 1]
               c == walk[n][1]
               x == walk[n][2]
               ended == IF c # acc.current THEN flushCount(acc.current, acc.members) ELSE <<>>
               members == (IF c # acc.current THEN 0 ELSE acc.members) + 1
               before == acc.out \o ended
               one == <<MemberWrite(walk[n])>>
               Before == MembersOut(pairs, Seen(n - 1), Firsts(walk, n) \ {c})
    <2>1. /\ n \in Nat \ {0} /\ n - 1 \in 0 .. N /\ n \in 0 .. N
          /\ c \in A /\ walk[n] \in A \X B
      <3>1. n \in Nat \ {0} /\ n - 1 \in 0 .. N /\ n \in 0 .. N
        BY <1>2
      <3> QED BY <1>3, <3>1, SMTT(30)
    <2>2. /\ visited[n].current = c /\ visited[n].members = members
          /\ visited[n].out = before \o one
      <3>1. visited[n] = [current |-> c, members |-> members, out |-> before \o one]
        BY <1>5, Zenon DEF visitMember, MemberWrite
      <3> HIDE DEF before, one, members, c
      <3> QED BY <3>1, SMTT(30)
    <2>3. /\ Firsts(walk, n) = Firsts(walk, n - 1) \cup {c}
          /\ Seconds(walk, n, c) = Seconds(walk, n - 1, c) \cup {x}
      BY <2>1, OneMore, Zenon
    <2>4. Cardinality(Seconds(walk, n, c)) = Cardinality(Seconds(walk, n - 1, c)) + 1
      <3>1. IsFiniteSet(Seconds(walk, n - 1, c)) /\ x \notin Seconds(walk, n - 1, c)
        BY <1>6, <1>7, <2>1
      <3> HIDE DEF c, x
      <3> QED BY <2>3, <3>1, FS_AddElement, ZenonT(30)
    <2>5. Emits(before, Before) /\ members = Cardinality(Seconds(walk, n, c)) =>
             n \in P
      <3> SUFFICES ASSUME Emits(before, Before), members = Cardinality(Seconds(walk, n, c))
                   PROVE  n \in P
        BY SMTT(30)
      <3>1. Seen(n - 1) \in SUBSET (A \X B) /\ walk[n] \notin Seen(n - 1)
        BY <1>6, <1>7, <2>1, SMTT(30)
      <3>2. Apart(Before, {MemberWrite(walk[n])})
        <4> HIDE DEF Seen, c
        <4> QED BY <2>1, <3>1, MembersApart, Zenon
      <3>3. Emits(one, {MemberWrite(walk[n])})
        BY EmitsOne
      <3>4. Done(n) = Before \cup {MemberWrite(walk[n])}
        <4>1. Seen(n) = Seen(n - 1) \cup {walk[n]}
          BY <1>7, SMTT(30)
        <4> HIDE DEF Seen
        <4> QED BY <4>1, SMTT(30) DEF MembersOut
      <3>5. Emits(before \o one, Done(n))
        <4> HIDE DEF before, one, Before, Done
        <4> QED BY <3>2, <3>3, <3>4, EmitsConcat, SMTT(30)
      <3> HIDE DEF before, one, Done, members, c
      <3> QED BY <2>1, <2>2, <3>5, ZenonT(30) DEF c
    <2>6. CASE n = 1
      <3>1. acc.current = NoRole /\ acc.members = 0 /\ acc.out = <<>>
        BY <1>5, <2>6
      <3>2. c # acc.current
        BY <2>1, <3>1, SMTT(30)
      <3>3. before = <<>> /\ members = 1
        BY <3>1, <3>2, SMTT(30) DEF flushCount
      <3>4. Seconds(walk, n - 1, c) = {} /\ Firsts(walk, n) \ {c} = {} /\ Seen(n - 1) = {}
        BY <2>6, SMTT(30) DEF Seconds, Firsts
      <3>5. Before = {}
        BY <3>4, Zenon DEF MembersOut
      <3>6. Cardinality(Seconds(walk, n - 1, c)) = 0
        BY <3>4, FS_EmptySet, Zenon
      <3>7. members = Cardinality(Seconds(walk, n, c))
        <4> HIDE DEF c, members
        <4> QED BY <2>4, <3>3, <3>6
      <3>8. Emits(before, Before)
        <4> HIDE DEF before, Before
        <4> QED BY <3>3, <3>5, EmitsNothing, SMTT(30)
      <3> QED BY <2>5, <3>7, <3>8, SMTT(30)
    <2>7. CASE n # 1
      <3> DEFINE d == walk[n - 1][1]
      <3>1. n - 1 \in 1 .. N /\ n \in 2 .. N
        BY <1>2, <2>7, SMTT(30)
      <3>2. /\ acc.current = d
            /\ acc.members = Cardinality(Seconds(walk, n - 1, d))
            /\ Emits(acc.out, Done(n - 1))
        BY <1>9, <3>1
      <3>3. acc.out \o <<>> = acc.out
        <4> DEFINE out == acc.out
        <4>1. out \in Seq(Done(n - 1))
          BY <3>2 DEF Emits
        <4> HIDE DEF out, Done
        <4>2. out \o <<>> = out
          BY <4>1, SMTT(30)
        <4> QED BY <4>2, SMTT(30) DEF out
      <3>4. CASE c = d
        <4>1. ended = <<>> /\ members = acc.members + 1
          BY <3>2, <3>4, SMTT(30)
        <4>2. before = acc.out
          BY <3>3, <4>1, Zenon
        <4>3. Firsts(walk, n) \ {c} = Firsts(walk, n - 1) \ {d}
          BY <2>3, <3>4
        <4>4. Before = Done(n - 1)
          <5> HIDE DEF Seen
          <5> QED BY <4>3, Zenon
        <4>5. members = Cardinality(Seconds(walk, n, c))
          <5> HIDE DEF c, d, members, acc
          <5> QED BY <2>4, <3>2, <3>4, <4>1, SMTT(30)
        <4>6. Emits(before, Before)
          <5> HIDE DEF before, Before, Done, acc, d
          <5> QED BY <3>2, <4>2, <4>4, SMTT(30)
        <4> QED BY <2>5, <4>5, <4>6
      <3>5. CASE c # d
        <4>1. ended = flushCount(d, acc.members) /\ members = 1
          BY <3>2, <3>5, SMTT(30)
        <4>2. /\ c \notin Firsts(walk, n - 1)
              /\ Seconds(walk, n - 1, d) = Of(pairs, d)
          BY <1>1, <3>1, <3>5, GroupEnds, SMTT(30) DEF N
        <4>3. Cardinality(Seconds(walk, n - 1, d)) # 0
          <5>1. walk[n - 1][2] \in Seconds(walk, n - 1, d)
            BY <3>1, SMTT(30) DEF Seconds
          <5>2. IsFiniteSet(Seconds(walk, n - 1, d))
            BY <1>6, <2>1, SMTT(30)
          <5> HIDE DEF d
          <5> QED BY <5>1, <5>2, FS_EmptySet, SMTT(30)
        <4>4. ended = <<CountWrite(pairs, d)>>
          <5> HIDE DEF acc, d, ended
          <5> QED BY <3>2, <4>1, <4>2, <4>3, ZenonT(30) DEF flushCount, CountWrite
        <4>5. Emits(ended, {CountWrite(pairs, d)})
          BY <4>4, EmitsOne, Zenon
        <4>6. Apart(Done(n - 1), {CountWrite(pairs, d)})
          <5>1. Seen(n - 1) \in SUBSET (A \X B) /\ d \notin Firsts(walk, n - 1) \ {d}
            BY <1>6, <2>1, Zenon
          <5> HIDE DEF Seen
          <5> QED BY <5>1, MembersApart, Zenon
        <4>7. Before = Done(n - 1) \cup {CountWrite(pairs, d)}
          <5>1. d \in Firsts(walk, n - 1)
            BY <3>1, SMTT(30) DEF Firsts
          <5>2. Firsts(walk, n) \ {c} = (Firsts(walk, n - 1) \ {d}) \cup {d}
            BY <2>3, <4>2, <5>1, SMTT(30)
          <5> HIDE DEF Seen, c
          <5> QED BY <5>2 DEF MembersOut
        <4>8. Emits(before, Before)
          <5> HIDE DEF Done, Before, ended, acc, d
          <5> QED BY <3>2, <4>5, <4>6, <4>7, EmitsConcat, SMTT(30)
        <4>9. Seconds(walk, n - 1, c) = {}
          BY <4>2, SMTT(30) DEF Seconds, Firsts
        <4>10. Cardinality(Seconds(walk, n - 1, c)) = 0
          BY <4>9, FS_EmptySet, Zenon
        <4>11. members = Cardinality(Seconds(walk, n, c))
          <5> HIDE DEF c, members
          <5> QED BY <2>4, <4>1, <4>10, SMTT(30)
        <4> QED BY <2>5, <4>8, <4>11, ZenonT(30)
      <3> QED BY <3>4, <3>5, Zenon
    <2> QED BY <2>6, <2>7, SMTT(30)
  <1>10. N \in P
    <2> HIDE DEF P
    <2>1. \A n \in 0 .. N : n \in P
      BY <1>2, <1>8, <1>9, Induct, Zenon
    <2> QED BY <1>2, <2>1
  <1>11. /\ Firsts(walk, N) = {p[1] : p \in pairs}
         /\ \A c : Seconds(walk, N, c) = Of(pairs, c)
    BY <1>1, AllVisited, SMTT(30) DEF N
  <1>12. last = visited[N] /\ Seen(N) = pairs
    <2>1. last = visited[N]
      BY DEF visited, N
    <2>2. Seen(N) = pairs
      BY <1>2
    <2> QED BY <2>1, <2>2
  <1>13. CASE N = 0
    <2>1. {p[1] : p \in pairs} = {} /\ pairs = {}
      BY <1>11, <1>12, <1>13, SMTT(30) DEF Firsts
    <2>2. last.out = <<>> /\ last.members = 0
      BY <1>5, <1>12, <1>13, SMTT(30)
    <2>3. last.out \o flushCount(last.current, last.members) = <<>>
      BY <2>2 DEF flushCount
    <2>4. MembersOut(pairs, pairs, {p[1] : p \in pairs}) = {}
      BY <2>1, SMTT(30) DEF MembersOut
    <2> QED BY <2>3, <2>4, EmitsNothing, Zenon
  <1>14. CASE N # 0
    <2> DEFINE d == walk[N][1]
               T == Of(pairs, d)
    <2>1. N \in 1 .. N /\ N \in 0 .. N
      BY <1>2, <1>14, SMTT(30)
    <2>2. /\ last.current = d /\ last.members = Cardinality(T)
          /\ Emits(last.out, Done(N))
      BY <1>10, <1>11, <1>12, <1>14, SMTT(30)
    <2>3. Cardinality(T) # 0
      <3>1. walk[N][2] \in Seconds(walk, N, d)
        BY <2>1, SMTT(30) DEF Seconds
      <3>2. IsFiniteSet(Seconds(walk, N, d))
        BY <1>6, <2>1, SMTT(30)
      <3>3. walk[N][2] \in T /\ IsFiniteSet(T)
        BY <1>11, <3>1, <3>2, SMTT(30)
      <3> HIDE DEF T
      <3> QED BY <3>3, FS_EmptySet, SMTT(30)
    <2>4. Emits(flushCount(last.current, last.members), {CountWrite(pairs, d)})
      <3>1. flushCount(last.current, last.members) = <<CountWrite(pairs, d)>>
        BY <2>2, <2>3, SMTT(30) DEF flushCount, CountWrite
      <3> QED BY <3>1, EmitsOne, SMTT(30)
    <2>5. Apart(Done(N), {CountWrite(pairs, d)})
      <3>1. Seen(N) \in SUBSET (A \X B) /\ d \notin Firsts(walk, N) \ {d}
        BY <1>6, <2>1
      <3> HIDE DEF Seen
      <3> QED BY <3>1, MembersApart, Zenon
    <2>6. MembersOut(pairs, pairs, {p[1] : p \in pairs}) = Done(N) \cup {CountWrite(pairs, d)}
      <3>1. d \in Firsts(walk, N)
        BY <2>1, SMTT(30) DEF Firsts
      <3>2. Firsts(walk, N) = (Firsts(walk, N) \ {d}) \cup {d}
        BY <3>1
      <3>3. MembersOut(pairs, Seen(N), Firsts(walk, N)) = Done(N) \cup {CountWrite(pairs, d)}
        <4> HIDE DEF Seen
        <4> QED BY <3>2 DEF MembersOut
      <3> QED BY <1>11, <1>12, <3>3, Zenon
    <2> HIDE DEF Done, d
    <2> QED BY <2>2, <2>4, <2>5, <2>6, EmitsConcat, SMTT(30)
  <1> QED BY <1>13, <1>14

-----------------------------------------------------------------------------
(***************************************************************************)
(* Lists of writes                                                         *)
(***************************************************************************)

\* Lists of writes with slots of their own.
PartsEmit(N, A, parts) ==
    /\ N \in Nat
    /\ parts = [i \in 1 .. N |-> parts[i]]
    /\ \A i \in 1 .. N : Emits(parts[i], A[i])
    /\ \A i, j \in 1 .. N : i # j => Apart(A[i], A[j])

\* EmitsJoined, by name.
LEMMA EmitsParts ==
    ASSUME NEW N, NEW A, NEW parts, PartsEmit(N, A, parts)
    PROVE  Emits(Joined(parts), UNION {A[i] : i \in 1 .. N})
  <1>1. N \in Nat /\ parts = [i \in 1 .. N |-> parts[i]]
    BY DEF PartsEmit
  <1>2. \A i \in 1 .. N : Emits(parts[i], A[i])
    BY DEF PartsEmit
  <1>3. \A i, j \in 1 .. N : i # j => Apart(A[i], A[j])
    BY DEF PartsEmit
  <1> QED BY <1>1, <1>2, <1>3, EmitsJoined, SMTT(30)

\* A list of writes for each member of a set.
LEMMA EmitsAll ==
    ASSUME NEW S, NEW seq, Lists(seq, S), NEW P, NEW Out, NEW parts,
           parts = [i \in DOMAIN seq |-> P[seq[i]]],
           \A x \in S : Emits(P[x], Out[x]),
           \A x, y \in S : x # y => Apart(Out[x], Out[y])
    PROVE  Emits(Joined(parts), UNION {Out[x] : x \in S})
  <1> DEFINE N == Len(seq)
             A == [i \in 1 .. N |-> Out[seq[i]]]
  <1>1. /\ N \in Nat /\ DOMAIN seq = 1 .. N
        /\ \A x \in S : \E i \in 1 .. N : seq[i] = x
        /\ \A i \in 1 .. N : seq[i] \in S
        /\ \A i, j \in 1 .. N : seq[i] = seq[j] => i = j
    BY SMTT(30) DEF Lists
  <1> HIDE DEF N
  <1>2. parts = [i \in 1 .. N |-> parts[i]] /\ \A i \in 1 .. N : parts[i] = P[seq[i]]
    BY <1>1
  <1>3. \A i \in 1 .. N : A[i] = Out[seq[i]]
    BY SMTT(30)
  <1> HIDE DEF A
  <1>4. \A i \in 1 .. N : Emits(parts[i], A[i])
    BY <1>1, <1>2, <1>3, SMTT(30)
  <1>5. \A i, j \in 1 .. N : i # j => Apart(A[i], A[j])
    BY <1>1, <1>3, SMTT(30)
  <1>6. Emits(Joined(parts), UNION {A[i] : i \in 1 .. N})
    <2>1. PartsEmit(N, A, parts)
      <3>1. N \in Nat
        BY <1>1, SMTT(30)
      <3>2. parts = [i \in 1 .. N |-> parts[i]]
        BY <1>2, SMTT(30)
      <3> QED BY <1>4, <1>5, <3>1, <3>2, Zenon DEF PartsEmit
    <2> QED BY <2>1, EmitsParts, Zenon
  <1>7. UNION {A[i] : i \in 1 .. N} = UNION {Out[x] : x \in S}
    <2>1. {A[i] : i \in 1 .. N} = {Out[x] : x \in S}
      BY <1>1, <1>3, SMTT(30)
    <2> QED BY <2>1, SMTT(30)
  <1> QED BY <1>6, <1>7, Zenon

\* A write for each member of a set.
LEMMA EmitsOneEach ==
    ASSUME NEW S, NEW seq, Lists(seq, S), NEW w, NEW s, s = [i \in DOMAIN seq |-> w[seq[i]]],
           \A x, y \in S : w[x].slot = w[y].slot => x = y
    PROVE  Emits(s, {w[x] : x \in S})
  <1> DEFINE N == Len(seq)
  <1>1. /\ N \in Nat /\ DOMAIN seq = 1 .. N
        /\ \A x \in S : \E i \in 1 .. N : seq[i] = x
        /\ \A i \in 1 .. N : seq[i] \in S
        /\ \A i, j \in 1 .. N : seq[i] = seq[j] => i = j
    BY Zenon DEF Lists
  <1> HIDE DEF N
  <1>2. s = [i \in 1 .. N |-> s[i]] /\ \A i \in 1 .. N : s[i] = w[seq[i]]
    BY <1>1
  <1>3. \A i, j \in 1 .. N : s[i].slot = s[j].slot => i = j
    BY <1>1, <1>2
  <1>4. Emits(s, {s[i] : i \in 1 .. N})
    BY <1>1, <1>2, <1>3, EmitsEach, SMTT(30)
  <1>5. {s[i] : i \in 1 .. N} = {w[x] : x \in S}
    BY <1>1, <1>2, SMTT(30)
  <1> QED BY <1>4, <1>5, Zenon

\* The tables that writes go to.
InTables(A, T) == \A w \in A : w.slot[1] \in T

\* Lists for different tables, one after the other.
LEMMA EmitsTables ==
    ASSUME NEW A, NEW B, NEW T, NEW U, NEW s, NEW t, Emits(s, A), Emits(t, B),
           InTables(A, T), InTables(B, U), T \cap U = {}
    PROVE  Emits(s \o t, A \cup B) /\ InTables(A \cup B, T \cup U)
  <1>1. Apart(A, B)
    BY DEF Apart, InTables
  <1>2. Emits(s \o t, A \cup B)
    BY <1>1, EmitsConcat
  <1> QED BY <1>2 DEF InTables

-----------------------------------------------------------------------------
(***************************************************************************)
(* The steps of Migrate                                                    *)
(***************************************************************************)

\* What the steps need of the collections: finitely many keys, of their types, and
\* the two checksum indexes with the same pairs.
LayoutInv ==
    /\ registryCount \in Nat
    /\ IsFiniteSet(DOMAIN registries) /\ DOMAIN registries \subseteq Id
    /\ IsFiniteSet(DOMAIN recordsCountByRegistry) /\ DOMAIN recordsCountByRegistry \subseteq Id
    /\ IsFiniteSet(DOMAIN records) /\ DOMAIN records \subseteq Id \X Id \X Id
    /\ IsFiniteSet(DOMAIN recordIndices) /\ DOMAIN recordIndices \subseteq Id \X Id
    /\ IsFiniteSet(DOMAIN recordIdByRegistryAndChecksum)
    /\ DOMAIN recordIdByRegistryAndChecksum \subseteq Id \X Checksum
    /\ IsFiniteSet(DOMAIN recordIdByChecksumAndRegistry)
    /\ DOMAIN recordIdByChecksumAndRegistry =
          {<<k[2], k[1]>> : k \in DOMAIN recordIdByRegistryAndChecksum}
    /\ IsFiniteSet(DOMAIN roleAdmins)
    /\ IsFiniteSet(roleMembers) /\ roleMembers \subseteq Role \X Addr

\* What each step writes: for one entry of its collection, then for all.
RegistryOut(id) ==
    {Write(<<"registries", id, "id">>, Word(registries[id].id)),
     Write(<<"registries", id, "name">>, Packed(NameOf[id])),
     Write(<<"registries", id, "creator">>, Packed(registries[id].creator))}

NameIds(name) == WalkIds({id \in DOMAIN registries : NameOf[id] = name})
NameOut(name) == IdsOut("registriesByName", name, NameIds(name))

RecordCountOut(id) == Write(<<"recordCount", id>>, Word(recordsCountByRegistry[id]))

RecordOut(key) ==
    {Write(<<"records", key, "checksum">>, Packed(records[key].checksum)),
     Write(<<"records", key, "status">>, Packed(records[key].status)),
     Write(<<"records", key, "packed">>, packRecord(records[key]))}

LatestOut(key) == Write(<<"latestIndex", key[1], key[2]>>, Word(recordIndices[key]))

RecordIdOut(key) ==
    Write(<<"recordIDByChecksum", key[1], key[2]>>, Word(recordIdByRegistryAndChecksum[key]))

RoleAdminOut(role) == Write(<<"roleAdmin", role>>, Packed(roleAdmins[role]))

Registries == UNION {RegistryOut(id) : id \in DOMAIN registries}
NamesOut == UNION {NameOut(name) : name \in {NameOf[id] : id \in DOMAIN registries}}
RecordCounts == {RecordCountOut(id) : id \in DOMAIN recordsCountByRegistry}
RecordsOut == UNION {RecordOut(key) : key \in DOMAIN records}
Latest == {LatestOut(key) : key \in DOMAIN recordIndices}
RecordIds == {RecordIdOut(key) : key \in DOMAIN recordIdByRegistryAndChecksum}
HeaderOut == {Write(<<"header">>, Packed(<<admin, registryCount>>))}
Checksums ==
    UNION {ChecksumOut(DOMAIN recordIdByChecksumAndRegistry, c) :
              c \in {k[1] : k \in DOMAIN recordIdByChecksumAndRegistry}}
RoleAdminsOut == {RoleAdminOut(role) : role \in DOMAIN roleAdmins}
RoleMembersOut == MembersOut(roleMembers, roleMembers, {m[1] : m \in roleMembers})

\* Three writes with slots of their own.
LEMMA EmitsThree ==
    ASSUME NEW u, NEW v, NEW w, u.slot # v.slot, u.slot # w.slot, v.slot # w.slot
    PROVE  Emits(<<u, v, w>>, {u, v, w})
  BY DEF Emits

\* A walk over ids lists them.
LEMMA IdsListed ==
    ASSUME NEW D, IsFiniteSet(D), D \subseteq Id
    PROVE  Lists(WalkIds(D), D)
  <1> DEFINE ids == WalkIds(D)
  <1>1. Ascends(ids, D)
    BY IdsWalked DEF Id
  <1> HIDE DEF ids
  <1>2. \A i, j \in 1 .. Len(ids) : ids[i] = ids[j] => i = j
    <2>1. /\ Len(ids) \in Nat /\ \A i \in 1 .. Len(ids) : ids[i] \in Nat
          /\ \A i, j \in 1 .. Len(ids) : i < j => ids[i] < ids[j]
      BY <1>1, Zenon DEF Ascends, Id
    <2> QED BY <2>1, SMTT(30)
  <1>3. Lists(ids, D)
    BY <1>1, <1>2, SMTT(30) DEF Ascends, Lists
  <1> QED BY <1>3 DEF ids

\* The registries.
LEMMA RegistriesEmitted ==
    ASSUME IsFiniteSet(DOMAIN registries), DOMAIN registries \subseteq Id,
           NEW ids, ids = WalkIds(DOMAIN registries)
    PROVE  /\ Lists(ids, DOMAIN registries)
           /\ Emits(Joined([i \in DOMAIN ids |-> registryWrites(ids[i], registries[ids[i]])]),
                    Registries)
           /\ InTables(Registries, {"registries"})
  <1> DEFINE D == DOMAIN registries
             P == [id \in D |-> registryWrites(id, registries[id])]
             Out == [id \in D |-> RegistryOut(id)]
             parts == [i \in DOMAIN ids |-> registryWrites(ids[i], registries[ids[i]])]
  <1>1. Lists(ids, D)
    BY IdsListed, SMTT(30)
  <1>2. ASSUME NEW id \in D
        PROVE  /\ Emits(P[id], Out[id])
               /\ \A w \in Out[id] : w.slot[1] = "registries" /\ w.slot[2] = id
    <2> DEFINE u == Write(<<"registries", id, "id">>, Word(registries[id].id))
               v == Write(<<"registries", id, "name">>, Packed(NameOf[id]))
               w == Write(<<"registries", id, "creator">>, Packed(registries[id].creator))
    <2>1. P[id] = <<u, v, w>> /\ Out[id] = {u, v, w}
      BY SMTT(30) DEF registryWrites, RegistryOut
    <2>2. /\ u.slot = <<"registries", id, "id">> /\ v.slot = <<"registries", id, "name">>
          /\ w.slot = <<"registries", id, "creator">>
      BY DEF Write
    <2> HIDE DEF u, v, w, P, Out
    <2>3. u.slot # v.slot /\ u.slot # w.slot /\ v.slot # w.slot
      BY <2>2
    <2>4. Emits(<<u, v, w>>, {u, v, w})
      BY <2>3, EmitsThree, SMTT(30)
    <2> QED BY <2>1, <2>2, <2>4, SMTT(30)
  <1>3. \A x, y \in D : x # y => Apart(Out[x], Out[y])
    <2> HIDE DEF Out
    <2> QED BY <1>2, SMTT(30) DEF Apart
  <1>4. parts = [i \in DOMAIN ids |-> P[ids[i]]]
    <2>1. \A i \in DOMAIN ids : ids[i] \in D
      BY <1>1 DEF Lists
    <2> QED BY <2>1, SMTT(30)
  <1>5. UNION {Out[id] : id \in D} = Registries
    BY DEF Registries
  <1>6. InTables(Registries, {"registries"})
    <2> HIDE DEF Out
    <2> QED BY <1>2, <1>5, SMTT(30) DEF InTables
  <1> HIDE DEF parts, P, Out
  <1>7. Emits(Joined(parts), Registries)
    <2>1. Emits(Joined(parts), UNION {Out[id] : id \in D})
      <3> HIDE DEF D
      <3> QED BY <1>1, <1>2, <1>3, <1>4, EmitsAll, SMTT(30)
    <2> QED BY <1>5, <2>1, SMTT(30)
  <1> QED BY <1>1, <1>6, <1>7, SMTT(30) DEF parts

\* The lists of a table, one for each key, in one list.
ListsParts(table, seq, list) == [i \in DOMAIN seq |-> idsWrites(table, seq[i], list[seq[i]])]
ListsOut(table, S, list) == UNION {IdsOut(table, x, list[x]) : x \in S}

\* Each slot of them once.
LEMMA IdsListsEmitted ==
    ASSUME NEW table, NEW S, NEW seq, Lists(seq, S), NEW list,
           \A x \in S : Len(list[x]) \in Nat
    PROVE  /\ Emits(Joined(ListsParts(table, seq, list)), ListsOut(table, S, list))
           /\ InTables(ListsOut(table, S, list), {table})
  <1> DEFINE parts == ListsParts(table, seq, list)
             P == [x \in S |-> idsWrites(table, x, list[x])]
             Out == [x \in S |-> IdsOut(table, x, list[x])]
  <1>1. \A x \in S : Emits(P[x], Out[x])
    <2> SUFFICES ASSUME NEW x \in S
                 PROVE  Emits(idsWrites(table, x, list[x]), IdsOut(table, x, list[x]))
      OBVIOUS
    <2> DEFINE l == list[x]
    <2>1. Len(l) \in Nat
      OBVIOUS
    <2> HIDE DEF l
    <2>2. Emits(idsWrites(table, x, l), IdsOut(table, x, l))
      BY <2>1, IdsEmitted, SMTT(30)
    <2> QED BY <2>2 DEF l
  <1>2. \A x \in S : \A w \in Out[x] : w.slot[1] = table /\ w.slot[2] = x
    BY IdsSlots, SMTT(30)
  <1>3. parts = [i \in DOMAIN seq |-> P[seq[i]]]
    <2>1. \A i \in DOMAIN seq : seq[i] \in S
      BY DEF Lists
    <2> QED BY <2>1 DEF ListsParts
  <1>4. UNION {Out[x] : x \in S} = ListsOut(table, S, list)
    BY DEF ListsOut
  <1> HIDE DEF P, Out, parts
  <1>5. \A x, y \in S : x # y => Apart(Out[x], Out[y])
    BY <1>2, SMTT(30) DEF Apart
  <1>6. Emits(Joined(parts), UNION {Out[x] : x \in S})
    BY <1>1, <1>3, <1>5, EmitsAll, SMTT(30)
  <1>7. InTables(UNION {Out[x] : x \in S}, {table})
    BY <1>2 DEF InTables
  <1> QED BY <1>4, <1>6, <1>7, Zenon DEF parts

\* The name index.
LEMMA NamesEmitted ==
    ASSUME IsFiniteSet(DOMAIN registries), DOMAIN registries \subseteq Id,
           NEW ids, ids = WalkIds(DOMAIN registries)
    PROVE  /\ Emits(nameWrites(ByName(ids)[Len(ids)]), NamesOut)
           /\ InTables(NamesOut, {"registriesByName"})
  <1> DEFINE D == DOMAIN registries
             S == {NameOf[id] : id \in D}
             list == [name \in S |-> NameIds(name)]
             seq == InSomeOrder(S)
             table == "registriesByName"
  <1>1. ByName(ids)[Len(ids)] = list
    <2>1. D \subseteq Nat
      BY DEF Id
    <2>2. ByName(WalkIds(D))[Len(WalkIds(D))]
             = [name \in S |-> WalkIds({id \in D : NameOf[id] = name})]
      BY <2>1, NamesCollected, SMTT(30)
    <2> QED BY <2>2 DEF NameIds
  <1>2. nameWrites(list) = Joined(ListsParts(table, seq, list))
    BY DEF nameWrites, ListsParts
  <1>3. Lists(seq, S)
    <2>1. IsFiniteSet(S)
      <3> DEFINE f == [id \in D |-> NameOf[id]]
      <3>1. S = {f[id] : id \in D}
        OBVIOUS
      <3> HIDE DEF S, f
      <3>2. IsFiniteSet({f[id] : id \in D})
        BY FiniteValues, SMTT(30)
      <3> QED BY <3>1, <3>2, SMTT(30)
    <2> HIDE DEF S
    <2> QED BY <2>1, ListedAll, SMTT(30)
  <1>4. \A name \in S : Len(list[name]) \in Nat
    <2> SUFFICES ASSUME NEW name \in S PROVE Len(NameIds(name)) \in Nat
      OBVIOUS
    <2> DEFINE E == {id \in D : NameOf[id] = name}
    <2>1. IsFiniteSet(E) /\ E \subseteq Id
      BY FS_Subset, SMTT(30)
    <2> HIDE DEF E
    <2>2. Lists(WalkIds(E), E)
      BY <2>1, IdsListed, SMTT(30)
    <2> QED BY <2>2 DEF Lists, NameIds, E
  <1>5. ListsOut(table, S, list) = NamesOut
    <2>1. \A name \in S : IdsOut(table, name, list[name]) = NameOut(name)
      BY DEF NameOut
    <2>2. {IdsOut(table, name, list[name]) : name \in S} = {NameOut(name) : name \in S}
      <3> HIDE DEF list, S
      <3> QED BY <2>1
    <2> QED BY <2>2, Zenon DEF NamesOut, ListsOut
  <1> HIDE DEF list, seq, S, table
  <1>6. /\ Emits(Joined(ListsParts(table, seq, list)), ListsOut(table, S, list))
        /\ InTables(ListsOut(table, S, list), {table})
    BY <1>3, <1>4, IdsListsEmitted, Zenon
  <1> QED BY <1>1, <1>2, <1>5, <1>6, SMTT(30) DEF table

\* The record counts.
LEMMA RecordCountsEmitted ==
    ASSUME IsFiniteSet(DOMAIN recordsCountByRegistry), DOMAIN recordsCountByRegistry \subseteq Id
    PROVE  Emits(migrateRecordCounts, RecordCounts) /\ InTables(RecordCounts, {"recordCount"})
  <1> DEFINE D == DOMAIN recordsCountByRegistry
             seq == WalkIds(D)
             w == [id \in D |-> RecordCountOut(id)]
  <1>1. Lists(seq, D)
    BY IdsListed, SMTT(30)
  <1>2. migrateRecordCounts = [i \in DOMAIN seq |-> w[seq[i]]]
    <2>1. \A i \in DOMAIN seq : seq[i] \in D
      BY <1>1 DEF Lists
    <2> QED BY <2>1, SMTT(30) DEF migrateRecordCounts, RecordCountOut
  <1>3. \A x \in D : w[x].slot = <<"recordCount", x>>
    BY DEF RecordCountOut, Write
  <1>4. RecordCounts = {w[x] : x \in D}
    BY DEF RecordCounts
  <1> HIDE DEF w, seq, D
  <1>5. \A x, y \in D : w[x].slot = w[y].slot => x = y
    BY <1>3, SMTT(30)
  <1>6. Emits(migrateRecordCounts, {w[x] : x \in D})
    BY <1>1, <1>2, <1>5, EmitsOneEach, SMTT(30)
  <1>7. InTables({w[x] : x \in D}, {"recordCount"})
    BY <1>3, SMTT(30) DEF InTables
  <1> QED BY <1>4, <1>6, <1>7, SMTT(30)

\* The records.
LEMMA RecordsEmitted ==
    ASSUME IsFiniteSet(DOMAIN records), DOMAIN records \subseteq Id \X Id \X Id
    PROVE  Emits(migrateRecords, RecordsOut) /\ InTables(RecordsOut, {"records"})
  <1> DEFINE D == DOMAIN records
             seq == WalkTuples(D)
             P == [key \in D |-> recordWrites(key, records[key])]
             Out == [key \in D |-> RecordOut(key)]
             parts == [i \in DOMAIN seq |-> recordWrites(seq[i], records[seq[i]])]
  <1>1. Lists(seq, D)
    <2>1. \A x \in Id \X Id \X Id : x \in [1 .. 3 -> Nat]
      BY DEF Id
    <2>2. D \in SUBSET [1 .. 3 -> Nat]
      BY <2>1
    <2> QED BY <2>2, TuplesWalked, Zenon
  <1>2. ASSUME NEW key \in D
        PROVE  /\ Emits(P[key], Out[key])
               /\ \A w \in Out[key] : w.slot[1] = "records" /\ w.slot[2] = key
    <2> DEFINE u == Write(<<"records", key, "checksum">>, Packed(records[key].checksum))
               v == Write(<<"records", key, "status">>, Packed(records[key].status))
               w == Write(<<"records", key, "packed">>, packRecord(records[key]))
    <2>1. P[key] = <<u, v, w>> /\ Out[key] = {u, v, w}
      BY SMTT(30) DEF recordWrites, RecordOut
    <2>2. /\ u.slot = <<"records", key, "checksum">> /\ v.slot = <<"records", key, "status">>
          /\ w.slot = <<"records", key, "packed">>
      BY DEF Write
    <2> HIDE DEF u, v, w, P, Out
    <2>3. u.slot # v.slot /\ u.slot # w.slot /\ v.slot # w.slot
      BY <2>2, SMTT(30)
    <2>4. Emits(<<u, v, w>>, {u, v, w})
      BY <2>3, EmitsThree, SMTT(30)
    <2> QED BY <2>1, <2>2, <2>4, SMTT(30)
  <1>3. parts = [i \in DOMAIN seq |-> P[seq[i]]]
    <2>1. \A i \in DOMAIN seq : seq[i] \in D
      BY <1>1 DEF Lists
    <2> QED BY <2>1, SMTT(30)
  <1>4. UNION {Out[key] : key \in D} = RecordsOut
    BY DEF RecordsOut
  <1>5. migrateRecords = Joined(parts)
    BY DEF migrateRecords
  <1> HIDE DEF parts, P, Out, seq, D
  <1>6. \A x, y \in D : x # y => Apart(Out[x], Out[y])
    BY <1>2, SMTT(30) DEF Apart
  <1>7. Emits(Joined(parts), UNION {Out[key] : key \in D})
    BY <1>1, <1>2, <1>3, <1>6, EmitsAll, SMTT(30)
  <1>8. InTables(UNION {Out[key] : key \in D}, {"records"})
    BY <1>2 DEF InTables
  <1> QED BY <1>4, <1>5, <1>7, <1>8, Zenon

\* The latest versions.
LEMMA LatestEmitted ==
    ASSUME IsFiniteSet(DOMAIN recordIndices), DOMAIN recordIndices \subseteq Id \X Id
    PROVE  Emits(migrateLatestIndexes, Latest) /\ InTables(Latest, {"latestIndex"})
  <1> DEFINE D == DOMAIN recordIndices
             seq == WalkTuples(D)
             w == [key \in D |-> LatestOut(key)]
  <1>1. Lists(seq, D)
    <2>1. \A x \in Id \X Id : x \in [1 .. 2 -> Nat]
      BY DEF Id
    <2>2. D \in SUBSET [1 .. 2 -> Nat]
      BY <2>1
    <2> QED BY <2>2, TuplesWalked, Zenon
  <1>2. migrateLatestIndexes = [i \in DOMAIN seq |-> w[seq[i]]]
    <2>1. \A i \in DOMAIN seq : seq[i] \in D
      BY <1>1, SMTT(30) DEF Lists
    <2> QED BY <2>1 DEF migrateLatestIndexes, LatestOut
  <1>3. \A x \in D : w[x].slot = <<"latestIndex", x[1], x[2]>>
    BY DEF LatestOut, Write
  <1>4. Latest = {w[x] : x \in D}
    BY DEF Latest
  <1>5. \A x, y \in D : x[1] = y[1] /\ x[2] = y[2] => x = y
    OBVIOUS
  <1> HIDE DEF w, seq, D
  <1>6. \A x, y \in D : w[x].slot = w[y].slot => x = y
    BY <1>3, <1>5, SMTT(30)
  <1>7. Emits(migrateLatestIndexes, {w[x] : x \in D})
    BY <1>1, <1>2, <1>6, EmitsOneEach, SMTT(30)
  <1>8. InTables({w[x] : x \in D}, {"latestIndex"})
    BY <1>3, SMTT(30) DEF InTables
  <1> QED BY <1>4, <1>7, <1>8, SMTT(30)

\* The record ids.
LEMMA RecordIdsEmitted ==
    ASSUME IsFiniteSet(DOMAIN recordIdByRegistryAndChecksum),
           DOMAIN recordIdByRegistryAndChecksum \subseteq Id \X Checksum
    PROVE  Emits(migrateRecordIDs, RecordIds) /\ InTables(RecordIds, {"recordIDByChecksum"})
  <1> DEFINE D == DOMAIN recordIdByRegistryAndChecksum
             seq == WalkIdStrings(D)
             w == [key \in D |-> RecordIdOut(key)]
  <1>1. Lists(seq, D)
    <2>1. D \in SUBSET (Nat \X Checksum)
      BY DEF Id
    <2> HIDE DEF D
    <2>2. IsFiniteSet(D)
      BY SMTT(30) DEF D
    <2> QED BY <2>1, <2>2, IdStringsWalked, SMTT(30)
  <1>2. migrateRecordIDs = [i \in DOMAIN seq |-> w[seq[i]]]
    <2>1. \A i \in DOMAIN seq : seq[i] \in D
      BY <1>1, SMTT(30) DEF Lists
    <2> QED BY <2>1, SMTT(30) DEF migrateRecordIDs, RecordIdOut
  <1>3. \A x \in D : w[x].slot = <<"recordIDByChecksum", x[1], x[2]>>
    BY DEF RecordIdOut, Write
  <1>4. RecordIds = {w[x] : x \in D}
    BY DEF RecordIds
  <1>5. \A x, y \in D : x[1] = y[1] /\ x[2] = y[2] => x = y
    OBVIOUS
  <1> HIDE DEF w, seq, D
  <1>6. \A x, y \in D : w[x].slot = w[y].slot => x = y
    BY <1>3, <1>5, SMTT(30)
  <1>7. Emits(migrateRecordIDs, {w[x] : x \in D})
    BY <1>1, <1>2, <1>6, EmitsOneEach, SMTT(30)
  <1>8. InTables({w[x] : x \in D}, {"recordIDByChecksum"})
    BY <1>3 DEF InTables
  <1> QED BY <1>4, <1>7, <1>8, SMTT(30)

\* The header.
LEMMA HeaderEmitted ==
    Emits(migrateHeader, HeaderOut) /\ InTables(HeaderOut, {"header"})
  <1> DEFINE w == Write(<<"header">>, Packed(<<admin, registryCount>>))
  <1>1. migrateHeader = <<w>> /\ HeaderOut = {w} /\ w.slot = <<"header">>
    BY DEF migrateHeader, HeaderOut, Write
  <1> HIDE DEF w
  <1>2. Emits(<<w>>, {w})
    BY EmitsOne, SMTT(30)
  <1> QED BY <1>1, <1>2, SMTT(30) DEF InTables

\* The checksum index.
LEMMA ChecksumIndexEmitted ==
    ASSUME IsFiniteSet(DOMAIN recordIdByChecksumAndRegistry),
           DOMAIN recordIdByChecksumAndRegistry \subseteq Checksum \X Id
    PROVE  Emits(migrateChecksumIndex, Checksums) /\ InTables(Checksums, {"registriesByChecksum"})
  <1> DEFINE D == DOMAIN recordIdByChecksumAndRegistry
             walk == WalkStringIds(D)
             last == ChecksumsVisited(walk)[Len(walk)]
  <1>1. D \in SUBSET (Checksum \X Nat) /\ IsFiniteSet(D) /\ NoChecksum \notin Checksum
    BY SentinelAssumption DEF Id
  <1>2. migrateChecksumIndex = last.out \o flush(last.current, last.registries)
    BY DEF migrateChecksumIndex
  <1>3. Checksums = UNION {ChecksumOut(D, c) : c \in {k[1] : k \in D}}
    BY SMTT(30) DEF Checksums
  <1>4. InTables(Checksums, {"registriesByChecksum"})
    BY <1>3, IdsSlots, SMTT(30) DEF ChecksumOut, InTables
  <1>5. walk = WalkStringIds(D) /\ last = ChecksumsVisited(walk)[Len(walk)]
    BY SMTT(30)
  <1> HIDE DEF walk, last, D
  <1>6. Emits(last.out \o flush(last.current, last.registries),
              UNION {ChecksumOut(D, c) : c \in {k[1] : k \in D}})
    BY <1>1, <1>5, ChecksumsEmitted, Zenon
  <1> QED BY <1>2, <1>3, <1>4, <1>6, SMTT(30)

\* The admins of the roles.
LEMMA RoleAdminsEmitted ==
    ASSUME IsFiniteSet(DOMAIN roleAdmins), NEW roles, roles = InSomeOrder(DOMAIN roleAdmins)
    PROVE  /\ Emits([i \in DOMAIN roles |->
                        Write(<<"roleAdmin", roles[i]>>, Packed(roleAdmins[roles[i]]))],
                    RoleAdminsOut)
           /\ InTables(RoleAdminsOut, {"roleAdmin"})
  <1> DEFINE D == DOMAIN roleAdmins
             w == [role \in D |-> RoleAdminOut(role)]
             s == [i \in DOMAIN roles |->
                      Write(<<"roleAdmin", roles[i]>>, Packed(roleAdmins[roles[i]]))]
  <1>1. Lists(roles, D)
    BY ListedAll, SMTT(30)
  <1>2. s = [i \in DOMAIN roles |-> w[roles[i]]]
    <2>1. \A i \in DOMAIN roles : roles[i] \in D
      BY <1>1, SMTT(30) DEF Lists
    <2> QED BY <2>1, SMTT(30) DEF RoleAdminOut
  <1>3. \A x \in D : w[x].slot = <<"roleAdmin", x>>
    BY DEF RoleAdminOut, Write
  <1>4. RoleAdminsOut = {w[x] : x \in D}
    BY DEF RoleAdminsOut
  <1> HIDE DEF w, D, s
  <1>5. \A x, y \in D : w[x].slot = w[y].slot => x = y
    BY <1>3, SMTT(30)
  <1>6. Emits(s, {w[x] : x \in D})
    BY <1>1, <1>2, <1>5, EmitsOneEach, SMTT(30)
  <1>7. InTables({w[x] : x \in D}, {"roleAdmin"})
    BY <1>3, SMTT(30) DEF InTables
  <1> QED BY <1>4, <1>6, <1>7 DEF s

\* The members of the roles.
LEMMA RoleMembersEmitted ==
    ASSUME IsFiniteSet(roleMembers), roleMembers \subseteq Role \X Addr
    PROVE  /\ Emits(migrateMembers, RoleMembersOut)
           /\ InTables(RoleMembersOut, {"roleMembers", "roleMemberCount"})
  <1> DEFINE walk == WalkStrings(roleMembers)
             last == MembersVisited(walk)[Len(walk)]
  <1>1. NoRole \notin Role
    BY DEF NoRole, RegistryRole, Role, Id
  <1>2. migrateMembers = last.out \o flushCount(last.current, last.members)
    BY DEF migrateMembers
  <1>3. InTables(RoleMembersOut, {"roleMembers", "roleMemberCount"})
    <2>1. \A p : MemberWrite(p).slot[1] = "roleMembers"
      BY DEF MemberWrite, Write
    <2>2. \A c : CountWrite(roleMembers, c).slot[1] = "roleMemberCount"
      BY DEF CountWrite, Write
    <2> QED BY <2>1, <2>2, SMTT(30) DEF InTables, RoleMembersOut, MembersOut
  <1>4. walk = WalkStrings(roleMembers) /\ last = MembersVisited(walk)[Len(walk)]
    OBVIOUS
  <1> HIDE DEF walk, last
  <1>5. roleMembers \in SUBSET (Role \X Addr)
    OBVIOUS
  <1>6. Emits(last.out \o flushCount(last.current, last.members),
              MembersOut(roleMembers, roleMembers, {m[1] : m \in roleMembers}))
    BY <1>1, <1>4, <1>5, MembersEmitted, SMTT(30)
  <1> QED BY <1>2, <1>3, <1>6, SMTT(30) DEF RoleMembersOut

=============================================================================
