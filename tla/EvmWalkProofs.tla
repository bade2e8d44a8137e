---------------------------- MODULE EvmWalkProofs ---------------------------
(***************************************************************************)
(* What the migration to the contract's storage is built from: the dump of *)
(* a list of writes, for any number of pairs in a block and any failing    *)
(* write; walks over the keys of a collection; lists of ids packed into    *)
(* words, for any number of ids in a word; and pairs that a walk visits    *)
(* group by group.                                                         *)
(***************************************************************************)
EXTENDS EvmLayout, AnchoringProofs

-----------------------------------------------------------------------------
(***************************************************************************)
(* Recursion and induction along a walk                                    *)
(***************************************************************************)

\* Induction up to N, for the set P of the numbers that have the property.
LEMMA Induct ==
    ASSUME NEW N \in Nat, NEW P, 0 \in P, \A n \in 1 .. N : n - 1 \in P => n \in P
    PROVE  \A n \in 0 .. N : n \in P
  <1> DEFINE T == {n \in 0 .. N : n \notin P}
  <1> SUFFICES ASSUME T # {} PROVE FALSE
    OBVIOUS
  <1>1. T \in SUBSET Nat
    OBVIOUS
  <1>2. PICK m \in T : \A n \in T : m <= n
    <2> HIDE DEF T
    <2> QED BY <1>1, Least
  <1>3. m \in 1 .. N /\ m - 1 \in 0 .. N /\ m - 1 \notin T
    BY <1>2
  <1> QED BY <1>2, <1>3

\* f goes from base to its N-th value by steps inside S.
Recurs(f, N, S, base, step) ==
    /\ f \in [0 .. N -> S]
    /\ f[0] = base
    /\ \A n \in 1 .. N : f[n] = step[<<f[n - 1], n>>]

\* What is defined by a first value and a step from each value to the next exists.
LEMMA Iterates ==
    ASSUME NEW N \in Nat, NEW S, NEW base \in S, NEW step \in [S \X (1 .. N) -> S]
    PROVE  \E f : Recurs(f, N, S, base, step)
  <1> DEFINE P == {m \in 0 .. N : \E f : Recurs(f, m, S, base, step)}
  <1>1. 0 \in P
    <2>1. Recurs([n \in 0 .. 0 |-> base], 0, S, base, step)
      BY DEF Recurs
    <2>2. 0 \in 0 .. N
      OBVIOUS
    <2> QED BY <2>1, <2>2
  <1>2. ASSUME NEW m \in 1 .. N, m - 1 \in P PROVE m \in P
    <2>1. PICK f : Recurs(f, m - 1, S, base, step)
      BY <1>2
    <2> DEFINE g == [n \in 0 .. m |-> IF n = m THEN step[<<f[m - 1], m>>] ELSE f[n]]
    <2>2. f[m - 1] \in S /\ step[<<f[m - 1], m>>] \in S
      BY <2>1 DEF Recurs
    <2>3. g \in [0 .. m -> S]
      BY <2>1, <2>2 DEF Recurs
    <2>4. g[0] = base
      BY <2>1 DEF Recurs
    <2>5. ASSUME NEW n \in 1 .. m PROVE g[n] = step[<<g[n - 1], n>>]
      <3>1. CASE n = m
        <4>1. g[m] = step[<<f[m - 1], m>>] /\ g[m - 1] = f[m - 1]
          OBVIOUS
        <4> HIDE DEF g
        <4> QED BY <3>1, <4>1
      <3>2. CASE n # m
        <4>1. n \in 1 .. m - 1 /\ n - 1 \in 0 .. m - 1
          BY <3>2
        <4> QED BY <2>1, <4>1 DEF Recurs
      <3> QED BY <3>1, <3>2
    <2>6. Recurs(g, m, S, base, step)
      <3> HIDE DEF g
      <3> QED BY <2>3, <2>4, <2>5 DEF Recurs
    <2> HIDE DEF g
    <2> QED BY <2>6
  <1>3. \A n \in 0 .. N : n \in P
    <2> HIDE DEF P
    <2> QED BY <1>1, <1>2, Induct
  <1>4. N \in P
    <2>1. N \in 0 .. N
      OBVIOUS
    <2> HIDE DEF P
    <2> QED BY <1>3, <2>1
  <1> QED BY <1>4

\* Whatever starts and steps like that stays in the set of the steps.
LEMMA StaysIn ==
    ASSUME NEW N \in Nat, NEW S, NEW f, f[0] \in S,
           \A n \in 1 .. N : f[n - 1] \in S => f[n] \in S
    PROVE  \A n \in 0 .. N : f[n] \in S
  <1> DEFINE P == {n \in 0 .. N : f[n] \in S}
  <1>1. 0 \in P /\ \A n \in 1 .. N : n - 1 \in P => n \in P
    OBVIOUS
  <1>2. \A n \in 0 .. N : n \in P
    <2> HIDE DEF P
    <2> QED BY <1>1, Induct
  <1> QED BY <1>2

\* Odd and even positions.
LEMMA Halves ==
    ASSUME NEW n \in Nat
    PROVE  /\ (2 * n) % 2 = 0 /\ (2 * n) \div 2 = n
           /\ \A i \in 1 .. 2 * n : i % 2 = 1 => \E j \in 1 .. n : i = 2 * j - 1
           /\ \A i \in 1 .. 2 * n : i % 2 # 1 => \E j \in 1 .. n : i = 2 * j
  <1>1. (2 * n) % 2 = 0
    OBVIOUS
  <1>2. (2 * n) \div 2 = n
    OBVIOUS
  <1>3. ASSUME NEW i \in 1 .. 2 * n, i % 2 = 1 PROVE \E j \in 1 .. n : i = 2 * j - 1
    <2>1. i = 2 * ((i + 1) \div 2) - 1 /\ (i + 1) \div 2 \in 1 .. n
      BY <1>3
    <2> QED BY <2>1
  <1>4. ASSUME NEW i \in 1 .. 2 * n, i % 2 # 1 PROVE \E j \in 1 .. n : i = 2 * j
    <2>1. i = 2 * (i \div 2) /\ i \div 2 \in 1 .. n
      BY <1>4
    <2> QED BY <2>1
  <1> QED BY <1>1, <1>2, <1>3, <1>4

-----------------------------------------------------------------------------
(***************************************************************************)
(* Sequences                                                               *)
(***************************************************************************)

\* What is known of two sequences put together.
LEMMA ConcatFacts ==
    ASSUME NEW W, NEW s \in Seq(W), NEW t \in Seq(W)
    PROVE  /\ s \o t \in Seq(W)
           /\ Len(s \o t) = Len(s) + Len(t)
           /\ DOMAIN (s \o t) = 1 .. Len(s) + Len(t)
           /\ \A i \in 1 .. Len(s) : (s \o t)[i] = s[i]
           /\ \A i \in 1 .. Len(t) : (s \o t)[Len(s) + i] = t[i]
  OBVIOUS

\* The parts joined so far, part by part.
LEMMA JoinedSteps ==
    ASSUME NEW W, NEW parts \in Seq(Seq(W))
    PROVE  /\ JoinedUpTo(parts)[0] = <<>>
           /\ \A n \in 0 .. Len(parts) : JoinedUpTo(parts)[n] \in Seq(W)
           /\ \A n \in 1 .. Len(parts) :
                 JoinedUpTo(parts)[n] = JoinedUpTo(parts)[n - 1] \o parts[n]
  <1> DEFINE N == Len(parts)
             step == [p \in Seq(W) \X (1 .. N) |-> p[1] \o parts[p[2]]]
             joined == JoinedUpTo(parts)
  <1>1. N \in Nat /\ <<>> \in Seq(W) /\ step \in [Seq(W) \X (1 .. N) -> Seq(W)]
    OBVIOUS
  <1>2. PICK f : Recurs(f, N, Seq(W), <<>>, step)
    <2> HIDE DEF N, step
    <2> QED BY <1>1, Iterates, Zenon
  <1> DEFINE Op(x, n) == x \o parts[n]
  <1>3. \A n \in 1 .. N : f[n] = Op(f[n - 1], n)
    BY <1>2 DEF Recurs
  <1>4. f = [n \in 0 .. N |-> IF n = 0 THEN <<>> ELSE Op(f[n - 1], n)]
    <2> HIDE DEF N, Op
    <2> QED BY <1>1, <1>2, <1>3 DEF Recurs
  <1>5. joined = [n \in 0 .. N |-> IF n = 0 THEN <<>> ELSE Op(joined[n - 1], n)]
    BY <1>4, Zenon DEF JoinedUpTo
  <1> HIDE DEF joined
  <1>6. joined[0] = <<>> /\ \A n \in 1 .. N : joined[n] = Op(joined[n - 1], n)
    <2> HIDE DEF N, Op
    <2> QED BY <1>1, <1>5
  <1>7. ASSUME NEW n \in 1 .. N, joined[n - 1] \in Seq(W) PROVE joined[n] \in Seq(W)
    <2>1. parts[n] \in Seq(W)
      OBVIOUS
    <2>2. joined[n] = joined[n - 1] \o parts[n]
      BY <1>6, Zenon
    <2> HIDE DEF N
    <2> QED BY <1>7, <2>1, <2>2, ConcatFacts
  <1>8. \A n \in 0 .. N : joined[n] \in Seq(W)
    <2> HIDE DEF N
    <2> QED BY <1>1, <1>6, <1>7, StaysIn, Zenon
  <1> QED BY <1>6, <1>8, Zenon DEF joined

\* A list of writes that holds exactly the writes of A, with a slot of its own for each.
Emits(s, A) ==
    /\ s \in Seq(A)
    /\ \A w \in A : \E i \in DOMAIN s : s[i] = w
    /\ \A i, j \in DOMAIN s : s[i].slot = s[j].slot => i = j

\* No slot is in both sets of writes.
Apart(A, B) == \A v \in A, w \in B : v.slot # w.slot

\* Lists with different slots, one after the other.
LEMMA EmitsConcat ==
    ASSUME NEW A, NEW B, NEW s, NEW t, Emits(s, A), Emits(t, B), Apart(A, B)
    PROVE  Emits(s \o t, A \cup B)
  <1>1. s \in Seq(A \cup B) /\ t \in Seq(A \cup B)
    BY DEF Emits
  <1> DEFINE u == s \o t
  <1>2. /\ u \in Seq(A \cup B)
        /\ Len(s) \in Nat /\ Len(t) \in Nat
        /\ DOMAIN u = 1 .. Len(s) + Len(t)
        /\ DOMAIN s = 1 .. Len(s) /\ DOMAIN t = 1 .. Len(t)
        /\ \A i \in 1 .. Len(s) : u[i] = s[i]
        /\ \A i \in 1 .. Len(t) : u[Len(s) + i] = t[i]
    BY <1>1, ConcatFacts
  <1>3. \A i \in 1 .. Len(s) : s[i] \in A
    BY <1>2 DEF Emits
  <1>4. \A i \in 1 .. Len(t) : t[i] \in B
    BY <1>2 DEF Emits
  <1> HIDE DEF u
  <1>5. \A i \in DOMAIN u : \/ i \in 1 .. Len(s)
                            \/ i - Len(s) \in 1 .. Len(t) /\ u[i] = t[i - Len(s)]
    <2> SUFFICES ASSUME NEW i \in DOMAIN u, i \notin 1 .. Len(s)
                 PROVE  i - Len(s) \in 1 .. Len(t) /\ u[i] = t[i - Len(s)]
      OBVIOUS
    <2>1. i - Len(s) \in 1 .. Len(t) /\ Len(s) + (i - Len(s)) = i
      BY <1>2
    <2> QED BY <1>2, <2>1
  <1>6. ASSUME NEW w \in A \cup B PROVE \E i \in DOMAIN u : u[i] = w
    <2>1. CASE w \in A
      <3>1. PICK i \in 1 .. Len(s) : s[i] = w
        BY <1>2, <2>1 DEF Emits
      <3>2. i \in DOMAIN u
        BY <1>2
      <3> QED BY <1>2, <3>1, <3>2
    <2>2. CASE w \in B
      <3>1. PICK i \in 1 .. Len(t) : t[i] = w
        BY <1>2, <2>2 DEF Emits
      <3>2. Len(s) + i \in DOMAIN u
        BY <1>2
      <3> QED BY <1>2, <3>1, <3>2
    <2> QED BY <2>1, <2>2
  <1>7. ASSUME NEW i \in DOMAIN u, NEW j \in DOMAIN u, u[i].slot = u[j].slot
        PROVE  i = j
    <2>1. CASE i \in 1 .. Len(s) /\ j \in 1 .. Len(s)
      BY <1>2, <1>7, <2>1 DEF Emits
    <2>2. CASE i \in 1 .. Len(s) /\ j \notin 1 .. Len(s)
      <3>1. u[i] \in A /\ u[j] \in B
        BY <1>2, <1>3, <1>4, <1>5, <2>2
      <3> QED BY <1>7, <3>1 DEF Apart
    <2>3. CASE i \notin 1 .. Len(s) /\ j \in 1 .. Len(s)
      <3>1. u[i] \in B /\ u[j] \in A
        BY <1>2, <1>3, <1>4, <1>5, <2>3
      <3> QED BY <1>7, <3>1 DEF Apart
    <2>4. CASE i \notin 1 .. Len(s) /\ j \notin 1 .. Len(s)
      <3>1. /\ i - Len(s) \in DOMAIN t /\ j - Len(s) \in DOMAIN t
            /\ t[i - Len(s)].slot = t[j - Len(s)].slot
        BY <1>2, <1>5, <1>7, <2>4
      <3>2. i - Len(s) = j - Len(s)
        BY <3>1 DEF Emits
      <3> QED BY <1>2, <3>2
    <2> QED BY <2>1, <2>2, <2>3, <2>4
  <1> QED BY <1>2, <1>6, <1>7, Zenon DEF Emits, u

\* The empty list.
LEMMA EmitsNothing == Emits(<<>>, {})
BY DEF Emits

\* Lists with different slots, joined.
LEMMA EmitsJoined ==
    ASSUME NEW N \in Nat, NEW A, NEW parts, parts = [i \in 1 .. N |-> parts[i]],
           \A i \in 1 .. N : Emits(parts[i], A[i]),
           \A i, j \in 1 .. N : i # j => Apart(A[i], A[j])
    PROVE  Emits(Joined(parts), UNION {A[i] : i \in 1 .. N})
  <1> DEFINE UpTo(n) == UNION {A[i] : i \in 1 .. n}
             W == UpTo(N)
             joined == JoinedUpTo(parts)
             P == {n \in 0 .. N : Emits(joined[n], UpTo(n))}
  <1>1. ASSUME NEW i \in 1 .. N PROVE parts[i] \in Seq(W)
    <2>1. parts[i] \in Seq(A[i])
      BY DEF Emits
    <2>2. A[i] \in SUBSET W
      OBVIOUS
    <2> HIDE DEF W
    <2> QED BY <2>1, <2>2
  <1>2. parts \in Seq(Seq(W)) /\ Len(parts) = N
    <2> HIDE DEF W
    <2> QED BY <1>1
  <1>3. /\ joined[0] = <<>>
        /\ \A n \in 1 .. N : joined[n] = joined[n - 1] \o parts[n]
    <2> HIDE DEF W
    <2> QED BY <1>2, JoinedSteps, Zenon
  <1> HIDE DEF joined
  <1>4. 0 \in P
    <2>1. UpTo(0) = {}
      OBVIOUS
    <2>2. 0 \in 0 .. N
      OBVIOUS
    <2> HIDE DEF UpTo
    <2> QED BY <1>3, <2>1, <2>2, EmitsNothing, Zenon
  <1>5. ASSUME NEW n \in 1 .. N, n - 1 \in P PROVE n \in P
    <2>1. Emits(joined[n - 1], UpTo(n - 1)) /\ Emits(parts[n], A[n])
      BY <1>5
    <2>2. Apart(UpTo(n - 1), A[n])
      <3> SUFFICES ASSUME NEW i \in 1 .. n - 1, NEW v \in A[i], NEW w \in A[n]
                   PROVE  v.slot # w.slot
        BY DEF Apart
      <3>1. i \in 1 .. N /\ i # n
        OBVIOUS
      <3> QED BY <3>1 DEF Apart
    <2>3. UpTo(n) = UpTo(n - 1) \cup A[n]
      <3>1. \A i : i \in 1 .. n <=> (i \in 1 .. n - 1 \/ i = n)
        OBVIOUS
      <3> QED BY <3>1
    <2>4. Emits(joined[n - 1] \o parts[n], UpTo(n - 1) \cup A[n])
      <3> HIDE DEF UpTo
      <3> QED BY <2>1, <2>2, EmitsConcat
    <2>5. Emits(joined[n], UpTo(n))
      <3> HIDE DEF UpTo
      <3> QED BY <1>3, <2>3, <2>4, Zenon
    <2> HIDE DEF UpTo
    <2> QED BY <2>5
  <1>6. \A n \in 0 .. N : n \in P
    <2> HIDE DEF P
    <2> QED BY <1>4, <1>5, Induct
  <1>7. N \in P
    <2>1. N \in 0 .. N
      OBVIOUS
    <2> HIDE DEF P
    <2> QED BY <1>6, <2>1
  <1> QED BY <1>2, <1>7 DEF Joined, joined

\* A list with one write for each of its positions.
LEMMA EmitsEach ==
    ASSUME NEW N \in Nat, NEW s, s = [i \in 1 .. N |-> s[i]],
           \A i, j \in 1 .. N : s[i].slot = s[j].slot => i = j
    PROVE  Emits(s, {s[i] : i \in 1 .. N})
  <1>1. s \in Seq({s[i] : i \in 1 .. N}) /\ DOMAIN s = 1 .. N
    OBVIOUS
  <1> QED BY <1>1 DEF Emits

\* The writes kept so far, write by write.
LEMMA EmittedSteps ==
    ASSUME NEW W, NEW s \in Seq(W)
    PROVE  /\ Emitted(s)[0] = <<>>
           /\ \A n \in 1 .. Len(s) : Emitted(s)[n] = emit(Emitted(s)[n - 1], s[n])
  <1> DEFINE N == Len(s)
             step == [p \in Seq(W) \X (1 .. N) |-> emit(p[1], s[p[2]])]
             out == Emitted(s)
  <1>1. N \in Nat /\ <<>> \in Seq(W)
    OBVIOUS
  <1>2. step \in [Seq(W) \X (1 .. N) -> Seq(W)]
    BY DEF emit
  <1>3. PICK f : Recurs(f, N, Seq(W), <<>>, step)
    <2> HIDE DEF N, step
    <2> QED BY <1>1, <1>2, Iterates, Zenon
  <1>4. ASSUME NEW n \in 1 .. N PROVE f[n] = emit(f[n - 1], s[n])
    <2>1. f[n - 1] \in Seq(W) /\ f[n] = step[<<f[n - 1], n>>]
      <3> HIDE DEF N, step
      <3> QED BY <1>1, <1>3 DEF Recurs
    <2> QED BY <2>1
  <1>5. f = [n \in 0 .. N |-> IF n = 0 THEN <<>> ELSE emit(f[n - 1], s[n])]
    <2> HIDE DEF N
    <2> QED BY <1>1, <1>3, <1>4 DEF Recurs
  <1>6. out = [n \in 0 .. N |-> IF n = 0 THEN <<>> ELSE emit(out[n - 1], s[n])]
    BY <1>5, Zenon DEF Emitted
  <1> HIDE DEF out
  <1>7. out[0] = <<>> /\ \A n \in 1 .. N : out[n] = emit(out[n - 1], s[n])
    <2> HIDE DEF N
    <2> QED BY <1>1, <1>6
  <1> QED BY <1>7 DEF out

\* Skipping the zero values keeps the others, each with its own slot.
LEMMA EmitsNonZero ==
    ASSUME NEW A, NEW s, Emits(s, A)
    PROVE  Emits(skipZero(s), {w \in A : w.value # Word(0)})
  <1> DEFINE N == Len(s)
             Kept(n) == {s[i] : i \in {j \in 1 .. n : s[j].value # Word(0)}}
             out == Emitted(s)
             P == {n \in 0 .. N : Emits(out[n], Kept(n))}
  <1>1. s \in Seq(A) /\ N \in Nat /\ DOMAIN s = 1 .. N
    BY DEF Emits
  <1>2. out[0] = <<>> /\ \A n \in 1 .. N : out[n] = emit(out[n - 1], s[n])
    BY <1>1, EmittedSteps
  <1> HIDE DEF out
  <1>3. 0 \in P
    <2>1. Kept(0) = {}
      OBVIOUS
    <2>2. 0 \in 0 .. N
      BY <1>1
    <2> HIDE DEF Kept
    <2> QED BY <1>2, <2>1, <2>2, EmitsNothing, SMTT(30)
  <1>4. ASSUME NEW n \in 1 .. N, n - 1 \in P PROVE n \in P
    <2>1. Emits(out[n - 1], Kept(n - 1)) /\ out[n] = emit(out[n - 1], s[n])
      BY <1>2, <1>4
    <2>2. \A i : i \in 1 .. n <=> (i \in 1 .. n - 1 \/ i = n)
      BY <1>1
    <2>3. CASE s[n].value = Word(0)
      <3>1. Kept(n) = Kept(n - 1)
        BY <2>2, <2>3
      <3>2. out[n] = out[n - 1]
        BY <2>1, <2>3 DEF emit
      <3> HIDE DEF Kept
      <3> QED BY <2>1, <3>1, <3>2
    <2>4. CASE s[n].value # Word(0)
      <3>1. Kept(n) = Kept(n - 1) \cup {s[n]}
        BY <2>2, <2>4
      <3>2. out[n] = Append(out[n - 1], s[n])
        BY <2>1, <2>4 DEF emit
      <3>3. out[n] = out[n - 1] \o <<s[n]>>
        <4>1. out[n - 1] \in Seq(Kept(n - 1))
          BY <2>1 DEF Emits
        <4> HIDE DEF Kept
        <4> QED BY <3>2, <4>1
      <3>4. Emits(<<s[n]>>, {s[n]})
        BY DEF Emits
      <3>5. Apart(Kept(n - 1), {s[n]})
        <4> SUFFICES ASSUME NEW i \in 1 .. n - 1 PROVE s[i].slot # s[n].slot
          BY DEF Apart
        <4>1. i \in DOMAIN s /\ n \in DOMAIN s /\ i # n
          BY <1>1
        <4> QED BY <4>1 DEF Emits
      <3>6. Emits(out[n], Kept(n))
        <4> HIDE DEF Kept
        <4> QED BY <2>1, <3>1, <3>3, <3>4, <3>5, EmitsConcat
      <3> HIDE DEF Kept
      <3> QED BY <3>6
    <2> QED BY <2>3, <2>4
  <1>5. \A n \in 0 .. N : n \in P
    <2> HIDE DEF P, N
    <2> QED BY <1>1, <1>3, <1>4, Induct, Zenon
  <1>6. N \in P
    <2>1. N \in 0 .. N
      BY <1>1
    <2> HIDE DEF P, N
    <2> QED BY <1>5, <2>1
  <1>7. Kept(N) = {w \in A : w.value # Word(0)}
    <2>1. \A w \in A : \E i \in 1 .. N : s[i] = w
      BY <1>1, Zenon DEF Emits
    <2>2. \A i \in 1 .. N : s[i] \in A
      BY <1>1
    <2> HIDE DEF N
    <2> QED BY <2>1, <2>2
  <1> HIDE DEF Kept
  <1> QED BY <1>6, <1>7, Zenon DEF skipZero, out

\* One part more at the end.
LEMMA JoinedAppend ==
    ASSUME NEW W, NEW parts \in Seq(Seq(W)), NEW part \in Seq(W)
    PROVE  /\ Joined(parts) \in Seq(W)
           /\ Joined(Append(parts, part)) = Joined(parts) \o part
  <1> DEFINE N == Len(parts)
             more == Append(parts, part)
             f == JoinedUpTo(parts)
             g == JoinedUpTo(more)
             P == {n \in 0 .. N : g[n] = f[n]}
  <1>1. /\ N \in Nat
        /\ more \in Seq(Seq(W))
        /\ Len(more) = N + 1
        /\ more[N + 1] = part
        /\ \A n \in 1 .. N : more[n] = parts[n]
    OBVIOUS
  <1>2. /\ f[0] = <<>>
        /\ \A n \in 0 .. N : f[n] \in Seq(W)
        /\ \A n \in 1 .. N : f[n] = f[n - 1] \o parts[n]
    BY JoinedSteps, Zenon
  <1>3. /\ g[0] = <<>>
        /\ \A n \in 1 .. N + 1 : g[n] = g[n - 1] \o more[n]
    <2> HIDE DEF more, N
    <2> QED BY <1>1, JoinedSteps, Zenon
  <1> HIDE DEF f, g, more, N
  <1>4. 0 \in P
    BY <1>1, <1>2, <1>3
  <1>5. ASSUME NEW n \in 1 .. N, n - 1 \in P PROVE n \in P
    <2>1. n \in 0 .. N /\ n \in 1 .. N + 1 /\ g[n - 1] = f[n - 1] /\ more[n] = parts[n]
      BY <1>1, <1>5
    <2>2. g[n] = g[n - 1] \o more[n] /\ f[n] = f[n - 1] \o parts[n]
      BY <1>2, <1>3, <2>1, Zenon
    <2>3. g[n] = f[n]
      BY <2>1, <2>2, Zenon
    <2> QED BY <2>1, <2>3
  <1>6. \A n \in 0 .. N : n \in P
    <2> HIDE DEF P
    <2> QED BY <1>1, <1>4, <1>5, Induct, Zenon
  <1>7. g[N] = f[N]
    <2>1. N \in 0 .. N
      BY <1>1
    <2> QED BY <1>6, <2>1
  <1>8. g[N + 1] = g[N] \o part /\ f[N] \in Seq(W)
    <2>1. N + 1 \in 1 .. N + 1 /\ N \in 0 .. N /\ (N + 1) - 1 = N
      BY <1>1
    <2> QED BY <1>1, <1>2, <1>3, <2>1, Zenon
  <1> QED BY <1>1, <1>7, <1>8 DEF Joined, f, g, more, N

-----------------------------------------------------------------------------
(***************************************************************************)
(* The dump                                                                *)
(***************************************************************************)

Chunk(W) == {Header(n) : n \in Nat} \cup {Pairs(pairs) : pairs \in Seq(W)}
DumpType(W) == [out : Seq(Chunk(W)), pending : Seq(W), err : BOOLEAN]

\* What a flush makes of a dump: its file is longer by a header and the pending
\* pairs, or it fails at one of the two (evmlayout/dump.go:54-72).
LEMMA FlushCases ==
    ASSUME NEW W, NEW dump \in DumpType(W), NEW fault \in Nat, ~ dump.err
    PROVE  LET file == dump.out \o <<Header(Len(dump.pending)), Pairs(dump.pending)>>
           IN  /\ file \in Seq(Chunk(W)) /\ Len(file) = Len(dump.out) + 2
               /\ dump.pending = <<>> => Flush(dump, fault) = dump
               /\ dump.pending # <<>> /\ fault \in Len(dump.out) + 1 .. Len(file) =>
                     Flush(dump, fault).err /\ Flush(dump, fault) \in DumpType(W)
               /\ dump.pending # <<>> /\ fault \notin Len(dump.out) + 1 .. Len(file) =>
                     Flush(dump, fault) = [out |-> file, pending |-> <<>>, err |-> FALSE]
  <1> DEFINE two == <<Header(Len(dump.pending)), Pairs(dump.pending)>>
             file == dump.out \o two
  <1>1. dump.out \in Seq(Chunk(W)) /\ dump.pending \in Seq(W)
    BY DEF DumpType
  <1>2. two \in Seq(Chunk(W)) /\ Len(two) = 2
    <2>1. Header(Len(dump.pending)) \in Chunk(W) /\ Pairs(dump.pending) \in Chunk(W)
      BY <1>1 DEF Chunk
    <2> QED BY <2>1
  <1>3. file \in Seq(Chunk(W)) /\ Len(file) = Len(dump.out) + 2
    <2> DEFINE out == dump.out
               C == Chunk(W)
    <2>1. out \in Seq(C) /\ two \in Seq(C) /\ Len(two) = 2
      BY <1>1, <1>2
    <2> HIDE DEF two, out, C
    <2>2. out \o two \in Seq(C) /\ Len(out \o two) = Len(out) + Len(two)
      BY <2>1, ConcatFacts, Zenon
    <2> QED BY <2>1, <2>2 DEF out, C
  <1>4. dump.pending = <<>> => Flush(dump, fault) = dump
    BY DEF Flush
  <1>5. ASSUME dump.pending # <<>>, fault \in Len(dump.out) + 1 .. Len(file)
        PROVE  Flush(dump, fault).err /\ Flush(dump, fault) \in DumpType(W)
    <2>1. Flush(dump, fault) = [dump EXCEPT !.out = SubSeq(file, 1, fault - 1), !.err = TRUE]
      BY <1>5 DEF Flush
    <2>2. SubSeq(file, 1, fault - 1) \in Seq(Chunk(W))
      <3> HIDE DEF file
      <3> QED BY <1>1, <1>3, <1>5
    <2> HIDE DEF file
    <2> QED BY <2>1, <2>2, Zenon DEF DumpType
  <1>6. ASSUME dump.pending # <<>>, fault \notin Len(dump.out) + 1 .. Len(file)
        PROVE  Flush(dump, fault) = [out |-> file, pending |-> <<>>, err |-> FALSE]
    <2>1. Flush(dump, fault) = [dump EXCEPT !.out = file, !.pending = <<>>]
      BY <1>6 DEF Flush
    <2> HIDE DEF file
    <2> QED BY <2>1, Zenon DEF DumpType
  <1> QED BY <1>3, <1>4, <1>5, <1>6, SMTT(30)

\* A dump with one more pending pair.
Filled(dump, write) == [dump EXCEPT !.pending = Append(dump.pending, write)]

\* What a Put makes of a dump that has not failed (evmlayout/dump.go:39-47).
LEMMA PutCases ==
    ASSUME NEW W, NEW dump \in DumpType(W), NEW write \in W, NEW fault, ~ dump.err
    PROVE  /\ Filled(dump, write) \in DumpType(W)
           /\ ~ Filled(dump, write).err
           /\ Filled(dump, write).out = dump.out
           /\ Filled(dump, write).pending = Append(dump.pending, write)
           /\ Filled(dump, write).pending # <<>>
           /\ Sink(dump, write, fault) = IF Len(Append(dump.pending, write)) = DumpBlockPairs
                                         THEN Flush(Filled(dump, write), fault)
                                         ELSE Filled(dump, write)
  <1>1. dump.pending \in Seq(W) /\ dump.out \in Seq(Chunk(W))
    BY DEF DumpType
  <1>2. Append(dump.pending, write) \in Seq(W) /\ Append(dump.pending, write) # <<>>
    BY <1>1
  <1>3. /\ Filled(dump, write).pending = Append(dump.pending, write)
        /\ Filled(dump, write).out = dump.out
        /\ Filled(dump, write).err = dump.err
        /\ Filled(dump, write) \in DumpType(W)
    BY <1>2, SMTT(30) DEF Filled, DumpType
  <1>4. Sink(dump, write, fault) = IF Len(Append(dump.pending, write)) = DumpBlockPairs
                                   THEN Flush(Filled(dump, write), fault)
                                   ELSE Filled(dump, write)
    BY <1>3 DEF Sink, PutPair, Filled
  <1> QED BY <1>2, <1>3, <1>4

\* A dump stays a dump.
LEMMA SinkType ==
    ASSUME NEW W, NEW dump \in DumpType(W), NEW write \in W, NEW fault \in Nat
    PROVE  Sink(dump, write, fault) \in DumpType(W)
  <1>1. CASE dump.err
    BY <1>1 DEF Sink
  <1>2. CASE ~ dump.err
    <2> DEFINE filled == Filled(dump, write)
               file == filled.out \o <<Header(Len(filled.pending)), Pairs(filled.pending)>>
    <2>1. /\ filled \in DumpType(W) /\ ~ filled.err /\ filled.pending # <<>>
          /\ Sink(dump, write, fault) \in {filled, Flush(filled, fault)}
      <3> HIDE DEF filled
      <3> QED BY <1>2, PutCases DEF filled
    <2> HIDE DEF filled
    <2>2. file \in Seq(Chunk(W))
      BY <2>1, FlushCases, Zenon
    <2>3. Flush(filled, fault) \in DumpType(W)
      <3>1. CASE fault \in Len(filled.out) + 1 .. Len(file)
        BY <2>1, <3>1, FlushCases, Zenon
      <3>2. CASE fault \notin Len(filled.out) + 1 .. Len(file)
        <4>1. Flush(filled, fault) = [out |-> file, pending |-> <<>>, err |-> FALSE]
          BY <2>1, <3>2, FlushCases
        <4>2. <<>> \in Seq(W)
          OBVIOUS
        <4> HIDE DEF file
        <4> QED BY <2>2, <4>1, <4>2 DEF DumpType
      <3> QED BY <3>1, <3>2
    <2> QED BY <2>1, <2>3
  <1> QED BY <1>1, <1>2 DEF DumpType

\* The dump so far, write by write.
LEMMA DumpSteps ==
    ASSUME NEW W, NEW writes \in Seq(W), NEW fault \in Nat
    PROVE  /\ DumpAfter(writes, fault)[0] = NewDump
           /\ \A n \in 0 .. Len(writes) : DumpAfter(writes, fault)[n] \in DumpType(W)
           /\ \A n \in 1 .. Len(writes) :
                 DumpAfter(writes, fault)[n] =
                    Sink(DumpAfter(writes, fault)[n - 1], writes[n], fault)
  <1> DEFINE N == Len(writes)
             D == DumpType(W)
             step == [p \in D \X (1 .. N) |-> Sink(p[1], writes[p[2]], fault)]
             after == DumpAfter(writes, fault)
  <1>1. N \in Nat /\ \A n \in 1 .. N : writes[n] \in W
    OBVIOUS
  <1>2. NewDump \in D
    BY DEF NewDump, DumpType
  <1>3. step \in [D \X (1 .. N) -> D]
    <2>1. \A p \in D \X (1 .. N) : Sink(p[1], writes[p[2]], fault) \in D
      <3> HIDE DEF N
      <3> QED BY <1>1, SinkType
    <2> HIDE DEF D, N
    <2> QED BY <2>1
  <1>4. PICK f : Recurs(f, N, D, NewDump, step)
    <2> HIDE DEF N, step, D
    <2> QED BY <1>1, <1>2, <1>3, Iterates, Zenon
  <1>5. ASSUME NEW n \in 1 .. N PROVE f[n] = Sink(f[n - 1], writes[n], fault)
    <2>1. f[n - 1] \in D /\ f[n] = step[<<f[n - 1], n>>]
      <3> HIDE DEF N, step, D
      <3> QED BY <1>1, <1>4 DEF Recurs
    <2> HIDE DEF D
    <2> QED BY <2>1
  <1>6. f = [n \in 0 .. N |-> IF n = 0 THEN NewDump ELSE Sink(f[n - 1], writes[n], fault)]
    <2> HIDE DEF N, D
    <2> QED BY <1>1, <1>4, <1>5 DEF Recurs
  <1>7. after = [n \in 0 .. N |->
                    IF n = 0 THEN NewDump ELSE Sink(after[n - 1], writes[n], fault)]
    BY <1>6, Zenon DEF DumpAfter
  <1> HIDE DEF after
  <1>8. after[0] = NewDump /\ \A n \in 1 .. N : after[n] = Sink(after[n - 1], writes[n], fault)
    <2> HIDE DEF N
    <2> QED BY <1>1, <1>7
  <1>9. \A n \in 1 .. N : after[n - 1] \in D => after[n] \in D
    <2> HIDE DEF N
    <2> QED BY <1>1, <1>8, SinkType, SMTT(30)
  <1>10. \A n \in 0 .. N : after[n] \in D
    <2> HIDE DEF N, D
    <2> QED BY <1>1, <1>2, <1>8, <1>9, StaysIn, Zenon
  <1> QED BY <1>8, <1>10 DEF after

\* The file is made of a header and the pairs of each part.
Blocks(out, parts) ==
    /\ Len(out) = 2 * Len(parts)
    /\ \A i \in 1 .. Len(parts) : /\ out[2 * i - 1] = Header(Len(parts[i]))
                                  /\ out[2 * i] = Pairs(parts[i])

\* What the file and the pending pairs hold, in order.
Holding(dump, W, writes) ==
    \E parts \in Seq(Seq(W)) : Blocks(dump.out, parts) /\ Joined(parts) \o dump.pending = writes

\* A loader reads the parts of such a file.
LEMMA BlocksLoad ==
    ASSUME NEW W, NEW parts \in Seq(Seq(W)), NEW out \in Seq(Chunk(W)), Blocks(out, parts)
    PROVE  Loads(out, Joined(parts))
  <1>1. /\ Len(parts) \in Nat /\ Len(out) = 2 * Len(parts) /\ DOMAIN out = 1 .. Len(out)
        /\ DOMAIN parts = 1 .. Len(parts)
    BY DEF Blocks
  <1>2. \A i \in 1 .. Len(parts) : /\ out[2 * i - 1] = Header(Len(parts[i]))
                                   /\ out[2 * i] = Pairs(parts[i])
    BY DEF Blocks
  <1>3. ASSUME NEW i \in DOMAIN out
        PROVE  IF i % 2 = 1
               THEN out[i].kind = "header"
               ELSE out[i].kind = "pairs" /\ Len(out[i].pairs) = out[i - 1].count
    <2>1. CASE i % 2 = 1
      <3>1. PICK j \in 1 .. Len(parts) : i = 2 * j - 1
        BY <1>1, <2>1, Halves, Zenon
      <3>2. out[i] = Header(Len(parts[j]))
        BY <1>2, <3>1
      <3> QED BY <2>1, <3>2 DEF Header
    <2>2. CASE i % 2 # 1
      <3>1. PICK j \in 1 .. Len(parts) : i = 2 * j
        BY <1>1, <2>2, Halves, Zenon
      <3>2. out[i] = Pairs(parts[j]) /\ out[i - 1] = Header(Len(parts[j]))
        BY <1>2, <3>1
      <3> QED BY <2>2, <3>2 DEF Header, Pairs
    <2> QED BY <2>1, <2>2
  <1>4. Len(out) % 2 = 0 /\ Len(out) \div 2 = Len(parts)
    BY <1>1, Halves, Zenon
  <1>5. [i \in 1 .. Len(out) \div 2 |-> out[2 * i].pairs] = parts
    <2>1. ASSUME NEW i \in 1 .. Len(parts) PROVE out[2 * i].pairs = parts[i]
      <3>1. out[2 * i] = Pairs(parts[i])
        BY <1>2
      <3>2. Pairs(parts[i]).pairs = parts[i]
        BY DEF Pairs
      <3> QED BY <3>1, <3>2
    <2>2. parts = [i \in 1 .. Len(parts) |-> parts[i]]
      BY <1>1
    <2> QED BY <1>4, <2>1, <2>2, Zenon
  <1> QED BY <1>3, <1>4, <1>5, Zenon DEF Loads

\* A flush without a fault leaves nothing pending and loses nothing.
LEMMA FlushHolds ==
    ASSUME NEW W, NEW dump \in DumpType(W), ~ dump.err, NEW writes, Holding(dump, W, writes)
    PROVE  /\ Flush(dump, 0) \in DumpType(W) /\ ~ Flush(dump, 0).err
           /\ Flush(dump, 0).pending = <<>>
           /\ Holding(Flush(dump, 0), W, writes)
  <1>1. CASE dump.pending = <<>>
    <2>1. Flush(dump, 0) = dump
      BY <1>1 DEF Flush
    <2> QED BY <1>1, <2>1
  <1>2. CASE dump.pending # <<>>
    <2> DEFINE out == dump.out
               pending == dump.pending
               two == <<Header(Len(pending)), Pairs(pending)>>
               file == out \o two
    <2>1. out \in Seq(Chunk(W)) /\ pending \in Seq(W)
      BY DEF DumpType
    <2>2. Flush(dump, 0) = [out |-> file, pending |-> <<>>, err |-> FALSE]
      <3>1. 0 \in Nat /\ 0 \notin Len(out) + 1 .. Len(file)
        <4>1. Len(out) \in Nat
          BY <2>1
        <4> QED BY <4>1
      <3> QED BY <1>2, <3>1, FlushCases
    <2>3. file \in Seq(Chunk(W)) /\ Len(file) = Len(out) + 2
      BY FlushCases, Zenon
    <2>4. PICK parts \in Seq(Seq(W)) : Blocks(out, parts) /\ Joined(parts) \o pending = writes
      BY Zenon DEF Holding
    <2> DEFINE more == Append(parts, pending)
    <2>5. /\ more \in Seq(Seq(W)) /\ Len(more) = Len(parts) + 1 /\ Len(parts) \in Nat
          /\ more[Len(parts) + 1] = pending
          /\ \A i \in 1 .. Len(parts) : more[i] = parts[i]
      <3> HIDE DEF pending
      <3> QED BY <2>1, <2>4
    <2>6. Joined(more) = writes /\ Joined(more) \in Seq(W)
      <3>1. Joined(parts) \in Seq(W) /\ Joined(more) = Joined(parts) \o pending
        BY <2>1, <2>4, JoinedAppend, Zenon
      <3>2. Joined(parts) \o pending \in Seq(W)
        BY <2>1, <3>1, ConcatFacts
      <3> HIDE DEF more, pending
      <3> QED BY <2>4, <3>1, <3>2
    <2>7. Blocks(file, more)
      <3>1. Len(two) = 2 /\ two[1] = Header(Len(pending)) /\ two[2] = Pairs(pending)
        OBVIOUS
      <3>2. two \in Seq(Chunk(W))
        <4>1. Header(Len(pending)) \in Chunk(W) /\ Pairs(pending) \in Chunk(W)
          <5> HIDE DEF pending
          <5> QED BY <2>1 DEF Chunk
        <4> HIDE DEF pending
        <4> QED BY <4>1
      <3>3. Len(out) = 2 * Len(parts)
        BY <2>4 DEF Blocks
      <3>4. /\ \A i \in 1 .. Len(out) : file[i] = out[i]
            /\ \A i \in 1 .. Len(two) : file[Len(out) + i] = two[i]
        <4> HIDE DEF out, two
        <4> QED BY <2>1, <3>2, ConcatFacts
      <3> HIDE DEF out, two, file, more, pending
      <3>5. Len(file) = 2 * Len(more)
        BY <2>3, <2>5, <3>3
      <3>6. ASSUME NEW i \in 1 .. Len(more)
            PROVE  file[2 * i - 1] = Header(Len(more[i])) /\ file[2 * i] = Pairs(more[i])
        <4>1. CASE i \in 1 .. Len(parts)
          <5>1. 2 * i - 1 \in 1 .. Len(out) /\ 2 * i \in 1 .. Len(out)
            BY <2>5, <3>3, <4>1
          <5>2. out[2 * i - 1] = Header(Len(parts[i])) /\ out[2 * i] = Pairs(parts[i])
            BY <2>4, <4>1 DEF Blocks
          <5> QED BY <2>5, <3>4, <4>1, <5>1, <5>2, Zenon
        <4>2. CASE i = Len(parts) + 1
          <5>1. /\ 2 * i - 1 = Len(out) + 1 /\ 2 * i = Len(out) + 2
                /\ 1 \in 1 .. Len(two) /\ 2 \in 1 .. Len(two)
            BY <2>5, <3>1, <3>3, <4>2
          <5> QED BY <2>5, <3>1, <3>4, <4>2, <5>1, Zenon
        <4> QED BY <2>5, <4>1, <4>2
      <3> QED BY <3>5, <3>6 DEF Blocks
    <2>8. Joined(more) \o <<>> = writes
      <3> HIDE DEF more
      <3> QED BY <2>6
    <2> HIDE DEF file, more
    <2>9. Holding([out |-> file, pending |-> <<>>, err |-> FALSE], W, writes)
      BY <2>5, <2>7, <2>8 DEF Holding
    <2>10. [out |-> file, pending |-> <<>>, err |-> FALSE] \in DumpType(W)
      BY <2>3 DEF DumpType
    <2>11. ~ [out |-> file, pending |-> <<>>, err |-> FALSE].err
      OBVIOUS
    <2>12. [out |-> file, pending |-> <<>>, err |-> FALSE].pending = <<>>
      OBVIOUS
    <2> QED BY <2>2, <2>9, <2>10, <2>11, <2>12, Zenon
  <1> QED BY <1>1, <1>2

\* One more pending pair.
LEMMA FilledHolds ==
    ASSUME NEW W, NEW dump \in DumpType(W), NEW writes, Holding(dump, W, writes), NEW write \in W
    PROVE  Holding(Filled(dump, write), W, Append(writes, write))
  <1>1. dump.pending \in Seq(W)
    BY DEF DumpType
  <1>2. PICK parts \in Seq(Seq(W)) : /\ Blocks(dump.out, parts)
                                     /\ Joined(parts) \o dump.pending = writes
    BY SMTT(30) DEF Holding
  <1>3. Joined(parts) \in Seq(W)
    BY <1>1, <1>2, JoinedAppend
  <1>4. Joined(parts) \o Append(dump.pending, write) = Append(writes, write)
    <2> DEFINE joined == Joined(parts)
               pending == dump.pending
    <2>1. joined \in Seq(W) /\ pending \in Seq(W) /\ joined \o pending = writes
      BY <1>1, <1>2, <1>3
    <2> HIDE DEF joined, pending
    <2>2. joined \o Append(pending, write) = Append(joined \o pending, write)
      BY <2>1
    <2> QED BY <2>1, <2>2 DEF joined, pending
  <1>5. /\ Filled(dump, write).out = dump.out
        /\ Filled(dump, write).pending = Append(dump.pending, write)
    BY DEF Filled, DumpType
  <1> QED BY <1>2, <1>4, <1>5, Zenon DEF Holding

\* Without a fault the dump holds, after each write, the writes so far.
LEMMA DumpHolds ==
    ASSUME NEW W, NEW writes \in Seq(W)
    PROVE  \A n \in 0 .. Len(writes) :
              /\ ~ DumpAfter(writes, 0)[n].err
              /\ Holding(DumpAfter(writes, 0)[n], W, SubSeq(writes, 1, n))
  <1> DEFINE N == Len(writes)
             after == DumpAfter(writes, 0)
             P == {n \in 0 .. N : ~ after[n].err /\ Holding(after[n], W, SubSeq(writes, 1, n))}
  <1>1. N \in Nat /\ 0 \in 0 .. N /\ \A n \in 1 .. N : writes[n] \in W
    OBVIOUS
  <1>2. /\ after[0] = NewDump
        /\ \A n \in 0 .. N : after[n] \in DumpType(W)
        /\ \A n \in 1 .. N : after[n] = Sink(after[n - 1], writes[n], 0)
    BY DumpSteps
  <1> HIDE DEF after
  <1>3. 0 \in P
    <2>1. SubSeq(writes, 1, 0) = <<>>
      OBVIOUS
    <2>2. Joined(<<>>) = <<>>
      <3>1. <<>> \in Seq(Seq(W)) /\ Len(<<>>) = 0
        OBVIOUS
      <3>2. JoinedUpTo(<<>>)[0] = <<>>
        BY <3>1, JoinedSteps, Zenon
      <3> QED BY <3>1, <3>2, Zenon DEF Joined
    <2>3. <<>> \in Seq(Seq(W)) /\ Blocks(<<>>, <<>>)
      BY DEF Blocks
    <2>4. NewDump.out = <<>> /\ NewDump.pending = <<>> /\ NewDump.err = FALSE
      BY DEF NewDump
    <2>5. <<>> \o <<>> = <<>>
      OBVIOUS
    <2>6. Holding(NewDump, W, <<>>)
      BY <2>2, <2>3, <2>4, <2>5, Zenon DEF Holding
    <2> QED BY <1>1, <1>2, <2>1, <2>4, <2>6, Zenon
  <1>4. ASSUME NEW n \in 1 .. N, n - 1 \in P PROVE n \in P
    <2> DEFINE dump == after[n - 1]
               filled == Filled(dump, writes[n])
    <2>1. dump \in DumpType(W) /\ ~ dump.err /\ writes[n] \in W
      BY <1>1, <1>2, <1>4
    <2>2. SubSeq(writes, 1, n) = Append(SubSeq(writes, 1, n - 1), writes[n])
      OBVIOUS
    <2>3. Holding(filled, W, SubSeq(writes, 1, n))
      <3>1. Holding(dump, W, SubSeq(writes, 1, n - 1))
        BY <1>4
      <3>2. Holding(filled, W, Append(SubSeq(writes, 1, n - 1), writes[n]))
        BY <2>1, <3>1, FilledHolds, SMTT(30)
      <3> QED BY <2>2, <3>2, Zenon
    <2>4. /\ filled \in DumpType(W) /\ ~ filled.err
          /\ after[n] \in {filled, Flush(filled, 0)}
      BY <1>2, <2>1, PutCases
    <2> HIDE DEF filled
    <2>5. ~ Flush(filled, 0).err /\ Holding(Flush(filled, 0), W, SubSeq(writes, 1, n))
      BY <2>3, <2>4, FlushHolds, Zenon
    <2>6. ~ after[n].err /\ Holding(after[n], W, SubSeq(writes, 1, n))
      BY <2>3, <2>4, <2>5, Zenon
    <2>7. n \in 0 .. N
      BY <1>1
    <2> QED BY <2>6, <2>7, Zenon
  <1>5. \A n \in 0 .. N : n \in P
    <2> HIDE DEF P, N
    <2> QED BY <1>1, <1>3, <1>4, Induct, Zenon
  <1> QED BY <1>5 DEF after

\* Up to the failing write a dump goes as the one without a fault, and there it fails.
LEMMA DumpFails ==
    ASSUME NEW W, NEW writes \in Seq(W), NEW fault \in Nat
    PROVE  \A n \in 0 .. Len(writes) :
              IF fault \in 1 .. Len(DumpAfter(writes, 0)[n].out)
              THEN DumpAfter(writes, fault)[n].err
              ELSE DumpAfter(writes, fault)[n] = DumpAfter(writes, 0)[n]
  <1> DEFINE N == Len(writes)
             sound == DumpAfter(writes, 0)
             after == DumpAfter(writes, fault)
             P == {n \in 0 .. N : IF fault \in 1 .. Len(sound[n].out)
                                  THEN after[n].err ELSE after[n] = sound[n]}
  <1>1. N \in Nat /\ 0 \in 0 .. N /\ \A n \in 1 .. N : writes[n] \in W
    OBVIOUS
  <1>2. /\ after[0] = NewDump
        /\ \A n \in 1 .. N : after[n] = Sink(after[n - 1], writes[n], fault)
    BY DumpSteps
  <1>3. /\ sound[0] = NewDump
        /\ \A n \in 0 .. N : sound[n] \in DumpType(W)
        /\ \A n \in 1 .. N : sound[n] = Sink(sound[n - 1], writes[n], 0)
    BY DumpSteps
  <1>4. \A n \in 0 .. N : ~ sound[n].err
    BY DumpHolds
  <1> HIDE DEF after, sound
  <1>5. 0 \in P
    <2>1. Len(NewDump.out) = 0
      BY DEF NewDump
    <2> QED BY <1>1, <1>2, <1>3, <2>1
  <1>6. ASSUME NEW n \in 1 .. N, n - 1 \in P PROVE n \in P
    <2> DEFINE dump == sound[n - 1]
               filled == Filled(dump, writes[n])
               file == filled.out \o <<Header(Len(filled.pending)), Pairs(filled.pending)>>
    <2>1. dump \in DumpType(W) /\ ~ dump.err /\ writes[n] \in W /\ n \in 0 .. N
      BY <1>1, <1>3, <1>4, SMTT(30)
    <2>2. /\ filled \in DumpType(W) /\ ~ filled.err /\ filled.out = dump.out
          /\ filled.pending # <<>>
      BY <2>1, PutCases, Zenon
    <2>3. dump.out \in Seq(Chunk(W)) /\ Len(dump.out) \in Nat
      BY <2>1 DEF DumpType
    <2>4. file \in Seq(Chunk(W)) /\ Len(file) = Len(dump.out) + 2
      <3> HIDE DEF filled, dump
      <3> QED BY <2>2, FlushCases, Zenon
    <2>5. Flush(filled, 0) = [out |-> file, pending |-> <<>>, err |-> FALSE]
      <3>1. 0 \in Nat /\ 0 \notin Len(filled.out) + 1 .. Len(file)
        BY <2>2, <2>3, SMTT(30)
      <3> HIDE DEF filled, dump
      <3> QED BY <2>2, <3>1, FlushCases, Zenon
    <2>6. Flush(filled, 0).out = file
      BY <2>5, SMTT(30)
    <2> DEFINE full == Len(Append(dump.pending, writes[n])) = DumpBlockPairs
    <2>7. sound[n] = IF full THEN Flush(filled, 0) ELSE filled
      BY <1>3, <2>1, PutCases
    <2>8. ASSUME ~ after[n - 1].err, after[n - 1] = dump
          PROVE  after[n] = IF full THEN Flush(filled, fault) ELSE filled
      <3>1. after[n] = Sink(dump, writes[n], fault)
        BY <1>2, <2>8
      <3> QED BY <2>1, <3>1, PutCases
    <2> HIDE DEF full, filled, file, dump
    <2>9. Len(dump.out) <= Len(sound[n].out)
      BY <2>2, <2>3, <2>4, <2>6, <2>7, SMTT(30)
    <2>10. CASE fault \in 1 .. Len(dump.out)
      <3>1. after[n - 1].err
        BY <1>6, <2>10 DEF dump
      <3>2. after[n].err
        BY <1>2, <3>1 DEF Sink
      <3> QED BY <2>1, <2>3, <2>4, <2>2, <2>6, <2>7, <2>10, <3>2, SMTT(30)
    <2>11. CASE fault \notin 1 .. Len(dump.out)
      <3>1. after[n - 1] = dump /\ ~ after[n - 1].err
        BY <1>6, <2>1, <2>11 DEF dump
      <3>2. CASE ~ full
        <4>1. after[n] = sound[n] /\ sound[n].out = dump.out
          BY <2>2, <2>7, <2>8, <3>1, <3>2
        <4> QED BY <2>1, <2>11, <4>1
      <3>3. CASE full /\ fault \in Len(filled.out) + 1 .. Len(file)
        <4>1. Flush(filled, fault).err
          BY <2>2, <3>3, FlushCases, Zenon DEF file
        <4>2. after[n].err
          BY <2>8, <3>1, <3>3, <4>1
        <4>3. fault \in 1 .. Len(sound[n].out)
          BY <2>2, <2>3, <2>6, <2>7, <3>3
        <4> QED BY <2>1, <4>2, <4>3
      <3>4. CASE full /\ fault \notin Len(filled.out) + 1 .. Len(file)
        <4>1. Flush(filled, fault) = [out |-> file, pending |-> <<>>, err |-> FALSE]
          BY <2>2, <3>4, FlushCases, Zenon DEF file
        <4>2. after[n] = sound[n]
          BY <2>5, <2>7, <2>8, <3>1, <3>4, <4>1, Zenon
        <4>3. fault \notin 1 .. Len(sound[n].out)
          BY <2>2, <2>3, <2>4, <2>6, <2>7, <2>11, <3>4, SMTT(30)
        <4> QED BY <2>1, <4>2, <4>3
      <3> QED BY <3>2, <3>3, <3>4
    <2> QED BY <2>10, <2>11
  <1>7. \A n \in 0 .. N : n \in P
    <2> HIDE DEF P, N
    <2> QED BY <1>1, <1>5, <1>6, Induct, Zenon
  <1> QED BY <1>7 DEF after, sound

\* Closed without an error, a dump loads as the writes it was given; a failing write
\* always ends in an error.
LEMMA DumpLoads ==
    ASSUME NEW W, NEW writes \in Seq(W), NEW fault \in 0 .. Len(DumpOf(writes, 0).out)
    PROVE  /\ DumpOf(writes, fault).err <=> fault # 0
           /\ ~ DumpOf(writes, fault).err => Loads(DumpOf(writes, fault).out, writes)
  <1> DEFINE N == Len(writes)
             sound == DumpAfter(writes, 0)[N]
             last == DumpAfter(writes, fault)[N]
             file == sound.out \o <<Header(Len(sound.pending)), Pairs(sound.pending)>>
  <1>1. N \in Nat /\ N \in 0 .. N /\ SubSeq(writes, 1, N) = writes
    OBVIOUS
  <1>2. sound \in DumpType(W)
    BY <1>1, DumpSteps
  <1>3. ~ sound.err /\ Holding(sound, W, writes)
    BY <1>1, DumpHolds, Zenon
  <1>4. DumpOf(writes, 0) = Flush(sound, 0)
    BY <1>3 DEF DumpOf, Close
  <1>5. sound.out \in Seq(Chunk(W)) /\ Len(sound.out) \in Nat
    BY <1>2 DEF DumpType
  <1> HIDE DEF sound
  <1>6. /\ Flush(sound, 0) \in DumpType(W) /\ ~ Flush(sound, 0).err
        /\ Flush(sound, 0).pending = <<>> /\ Holding(Flush(sound, 0), W, writes)
    BY <1>2, <1>3, FlushHolds
  <1>7. fault \in Nat /\ fault <= Len(Flush(sound, 0).out)
    <2>1. Flush(sound, 0).out \in Seq(Chunk(W))
      BY <1>6 DEF DumpType
    <2>2. Len(Flush(sound, 0).out) \in Nat
      BY <2>1
    <2> QED BY <1>4, <2>2
  <1>8. IF fault \in 1 .. Len(sound.out) THEN last.err ELSE last = sound
    BY <1>1, <1>7, DumpFails, Zenon DEF sound
  <1>9. DumpOf(writes, fault) = IF last.err THEN last ELSE Flush(last, fault)
    BY DEF DumpOf, Close
  <1> HIDE DEF last
  <1>10. CASE fault = 0
    <2>1. DumpOf(writes, fault) = Flush(sound, 0)
      BY <1>4, <1>10
    <2>2. PICK parts \in Seq(Seq(W)) :
             /\ Blocks(Flush(sound, 0).out, parts)
             /\ Joined(parts) \o Flush(sound, 0).pending = writes
      BY <1>6 DEF Holding
    <2>3. Joined(parts) \in Seq(W)
      BY <1>2, <2>2, JoinedAppend
    <2>4. Joined(parts) = writes
      <3> DEFINE joined == Joined(parts)
      <3>1. joined \in Seq(W) /\ joined \o <<>> = writes
        BY <1>6, <2>2, <2>3, SMTT(30)
      <3> HIDE DEF joined
      <3>2. joined \o <<>> = joined
        BY <3>1
      <3> QED BY <3>1, <3>2, SMTT(30) DEF joined
    <2>5. Flush(sound, 0).out \in Seq(Chunk(W))
      BY <1>6 DEF DumpType
    <2>6. Loads(Flush(sound, 0).out, writes)
      BY <2>2, <2>4, <2>5, BlocksLoad
    <2> QED BY <1>6, <1>10, <2>1, <2>6
  <1>11. CASE fault \in 1 .. Len(sound.out)
    BY <1>8, <1>9, <1>11
  <1>12. CASE fault # 0 /\ fault \notin 1 .. Len(sound.out)
    <2>1. last = sound /\ DumpOf(writes, fault) = Flush(sound, fault)
      BY <1>3, <1>8, <1>9, <1>12
    <2>2. sound.pending # <<>>
      <3>1. sound.pending = <<>> => Flush(sound, 0) = sound
        BY <1>2, <1>3, FlushCases, Zenon
      <3> QED BY <1>5, <1>7, <1>12, <3>1
    <2>3. Len(file) = Len(sound.out) + 2
      BY <1>2, <1>3, FlushCases
    <2>4. Flush(sound, 0) = [out |-> file, pending |-> <<>>, err |-> FALSE]
      <3>1. 0 \in Nat /\ 0 \notin Len(sound.out) + 1 .. Len(file)
        BY <1>5, <2>3
      <3> QED BY <1>2, <1>3, <2>2, <3>1, FlushCases
    <2>5. Flush(sound, 0).out = file
      <3> HIDE DEF file
      <3> QED BY <2>4
    <2>6. fault \in Len(sound.out) + 1 .. Len(file)
      BY <1>5, <1>7, <1>12, <2>3, <2>5
    <2>7. Flush(sound, fault).err
      BY <1>2, <1>3, <1>7, <2>2, <2>6, FlushCases, Zenon
    <2> QED BY <1>12, <2>1, <2>7
  <1> QED BY <1>7, <1>10, <1>11, <1>12

-----------------------------------------------------------------------------
(***************************************************************************)
(* Walks                                                                   *)
(***************************************************************************)

\* The pairs of keys of which the first comes first.
KeyOrder(keys, code) == {p \in keys \X keys : KeyLess(code[p[1]], code[p[2]])}

\* Codes with a number of components of their own order the keys.
LEMMA CodesOrder ==
    ASSUME NEW m \in Nat, NEW keys, NEW code \in [keys -> [1 .. m -> Nat]],
           \A k, l \in keys : code[k] = code[l] => k = l
    PROVE  Orders(KeyOrder(keys, code), keys)
  <1>1. \A k \in keys : code[k] \in [1 .. m -> Nat]
    OBVIOUS
  <1>2. ASSUME NEW a \in [1 .. m -> Nat] PROVE ~ KeyLess(a, a)
    BY DEF KeyLess
  <1>3. ASSUME NEW a \in [1 .. m -> Nat], NEW b \in [1 .. m -> Nat], NEW c \in [1 .. m -> Nat],
               KeyLess(a, b), KeyLess(b, c)
        PROVE  KeyLess(a, c)
    <2>1. PICK i \in 1 .. m : a[i] < b[i] /\ \A j \in 1 .. i - 1 : a[j] = b[j]
      BY <1>3 DEF KeyLess
    <2>2. PICK k \in 1 .. m : b[k] < c[k] /\ \A j \in 1 .. k - 1 : b[j] = c[j]
      BY <1>3, SMTT(30) DEF KeyLess
    <2>3. CASE i <= k
      <3>1. a[i] < c[i]
        <4>1. b[i] <= c[i]
          BY <2>2, <2>3, SMTT(30)
        <4>2. a[i] \in Nat /\ b[i] \in Nat /\ c[i] \in Nat
          OBVIOUS
        <4> QED BY <2>1, <4>1, <4>2
      <3>2. \A j \in 1 .. i - 1 : a[j] = c[j]
        BY <2>1, <2>2, <2>3
      <3> QED BY <3>1, <3>2 DEF KeyLess
    <2>4. CASE k < i
      <3>1. a[k] < c[k]
        BY <2>1, <2>2, <2>4
      <3>2. \A j \in 1 .. k - 1 : a[j] = c[j]
        BY <2>1, <2>2, <2>4
      <3> QED BY <3>1, <3>2 DEF KeyLess
    <2> QED BY <2>3, <2>4
  <1>4. ASSUME NEW a \in [1 .. m -> Nat], NEW b \in [1 .. m -> Nat], a # b
        PROVE  KeyLess(a, b) \/ KeyLess(b, a)
    <2> DEFINE T == {i \in 1 .. m : a[i] # b[i]}
    <2>1. T \in SUBSET Nat /\ T # {}
      <3>1. a = [i \in 1 .. m |-> a[i]] /\ b = [i \in 1 .. m |-> b[i]]
        OBVIOUS
      <3>2. ~ \A i \in 1 .. m : a[i] = b[i]
        BY <1>4, <3>1
      <3>3. PICK i \in 1 .. m : a[i] # b[i]
        BY <3>2
      <3>4. i \in T
        BY <3>3
      <3>5. T \in SUBSET Nat
        OBVIOUS
      <3> HIDE DEF T
      <3> QED BY <3>4, <3>5
    <2>2. PICK i \in T : \A j \in T : i <= j
      <3> HIDE DEF T
      <3> QED BY <2>1, Least
    <2>3. i \in 1 .. m /\ a[i] # b[i] /\ a[i] \in Nat /\ b[i] \in Nat
      BY <2>2
    <2>4. \A j \in 1 .. i - 1 : a[j] = b[j]
      BY <2>2
    <2>5. CASE a[i] < b[i]
      BY <2>3, <2>4, <2>5 DEF KeyLess
    <2>6. CASE b[i] < a[i]
      BY <2>3, <2>4, <2>6 DEF KeyLess
    <2> QED BY <2>3, <2>5, <2>6
  <1> DEFINE R == KeyOrder(keys, code)
  <1>5. \A k, l \in keys : <<k, l>> \in R <=> KeyLess(code[k], code[l])
    BY DEF KeyOrder
  <1> HIDE DEF R
  <1>6. \A k \in keys : <<k, k>> \notin R
    BY <1>1, <1>2, <1>5
  <1>7. \A x, y, z \in keys : <<x, y>> \in R /\ <<y, z>> \in R => <<x, z>> \in R
    BY <1>1, <1>3, <1>5, Zenon
  <1>8. \A x, y \in keys : x # y => <<x, y>> \in R \/ <<y, x>> \in R
    BY <1>1, <1>4, <1>5, Zenon
  <1> QED BY <1>6, <1>7, <1>8 DEF Orders, R

\* A walk visits every key once, in the order of the codes; a key's place is the
\* number of keys before it.
Visits(walk, keys, code) ==
    LET N == Cardinality(keys)
    IN  /\ N \in Nat
        /\ walk \in Seq(keys) /\ Len(walk) = N /\ DOMAIN walk = 1 .. N
        /\ \A key \in keys : \E i \in 1 .. N : walk[i] = key
        /\ \A i \in 1 .. N : walk[i] \in keys
        /\ \A i, j \in 1 .. N : i < j =>
              KeyLess(code[walk[i]], code[walk[j]]) /\ walk[i] # walk[j]
        /\ \A key \in keys, i \in 1 .. N :
              walk[i] = key <=>
                 Cardinality({k \in keys : KeyLess(code[k], code[key])}) = i - 1

\* The same for numbers, which are walked in ascending order.
Ascends(walk, ids) ==
    LET N == Cardinality(ids)
    IN  /\ N \in Nat
        /\ walk \in Seq(ids) /\ Len(walk) = N /\ DOMAIN walk = 1 .. N
        /\ \A id \in ids : \E i \in 1 .. N : walk[i] = id
        /\ \A i \in 1 .. N : walk[i] \in ids
        /\ \A i, j \in 1 .. N : i < j => walk[i] < walk[j]
        /\ \A id \in ids, i \in 1 .. N :
              walk[i] = id <=> Cardinality({k \in ids : k < id}) = i - 1

\* Walk does.
LEMMA WalkVisits ==
    ASSUME NEW m \in Nat, NEW keys, IsFiniteSet(keys), NEW code \in [keys -> [1 .. m -> Nat]],
           \A k, l \in keys : code[k] = code[l] => k = l
    PROVE  Visits(Walk(keys, code), keys, code)
  <1> DEFINE R == KeyOrder(keys, code)
             N == Cardinality(keys)
             walk == Walk(keys, code)
             rank(key) == Cardinality({k \in keys : KeyLess(code[k], code[key])})
  <1>1. Orders(R, keys) /\ N \in Nat
    BY CodesOrder, FS_CardinalityType, Zenon
  <1>2. \A k, l \in keys : <<k, l>> \in R <=> KeyLess(code[k], code[l])
    BY DEF KeyOrder
  <1>3. ASSUME NEW key \in keys PROVE Below(R, keys, key) = {k \in keys : KeyLess(code[k], code[key])}
    BY <1>2 DEF Below
  <1> HIDE DEF R
  <1>4. \A key \in keys : rank(key) \in 0 .. N - 1
    BY <1>1, <1>3, RankGrows, Zenon
  <1>5. \A x, y \in keys : <<x, y>> \in R => rank(x) < rank(y)
    <2>1. \A x, y \in keys : <<x, y>> \in R =>
             Cardinality(Below(R, keys, x)) < Cardinality(Below(R, keys, y))
      BY <1>1, RankGrows
    <2> QED BY <1>3, <2>1, Zenon
  <1>6. \A n \in 0 .. N - 1 : \E key \in keys : rank(key) = n
    <2>1. \A n \in 0 .. N - 1 : \E key \in keys : Cardinality(Below(R, keys, key)) = n
      BY <1>1, RankOnto
    <2> QED BY <1>3, <2>1, Zenon
  <1>7. \A x, y \in keys : x # y => <<x, y>> \in R \/ <<y, x>> \in R
    BY <1>1, Zenon DEF Orders
  <1>8. walk = [i \in 1 .. N |-> CHOOSE key \in keys : rank(key) = i - 1]
    BY DEF Walk
  <1> HIDE DEF rank, walk, N
  <1>9. \A x, y \in keys : rank(x) = rank(y) => x = y
    <2> SUFFICES ASSUME NEW x \in keys, NEW y \in keys, rank(x) = rank(y), x # y PROVE FALSE
      OBVIOUS
    <2>1. rank(x) \in Int /\ rank(y) \in Int
      BY <1>1, <1>4
    <2>2. rank(x) < rank(y) \/ rank(y) < rank(x)
      BY <1>5, <1>7, Zenon
    <2> QED BY <2>1, <2>2
  <1>10. ASSUME NEW i \in 1 .. N PROVE walk[i] \in keys /\ rank(walk[i]) = i - 1
    <2>1. \E key \in keys : rank(key) = i - 1
      BY <1>1, <1>6
    <2> QED BY <1>8, <2>1
  <1>11. walk \in Seq(keys) /\ Len(walk) = N /\ DOMAIN walk = 1 .. N
    <2>1. walk \in [1 .. N -> keys]
      BY <1>8, <1>10, SMTT(30)
    <2> QED BY <1>1, <2>1
  <1>12. ASSUME NEW key \in keys, NEW i \in 1 .. N PROVE walk[i] = key <=> rank(key) = i - 1
    BY <1>9, <1>10
  <1>13. ASSUME NEW key \in keys PROVE \E i \in 1 .. N : walk[i] = key
    <2>1. rank(key) + 1 \in 1 .. N /\ rank(key) = (rank(key) + 1) - 1
      BY <1>1, <1>4
    <2> QED BY <1>12, <2>1
  <1>14. ASSUME NEW i \in 1 .. N, NEW j \in 1 .. N, i < j
         PROVE  KeyLess(code[walk[i]], code[walk[j]]) /\ walk[i] # walk[j]
    <2>1. rank(walk[i]) < rank(walk[j]) /\ walk[i] \in keys /\ walk[j] \in keys
      BY <1>1, <1>10, <1>14
    <2>2. rank(walk[i]) \in Nat /\ rank(walk[j]) \in Nat
      BY <1>4, <2>1
    <2>3. walk[i] # walk[j]
      BY <2>1, <2>2
    <2>4. <<walk[i], walk[j]>> \in R
      <3>1. ~ rank(walk[j]) < rank(walk[i])
        BY <2>1, <2>2
      <3>2. <<walk[j], walk[i]>> \notin R
        BY <1>5, <2>1, <3>1
      <3> QED BY <1>7, <2>1, <2>3, <3>2
    <2> QED BY <1>2, <2>1, <2>3, <2>4
  <1> QED BY <1>1, <1>10, <1>11, <1>12, <1>13, <1>14, SMTT(30) DEF walk, N, rank, Visits

\* Numbers are walked in ascending order.
LEMMA IdsWalked ==
    ASSUME NEW ids \in SUBSET Nat, IsFiniteSet(ids)
    PROVE  Ascends(WalkIds(ids), ids)
  <1> DEFINE code == [id \in ids |-> <<id>>]
             walk == Walk(ids, code)
             N == Cardinality(ids)
  <1>1. code \in [ids -> [1 .. 1 -> Nat]] /\ \A k, l \in ids : code[k] = code[l] => k = l
    <2>1. \A id \in ids : code[id] = <<id>> /\ <<id>> \in [1 .. 1 -> Nat]
      OBVIOUS
    <2>2. \A k, l \in ids : <<k>> = <<l>> => k = l
      OBVIOUS
    <2> QED BY <2>1, <2>2
  <1>2. \A k, l \in ids : KeyLess(code[k], code[l]) <=> k < l
    <2> SUFFICES ASSUME NEW k \in ids, NEW l \in ids PROVE KeyLess(<<k>>, <<l>>) <=> k < l
      BY Zenon
    <2>1. DOMAIN <<k>> = {1} /\ <<k>>[1] = k /\ <<l>>[1] = l
      OBVIOUS
    <2>2. k \in Nat /\ l \in Nat /\ 1 .. 1 - 1 = {}
      OBVIOUS
    <2> QED BY <2>1, <2>2, Zenon DEF KeyLess
  <1>3. WalkIds(ids) = walk
    BY DEF WalkIds
  <1> HIDE DEF code
  <1>4. Visits(walk, ids, code)
    <2>1. 1 \in Nat
      OBVIOUS
    <2> QED BY <1>1, <2>1, WalkVisits, Zenon
  <1> HIDE DEF walk
  <1>5. \A id \in ids : {k \in ids : KeyLess(code[k], code[id])} = {k \in ids : k < id}
    BY <1>2, Zenon
  <1>6. Ascends(walk, ids)
    BY <1>2, <1>4, <1>5, Zenon DEF Visits, Ascends
  <1> QED BY <1>3, <1>6

\* A number above the others comes last.
LEMMA IdsAppended ==
    ASSUME NEW ids \in SUBSET Nat, IsFiniteSet(ids), NEW x \in Nat, \A id \in ids : id < x
    PROVE  WalkIds(ids \cup {x}) = Append(WalkIds(ids), x)
  <1> DEFINE all == ids \cup {x}
             N == Cardinality(ids)
             short == WalkIds(ids)
             long == WalkIds(all)
  <1>1. x \notin ids
    OBVIOUS
  <1>2. all \in SUBSET Nat /\ IsFiniteSet(all) /\ Cardinality(all) = N + 1 /\ N \in Nat
    BY <1>1, FS_AddElement, FS_CardinalityType
  <1>3. /\ short \in Seq(ids) /\ Len(short) = N
        /\ \A i \in 1 .. N : Cardinality({k \in ids : k < short[i]}) = i - 1
    <2>1. Ascends(short, ids)
      BY IdsWalked
    <2> HIDE DEF short
    <2> QED BY <2>1, Zenon DEF Ascends
  <1>4. /\ long \in Seq(all) /\ Len(long) = N + 1
        /\ \A id \in all, i \in 1 .. N + 1 :
              long[i] = id <=> Cardinality({k \in all : k < id}) = i - 1
    <2> HIDE DEF all
    <2>1. Ascends(long, all)
      BY <1>2, IdsWalked
    <2> HIDE DEF long
    <2> QED BY <1>2, <2>1 DEF Ascends
  <1>5. ASSUME NEW i \in 1 .. N PROVE long[i] = short[i]
    <2>1. short[i] \in ids /\ short[i] \in all /\ i \in 1 .. N + 1
      BY <1>2, <1>3
    <2>2. {k \in all : k < short[i]} = {k \in ids : k < short[i]}
      <3> DEFINE y == short[i]
      <3>1. y \in Nat /\ ~ x < y
        <4>1. y \in ids
          BY <2>1
        <4> HIDE DEF y
        <4> QED BY <4>1
      <3> HIDE DEF y
      <3>2. {k \in all : k < y} = {k \in ids : k < y}
        BY <3>1
      <3> QED BY <3>2 DEF y
    <2>3. Cardinality({k \in all : k < short[i]}) = i - 1
      BY <1>3, <2>2
    <2> HIDE DEF all, long
    <2> QED BY <1>4, <2>1, <2>3
  <1>6. long[N + 1] = x
    <2>1. x \in all /\ N + 1 \in 1 .. N + 1 /\ (N + 1) - 1 = N
      BY <1>2
    <2>3. {k \in all : k < x} = ids
      <3>1. ~ x < x /\ \A k \in all : k \in ids \/ k = x
        OBVIOUS
      <3> QED BY <3>1, Zenon
    <2>2. Cardinality({k \in all : k < x}) = (N + 1) - 1
      BY <2>1, <2>3
    <2> HIDE DEF all, long
    <2> QED BY <1>4, <2>1, <2>2
  <1> HIDE DEF all, long, short, N
  <1>7. /\ Len(Append(short, x)) = N + 1
        /\ \A i \in 1 .. N : Append(short, x)[i] = short[i]
        /\ Append(short, x)[N + 1] = x
        /\ Append(short, x) \in Seq(ids \cup {x})
    BY <1>2, <1>3
  <1>8. \A i \in 1 .. N + 1 : long[i] = Append(short, x)[i]
    BY <1>2, <1>5, <1>6, <1>7
  <1>9. long = Append(short, x)
    BY <1>2, <1>4, <1>7, <1>8
  <1> QED BY <1>9, Zenon DEF all, long, short

\* Nothing to walk.
LEMMA IdsNone == WalkIds({}) = <<>>
  <1>1. Cardinality({}) = 0
    BY FS_EmptySet
  <1> QED BY <1>1 DEF WalkIds, Walk

\* The migration of the registries refuses a chain exactly when its registries
\* are not the first ones up to the count.
LEMMA GapsFound ==
    ASSUME IsFiniteSet(DOMAIN registries), DOMAIN registries \subseteq Id, registryCount \in Nat
    PROVE  GapsRefused
  <1> DEFINE D == DOMAIN registries
             N == Cardinality(D)
             ids == WalkIds(D)
             previous(i) == IF i = 1 THEN 0 ELSE ids[i - 1]
  <1>1. D \in SUBSET Nat /\ IsFiniteSet(D)
    BY DEF Id
  <1> HIDE DEF D
  <1>2. /\ N \in Nat
        /\ ids \in Seq(D) /\ Len(ids) = N /\ DOMAIN ids = 1 .. N
        /\ \A id \in D : \E i \in 1 .. N : ids[i] = id
        /\ \A i \in 1 .. N : ids[i] \in D
        /\ \A id \in D, i \in 1 .. N :
              ids[i] = id <=> Cardinality({k \in D : k < id}) = i - 1
    <2>1. Ascends(ids, D)
      BY <1>1, IdsWalked
    <2> HIDE DEF ids
    <2> QED BY <2>1 DEF Ascends
  <1>3. migrateRegistriesRefuses <=>
           \/ \E i \in 1 .. N : ids[i] # previous(i) + 1
           \/ registryCount # previous(N + 1)
    BY <1>2, Zenon DEF migrateRegistriesRefuses, D
  <1> HIDE DEF N, ids
  <1>4. ASSUME \A i \in 1 .. N : ids[i] = previous(i) + 1, registryCount = previous(N + 1)
        PROVE  D = 1 .. registryCount
    <2> DEFINE P == {i \in 0 .. N : i = 0 \/ ids[i] = i}
    <2>1. 0 \in P
      BY <1>2
    <2>2. ASSUME NEW i \in 1 .. N, i - 1 \in P PROVE i \in P
      <3>1. previous(i) = i - 1
        BY <1>2, <2>2
      <3>2. ids[i] = i
        BY <1>4, <3>1
      <3> QED BY <1>2, <3>2
    <2>3. \A i \in 0 .. N : i \in P
      <3> HIDE DEF P
      <3> QED BY <1>2, <2>1, <2>2, Induct, Zenon
    <2>4. \A i \in 1 .. N : ids[i] = i
      BY <1>2, <2>3
    <2>5. registryCount = N
      BY <1>2, <1>4, <2>4
    <2>6. \A id \in D : id \in 1 .. N
      BY <1>2, <2>4
    <2>7. \A i \in 1 .. N : i \in D
      BY <1>2, <2>4
    <2> QED BY <2>5, <2>6, <2>7, Zenon
  <1>5. ASSUME D = 1 .. registryCount
        PROVE  /\ \A i \in 1 .. N : ids[i] = previous(i) + 1
               /\ registryCount = previous(N + 1)
    <2>1. N = registryCount
      <3>1. Cardinality(1 .. registryCount) = IF 1 > registryCount THEN 0 ELSE registryCount - 1 + 1
        BY FS_Interval
      <3> QED BY <1>5, <3>1 DEF N
    <2>2. ASSUME NEW i \in 1 .. N PROVE ids[i] = i
      <3>1. {k \in D : k < i} = 1 .. i - 1 /\ i \in D
        BY <1>5, <2>1
      <3>2. Cardinality(1 .. i - 1) = IF 1 > i - 1 THEN 0 ELSE (i - 1) - 1 + 1
        <4>1. i - 1 \in Int /\ 1 \in Int
          BY <1>2
        <4> QED BY <4>1, FS_Interval
      <3>3. Cardinality({k \in D : k < i}) = i - 1
        BY <1>2, <3>1, <3>2, SMTT(30)
      <3> QED BY <1>2, <3>1, <3>3
    <2> QED BY <1>2, <2>1, <2>2
  <1> QED BY <1>3, <1>4, <1>5 DEF GapsRefused, D

\* A list of the members of a set, each once.
Lists(seq, S) ==
    /\ seq \in Seq(S) /\ DOMAIN seq = 1 .. Len(seq) /\ Len(seq) \in Nat
    /\ \A x \in S : \E i \in DOMAIN seq : seq[i] = x
    /\ \A i \in DOMAIN seq : seq[i] \in S
    /\ \A i, j \in DOMAIN seq : seq[i] = seq[j] => i = j

\* What goes by steps, one step at a time.
LEMMA RecursStep ==
    ASSUME NEW f, NEW N \in Nat, NEW S, NEW base, NEW step, Recurs(f, N, S, base, step),
           NEW n \in 1 .. N
    PROVE  f[n - 1] \in S /\ f[n] = step[<<f[n - 1], n>>]
  <1>1. n - 1 \in 0 .. N
    OBVIOUS
  <1> QED BY <1>1 DEF Recurs

\* What is left of a set, one member after the other taken out.
LEMMA LeftSteps ==
    ASSUME NEW S, IsFiniteSet(S)
    PROVE  /\ Left(S)[0] = S
           /\ \A n \in 0 .. Cardinality(S) : Left(S)[n] \in SUBSET S
           /\ \A n \in 1 .. Cardinality(S) : Left(S)[n] = WithoutFirst(Left(S)[n - 1])
  <1> DEFINE N == Cardinality(S)
             step == [p \in (SUBSET S) \X (1 .. N) |-> WithoutFirst(p[1])]
             left == Left(S)
  <1>1. N \in Nat
    BY FS_CardinalityType
  <1> HIDE DEF N
  <1>2. S \in SUBSET S /\ step \in [(SUBSET S) \X (1 .. N) -> SUBSET S]
    BY DEF WithoutFirst
  <1>3. PICK f : Recurs(f, N, SUBSET S, S, step)
    <2> HIDE DEF step
    <2> QED BY <1>1, <1>2, Iterates
  <1>4. ASSUME NEW n \in 1 .. N PROVE f[n] = WithoutFirst(f[n - 1])
    <2>1. f[n] = step[<<f[n - 1], n>>] /\ f[n - 1] \in SUBSET S
      <3> HIDE DEF step
      <3> QED BY <1>1, <1>3, RecursStep
    <2>2. step[<<f[n - 1], n>>] = WithoutFirst(f[n - 1])
      <3> DEFINE before == f[n - 1]
      <3>1. before \in SUBSET S
        BY <2>1, SMTT(30)
      <3> HIDE DEF before
      <3>2. step[<<before, n>>] = WithoutFirst(before)
        BY <3>1
      <3> QED BY <3>2, SMTT(30) DEF before
    <2> HIDE DEF step
    <2> QED BY <2>1, <2>2
  <1>5. f = [n \in 0 .. N |-> IF n = 0 THEN S ELSE WithoutFirst(f[n - 1])]
    BY <1>1, <1>3, <1>4 DEF Recurs
  <1>6. left = [n \in 0 .. N |-> IF n = 0 THEN S ELSE WithoutFirst(left[n - 1])]
    BY <1>5, Zenon DEF Left, N
  <1> HIDE DEF left
  <1>7. left[0] = S /\ \A n \in 1 .. N : left[n] = WithoutFirst(left[n - 1])
    BY <1>1, <1>6
  <1>8. \A n \in 1 .. N : left[n - 1] \in SUBSET S => left[n] \in SUBSET S
    BY <1>7 DEF WithoutFirst
  <1>9. \A n \in 0 .. N : left[n] \in SUBSET S
    BY <1>1, <1>2, <1>7, <1>8, StaysIn, Zenon
  <1> QED BY <1>7, <1>9 DEF left, N

\* InSomeOrder lists a finite set.
LEMMA ListedAll ==
    ASSUME NEW S, IsFiniteSet(S)
    PROVE  Lists(InSomeOrder(S), S)
  <1> DEFINE N == Cardinality(S)
             left == Left(S)
             seq == InSomeOrder(S)
             P == {n \in 0 .. N : /\ left[n] = S \ {seq[i] : i \in 1 .. n}
                                  /\ Cardinality(left[n]) = N - n}
  <1>1. N \in Nat
    BY FS_CardinalityType
  <1>2. /\ left[0] = S
        /\ \A n \in 0 .. N : left[n] \in SUBSET S
        /\ \A n \in 1 .. N : left[n] = WithoutFirst(left[n - 1])
    BY LeftSteps
  <1>3. seq = [i \in 1 .. N |-> CHOOSE x \in left[i - 1] : TRUE]
    BY DEF InSomeOrder
  <1> HIDE DEF N, left, seq
  <1>4. \A n \in 1 .. N : left[n] = left[n - 1] \ {seq[n]}
    BY <1>2, <1>3 DEF WithoutFirst
  <1>5. 0 \in P
    <2>1. {seq[i] : i \in 1 .. 0} = {}
      OBVIOUS
    <2> QED BY <1>1, <1>2, <2>1 DEF N
  <1>6. ASSUME NEW n \in 1 .. N, n - 1 \in P
        PROVE  n \in P /\ seq[n] \in left[n - 1]
    <2>1. /\ left[n - 1] = S \ {seq[i] : i \in 1 .. n - 1}
          /\ Cardinality(left[n - 1]) = N - (n - 1)
      BY <1>6
    <2>2. n - 1 \in 0 .. N /\ left[n - 1] \in SUBSET S /\ IsFiniteSet(left[n - 1])
      BY <1>1, <1>2, FS_Subset
    <2>3. left[n - 1] # {}
      <3>1. Cardinality({}) = 0
        BY FS_EmptySet
      <3>2. Cardinality(left[n - 1]) = N - (n - 1) /\ N - (n - 1) # 0
        BY <1>1, <2>1
      <3> HIDE DEF P
      <3> QED BY <3>1, <3>2, Zenon
    <2>4. seq[n] \in left[n - 1]
      BY <1>3, <2>3
    <2>5. Cardinality(left[n]) = N - n
      <3>1. Cardinality(left[n - 1] \ {seq[n]}) = Cardinality(left[n - 1]) - 1
        BY <2>2, <2>4, FS_RemoveElement, Zenon
      <3>2. Cardinality(left[n]) = Cardinality(left[n - 1]) - 1
        BY <1>4, <3>1, Zenon
      <3>3. Cardinality(left[n - 1]) = N - (n - 1)
        BY <2>1
      <3> HIDE DEF P
      <3> QED BY <1>1, <3>2, <3>3
    <2>6. left[n] = S \ {seq[i] : i \in 1 .. n}
      <3>1. {seq[i] : i \in 1 .. n} = {seq[i] : i \in 1 .. n - 1} \cup {seq[n]}
        <4>1. 1 .. n = (1 .. n - 1) \cup {n}
          BY <1>1
        <4> QED BY <4>1, Zenon
      <3> QED BY <1>4, <2>1, <3>1
    <2> QED BY <1>1, <2>4, <2>5, <2>6
  <1>7. \A n \in 0 .. N : n \in P
    <2> HIDE DEF P
    <2> QED BY <1>1, <1>5, <1>6, Induct, SMTT(30)
  <1>8. \A n \in 1 .. N : seq[n] \in S \ {seq[i] : i \in 1 .. n - 1}
    <2> SUFFICES ASSUME NEW n \in 1 .. N PROVE seq[n] \in S \ {seq[i] : i \in 1 .. n - 1}
      OBVIOUS
    <2>1. n - 1 \in 0 .. N
      BY <1>1
    <2>2. n - 1 \in P
      BY <1>7, <2>1
    <2>3. seq[n] \in left[n - 1]
      BY <1>6, <2>2
    <2> QED BY <2>2, <2>3, SMTT(30)
  <1>9. seq \in Seq(S) /\ DOMAIN seq = 1 .. Len(seq) /\ Len(seq) = N
    <2>1. seq \in [1 .. N -> S]
      BY <1>3, <1>8
    <2> QED BY <1>1, <2>1
  <1>10. S \ {seq[i] : i \in 1 .. N} = {}
    <2>1. N \in P
      BY <1>1, <1>7
    <2>2. left[N] = S \ {seq[i] : i \in 1 .. N} /\ Cardinality(left[N]) = 0
      BY <1>1, <2>1
    <2>3. IsFiniteSet(left[N])
      BY <1>1, <1>2, FS_Subset, SMTT(30)
    <2>4. left[N] = {}
      BY <2>2, <2>3, FS_EmptySet, SMTT(30)
    <2> QED BY <2>2, <2>4
  <1>11. ASSUME NEW i \in 1 .. N, NEW j \in 1 .. N, i < j PROVE seq[i] # seq[j]
    <2>1. i \in 1 .. j - 1
      BY <1>1, <1>11, SMTT(30)
    <2> QED BY <1>8, <2>1
  <1>12. \A i, j \in 1 .. N : seq[i] = seq[j] => i = j
    BY <1>1, <1>11
  <1> QED BY <1>1, <1>8, <1>9, <1>10, <1>12, SMTT(30) DEF Lists, seq

\* Numbers for the members of a set, and the codes of pairs that they make.
Numbers(a, A) == a \in [A -> Nat] /\ \A x, y \in A : a[x] = a[y] => x = y

PairCode(pairs, a, b) == [p \in pairs |-> <<a[p[1]], b[p[2]]>>]

\* Every member has a position of its own.
LEMMA Positions ==
    ASSUME NEW S, IsFiniteSet(S)
    PROVE  Numbers(Position(S), S)
  <1> DEFINE seq == InSomeOrder(S)
             pos == Position(S)
  <1>1. Lists(seq, S)
    BY ListedAll
  <1>2. pos = [x \in S |-> CHOOSE i \in DOMAIN seq : seq[i] = x]
    BY DEF Position
  <1> HIDE DEF seq, pos
  <1>3. \A x \in S : pos[x] \in DOMAIN seq /\ seq[pos[x]] = x
    BY <1>1, <1>2 DEF Lists
  <1>4. DOMAIN seq \subseteq Nat
    BY <1>1 DEF Lists
  <1>5. pos \in [S -> Nat]
    BY <1>2, <1>3, <1>4, SMTT(30)
  <1> QED BY <1>3, <1>5 DEF pos, Numbers

\* The pairs with the same first component are visited one right after the other.
Grouped(walk) ==
    \A i, j, k \in DOMAIN walk :
       i < j /\ j < k /\ walk[i][1] = walk[k][1] => walk[j][1] = walk[i][1]

\* A walk of pairs; the second components are visited in the order of their numbers.
PairsVisited(walk, pairs, b) ==
    /\ Lists(walk, pairs)
    /\ Grouped(walk)
    /\ \A i, j \in DOMAIN walk :
          i < j /\ walk[i][1] = walk[j][1] => b[walk[i][2]] < b[walk[j][2]]

\* Visited keys are listed.
LEMMA VisitsLists ==
    ASSUME NEW walk, NEW keys, NEW code, Visits(walk, keys, code)
    PROVE  Lists(walk, keys)
  <1> DEFINE N == Cardinality(keys)
  <1>1. /\ N \in Nat
        /\ walk \in Seq(keys) /\ Len(walk) = N /\ DOMAIN walk = 1 .. N
        /\ \A key \in keys : \E i \in 1 .. N : walk[i] = key
        /\ \A i \in 1 .. N : walk[i] \in keys
        /\ \A i, j \in 1 .. N : i < j => walk[i] # walk[j]
    BY DEF Visits
  <1> HIDE DEF N
  <1>2. \A i, j \in 1 .. N : walk[i] = walk[j] => i = j
    BY <1>1
  <1> QED BY <1>1, <1>2, SMTT(30) DEF Lists

\* Triples and pairs of numbers.
LEMMA TuplesWalked ==
    ASSUME NEW m \in Nat, NEW keys \in SUBSET [1 .. m -> Nat], IsFiniteSet(keys)
    PROVE  Lists(WalkTuples(keys), keys)
  <1> DEFINE code == [key \in keys |-> key]
  <1>1. code \in [keys -> [1 .. m -> Nat]] /\ \A k, l \in keys : code[k] = code[l] => k = l
    OBVIOUS
  <1>2. WalkTuples(keys) = Walk(keys, code)
    BY DEF WalkTuples
  <1> HIDE DEF code
  <1>3. Visits(Walk(keys, code), keys, code)
    BY <1>1, WalkVisits, SMTT(30)
  <1> QED BY <1>2, <1>3, VisitsLists, Zenon

\* Pairs whose components are numbered, the first ones before the second ones.
LEMMA PairsWalked ==
    ASSUME NEW A, NEW B, NEW pairs \in SUBSET (A \X B), IsFiniteSet(pairs),
           NEW a, Numbers(a, A), NEW b, Numbers(b, B)
    PROVE  PairsVisited(Walk(pairs, PairCode(pairs, a, b)), pairs, b)
  <1> DEFINE code == PairCode(pairs, a, b)
             walk == Walk(pairs, code)
             N == Cardinality(pairs)
  <1>0. /\ a \in [A -> Nat] /\ \A x, y \in A : a[x] = a[y] => x = y
        /\ b \in [B -> Nat] /\ \A x, y \in B : b[x] = b[y] => x = y
    BY DEF Numbers
  <1>1. \A p \in pairs : /\ p[1] \in A /\ p[2] \in B /\ p = <<p[1], p[2]>>
                         /\ a[p[1]] \in Nat /\ b[p[2]] \in Nat
    BY <1>0
  <1>2. \A p \in pairs : code[p] = <<a[p[1]], b[p[2]]>>
    BY DEF PairCode
  <1>3. code \in [pairs -> [1 .. 2 -> Nat]]
    <2>1. \A x, y \in Nat : <<x, y>> \in [1 .. 2 -> Nat]
      OBVIOUS
    <2> QED BY <1>1, <2>1 DEF PairCode
  <1> HIDE DEF code
  <1>4. \A k, l \in pairs : code[k] = code[l] => k = l
    <2> SUFFICES ASSUME NEW k \in pairs, NEW l \in pairs, code[k] = code[l] PROVE k = l
      OBVIOUS
    <2>1. a[k[1]] = a[l[1]] /\ b[k[2]] = b[l[2]]
      BY <1>2, SMTT(30)
    <2>2. k[1] = l[1] /\ k[2] = l[2]
      BY <1>0, <1>1, <2>1
    <2> QED BY <1>1, <2>2
  <1>5. Visits(walk, pairs, code)
    <2>1. 2 \in Nat
      OBVIOUS
    <2> QED BY <1>3, <1>4, <2>1, WalkVisits, Zenon
  <1>6. Lists(walk, pairs)
    BY <1>5, VisitsLists
  <1> HIDE DEF walk
  <1>7. \A x, y, u, v \in Nat : KeyLess(<<x, y>>, <<u, v>>) => x < u \/ (x = u /\ y < v)
    <2> SUFFICES ASSUME NEW x \in Nat, NEW y \in Nat, NEW u \in Nat, NEW v \in Nat,
                        KeyLess(<<x, y>>, <<u, v>>)
                 PROVE  x < u \/ (x = u /\ y < v)
      OBVIOUS
    <2>1. PICK i \in {1, 2} : /\ <<x, y>>[i] < <<u, v>>[i]
                              /\ \A j \in 1 .. i - 1 : <<x, y>>[j] = <<u, v>>[j]
      BY DEF KeyLess
    <2>2. CASE i = 1
      BY <2>1, <2>2, SMTT(30)
    <2>3. CASE i = 2
      <3>1. 1 \in 1 .. i - 1
        BY <2>3, SMTT(30)
      <3>2. <<x, y>>[1] = <<u, v>>[1] /\ <<x, y>>[2] < <<u, v>>[2]
        BY <2>1, <2>3, <3>1, SMTT(30)
      <3> QED BY <3>2
    <2> QED BY <2>2, <2>3
  <1>8. /\ DOMAIN walk = 1 .. N /\ N \in Nat
        /\ \A i \in 1 .. N : walk[i] \in pairs
        /\ \A i, j \in 1 .. N : i < j => KeyLess(code[walk[i]], code[walk[j]])
    BY <1>5, SMTT(30) DEF Visits
  <1> HIDE DEF N
  <1>9. ASSUME NEW i \in 1 .. N, NEW j \in 1 .. N, i < j
        PROVE  \/ a[walk[i][1]] < a[walk[j][1]]
               \/ a[walk[i][1]] = a[walk[j][1]] /\ b[walk[i][2]] < b[walk[j][2]]
    <2>1. KeyLess(code[walk[i]], code[walk[j]]) /\ walk[i] \in pairs /\ walk[j] \in pairs
      BY <1>8, <1>9, SMTT(30)
    <2>2. KeyLess(<<a[walk[i][1]], b[walk[i][2]]>>, <<a[walk[j][1]], b[walk[j][2]]>>)
      BY <1>2, <2>1, SMTT(30)
    <2> QED BY <1>1, <1>7, <2>1, <2>2, SMTT(30)
  <1>10. \A i \in 1 .. N : walk[i][1] \in A /\ a[walk[i][1]] \in Nat /\ b[walk[i][2]] \in Nat
    BY <1>1, <1>8, SMTT(30)
  <1>11. ASSUME NEW i \in 1 .. N, NEW j \in 1 .. N, i < j, walk[i][1] = walk[j][1]
         PROVE  b[walk[i][2]] < b[walk[j][2]]
    <2>1. ~ a[walk[i][1]] < a[walk[j][1]]
      BY <1>10, <1>11, SMTT(30)
    <2> QED BY <1>9, <1>11, <2>1, SMTT(30)
  <1>12. ASSUME NEW i \in 1 .. N, NEW j \in 1 .. N, NEW k \in 1 .. N,
                i < j, j < k, walk[i][1] = walk[k][1]
         PROVE  walk[j][1] = walk[i][1]
    <2>1. a[walk[i][1]] <= a[walk[j][1]] /\ a[walk[j][1]] <= a[walk[k][1]]
      BY <1>9, <1>10, <1>12, SMTT(30)
    <2>2. /\ a[walk[i][1]] \in Nat /\ a[walk[j][1]] \in Nat
          /\ a[walk[k][1]] = a[walk[i][1]]
      BY <1>10, <1>12, SMTT(30)
    <2>3. a[walk[j][1]] = a[walk[i][1]]
      BY <2>1, <2>2, SMTT(30)
    <2> QED BY <1>0, <1>10, <2>3, SMTT(30)
  <1>13. Grouped(walk)
    BY <1>8, <1>12 DEF Grouped
  <1> QED BY <1>6, <1>8, <1>11, <1>13, Zenon DEF walk, code, PairsVisited

-----------------------------------------------------------------------------
(***************************************************************************)
(* Words                                                                   *)
(***************************************************************************)

\* Division with remainder.
LEMMA DivMod ==
    ASSUME NEW a \in Nat, NEW K \in Nat \ {0}
    PROVE  a \div K \in Nat /\ a % K \in 0 .. K - 1 /\ a = K * (a \div K) + (a % K)
  OBVIOUS

\* Multiples grow.
LEMMA Multiples ==
    ASSUME NEW K \in Nat, NEW x \in Nat, NEW y \in Nat, x <= y
    PROVE  K * x \in Nat /\ K * y \in Nat /\ K * x <= K * y
  <1> DEFINE d == y - x
  <1>1. d \in Nat /\ y = x + d
    OBVIOUS
  <1> HIDE DEF d
  <1>2. K * d \in Nat /\ K * x \in Nat
    BY <1>1
  <1>3. K * y = K * x + K * d
    BY <1>1
  <1> QED BY <1>2, <1>3

\* Where the i-th of L ids is: in which word, and at which place of it.
LEMMA WordOfId ==
    ASSUME NEW K \in Nat \ {0}, NEW L \in Nat, NEW i \in 1 .. L
    PROVE  LET words == (L + K - 1) \div K
               word == (i - 1) \div K
               place == ((i - 1) % K) + 1
           IN  /\ words \in Nat /\ word \in 0 .. words - 1
               /\ place \in 1 .. K /\ word * K \in Nat /\ word * K + place = i
               /\ (word + 1) * K \in Nat /\ i <= (word + 1) * K
  <1> DEFINE words == (L + K - 1) \div K
             word == (i - 1) \div K
             left == (i - 1) % K
             rest == (L + K - 1) % K
  <1>1. i - 1 \in Nat /\ L + K - 1 \in Nat
    OBVIOUS
  <1>2. word \in Nat /\ left \in 0 .. K - 1 /\ i - 1 = K * word + left
    BY <1>1, DivMod, Zenon
  <1>3. words \in Nat /\ rest \in 0 .. K - 1 /\ L + K - 1 = K * words + rest
    BY <1>1, DivMod, Zenon
  <1> HIDE DEF words, word, left, rest
  <1>4. K * word \in Nat /\ K * words \in Nat
    BY <1>2, <1>3
  <1>5. ~ words <= word
    <2> SUFFICES ASSUME words <= word PROVE FALSE
      OBVIOUS
    <2>1. K * words <= K * word
      BY <1>2, <1>3, Multiples
    <2> QED BY <1>2, <1>3, <1>4, <2>1
  <1>6. word * K = K * word /\ (word + 1) * K = K * word + K
    BY <1>2
  <1>7. word \in 0 .. words - 1
    BY <1>2, <1>3, <1>5, SMTT(30)
  <1>8. left + 1 \in 1 .. K /\ K * word + (left + 1) = i /\ i <= K * word + K
    BY <1>2, <1>4
  <1>9. /\ words \in Nat /\ word \in 0 .. words - 1
        /\ left + 1 \in 1 .. K /\ word * K \in Nat /\ word * K + (left + 1) = i
        /\ (word + 1) * K \in Nat /\ i <= (word + 1) * K
    BY <1>3, <1>4, <1>6, <1>7, <1>8, SMTT(30)
  <1> QED BY <1>9 DEF words, word, left

\* The smaller of two numbers.
LEMMA MinOfTwo ==
    ASSUME NEW a \in Nat, NEW b \in Nat
    PROVE  Min({a, b}) = IF a <= b THEN a ELSE b
  <1> DEFINE m == IF a <= b THEN a ELSE b
  <1>1. m \in {a, b} /\ \A x \in {a, b} : m <= x
    OBVIOUS
  <1>2. \A x \in {a, b} : (\A y \in {a, b} : x <= y) => x = m
    OBVIOUS
  <1> HIDE DEF m
  <1>3. (CHOOSE x \in {a, b} : \A y \in {a, b} : x <= y) = m
    BY <1>1, <1>2
  <1> QED BY <1>3 DEF Min, m

-----------------------------------------------------------------------------
(***************************************************************************)
(* A list of ids                                                           *)
(***************************************************************************)

Words(list) == (Len(list) + IdsPerWord - 1) \div IdsPerWord

\* The ids of a word.
WordIds(list, w) ==
    SubSeq(list, (w - 1) * IdsPerWord + 1, Min({w * IdsPerWord, Len(list)}))

\* What is written for a list.
IdsOut(table, key, list) ==
    {Write(<<table, key>>, Word(Len(list)))} \cup
       {Write(<<table, key, w - 1>>, Packed(WordIds(list, w))) : w \in 1 .. Words(list)}

\* Each slot once.
LEMMA IdsEmitted ==
    ASSUME NEW table, NEW key, NEW list, Len(list) \in Nat
    PROVE  Emits(idsWrites(table, key, list), IdsOut(table, key, list))
  <1> DEFINE N == Words(list)
             word(w) == Write(<<table, key, w - 1>>, Packed(WordIds(list, w)))
             s == <<Write(<<table, key>>, Word(Len(list)))>>
             t == [w \in 1 .. N |-> word(w)]
  <1>1. N \in Nat
    <2>1. Len(list) + IdsPerWord - 1 \in Nat /\ IdsPerWord \in Nat \ {0}
      BY LayoutAssumption
    <2> QED BY <2>1, DivMod, Zenon DEF Words
  <1>2. idsWrites(table, key, list) = s \o t
    BY DEF idsWrites, Words, WordIds
  <1> HIDE DEF N
  <1>3. \A w \in 1 .. N : t[w].slot = <<table, key, w - 1>>
    BY DEF Write
  <1>4. \A v, w \in Int : <<table, key, v - 1>> = <<table, key, w - 1>> => v = w
    OBVIOUS
  <1>5. Emits(t, {t[w] : w \in 1 .. N})
    <2>1. \A v, w \in 1 .. N : t[v].slot = t[w].slot => v = w
      BY <1>1, <1>3, <1>4
    <2>2. t = [w \in 1 .. N |-> t[w]]
      OBVIOUS
    <2> HIDE DEF t
    <2> QED BY <1>1, <2>1, <2>2, EmitsEach, SMTT(30)
  <1>6. {t[w] : w \in 1 .. N} = {word(w) : w \in 1 .. N}
    OBVIOUS
  <1>7. Emits(s, {Write(<<table, key>>, Word(Len(list)))})
    BY DEF Emits
  <1>8. Apart({Write(<<table, key>>, Word(Len(list)))}, {word(w) : w \in 1 .. N})
    <2>1. \A w \in Int : <<table, key>> # <<table, key, w - 1>>
      OBVIOUS
    <2>2. Write(<<table, key>>, Word(Len(list))).slot = <<table, key>>
      BY DEF Write
    <2>3. \A w \in 1 .. N : word(w).slot = <<table, key, w - 1>>
      BY DEF Write
    <2>4. \A w \in 1 .. N : w \in Int
      BY <1>1, SMTT(30)
    <2> HIDE DEF word
    <2> QED BY <2>1, <2>2, <2>3, <2>4, Zenon DEF Apart
  <1>9. Emits(s \o t, {Write(<<table, key>>, Word(Len(list)))} \cup {word(w) : w \in 1 .. N})
    <2> HIDE DEF s, t, word
    <2> QED BY <1>5, <1>6, <1>7, <1>8, EmitsConcat, Zenon
  <1> QED BY <1>2, <1>9 DEF IdsOut, N

\* The i-th id is read back from its word.
LEMMA IdRead ==
    ASSUME NEW list \in Seq(Nat), NEW i \in 1 .. Len(list)
    PROVE  /\ ((i - 1) \div IdsPerWord) + 1 \in 1 .. Words(list)
           /\ WordIds(list, ((i - 1) \div IdsPerWord) + 1)[((i - 1) % IdsPerWord) + 1] = list[i]
  <1> DEFINE K == IdsPerWord
             L == Len(list)
             word == (i - 1) \div K
             place == ((i - 1) % K) + 1
             first == word * K + 1
             last == Min({(word + 1) * K, L})
  <1>1. K \in Nat \ {0} /\ L \in Nat
    BY LayoutAssumption
  <1>2. /\ Words(list) \in Nat /\ word \in 0 .. Words(list) - 1
        /\ place \in 1 .. K /\ word * K \in Nat /\ word * K + place = i
        /\ (word + 1) * K \in Nat /\ i <= (word + 1) * K
    BY <1>1, WordOfId, Zenon DEF Words
  <1>3. last = IF (word + 1) * K <= L THEN (word + 1) * K ELSE L
    BY <1>1, <1>2, MinOfTwo, SMTT(30)
  <1> HIDE DEF K, word, place
  <1>4. first \in Nat \ {0} /\ last \in Nat /\ last <= L /\ i <= last /\ first + place - 1 = i
    BY <1>1, <1>2, <1>3, SMTT(30)
  <1>5. WordIds(list, word + 1) = SubSeq(list, first, last)
    <2>1. (word + 1) - 1 = word
      BY <1>2
    <2> QED BY <2>1, Zenon DEF WordIds, K
  <1> HIDE DEF first, last
  <1>6. SubSeq(list, first, last)[place] = list[first + place - 1]
    <2>1. place \in 1 .. (last - first) + 1
      BY <1>1, <1>2, <1>4
    <2> QED BY <1>1, <1>4, <2>1
  <1>7. WordIds(list, word + 1)[place] = list[i]
    BY <1>4, <1>5, <1>6, Zenon
  <1>8. word + 1 \in 1 .. Words(list)
    BY <1>2
  <1> QED BY <1>7, <1>8 DEF K, word, place

-----------------------------------------------------------------------------
(***************************************************************************)
(* Walks over pairs                                                        *)
(***************************************************************************)

\* The components of finitely many pairs.
LEMMA FiniteComponents ==
    ASSUME NEW pairs, IsFiniteSet(pairs)
    PROVE  IsFiniteSet({p[1] : p \in pairs}) /\ IsFiniteSet({p[2] : p \in pairs})
  <1> DEFINE f == [p \in pairs |-> p[1]]
             g == [p \in pairs |-> p[2]]
  <1>1. {p[1] : p \in pairs} = {f[p] : p \in pairs} /\ {p[2] : p \in pairs} = {g[p] : p \in pairs}
    OBVIOUS
  <1> HIDE DEF f, g
  <1>2. IsFiniteSet({f[p] : p \in pairs}) /\ IsFiniteSet({g[p] : p \in pairs})
    BY FiniteValues
  <1> QED BY <1>1, <1>2, Zenon

\* Pairs of a number and a string.
LEMMA IdStringsWalked ==
    ASSUME NEW B, NEW pairs \in SUBSET (Nat \X B), IsFiniteSet(pairs)
    PROVE  Lists(WalkIdStrings(pairs), pairs)
  <1> DEFINE S == {p[2] : p \in pairs}
             a == [n \in Nat |-> n]
             b == Position(S)
             code == PairCode(pairs, a, b)
  <1>1. Numbers(b, S)
    BY FiniteComponents, Positions, Zenon
  <1>2. Numbers(a, Nat)
    BY DEF Numbers
  <1>3. pairs \in SUBSET (Nat \X S)
    OBVIOUS
  <1>4. code = [p \in pairs |-> <<p[1], b[p[2]]>>]
    <2>1. \A p \in pairs : a[p[1]] = p[1]
      OBVIOUS
    <2> HIDE DEF a, b
    <2> QED BY <2>1 DEF PairCode
  <1>5. WalkIdStrings(pairs) = Walk(pairs, [p \in pairs |-> <<p[1], b[p[2]]>>])
    BY DEF WalkIdStrings
  <1> HIDE DEF a, b, S
  <1>6. PairsVisited(Walk(pairs, code), pairs, b)
    BY <1>1, <1>2, <1>3, PairsWalked, SMTT(30)
  <1> HIDE DEF code
  <1> QED BY <1>4, <1>5, <1>6 DEF PairsVisited

\* Pairs of a string and a number.
LEMMA StringIdsWalked ==
    ASSUME NEW A, NEW pairs \in SUBSET (A \X Nat), IsFiniteSet(pairs)
    PROVE  LET walk == WalkStringIds(pairs)
           IN  /\ Lists(walk, pairs)
               /\ Grouped(walk)
               /\ \A i, j \in DOMAIN walk :
                     i < j /\ walk[i][1] = walk[j][1] => walk[i][2] < walk[j][2]
  <1> DEFINE S == {p[1] : p \in pairs}
             a == Position(S)
             b == [n \in Nat |-> n]
             code == PairCode(pairs, a, b)
             walk == Walk(pairs, code)
  <1>1. Numbers(a, S)
    BY FiniteComponents, Positions, Zenon
  <1>2. Numbers(b, Nat)
    BY DEF Numbers
  <1>3. pairs \in SUBSET (S \X Nat)
    OBVIOUS
  <1>4. \A p \in pairs : b[p[2]] = p[2]
    OBVIOUS
  <1>5. WalkStringIds(pairs) = Walk(pairs, [p \in pairs |-> <<a[p[1]], p[2]>>])
    BY DEF WalkStringIds
  <1> HIDE DEF a, b, S
  <1>6. WalkStringIds(pairs) = walk
    <2>1. code = [p \in pairs |-> <<a[p[1]], p[2]>>]
      BY <1>4 DEF PairCode
    <2> QED BY <1>5, <2>1
  <1>7. PairsVisited(walk, pairs, b)
    BY <1>1, <1>2, <1>3, PairsWalked, SMTT(30)
  <1> HIDE DEF walk
  <1>8. \A i \in DOMAIN walk : walk[i] \in pairs
    BY <1>7, SMTT(30) DEF PairsVisited, Lists
  <1>9. \A i, j \in DOMAIN walk :
           i < j /\ walk[i][1] = walk[j][1] => walk[i][2] < walk[j][2]
    BY <1>4, <1>7, <1>8, SMTT(30) DEF PairsVisited
  <1> QED BY <1>6, <1>7, <1>9, SMTT(30) DEF PairsVisited

\* Pairs of strings.
LEMMA StringsWalked ==
    ASSUME NEW A, NEW B, NEW pairs \in SUBSET (A \X B), IsFiniteSet(pairs)
    PROVE  Lists(WalkStrings(pairs), pairs) /\ Grouped(WalkStrings(pairs))
  <1> DEFINE S == {p[1] : p \in pairs}
             T == {p[2] : p \in pairs}
             a == Position(S)
             b == Position(T)
             code == PairCode(pairs, a, b)
             walk == Walk(pairs, code)
  <1>1. Numbers(a, S)
    BY FiniteComponents, Positions, Zenon
  <1>2. Numbers(b, T)
    BY FiniteComponents, Positions, Zenon
  <1>3. pairs \in SUBSET (S \X T)
    OBVIOUS
  <1>4. WalkStrings(pairs) = walk
    BY DEF WalkStrings, PairCode
  <1> HIDE DEF a, b, S, T
  <1>5. PairsVisited(walk, pairs, b)
    BY <1>1, <1>2, <1>3, PairsWalked, SMTT(30)
  <1> HIDE DEF walk
  <1> QED BY <1>4, <1>5, SMTT(30) DEF PairsVisited

-----------------------------------------------------------------------------
(***************************************************************************)
(* The ids of a name                                                       *)
(***************************************************************************)

\* The map of names, id by id.
LEMMA ByNameSteps ==
    ASSUME NEW ids \in Seq(Nat)
    PROVE  /\ ByName(ids)[0] = EmptyMap
           /\ \A n \in 1 .. Len(ids) : ByName(ids)[n] = appendName(ByName(ids)[n - 1], ids[n])
  <1> DEFINE N == Len(ids)
             Names == {NameOf[ids[i]] : i \in 1 .. N}
             Maps == UNION {[D -> Seq(Nat)] : D \in SUBSET Names}
             step == [p \in Maps \X (1 .. N) |-> appendName(p[1], ids[p[2]])]
             byName == ByName(ids)
             Op(x, n) == appendName(x, ids[n])
  <1>1. N \in Nat /\ \A n \in 1 .. N : ids[n] \in Nat
    OBVIOUS
  <1>2. EmptyMap \in Maps
    <2>1. EmptyMap \in [{} -> Seq(Nat)] /\ {} \in SUBSET Names
      BY DEF EmptyMap
    <2> QED BY <2>1, Zenon
  <1>3. ASSUME NEW f \in Maps, NEW n \in 1 .. N PROVE Op(f, n) \in Maps
    <2>1. PICK D \in SUBSET Names : f \in [D -> Seq(Nat)]
      BY Zenon
    <2> DEFINE name == NameOf[ids[n]]
               list == Append(IF name \in DOMAIN f THEN f[name] ELSE <<>>, ids[n])
    <2>2. list \in Seq(Nat)
      <3>1. (IF name \in DOMAIN f THEN f[name] ELSE <<>>) \in Seq(Nat)
        BY <2>1
      <3> QED BY <1>1, <3>1
    <2>3. D \cup {name} \in SUBSET Names
      OBVIOUS
    <2>4. Op(f, n) = [k \in DOMAIN f \cup {name} |-> IF k = name THEN list ELSE f[k]]
      BY DEF appendName, Put
    <2> HIDE DEF name, list
    <2>5. Op(f, n) \in [D \cup {name} -> Seq(Nat)]
      <3> HIDE DEF Op
      <3> QED BY <2>1, <2>2, <2>4
    <2> HIDE DEF Op, Names
    <2> QED BY <2>3, <2>5, Zenon
  <1>4. step \in [Maps \X (1 .. N) -> Maps]
    <2> HIDE DEF Maps, N
    <2> QED BY <1>3
  <1>5. PICK f : Recurs(f, N, Maps, EmptyMap, step)
    <2> HIDE DEF N, step, Maps
    <2> QED BY <1>1, <1>2, <1>4, Iterates, Zenon
  <1>6. \A n \in 1 .. N : f[n] = Op(f[n - 1], n)
    <2> HIDE DEF N, Maps, Op
    <2> SUFFICES ASSUME NEW n \in 1 .. N PROVE f[n] = Op(f[n - 1], n)
      OBVIOUS
    <2>1. f[n] = step[<<f[n - 1], n>>] /\ f[n - 1] \in Maps
      <3> HIDE DEF step
      <3> QED BY <1>1, <1>5, RecursStep
    <2>2. \A x \in Maps : step[<<x, n>>] = Op(x, n)
      BY DEF Op
    <2> HIDE DEF step
    <2> QED BY <2>1, <2>2
  <1>7. f = [n \in 0 .. N |-> IF n = 0 THEN EmptyMap ELSE Op(f[n - 1], n)]
    <2> HIDE DEF N, Op, Maps, step
    <2> QED BY <1>1, <1>5, <1>6 DEF Recurs
  <1>8. byName = [n \in 0 .. N |-> IF n = 0 THEN EmptyMap ELSE Op(byName[n - 1], n)]
    BY <1>7, Zenon DEF ByName
  <1> HIDE DEF byName
  <1>9. byName[0] = EmptyMap /\ \A n \in 1 .. N : byName[n] = Op(byName[n - 1], n)
    <2> HIDE DEF N, Op
    <2> QED BY <1>1, <1>8
  <1> QED BY <1>9 DEF byName

\* A sequence over a set is one over any larger set.
LEMMA SeqWider ==
    ASSUME NEW A, NEW B, A \subseteq B, NEW s \in Seq(A)
    PROVE  s \in Seq(B)
  OBVIOUS

\* Walking the registries collects, for each name, the ids of its registries in order.
LEMMA NamesCollected ==
    ASSUME NEW D \in SUBSET Nat, IsFiniteSet(D)
    PROVE  ByName(WalkIds(D))[Len(WalkIds(D))] =
              [name \in {NameOf[id] : id \in D} |-> WalkIds({id \in D : NameOf[id] = name})]
  <1> DEFINE ids == WalkIds(D)
             N == Len(ids)
             byName == ByName(ids)
             Named(n, name) == {ids[i] : i \in {j \in 1 .. n : NameOf[ids[j]] = name}}
             Names(n) == {NameOf[ids[i]] : i \in 1 .. n}
             So(n) == [name \in Names(n) |-> WalkIds(Named(n, name))]
             P == {n \in 0 .. N : byName[n] = So(n)}
  <1>1. Ascends(ids, D)
    BY IdsWalked
  <1>2. /\ N \in Nat /\ ids \in Seq(Nat)
        /\ \A id \in D : \E i \in 1 .. N : ids[i] = id
        /\ \A i \in 1 .. N : ids[i] \in D /\ ids[i] \in Nat
        /\ \A i, j \in 1 .. N : i < j => ids[i] < ids[j]
    <2> HIDE DEF ids
    <2>1. /\ N \in Nat /\ ids \in Seq(D)
          /\ \A id \in D : \E i \in 1 .. N : ids[i] = id
          /\ \A i \in 1 .. N : ids[i] \in D
          /\ \A i, j \in 1 .. N : i < j => ids[i] < ids[j]
      BY <1>1 DEF Ascends
    <2>2. ids \in Seq(Nat)
      BY <2>1, SeqWider, Zenon
    <2> QED BY <2>1, <2>2, SMTT(30)
  <1> HIDE DEF ids
  <1>3. byName[0] = EmptyMap /\ \A n \in 1 .. N : byName[n] = appendName(byName[n - 1], ids[n])
    BY <1>2, ByNameSteps, SMTT(30)
  <1> HIDE DEF N, byName
  <1>4. 0 \in P
    <2>1. Names(0) = {}
      OBVIOUS
    <2>2. So(0) = EmptyMap
      <3> HIDE DEF Names, Named
      <3> QED BY <2>1 DEF EmptyMap
    <2> QED BY <1>2, <1>3, <2>2
  <1>5. ASSUME NEW n \in 1 .. N, n - 1 \in P PROVE n \in P
    <2> DEFINE id == ids[n]
               new == NameOf[id]
               old == byName[n - 1]
    <2>1. old = So(n - 1) /\ n \in 0 .. N
      BY <1>2, <1>5
    <2>2. id \in Nat /\ id \in D /\ 1 .. n = (1 .. n - 1) \cup {n}
      BY <1>2
    <2>3. Names(n) = Names(n - 1) \cup {new}
      BY <2>2, Zenon
    <2>4. Named(n, new) = Named(n - 1, new) \cup {id}
      BY <2>2
    <2>5. \A name : name # new => Named(n, name) = Named(n - 1, name)
      BY <2>2
    <2>6. Named(n - 1, new) \in SUBSET D /\ \A x \in Named(n - 1, new) : x < id
      <3>1. \A i \in 1 .. n - 1 : i \in 1 .. N /\ i < n
        BY <1>2
      <3>2. \A i \in 1 .. n - 1 : ids[i] \in D /\ ids[i] < id
        BY <1>2, <3>1, SMTT(30)
      <3> HIDE DEF id
      <3> QED BY <3>2
    <2>7. WalkIds(Named(n, new)) = Append(WalkIds(Named(n - 1, new)), id)
      <3>1. IsFiniteSet(Named(n - 1, new)) /\ Named(n - 1, new) \in SUBSET Nat
        BY <2>6, FS_Subset, Zenon
      <3> HIDE DEF Named, id, new
      <3>2. WalkIds(Named(n - 1, new) \cup {id}) = Append(WalkIds(Named(n - 1, new)), id)
        BY <2>2, <2>6, <3>1, IdsAppended, Zenon
      <3> QED BY <2>4, <3>2, Zenon
    <2>8. (IF new \in DOMAIN old THEN old[new] ELSE <<>>) = WalkIds(Named(n - 1, new))
      <3>1. DOMAIN old = Names(n - 1)
        BY <2>1, SMTT(30)
      <3>2. CASE new \in Names(n - 1)
        <4>1. So(n - 1)[new] = WalkIds(Named(n - 1, new))
          <5> HIDE DEF Named, Names, new
          <5> QED BY <3>2, SMTT(30)
        <4> QED BY <2>1, <3>1, <3>2, <4>1
      <3>3. CASE new \notin Names(n - 1)
        <4>1. Named(n - 1, new) = {}
          BY <3>3
        <4>2. WalkIds(Named(n - 1, new)) = <<>>
          BY <4>1, IdsNone, Zenon
        <4> QED BY <3>1, <3>3, <4>2
      <3> QED BY <3>2, <3>3, SMTT(30)
    <2>9. byName[n] = [name \in DOMAIN old \cup {new} |->
                          IF name = new THEN Append(WalkIds(Named(n - 1, new)), id)
                          ELSE old[name]]
      <3>1. byName[n] = Put(old, new,
                            Append(IF new \in DOMAIN old THEN old[new] ELSE <<>>, id))
        BY <1>3 DEF appendName
      <3>2. byName[n] = Put(old, new, Append(WalkIds(Named(n - 1, new)), id))
        <4> HIDE DEF old, new, id, Named
        <4> QED BY <2>8, <3>1
      <3> HIDE DEF old, new, id, Named
      <3> QED BY <3>2 DEF Put
    <2>10. \A name \in Names(n - 1) : old[name] = WalkIds(Named(n - 1, name))
      <3> HIDE DEF Named, Names, old
      <3> QED BY <2>1, SMTT(30)
    <2>11. DOMAIN old = Names(n - 1)
      BY <2>1
    <2> HIDE DEF Named, Names, old, new, id
    <2>12. byName[n] = So(n)
      BY <2>3, <2>5, <2>7, <2>9, <2>10, <2>11, SMTT(30)
    <2> HIDE DEF So
    <2> QED BY <2>1, <2>12, SMTT(30)
  <1>6. N \in P
    <2> HIDE DEF P
    <2>1. \A n \in 0 .. N : n \in P
      BY <1>2, <1>4, <1>5, Induct, Zenon
    <2> QED BY <1>2, <2>1
  <1>7. \A name : Named(N, name) = {id \in D : NameOf[id] = name}
    BY <1>2, Zenon
  <1>8. Names(N) = {NameOf[id] : id \in D}
    BY <1>2, Zenon
  <1>9. So(N) = [name \in {NameOf[id] : id \in D} |-> WalkIds({id \in D : NameOf[id] = name})]
    <2> HIDE DEF Named, Names
    <2> QED BY <1>7, <1>8
  <1>10. byName[N] = So(N)
    BY <1>6, SMTT(30)
  <1> QED BY <1>9, <1>10, Zenon DEF byName, N, ids

-----------------------------------------------------------------------------
(***************************************************************************)
(* Groups of pairs with the same first component                           *)
(***************************************************************************)

\* The second components of the pairs with a first one.
Of(pairs, c) == {p[2] : p \in {q \in pairs : q[1] = c}}

\* The first components visited so far, and the second ones of a group.
Firsts(walk, n) == {walk[i][1] : i \in 1 .. n}
Seconds(walk, n, c) == {walk[i][2] : i \in {j \in 1 .. n : walk[j][1] = c}}

\* One more pair.
LEMMA OneMore ==
    ASSUME NEW walk, NEW n \in Nat \ {0}
    PROVE  /\ Firsts(walk, n) = Firsts(walk, n - 1) \cup {walk[n][1]}
           /\ Seconds(walk, n, walk[n][1]) = Seconds(walk, n - 1, walk[n][1]) \cup {walk[n][2]}
           /\ \A c : c # walk[n][1] => Seconds(walk, n, c) = Seconds(walk, n - 1, c)
  <1>1. 1 .. n = (1 .. n - 1) \cup {n}
    OBVIOUS
  <1>2. Firsts(walk, n) = Firsts(walk, n - 1) \cup {walk[n][1]}
    BY <1>1, Zenon DEF Firsts
  <1>3. Seconds(walk, n, walk[n][1]) = Seconds(walk, n - 1, walk[n][1]) \cup {walk[n][2]}
    BY <1>1 DEF Seconds
  <1>4. \A c : c # walk[n][1] => Seconds(walk, n, c) = Seconds(walk, n - 1, c)
    BY <1>1, SMTT(30) DEF Seconds
  <1> QED BY <1>2, <1>3, <1>4

\* In the end all have been visited.
LEMMA AllVisited ==
    ASSUME NEW walk, NEW pairs, Lists(walk, pairs)
    PROVE  /\ Firsts(walk, Len(walk)) = {p[1] : p \in pairs}
           /\ \A c : Seconds(walk, Len(walk), c) = Of(pairs, c)
  <1>1. /\ DOMAIN walk = 1 .. Len(walk)
        /\ \A p \in pairs : \E i \in 1 .. Len(walk) : walk[i] = p
        /\ \A i \in 1 .. Len(walk) : walk[i] \in pairs
    BY SMTT(30) DEF Lists
  <1>2. Firsts(walk, Len(walk)) = {p[1] : p \in pairs}
    BY <1>1 DEF Firsts
  <1>3. \A c : Seconds(walk, Len(walk), c) = Of(pairs, c)
    BY <1>1, SMTT(30) DEF Seconds, Of
  <1> QED BY <1>2, <1>3

\* When the first component changes, the group that ends is complete and the one that
\* begins is new.
LEMMA GroupEnds ==
    ASSUME NEW walk, NEW pairs, Lists(walk, pairs), Grouped(walk),
           NEW n \in 2 .. Len(walk), walk[n][1] # walk[n - 1][1]
    PROVE  /\ walk[n][1] \notin Firsts(walk, n - 1)
           /\ Seconds(walk, n - 1, walk[n - 1][1]) = Of(pairs, walk[n - 1][1])
  <1> DEFINE N == Len(walk)
  <1>1. N \in Nat /\ DOMAIN walk = 1 .. N
    BY SMTT(30) DEF Lists
  <1>2. \A i, j, k \in 1 .. N :
           i < j /\ j < k /\ walk[i][1] = walk[k][1] => walk[j][1] = walk[i][1]
    BY <1>1 DEF Grouped
  <1> HIDE DEF N
  <1>3. n \in 2 .. N /\ n - 1 \in 1 .. N
    BY <1>1, SMTT(30) DEF N
  <1>4. ASSUME NEW i \in 1 .. n - 1 PROVE walk[i][1] # walk[n][1]
    <2>1. i \in 1 .. N /\ n - 1 \in 1 .. N /\ n \in 1 .. N /\ n - 1 < n
      BY <1>1, <1>3
    <2>2. CASE i = n - 1
      BY <2>2, SMTT(30)
    <2>3. CASE i < n - 1
      BY <1>2, <2>1, <2>3, SMTT(30)
    <2> QED BY <2>1, <2>2, <2>3, SMTT(30)
  <1>5. ASSUME NEW k \in 1 .. N, walk[k][1] = walk[n - 1][1] PROVE k \in 1 .. n - 1
    <2> SUFFICES ASSUME k > n - 1 PROVE FALSE
      BY <1>1, <1>3, SMTT(30)
    <2>1. k # n /\ n - 1 \in 1 .. N /\ n \in 1 .. N
      BY <1>1, <1>3, <1>5, SMTT(30)
    <2>2. n - 1 < n /\ n < k
      BY <1>1, <1>3, <2>1
    <2> QED BY <1>2, <1>5, <2>1, <2>2, SMTT(30)
  <1>6. Seconds(walk, n - 1, walk[n - 1][1]) = Seconds(walk, N, walk[n - 1][1])
    <2>1. {j \in 1 .. n - 1 : walk[j][1] = walk[n - 1][1]} =
             {j \in 1 .. N : walk[j][1] = walk[n - 1][1]}
      <3>1. \A j \in 1 .. n - 1 : j \in 1 .. N
        BY <1>1, <1>3, SMTT(30)
      <3> QED BY <1>5, <3>1, Zenon
    <2> QED BY <2>1, Zenon DEF Seconds
  <1>7. Seconds(walk, N, walk[n - 1][1]) = Of(pairs, walk[n - 1][1])
    BY AllVisited DEF N
  <1> QED BY <1>4, <1>6, <1>7, SMTT(30) DEF Firsts
=============================================================================
