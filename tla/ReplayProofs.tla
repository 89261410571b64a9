---------------------------- MODULE ReplayProofs ----------------------------
(***************************************************************************)
(* Facts about the operators of Replay, for every queue.                   *)
(***************************************************************************)
EXTENDS Replay, FiniteSetTheorems, SequenceTheorems, TLAPS

\* The size of an interval.
LEMMA IntervalSize ==
  ASSUME NEW k \in Nat
  PROVE  IsFiniteSet(1 .. k) /\ Cardinality(1 .. k) = k
  BY FS_Interval, SMT

\* Leading counts records of the queue.
LEMMA LeadingType ==
  ASSUME NEW S, NEW q \in Seq(S), NEW n
  PROVE  Leading(q, n) \in 0 .. Len(q)
<1> DEFINE F == {i \in 1 .. Len(q) : \A j \in 1 .. i : q[j].seq <= n}
<1>1. Len(q) \in Nat
  OBVIOUS
<1>2. IsFiniteSet(1 .. Len(q)) /\ Cardinality(1 .. Len(q)) = Len(q)
  BY <1>1, IntervalSize
<1>3. F \subseteq 1 .. Len(q)
  OBVIOUS
<1>4. IsFiniteSet(F) /\ Cardinality(F) <= Cardinality(1 .. Len(q))
  BY <1>2, <1>3, FS_Subset
<1>5. Cardinality(F) \in Nat
  BY <1>4, FS_CardinalityType
<1> QED
  BY <1>1, <1>2, <1>4, <1>5 DEF Leading

\* Dropping acknowledged records (ack, snapshot_from) invents none: every record
\* that is left was in the queue.
LEMMA AfterType ==
  ASSUME NEW S, NEW q \in Seq(S), NEW n
  PROVE  /\ After(q, n) \in Seq(S)
         /\ \A i \in 1 .. Len(After(q, n)) : \E j \in 1 .. Len(q) : After(q, n)[i] = q[j]
<1> DEFINE k == Leading(q, n)
<1>1. k \in 0 .. Len(q) /\ Len(q) \in Nat
  BY LeadingType
<1>2. After(q, n) = SubSeq(q, k + 1, Len(q))
  BY DEF After
<1> HIDE DEF k
<1>3. \A i \in k + 1 .. Len(q) : q[i] \in S
  BY <1>1
<1>4. /\ SubSeq(q, k + 1, Len(q)) \in Seq(S)
      /\ Len(SubSeq(q, k + 1, Len(q))) = IF k + 1 <= Len(q) THEN Len(q) - (k + 1) + 1 ELSE 0
      /\ \A i \in 1 .. Len(q) - (k + 1) + 1 : SubSeq(q, k + 1, Len(q))[i] = q[k + 1 + i - 1]
  <2>1. k + 1 \in Int /\ Len(q) \in Int
    BY <1>1
  <2> QED
    BY <1>3, <2>1, SubSeqProperties
<1>5. ASSUME NEW i \in 1 .. Len(After(q, n))
      PROVE  \E j \in 1 .. Len(q) : After(q, n)[i] = q[j]
  <2>1. i \in 1 .. Len(q) - k
    BY <1>1, <1>2, <1>4
  <2>2. After(q, n)[i] = q[k + i] /\ k + i \in 1 .. Len(q)
    BY <1>1, <1>2, <1>4, <2>1
  <2> QED
    BY <2>2
<1> QED
  BY <1>2, <1>4, <1>5

\* On a queue numbered without a hole from base + 1, dropping the records up to n
\* leaves the ones numbered from n + 1, again without a hole.
LEMMA AfterContiguous ==
  ASSUME NEW S, NEW q \in Seq(S), NEW base \in Nat, NEW n \in base .. base + Len(q),
         \A i \in 1 .. Len(q) : q[i].seq = base + i
  PROVE  /\ Len(After(q, n)) = base + Len(q) - n
         /\ \A i \in 1 .. Len(After(q, n)) : After(q, n)[i].seq = n + i
<1>1. Len(q) \in Nat /\ n \in Nat /\ n - base \in Nat /\ n - base <= Len(q)
  BY LenProperties
<1>2. {i \in 1 .. Len(q) : \A j \in 1 .. i : q[j].seq <= n} = 1 .. n - base
  <2>1. ASSUME NEW i \in 1 .. Len(q)
        PROVE  (\A j \in 1 .. i : q[j].seq <= n) <=> i <= n - base
    <3>1. \A j \in 1 .. i : q[j].seq = base + j
      BY SMTT(40), <1>1
    <3>2. i \in 1 .. i
      OBVIOUS
    <3>3. ASSUME \A j \in 1 .. i : q[j].seq <= n
          PROVE  i <= n - base
      <4>1. q[i].seq <= n /\ q[i].seq = base + i
        BY <3>1, <3>2, <3>3
      <4> QED
        BY <1>1, <4>1
    <3>4. ASSUME i <= n - base, NEW j \in 1 .. i
          PROVE  q[j].seq <= n
      BY <1>1, <3>1, <3>4
    <3> QED
      BY <3>3, <3>4
  <2> QED
    BY <2>1, <1>1
<1>3. Leading(q, n) = n - base
  <2>1. Cardinality(1 .. n - base) = n - base
    BY <1>1, IntervalSize
  <2> QED
    BY <1>2, <2>1 DEF Leading
<1> DEFINE k == n - base
<1>4. After(q, n) = SubSeq(q, k + 1, Len(q))
  BY <1>3 DEF After
<1>5. k \in Nat /\ k <= Len(q)
  BY <1>1
<1> HIDE DEF k
<1>6. /\ Len(SubSeq(q, k + 1, Len(q))) = IF k + 1 <= Len(q) THEN Len(q) - (k + 1) + 1 ELSE 0
      /\ \A i \in 1 .. Len(q) - (k + 1) + 1 : SubSeq(q, k + 1, Len(q))[i] = q[k + 1 + i - 1]
  <2>1. \A i \in k + 1 .. Len(q) : q[i] \in S
    BY <1>1, <1>5
  <2>2. k + 1 \in Int /\ Len(q) \in Int
    BY <1>1, <1>5
  <2> QED
    BY <2>1, <2>2, SubSeqProperties
<1>7. Len(After(q, n)) = Len(q) - k
  BY <1>1, <1>4, <1>5, <1>6
<1>8. ASSUME NEW i \in 1 .. Len(After(q, n))
      PROVE  After(q, n)[i].seq = n + i
  <2>1. i \in 1 .. Len(q) - k
    BY <1>7
  <2>2. After(q, n)[i] = q[k + i] /\ k + i \in 1 .. Len(q)
    BY <1>1, <1>4, <1>5, <1>6, <2>1
  <2>3. q[k + i].seq = base + (k + i)
    BY <2>2
  <2> QED
    BY <1>1, <2>1, <2>2, <2>3 DEF k
<1> QED
  BY <1>1, <1>7, <1>8 DEF k

\* On such a queue, dropping the records up to a number before the first drops none.
LEMMA AfterNone ==
  ASSUME NEW S, NEW q \in Seq(S), NEW base \in Nat, NEW n \in Nat, n <= base,
         \A i \in 1 .. Len(q) : q[i].seq = base + i
  PROVE  After(q, n) = q
<1>1. ASSUME NEW i \in 1 .. Len(q)
      PROVE  ~ \A j \in 1 .. i : q[j].seq <= n
  <2>1. Len(q) \in Nat
    OBVIOUS
  <2>2. 1 \in 1 .. i /\ 1 \in 1 .. Len(q)
    BY <2>1
  <2>3. q[1].seq = base + 1
    BY <2>2
  <2>4. ~(q[1].seq <= n)
    BY <2>3
  <2> QED
    BY <2>2, <2>4
<1>2. {i \in 1 .. Len(q) : \A j \in 1 .. i : q[j].seq <= n} = {}
  BY <1>1
<1>3. Leading(q, n) = 0
  BY <1>2, FS_EmptySet DEF Leading
<1>4. After(q, n) = SubSeq(q, 1, Len(q))
  BY <1>3 DEF After
<1> QED
  BY <1>4, SubSeqFull

-----------------------------------------------------------------------------
(* The byte count.                                                         *)

\* A pair is a byte of the first k records when it names one of them and an
\* offset within its size.
LEMMA BytesMember ==
  ASSUME NEW q, NEW k
  PROVE  Bytes(q, k) = {p \in (1 .. k) \X Nat : p[2] \in 1 .. q[p[1]].size}
<1>1. ASSUME NEW p \in Bytes(q, k)
      PROVE  p \in (1 .. k) \X Nat /\ p[2] \in 1 .. q[p[1]].size
  BY <1>1 DEF Bytes
<1>2. ASSUME NEW p \in (1 .. k) \X Nat, p[2] \in 1 .. q[p[1]].size
      PROVE  p \in Bytes(q, k)
  <2>1. p = << p[1], p[2] >> /\ p[1] \in 1 .. k
    OBVIOUS
  <2>2. p \in {p[1]} \X (1 .. q[p[1]].size)
    BY <1>2, <2>1
  <2> QED
    BY <2>1, <2>2 DEF Bytes
<1> QED
  BY <1>1, <1>2

\* The bytes of a queue are finitely many.
LEMMA BytesFinite ==
  ASSUME NEW q, NEW k \in Nat, \A i \in 1 .. k : q[i].size \in Nat
  PROVE  IsFiniteSet(Bytes(q, k)) /\ SizeOfFirst(q, k) \in Nat
<1> DEFINE Of(i) == {i} \X (1 .. q[i].size)
           T == {Of(i) : i \in 1 .. k}
           f == [i \in 1 .. k |-> Of(i)]
<1>1. IsFiniteSet(1 .. k)
  BY IntervalSize
<1>2. f \in Surjection(1 .. k, T)
  BY DEF Surjection
<1>3. IsFiniteSet(T)
  BY <1>1, <1>2, FS_Surjection
<1>4. \A U \in T : IsFiniteSet(U)
  <2>1. ASSUME NEW i \in 1 .. k
        PROVE  IsFiniteSet(Of(i))
    <3>1. q[i].size \in Nat
      OBVIOUS
    <3>2. IsFiniteSet(1 .. q[i].size)
      BY <3>1, IntervalSize
    <3>3. IsFiniteSet({i})
      BY FS_Singleton
    <3> QED
      BY <3>2, <3>3, FS_Product
  <2> QED
    BY <2>1
<1>5. IsFiniteSet(UNION T)
  BY <1>3, <1>4, FS_UNION
<1>6. IsFiniteSet(Bytes(q, k))
  BY <1>5 DEF Bytes
<1> QED
  BY <1>6, FS_CardinalityType DEF SizeOfFirst

\* Keeping a record adds its size to the byte count (stage).
LEMMA SizeOfAppend ==
  ASSUME NEW S, NEW q \in Seq(S), NEW r \in S, \A s \in S : s.size \in Nat
  PROVE  SizeOfFirst(Append(q, r), Len(q) + 1) = SizeOfFirst(q, Len(q)) + r.size
<1> DEFINE n == Len(q)
           a == Append(q, r)
           New == {n + 1} \X (1 .. r.size)
<1>1. n \in Nat /\ (\A i \in 1 .. n : a[i] = q[i]) /\ a[n + 1] = r
  BY AppendProperties
<1>2. r.size \in Nat /\ \A i \in 1 .. n : q[i].size \in Nat
  BY <1>1
<1> HIDE DEF n, a
<1>3. Bytes(a, n + 1) = Bytes(q, n) \cup New
  <2>1. 1 .. n + 1 = (1 .. n) \cup {n + 1}
    BY <1>1
  <2>2. {{i} \X (1 .. a[i].size) : i \in 1 .. n + 1}
          = {{i} \X (1 .. q[i].size) : i \in 1 .. n} \cup {New}
    BY SMTT(40), <1>1, <2>1
  <2> QED
    BY <2>2 DEF Bytes
<1>4. Bytes(q, n) \cap New = {}
  <2>1. ASSUME NEW p \in Bytes(q, n), p \in New
        PROVE  FALSE
    <3>1. p[1] \in 1 .. n /\ p[1] = n + 1
      BY <2>1, BytesMember
    <3> QED
      BY <1>1, <3>1
  <2> QED
    BY <2>1
<1>5. IsFiniteSet(New) /\ Cardinality(New) = r.size
  <2>1. IsFiniteSet(1 .. r.size) /\ Cardinality(1 .. r.size) = r.size
    BY <1>2, IntervalSize
  <2>2. IsFiniteSet({n + 1}) /\ Cardinality({n + 1}) = 1
    BY FS_Singleton
  <2>3. IsFiniteSet(New) /\ Cardinality(New) = 1 * r.size
    <3> DEFINE S1 == {n + 1}
               T1 == 1 .. r.size
    <3>1. IsFiniteSet(S1) /\ Cardinality(S1) = 1 /\ IsFiniteSet(T1) /\ Cardinality(T1) = r.size
      BY <2>1, <2>2
    <3>2. New = S1 \X T1
      OBVIOUS
    <3> HIDE DEF S1, T1, New
    <3>3. IsFiniteSet(S1 \X T1) /\ Cardinality(S1 \X T1) = Cardinality(S1) * Cardinality(T1)
      BY <3>1, FS_Product, ZenonT(60)
    <3> QED
      BY <3>1, <3>2, <3>3
  <2> QED
    BY <1>2, <2>3
<1>6. IsFiniteSet(Bytes(q, n)) /\ SizeOfFirst(q, n) \in Nat
  BY <1>1, <1>2, BytesFinite
<1>7. Cardinality(Bytes(q, n) \cup New)
        = Cardinality(Bytes(q, n)) + Cardinality(New) - Cardinality(Bytes(q, n) \cap New)
  BY <1>5, <1>6, FS_Union
<1>8. Cardinality(Bytes(q, n) \cap New) = 0
  BY <1>4, FS_EmptySet
<1>9. Cardinality(Bytes(q, n)) \in Nat
  BY <1>6 DEF SizeOfFirst
<1> HIDE DEF New
<1>10. Cardinality(Bytes(a, n + 1)) = Cardinality(Bytes(q, n)) + r.size
  <2> DEFINE x == Cardinality(Bytes(q, n))
             y == r.size
  <2>1. x \in Nat /\ y \in Nat
    BY <1>2, <1>9
  <2>2. Cardinality(Bytes(a, n + 1)) = x + y - 0
    BY <1>3, <1>5, <1>7, <1>8
  <2> HIDE DEF x, y
  <2>3. Cardinality(Bytes(a, n + 1)) = x + y
    BY <2>1, <2>2
  <2> QED
    BY <2>3 DEF x, y
<1> QED
  BY <1>10 DEF SizeOfFirst, n, a

\* The bytes that ack gives back and the bytes of the records it leaves are the
\* bytes the queue had.
LEMMA SizeOfAfter ==
  ASSUME NEW S, NEW q \in Seq(S), NEW m, \A s \in S : s.size \in Nat
  PROVE  SizeOfFirst(q, Len(q))
           = SizeOfFirst(q, Leading(q, m)) + SizeOfFirst(After(q, m), Len(After(q, m)))
<1> DEFINE n == Len(q)
           k == Leading(q, m)
           rest == After(q, m)
           Left == {p \in Bytes(q, n) : p[1] > k}
           g == [p \in Bytes(rest, n - k) |-> << p[1] + k, p[2] >>]
<1>1. n \in Nat /\ k \in 0 .. n /\ n - k \in Nat
  BY LeadingType
<1>2. \A i \in 1 .. n : q[i].size \in Nat
  BY <1>1
<1>3. Len(rest) = n - k /\ \A i \in 1 .. n - k : rest[i] = q[k + i]
  <2>1. rest = SubSeq(q, k + 1, n)
    BY DEF After
  <2>2. \A i \in k + 1 .. n : q[i] \in S
    BY <1>1
  <2>3. k + 1 \in Int /\ n \in Int
    BY <1>1
  <2> HIDE DEF k, n
  <2>4. /\ Len(SubSeq(q, k + 1, n)) = IF k + 1 <= n THEN n - (k + 1) + 1 ELSE 0
        /\ \A i \in 1 .. n - (k + 1) + 1 : SubSeq(q, k + 1, n)[i] = q[k + 1 + i - 1]
    BY <2>2, <2>3, SubSeqProperties
  <2> HIDE DEF rest
  <2>5. \A i \in 1 .. n - k : rest[i] = q[k + 1 + i - 1] /\ k + 1 + i - 1 = k + i
    BY SMTT(40), <1>1, <2>1, <2>4
  <2> QED
    BY <1>1, <2>1, <2>4, <2>5
<1> HIDE DEF n, k, rest
<1>4. \A i \in 1 .. n - k : rest[i].size \in Nat
  <2>1. ASSUME NEW i \in 1 .. n - k PROVE k + i \in 1 .. n
    BY <1>1
  <2> QED
    BY <1>2, <1>3, <2>1
<1>5. /\ IsFiniteSet(Bytes(q, n)) /\ IsFiniteSet(Bytes(q, k)) /\ IsFiniteSet(Bytes(rest, n - k))
      /\ SizeOfFirst(q, k) \in Nat /\ SizeOfFirst(rest, n - k) \in Nat
  <2>1. \A i \in 1 .. k : q[i].size \in Nat
    BY <1>1, <1>2
  <2> QED
    BY <1>1, <1>2, <1>4, <2>1, BytesFinite
<1>6. Bytes(q, n) = Bytes(q, k) \cup Left /\ Bytes(q, k) \cap Left = {}
  <2>1. Bytes(q, n) = {p \in (1 .. n) \X Nat : p[2] \in 1 .. q[p[1]].size}
    BY BytesMember
  <2>2. Bytes(q, k) = {p \in (1 .. k) \X Nat : p[2] \in 1 .. q[p[1]].size}
    BY BytesMember
  <2> QED
    BY <1>1, <2>1, <2>2
<1>7. g \in Bijection(Bytes(rest, n - k), Left)
  <2>1. Bytes(q, n) = {p \in (1 .. n) \X Nat : p[2] \in 1 .. q[p[1]].size}
    BY BytesMember
  <2>2. Bytes(rest, n - k) = {p \in (1 .. n - k) \X Nat : p[2] \in 1 .. rest[p[1]].size}
    BY BytesMember
  <2>3. ASSUME NEW p \in Bytes(rest, n - k)
        PROVE  << p[1] + k, p[2] >> \in Left
    <3>1. p[1] \in 1 .. n - k /\ p[2] \in Nat /\ p[2] \in 1 .. q[k + p[1]].size
      BY <1>3, <2>2
    <3>2. p[1] + k \in 1 .. n /\ p[1] + k > k /\ p[1] + k = k + p[1]
      BY <1>1, <3>1
    <3> QED
      BY <2>1, <3>1, <3>2
  <2>4. ASSUME NEW p \in Bytes(rest, n - k), NEW r \in Bytes(rest, n - k),
               << p[1] + k, p[2] >> = << r[1] + k, r[2] >>
        PROVE  p = r
    <3>1. p[1] + k = r[1] + k /\ p[2] = r[2]
      BY <2>4
    <3>2. p[1] \in Int /\ r[1] \in Int /\ k \in Int
      BY <1>1, <2>2
    <3>3. p[1] = r[1]
      BY <3>1, <3>2
    <3>4. p = << p[1], p[2] >> /\ r = << r[1], r[2] >>
      BY <2>2
    <3> QED
      BY <3>1, <3>3, <3>4
  <2>5. ASSUME NEW r \in Left
        PROVE  \E p \in Bytes(rest, n - k) : << p[1] + k, p[2] >> = r
    <3>1. r[1] \in 1 .. n /\ r[1] > k /\ r[2] \in Nat /\ r[2] \in 1 .. q[r[1]].size
          /\ r = << r[1], r[2] >>
      BY <2>1
    <3>2. r[1] - k \in 1 .. n - k /\ k + (r[1] - k) = r[1] /\ (r[1] - k) + k = r[1]
      BY <1>1, <3>1
    <3>3. rest[r[1] - k] = q[r[1]]
      BY <1>3, <3>2
    <3>4. << r[1] - k, r[2] >> \in Bytes(rest, n - k)
      BY <2>2, <3>1, <3>2, <3>3
    <3> QED
      BY <3>1, <3>2, <3>4
  <2>6. g \in [Bytes(rest, n - k) -> Left]
    BY <2>3
  <2>7. g \in Injection(Bytes(rest, n - k), Left)
    BY <2>4, <2>6 DEF Injection, IsInjective
  <2>8. g \in Surjection(Bytes(rest, n - k), Left)
    BY <2>5, <2>6 DEF Surjection
  <2> QED
    BY <2>7, <2>8 DEF Bijection
<1>8. IsFiniteSet(Left) /\ Cardinality(Left) = Cardinality(Bytes(rest, n - k))
  <2>1. ExistsBijection(Bytes(rest, n - k), Left)
    BY <1>7 DEF ExistsBijection
  <2> QED
    BY <1>5, <2>1, FS_Bijection
<1>9. Cardinality(Bytes(q, k) \cup Left)
        = Cardinality(Bytes(q, k)) + Cardinality(Left) - Cardinality(Bytes(q, k) \cap Left)
  BY <1>5, <1>8, FS_Union
<1>10. Cardinality(Bytes(q, k) \cap Left) = 0
  BY <1>6, FS_EmptySet
<1>11. SizeOfFirst(q, n) = SizeOfFirst(q, k) + SizeOfFirst(rest, n - k)
  <2>1. Cardinality(Bytes(q, k)) \in Nat /\ Cardinality(Bytes(rest, n - k)) \in Nat
    BY <1>5 DEF SizeOfFirst
  <2> HIDE DEF Left, g
  <2>2. Cardinality(Bytes(q, n)) = Cardinality(Bytes(q, k)) + Cardinality(Bytes(rest, n - k))
    BY <1>6, <1>8, <1>9, <1>10, <2>1
  <2> QED
    BY <2>2 DEF SizeOfFirst
<1> QED
  BY <1>3, <1>11 DEF n, k, rest

-----------------------------------------------------------------------------
(* The buffer.                                                             *)

Buffer(S) == [used_bytes : Int, replay_queue : Seq(S), last_acked : Nat]

\* ack returns a buffer that holds only records it held before.
LEMMA AckType ==
  ASSUME NEW S, \A s \in S : s.size \in Nat, NEW buf \in Buffer(S), NEW n \in Nat
  PROVE  /\ Ack(buf, n) \in Buffer(S)
         /\ Ack(buf, n).last_acked = IF n <= buf.last_acked THEN buf.last_acked ELSE n
         /\ \A i \in 1 .. Len(Ack(buf, n).replay_queue) :
              \E j \in 1 .. Len(buf.replay_queue) :
                Ack(buf, n).replay_queue[i] = buf.replay_queue[j]
<1> DEFINE q == buf.replay_queue
<1>0. q \in Seq(S) /\ buf.used_bytes \in Int /\ buf.last_acked \in Nat
  BY DEF Buffer
<1>1. CASE n = 0 \/ n <= buf.last_acked
  <2>1. Ack(buf, n) = buf
    BY <1>1 DEF Ack
  <2> QED
    BY <1>0, <1>1, <2>1
<1>2. CASE ~(n = 0 \/ n <= buf.last_acked)
  <2>1. Ack(buf, n) = [used_bytes |-> buf.used_bytes - SizeOfFirst(q, Leading(q, n)),
                       replay_queue |-> After(q, n), last_acked |-> n]
    BY <1>2 DEF Ack
  <2>2. Leading(q, n) \in 0 .. Len(q) /\ Len(q) \in Nat
    BY <1>0, LeadingType
  <2>3. \A i \in 1 .. Leading(q, n) : q[i].size \in Nat
    <3>1. \A i \in 1 .. Len(q) : q[i] \in S
      BY <1>0
    <3> QED
      BY <2>2, <3>1
  <2>4. SizeOfFirst(q, Leading(q, n)) \in Nat
    BY <2>2, <2>3, BytesFinite
  <2>5. /\ After(q, n) \in Seq(S)
        /\ \A i \in 1 .. Len(After(q, n)) : \E j \in 1 .. Len(q) : After(q, n)[i] = q[j]
    BY <1>0, AfterType
  <2>6. Ack(buf, n) \in Buffer(S)
    BY <1>0, <2>1, <2>4, <2>5 DEF Buffer
  <2>7. Ack(buf, n).last_acked = n /\ Ack(buf, n).replay_queue = After(q, n)
    BY <2>1
  <2> QED
    BY <1>2, <2>5, <2>6, <2>7
<1> QED
  BY <1>1, <1>2
\* ack leaves a buffer without gaps one without gaps that ends at the same number.
LEMMA AckContiguous ==
  ASSUME NEW S, NEW buf \in Buffer(S), NEW n \in Nat,
         n <= buf.last_acked + Len(buf.replay_queue),
         \A i \in 1 .. Len(buf.replay_queue) : buf.replay_queue[i].seq = buf.last_acked + i
  PROVE  LET new == Ack(buf, n)
         IN  /\ new.last_acked + Len(new.replay_queue)
                  = buf.last_acked + Len(buf.replay_queue)
             /\ \A i \in 1 .. Len(new.replay_queue) :
                  new.replay_queue[i].seq = new.last_acked + i
<1> DEFINE q == buf.replay_queue
           a == buf.last_acked
<1>0. q \in Seq(S) /\ a \in Nat /\ Len(q) \in Nat
  BY DEF Buffer
<1>1. CASE n = 0 \/ n <= a
  <2>1. Ack(buf, n) = buf
    BY <1>1 DEF Ack
  <2> QED
    BY <2>1
<1>2. CASE ~(n = 0 \/ n <= a)
  <2>1. Ack(buf, n).last_acked = n /\ Ack(buf, n).replay_queue = After(q, n)
    BY <1>2 DEF Ack
  <2>2. n \in a .. a + Len(q)
    BY <1>0, <1>2
  <2>3. /\ Len(After(q, n)) = a + Len(q) - n
        /\ \A i \in 1 .. Len(After(q, n)) : After(q, n)[i].seq = n + i
    BY <1>0, <2>2, AfterContiguous
  <2> QED
    BY <1>0, <2>1, <2>3
<1> QED
  BY <1>1, <1>2

=============================================================================
