----------------------- MODULE ConflationBlobs_proofs -----------------------
(***************************************************************************)
(* TLAPS proofs about Conflation's blobs, for every limit: the calculators *)
(* agree on the open blob, so that blobs hold their batches, limits are    *)
(* kept, and appending a block never fails.                                *)
(***************************************************************************)
EXTENDS Conflation_proofs, FiniteSetTheorems, WellFoundedInduction

USE ZenonT(30)

(* Traces of a batch and batches of blobs **********************************)

\* A set of numbers that is not empty has a least one.
LEMMA LeastNumber ==
    ASSUME NEW S \in SUBSET Nat, S # {}
    PROVE  \E m \in S : \A k \in S : m <= k
  <1> DEFINE R == {ss \in Nat \X Nat : ss[1] < ss[2]}
  <1>1. IsWellFoundedOn(R, Nat)
    BY NatLessThanWellFounded DEF OpToRel
  <1> HIDE DEF R
  <1>2. PICK m \in S : \A k \in S : <<k, m>> \notin R
    BY <1>1, WFMin
  <1>3. \A k \in S : ~ (k < m)
    BY <1>2 DEF R
  <1> QED
    BY <1>3, SMTT(30)

\* The block of a number.
Numbered(blocks, n) == CHOOSE b \in blocks : b.number = n

\* f sums up the traces of blocks from start to end.
SumsUp(start, end, blocks, f) ==
    f = [n \in start - 1..end |-> IF n < start THEN 0 ELSE f[n - 1] + Numbered(blocks, n).kind.traces]

TracesFrom(start, end, blocks) == (CHOOSE f : SumsUp(start, end, blocks, f))[end]

LEMMA TracesOfIsTracesFrom ==
    ASSUME NEW batch
    PROVE  TracesOf(batch) = TracesFrom(batch.start, batch.end, batch.blocks)
  BY DEF TracesOf, TracesFrom, SumsUp, Numbered

\* The sum is defined for every interval.
LEMMA SumExists ==
    ASSUME NEW start \in Int, NEW end \in Int, start - 1 <= end, NEW blocks
    PROVE  \E f : SumsUp(start, end, blocks, f)
  <1> DEFINE S == {k \in Nat : ~ \E f : SumsUp(start, start - 1 + k, blocks, f)}
  <1>1. S = {}
    <2> SUFFICES ASSUME S # {} PROVE FALSE
      OBVIOUS
    <2>1. S \in SUBSET Nat
      OBVIOUS
    <2> HIDE DEF S
    <2>2. PICK m \in S : \A k \in S : m <= k
      BY <2>1, LeastNumber
    <2>3. m \in Nat /\ ~ \E f : SumsUp(start, start - 1 + m, blocks, f)
      BY DEF S
    <2>4. CASE m = 0
      <3> DEFINE f == [n \in start - 1..start - 1 + m |-> 0]
      <3>1. \A n \in start - 1..start - 1 + m : n < start
        BY <2>4, SMTT(30)
      <3>2. SumsUp(start, start - 1 + m, blocks, f)
        BY <3>1 DEF SumsUp
      <3> QED
        BY <3>2, <2>3
    <2>5. CASE m # 0
      <3> DEFINE top == start - 1 + m
      <3>1. m - 1 \in Nat /\ ~ (m <= m - 1) /\ start - 1 + (m - 1) = top - 1
        BY <2>3, <2>5, SMTT(30)
      <3>2. m - 1 \notin S
        BY <3>1, <2>2
      <3>3. PICK g : SumsUp(start, top - 1, blocks, g)
        <4>1. PICK g : SumsUp(start, start - 1 + (m - 1), blocks, g)
          BY <3>1, <3>2 DEF S
        <4> HIDE DEF top
        <4> QED
          BY <4>1, <3>1
      <3> DEFINE f == [n \in start - 1..top |->
                          IF n < start THEN 0 ELSE g[n - 1] + Numbered(blocks, n).kind.traces]
      <3>4. top \in Int /\ top \notin start - 1..top - 1
        BY <2>3, SMTT(30)
      <3> HIDE DEF top
      <3>5. \A n \in start - 1..top : ~ (n < start) =>
               n - 1 \in start - 1..top - 1 /\ n - 1 \in start - 1..top
        BY <3>4, SMTT(30)
      <3>6. \A n \in start - 1..top - 1 : f[n] = g[n]
        <4>1. TAKE n \in start - 1..top - 1
        <4>2. n \in start - 1..top
          BY <3>4, SMTT(30)
        <4>3. g[n] = IF n < start THEN 0 ELSE g[n - 1] + Numbered(blocks, n).kind.traces
          BY <3>3 DEF SumsUp
        <4> QED
          BY <4>2, <4>3
      <3> DEFINE h == [n \in start - 1..top |->
                          IF n < start THEN 0 ELSE f[n - 1] + Numbered(blocks, n).kind.traces]
      <3>7. ASSUME NEW n \in start - 1..top PROVE f[n] = h[n]
        <4>1. CASE n < start
          BY <4>1
        <4>2. CASE ~ (n < start)
          <5>1. f[n - 1] = g[n - 1]
            BY <4>2, <3>5, <3>6
          <5> HIDE DEF f
          <5>2. h[n] = f[n - 1] + Numbered(blocks, n).kind.traces
            BY <4>2
          <5> USE DEF f
          <5>3. f[n] = g[n - 1] + Numbered(blocks, n).kind.traces
            BY <4>2
          <5> HIDE DEF f, h
          <5> QED
            BY <5>1, <5>2, <5>3
        <4> QED
          BY <4>1, <4>2
      <3>8. f = h
        BY <3>7
      <3>9. SumsUp(start, top, blocks, f)
        BY <3>8 DEF SumsUp
      <3> QED
        BY <3>9, <2>3 DEF top
    <2> QED
      BY <2>4, <2>5
  <1>2. end - start + 1 \in Nat /\ start - 1 + (end - start + 1) = end
    BY SMTT(30)
  <1>3. \E f : SumsUp(start, start - 1 + (end - start + 1), blocks, f)
    BY <1>1, <1>2
  <1> QED
    BY <1>2, <1>3

\* The traces of an empty batch.
LEMMA NoTraces ==
    ASSUME NEW start \in Int, NEW blocks
    PROVE  TracesFrom(start, start - 1, blocks) = 0
  <1>1. start - 1 \in Int /\ start - 1 <= start - 1 /\ start - 1 \in start - 1..start - 1 /\ start - 1 < start
    BY SMTT(30)
  <1>2. PICK g : SumsUp(start, start - 1, blocks, g)
    BY <1>1, SumExists
  <1> DEFINE f == CHOOSE h : SumsUp(start, start - 1, blocks, h)
  <1>3. SumsUp(start, start - 1, blocks, f)
    BY <1>2
  <1>4. TracesFrom(start, start - 1, blocks) = f[start - 1]
    BY DEF TracesFrom
  <1> HIDE DEF f
  <1>5. f[start - 1] = 0
    BY <1>1, <1>3 DEF SumsUp
  <1> QED
    BY <1>4, <1>5

\* A block at the end of a batch adds its traces.
LEMMA OneMoreBlock ==
    ASSUME NEW start \in Int, NEW end \in Int, start - 1 <= end, NEW blocks, NEW more,
           \A n \in start..end : Numbered(more, n) = Numbered(blocks, n)
    PROVE  TracesFrom(start, end + 1, more) =
               TracesFrom(start, end, blocks) + Numbered(more, end + 1).kind.traces
  <1>1. end + 1 \in Int /\ start - 1 <= end + 1
    BY SMTT(30)
  <1>2. PICK f0 : SumsUp(start, end, blocks, f0)
    BY SumExists
  <1>3. PICK g0 : SumsUp(start, end + 1, more, g0)
    BY <1>1, SumExists
  <1> DEFINE f == CHOOSE h : SumsUp(start, end, blocks, h)
             g == CHOOSE h : SumsUp(start, end + 1, more, h)
  <1>4. SumsUp(start, end, blocks, f) /\ SumsUp(start, end + 1, more, g)
    BY <1>2, <1>3
  <1>5. TracesFrom(start, end, blocks) = f[end] /\ TracesFrom(start, end + 1, more) = g[end + 1]
    BY DEF TracesFrom
  <1> HIDE DEF f, g
  <1>6. /\ \A n \in start - 1..end :
              f[n] = IF n < start THEN 0 ELSE f[n - 1] + Numbered(blocks, n).kind.traces
        /\ \A n \in start - 1..end + 1 :
              g[n] = IF n < start THEN 0 ELSE g[n - 1] + Numbered(more, n).kind.traces
    BY <1>4 DEF SumsUp
  <1> DEFINE S == {k \in Nat : start - 1 + k <= end /\ f[start - 1 + k] # g[start - 1 + k]}
  <1>7. S = {}
    <2> SUFFICES ASSUME S # {} PROVE FALSE
      OBVIOUS
    <2>1. S \in SUBSET Nat
      OBVIOUS
    <2> HIDE DEF S
    <2>2. PICK m \in S : \A k \in S : m <= k
      BY <2>1, LeastNumber
    <2> DEFINE n == start - 1 + m
    <2>3. m \in Nat /\ n <= end /\ f[n] # g[n]
      BY <2>2 DEF S
    <2>4. n \in start - 1..end /\ n \in start - 1..end + 1 /\ n \in Int
      BY <2>3, SMTT(30)
    <2>5. CASE n < start
      <3>1. f[n] = 0 /\ g[n] = 0
        BY <2>4, <2>5, <1>6
      <3> QED
        BY <3>1, <2>3
    <2>6. CASE ~ (n < start)
      <3>1. m - 1 \in Nat /\ start - 1 + (m - 1) = n - 1 /\ n - 1 <= end /\ ~ (m <= m - 1)
            /\ n \in start..end
        BY <2>3, <2>4, <2>6, SMTT(30)
      <3>2. f[n - 1] = g[n - 1]
        <4>1. m - 1 \notin S
          BY <3>1, <2>2
        <4> QED
          BY <3>1, <4>1 DEF S
      <3>3. /\ f[n] = f[n - 1] + Numbered(blocks, n).kind.traces
            /\ g[n] = g[n - 1] + Numbered(more, n).kind.traces
        BY <2>4, <2>6, <1>6
      <3>4. Numbered(more, n) = Numbered(blocks, n)
        BY <3>1
      <3> HIDE DEF n
      <3> QED
        BY <3>2, <3>3, <3>4, <2>3
    <2> QED
      BY <2>5, <2>6
  <1>8. /\ end - start + 1 \in Nat /\ start - 1 + (end - start + 1) = end /\ end <= end
        /\ end + 1 \in start - 1..end + 1 /\ ~ (end + 1 < start) /\ (end + 1) - 1 = end
    BY SMTT(30)
  <1>9. f[end] = g[end]
    <2>1. end - start + 1 \notin S
      BY <1>7
    <2> QED
      BY <2>1, <1>8
  <1>10. g[end + 1] = g[end] + Numbered(more, end + 1).kind.traces
    <2> DEFINE top == end + 1
    <2>1. top \in start - 1..end + 1 /\ ~ (top < start) /\ top - 1 = end
      BY <1>8
    <2> HIDE DEF top
    <2>2. g[top] = g[top - 1] + Numbered(more, top).kind.traces
      BY <2>1, <1>6
    <2> QED
      BY <2>1, <2>2 DEF top
  <1> QED
    BY <1>5, <1>9, <1>10

\* f puts the batches of blobs one after the other.
Joins(bs, f) ==
    f = [n \in 0..Len(bs) |-> IF n = 0 THEN <<>> ELSE f[n - 1] \o bs[n].batches]

\* They can be put one after the other.
LEMMA JoinExists ==
    ASSUME NEW bs \in Seq(BlobRecord)
    PROVE  \E f : Joins(bs, f)
  <1> DEFINE Up(k, f) == f = [n \in 0..k |-> IF n = 0 THEN <<>> ELSE f[n - 1] \o bs[n].batches]
             S == {k \in Nat : ~ \E f : Up(k, f)}
  <1> HIDE DEF Up
  <1>1. S = {}
    <2> SUFFICES ASSUME S # {} PROVE FALSE
      OBVIOUS
    <2>1. S \in SUBSET Nat
      OBVIOUS
    <2> HIDE DEF S
    <2>2. PICK m \in S : \A k \in S : m <= k
      BY <2>1, LeastNumber
    <2>3. m \in Nat /\ ~ \E f : Up(m, f)
      BY DEF S
    <2>4. CASE m = 0
      <3> DEFINE f == [n \in 0..m |-> <<>>]
      <3>1. \A n \in 0..m : n = 0
        BY <2>4, SMTT(30)
      <3>2. Up(m, f)
        BY <3>1 DEF Up
      <3> QED
        BY <3>2, <2>3
    <2>5. CASE m # 0
      <3>1. m - 1 \in Nat /\ ~ (m <= m - 1)
        BY <2>3, <2>5, SMTT(30)
      <3>2. m - 1 \notin S
        BY <3>1, <2>2
      <3>3. PICK g : Up(m - 1, g)
        BY <3>1, <3>2 DEF S
      <3> DEFINE f == [n \in 0..m |-> IF n = 0 THEN <<>> ELSE g[n - 1] \o bs[n].batches]
      <3>4. \A n \in 0..m : n # 0 => n - 1 \in 0..m - 1 /\ n - 1 \in 0..m
        BY <2>3, SMTT(30)
      <3>5. \A n \in 0..m - 1 : f[n] = g[n]
        <4>1. TAKE n \in 0..m - 1
        <4>2. n \in 0..m
          BY <2>3, SMTT(30)
        <4>3. g[n] = IF n = 0 THEN <<>> ELSE g[n - 1] \o bs[n].batches
          BY <3>3 DEF Up
        <4> QED
          BY <4>2, <4>3
      <3> DEFINE h == [n \in 0..m |-> IF n = 0 THEN <<>> ELSE f[n - 1] \o bs[n].batches]
      <3>6. ASSUME NEW n \in 0..m PROVE f[n] = h[n]
        <4>1. CASE n = 0
          BY <4>1
        <4>2. CASE n # 0
          <5>1. f[n - 1] = g[n - 1]
            BY <4>2, <3>4, <3>5
          <5>2. f[n] = g[n - 1] \o bs[n].batches
            BY <4>2
          <5> HIDE DEF f
          <5>3. h[n] = f[n - 1] \o bs[n].batches
            BY <4>2
          <5> HIDE DEF h
          <5> QED
            BY <5>1, <5>2, <5>3
        <4> QED
          BY <4>1, <4>2
      <3>7. f = h
        BY <3>6
      <3>8. Up(m, f)
        BY <3>7 DEF Up
      <3> QED
        BY <3>8, <2>3
    <2> QED
      BY <2>4, <2>5
  <1>2. Len(bs) \in Nat
    BY SMTT(30)
  <1>3. PICK f : Up(Len(bs), f)
    BY <1>1, <1>2
  <1> QED
    BY <1>3 DEF Up, Joins

\* Appending to the end of a concatenation.
LEMMA AppendConcat ==
    ASSUME NEW s \in Seq(BatchRecord), NEW u \in Seq(BatchRecord), NEW x \in BatchRecord
    PROVE  /\ Append(s \o u, x) = s \o Append(u, x)
           /\ Append(s \o u, x) = (s \o Append(u, x)) \o <<>>
  <1> DEFINE l == Append(s \o u, x)
             r == s \o Append(u, x)
             k == Len(s) + Len(u) + 1
  <1>1. l \in Seq(BatchRecord) /\ r \in Seq(BatchRecord) /\ r \o <<>> \in Seq(BatchRecord)
    BY SMTT(30)
  <1>2. Len(l) = k /\ Len(r) = k /\ Len(r \o <<>>) = k /\ k \in Nat
    BY SMTT(30)
  <1>3. ASSUME NEW i \in 1..k PROVE l[i] = r[i] /\ (r \o <<>>)[i] = r[i]
    BY SMTT(30)
  <1> HIDE DEF l, r
  <1>4. l = r /\ l = r \o <<>>
    BY <1>1, <1>2, <1>3, SMTT(30)
  <1> QED
    BY <1>4 DEF l, r

\* What the batches of blobs are: a sequence of batches that a further blob continues.
LEMMA OneMoreBlob ==
    ASSUME NEW bs \in Seq(BlobRecord), NEW new \in BlobRecord
    PROVE  /\ BatchesOf(bs) \in Seq(BatchRecord)
           /\ BatchesOf(Append(bs, new)) = BatchesOf(bs) \o new.batches
  <1> DEFINE last == Len(bs)
             more == Append(bs, new)
  <1>1. /\ more \in Seq(BlobRecord) /\ Len(more) = last + 1 /\ last \in Nat
        /\ \A i \in 1..last : more[i] = bs[i] /\ bs[i] \in BlobRecord
        /\ more[last + 1] = new
    BY SMTT(30)
  <1>2. PICK f0 : Joins(bs, f0)
    BY JoinExists
  <1>3. PICK g0 : Joins(more, g0)
    BY <1>1, JoinExists
  <1> DEFINE f == CHOOSE h : Joins(bs, h)
             g == CHOOSE h : Joins(more, h)
  <1>4. Joins(bs, f) /\ Joins(more, g)
    BY <1>2, <1>3
  <1>5. BatchesOf(bs) = f[Len(bs)] /\ BatchesOf(more) = g[Len(more)]
    BY DEF BatchesOf, Joins
  <1> HIDE DEF f, g, more, last
  <1>6. /\ \A n \in 0..last : f[n] = IF n = 0 THEN <<>> ELSE f[n - 1] \o bs[n].batches
        /\ \A n \in 0..last + 1 : g[n] = IF n = 0 THEN <<>> ELSE g[n - 1] \o more[n].batches
    BY <1>1, <1>4 DEF Joins, last
  <1> DEFINE S == {k \in 0..last : ~ (f[k] = g[k] /\ f[k] \in Seq(BatchRecord))}
  <1>7. S = {}
    <2> SUFFICES ASSUME S # {} PROVE FALSE
      OBVIOUS
    <2>1. S \in SUBSET Nat
      BY SMTT(30)
    <2> HIDE DEF S
    <2>2. PICK m \in S : \A k \in S : m <= k
      BY <2>1, LeastNumber
    <2>3. m \in 0..last /\ ~ (f[m] = g[m] /\ f[m] \in Seq(BatchRecord))
      BY <2>2 DEF S
    <2>4. m \in 0..last + 1 /\ m \in Nat
      BY <2>3, <1>1, SMTT(30)
    <2>5. CASE m = 0
      <3>1. f[m] = <<>> /\ g[m] = <<>>
        BY <2>3, <2>4, <2>5, <1>6
      <3>2. <<>> \in Seq(BatchRecord)
        BY SMTT(30)
      <3> QED
        BY <3>1, <3>2, <2>3
    <2>6. CASE m # 0
      <3>1. m - 1 \in 0..last /\ ~ (m <= m - 1) /\ m \in 1..last
        BY <2>3, <2>4, <2>6, <1>1, SMTT(30)
      <3>2. f[m - 1] = g[m - 1] /\ f[m - 1] \in Seq(BatchRecord)
        <4>1. m - 1 \notin S
          BY <3>1, <2>2
        <4> QED
          BY <3>1, <4>1 DEF S
      <3>3. f[m] = f[m - 1] \o bs[m].batches /\ g[m] = g[m - 1] \o more[m].batches
        BY <2>3, <2>4, <2>6, <1>6
      <3>4. more[m] = bs[m] /\ bs[m].batches \in Seq(BatchRecord)
        BY <3>1, <1>1 DEF BlobRecord
      <3>5. f[m] \in Seq(BatchRecord)
        BY <3>2, <3>3, <3>4, SMTT(30)
      <3>6. f[m] = g[m]
        BY <3>2, <3>3, <3>4
      <3> QED
        BY <3>5, <3>6, <2>3
    <2> QED
      BY <2>5, <2>6
  <1>8. last \in 0..last /\ last + 1 \in 0..last + 1 /\ last + 1 # 0 /\ (last + 1) - 1 = last
    BY <1>1, SMTT(30)
  <1>9. f[last] = g[last] /\ f[last] \in Seq(BatchRecord)
    BY <1>7, <1>8
  <1>10. g[last + 1] = g[last] \o more[last + 1].batches
    <2> DEFINE top == last + 1
    <2>1. top \in 0..last + 1 /\ top # 0 /\ top - 1 = last
      BY <1>8
    <2> HIDE DEF top
    <2>2. g[top] = g[top - 1] \o more[top].batches
      BY <2>1, <1>6
    <2> QED
      BY <2>1, <2>2 DEF top
  <1>11. BatchesOf(more) = f[last] \o new.batches
    BY <1>1, <1>5, <1>9, <1>10
  <1> QED
    BY <1>5, <1>9, <1>11 DEF last, more

\* No blobs, no batches.
LEMMA NoBlobs == BatchesOf(<<>>) = <<>>
  <1>1. <<>> \in Seq(BlobRecord) /\ Len(<<>>) = 0 /\ 0 \in 0..0
    BY SMTT(30)
  <1>2. PICK f0 : Joins(<<>>, f0)
    BY <1>1, JoinExists
  <1> DEFINE f == CHOOSE h : Joins(<<>>, h)
  <1>3. Joins(<<>>, f)
    BY <1>2
  <1>4. BatchesOf(<<>>) = f[Len(<<>>)]
    BY DEF BatchesOf, Joins
  <1> HIDE DEF f
  <1>5. f[0] = <<>>
    BY <1>1, <1>3 DEF Joins
  <1> QED
    BY <1>1, <1>4, <1>5

(* Counting ****************************************************************)

\* A sequence that counts the elements of a set.
LEMMA CountedBy ==
    ASSUME NEW S, NEW k \in Nat, NEW s \in [1..k -> S],
           \A i, j \in 1..k : s[i] = s[j] => i = j,
           \A x \in S : \E i \in 1..k : s[i] = x
    PROVE  Cardinality(S) = k
  <1>1. s \in Bijection(1..k, S)
    BY DEF Bijection, Injection, Surjection, IsInjective
  <1> QED
    BY <1>1, FS_CountingElements DEF ExistsBijection

\* A set with one block for every number of an interval.
LEMMA IntervalOfBlocks ==
    ASSUME NEW blocks, NEW start \in Int, NEW end \in Int, start <= end,
           {b.number : b \in blocks} = start..end,
           \A b, c \in blocks : b.number = c.number => b = c
    PROVE  Cardinality(blocks) = end - start + 1
  <1> DEFINE k == end - start + 1
             s == [i \in 1..k |-> Numbered(blocks, start + i - 1)]
  <1>1. k \in Nat
    BY SMTT(30)
  <1>2. \A n \in start..end : Numbered(blocks, n) \in blocks /\ Numbered(blocks, n).number = n
    <2>1. TAKE n \in start..end
    <2>2. PICK b \in blocks : b.number = n
      OBVIOUS
    <2> QED
      BY <2>2 DEF Numbered
  <1>3. \A i \in 1..k : start + i - 1 \in start..end
    BY SMTT(30)
  <1>4. \A n \in start..end : n - start + 1 \in 1..k /\ start + (n - start + 1) - 1 = n
    BY SMTT(30)
  <1>5. \A i, j \in 1..k : start + i - 1 = start + j - 1 => i = j
    BY SMTT(30)
  <1> HIDE DEF k
  <1>6. \A i \in 1..k : s[i] \in blocks /\ s[i].number = start + i - 1
    BY <1>2, <1>3
  <1>7. s \in [1..k -> blocks]
    BY <1>6
  <1>8. \A i, j \in 1..k : s[i] = s[j] => i = j
    <2>1. TAKE i, j \in 1..k
    <2> HIDE DEF s
    <2>2. s[i].number = start + i - 1 /\ s[j].number = start + j - 1
      BY <1>6
    <2> QED
      BY <2>2, <1>5
  <1>9. \A x \in blocks : \E i \in 1..k : s[i] = x
    <2>1. TAKE x \in blocks
    <2> DEFINE i == x.number - start + 1
    <2>2. x.number \in start..end
      OBVIOUS
    <2>3. i \in 1..k /\ start + i - 1 = x.number
      BY <2>2, <1>4
    <2>4. s[i] \in blocks /\ s[i].number = x.number
      BY <2>3, <1>6
    <2> HIDE DEF i, s
    <2> QED
      BY <2>3, <2>4
  <1> HIDE DEF s
  <1>10. Cardinality(blocks) = k
    BY <1>1, <1>7, <1>8, <1>9, CountedBy, SMTT(30)
  <1> QED
    BY <1>10 DEF k

\* The counters that stay when all of them are in closed batches, and when all but the last are.
LEMMA NothingAt ==
    ASSUME NEW s
    PROVE  At(s, {}) = <<>>
  <1>1. Cardinality({}) = 0
    BY FS_EmptySet
  <1>2. ASSUME NEW f \in [1..0 -> {0}] PROVE f = <<>>
    <2>1. f \in Seq({0}) /\ Len(f) = 0
      BY SMTT(30)
    <2> QED
      BY <2>1, SMTT(30)
  <1>3. 1..0 = {}
    BY SMTT(30)
  <1>4. At(s, {}) \in [1..0 -> {0}]
    BY <1>1, <1>3 DEF At
  <1> QED
    BY <1>2, <1>4

LEMMA OneAt ==
    ASSUME NEW s, NEW i \in Int
    PROVE  At(s, {i}) = <<s[i]>>
  <1>1. Cardinality({i}) = 1 /\ {j \in {i} : j <= i} = {i}
    <2>1. i <= i
      BY SMTT(30)
    <2> QED
      BY <2>1, FS_Singleton
  <1>2. (CHOOSE m \in {i} : Cardinality({j \in {i} : j <= m}) = 1) = i
    BY <1>1
  <1>3. \A k \in 1..1 : k = 1
    BY SMTT(30)
  <1>4. At(s, {i}) = [k \in 1..1 |-> s[i]]
    <2>1. \A k \in 1..1 : s[CHOOSE m \in {i} : Cardinality({j \in {i} : j <= m}) = k] = s[i]
      <3>1. TAKE k \in 1..1
      <3>2. k = 1
        BY <1>3
      <3> QED
        BY <1>2, <3>2
    <2> QED
      BY <1>1, <2>1 DEF At
  <1> QED
    BY <1>4, SMTT(30)

(* The calculators *********************************************************)

\* What the invariant says of the calculators, the locks apart.
Calculators ==
    /\ CalculatorTypes
    /\ OpenBlobFollows
    /\ CountersFollow
    /\ CompressorFollows
    /\ OpenBatchFits
    /\ OpenForksAndTargets
    /\ BlobsAreConflated
    /\ BlobsHoldTheirBatches
    /\ LimitsAreKept
    /\ ForksAndTargetsStartBlobs

\* Block numbers, data and traces are numbers.
LEMMA BlockTypes ==
    ASSUME NEW b \in Block
    PROVE  /\ b.number \in Nat /\ b.number \in Int /\ b.kind.traces \in Nat
           /\ b.kind.data \in Nat /\ b.kind.data <= DataLimit
  <1>1. b.number \in 1..MaxBlock /\ b.kind \in BlockKinds
    BY DEF Block
  <1>2. b.kind.data \in 1..DataLimit /\ b.kind.traces \in Nat
    BY <1>1, ConstantsAssumption
  <1> QED
    BY <1>1, <1>2, ConstantsAssumption, SMTT(30)

\* Types that the arithmetic of the calculators needs.
LEMMA CalculatorNumbers ==
    ASSUME BatchIInv, CalculatorTypes
    PROVE  /\ LastProvable \in Int
           /\ inflight.last \in Nat /\ inflight.count \in Nat /\ inflight.traces \in Nat
           /\ inflight.start # None => inflight.start \in Int
           /\ batches \in Seq(BatchRecord) /\ Len(batches) \in Nat
           /\ blobs \in Seq(BlobRecord) /\ Len(blobs) \in Nat
           /\ blob.batches \in Seq(BatchRecord) /\ Len(blob.batches) \in Nat
           /\ blob.counters \in Seq(Block) /\ Len(blob.counters) \in Nat
           /\ compressor.blocks \in Seq(Block) /\ Len(compressor.blocks) \in Nat
           /\ compressor.size \in Nat /\ compressor.size <= DataLimit
           /\ DataLimit \in Nat /\ BatchesLimit \in Nat /\ BlocksLimit \in Nat /\ TracesLimit \in Nat
           /\ BatchOverhead \in Nat /\ BlocksLimit > 0 /\ MaxBlock \in Nat
  <1>1. batches \in Seq(BatchRecord) /\ LastProvable \in Int
    BY LastProvableType DEF BatchIInv, TypeOK
  <1>2. inflight \in [last : 0..MaxBlock, start : 1..MaxBlock \cup {None}, count : Nat, traces : Nat]
    BY DEF BatchIInv, TypeOK
  <1>3. /\ inflight.last \in 0..MaxBlock /\ inflight.count \in Nat /\ inflight.traces \in Nat
        /\ inflight.start # None => inflight.start \in 1..MaxBlock
    BY <1>2
  <1>4. /\ compressor.blocks \in Seq(Block) /\ compressor.size \in 0..DataLimit
        /\ blob.batches \in Seq(BatchRecord) /\ blob.counters \in Seq(Block)
        /\ blobs \in Seq(BlobRecord)
    BY DEF CalculatorTypes
  <1>5. /\ DataLimit \in Nat /\ BatchesLimit \in Nat /\ BlocksLimit \in Nat /\ TracesLimit \in Nat
        /\ BatchOverhead \in Nat /\ BlocksLimit > 0 /\ MaxBlock \in Nat
    BY ConstantsAssumption, SMTT(30)
  <1>6. /\ inflight.last \in Nat
        /\ inflight.start # None => inflight.start \in Int
        /\ compressor.size \in Nat /\ compressor.size <= DataLimit
    BY <1>3, <1>4, <1>5, SMTT(30)
  <1>7. /\ Len(batches) \in Nat /\ Len(blobs) \in Nat /\ Len(blob.batches) \in Nat
        /\ Len(blob.counters) \in Nat /\ Len(compressor.blocks) \in Nat
    BY <1>1, <1>4, SMTT(30)
  <1> QED
    BY <1>1, <1>3, <1>4, <1>5, <1>6, <1>7

\* Batches are records of intervals, and no batch ends after the last one.
LEMMA BatchEnds ==
    ASSUME BatchIInv, NEW i \in DOMAIN batches
    PROVE  /\ batches[i] \in BatchRecord /\ batches[i].start \in Int /\ batches[i].end \in Int
           /\ batches[i].end <= LastProvable
  <1>1. batches \in Seq(BatchRecord)
    BY DEF BatchIInv, TypeOK
  <1>2. DOMAIN batches = 1..Len(batches) /\ Len(batches) \in Nat
    BY <1>1, SMTT(30)
  <1>3. \A j \in DOMAIN batches : batches[j] \in BatchRecord
    BY <1>1, SMTT(30)
  <1>4. \A j \in DOMAIN batches : batches[j].start \in Int /\ batches[j].end \in Int
    <2>1. \A j \in DOMAIN batches : batches[j].start \in 1..MaxBlock /\ batches[j].end \in 1..MaxBlock
      BY <1>3 DEF BatchRecord
    <2> QED
      BY <2>1, ConstantsAssumption, SMTT(30)
  <1> DEFINE last == Len(batches)
             S == {k \in 0..last - 1 : ~ (batches[last - k].end <= LastProvable)}
  <1>5. S = {}
    <2> SUFFICES ASSUME S # {} PROVE FALSE
      OBVIOUS
    <2>1. S \in SUBSET Nat
      BY <1>2, SMTT(30)
    <2> HIDE DEF S
    <2>2. PICK m \in S : \A k \in S : m <= k
      BY <2>1, LeastNumber
    <2>3. m \in 0..last - 1 /\ ~ (batches[last - m].end <= LastProvable)
      BY <2>2 DEF S
    <2>4. CASE m = 0
      <3>1. last - m = last /\ last \in DOMAIN batches /\ batches # <<>>
        BY <2>3, <2>4, <1>1, <1>2, SMTT(30)
      <3>2. LastProvable = batches[last].end
        BY <3>1 DEF LastProvable
      <3>3. batches[last].end <= batches[last].end
        BY <3>1, <1>4, SMTT(30)
      <3> QED
        BY <3>1, <3>2, <3>3, <2>3
    <2>5. CASE m # 0
      <3> DEFINE j == last - m
                 n == j + 1
      <3>1. /\ m - 1 \in 0..last - 1 /\ ~ (m <= m - 1) /\ last - (m - 1) = n /\ n - 1 = j
            /\ j \in DOMAIN batches /\ n \in DOMAIN batches /\ n # 1
        BY <2>3, <2>5, <1>2, SMTT(30)
      <3>2. batches[n].end <= LastProvable
        <4>1. m - 1 \notin S
          BY <3>1, <2>2
        <4> QED
          BY <3>1, <4>1 DEF S
      <3>3. ~ (batches[j].end <= LastProvable)
        BY <2>3
      <3> HIDE DEF j, n
      <3>4. batches[n].start = batches[n - 1].end + 1 /\ batches[n].start <= batches[n].end
        BY <3>1 DEF BatchIInv, BatchesPartitionTheBlocks
      <3>5. LastProvable \in Int
        BY <1>1, LastProvableType
      <3> QED
        BY <3>1, <3>2, <3>3, <3>4, <3>5, <1>4, SMTT(30)
    <2> QED
      BY <2>4, <2>5
  <1>6. last - i \in 0..last - 1 /\ last - (last - i) = i
    BY <1>2, SMTT(30)
  <1>7. last - i \notin S
    BY <1>5
  <1>8. batches[i].end <= LastProvable
    BY <1>6, <1>7
  <1> QED
    BY <1>3, <1>4, <1>8

\* A conflated block is a block, and does not come after the last batch.
LEMMA ConflatedBlocks ==
    ASSUME BatchIInv, NEW b \in Conflated
    PROVE  b \in Block /\ b.number <= LastProvable
  <1>1. PICK i \in DOMAIN batches : b \in batches[i].blocks
    BY DEF Conflated
  <1>2. /\ batches[i] \in BatchRecord /\ batches[i].start \in Int /\ batches[i].end \in Int
        /\ batches[i].end <= LastProvable
    BY BatchEnds
  <1>3. b \in Block
    BY <1>1, <1>2 DEF BatchRecord
  <1>4. b.number \in batches[i].start..batches[i].end
    BY <1>1 DEF BatchIInv, BatchesPartitionTheBlocks
  <1>5. LastProvable \in Int
    BY LastProvableType DEF BatchIInv, TypeOK
  <1> QED
    BY <1>2, <1>3, <1>4, <1>5, SMTT(30)

\* The blocks of the open blob are imported ones.
LEMMA OpenBlobIsImported ==
    ASSUME BatchIInv, OpenBlobFollows
    PROVE  /\ BlocksOf(blob.batches) \subseteq Conflated
           /\ BlocksOf(blob.batches) \cup OpenBlocks \subseteq Imported \cap Block
  <1>1. BlocksOf(blob.batches) \subseteq Conflated
    <2> SUFFICES ASSUME NEW b \in BlocksOf(blob.batches) PROVE b \in Conflated
      OBVIOUS
    <2>1. PICK j \in DOMAIN blob.batches : b \in blob.batches[j].blocks
      BY DEF BlocksOf
    <2>2. PICK i \in DOMAIN batches : blob.batches[j] = batches[i]
      BY DEF OpenBlobFollows
    <2> QED
      BY <2>1, <2>2 DEF Conflated
  <1>2. OpenBlocks \subseteq service.inProgress /\ service.inProgress \subseteq Block
    BY DEF OpenBlocks, BatchIInv, TypeOK
  <1>3. Conflated \subseteq Block
    BY ConflatedBlocks
  <1> QED
    BY <1>1, <1>2, <1>3 DEF Imported

\* Steps that leave the calculators, the open batch and the importing thread's block alone.
LEMMA CalculatorsFrame ==
    ASSUME Calculators, UNCHANGED <<inflight, compressor, blob, targets, batches, blobs>>,
           OpenBlocks' = OpenBlocks, IsImporting' <=> IsImporting, IsAppending' <=> IsAppending,
           IsImporting => importer'.block = importer.block
    PROVE  Calculators'
  <1>1. /\ LastProvable' = LastProvable /\ BlobStart' = BlobStart /\ Conflated' = Conflated
        /\ OpenBatch' = OpenBatch
    BY DEF LastProvable, BlobStart, Conflated, OpenBatch
  <1>2. IsAppending => IsImporting
    BY DEF IsAppending, IsImporting
  <1>3. CalculatorTypes' /\ OpenBlobFollows' /\ CountersFollow' /\ CompressorFollows'
    <2>1. CalculatorTypes'
      BY DEF Calculators, CalculatorTypes
    <2>2. OpenBlobFollows'
      BY <1>1 DEF Calculators, OpenBlobFollows
    <2>3. CountersFollow'
      BY <1>1 DEF Calculators, CountersFollow
    <2>4. CompressorFollows'
      BY <1>1 DEF Calculators, CompressorFollows
    <2> QED
      BY <2>1, <2>2, <2>3, <2>4
  <1>4. OpenBatchFits'
    BY <1>1, <1>2 DEF Calculators, OpenBatchFits, CanAppendBlock, AreTracesOverLimit
  <1>5. OpenForksAndTargets'
    BY <1>1, <1>2 DEF Calculators, OpenForksAndTargets, StartsBlob
  <1>6. BlobsAreConflated' /\ BlobsHoldTheirBatches' /\ LimitsAreKept' /\ ForksAndTargetsStartBlobs'
    <2>1. BlobsAreConflated'
      BY <1>1 DEF Calculators, BlobsAreConflated
    <2>2. BlobsHoldTheirBatches'
      BY DEF Calculators, BlobsHoldTheirBatches
    <2>3. LimitsAreKept'
      BY DEF Calculators, LimitsAreKept
    <2>4. ForksAndTargetsStartBlobs'
      BY SMTT(30) DEF Calculators, ForksAndTargetsStartBlobs, Conflated
    <2> QED
      BY <2>1, <2>2, <2>3, <2>4
  <1> QED
    BY <1>3, <1>4, <1>5, <1>6 DEF Calculators

\* Going on with the queue leaves the lock of the blob to the caller.
LEMMA SendBlocksInOrderBlob ==
    ASSUME NEW queue, NEW last, NEW locks \in [Lock -> Thread \cup {None}],
           SendBlocksInOrder(queue, last, locks)
    PROVE  /\ importer'.pc \notin {"conflate", "reset", "append"}
           /\ owner'["blob"] = locks["blob"]
  BY DEF SendBlocksInOrder, Lock

\* A block that arrives is not one of the open batch: it comes after it.
LEMMA NewBlockCalculators ==
    ASSUME BatchIInv, Calculators, BlobLocking, NewBlock
    PROVE  Calculators' /\ BlobLocking'
  <1>1. /\ importer.pc = "idle" /\ UNCHANGED <<check, inflight, compressor, blob, targets, batches, blobs>>
        /\ \E block \in inTransit :
              /\ service' = [queue |-> service.queue \cup {block},
                             inProgress |-> service.inProgress \cup {block}]
              /\ SendBlocksInOrder(service.queue \cup {block}, inflight.last, owner)
    BY DEF NewBlock, calculatorVars, out
  <1>2. PICK block \in inTransit :
           /\ service' = [queue |-> service.queue \cup {block},
                          inProgress |-> service.inProgress \cup {block}]
           /\ SendBlocksInOrder(service.queue \cup {block}, inflight.last, owner)
    BY <1>1
  <1>3. owner \in [Lock -> Thread \cup {None}]
    BY DEF BatchIInv, TypeOK
  <1>4. importer'.pc \notin {"conflate", "reset", "append"} /\ owner'["blob"] = owner["blob"]
    BY <1>2, <1>3, SendBlocksInOrderBlob
  <1>5. ~ IsImporting /\ ~ IsImporting' /\ ~ IsAppending /\ ~ IsAppending'
    BY <1>1, <1>4 DEF IsImporting, IsAppending
  <1>6. OpenBlocks' = OpenBlocks
    <2>1. block.number > inflight.last
      BY DEF BatchIInv, ServedInOrder
    <2>2. block \in Block
      BY DEF BatchIInv, TypeOK
    <2>3. block.number \in Int /\ inflight.last \in Nat /\ (inflight.start # None => inflight.start \in Int)
      BY <2>2, BlockTypes, CalculatorNumbers DEF Calculators
    <2>4. inflight.start # None => block.number \notin inflight.start..inflight.last
      BY <2>1, <2>3, SMTT(30)
    <2>5. service'.inProgress = service.inProgress \cup {block}
      BY <1>2
    <2> QED
      BY <2>4, <2>5, <1>1 DEF OpenBlocks
  <1>7. Calculators'
    BY <1>1, <1>5, <1>6, CalculatorsFrame
  <1>8. BlobLocking'
    BY <1>1, <1>4, <1>5 DEF BlobLocking
  <1> QED
    BY <1>7, <1>8

\* The block is counted for the blob that is open when it enters the calculator.
LEMMA EnterNewBlockCalculators ==
    ASSUME BatchIInv, Calculators, BlobLocking, EnterNewBlock
    PROVE  Calculators' /\ BlobLocking'
  <1>1. /\ importer.pc = "send" /\ owner["blob"] = None
        /\ owner' = [owner EXCEPT !["blob"] = "importer"]
        /\ UNCHANGED <<check, inflight, compressor, targets, batches, blobs>>
    BY DEF EnterNewBlock, out
  <1>2. PICK block \in NextAvailable(service.queue, inflight.last) :
           /\ service' = [service EXCEPT !.queue = @ \ {block}]
           /\ blob' = [blob EXCEPT !.counters = Append(@, block)]
           /\ importer' = [pc |-> "conflate", block |-> block]
    BY DEF EnterNewBlock
  <1>3. block \in service.queue /\ block.number = inflight.last + 1 /\ block \in Block
    BY <1>2 DEF NextAvailable, BatchIInv, TypeOK
  <1>4. /\ blob \in [batches : Seq(BatchRecord), counters : Seq(Block)]
        /\ service \in [queue : SUBSET Block, inProgress : SUBSET Block]
        /\ owner \in [Lock -> Thread \cup {None}]
    BY DEF Calculators, CalculatorTypes, BatchIInv, TypeOK
  <1>5. /\ blob'.batches = blob.batches /\ blob'.counters = Append(blob.counters, block)
        /\ service'.inProgress = service.inProgress
        /\ importer'.pc = "conflate" /\ importer'.block = block
        /\ owner'["blob"] = "importer"
    BY <1>1, <1>2, <1>4 DEF Lock
  <1>6. ~ IsImporting /\ IsImporting' /\ ~ IsAppending /\ ~ IsAppending'
    BY <1>1, <1>5 DEF IsImporting, IsAppending
  <1>7. BlobLocking'
    <2>1. \A d \in DeadlineChecks : check[d].pc # "blob"
      BY <1>1, ConstantsAssumption DEF BlobLocking
    <2> QED
      BY <2>1, <1>1, <1>5 DEF BlobLocking
  <1>8. /\ OpenBlocks' = OpenBlocks /\ LastProvable' = LastProvable /\ BlobStart' = BlobStart
        /\ Conflated' = Conflated /\ OpenBatch' = OpenBatch
    BY <1>1, <1>5 DEF OpenBlocks, LastProvable, BlobStart, Conflated, OpenBatch
  <1>9. CalculatorTypes'
    <2>1. blob'.counters \in Seq(Block)
      BY <1>3, <1>4, <1>5, SMTT(30)
    <2>2. blob' \in [batches : Seq(BatchRecord), counters : Seq(Block)]
      BY <2>1, <1>2, <1>4, <1>5
    <2> QED
      BY <2>2, <1>1 DEF Calculators, CalculatorTypes
  <1>10. OpenBlobFollows'
    <2>1. OpenBlobFollows /\ blob'.batches = blob.batches /\ inflight' = inflight /\ batches' = batches
      BY <1>1, <1>5 DEF Calculators
    <2>2. inflight.start = None => blob.batches = <<>>
      BY <2>1, <1>6 DEF OpenBlobFollows
    <2> QED
      BY <2>1, <2>2, <1>8 DEF OpenBlobFollows
  <1>11. CountersFollow'
    <2>1. /\ Len(blob.counters) = inflight.last - BlobStart + 1
          /\ \A i \in DOMAIN blob.counters : blob.counters[i].number = BlobStart + i - 1
      BY <1>6 DEF Calculators, CountersFollow
    <2>2. /\ BlobStart \in Int /\ inflight.last \in Int /\ blob.counters \in Seq(Block)
      <3>1. BlobStart \in 1..LastProvable + 1 /\ LastProvable \in Int /\ inflight.last \in Nat
        BY CalculatorNumbers DEF Calculators, OpenBlobFollows
      <3> QED
        BY <3>1, <1>4, SMTT(30)
    <2>3. /\ Len(blob'.counters) = (inflight.last + 1) - BlobStart + 1
          /\ \A i \in DOMAIN blob'.counters : blob'.counters[i].number = BlobStart + i - 1
          /\ blob'.counters[Len(blob'.counters)] = block
      <3>1. /\ DOMAIN blob'.counters = 1..Len(blob.counters) + 1 /\ Len(blob.counters) \in Nat
            /\ Len(blob'.counters) = Len(blob.counters) + 1
            /\ DOMAIN blob.counters = 1..Len(blob.counters)
            /\ \A i \in 1..Len(blob.counters) : blob'.counters[i] = blob.counters[i]
            /\ blob'.counters[Len(blob.counters) + 1] = block
        BY <2>2, <1>3, <1>5, SMTT(30)
      <3>2. ASSUME NEW i \in DOMAIN blob'.counters PROVE blob'.counters[i].number = BlobStart + i - 1
        <4>1. CASE i \in 1..Len(blob.counters)
          BY <3>1, <4>1, <2>1
        <4>2. CASE i = Len(blob.counters) + 1
          <5>1. BlobStart + i - 1 = inflight.last + 1
            BY <4>2, <2>1, <2>2, SMTT(30)
          <5> QED
            BY <3>1, <4>2, <5>1, <1>3
        <4> QED
          BY <3>1, <4>1, <4>2, SMTT(30)
      <3>3. Len(blob'.counters) = (inflight.last + 1) - BlobStart + 1
        BY <3>1, <2>1, <2>2, SMTT(30)
      <3> QED
        BY <3>1, <3>2, <3>3
    <2> QED
      BY <2>3, <1>1, <1>5, <1>6, <1>8 DEF CountersFollow
  <1>12. CompressorFollows'
    BY <1>1, <1>5, <1>6, <1>8 DEF Calculators, CompressorFollows
  <1>13. OpenBatchFits'
    BY <1>1, <1>6, <1>8 DEF Calculators, OpenBatchFits
  <1>14. OpenForksAndTargets'
    BY <1>1, <1>5, <1>6, <1>8 DEF Calculators, OpenForksAndTargets, StartsBlob
  <1>15. BlobsAreConflated' /\ LimitsAreKept'
    BY <1>1, <1>8 DEF Calculators, BlobsAreConflated, LimitsAreKept
  <1>16. BlobsHoldTheirBatches'
    <2>1. BlobsHoldTheirBatches /\ blob'.batches = blob.batches /\ UNCHANGED <<batches, blobs>>
      BY <1>1, <1>5 DEF Calculators
    <2> QED
      BY <2>1 DEF BlobsHoldTheirBatches
  <1>17. ForksAndTargetsStartBlobs'
    BY <1>1, SMTT(30) DEF Calculators, ForksAndTargetsStartBlobs, Conflated
  <1> QED
    BY <1>7, <1>9, <1>10, <1>11, <1>12, <1>13, <1>14, <1>15, <1>16, <1>17 DEF Calculators

\* When the calculators do not trigger.
LEMMA TriggersMean ==
    ASSUME NEW block
    PROVE  /\ "DATA_LIMIT" \notin Triggers(block) => CanAppendBlock(compressor, block)
           /\ "TRACES_LIMIT" \notin Triggers(block) => ~ AreTracesOverLimit(block)
           /\ "BLOCKS_LIMIT" \notin Triggers(block) => ~ IsBlocksLimitReached
           /\ "HARD_FORK" \notin Triggers(block) => ~ block.kind.fork
           /\ "TARGET_BLOCK_NUMBER" \notin Triggers(block) => block.number - 1 \notin targets
  BY SMTT(30) DEF Triggers, Trigger

\* The block under way.
LEMMA BlockUnderWay ==
    ASSUME BatchIInv, IsImporting
    PROVE  /\ importer.block \in service.inProgress /\ importer.block \in Block
           /\ importer.block \in Imported /\ importer.block.number = inflight.last + 1
  BY DEF IsImporting, BatchIInv, ServedInOrder, TypeOK, Imported

\* A block that triggers nothing, or finds no batch open, fits the batch and the blob.
LEMMA PassBlockCalculators ==
    ASSUME BatchIInv, Calculators, BlobLocking, ConflateBlock,
           ~ (Triggers(importer.block) # {} /\ inflight.start # None)
    PROVE  Calculators' /\ BlobLocking'
  <1> DEFINE block == importer.block
  <1>1. /\ importer.pc = "conflate" /\ owner' = [owner EXCEPT !["batch"] = "importer"]
        /\ importer' = [importer EXCEPT !.pc = "append"]
        /\ UNCHANGED <<check, service, inflight, compressor, blob, targets, batches, blobs>>
    BY DEF ConflateBlock, out
  <1>2. /\ owner \in [Lock -> Thread \cup {None}]
        /\ importer \in [pc : {"idle", "send", "conflate", "reset", "append"}, block : Block \cup {None}]
    BY DEF BatchIInv, TypeOK
  <1>3. importer'.pc = "append" /\ importer'.block = block /\ owner'["blob"] = owner["blob"]
    BY <1>1, <1>2 DEF Lock
  <1>4. IsImporting /\ IsImporting' /\ ~ IsAppending /\ IsAppending'
    BY <1>1, <1>3 DEF IsImporting, IsAppending
  <1>5. block \in Block /\ block.kind.data \in Nat /\ block.kind.data <= DataLimit
    BY <1>4, BlockUnderWay, BlockTypes
  <1>6. /\ OpenBlocks' = OpenBlocks /\ LastProvable' = LastProvable /\ BlobStart' = BlobStart
        /\ Conflated' = Conflated /\ OpenBatch' = OpenBatch
    BY <1>1 DEF OpenBlocks, LastProvable, BlobStart, Conflated, OpenBatch
  <1>7. /\ CanAppendBlock(compressor, block) /\ inflight.count < BlocksLimit
        /\ inflight.count > 0 => ~ AreTracesOverLimit(block)
        /\ StartsBlob(block) => inflight.start = None /\ blob.batches = <<>>
    <2>1. CASE inflight.start = None
      <3>1. compressor.size = 0 /\ inflight.count = 0 /\ blob.batches = <<>>
        BY <2>1, <1>4 DEF Calculators, CompressorFollows, OpenBatchFits, OpenBlobFollows
      <3>2. BlocksLimit \in Nat /\ BlocksLimit > 0 /\ DataLimit \in Nat
        BY CalculatorNumbers DEF Calculators
      <3>3. CanAppendBlock(compressor, block) /\ 0 < BlocksLimit /\ ~ (0 > 0)
        BY <3>1, <3>2, <1>5, SMTT(30) DEF CanAppendBlock
      <3> QED
        BY <3>1, <3>3, <2>1
    <2>2. CASE inflight.start # None
      <3>1. Triggers(block) = {}
        BY <2>2
      <3>2. /\ CanAppendBlock(compressor, block) /\ ~ IsBlocksLimitReached
            /\ ~ AreTracesOverLimit(block) /\ ~ StartsBlob(block)
        BY <3>1, TriggersMean DEF StartsBlob
      <3>3. inflight.count < BlocksLimit
        <4>1. inflight.count \in Nat /\ BlocksLimit \in Nat
          BY CalculatorNumbers DEF Calculators
        <4> QED
          BY <4>1, <3>2, SMTT(30) DEF IsBlocksLimitReached
      <3> QED
        BY <3>2, <3>3
    <2> QED
      BY <2>1, <2>2
  <1>8. CalculatorTypes' /\ OpenBlobFollows' /\ CountersFollow' /\ CompressorFollows'
    <2>1. CalculatorTypes' /\ CountersFollow'
      BY <1>1, <1>3, <1>4, <1>6 DEF Calculators, CalculatorTypes, CountersFollow
    <2>2. OpenBlobFollows'
      BY <1>1, <1>4, <1>6 DEF Calculators, OpenBlobFollows
    <2>3. CompressorFollows'
      BY <1>1, <1>4, <1>6 DEF Calculators, CompressorFollows
    <2> QED
      BY <2>1, <2>2, <2>3
  <1>9. OpenBatchFits'
    <2>1. /\ CanAppendBlock(compressor', importer'.block) /\ inflight'.count < BlocksLimit
          /\ inflight'.count > 0 => ~ (inflight'.traces + importer'.block.kind.traces > TracesLimit)
      BY <1>1, <1>3, <1>7 DEF AreTracesOverLimit
    <2> QED
      BY <2>1, <1>1, <1>6 DEF Calculators, OpenBatchFits, AreTracesOverLimit
  <1>10. OpenForksAndTargets'
    <2>1. /\ \A b \in OpenBlocks' : StartsBlob(b)' => b.number = inflight'.start
          /\ \A b \in (BlocksOf(blob.batches) \cup OpenBlocks)' : StartsBlob(b)' => b.number = BlobStart'
      BY <1>1, <1>6 DEF Calculators, OpenForksAndTargets, StartsBlob
    <2>2. StartsBlob(importer.block)' => inflight'.start = None /\ blob'.batches = <<>>
      BY <1>1, <1>3, <1>7, SMTT(30) DEF StartsBlob
    <2> QED
      BY <2>1, <2>2 DEF OpenForksAndTargets
  <1>11. BlobsAreConflated' /\ LimitsAreKept' /\ BlobsHoldTheirBatches'
    <2>1. BlobsAreConflated' /\ LimitsAreKept'
      BY <1>1, <1>6 DEF Calculators, BlobsAreConflated, LimitsAreKept
    <2>2. BlobsHoldTheirBatches'
      BY <1>1 DEF Calculators, BlobsHoldTheirBatches
    <2> QED
      BY <2>1, <2>2
  <1>12. ForksAndTargetsStartBlobs'
    BY <1>1, SMTT(30) DEF Calculators, ForksAndTargetsStartBlobs, Conflated
  <1>13. BlobLocking'
    BY <1>1, <1>3, <1>4 DEF BlobLocking
  <1> QED
    BY <1>8, <1>9, <1>10, <1>11, <1>12, <1>13 DEF Calculators

\* The block becomes the last one of the open batch, or its only one.
LEMMA OpenBlocksAppend ==
    ASSUME BatchIInv, IsImporting, service' = service, inflight.last \in Nat,
           inflight.start # None => inflight.start \in Int /\ inflight.start <= inflight.last,
           inflight'.last = inflight.last + 1, inflight'.start # None,
           inflight'.start = IF inflight.start = None THEN inflight.last + 1 ELSE inflight.start
    PROVE  OpenBlocks' = OpenBlocks \cup {importer.block}
  <1> DEFINE block == importer.block
  <1>1. /\ block \in service.inProgress /\ block.number = inflight.last + 1 /\ block \in Imported
    BY BlockUnderWay
  <1> HIDE DEF block
  <1>2. \A b \in service.inProgress : b.number = inflight.last + 1 => b = block
    BY <1>1 DEF BatchIInv, ImportedOnce, Imported
  <1>3. OpenBlocks' = {b \in service.inProgress : b.number \in inflight'.start..inflight'.last}
    BY DEF OpenBlocks
  <1>4. CASE inflight.start = None
    <2>1. OpenBlocks = {}
      BY <1>4 DEF OpenBlocks
    <2>2. \A n : n \in inflight'.start..inflight'.last <=> n = inflight.last + 1
      BY <1>4, SMTT(30)
    <2>3. OpenBlocks' = {block}
      BY <2>2, <1>1, <1>2, <1>3
    <2> QED
      BY <2>1, <2>3 DEF block
  <1>5. CASE inflight.start # None
    <2>1. \A n : n \in inflight'.start..inflight'.last
                   <=> n \in inflight.start..inflight.last \/ n = inflight.last + 1
      BY <1>5, SMTT(30)
    <2>2. OpenBlocks = {b \in service.inProgress : b.number \in inflight.start..inflight.last}
      BY <1>5 DEF OpenBlocks
    <2>3. \A b : b \in OpenBlocks' <=> b \in OpenBlocks \/ b = block
      BY <2>1, <2>2, <1>1, <1>2, <1>3
    <2> QED
      BY <2>3 DEF block
  <1> QED
    BY <1>4, <1>5

\* The calculators append the block: it fits, so the open batch and blob keep their limits.
LEMMA AppendBlockCalculators ==
    ASSUME BatchIInv, Calculators, BlobLocking, AppendBlock
    PROVE  Calculators' /\ BlobLocking'
  <1> DEFINE block == importer.block
             last == inflight.last
             locks == [owner EXCEPT !["batch"] = None, !["blob"] = None]
  <1>1. /\ importer.pc = "append"
        /\ inflight' = [last   |-> block.number,
                        start  |-> IF inflight.start = None THEN block.number ELSE inflight.start,
                        count  |-> inflight.count + 1,
                        traces |-> inflight.traces + block.kind.traces]
        /\ compressor' = AppendData(compressor, block)
        /\ SendBlocksInOrder(service.queue, block.number, locks)
        /\ UNCHANGED <<service, check, blob, targets, batches, blobs>>
    BY DEF AppendBlock, out
  <1>2. IsImporting /\ IsAppending
    BY <1>1 DEF IsImporting, IsAppending
  <1>3. /\ block \in service.inProgress /\ block \in Block /\ block \in Imported
        /\ block.number = last + 1
    BY <1>2, BlockUnderWay
  <1>4. /\ block.number \in Int /\ block.kind.traces \in Nat /\ block.kind.data \in Nat
    BY <1>3, BlockTypes
  <1>5. /\ last \in Nat /\ inflight.count \in Nat /\ inflight.traces \in Nat /\ LastProvable \in Int
        /\ inflight.start # None => inflight.start \in Int
        /\ compressor.blocks \in Seq(Block) /\ compressor.size \in Nat /\ DataLimit \in Nat
        /\ BlocksLimit \in Nat /\ TracesLimit \in Nat
    BY CalculatorNumbers DEF Calculators
  <1>6. owner'["blob"] = None /\ ~ IsImporting' /\ ~ IsAppending'
    <2>1. owner \in [Lock -> Thread \cup {None}]
      BY DEF BatchIInv, TypeOK
    <2>2. locks \in [Lock -> Thread \cup {None}] /\ locks["blob"] = None
      BY <2>1 DEF Lock
    <2> HIDE DEF locks, block
    <2>3. importer'.pc \notin {"conflate", "reset", "append"} /\ owner'["blob"] = locks["blob"]
      BY <2>2, <1>1, SendBlocksInOrderBlob
    <2> QED
      BY <2>2, <2>3 DEF IsImporting, IsAppending
  <1>7. BlobLocking'
    <2>1. owner["blob"] = "importer"
      BY <1>2 DEF BlobLocking
    <2>2. \A d \in DeadlineChecks : check[d].pc # "blob"
      BY <2>1, ConstantsAssumption DEF BlobLocking
    <2> QED
      BY <2>2, <1>1, <1>6 DEF BlobLocking
  <1> HIDE DEF block, last, locks
  <1>8. /\ inflight'.last = last + 1 /\ inflight'.start # None
        /\ inflight'.start = IF inflight.start = None THEN last + 1 ELSE inflight.start
        /\ inflight'.count = inflight.count + 1
        /\ inflight'.traces = inflight.traces + block.kind.traces
    <2>1. block.number # None
      BY <1>4, ConstantsAssumption
    <2> QED
      BY <2>1, <1>1, <1>3
  <1>9. /\ compressor'.blocks = Append(compressor.blocks, block) /\ ~ compressor'.drained
        /\ compressor'.size = compressor.size + block.kind.data
    BY <1>1 DEF AppendData
  <1>10. /\ LastProvable' = LastProvable /\ BlobStart' = BlobStart /\ Conflated' = Conflated
    BY <1>1 DEF LastProvable, BlobStart, Conflated
  <1>11. /\ IF inflight.start = None THEN last = LastProvable
            ELSE inflight.start = LastProvable + 1 /\ inflight.start <= last
         /\ \A n \in LastProvable + 1..last : \E b \in service.inProgress : b.number = n
    BY DEF BatchIInv, OpenBatchFollows, last
  <1>12. OpenBlocks' = OpenBlocks \cup {block}
    BY <1>1, <1>2, <1>5, <1>8, <1>11, OpenBlocksAppend DEF last, block
  <1>13. /\ CanAppendBlock(compressor, block) /\ inflight.count < BlocksLimit
         /\ inflight.count > 0 => ~ AreTracesOverLimit(block)
         /\ StartsBlob(block) => inflight.start = None /\ blob.batches = <<>>
    BY <1>2 DEF Calculators, OpenBatchFits, OpenForksAndTargets, block
  <1>14. CalculatorTypes'
    <2>1. Append(compressor.blocks, block) \in Seq(Block)
      BY <1>3, <1>5, SMTT(30)
    <2>2. compressor.size + block.kind.data \in 0..DataLimit
      BY <1>4, <1>5, <1>13, SMTT(30) DEF CanAppendBlock
    <2>3. compressor' \in [blocks : Seq(Block), size : 0..DataLimit, drained : BOOLEAN]
      BY <2>1, <2>2, <1>1 DEF AppendData
    <2> QED
      BY <2>3, <1>1 DEF Calculators, CalculatorTypes
  <1>15. OpenBlobFollows'
    BY <1>1, <1>8, <1>10 DEF Calculators, OpenBlobFollows
  <1>16. CountersFollow'
    BY <1>1, <1>2, <1>6, <1>8, <1>10 DEF Calculators, CountersFollow, last
  <1>17. BlobStart \in Int
    <2>1. BlobStart \in 1..LastProvable + 1
      BY DEF Calculators, OpenBlobFollows
    <2> QED
      BY <2>1, <1>5, SMTT(30)
  <1>18. CompressorFollows'
    <2>1. /\ Len(compressor.blocks) = last - BlobStart + 1
          /\ \A j \in DOMAIN compressor.blocks :
                /\ compressor.blocks[j] \in BlocksOf(blob.batches) \cup OpenBlocks
                /\ compressor.blocks[j].number = BlobStart + j - 1
      BY DEF Calculators, CompressorFollows, last
    <2> DEFINE k == Len(compressor.blocks)
    <2>2. /\ k \in Nat /\ DOMAIN compressor.blocks = 1..k /\ DOMAIN compressor'.blocks = 1..k + 1
          /\ Len(compressor'.blocks) = k + 1
          /\ \A j \in 1..k : compressor'.blocks[j] = compressor.blocks[j]
          /\ compressor'.blocks[k + 1] = block
      BY <1>3, <1>5, <1>9, SMTT(30)
    <2> HIDE DEF k
    <2>3. k = last - BlobStart + 1
      BY <2>1 DEF k
    <2>4. k + 1 = (last + 1) - BlobStart + 1 /\ BlobStart + (k + 1) - 1 = last + 1
      BY <2>2, <2>3, <1>5, <1>17, SMTT(30)
    <2>5. ASSUME NEW j \in 1..k + 1
          PROVE  /\ compressor'.blocks[j] \in BlocksOf(blob.batches) \cup OpenBlocks'
                 /\ compressor'.blocks[j].number = BlobStart + j - 1
      <3>1. CASE j \in 1..k
        BY <3>1, <2>1, <2>2, <1>12
      <3>2. CASE j = k + 1
        BY <3>2, <2>2, <2>4, <1>3, <1>12
      <3> QED
        BY <3>1, <3>2, <2>2, SMTT(30)
    <2> QED
      BY <2>2, <2>4, <2>5, <1>1, <1>8, <1>9, <1>10 DEF CompressorFollows
  <1>19. OpenBatchFits'
    <2> DEFINE s == inflight'.start
    <2>1. s \in Int /\ s - 1 <= last /\ s = LastProvable + 1 /\ last + 1 # None
          /\ (inflight.start = None => s - 1 = last /\ last - s + 1 = 0)
      <3>1. last + 1 # None
        BY <1>3, <1>4, ConstantsAssumption
      <3>2. CASE inflight.start = None
        BY <3>1, <3>2, <1>5, <1>8, <1>11, SMTT(30)
      <3>3. CASE inflight.start # None
        BY <3>1, <3>3, <1>5, <1>8, <1>11, SMTT(30)
      <3> QED
        BY <3>2, <3>3
    <2> HIDE DEF s
    <2>2. /\ inflight.count = last - s + 1 /\ inflight.traces = TracesFrom(s, last, OpenBlocks)
          /\ inflight.count > 0 => inflight.start # None
      <3>1. CASE inflight.start = None
        <4>1. inflight.count = 0 /\ inflight.traces = 0
          BY <3>1 DEF Calculators, OpenBatchFits
        <4>2. TracesFrom(s, last, OpenBlocks) = 0
          <5>1. TracesFrom(s, s - 1, OpenBlocks) = 0
            BY <2>1, NoTraces
          <5> QED
            BY <5>1, <3>1, <2>1
        <4>3. ~ (0 > 0)
          BY SMTT(30)
        <4> QED
          BY <4>1, <4>2, <4>3, <3>1, <2>1
      <3>2. CASE inflight.start # None
        <4>1. /\ inflight.count = inflight.last - inflight.start + 1
              /\ inflight.traces = TracesOf(OpenBatch)
          BY <3>2 DEF Calculators, OpenBatchFits
        <4>2. TracesOf(OpenBatch) = TracesFrom(inflight.start, inflight.last, OpenBlocks)
          BY TracesOfIsTracesFrom DEF OpenBatch
        <4>3. s = inflight.start
          BY <3>2, <1>8 DEF s
        <4> QED
          BY <4>1, <4>2, <4>3, <3>2 DEF last
      <3> QED
        BY <3>1, <3>2
    \* The numbered blocks are the same ones.
    <2>3. /\ \A n \in s..last : Numbered(OpenBlocks', n) = Numbered(OpenBlocks, n)
          /\ Numbered(OpenBlocks', last + 1) = block
      <3>1. OpenBlocks' \subseteq Imported
        BY <1>3, <1>12, OpenBlobIsImported DEF Calculators
      <3>2. \A b, c \in OpenBlocks' : b.number = c.number => b = c
        BY <3>1 DEF BatchIInv, ImportedOnce
      <3>3. Numbered(OpenBlocks', last + 1) = block
        <4>1. block \in OpenBlocks' /\ block.number = last + 1
          BY <1>3, <1>12
        <4>2. /\ Numbered(OpenBlocks', last + 1) \in OpenBlocks'
              /\ Numbered(OpenBlocks', last + 1).number = last + 1
          BY <4>1 DEF Numbered
        <4> QED
          BY <4>1, <4>2, <3>2
      <3>4. ASSUME NEW n \in s..last PROVE Numbered(OpenBlocks', n) = Numbered(OpenBlocks, n)
        <4>1. inflight.start # None
          BY <2>1, <1>5, SMTT(30)
        <4>2. s = inflight.start
          BY <4>1, <1>8 DEF s
        <4>3. PICK b \in service.inProgress : b.number = n
          BY <2>1, <1>11
        <4>4. b \in OpenBlocks /\ b \in OpenBlocks'
          BY <4>1, <4>2, <4>3, <1>12 DEF OpenBlocks, last
        <4>5. /\ Numbered(OpenBlocks, n) \in OpenBlocks /\ Numbered(OpenBlocks, n).number = n
              /\ Numbered(OpenBlocks', n) \in OpenBlocks' /\ Numbered(OpenBlocks', n).number = n
          BY <4>3, <4>4 DEF Numbered
        <4> QED
          BY <4>3, <4>4, <4>5, <3>2, <1>12
      <3> QED
        BY <3>3, <3>4
    <2>4. inflight'.traces = TracesOf(OpenBatch)'
      <3>1. TracesFrom(s, last + 1, OpenBlocks') = TracesFrom(s, last, OpenBlocks) + block.kind.traces
        <4>1. last \in Int
          BY <1>5, SMTT(30)
        <4> QED
          BY <4>1, <2>1, <2>3, OneMoreBlock, SMTT(30)
      <3>2. TracesOf(OpenBatch') = TracesFrom(OpenBatch'.start, OpenBatch'.end, OpenBatch'.blocks)
        BY TracesOfIsTracesFrom
      <3>3. OpenBatch'.start = s /\ OpenBatch'.end = last + 1 /\ OpenBatch'.blocks = OpenBlocks'
        BY <1>8 DEF OpenBatch, s
      <3> QED
        BY <3>1, <3>2, <3>3, <2>2, <1>8
    <2>5. /\ inflight'.count = (last + 1) - s + 1 /\ inflight'.count <= BlocksLimit
          /\ inflight'.count > 1 => inflight'.traces <= TracesLimit
      <3>1. inflight'.count = (last + 1) - s + 1 /\ inflight'.count <= BlocksLimit
        BY <2>1, <2>2, <1>5, <1>8, <1>13, SMTT(30)
      <3>2. inflight'.count > 1 => inflight'.traces <= TracesLimit
        BY <1>4, <1>5, <1>8, <1>13, SMTT(30) DEF AreTracesOverLimit
      <3> QED
        BY <3>1, <3>2
    <2> QED
      BY <2>4, <2>5, <1>6, <1>8 DEF OpenBatchFits, s
  <1>20. OpenForksAndTargets'
    <2>1. /\ \A b \in OpenBlocks : StartsBlob(b) => b.number = inflight.start
          /\ \A b \in BlocksOf(blob.batches) \cup OpenBlocks : StartsBlob(b) => b.number = BlobStart
      BY DEF Calculators, OpenForksAndTargets
    <2>2. OpenBlocks # {} => inflight.start # None
      BY DEF OpenBlocks
    <2>3. StartsBlob(block) => block.number = inflight'.start /\ block.number = BlobStart
      <3>1. CASE ~ StartsBlob(block)
        BY <3>1
      <3>2. CASE StartsBlob(block)
        <4>1. inflight.start = None /\ blob.batches = <<>>
          BY <3>2, <1>13
        <4>2. BlobStart = LastProvable + 1 /\ inflight'.start = last + 1 /\ last = LastProvable
          BY <4>1, <1>8, <1>11 DEF BlobStart
        <4> QED
          BY <4>2, <1>3
      <3> QED
        BY <3>1, <3>2
    <2>4. \A b \in OpenBlocks' : StartsBlob(b) => b.number = inflight'.start
      BY <2>1, <2>2, <2>3, <1>8, <1>12
    <2>5. \A b \in BlocksOf(blob.batches) \cup OpenBlocks' : StartsBlob(b) => b.number = BlobStart
      BY <2>1, <2>3, <1>12
    <2>6. \A b : StartsBlob(b)' <=> StartsBlob(b)
      BY <1>1 DEF StartsBlob
    <2> QED
      BY <2>4, <2>5, <2>6, <1>1, <1>6, <1>10 DEF OpenForksAndTargets
  <1>21. BlobsAreConflated' /\ LimitsAreKept' /\ BlobsHoldTheirBatches'
    <2>1. BlobsAreConflated' /\ LimitsAreKept'
      BY <1>1, <1>10 DEF Calculators, BlobsAreConflated, LimitsAreKept
    <2>2. BlobsHoldTheirBatches'
      BY <1>1 DEF Calculators, BlobsHoldTheirBatches
    <2> QED
      BY <2>1, <2>2
  <1>22. ForksAndTargetsStartBlobs'
    BY <1>1, SMTT(30) DEF Calculators, ForksAndTargetsStartBlobs, Conflated
  <1> QED
    BY <1>7, <1>14, <1>15, <1>16, <1>18, <1>19, <1>20, <1>21, <1>22 DEF Calculators

(* Closing a batch *********************************************************)

\* What the compressor holds are the blocks of the open blob, each once.
LEMMA CompressedBlocks ==
    ASSUME BatchIInv, Calculators, inflight.start # None
    PROVE  LET all == BlocksOf(blob.batches) \cup OpenBlocks IN
           /\ {compressor.blocks[j] : j \in DOMAIN compressor.blocks} = all
           /\ Len(compressor.blocks) = Cardinality(all)
           /\ \A b \in all : b.number \in BlobStart..inflight.last
  <1> DEFINE all == BlocksOf(blob.batches) \cup OpenBlocks
             s == compressor.blocks
             k == Len(s)
             last == inflight.last
  <1>1. /\ LastProvable \in Int /\ last \in Nat /\ inflight.start \in Int /\ s \in Seq(Block) /\ k \in Nat
    BY CalculatorNumbers DEF Calculators
  <1>2. inflight.start = LastProvable + 1 /\ inflight.start <= last
    BY DEF BatchIInv, OpenBatchFollows
  <1>3. BlobStart \in Int /\ BlobStart <= LastProvable + 1
    <2>1. BlobStart \in 1..LastProvable + 1
      BY DEF Calculators, OpenBlobFollows
    <2> QED
      BY <2>1, <1>1, SMTT(30)
  <1>4. /\ k = last - BlobStart + 1 /\ DOMAIN s = 1..k /\ s \in [1..k -> Block]
        /\ \A j \in DOMAIN s : s[j] \in all /\ s[j].number = BlobStart + j - 1
    <2>1. DOMAIN s = 1..k /\ s \in [1..k -> Block]
      BY <1>1, SMTT(30)
    <2> QED
      BY <2>1 DEF Calculators, CompressorFollows
  <1>5. all \subseteq Imported \cap Block
    BY OpenBlobIsImported DEF Calculators
  <1>6. \A b, c \in all : b.number = c.number => b = c
    BY <1>5 DEF BatchIInv, ImportedOnce
  <1>7. ASSUME NEW b \in all PROVE b.number \in BlobStart..last
    <2>1. b \in Block /\ b.number \in Int
      BY <1>5, BlockTypes
    <2>2. CASE b \in OpenBlocks
      <3>1. b.number \in inflight.start..last
        BY <2>2 DEF OpenBlocks
      <3> QED
        BY <3>1, <2>1, <1>1, <1>2, <1>3, SMTT(30)
    <2>3. CASE b \in BlocksOf(blob.batches)
      <3>1. PICK j \in DOMAIN blob.batches : b \in blob.batches[j].blocks
        BY <2>3 DEF BlocksOf
      <3>2. PICK i \in DOMAIN batches : blob.batches[j] = batches[i]
        BY DEF Calculators, OpenBlobFollows
      <3>3. BlobStart <= batches[i].start /\ batches[i].end <= LastProvable
        BY <3>2 DEF Calculators, OpenBlobFollows
      <3>4. batches[i].start \in Int /\ batches[i].end \in Int
        BY BatchEnds
      <3>5. b.number \in batches[i].start..batches[i].end
        BY <3>1, <3>2 DEF BatchIInv, BatchesPartitionTheBlocks
      <3> QED
        BY <3>3, <3>4, <3>5, <2>1, <1>1, <1>2, <1>3, SMTT(30)
    <2> QED
      BY <2>2, <2>3
  <1> HIDE DEF all, s, k, last
  <1>8. ASSUME NEW b \in all PROVE \E j \in 1..k : s[j] = b
    <2> DEFINE j == b.number - BlobStart + 1
    <2>1. b.number \in BlobStart..last
      BY <1>7
    <2>2. j \in 1..k /\ BlobStart + j - 1 = b.number
      BY <2>1, <1>1, <1>3, <1>4, SMTT(30)
    <2> HIDE DEF j
    <2>3. s[j] \in all /\ s[j].number = b.number
      BY <2>2, <1>4
    <2>4. s[j] = b
      BY <2>3, <1>6
    <2> QED
      BY <2>2, <2>4
  <1>9. s \in [1..k -> all]
    BY <1>4
  <1>10. \A i, j \in 1..k : s[i] = s[j] => i = j
    <2> SUFFICES ASSUME NEW i \in 1..k, NEW j \in 1..k, s[i] = s[j] PROVE i = j
      OBVIOUS
    <2>1. s[i].number = BlobStart + i - 1 /\ s[j].number = BlobStart + j - 1
      BY <1>4
    <2>2. BlobStart + i - 1 = BlobStart + j - 1
      BY <2>1
    <2> QED
      BY <2>2, <1>3, SMTT(30)
  <1>11. Cardinality(all) = k
    BY <1>1, <1>8, <1>9, <1>10, CountedBy, SMTT(30)
  <1>12. {s[j] : j \in DOMAIN s} = all
    BY <1>4, <1>8
  <1> QED
    BY <1>7, <1>11, <1>12 DEF all, s, k, last

\* What closing the open batch changes, whether or not the blob is closed.
LEMMA ClosedBatch ==
    ASSUME BatchIInv, Calculators, inflight.start # None,
           NEW trigger \in Trigger, HandleBatchTrigger(Batch(trigger)), inflight' = EmptyInflight
    PROVE  LET batch  == Batch(trigger)
               n      == Len(batches)
               closed == Append(blob.batches, batch)
               k      == Len(blob.batches) IN
           /\ batch \in BatchRecord /\ batch.trigger = trigger
           /\ batch.start = inflight.start /\ batch.end = inflight.last /\ batch.blocks = OpenBlocks
           /\ batches' = Append(batches, batch) /\ Len(batches') = n + 1
           /\ DOMAIN batches' = 1..n + 1 /\ DOMAIN batches = 1..n
           /\ \A i \in 1..n : batches'[i] = batches[i]
           /\ batches'[n + 1] = batch
           /\ LastProvable' = inflight.last /\ Conflated' = Conflated \cup OpenBlocks
           /\ inflight'.last = inflight.last /\ inflight'.start = None
           /\ inflight'.count = 0 /\ inflight'.traces = 0
           /\ OpenBlocks' = {}
           /\ closed \in Seq(BatchRecord) /\ Len(closed) = k + 1
           /\ DOMAIN closed = 1..k + 1 /\ DOMAIN blob.batches = 1..k
           /\ \A j \in 1..k : closed[j] = blob.batches[j]
           /\ closed[k + 1] = batch
           /\ BlocksOf(closed) = BlocksOf(blob.batches) \cup OpenBlocks
  <1> DEFINE batch  == Batch(trigger)
             n      == Len(batches)
             closed == Append(blob.batches, batch)
             k      == Len(blob.batches)
  <1>1. batches' = Append(batches, batch)
    BY DEF HandleBatchTrigger
  <1>2. /\ batches \in Seq(BatchRecord) /\ n \in Nat /\ blob.batches \in Seq(BatchRecord) /\ k \in Nat
    BY CalculatorNumbers DEF Calculators
  <1>3. /\ inflight.last \in 0..MaxBlock /\ inflight.start \in 1..MaxBlock
        /\ inflight \in [last : 0..MaxBlock, start : 1..MaxBlock \cup {None}, count : Nat, traces : Nat]
        /\ service.inProgress \subseteq Block /\ inflight.start <= inflight.last
    BY DEF BatchIInv, TypeOK, OpenBatchFollows
  <1>4. /\ batch.start = inflight.start /\ batch.end = inflight.last /\ batch.blocks = OpenBlocks
        /\ batch.trigger = trigger
    BY DEF Batch, OpenBlocks
  <1>5. batch \in BatchRecord
    <2>1. inflight.last \in 1..MaxBlock
      BY <1>3, ConstantsAssumption, SMTT(30)
    <2> QED
      BY <2>1, <1>3 DEF Batch, BatchRecord
  <1> HIDE DEF batch
  <1>6. /\ Len(batches') = n + 1 /\ DOMAIN batches' = 1..n + 1 /\ DOMAIN batches = 1..n
        /\ \A i \in 1..n : batches'[i] = batches[i]
        /\ batches'[n + 1] = batch /\ batches' # <<>>
    BY <1>1, <1>2, <1>5, SMTT(30)
  <1>7. /\ closed \in Seq(BatchRecord) /\ Len(closed) = k + 1
        /\ DOMAIN closed = 1..k + 1 /\ DOMAIN blob.batches = 1..k
        /\ \A j \in 1..k : closed[j] = blob.batches[j]
        /\ closed[k + 1] = batch
    BY <1>2, <1>5, SMTT(30)
  <1>8. LastProvable' = inflight.last
    BY <1>4, <1>6 DEF LastProvable
  <1>9. /\ inflight'.last = inflight.last /\ inflight'.start = None
        /\ inflight'.count = 0 /\ inflight'.traces = 0
    BY <1>3 DEF EmptyInflight
  <1>10. OpenBlocks' = {}
    BY <1>9 DEF OpenBlocks
  <1> HIDE DEF n, k, closed
  <1>11. \A i : /\ i \in 1..n + 1 <=> i \in 1..n \/ i = n + 1
                /\ i \in 1..k + 1 <=> i \in 1..k \/ i = k + 1
    BY <1>2, SMTT(30) DEF n, k
  <1>12. Conflated' = Conflated \cup OpenBlocks
    <2>1. ASSUME NEW b PROVE b \in Conflated' <=> b \in Conflated \/ b \in OpenBlocks
      <3>1. b \in Conflated' <=> \E i \in 1..n + 1 : b \in batches'[i].blocks
        BY <1>6 DEF Conflated
      <3>2. b \in Conflated <=> \E i \in 1..n : b \in batches[i].blocks
        BY <1>6 DEF Conflated
      <3> QED
        BY <3>1, <3>2, <1>4, <1>6, <1>11
    <2> QED
      BY <2>1
  <1>13. BlocksOf(closed) = BlocksOf(blob.batches) \cup OpenBlocks
    <2>1. ASSUME NEW b PROVE b \in BlocksOf(closed) <=> b \in BlocksOf(blob.batches) \/ b \in OpenBlocks
      <3>1. b \in BlocksOf(closed) <=> \E j \in 1..k + 1 : b \in closed[j].blocks
        BY <1>7 DEF BlocksOf
      <3>2. b \in BlocksOf(blob.batches) <=> \E j \in 1..k : b \in blob.batches[j].blocks
        BY <1>7 DEF BlocksOf
      <3> QED
        BY <3>1, <3>2, <1>4, <1>7, <1>11
    <2> QED
      BY <2>1
  <1> QED
    BY <1>1, <1>4, <1>5, <1>6, <1>7, <1>8, <1>9, <1>10, <1>12, <1>13 DEF batch, n, closed, k

\* The batch that is closed keeps the limits.
LEMMA ClosedBatchLimits ==
    ASSUME BatchIInv, BatchIInv', Calculators, inflight.start # None,
           NEW trigger \in Trigger, HandleBatchTrigger(Batch(trigger)), inflight' = EmptyInflight,
           NEW i \in DOMAIN batches'
    PROVE  /\ Cardinality(batches'[i].blocks) <= BlocksLimit
           /\ Cardinality(batches'[i].blocks) > 1 => TracesOf(batches'[i]) <= TracesLimit
  <1> DEFINE batch == Batch(trigger)
             n     == Len(batches)
  <1>1. /\ batch.start = inflight.start /\ batch.end = inflight.last /\ batch.blocks = OpenBlocks
        /\ DOMAIN batches' = 1..n + 1 /\ DOMAIN batches = 1..n /\ batches'[n + 1] = batch
        /\ \A j \in 1..n : batches'[j] = batches[j]
    BY ClosedBatch
  <1>2. /\ n \in Nat /\ inflight.last \in Int /\ inflight.start \in Int
    <2>1. n \in Nat /\ inflight.last \in Nat /\ inflight.start \in Int
      BY CalculatorNumbers DEF Calculators
    <2> QED
      BY <2>1, SMTT(30)
  <1> HIDE DEF n, batch
  <1>3. CASE i \in 1..n
    BY <1>1, <1>3 DEF Calculators, LimitsAreKept
  <1>4. CASE i = n + 1
    <2>1. batches'[i] = batch
      BY <1>1, <1>4
    <2>2. /\ batch.start <= batch.end
          /\ {b.number : b \in batch.blocks} = batch.start..batch.end
          /\ \A b, c \in batch.blocks : b.number = c.number => b = c
      BY <2>1 DEF BatchIInv, BatchesPartitionTheBlocks
    <2>3. Cardinality(OpenBlocks) = inflight.last - inflight.start + 1
      <3>1. /\ inflight.start <= inflight.last
            /\ {b.number : b \in OpenBlocks} = inflight.start..inflight.last
            /\ \A b, c \in OpenBlocks : b.number = c.number => b = c
        BY <2>2, <1>1
      <3> QED
        BY <3>1, <1>2, IntervalOfBlocks
    <2>4. TracesOf(batch) = TracesOf(OpenBatch)
      <3>1. OpenBatch.start = inflight.start /\ OpenBatch.end = inflight.last /\ OpenBatch.blocks = OpenBlocks
        BY DEF OpenBatch
      <3>2. /\ TracesOf(batch) = TracesFrom(batch.start, batch.end, batch.blocks)
            /\ TracesOf(OpenBatch) = TracesFrom(OpenBatch.start, OpenBatch.end, OpenBatch.blocks)
        BY TracesOfIsTracesFrom
      <3> QED
        BY <3>1, <3>2, <1>1
    <2>5. /\ inflight.count = inflight.last - inflight.start + 1
          /\ inflight.count <= BlocksLimit
          /\ inflight.count > 1 => inflight.traces <= TracesLimit
          /\ inflight.traces = TracesOf(OpenBatch)
      BY DEF Calculators, OpenBatchFits
    <2> QED
      BY <2>1, <2>3, <2>4, <2>5, <1>1
  <1> QED
    BY <1>1, <1>2, <1>3, <1>4, SMTT(30)

\* What of ForksAndTargetsStartBlobs is about batches: the blocks of the open batch are new.
LEMMA ClosedBatchForks ==
    ASSUME BatchIInv, Calculators, inflight.start # None,
           NEW trigger \in Trigger, HandleBatchTrigger(Batch(trigger)), inflight' = EmptyInflight
    PROVE  /\ \A b \in Conflated' : b \in Imported /\ (StartsBlob(b)' => StartsBlob(b))
           /\ \A b \in Conflated' : StartsBlob(b) =>
                 \A i \in DOMAIN batches' : b \in batches'[i].blocks => batches'[i].start = b.number
           /\ \A b \in Conflated : b \notin OpenBlocks
  <1> DEFINE batch == Batch(trigger)
             n     == Len(batches)
  <1>1. /\ batch.start = inflight.start /\ batch.end = inflight.last /\ batch.blocks = OpenBlocks
        /\ DOMAIN batches' = 1..n + 1 /\ DOMAIN batches = 1..n /\ batches'[n + 1] = batch
        /\ \A j \in 1..n : batches'[j] = batches[j]
        /\ Conflated' = Conflated \cup OpenBlocks
    BY ClosedBatch
  <1>2. /\ n \in Nat /\ inflight.last \in Nat /\ inflight.start \in Int /\ LastProvable \in Int
    BY CalculatorNumbers DEF Calculators
  <1>3. inflight.start = LastProvable + 1 /\ inflight.start <= inflight.last
    BY DEF BatchIInv, OpenBatchFollows
  <1>4. targets' \subseteq targets \cup {inflight.last}
    BY <1>1 DEF HandleBatchTrigger
  <1> HIDE DEF n, batch
  <1>5. \A b \in Conflated : b \in Block /\ b.number \in Int /\ b.number <= LastProvable
    BY ConflatedBlocks, BlockTypes
  <1>6. \A b \in OpenBlocks : b \in Imported /\ b \in Block /\ b.number \in Int
                              /\ b.number \in inflight.start..inflight.last
    <2>1. \A b \in OpenBlocks : b \in Imported /\ b \in Block
      BY OpenBlobIsImported DEF Calculators
    <2> QED
      BY <2>1, BlockTypes DEF OpenBlocks
  <1>7. \A b \in Conflated : b \notin OpenBlocks
    <2> SUFFICES ASSUME NEW b \in Conflated, b \in OpenBlocks PROVE FALSE
      OBVIOUS
    <2>1. b.number <= LastProvable /\ b.number \in Int /\ b.number \in inflight.start..inflight.last
      BY <1>5, <1>6
    <2> QED
      BY <2>1, <1>2, <1>3, SMTT(30)
  <1>8. ASSUME NEW b \in Conflated' PROVE b \in Imported /\ (StartsBlob(b)' => StartsBlob(b))
    <2>1. b \in Imported
      BY <1>1, <1>6 DEF Imported
    <2>2. b.number \in Int /\ b.number <= inflight.last
      <3>1. CASE b \in Conflated
        BY <3>1, <1>2, <1>3, <1>5, SMTT(30)
      <3>2. CASE b \in OpenBlocks
        BY <3>2, <1>2, <1>6, SMTT(30)
      <3> QED
        BY <3>1, <3>2, <1>1
    <2>3. b.number - 1 # inflight.last
      BY <2>2, <1>2, SMTT(30)
    <2>4. StartsBlob(b)' => StartsBlob(b)
      BY <2>3, <1>4 DEF StartsBlob
    <2> QED
      BY <2>1, <2>4
  <1>9. ASSUME NEW b \in Conflated', StartsBlob(b), NEW i \in DOMAIN batches', b \in batches'[i].blocks
        PROVE  batches'[i].start = b.number
    <2>1. CASE i \in 1..n
      <3>1. batches'[i] = batches[i] /\ b \in Conflated
        BY <2>1, <1>1, <1>9 DEF Conflated
      <3> QED
        BY <3>1, <2>1, <1>1, <1>9 DEF Calculators, ForksAndTargetsStartBlobs, StartsBlob
    <2>2. CASE i = n + 1
      <3>1. b \in OpenBlocks
        BY <2>2, <1>1, <1>9
      <3>2. b.number = inflight.start
        BY <3>1, <1>9 DEF Calculators, OpenForksAndTargets
      <3> QED
        BY <3>2, <2>2, <1>1
    <2> QED
      BY <2>1, <2>2, <1>1, <1>2, SMTT(30)
  <1> QED
    BY <1>7, <1>8, <1>9

\* The counters that survive a closed blob: that of the block under way.
LEMMA CountersLeft ==
    ASSUME BatchIInv, Calculators, inflight.start # None,
           NEW trigger \in Trigger, HandleBatchTrigger(Batch(trigger)), inflight' = EmptyInflight
    PROVE  At(blob.counters, {i \in DOMAIN blob.counters :
                                 ~ IsInBatches(blob.counters[i], Append(blob.batches, Batch(trigger)))})
               = IF IsImporting THEN <<importer.block>> ELSE <<>>
  <1> DEFINE batch  == Batch(trigger)
             closed == Append(blob.batches, batch)
             k      == Len(blob.batches)
             s      == blob.counters
             m      == Len(s)
             last   == inflight.last
             places == {i \in DOMAIN s : ~ IsInBatches(s[i], closed)}
  <1>1. /\ batch.start = inflight.start /\ batch.end = last
        /\ DOMAIN closed = 1..k + 1 /\ DOMAIN blob.batches = 1..k /\ closed[k + 1] = batch
        /\ \A j \in 1..k : closed[j] = blob.batches[j]
    BY ClosedBatch
  <1>2. /\ k \in Nat /\ last \in Nat /\ inflight.start \in Int /\ LastProvable \in Int
        /\ s \in Seq(Block) /\ m \in Nat
    BY CalculatorNumbers DEF Calculators
  <1>3. inflight.start = LastProvable + 1 /\ inflight.start <= last
    BY DEF BatchIInv, OpenBatchFollows
  <1>4. BlobStart \in Int /\ BlobStart <= LastProvable + 1
    <2>1. BlobStart \in 1..LastProvable + 1
      BY DEF Calculators, OpenBlobFollows
    <2> QED
      BY <2>1, <1>2, SMTT(30)
  <1>5. /\ m = (IF IsImporting THEN last + 1 ELSE last) - BlobStart + 1
        /\ \A i \in DOMAIN s : s[i].number = BlobStart + i - 1
        /\ IsImporting => s[m] = importer.block
    BY DEF Calculators, CountersFollow
  <1>6. DOMAIN s = 1..m
    BY <1>2, SMTT(30)
  <1>7. \A j \in 1..k : /\ blob.batches[j].start \in Int /\ blob.batches[j].end \in Int
                        /\ blob.batches[j].end <= LastProvable
    <2>1. TAKE j \in 1..k
    <2>2. PICK i \in DOMAIN batches : blob.batches[j] = batches[i]
      BY <1>1 DEF Calculators, OpenBlobFollows
    <2> QED
      BY <2>2, BatchEnds
  <1>8. \A n \in BlobStart..LastProvable :
           \E j \in 1..k : n \in blob.batches[j].start..blob.batches[j].end
    BY <1>1 DEF Calculators, OpenBlobFollows
  <1> HIDE DEF batch, closed, k, s, m, last
  <1>9. ASSUME NEW i \in 1..m, s[i].number <= last PROVE IsInBatches(s[i], closed)
    <2>1. s[i].number \in Int /\ BlobStart <= s[i].number
      BY <1>2, <1>4, <1>5, <1>6, SMTT(30)
    <2>2. CASE s[i].number <= LastProvable
      <3>1. s[i].number \in BlobStart..LastProvable
        BY <2>1, <2>2, <1>2, <1>4, SMTT(30)
      <3>2. PICK j \in 1..k : s[i].number \in blob.batches[j].start..blob.batches[j].end
        BY <3>1, <1>8
      <3>3. j \in 1..k + 1
        BY <1>2, SMTT(30)
      <3> QED
        BY <3>2, <3>3, <1>1 DEF IsInBatches
    <2>3. CASE ~ (s[i].number <= LastProvable)
      <3>1. s[i].number \in batch.start..batch.end
        BY <2>1, <2>3, <1>1, <1>2, <1>3, <1>9, SMTT(30)
      <3>2. k + 1 \in 1..k + 1
        BY <1>2, SMTT(30)
      <3> QED
        BY <3>1, <3>2, <1>1 DEF IsInBatches
    <2> QED
      BY <2>2, <2>3
  <1>10. CASE ~ IsImporting
    <2>1. \A i \in 1..m : s[i].number <= last
      <3>1. TAKE i \in 1..m
      <3>2. s[i].number = BlobStart + i - 1 /\ m = last - BlobStart + 1
        BY <1>5, <1>6, <1>10
      <3> QED
        BY <3>2, <1>2, <1>4, SMTT(30)
    <2>2. places = {}
      BY <2>1, <1>6, <1>9
    <2>3. At(s, places) = <<>>
      BY <2>2, NothingAt
    <2> QED
      BY <2>3, <1>10 DEF s, closed, batch
  <1>11. CASE IsImporting
    <2>1. m = (last + 1) - BlobStart + 1 /\ m \in 1..m /\ m \in Int
      BY <1>2, <1>3, <1>4, <1>5, <1>11, SMTT(30)
    <2>2. \A i \in 1..m : i # m => s[i].number <= last
      <3>1. TAKE i \in 1..m
      <3>2. s[i].number = BlobStart + i - 1
        BY <1>5, <1>6
      <3> QED
        BY <3>2, <2>1, <1>2, <1>4, SMTT(30)
    <2>3. ~ IsInBatches(s[m], closed)
      <3>1. s[m].number = last + 1
        <4>1. s[m].number = BlobStart + m - 1
          BY <2>1, <1>5, <1>6
        <4> QED
          BY <4>1, <2>1, <1>2, <1>4, SMTT(30)
      <3>2. ASSUME NEW j \in 1..k + 1 PROVE s[m].number \notin closed[j].start..closed[j].end
        <4>1. CASE j = k + 1
          <5>1. closed[j].start = inflight.start /\ closed[j].end = last
            BY <4>1, <1>1
          <5> QED
            BY <5>1, <3>1, <1>2, SMTT(30)
        <4>2. CASE j # k + 1
          <5>1. j \in 1..k
            BY <4>2, <1>2, SMTT(30)
          <5>2. /\ closed[j].start \in Int /\ closed[j].end \in Int
                /\ closed[j].end <= LastProvable
            BY <5>1, <1>1, <1>7
          <5> QED
            BY <5>2, <3>1, <1>2, <1>3, SMTT(30)
        <4> QED
          BY <4>1, <4>2
      <3> QED
        BY <3>2, <1>1 DEF IsInBatches
    <2>4. places = {m}
      <3>1. \A i : i \in places <=> i = m
        BY <2>1, <2>2, <2>3, <1>6, <1>9
      <3> QED
        BY <3>1
    <2>5. At(s, places) = <<s[m]>>
      BY <2>1, <2>4, OneAt
    <2> QED
      BY <2>5, <1>5, <1>11 DEF s, closed, batch
  <1> QED
    BY <1>10, <1>11

\* A closed blob holds its batches, keeps the limits, and nothing of it stays behind.
LEMMA ClosesTheBlob ==
    ASSUME BatchIInv, BatchIInv', Calculators, inflight.start # None,
           NEW trigger \in Trigger, HandleBatchTrigger(Batch(trigger)), inflight' = EmptyInflight,
           ClosesBlob(trigger, Append(blob.batches, Batch(trigger))),
           IsImporting' <=> IsImporting, IsImporting => importer'.block = importer.block
    PROVE  Calculators'
  <1> DEFINE batch  == Batch(trigger)
             closed == Append(blob.batches, batch)
             all    == BlocksOf(blob.batches) \cup OpenBlocks
             last   == inflight.last
             new    == [batches |-> closed, content |-> compressor.blocks, size |-> compressor.size]
  <1>1. /\ batch.trigger = trigger /\ batches' = Append(batches, batch)
        /\ LastProvable' = last /\ Conflated' = Conflated \cup OpenBlocks
        /\ inflight'.last = last /\ inflight'.start = None
        /\ inflight'.count = 0 /\ inflight'.traces = 0 /\ OpenBlocks' = {}
        /\ closed \in Seq(BatchRecord) /\ Len(closed) = Len(blob.batches) + 1
        /\ BlocksOf(closed) = all /\ batch \in BatchRecord /\ batch.end = last
    BY ClosedBatch
  <1>2. /\ blobs' = Append(blobs, new)
        /\ blob' = [batches  |-> <<>>,
                    counters |-> At(blob.counters, {i \in DOMAIN blob.counters :
                                                       ~ IsInBatches(blob.counters[i], closed)})]
        /\ compressor' = ResetData([compressor EXCEPT !.drained = TRUE])
        /\ targets' = targets \cup (IF batch.trigger \in AggregationCutOffTriggers THEN {batch.end} ELSE {})
    BY <1>1 DEF HandleBatchTrigger
  <1>3. /\ LastProvable \in Int /\ last \in Nat /\ batches \in Seq(BatchRecord)
        /\ blobs \in Seq(BlobRecord) /\ Len(blobs) \in Nat
        /\ blob.batches \in Seq(BatchRecord) /\ Len(blob.batches) \in Nat
        /\ compressor.blocks \in Seq(Block) /\ compressor.size \in 0..DataLimit
        /\ DataLimit \in Nat /\ BatchesLimit \in Nat /\ BlocksLimit \in Nat /\ BlocksLimit > 0
        /\ compressor \in [blocks : Seq(Block), size : 0..DataLimit, drained : BOOLEAN]
    <2>1. /\ compressor \in [blocks : Seq(Block), size : 0..DataLimit, drained : BOOLEAN]
          /\ compressor.size \in 0..DataLimit
      BY DEF Calculators, CalculatorTypes
    <2> QED
      BY <2>1, CalculatorNumbers DEF Calculators
  <1>4. blob'.batches = <<>> /\ blob'.counters = IF IsImporting THEN <<importer.block>> ELSE <<>>
    BY <1>2, CountersLeft
  <1>5. compressor' = [blocks |-> <<>>, size |-> 0, drained |-> TRUE]
    BY <1>2, <1>3 DEF ResetData, EmptyCompressor
  <1>6. compressor'.blocks = <<>> /\ compressor'.size = 0
    BY <1>5
  <1>7. BlobStart' = last + 1
    BY <1>1, <1>4 DEF BlobStart
  <1>8. /\ {compressor.blocks[j] : j \in DOMAIN compressor.blocks} = all
        /\ Len(compressor.blocks) = Cardinality(all)
    BY CompressedBlocks
  <1>9. IsImporting => /\ importer.block \in Block /\ importer.block.number = last + 1
                       /\ importer.block.kind.data \in Nat /\ importer.block.kind.data <= DataLimit
    BY BlockUnderWay, BlockTypes
  <1> HIDE DEF batch, closed, all, last
  <1>10. new \in BlobRecord
    BY <1>1, <1>3 DEF BlobRecord
  <1>11. /\ blobs' \in Seq(BlobRecord) /\ DOMAIN blobs' = 1..Len(blobs) + 1 /\ DOMAIN blobs = 1..Len(blobs)
         /\ \A i \in 1..Len(blobs) : blobs'[i] = blobs[i]
         /\ blobs'[Len(blobs) + 1] = new
    BY <1>2, <1>3, <1>10, SMTT(30)
  <1>12. \A i \in DOMAIN blobs' : i \in DOMAIN blobs \/ i = Len(blobs) + 1
    BY <1>3, <1>11, SMTT(30)
  <1>13. new.batches = closed /\ new.content = compressor.blocks /\ new.size = compressor.size
    OBVIOUS
  <1> HIDE DEF new
  <1>14. CalculatorTypes'
    <2>1. compressor' \in [blocks : Seq(Block), size : 0..DataLimit, drained : BOOLEAN]
      <3>1. <<>> \in Seq(Block) /\ 0 \in 0..DataLimit
        BY <1>3, SMTT(30)
      <3> QED
        BY <3>1, <1>5
    <2>2. blob' \in [batches : Seq(BatchRecord), counters : Seq(Block)]
      <3>1. <<>> \in Seq(BatchRecord)
        BY SMTT(30)
      <3>2. (IF IsImporting THEN <<importer.block>> ELSE <<>>) \in Seq(Block)
        BY <1>9, SMTT(30)
      <3>3. blob' = [batches |-> <<>>, counters |-> IF IsImporting THEN <<importer.block>> ELSE <<>>]
        BY <1>2, <1>4
      <3> QED
        BY <3>1, <3>2, <3>3
    <2>3. targets' \subseteq Nat
      BY <1>1, <1>2, <1>3 DEF Calculators, CalculatorTypes
    <2> QED
      BY <2>1, <2>2, <2>3, <1>11 DEF CalculatorTypes
  <1>15. OpenBlobFollows'
    <2>1. DOMAIN <<>> = {} /\ Len(<<>>) = 0 /\ 0 < BatchesLimit
      BY ConstantsAssumption, SMTT(30)
    <2>2. last + 1 \in 1..last + 1 /\ last + 1..last = {}
      BY <1>3, SMTT(30)
    <2> QED
      BY <2>1, <2>2, <1>1, <1>4, <1>7 DEF OpenBlobFollows
  <1>16. CountersFollow'
    <2>1. CASE IsImporting
      <3>1. importer'.block = importer.block
        BY <2>1
      <3>2. /\ Len(<<importer.block>>) = 1 /\ DOMAIN <<importer.block>> = {1}
            /\ <<importer.block>>[1] = importer.block
            /\ 1 = (last + 1) - (last + 1) + 1 /\ (last + 1) + 1 - 1 = last + 1
        BY <1>3, SMTT(30)
      <3> QED
        BY <3>1, <3>2, <2>1, <1>1, <1>4, <1>7, <1>9 DEF CountersFollow
    <2>2. CASE ~ IsImporting
      <3>1. Len(<<>>) = 0 /\ DOMAIN <<>> = {} /\ 0 = last - (last + 1) + 1
        BY <1>3, SMTT(30)
      <3> QED
        BY <3>1, <2>2, <1>1, <1>4, <1>7 DEF CountersFollow
    <2> QED
      BY <2>1, <2>2
  <1>17. CompressorFollows'
    <2>1. Len(<<>>) = 0 /\ DOMAIN <<>> = {} /\ 0 = last - (last + 1) + 1
      BY <1>3, SMTT(30)
    <2> QED
      BY <2>1, <1>1, <1>6, <1>7 DEF CompressorFollows
  <1>18. OpenBatchFits'
    <2>1. IsAppending' => IsImporting
      BY DEF IsAppending, IsImporting
    <2>2. IsImporting => CanAppendBlock(compressor', importer'.block)
      BY <1>3, <1>6, <1>9, SMTT(30) DEF CanAppendBlock
    <2>3. 0 < BlocksLimit /\ ~ (0 > 0)
      BY <1>3, SMTT(30)
    <2> QED
      BY <2>1, <2>2, <2>3, <1>1 DEF OpenBatchFits
  <1>19. OpenForksAndTargets'
    <2>1. BlocksOf(<<>>) = {}
      BY SMTT(30) DEF BlocksOf
    <2> QED
      BY <2>1, <1>1, <1>4 DEF OpenForksAndTargets
  <1>20. BlobsAreConflated'
    <2>1. all \subseteq Conflated'
      BY <1>1, OpenBlobIsImported DEF Calculators, all
    <2>2. \A j \in DOMAIN compressor.blocks : compressor.blocks[j] \in Conflated'
      BY <2>1, <1>8
    <2>3. \A i \in DOMAIN blobs : \A j \in DOMAIN blobs[i].content : blobs[i].content[j] \in Conflated'
      BY <1>1 DEF Calculators, BlobsAreConflated
    <2> QED
      BY <2>2, <2>3, <1>11, <1>12, <1>13 DEF BlobsAreConflated
  <1>21. BlobsHoldTheirBatches'
    <2>1. batches' = BatchesOf(blobs') \o blob'.batches
      <3>1. BatchesOf(blobs) \in Seq(BatchRecord) /\ BatchesOf(blobs') = BatchesOf(blobs) \o closed
        BY <1>2, <1>3, <1>10, <1>13, OneMoreBlob
      <3>2. batches = BatchesOf(blobs) \o blob.batches
        BY DEF Calculators, BlobsHoldTheirBatches
      <3>3. batches' = (BatchesOf(blobs) \o closed) \o <<>>
        <4>1. Append(BatchesOf(blobs) \o blob.batches, batch) = (BatchesOf(blobs) \o closed) \o <<>>
          BY <3>1, <1>1, <1>3, AppendConcat DEF closed
        <4> QED
          BY <4>1, <3>2, <1>1
      <3> QED
        BY <3>1, <3>3, <1>4
    <2>2. \A i \in DOMAIN blobs' :
             /\ {blobs'[i].content[j] : j \in DOMAIN blobs'[i].content} = BlocksOf(blobs'[i].batches)
             /\ Len(blobs'[i].content) = Cardinality(BlocksOf(blobs'[i].batches))
      <3>1. TAKE i \in DOMAIN blobs'
      <3>2. CASE i \in DOMAIN blobs
        <4>1. blobs'[i] = blobs[i] /\ BlobsHoldTheirBatches
          BY <3>2, <1>11 DEF Calculators
        <4> QED
          BY <3>2, <4>1 DEF BlobsHoldTheirBatches
      <3>3. CASE i = Len(blobs) + 1
        <4>1. blobs'[i].content = compressor.blocks /\ BlocksOf(blobs'[i].batches) = all
          BY <3>3, <1>1, <1>11, <1>13
        <4> QED
          BY <4>1, <1>8
      <3> QED
        BY <3>2, <3>3, <1>12
    <2> QED
      BY <2>1, <2>2 DEF BlobsHoldTheirBatches
  <1>22. LimitsAreKept'
    <2>1. \A i \in DOMAIN batches' :
             /\ Cardinality(batches'[i].blocks) <= BlocksLimit
             /\ Cardinality(batches'[i].blocks) > 1 => TracesOf(batches'[i]) <= TracesLimit
      BY ClosedBatchLimits
    <2>2. Len(closed) <= BatchesLimit /\ compressor.size <= DataLimit
      <3>1. Len(blob.batches) < BatchesLimit
        BY DEF Calculators, OpenBlobFollows
      <3> QED
        BY <3>1, <1>1, <1>3, SMTT(30)
    <2>3. \A i \in DOMAIN blobs' : blobs'[i].size <= DataLimit /\ Len(blobs'[i].batches) <= BatchesLimit
      BY <2>2, <1>11, <1>12, <1>13 DEF Calculators, LimitsAreKept
    <2> QED
      BY <2>1, <2>3 DEF LimitsAreKept
  <1>23. ForksAndTargetsStartBlobs'
    <2>1. /\ \A b \in Conflated' : b \in Imported /\ (StartsBlob(b)' => StartsBlob(b))
          /\ \A b \in Conflated' : StartsBlob(b) =>
                \A i \in DOMAIN batches' : b \in batches'[i].blocks => batches'[i].start = b.number
          /\ \A b \in Conflated : b \notin OpenBlocks
      BY ClosedBatchForks
    <2> SUFFICES ASSUME NEW b \in Conflated', StartsBlob(b), NEW i \in DOMAIN blobs',
                        NEW j \in DOMAIN blobs'[i].content, b.number = blobs'[i].content[j].number
                 PROVE  blobs'[i].content[1].number = b.number
      BY <2>1 DEF ForksAndTargetsStartBlobs, StartsBlob
    <2>2. CASE i \in DOMAIN blobs
      <3>1. blobs'[i] = blobs[i]
        BY <2>2, <1>11
      <3>2. blobs[i].content[j] \in Conflated
        BY <2>2, <3>1 DEF Calculators, BlobsAreConflated
      <3>3. b = blobs[i].content[j]
        <4>1. b \in Imported /\ blobs[i].content[j] \in Imported /\ b.number = blobs[i].content[j].number
          BY <3>1, <3>2, <2>1 DEF Imported
        <4> QED
          BY <4>1 DEF BatchIInv, ImportedOnce
      <3> QED
        BY <3>1, <3>2, <3>3, <2>2 DEF Calculators, ForksAndTargetsStartBlobs, StartsBlob
    <2>3. CASE i = Len(blobs) + 1
      <3>1. blobs'[i].content = compressor.blocks
        BY <2>3, <1>11, <1>13
      <3>2. compressor.blocks[j] \in all
        BY <3>1, <1>8
      <3>3. all \subseteq Imported
        BY OpenBlobIsImported DEF Calculators, all
      <3>4. b = compressor.blocks[j]
        <4>1. b \in Imported /\ compressor.blocks[j] \in Imported /\ b.number = compressor.blocks[j].number
          BY <3>1, <3>2, <3>3, <2>1
        <4> QED
          BY <4>1 DEF BatchIInv, ImportedOnce
      <3>5. b.number = BlobStart
        BY <3>2, <3>4 DEF Calculators, OpenForksAndTargets, all
      <3>6. 1 \in DOMAIN compressor.blocks
        BY <3>1, <1>3, SMTT(30)
      <3>7. compressor.blocks[1].number = BlobStart + 1 - 1
        BY <3>6 DEF Calculators, CompressorFollows
      <3>8. BlobStart \in Int
        <4>1. BlobStart \in 1..LastProvable + 1
          BY DEF Calculators, OpenBlobFollows
        <4> QED
          BY <4>1, <1>3, SMTT(30)
      <3>9. BlobStart + 1 - 1 = BlobStart
        BY <3>8, SMTT(30)
      <3> QED
        BY <3>1, <3>5, <3>7, <3>9
    <2> QED
      BY <2>2, <2>3, <1>12
  <1> QED
    BY <1>14, <1>15, <1>16, <1>17, <1>18, <1>19, <1>20, <1>21, <1>22, <1>23 DEF Calculators

\* A batch that does not complete the blob: the block under way still fits after it.
LEMMA KeepsTheBlob ==
    ASSUME BatchIInv, BatchIInv', Calculators, inflight.start # None,
           NEW trigger \in Trigger, HandleBatchTrigger(Batch(trigger)), inflight' = EmptyInflight,
           ~ ClosesBlob(trigger, Append(blob.batches, Batch(trigger))),
           IsImporting, IsImporting', IsAppending', importer'.block = importer.block,
           ~ StartsBlob(importer.block)
    PROVE  Calculators'
  <1> DEFINE batch  == Batch(trigger)
             closed == Append(blob.batches, batch)
             k      == Len(blob.batches)
             last   == inflight.last
             block  == importer.block
  <1>1. /\ batch.trigger = trigger /\ batches' = Append(batches, batch)
        /\ LastProvable' = last /\ Conflated' = Conflated \cup OpenBlocks
        /\ inflight'.last = last /\ inflight'.start = None
        /\ inflight'.count = 0 /\ inflight'.traces = 0 /\ OpenBlocks' = {}
        /\ closed \in Seq(BatchRecord) /\ Len(closed) = k + 1
        /\ DOMAIN closed = 1..k + 1 /\ DOMAIN blob.batches = 1..k
        /\ \A j \in 1..k : closed[j] = blob.batches[j]
        /\ closed[k + 1] = batch /\ batch.start = inflight.start /\ batch.end = last
        /\ BlocksOf(closed) = BlocksOf(blob.batches) \cup OpenBlocks
        /\ DOMAIN batches' = 1..Len(batches) + 1 /\ DOMAIN batches = 1..Len(batches)
        /\ \A i \in 1..Len(batches) : batches'[i] = batches[i]
        /\ batches'[Len(batches) + 1] = batch /\ batch \in BatchRecord
    BY ClosedBatch
  <1>2. /\ blob' = [blob EXCEPT !.batches = closed]
        /\ compressor' = ResetData(StartNewBatch(compressor))
        /\ targets' = targets \cup (IF batch.trigger \in AggregationCutOffTriggers THEN {batch.end} ELSE {})
        /\ UNCHANGED blobs
    BY <1>1 DEF HandleBatchTrigger
  <1>3. /\ LastProvable \in Int /\ last \in Nat /\ inflight.start \in Int /\ batches \in Seq(BatchRecord)
        /\ Len(batches) \in Nat /\ blobs \in Seq(BlobRecord)
        /\ blob.batches \in Seq(BatchRecord) /\ k \in Nat
        /\ blob.counters \in Seq(Block) /\ Len(blob.counters) \in Nat
        /\ compressor.size \in Nat /\ BatchOverhead \in Nat
        /\ DataLimit \in Nat /\ BatchesLimit \in Nat /\ BlocksLimit \in Nat /\ BlocksLimit > 0
    BY CalculatorNumbers DEF Calculators
  <1>4. /\ compressor \in [blocks : Seq(Block), size : 0..DataLimit, drained : BOOLEAN]
        /\ blob \in [batches : Seq(BatchRecord), counters : Seq(Block)]
        /\ ~ compressor.drained
    BY DEF Calculators, CalculatorTypes, CompressorFollows
  <1>5. /\ block \in Block /\ block.number = last + 1 /\ block.kind.data \in Nat
    BY BlockUnderWay, BlockTypes
  <1>6. /\ trigger \notin BlobCutOffTriggers /\ ~ (k + 1 >= BatchesLimit)
        /\ CanAppendBlock(StartNewBatch(compressor), block)
    <2>1. blob.counters[Len(blob.counters)] = block
      BY DEF Calculators, CountersFollow
    <2> QED
      BY <2>1, <1>1 DEF ClosesBlob
  <1>7. targets' = targets
    BY <1>1, <1>2, <1>6 DEF AggregationCutOffTriggers, BlobCutOffTriggers
  <1>8. blob'.batches = closed /\ blob'.counters = blob.counters
    BY <1>2, <1>4
  <1>9. compressor' = [compressor EXCEPT !.size = @ + BatchOverhead]
    <2>1. ~ StartNewBatch(compressor).drained
      BY <1>4 DEF StartNewBatch
    <2> QED
      BY <2>1, <1>2 DEF ResetData, StartNewBatch
  <1>10. /\ compressor'.blocks = compressor.blocks /\ compressor'.drained = compressor.drained
         /\ compressor'.size = compressor.size + BatchOverhead
         /\ StartNewBatch(compressor) = compressor'
    BY <1>4, <1>9 DEF StartNewBatch
  <1>11. inflight.start = LastProvable + 1 /\ inflight.start <= last
    BY DEF BatchIInv, OpenBatchFollows
  <1> HIDE DEF batch, closed, k, last, block
  <1>12. BlobStart' = BlobStart
    <2>1. BlobStart' = closed[1].start
      <3>1. closed # <<>>
        BY <1>1, <1>3, SMTT(30)
      <3> QED
        BY <3>1, <1>8 DEF BlobStart
    <2>2. CASE blob.batches = <<>>
      <3>1. k = 0 /\ k + 1 = 1
        BY <2>2, SMTT(30) DEF k
      <3> QED
        BY <3>1, <2>1, <2>2, <1>1, <1>11 DEF BlobStart
    <2>3. CASE blob.batches # <<>>
      <3>1. 1 \in 1..k
        BY <2>3, <1>3, SMTT(30) DEF k
      <3> QED
        BY <3>1, <2>1, <2>3, <1>1 DEF BlobStart
    <2> QED
      BY <2>2, <2>3
  <1>13. BlobStart \in Int /\ BlobStart >= 1 /\ BlobStart <= LastProvable + 1
    <2>1. BlobStart \in 1..LastProvable + 1
      BY DEF Calculators, OpenBlobFollows
    <2> QED
      BY <2>1, <1>3, SMTT(30)
  <1>14. CalculatorTypes'
    <2>1. compressor.size + BatchOverhead \in 0..DataLimit
      <3>1. compressor.size + BatchOverhead + block.kind.data <= DataLimit
        BY <1>6, <1>10 DEF CanAppendBlock
      <3>2. block.kind.data \in Nat /\ compressor.size \in Nat /\ BatchOverhead \in Nat /\ DataLimit \in Nat
        BY <1>3, <1>5
      <3> QED
        BY <3>1, <3>2, SMTT(30)
    <2>2. compressor' \in [blocks : Seq(Block), size : 0..DataLimit, drained : BOOLEAN]
      BY <2>1, <1>4, <1>9
    <2>3. blob' \in [batches : Seq(BatchRecord), counters : Seq(Block)]
      BY <1>1, <1>2, <1>4
    <2> QED
      BY <2>2, <2>3, <1>2, <1>7 DEF Calculators, CalculatorTypes
  <1>15. \A j : /\ j \in 1..k + 1 <=> j \in 1..k \/ j = k + 1
                /\ j \in 1..Len(batches) + 1 <=> j \in 1..Len(batches) \/ j = Len(batches) + 1
    BY <1>3, SMTT(30)
  <1>16. OpenBlobFollows'
    <2>1. k + 1 < BatchesLimit
      BY <1>3, <1>6, SMTT(30)
    <2>2. BlobStart \in 1..last + 1
      BY <1>3, <1>11, <1>13, SMTT(30)
    <2>3. ASSUME NEW j \in 1..k + 1
          PROVE  /\ \E i \in DOMAIN batches' : closed[j] = batches'[i]
                 /\ BlobStart <= closed[j].start /\ closed[j].end <= last
      <3>1. CASE j \in 1..k
        <4>1. /\ \E i \in DOMAIN batches : blob.batches[j] = batches[i]
              /\ BlobStart <= blob.batches[j].start /\ blob.batches[j].end <= LastProvable
          BY <3>1, <1>1 DEF Calculators, OpenBlobFollows
        <4>2. \E i \in DOMAIN batches' : closed[j] = batches'[i]
          BY <3>1, <4>1, <1>1, <1>15
        <4>3. closed[j].end \in Int
          BY <3>1, <4>1, <1>1, BatchEnds
        <4>4. closed[j] = blob.batches[j] /\ closed[j].end <= LastProvable
          BY <3>1, <4>1, <1>1
        <4>5. closed[j].end <= last
          BY <4>3, <4>4, <1>3, <1>11, SMTT(30)
        <4> QED
          BY <4>1, <4>2, <4>4, <4>5
      <3>2. CASE j = k + 1
        <4>1. BlobStart <= inflight.start /\ last <= last
          BY <1>3, <1>11, <1>13, SMTT(30)
        <4> QED
          BY <3>2, <4>1, <1>1, <1>15
      <3> QED
        BY <3>1, <3>2, <1>15
    <2>4. ASSUME NEW n \in BlobStart..last
          PROVE  \E j \in 1..k + 1 : n \in closed[j].start..closed[j].end
      <3>1. CASE n <= LastProvable
        <4>1. n \in BlobStart..LastProvable
          BY <3>1, <1>3, <1>13, SMTT(30)
        <4>2. PICK j \in 1..k : n \in blob.batches[j].start..blob.batches[j].end
          BY <4>1, <1>1 DEF Calculators, OpenBlobFollows
        <4> QED
          BY <4>2, <1>1, <1>15
      <3>2. CASE ~ (n <= LastProvable)
        <4>1. n \in inflight.start..last
          BY <3>2, <1>3, <1>11, <1>13, SMTT(30)
        <4> QED
          BY <4>1, <1>1, <1>15
      <3> QED
        BY <3>1, <3>2
    <2>5. /\ DOMAIN blob'.batches = 1..k + 1 /\ Len(blob'.batches) = k + 1
          /\ LastProvable' = last /\ IsAppending'
      BY <1>1, <1>8
    <2> QED
      BY <2>1, <2>2, <2>3, <2>4, <2>5, <1>8, <1>12 DEF OpenBlobFollows
  <1>17. CountersFollow'
    <2>1. CountersFollow /\ inflight'.last = inflight.last
      BY <1>1 DEF Calculators, last
    <2> QED
      BY <2>1, <1>8, <1>12 DEF CountersFollow
  <1>18. CompressorFollows'
    <2>1. /\ CompressorFollows /\ inflight'.last = inflight.last
          /\ BlocksOf(blob'.batches) \cup OpenBlocks' = BlocksOf(blob.batches) \cup OpenBlocks
      BY <1>1, <1>8 DEF Calculators, last
    <2> QED
      BY <2>1, <1>1, <1>10, <1>12 DEF CompressorFollows
  <1>19. OpenBatchFits'
    <2>1. 0 < BlocksLimit /\ ~ (0 > 0)
      BY <1>3, SMTT(30)
    <2>2. CanAppendBlock(compressor', importer'.block)
      BY <1>6, <1>10 DEF block
    <2> QED
      BY <2>1, <2>2, <1>1 DEF OpenBatchFits
  <1>20. OpenForksAndTargets'
    <2>1. \A b : StartsBlob(b)' <=> StartsBlob(b)
      BY <1>7 DEF StartsBlob
    <2>2. \A b \in BlocksOf(blob'.batches) \cup OpenBlocks' : StartsBlob(b) => b.number = BlobStart
      BY <1>1, <1>8 DEF Calculators, OpenForksAndTargets
    <2>3. ~ StartsBlob(importer'.block)
      OBVIOUS
    <2>4. ~ StartsBlob(importer.block)'
      BY <2>3, <1>7 DEF StartsBlob
    <2> QED
      BY <2>1, <2>2, <2>4, <1>1, <1>12 DEF OpenForksAndTargets
  <1>21. BlobsAreConflated'
    BY <1>1, <1>2 DEF Calculators, BlobsAreConflated
  <1>22. BlobsHoldTheirBatches'
    <2>1. batches' = BatchesOf(blobs') \o blob'.batches
      <3>1. BatchesOf(blobs) \in Seq(BatchRecord)
        <4>1. [batches |-> blob.batches, content |-> compressor.blocks, size |-> compressor.size] \in BlobRecord
          BY <1>4 DEF BlobRecord
        <4> QED
          BY <4>1, <1>3, OneMoreBlob
      <3>2. batches = BatchesOf(blobs) \o blob.batches
        BY DEF Calculators, BlobsHoldTheirBatches
      <3>3. Append(BatchesOf(blobs) \o blob.batches, batch) = BatchesOf(blobs) \o closed
        BY <3>1, <1>1, <1>3, AppendConcat DEF closed
      <3> QED
        BY <3>2, <3>3, <1>1, <1>2, <1>8
    <2> QED
      BY <2>1, <1>2 DEF Calculators, BlobsHoldTheirBatches
  <1>23. LimitsAreKept'
    <2>1. \A i \in DOMAIN batches' :
             /\ Cardinality(batches'[i].blocks) <= BlocksLimit
             /\ Cardinality(batches'[i].blocks) > 1 => TracesOf(batches'[i]) <= TracesLimit
      BY ClosedBatchLimits
    <2> QED
      BY <2>1, <1>2 DEF Calculators, LimitsAreKept
  <1>24. ForksAndTargetsStartBlobs'
    <2>1. /\ \A b \in Conflated' : b \in Imported /\ (StartsBlob(b)' => StartsBlob(b))
          /\ \A b \in Conflated' : StartsBlob(b) =>
                \A i \in DOMAIN batches' : b \in batches'[i].blocks => batches'[i].start = b.number
      BY ClosedBatchForks
    <2> SUFFICES ASSUME NEW b \in Conflated', StartsBlob(b), NEW i \in DOMAIN blobs',
                        NEW j \in DOMAIN blobs'[i].content, b.number = blobs'[i].content[j].number
                 PROVE  blobs'[i].content[1].number = b.number
      BY <2>1 DEF ForksAndTargetsStartBlobs, StartsBlob
    <2>2. blobs[i].content[j] \in Conflated /\ i \in DOMAIN blobs /\ j \in DOMAIN blobs[i].content
      BY <1>2 DEF Calculators, BlobsAreConflated
    <2>3. b = blobs[i].content[j]
      <3>1. b \in Imported /\ blobs[i].content[j] \in Imported /\ b.number = blobs[i].content[j].number
        BY <2>1, <2>2, <1>2 DEF Imported
      <3> QED
        BY <3>1 DEF BatchIInv, ImportedOnce
    <2> QED
      BY <2>2, <2>3, <1>2 DEF Calculators, ForksAndTargetsStartBlobs, StartsBlob
  <1> QED
    BY <1>14, <1>16, <1>17, <1>18, <1>19, <1>20, <1>21, <1>22, <1>23, <1>24 DEF Calculators

\* A trigger that completes the blob comes before the others.
LEMMA BlobTriggersComeFirst ==
    ASSUME NEW T \in SUBSET (Trigger \ {"TIME_LIMIT"}), T # {}, FirstTrigger(T) \notin BlobCutOffTriggers
    PROVE  T \cap BlobCutOffTriggers = {}
  <1>1. FirstTrigger(T) \in T /\ \A u \in T : Priority[FirstTrigger(T)] <= Priority[u]
    BY FirstTriggerType
  <1>2. FirstTrigger(T) \in {"TRACES_LIMIT", "BLOCKS_LIMIT"}
    BY <1>1 DEF Trigger, BlobCutOffTriggers
  <1>3. Priority[FirstTrigger(T)] \in {6, 8}
    BY <1>2, SMTT(30) DEF Priority
  <1> SUFFICES ASSUME NEW u \in T, u \in BlobCutOffTriggers PROVE FALSE
    OBVIOUS
  <1>4. u \in {"DATA_LIMIT", "TARGET_BLOCK_NUMBER", "HARD_FORK"}
    BY DEF BlobCutOffTriggers
  <1>5. Priority[u] \in {1, 4, 5}
    BY <1>4, SMTT(30) DEF Priority
  <1>6. Priority[FirstTrigger(T)] <= Priority[u]
    BY <1>1
  <1> QED
    BY <1>3, <1>5, <1>6, SMTT(30)

\* A block that triggers the end of the open batch.
LEMMA CutBatchCalculators ==
    ASSUME BatchIInv, BatchIInv', Calculators, BlobLocking, ConflateBlock,
           Triggers(importer.block) # {}, inflight.start # None
    PROVE  Calculators' /\ BlobLocking'
  <1> DEFINE T == Triggers(importer.block)
             trigger == FirstTrigger(T)
  <1>1. /\ importer.pc = "conflate" /\ owner' = [owner EXCEPT !["batch"] = "importer"]
        /\ HandleBatchTrigger(Batch(trigger)) /\ inflight' = EmptyInflight
        /\ importer' = [importer EXCEPT !.pc = "reset"] /\ UNCHANGED check
    BY DEF ConflateBlock
  <1>2. /\ owner \in [Lock -> Thread \cup {None}]
        /\ importer \in [pc : {"idle", "send", "conflate", "reset", "append"}, block : Block \cup {None}]
    BY DEF BatchIInv, TypeOK
  <1>3. importer'.pc = "reset" /\ importer'.block = importer.block /\ owner'["blob"] = owner["blob"]
    BY <1>1, <1>2 DEF Lock
  <1>4. IsImporting /\ IsImporting' /\ IsAppending'
    BY <1>1, <1>3 DEF IsImporting, IsAppending
  <1>5. T \in SUBSET (Trigger \ {"TIME_LIMIT"}) /\ T # {}
    BY DEF Triggers
  <1>6. trigger \in Trigger
    BY <1>5, FirstTriggerType
  <1>7. BlobLocking'
    BY <1>1, <1>3, <1>4 DEF BlobLocking
  <1> HIDE DEF trigger, T
  <1>8. CASE ClosesBlob(trigger, Append(blob.batches, Batch(trigger)))
    BY <1>1, <1>3, <1>4, <1>6, <1>7, <1>8, ClosesTheBlob
  <1>9. CASE ~ ClosesBlob(trigger, Append(blob.batches, Batch(trigger)))
    <2>1. trigger \notin BlobCutOffTriggers
      BY <1>9 DEF ClosesBlob
    <2>2. T \cap BlobCutOffTriggers = {}
      BY <1>5, <2>1, BlobTriggersComeFirst DEF trigger
    <2>3. "HARD_FORK" \notin T /\ "TARGET_BLOCK_NUMBER" \notin T
      BY <2>2 DEF BlobCutOffTriggers
    <2>4. ~ StartsBlob(importer.block)
      BY <2>3, TriggersMean DEF T, StartsBlob
    <2> QED
      BY <1>1, <1>3, <1>4, <1>6, <1>7, <1>9, <2>4, KeepsTheBlob
  <1> QED
    BY <1>8, <1>9

\* The deadline closes the batch and, with it, the blob.
LEMMA CloseByDeadlineCalculators ==
    ASSUME BatchIInv, BatchIInv', Calculators, BlobLocking, NEW d \in DeadlineChecks, CloseByDeadline(d)
    PROVE  Calculators' /\ BlobLocking'
  <1>1. /\ check[d].pc = "blob" /\ HandleBatchTrigger(Batch("TIME_LIMIT")) /\ inflight' = EmptyInflight
        /\ owner' = [owner EXCEPT !["blob"] = None]
        /\ check' = [check EXCEPT ![d].pc = "closed"] /\ importer' = importer
    BY DEF CloseByDeadline
  <1>2. /\ inflight.start # None /\ owner["blob"] = d
        /\ \A e \in DeadlineChecks : check[e].pc = "blob" => e = d
    BY <1>1 DEF BatchIInv, Locking, BlobLocking
  <1>3. ~ IsImporting /\ ~ IsImporting'
    BY <1>1, <1>2, ConstantsAssumption DEF BlobLocking, IsImporting
  <1>4. "TIME_LIMIT" \in Trigger /\ ClosesBlob("TIME_LIMIT", Append(blob.batches, Batch("TIME_LIMIT")))
    BY DEF Trigger, ClosesBlob, BlobCutOffTriggers
  <1>5. Calculators'
    BY <1>1, <1>2, <1>3, <1>4, ClosesTheBlob
  <1>6. \A e \in DeadlineChecks : check'[e].pc # "blob"
    <2>1. check \in [DeadlineChecks ->
                        [pc : {"idle", "requested", "trigger", "batch", "blob", "closed", "reset"},
                         head : 0..MaxBlock, inline : BOOLEAN]]
      BY DEF BatchIInv, TypeOK
    <2> QED
      BY <1>1, <1>2, <2>1, SMTT(30)
  <1> QED
    BY <1>3, <1>5, <1>6 DEF BlobLocking

\* The other steps of a deadline check touch locks only.
LEMMA CheckCalculators ==
    ASSUME BatchIInv, Calculators, BlobLocking, NEW d \in DeadlineChecks,
           \/ CheckConflationDeadline(d) \/ FindNoMoreBlocks(d) \/ GiveUpCheck(d)
           \/ HandleConflationTrigger(d) \/ EnterBlobCalculator(d) \/ ResetByDeadline(d) \/ FinishCheck(d)
    PROVE  Calculators' /\ BlobLocking'
  <1>1. UNCHANGED <<service, importer, inflight, compressor, blob, targets, batches, blobs>>
    BY DEF CheckConflationDeadline, FindNoMoreBlocks, GiveUpCheck, HandleConflationTrigger,
           EnterBlobCalculator, ResetByDeadline, FinishCheck, calculatorVars, out
  <1>2. OpenBlocks' = OpenBlocks /\ (IsImporting' <=> IsImporting) /\ (IsAppending' <=> IsAppending)
    BY <1>1 DEF OpenBlocks, IsImporting, IsAppending
  <1>3. Calculators'
    BY <1>1, <1>2, CalculatorsFrame
  <1>4. /\ owner \in [Lock -> Thread \cup {None}]
        /\ check \in [DeadlineChecks ->
                        [pc : {"idle", "requested", "trigger", "batch", "blob", "closed", "reset"},
                         head : 0..MaxBlock, inline : BOOLEAN]]
    BY DEF BatchIInv, TypeOK
  <1>5. CASE EnterBlobCalculator(d)
    <2>1. /\ owner["blob"] = None /\ owner' = [owner EXCEPT !["blob"] = d]
          /\ check' = [check EXCEPT ![d].pc = "blob"]
      BY <1>5 DEF EnterBlobCalculator
    <2>2. d # None /\ "importer" # None /\ None \notin DeadlineChecks
      BY ConstantsAssumption
    <2>3. ~ IsImporting /\ \A e \in DeadlineChecks : check[e].pc # "blob"
      BY <2>1, <2>2 DEF BlobLocking
    <2>4. owner'["blob"] = d /\ \A e \in DeadlineChecks : e # d => check'[e] = check[e]
      BY <1>4, <2>1 DEF Lock
    <2> QED
      BY <1>2, <1>3, <2>3, <2>4 DEF BlobLocking
  <1>6. CASE ~ EnterBlobCalculator(d)
    <2>1. owner'["blob"] = owner["blob"]
      BY <1>4, <1>6, SMTT(30) DEF CheckConflationDeadline, FindNoMoreBlocks, GiveUpCheck,
                         HandleConflationTrigger, ResetByDeadline, FinishCheck, Lock
    <2>2. \A e \in DeadlineChecks : check'[e].pc = "blob" => check[e].pc = "blob"
      BY <1>4, <1>6, SMTT(30) DEF CheckConflationDeadline, FindNoMoreBlocks, GiveUpCheck,
                         HandleConflationTrigger, ResetByDeadline, FinishCheck, NoCheck
    <2> QED
      BY <1>2, <1>3, <2>1, <2>2 DEF BlobLocking
  <1> QED
    BY <1>5, <1>6

\* The chain, its import and the deadline are not read by what the invariant says of the calculators.
LEMMA OtherCalculators ==
    ASSUME BatchIInv, Calculators, BlobLocking,
           \/ ProduceBlock \/ Reorg \/ MonitorAction \/ FailTracesCounters
           \/ ResetDeadline \/ UNCHANGED vars
    PROVE  Calculators' /\ BlobLocking'
  <1>1. UNCHANGED <<service, check, owner, inflight, compressor, blob, targets, batches, blobs>>
    BY DEF ProduceBlock, Reorg, MonitorAction, FailTracesCounters, ResetDeadline, vars, calculatorVars, out
  <1>2. /\ importer'.block = importer.block
        /\ \/ importer'.pc = importer.pc
           \/ importer.pc = "reset" /\ importer'.pc = "append"
    <2>1. importer \in [pc : {"idle", "send", "conflate", "reset", "append"}, block : Block \cup {None}]
      BY DEF BatchIInv, TypeOK
    <2>2. CASE ResetDeadline
      BY <2>1, <2>2 DEF ResetDeadline
    <2>3. CASE ~ ResetDeadline
      <3>1. importer' = importer
        BY <2>3 DEF ProduceBlock, Reorg, MonitorAction, FailTracesCounters, vars
      <3> QED
        BY <3>1
    <2> QED
      BY <2>2, <2>3
  <1>3. OpenBlocks' = OpenBlocks /\ (IsImporting' <=> IsImporting) /\ (IsAppending' <=> IsAppending)
    BY <1>1, <1>2 DEF OpenBlocks, IsImporting, IsAppending
  <1>4. Calculators'
    BY <1>1, <1>2, <1>3, CalculatorsFrame
  <1>5. BlobLocking'
    BY <1>1, <1>3 DEF BlobLocking
  <1> QED
    BY <1>4, <1>5

(* The theorems ************************************************************)

\* Nothing was conflated yet.
LEMMA InitConflation == Init => IInv
  <1> SUFFICES ASSUME Init PROVE IInv
    OBVIOUS
  <1>1. /\ importer.pc = "idle" /\ service.inProgress = {} /\ inflight.last = 0 /\ inflight.start = None
        /\ inflight.count = 0 /\ inflight.traces = 0 /\ blob.batches = <<>> /\ blob.counters = <<>>
        /\ compressor = [blocks |-> <<>>, size |-> 0, drained |-> FALSE]
        /\ blob = [batches |-> <<>>, counters |-> <<>>]
        /\ compressor.blocks = <<>> /\ compressor.size = 0
        /\ targets \subseteq TargetEndBlocks /\ batches = <<>> /\ blobs = <<>>
        /\ \A d \in DeadlineChecks : check[d].pc = "idle"
    BY DEF Init, Idle, NoCheck, EmptyCompressor
  <1>2. BatchIInv
    BY InitIInv
  <1>3. ~ IsImporting /\ ~ IsAppending /\ LastProvable = 0 /\ OpenBlocks = {}
    BY <1>1 DEF IsImporting, IsAppending, LastProvable, OpenBlocks
  <1>4. BlobStart = 1
    BY <1>1, <1>3, SMTT(30) DEF BlobStart
  <1>5. /\ DOMAIN batches = {} /\ DOMAIN blobs = {} /\ Len(<<>>) = 0 /\ 0 - 1 + 1 = 0 /\ 1..0 = {}
        /\ DOMAIN blob.batches = {} /\ DOMAIN blob.counters = {} /\ DOMAIN compressor.blocks = {}
        /\ \A S : <<>> \in Seq(S)
    BY <1>1, SMTT(30)
  <1>6. Conflated = {} /\ BlocksOf(blob.batches) = {}
    BY <1>5 DEF Conflated, BlocksOf
  <1>7. CalculatorTypes
    <2>1. 0 \in 0..DataLimit /\ targets \subseteq Nat
      BY <1>1, ConstantsAssumption, SMTT(30)
    <2> QED
      BY <1>1, <1>5, <2>1 DEF CalculatorTypes
  <1>8. BlobLocking
    BY <1>1, <1>3 DEF BlobLocking
  <1>9. OpenBlobFollows
    <2>1. 0 < BatchesLimit /\ 1 \in 1..0 + 1
      BY ConstantsAssumption, SMTT(30)
    <2> QED
      BY <1>1, <1>3, <1>4, <1>5, <2>1 DEF OpenBlobFollows
  <1>10. CountersFollow /\ CompressorFollows
    BY <1>1, <1>3, <1>4, <1>5 DEF CountersFollow, CompressorFollows
  <1>11. OpenBatchFits /\ OpenForksAndTargets
    BY <1>1, <1>3, <1>6 DEF OpenBatchFits, OpenForksAndTargets
  <1>12. BlobsAreConflated /\ LimitsAreKept /\ ForksAndTargetsStartBlobs
    BY <1>5, <1>6 DEF BlobsAreConflated, LimitsAreKept, ForksAndTargetsStartBlobs
  <1>13. BlobsHoldTheirBatches
    <2>1. <<>> \o <<>> = <<>>
      BY SMTT(30)
    <2> QED
      BY <1>1, <1>5, <2>1, NoBlobs DEF BlobsHoldTheirBatches
  <1> QED
    BY <1>2, <1>7, <1>8, <1>9, <1>10, <1>11, <1>12, <1>13 DEF IInv

\* Every step keeps the calculators in agreement.
LEMMA NextConflation == IInv /\ [Next]_vars => IInv'
  <1> SUFFICES ASSUME IInv, [Next]_vars PROVE IInv'
    OBVIOUS
  <1>1. BatchIInv /\ Calculators /\ BlobLocking
    BY DEF IInv, Calculators
  <1>2. BatchIInv'
    BY <1>1, NextIInv
  <1>3. Calculators' /\ BlobLocking'
    <2>1. CASE ProduceBlock \/ Reorg \/ MonitorAction \/ FailTracesCounters \/ ResetDeadline \/ UNCHANGED vars
      BY <1>1, <2>1, OtherCalculators
    <2>2. CASE NewBlock
      BY <1>1, <2>2, NewBlockCalculators
    <2>3. CASE EnterNewBlock
      BY <1>1, <2>3, EnterNewBlockCalculators
    <2>4. CASE ConflateBlock
      BY <1>1, <1>2, <2>4, PassBlockCalculators, CutBatchCalculators
    <2>5. CASE AppendBlock
      BY <1>1, <2>5, AppendBlockCalculators
    <2>6. ASSUME NEW d \in DeadlineChecks,
                 CheckConflationDeadline(d) \/ FindNoMoreBlocks(d) \/ GiveUpCheck(d) \/ Proceed(d)
          PROVE  Calculators' /\ BlobLocking'
      BY <1>1, <1>2, <2>6, CheckCalculators, CloseByDeadlineCalculators DEF Proceed
    <2> QED
      BY <2>1, <2>2, <2>3, <2>4, <2>5, <2>6 DEF Next, Import
  <1> QED
    BY <1>2, <1>3 DEF IInv, Calculators

\* In every reachable state of conflation the calculators agree on the open batch and the open
\* blob, whatever the limits, the blocks and the number of deadline checks.
THEOREM CalculatorsAgree == Spec => []IInv
  BY InitConflation, NextConflation, PTL DEF Spec

\* Blobs consist of the batches in order, and hold the blocks of their batches, each once.
THEOREM BlobsAreTheirBatches == Spec => []BlobsHoldTheirBatches
  <1>1. IInv => BlobsHoldTheirBatches
    BY DEF IInv
  <1> QED
    BY <1>1, CalculatorsAgree, PTL

\* No batch exceeds the limits on blocks and traces, no blob those on data and batches.
THEOREM ConflationKeepsLimits == Spec => []LimitsAreKept
  <1>1. IInv => LimitsAreKept
    BY DEF IInv
  <1> QED
    BY <1>1, CalculatorsAgree, PTL

\* Hard forks and the blocks after the end of an aggregation start a batch and a blob.
THEOREM ForksStartBlobs == Spec => []ForksAndTargetsStartBlobs
  <1>1. IInv => ForksAndTargetsStartBlobs
    BY DEF IInv
  <1> QED
    BY <1>1, CalculatorsAgree, PTL

\* The second half of conflateBlock never throws, even when a deadline check closed the batch or
\* the blob between two blocks.
THEOREM AppendSucceeds == Spec => []AppendNeverThrows
  <1>1. IInv => AppendNeverThrows
    <2> SUFFICES ASSUME IInv, importer.pc = "append" PROVE AppendNeverThrows
      BY DEF AppendNeverThrows
    <2>1. IsImporting /\ IsAppending /\ BatchIInv /\ CalculatorTypes
      BY DEF IsImporting, IsAppending, IInv
    <2>2. importer.block.number = inflight.last + 1
      BY <2>1, BlockUnderWay
    <2>3. /\ Len(blob.counters) = (inflight.last + 1) - BlobStart + 1
          /\ \A i \in DOMAIN blob.counters : blob.counters[i].number = BlobStart + i - 1
          /\ blob.counters[Len(blob.counters)] = importer.block
      BY <2>1 DEF IInv, CountersFollow
    <2>4. LastProvable \in Int /\ inflight.last \in Nat /\ blob.counters \in Seq(Block)
      BY <2>1, CalculatorNumbers
    <2>5. LastProvable <= inflight.last
      <3>1. IF inflight.start = None THEN inflight.last = LastProvable
            ELSE inflight.start = LastProvable + 1 /\ inflight.start <= inflight.last
        BY <2>1 DEF BatchIInv, OpenBatchFollows
      <3>2. CASE inflight.start = None
        BY <3>1, <3>2, <2>4, SMTT(30)
      <3>3. CASE inflight.start # None
        <4>1. LastProvable + 1 <= inflight.last
          BY <3>1, <3>3
        <4> QED
          BY <4>1, <2>4, SMTT(30)
      <3> QED
        BY <3>2, <3>3
    <2>6. BlobStart \in Int /\ BlobStart <= LastProvable + 1
      <3>1. BlobStart \in 1..LastProvable + 1
        BY DEF IInv, OpenBlobFollows
      <3> QED
        BY <3>1, <2>4, SMTT(30)
    <2>7. 1 \in DOMAIN blob.counters
      BY <2>3, <2>4, <2>5, <2>6, SMTT(30)
    <2>8. blob.counters[1].number = BlobStart
      <3>1. blob.counters[1].number = BlobStart + 1 - 1
        BY <2>3, <2>7
      <3> QED
        BY <3>1, <2>6, SMTT(30)
    <2>9. Len(blob.counters) = importer.block.number - blob.counters[1].number + 1
      BY <2>2, <2>3, <2>8
    <2>10. /\ CanAppendBlock(compressor, importer.block) /\ inflight.count < BlocksLimit
           /\ inflight.count > 0 => ~ AreTracesOverLimit(importer.block)
      BY <2>1 DEF IInv, OpenBatchFits
    <2> QED
      BY <2>3, <2>8, <2>9, <2>10 DEF AppendNeverThrows, BlobStart
  <1> QED
    BY <1>1, CalculatorsAgree, PTL

=============================================================================
