---------------------------- MODULE LruArrayProofs ----------------------------
(***************************************************************************)
(* Proofs about lpt::lru_array for any keys, values and size, any number   *)
(* of pushes, and a clock that may stand still and be set back: LruArray   *)
(* as MCTracing's instance Array.                                          *)
(***************************************************************************)
EXTENDS MCTracing, FiniteSetTheorems, SequenceTheorems, TLAPS

\* The instance's Cardinality is that of FiniteSets.
LEMMA ArrayCardinality == \A S : Array!Cardinality(S) = Cardinality(S)
  BY DEF Cardinality, Array!Cardinality, IsFiniteSet, Array!IsFiniteSet

(***************************************************************************)
(* Sequences without repetitions.                                          *)
(***************************************************************************)

Unique(s) == \A i, j \in 1 .. Len(s) : s[i] = s[j] => i = j

LEMMA ItemsOfSeq ==
  ASSUME NEW S, NEW s \in Seq(S)
  PROVE  \A x : x \in Array!Range(s) <=> \E i \in 1 .. Len(s) : s[i] = x
  <1>1. DOMAIN s = 1 .. Len(s)
    BY LenProperties
  <1>2. \A x : x \in Array!Range(s) <=> \E i \in DOMAIN s : s[i] = x
    BY Zenon DEF Array!Range
  <1>3. QED
    BY <1>1, <1>2, Zenon

LEMMA Joined ==
  ASSUME NEW S, NEW s, s \in Seq(S), NEW t, t \in Seq(S), NEW u, u = s \o t
  PROVE  /\ u \in Seq(S) /\ Len(u) = Len(s) + Len(t)
         /\ \A i \in 1 .. Len(s) + Len(t) : u[i] = IF i <= Len(s) THEN s[i] ELSE t[i - Len(s)]
  BY ConcatProperties, Zenon

LEMMA InsertElements ==
  ASSUME NEW S, NEW s \in Seq(S), NEW e \in S, NEW n \in 1 .. Len(s) + 1
  PROVE  /\ Array!InsertAt(s, n, e) \in Seq(S) /\ Len(Array!InsertAt(s, n, e)) = Len(s) + 1
         /\ \A i \in 1 .. Len(s) + 1 : Array!InsertAt(s, n, e)[i] = IF i < n THEN s[i] ELSE IF i = n THEN e ELSE s[i - 1]
  <1>1. Len(s) \in Nat /\ n - 1 \in Int /\ n \in Int /\ \A i \in 1 .. Len(s) : s[i] \in S
    BY LenProperties, ElementOfSeq
  <1>2. PICK front : front = SubSeq(s, 1, n - 1)
    OBVIOUS
  <1>3. PICK back : back = SubSeq(s, n, Len(s))
    OBVIOUS
  <1>4. \A i \in 1 .. n - 1 : s[i] \in S
    BY <1>1
  <1>5. \A i \in n .. Len(s) : s[i] \in S
    BY <1>1
  <1>6. front \in Seq(S) /\ Len(front) = n - 1 /\ \A i \in 1 .. n - 1 : front[i] = s[i]
    BY <1>1, <1>2, <1>4, SubSeqProperties
  <1>7. back \in Seq(S) /\ Len(back) = Len(s) + 1 - n /\ \A i \in 1 .. Len(s) + 1 - n : back[i] = s[n + i - 1]
    BY <1>1, <1>3, <1>5, SubSeqProperties
  <1>8. PICK one : one = <<e>>
    OBVIOUS
  <1>9. one \in Seq(S) /\ Len(one) = 1 /\ one[1] = e
    BY <1>8
  <1>10. PICK left : left = front \o one
    OBVIOUS
  <1>11. left \in Seq(S) /\ Len(left) = n /\ \A i \in 1 .. n : left[i] = IF i < n THEN s[i] ELSE e
    <2>1. /\ left \in Seq(S) /\ Len(left) = Len(front) + Len(one)
          /\ \A i \in 1 .. Len(front) + Len(one) : left[i] = IF i <= Len(front) THEN front[i] ELSE one[i - Len(front)]
      <3>1. front \in Seq(S) /\ one \in Seq(S) /\ left = front \o one
        BY <1>6, <1>9, <1>10
      <3>2. QED
        BY <3>1, Joined
    <2>2. QED
      BY <1>1, <1>6, <1>9, <2>1
  <1>12. PICK whole : whole = left \o back
    OBVIOUS
  <1>13. /\ whole \in Seq(S) /\ Len(whole) = Len(s) + 1
         /\ \A i \in 1 .. Len(s) + 1 : whole[i] = IF i <= n THEN left[i] ELSE back[i - n]
    <2>1. /\ whole \in Seq(S) /\ Len(whole) = Len(left) + Len(back)
          /\ \A i \in 1 .. Len(left) + Len(back) : whole[i] = IF i <= Len(left) THEN left[i] ELSE back[i - Len(left)]
      <3>1. left \in Seq(S) /\ back \in Seq(S) /\ whole = left \o back
        BY <1>7, <1>11, <1>12
      <3>2. QED
        BY <3>1, Joined
    <2>2. QED
      BY <1>1, <1>7, <1>11, <2>1
  <1>14. Array!InsertAt(s, n, e) = whole
    BY <1>2, <1>3, <1>8, <1>10, <1>12 DEF Array!InsertAt
  <1>15. ASSUME NEW i \in 1 .. Len(s) + 1
         PROVE  whole[i] = IF i < n THEN s[i] ELSE IF i = n THEN e ELSE s[i - 1]
    <2>1. CASE i <= n
      BY <1>1, <1>11, <1>13, <2>1
    <2>2. CASE ~(i <= n)
      <3>1. i - n \in 1 .. Len(s) + 1 - n /\ n + (i - n) - 1 = i - 1
        BY <1>1, <2>2
      <3>2. QED
        BY <1>1, <1>7, <1>13, <2>2, <3>1
    <2>3. QED
      BY <2>1, <2>2
  <1>16. QED
    BY <1>13, <1>14, <1>15

LEMMA RemoveElements ==
  ASSUME NEW S, NEW s \in Seq(S), NEW n \in 1 .. Len(s)
  PROVE  /\ Array!RemoveAt(s, n) \in Seq(S) /\ Len(Array!RemoveAt(s, n)) = Len(s) - 1
         /\ \A i \in 1 .. Len(s) - 1 : Array!RemoveAt(s, n)[i] = IF i < n THEN s[i] ELSE s[i + 1]
  <1>1. Len(s) \in Nat /\ n - 1 \in Int /\ n + 1 \in Int /\ n \in Int /\ \A i \in 1 .. Len(s) : s[i] \in S
    BY LenProperties, ElementOfSeq
  <1>2. PICK front : front = SubSeq(s, 1, n - 1)
    OBVIOUS
  <1>3. PICK back : back = SubSeq(s, n + 1, Len(s))
    OBVIOUS
  <1>4. \A i \in 1 .. n - 1 : s[i] \in S
    BY <1>1
  <1>5. \A i \in n + 1 .. Len(s) : s[i] \in S
    BY <1>1
  <1>6. front \in Seq(S) /\ Len(front) = n - 1 /\ \A i \in 1 .. n - 1 : front[i] = s[i]
    BY <1>1, <1>2, <1>4, SubSeqProperties
  <1>7. back \in Seq(S) /\ Len(back) = Len(s) - n /\ \A i \in 1 .. Len(s) - n : back[i] = s[n + i]
    BY <1>1, <1>3, <1>5, SubSeqProperties
  <1>8. PICK whole : whole = front \o back
    OBVIOUS
  <1>9. /\ whole \in Seq(S) /\ Len(whole) = Len(s) - 1
        /\ \A i \in 1 .. Len(s) - 1 : whole[i] = IF i <= n - 1 THEN front[i] ELSE back[i - (n - 1)]
    <2>1. /\ whole \in Seq(S) /\ Len(whole) = Len(front) + Len(back)
          /\ \A i \in 1 .. Len(front) + Len(back) : whole[i] = IF i <= Len(front) THEN front[i] ELSE back[i - Len(front)]
      <3>1. front \in Seq(S) /\ back \in Seq(S) /\ whole = front \o back
        BY <1>6, <1>7, <1>8
      <3>2. QED
        BY <3>1, Joined
    <2>2. QED
      BY <1>1, <1>6, <1>7, <2>1
  <1>10. Array!RemoveAt(s, n) = whole
    BY <1>2, <1>3, <1>8 DEF Array!RemoveAt
  <1>11. ASSUME NEW i \in 1 .. Len(s) - 1
         PROVE  whole[i] = IF i < n THEN s[i] ELSE s[i + 1]
    <2>1. CASE i < n
      BY <1>1, <1>6, <1>9, <2>1
    <2>2. CASE ~(i < n)
      <3>1. i - (n - 1) \in 1 .. Len(s) - n /\ n + (i - (n - 1)) = i + 1 /\ ~(i <= n - 1)
        BY <1>1, <2>2
      <3>2. QED
        BY <1>7, <1>9, <2>2, <3>1
    <2>3. QED
      BY <2>1, <2>2
  <1>12. QED
    BY <1>9, <1>10, <1>11

\* An element that is not there, anywhere.
LEMMA InsertItem ==
  ASSUME NEW S, NEW s \in Seq(S), Unique(s), NEW e \in S, e \notin Array!Range(s), NEW n \in 1 .. Len(s) + 1
  PROVE  /\ Array!InsertAt(s, n, e) \in Seq(S) /\ Len(Array!InsertAt(s, n, e)) = Len(s) + 1
         /\ Unique(Array!InsertAt(s, n, e)) /\ Array!Range(Array!InsertAt(s, n, e)) = Array!Range(s) \cup {e}
  <1> DEFINE r == Array!InsertAt(s, n, e)
  <1>1. /\ r \in Seq(S) /\ Len(r) = Len(s) + 1 /\ Len(s) \in Nat
        /\ \A i \in 1 .. Len(s) + 1 : r[i] = IF i < n THEN s[i] ELSE IF i = n THEN e ELSE s[i - 1]
    BY InsertElements, LenProperties
  <1> HIDE DEF r
  <1>0. /\ \A x : x \in Array!Range(s) <=> \E i \in 1 .. Len(s) : s[i] = x
        /\ \A x : x \in Array!Range(r) <=> \E i \in 1 .. Len(s) + 1 : r[i] = x
    <2>1. \A x : x \in Array!Range(r) <=> \E i \in 1 .. Len(r) : r[i] = x
      BY <1>1, ItemsOfSeq, Zenon
    <2>2. QED
      BY <1>1, <2>1, ItemsOfSeq, Zenon
  <1>2. \A i \in 1 .. Len(s) : s[i] # e
    BY <1>0, Zenon
  <1>3. Unique(r)
    <2> SUFFICES ASSUME NEW i \in 1 .. Len(s) + 1, NEW j \in 1 .. Len(s) + 1, r[i] = r[j], i < j PROVE FALSE
      BY <1>1 DEF Unique
    <2> DEFINE from(m) == IF m < n THEN m ELSE m - 1
    <2>1. CASE i = n \/ j = n
      <3>1. CASE i = n
        <4>1. r[i] = e /\ r[j] = s[j - 1] /\ j - 1 \in 1 .. Len(s)
          BY <1>1, <3>1
        <4>2. QED
          BY <1>2, <4>1
      <3>2. CASE j = n
        <4>1. r[j] = e /\ r[i] = s[i] /\ i \in 1 .. Len(s)
          BY <1>1, <3>2
        <4>2. QED
          BY <1>2, <4>1
      <3>3. QED
        BY <2>1, <3>1, <3>2
    <2>2. CASE i # n /\ j # n
      <3>1. from(i) \in 1 .. Len(s) /\ from(j) \in 1 .. Len(s) /\ r[i] = s[from(i)] /\ r[j] = s[from(j)]
        BY <1>1, <2>2
      <3>2. from(i) # from(j)
        BY <1>1, <2>2
      <3>3. QED
        BY <3>1, <3>2 DEF Unique
    <2>3. QED
      BY <2>1, <2>2
  <1>4. Array!Range(r) = Array!Range(s) \cup {e}
    <2>1. ASSUME NEW x \in Array!Range(r) PROVE x \in Array!Range(s) \cup {e}
      <3>1. PICK i \in 1 .. Len(s) + 1 : x = r[i]
        BY <1>0, Zenon
      <3>2. CASE i = n
        BY <1>1, <3>1, <3>2
      <3>3. CASE i # n
        <4>1. PICK m \in 1 .. Len(s) : x = s[m]
          <5>1. CASE i < n
            <6>1. i \in 1 .. Len(s) /\ r[i] = s[i]
              BY <1>1, <5>1
            <6>2. QED
              BY <3>1, <6>1
          <5>2. CASE ~(i < n)
            <6>1. i - 1 \in 1 .. Len(s) /\ r[i] = s[i - 1]
              BY <1>1, <3>3, <5>2
            <6>2. QED
              BY <3>1, <6>1
          <5>3. QED
            BY <5>1, <5>2
        <4>2. QED
          BY <1>0, <4>1, Zenon
      <3>4. QED
        BY <3>2, <3>3
    <2>2. e \in Array!Range(r)
      <3>1. n \in 1 .. Len(s) + 1 /\ r[n] = e
        BY <1>1
      <3>2. QED
        BY <1>0, <3>1, Zenon
    <2>3. ASSUME NEW x \in Array!Range(s) PROVE x \in Array!Range(r)
      <3>1. PICK i \in 1 .. Len(s) : x = s[i]
        BY <1>0, Zenon
      <3>2. \E m \in 1 .. Len(s) + 1 : r[m] = x
        <4>1. CASE i < n
          <5>1. i \in 1 .. Len(s) + 1 /\ r[i] = x
            BY <1>1, <3>1, <4>1
          <5>2. QED
            BY <5>1
        <4>2. CASE ~(i < n)
          <5>1. i + 1 \in 1 .. Len(s) + 1 /\ r[i + 1] = x
            BY <1>1, <3>1, <4>2
          <5>2. QED
            BY <5>1
        <4>3. QED
          BY <4>1, <4>2
      <3>3. QED
        BY <1>0, <3>2, Zenon
    <2>4. QED
      BY <2>1, <2>2, <2>3
  <1>5. QED
    BY <1>1, <1>3, <1>4 DEF r

LEMMA RemoveItem ==
  ASSUME NEW S, NEW s \in Seq(S), Unique(s), NEW n \in 1 .. Len(s)
  PROVE  /\ Array!RemoveAt(s, n) \in Seq(S) /\ Len(Array!RemoveAt(s, n)) = Len(s) - 1
         /\ Unique(Array!RemoveAt(s, n)) /\ Array!Range(Array!RemoveAt(s, n)) = Array!Range(s) \ {s[n]}
  <1> DEFINE r == Array!RemoveAt(s, n)
  <1>1. /\ r \in Seq(S) /\ Len(r) = Len(s) - 1 /\ Len(s) \in Nat
        /\ \A i \in 1 .. Len(s) - 1 : r[i] = IF i < n THEN s[i] ELSE s[i + 1]
    BY RemoveElements, LenProperties
  <1> HIDE DEF r
  <1> DEFINE from(m) == IF m < n THEN m ELSE m + 1
  <1>2. \A i \in 1 .. Len(s) - 1 : from(i) \in 1 .. Len(s) /\ from(i) # n /\ r[i] = s[from(i)]
    BY <1>1
  <1>3. \A i, j \in 1 .. Len(s) - 1 : from(i) = from(j) => i = j
    BY <1>1
  <1>4. \A i \in 1 .. Len(s) : i # n => \E j \in 1 .. Len(s) - 1 : from(j) = i
    <2> SUFFICES ASSUME NEW i \in 1 .. Len(s), i # n PROVE \E j \in 1 .. Len(s) - 1 : from(j) = i
      OBVIOUS
    <2>1. CASE i < n
      <3>1. i \in 1 .. Len(s) - 1 /\ from(i) = i
        BY <1>1, <2>1
      <3>2. QED
        BY <3>1
    <2>2. CASE ~(i < n)
      <3>1. i - 1 \in 1 .. Len(s) - 1 /\ from(i - 1) = i
        BY <1>1, <2>2
      <3>2. QED
        BY <3>1
    <2>3. QED
      BY <2>1, <2>2
  <1> HIDE DEF from
  <1>5. Unique(r)
    BY <1>1, <1>2, <1>3 DEF Unique
  <1>6. Array!Range(r) = Array!Range(s) \ {s[n]}
    <2>1. /\ \A x : x \in Array!Range(r) <=> \E i \in 1 .. Len(s) - 1 : r[i] = x
          /\ \A x : x \in Array!Range(s) <=> \E i \in 1 .. Len(s) : s[i] = x
      <3>1. \A x : x \in Array!Range(r) <=> \E i \in 1 .. Len(r) : r[i] = x
        BY <1>1, ItemsOfSeq, Zenon
      <3>2. QED
        BY <1>1, <3>1, ItemsOfSeq, Zenon
    <2>2. \A x \in Array!Range(r) : x \in Array!Range(s) /\ x # s[n]
      BY <1>2, <2>1 DEF Unique
    <2>3. ASSUME NEW x \in Array!Range(s), x # s[n] PROVE x \in Array!Range(r)
      <3>1. PICK i \in 1 .. Len(s) : s[i] = x
        BY <2>1, Zenon
      <3>2. PICK j \in 1 .. Len(s) - 1 : from(j) = i
        BY <1>4, <2>3, <3>1, Zenon
      <3>3. r[j] = x
        BY <1>2, <3>1, <3>2, Zenon
      <3>4. QED
        BY <2>1, <3>3, Zenon
    <2>4. QED
      BY <2>2, <2>3
  <1>7. QED
    BY <1>1, <1>5, <1>6 DEF r

-----------------------------------------------------------------------------
(***************************************************************************)
(* The two indexes.                                                        *)
(***************************************************************************)

\* insert() and erase() on the index by time.
LEMMA InsertByTime ==
  ASSUME NEW s \in Seq(Array!IdxItem), Unique(s), NEW e \in Array!IdxItem, e \notin Array!Range(s)
  PROVE  /\ Array!Insert(s, e) \in Seq(Array!IdxItem) /\ Len(Array!Insert(s, e)) = Len(s) + 1
         /\ Unique(Array!Insert(s, e)) /\ Array!Range(Array!Insert(s, e)) = Array!Range(s) \cup {e}
  <1> DEFINE earlier == {i \in DOMAIN s : s[i].stamp <= e.stamp}
  <1>1. earlier \in SUBSET (1 .. Len(s)) /\ Len(s) \in Nat
    OBVIOUS
  <1>2. IsFiniteSet(1 .. Len(s)) /\ Cardinality(1 .. Len(s)) = Len(s)
    BY <1>1, FS_Interval
  <1> HIDE DEF earlier
  <1>3. IsFiniteSet(earlier) /\ Cardinality(earlier) <= Len(s)
    BY <1>1, <1>2, FS_Subset
  <1>4. Cardinality(earlier) \in Nat
    BY <1>3, FS_CardinalityType
  <1>5. Cardinality(earlier) + 1 \in 1 .. Len(s) + 1
    BY <1>1, <1>3, <1>4
  <1>6. Array!Insert(s, e) = Array!InsertAt(s, Cardinality(earlier) + 1, e)
    BY ArrayCardinality DEF Array!Insert, earlier
  <1>7. QED
    BY <1>5, <1>6, InsertItem

\* The item erased is the one with that key.
LEMMA EraseIsRemove ==
  ASSUME NEW s \in Seq(Array!IdxItem), Unique(s), NEW item \in Array!Range(s),
         \A x \in Array!Range(s) : x.key = item.key => x = item
  PROVE  \E n \in 1 .. Len(s) : s[n] = item /\ Array!Erase(s, item.stamp, item.key) = Array!RemoveAt(s, n)
  <1>0. \A x : x \in Array!Range(s) <=> \E i \in 1 .. Len(s) : s[i] = x
    BY ItemsOfSeq, Zenon
  <1>1. PICK n \in 1 .. Len(s) : item = s[n]
    BY <1>0, Zenon
  <1>2. ASSUME NEW i \in 1 .. Len(s)
        PROVE  s[i].stamp = item.stamp /\ s[i].key = item.key <=> i = n
    <2>1. s[i].key = item.key => s[i] = item
      BY <1>0, Zenon
    <2>2. s[i] = item => i = n
      BY <1>1, Zenon DEF Unique
    <2>3. i = n => s[i] = item
      BY <1>1
    <2>4. QED
      BY <2>1, <2>2, <2>3, Zenon
  <1>3. {i \in 1 .. Len(s) : s[i].stamp = item.stamp /\ s[i].key = item.key} = {n}
    BY <1>1, <1>2
  <1>4. Array!Min({n}) = n
    BY DEF Array!Min
  <1>5. Array!SelectInSeq(s, LAMBDA x : x.stamp = item.stamp /\ x.key = item.key) = n
    BY <1>3, <1>4 DEF Array!SelectInSeq
  <1>6. Array!Erase(s, item.stamp, item.key) = Array!RemoveAt(s, n)
    BY <1>2, <1>5 DEF Array!Erase, Array!RemoveFirstMatch
  <1>7. QED
    BY <1>1, <1>6

LEMMA EraseItem ==
  ASSUME NEW s \in Seq(Array!IdxItem), Unique(s), NEW item \in Array!Range(s),
         \A x \in Array!Range(s) : x.key = item.key => x = item
  PROVE  LET r == Array!Erase(s, item.stamp, item.key) IN
         r \in Seq(Array!IdxItem) /\ Len(r) = Len(s) - 1 /\ Unique(r) /\ Array!Range(r) = Array!Range(s) \ {item}
  <1>1. PICK n \in 1 .. Len(s) : s[n] = item /\ Array!Erase(s, item.stamp, item.key) = Array!RemoveAt(s, n)
    BY EraseIsRemove
  <1>2. QED
    BY <1>1, RemoveItem

Types ==
  /\ data \in [Array!Indices -> Values] /\ numUsed \in 0 .. N /\ now \in Array!Times
  /\ idxLru \in Seq(Array!IdxItem) /\ DOMAIN idxData \subseteq Keys
  /\ \A k \in DOMAIN idxData : idxData[k] \in Array!IdxItem /\ idxData[k].key = k

\* Both indexes have the same items, once; these have different places, which
\* are the first numUsed ones.
Shared ==
  /\ Unique(idxLru) /\ Array!Range(idxLru) = {idxData[k] : k \in DOMAIN idxData}
  /\ \A k, l \in DOMAIN idxData : idxData[k].idx = idxData[l].idx => k = l
  /\ {idxData[k].idx : k \in DOMAIN idxData} = 0 .. numUsed - 1
  /\ Len(idxLru) = numUsed

LruInv == Types /\ Shared

\* The items of some keys stay, and one with another key and place is put in.
LEMMA PutStep ==
  ASSUME LruInv, NEW kept \in SUBSET DOMAIN idxData, NEW k \in Keys \ kept,
         NEW rest \in Seq(Array!IdxItem), Unique(rest), Array!Range(rest) = {idxData[l] : l \in kept},
         NEW item \in Array!IdxItem, item.key = k, \A l \in kept : idxData[l].idx # item.idx,
         idxLru' = Array!Insert(rest, item),
         DOMAIN idxData' = kept \cup {k}, idxData'[k] = item, \A l \in kept : idxData'[l] = idxData[l],
         {idxData[l].idx : l \in kept} \cup {item.idx} = 0 .. numUsed' - 1, Len(rest) + 1 = numUsed',
         data' \in [Array!Indices -> Values], numUsed' \in 0 .. N, now' \in Array!Times
  PROVE  LruInv'
  <1>1. item \notin Array!Range(rest)
    BY DEF LruInv, Types
  <1>2. /\ idxLru' \in Seq(Array!IdxItem) /\ Len(idxLru') = numUsed'
        /\ Unique(idxLru') /\ Array!Range(idxLru') = Array!Range(rest) \cup {item}
    BY <1>1, InsertByTime
  <1>3. Types'
    BY <1>2 DEF LruInv, Types, Array!Indices, Array!Times, Array!IdxItem
  <1>4. Array!Range(idxLru') = {idxData'[l] : l \in DOMAIN idxData'}
    BY <1>2
  <1>5. {idxData'[l].idx : l \in DOMAIN idxData'} = 0 .. numUsed' - 1
    BY <1>2
  <1>6. \A l, m \in DOMAIN idxData' : idxData'[l].idx = idxData'[m].idx => l = m
    BY DEF LruInv, Shared
  <1>7. QED
    BY <1>2, <1>3, <1>4, <1>5, <1>6 DEF LruInv, Shared

LEMMA NewItems ==
  ASSUME LruInv, NEW i \in Array!Indices, NEW k \in Keys
  PROVE  Array!NewItem(i, k) \in Array!IdxItem /\ Array!NewItem(i, k).idx = i /\ Array!NewItem(i, k).key = k
  BY DEF Array!NewItem, Array!IdxItem, LruInv, Types

\* A new key with room left.
LEMMA AddStep ==
  ASSUME LruInv, NEW k \in Keys, NEW v \in Values, Array!Add(k, v)
  PROVE  LruInv'
  <1> DEFINE keys == DOMAIN idxData
  <1>1. /\ k \notin keys /\ numUsed < N /\ numUsed' = numUsed + 1 /\ now' = now
        /\ data' = [data EXCEPT ![numUsed] = v]
        /\ idxLru' = Array!Insert(idxLru, Array!NewItem(numUsed, k)) /\ idxData' = Array!With(idxData, k, Array!NewItem(numUsed, k))
    BY DEF Array!Add, Array!Counted
  <1>2. numUsed \in Nat /\ N \in Nat /\ numUsed \in Array!Indices /\ numUsed' \in 0 .. N
    BY <1>1, ArrayAssumption DEF LruInv, Types, Array!Indices
  <1>3. PICK item \in Array!IdxItem : item = Array!NewItem(numUsed, k) /\ item.idx = numUsed /\ item.key = k
    BY <1>2, NewItems
  <1>4. DOMAIN idxData' = keys \cup {k} /\ idxData'[k] = item /\ \A l \in keys : idxData'[l] = idxData[l]
    BY <1>1, <1>3 DEF Array!With
  <1>5. \A l \in keys : idxData[l].idx \in 0 .. numUsed - 1
    BY DEF LruInv, Shared
  <1>6. {idxData[l].idx : l \in keys} \cup {item.idx} = 0 .. numUsed' - 1
    <2>1. 0 .. numUsed' - 1 = (0 .. numUsed - 1) \cup {numUsed}
      BY <1>1, <1>2
    <2>2. QED
      BY <1>3, <2>1 DEF LruInv, Shared
  <1>7. \A l \in keys : idxData[l].idx # item.idx
    BY <1>2, <1>3, <1>5
  <1>8. data' \in [Array!Indices -> Values] /\ now' \in Array!Times /\ Len(idxLru) + 1 = numUsed'
    BY <1>1 DEF LruInv, Types, Shared
  <1>9. idxLru \in Seq(Array!IdxItem) /\ Unique(idxLru) /\ Array!Range(idxLru) = {idxData[l] : l \in keys} /\ keys \in SUBSET DOMAIN idxData
    BY DEF LruInv, Types, Shared
  <1>10. k \in Keys \ keys /\ idxLru' = Array!Insert(idxLru, item)
    BY <1>1, <1>3
  <1> HIDE DEF keys
  <1>11. QED
    BY <1>2, <1>3, <1>4, <1>6, <1>7, <1>8, <1>9, <1>10, PutStep

\* What is left when one key is taken out of both indexes.
LEMMA Others ==
  ASSUME LruInv, NEW k \in DOMAIN idxData
  PROVE  /\ Array!Range(idxLru) \ {idxData[k]} = {idxData[l] : l \in DOMAIN idxData \ {k}}
         /\ \A l \in DOMAIN idxData \ {k} : idxData[l].idx # idxData[k].idx
         /\ {idxData[l].idx : l \in DOMAIN idxData \ {k}} \cup {idxData[k].idx} = 0 .. numUsed - 1
         /\ idxData[k] \in Array!Range(idxLru) /\ \A x \in Array!Range(idxLru) : x.key = k => x = idxData[k]
  <1>1. /\ Array!Range(idxLru) = {idxData[l] : l \in DOMAIN idxData}
        /\ {idxData[l].idx : l \in DOMAIN idxData} = 0 .. numUsed - 1
        /\ \A l, m \in DOMAIN idxData : idxData[l].idx = idxData[m].idx => l = m
        /\ \A l \in DOMAIN idxData : idxData[l].key = l
    BY DEF LruInv, Shared, Types
  <1>2. \A l \in DOMAIN idxData : idxData[l] = idxData[k] => l = k
    BY <1>1
  <1>3. Array!Range(idxLru) \ {idxData[k]} = {idxData[l] : l \in DOMAIN idxData \ {k}}
    BY <1>1, <1>2, Zenon
  <1>4. {idxData[l].idx : l \in DOMAIN idxData \ {k}} \cup {idxData[k].idx} = {idxData[l].idx : l \in DOMAIN idxData}
    BY Zenon
  <1>5. QED
    BY <1>1, <1>3, <1>4

\* A key that is there.
LEMMA UpdateStep ==
  ASSUME LruInv, NEW k \in Keys, NEW v \in Values, Array!Update(k, v)
  PROVE  LruInv'
  <1>1. PICK item : item = idxData[k]
    OBVIOUS
  <1>2. PICK rest : rest = Array!Erase(idxLru, item.stamp, k)
    OBVIOUS
  <1>3. /\ k \in DOMAIN idxData /\ numUsed' = numUsed /\ now' = now
        /\ data' = [data EXCEPT ![item.idx] = v]
        /\ idxLru' = Array!Insert(rest, Array!NewItem(item.idx, k))
        /\ idxData' = Array!With(Array!Without(idxData, k), k, Array!NewItem(item.idx, k))
    BY <1>1, <1>2 DEF Array!Update, Array!Counted
  <1>4. PICK kept \in SUBSET DOMAIN idxData : kept = DOMAIN idxData \ {k}
    OBVIOUS
  <1>5. item \in Array!IdxItem /\ item.key = k /\ item.idx \in Array!Indices
    BY <1>1, <1>3 DEF LruInv, Types, Array!IdxItem
  <1>6. PICK new \in Array!IdxItem : new = Array!NewItem(item.idx, k) /\ new.idx = item.idx /\ new.key = k
    BY <1>5, NewItems
  <1>7. /\ Array!Range(idxLru) \ {item} = {idxData[l] : l \in kept}
        /\ \A l \in kept : idxData[l].idx # new.idx
        /\ {idxData[l].idx : l \in kept} \cup {new.idx} = 0 .. numUsed' - 1
        /\ item \in Array!Range(idxLru) /\ \A x \in Array!Range(idxLru) : x.key = item.key => x = item
    BY <1>1, <1>3, <1>4, <1>5, <1>6, Others
  <1>8. idxLru \in Seq(Array!IdxItem) /\ Unique(idxLru) /\ Len(idxLru) = numUsed /\ numUsed \in 0 .. N
    BY DEF LruInv, Types, Shared
  <1>9. rest \in Seq(Array!IdxItem) /\ Len(rest) = Len(idxLru) - 1 /\ Unique(rest) /\ Array!Range(rest) = {idxData[l] : l \in kept}
    BY <1>2, <1>5, <1>7, <1>8, EraseItem
  <1>10. DOMAIN idxData' = kept \cup {k} /\ idxData'[k] = new /\ \A l \in kept : idxData'[l] = idxData[l]
    BY <1>3, <1>4, <1>6 DEF Array!With, Array!Without, Array!Restrict
  <1>11. data' \in [Array!Indices -> Values] /\ now' \in Array!Times
    BY <1>3 DEF LruInv, Types
  <1>12. Len(rest) + 1 = numUsed' /\ numUsed' \in 0 .. N
    BY <1>3, <1>8, <1>9
  <1>13. k \in Keys \ kept /\ idxLru' = Array!Insert(rest, new)
    BY <1>3, <1>4, <1>6
  <1>14. QED
    BY <1>6, <1>7, <1>9, <1>10, <1>11, <1>12, <1>13, PutStep

LEMMA FirstRemoved ==
  ASSUME NEW S, NEW s \in Seq(S), Len(s) > 0
  PROVE  Array!RemoveAt(s, 1) = Tail(s)
  <1>1. Len(s) \in Nat /\ s # << >>
    BY LenProperties
  <1>2. Tail(s) = SubSeq(s, 2, Len(s)) /\ Tail(s) \in Seq(S)
    BY <1>1, TailIsSubSeq, HeadTailProperties
  <1>3. SubSeq(s, 1, 1 - 1) = << >>
    BY SubSeqEmpty
  <1>4. SubSeq(s, 1 + 1, Len(s)) = Tail(s)
    BY <1>1, <1>2
  <1>5. Array!RemoveAt(s, 1) = << >> \o Tail(s)
    <2>1. Array!RemoveAt(s, 1) = SubSeq(s, 1, 1 - 1) \o SubSeq(s, 1 + 1, Len(s))
      BY DEF Array!RemoveAt
    <2>2. QED
      BY <1>3, <1>4, <2>1
  <1>6. QED
    BY <1>2, <1>5, ConcatEmptySeq, Zenon

LEMMA WithoutFirst ==
  ASSUME NEW s \in Seq(Array!IdxItem), Unique(s), Len(s) > 0
  PROVE  /\ Head(s) \in Array!Range(s) /\ Tail(s) \in Seq(Array!IdxItem) /\ Len(Tail(s)) = Len(s) - 1
         /\ Unique(Tail(s)) /\ Array!Range(Tail(s)) = Array!Range(s) \ {Head(s)} /\ Tail(s) = Array!RemoveAt(s, 1)
  <1>1. Len(s) \in Nat /\ 1 \in 1 .. Len(s) /\ s # << >> /\ Head(s) = s[1]
    BY LenProperties
  <1>2. Array!RemoveAt(s, 1) = Tail(s)
    BY FirstRemoved
  <1>3. Head(s) \in Array!Range(s)
    BY <1>1, ItemsOfSeq, Zenon
  <1>4. /\ Array!RemoveAt(s, 1) \in Seq(Array!IdxItem) /\ Len(Array!RemoveAt(s, 1)) = Len(s) - 1
        /\ Unique(Array!RemoveAt(s, 1)) /\ Array!Range(Array!RemoveAt(s, 1)) = Array!Range(s) \ {s[1]}
    BY <1>1, RemoveItem
  <1>5. QED
    BY <1>1, <1>2, <1>3, <1>4, Zenon

\* A new key into a full array.
LEMMA ReplaceStep ==
  ASSUME LruInv, NEW k \in Keys, NEW v \in Values, Array!Replace(k, v)
  PROVE  LruInv'
  <1>1. PICK prev : prev = Head(idxLru)
    OBVIOUS
  <1>2. PICK rest : rest = Tail(idxLru)
    OBVIOUS
  <1>3. /\ k \notin DOMAIN idxData /\ numUsed >= N /\ numUsed' = numUsed /\ now' = now
        /\ data' = [data EXCEPT ![prev.idx] = v]
        /\ idxLru' = Array!Insert(rest, Array!NewItem(prev.idx, k))
        /\ idxData' = Array!With(Array!Without(idxData, prev.key), k, Array!NewItem(prev.idx, k))
    BY <1>1, <1>2 DEF Array!Replace, Array!Counted
  <1>4. idxLru \in Seq(Array!IdxItem) /\ Unique(idxLru) /\ Len(idxLru) = numUsed /\ numUsed \in 0 .. N
    BY DEF LruInv, Types, Shared
  <1>5. Len(idxLru) > 0
    BY <1>3, <1>4, ArrayAssumption
  <1>6. /\ prev \in Array!Range(idxLru) /\ rest \in Seq(Array!IdxItem) /\ Len(rest) = Len(idxLru) - 1
        /\ Unique(rest) /\ Array!Range(rest) = Array!Range(idxLru) \ {prev}
    BY <1>1, <1>2, <1>4, <1>5, WithoutFirst
  <1>7. PICK was \in DOMAIN idxData : prev = idxData[was]
    BY <1>6 DEF LruInv, Shared
  <1>8. was = prev.key /\ prev.idx \in Array!Indices
    BY <1>7 DEF LruInv, Types, Array!IdxItem
  <1>9. PICK kept \in SUBSET DOMAIN idxData : kept = DOMAIN idxData \ {was}
    OBVIOUS
  <1>10. PICK new \in Array!IdxItem : new = Array!NewItem(prev.idx, k) /\ new.idx = prev.idx /\ new.key = k
    BY <1>8, NewItems
  <1>11. /\ Array!Range(rest) = {idxData[l] : l \in kept}
         /\ \A l \in kept : idxData[l].idx # new.idx
         /\ {idxData[l].idx : l \in kept} \cup {new.idx} = 0 .. numUsed' - 1
    BY <1>3, <1>6, <1>7, <1>9, <1>10, Others
  <1>12. DOMAIN idxData' = kept \cup {k} /\ idxData'[k] = new /\ \A l \in kept : idxData'[l] = idxData[l]
    BY <1>3, <1>8, <1>9, <1>10 DEF Array!With, Array!Without, Array!Restrict
  <1>13. data' \in [Array!Indices -> Values] /\ now' \in Array!Times
    BY <1>3 DEF LruInv, Types
  <1>14. Len(rest) + 1 = numUsed' /\ numUsed' \in 0 .. N
    BY <1>3, <1>4, <1>6
  <1>15. k \in Keys \ kept /\ idxLru' = Array!Insert(rest, new)
    BY <1>3, <1>9, <1>10
  <1>16. QED
    BY <1>6, <1>10, <1>11, <1>12, <1>13, <1>14, <1>15, PutStep

\* The counters, on which nothing else depends.
Counters == setBack \in BOOLEAN /\ pushes \in Nat

LEMMA InitInv ==
  ASSUME Array!Init PROVE LruInv /\ Counters
  <1>1. Len(idxLru) = 0 /\ idxLru \in Seq(Array!IdxItem) /\ DOMAIN idxData = {} /\ numUsed = 0 /\ now = 0
    BY DEF Array!Init
  <1>2. 0 .. numUsed - 1 = {} /\ numUsed \in 0 .. N /\ now \in Array!Times
    BY <1>1, ArrayAssumption DEF Array!Times
  <1>3. Array!Range(idxLru) = {}
    <2>1. 1 .. Len(idxLru) = {}
      BY <1>1
    <2>2. \A x : x \in Array!Range(idxLru) <=> \E i \in 1 .. Len(idxLru) : idxLru[i] = x
      BY <1>1, ItemsOfSeq, Zenon
    <2>3. QED
      BY <2>1, <2>2, Zenon
  <1>4. Types
    <2>1. data \in [Array!Indices -> Values]
      BY DEF Array!Init
    <2>2. QED
      BY <1>1, <1>2, <2>1 DEF Types
  <1>5. Unique(idxLru)
    BY <1>1 DEF Unique
  <1>6. Shared
    BY <1>1, <1>2, <1>3, <1>5 DEF Shared
  <1>7. Counters
    BY DEF Counters, Array!Init
  <1>8. QED
    BY <1>4, <1>6, <1>7 DEF LruInv

LEMMA NextInv ==
  ASSUME LruInv, Counters, [Array!Next]_(Array!vars) PROVE LruInv' /\ Counters'
  <1>1. ASSUME NEW k \in Keys, NEW v \in Values, Array!Update(k, v) PROVE LruInv' /\ Counters'
    <2>1. LruInv'
      BY <1>1, UpdateStep
    <2>2. setBack' = setBack /\ pushes' = pushes + 1
      BY <1>1 DEF Array!Update, Array!Counted
    <2>3. QED
      BY <2>1, <2>2 DEF Counters
  <1>2. ASSUME NEW k \in Keys, NEW v \in Values, Array!Replace(k, v) PROVE LruInv' /\ Counters'
    <2>1. LruInv'
      BY <1>2, ReplaceStep
    <2>2. setBack' = setBack /\ pushes' = pushes + 1
      BY <1>2 DEF Array!Replace, Array!Counted
    <2>3. QED
      BY <2>1, <2>2 DEF Counters
  <1>3. ASSUME NEW k \in Keys, NEW v \in Values, Array!Add(k, v) PROVE LruInv' /\ Counters'
    <2>1. LruInv'
      BY <1>3, AddStep
    <2>2. setBack' = setBack /\ pushes' = pushes + 1
      BY <1>3 DEF Array!Add, Array!Counted
    <2>3. QED
      BY <2>1, <2>2 DEF Counters
  <1>4. CASE Array!Tick
    <2>1. LruInv'
      BY <1>4 DEF Array!Tick, LruInv, Types, Shared, Unique, Array!Indices, Array!Times, Array!IdxItem
    <2>2. Counters'
      BY <1>4 DEF Array!Tick, Counters
    <2>3. QED
      BY <2>1, <2>2
  <1>5. CASE UNCHANGED Array!vars
    <2>1. LruInv'
      BY <1>5 DEF Array!vars, LruInv, Types, Shared, Unique, Array!Indices, Array!Times, Array!IdxItem
    <2>2. Counters'
      BY <1>5 DEF Array!vars, Counters
    <2>3. QED
      BY <2>1, <2>2
  <1>6. QED
    BY <1>1, <1>2, <1>3, <1>4, <1>5 DEF Array!Next, Array!Finished

\* The inductive invariant: types, and two indexes of the same items, none of
\* them twice, with places of their own. That no item is twice in the index by
\* time is what erasing the first one that matches relies on.
THEOREM Invariance ==
  Array!Spec => [](LruInv /\ Counters)
  <1>1. Array!Init => LruInv /\ Counters
    BY InitInv
  <1>2. LruInv /\ Counters /\ [Array!Next]_(Array!vars) => LruInv' /\ Counters'
    BY NextInv
  <1>3. QED
    BY <1>1, <1>2, PTL DEF Array!Spec

\* As many keys as places, because each has a place of its own.
LEMMA KeysCounted ==
  ASSUME LruInv
  PROVE  Cardinality(DOMAIN idxData) = Len(idxLru)
  <1> DEFINE place == [k \in DOMAIN idxData |-> idxData[k].idx]
  <1>1. /\ {idxData[k].idx : k \in DOMAIN idxData} = 0 .. numUsed - 1 /\ Len(idxLru) = numUsed /\ numUsed \in Nat
        /\ \A k, l \in DOMAIN idxData : idxData[k].idx = idxData[l].idx => k = l
    BY ArrayAssumption DEF LruInv, Types, Shared
  <1>2. place \in [DOMAIN idxData -> 0 .. numUsed - 1] /\ \A i \in 0 .. numUsed - 1 : \E k \in DOMAIN idxData : place[k] = i
    BY <1>1, Zenon
  <1>3. \A k, l \in DOMAIN place : place[k] = place[l] => k = l
    BY <1>1
  <1> HIDE DEF place
  <1>4. place \in Surjection(DOMAIN idxData, 0 .. numUsed - 1)
    BY <1>2, Zenon DEF Surjection
  <1>5. place \in Injection(DOMAIN idxData, 0 .. numUsed - 1)
    BY <1>2, <1>3, Zenon DEF Injection, IsInjective
  <1>6. PICK last \in Int : last = numUsed - 1
    BY <1>1
  <1>7. IsFiniteSet(0 .. last) /\ Cardinality(0 .. last) = IF 0 > last THEN 0 ELSE last - 0 + 1
    <2>1. 0 \in Int
      OBVIOUS
    <2>2. QED
      BY <2>1, FS_Interval, Zenon
  <1>8. Cardinality(0 .. last) = numUsed
    BY <1>1, <1>6, <1>7
  <1>9. Cardinality(DOMAIN idxData) = Cardinality(0 .. last)
    BY <1>4, <1>5, <1>6, <1>7, FS_Injection, Zenon
  <1>10. QED
    BY <1>1, <1>8, <1>9

\* However often it was pushed to, and whatever the clock does, the array's two
\* indexes hold the same items, one for each key, and these share out the used
\* places: push() neither loses a place nor gives it to two keys.
THEOREM IndexesAgree ==
  Array!Spec => []Consistent
  <1>1. LruInv => Array!Consistent
    <2> SUFFICES ASSUME LruInv PROVE Array!Consistent
      OBVIOUS
    <2>1. Array!Range(idxData) = {idxData[k] : k \in DOMAIN idxData}
      BY DEF Array!Range
    <2>2. QED
      BY <2>1, KeysCounted, ArrayCardinality DEF Array!Consistent, LruInv, Types, Shared
  <1>2. QED
    BY <1>1, Invariance, PTL DEF Consistent

\* push() keeps the types: places inside the array, times the clock gave.
THEOREM TypeCorrect ==
  Array!Spec => []Array!TypeOK
  <1>1. LruInv /\ Counters => Array!TypeOK
    BY DEF LruInv, Types, Counters, Array!TypeOK
  <1>2. QED
    BY <1>1, Invariance, PTL

-----------------------------------------------------------------------------
(***************************************************************************)
(* The array as a map of the N most recent pushes.                         *)
(***************************************************************************)

\* Unless the clock was set back, no item is newer than now.
ByTime == ~setBack => \A x \in Array!Range(idxLru) : x.stamp <= now

Entry   == [key : Keys, value : Values]
Read(s) == [i \in 1 .. Len(s) |-> [key |-> s[i].key, value |-> data[s[i].idx]]]

LEMMA ReadIsRecent ==
  ASSUME LruInv PROVE Array!Recent = Read(idxLru)
  BY DEF LruInv, Types, Array!Recent, Read

LEMMA ReadElements ==
  ASSUME LruInv, NEW s \in Seq(Array!IdxItem)
  PROVE  /\ Read(s) \in Seq(Entry) /\ Len(Read(s)) = Len(s)
         /\ \A i \in 1 .. Len(s) : Read(s)[i] = [key |-> s[i].key, value |-> data[s[i].idx]]
  <1>1. Len(s) \in Nat /\ \A i \in 1 .. Len(s) : s[i] \in Array!IdxItem
    BY LenProperties, ElementOfSeq
  <1>2. \A i \in 1 .. Len(s) : [key |-> s[i].key, value |-> data[s[i].idx]] \in Entry
    BY <1>1 DEF Array!IdxItem, Entry, LruInv, Types
  <1>3. QED
    BY <1>1, <1>2 DEF Read

LEMMA RecentKeys ==
  ASSUME LruInv
  PROVE  Len(Array!Recent) = Len(idxLru) /\ \A i \in 1 .. Len(idxLru) : Array!Recent[i].key = idxLru[i].key
  <1>1. idxLru \in Seq(Array!IdxItem)
    BY DEF LruInv, Types
  <1>2. /\ Len(Read(idxLru)) = Len(idxLru)
        /\ \A i \in 1 .. Len(idxLru) : Read(idxLru)[i] = [key |-> idxLru[i].key, value |-> data[idxLru[i].idx]]
    BY <1>1, ReadElements
  <1>3. ASSUME NEW i \in 1 .. Len(idxLru) PROVE Read(idxLru)[i].key = idxLru[i].key
    <2>1. Read(idxLru)[i] = [key |-> idxLru[i].key, value |-> data[idxLru[i].idx]]
      BY <1>2, Zenon
    <2>2. QED
      BY <2>1
  <1>4. QED
    BY <1>2, <1>3, ReadIsRecent

LEMMA ReadRemove ==
  ASSUME LruInv, NEW s \in Seq(Array!IdxItem), NEW n \in 1 .. Len(s)
  PROVE  Array!RemoveAt(Read(s), n) = Read(Array!RemoveAt(s, n))
  <1>1. PICK r \in Seq(Entry) : /\ r = Read(s) /\ Len(r) = Len(s)
                                /\ \A i \in 1 .. Len(s) : r[i] = [key |-> s[i].key, value |-> data[s[i].idx]]
    BY ReadElements
  <1>2. PICK t \in Seq(Array!IdxItem) : /\ t = Array!RemoveAt(s, n) /\ Len(t) = Len(s) - 1
                                  /\ \A i \in 1 .. Len(s) - 1 : t[i] = IF i < n THEN s[i] ELSE s[i + 1]
    BY RemoveElements
  <1>3. PICK a \in Seq(Entry) : /\ a = Array!RemoveAt(r, n) /\ Len(a) = Len(s) - 1
                                /\ \A i \in 1 .. Len(s) - 1 : a[i] = IF i < n THEN r[i] ELSE r[i + 1]
    <2>1. n \in 1 .. Len(r)
      BY <1>1
    <2>2. /\ Array!RemoveAt(r, n) \in Seq(Entry) /\ Len(Array!RemoveAt(r, n)) = Len(r) - 1
          /\ \A i \in 1 .. Len(r) - 1 : Array!RemoveAt(r, n)[i] = IF i < n THEN r[i] ELSE r[i + 1]
      BY <2>1, RemoveElements
    <2>3. Len(r) = Len(s)
      BY <1>1
    <2>4. QED
      BY <2>2, <2>3, Zenon
  <1>4. PICK b \in Seq(Entry) : /\ b = Read(t) /\ Len(b) = Len(s) - 1
                                /\ \A i \in 1 .. Len(s) - 1 : b[i] = [key |-> t[i].key, value |-> data[t[i].idx]]
    <2>1. /\ Read(t) \in Seq(Entry) /\ Len(Read(t)) = Len(t)
          /\ \A i \in 1 .. Len(t) : Read(t)[i] = [key |-> t[i].key, value |-> data[t[i].idx]]
      BY ReadElements
    <2>2. Len(t) = Len(s) - 1
      BY <1>2
    <2>3. QED
      BY <2>1, <2>2, Zenon
  <1>5. \A i \in 1 .. Len(s) - 1 : a[i] = b[i]
    <2>1. Len(s) \in Nat
      BY LenProperties
    <2>2. ASSUME NEW i \in 1 .. Len(s) - 1 PROVE a[i] = b[i]
      <3>1. i \in 1 .. Len(s) /\ i + 1 \in 1 .. Len(s)
        BY <2>1
      <3>2. CASE i < n
        <4>1. a[i] = r[i] /\ t[i] = s[i]
          BY <1>2, <1>3, <3>2
        <4>2. QED
          BY <1>1, <1>4, <3>1, <4>1
      <3>3. CASE ~(i < n)
        <4>1. a[i] = r[i + 1] /\ t[i] = s[i + 1]
          BY <1>2, <1>3, <3>3
        <4>2. QED
          BY <1>1, <1>4, <3>1, <4>1
      <3>4. QED
        BY <3>2, <3>3
    <2>3. QED
      BY <2>2
  <1>6. a = b
    BY <1>3, <1>4, <1>5, SeqEqual
  <1>7. QED
    BY <1>1, <1>2, <1>3, <1>4, <1>6

\* An item at least as new as all the others comes last.
LEMMA InsertLast ==
  ASSUME NEW s \in Seq(Array!IdxItem), NEW e \in Array!IdxItem, \A x \in Array!Range(s) : x.stamp <= e.stamp
  PROVE  /\ Array!Insert(s, e) \in Seq(Array!IdxItem) /\ Len(Array!Insert(s, e)) = Len(s) + 1
         /\ \A i \in 1 .. Len(s) + 1 : Array!Insert(s, e)[i] = IF i <= Len(s) THEN s[i] ELSE e
  <1>1. Len(s) \in Nat /\ DOMAIN s = 1 .. Len(s)
    BY LenProperties
  <1>2. \A i \in 1 .. Len(s) : s[i].stamp <= e.stamp
    BY ItemsOfSeq, Zenon
  <1>3. {i \in DOMAIN s : s[i].stamp <= e.stamp} = 1 .. Len(s)
    BY <1>1, <1>2, Zenon
  <1>4. Cardinality(1 .. Len(s)) = Len(s)
    BY <1>1, FS_Interval
  <1>5. Array!Insert(s, e) = Array!InsertAt(s, Len(s) + 1, e) /\ Len(s) + 1 \in 1 .. Len(s) + 1
    <2>1. Array!Insert(s, e) = Array!InsertAt(s, Cardinality({i \in DOMAIN s : s[i].stamp <= e.stamp}) + 1, e)
      BY ArrayCardinality DEF Array!Insert
    <2>2. Len(s) + 1 \in 1 .. Len(s) + 1
      BY <1>1
    <2>3. QED
      BY <1>3, <1>4, <2>1, <2>2, Zenon
  <1>6. /\ Array!InsertAt(s, Len(s) + 1, e) \in Seq(Array!IdxItem) /\ Len(Array!InsertAt(s, Len(s) + 1, e)) = Len(s) + 1
        /\ \A i \in 1 .. Len(s) + 1 :
             Array!InsertAt(s, Len(s) + 1, e)[i] = IF i < Len(s) + 1 THEN s[i] ELSE IF i = Len(s) + 1 THEN e ELSE s[i - 1]
    BY <1>5, InsertElements
  <1>7. QED
    BY <1>1, <1>5, <1>6

\* A push puts the new item behind those that stay, whose values stay.
LEMMA PushLast ==
  ASSUME LruInv, LruInv', ByTime, ~setBack, NEW k \in Keys, NEW v \in Values,
         NEW rest \in Seq(Array!IdxItem), Array!Range(rest) \subseteq Array!Range(idxLru),
         NEW new \in Array!IdxItem, new.key = k, new.stamp = now,
         \A x \in Array!Range(rest) : x.idx # new.idx,
         idxLru' = Array!Insert(rest, new), data' = [data EXCEPT ![new.idx] = v]
  PROVE  Array!Recent' = Append(Read(rest), [key |-> k, value |-> v])
  <1>1. \A x \in Array!Range(rest) : x.stamp <= new.stamp
    BY DEF ByTime
  <1>2. PICK lru \in Seq(Array!IdxItem) : /\ lru = idxLru' /\ Len(lru) = Len(rest) + 1
                                    /\ \A i \in 1 .. Len(rest) + 1 : lru[i] = IF i <= Len(rest) THEN rest[i] ELSE new
    BY <1>1, InsertLast
  <1>3. PICK prev \in Seq(Entry) : /\ prev = Read(rest) /\ Len(prev) = Len(rest)
                                  /\ \A i \in 1 .. Len(rest) : prev[i] = [key |-> rest[i].key, value |-> data[rest[i].idx]]
    BY ReadElements
  <1>4. PICK e \in Entry : e = [key |-> k, value |-> v]
    BY DEF Entry
  <1>5. /\ Append(prev, e) \in Seq(Entry) /\ Len(Append(prev, e)) = Len(rest) + 1
        /\ \A i \in 1 .. Len(rest) : Append(prev, e)[i] = prev[i]
        /\ Append(prev, e)[Len(rest) + 1] = e
    BY <1>3, AppendProperties
  <1>6. /\ Array!Recent' = [i \in 1 .. Len(rest) + 1 |-> [key |-> lru[i].key, value |-> data'[lru[i].idx]]]
    BY <1>2 DEF Array!Recent
  <1>7. Len(rest) \in Nat /\ \A i \in 1 .. Len(rest) : rest[i] \in Array!IdxItem /\ rest[i].idx # new.idx
    <2>1. Len(rest) \in Nat /\ \A i \in 1 .. Len(rest) : rest[i] \in Array!IdxItem
      BY LenProperties, ElementOfSeq
    <2>2. \A i \in 1 .. Len(rest) : rest[i].idx # new.idx
      BY ItemsOfSeq, Zenon
    <2>3. QED
      BY <2>1, <2>2
  <1>8. \A i \in 1 .. Len(rest) : data'[rest[i].idx] = data[rest[i].idx]
    BY <1>7 DEF LruInv, Types, Array!IdxItem
  <1>9. data'[new.idx] = v
    BY DEF LruInv, Types, Array!IdxItem
  <1>10. PICK r : r = Array!Recent'
    OBVIOUS
  <1>11. r \in Seq(Entry) /\ Len(r) = Len(rest) + 1
         /\ \A i \in 1 .. Len(rest) + 1 : r[i] = [key |-> lru[i].key, value |-> data'[lru[i].idx]]
    <2>1. \A i \in 1 .. Len(rest) + 1 : [key |-> lru[i].key, value |-> data'[lru[i].idx]] \in Entry
      <3>1. \A i \in 1 .. Len(rest) + 1 : lru[i] \in Array!IdxItem
        BY <1>2, ElementOfSeq
      <3>2. data' \in [Array!Indices -> Values]
        BY DEF LruInv, Types, Array!Indices
      <3>3. QED
        BY <3>1, <3>2 DEF Array!IdxItem, Entry
    <2>2. QED
      BY <1>6, <1>7, <1>10, <2>1
  <1>12. \A i \in 1 .. Len(rest) + 1 : r[i] = Append(prev, e)[i]
    <2>1. ASSUME NEW i \in 1 .. Len(rest) PROVE r[i] = Append(prev, e)[i]
      <3>1. i \in 1 .. Len(rest) + 1 /\ i <= Len(rest)
        BY <1>7
      <3>2. r[i] = [key |-> rest[i].key, value |-> data'[rest[i].idx]]
        BY <1>2, <1>11, <3>1
      <3>3. QED
        BY <1>3, <1>5, <1>8, <3>2
    <2>2. r[Len(rest) + 1] = Append(prev, e)[Len(rest) + 1]
      <3>1. Len(rest) + 1 \in 1 .. Len(rest) + 1 /\ ~(Len(rest) + 1 <= Len(rest))
        BY <1>7
      <3>2. r[Len(rest) + 1] = [key |-> new.key, value |-> data'[new.idx]]
        BY <1>2, <1>11, <3>1
      <3>3. QED
        BY <1>4, <1>5, <1>9, <3>2
    <2>3. \A i \in 1 .. Len(rest) + 1 : i \in 1 .. Len(rest) \/ i = Len(rest) + 1
      BY <1>7
    <2>4. QED
      BY <2>1, <2>2, <2>3, Zenon
  <1>13. r = Append(prev, e)
    BY <1>5, <1>11, <1>12, SeqEqual
  <1>14. QED
    BY <1>3, <1>4, <1>10, <1>13

\* The map's push() of a key at one place, and of one that is nowhere.
LEMMA MapUpdate ==
  ASSUME NEW k, NEW v, NEW n \in 1 .. Len(Array!Recent),
         \A i \in 1 .. Len(Array!Recent) : Array!Recent[i].key = k <=> i = n,
         Len(Array!RemoveAt(Array!Recent, n)) # N,
         Array!Recent' = Append(Array!RemoveAt(Array!Recent, n), [key |-> k, value |-> v])
  PROVE  Array!Lru!Push(k, v)
  <1>1. {i \in 1 .. Len(Array!Recent) : Array!Recent[i].key = k} = {n}
    OBVIOUS
  <1>2. Array!Lru!Min({n}) = n
    BY DEF Array!Lru!Min
  <1>3. Array!Lru!SelectInSeq(Array!Recent, LAMBDA item : item.key = k) = n
    BY <1>1, <1>2 DEF Array!Lru!SelectInSeq
  <1>4. Array!Lru!RemoveAt(Array!Recent, n) = Array!RemoveAt(Array!Recent, n)
    BY DEF Array!Lru!RemoveAt, Array!RemoveAt
  <1>5. Array!Lru!RemoveFirstMatch(Array!Recent, LAMBDA item : item.key = k) = Array!RemoveAt(Array!Recent, n)
    BY <1>3, <1>4 DEF Array!Lru!RemoveFirstMatch
  <1>6. QED
    BY <1>5 DEF Array!Lru!Push

LEMMA MapAdd ==
  ASSUME NEW k, NEW v, \A i \in 1 .. Len(Array!Recent) : Array!Recent[i].key # k,
         Array!Recent' = Append(IF Len(Array!Recent) = N THEN Tail(Array!Recent) ELSE Array!Recent, [key |-> k, value |-> v])
  PROVE  Array!Lru!Push(k, v)
  <1>1. Array!Lru!RemoveFirstMatch(Array!Recent, LAMBDA item : item.key = k) = Array!Recent
    BY DEF Array!Lru!RemoveFirstMatch
  <1>2. QED
    BY <1>1 DEF Array!Lru!Push

\* An update is the map's.
LEMMA UpdateMaps ==
  ASSUME LruInv, LruInv', ByTime, ~setBack, NEW k \in Keys, NEW v \in Values, Array!Update(k, v)
  PROVE  Array!Lru!Push(k, v)
  <1>1. PICK item : item = idxData[k]
    OBVIOUS
  <1>2. PICK rest : rest = Array!Erase(idxLru, item.stamp, k)
    OBVIOUS
  <1>3. /\ k \in DOMAIN idxData /\ data' = [data EXCEPT ![item.idx] = v]
        /\ idxLru' = Array!Insert(rest, Array!NewItem(item.idx, k))
    BY <1>1, <1>2 DEF Array!Update
  <1>4. item \in Array!IdxItem /\ item.key = k /\ item.idx \in Array!Indices
    BY <1>1, <1>3 DEF LruInv, Types, Array!IdxItem
  <1>5. PICK new \in Array!IdxItem : new = Array!NewItem(item.idx, k) /\ new.idx = item.idx /\ new.key = k /\ new.stamp = now
    BY <1>4, NewItems DEF Array!NewItem
  <1>6. /\ item \in Array!Range(idxLru) /\ \A x \in Array!Range(idxLru) : x.key = k => x = item
        /\ Array!Range(idxLru) \ {item} = {idxData[l] : l \in DOMAIN idxData \ {k}}
        /\ \A l \in DOMAIN idxData \ {k} : idxData[l].idx # item.idx
    BY <1>1, <1>3, Others
  <1>7. idxLru \in Seq(Array!IdxItem) /\ Unique(idxLru) /\ Len(idxLru) = numUsed /\ numUsed \in 0 .. N /\ N \in Nat
    BY ArrayAssumption DEF LruInv, Types, Shared
  <1>8. rest \in Seq(Array!IdxItem) /\ Len(rest) = Len(idxLru) - 1 /\ Array!Range(rest) = Array!Range(idxLru) \ {item}
    BY <1>2, <1>4, <1>6, <1>7, EraseItem
  <1>9. PICK n \in 1 .. Len(idxLru) : idxLru[n] = item /\ rest = Array!RemoveAt(idxLru, n)
    BY <1>2, <1>4, <1>6, <1>7, EraseIsRemove
  <1>10. \A x \in Array!Range(rest) : x.idx # new.idx
    BY <1>5, <1>6, <1>8
  <1>11. Array!Recent' = Append(Read(rest), [key |-> k, value |-> v])
    <2>1. idxLru' = Array!Insert(rest, new) /\ data' = [data EXCEPT ![new.idx] = v] /\ Array!Range(rest) \subseteq Array!Range(idxLru)
      BY <1>3, <1>5, <1>8
    <2>2. QED
      BY <1>5, <1>8, <1>10, <2>1, PushLast
  <1>12. /\ Array!Recent = Read(idxLru) /\ Len(Array!Recent) = Len(idxLru)
         /\ \A i \in 1 .. Len(idxLru) : Array!Recent[i].key = idxLru[i].key
    BY ReadIsRecent, RecentKeys
  <1>13. Array!RemoveAt(Array!Recent, n) = Read(rest)
    BY <1>7, <1>9, <1>12, ReadRemove
  <1>14. Len(Read(rest)) # N
    <2>1. Len(Read(rest)) = Len(rest)
      BY <1>8, ReadElements
    <2>2. QED
      BY <1>7, <1>8, <2>1
  <1>15. ASSUME NEW i \in 1 .. Len(Array!Recent) PROVE Array!Recent[i].key = k <=> i = n
    <2>1. i \in 1 .. Len(idxLru) /\ Array!Recent[i].key = idxLru[i].key
      BY <1>12
    <2>2. idxLru[i] \in Array!Range(idxLru)
      BY <1>7, <2>1, ItemsOfSeq
    <2>3. idxLru[i].key = k <=> idxLru[i] = item
      BY <1>4, <1>6, <2>2
    <2>4. idxLru[i] = item <=> i = n
      BY <1>7, <1>9, <2>1 DEF Unique
    <2>5. QED
      BY <2>1, <2>3, <2>4
  <1>16. n \in 1 .. Len(Array!Recent)
    BY <1>9, <1>12
  <1>17. Len(Array!RemoveAt(Array!Recent, n)) # N /\ Array!Recent' = Append(Array!RemoveAt(Array!Recent, n), [key |-> k, value |-> v])
    BY <1>11, <1>13, <1>14
  <1>18. QED
    BY <1>15, <1>16, <1>17, MapUpdate

\* A key that the array does not have is nowhere in the map.
LEMMA NewToMap ==
  ASSUME LruInv, NEW k \in Keys, k \notin DOMAIN idxData
  PROVE  \A i \in 1 .. Len(Array!Recent) : Array!Recent[i].key # k
  <1>1. idxLru \in Seq(Array!IdxItem)
    BY DEF LruInv, Types
  <1>2. Len(Array!Recent) = Len(idxLru) /\ \A i \in 1 .. Len(idxLru) : Array!Recent[i].key = idxLru[i].key
    BY RecentKeys
  <1>3. ASSUME NEW i \in 1 .. Len(idxLru) PROVE idxLru[i].key # k
    <2>1. idxLru[i] \in Array!Range(idxLru)
      BY <1>1, ItemsOfSeq
    <2>2. PICK l \in DOMAIN idxData : idxLru[i] = idxData[l]
      BY <2>1 DEF LruInv, Shared
    <2>3. QED
      BY <2>2 DEF LruInv, Types
  <1>4. QED
    BY <1>2, <1>3

LEMMA AddMaps ==
  ASSUME LruInv, LruInv', ByTime, ~setBack, NEW k \in Keys, NEW v \in Values, Array!Add(k, v)
  PROVE  Array!Lru!Push(k, v)
  <1>1. /\ k \notin DOMAIN idxData /\ numUsed < N /\ data' = [data EXCEPT ![numUsed] = v]
        /\ idxLru' = Array!Insert(idxLru, Array!NewItem(numUsed, k))
    BY DEF Array!Add
  <1>2. idxLru \in Seq(Array!IdxItem) /\ Len(idxLru) = numUsed /\ numUsed \in Nat /\ N \in Nat /\ numUsed \in Array!Indices
    BY <1>1, ArrayAssumption DEF LruInv, Types, Shared, Array!Indices
  <1>3. PICK new \in Array!IdxItem : new = Array!NewItem(numUsed, k) /\ new.idx = numUsed /\ new.key = k /\ new.stamp = now
    BY <1>2, NewItems DEF Array!NewItem
  <1>4. \A x \in Array!Range(idxLru) : x.idx # new.idx
    <2>1. \A x \in Array!Range(idxLru) : x.idx \in 0 .. numUsed - 1
      BY DEF LruInv, Shared
    <2>2. numUsed \notin 0 .. numUsed - 1
      BY <1>2
    <2>3. QED
      BY <1>3, <2>1, <2>2
  <1>5. idxLru' = Array!Insert(idxLru, new) /\ data' = [data EXCEPT ![new.idx] = v]
    BY <1>1, <1>3
  <1>6. Array!Recent' = Append(Read(idxLru), [key |-> k, value |-> v])
    BY <1>2, <1>3, <1>4, <1>5, PushLast
  <1>7. Array!Recent = Read(idxLru) /\ Len(Array!Recent) # N
    BY <1>1, <1>2, ReadIsRecent, ReadElements
  <1>8. \A i \in 1 .. Len(Array!Recent) : Array!Recent[i].key # k
    BY <1>1, NewToMap
  <1>9. Array!Recent' = Append(IF Len(Array!Recent) = N THEN Tail(Array!Recent) ELSE Array!Recent, [key |-> k, value |-> v])
    BY <1>6, <1>7, Zenon
  <1>10. QED
    BY <1>8, <1>9, MapAdd

LEMMA ReplaceMaps ==
  ASSUME LruInv, LruInv', ByTime, ~setBack, NEW k \in Keys, NEW v \in Values, Array!Replace(k, v)
  PROVE  Array!Lru!Push(k, v)
  <1>1. PICK prev : prev = Head(idxLru)
    OBVIOUS
  <1>2. PICK rest : rest = Tail(idxLru)
    OBVIOUS
  <1>3. /\ k \notin DOMAIN idxData /\ numUsed >= N /\ data' = [data EXCEPT ![prev.idx] = v]
        /\ idxLru' = Array!Insert(rest, Array!NewItem(prev.idx, k))
    BY <1>1, <1>2 DEF Array!Replace
  <1>4. /\ idxLru \in Seq(Array!IdxItem) /\ Unique(idxLru) /\ Len(idxLru) = N /\ N \in Nat /\ N > 0
    BY <1>3, ArrayAssumption DEF LruInv, Types, Shared
  <1>5. /\ prev \in Array!Range(idxLru) /\ rest \in Seq(Array!IdxItem) /\ Len(rest) = Len(idxLru) - 1
        /\ Array!Range(rest) = Array!Range(idxLru) \ {prev} /\ rest = Array!RemoveAt(idxLru, 1)
    BY <1>1, <1>2, <1>4, WithoutFirst
  <1>6. PICK was \in DOMAIN idxData : prev = idxData[was]
    BY <1>5 DEF LruInv, Shared
  <1>7. prev.idx \in Array!Indices /\ \A x \in Array!Range(rest) : x.idx # prev.idx
    <2>1. prev.idx \in Array!Indices
      BY <1>6 DEF LruInv, Types, Array!IdxItem
    <2>2. /\ Array!Range(idxLru) \ {prev} = {idxData[l] : l \in DOMAIN idxData \ {was}}
          /\ \A l \in DOMAIN idxData \ {was} : idxData[l].idx # prev.idx
      BY <1>6, Others
    <2>3. QED
      BY <1>5, <2>1, <2>2
  <1>8. PICK new \in Array!IdxItem : new = Array!NewItem(prev.idx, k) /\ new.idx = prev.idx /\ new.key = k /\ new.stamp = now
    BY <1>7, NewItems DEF Array!NewItem
  <1>9. idxLru' = Array!Insert(rest, new) /\ data' = [data EXCEPT ![new.idx] = v] /\ Array!Range(rest) \subseteq Array!Range(idxLru)
    BY <1>3, <1>5, <1>8
  <1>10. Array!Recent' = Append(Read(rest), [key |-> k, value |-> v])
    BY <1>5, <1>7, <1>8, <1>9, PushLast
  <1>11. PICK r \in Seq(Entry) : r = Array!Recent /\ r = Read(idxLru) /\ Len(r) = N
    BY <1>4, ReadIsRecent, ReadElements
  <1>12. Read(rest) = Tail(r)
    <2>1. 1 \in 1 .. Len(idxLru)
      BY <1>4
    <2>2. Array!RemoveAt(r, 1) = Read(rest)
      BY <1>4, <1>5, <1>11, <2>1, ReadRemove
    <2>3. Array!RemoveAt(r, 1) = Tail(r)
      BY <1>4, <1>11, FirstRemoved
    <2>4. QED
      BY <2>2, <2>3
  <1>13. \A i \in 1 .. Len(Array!Recent) : Array!Recent[i].key # k
    BY <1>3, NewToMap
  <1>14. Array!Recent' = Append(IF Len(Array!Recent) = N THEN Tail(Array!Recent) ELSE Array!Recent, [key |-> k, value |-> v])
    BY <1>10, <1>11, <1>12, Zenon
  <1>15. QED
    BY <1>13, <1>14, MapAdd

\* Every item is as it was or of the present time.
LEMMA StampStep ==
  ASSUME LruInv, LruInv', ByTime, now' = now, setBack' = setBack,
         \A l \in DOMAIN idxData' : (l \in DOMAIN idxData /\ idxData'[l] = idxData[l]) \/ idxData'[l].stamp = now
  PROVE  ByTime'
  <1> SUFFICES ASSUME ~setBack, NEW x \in Array!Range(idxLru') PROVE x.stamp <= now
    BY DEF ByTime
  <1>1. PICK l \in DOMAIN idxData' : x = idxData'[l]
    BY DEF LruInv, Shared
  <1>2. CASE l \in DOMAIN idxData /\ x = idxData[l]
    BY <1>2 DEF LruInv, Shared, ByTime
  <1>3. CASE x.stamp = now
    <2>1. now \in Int
      BY DEF LruInv, Types, Array!Times
    <2>2. QED
      BY <1>3, <2>1
  <1>4. QED
    BY <1>1, <1>2, <1>3

\* Every push is one of the map, which a tick of the clock leaves alone.
LEMMA NextMaps ==
  ASSUME LruInv, LruInv', ByTime, [Array!Next]_(Array!vars)
  PROVE  ByTime' /\ (setBack \/ Array!Lru!Next \/ UNCHANGED Array!Recent)
  <1>1. ASSUME NEW k \in Keys, NEW v \in Values, Array!Update(k, v)
        PROVE  ByTime' /\ (setBack \/ Array!Lru!Next \/ UNCHANGED Array!Recent)
    <2>1. setBack \/ Array!Lru!Push(k, v)
      BY <1>1, UpdateMaps
    <2>2. now' = now /\ setBack' = setBack
      BY <1>1 DEF Array!Update, Array!Counted
    <2>3. idxData' = Array!With(Array!Without(idxData, k), k, Array!NewItem(idxData[k].idx, k))
      BY <1>1 DEF Array!Update
    <2>4. \A l \in DOMAIN idxData' : (l \in DOMAIN idxData /\ idxData'[l] = idxData[l]) \/ idxData'[l].stamp = now
      BY <2>3 DEF Array!With, Array!Without, Array!Restrict, Array!NewItem
    <2>5. ByTime'
      BY <2>2, <2>4, StampStep
    <2>6. QED
      BY <2>1, <2>5 DEF Array!Lru!Next
  <1>2. ASSUME NEW k \in Keys, NEW v \in Values, Array!Replace(k, v)
        PROVE  ByTime' /\ (setBack \/ Array!Lru!Next \/ UNCHANGED Array!Recent)
    <2>1. setBack \/ Array!Lru!Push(k, v)
      BY <1>2, ReplaceMaps
    <2>2. now' = now /\ setBack' = setBack
      BY <1>2 DEF Array!Replace, Array!Counted
    <2>3. idxData' = Array!With(Array!Without(idxData, Head(idxLru).key), k, Array!NewItem(Head(idxLru).idx, k))
      BY <1>2 DEF Array!Replace
    <2>4. \A l \in DOMAIN idxData' : (l \in DOMAIN idxData /\ idxData'[l] = idxData[l]) \/ idxData'[l].stamp = now
      BY <2>3 DEF Array!With, Array!Without, Array!Restrict, Array!NewItem
    <2>5. ByTime'
      BY <2>2, <2>4, StampStep
    <2>6. QED
      BY <2>1, <2>5 DEF Array!Lru!Next
  <1>3. ASSUME NEW k \in Keys, NEW v \in Values, Array!Add(k, v)
        PROVE  ByTime' /\ (setBack \/ Array!Lru!Next \/ UNCHANGED Array!Recent)
    <2>1. setBack \/ Array!Lru!Push(k, v)
      BY <1>3, AddMaps
    <2>2. now' = now /\ setBack' = setBack
      BY <1>3 DEF Array!Add, Array!Counted
    <2>3. idxData' = Array!With(idxData, k, Array!NewItem(numUsed, k))
      BY <1>3 DEF Array!Add
    <2>4. \A l \in DOMAIN idxData' : (l \in DOMAIN idxData /\ idxData'[l] = idxData[l]) \/ idxData'[l].stamp = now
      BY <2>3 DEF Array!With, Array!NewItem
    <2>5. ByTime'
      BY <2>2, <2>4, StampStep
    <2>6. QED
      BY <2>1, <2>5 DEF Array!Lru!Next
  <1>4. CASE Array!Tick
    <2>1. UNCHANGED Array!Recent
      BY <1>4 DEF Array!Tick, Array!Recent
    <2>2. ASSUME ~setBack', NEW x \in Array!Range(idxLru) PROVE x.stamp <= now'
      <3>1. ~setBack /\ ~(now' < now)
        BY <1>4, <2>2 DEF Array!Tick
      <3>2. x.stamp <= now
        BY <2>2, <3>1 DEF ByTime
      <3>3. x \in Array!IdxItem
        BY <2>2, ItemsOfSeq, ElementOfSeq DEF LruInv, Types
      <3>4. x.stamp \in Int /\ now \in Int /\ now' \in Int
        BY <1>4, <3>3 DEF Array!IdxItem, Array!Times, LruInv, Types, Array!Tick
      <3>5. QED
        BY <3>1, <3>2, <3>4
    <2>3. idxLru' = idxLru
      BY <1>4 DEF Array!Tick
    <2>4. QED
      BY <2>1, <2>2, <2>3 DEF ByTime
  <1>5. CASE UNCHANGED Array!vars
    BY <1>5 DEF Array!vars, ByTime, Array!Recent
  <1>6. QED
    BY <1>1, <1>2, <1>3, <1>4, <1>5 DEF Array!Next, Array!Finished

\* For any keys, values, size and number of pushes: read through its indexes, the
\* array is at every moment a map of the N most recent pushes, and a push into a
\* full one replaces the item pushed longest ago, until the clock is set back.
THEOREM PushesAreTheMaps ==
  Array!Spec => ImplementsLRUMap
  <1>1. Array!Init => ByTime /\ Array!Lru!Init
    <2> SUFFICES ASSUME Array!Init PROVE ByTime /\ Array!Lru!Init
      OBVIOUS
    <2>1. idxLru = << >> /\ Array!Range(idxLru) = {}
      BY DEF Array!Init, Array!Range
    <2>2. Array!Recent = << >>
      BY <2>1 DEF Array!Recent
    <2>3. QED
      BY <2>1, <2>2 DEF ByTime, Array!Lru!Init
  <1>2. LruInv /\ LruInv' /\ ByTime /\ [Array!Next]_(Array!vars) => ByTime' /\ [~setBack => Array!Lru!Next]_(Array!Recent)
    BY NextMaps
  <1>3. QED
    BY <1>1, <1>2, Invariance, PTL DEF Array!Spec, ImplementsLRUMap, Array!ImplementsLRUMap
=============================================================================
