----------------------------- MODULE HeapProofs -----------------------------
(***************************************************************************)
(* For every heap size, header size and set of requests: allocation and    *)
(* release keep the blocks tiling the heap, keep free blocks apart and     *)
(* keep what was granted.                                                  *)
(*                                                                         *)
(* Both operations replace a run of neighbouring blocks by one or two      *)
(* blocks over the same bytes, so most of the argument is about that       *)
(* replacement (Replaced), for sequences of blocks in general.  Tiled only *)
(* relates neighbours; the invariant adds that every block ends before     *)
(* each later one starts (Ordered), from which blocks have different       *)
(* addresses without an induction along the list.                          *)
(***************************************************************************)
EXTENDS Heap, SequenceTheorems, TLAPS

Block == [at : Nat, size : Nat, used : BOOLEAN]

Ordered(s)   == \A i, j \in 1 .. Len(s) : i < j => End(s[i]) <= s[j].at
Adjacent(s)  == \A i \in 1 .. Len(s) - 1 : End(s[i]) = s[i + 1].at
NoTwoFree(s) == \A i \in 1 .. Len(s) - 1 : s[i].used \/ s[i + 1].used

\* A list of blocks laid end to end.
Laid(s) == s \in Seq(Block) /\ Len(s) >= 1 /\ Ordered(s) /\ Adjacent(s)

\* The list s with its blocks after the p-th and before the q-th replaced by m.
Replaced(s, p, m, q) == SubSeq(s, 1, p) \o m \o SubSeq(s, q, Len(s))

\* m lies over the bytes of those blocks.
Covers(m, s, p, q) == m[1].at = s[p + 1].at /\ End(m[Len(m)]) = End(s[q - 1])

----------------------------------------------------------------------------
(* The replacement of a run of blocks. *)

LEMMA ThreeParts ==
  ASSUME NEW S, NEW a \in Seq(S), NEW m \in Seq(S), NEW c \in Seq(S)
  PROVE  /\ a \o m \o c \in Seq(S)
         /\ Len(a \o m \o c) = Len(a) + Len(m) + Len(c)
         /\ \A i \in 1 .. Len(a) : (a \o m \o c)[i] = a[i]
         /\ \A i \in 1 .. Len(m) : (a \o m \o c)[Len(a) + i] = m[i]
         /\ \A i \in 1 .. Len(c) : (a \o m \o c)[Len(a) + Len(m) + i] = c[i]
<1>1. Len(a) \in Nat /\ Len(m) \in Nat /\ Len(c) \in Nat
  BY LenProperties
<1> DEFINE b == a \o m
<1>2. /\ b \in Seq(S) /\ Len(b) = Len(a) + Len(m)
      /\ \A i \in 1 .. Len(a) + Len(m) : b[i] = IF i <= Len(a) THEN a[i] ELSE m[i - Len(a)]
  BY ConcatProperties
<1> HIDE DEF b
<1>b. b \in Seq(S)
  BY <1>2
<1>3. /\ b \o c \in Seq(S) /\ Len(b \o c) = Len(b) + Len(c)
      /\ \A i \in 1 .. Len(b) + Len(c) : (b \o c)[i] = IF i <= Len(b) THEN b[i] ELSE c[i - Len(b)]
  BY <1>b, ConcatProperties, Zenon
<1>4. ASSUME NEW i \in 1 .. Len(a)
      PROVE  (b \o c)[i] = a[i]
  <2>1. i \in 1 .. Len(b) + Len(c) /\ i <= Len(b) /\ i \in 1 .. Len(a) + Len(m) /\ i <= Len(a)
    BY <1>1, <1>2
  <2>2. QED
    BY <1>2, <1>3, <2>1
<1>5. ASSUME NEW i \in 1 .. Len(m)
      PROVE  (b \o c)[Len(a) + i] = m[i]
  <2>1. /\ Len(a) + i \in 1 .. Len(b) + Len(c) /\ Len(a) + i <= Len(b)
        /\ Len(a) + i \in 1 .. Len(a) + Len(m) /\ ~(Len(a) + i <= Len(a))
        /\ Len(a) + i - Len(a) = i
    BY <1>1, <1>2
  <2>2. QED
    BY <1>2, <1>3, <2>1
<1>6. ASSUME NEW i \in 1 .. Len(c)
      PROVE  (b \o c)[Len(a) + Len(m) + i] = c[i]
  <2>1. /\ Len(b) + i \in 1 .. Len(b) + Len(c) /\ ~(Len(b) + i <= Len(b))
        /\ Len(b) + i - Len(b) = i
    BY <1>1, <1>2
  <2>2. (b \o c)[Len(b) + i] = c[i]
    BY <1>3, <2>1
  <2>3. QED
    BY <1>2, <2>2
<1>7. QED
  BY <1>1, <1>2, <1>3, <1>4, <1>5, <1>6 DEF b

LEMMA ReplacedAt ==
  ASSUME NEW s \in Seq(Block), NEW m \in Seq(Block),
         NEW p \in 0 .. Len(s), NEW q \in p + 1 .. Len(s) + 1
  PROVE  /\ Replaced(s, p, m, q) \in Seq(Block)
         /\ Len(Replaced(s, p, m, q)) = p + Len(m) + (Len(s) - q + 1)
         /\ \A i \in 1 .. p : Replaced(s, p, m, q)[i] = s[i]
         /\ \A i \in 1 .. Len(m) : Replaced(s, p, m, q)[p + i] = m[i]
         /\ \A i \in q .. Len(s) : Replaced(s, p, m, q)[i - q + 1 + p + Len(m)] = s[i]
<1> DEFINE a == SubSeq(s, 1, p)
           c == SubSeq(s, q, Len(s))
<1>1. /\ Len(s) \in Nat /\ Len(m) \in Nat /\ p \in Int /\ q \in Int
      /\ 0 <= p /\ p <= Len(s) /\ p + 1 <= q /\ q <= Len(s) + 1
  BY LenProperties
<1>2. \A i \in 1 .. p : s[i] \in Block
  BY <1>1, ElementOfSeq
<1>3. \A i \in q .. Len(s) : s[i] \in Block
  BY <1>1, ElementOfSeq
<1>4. a \in Seq(Block) /\ Len(a) = p /\ \A i \in 1 .. p : a[i] = s[i]
  <2>1. /\ a \in Seq(Block)
        /\ Len(a) = IF 1 <= p THEN p - 1 + 1 ELSE 0
        /\ \A i \in 1 .. p - 1 + 1 : a[i] = s[1 + i - 1]
    BY <1>1, <1>2, SubSeqProperties
  <2>2. QED
    BY <1>1, <2>1
<1>5. /\ c \in Seq(Block) /\ Len(c) = Len(s) - q + 1
      /\ \A i \in 1 .. Len(s) - q + 1 : c[i] = s[q + i - 1]
  <2>1. /\ c \in Seq(Block)
        /\ Len(c) = IF q <= Len(s) THEN Len(s) - q + 1 ELSE 0
        /\ \A i \in 1 .. Len(s) - q + 1 : c[i] = s[q + i - 1]
    BY <1>1, <1>3, SubSeqProperties
  <2>2. QED
    BY <1>1, <2>1
<1> HIDE DEF a, c
<1>6. Replaced(s, p, m, q) = a \o m \o c
  BY DEF a, c, Replaced
<1>types. a \in Seq(Block) /\ c \in Seq(Block)
  BY <1>4, <1>5
<1>7. /\ a \o m \o c \in Seq(Block)
      /\ Len(a \o m \o c) = Len(a) + Len(m) + Len(c)
      /\ \A i \in 1 .. Len(a) : (a \o m \o c)[i] = a[i]
      /\ \A i \in 1 .. Len(m) : (a \o m \o c)[Len(a) + i] = m[i]
      /\ \A i \in 1 .. Len(c) : (a \o m \o c)[Len(a) + Len(m) + i] = c[i]
  BY <1>types, ThreeParts, SMTT(60)
<1>8. ASSUME NEW i \in q .. Len(s)
      PROVE  Replaced(s, p, m, q)[i - q + 1 + p + Len(m)] = s[i]
  <2>1. /\ i - q + 1 \in 1 .. Len(s) - q + 1 /\ q + (i - q + 1) - 1 = i
        /\ p + Len(m) + (i - q + 1) = i - q + 1 + p + Len(m)
    BY <1>1
  <2>2. c[i - q + 1] = s[i]
    BY <1>5, <2>1
  <2>3. (a \o m \o c)[p + Len(m) + (i - q + 1)] = c[i - q + 1]
    BY <1>4, <1>5, <1>7, <2>1
  <2>4. QED
    BY <1>6, <2>1, <2>2, <2>3
<1>9. QED
  BY <1>4, <1>5, <1>6, <1>7, <1>8

\* Where each place of the new list comes from.
LEMMA ReplacedCases ==
  ASSUME NEW s \in Seq(Block), NEW m \in Seq(Block),
         NEW p \in 0 .. Len(s), NEW q \in p + 1 .. Len(s) + 1,
         NEW i \in 1 .. Len(Replaced(s, p, m, q))
  PROVE  \/ i \in 1 .. p /\ Replaced(s, p, m, q)[i] = s[i]
         \/ i - p \in 1 .. Len(m) /\ Replaced(s, p, m, q)[i] = m[i - p]
         \/ /\ i + q - 1 - p - Len(m) \in q .. Len(s)
            /\ Replaced(s, p, m, q)[i] = s[i + q - 1 - p - Len(m)]
<1> DEFINE r == Replaced(s, p, m, q)
<1>1. /\ Len(s) \in Nat /\ Len(m) \in Nat /\ p \in Int /\ q \in Int
      /\ 0 <= p /\ p <= Len(s) /\ p + 1 <= q /\ q <= Len(s) + 1
  BY LenProperties
<1>2. /\ Len(r) = p + Len(m) + (Len(s) - q + 1)
      /\ \A j \in 1 .. p : r[j] = s[j]
      /\ \A j \in 1 .. Len(m) : r[p + j] = m[j]
      /\ \A j \in q .. Len(s) : r[j - q + 1 + p + Len(m)] = s[j]
  BY ReplacedAt
<1> HIDE DEF r
<1>3. i \in 1 .. p + Len(m) + (Len(s) - q + 1)
  BY <1>2 DEF r
<1>4. CASE i \in 1 .. p
  BY <1>2, <1>4 DEF r
<1>5. CASE i - p \in 1 .. Len(m)
  <2>1. p + (i - p) = i
    BY <1>1, <1>3
  <2>2. r[p + (i - p)] = m[i - p]
    BY <1>2, <1>5
  <2>3. QED
    BY <1>5, <2>1, <2>2 DEF r
<1>6. CASE i + q - 1 - p - Len(m) \in q .. Len(s)
  <2> DEFINE j == i + q - 1 - p - Len(m)
  <2>1. j - q + 1 + p + Len(m) = i
    BY <1>1, <1>3
  <2>2. r[j - q + 1 + p + Len(m)] = s[j]
    BY <1>2, <1>6
  <2>3. QED
    BY <1>6, <2>1, <2>2 DEF r
<1>7. QED
  BY <1>1, <1>3, <1>4, <1>5, <1>6

\* The blocks x and y are neighbours in s, neighbours in m, or meet at an end
\* of m.
Meet(x, y, s, p, m, q) ==
  \/ \E h \in 1 .. Len(s) - 1 : x = s[h] /\ y = s[h + 1]
  \/ \E h \in 1 .. Len(m) - 1 : x = m[h] /\ y = m[h + 1]
  \/ p >= 1 /\ x = s[p] /\ y = m[1]
  \/ q <= Len(s) /\ x = m[Len(m)] /\ y = s[q]

LEMMA ReplacedNeighbours ==
  ASSUME NEW s \in Seq(Block), NEW m \in Seq(Block), Len(m) >= 1,
         NEW p \in 0 .. Len(s), NEW q \in p + 1 .. Len(s) + 1,
         NEW i \in 1 .. Len(Replaced(s, p, m, q)) - 1
  PROVE  Meet(Replaced(s, p, m, q)[i], Replaced(s, p, m, q)[i + 1], s, p, m, q)
<1> DEFINE r == Replaced(s, p, m, q)
<1>1. /\ Len(s) \in Nat /\ Len(m) \in Nat /\ p \in Int /\ q \in Int
      /\ 0 <= p /\ p <= Len(s) /\ p + 1 <= q /\ q <= Len(s) + 1
  BY LenProperties
<1>2. /\ Len(r) = p + Len(m) + (Len(s) - q + 1)
      /\ \A j \in 1 .. p : r[j] = s[j]
      /\ \A j \in 1 .. Len(m) : r[p + j] = m[j]
      /\ \A j \in q .. Len(s) : r[j - q + 1 + p + Len(m)] = s[j]
  BY ReplacedAt
<1>3. i \in 1 .. Len(r) - 1
  OBVIOUS
<1>0. r = Replaced(s, p, m, q)
  OBVIOUS
<1> HIDE DEF r
<1>4. i \in Int /\ 1 <= i /\ i < p + Len(m) + (Len(s) - q + 1)
  BY <1>1, <1>2, <1>3
<1>5. CASE i <= p - 1
  <2>1. i \in 1 .. p /\ i + 1 \in 1 .. p /\ i \in 1 .. Len(s) - 1
    BY <1>1, <1>4, <1>5
  <2>2. QED
    BY <1>2, <2>1, <1>0 DEF Meet
<1>6. CASE i = p
  BY <1>1, <1>2, <1>4, <1>6, <1>0 DEF Meet
<1>7. CASE i > p /\ i < p + Len(m)
  <2> DEFINE h == i - p
  <2>1. h \in 1 .. Len(m) /\ h + 1 \in 1 .. Len(m) /\ h \in 1 .. Len(m) - 1
        /\ p + h = i /\ p + (h + 1) = i + 1
    BY <1>1, <1>4, <1>7
  <2> HIDE DEF h
  <2>2. r[p + h] = m[h] /\ r[p + (h + 1)] = m[h + 1]
    BY <1>2, <2>1
  <2>3. QED
    BY <2>1, <2>2, <1>0 DEF Meet
<1>8. CASE i = p + Len(m)
  <2>1. /\ Len(m) \in 1 .. Len(m) /\ q \in q .. Len(s) /\ q <= Len(s)
        /\ q - q + 1 + p + Len(m) = i + 1
    BY <1>1, <1>4, <1>8
  <2>2. r[p + Len(m)] = m[Len(m)] /\ r[i + 1] = s[q]
    BY <1>2, <2>1
  <2>3. QED
    BY <1>8, <2>1, <2>2, <1>0 DEF Meet
<1>9. CASE i > p + Len(m)
  <2> DEFINE h == i + q - 1 - p - Len(m)
  <2>1. /\ h \in q .. Len(s) /\ h + 1 \in q .. Len(s) /\ h \in 1 .. Len(s) - 1
        /\ h - q + 1 + p + Len(m) = i /\ (h + 1) - q + 1 + p + Len(m) = i + 1
    BY <1>1, <1>4, <1>9
  <2> HIDE DEF h
  <2>2. r[h - q + 1 + p + Len(m)] = s[h] /\ r[(h + 1) - q + 1 + p + Len(m)] = s[h + 1]
    BY <1>2, <2>1
  <2>3. QED
    BY <2>1, <2>2, <1>0 DEF Meet
<1>10. QED
  BY <1>1, <1>4, <1>5, <1>6, <1>7, <1>8, <1>9

LEMMA BlockEnd ==
  ASSUME NEW b \in Block
  PROVE  /\ b.at \in Nat /\ b.size \in Nat /\ b.used \in BOOLEAN
         /\ End(b) \in Nat /\ b.at < End(b) /\ Ptr(b) \in Nat /\ Ptr(b) <= End(b)
  BY HeapAssumption DEF Block, End, Ptr

\* Going along the list, blocks start and end later and later.
LEMMA LaterInList ==
  ASSUME NEW s, Laid(s), NEW i \in 1 .. Len(s), NEW j \in 1 .. Len(s), i <= j
  PROVE  s[i].at <= s[j].at /\ End(s[i]) <= End(s[j])
<1>1. s[i] \in Block /\ s[j] \in Block
  BY ElementOfSeq DEF Laid
<1>2. CASE i = j
  BY <1>1, <1>2, BlockEnd
<1>3. CASE i < j
  <2>1. End(s[i]) <= s[j].at
    BY <1>3 DEF Laid, Ordered
  <2>2. QED
    BY <1>1, <2>1, BlockEnd
<1>4. QED
  BY <1>2, <1>3

\* Blocks are told apart by their addresses.
LEMMA OneBlockPerPtr ==
  ASSUME NEW s, Laid(s), NEW i \in 1 .. Len(s), NEW j \in 1 .. Len(s),
         Ptr(s[i]) = Ptr(s[j])
  PROVE  i = j
<1>1. s[i] \in Block /\ s[j] \in Block
  BY ElementOfSeq DEF Laid
<1>2. s[i].at = s[j].at
  BY <1>1, HeapAssumption DEF Ptr, Block
<1>3. s[i].at < End(s[i]) /\ s[j].at < End(s[j])
      /\ s[i].at \in Nat /\ End(s[i]) \in Nat /\ s[j].at \in Nat /\ End(s[j]) \in Nat
  BY <1>1, BlockEnd
<1>4. /\ i < j => End(s[i]) <= s[j].at
      /\ j < i => End(s[j]) <= s[i].at
  BY DEF Laid, Ordered
<1>5. ~(i < j) /\ ~(j < i)
  BY <1>2, <1>3, <1>4
<1>6. QED
  BY <1>5

LEMMA ReplacedLaid ==
  ASSUME NEW s, Laid(s), NEW m, Laid(m),
         NEW p \in 0 .. Len(s), NEW q \in p + 2 .. Len(s) + 1, Covers(m, s, p, q)
  PROVE  /\ Laid(Replaced(s, p, m, q))
         /\ Replaced(s, p, m, q)[1].at = s[1].at
         /\ End(Replaced(s, p, m, q)[Len(Replaced(s, p, m, q))]) = End(s[Len(s)])
<1> DEFINE r == Replaced(s, p, m, q)
<1>1. /\ s \in Seq(Block) /\ m \in Seq(Block) /\ q \in p + 1 .. Len(s) + 1
      /\ Len(s) \in Nat /\ Len(m) \in Nat /\ Len(m) >= 1 /\ p \in Int /\ q \in Int
      /\ 0 <= p /\ p + 2 <= q /\ q <= Len(s) + 1
  BY LenProperties DEF Laid
<1>2. /\ r \in Seq(Block)
      /\ Len(r) = p + Len(m) + (Len(s) - q + 1)
      /\ \A j \in 1 .. p : r[j] = s[j]
      /\ \A j \in 1 .. Len(m) : r[p + j] = m[j]
      /\ \A j \in q .. Len(s) : r[j - q + 1 + p + Len(m)] = s[j]
  BY <1>1, ReplacedAt
<1>3. \A i \in 1 .. Len(r) :
         \/ i \in 1 .. p /\ r[i] = s[i]
         \/ i - p \in 1 .. Len(m) /\ r[i] = m[i - p]
         \/ i + q - 1 - p - Len(m) \in q .. Len(s) /\ r[i] = s[i + q - 1 - p - Len(m)]
  BY <1>1, ReplacedCases
<1> HIDE DEF r
\* Every block of m starts after its left neighbours end, and ends before
\* its right neighbours start.
<1>4. ASSUME NEW i \in 1 .. p, NEW k \in 1 .. Len(m)
      PROVE  End(s[i]) <= m[k].at
  <2>1. End(s[i]) <= s[p + 1].at
    BY <1>1, SMTT(60) DEF Laid, Ordered
  <2>2. m[1].at <= m[k].at
    BY <1>1, LaterInList
  <2>3. /\ s[i] \in Block /\ s[p + 1] \in Block /\ m[1] \in Block /\ m[k] \in Block
    BY <1>1, ElementOfSeq
  <2>4. /\ End(s[i]) \in Nat /\ s[p + 1].at \in Nat /\ m[1].at \in Nat /\ m[k].at \in Nat
        /\ m[1].at = s[p + 1].at
    BY <2>3, BlockEnd DEF Covers
  <2>5. QED
    BY <2>1, <2>2, <2>4, SMTT(60)
<1>5. ASSUME NEW j \in q .. Len(s), NEW k \in 1 .. Len(m)
      PROVE  End(m[k]) <= s[j].at
  <2>1. q - 1 \in 1 .. Len(s) /\ j \in 1 .. Len(s) /\ q - 1 < j /\ Len(m) \in 1 .. Len(m)
    BY <1>1
  <2>2. End(s[q - 1]) <= s[j].at
    BY <2>1 DEF Laid, Ordered
  <2>3. End(m[k]) <= End(m[Len(m)])
    BY <1>1, <2>1, LaterInList
  <2>4. /\ s[j] \in Block /\ s[q - 1] \in Block /\ m[Len(m)] \in Block /\ m[k] \in Block
    BY <1>1, <2>1, ElementOfSeq
  <2>5. /\ s[j].at \in Nat /\ End(s[q - 1]) \in Nat /\ End(m[Len(m)]) \in Nat /\ End(m[k]) \in Nat
        /\ End(m[Len(m)]) = End(s[q - 1])
    BY <2>4, BlockEnd DEF Covers
  <2>6. QED
    BY <2>2, <2>3, <2>5
<1>6. Ordered(r)
  <2> SUFFICES ASSUME NEW i \in 1 .. Len(r), NEW j \in 1 .. Len(r), i < j
               PROVE  End(r[i]) <= r[j].at
    BY DEF Ordered
  <2>1. CASE i \in 1 .. p /\ r[i] = s[i]
    <3>1. CASE j \in 1 .. p /\ r[j] = s[j]
      BY <1>1, <2>1, <3>1, SMTT(60) DEF Laid, Ordered
    <3>2. CASE j - p \in 1 .. Len(m) /\ r[j] = m[j - p]
      BY <1>4, <2>1, <3>2
    <3>3. CASE j + q - 1 - p - Len(m) \in q .. Len(s) /\ r[j] = s[j + q - 1 - p - Len(m)]
      <4> DEFINE h == j + q - 1 - p - Len(m)
      <4>1. h \in 1 .. Len(s) /\ i \in 1 .. Len(s) /\ i < h
        BY <1>1, <2>1, <3>3, SMTT(60)
      <4>2. r[j] = s[h]
        BY <3>3
      <4> HIDE DEF h
      <4>3. QED
        BY <2>1, <4>1, <4>2 DEF Laid, Ordered
    <3>4. QED
      BY <1>3, <3>1, <3>2, <3>3
  <2>2. CASE i - p \in 1 .. Len(m) /\ r[i] = m[i - p]
    <3>1. CASE j \in 1 .. p
      BY <1>1, <2>2, <3>1
    <3>2. CASE j - p \in 1 .. Len(m) /\ r[j] = m[j - p]
      <4>1. i - p < j - p
        BY <1>1, <2>2, <3>2
      <4>2. QED
        BY <2>2, <3>2, <4>1 DEF Laid, Ordered
    <3>3. CASE j + q - 1 - p - Len(m) \in q .. Len(s) /\ r[j] = s[j + q - 1 - p - Len(m)]
      BY <1>5, <2>2, <3>3
    <3>4. QED
      BY <1>3, <3>1, <3>2, <3>3
  <2>3. CASE i + q - 1 - p - Len(m) \in q .. Len(s) /\ r[i] = s[i + q - 1 - p - Len(m)]
    <3>1. /\ j + q - 1 - p - Len(m) \in q .. Len(s)
          /\ i + q - 1 - p - Len(m) < j + q - 1 - p - Len(m)
          /\ ~(j \in 1 .. p) /\ ~(j - p \in 1 .. Len(m))
      BY <1>1, <1>2, <2>3
    <3>2. r[j] = s[j + q - 1 - p - Len(m)]
      BY <1>3, <3>1
    <3> DEFINE g == i + q - 1 - p - Len(m)
               h == j + q - 1 - p - Len(m)
    <3>3. g \in 1 .. Len(s) /\ h \in 1 .. Len(s) /\ g < h
      BY <1>1, <2>3, <3>1, SMTT(60)
    <3>4. r[i] = s[g] /\ r[j] = s[h]
      BY <2>3, <3>2
    <3> HIDE DEF g, h
    <3>5. QED
      BY <3>3, <3>4 DEF Laid, Ordered
  <2>4. QED
    BY <1>3, <2>1, <2>2, <2>3
<1>7. Adjacent(r)
  <2> SUFFICES ASSUME NEW i \in 1 .. Len(r) - 1
               PROVE  End(r[i]) = r[i + 1].at
    BY DEF Adjacent
  <2>1. Meet(r[i], r[i + 1], s, p, m, q)
    BY <1>1, ReplacedNeighbours DEF r
  <2>2. /\ p >= 1 => End(s[p]) = s[p + 1].at
        /\ q <= Len(s) => End(s[q - 1]) = s[q].at
    <3>1. ASSUME p >= 1
          PROVE  End(s[p]) = s[p + 1].at
      BY <1>1, <3>1 DEF Laid, Adjacent
    <3>2. ASSUME q <= Len(s)
          PROVE  End(s[q - 1]) = s[q].at
      <4>1. q - 1 \in 1 .. Len(s) - 1 /\ (q - 1) + 1 = q
        BY <1>1, <3>2
      <4>2. End(s[q - 1]) = s[(q - 1) + 1].at
        BY <4>1 DEF Laid, Adjacent
      <4>3. QED
        BY <4>1, <4>2
    <3>3. QED
      BY <3>1, <3>2
  <2>3. QED
    BY <2>1, <2>2 DEF Meet, Laid, Adjacent, Covers
<1>8. Len(r) >= 1
  BY <1>1, <1>2
<1>9. r[1].at = s[1].at
  <2>1. CASE p = 0
    BY <1>1, <1>2, <2>1 DEF Covers
  <2>2. CASE p > 0
    BY <1>1, <1>2, <2>2
  <2>3. QED
    BY <1>1, <2>1, <2>2
<1>10. End(r[Len(r)]) = End(s[Len(s)])
  <2>1. CASE q = Len(s) + 1
    <3>1. Len(r) = p + Len(m) /\ q - 1 = Len(s) /\ Len(m) \in 1 .. Len(m)
      BY <1>1, <1>2, <2>1
    <3>2. r[p + Len(m)] = m[Len(m)]
      BY <1>2, <3>1
    <3>3. QED
      BY <3>1, <3>2 DEF Covers
  <2>2. CASE q <= Len(s)
    <3>1. Len(s) \in q .. Len(s) /\ Len(s) - q + 1 + p + Len(m) = Len(r)
      BY <1>1, <1>2, <2>2
    <3>2. r[Len(s) - q + 1 + p + Len(m)] = s[Len(s)]
      BY <1>2, <3>1
    <3>3. QED
      BY <3>1, <3>2
  <2>3. QED
    BY <1>1, <2>1, <2>2
<1>11. QED
  BY <1>2, <1>6, <1>7, <1>8, <1>9, <1>10 DEF r, Laid

LEMMA ReplacedNoTwoFree ==
  ASSUME NEW s, Laid(s), NoTwoFree(s), NEW m, Laid(m), NoTwoFree(m),
         NEW p \in 0 .. Len(s), NEW q \in p + 1 .. Len(s) + 1,
         p >= 1 => s[p].used \/ m[1].used,
         q <= Len(s) => m[Len(m)].used \/ s[q].used
  PROVE  NoTwoFree(Replaced(s, p, m, q))
<1> DEFINE r == Replaced(s, p, m, q)
<1> SUFFICES ASSUME NEW i \in 1 .. Len(r) - 1
             PROVE  r[i].used \/ r[i + 1].used
  BY DEF NoTwoFree
<1>1. Meet(r[i], r[i + 1], s, p, m, q)
  BY ReplacedNeighbours DEF Laid
<1>2. QED
  BY <1>1 DEF Meet, NoTwoFree

\* The blocks of r are those of m and those of s outside the run.
MadeOf(r, s, m, p, q) ==
  /\ \A i \in 1 .. Len(r) :
       \/ \E h \in 1 .. Len(s) : (h <= p \/ h >= q) /\ r[i] = s[h]
       \/ \E h \in 1 .. Len(m) : r[i] = m[h]
  /\ \A h \in 1 .. Len(s) : h <= p \/ h >= q => \E i \in 1 .. Len(r) : r[i] = s[h]
  /\ \A h \in 1 .. Len(m) : \E i \in 1 .. Len(r) : r[i] = m[h]

LEMMA ReplacedMembers ==
  ASSUME NEW s \in Seq(Block), NEW m \in Seq(Block),
         NEW p \in 0 .. Len(s), NEW q \in p + 1 .. Len(s) + 1
  PROVE  MadeOf(Replaced(s, p, m, q), s, m, p, q)
<1> DEFINE r == Replaced(s, p, m, q)
<1>1. /\ Len(s) \in Nat /\ Len(m) \in Nat /\ p \in Int /\ q \in Int
      /\ 0 <= p /\ p <= Len(s) /\ p + 1 <= q /\ q <= Len(s) + 1
  BY LenProperties
<1>2. /\ Len(r) = p + Len(m) + (Len(s) - q + 1)
      /\ \A j \in 1 .. p : r[j] = s[j]
      /\ \A j \in 1 .. Len(m) : r[p + j] = m[j]
      /\ \A j \in q .. Len(s) : r[j - q + 1 + p + Len(m)] = s[j]
  BY ReplacedAt
<1>3. \A i \in 1 .. Len(r) :
         \/ i \in 1 .. p /\ r[i] = s[i]
         \/ i - p \in 1 .. Len(m) /\ r[i] = m[i - p]
         \/ i + q - 1 - p - Len(m) \in q .. Len(s) /\ r[i] = s[i + q - 1 - p - Len(m)]
  BY ReplacedCases
<1> HIDE DEF r
<1>4. ASSUME NEW i \in 1 .. Len(r)
      PROVE  \/ \E h \in 1 .. Len(s) : (h <= p \/ h >= q) /\ r[i] = s[h]
             \/ \E h \in 1 .. Len(m) : r[i] = m[h]
  <2>1. CASE i \in 1 .. p /\ r[i] = s[i]
    <3>1. i \in 1 .. Len(s) /\ i <= p
      BY <1>1, <2>1
    <3>2. QED
      BY <2>1, <3>1
  <2>2. CASE i - p \in 1 .. Len(m) /\ r[i] = m[i - p]
    BY <2>2
  <2>3. CASE i + q - 1 - p - Len(m) \in q .. Len(s) /\ r[i] = s[i + q - 1 - p - Len(m)]
    <3> DEFINE h == i + q - 1 - p - Len(m)
    <3>1. h \in 1 .. Len(s) /\ h >= q /\ r[i] = s[h]
      BY <1>1, <2>3
    <3> HIDE DEF h
    <3>2. QED
      BY <3>1
  <2>4. QED
    BY <1>3, <2>1, <2>2, <2>3
<1>5. ASSUME NEW h \in 1 .. Len(s), h <= p
      PROVE  \E i \in 1 .. Len(r) : r[i] = s[h]
  BY <1>1, <1>2, <1>5
<1>6. ASSUME NEW h \in 1 .. Len(s), h >= q
      PROVE  \E i \in 1 .. Len(r) : r[i] = s[h]
  <2> DEFINE i == h - q + 1 + p + Len(m)
  <2>1. i \in 1 .. Len(r) /\ r[i] = s[h]
    BY <1>1, <1>2, <1>6
  <2> HIDE DEF i
  <2>2. QED
    BY <2>1
<1>7. ASSUME NEW h \in 1 .. Len(m)
      PROVE  \E i \in 1 .. Len(r) : r[i] = m[h]
  <2>1. p + h \in 1 .. Len(r) /\ r[p + h] = m[h]
    BY <1>1, <1>2, SMTT(60)
  <2>2. QED
    BY <2>1
<1>8. QED
  BY <1>4, <1>5, <1>6, <1>7 DEF r, MadeOf

----------------------------------------------------------------------------
(* The grants. *)

\* What GrantsAreGood says, block by block.
Kept(s, gs) ==
  /\ \A i \in 1 .. Len(s) : s[i].used => \E g \in gs : g.ptr = Ptr(s[i])
  /\ \A g \in gs : \E i \in 1 .. Len(s) :
       /\ s[i].used /\ Ptr(s[i]) = g.ptr
       /\ s[i].size >= g.req \/ g.req = Word - 1
  /\ \A g, h \in gs : g.ptr = h.ptr => g = h

Good(s, gs) ==
  /\ {Ptr(s[i]) : i \in {i \in DOMAIN s : s[i].used}} = {g.ptr : g \in gs}
  /\ \A g, h \in gs : g.ptr = h.ptr => g = h
  /\ \A g \in gs : \A i \in DOMAIN s :
       Ptr(s[i]) = g.ptr => s[i].size >= g.req \/ g.req = Word - 1

LEMMA KeptIsGood ==
  ASSUME NEW s, Laid(s), NEW gs
  PROVE  Kept(s, gs) <=> Good(s, gs)
<1>1. DOMAIN s = 1 .. Len(s)
  BY DEF Laid
<1>2. ASSUME Kept(s, gs)
      PROVE  Good(s, gs)
  <2>1. {Ptr(s[i]) : i \in {i \in DOMAIN s : s[i].used}} = {g.ptr : g \in gs}
    BY <1>1, <1>2 DEF Kept
  <2>2. ASSUME NEW g \in gs, NEW i \in DOMAIN s, Ptr(s[i]) = g.ptr
        PROVE  s[i].size >= g.req \/ g.req = Word - 1
    <3>1. PICK h \in 1 .. Len(s) :
            /\ s[h].used /\ Ptr(s[h]) = g.ptr
            /\ s[h].size >= g.req \/ g.req = Word - 1
      BY <1>2 DEF Kept
    <3>2. h = i
      BY <1>1, <2>2, <3>1, OneBlockPerPtr
    <3>3. QED
      BY <3>1, <3>2
  <2>3. QED
    BY <1>2, <2>1, <2>2 DEF Kept, Good
<1>3. ASSUME Good(s, gs)
      PROVE  Kept(s, gs)
  <2>1. ASSUME NEW i \in 1 .. Len(s), s[i].used
        PROVE  \E g \in gs : g.ptr = Ptr(s[i])
    BY <1>1, <1>3, <2>1 DEF Good
  <2>2. ASSUME NEW g \in gs
        PROVE  \E i \in 1 .. Len(s) :
                 /\ s[i].used /\ Ptr(s[i]) = g.ptr
                 /\ s[i].size >= g.req \/ g.req = Word - 1
    <3>1. PICK i \in DOMAIN s : s[i].used /\ Ptr(s[i]) = g.ptr
      BY <1>3 DEF Good
    <3>2. QED
      BY <1>1, <1>3, <3>1 DEF Good
  <2>3. QED
    BY <1>3, <2>1, <2>2 DEF Good, Kept
<1>4. QED
  BY <1>2, <1>3

----------------------------------------------------------------------------
(* The inductive invariant, of a list s and the grants gs. *)

Sound(s, gs) ==
  /\ Laid(s)
  /\ s[1].at = 0
  /\ End(s[Len(s)]) = Header + Down(HeapSize - Header)
  /\ NoTwoFree(s)
  /\ Kept(s, gs)

HeapIInv == Sound(blocks, grants)

LEMMA WholeSound == Sound(Whole, {})
<1>1. Down(HeapSize - Header) \in Nat
  <2>1. HeapSize - Header \in Nat
    BY HeapAssumption
  <2>2. QED
    BY <2>1 DEF Down
<1>2. Whole \in Seq(Block) /\ Len(Whole) = 1
  BY <1>1 DEF Whole, Block
<1>3. Whole[1] = [at |-> 0, size |-> Down(HeapSize - Header), used |-> FALSE]
  BY DEF Whole
<1>4. Laid(Whole)
  BY <1>2 DEF Laid, Ordered, Adjacent
<1>5. End(Whole[1]) = Header + Down(HeapSize - Header)
  BY <1>1, <1>3, HeapAssumption DEF End
<1>6. Kept(Whole, {})
  BY <1>2, <1>3 DEF Kept
<1>7. QED
  BY <1>2, <1>3, <1>4, <1>5, <1>6 DEF Sound, NoTwoFree

\* Rounding up to even never makes a request smaller, but for the largest.
LEMMA EvenIsEnough ==
  ASSUME NEW req \in Requests
  PROVE  Even(req) \in Nat /\ (Even(req) >= req \/ req = Word - 1)
<1>1. req \in Nat /\ req <= Word - 1 /\ Word \in Nat /\ Word # 0
  BY HeapAssumption
<1>2. CASE req = Word - 1
  <2>1. (req + 1) % Word = 0
    BY <1>1, <1>2
  <2>2. QED
    BY <1>2, <2>1 DEF Even, Down
<1>3. CASE req # Word - 1
  <2>1. (req + 1) % Word = req + 1
    BY <1>1, <1>3
  <2>2. QED
    BY <1>1, <2>1 DEF Even, Down
<1>4. QED
  BY <1>2, <1>3

LEMMA BlockFields ==
  ASSUME NEW b \in Block
  PROVE  b = [at |-> b.at, size |-> b.size, used |-> b.used]
  BY DEF Block

LEMMA TakenBlock ==
  ASSUME NEW b \in Block, NEW n \in Nat
  PROVE  /\ [b EXCEPT !.size = n, !.used = TRUE] = [at |-> b.at, size |-> n, used |-> TRUE]
         /\ [b EXCEPT !.used = TRUE] = [at |-> b.at, size |-> b.size, used |-> TRUE]
<1> DEFINE x == [b EXCEPT !.size = n, !.used = TRUE]
           y == [b EXCEPT !.used = TRUE]
<1>1. x \in Block /\ y \in Block
  BY DEF Block
<1>2. /\ x.at = b.at /\ x.size = n /\ x.used = TRUE
      /\ y.at = b.at /\ y.size = b.size /\ y.used = TRUE
  BY DEF Block
<1> HIDE DEF x, y
<1>3. /\ x = [at |-> x.at, size |-> x.size, used |-> x.used]
      /\ y = [at |-> y.at, size |-> y.size, used |-> y.used]
  BY <1>1, BlockFields
<1>4. QED
  BY <1>2, <1>3 DEF x, y

\* What a block is split into covers it, the used part first.
LEMMA SplitLaid ==
  ASSUME NEW b \in Block, NEW n \in Nat, Fits(b, n)
  PROVE  /\ Laid(Split(b, n)) /\ NoTwoFree(Split(b, n))
         /\ Split(b, n)[1].at = b.at
         /\ End(Split(b, n)[Len(Split(b, n))]) = End(b)
         /\ Split(b, n)[1].used /\ Split(b, n)[1].size >= n
         /\ \A i \in 2 .. Len(Split(b, n)) : ~Split(b, n)[i].used
<1>1. /\ b.at \in Nat /\ b.size \in Nat /\ b.size >= n /\ Header \in Nat \ {0}
      /\ b = [at |-> b.at, size |-> b.size, used |-> b.used]
  BY HeapAssumption DEF Block, Fits
<1>2. CASE b.size - n > Header + 2
  <2> DEFINE x == [at |-> b.at, size |-> n, used |-> TRUE]
             y == [at |-> b.at + Header + n, size |-> b.size - n - Header, used |-> FALSE]
  <2>1. x \in Block /\ y \in Block
    BY <1>1, <1>2 DEF Block
  <2>0. [b EXCEPT !.size = n, !.used = TRUE] = x
    BY TakenBlock
  <2>2. Split(b, n) = <<x, y>>
    BY <1>2, <2>0 DEF Split
  <2>3. End(x) = y.at /\ End(y) = End(b)
    BY <1>1, <1>2 DEF End
  <2>4. x.at = b.at /\ x.used /\ x.size = n /\ ~y.used
    OBVIOUS
  <2>8. x \in Block /\ y \in Block /\ x.size >= n
    BY <1>1, <2>1, <2>4
  <2> HIDE DEF x, y
  <2>5. <<x, y>> \in Seq(Block) /\ Len(<<x, y>>) = 2
    BY <2>1
  <2>6. Ordered(<<x, y>>) /\ Adjacent(<<x, y>>) /\ NoTwoFree(<<x, y>>)
    BY <2>1, <2>3, <2>4, <2>5, BlockEnd DEF Ordered, Adjacent, NoTwoFree
  <2>7. \A i \in 2 .. Len(<<x, y>>) : ~<<x, y>>[i].used
    BY <2>4, <2>5
  <2>9. QED
    BY <2>2, <2>3, <2>4, <2>5, <2>6, <2>7, <2>8 DEF Laid
<1>3. CASE ~(b.size - n > Header + 2)
  <2> DEFINE x == [at |-> b.at, size |-> b.size, used |-> TRUE]
  <2>1. x \in Block
    BY <1>1 DEF Block
  <2>0. [b EXCEPT !.used = TRUE] = x
    BY TakenBlock
  <2>2. Split(b, n) = <<x>>
    BY <1>3, <2>0 DEF Split
  <2>3. x.at = b.at /\ x.used /\ x.size >= n /\ End(x) = End(b)
    BY <1>1 DEF End
  <2> HIDE DEF x
  <2>4. <<x>> \in Seq(Block) /\ Len(<<x>>) = 1
    BY <2>1
  <2>5. Ordered(<<x>>) /\ Adjacent(<<x>>) /\ NoTwoFree(<<x>>)
    BY <2>4 DEF Ordered, Adjacent, NoTwoFree
  <2>6. QED
    BY <2>2, <2>3, <2>4, <2>5 DEF Laid
<1>4. QED
  BY <1>2, <1>3

----------------------------------------------------------------------------
(* The operations. *)

LEMMA MallocSound ==
  ASSUME NEW s, NEW gs, Sound(s, gs), NEW req \in Requests,
         NEW i \in 1 .. Len(s), Fits(s[i], Even(req))
  PROVE  Sound(Replaced(s, i - 1, Split(s[i], Even(req)), i + 1),
               gs \cup {[ptr |-> Ptr(s[i]), req |-> req]})
<1> DEFINE m   == Split(s[i], Even(req))
           r   == Replaced(s, i - 1, m, i + 1)
           new == [ptr |-> Ptr(s[i]), req |-> req]
<1>1. /\ Laid(s) /\ s \in Seq(Block) /\ Len(s) \in Nat /\ s[i] \in Block
      /\ NoTwoFree(s) /\ Kept(s, gs)
  BY ElementOfSeq, LenProperties DEF Sound, Laid
<1>2. ~s[i].used /\ Even(req) \in Nat /\ (Even(req) >= req \/ req = Word - 1)
  BY EvenIsEnough DEF Fits
<1>3. /\ Laid(m) /\ NoTwoFree(m) /\ m[1].at = s[i].at /\ End(m[Len(m)]) = End(s[i])
      /\ m[1].used /\ m[1].size >= Even(req)
      /\ \A h \in 2 .. Len(m) : ~m[h].used
  BY <1>1, <1>2, SplitLaid
<1>4. /\ m \in Seq(Block) /\ Len(m) \in Nat /\ Len(m) >= 1 /\ m[1] \in Block
      /\ 1 \in 1 .. Len(m)
  BY <1>3, ElementOfSeq, LenProperties DEF Laid
<1> HIDE DEF m
<1>5. /\ i - 1 \in 0 .. Len(s) /\ i + 1 \in (i - 1) + 1 .. Len(s) + 1
      /\ i + 1 \in (i - 1) + 2 .. Len(s) + 1 /\ (i - 1) + 1 = i /\ (i + 1) - 1 = i
  BY <1>1
<1>6. /\ Laid(r) /\ r[1].at = s[1].at /\ End(r[Len(r)]) = End(s[Len(s)])
  <2>1. Covers(m, s, i - 1, i + 1)
    BY <1>3, <1>5 DEF Covers
  <2>2. QED
    BY <1>1, <1>3, <1>5, <2>1, ReplacedLaid
<1>7. NoTwoFree(r)
  <2>1. i + 1 <= Len(s) => s[i + 1].used
    <3> SUFFICES ASSUME i + 1 <= Len(s) PROVE s[i + 1].used
      OBVIOUS
    <3>1. i \in 1 .. Len(s) - 1
      BY <1>1
    <3>2. QED
      BY <1>1, <1>2, <3>1 DEF NoTwoFree
  <2>2. i - 1 >= 1 => s[i - 1].used \/ m[1].used
    BY <1>3
  <2>3. QED
    BY <1>1, <1>3, <1>5, <2>1, <2>2, ReplacedNoTwoFree
<1>8. MadeOf(r, s, m, i - 1, i + 1)
  BY <1>1, <1>4, <1>5, ReplacedMembers
<1> HIDE DEF r
<1>9. Ptr(m[1]) = Ptr(s[i])
  BY <1>3 DEF Ptr
<1>10. ASSUME NEW j \in 1 .. Len(r), r[j].used
       PROVE  \E g \in gs \cup {new} : g.ptr = Ptr(r[j])
  <2>1. CASE \E h \in 1 .. Len(s) : r[j] = s[h]
    BY <1>1, <1>10, <2>1 DEF Kept
  <2>2. ASSUME NEW h \in 1 .. Len(m), r[j] = m[h]
        PROVE  new.ptr = Ptr(r[j])
    <3>1. m[h].used
      BY <1>10, <2>2
    <3>2. h = 1 \/ h \in 2 .. Len(m)
      BY <1>4
    <3>3. QED
      BY <1>3, <1>9, <2>2, <3>1, <3>2
  <2> HIDE DEF new
  <2>3. QED
    BY <1>8, <2>1, <2>2 DEF MadeOf
<1>11. ASSUME NEW g \in gs \cup {new}
       PROVE  \E j \in 1 .. Len(r) :
                /\ r[j].used /\ Ptr(r[j]) = g.ptr
                /\ r[j].size >= g.req \/ g.req = Word - 1
  <2>1. CASE g \in gs
    <3>1. PICK h \in 1 .. Len(s) :
            /\ s[h].used /\ Ptr(s[h]) = g.ptr
            /\ s[h].size >= g.req \/ g.req = Word - 1
      BY <1>1, <2>1 DEF Kept
    <3>2. h <= i - 1 \/ h >= i + 1
      <4>1. h # i
        BY <1>2, <3>1
      <4>2. QED
        BY <1>1, <4>1
    <3>3. QED
      BY <1>8, <3>1, <3>2 DEF MadeOf
  <2>2. CASE g = new
    <3>1. PICK j \in 1 .. Len(r) : r[j] = m[1]
      BY <1>4, <1>8 DEF MadeOf
    <3>2. m[1].size >= req \/ req = Word - 1
      <4>1. m[1].size \in Nat /\ req \in Int
        BY <1>4, BlockEnd, HeapAssumption
      <4>2. QED
        BY <1>2, <1>3, <4>1
    <3>3. QED
      BY <1>3, <1>9, <2>2, <3>1, <3>2
  <2>3. QED
    BY <2>1, <2>2
<1>12. ASSUME NEW g \in gs, g.ptr = new.ptr
       PROVE  FALSE
  <2>1. PICK h \in 1 .. Len(s) : s[h].used /\ Ptr(s[h]) = g.ptr
    BY <1>1 DEF Kept
  <2>2. h = i
    BY <1>1, <1>12, <2>1, OneBlockPerPtr
  <2>3. QED
    BY <1>2, <2>1, <2>2
<1>13. Kept(r, gs \cup {new})
  <2>1. \A g, h \in gs \cup {new} : g.ptr = h.ptr => g = h
    BY <1>1, <1>12 DEF Kept
  <2>2. QED
    BY <1>10, <1>11, <2>1 DEF Kept
<1>14. QED
  BY <1>6, <1>7, <1>13 DEF Sound, r, m

\* The run that a release joins: from first to k only block i is in use.
LEMMA FreeSound ==
  ASSUME NEW s, NEW gs, Sound(s, gs),
         NEW i \in 1 .. Len(s), NEW f \in 1 .. i, NEW k \in i .. Len(s),
         s[i].used,
         \A j \in f .. k : j # i => ~s[j].used,
         f > 1 => s[f - 1].used,
         k < Len(s) => s[k + 1].used
  PROVE  Sound(Replaced(s, f - 1,
                        << [at |-> s[f].at, size |-> End(s[k]) - Ptr(s[f]), used |-> FALSE] >>,
                        k + 1),
               {g \in gs : g.ptr # Ptr(s[i])})
<1> DEFINE x  == [at |-> s[f].at, size |-> End(s[k]) - Ptr(s[f]), used |-> FALSE]
           m  == <<x>>
           r  == Replaced(s, f - 1, m, k + 1)
           hs == {g \in gs : g.ptr # Ptr(s[i])}
<1>1. /\ Laid(s) /\ s \in Seq(Block) /\ Len(s) \in Nat
      /\ NoTwoFree(s) /\ Kept(s, gs)
  BY LenProperties DEF Sound, Laid
<1>2. /\ f \in 1 .. Len(s) /\ k \in 1 .. Len(s) /\ f <= k
      /\ f - 1 \in 0 .. Len(s) /\ k + 1 \in (f - 1) + 1 .. Len(s) + 1
      /\ k + 1 \in (f - 1) + 2 .. Len(s) + 1 /\ (f - 1) + 1 = f /\ (k + 1) - 1 = k
  BY <1>1
<1>3. s[f] \in Block /\ s[k] \in Block
  BY <1>1, <1>2, ElementOfSeq
<1>4. x \in Block /\ End(x) = End(s[k]) /\ x.at = s[f].at /\ ~x.used
  <2>1. End(s[f]) <= End(s[k])
    BY <1>1, <1>2, LaterInList
  <2>2. /\ s[f].at \in Nat /\ Ptr(s[f]) \in Nat /\ Ptr(s[f]) <= End(s[f])
        /\ End(s[f]) \in Nat /\ End(s[k]) \in Nat
    BY <1>3, BlockEnd
  <2>3. End(s[k]) - Ptr(s[f]) \in Nat
    BY <2>1, <2>2
  <2>4. x \in Block
    BY <2>2, <2>3 DEF Block
  <2>5. End(x) = s[f].at + Header + (End(s[k]) - Ptr(s[f]))
    BY DEF End
  <2>6. QED
    BY <2>2, <2>4, <2>5, HeapAssumption DEF Ptr
<1> HIDE DEF x
<1>5. m \in Seq(Block) /\ Len(m) = 1 /\ m[1] = x
  BY <1>4
<1> HIDE DEF m
<1>6. Laid(m) /\ NoTwoFree(m)
  BY <1>5 DEF Laid, Ordered, Adjacent, NoTwoFree
<1>7. /\ Laid(r) /\ r[1].at = s[1].at /\ End(r[Len(r)]) = End(s[Len(s)])
  <2>1. Covers(m, s, f - 1, k + 1)
    BY <1>2, <1>4, <1>5 DEF Covers
  <2>2. QED
    BY <1>1, <1>2, <1>6, <2>1, ReplacedLaid
<1>8. NoTwoFree(r)
  <2>1. f - 1 >= 1 => s[f - 1].used \/ m[1].used
    BY <1>2
  <2>2. k + 1 <= Len(s) => m[Len(m)].used \/ s[k + 1].used
    BY <1>1, <1>2
  <2>3. QED
    BY <1>1, <1>2, <1>6, <2>1, <2>2, ReplacedNoTwoFree
<1>types. /\ s \in Seq(Block) /\ m \in Seq(Block)
      /\ f - 1 \in 0 .. Len(s) /\ k + 1 \in (f - 1) + 1 .. Len(s) + 1
  BY <1>1, <1>2, <1>5
<1>9. MadeOf(r, s, m, f - 1, k + 1)
  BY <1>types, ReplacedMembers
<1> HIDE DEF r
<1>10. ASSUME NEW j \in 1 .. Len(r), r[j].used
       PROVE  \E g \in hs : g.ptr = Ptr(r[j])
  <2>1. PICK h \in 1 .. Len(s) : (h <= f - 1 \/ h >= k + 1) /\ r[j] = s[h]
    <3>1. \A h \in 1 .. Len(m) : ~m[h].used
      BY <1>4, <1>5
    <3>2. QED
      BY <1>9, <1>10, <3>1 DEF MadeOf
  <2>2. PICK g \in gs : g.ptr = Ptr(s[h])
    BY <1>1, <1>10, <2>1 DEF Kept
  <2>3. h # i
    BY <1>1, <1>2, <2>1
  <2>4. Ptr(s[h]) # Ptr(s[i])
    BY <1>1, <2>3, OneBlockPerPtr
  <2>5. QED
    BY <2>1, <2>2, <2>4
<1>11. ASSUME NEW g \in hs
       PROVE  \E j \in 1 .. Len(r) :
                /\ r[j].used /\ Ptr(r[j]) = g.ptr
                /\ r[j].size >= g.req \/ g.req = Word - 1
  <2>1. PICK h \in 1 .. Len(s) :
          /\ s[h].used /\ Ptr(s[h]) = g.ptr
          /\ s[h].size >= g.req \/ g.req = Word - 1
    BY <1>1 DEF Kept
  <2>2. h # i
    BY <2>1
  <2>3. h <= f - 1 \/ h >= k + 1
    <3>1. ~(h \in f .. k)
      BY <2>1, <2>2
    <3>2. QED
      BY <1>1, <1>2, <3>1
  <2>4. QED
    BY <1>9, <2>1, <2>3 DEF MadeOf
<1>12. Kept(r, hs)
  <2>1. \A g, h \in hs : g.ptr = h.ptr => g = h
    BY <1>1 DEF Kept
  <2> HIDE DEF hs
  <2>2. QED
    BY <1>10, <1>11, <2>1 DEF Kept
<1>13. /\ s[1].at = 0
       /\ End(s[Len(s)]) = Header + Down(HeapSize - Header)
  BY DEF Sound
<1>14. Sound(r, hs)
  BY <1>7, <1>8, <1>12, <1>13 DEF Sound
<1>15. QED
  BY <1>14 DEF r, m, x

\* rtos_malloc
LEMMA MallocIInv ==
  ASSUME HeapIInv, NEW req \in Requests, Malloc(req)
  PROVE  HeapIInv'
<1>1. DOMAIN blocks = 1 .. Len(blocks)
  BY DEF HeapIInv, Sound, Laid
<1>2. PICK i \in 1 .. Len(blocks) :
        /\ Fits(blocks[i], Even(req))
        /\ blocks' = Replaced(blocks, i - 1, Split(blocks[i], Even(req)), i + 1)
        /\ grants' = grants \cup {[ptr |-> Ptr(blocks[i]), req |-> req]}
  BY <1>1 DEF Malloc, FirstFit, Replaced
<1>3. QED
  BY <1>2, MallocSound DEF HeapIInv

\* rtos_free: the blocks it joins are the free ones around block i, all of
\* them, because the neighbours it tests for are adjacent in memory.
LEMMA FreeIInv ==
  ASSUME HeapIInv, NEW ptr, Free(ptr)
  PROVE  HeapIInv'
<1>1. /\ DOMAIN blocks = 1 .. Len(blocks) /\ Len(blocks) \in Nat
      /\ blocks \in Seq(Block) /\ Adjacent(blocks) /\ NoTwoFree(blocks)
  BY LenProperties DEF HeapIInv, Sound, Laid
<1> DEFINE first(i) == IF Joins(i) THEN i - 1 ELSE i
<1>2. PICK i \in 1 .. Len(blocks), k \in 1 .. Len(blocks) :
        /\ Ptr(blocks[i]) = ptr /\ blocks[i].used
        /\ i <= k /\ LastFree(i, k)
        /\ blocks' = Replaced(blocks, first(i) - 1,
                       << [at |-> blocks[first(i)].at,
                           size |-> End(blocks[k]) - Ptr(blocks[first(i)]),
                           used |-> FALSE] >>, k + 1)
        /\ grants' = {g \in grants : g.ptr # ptr}
  BY <1>1 DEF Free, Replaced
<1>3. \A j \in 2 .. Len(blocks) : blocks[j].at = End(blocks[j - 1])
  <2> SUFFICES ASSUME NEW j \in 2 .. Len(blocks)
               PROVE  blocks[j].at = End(blocks[j - 1])
    OBVIOUS
  <2>1. j - 1 \in 1 .. Len(blocks) - 1 /\ (j - 1) + 1 = j
    BY <1>1
  <2>2. End(blocks[j - 1]) = blocks[(j - 1) + 1].at
    BY <1>1, <2>1 DEF Adjacent
  <2>3. QED
    BY <2>1, <2>2
<1>4. /\ \A j \in i + 1 .. k : ~blocks[j].used
      /\ k < Len(blocks) => blocks[k + 1].used
  <2>1. \A j \in i + 1 .. k : ~blocks[j].used
    BY <1>2 DEF LastFree
  <2>2. ASSUME k < Len(blocks)
        PROVE  blocks[k + 1].used
    <3>1. k + 1 \in 2 .. Len(blocks)
      BY <1>1, <2>2
    <3>2. blocks[k + 1].at = End(blocks[(k + 1) - 1])
      BY <1>3, <3>1
    <3>3. QED
      BY <1>2, <2>2, <3>2 DEF LastFree
  <2>3. QED
    BY <2>1, <2>2
<1>5. Joins(i) <=> i > 1 /\ ~blocks[i - 1].used
  <2>1. CASE i > 1
    <3>1. i \in 2 .. Len(blocks)
      BY <1>1, <2>1
    <3>2. blocks[i].at = End(blocks[i - 1])
      BY <1>3, <3>1
    <3>3. QED
      BY <2>1, <3>2 DEF Joins
  <2>2. CASE ~(i > 1)
    BY <2>2 DEF Joins
  <2>3. QED
    BY <2>1, <2>2
<1>6. /\ first(i) \in 1 .. i
      /\ \A j \in first(i) .. k : j # i => ~blocks[j].used
      /\ first(i) > 1 => blocks[first(i) - 1].used
  <2>1. CASE Joins(i)
    <3>1. first(i) = i - 1 /\ i > 1 /\ ~blocks[i - 1].used
      BY <1>5, <2>1
    <3>2. i - 1 \in 1 .. i /\ \A j \in i - 1 .. k : j = i - 1 \/ j = i \/ j \in i + 1 .. k
      BY <1>1, <3>1
    <3>3. ASSUME i - 1 > 1
          PROVE  blocks[i - 1 - 1].used
      <4>1. i - 1 - 1 \in 1 .. Len(blocks) - 1 /\ (i - 1 - 1) + 1 = i - 1
        BY <1>1, <3>3
      <4>2. blocks[i - 1 - 1].used \/ blocks[(i - 1 - 1) + 1].used
        BY <1>1, <4>1 DEF NoTwoFree
      <4>3. QED
        BY <3>1, <4>1, <4>2
    <3>4. QED
      BY <1>4, <3>1, <3>2, <3>3
  <2>2. CASE ~Joins(i)
    <3>1. first(i) = i
      BY <2>2
    <3>2. \A j \in i .. k : j = i \/ j \in i + 1 .. k
      BY <1>1
    <3>3. QED
      BY <1>4, <1>5, <2>2, <3>1, <3>2
  <2>3. QED
    BY <2>1, <2>2
<1>7. k \in i .. Len(blocks)
  BY <1>1, <1>2
<1> HIDE DEF first
<1>8. QED
  BY <1>2, <1>4, <1>6, <1>7, FreeSound DEF HeapIInv

LEMMA HeapNextIInv ==
  ASSUME HeapIInv, [Next]_vars
  PROVE  HeapIInv'
<1>1. CASE Reset
  BY <1>1, WholeSound DEF Reset, HeapIInv
<1>2. CASE UNCHANGED vars
  BY <1>2 DEF vars, HeapIInv
<1>3. QED
  BY <1>1, <1>2, MallocIInv, FreeIInv DEF Next

THEOREM HeapInvariance == Spec => []HeapIInv
<1>1. Init => HeapIInv
  BY WholeSound DEF Init, HeapIInv
<1>2. QED
  BY <1>1, HeapNextIInv, PTL DEF Spec

LEMMA WhatHeapIInvSays == HeapIInv => Tiled /\ Coalesced /\ GrantsAreGood
<1> SUFFICES ASSUME HeapIInv PROVE Tiled /\ Coalesced /\ GrantsAreGood
  OBVIOUS
<1>1. Tiled
  BY DEF HeapIInv, Sound, Laid, Adjacent, Tiled
<1>2. Coalesced
  BY DEF HeapIInv, Sound, NoTwoFree, Coalesced
<1>3. Good(blocks, grants)
  BY KeptIsGood DEF HeapIInv, Sound
<1>4. GrantsAreGood
  BY <1>3 DEF Good, GrantsAreGood
<1>5. QED
  BY <1>1, <1>2, <1>4

\* No byte of a task's heap is lost, given twice or left between blocks,
\* whatever is allocated and freed (heap.c:110-131, 176-196).
THEOREM HeapIsTiled == Spec => []Tiled
  BY HeapInvariance, WhatHeapIInvSays, PTL

\* Joining the block before and the blocks after leaves no two free blocks
\* side by side, so first fit never fails for want of joining.
THEOREM HeapIsCoalesced == Spec => []Coalesced
  BY HeapInvariance, WhatHeapIInvSays, PTL

\* Every pointer the task holds is that of its own used block, large enough
\* for the request unless the request was 0xFFFF.
THEOREM HeapGrantsAreGood == Spec => []GrantsAreGood
  BY HeapInvariance, WhatHeapIInvSays, PTL

----------------------------------------------------------------------------
(* Types: every header and every size lies inside the heap. *)

\* A block's end is no further than the last block's, the end of the heap.
LEMMA BlocksInHeap ==
  ASSUME HeapIInv
  PROVE  blocks \in Seq([at : 0 .. HeapSize - 1, size : 0 .. HeapSize, used : BOOLEAN])
<1>1. /\ Laid(blocks) /\ blocks \in Seq(Block) /\ Len(blocks) \in Nat /\ Len(blocks) >= 1
      /\ End(blocks[Len(blocks)]) = Header + Down(HeapSize - Header)
  BY LenProperties DEF HeapIInv, Sound, Laid
<1>2. /\ HeapSize \in Nat /\ Header \in Nat \ {0} /\ Down(HeapSize - Header) \in Nat
      /\ Header + Down(HeapSize - Header) <= HeapSize
  BY HeapAssumption DEF Down
<1>3. ASSUME NEW i \in 1 .. Len(blocks)
      PROVE  blocks[i] \in [at : 0 .. HeapSize - 1, size : 0 .. HeapSize, used : BOOLEAN]
  <2>1. blocks[i] \in Block /\ Len(blocks) \in 1 .. Len(blocks) /\ i <= Len(blocks)
    BY <1>1, ElementOfSeq
  <2>2. End(blocks[i]) <= End(blocks[Len(blocks)])
    BY <1>1, <2>1, LaterInList
  <2>3. /\ blocks[i].at \in Nat /\ blocks[i].size \in Nat
        /\ blocks[i].at + Header + blocks[i].size <= HeapSize
    BY <1>1, <1>2, <2>1, <2>2, SMTT(60) DEF Block, End
  <2>4. blocks[i].at \in 0 .. HeapSize - 1 /\ blocks[i].size \in 0 .. HeapSize
    BY <1>2, <2>3, SMTT(60)
  <2>5. QED
    BY <2>1, <2>4 DEF Block
<1> DEFINE S == [at : 0 .. HeapSize - 1, size : 0 .. HeapSize, used : BOOLEAN]
<1>4. \A i \in 1 .. Len(blocks) : blocks[i] \in S
  BY <1>3
<1> HIDE DEF S
<1>5. blocks \in Seq(S)
  BY <1>1, <1>4
<1>6. QED
  BY <1>5 DEF S

Asked == \A g \in grants : g.req \in Requests \ {0}

LEMMA AskedNext ==
  ASSUME Asked, [Next]_vars
  PROVE  Asked'
<1>1. ASSUME NEW req \in Requests, Malloc(req)
      PROVE  Asked'
  BY <1>1 DEF Malloc, Asked
<1>2. ASSUME NEW ptr, Free(ptr)
      PROVE  Asked'
  BY <1>2 DEF Free, Asked
<1>3. CASE Reset \/ UNCHANGED vars
  BY <1>3 DEF Reset, vars, Asked
<1>4. QED
  BY <1>1, <1>2, <1>3 DEF Next

\* No header, payload or pointer handed out reaches outside the heap.
THEOREM HeapTypeCorrect == Spec => []TypeOK
<1>1. Init => Asked
  BY DEF Init, Asked
<1>2. HeapIInv /\ Asked => TypeOK
  <2> SUFFICES ASSUME HeapIInv, Asked PROVE TypeOK
    OBVIOUS
  <2>1. \A g \in grants : \E i \in 1 .. Len(blocks) : Ptr(blocks[i]) = g.ptr
    BY DEF HeapIInv, Sound, Kept
  <2>2. ASSUME NEW i \in 1 .. Len(blocks)
        PROVE  Ptr(blocks[i]) \in 0 .. HeapSize
    <3>1. /\ Laid(blocks) /\ blocks[i] \in Block
          /\ Len(blocks) \in 1 .. Len(blocks) /\ i <= Len(blocks)
          /\ End(blocks[Len(blocks)]) = Header + Down(HeapSize - Header)
      BY ElementOfSeq, LenProperties DEF HeapIInv, Sound, Laid
    <3>2. End(blocks[i]) <= End(blocks[Len(blocks)])
      BY <3>1, LaterInList
    <3>3. Header + Down(HeapSize - Header) <= HeapSize /\ Down(HeapSize - Header) \in Nat
      BY HeapAssumption DEF Down
    <3>4. QED
      BY <3>1, <3>2, <3>3, BlockEnd, HeapAssumption
  <2>3. QED
    BY <2>1, <2>2, BlocksInHeap DEF TypeOK, Asked
<1>3. QED
  BY <1>1, <1>2, AskedNext, HeapInvariance, PTL DEF Spec

=============================================================================
