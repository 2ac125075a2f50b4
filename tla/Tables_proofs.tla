--------------------------- MODULE Tables_proofs ---------------------------
(***************************************************************************)
(* For every codec, block size, size of entries and content of the tables: *)
(* what the superblock points at is there and can be read, and nothing in  *)
(* the file overlaps.                                                      *)
(***************************************************************************)
EXTENDS Tables, MetadataBlocks_proofs, WellFoundedInduction

-----------------------------------------------------------------------------
(* Division of entry numbers.                                              *)

LEMMA Division ==
  ASSUME NEW n \in Nat, NEW p \in Nat \ {0}
  PROVE  /\ n \div p \in Nat /\ n % p \in 0 .. p - 1
         /\ n = ((n \div p) * p) + (n % p)
OBVIOUS

LEMMA DivisionIs ==
  ASSUME NEW p \in Nat \ {0}, NEW q \in Nat, NEW r \in 0 .. p - 1
  PROVE  (q * p + r) \div p = q /\ (q * p + r) % p = r
OBVIOUS

LEMMA NextDivision ==
  ASSUME NEW n \in Nat, NEW p \in Nat \ {0}
  PROVE  IF n % p = p - 1
           THEN (n + 1) \div p = n \div p + 1 /\ (n + 1) % p = 0
           ELSE (n + 1) \div p = n \div p /\ (n + 1) % p = (n % p) + 1
OBVIOUS

LEMMA DivisionOrder ==
  ASSUME NEW p \in Nat \ {0}, NEW k \in Nat, NEW m \in Nat, k < m
  PROVE  \/ k \div p < m \div p
         \/ k \div p = m \div p /\ k % p < m % p
OBVIOUS

LEMMA PerBlockFills ==
  ASSUME NEW t \in Indexed
  PROVE  /\ EntrySize[t] \in Nat \ {0} /\ PerBlock(t) \in Nat \ {0}
         /\ BlockSize = PerBlock(t) * EntrySize[t]
<1>1. /\ EntrySize[t] \in Nat \ {0} /\ BlockSize % EntrySize[t] = 0
      /\ BlockSize \in Nat \ {0}
  BY EntryAssumption, BlockSizeAssumption
<1>2. ASSUME NEW n \in Nat \ {0}, NEW p \in Nat \ {0}, n % p = 0
      PROVE  n \div p \in Nat \ {0} /\ n = (n \div p) * p
  <2>1. n \div p \in Nat /\ n = ((n \div p) * p) + (n % p)
    BY Division
  <2>2. n \div p # 0
    BY <1>2, <2>1
  <2>. QED  BY <1>2, <2>1, <2>2
<1>. QED  BY <1>1, <1>2 DEF PerBlock

(* The offset of an entry in its block.                                    *)
LEMMA OffsetFits ==
  ASSUME NEW p \in Nat \ {0}, NEW s \in Nat \ {0}, NEW r \in 0 .. p - 1
  PROVE  /\ r * s \in Nat /\ (r * s) + s <= p * s
         /\ (r + 1) * s = (r * s) + s
         /\ \A h \in 0 .. r - 1 : h * s \in Nat /\ (h * s) + s <= r * s
<1>1. \A a, b \in Nat : a < b => (a * s) + s <= b * s
  <2>. SUFFICES ASSUME NEW a \in Nat, NEW b \in Nat, a < b
                PROVE  (a * s) + s <= b * s
    OBVIOUS
  <2>1. PICK d \in Nat : b = a + 1 + d
    <3>1. b - (a + 1) \in Nat
      OBVIOUS
    <3>. QED  BY <3>1
  <2>2. b * s = (a * s) + s + (d * s)
    BY <2>1
  <2>3. d * s \in Nat /\ a * s \in Nat
    OBVIOUS
  <2>. QED  BY <2>2, <2>3
<1>2. r * s \in Nat /\ (r + 1) * s = (r * s) + s
  OBVIOUS
<1>3. \A h \in 0 .. r - 1 : h * s \in Nat /\ (h * s) + s <= r * s
  BY <1>1
<1>. QED  BY <1>1, <1>2, <1>3

-----------------------------------------------------------------------------
(* Parts of sequences.                                                     *)

(* A part of a sequence, element by element.                               *)
LEMMA PartIs ==
  ASSUME NEW S, NEW s \in Seq(S), NEW o \in Nat, NEW n \in Nat, o + n <= Len(s)
  PROVE  /\ SubSeq(s, o + 1, o + n) \in Seq(S)
         /\ Len(SubSeq(s, o + 1, o + n)) = n
         /\ \A x \in 1 .. n : SubSeq(s, o + 1, o + n)[x] = s[o + x]
<1>1. \A x \in o + 1 .. o + n : s[x] \in S
  <2>1. Len(s) \in Nat
    BY LenProperties
  <2>. QED  BY <2>1, ElementOfSeq
<1> DEFINE a == o + 1
           b == o + n
<1>2. a \in Int /\ b \in Int
  OBVIOUS
<1>3. \A x \in a .. b : s[x] \in S
  BY <1>1
<1>4. /\ SubSeq(s, a, b) \in Seq(S)
      /\ Len(SubSeq(s, a, b)) = IF a <= b THEN b - a + 1 ELSE 0
      /\ \A x \in 1 .. b - a + 1 : SubSeq(s, a, b)[x] = s[a + x - 1]
  <2>. HIDE DEF a, b
  <2>. QED  BY <1>2, <1>3, SubSeqProperties
<1>5. \A x \in 1 .. n : x \in 1 .. b - a + 1 /\ a + x - 1 = o + x
  OBVIOUS
<1>6. (IF a <= b THEN b - a + 1 ELSE 0) = n
  OBVIOUS
<1>. QED  BY <1>4, <1>5, <1>6

(* Two sequences that agree there have the same part.                      *)
LEMMA SamePart ==
  ASSUME NEW S, NEW s \in Seq(S), NEW t \in Seq(S), NEW o \in Nat, NEW n \in Nat,
         o + n <= Len(s), o + n <= Len(t),
         \A x \in 1 .. n : s[o + x] = t[o + x]
  PROVE  SubSeq(s, o + 1, o + n) = SubSeq(t, o + 1, o + n)
<1> DEFINE a == SubSeq(s, o + 1, o + n)
           b == SubSeq(t, o + 1, o + n)
<1>1. /\ a \in Seq(S) /\ Len(a) = n /\ \A x \in 1 .. n : a[x] = s[o + x]
      /\ b \in Seq(S) /\ Len(b) = n /\ \A x \in 1 .. n : b[x] = t[o + x]
  BY PartIs
<1>. HIDE DEF a, b
<1>2. \A x \in 1 .. Len(a) : a[x] = b[x]
  BY <1>1
<1>3. a = b
  BY <1>1, <1>2, SeqEqual
<1>. QED  BY <1>3 DEF a, b

-----------------------------------------------------------------------------
(* Blocks without gaps lie in the order of their numbers.                  *)

LEMMA StartsInOrder ==
  ASSUME NEW w \in Writers, Contiguous(w)
  PROVE  \A j, k \in 1 .. Len(w.table) + 1 :
           j <= k => /\ BlockStart(w, j) \in Nat
                     /\ BlockStart(w, j) <= BlockStart(w, k)
<1> DEFINE n == Len(w.table)
<1>1. /\ n \in Nat /\ w.size \in Nat
      /\ \A j \in 1 .. n : w.table[j].at \in Nat /\ Len(w.table[j].bytes) \in Nat
  BY WriterParts, LenProperties DEF Stored
<1>2. \A j \in 1 .. n + 1 : BlockStart(w, j) \in Nat
  BY <1>1, WriterParts DEF BlockStart
<1>3. \A j \in 1 .. n : BlockStart(w, j) <= BlockStart(w, j + 1)
  <2>. SUFFICES ASSUME NEW j \in 1 .. n
                PROVE  BlockStart(w, j) <= BlockStart(w, j + 1)
    OBVIOUS
  <2>1. BlockStart(w, j + 1) = BlockStart(w, j) + 2 + Len(w.table[j].bytes)
    BY DEF Contiguous, HeaderSize
  <2>2. BlockStart(w, j) \in Nat
    BY <1>1, <1>2
  <2>. QED  BY <1>1, <2>1, <2>2
<1>. SUFFICES ASSUME NEW j \in 1 .. n + 1
              PROVE  \A k \in 1 .. n + 1 :
                       j <= k => BlockStart(w, j) <= BlockStart(w, k)
  BY <1>2
<1> DEFINE T == {k \in Nat : /\ j <= k /\ k <= n + 1
                             /\ ~(BlockStart(w, j) <= BlockStart(w, k))}
<1>4. SUFFICES ASSUME T # {} PROVE FALSE
  BY <1>1
<1>5. PICK k \in T : \A h \in T : ~(<<h, k>> \in OpToRel(<, Nat))
  BY <1>4, NatLessThanWellFounded, WFMin
<1>6. k \in Nat /\ j <= k /\ k <= n + 1 /\ ~(BlockStart(w, j) <= BlockStart(w, k))
  OBVIOUS
<1>7. k # j
  BY <1>2, <1>6
<1>8. k - 1 \in Nat /\ j <= k - 1 /\ k - 1 \in 1 .. n
  BY <1>1, <1>6, <1>7
<1>9. <<k - 1, k>> \in OpToRel(<, Nat)
  BY <1>6, <1>8 DEF OpToRel
<1>10. BlockStart(w, j) <= BlockStart(w, k - 1)
  <2>1. k - 1 \notin T
    BY <1>5, <1>9
  <2>2. k - 1 <= n + 1
    BY <1>1, <1>8
  <2>. QED  BY <1>8, <2>1, <2>2
<1>11. BlockStart(w, k - 1) <= BlockStart(w, (k - 1) + 1) /\ (k - 1) + 1 = k
  BY <1>3, <1>6, <1>8
<1>12. BlockStart(w, j) \in Nat /\ BlockStart(w, k) \in Nat
       /\ BlockStart(w, k - 1) \in Nat
  BY <1>1, <1>2, <1>6, <1>8
<1>. QED  BY <1>6, <1>10, <1>11, <1>12

(* Each block ends before the next begins, and the last where the table    *)
(* ends.                                                                   *)
LEMMA BlocksInOrder ==
  ASSUME NEW w \in Writers, Contiguous(w)
  PROVE  /\ \A j \in 1 .. Len(w.table) :
              /\ w.table[j].at \in Nat /\ Len(w.table[j].bytes) \in Nat
              /\ BlockStart(w, j) = w.table[j].at
              /\ w.table[j].at + HeaderSize + Len(w.table[j].bytes) <= w.size
         /\ \A j, k \in 1 .. Len(w.table) :
              j < k => w.table[j].at + HeaderSize + Len(w.table[j].bytes)
                         <= w.table[k].at
<1> DEFINE n == Len(w.table)
<1>1. /\ n \in Nat /\ w.size \in Nat /\ DOMAIN w.table = 1 .. n
      /\ \A j \in 1 .. n : w.table[j].at \in Nat /\ Len(w.table[j].bytes) \in Nat
  BY WriterParts, LenProperties DEF Stored
<1>2. /\ \A j \in 1 .. n : BlockStart(w, j) = w.table[j].at
      /\ BlockStart(w, n + 1) = w.size
  BY <1>1 DEF BlockStart
<1>3. ASSUME NEW j \in 1 .. n, NEW k \in 1 .. n + 1, j < k
      PROVE  w.table[j].at + HeaderSize + Len(w.table[j].bytes) <= BlockStart(w, k)
  <2>1. j + 1 \in 1 .. n + 1 /\ j + 1 <= k
    BY <1>1, <1>3
  <2>2. BlockStart(w, j + 1) <= BlockStart(w, k)
    BY <2>1, StartsInOrder
  <2>3. BlockStart(w, j + 1) = w.table[j].at + HeaderSize + Len(w.table[j].bytes)
    BY <1>2 DEF Contiguous
  <2>. QED  BY <2>2, <2>3
<1>4. n + 1 \in 1 .. n + 1 /\ \A j \in 1 .. n : j < n + 1 /\ j \in 1 .. n + 1
  BY <1>1
<1>. QED  BY <1>1, <1>2, <1>3, <1>4

-----------------------------------------------------------------------------
(* Entries in blocks.                                                      *)

(* An entry is a sequence of as many bytes as entries of its table have.   *)
LEMMA EntryIsSeq ==
  ASSUME NEW t \in Indexed, NEW e \in [1 .. EntrySize[t] -> Byte]
  PROVE  e \in Seq(Byte) /\ Len(e) = EntrySize[t] /\ e # <<>>
<1>1. EntrySize[t] \in Nat \ {0}
  BY PerBlockFills
<1>2. e \in Seq(Byte) /\ Len(e) = EntrySize[t]
  BY <1>1, SeqDef
<1>. QED  BY <1>1, <1>2, EmptySeq

(* An entry stays where it is in its block when bytes are added behind it. *)
LEMMA EntryStaysIn ==
  ASSUME NEW t \in Indexed, NEW k \in Nat, NEW b \in Seq(Byte), NEW f \in Seq(Byte),
         ((k % PerBlock(t)) * EntrySize[t]) + EntrySize[t] <= Len(b),
         Len(b) <= Len(f), \A x \in 1 .. Len(b) : f[x] = b[x]
  PROVE  EntryIn(f, t, k) = EntryIn(b, t, k)
<1> DEFINE s == EntrySize[t]
           o == (k % PerBlock(t)) * s
<1>1. s \in Nat \ {0} /\ k % PerBlock(t) \in 0 .. PerBlock(t) - 1
      /\ PerBlock(t) \in Nat \ {0}
  BY PerBlockFills, Division
<1>2. o \in Nat /\ s \in Nat
  BY <1>1
<1>3. o + s <= Len(b) /\ Len(b) \in Nat /\ Len(f) \in Nat
  BY LenProperties
<1>4. EntryIn(f, t, k) = SubSeq(f, o + 1, o + s)
      /\ EntryIn(b, t, k) = SubSeq(b, o + 1, o + s)
  BY DEF EntryIn
<1>. HIDE DEF o, s
<1>5. \A x \in 1 .. s : o + x \in 1 .. Len(b)
  BY <1>2, <1>3
<1>6. o + s <= Len(f) /\ \A x \in 1 .. s : b[o + x] = f[o + x]
  BY <1>2, <1>3, <1>5
<1>7. SubSeq(b, o + 1, o + s) = SubSeq(f, o + 1, o + s)
  BY <1>2, <1>3, <1>6, SamePart
<1>. QED  BY <1>4, <1>7

\* Where a writer is after m entries of table t.
Holding(w, t, m) ==
  /\ Len(w.table) = m \div PerBlock(t)
  /\ Len(w.buff) = (m % PerBlock(t)) * EntrySize[t]

(* One turn of put's loop adds the whole of the next entry, at the place   *)
(* where a reader looks for it.                                            *)
LEMMA EntryLands ==
  ASSUME NEW t \in Indexed, NEW w \in Writers, NEW m \in Nat, Holding(w, t, m),
         NEW e \in [1 .. EntrySize[t] -> Byte]
  PROVE  LET v == AddChunk(w, e)
         IN /\ Added(w, e) = EntrySize[t] /\ Len(w.buff) < BlockSize
            /\ v \in Writers /\ Holding(v, t, m + 1)
            /\ Contiguous(w) => Contiguous(v)
            /\ e = EntryIn(BlockContent(v, (m \div PerBlock(t)) + 1), t, m)
<1> DEFINE p == PerBlock(t)
           s == EntrySize[t]
           q == m \div p
           r == m % p
           f == Filled(w, e).buff
           v == AddChunk(w, e)
<1>1. p \in Nat \ {0} /\ s \in Nat \ {0} /\ BlockSize = p * s
  BY PerBlockFills
<1>2. q \in Nat /\ r \in 0 .. p - 1
  <2>. HIDE DEF p
  <2>. QED  BY <1>1, Division
<1>3. Len(w.table) = q /\ Len(w.buff) = r * s
  BY DEF Holding
<1>4. /\ (m + 1) \div p = IF r = p - 1 THEN q + 1 ELSE q
      /\ (m + 1) % p = IF r = p - 1 THEN 0 ELSE r + 1
  <2>. HIDE DEF p
  <2>. QED  BY <1>1, NextDivision
<1>5. e \in Seq(Byte) /\ Len(e) = s /\ e # <<>>
  BY EntryIsSeq
<1>6. Holding(v, t, m + 1) <=> /\ Len(v.table) = (m + 1) \div p
                               /\ Len(v.buff) = ((m + 1) % p) * s
  BY DEF Holding
<1>7. EntryIn(BlockContent(v, q + 1), t, m)
        = SubSeq(BlockContent(v, q + 1), (r * s) + 1, (r * s) + s)
  BY DEF EntryIn
<1>. HIDE DEF p, s, q, r
<1>8. /\ r * s \in Nat /\ (r * s) + s <= BlockSize
      /\ (r + 1) * s = (r * s) + s
  BY <1>1, <1>2, OffsetFits
<1>9. Len(w.buff) < BlockSize /\ BlockSize - Len(w.buff) >= s
      /\ BlockSize \in Nat
  BY <1>1, <1>3, <1>8, BlockSizeAssumption
<1>10. Added(w, e) = s
  <2>1. Added(w, e) = IF Len(e) > BlockSize - Len(w.buff)
                        THEN BlockSize - Len(w.buff) ELSE Len(e)
    BY DEF Added
  <2>2. ~(Len(e) > BlockSize - Len(w.buff))
    BY <1>1, <1>3, <1>5, <1>8, <1>9
  <2>. QED  BY <1>5, <2>1, <2>2
<1>11. /\ Continues(f, w) /\ Len(f) = (r * s) + s
       /\ \A x \in 1 .. s : f[(r * s) + x] = e[x]
       /\ \/ Len(f) = BlockSize /\ Sealed(w, v, f)
          \/ Len(f) < BlockSize /\ v = [w EXCEPT !.buff = f]
  <2>1. /\ Continues(f, w) /\ Len(f) = Len(w.buff) + Added(w, e)
        /\ \A x \in 1 .. Added(w, e) : f[Len(w.buff) + x] = e[x]
        /\ \/ Len(f) = BlockSize /\ Sealed(w, v, f)
           \/ Len(f) < BlockSize /\ v = [w EXCEPT !.buff = f]
    BY <1>5, <1>9, AddChunkResult
  <2>. HIDE DEF f, v
  <2>. QED  BY <1>3, <1>10, <2>1
<1>12. /\ v \in Writers /\ BlockContent(v, q + 1) = f
  BY <1>3, <1>5, <1>9, AddChunkExtends
<1>. HIDE DEF f, v
<1>13. f \in Seq(Byte)
  BY <1>11, BlockIsSeq DEF Continues
<1>14. e = SubSeq(f, (r * s) + 1, (r * s) + s)
  <2>. DEFINE o == r * s
              g == SubSeq(f, o + 1, o + s)
  <2>1. o \in Nat /\ s \in Nat /\ Len(f) = o + s
        /\ \A x \in 1 .. s : f[o + x] = e[x]
    BY <1>1, <1>8, <1>11
  <2>2. o + s <= Len(f)
    BY <2>1
  <2>. HIDE DEF o
  <2>3. g \in Seq(Byte) /\ Len(g) = s /\ \A x \in 1 .. s : g[x] = f[o + x]
    BY <1>13, <2>1, <2>2, PartIs
  <2>. HIDE DEF g
  <2>4. \A x \in 1 .. Len(g) : g[x] = e[x]
    BY <2>1, <2>3
  <2>5. g = e
    BY <1>5, <2>3, <2>4, SeqEqual
  <2>. QED  BY <2>5 DEF g, o
<1>15. /\ Len(v.table) = (m + 1) \div p
       /\ Len(v.buff) = ((m + 1) % p) * s
       /\ Contiguous(w) => Contiguous(v)
  <2>1. CASE r = p - 1
    <3>1. (r * s) + s = BlockSize
      BY <1>1, <1>2, <1>8, <2>1
    <3>2. Sealed(w, v, f)
      BY <1>9, <1>11, <3>1
    <3>3. Len(v.table) = q + 1 /\ v.buff = <<>> /\ Len(v.buff) = 0
      BY <1>3, <3>2, EmptySeq DEF Sealed
    <3>4. 0 * s = 0
      BY <1>1
    <3>5. Contiguous(w) => Contiguous(v)
      BY <3>2, SealedContiguous
    <3>. QED  BY <1>4, <2>1, <3>3, <3>4, <3>5
  <2>2. CASE r # p - 1
    <3>1. r + 1 \in 0 .. p - 1
      BY <1>1, <1>2, <2>2
    <3>2. ((r + 1) * s) + s <= BlockSize /\ (r + 1) * s \in Nat
      BY <1>1, <3>1, OffsetFits
    <3>3. Len(f) < BlockSize
      BY <1>1, <1>8, <1>9, <1>11, <3>2
    <3>4. v = [w EXCEPT !.buff = f]
      BY <1>9, <1>11, <3>3
    <3>5. v.table = w.table /\ v.buff = f /\ v.size = w.size
      BY <3>4 DEF Writers
    <3>6. Contiguous(w) => Contiguous(v)
      BY <3>5 DEF Contiguous, BlockStart
    <3>. QED  BY <1>3, <1>4, <1>8, <1>11, <2>2, <3>5, <3>6
  <2>. QED  BY <2>1, <2>2
<1>16. BlockContent(v, q + 1) = f /\ e = SubSeq(f, (r * s) + 1, (r * s) + s)
  BY <1>12, <1>14
<1>17. e = EntryIn(BlockContent(v, q + 1), t, m)
  BY <1>7, <1>16 DEF v
<1>18. Holding(v, t, m + 1)
  BY <1>6, <1>15 DEF v
<1>. QED  BY <1>9, <1>10, <1>12, <1>15, <1>17, <1>18 DEF s, v, q, p

(* Earlier entries stay where they are.                                    *)
LEMMA EntriesKept ==
  ASSUME NEW t \in Indexed, NEW w \in Writers, NEW m \in Nat, Holding(w, t, m),
         NEW e \in [1 .. EntrySize[t] -> Byte], NEW k \in 0 .. m - 1
  PROVE  EntryIn(BlockContent(AddChunk(w, e), (k \div PerBlock(t)) + 1), t, k)
           = EntryIn(BlockContent(w, (k \div PerBlock(t)) + 1), t, k)
<1> DEFINE p == PerBlock(t)
           s == EntrySize[t]
           q == m \div p
           r == m % p
           j == (k \div p) + 1
           f == Filled(w, e).buff
           v == AddChunk(w, e)
<1>1. p \in Nat \ {0} /\ s \in Nat \ {0} /\ BlockSize = p * s
  BY PerBlockFills
<1>2. /\ q \in Nat /\ r \in 0 .. p - 1 /\ k \in Nat /\ m \in Nat /\ k < m
      /\ k \div p \in Nat /\ k % p \in 0 .. p - 1
  <2>. HIDE DEF p
  <2>1. k \in Nat /\ m \in Nat /\ k < m
    OBVIOUS
  <2>2. /\ m \div p \in Nat /\ m % p \in 0 .. p - 1
        /\ k \div p \in Nat /\ k % p \in 0 .. p - 1
    BY <1>1, <2>1, Division
  <2>. QED  BY <2>1, <2>2
<1>3. \/ k \div p < q
      \/ k \div p = q /\ k % p < r
  <2>. HIDE DEF p
  <2>. QED  BY <1>1, <1>2, DivisionOrder
<1>4. Len(w.table) = q /\ Len(w.buff) = r * s
  BY DEF Holding
<1>5. e \in Seq(Byte) /\ Len(e) = s /\ e # <<>>
  BY EntryIsSeq
<1>6. Len(w.buff) < BlockSize
  BY EntryLands
<1>7. /\ Continues(f, w)
      /\ \/ Sealed(w, v, f)
         \/ v = [w EXCEPT !.buff = f]
  BY <1>5, <1>6, AddChunkResult
<1>8. v \in Writers /\ BlockContent(v, q + 1) = f
  BY <1>4, <1>5, <1>6, AddChunkExtends
<1>. HIDE DEF v, f
<1>9. CASE k \div p < q
  <2>1. j \in 1 .. q
    BY <1>2, <1>9
  <2>. HIDE DEF j, q
  <2>2. DOMAIN w.table = 1 .. q
    BY <1>4, WriterParts
  <2>3. BlockContent(v, j) = BlockContent(w, j)
    <3>1. CASE Sealed(w, v, f)
      <4>1. v.table[j] = w.table[j] /\ Len(v.table) = q + 1
        BY <1>4, <2>1, <3>1 DEF Sealed
      <4>2. j \in DOMAIN v.table
        <5>1. DOMAIN v.table = 1 .. q + 1
          BY <1>8, <4>1, WriterParts
        <5>2. q \in Nat
          BY <1>2 DEF q
        <5>. QED  BY <2>1, <5>1, <5>2
      <4>. QED  BY <2>1, <2>2, <4>1, <4>2 DEF BlockContent
    <3>2. CASE v = [w EXCEPT !.buff = f]
      <4>1. v.table = w.table
        BY <3>2 DEF Writers
      <4>. QED  BY <2>1, <2>2, <4>1 DEF BlockContent
    <3>. QED  BY <1>7, <3>1, <3>2
  <2>. QED  BY <2>3 DEF j, v
<1>10. CASE k \div p = q /\ k % p < r
  <2>1. j = q + 1
    BY <1>10
  <2>2. BlockContent(w, q + 1) = w.buff
    <3>. HIDE DEF q
    <3>1. q + 1 \notin DOMAIN w.table
      BY <1>2, <1>4, WriterParts
    <3>. QED  BY <3>1 DEF BlockContent
  <2>3. ((k % p) * s) + s <= Len(w.buff)
    <3>. HIDE DEF p, s, r
    <3>1. k % p \in 0 .. r - 1
      BY <1>2, <1>10
    <3>2. PICK h : h = k % p
      OBVIOUS
    <3>3. (h * s) + s <= r * s
      BY <1>1, <1>2, <3>1, <3>2, OffsetFits
    <3>. QED  BY <1>4, <3>2, <3>3
  <2>4. /\ f \in Seq(Byte) /\ w.buff \in Seq(Byte)
        /\ Len(w.buff) <= Len(f)
        /\ \A x \in 1 .. Len(w.buff) : f[x] = w.buff[x]
    BY <1>7, BlockIsSeq, WriterParts DEF Continues
  <2>5. EntryIn(f, t, k) = EntryIn(w.buff, t, k)
    BY <1>2, <2>3, <2>4, EntryStaysIn
  <2>. QED  BY <1>8, <2>1, <2>2, <2>5 DEF v
<1>. QED  BY <1>3, <1>9, <1>10

(* The last block takes what is in the buffer.                             *)
LEMMA LastBlockCloses ==
  ASSUME NEW t \in Indexed, NEW w \in Writers, NEW m \in Nat, Holding(w, t, m),
         Contiguous(w), NEW v,
         v = IF m % PerBlock(t) # 0 THEN WriteBlockNoPad(w) ELSE w
  PROVE  /\ v \in Writers /\ Contiguous(v)
         /\ Len(v.table) = (m \div PerBlock(t))
                             + (IF m % PerBlock(t) = 0 THEN 0 ELSE 1)
         /\ \A j \in 1 .. Len(v.table) : /\ Content(v.table[j]) = BlockContent(w, j)
                                         /\ v.table[j].at = BlockStart(w, j)
<1> DEFINE p == PerBlock(t)
           s == EntrySize[t]
           q == m \div p
           r == m % p
<1>1. p \in Nat \ {0} /\ s \in Nat \ {0}
  BY PerBlockFills
<1>2. q \in Nat /\ r \in 0 .. p - 1
  <2>. HIDE DEF p
  <2>. QED  BY <1>1, Division
<1>3. Len(w.table) = q /\ Len(w.buff) = r * s
  BY DEF Holding
<1>4. v = IF r # 0 THEN WriteBlockNoPad(w) ELSE w
  OBVIOUS
<1>5. DOMAIN w.table = 1 .. q
  BY <1>3, WriterParts
<1>. HIDE DEF p, s, q, r
<1>6. ASSUME NEW j \in 1 .. q
      PROVE  /\ Content(w.table[j]) = BlockContent(w, j)
             /\ w.table[j].at = BlockStart(w, j)
  BY <1>5 DEF BlockContent, BlockStart
<1>7. CASE r = 0
  <2>1. v = w
    BY <1>4, <1>7
  <2>. QED  BY <1>2, <1>3, <1>6, <1>7, <2>1 DEF q, r, p
<1>8. CASE r # 0
  <2>1. r * s # 0
    BY <1>1, <1>2, <1>8
  <2>2. w.buff # <<>>
    BY <1>3, <2>1, EmptySeq
  <2>3. Sealed(w, v, w.buff)
    BY <1>4, <1>8, <2>2, WriteBlockNoPadSeals
  <2>4. v \in Writers /\ Contiguous(v) /\ Len(v.table) = q + 1
    BY <1>3, <2>3, SealedContiguous DEF Sealed
  <2>5. q + 1 \notin DOMAIN w.table
    BY <1>2, <1>5
  <2>6. /\ Content(v.table[q + 1]) = BlockContent(w, q + 1)
        /\ v.table[q + 1].at = BlockStart(w, q + 1)
    BY <1>3, <2>3, <2>5 DEF Sealed, BlockContent, BlockStart
  <2>7. \A j \in 1 .. q : v.table[j] = w.table[j]
    BY <1>3, <2>3 DEF Sealed
  <2>8. \A j \in 1 .. q + 1 : j \in 1 .. q \/ j = q + 1
    BY <1>2
  <2>9. \A j \in 1 .. Len(v.table) : /\ Content(v.table[j]) = BlockContent(w, j)
                                     /\ v.table[j].at = BlockStart(w, j)
    BY <1>6, <2>4, <2>6, <2>7, <2>8
  <2>. QED  BY <1>8, <2>4, <2>9 DEF q, r, p
<1>. QED  BY <1>7, <1>8

-----------------------------------------------------------------------------
(* What is added to the disk.                                              *)

Apart(x, y) == x.pos + x.size <= y.pos \/ y.pos + y.size <= x.pos

\* These extents lie one beside the other between two places.
Between(from, new, to) ==
  /\ \A x \in new : /\ x.pos \in Nat /\ x.size \in Nat \ {0}
                    /\ from <= x.pos /\ x.pos + x.size <= to
  /\ \A x, y \in new : x # y => Apart(x, y)

LEMMA OutBetween ==
  ASSUME NEW w \in Writers, Contiguous(w), tell \in Nat
  PROVE  /\ Between(tell, Out(w), tell + w.size)
         /\ tell + w.size \in Nat
         /\ \A b \in Range(w.table) :
              \E x \in Out(w) : x.kind = "block" /\ x.pos = tell + b.at /\ x.what = b
<1> DEFINE n == Len(w.table)
           Ext(b) == Extent("block", tell + b.at, HeaderSize + Len(b.bytes), b)
<1>1. w.size \in Nat /\ n \in Nat /\ DOMAIN w.table = 1 .. n
  BY WriterParts
<1>2. Out(w) = {Ext(b) : b \in Range(w.table)}
  BY DEF Out
<1>3. Range(w.table) = {w.table[j] : j \in 1 .. n}
  BY <1>1 DEF Range
<1>4. /\ \A j \in 1 .. n :
           /\ w.table[j].at \in Nat /\ Len(w.table[j].bytes) \in Nat
           /\ w.table[j].at + HeaderSize + Len(w.table[j].bytes) <= w.size
      /\ \A j, k \in 1 .. n :
           j < k => w.table[j].at + HeaderSize + Len(w.table[j].bytes)
                      <= w.table[k].at
  BY BlocksInOrder
<1>5. \A b : /\ Ext(b).kind = "block" /\ Ext(b).pos = tell + b.at
             /\ Ext(b).size = 2 + Len(b.bytes) /\ Ext(b).what = b
  BY DEF Extent, HeaderSize
<1>6. \A x \in Out(w) : \E j \in 1 .. n : x = Ext(w.table[j])
  BY <1>2, <1>3
<1>. HIDE DEF Ext, n
<1>7. ASSUME NEW x \in Out(w)
      PROVE  \E j \in 1 .. n : /\ x = Ext(w.table[j])
                               /\ x.pos = tell + w.table[j].at
                               /\ x.size = 2 + Len(w.table[j].bytes)
                               /\ x.pos \in Nat /\ x.size \in Nat \ {0}
                               /\ tell <= x.pos /\ x.pos + x.size <= tell + w.size
  <2>1. PICK j \in 1 .. n : x = Ext(w.table[j])
    BY <1>6
  <2>2. x.pos = tell + w.table[j].at /\ x.size = 2 + Len(w.table[j].bytes)
    BY <1>5, <2>1, Zenon
  <2>3. /\ w.table[j].at \in Nat /\ Len(w.table[j].bytes) \in Nat
        /\ w.table[j].at + 2 + Len(w.table[j].bytes) <= w.size
    BY <1>4 DEF HeaderSize
  <2>4. /\ x.pos \in Nat /\ x.size \in Nat \ {0}
        /\ tell <= x.pos /\ x.pos + x.size <= tell + w.size
    <3>1. \A u, a, l, z \in Nat :
            a + 2 + l <= z => /\ u + a \in Nat /\ 2 + l \in Nat \ {0} /\ u <= u + a
                              /\ (u + a) + (2 + l) <= u + z
      OBVIOUS
    <3>2. PICK a, l \in Nat : a = w.table[j].at /\ l = Len(w.table[j].bytes)
      BY <2>3
    <3>3. PICK z \in Nat : z = w.size
      BY <1>1
    <3>4. a + 2 + l <= z /\ x.pos = tell + a /\ x.size = 2 + l
      BY <2>2, <2>3, <3>2, <3>3
    <3>5. /\ tell + a \in Nat /\ 2 + l \in Nat \ {0} /\ tell <= tell + a
          /\ (tell + a) + (2 + l) <= tell + z
      BY <3>1, <3>4
    <3>. QED  BY <3>3, <3>4, <3>5
  <2>. QED  BY <2>1, <2>2, <2>4
<1>8. ASSUME NEW x \in Out(w), NEW y \in Out(w), x # y PROVE Apart(x, y)
  <2>1. PICK j \in 1 .. n : /\ x = Ext(w.table[j])
                            /\ x.pos = tell + w.table[j].at
                            /\ x.size = 2 + Len(w.table[j].bytes)
    BY <1>7
  <2>2. PICK k \in 1 .. n : /\ y = Ext(w.table[k])
                            /\ y.pos = tell + w.table[k].at
                            /\ y.size = 2 + Len(w.table[k].bytes)
    BY <1>7
  <2>3. j < k \/ k < j
    BY <1>1, <1>8, <2>1, <2>2
  <2>4. /\ w.table[j].at \in Nat /\ Len(w.table[j].bytes) \in Nat
        /\ w.table[k].at \in Nat /\ Len(w.table[k].bytes) \in Nat
        /\ \/ w.table[j].at + 2 + Len(w.table[j].bytes) <= w.table[k].at
           \/ w.table[k].at + 2 + Len(w.table[k].bytes) <= w.table[j].at
    BY <1>4, <2>3 DEF HeaderSize
  <2>5. x.pos + x.size <= y.pos \/ y.pos + y.size <= x.pos
    <3>1. ASSUME NEW u \in Nat, NEW a \in Nat, NEW l \in Nat, NEW b \in Nat,
                 a + 2 + l <= b
          PROVE  (u + a) + (2 + l) <= u + b
      BY <3>1
    <3>2. PICK a, l \in Nat : a = w.table[j].at /\ l = Len(w.table[j].bytes)
      BY <2>4
    <3>3. PICK b, h \in Nat : b = w.table[k].at /\ h = Len(w.table[k].bytes)
      BY <2>4
    <3>4. \/ (tell + a) + (2 + l) <= tell + b
          \/ (tell + b) + (2 + h) <= tell + a
      BY <2>4, <3>1, <3>2, <3>3
    <3>. QED  BY <2>1, <2>2, <3>2, <3>3, <3>4
  <2>. QED  BY <2>5 DEF Apart
<1>9. \A b \in Range(w.table) : Ext(b) \in Out(w)
  BY <1>2
<1>. QED  BY <1>1, <1>5, <1>7, <1>8, <1>9 DEF Between

\* The index behind the blocks.
Words(start) ==
  {Extent("word", start + IndexSize * (k - 1), IndexSize, indices[k]) :
     k \in DOMAIN indices}

LEMMA WordsBetween ==
  ASSUME NEW start \in Nat, indices \in Seq(Nat)
  PROVE  /\ Between(start, Words(start), start + IndexSize * Len(indices))
         /\ start + IndexSize * Len(indices) \in Nat
         /\ \A k \in 1 .. Len(indices) :
              \E x \in Words(start) : /\ x.kind = "word" /\ x.what = indices[k]
                                      /\ x.pos = start + IndexSize * (k - 1)
<1> DEFINE n == Len(indices)
           Ext(k) == Extent("word", start + IndexSize * (k - 1), IndexSize, indices[k])
<1>1. n \in Nat /\ DOMAIN indices = 1 .. n /\ IndexSize \in Nat \ {0}
  BY LenProperties, SizeAssumption
<1>2. Words(start) = {Ext(k) : k \in 1 .. n}
  BY <1>1 DEF Words
<1>3. \A k : /\ Ext(k).kind = "word" /\ Ext(k).pos = start + IndexSize * (k - 1)
             /\ Ext(k).size = IndexSize /\ Ext(k).what = indices[k]
  BY DEF Extent
<1>. HIDE DEF Ext, n
<1>4. ASSUME NEW j \in 1 .. n, NEW k \in Nat, j < k
      PROVE  /\ IndexSize * (j - 1) \in Nat /\ IndexSize * (k - 1) \in Nat
             /\ IndexSize * (j - 1) + IndexSize <= IndexSize * (k - 1)
  <2> DEFINE z == IndexSize
             a == j - 1
             b == k - 1
  <2>1. z \in Nat \ {0} /\ a \in Nat /\ b \in Nat /\ a \in 0 .. b - 1
    BY <1>1, <1>4
  <2>. HIDE DEF z, a, b
  <2>2. z * a \in Nat /\ z * b \in Nat /\ z * a = a * z /\ z * b = b * z
    BY <2>1
  <2>3. b \in 0 .. (b + 1) - 1 /\ b + 1 \in Nat \ {0}
    BY <2>1
  <2>4. (a * z) + z <= b * z
    BY <2>1, <2>3, OffsetFits
  <2>. QED  BY <2>2, <2>4 DEF z, a, b
<1>5. ASSUME NEW k \in 1 .. n
      PROVE  /\ Ext(k).pos \in Nat /\ Ext(k).size \in Nat \ {0}
             /\ start <= Ext(k).pos
             /\ Ext(k).pos + Ext(k).size <= start + IndexSize * n
  <2>1. n + 1 \in Nat /\ k < n + 1 /\ (n + 1) - 1 = n
    BY <1>1
  <2>2. /\ IndexSize * (k - 1) \in Nat /\ IndexSize * n \in Nat
        /\ IndexSize * (k - 1) + IndexSize <= IndexSize * n
    BY <1>4, <2>1
  <2>3. Ext(k).pos = start + IndexSize * (k - 1) /\ Ext(k).size = IndexSize
    BY <1>3
  <2>. QED  BY <1>1, <2>2, <2>3
<1>6. ASSUME NEW j \in 1 .. n, NEW k \in 1 .. n, j < k
      PROVE  Ext(j).pos + Ext(j).size <= Ext(k).pos
  <2>1. /\ Ext(j).pos = start + IndexSize * (j - 1) /\ Ext(j).size = IndexSize
        /\ Ext(k).pos = start + IndexSize * (k - 1)
    BY <1>3
  <2>2. /\ IndexSize * (j - 1) \in Nat /\ IndexSize * (k - 1) \in Nat
        /\ IndexSize * (j - 1) + IndexSize <= IndexSize * (k - 1)
    BY <1>1, <1>4, <1>6
  <2>. QED  BY <1>1, <2>1, <2>2
<1>7. ASSUME NEW x \in Words(start), NEW y \in Words(start), x # y PROVE Apart(x, y)
  <2>1. PICK j \in 1 .. n : x = Ext(j)
    BY <1>2
  <2>2. PICK k \in 1 .. n : y = Ext(k)
    BY <1>2
  <2>3. j < k \/ k < j
    BY <1>1, <1>7, <2>1, <2>2
  <2>. QED  BY <1>6, <2>1, <2>2, <2>3 DEF Apart
<1>8. start + IndexSize * n \in Nat
  BY <1>1
<1>9. \A k \in 1 .. n : Ext(k) \in Words(start)
  BY <1>2
<1>10. \A x \in Words(start) : \E k \in 1 .. n : x = Ext(k)
  BY <1>2
<1>11. Between(start, Words(start), start + IndexSize * n)
  BY <1>5, <1>7, <1>10 DEF Between
<1>. QED  BY <1>3, <1>8, <1>9, <1>11 DEF n

(* Extents behind others that lie between two places.                      *)
LEMMA BetweenJoins ==
  ASSUME NEW a \in Nat, NEW b \in Nat, NEW c \in Nat, a <= b, b <= c,
         NEW A, NEW B, Between(a, A, b), Between(b, B, c)
  PROVE  Between(a, A \cup B, c)
<1>1. ASSUME NEW x \in A \cup B
      PROVE  /\ x.pos \in Nat /\ x.size \in Nat \ {0}
             /\ a <= x.pos /\ x.pos + x.size <= c
             /\ x \in A => x.pos + x.size <= b
             /\ x \in B => b <= x.pos
  BY DEF Between
<1>2. ASSUME NEW x \in A \cup B, NEW y \in A \cup B, x # y PROVE Apart(x, y)
  <2>1. CASE x \in A /\ y \in A
    BY <1>2, <2>1 DEF Between
  <2>2. CASE x \in B /\ y \in B
    BY <1>2, <2>2 DEF Between
  <2>3. CASE x \in A /\ y \in B
    BY <1>1, <2>3 DEF Apart
  <2>4. CASE x \in B /\ y \in A
    BY <1>1, <2>4 DEF Apart
  <2>. QED  BY <2>1, <2>2, <2>3, <2>4
<1>. QED  BY <1>1, <1>2 DEF Between

LEMMA MaxOfTwo ==
  ASSUME NEW a \in Nat, NEW b \in Nat
  PROVE  Max({a, b}) \in Nat /\ a <= Max({a, b}) /\ b <= Max({a, b})
<1>1. \E x \in {a, b} : \A y \in {a, b} : x >= y
  <2>1. CASE a >= b
    BY <2>1
  <2>2. CASE b >= a
    BY <2>2
  <2>. QED  BY <2>1, <2>2
<1>2. /\ Max({a, b}) \in {a, b}
      /\ \A y \in {a, b} : Max({a, b}) >= y
  BY <1>1 DEF Max
<1>. QED  BY <1>2

(* What is written between the file position and the new one is beside all *)
(* that was written before.                                                *)
LEMMA DiskGrows ==
  ASSUME TypeOK, Placed, NothingOverlaps, pc # "done",
         NEW new, NEW to \in Nat, tell <= to, Between(tell, new, to),
         disk' = disk \cup new, MoveTo(to)
  PROVE  /\ tell' \in Nat /\ length' \in Nat /\ SuperSize <= tell'
         /\ tell <= tell' /\ tell' <= length' /\ length <= length'
         /\ \A x \in disk' : /\ x.pos \in Nat /\ x.size \in Nat \ {0}
                             /\ SuperSize <= x.pos /\ x.pos + x.size <= tell'
         /\ pc' # "done" => NothingOverlaps'
<1>1. /\ tell \in Nat /\ length \in Nat /\ SuperSize \in Nat
      /\ SuperSize <= tell /\ tell <= length
      /\ \A x \in disk : /\ x.pos \in Nat /\ x.size \in Nat \ {0}
                         /\ SuperSize <= x.pos /\ x.pos + x.size <= tell
  BY SizeAssumption DEF TypeOK, Placed
<1>2. \A x, y \in disk : x # y => Apart(x, y)
  BY DEF NothingOverlaps, Apart
<1>3. Between(SuperSize, disk, tell)
  BY <1>1, <1>2 DEF Between
<1>4. Between(SuperSize, disk', to)
  BY <1>1, <1>3, BetweenJoins
<1>5. tell' = to /\ length' \in Nat /\ to <= length' /\ length <= length'
  BY <1>1, MaxOfTwo DEF MoveTo
<1>6. \A x \in disk' : /\ x.pos \in Nat /\ x.size \in Nat \ {0}
                       /\ SuperSize <= x.pos /\ x.pos + x.size <= tell'
  BY <1>4, <1>5 DEF Between
<1>7. \A x \in disk' : x.pos + x.size <= length'
  BY <1>5, <1>6
<1>8. \A x, y \in disk' : x # y => Apart(x, y)
  BY <1>4 DEF Between
<1>9. pc' # "done" => NothingOverlaps'
  BY <1>7, <1>8 DEF NothingOverlaps, Apart
<1>. QED  BY <1>1, <1>5, <1>6, <1>9

-----------------------------------------------------------------------------
(* What has been written can still be read.                                *)

LEMMA FoundGrows ==
  ASSUME disk \subseteq disk', NEW kind, NEW pos
  PROVE  Found(kind, pos) \subseteq Found(kind, pos)'
BY DEF Found

LEMMA EntriesStay ==
  ASSUME disk \subseteq disk', NEW t \in Indexed, super'[t] = super[t],
         entries' = entries, HasEntries(t)
  PROVE  HasEntries(t)'
<1>. SUFFICES ASSUME NEW k \in 0 .. Len(entries[t]) - 1
              PROVE  HasEntry(t, k, entries[t][k + 1])'
  BY DEF HasEntries
<1> DEFINE p == super[t] + IndexSize * (k \div PerBlock(t))
<1>1. PICK word \in Found("word", p) :
        \E b \in Found("block", word) : entries[t][k + 1] = EntryIn(Content(b), t, k)
  BY DEF HasEntries, HasEntry
<1>2. PICK b \in Found("block", word) : entries[t][k + 1] = EntryIn(Content(b), t, k)
  BY <1>1
<1>3. PICK q : q = p /\ q = super'[t] + IndexSize * (k \div PerBlock(t))
  OBVIOUS
<1>4. word \in Found("word", q)' /\ b \in Found("block", word)'
  BY <1>1, <1>2, <1>3, FoundGrows
<1>5. entries'[t][k + 1] = EntryIn(Content(b), t, k)
  BY <1>2
<1>. HIDE DEF p
<1>6. word \in Found("word", super[t] + IndexSize * (k \div PerBlock(t)))'
  BY <1>3, <1>4 DEF Found
<1>. QED  BY <1>4, <1>5, <1>6 DEF HasEntry

(* The blocks of a table are found where it was written.                   *)
LEMMA BlocksStay ==
  ASSUME disk \subseteq disk', NEW w, NEW pos, HasBlocks(w, pos)
  PROVE  HasBlocks(w, pos)'
BY FoundGrows DEF HasBlocks

LEMMA TablesStay ==
  ASSUME disk \subseteq disk', entries' = entries, TablesWritten,
         inode_writer' = inode_writer, dentry_writer' = dentry_writer
  PROVE  /\ table # "inode" /\ super'["inode"] = super["inode"] =>
              HasBlocks(inode_writer, super["inode"])'
         /\ table \in Indexed /\ super'["directory"] = super["directory"] =>
              HasBlocks(dentry_writer, super["directory"])'
         /\ table = "id" /\ super'["fragment"] = super["fragment"] =>
              HasEntries("fragment")'
         /\ pc \in {"used", "header", "done"} /\ super'["id"] = super["id"] =>
              HasEntries("id")'
<1>1. ASSUME NEW w, NEW pos, w = inode_writer, pos = super["inode"],
             table # "inode", super'["inode"] = super["inode"]
      PROVE  HasBlocks(inode_writer, super["inode"])'
  <2>1. HasBlocks(w, pos)
    BY <1>1 DEF TablesWritten
  <2>2. HasBlocks(w, pos)'
    BY <2>1, BlocksStay
  <2>. QED  BY <1>1, <2>2
<1>2. ASSUME NEW w, NEW pos, w = dentry_writer, pos = super["directory"],
             table \in Indexed, super'["directory"] = super["directory"]
      PROVE  HasBlocks(dentry_writer, super["directory"])'
  <2>1. HasBlocks(w, pos)
    BY <1>2 DEF TablesWritten
  <2>2. HasBlocks(w, pos)'
    BY <2>1, BlocksStay
  <2>. QED  BY <1>2, <2>2
<1>3. "fragment" \in Indexed /\ "id" \in Indexed
  BY DEF Indexed
<1>. QED  BY <1>1, <1>2, <1>3, EntriesStay DEF TablesWritten

-----------------------------------------------------------------------------
(* The inductive invariant, action by action.                              *)

(* A new writer is empty.                                                  *)
LEMMA NewWriterIs ==
  /\ NewWriter \in Writers /\ Contiguous(NewWriter)
  /\ NewWriter.table = <<>> /\ NewWriter.buff = <<>>
  /\ Len(NewWriter.table) = 0 /\ Len(NewWriter.buff) = 0
<1>1. /\ <<>> \in Seq(Stored) /\ <<>> \in Block /\ Len(<<>>) = 0
      /\ DOMAIN <<>> = {}
  BY EmptySeq, EmptyBlock
<1>2. /\ NewWriter.table = <<>> /\ NewWriter.size = 0 /\ NewWriter.buff = <<>>
      /\ NewWriter \in Writers
  BY <1>1 DEF NewWriter, Writers
<1>. HIDE DEF NewWriter
<1>3. Contiguous(NewWriter)
  <2>1. BlockStart(NewWriter, 1) = 0
    BY <1>1, <1>2 DEF BlockStart
  <2>. QED  BY <1>1, <1>2, <2>1 DEF Contiguous
<1>. QED  BY <1>1, <1>2, <1>3

LEMMA InitInvariant == Init => IInv
<1>. SUFFICES ASSUME Init PROVE IInv
  OBVIOUS
<1>1. /\ pc = "close" /\ table = "inode" /\ mdw = NewWriter /\ indices = <<>>
      /\ i = 0 /\ rest = <<>> /\ disk = {} /\ super = [t \in Names |-> 0]
      /\ inode_writer \in Open /\ dentry_writer \in Open
  BY DEF Init
<1>2. PICK s \in Starts : tell = s.tell /\ length = s.length
  BY DEF Init
<1>3. tell \in Nat /\ length \in Nat /\ SuperSize <= tell /\ tell <= length
  BY <1>2, SizeAssumption
<1>4. entries["fragment"] \in Fragments /\ entries["id"] \in Ids
  BY DEF Init, Indexed
<1>5. TypeOK
  <2>1. /\ <<>> \in Seq(Nat) /\ <<>> \in Seq(Byte)
        /\ mdw \in Writers /\ inode_writer \in Writers /\ dentry_writer \in Writers
    BY <1>1, EmptySeq, NewWriterIs, OpenAssumption
  <2>2. super \in [Names -> Nat]
    BY <1>1
  <2>3. table \in Names \ {"bytes_used"}
    BY <1>1 DEF Names
  <2>. QED  BY <1>1, <1>3, <1>4, <2>1, <2>2, <2>3 DEF TypeOK
<1>6. Placed
  <2>1. \A t \in Names : super[t] = 0
    BY <1>1
  <2>. QED  BY <1>1, <1>3, <2>1 DEF Placed
<1>7. WritersClosed
  BY <1>1, OpenAssumption DEF WritersClosed
<1>8. TablesWritten /\ Entering /\ NothingOverlaps
  BY <1>1 DEF TablesWritten, Entering, NothingOverlaps, Indexed
<1>. QED  BY <1>5, <1>6, <1>7, <1>8 DEF IInv

LEMMA CloseTablesInvariant == IInv /\ CloseTables => IInv'
<1>. SUFFICES ASSUME IInv, CloseTables PROVE IInv'
  OBVIOUS
<1>. USE DEF IInv
<1>1. /\ pc = "close" /\ pc' = "tell" /\ table = "inode" /\ rest = <<>>
      /\ inode_writer' = WriteBlock(inode_writer)
      /\ dentry_writer' = WriteBlock(dentry_writer)
      /\ entries' = entries /\ super' = super /\ table' = table /\ mdw' = mdw
      /\ indices' = indices /\ i' = i /\ rest' = rest /\ disk' = disk
      /\ tell' = tell /\ length' = length
  BY DEF CloseTables, TypeOK, Entering
<1>2. ASSUME NEW w \in Writers, Contiguous(w)
      PROVE  /\ WriteBlock(w) \in Writers /\ Contiguous(WriteBlock(w))
             /\ WriteBlock(w).buff = <<>>
  <2>1. Sealed(w, WriteBlock(w), Padded(w.buff))
    BY WriteBlockSeals
  <2>. QED  BY <1>2, <2>1, SealedContiguous DEF Sealed
<1>3. /\ inode_writer' \in Writers /\ Contiguous(inode_writer')
      /\ inode_writer'.buff = <<>>
      /\ dentry_writer' \in Writers /\ Contiguous(dentry_writer')
      /\ dentry_writer'.buff = <<>>
  BY <1>1, <1>2 DEF TypeOK, WritersClosed
<1>4. Len(<<>>) < BlockSize
  BY EmptySeq, BlockSizeAssumption
<1>5. TypeOK'
  BY <1>1, <1>3 DEF TypeOK
<1>6. Placed'
  BY <1>1 DEF Placed
<1>7. WritersClosed'
  BY <1>3, <1>4 DEF WritersClosed, Contiguous, BlockStart
<1>8. TablesWritten' /\ Entering'
  BY <1>1 DEF TablesWritten, Entering, Indexed
<1>9. NothingOverlaps'
  BY <1>1 DEF NothingOverlaps
<1>. QED  BY <1>5, <1>6, <1>7, <1>8, <1>9

(* Writing the blocks of a closed table where the file position is.        *)
LEMMA WriteTableInvariant == IInv /\ WriteTable => IInv'
<1>. SUFFICES ASSUME IInv, WriteTable PROVE IInv'
  OBVIOUS
<1>. USE DEF IInv
<1> DEFINE w == IF table = "inode" THEN inode_writer ELSE dentry_writer
<1>1. /\ pc = "tell" /\ pc' = "tell" /\ table \in {"inode", "directory"}
      /\ disk' = disk \cup Out(w) /\ MoveTo(tell + w.size)
      /\ super' = [super EXCEPT ![table] = tell]
      /\ table' = IF table = "inode" THEN "directory" ELSE "fragment"
      /\ entries' = entries /\ inode_writer' = inode_writer
      /\ dentry_writer' = dentry_writer /\ mdw' = mdw /\ indices' = indices
      /\ i' = i /\ rest' = rest
  BY DEF WriteTable
<1>2. w \in Writers /\ Contiguous(w) /\ w.buff = <<>> /\ tell \in Nat
      /\ w.size \in Nat
  <2>1. w \in Writers /\ Contiguous(w) /\ w.buff = <<>> /\ tell \in Nat
    BY <1>1 DEF TypeOK, WritersClosed
  <2>. QED  BY <2>1, WriterParts
<1>3. /\ Between(tell, Out(w), tell + w.size) /\ tell + w.size \in Nat
      /\ \A b \in Range(w.table) :
           \E x \in Out(w) : x.kind = "block" /\ x.pos = tell + b.at /\ x.what = b
  BY <1>2, OutBetween
<1>. HIDE DEF w
<1>4. /\ tell' \in Nat /\ length' \in Nat /\ SuperSize <= tell'
      /\ tell <= tell' /\ tell' <= length' /\ length <= length'
      /\ \A x \in disk' : /\ x.pos \in Nat /\ x.size \in Nat \ {0}
                          /\ SuperSize <= x.pos /\ x.pos + x.size <= tell'
      /\ NothingOverlaps'
  <2>1. tell <= tell + w.size
    BY <1>2
  <2>. QED  BY <1>1, <1>3, <2>1, DiskGrows
<1>5. table \in Names /\ DOMAIN super = Names
  BY <1>1 DEF TypeOK, Names
<1>6. /\ super' \in [Names -> Nat] /\ super'[table] = tell
      /\ \A t \in Names : t # table => super'[t] = super[t]
  BY <1>1, <1>2, <1>5 DEF TypeOK
<1>7. TypeOK'
  BY <1>1, <1>4, <1>6 DEF TypeOK, Names, Indexed
<1>8. Placed'
  <2>1. \A t \in Names : super'[t] <= tell
    BY <1>1, <1>2, <1>6 DEF Placed
  <2>2. \A t \in Names : super'[t] \in Nat
    BY <1>6
  <2>3. \A t \in Names : super'[t] <= tell' /\ super'[t] <= length'
    BY <1>2, <1>4, <2>1, <2>2
  <2>. QED  BY <1>1, <1>4, <2>3 DEF Placed
<1>9. WritersClosed'
  BY <1>1 DEF WritersClosed
<1>10. ASSUME NEW v, NEW from, v = w, from = tell PROVE HasBlocks(v, from)'
  <2>1. \A b \in Range(v.table) : b \in Found("block", from + b.at)'
    BY <1>1, <1>3, <1>10 DEF Found
  <2>. QED  BY <1>2, <1>10, <2>1 DEF HasBlocks
<1>11. TablesWritten'
  <2>1. PICK v, from : v = w /\ from = tell
    OBVIOUS
  <2>2. HasBlocks(v, from)'
    BY <1>10, <2>1
  <2>3. CASE table = "inode"
    <3>1. v = inode_writer' /\ from = super'["inode"]
      BY <1>1, <1>6, <2>1, <2>3 DEF w
    <3>2. HasBlocks(inode_writer, super["inode"])'
      BY <2>2, <3>1
    <3>3. table' = "directory" /\ pc' = "tell"
      BY <1>1, <2>3
    <3>. QED  BY <3>2, <3>3 DEF TablesWritten, Indexed
  <2>4. CASE table = "directory"
    <3>1. super'["inode"] = super["inode"]
      BY <1>6, <2>4 DEF Names
    <3>2. HasBlocks(inode_writer, super["inode"])'
      BY <1>1, <2>4, <3>1, TablesStay
    <3>3. v = dentry_writer' /\ from = super'["directory"]
      BY <1>1, <1>6, <2>1, <2>4 DEF w
    <3>4. HasBlocks(dentry_writer, super["directory"])'
      BY <2>2, <3>3
    <3>5. table' = "fragment" /\ pc' = "tell"
      BY <1>1, <2>4
    <3>. QED  BY <3>2, <3>4, <3>5 DEF TablesWritten, Indexed
  <2>. QED  BY <1>1, <2>3, <2>4
<1>12. Entering'
  BY <1>1 DEF Entering
<1>. QED  BY <1>4, <1>7, <1>8, <1>9, <1>11, <1>12

LEMMA BeginIndexedInvariant == IInv /\ BeginIndexed => IInv'
<1>. SUFFICES ASSUME IInv, BeginIndexed PROVE IInv'
  OBVIOUS
<1>. USE DEF IInv
<1>1. /\ pc = "tell" /\ pc' = "entries" /\ table \in Indexed
      /\ super' = [super EXCEPT ![table] = tell]
      /\ mdw' = NewWriter /\ indices' = <<>> /\ i' = 0
      /\ entries' = entries /\ inode_writer' = inode_writer
      /\ dentry_writer' = dentry_writer /\ table' = table /\ rest' = rest
      /\ disk' = disk /\ tell' = tell /\ length' = length
  BY DEF BeginIndexed
<1>2. table \in Names /\ DOMAIN super = Names /\ tell \in Nat /\ rest = <<>>
  BY <1>1 DEF TypeOK, Entering
<1>3. /\ super' \in [Names -> Nat] /\ super'[table] = tell
      /\ \A t \in Names : t # table => super'[t] = super[t]
  BY <1>1, <1>2 DEF TypeOK
<1>4. /\ mdw' \in Writers /\ Contiguous(mdw')
      /\ Len(mdw'.table) = 0 /\ Len(mdw'.buff) = 0
      /\ Len(indices') = 0 /\ indices' \in Seq(Nat) /\ DOMAIN indices' = {}
  BY <1>1, NewWriterIs, EmptySeq
<1>5. TypeOK'
  BY <1>1, <1>3, <1>4 DEF TypeOK
<1>6. Placed'
  <2>1. \A t \in Names : super'[t] <= tell /\ super'[t] <= length
    BY <1>1, <1>2, <1>3 DEF Placed
  <2>. QED  BY <1>1, <2>1 DEF Placed
<1>7. WritersClosed' /\ NothingOverlaps'
  BY <1>1 DEF WritersClosed, NothingOverlaps
<1>8. TablesWritten'
  <2>1. /\ table # "inode" /\ super'["inode"] = super["inode"]
        /\ super'["directory"] = super["directory"]
        /\ table = "id" => super'["fragment"] = super["fragment"]
    BY <1>1, <1>3 DEF Indexed, Names
  <2>2. /\ HasBlocks(inode_writer, super["inode"])'
        /\ HasBlocks(dentry_writer, super["directory"])'
        /\ table = "id" => HasEntries("fragment")'
    BY <1>1, <2>1, TablesStay
  <2>. QED  BY <1>1, <2>2 DEF TablesWritten
<1>9. Entering'
  <2>1. PICK p, s : p = PerBlock(table) /\ s = EntrySize[table]
    OBVIOUS
  <2>2. p \in Nat \ {0} /\ s \in Nat \ {0}
    BY <1>1, <2>1, PerBlockFills
  <2>3. 0 \div p = 0 /\ 0 % p = 0 /\ 0 * s = 0
    BY <2>2
  <2>4. Whole' = 0 /\ 0 .. (0 - 1) = {}
    BY <1>1, <1>2 DEF Whole
  <2>5. entries[table] \in Seq([1 .. EntrySize[table] -> Byte]) /\ Count' \in Nat
    BY <1>1, EntryAssumption, LenProperties DEF TypeOK, Indexed, Count
  <2>6. 0 <= Count' /\ (i' \div PerBlock(table)) = 0 /\ i' % PerBlock(table) = 0
    BY <1>1, <2>1, <2>3, <2>5
  <2>7. /\ Len(mdw'.table) = (Whole \div PerBlock(table))'
        /\ Len(mdw'.buff) = ((Whole % PerBlock(table)) * EntrySize[table])'
    BY <1>1, <1>4, <2>1, <2>3, <2>4
  <2>8. \A k \in 0 .. (Whole' - 1) : FALSE
    BY <2>4
  <2>. QED  BY <1>1, <1>2, <1>3, <1>4, <2>6, <2>7, <2>8 DEF Entering
<1>. QED  BY <1>5, <1>6, <1>7, <1>8, <1>9

(* The entries of a table.                                                 *)
LEMMA EntryTypes ==
  ASSUME TypeOK, table \in Indexed
  PROVE  /\ entries[table] \in Seq([1 .. EntrySize[table] -> Byte])
         /\ Count \in Nat
         /\ \A k \in 1 .. Count :
              entries[table][k] \in [1 .. EntrySize[table] -> Byte]
<1>1. entries[table] \in Seq([1 .. EntrySize[table] -> Byte])
  BY EntryAssumption DEF TypeOK, Indexed
<1>. QED  BY <1>1, LenProperties, ElementOfSeq DEF Count

LEMMA PutEntryInvariant == IInv /\ PutEntry => IInv'
<1>. SUFFICES ASSUME IInv, PutEntry PROVE IInv'
  OBVIOUS
<1>. USE DEF IInv
<1>1. /\ pc = "entries" /\ rest = <<>> /\ i < Count /\ table \in Indexed
      /\ rest' = entries[table][i + 1] /\ i' = i + 1
      /\ indices' = IF i % PerBlock(table) = 0
                      THEN Append(indices, super[table] + mdw.size) ELSE indices
      /\ entries' = entries /\ inode_writer' = inode_writer
      /\ dentry_writer' = dentry_writer /\ super' = super /\ pc' = pc
      /\ table' = table /\ mdw' = mdw /\ disk' = disk /\ tell' = tell
      /\ length' = length
  BY DEF PutEntry, GetAddress, TypeOK
<1>2. Count \in Nat /\ i \in Nat /\ mdw \in Writers /\ mdw.size \in Nat
      /\ indices \in Seq(Nat) /\ tell \in Nat /\ Len(indices) \in Nat
      /\ DOMAIN indices = 1 .. Len(indices)
      /\ super[table] = tell
  BY <1>1, EntryTypes, WriterParts, LenProperties DEF TypeOK, Entering
<1>3. rest' \in Seq(Byte) /\ rest' # <<>>
  <2>1. i + 1 \in 1 .. Count
    BY <1>1, <1>2
  <2>2. rest' \in [1 .. EntrySize[table] -> Byte]
    BY <1>1, <2>1, EntryTypes
  <2>. QED  BY <1>1, <2>2, EntryIsSeq
<1>4. Whole = i /\ Whole' = i
  BY <1>1, <1>2, <1>3 DEF Whole
<1> DEFINE p == PerBlock(table)
           q == i \div p
           z == tell + mdw.size
<1>5. p \in Nat \ {0}
  BY <1>1, PerBlockFills
<1>6. q \in Nat /\ i % p \in 0 .. p - 1
  <2>. HIDE DEF p
  <2>. QED  BY <1>2, <1>5, Division
<1>7. /\ Len(mdw.table) = q /\ Len(indices) = q + (IF i % p = 0 THEN 0 ELSE 1)
      /\ \A j \in 1 .. Len(indices) : indices[j] = tell + BlockStart(mdw, j)
  BY <1>1, <1>2, <1>4 DEF Entering
<1>8. BlockStart(mdw, q + 1) = mdw.size
  <2>. HIDE DEF q
  <2>1. q + 1 \notin DOMAIN mdw.table
    BY <1>2, <1>6, <1>7, WriterParts
  <2>. QED  BY <2>1 DEF BlockStart
<1>9. /\ (i + 1) \div p = IF i % p = p - 1 THEN q + 1 ELSE q
      /\ (i + 1) % p = IF i % p = p - 1 THEN 0 ELSE (i % p) + 1
  <2>. HIDE DEF p
  <2>. QED  BY <1>2, <1>5, NextDivision
<1>10. z \in Nat
  BY <1>2
<1>11. indices' = IF i % p = 0 THEN Append(indices, z) ELSE indices
  BY <1>1, <1>2
<1>. HIDE DEF p, q, z
<1>12. /\ indices' \in Seq(Nat) /\ Len(indices') = q + 1
       /\ DOMAIN indices' = 1 .. q + 1
       /\ \A j \in 1 .. q + 1 : indices'[j] = tell + BlockStart(mdw, j)
  <2>1. CASE i % p = 0
    <3>1. /\ indices' = Append(indices, z) /\ Len(indices) = q
      BY <1>6, <1>7, <1>11, <2>1
    <3>2. /\ indices' \in Seq(Nat) /\ Len(indices') = q + 1
          /\ \A j \in 1 .. q : indices'[j] = indices[j]
          /\ indices'[q + 1] = z
      BY <1>2, <1>10, <3>1, AppendProperties
    <3>3. DOMAIN indices' = 1 .. q + 1
      BY <3>2, LenProperties
    <3>4. \A j \in 1 .. q + 1 : j \in 1 .. q \/ j = q + 1
      BY <1>6
    <3>5. indices'[q + 1] = tell + BlockStart(mdw, q + 1)
      BY <1>8, <3>2 DEF z
    <3>. QED  BY <1>7, <3>1, <3>2, <3>3, <3>4, <3>5
  <2>2. CASE i % p # 0
    BY <1>2, <1>6, <1>7, <1>11, <2>2
  <2>. QED  BY <2>1, <2>2
<1>13. Len(indices') = ((i + 1) \div p) + (IF (i + 1) % p = 0 THEN 0 ELSE 1)
  <2>1. CASE i % p = p - 1
    BY <1>6, <1>9, <1>12, <2>1
  <2>2. CASE i % p # p - 1
    <3>1. (i % p) + 1 # 0
      BY <1>5, <1>6
    <3>. QED  BY <1>6, <1>9, <1>12, <2>2, <3>1
  <2>. QED  BY <2>1, <2>2
<1>14. TypeOK'
  BY <1>1, <1>2, <1>3, <1>12 DEF TypeOK
<1>15. Placed' /\ WritersClosed' /\ NothingOverlaps'
  BY <1>1 DEF Placed, WritersClosed, NothingOverlaps
<1>16. TablesWritten'
  BY <1>1, TablesStay DEF TablesWritten
<1>17. Entering'
  <2>1. i + 1 <= Count /\ Count' = Count /\ i' > 0
    BY <1>1, <1>2 DEF Count
  <2>2. /\ Contiguous(mdw)' /\ super'[table] = tell'
        /\ Len(mdw'.table) = (Whole \div PerBlock(table))'
        /\ Len(mdw'.buff) = ((Whole % PerBlock(table)) * EntrySize[table])'
    BY <1>1, <1>4 DEF Entering, Contiguous, BlockStart
  <2>3. \A k \in 0 .. Whole' - 1 :
          entries'[table][k + 1]
            = EntryIn(BlockContent(mdw', (k \div PerBlock(table)) + 1), table, k)
    BY <1>1, <1>4 DEF Entering
  <2>4. \A j \in DOMAIN indices' : indices'[j] = tell' + BlockStart(mdw', j)
    BY <1>1, <1>12
  <2>. QED  BY <1>1, <1>3, <1>13, <2>1, <2>2, <2>3, <2>4 DEF Entering, p
<1>. QED  BY <1>14, <1>15, <1>16, <1>17

LEMMA PutChunkInvariant == IInv /\ PutChunk => IInv'
<1>. SUFFICES ASSUME IInv, PutChunk PROVE IInv'
  OBVIOUS
<1>. USE DEF IInv
<1>1. /\ rest # <<>> /\ pc = "entries" /\ table \in Indexed
      /\ mdw' = AddChunk(mdw, rest)
      /\ rest' = SubSeq(rest, Added(mdw, rest) + 1, Len(rest))
      /\ entries' = entries /\ inode_writer' = inode_writer
      /\ dentry_writer' = dentry_writer /\ super' = super /\ pc' = pc
      /\ table' = table /\ indices' = indices /\ i' = i /\ disk' = disk
      /\ tell' = tell /\ length' = length
  BY DEF PutChunk, TypeOK, Entering
<1> DEFINE m == i - 1
           p == PerBlock(table)
<1>2. /\ i \in Nat /\ i > 0 /\ m \in Nat /\ Whole = m /\ m + 1 = i /\ i <= Count
      /\ rest = entries[table][i] /\ mdw \in Writers /\ super[table] = tell
      /\ indices \in Seq(Nat)
  BY <1>1 DEF TypeOK, Entering, Whole
<1>3. rest \in [1 .. EntrySize[table] -> Byte]
  <2>1. i \in 1 .. Count
    BY <1>1, <1>2, EntryTypes
  <2>. QED  BY <1>1, <1>2, <2>1, EntryTypes
<1>4. Holding(mdw, table, m) /\ Contiguous(mdw)
  BY <1>1, <1>2 DEF Holding, Entering
<1>. HIDE DEF m
<1>5. /\ Added(mdw, rest) = EntrySize[table] /\ Len(mdw.buff) < BlockSize
      /\ mdw' \in Writers /\ Holding(mdw', table, m + 1) /\ Contiguous(mdw')
      /\ rest = EntryIn(BlockContent(mdw', (m \div p) + 1), table, m)
  BY <1>1, <1>2, <1>3, <1>4, EntryLands
<1>6. rest \in Seq(Byte) /\ Len(rest) = EntrySize[table]
      /\ EntrySize[table] \in Nat
  BY <1>1, <1>3, EntryIsSeq, PerBlockFills
<1>7. rest' = <<>>
  BY <1>1, <1>5, <1>6, SubSeqProperties
<1>8. Whole' = i
  BY <1>1, <1>7 DEF Whole
<1>9. TypeOK'
  <2>1. rest' \in Seq(Byte)
    BY <1>7, EmptySeq
  <2>. QED  BY <1>1, <1>5, <2>1 DEF TypeOK
<1>10. Placed' /\ WritersClosed' /\ NothingOverlaps'
  BY <1>1 DEF Placed, WritersClosed, NothingOverlaps
<1>11. TablesWritten'
  BY <1>1, TablesStay DEF TablesWritten
<1>12. Entering'
  <2>1. Count' = Count
    BY <1>1 DEF Count
  <2>2. /\ Len(mdw'.table) = i \div p
        /\ Len(mdw'.buff) = (i % p) * EntrySize[table]
    BY <1>2, <1>5 DEF Holding
  <2>3. ASSUME NEW k \in 0 .. i - 1
        PROVE  entries[table][k + 1]
                 = EntryIn(BlockContent(mdw', (k \div p) + 1), table, k)
    <3>1. CASE k = m
      BY <1>2, <1>5, <3>1
    <3>2. CASE k # m
      <4>1. k \in 0 .. m - 1
        BY <1>2, <3>2
      <4>2. entries[table][k + 1]
              = EntryIn(BlockContent(mdw, (k \div p) + 1), table, k)
        BY <1>1, <1>2, <4>1 DEF Entering
      <4>3. EntryIn(BlockContent(mdw', (k \div p) + 1), table, k)
              = EntryIn(BlockContent(mdw, (k \div p) + 1), table, k)
        BY <1>1, <1>2, <1>3, <1>4, <4>1, EntriesKept
      <4>. QED  BY <4>2, <4>3
    <3>. QED  BY <3>1, <3>2
  <2>4. /\ Len(indices) = (i \div p) + (IF i % p = 0 THEN 0 ELSE 1)
        /\ \A j \in DOMAIN indices : indices[j] = tell + BlockStart(mdw, j)
    BY <1>1 DEF Entering
  <2>5. \A j \in DOMAIN indices : indices[j] = tell + BlockStart(mdw', j)
    <3>1. Extends(mdw, mdw')
      BY <1>1, <1>2, <1>5, <1>6, AddChunkExtends
    <3>2. Len(indices) <= Len(mdw.table) + 1 /\ Len(mdw.table) \in Nat
          /\ DOMAIN indices = 1 .. Len(indices) /\ Len(indices) \in Nat
      <4>1. Len(mdw.table) = m \div p
        BY <1>4 DEF Holding
      <4>2. p \in Nat \ {0}
        BY <1>1, PerBlockFills
      <4>. HIDE DEF p
      <4>3. /\ i \div p = IF m % p = p - 1 THEN (m \div p) + 1 ELSE m \div p
            /\ i % p = IF m % p = p - 1 THEN 0 ELSE (m % p) + 1
            /\ m \div p \in Nat
        BY <1>2, <4>2, NextDivision, Division
      <4>4. Len(indices) <= (m \div p) + 1
        <5>1. CASE m % p = p - 1
          BY <2>4, <4>3, <5>1
        <5>2. CASE m % p # p - 1
          BY <2>4, <4>3, <5>2
        <5>. QED  BY <5>1, <5>2
      <4>. QED  BY <1>2, <4>1, <4>3, <4>4, LenProperties
    <3>3. \A j \in 1 .. Len(indices) : j \in 1 .. Len(mdw.table) + 1
      BY <3>2
    <3>. QED  BY <2>4, <3>1, <3>2, <3>3 DEF Extends
  <2>. QED  BY <1>1, <1>2, <1>5, <1>7, <1>8, <2>1, <2>2, <2>3, <2>4, <2>5
            DEF Entering, p
<1>. QED  BY <1>9, <1>10, <1>11, <1>12

LEMMA BytesUsedInvariant == IInv /\ BytesUsed => IInv'
<1>. SUFFICES ASSUME IInv, BytesUsed PROVE IInv'
  OBVIOUS
<1>. USE DEF IInv
<1>1. /\ pc = "used" /\ pc' = "header" /\ table = "id"
      /\ super' = [super EXCEPT !["bytes_used"] = tell]
      /\ entries' = entries /\ inode_writer' = inode_writer
      /\ dentry_writer' = dentry_writer /\ table' = table /\ mdw' = mdw
      /\ indices' = indices /\ i' = i /\ rest' = rest /\ disk' = disk
      /\ tell' = tell /\ length' = length
  BY DEF BytesUsed, TypeOK
<1>2. "bytes_used" \in Names /\ DOMAIN super = Names /\ tell \in Nat
  BY DEF TypeOK, Names
<1>3. /\ super' \in [Names -> Nat] /\ super'["bytes_used"] = tell
      /\ \A t \in Names : t # "bytes_used" => super'[t] = super[t]
  BY <1>1, <1>2 DEF TypeOK
<1>4. TypeOK'
  BY <1>1, <1>3 DEF TypeOK
<1>5. Placed'
  <2>1. \A t \in Names : super'[t] <= tell /\ super'[t] <= length
    BY <1>1, <1>2, <1>3 DEF Placed
  <2>. QED  BY <1>1, <1>3, <2>1 DEF Placed
<1>6. WritersClosed' /\ NothingOverlaps' /\ Entering'
  BY <1>1 DEF WritersClosed, NothingOverlaps, Entering
<1>7. TablesWritten'
  <2>1. /\ super'["inode"] = super["inode"] /\ super'["directory"] = super["directory"]
        /\ super'["fragment"] = super["fragment"] /\ super'["id"] = super["id"]
    BY <1>3 DEF Names
  <2>2. table \in Indexed /\ table # "inode"
    BY <1>1 DEF Indexed
  <2>3. /\ HasBlocks(inode_writer, super["inode"])'
        /\ HasBlocks(dentry_writer, super["directory"])'
        /\ HasEntries("fragment")' /\ HasEntries("id")'
    BY <1>1, <2>1, <2>2, TablesStay
  <2>. QED  BY <2>3 DEF TablesWritten
<1>. QED  BY <1>4, <1>5, <1>6, <1>7

(* The padding makes the file a whole number of pages.                     *)
LEMMA PaddingIs ==
  ASSUME NEW n \in Nat, NEW p \in Nat \ {0}
  PROVE  p - (n % p) \in 1 .. p /\ (n + (p - (n % p))) % p = 0
<1>1. n \div p \in Nat /\ n % p \in 0 .. p - 1 /\ n = ((n \div p) * p) + (n % p)
  BY Division
<1> DEFINE q == n \div p
           r == n % p
<1>2. q \in Nat /\ r \in 0 .. p - 1 /\ n = (q * p) + r
  BY <1>1
<1>. HIDE DEF q, r
<1>3. n + (p - r) = ((q + 1) * p) + 0
  BY <1>2
<1>4. (((q + 1) * p) + 0) % p = 0
  <2>1. q + 1 \in Nat /\ 0 \in 0 .. p - 1
    BY <1>2
  <2>. QED  BY <2>1, DivisionIs
<1>5. (n + (p - r)) % p = 0
  BY <1>3, <1>4
<1>6. p - r \in 1 .. p
  BY <1>2
<1>. QED  BY <1>5, <1>6 DEF r

LEMMA WriteHeaderInvariant == IInv /\ WriteHeader => IInv'
<1>. SUFFICES ASSUME IInv, WriteHeader PROVE IInv'
  OBVIOUS
<1>. USE DEF IInv
<1> DEFINE e == Extent("super", 0, SuperSize, super)
           g == PadSize - (tell % PadSize)
<1>1. /\ pc = "header" /\ pc' = "done" /\ table = "id"
      /\ disk' = disk \cup {e} /\ tell' = SuperSize /\ length' = tell + g
      /\ entries' = entries /\ inode_writer' = inode_writer
      /\ dentry_writer' = dentry_writer /\ super' = super /\ table' = table
      /\ mdw' = mdw /\ indices' = indices /\ i' = i /\ rest' = rest
  BY DEF WriteHeader, TypeOK
<1>2. /\ tell \in Nat /\ SuperSize \in Nat \ {0} /\ PadSize \in Nat \ {0}
      /\ SuperSize <= tell /\ super["bytes_used"] = tell
  BY <1>1, SizeAssumption DEF TypeOK, Placed
<1>3. g \in 1 .. PadSize /\ (tell + g) % PadSize = 0
  BY <1>2, PaddingIs
<1>4. e.pos = 0 /\ e.size = SuperSize
  BY DEF Extent
<1>. HIDE DEF e, g
<1>5. tell + g \in Nat /\ tell <= tell + g
  BY <1>2, <1>3
<1>6. \A x \in disk' : /\ x.pos \in Nat /\ x.size \in Nat \ {0}
                       /\ x.pos + x.size <= tell
  BY <1>1, <1>2, <1>4 DEF TypeOK, Placed
<1>7. TypeOK'
  BY <1>1, <1>2, <1>5, <1>6 DEF TypeOK
<1>8. Placed'
  <2>1. \A t \in Names : super[t] <= tell /\ super[t] \in Nat
    BY <1>1 DEF Placed, TypeOK
  <2>2. \A t \in Names : super'[t] <= length'
    BY <1>1, <1>2, <1>5, <2>1
  <2>. QED  BY <1>1, <2>2 DEF Placed
<1>9. WritersClosed' /\ Entering'
  BY <1>1 DEF WritersClosed, Entering
<1>10. TablesWritten'
  BY <1>1, TablesStay DEF TablesWritten
<1>11. NothingOverlaps'
  <2>1. \A x \in disk : SuperSize <= x.pos
    BY <1>1 DEF Placed
  <2>2. \A x \in disk : Apart(x, e) /\ Apart(e, x)
    BY <1>2, <1>4, <2>1 DEF Apart
  <2>3. \A x, y \in disk : x # y => Apart(x, y)
    BY DEF NothingOverlaps, Apart
  <2>4. \A x, y \in disk' : x # y => Apart(x, y)
    BY <1>1, <2>2, <2>3
  <2>5. \A x \in disk' : /\ x.pos + x.size <= length'
                         /\ x.pos + x.size <= super'["bytes_used"]
    BY <1>1, <1>2, <1>5, <1>6
  <2>6. /\ length' - super'["bytes_used"] \in 1 .. PadSize
        /\ length' % PadSize = 0
    <3>1. (tell + g) - tell = g
      BY <1>2, <1>3
    <3>. QED  BY <1>1, <1>2, <1>3, <3>1
  <2>. QED  BY <2>4, <2>5, <2>6 DEF NothingOverlaps, Apart
<1>. QED  BY <1>7, <1>8, <1>9, <1>10, <1>11

(* The blocks of the indexed table and its index.                          *)
LEMMA EndIndexedInvariant == IInv /\ EndIndexed => IInv'
<1>. SUFFICES ASSUME IInv, EndIndexed PROVE IInv'
  OBVIOUS
<1>. USE DEF IInv
<1> DEFINE v == LastBlock
           start == tell + v.size
           n == Len(indices)
           to == start + IndexSize * n
           p == PerBlock(table)
<1>1. /\ pc = "entries" /\ rest = <<>> /\ i = Count /\ table \in Indexed
      /\ mdw' = v /\ super' = [super EXCEPT ![table] = start]
      /\ disk' = disk \cup Out(v) \cup Words(start) /\ MoveTo(to)
      /\ \/ table = "fragment" /\ table' = "id" /\ pc' = "tell"
         \/ table = "id" /\ table' = "id" /\ pc' = "used"
      /\ entries' = entries /\ inode_writer' = inode_writer
      /\ dentry_writer' = dentry_writer /\ indices' = indices /\ i' = i
      /\ rest' = rest
  BY DEF EndIndexed, Words, TypeOK, Indexed
<1>2. /\ Whole = i /\ i \in Nat /\ mdw \in Writers /\ indices \in Seq(Nat)
      /\ tell \in Nat /\ super[table] = tell /\ Contiguous(mdw)
      /\ Holding(mdw, table, i)
      /\ n = (i \div p) + (IF i % p = 0 THEN 0 ELSE 1)
      /\ \A j \in DOMAIN indices : indices[j] = tell + BlockStart(mdw, j)
  BY <1>1 DEF TypeOK, Entering, Whole, Holding
<1>3. /\ v \in Writers /\ Contiguous(v) /\ Len(v.table) = n
      /\ \A j \in 1 .. n : /\ Content(v.table[j]) = BlockContent(mdw, j)
                           /\ v.table[j].at = BlockStart(mdw, j)
  <2>1. v = IF i % PerBlock(table) # 0 THEN WriteBlockNoPad(mdw) ELSE mdw
    BY DEF LastBlock
  <2>. HIDE DEF v
  <2>2. /\ v \in Writers /\ Contiguous(v)
        /\ Len(v.table) = (i \div p) + (IF i % p = 0 THEN 0 ELSE 1)
        /\ \A j \in 1 .. Len(v.table) :
             /\ Content(v.table[j]) = BlockContent(mdw, j)
             /\ v.table[j].at = BlockStart(mdw, j)
    BY <1>1, <1>2, <2>1, LastBlockCloses
  <2>. QED  BY <1>2, <2>2
<1>. HIDE DEF v
<1>4. /\ v.size \in Nat /\ n \in Nat /\ DOMAIN v.table = 1 .. n
      /\ DOMAIN indices = 1 .. n
  BY <1>2, <1>3, WriterParts, LenProperties
<1>5. /\ Between(tell, Out(v), start) /\ start \in Nat /\ tell <= start
      /\ \A b \in Range(v.table) :
           \E x \in Out(v) : x.kind = "block" /\ x.pos = tell + b.at /\ x.what = b
  <2>1. tell <= start
    BY <1>2, <1>4
  <2>. QED  BY <1>2, <1>3, <2>1, OutBetween
<1>6. /\ Between(start, Words(start), to) /\ to \in Nat
      /\ \A k \in 1 .. n :
           \E x \in Words(start) : /\ x.kind = "word" /\ x.what = indices[k]
                                   /\ x.pos = start + IndexSize * (k - 1)
  <2>. HIDE DEF start
  <2>. QED  BY <1>2, <1>5, WordsBetween
<1>7. start <= to
  <2>1. IndexSize * n \in Nat
    BY <1>4, SizeAssumption
  <2>. QED  BY <1>5, <2>1
<1>. HIDE DEF start, to
<1>8. Between(tell, Out(v) \cup Words(start), to) /\ tell <= to
  <2>1. /\ tell \in Nat /\ start \in Nat /\ to \in Nat
        /\ tell <= start /\ start <= to /\ tell <= to
    BY <1>2, <1>5, <1>6, <1>7
  <2>. HIDE DEF n
  <2>2. Between(tell, Out(v), start) /\ Between(start, Words(start), to)
    BY <1>5, <1>6
  <2>3. Between(tell, Out(v) \cup Words(start), to)
    BY <2>1, <2>2, BetweenJoins
  <2>. QED  BY <2>1, <2>3
<1>9. /\ tell' \in Nat /\ length' \in Nat /\ SuperSize <= tell'
      /\ tell <= tell' /\ tell' <= length' /\ length <= length'
      /\ \A x \in disk' : /\ x.pos \in Nat /\ x.size \in Nat \ {0}
                          /\ SuperSize <= x.pos /\ x.pos + x.size <= tell'
      /\ NothingOverlaps'
  <2>1. disk' = disk \cup (Out(v) \cup Words(start)) /\ pc # "done" /\ pc' # "done"
    BY <1>1
  <2>. QED  BY <1>1, <1>6, <1>8, <2>1, DiskGrows
<1>10. table \in Names /\ DOMAIN super = Names /\ tell' = to
  <2>1. table \in Names /\ DOMAIN super = Names
    BY DEF TypeOK
  <2>. QED  BY <1>1, <2>1 DEF MoveTo
<1>11. /\ super' \in [Names -> Nat] /\ super'[table] = start
       /\ \A t \in Names : t # table => super'[t] = super[t]
  BY <1>1, <1>5, <1>10 DEF TypeOK
<1>12. TypeOK'
  BY <1>1, <1>3, <1>9, <1>11 DEF TypeOK, Names, Indexed
<1>13. Placed'
  <2>1. \A t \in Names : super[t] \in Nat /\ super[t] <= tell
    BY <1>1 DEF TypeOK, Placed
  <2>2. ASSUME NEW t \in Names PROVE super'[t] <= tell' /\ super'[t] <= length'
    <3>1. CASE t = table
      BY <1>5, <1>7, <1>9, <1>10, <1>11, <3>1
    <3>2. CASE t # table
      <4>1. super'[t] = super[t]
        BY <1>11, <3>2
      <4>. QED  BY <1>2, <1>9, <2>1, <4>1
    <3>. QED  BY <3>1, <3>2
  <2>. QED  BY <1>1, <1>9, <2>2 DEF Placed
<1>14. WritersClosed'
  BY <1>1 DEF WritersClosed
<1>15. Entering'
  BY <1>1 DEF Entering
<1>16. ASSUME NEW t \in Indexed, t = table PROVE HasEntries(t)'
  <2>. SUFFICES ASSUME NEW k \in 0 .. Len(entries[t]) - 1
                PROVE  HasEntry(t, k, entries[t][k + 1])'
    BY <1>1, <1>16 DEF HasEntries
  <2> DEFINE j == (k \div p) + 1
             b == v.table[j]
             word == indices[j]
  <2>1. k \in Nat /\ k < i /\ k \in 0 .. Whole - 1
    BY <1>1, <1>2, <1>16 DEF Count
  <2>2. entries[t][k + 1] = EntryIn(BlockContent(mdw, j), t, k)
    BY <1>1, <1>16, <2>1 DEF Entering
  <2>3. j \in 1 .. n /\ k \div p \in Nat
    <3>1. p \in Nat \ {0}
      BY <1>1, PerBlockFills
    <3>. HIDE DEF p
    <3>2. /\ k \div p \in Nat /\ i \div p \in Nat /\ i % p \in 0 .. p - 1
          /\ k % p \in 0 .. p - 1
      BY <1>2, <2>1, <3>1, Division
    <3>3. \/ k \div p < i \div p
          \/ k \div p = i \div p /\ k % p < i % p
      BY <1>2, <2>1, <3>1, DivisionOrder
    <3>4. CASE k \div p < i \div p
      <4>1. PICK x, y, c \in Nat : /\ x = k \div p /\ y = i \div p
                                  /\ c = IF i % p = 0 THEN 0 ELSE 1
        BY <3>2
      <4>2. x < y /\ n = y + c
        BY <1>2, <3>4, <4>1
      <4>3. j = x + 1
        BY <4>1
      <4>. HIDE DEF j, n
      <4>. QED  BY <4>1, <4>2, <4>3
    <3>5. CASE k \div p = i \div p /\ k % p < i % p
      <4>1. i % p # 0
        BY <3>2, <3>5
      <4>. QED  BY <1>2, <1>4, <3>2, <3>5, <4>1
    <3>. QED  BY <3>3, <3>4, <3>5
  <2>. HIDE DEF j
  <2>4. /\ Content(b) = BlockContent(mdw, j) /\ word = tell + b.at
        /\ b \in Range(v.table)
    BY <1>2, <1>3, <1>4, <2>3 DEF Range
  <2>. HIDE DEF b, word
  <2>5. \E x \in disk' : x.kind = "block" /\ x.pos = word /\ x.what = b
    BY <1>1, <1>5, <2>4
  <2>6. \E x \in disk' : /\ x.kind = "word" /\ x.what = word
                         /\ x.pos = start + IndexSize * (k \div p)
    <3>1. j - 1 = k \div p
      BY <2>3 DEF j
    <3>. QED  BY <1>1, <1>6, <2>3, <3>1 DEF word
  <2>7. super'[t] = start
    BY <1>11, <1>16
  <2>. QED
    <3>1. PICK w, a : w = word /\ a = b
      OBVIOUS
    <3>2. a \in Found("block", w)'
      BY <2>5, <3>1 DEF Found
    <3>3. w \in Found("word", super[t] + IndexSize * (k \div PerBlock(t)))'
      BY <1>16, <2>6, <2>7, <3>1 DEF Found, p
    <3>4. entries'[t][k + 1] = EntryIn(Content(a), t, k)
      BY <1>1, <2>2, <2>4, <3>1
    <3>. QED  BY <3>2, <3>3, <3>4 DEF HasEntry
<1>17. TablesWritten'
  <2>1. /\ super'["inode"] = super["inode"] /\ super'["directory"] = super["directory"]
        /\ table = "id" => super'["fragment"] = super["fragment"]
    BY <1>1, <1>11 DEF Names, Indexed
  <2>2. /\ HasBlocks(inode_writer, super["inode"])'
        /\ HasBlocks(dentry_writer, super["directory"])'
        /\ table = "id" => HasEntries("fragment")'
    BY <1>1, <2>1, TablesStay DEF Indexed
  <2>3. CASE table = "fragment"
    <3>1. HasEntries("fragment")'
      BY <1>1, <1>16, <2>3
    <3>. QED  BY <1>1, <2>2, <2>3, <3>1 DEF TablesWritten
  <2>4. CASE table = "id"
    <3>1. HasEntries("id")'
      BY <1>1, <1>16, <2>4
    <3>. QED  BY <2>2, <2>4, <3>1 DEF TablesWritten
  <2>. QED  BY <1>1, <2>3, <2>4
<1>. QED  BY <1>9, <1>12, <1>13, <1>14, <1>15, <1>17

(* A step that changes nothing.                                            *)
LEMMA StutterInvariant == IInv /\ UNCHANGED vars => IInv'
<1>. SUFFICES ASSUME IInv, UNCHANGED vars PROVE IInv'
  OBVIOUS
<1>. USE DEF IInv
<1>1. /\ entries' = entries /\ inode_writer' = inode_writer
      /\ dentry_writer' = dentry_writer /\ super' = super /\ pc' = pc
      /\ table' = table /\ mdw' = mdw /\ indices' = indices /\ i' = i
      /\ rest' = rest /\ disk' = disk /\ tell' = tell /\ length' = length
  BY DEF vars
<1>2. TypeOK' /\ Placed' /\ WritersClosed' /\ NothingOverlaps'
  BY <1>1 DEF TypeOK, Placed, WritersClosed, NothingOverlaps
<1>3. TablesWritten'
  BY <1>1, TablesStay DEF TablesWritten
<1>4. Entering'
  BY <1>1 DEF Entering, Whole, Count, Contiguous, BlockStart, BlockContent
<1>. QED  BY <1>2, <1>3, <1>4

LEMMA NextInvariant == IInv /\ [Next]_vars => IInv'
BY CloseTablesInvariant, WriteTableInvariant, BeginIndexedInvariant,
   PutEntryInvariant, PutChunkInvariant, EndIndexedInvariant,
   BytesUsedInvariant, WriteHeaderInvariant, StutterInvariant
   DEF Next, Terminated

(* The inductive invariant of the end of the image. It knows where each    *)
(* entry is while its table is still being made.                           *)
THEOREM TablesInvariant == Spec => []IInv
BY InitInvariant, NextInvariant, PTL DEF Spec

(* Every entry of the fragment and the id table is where the index behind  *)
(* its table says, and the inode and the directory table are where their   *)
(* addresses count from (write_tables, sqsh_writer_write_indexed_table).   *)
THEOREM ImageReadable == Spec => []TablesReadable
<1>1. IInv => TablesReadable
  BY DEF IInv, TypeOK, TablesWritten, TablesReadable, Indexed
<1>. QED  BY <1>1, TablesInvariant, PTL

(* No two things in the image share a byte, and the padding ends it at a   *)
(* whole page (TELL_WR, write_header).                                     *)
THEOREM ImageDisjoint == Spec => []NothingOverlaps
<1>1. IInv => NothingOverlaps
  BY DEF IInv
<1>. QED  BY <1>1, TablesInvariant, PTL
=============================================================================
