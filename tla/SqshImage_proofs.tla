-------------------------- MODULE SqshImage_proofs --------------------------
(***************************************************************************)
(* For every archive, codec, block size, queue capacity and schedule: a    *)
(* run that succeeds has made the image of the sequential construction.    *)
(***************************************************************************)
EXTENDS SqshWriter_proofs

-----------------------------------------------------------------------------
(* The sequential construction: what it is made of.                        *)
Sequentials == [bytes : Seq(Byte), reports : Seq(Report), fragments : Seq(Entry),
                indices : Seq(Place), current : Block, kept : Seq(Nat),
                small : SUBSET [file : Nat, checksum : Checksums]]

Within(entries, n) ==
  \A k \in DOMAIN entries : 0 <= entries[k].start /\ EndOf(entries[k]) <= n

\* What there is of it after n files.
Sequential(s, n) ==
  /\ s \in Sequentials
  /\ Len(s.reports) = n /\ Len(s.indices) = n
  /\ Within(s.reports, Len(s.bytes)) /\ Within(s.fragments, Len(s.bytes))
  /\ \A k \in DOMAIN s.kept : s.kept[k] \in 1 .. n
  /\ \A x \in s.small : x.file \in 1 .. n

LEMMA SequentialFields ==
  ASSUME NEW s
  PROVE  s \in Sequentials <=>
           /\ s = [bytes |-> s.bytes, reports |-> s.reports,
                   fragments |-> s.fragments, indices |-> s.indices,
                   current |-> s.current, kept |-> s.kept, small |-> s.small]
           /\ s.bytes \in Seq(Byte) /\ s.reports \in Seq(Report)
           /\ s.fragments \in Seq(Entry) /\ s.indices \in Seq(Place)
           /\ s.current \in Block /\ s.kept \in Seq(Nat)
           /\ s.small \in SUBSET [file : Nat, checksum : Checksums]
BY DEF Sequentials

\* With the lengths and domains.
LEMMA SequentialIs ==
  ASSUME NEW s, NEW n \in Nat, Sequential(s, n)
  PROVE  /\ s = [bytes |-> s.bytes, reports |-> s.reports,
                 fragments |-> s.fragments, indices |-> s.indices,
                 current |-> s.current, kept |-> s.kept, small |-> s.small]
         /\ s.bytes \in Seq(Byte) /\ s.reports \in Seq(Report)
         /\ s.fragments \in Seq(Entry) /\ s.indices \in Seq(Place)
         /\ s.current \in Block /\ s.kept \in Seq(Nat)
         /\ s.small \in SUBSET [file : Nat, checksum : Checksums]
         /\ Len(s.bytes) \in Nat /\ Len(s.fragments) \in Nat /\ Len(s.current) \in Nat
         /\ Len(s.reports) = n /\ Len(s.indices) = n
         /\ DOMAIN s.reports = 1 .. n /\ DOMAIN s.indices = 1 .. n
         /\ DOMAIN s.fragments = 1 .. Len(s.fragments)
         /\ s.current \in Seq(Byte)
<1>1. s \in Sequentials /\ Len(s.reports) = n /\ Len(s.indices) = n
  BY DEF Sequential
<1>2. /\ s = [bytes |-> s.bytes, reports |-> s.reports,
              fragments |-> s.fragments, indices |-> s.indices,
              current |-> s.current, kept |-> s.kept, small |-> s.small]
      /\ s.bytes \in Seq(Byte) /\ s.reports \in Seq(Report)
      /\ s.fragments \in Seq(Entry) /\ s.indices \in Seq(Place)
      /\ s.current \in Block /\ s.kept \in Seq(Nat)
      /\ s.small \in SUBSET [file : Nat, checksum : Checksums]
  BY <1>1, SequentialFields
<1>3. /\ Len(s.bytes) \in Nat /\ Len(s.fragments) \in Nat
      /\ DOMAIN s.reports = 1 .. n /\ DOMAIN s.indices = 1 .. n
      /\ DOMAIN s.fragments = 1 .. Len(s.fragments)
  BY <1>1, <1>2, LenProperties
<1>4. s.current \in Seq(Byte)
  BY <1>2, BlockIsSeq
<1>5. Len(s.current) \in Nat
  BY <1>4, LenProperties
<1>. QED  BY <1>1, <1>2, <1>3, <1>4, <1>5

LEMMA EntriesEnd ==
  /\ \A e \in Entry : e.start \in Int /\ e.len \in Nat /\ EndOf(e) = e.start + e.len
  /\ \A r \in Report : r.start \in Int /\ r.len \in Nat /\ EndOf(r) = r.start + r.len
BY DEF Entry, Report, EndOf

LEMMA EndsAreNumbers ==
  (\A e \in Entry : EndOf(e) \in Int) /\ (\A r \in Report : EndOf(r) \in Int)
BY DEF Entry, Report, EndOf

LEMMA WithinAppend ==
  ASSUME NEW S, \A x \in S : EndOf(x) \in Int, NEW entries \in Seq(S), NEW e \in S,
         NEW n \in Nat, NEW m \in Nat, n <= m, Within(entries, n),
         0 <= e.start, EndOf(e) <= m
  PROVE  Within(Append(entries, e), m)
<1>1. /\ Len(entries) \in Nat /\ DOMAIN entries = 1 .. Len(entries)
      /\ \A k \in DOMAIN entries : entries[k] \in S
  BY LenProperties, ElementOfSeq
<1>2. /\ DOMAIN Append(entries, e) = 1 .. Len(entries) + 1
      /\ \A k \in 1 .. Len(entries) : Append(entries, e)[k] = entries[k]
      /\ Append(entries, e)[Len(entries) + 1] = e
  BY <1>1, AppendProperties, LenProperties
<1>. SUFFICES ASSUME NEW k \in 1 .. Len(entries) + 1
              PROVE  0 <= Append(entries, e)[k].start /\ EndOf(Append(entries, e)[k]) <= m
  BY <1>2 DEF Within
<1>3. CASE k \in 1 .. Len(entries)
  <2>1. 0 <= entries[k].start /\ EndOf(entries[k]) <= n /\ EndOf(entries[k]) \in Int
    BY <1>1, <1>3 DEF Within
  <2>. QED  BY <1>2, <1>3, <2>1
<1>4. CASE k \notin 1 .. Len(entries)
  <2>1. k = Len(entries) + 1
    BY <1>1, <1>4
  <2>. QED  BY <1>2, <2>1
<1>. QED  BY <1>3, <1>4

LEMMA WithinMore ==
  ASSUME NEW S, \A x \in S : EndOf(x) \in Int, NEW entries \in Seq(S),
         NEW n \in Nat, NEW m \in Nat, n <= m, Within(entries, n)
  PROVE  Within(entries, m)
<1>. SUFFICES ASSUME NEW k \in DOMAIN entries
              PROVE  0 <= entries[k].start /\ EndOf(entries[k]) <= m
  BY DEF Within
<1>1. entries[k] \in S
  BY LenProperties, ElementOfSeq
<1>2. 0 <= entries[k].start /\ EndOf(entries[k]) <= n
  BY DEF Within
<1>. QED  BY <1>1, <1>2

LEMMA NoReportType ==
  /\ NoReport \in Report /\ NoReport.start = 0 /\ EndOf(NoReport) = 0
  /\ NoReport.sizes = <<>> /\ NoReport.len = 0
  /\ NoFragment \in Place
BY EmptySeq DEF NoReport, Report, EndOf, NoFragment, Place

-----------------------------------------------------------------------------
(* The blocks of a file.                                                   *)

LEMMA BlockOfType ==
  ASSUME NEW c \in Seq(Byte), NEW k \in Nat \ {0}
  PROVE  BlockOf(c, k) \in Block
<1>1. BlockSize \in Nat /\ BlockSize >= 1
  BY BlockSizeAssumption
<1>2. PICK l \in Nat : l = Len(c)
  BY LenProperties
<1>3. PICK a \in Nat : a = (k - 1) * BlockSize /\ k * BlockSize = a + BlockSize
  <2>1. k - 1 \in Nat /\ (k - 1) * BlockSize \in Nat
        /\ k * BlockSize = (k - 1) * BlockSize + BlockSize
    BY <1>1
  <2>. QED  BY <2>1
<1>4. PICK g \in Nat : g = a + BlockSize
  BY <1>1
<1>5. PICK b \in Nat : /\ b = Min({g, l}) /\ b <= g /\ b <= l
  <2>1. Min({g, l}) = IF g <= l THEN g ELSE l
    BY MinOfTwo
  <2>. QED  BY <2>1
<1>6. /\ SubSeq(c, a + 1, b) \in Seq(Byte)
      /\ Len(SubSeq(c, a + 1, b)) = IF a <= b THEN b - a ELSE 0
  <2>1. b <= Len(c)
    BY <1>2, <1>5
  <2>. QED  BY <2>1, RangeProperties
<1>7. Len(SubSeq(c, a + 1, b)) <= BlockSize
  BY <1>1, <1>4, <1>5, <1>6
<1>8. SubSeq(c, a + 1, b) \in Block
  BY <1>6, <1>7, BlockIsSeq
<1>. QED  BY <1>2, <1>3, <1>4, <1>5, <1>8 DEF BlockOf

LEMMA StoredType ==
  ASSUME NEW c \in Seq(Byte)
  PROVE  \A n \in Nat : StoredBlocks(c, n) \in Seq(Byte) /\ Len(StoredBlocks(c, n)) \in Nat
<1>. DEFINE T == {n \in Nat : StoredBlocks(c, n) \notin Seq(Byte)}
<1>1. SUFFICES ASSUME T # {} PROVE FALSE
  BY LenProperties
<1>2. PICK k \in T : \A h \in T : k <= h
  <2>1. T \subseteq Nat
    OBVIOUS
  <2>. HIDE DEF T
  <2>. QED  BY <1>1, <2>1, LeastNumber
<1>3. k \in Nat /\ StoredBlocks(c, k) \notin Seq(Byte)
  BY <1>2
<1>4. k # 0
  <2>1. StoredBlocks(c, 0) = <<>>
    BY StoredNext
  <2>. QED  BY <1>3, <2>1, EmptySeq
<1>5. PICK h : h = k - 1
  OBVIOUS
<1>6. h \in Nat /\ k = h + 1 /\ ~(k <= h) /\ h + 1 \in Nat \ {0}
  BY <1>3, <1>4, <1>5
<1>7. StoredBlocks(c, h) \in Seq(Byte)
  BY <1>2, <1>6
<1>8. StoredBlocks(c, h + 1) = StoredBlocks(c, h) \o Compress(BlockOf(c, h + 1)).bytes
  BY <1>6, StoredNext
<1>9. Compress(BlockOf(c, h + 1)).bytes \in Seq(Byte)
  BY <1>6, BlockOfType, CompressType
<1>10. PICK a, b : a = StoredBlocks(c, h) /\ b = Compress(BlockOf(c, h + 1)).bytes
  OBVIOUS
<1>11. a \in Seq(Byte) /\ b \in Seq(Byte)
  BY ONLY <1>7, <1>9, <1>10
<1>12. a \o b \in Seq(Byte)
  BY ONLY <1>11, ConcatProperties
<1>13. StoredBlocks(c, k) = a \o b
  BY ONLY <1>6, <1>8, <1>10
<1>. QED  BY ONLY <1>3, <1>12, <1>13

LEMMA BytesAssociative ==
  \A a, b, c \in Seq(Byte) : (a \o b) \o c = a \o (b \o c)
BY ConcatAssociative

\* The report of the first n blocks.
LEMMA BlocksReportType ==
  ASSUME NEW c \in Seq(Byte), NEW n \in Nat, NEW start \in Nat
  PROVE  /\ BlocksReport(start, c, n) \in Report
         /\ BlocksReport(start, c, n).start = start
         /\ BlocksReport(start, c, n).len = Len(StoredBlocks(c, n))
         /\ EndOf(BlocksReport(start, c, n)) = start + Len(StoredBlocks(c, n))
         /\ Len(BlocksReport(start, c, n).sizes) = n
<1>. DEFINE size(k) == [len |-> Len(Compress(BlockOf(c, k)).bytes),
                        raw |-> Compress(BlockOf(c, k)).raw]
            sizes == [k \in 1 .. n |-> size(k)]
<1>1. ASSUME NEW k \in 1 .. n PROVE size(k) \in Size
  BY BlockOfType, CompressType DEF Size
<1>. HIDE DEF size
<1>2. sizes \in Seq(Size) /\ Len(sizes) = n
  BY <1>1, IsASeq, LenProperties
<1>3. Len(StoredBlocks(c, n)) \in Nat
  BY StoredType
<1>4. PICK r : r = BlocksReport(start, c, n)
  OBVIOUS
<1>5. r = [start |-> start, sizes |-> sizes, len |-> Len(StoredBlocks(c, n))]
  BY <1>4 DEF BlocksReport, size
<1>. HIDE DEF sizes
<1>6. r \in Report
  BY <1>2, <1>3, <1>5 DEF Report
<1>7. r.start = start /\ r.len = Len(StoredBlocks(c, n)) /\ r.sizes = sizes
  BY <1>5
<1>. QED  BY <1>2, <1>4, <1>6, <1>7 DEF EndOf

\* With one block more.
LEMMA BlocksReportNext ==
  ASSUME NEW c \in Seq(Byte), NEW n \in Nat, NEW start \in Nat,
         NEW at \in Nat, n = 0 => at = start
  PROVE  BlocksReport(start, c, n + 1)
           = WithBlock(IF n = 0 THEN NoReport ELSE BlocksReport(start, c, n),
                       at, BlockOf(c, n + 1))
<1>. DEFINE size(k) == [len |-> Len(Compress(BlockOf(c, k)).bytes),
                        raw |-> Compress(BlockOf(c, k)).raw]
            sizes == [k \in 1 .. n |-> size(k)]
            more == [k \in 1 .. n + 1 |-> size(k)]
<1>1. ASSUME NEW k \in 1 .. n + 1 PROVE size(k) \in Size
  BY BlockOfType, CompressType DEF Size
<1>2. n + 1 \in 1 .. n + 1 /\ n + 1 \in Nat /\ 1 .. n \subseteq 1 .. n + 1
  OBVIOUS
<1>3. PICK z : z = size(n + 1)
  OBVIOUS
<1>4. z = [len |-> Len(Compress(BlockOf(c, n + 1)).bytes),
           raw |-> Compress(BlockOf(c, n + 1)).raw]
  BY <1>3
<1>. HIDE DEF size
<1>5. sizes \in Seq(Size) /\ Len(sizes) = n /\ more \in Seq(Size) /\ Len(more) = n + 1
  BY <1>1, <1>2, IsASeq, LenProperties
<1>6. more = Append(sizes, z)
  <2>1. /\ Append(sizes, z) \in Seq(Size) /\ Len(Append(sizes, z)) = n + 1
        /\ \A k \in 1 .. n : Append(sizes, z)[k] = sizes[k]
        /\ Append(sizes, z)[n + 1] = z
    BY <1>1, <1>2, <1>3, <1>5, AppendProperties
  <2>2. ASSUME NEW k \in 1 .. n + 1 PROVE more[k] = Append(sizes, z)[k]
    <3>1. CASE k \in 1 .. n
      BY <2>1, <3>1
    <3>2. CASE k \notin 1 .. n
      <4>1. k = n + 1
        BY <3>2
      <4>. QED  BY <1>3, <2>1, <4>1
    <3>. QED  BY <3>1, <3>2
  <2>. HIDE DEF more, sizes
  <2>. QED  BY <1>5, <2>1, <2>2, SeqEqual
<1>7. /\ BlocksReport(start, c, n + 1) = [start |-> start, sizes |-> more,
                                          len |-> Len(StoredBlocks(c, n + 1))]
      /\ BlocksReport(start, c, n) = [start |-> start, sizes |-> sizes,
                                      len |-> Len(StoredBlocks(c, n))]
  BY DEF BlocksReport, size
<1>. HIDE DEF more, sizes
<1>8. /\ StoredBlocks(c, n + 1) = StoredBlocks(c, n) \o Compress(BlockOf(c, n + 1)).bytes
      /\ StoredBlocks(c, n) \in Seq(Byte)
      /\ Compress(BlockOf(c, n + 1)).bytes \in Seq(Byte)
  <2>1. n + 1 \in Nat \ {0}
    OBVIOUS
  <2>2. Compress(BlockOf(c, n + 1)).bytes \in Seq(Byte)
    BY <2>1, BlockOfType, CompressType
  <2>3. StoredBlocks(c, n) \in Seq(Byte)
    BY StoredType
  <2>4. StoredBlocks(c, n + 1) = StoredBlocks(c, n) \o Compress(BlockOf(c, n + 1)).bytes
    BY StoredNext
  <2>. QED  BY <2>2, <2>3, <2>4
<1>9. Len(StoredBlocks(c, n + 1))
        = Len(StoredBlocks(c, n)) + Len(Compress(BlockOf(c, n + 1)).bytes)
  BY <1>8, ConcatProperties
<1>10. PICK r : r = IF n = 0 THEN NoReport ELSE BlocksReport(start, c, n)
  OBVIOUS
<1>11. r.sizes = sizes /\ r.len = Len(StoredBlocks(c, n))
       /\ (IF r.sizes = <<>> THEN at ELSE r.start) = start
  <2>1. CASE n = 0
    <3>1. sizes = <<>>
      BY <1>5, <2>1, EmptySeq
    <3>2. Len(StoredBlocks(c, n)) = 0
      BY <2>1, StoredNext, EmptySeq
    <3>3. r.sizes = <<>> /\ r.len = 0
      BY <1>10, <2>1, NoReportType
    <3>. QED  BY <2>1, <3>1, <3>2, <3>3
  <2>2. CASE n # 0
    <3>1. sizes # <<>>
      BY <1>5, <2>2, EmptySeq
    <3>2. r = [start |-> start, sizes |-> sizes, len |-> Len(StoredBlocks(c, n))]
      BY <1>7, <1>10, <2>2
    <3>. QED  BY <3>1, <3>2
  <2>. QED  BY <2>1, <2>2
<1>12. WithBlock(r, at, BlockOf(c, n + 1))
         = [start |-> start, sizes |-> more, len |-> Len(StoredBlocks(c, n + 1))]
  BY <1>4, <1>6, <1>9, <1>11 DEF WithBlock
<1>. QED  BY <1>7, <1>10, <1>12

LEMMA BlockCountIs ==
  ASSUME NEW c \in Seq(Byte)
  PROVE  /\ BlockCount(c) \in Nat
         /\ \A n \in Nat \ {0} :
              (n - 1) * BlockSize < Len(c) /\ Len(c) <= n * BlockSize
                => BlockCount(c) = n
<1>1. PICK b \in Nat : b = BlockSize /\ b >= 1
  BY BlockSizeAssumption
<1>2. PICK l \in Nat : l = Len(c)
  BY LenProperties
<1>3. BlockCount(c) = (l + b - 1) \div b
  BY <1>1, <1>2 DEF BlockCount
<1>4. (l + b - 1) \div b \in Nat
  BY <1>1
<1>5. ASSUME NEW n \in Nat, n >= 1, (n - 1) * b < l, l <= n * b
      PROVE  (l + b - 1) \div b = n
  BY <1>1, <1>5
<1>6. ASSUME NEW n \in Nat \ {0}, (n - 1) * BlockSize < Len(c), Len(c) <= n * BlockSize
      PROVE  BlockCount(c) = n
  BY <1>1, <1>2, <1>3, <1>5, <1>6
<1>. QED  BY <1>3, <1>4, <1>6

-----------------------------------------------------------------------------
(* One file more.                                                          *)

LEMMA GreatestIs ==
  ASSUME NEW n \in Nat, NEW T, T \subseteq 1 .. n, T # {}
  PROVE  Max(T) \in T /\ \A h \in T : h <= Max(T)
<1>. DEFINE U == {m \in 0 .. n : n - m \in T}
<1>1. U \subseteq Nat /\ U # {}
  <2>1. PICK h \in T : TRUE
    OBVIOUS
  <2>2. PICK m : m = n - h
    OBVIOUS
  <2>3. m \in 0 .. n /\ n - m = h
    BY <2>1, <2>2
  <2>4. m \in U
    BY <2>1, <2>3
  <2>5. U \subseteq Nat
    OBVIOUS
  <2>. HIDE DEF U
  <2>. QED  BY <2>4, <2>5
<1>2. PICK k \in U : \A m \in U : k <= m
  <2>. HIDE DEF U
  <2>. QED  BY <1>1, LeastNumber
<1>3. PICK g : g = n - k
  OBVIOUS
<1>4. g \in T /\ k \in 0 .. n
  BY <1>2, <1>3
<1>5. ASSUME NEW h \in T PROVE g >= h
  <2>1. n - h \in 0 .. n /\ n - (n - h) = h
    OBVIOUS
  <2>2. n - h \in U
    BY <2>1
  <2>3. k <= n - h
    BY <1>2, <2>2
  <2>. QED  BY <1>3, <1>4, <2>3
<1>. HIDE DEF U
<1>6. \E x \in T : \A y \in T : x >= y
  BY <1>4, <1>5
<1>7. Max(T) \in T /\ \A y \in T : Max(T) >= y
  BY <1>6 DEF Max
<1>. QED  BY <1>7

LEMMA SequentialExtended ==
  ASSUME NEW s, NEW n \in Nat, Sequential(s, n), NEW bytes \in Seq(Byte),
         Len(s.bytes) <= Len(bytes), NEW r \in Report, 0 <= r.start,
         EndOf(r) <= Len(bytes), NEW p \in Place, NEW current \in Block,
         NEW kept, kept = s.kept \/ kept = Append(s.kept, n + 1),
         NEW small, NEW x \in Checksums,
         small = s.small \/ small = s.small \cup {[file |-> n + 1, checksum |-> x]},
         NEW u, u = [bytes |-> bytes, reports |-> Append(s.reports, r),
                     fragments |-> s.fragments, indices |-> Append(s.indices, p),
                     current |-> current, kept |-> kept, small |-> small]
  PROVE  Sequential(u, n + 1)
<1>1. /\ s.reports \in Seq(Report) /\ s.fragments \in Seq(Entry)
      /\ s.indices \in Seq(Place) /\ s.kept \in Seq(Nat)
      /\ s.small \in SUBSET [file : Nat, checksum : Checksums]
      /\ Len(s.bytes) \in Nat /\ Len(s.reports) = n /\ Len(s.indices) = n
  BY SequentialIs
<1>2. Len(bytes) \in Nat
  BY LenProperties
<1>3. /\ u.bytes = bytes /\ u.reports = Append(s.reports, r)
      /\ u.fragments = s.fragments /\ u.indices = Append(s.indices, p)
      /\ u.current = current /\ u.kept = kept /\ u.small = small
  OBVIOUS
<1>4. /\ Append(s.reports, r) \in Seq(Report) /\ Len(Append(s.reports, r)) = n + 1
      /\ Append(s.indices, p) \in Seq(Place) /\ Len(Append(s.indices, p)) = n + 1
  BY <1>1, AppendProperties
<1>5. kept \in Seq(Nat) /\ \A k \in DOMAIN kept : kept[k] \in 1 .. n + 1
  <2>1. \A k \in DOMAIN s.kept : s.kept[k] \in 1 .. n
    BY DEF Sequential
  <2>2. CASE kept = s.kept
    BY <1>1, <2>1, <2>2
  <2>3. CASE kept = Append(s.kept, n + 1)
    <3>1. /\ kept \in Seq(Nat) /\ Len(kept) = Len(s.kept) + 1
          /\ \A k \in 1 .. Len(s.kept) : kept[k] = s.kept[k]
          /\ kept[Len(s.kept) + 1] = n + 1
      BY <1>1, <2>3, AppendProperties
    <3>2. /\ DOMAIN kept = 1 .. Len(s.kept) + 1 /\ Len(s.kept) \in Nat
          /\ DOMAIN s.kept = 1 .. Len(s.kept)
      <4>1. s.kept \in Seq(Nat)
        BY ONLY <1>1
      <4>2. Len(s.kept) \in Nat /\ DOMAIN s.kept = 1 .. Len(s.kept)
        BY ONLY <4>1, LenProperties
      <4>3. DOMAIN kept = 1 .. Len(kept)
        BY ONLY <3>1, LenProperties
      <4>. QED  BY ONLY <3>1, <4>2, <4>3
    <3>3. ASSUME NEW k \in DOMAIN kept PROVE kept[k] \in 1 .. n + 1
      <4>1. CASE k \in 1 .. Len(s.kept)
        <5>1. s.kept[k] \in 1 .. n
          BY ONLY <2>1, <3>2, <4>1
        <5>2. kept[k] = s.kept[k]
          BY ONLY <3>1, <4>1
        <5>. QED  BY ONLY <5>1, <5>2, n \in Nat
      <4>2. CASE k \notin 1 .. Len(s.kept)
        <5>1. k = Len(s.kept) + 1
          BY <3>2, <4>2
        <5>. QED  BY <3>1, <5>1
      <4>. QED  BY <4>1, <4>2
    <3>. QED  BY <3>1, <3>3
  <2>. QED  BY <2>2, <2>3
<1>6. /\ small \in SUBSET [file : Nat, checksum : Checksums]
      /\ \A y \in small : y.file \in 1 .. n + 1
  <2>1. \A y \in s.small : y.file \in 1 .. n
    BY DEF Sequential
  <2>2. PICK z : z = [file |-> n + 1, checksum |-> x]
    OBVIOUS
  <2>3. z \in [file : Nat, checksum : Checksums] /\ z.file = n + 1
    BY <2>2
  <2>. QED  BY <1>1, <2>1, <2>2, <2>3
<1>7. Within(u.reports, Len(u.bytes))
  <2>1. Within(s.reports, Len(s.bytes)) /\ \A e \in Report : EndOf(e) \in Int
    BY EndsAreNumbers DEF Sequential
  <2>2. Within(Append(s.reports, r), Len(bytes))
    BY <1>1, <1>2, <2>1, WithinAppend
  <2>. QED  BY <1>3, <2>2
<1>8. Within(u.fragments, Len(u.bytes))
  <2>1. Within(s.fragments, Len(s.bytes)) /\ \A e \in Entry : EndOf(e) \in Int
    BY EndsAreNumbers DEF Sequential
  <2>2. Within(s.fragments, Len(bytes))
    BY <1>1, <1>2, <2>1, WithinMore
  <2>. QED  BY <1>3, <2>2
<1>9. u \in Sequentials
  BY <1>1, <1>3, <1>4, <1>5, <1>6, SequentialFields
<1>. QED  BY <1>3, <1>4, <1>5, <1>6, <1>7, <1>8, <1>9 DEF Sequential

LEMMA CloseFragmentIs ==
  ASSUME NEW s, NEW n \in Nat, Sequential(s, n), NEW t, t = CloseFragment(s)
  PROVE  /\ Sequential(t, n)
         /\ t.reports = s.reports /\ t.indices = s.indices /\ t.kept = s.kept
         /\ t.small = s.small /\ t.current = <<>>
         /\ s.current = <<>> => t = s
         /\ s.current # <<>> =>
              /\ t.bytes = s.bytes \o Compress(s.current).bytes
              /\ t.fragments = Append(s.fragments,
                                      [start |-> Len(s.bytes),
                                       len |-> Len(Compress(s.current).bytes),
                                       raw |-> Compress(s.current).raw])
              /\ Len(t.fragments) = Len(s.fragments) + 1
<1>1. CASE s.current = <<>>
  BY <1>1, SequentialIs DEF CloseFragment
<1>2. CASE s.current # <<>>
  <2>. DEFINE c == Compress(s.current)
              e == [start |-> Len(s.bytes), len |-> Len(c.bytes), raw |-> c.raw]
  <2>1. /\ s = [bytes |-> s.bytes, reports |-> s.reports,
                fragments |-> s.fragments, indices |-> s.indices,
                current |-> s.current, kept |-> s.kept, small |-> s.small]
        /\ s.bytes \in Seq(Byte) /\ s.reports \in Seq(Report)
        /\ s.fragments \in Seq(Entry) /\ s.indices \in Seq(Place)
        /\ s.current \in Block /\ s.kept \in Seq(Nat)
        /\ s.small \in SUBSET [file : Nat, checksum : Checksums]
        /\ Len(s.bytes) \in Nat /\ Len(s.fragments) \in Nat
        /\ Len(s.reports) = n /\ Len(s.indices) = n
    BY SequentialIs
  <2>2. c.bytes \in Seq(Byte) /\ c.raw \in BOOLEAN /\ Len(c.bytes) \in Nat
    BY <2>1, CompressType
  <2>3. t = [s EXCEPT !.bytes = s.bytes \o c.bytes,
                      !.fragments = Append(s.fragments, e), !.current = <<>>]
    BY <1>2 DEF CloseFragment
  <2>. HIDE DEF c
  <2>4. /\ e \in Entry /\ 0 <= e.start
        /\ EndOf(e) = Len(s.bytes) + Len(c.bytes)
    BY <2>1, <2>2 DEF Entry, EndOf
  <2>. HIDE DEF e
  <2>5. t = [bytes |-> s.bytes \o c.bytes, reports |-> s.reports,
             fragments |-> Append(s.fragments, e), indices |-> s.indices,
             current |-> <<>>, kept |-> s.kept, small |-> s.small]
    BY <2>1, <2>3
  <2>6. /\ t.bytes = s.bytes \o c.bytes /\ t.reports = s.reports
        /\ t.fragments = Append(s.fragments, e) /\ t.indices = s.indices
        /\ t.current = <<>> /\ t.kept = s.kept /\ t.small = s.small
    <3>1. PICK b : b = s.bytes \o c.bytes
      OBVIOUS
    <3>2. PICK fs : fs = Append(s.fragments, e)
      OBVIOUS
    <3>3. PICK u : u = t
      OBVIOUS
    <3>4. u = [bytes |-> b, reports |-> s.reports, fragments |-> fs,
               indices |-> s.indices, current |-> <<>>, kept |-> s.kept,
               small |-> s.small]
      BY <2>5, <3>1, <3>2, <3>3
    <3>5. /\ u.bytes = b /\ u.reports = s.reports /\ u.fragments = fs
          /\ u.indices = s.indices /\ u.current = <<>> /\ u.kept = s.kept
          /\ u.small = s.small
      BY ONLY <3>4
    <3>. QED  BY <3>1, <3>2, <3>3, <3>5
  <2>7. /\ s.bytes \o c.bytes \in Seq(Byte)
        /\ Len(s.bytes \o c.bytes) = Len(s.bytes) + Len(c.bytes)
        /\ Append(s.fragments, e) \in Seq(Entry)
        /\ Len(Append(s.fragments, e)) = Len(s.fragments) + 1
    BY <2>1, <2>2, <2>4, ConcatProperties, AppendProperties
  <2>8. PICK m \in Nat : m = Len(s.bytes) + Len(c.bytes) /\ Len(s.bytes) <= m
                         /\ m = Len(t.bytes)
    BY <2>1, <2>2, <2>6, <2>7
  <2>9. Within(t.reports, m)
    <3>1. Within(s.reports, Len(s.bytes)) /\ \A x \in Report : EndOf(x) \in Int
      BY EndsAreNumbers DEF Sequential
    <3>2. Within(s.reports, m)
      BY <2>1, <2>8, <3>1, WithinMore
    <3>. QED  BY <2>6, <3>2
  <2>10. Within(t.fragments, m)
    <3>1. Within(s.fragments, Len(s.bytes)) /\ \A x \in Entry : EndOf(x) \in Int
      BY EndsAreNumbers DEF Sequential
    <3>2. /\ 0 <= e.start /\ EndOf(e) <= m /\ e \in Entry
          /\ s.fragments \in Seq(Entry) /\ Len(s.bytes) \in Nat /\ Len(s.bytes) <= m
      BY <2>1, <2>4, <2>8
    <3>3. Within(Append(s.fragments, e), m)
      BY <3>1, <3>2, WithinAppend
    <3>. QED  BY <2>6, <3>3
  <2>11. t \in Sequentials
    BY <2>1, <2>5, <2>6, <2>7, EmptyBlock, SequentialFields
  <2>12. Sequential(t, n)
    <3>1. /\ \A k \in DOMAIN s.kept : s.kept[k] \in 1 .. n
          /\ \A x \in s.small : x.file \in 1 .. n
      BY DEF Sequential
    <3>. QED  BY <2>1, <2>6, <2>8, <2>9, <2>10, <2>11, <3>1 DEF Sequential
  <2>. QED  BY <1>2, <2>6, <2>7, <2>12 DEF c, e
<1>. QED  BY <1>1, <1>2

LEMMA AddEmptyIs ==
  ASSUME NEW s, NEW n \in Nat, Sequential(s, n), NEW u, u = AddEmpty(s)
  PROVE  /\ Sequential(u, n + 1)
         /\ u.bytes = s.bytes /\ u.fragments = s.fragments /\ u.current = s.current
         /\ u.kept = s.kept /\ u.small = s.small
         /\ u.reports = Append(s.reports, NoReport)
         /\ u.indices = Append(s.indices, NoFragment)
<1>1. /\ s = [bytes |-> s.bytes, reports |-> s.reports,
              fragments |-> s.fragments, indices |-> s.indices,
              current |-> s.current, kept |-> s.kept, small |-> s.small]
      /\ s.bytes \in Seq(Byte) /\ s.current \in Block /\ Len(s.bytes) \in Nat
  BY SequentialIs
<1>2. u = [bytes |-> s.bytes, reports |-> Append(s.reports, NoReport),
           fragments |-> s.fragments, indices |-> Append(s.indices, NoFragment),
           current |-> s.current, kept |-> s.kept, small |-> s.small]
  BY <1>1 DEF AddEmpty
<1>3. PICK x : x \in Checksums
  BY EmptyBlock, ChecksumAssumption
<1>4. Sequential(u, n + 1)
  <2>1. NoReport \in Report /\ 0 <= NoReport.start /\ EndOf(NoReport) <= Len(s.bytes)
        /\ NoFragment \in Place /\ Len(s.bytes) <= Len(s.bytes)
    BY <1>1, NoReportType
  <2>. QED  BY <1>1, <1>2, <1>3, <2>1, SequentialExtended
<1>5. /\ u.bytes = s.bytes /\ u.fragments = s.fragments /\ u.current = s.current
      /\ u.kept = s.kept /\ u.small = s.small
      /\ u.reports = Append(s.reports, NoReport)
      /\ u.indices = Append(s.indices, NoFragment)
  BY <1>2
<1>. QED  BY <1>4, <1>5

\* What a file with blocks would report, and the files that have the same.
OwnBlocks(s, c) == BlocksReport(Len(s.bytes), c, BlockCount(c))
SharedBlocks(s, c) == SameBlocks(s, OwnBlocks(s, c), StoredBlocks(c, BlockCount(c)))
Compares == dedup_enabled
Shares(s, c) == Compares /\ SharedBlocks(s, c) # {}

\* What s becomes when file n + 1, which holds c, is cut into blocks.
AddedAs(s, n, c, u) ==
  /\ Sequential(u, n + 1)
  /\ u.fragments = s.fragments /\ u.current = s.current /\ u.small = s.small
  /\ u.indices = Append(s.indices, NoFragment)
  /\ Shares(s, c) =>
         /\ u.bytes = s.bytes /\ u.kept = s.kept
         /\ u.reports = Append(s.reports, s.reports[s.kept[Min(SharedBlocks(s, c))]])
  /\ ~Shares(s, c) =>
         /\ u.bytes = s.bytes \o StoredBlocks(c, BlockCount(c))
         /\ u.kept = Append(s.kept, n + 1)
         /\ u.reports = Append(s.reports, OwnBlocks(s, c))

LEMMA AddedSo ==
  ASSUME NEW s, NEW n \in Nat, Sequential(s, n), NEW c \in Seq(Byte),
         NEW u, u = AddBlocks(s, c, dedup_enabled)
  PROVE  AddedAs(s, n, c, u)
<1>. SUFFICES ASSUME NEW b, b = StoredBlocks(c, BlockCount(c)),
                     NEW own, own = BlocksReport(Len(s.bytes), c, BlockCount(c)),
                     NEW same, same = SameBlocks(s, own, b)
              PROVE  /\ Sequential(u, n + 1)
                     /\ u.fragments = s.fragments /\ u.current = s.current /\ u.small = s.small
                     /\ u.indices = Append(s.indices, NoFragment)
                     /\ dedup_enabled /\ same # {} =>
                          /\ u.bytes = s.bytes /\ u.kept = s.kept
                          /\ u.reports = Append(s.reports, s.reports[s.kept[Min(same)]])
                     /\ ~(dedup_enabled /\ same # {}) =>
                          /\ u.bytes = s.bytes \o b /\ u.kept = Append(s.kept, n + 1)
                          /\ u.reports = Append(s.reports, own)
  BY DEF AddedAs, OwnBlocks, SharedBlocks, Shares, Compares
<1>1. /\ s = [bytes |-> s.bytes, reports |-> s.reports,
              fragments |-> s.fragments, indices |-> s.indices,
              current |-> s.current, kept |-> s.kept, small |-> s.small]
      /\ s.bytes \in Seq(Byte) /\ s.current \in Block /\ Len(s.bytes) \in Nat
      /\ s.reports \in Seq(Report) /\ DOMAIN s.reports = 1 .. n
      /\ Len(s.reports) = n /\ s.kept \in Seq(Nat)
  BY SequentialIs
<1>2. PICK x : x \in Checksums
  BY EmptyBlock, ChecksumAssumption
<1>3. NoFragment \in Place
  BY NoReportType
<1>4. CASE dedup_enabled /\ same # {}
  <2>1. PICK r : r = s.reports[s.kept[Min(same)]]
    OBVIOUS
  <2>2. PICK rs : rs = Append(s.reports, r)
    OBVIOUS
  <2>3. PICK is : is = Append(s.indices, NoFragment)
    OBVIOUS
  <2>4. u = [s EXCEPT !.reports = rs, !.indices = is]
    BY <1>4, <2>1, <2>2, <2>3 DEF AddBlocks
  <2>5. u = [bytes |-> s.bytes, reports |-> rs, fragments |-> s.fragments,
             indices |-> is, current |-> s.current, kept |-> s.kept, small |-> s.small]
    BY <1>1, <2>4
  <2>6. r \in Report /\ 0 <= r.start /\ EndOf(r) <= Len(s.bytes)
    <3>1. /\ same \subseteq DOMAIN s.kept
          /\ \A k \in DOMAIN s.kept : s.kept[k] \in 1 .. n
          /\ Within(s.reports, Len(s.bytes))
      BY DEF SameBlocks, Sequential
    <3>2. same \subseteq Nat
      BY <1>1, <3>1, LenProperties
    <3>3. Min(same) \in same
      BY <1>4, <3>2, LeastIs
    <3>4. s.kept[Min(same)] \in DOMAIN s.reports
      BY <1>1, <3>1, <3>3
    <3>5. r \in Report
      BY <1>1, <2>1, <3>4, ElementOfSeq
    <3>. QED  BY <2>1, <3>1, <3>4, <3>5 DEF Within
  <2>7. Sequential(u, n + 1)
    <3>1. Len(s.bytes) <= Len(s.bytes)
      BY <1>1
    <3>2. u = [bytes |-> s.bytes, reports |-> Append(s.reports, r),
               fragments |-> s.fragments, indices |-> Append(s.indices, NoFragment),
               current |-> s.current, kept |-> s.kept, small |-> s.small]
      BY <2>2, <2>3, <2>5
    <3>. QED  BY <1>1, <1>2, <1>3, <2>6, <3>1, <3>2, SequentialExtended
  <2>8. /\ u.bytes = s.bytes /\ u.reports = rs /\ u.fragments = s.fragments
        /\ u.indices = is /\ u.current = s.current /\ u.kept = s.kept
        /\ u.small = s.small
    BY ONLY <2>5
  <2>. QED  BY <1>4, <2>1, <2>2, <2>3, <2>7, <2>8
<1>5. CASE ~(dedup_enabled /\ same # {})
  <2>1. PICK m \in Nat : m = BlockCount(c)
    BY BlockCountIs
  <2>2. PICK rs : rs = Append(s.reports, own)
    OBVIOUS
  <2>3. PICK is : is = Append(s.indices, NoFragment)
    OBVIOUS
  <2>4. PICK ks : ks = Append(s.kept, n + 1)
    OBVIOUS
  <2>5. PICK bytes : bytes = s.bytes \o b
    OBVIOUS
  <2>6. u = [s EXCEPT !.bytes = bytes, !.reports = rs, !.indices = is, !.kept = ks]
    BY <1>1, <1>5, <2>2, <2>3, <2>4, <2>5 DEF AddBlocks
  <2>7. u = [bytes |-> bytes, reports |-> rs, fragments |-> s.fragments,
             indices |-> is, current |-> s.current, kept |-> ks, small |-> s.small]
    BY <1>1, <2>6
  <2>8. b \in Seq(Byte) /\ Len(b) \in Nat
    BY <2>1, StoredType
  <2>9. bytes \in Seq(Byte) /\ Len(bytes) = Len(s.bytes) + Len(b)
    BY <1>1, <2>5, <2>8, ConcatProperties
  <2>10. /\ own \in Report /\ 0 <= own.start /\ EndOf(own) <= Len(bytes)
    <3>1. PICK start \in Nat : start = Len(s.bytes)
      BY <1>1
    <3>2. own = BlocksReport(start, c, m) /\ b = StoredBlocks(c, m)
      BY <2>1, <3>1
    <3>3. /\ BlocksReport(start, c, m) \in Report
          /\ BlocksReport(start, c, m).start = start
          /\ EndOf(BlocksReport(start, c, m)) = start + Len(StoredBlocks(c, m))
      <4>1. c \in Seq(Byte) /\ m \in Nat /\ start \in Nat
        OBVIOUS
      <4>2. BlocksReport(start, c, m) \in Report
        BY ONLY <4>1, BlocksReportType
      <4>3. BlocksReport(start, c, m).start = start
        BY ONLY <4>1, BlocksReportType
      <4>4. EndOf(BlocksReport(start, c, m)) = start + Len(StoredBlocks(c, m))
        BY ONLY <4>1, BlocksReportType
      <4>. QED  BY <4>2, <4>3, <4>4
    <3>4. own \in Report /\ own.start = start /\ EndOf(own) = start + Len(b)
      BY <3>2, <3>3
    <3>. QED  BY <2>8, <2>9, <3>1, <3>4
  <2>11. Sequential(u, n + 1)
    <3>1. Len(s.bytes) <= Len(bytes)
      BY <1>1, <2>8, <2>9
    <3>2. u = [bytes |-> bytes, reports |-> Append(s.reports, own),
               fragments |-> s.fragments, indices |-> Append(s.indices, NoFragment),
               current |-> s.current, kept |-> ks, small |-> s.small]
      BY <2>2, <2>3, <2>7
    <3>3. /\ ks = s.kept \/ ks = Append(s.kept, n + 1)
          /\ s.small = s.small \/ s.small = s.small \cup {[file |-> n + 1, checksum |-> x]}
      BY <2>4
    <3>. QED  BY <1>1, <1>2, <1>3, <2>9, <2>10, <3>1, <3>2, <3>3, SequentialExtended
  <2>12. /\ u.bytes = bytes /\ u.reports = rs /\ u.fragments = s.fragments
         /\ u.indices = is /\ u.current = s.current /\ u.kept = ks
         /\ u.small = s.small
    BY ONLY <2>7
  <2>. QED  BY <1>5, <2>2, <2>3, <2>4, <2>5, <2>11, <2>12
<1>. QED  BY <1>4, <1>5

LEMMA AddBlocksIs ==
  ASSUME NEW s, NEW n \in Nat, Sequential(s, n), NEW c \in Seq(Byte),
         NEW u, u = AddBlocks(s, c, dedup_enabled)
  PROVE  /\ Sequential(u, n + 1)
         /\ u.fragments = s.fragments /\ u.current = s.current /\ u.small = s.small
         /\ u.indices = Append(s.indices, NoFragment)
         /\ Shares(s, c) =>
              /\ u.bytes = s.bytes /\ u.kept = s.kept
              /\ u.reports = Append(s.reports, s.reports[s.kept[Min(SharedBlocks(s, c))]])
         /\ ~Shares(s, c) =>
              /\ u.bytes = s.bytes \o StoredBlocks(c, BlockCount(c))
              /\ u.kept = Append(s.kept, n + 1)
              /\ u.reports = Append(s.reports, OwnBlocks(s, c))
<1>1. AddedAs(s, n, c, u)
  BY AddedSo
<1>. QED  BY ONLY <1>1 DEF AddedAs

\* The same, when no earlier file is stored as the same bytes.
AddedAfter(s, c, u) == u.bytes = s.bytes \o StoredBlocks(c, BlockCount(c))

LEMMA AddedBlocks ==
  ASSUME NEW s, NEW n \in Nat, Sequential(s, n), NEW c \in Seq(Byte),
         NEW u, u = AddBlocks(s, c, dedup_enabled), ~Shares(s, c)
  PROVE  AddedAfter(s, c, u)
<1>1. AddedAs(s, n, c, u)
  BY AddedSo
<1>. QED  BY ONLY <1>1, ~Shares(s, c) DEF AddedAs, AddedAfter

(* A small file is found in the place of an earlier one, or has one of its *)
(* own, perhaps in a new fragment.                                         *)
Found(s, c) == dedup_enabled /\ SameContents(s, c) # {}
LastSuch(s, c) == Max(SameContents(s, c))
Room(s, c) == IF Len(s.current) + Len(c) > BlockSize THEN CloseFragment(s) ELSE s

\* What is listed then, and where the place is.
Listed(s, n, c) == s.small \cup {[file |-> n, checksum |-> Checksum(c)]}
Behind(t) == [fragment |-> Len(t.fragments), offset |-> Len(t.current)]

LEMMA SmallChecksum ==
  ASSUME NEW c \in Seq(Byte), Len(c) < BlockSize
  PROVE  c \in Block /\ Checksum(c) \in Checksums
<1>1. BlockSize \in Nat /\ Len(c) \in Nat
  BY BlockSizeAssumption, LenProperties
<1>2. Len(c) <= BlockSize
  BY <1>1
<1>. QED  BY <1>1, <1>2, BlockIsSeq, ChecksumAssumption

LEMMA AddSmallFound ==
  ASSUME NEW s, NEW n \in Nat, Sequential(s, n), NEW c \in Seq(Byte),
         Len(c) < BlockSize, Found(s, c), NEW u, u = AddSmall(s, c, dedup_enabled)
  PROVE  /\ Sequential(u, n + 1)
         /\ u.reports = Append(s.reports, NoReport)
         /\ u.bytes = s.bytes /\ u.fragments = s.fragments
         /\ u.current = s.current /\ u.kept = s.kept /\ u.small = s.small
         /\ u.indices = Append(s.indices, s.indices[LastSuch(s, c)])
         /\ LastSuch(s, c) \in SameContents(s, c)
         /\ \A i \in SameContents(s, c) : i <= LastSuch(s, c)
<1>1. /\ s = [bytes |-> s.bytes, reports |-> s.reports,
              fragments |-> s.fragments, indices |-> s.indices,
              current |-> s.current, kept |-> s.kept, small |-> s.small]
      /\ s.bytes \in Seq(Byte) /\ s.current \in Block /\ Len(s.bytes) \in Nat
      /\ s.indices \in Seq(Place) /\ DOMAIN s.indices = 1 .. n
      /\ Len(s.indices) = n
  BY SequentialIs
<1>2. Checksum(c) \in Checksums
  BY SmallChecksum
<1>3. PICK p, rs, is : /\ p = s.indices[LastSuch(s, c)]
                      /\ rs = Append(s.reports, NoReport) /\ is = Append(s.indices, p)
  OBVIOUS
<1>4. u = [s EXCEPT !.reports = rs, !.indices = is]
  BY <1>3 DEF AddSmall, Found, LastSuch
<1>5. u = [bytes |-> s.bytes, reports |-> rs, fragments |-> s.fragments,
           indices |-> is, current |-> s.current, kept |-> s.kept, small |-> s.small]
  BY <1>1, <1>4
<1>6. /\ LastSuch(s, c) \in SameContents(s, c) /\ p \in Place
      /\ \A i \in SameContents(s, c) : i <= LastSuch(s, c)
  <2>1. PICK T : T = SameContents(s, c)
    OBVIOUS
  <2>2. T \subseteq 1 .. n /\ T # {}
    BY <1>1, <2>1 DEF SameContents, Found
  <2>3. Max(T) \in T /\ \A i \in T : i <= Max(T)
    BY <2>2, GreatestIs
  <2>. QED  BY <1>1, <1>3, <2>1, <2>2, <2>3, ElementOfSeq DEF LastSuch
<1>7. Sequential(u, n + 1)
  <2>1. NoReport \in Report /\ 0 <= NoReport.start /\ EndOf(NoReport) <= Len(s.bytes)
        /\ Len(s.bytes) <= Len(s.bytes)
    BY <1>1, NoReportType
  <2>2. u = [bytes |-> s.bytes, reports |-> Append(s.reports, NoReport),
             fragments |-> s.fragments, indices |-> Append(s.indices, p),
             current |-> s.current, kept |-> s.kept, small |-> s.small]
    BY <1>3, <1>5
  <2>. QED  BY <1>1, <1>2, <1>6, <2>1, <2>2, SequentialExtended
<1>8. /\ u.bytes = s.bytes /\ u.reports = rs /\ u.fragments = s.fragments
      /\ u.indices = is /\ u.current = s.current /\ u.kept = s.kept
      /\ u.small = s.small
  BY ONLY <1>5
<1>. QED  BY <1>3, <1>6, <1>7, <1>8

LEMMA RoomIs ==
  ASSUME NEW s, NEW n \in Nat, Sequential(s, n), NEW c \in Seq(Byte),
         Len(c) < BlockSize
  PROVE  /\ Sequential(Room(s, c), n)
         /\ Room(s, c).reports = s.reports /\ Room(s, c).indices = s.indices
         /\ Room(s, c).small = s.small /\ Room(s, c).kept = s.kept
         /\ Len(Room(s, c).current) + Len(c) <= BlockSize
<1>0. PICK t : t = Room(s, c)
  OBVIOUS
<1>1. BlockSize \in Nat /\ Len(c) \in Nat /\ Len(s.current) \in Nat
  BY BlockSizeAssumption, LenProperties, SequentialIs
<1>2. CASE Len(s.current) + Len(c) > BlockSize
  <2>1. t = CloseFragment(s)
    BY <1>0, <1>2 DEF Room
  <2>2. /\ Sequential(t, n) /\ t.reports = s.reports /\ t.indices = s.indices
        /\ t.small = s.small /\ t.kept = s.kept /\ t.current = <<>>
    BY <2>1, CloseFragmentIs
  <2>3. <<>> \in Seq(Byte) /\ Len(<<>>) = 0
    BY EmptySeq
  <2>4. Len(t.current) = 0 /\ 0 + Len(c) <= BlockSize
    BY <1>1, <2>2, <2>3
  <2>. QED  BY <1>0, <1>1, <2>2, <2>3, <2>4
<1>3. CASE ~(Len(s.current) + Len(c) > BlockSize)
  <2>1. t = s
    BY <1>0, <1>3 DEF Room
  <2>. QED  BY <1>0, <1>1, <1>3, <2>1
<1>. QED  BY <1>2, <1>3

LEMMA AddSmallOwn ==
  ASSUME NEW s, NEW n \in Nat, Sequential(s, n), NEW c \in Seq(Byte),
         Len(c) < BlockSize, ~Found(s, c), NEW u, u = AddSmall(s, c, dedup_enabled)
  PROVE  /\ Sequential(u, n + 1)
         /\ u.reports = Append(s.reports, NoReport)
         /\ u.bytes = Room(s, c).bytes /\ u.fragments = Room(s, c).fragments
         /\ u.kept = Room(s, c).kept /\ u.current = Room(s, c).current \o c
         /\ u.small = Listed(s, n + 1, c)
         /\ u.indices = Append(s.indices, Behind(Room(s, c)))
<1>1. Checksum(c) \in Checksums
  BY SmallChecksum
<1>0. /\ n \in Nat /\ Sequential(s, n) /\ c \in Seq(Byte) /\ Len(c) < BlockSize
  OBVIOUS
<1>t. PICK t : t = Room(s, c)
  OBVIOUS
<1>2. /\ Sequential(t, n) /\ t.reports = s.reports /\ t.indices = s.indices
      /\ t.small = s.small /\ t.kept = s.kept
      /\ t.current \in Block /\ t.current \in Seq(Byte) /\ Len(t.current) \in Nat
      /\ Len(t.current) + Len(c) <= BlockSize
  <2>1. Sequential(Room(s, c), n)
    BY ONLY <1>0, <1>t, RoomIs
  <2>2. t.reports = s.reports /\ t.indices = s.indices
    BY ONLY <1>0, <1>t, <2>1, RoomIs
  <2>3. t.small = s.small /\ t.kept = s.kept
    BY ONLY <1>0, <1>t, <2>1, RoomIs
  <2>4. Len(t.current) + Len(c) <= BlockSize
    BY ONLY <1>0, <1>t, <2>1, RoomIs
  <2>. QED  BY <1>t, <2>1, <2>2, <2>3, <2>4, SequentialIs
<1>3. /\ t = [bytes |-> t.bytes, reports |-> t.reports,
              fragments |-> t.fragments, indices |-> t.indices,
              current |-> t.current, kept |-> t.kept, small |-> t.small]
      /\ t.bytes \in Seq(Byte) /\ Len(t.bytes) \in Nat /\ Len(t.fragments) \in Nat
      /\ Len(s.indices) = n
  BY <1>2, SequentialIs
<1>4. PICK p, rs, is, cs, ss :
        /\ p = [fragment |-> Len(t.fragments), offset |-> Len(t.current)]
        /\ rs = Append(t.reports, NoReport) /\ is = Append(t.indices, p)
        /\ cs = t.current \o c
        /\ ss = t.small \cup {[file |-> n + 1, checksum |-> Checksum(c)]}
  OBVIOUS
<1>5. u = [t EXCEPT !.reports = rs, !.indices = is, !.current = cs, !.small = ss]
  BY <1>t, <1>3, <1>4 DEF AddSmall, Found, Room
<1>6. u = [bytes |-> t.bytes, reports |-> rs, fragments |-> t.fragments,
           indices |-> is, current |-> cs, kept |-> t.kept, small |-> ss]
  BY <1>3, <1>5
<1>7. p \in Place
  BY <1>2, <1>3, <1>4 DEF Place
<1>8. cs \in Block
  <2>1. cs \in Seq(Byte) /\ Len(cs) = Len(t.current) + Len(c)
    BY <1>2, <1>4, ConcatProperties
  <2>. QED  BY <1>2, <2>1, BlockIsSeq
<1>9. Sequential(u, n + 1)
  <2>1. NoReport \in Report /\ 0 <= NoReport.start /\ EndOf(NoReport) <= Len(t.bytes)
        /\ Len(t.bytes) <= Len(t.bytes)
    BY <1>3, NoReportType
  <2>2. u = [bytes |-> t.bytes, reports |-> Append(t.reports, NoReport),
             fragments |-> t.fragments, indices |-> Append(t.indices, p),
             current |-> cs, kept |-> t.kept, small |-> ss]
    BY <1>4, <1>6
  <2>3. PICK x \in Checksums : x = Checksum(c)
    BY <1>1
  <2>4. /\ t.kept = t.kept \/ t.kept = Append(t.kept, n + 1)
        /\ ss = t.small \/ ss = t.small \cup {[file |-> n + 1, checksum |-> x]}
    BY <1>4, <2>3
  <2>5. Sequential(t, n) /\ n \in Nat /\ t.bytes \in Seq(Byte)
    BY <1>2, <1>3
  <2>. QED  BY ONLY <1>7, <1>8, <2>1, <2>2, <2>3, <2>4, <2>5, SequentialExtended
<1>10. /\ u.bytes = t.bytes /\ u.reports = rs /\ u.fragments = t.fragments
       /\ u.indices = is /\ u.current = cs /\ u.kept = t.kept
       /\ u.small = ss
  BY ONLY <1>6
<1>. QED  BY <1>t, <1>2, <1>4, <1>9, <1>10 DEF Listed, Behind

LEMMA AddFileType ==
  ASSUME NEW s, NEW n \in Nat, Sequential(s, n), NEW c \in Seq(Byte)
  PROVE  Sequential(AddFile(s, c, dedup_enabled), n + 1)
<1>1. CASE c = <<>>
  <2>1. AddFile(s, c, dedup_enabled) = AddEmpty(s)
    BY <1>1 DEF AddFile
  <2>. QED  BY <2>1, AddEmptyIs
<1>2. CASE c # <<>> /\ Len(c) < BlockSize
  <2>1. AddFile(s, c, dedup_enabled) = AddSmall(s, c, dedup_enabled)
    BY <1>2 DEF AddFile
  <2>2. CASE Found(s, c)
    BY <1>2, <2>1, <2>2, AddSmallFound
  <2>3. CASE ~Found(s, c)
    BY <1>2, <2>1, <2>3, AddSmallOwn
  <2>. QED  BY <2>2, <2>3
<1>3. CASE c # <<>> /\ ~(Len(c) < BlockSize)
  <2>1. AddFile(s, c, dedup_enabled) = AddBlocks(s, c, dedup_enabled)
    BY <1>3 DEF AddFile
  <2>. QED  BY <2>1, AddBlocksIs
<1>. QED  BY <1>1, <1>2, <1>3

LEMMA NoFilesType == Sequential(NoFiles, 0)
<1>1. /\ <<>> \in Seq(Byte) /\ <<>> \in Seq(Report) /\ <<>> \in Seq(Entry)
      /\ <<>> \in Seq(Place) /\ <<>> \in Seq(Nat) /\ <<>> \in Block /\ Len(<<>>) = 0
      /\ DOMAIN <<>> = {}
  BY EmptySeq, EmptyBlock
<1>2. PICK u : u = NoFiles
  OBVIOUS
<1>3. u = [bytes |-> <<>>, reports |-> <<>>, fragments |-> <<>>, indices |-> <<>>,
           current |-> <<>>, kept |-> <<>>, small |-> {}]
  BY <1>2 DEF NoFiles
<1>4. /\ u.bytes = <<>> /\ u.reports = <<>> /\ u.fragments = <<>>
      /\ u.indices = <<>> /\ u.current = <<>> /\ u.kept = <<>> /\ u.small = {}
  BY ONLY <1>3
<1>5. u \in Sequentials
  BY <1>1, <1>3, <1>4, SequentialFields
<1>. QED  BY <1>1, <1>2, <1>4, <1>5 DEF Sequential, Within

\* What there is of the image after each file.
LEMMA DoneType ==
  ASSUME TypeOK
  PROVE  /\ \A n \in 0 .. Len(input) : Sequential(Done(n), n)
         /\ Done(0) = NoFiles
         /\ \A n \in Nat : Done(n + 1) = AddFile(Done(n), input[n + 1], dedup_enabled)
<1>1. /\ Done(0) = NoFiles
      /\ \A n \in Nat : Done(n + 1) = AddFile(Done(n), input[n + 1], dedup_enabled)
  BY AfterNext DEF Done
<1>2. PICK l \in Nat : l = Len(input)
  BY InputAssumption, LenProperties DEF TypeOK, OptionsOK
<1>. DEFINE T == {n \in 0 .. l : ~Sequential(Done(n), n)}
<1>3. SUFFICES ASSUME T # {} PROVE FALSE
  BY <1>1, <1>2
<1>4. PICK k \in T : \A h \in T : k <= h
  <2>1. T \subseteq Nat
    OBVIOUS
  <2>. HIDE DEF T
  <2>. QED  BY <1>3, <2>1, LeastNumber
<1>5. k \in 0 .. l /\ ~Sequential(Done(k), k)
  BY <1>4
<1>6. k # 0
  BY <1>1, <1>5, NoFilesType
<1>7. PICK h : h = k - 1
  OBVIOUS
<1>8. h \in Nat /\ h \in 0 .. l /\ k = h + 1 /\ ~(k <= h) /\ k \in Inodes
  BY <1>2, <1>5, <1>6, <1>7 DEF Inodes
<1>9. Sequential(Done(h), h)
  BY <1>4, <1>8
<1>10. input[h + 1] \in Seq(Byte)
  BY <1>8, InputType
<1>11. Sequential(AddFile(Done(h), input[h + 1], dedup_enabled), h + 1)
  BY <1>8, <1>9, <1>10, AddFileType
<1>. QED  BY <1>1, <1>5, <1>8, <1>11

-----------------------------------------------------------------------------
(* What a step leaves as it is.                                            *)

LEMMA AgreesSame ==
  ASSUME UNCHANGED <<input, dedup_enabled, inode, packing>>, Drained' = Drained
  PROVE  /\ \A s, n : WrittenAs(s, n) => WrittenAs(s, n)'
         /\ \A s, small : PackedAs(s, small) => PackedAs(s, small)'
         /\ \A s : Agrees(s) => Agrees(s)'
<1>1. \A s, n : WrittenAs(s, n) => WrittenAs(s, n)'
  BY DEF WrittenAs, LaidOut
<1>2. \A s, small : PackedAs(s, small) => PackedAs(s, small)'
  BY DEF PackedAs, Lists, packing, Inodes
<1>. QED  BY <1>1, <1>2 DEF Agrees

LEMMA DoneSame ==
  ASSUME UNCHANGED <<input, dedup_enabled>>
  PROVE  /\ \A n : Done(n)' = Done(n)
         /\ inode' = inode => /\ Done(inode)' = Done(inode)
                              /\ Done(inode - 1)' = Done(inode - 1)
  BY DEF Done

\* The client may return from enqueue.
Returns == \/ pc' = pc
           \/ pc \in {"push", "handle"} /\ pc' \in {resume, "handle"}

LEMMA ProgressKept ==
  ASSUME TypeOK, Progress, Drained' = Drained, Steady => Steady', Returns,
         UNCHANGED <<input, dedup_enabled, resume, inode, unread, current_block,
                     block_count, packing, candidates>>
  PROVE  Progress'
<1>1. /\ Steady' /\ FilesDone /\ BlocksDone /\ Searched /\ Placing
      /\ resume \in {"next", "read", "place", "finish"}
  BY DEF Progress, TypeOK, ControlOK
<1>2. /\ Done(inode)' = Done(inode) /\ Done(inode - 1)' = Done(inode - 1)
  BY DoneSame
<1>3. /\ \A s, n : WrittenAs(s, n) => WrittenAs(s, n)'
      /\ \A s, small : PackedAs(s, small) => PackedAs(s, small)'
      /\ \A s : Agrees(s) => Agrees(s)'
  BY AgreesSame
<1>4. PICK s, t : s = Done(inode) /\ t = Done(inode - 1)
  OBVIOUS
<1>5. s = Done(inode)' /\ t = Done(inode - 1)'
  BY <1>2, <1>4
<1>6. FilesDone'
  BY <1>1, <1>3, <1>4, <1>5 DEF FilesDone, At, Returns
<1>7. BlocksDone'
  BY <1>1, <1>3, <1>4, <1>5 DEF BlocksDone, At, Returns
<1>8. Searched'
  BY <1>1, <1>3, <1>4, <1>5 DEF Searched, Returns, packing
<1>9. Placing'
  BY <1>1, <1>3, <1>4, <1>5 DEF Placing, At, Returns, packing
<1>. QED  BY <1>1, <1>6, <1>7, <1>8, <1>9 DEF Progress

LEMMA ProgressByWriter ==
  ASSUME IInv, TypeOK', Healthy, Healthy', Progress, Writer
  PROVE  Progress'
<1>1. TypeOK /\ Control
  BY DEF IInv, OrderInv, PathInv
<1>2. Drained' = Drained /\ (Steady => Steady')
  BY DrainedByWriter
<1>3. /\ UNCHANGED <<input, dedup_enabled, resume, inode, unread, current_block,
                     block_count, packing, candidates>>
      /\ Returns
  BY <1>1 DEF Writer, Take, Exit, WriteBytes, WriteIsLost, ReportFragment,
              ReportBlock, KeepBlocks, DropBlocks, HandleThrows, Handled, Healthy,
              Control, options, control, reading, search, Returns
<1>. QED  BY <1>1, <1>2, <1>3, ProgressKept

LEMMA ProgressMoved ==
  ASSUME IInv, Progress, Push \/ CallHandleWrite
  PROVE  Progress'
<1>1. TypeOK /\ Control
  BY DEF IInv, OrderInv, PathInv
<1>2. Pending' = Pending
  BY <1>1, PendingMoved
<1>3. UNCHANGED <<file, pos, tell, layout>> /\ End' = End
  BY <1>1 DEF Push, CallHandleWrite, Control, End, disk, writer
<1>4. Drained' = Drained /\ (Steady => Steady')
  BY <1>2, <1>3, NowOfClient, DrainedSame
<1>5. /\ UNCHANGED <<input, dedup_enabled, resume, inode, unread, current_block,
                     block_count, packing, candidates>>
      /\ Returns
  BY DEF Push, CallHandleWrite, options, control, reading, search, Returns
<1>. QED  BY <1>1, <1>4, <1>5, ProgressKept

-----------------------------------------------------------------------------
(* The client between two files.                                           *)

LEMMA AppendIs ==
  ASSUME NEW S, NEW s \in Seq(S), NEW n \in Nat, Len(s) = n, NEW e \in S,
         NEW t, t = Append(s, e)
  PROVE  /\ DOMAIN s = 1 .. n /\ DOMAIN t = 1 .. n + 1
         /\ t[n + 1] = e /\ \A k \in 1 .. n : t[k] = s[k]
  BY AppendProperties, LenProperties

\* The client leaves the layout and what is pending alone.
LEMMA ClientQuiet ==
  ASSUME UNCHANGED <<disk, layout, tell, wpc, held, queue, pushing>>
  PROVE  /\ Drained' = Drained /\ (Steady => Steady')
         /\ End' = End /\ Now' = Now /\ Pending' = Pending
<1>1. Pending' = Pending
  BY DEF Pending
<1>2. UNCHANGED <<file, pos, tell, layout>> /\ End' = End
  BY DEF disk, End
<1>. QED  BY <1>1, <1>2, NowOfClient, DrainedSame

\* The small parts of the invariant, from the large one.
LEMMA PartsOf ==
  ASSUME IInv
  PROVE  /\ TypeOK /\ Control /\ CandidatesPlaced /\ FragmentNumbering
         /\ Ordered /\ ChunksInOrder /\ QueueInOrder /\ ReportsInOrder
         /\ InHand /\ ChunkInHand /\ EntryInHand /\ NothingLost
         /\ inode \in Nat /\ Len(input) \in Nat /\ inode \in 0 .. Len(input)
<1>1. Len(input) \in Nat
  BY InputAssumption, LenProperties DEF IInv, OrderInv, PathInv, TypeOK, OptionsOK
<1>. QED
  BY <1>1 DEF IInv, OrderInv, PathInv, Ordered, InHand, TypeOK, ReadingOK

\* A file without bytes adds no more than an entry to each table.
LEMMA AgreesEmpty ==
  ASSUME TypeOK, NEW n \in 0 .. Len(input), n + 1 \in Inodes,
         NEW s, s = Done(n), NEW u, u = Done(n + 1), input[n + 1] = <<>>,
         NEW l \in Layouts, LaidOut(l, s, n + 1, <<>>, 0), PackedAs(s, s.small)
  PROVE  /\ LaidOut(l, u, n + 1, <<>>, 0) /\ u.kept = s.kept
         /\ PackedAs(u, u.small)
<1>1. n \in Nat /\ Sequential(s, n)
  BY DoneType DEF Inodes
<1>2. u = AddEmpty(s)
  BY <1>1, DoneType DEF AddFile
<1>3. /\ u.bytes = s.bytes /\ u.fragments = s.fragments /\ u.current = s.current
      /\ u.kept = s.kept /\ u.small = s.small
      /\ u.reports = Append(s.reports, NoReport)
      /\ u.indices = Append(s.indices, NoFragment)
  <2>1. /\ u.bytes = s.bytes /\ u.fragments = s.fragments /\ u.current = s.current
        /\ u.kept = s.kept /\ u.small = s.small
    BY ONLY <1>1, <1>2, AddEmptyIs
  <2>2. u.reports = Append(s.reports, NoReport)
    BY ONLY <1>1, <1>2, AddEmptyIs
  <2>3. u.indices = Append(s.indices, NoFragment)
    BY ONLY <1>1, <1>2, AddEmptyIs
  <2>. QED  BY ONLY <2>1, <2>2, <2>3
<1>4. PICK r, p, ur, up : r = s.reports /\ p = s.indices /\ ur = u.reports /\ up = u.indices
  OBVIOUS
<1>5. /\ r \in Seq(Report) /\ p \in Seq(Place) /\ Len(r) = n /\ Len(p) = n
      /\ NoReport \in Report /\ NoFragment \in Place
  BY <1>1, <1>4, SequentialIs, NoReportType
<1>6. /\ DOMAIN r = 1 .. n /\ DOMAIN ur = 1 .. n + 1
      /\ ur[n + 1] = NoReport /\ \A k \in 1 .. n : ur[k] = r[k]
  BY <1>1, <1>3, <1>4, <1>5, AppendIs
<1>7. /\ DOMAIN p = 1 .. n /\ DOMAIN up = 1 .. n + 1
      /\ up[n + 1] = NoFragment /\ \A k \in 1 .. n : up[k] = p[k]
  BY <1>1, <1>3, <1>4, <1>5, AppendIs
<1>8. LaidOut(l, u, n + 1, <<>>, 0)
  <2>1. DOMAIN l.reports = Inodes
    BY LayoutFields
  <2>2. \A j \in Inodes :
          l.reports[j] = IF j \in 1 .. n + 1 THEN ur[j] ELSE NoReport
    BY <1>1, <1>4, <1>6, <2>1 DEF LaidOut, Inodes
  <2>. QED  BY <1>3, <1>4, <1>6, <2>1, <2>2 DEF LaidOut
<1>9. PackedAs(u, u.small)
  <2>1. \A j \in Inodes :
          fragment_indices[j] = IF j \in 1 .. n + 1 THEN up[j] ELSE NoFragment
    BY <1>1, <1>4, <1>7 DEF PackedAs, Inodes
  <2>. QED  BY <1>3, <1>4, <1>7, <2>1 DEF PackedAs
<1>. QED  BY <1>3, <1>8, <1>9

LEMMA ProgressNextFile ==
  ASSUME IInv, Healthy, Progress, NextFile
  PROVE  Progress'
<1>1. /\ TypeOK /\ Control /\ Ordered /\ inode \in Nat /\ inode \in 0 .. Len(input)
      /\ Len(input) \in Nat /\ stream = "good"
  BY PartsOf DEF Healthy
<1>2. PICK s : s = Done(inode)
  OBVIOUS
<1>3. pc = "next" /\ Agrees(s)
  BY <1>2 DEF NextFile, Progress, FilesDone, At
<1>4. UNCHANGED <<input, dedup_enabled, packing>>
  BY DEF NextFile, options
<1>5. Drained' = Drained /\ Steady'
  BY ClientQuiet DEF NextFile, writer, channel, Progress
<1>6. Drained \in Layouts
  BY <1>1, DrainedType
<1>7. CASE ~(inode < Len(input))
  <2>1. /\ inode' = inode /\ inode = Len(input) /\ pc' = "finish" /\ Len(input)' = Len(input)
    BY <1>1, <1>7 DEF NextFile, options
  <2>2. s = Done(inode)' /\ Agrees(s)'
    BY <1>2, <1>3, <1>4, <1>5, <2>1, DoneSame, AgreesSame
  <2>. QED
    BY <1>5, <2>1, <2>2
    DEF Progress, FilesDone, BlocksDone, Searched, Placing, At
<1>8. CASE inode < Len(input)
  <2>1. PICK m : m = inode + 1
    OBVIOUS
  <2>2. /\ m \in Nat /\ m \in Inodes /\ m - 1 = inode /\ inode' = m /\ pc' = "read"
        /\ block_count' = 0 /\ unread' = input[m]
    BY <1>1, <1>8, <2>1 DEF NextFile, Inodes
  <2>3. PICK u : u = Done(m)
    OBVIOUS
  <2>4. u = Done(inode)' /\ s = Done(inode - 1)'
    <3>1. Done(m)' = Done(m) /\ Done(m - 1)' = Done(m - 1)
      BY <1>4, DoneSame
    <3>. QED  BY <1>2, <2>2, <2>3, <3>1
  <2>5. \A j \in Inodes : LaidOut(Drained, s, j, input[j], 0)
    BY <1>3 DEF Agrees, WrittenAs, LaidOut
  <2>6. CASE input[m] = <<>>
    <3>1. PICK i \in 0 .. Len(input) : i = inode
      BY <1>1
    <3>2. LaidOut(Drained, s, i + 1, <<>>, 0) /\ PackedAs(s, s.small)
      BY <1>3, <2>1, <2>2, <2>5, <2>6, <3>1 DEF Agrees
    <3>3. /\ LaidOut(Drained, u, i + 1, <<>>, 0) /\ u.kept = s.kept
          /\ PackedAs(u, u.small)
      BY <1>1, <1>2, <1>6, <2>1, <2>2, <2>3, <2>6, <3>1, <3>2, AgreesEmpty
    <3>4. LaidOut(Drained, u, m, input[m], 0) /\ (dedup_enabled => Drained.kept = u.kept)
      BY <1>3, <2>1, <2>6, <3>1, <3>3 DEF Agrees, WrittenAs
    <3>5. Agrees(u)'
      BY <1>4, <1>5, <2>2, <3>3, <3>4 DEF Agrees, WrittenAs, LaidOut, PackedAs, Lists, packing, Inodes
    <3>. QED
      BY <1>5, <2>2, <2>4, <2>6, <3>5
      DEF Progress, FilesDone, BlocksDone, Searched, Placing, At
  <2>7. CASE input[m] # <<>>
    <3>1. Agrees(s)'
      BY <1>3, <1>4, <1>5, <2>2, <2>5 DEF Agrees, WrittenAs, LaidOut, PackedAs, Lists, packing, Inodes
    <3>. QED
      BY <1>5, <2>2, <2>4, <2>7, <3>1
      DEF Progress, FilesDone, BlocksDone, Searched, Placing, At
  <2>. QED  BY <2>6, <2>7
<1>. QED  BY <1>7, <1>8

-----------------------------------------------------------------------------
(* The client cuts a file into blocks.                                     *)

LEMMA ProgressReadChunk ==
  ASSUME IInv, Healthy, Progress, ReadChunk
  PROVE  Progress'
<1>1. PICK s : s = Done(inode - 1)
  OBVIOUS
<1>2. /\ UNCHANGED <<input, dedup_enabled, inode, packing, block_count>>
      /\ pc = "read" /\ unread # <<>> /\ pc' = "flush"
  BY DEF ReadChunk, options
<1>3. Drained' = Drained /\ Steady'
  BY ClientQuiet DEF ReadChunk, writer, channel, Progress
<1>4. /\ \A n : WrittenAs(s, n) => WrittenAs(s, n)'
      /\ PackedAs(s, s.small) => PackedAs(s, s.small)'
      /\ Agrees(s) => Agrees(s)'
  BY <1>2, <1>3, AgreesSame
<1>5. s = Done(inode - 1)'
  BY <1>1, <1>2, DoneSame
<1>6. BlocksDone
  BY DEF Progress
<1>7. BlocksDone'
  BY <1>1, <1>2, <1>4, <1>5, <1>6 DEF BlocksDone, At
<1>. QED
  BY <1>2, <1>3, <1>7 DEF Progress, FilesDone, Searched, Placing, At

\* A layout that has grown behind the fragments of another.
LEMMA PreservesGrown ==
  ASSUME NEW l \in Layouts, NEW m \in Layouts, NEW n \in Nat,
         Within(l.fragments, n), n <= Len(l.bytes), n <= Len(m.bytes),
         SubSeq(m.bytes, 1, n) = SubSeq(l.bytes, 1, n),
         \/ m.fragments = l.fragments
         \/ \E e \in Entry : m.fragments = Append(l.fragments, e)
  PROVE  Preserves(l, m)
<1>1. /\ l.bytes \in Seq(Byte) /\ m.bytes \in Seq(Byte)
      /\ l.fragments \in Seq(Entry) /\ m.fragments \in Seq(Entry)
  BY LayoutFields
<1>2. PICK fl, fm, bl, bm, k : /\ fl = l.fragments /\ fm = m.fragments
                               /\ bl = l.bytes /\ bm = m.bytes /\ k = Len(fl)
  OBVIOUS
<1>3. /\ k \in Nat /\ DOMAIN fl = 1 .. k /\ k <= Len(fm)
      /\ \A f \in 1 .. k : fm[f] = fl[f]
  <2>1. k \in Nat /\ DOMAIN fl = 1 .. k
    BY <1>1, <1>2, LenProperties
  <2>2. CASE fm = fl
    BY <1>2, <2>1, <2>2
  <2>3. ASSUME NEW e \in Entry, fm = Append(fl, e)
        PROVE  k <= Len(fm) /\ \A f \in 1 .. k : fm[f] = fl[f]
    <3>1. Len(fm) = k + 1
      BY <1>1, <1>2, <2>3, AppendProperties
    <3>2. \A f \in 1 .. k : fm[f] = fl[f]
      BY <1>1, <1>2, <2>1, <2>3, AppendIs
    <3>. QED  BY <2>1, <3>1, <3>2
  <2>. QED  BY <1>2, <2>1, <2>2, <2>3
<1>4. ASSUME NEW f \in 1 .. k
      PROVE  BytesIn(m, fl[f]) = BytesIn(l, fl[f])
  <2>1. PICK e \in Entry : e = fl[f]
    BY <1>1, <1>2, <1>3, ElementOfSeq
  <2>2. 0 <= e.start /\ EndOf(e) <= n /\ EndOf(e) = e.start + e.len
        /\ e.start \in Int /\ e.len \in Nat
    BY <1>2, <1>3, <2>1, EntriesEnd DEF Within
  <2>3. PICK a, b : a = e.start /\ b = e.start + e.len
    OBVIOUS
  <2>4. a \in Nat /\ b \in Nat /\ b <= n
    BY <2>2, <2>3
  <2>5. SubSeq(bl, a + 1, b) = SubSeq(SubSeq(bl, 1, n), a + 1, b)
    BY <1>1, <1>2, <2>4, PartOfPrefix
  <2>6. SubSeq(bm, a + 1, b) = SubSeq(SubSeq(bm, 1, n), a + 1, b)
    BY <1>1, <1>2, <2>4, PartOfPrefix
  <2>. QED  BY <1>2, <2>1, <2>3, <2>5, <2>6 DEF BytesIn
<1>. QED  BY <1>2, <1>3, <1>4 DEF Preserves

\* One more block of the file is handled.
LEMMA LaidOutNext ==
  ASSUME NEW l \in Layouts, NEW m \in Nat, NEW s, Sequential(s, m),
         NEW i \in Inodes, i = m + 1, NEW c \in Seq(Byte), NEW n \in Nat,
         LaidOut(l, s, i, c, n), NEW item, item.kind = "block", item.inode = i,
         item.data = BlockOf(c, n + 1), NEW h, h = Handle(l, item)
  PROVE  /\ h \in Layouts /\ LaidOut(h, s, i, c, n + 1) /\ h.kept = l.kept
         /\ Preserves(l, h)
<1>1. PICK b : b = BlockOf(c, n + 1)
  OBVIOUS
<1>2. b \in Block
  BY <1>1, BlockOfType
<1>3. PICK x : x = Compress(b).bytes
  OBVIOUS
<1>4. x \in Seq(Byte) /\ Len(x) \in Nat
  BY <1>2, <1>3, CompressType
<1>5. /\ h \in Layouts /\ h.fragments = l.fragments /\ h.kept = l.kept
      /\ h.bytes = l.bytes \o x
      /\ h.reports = [l.reports EXCEPT ![i] = WithBlock(l.reports[i], Len(l.bytes), b)]
  <2>1. item.kind = "block" /\ item.data \in Block /\ item.inode \in Inodes
    BY <1>1, <1>2
  <2>2. /\ h.bytes = l.bytes \o Compress(item.data).bytes
        /\ h.reports = [l.reports EXCEPT ![item.inode] =
                          WithBlock(l.reports[item.inode], Len(l.bytes), item.data)]
        /\ h.fragments = l.fragments /\ h.kept = l.kept /\ h \in Layouts
    BY <2>1, HandleBlockIs
  <2>. QED  BY <1>1, <1>3, <2>2
<1>6. PICK sb, st, lb : sb = s.bytes /\ st = StoredBlocks(c, n) /\ lb = l.bytes
  OBVIOUS
<1>7. /\ sb \in Seq(Byte) /\ st \in Seq(Byte) /\ lb \in Seq(Byte) /\ Len(sb) \in Nat
      /\ Len(lb) \in Nat /\ DOMAIN s.reports = 1 .. m /\ Len(st) \in Nat
  BY <1>6, SequentialIs, StoredType, LayoutFields, LenProperties
<1>8. /\ lb = IF n = 0 THEN sb ELSE sb \o st
      /\ n = 0 => st = <<>>
      /\ StoredBlocks(c, n + 1) = st \o x
  <2>1. /\ n = 0 => StoredBlocks(c, n) = <<>>
        /\ StoredBlocks(c, n + 1) = StoredBlocks(c, n) \o x
    BY <1>1, <1>3, StoredNext
  <2>. QED  BY <1>6, <2>1 DEF LaidOut
<1>9. h.bytes = sb \o StoredBlocks(c, n + 1)
  <2>1. CASE n = 0
    <3>1. st \o x = x
      BY <1>4, <1>8, <2>1, ConcatEmptySeq
    <3>. QED  BY <1>5, <1>6, <1>8, <2>1, <3>1
  <2>2. CASE n # 0
    <3>0. sb \in Seq(Byte) /\ st \in Seq(Byte) /\ x \in Seq(Byte)
      BY <1>4, <1>7
    <3>1. (sb \o st) \o x = sb \o (st \o x)
      <4>1. PICK y : y = x
        OBVIOUS
      <4>2. (sb \o st) \o y = sb \o (st \o y)
        BY ONLY <3>0, <4>1, BytesAssociative
      <4>. QED  BY ONLY <4>1, <4>2
    <3>. QED  BY <1>5, <1>6, <1>8, <2>2, <3>1
  <2>. QED  BY <2>1, <2>2
<1>10. DOMAIN l.reports = Inodes /\ l.reports \in [Inodes -> Report]
  BY LayoutFields
<1>11. WithBlock(l.reports[i], Len(l.bytes), b) = BlocksReport(Len(s.bytes), c, n + 1)
  <2>1. l.reports[i] = IF n = 0 THEN NoReport ELSE BlocksReport(Len(s.bytes), c, n)
    BY <1>7, <1>10 DEF LaidOut
  <2>2. PICK start \in Nat, at \in Nat : start = Len(s.bytes) /\ at = Len(l.bytes)
    BY <1>6, <1>7
  <2>3. n = 0 => at = start
    BY <1>6, <1>8, <2>2
  <2>4. BlocksReport(start, c, n + 1)
          = WithBlock(IF n = 0 THEN NoReport ELSE BlocksReport(start, c, n), at, b)
    BY <1>1, <2>3, BlocksReportNext
  <2>. QED  BY <2>1, <2>2, <2>4
<1>12. LaidOut(h, s, i, c, n + 1)
  <2>1. h.fragments = s.fragments
    BY <1>5 DEF LaidOut
  <2>2. DOMAIN h.reports = Inodes
    BY <1>5, <1>10
  <2>3. ASSUME NEW j \in Inodes
        PROVE  h.reports[j] = IF j \in DOMAIN s.reports THEN s.reports[j]
                 ELSE IF j = i /\ n + 1 # 0 THEN BlocksReport(Len(s.bytes), c, n + 1)
                 ELSE NoReport
    <3>1. CASE j = i
      <4>1. h.reports[i] = WithBlock(l.reports[i], Len(l.bytes), b)
        BY <1>5, <1>10
      <4>2. i \notin 1 .. m
        OBVIOUS
      <4>. QED  BY <1>7, <1>11, <3>1, <4>1, <4>2
    <3>2. CASE j # i
      <4>1. h.reports[j] = l.reports[j]
        BY <1>5, <1>10, <3>2
      <4>. QED  BY <1>10, <3>2, <4>1 DEF LaidOut
    <3>. QED  BY <3>1, <3>2
  <2>4. PICK q : q = n + 1
    OBVIOUS
  <2>5. q # 0 /\ h.bytes = s.bytes \o StoredBlocks(c, q)
    BY <1>6, <1>9, <2>4
  <2>6. \A j \in DOMAIN h.reports :
          h.reports[j] = IF j \in DOMAIN s.reports THEN s.reports[j]
                 ELSE IF j = i /\ q # 0 THEN BlocksReport(Len(s.bytes), c, q)
                 ELSE NoReport
    BY <2>2, <2>3, <2>4
  <2>7. LaidOut(h, s, i, c, q)
    BY ONLY <2>1, <2>5, <2>6 DEF LaidOut
  <2>. QED  BY <2>4, <2>7
<1>13. Preserves(l, h)
  <2>1. PICK k \in Nat : k = Len(sb)
    BY <1>7
  <2>2. Within(l.fragments, k)
    BY <1>6, <2>1 DEF LaidOut, Sequential
  <2>3. k <= Len(lb)
    <3>1. CASE n = 0
      BY <1>7, <1>8, <2>1, <3>1
    <3>2. CASE n # 0
      <4>1. Len(sb \o st) = Len(sb) + Len(st)
        BY <1>7, ConcatProperties
      <4>. QED  BY <1>7, <1>8, <2>1, <3>2, <4>1
    <3>. QED  BY <3>1, <3>2
  <2>4. Len(lb \o x) = Len(lb) + Len(x)
    BY <1>4, <1>7, ConcatProperties
  <2>5. SubSeq(lb \o x, 1, k) = SubSeq(lb, 1, k)
    <3>1. PICK a \in Nat : a = 0
      OBVIOUS
    <3>2. lb \in Seq(Byte) /\ x \in Seq(Byte) /\ a \in Nat /\ k \in Nat /\ k <= Len(lb)
      BY <1>4, <1>7, <2>3
    <3>3. SubSeq(lb \o x, a + 1, k) = SubSeq(lb, a + 1, k)
      BY ONLY <3>2, PartOfConcat
    <3>4. a + 1 = 1
      BY <3>1
    <3>. QED  BY <3>3, <3>4
  <2>6. k <= Len(h.bytes)
    BY <1>4, <1>5, <1>6, <1>7, <2>3, <2>4
  <2>. QED  BY <1>5, <1>6, <2>2, <2>3, <2>5, <2>6, PreservesGrown
<1>. QED  BY <1>5, <1>12, <1>13

\* The client's Now stays, whatever it queues.
LEMMA NowQueued ==
  ASSUME UNCHANGED <<disk, layout, tell, wpc>>
  PROVE  Now' = Now
<1>1. UNCHANGED <<file, pos, tell, layout>> /\ End' = End
  BY DEF disk, End
<1>. QED  BY <1>1, NowOfClient

\* The file the client is in, and what there is of the image before it.
LEMMA InFileIs ==
  ASSUME IInv, InFile
  PROVE  /\ inode \in Inodes /\ inode \in Nat /\ inode - 1 \in Nat
         /\ inode - 1 \in 0 .. Len(input) /\ inode - 1 + 1 = inode
         /\ Sequential(Done(inode - 1), inode - 1)
         /\ input[inode] \in Seq(Byte) /\ Len(input[inode]) \in Nat
         /\ Done(inode) = AddFile(Done(inode - 1), input[inode], dedup_enabled)
         /\ Sequential(Done(inode), inode)
<1>1. /\ TypeOK /\ Control /\ inode \in Nat /\ Len(input) \in Nat
      /\ inode \in 0 .. Len(input)
  BY PartsOf
<1>2. inode # 0
  BY <1>1 DEF Control
<1>3. PICK m : m = inode - 1
  OBVIOUS
<1>4. m \in Nat /\ m \in 0 .. Len(input) /\ m + 1 = inode /\ inode \in Inodes
  BY <1>1, <1>2, <1>3 DEF Inodes
<1>5. Sequential(Done(m), m) /\ Sequential(Done(inode), inode)
  BY <1>1, <1>4, DoneType
<1>6. Done(m + 1) = AddFile(Done(m), input[m + 1], dedup_enabled)
  BY <1>1, <1>4, DoneType
<1>. QED  BY <1>1, <1>3, <1>4, <1>5, <1>6, InputType

LEMMA ProgressFlushBlock ==
  ASSUME IInv, Healthy, Progress, FlushBlock
  PROVE  Progress'
<1>1. TypeOK /\ Control /\ Ordered /\ ChunksInOrder
  BY PartsOf
<1>2. /\ pc = "flush" /\ ~Small /\ ~writer_failed /\ stream = "good"
      /\ InFile /\ current_block' = <<>>
      /\ UNCHANGED <<input, dedup_enabled, inode, packing, unread, held, queue>>
      /\ UNCHANGED <<disk, layout, tell, wpc>>
      /\ Enqueue(BlockItem, "read") /\ block_count' = block_count + 1
  BY DEF FlushBlock, Healthy, InFile, At, options, writer, channel
<1>3. PICK i, m, n, c, s : /\ i = inode /\ m = inode - 1 /\ n = block_count
                           /\ c = input[inode] /\ s = Done(inode - 1)
  OBVIOUS
<1>4. /\ i \in Inodes /\ m \in Nat /\ i = m + 1 /\ Sequential(s, m)
      /\ c \in Seq(Byte) /\ Len(c) \in Nat
  BY <1>2, <1>3, InFileIs
<1>5. PICK b, u : b = current_block /\ u = unread
  OBVIOUS
<1>6. /\ b # <<>> /\ b \in Seq(Byte) /\ u \in Seq(Byte) /\ Len(b) <= BlockSize
      /\ n \in Nat /\ b \o u = RestOf(c, n)
  <2>1. At({"flush", "lookup", "compare", "place"}, {"place"})
    BY <1>2 DEF At
  <2>2. /\ current_block # <<>> /\ current_block \in Seq(Byte) /\ unread \in Seq(Byte)
        /\ Len(current_block) <= BlockSize /\ block_count \in Nat
        /\ current_block \o unread = Rest(inode, block_count)
    BY <2>1, ChunkOfFile
  <2>. QED  BY <1>3, <1>5, <2>2 DEF Rest, RestOf
<1>7. Len(b) < BlockSize => u = <<>>
  BY <1>1, <1>2, <1>5 DEF ChunksInOrder
<1>8. b = BlockOf(c, n + 1)
  <2>1. b = NextOf(c, n)
    <3>1. CutAs(c, b, u, n)
      BY ONLY <1>4, <1>6, <1>7, NextIsCut
    <3>. QED  BY ONLY <3>1 DEF CutAs
  <2>2. PICK k, j : k = n + 1 /\ j = k - 1
    OBVIOUS
  <2>3. j = n
    BY <1>6, <2>2
  <2>4. BlockOf(c, k) = SubSeq(c, j * BlockSize + 1, Min({k * BlockSize, Len(c)}))
    BY <2>2 DEF BlockOf
  <2>5. b = SubSeq(c, n * BlockSize + 1, Min({k * BlockSize, Len(c)}))
    BY <2>1, <2>2 DEF NextOf
  <2>. QED  BY <2>2, <2>3, <2>4, <2>5
<1>9. /\ WrittenAs(s, n) /\ PackedAs(s, s.small) /\ (n # 0 => BlockSize <= Len(c))
  BY <1>2, <1>3 DEF Progress, BlocksDone, At, Agrees
<1>10. n * BlockSize < Len(c) /\ BlockSize <= Len(c)
  <2>1. PICK a \in Nat : a = n * BlockSize /\ (n = 0 => a = 0)
    BY <1>6, BlockSizeAssumption
  <2>2. PICK k \in Nat : k = Len(c) /\ k <= Len(c)
    BY <1>4
  <2>3. Len(SubSeq(c, a + 1, k)) = IF a <= k THEN k - a ELSE 0
    BY ONLY <1>4, <2>1, <2>2, RangeProperties
  <2>4. b \o u = SubSeq(c, a + 1, k)
    BY <1>6, <2>1, <2>2 DEF RestOf
  <2>5. Len(b) \in Nat /\ Len(u) \in Nat /\ Len(b \o u) = Len(b) + Len(u) /\ Len(b) # 0
    BY <1>6, LenProperties, ConcatProperties, EmptySeq
  <2>6. a < k
    BY <2>3, <2>4, <2>5
  <2>7. n = 0 => Len(b) >= BlockSize
    BY <1>2, <1>3, <1>5, <2>5, BlockSizeAssumption DEF Small
  <2>. QED  BY <1>9, <2>1, <2>2, <2>3, <2>4, <2>5, <2>6, <2>7, BlockSizeAssumption
<1>11. PICK item : item = BlockItem
  OBVIOUS
<1>12. /\ item \in Items /\ item.kind = "block" /\ item.inode = i
       /\ item.data = BlockOf(c, n + 1)
  <2>1. item \in Items
    BY <1>1, <1>2, <1>11, BlockItemType
  <2>. QED  BY <1>3, <1>5, <1>8, <1>11, <2>1 DEF BlockItem
<1>13. Appends(Pending, item, Pending')
  BY <1>1, <1>2, <1>11, <1>12, PendingEnqueued
<1>14. Now' = Now
  BY <1>2, NowQueued
<1>15. PICK l, h : l = Drained /\ h = Handle(l, item)
  OBVIOUS
<1>16. /\ l \in Layouts /\ LaidOut(l, s, i, c, n)
       /\ dedup_enabled => l.kept = s.kept
  BY <1>1, <1>2, <1>3, <1>9, <1>15, DrainedType DEF WrittenAs
<1>17. LaidOut(h, s, i, c, n + 1) /\ h.kept = l.kept /\ Preserves(l, h)
  BY <1>4, <1>6, <1>12, <1>15, <1>16, LaidOutNext
<1>18. Drained' = h /\ Steady'
  BY <1>13, <1>14, <1>15, <1>17, DrainedQueued DEF Progress
<1>19. WrittenAs(s, n + 1)'
  <2>1. inode' = i /\ input'[inode'] = c
    BY <1>2, <1>3
  <2>. QED  BY <1>2, <1>16, <1>17, <1>18, <2>1 DEF WrittenAs, LaidOut
<1>20. PackedAs(s, s.small)'
  BY <1>2, <1>9 DEF PackedAs, Lists, packing, Inodes
<1>21. s = Done(inode - 1)'
  BY <1>2, <1>3, DoneSame
<1>22. PICK q, d : q = n + 1 /\ d = q - 1
  OBVIOUS
<1>23. /\ pc' = "push" /\ resume' = "read" /\ block_count' = q
       /\ q # 0 /\ d = n /\ input'[inode'] = c
  BY <1>2, <1>3, <1>6, <1>22 DEF Enqueue
<1>24. (block_count' - 1) * BlockSize < Len(input'[inode'])
  BY <1>10, <1>22, <1>23
<1>25. WrittenAs(s, block_count)' /\ BlockSize <= Len(input'[inode'])
  BY <1>10, <1>19, <1>22, <1>23
<1>26. BlocksDone'
  BY <1>20, <1>21, <1>23, <1>24, <1>25 DEF BlocksDone, At
<1>. QED
  BY <1>18, <1>23, <1>26 DEF Progress, FilesDone, Searched, Placing, At

-----------------------------------------------------------------------------
(* The client ends a file with blocks.                                     *)

\* The reports of all files, when that of one more is in the table.
LEMMA ReportsMore ==
  ASSUME NEW m \in Nat, NEW s, Sequential(s, m), NEW i \in Inodes, i = m + 1,
         NEW r \in Report, NEW us, us = Append(s.reports, r),
         NEW j \in Inodes, NEW f, j \in DOMAIN s.reports => f[j] = s.reports[j],
         j = i => f[j] = r, j \notin DOMAIN s.reports /\ j # i => f[j] = NoReport
  PROVE  f[j] = IF j \in DOMAIN us THEN us[j] ELSE NoReport
<1>1. PICK rs : rs = s.reports
  OBVIOUS
<1>2. rs \in Seq(Report) /\ Len(rs) = m
  BY <1>1, SequentialIs
<1>3. /\ DOMAIN rs = 1 .. m /\ DOMAIN us = 1 .. m + 1
      /\ us[m + 1] = r /\ \A k \in 1 .. m : us[k] = rs[k]
  BY <1>1, <1>2, AppendIs
<1>. QED  BY <1>1, <1>3 DEF Inodes

LEMMA PackedMore ==
  ASSUME NEW m \in Nat, NEW s, Sequential(s, m), NEW u,
         u.fragments = s.fragments, u.current = s.current, u.small = s.small,
         u.indices = Append(s.indices, NoFragment), PackedAs(s, s.small)
  PROVE  PackedAs(u, u.small)
<1>1. PICK p, up : p = s.indices /\ up = u.indices
  OBVIOUS
<1>2. p \in Seq(Place) /\ Len(p) = m /\ NoFragment \in Place
  BY <1>1, SequentialIs, NoReportType
<1>3. /\ DOMAIN p = 1 .. m /\ DOMAIN up = 1 .. m + 1
      /\ up[m + 1] = NoFragment /\ \A k \in 1 .. m : up[k] = p[k]
  BY <1>1, <1>2, AppendIs
<1>4. \A j \in Inodes :
        fragment_indices[j] = IF j \in 1 .. m + 1 THEN up[j] ELSE NoFragment
  BY <1>1, <1>3 DEF PackedAs, Inodes
<1>. QED  BY <1>1, <1>3, <1>4 DEF PackedAs

\* The bytes of what is behind all that was stored before, and in it.
LEMMA BytesInFile ==
  ASSUME NEW m \in Nat, NEW s, Sequential(s, m), NEW c \in Seq(Byte),
         NEW n \in Nat, NEW l, l.bytes = s.bytes \o StoredBlocks(c, n)
  PROVE  /\ BytesIn(l, BlocksReport(Len(s.bytes), c, n)) = StoredBlocks(c, n)
         /\ \A r \in Report : 0 <= r.start /\ EndOf(r) <= Len(s.bytes) =>
              BytesIn(l, r) = SubSeq(s.bytes, r.start + 1, r.start + r.len)
         /\ SubSeq(l.bytes, 1, Len(s.bytes)) = s.bytes
         /\ Len(l.bytes) = Len(s.bytes) + Len(StoredBlocks(c, n))
<1>1. PICK b, st : b = s.bytes /\ st = StoredBlocks(c, n)
  OBVIOUS
<1>2. b \in Seq(Byte) /\ st \in Seq(Byte) /\ Len(b) \in Nat /\ Len(st) \in Nat
  BY <1>1, SequentialIs, StoredType
<1>3. /\ SubSeq(b \o st, 1, Len(b)) = b
      /\ SubSeq(b \o st, Len(b) + 1, Len(b) + Len(st)) = st
  BY <1>2, ConcatParts
<1>4. Len(b \o st) = Len(b) + Len(st)
  BY <1>2, ConcatProperties
<1>5. BytesIn(l, BlocksReport(Len(s.bytes), c, n)) = StoredBlocks(c, n)
  <2>1. PICK a \in Nat : a = Len(b)
    BY <1>2
  <2>2. PICK r : r = BlocksReport(a, c, n)
    OBVIOUS
  <2>0. a \in Nat /\ n \in Nat /\ c \in Seq(Byte)
    OBVIOUS
  <2>3. BlocksReport(a, c, n).start = a
    BY ONLY <2>0, BlocksReportType
  <2>4. BlocksReport(a, c, n).len = Len(StoredBlocks(c, n))
    BY ONLY <2>0, BlocksReportType
  <2>. QED  BY <1>1, <1>3, <2>1, <2>2, <2>3, <2>4 DEF BytesIn
<1>6. ASSUME NEW r \in Report, 0 <= r.start, EndOf(r) <= Len(s.bytes)
      PROVE  BytesIn(l, r) = SubSeq(s.bytes, r.start + 1, r.start + r.len)
  <2>1. PICK x, y : x = r.start /\ y = r.start + r.len
    OBVIOUS
  <2>2. x \in Nat /\ y \in Nat /\ y <= Len(b)
    BY <1>1, <1>6, <2>1, EntriesEnd
  <2>3. SubSeq(b \o st, x + 1, y) = SubSeq(b, x + 1, y)
    BY ONLY <1>2, <2>2, PartOfConcat
  <2>. QED  BY <1>1, <2>1, <2>3 DEF BytesIn
<1>. QED  BY <1>1, <1>3, <1>4, <1>5, <1>6

\* The file is not compared: its blocks stay where they are.
LEMMA LaidOutKept ==
  ASSUME NEW l \in Layouts, NEW m \in Nat, NEW s, Sequential(s, m),
         NEW i \in Inodes, i = m + 1, NEW c \in Seq(Byte), NEW n \in Nat, n # 0,
         n = BlockCount(c), LaidOut(l, s, i, c, n), NEW u,
         u.fragments = s.fragments, u.bytes = s.bytes \o StoredBlocks(c, n),
         u.reports = Append(s.reports, BlocksReport(Len(s.bytes), c, n))
  PROVE  LaidOut(l, u, i, c, 0)
<1>1. PICK a \in Nat : a = Len(s.bytes)
  BY SequentialIs
<1>2. PICK own : own = BlocksReport(a, c, n)
  OBVIOUS
<1>3. own \in Report
  BY <1>2, BlocksReportType
<1>4. DOMAIN l.reports = Inodes
  BY LayoutFields
<1>5. PICK f : f = l.reports
  OBVIOUS
<1>6. /\ \A j \in Inodes : j \in DOMAIN s.reports => f[j] = s.reports[j]
      /\ \A j \in Inodes : j \notin DOMAIN s.reports /\ j # i => f[j] = NoReport
      /\ f[i] = own
  <2>1. i \notin DOMAIN s.reports
    BY SequentialIs
  <2>. QED  BY <1>1, <1>2, <1>4, <1>5, <2>1 DEF LaidOut
<1>7. u.reports = Append(s.reports, own) /\ DOMAIN f = Inodes
  BY <1>1, <1>2, <1>4, <1>5
<1>8. ASSUME NEW j \in Inodes
      PROVE  f[j] = IF j \in DOMAIN u.reports THEN u.reports[j] ELSE NoReport
  <2>1. PICK us : us = u.reports
    OBVIOUS
  <2>2. /\ j \in DOMAIN s.reports => f[j] = s.reports[j]
        /\ j = i => f[j] = own
        /\ j \notin DOMAIN s.reports /\ j # i => f[j] = NoReport
        /\ us = Append(s.reports, own)
    BY <1>6, <1>7, <2>1
  <2>3. f[j] = IF j \in DOMAIN us THEN us[j] ELSE NoReport
    <3>1. PICK rs : rs = s.reports
      OBVIOUS
    <3>2. m \in Nat /\ rs \in Seq(Report) /\ Len(rs) = m
      BY <3>1, SequentialIs
    <3>3. /\ DOMAIN rs = 1 .. m /\ DOMAIN us = 1 .. m + 1
          /\ us[m + 1] = own /\ \A k \in 1 .. m : us[k] = rs[k]
      BY ONLY <1>3, <2>2, <3>1, <3>2, AppendIs
    <3>. QED  BY <2>2, <3>1, <3>3 DEF Inodes
  <2>. QED  BY <2>1, <2>3
<1>9. u.bytes = l.bytes /\ u.fragments = l.fragments
  BY DEF LaidOut
<1>. QED  BY ONLY <1>4, <1>5, <1>8, <1>9 DEF LaidOut

\* The search among the kept files finds the same in both.
LEMMA SameBlocksIs ==
  ASSUME NEW l \in Layouts, NEW m \in Nat, NEW s, Sequential(s, m),
         NEW i \in Inodes, NEW c \in Seq(Byte), NEW n \in Nat, n # 0,
         LaidOut(l, s, i, c, n), l.kept = s.kept,
         NEW own, own = BlocksReport(Len(s.bytes), c, n)
  PROVE  SameInLayout(l, own) = SameBlocks(s, own, StoredBlocks(c, n))
<1>1. /\ s.reports \in Seq(Report) /\ DOMAIN s.reports = 1 .. m
      /\ Within(s.reports, Len(s.bytes)) /\ Len(s.reports) = m
      /\ \A k \in DOMAIN s.kept : s.kept[k] \in 1 .. m
  BY SequentialIs DEF Sequential
<1>2. l.bytes = s.bytes \o StoredBlocks(c, n) /\ DOMAIN l.reports = Inodes
  BY LayoutFields DEF LaidOut
<1>3. /\ BytesIn(l, own) = StoredBlocks(c, n)
      /\ \A r \in Report : 0 <= r.start /\ EndOf(r) <= Len(s.bytes) =>
           BytesIn(l, r) = SubSeq(s.bytes, r.start + 1, r.start + r.len)
  <2>1. /\ m \in Nat /\ Sequential(s, m) /\ c \in Seq(Byte) /\ n \in Nat
        /\ l.bytes = s.bytes \o StoredBlocks(c, n)
    BY <1>2
  <2>2. BytesIn(l, BlocksReport(Len(s.bytes), c, n)) = StoredBlocks(c, n)
    BY ONLY <2>1, BytesInFile
  <2>3. \A r \in Report : 0 <= r.start /\ EndOf(r) <= Len(s.bytes) =>
           BytesIn(l, r) = SubSeq(s.bytes, r.start + 1, r.start + r.len)
    BY ONLY <2>1, <2>2, BytesInFile
  <2>. QED  BY <2>2, <2>3
<1>4. /\ SameInLayout(l, own) \subseteq DOMAIN l.kept
      /\ \A k \in DOMAIN l.kept : l.kept[k] \in Inodes
      /\ \A k \in DOMAIN l.kept :
           k \in SameInLayout(l, own) <=>
             /\ l.reports[l.kept[k]].sizes = own.sizes
             /\ BytesIn(l, l.reports[l.kept[k]]) = BytesIn(l, own)
  BY SameInLayoutIs
<1>5. ASSUME NEW k \in DOMAIN s.kept
      PROVE  k \in SameInLayout(l, own) <=> k \in SameBlocks(s, own, StoredBlocks(c, n))
  <2>1. PICK j : j = s.kept[k]
    OBVIOUS
  <2>2. j \in 1 .. m /\ j \in Inodes
    BY <1>1, <1>4, <2>1
  <2>3. PICK r : r = s.reports[j]
    OBVIOUS
  <2>4. r \in Report
    BY <1>1, <2>2, <2>3, ElementOfSeq
  <2>5. 0 <= r.start /\ EndOf(r) <= Len(s.bytes)
    BY <1>1, <2>2, <2>3 DEF Within
  <2>6. l.reports[j] = r
    BY <1>1, <1>2, <2>2, <2>3 DEF LaidOut
  <2>7. BytesIn(l, r) = SubSeq(s.bytes, r.start + 1, r.start + r.len)
    BY <1>3, <2>4, <2>5
  <2>8. k \in SameBlocks(s, own, StoredBlocks(c, n)) <=>
          /\ r.sizes = own.sizes
          /\ SubSeq(s.bytes, r.start + 1, r.start + r.len) = StoredBlocks(c, n)
    BY <2>1, <2>3 DEF SameBlocks
  <2>. QED  BY <1>3, <1>4, <2>1, <2>6, <2>7, <2>8
<1>6. SameBlocks(s, own, StoredBlocks(c, n)) \subseteq DOMAIN s.kept
  BY DEF SameBlocks
<1>. QED  BY <1>4, <1>5, <1>6

\* The file is compared with those that are kept.
LEMMA LaidOutCompared ==
  ASSUME NEW l \in Layouts, NEW m \in Nat, NEW s, Sequential(s, m),
         NEW i \in Inodes, i = m + 1, NEW c \in Seq(Byte), NEW n \in Nat, n # 0,
         n = BlockCount(c), LaidOut(l, s, i, c, n), l.kept = s.kept,
         NEW item, item.kind = "dedup", item.inode = i,
         NEW h, h = Handle(l, item), Compares,
         NEW u, u = AddBlocks(s, c, dedup_enabled)
  PROVE  LaidOut(h, u, i, c, 0) /\ h.kept = u.kept /\ Preserves(l, h)
<1>1. PICK st, a : st = StoredBlocks(c, n) /\ a = Len(s.bytes)
  OBVIOUS
<1>2. st \in Seq(Byte) /\ Len(st) \in Nat /\ s.bytes \in Seq(Byte) /\ a \in Nat
  BY <1>1, StoredType, SequentialIs
<1>3. PICK own : own = BlocksReport(a, c, n)
  OBVIOUS
<1>4. own \in Report /\ BlocksReport(a, c, n).len = Len(StoredBlocks(c, n))
  <2>1. a \in Nat /\ n \in Nat /\ c \in Seq(Byte)
    BY <1>2
  <2>2. BlocksReport(a, c, n) \in Report
    BY ONLY <2>1, BlocksReportType
  <2>3. BlocksReport(a, c, n).len = Len(StoredBlocks(c, n))
    BY ONLY <2>1, BlocksReportType
  <2>. QED  BY ONLY <1>3, <2>2, <2>3
<1>5. own.len = Len(st)
  BY <1>1, <1>3, <1>4
<1>6. PICK same : same = SameBlocks(s, own, st)
  OBVIOUS
<1>7. SameInLayout(l, own) = same
  BY <1>1, <1>3, <1>6, SameBlocksIs
<1>8. /\ u.fragments = s.fragments
      /\ same # {} =>
           /\ u.bytes = s.bytes /\ u.kept = s.kept
           /\ u.reports = Append(s.reports, s.reports[s.kept[Min(same)]])
      /\ same = {} =>
           /\ u.bytes = s.bytes \o st /\ u.kept = Append(s.kept, m + 1)
           /\ u.reports = Append(s.reports, own)
  <2>1. /\ own = OwnBlocks(s, c) /\ same = SharedBlocks(s, c)
        /\ st = StoredBlocks(c, BlockCount(c))
    BY <1>1, <1>3, <1>6 DEF OwnBlocks, SharedBlocks
  <2>2. /\ m \in Nat /\ Sequential(s, m) /\ c \in Seq(Byte)
        /\ u = AddBlocks(s, c, dedup_enabled)
    OBVIOUS
  <2>3. Shares(s, c) <=> same # {}
    BY <2>1 DEF Shares
  <2>4. u.fragments = s.fragments
    BY ONLY <2>2, AddBlocksIs
  <2>5. Shares(s, c) => /\ u.bytes = s.bytes /\ u.kept = s.kept
           /\ u.reports = Append(s.reports, s.reports[s.kept[Min(SharedBlocks(s, c))]])
    BY ONLY <2>2, AddBlocksIs
  <2>6. ~Shares(s, c) => u.bytes = s.bytes \o StoredBlocks(c, BlockCount(c))
    <3>1. ~Shares(s, c) => AddedAfter(s, c, u)
      BY ONLY <2>2, AddedBlocks
    <3>. QED  BY ONLY <3>1 DEF AddedAfter
  <2>7. ~Shares(s, c) => u.kept = Append(s.kept, m + 1)
    BY ONLY <2>2, AddBlocksIs
  <2>8. ~Shares(s, c) => u.reports = Append(s.reports, OwnBlocks(s, c))
    BY ONLY <2>2, AddBlocksIs
  <2>. QED  BY ONLY <2>1, <2>3, <2>4, <2>5, <2>6, <2>7, <2>8
<1>9. /\ DOMAIN l.reports = Inodes /\ l.fragments = s.fragments
      /\ l.bytes = s.bytes \o st /\ l.bytes \in Seq(Byte)
      /\ l.reports \in [Inodes -> Report]
  BY <1>1, LayoutFields DEF LaidOut
<1>10. l.reports[i] = own
  <2>1. i \notin DOMAIN s.reports
    BY SequentialIs
  <2>. QED  BY <1>1, <1>3, <1>9, <2>1 DEF LaidOut
<1>11. /\ h.fragments = l.fragments /\ h \in Layouts
       /\ same = {} => /\ h.bytes = l.bytes /\ h.reports = l.reports
                       /\ h.kept = Append(l.kept, i)
       /\ same # {} => /\ h.bytes = SubSeq(l.bytes, 1, Len(l.bytes) - own.len)
                       /\ h.reports = [l.reports EXCEPT ![i] =
                                         l.reports[l.kept[Min(same)]]]
                       /\ h.kept = l.kept
  <2>1. item.kind = "dedup" /\ item.inode \in Inodes
    OBVIOUS
  <2>2. PICK j : j = item.inode
    OBVIOUS
  <2>3. PICK r, found : r = l.reports[j] /\ found = SameInLayout(l, r)
    OBVIOUS
  <2>4. /\ h.fragments = l.fragments /\ h \in Layouts
        /\ found = {} => /\ h.bytes = l.bytes /\ h.reports = l.reports
                         /\ h.kept = Append(l.kept, j)
        /\ found # {} => /\ h.bytes = SubSeq(l.bytes, 1, Len(l.bytes) - r.len)
                         /\ h.reports = [l.reports EXCEPT ![j] =
                                           l.reports[l.kept[Min(found)]]]
                         /\ h.kept = l.kept
    BY <2>1, <2>2, <2>3, HandleDedupIs
  <2>. QED  BY <1>7, <1>10, <2>2, <2>3, <2>4
<1>12. /\ SubSeq(l.bytes, 1, a) = s.bytes /\ Len(l.bytes) = a + Len(st)
  BY <1>1, <1>9, BytesInFile
<1>13. CASE same = {}
  <2>1. LaidOut(l, u, i, c, 0)
    BY <1>1, <1>3, <1>8, <1>13, LaidOutKept
  <2>2. h.bytes = l.bytes /\ h.reports = l.reports /\ h.fragments = l.fragments
    BY <1>11, <1>13
  <2>3. LaidOut(h, u, i, c, 0)
    BY <2>1, <2>2 DEF LaidOut
  <2>5. Preserves(l, h)
    BY <1>9, <2>2, LayoutFields, LenProperties DEF Preserves, BytesIn
  <2>. QED  BY <1>8, <1>11, <1>13, <2>3, <2>5
<1>14. CASE same # {}
  <2>1. /\ h.bytes = s.bytes
    <3>1. Len(l.bytes) - own.len = a
      BY <1>2, <1>5, <1>12
    <3>. QED  BY <1>11, <1>12, <1>14, <3>1
  <2>2. PICK k, r : k = s.kept[Min(same)] /\ r = s.reports[k]
    OBVIOUS
  <2>3. k \in 1 .. m /\ k \in Inodes /\ DOMAIN s.reports = 1 .. m /\ r \in Report
    <3>1. /\ same \subseteq Nat /\ same \subseteq DOMAIN l.kept
          /\ \A j \in DOMAIN l.kept : l.kept[j] \in Inodes
      BY <1>7, SameInLayoutIs
    <3>2. Min(same) \in same
      BY <1>14, <3>1, LeastIs
    <3>3. /\ s.reports \in Seq(Report) /\ DOMAIN s.reports = 1 .. m
          /\ Len(s.reports) = m
          /\ \A j \in DOMAIN s.kept : s.kept[j] \in 1 .. m
      BY SequentialIs DEF Sequential
    <3>4. k \in 1 .. m /\ k \in Inodes
      BY <2>2, <3>1, <3>2, <3>3
    <3>. QED  BY <2>2, <3>3, <3>4, ElementOfSeq
  <2>4. l.reports[l.kept[Min(same)]] = r
    BY <1>9, <2>2, <2>3 DEF LaidOut
  <2>5. h.reports = [l.reports EXCEPT ![i] = r]
    BY <1>11, <1>14, <2>4
  <2>6. PICK f, us : f = h.reports /\ us = u.reports
    OBVIOUS
  <2>7. us = Append(s.reports, r) /\ DOMAIN f = Inodes
    BY <1>8, <1>9, <1>14, <2>2, <2>5, <2>6
  <2>8. ASSUME NEW j \in Inodes
        PROVE  f[j] = IF j \in DOMAIN us THEN us[j] ELSE NoReport
    <3>1. f[j] = IF j = i THEN r ELSE l.reports[j]
      BY <1>9, <2>5, <2>6
    <3>2. /\ j \in DOMAIN s.reports => f[j] = s.reports[j]
          /\ j = i => f[j] = r
          /\ j \notin DOMAIN s.reports /\ j # i => f[j] = NoReport
      <4>1. i \notin DOMAIN s.reports
        BY <2>3
      <4>. QED  BY <1>9, <3>1, <4>1 DEF LaidOut
    <3>. QED  BY <2>3, <2>7, <3>2, ReportsMore
  <2>9. LaidOut(h, u, i, c, 0)
    <3>1. u.bytes = s.bytes /\ u.fragments = s.fragments
      BY <1>8, <1>14
    <3>2. h.fragments = s.fragments
      BY <1>9, <1>11
    <3>. QED  BY ONLY <2>1, <2>6, <2>7, <2>8, <3>1, <3>2 DEF LaidOut
  <2>10. Preserves(l, h)
    <3>1. Within(l.fragments, a)
      BY <1>1, <1>9 DEF Sequential
    <3>2. a <= Len(l.bytes) /\ a <= Len(h.bytes)
      BY <1>1, <1>2, <1>12, <2>1
    <3>3. SubSeq(h.bytes, 1, a) = s.bytes
      <4>1. PICK sb : sb = s.bytes /\ sb \in Seq(Byte) /\ a = Len(sb)
        BY <1>1, <1>2
      <4>2. SubSeq(sb \o <<>>, 1, Len(sb)) = sb /\ sb \o <<>> = sb
        BY <4>1, ConcatParts, EmptySeq, ConcatEmptySeq
      <4>. QED  BY <2>1, <4>1, <4>2
    <3>4. h.fragments = l.fragments
      BY <1>11
    <3>. QED  BY <1>2, <1>11, <1>12, <3>1, <3>2, <3>3, <3>4, PreservesGrown
  <2>. QED  BY <1>8, <1>11, <1>14, <2>9, <2>10
<1>. QED  BY <1>13, <1>14

\* All blocks of the file have been cut.
LEMMA FileIsCut ==
  ASSUME IInv, Healthy, Progress, pc = "read", unread = <<>>, block_count # 0
  PROVE  /\ block_count \in Nat /\ BlockCount(input[inode]) = block_count
         /\ Done(inode) = AddBlocks(Done(inode - 1), input[inode], dedup_enabled)
<1>1. TypeOK /\ Control /\ ChunkInHand /\ NothingLost /\ inode \in Nat
  BY PartsOf
<1>2. PICK i, n, c : i = inode /\ n = block_count /\ c = input[inode]
  OBVIOUS
<1>3. InFile
  BY DEF InFile, At
<1>4. /\ i \in Inodes /\ i \in 1 .. i /\ c \in Seq(Byte) /\ Len(c) \in Nat
      /\ n \in Nat /\ n # 0
      /\ Done(inode) = AddFile(Done(inode - 1), c, dedup_enabled)
  BY <1>1, <1>2, <1>3, InFileIs DEF TypeOK, ReadingOK, Inodes
<1>5. (n - 1) * BlockSize < Len(c) /\ BlockSize <= Len(c)
  BY <1>2, <1>4 DEF Progress, BlocksDone, At
<1>6. RestKept(i, n)
  <2>1. FileKept(i)
    BY <1>1, <1>2, <1>4 DEF NothingLost
  <2>. QED  BY <1>2, <2>1 DEF FileKept
<1>7. Rest(i, n) = <<>>
  <2>1. Unpacked(i) = <<>> \o <<>>
    BY <1>1, <1>2 DEF Unpacked, ChunkInHand, At
  <2>2. <<>> \o <<>> = <<>>
    BY EmptySeq, ConcatEmptySeq
  <2>. QED  BY <1>4, <1>6, <2>1, <2>2 DEF RestKept
<1>8. Len(c) <= n * BlockSize
  <2>1. PICK a \in Nat : a = n * BlockSize
    BY <1>4, BlockSizeAssumption
  <2>2. PICK k \in Nat : k = Len(c) /\ k <= Len(c)
    BY <1>4
  <2>3. Len(SubSeq(c, a + 1, k)) = IF a <= k THEN k - a ELSE 0
    BY ONLY <1>4, <2>1, <2>2, RangeProperties
  <2>4. SubSeq(c, a + 1, k) = <<>>
    BY <1>2, <1>7, <2>1, <2>2 DEF Rest
  <2>5. Len(SubSeq(c, a + 1, k)) = 0
    BY <2>4, EmptySeq
  <2>. QED  BY <2>1, <2>2, <2>3, <2>5
<1>9. BlockCount(c) = n
  BY <1>4, <1>5, <1>8, BlockCountIs
<1>10. c # <<>> /\ ~(Len(c) < BlockSize)
  BY <1>4, <1>5, EmptySeq, BlockSizeAssumption
<1>11. Done(inode) = AddBlocks(Done(inode - 1), c, dedup_enabled)
  BY <1>4, <1>10 DEF AddFile
<1>. QED  BY <1>2, <1>4, <1>9, <1>11

LEMMA ProgressFinalize ==
  ASSUME IInv, Healthy, Progress, Finalize
  PROVE  Progress'
<1>1. TypeOK /\ Control /\ Ordered
  BY PartsOf
<1>2. /\ pc = "read" /\ unread = <<>> /\ ~writer_failed /\ stream = "good" /\ InFile
      /\ UNCHANGED <<input, dedup_enabled, inode, packing, unread, block_count>>
      /\ UNCHANGED <<held, queue, disk, layout, tell, wpc>>
  BY DEF Finalize, Healthy, InFile, At, options, reading, writer, channel
<1>3. PICK u : u = Done(inode)
  OBVIOUS
<1>4. u = Done(inode)'
  BY <1>2, <1>3, DoneSame
<1>5. CASE block_count = 0
  <2>1. Agrees(u)
    BY <1>2, <1>3, <1>5 DEF Progress, BlocksDone, At
  <2>2. pc' = "next" /\ UNCHANGED <<resume, pushing>>
    BY <1>5 DEF Finalize
  <2>3. Drained' = Drained /\ Steady'
    BY <1>2, <2>2, ClientQuiet DEF Progress
  <2>4. Agrees(u)'
    BY <1>2, <2>1, <2>3, AgreesSame
  <2>. QED
    BY <1>4, <2>2, <2>3, <2>4
    DEF Progress, FilesDone, BlocksDone, Searched, Placing, At
<1>6. CASE block_count # 0
  <2>1. PICK i, m, n, c, s : /\ i = inode /\ m = inode - 1 /\ n = block_count
                             /\ c = input[inode] /\ s = Done(inode - 1)
    OBVIOUS
  <2>2. /\ i \in Inodes /\ m \in Nat /\ i = m + 1 /\ Sequential(s, m)
        /\ c \in Seq(Byte)
    BY <1>2, <2>1, InFileIs
  <2>3. n \in Nat /\ n = BlockCount(c) /\ n # 0 /\ u = AddBlocks(s, c, dedup_enabled)
    BY <1>2, <1>3, <1>6, <2>1, FileIsCut
  <2>4. WrittenAs(s, n) /\ PackedAs(s, s.small)
    BY <1>2, <1>6, <2>1 DEF Progress, BlocksDone, At
  <2>5. PICK l : l = Drained
    OBVIOUS
  <2>6. /\ l \in Layouts /\ LaidOut(l, s, i, c, n)
        /\ dedup_enabled => l.kept = s.kept
    BY <1>1, <1>2, <2>1, <2>4, <2>5, DrainedType DEF WrittenAs
  <2>7. PackedAs(u, u.small)
    <3>1. u.fragments = s.fragments
      BY <2>2, <2>3, AddBlocksIs
    <3>2. u.current = s.current
      BY <2>2, <2>3, AddBlocksIs
    <3>3. u.small = s.small
      BY <2>2, <2>3, AddBlocksIs
    <3>4. u.indices = Append(s.indices, NoFragment)
      BY <2>2, <2>3, AddBlocksIs
    <3>. QED  BY ONLY <2>2, <2>4, <3>1, <3>2, <3>3, <3>4, PackedMore
  <2>8. PackedAs(u, u.small)'
    BY <1>2, <2>7 DEF PackedAs, Lists, packing, Inodes
  <2>9. inode' = i /\ input'[inode'] = c
    BY <1>2, <2>1
  <2>10. CASE dedup_enabled
    <3>1. Enqueue(DedupItem, "next")
      BY <1>6, <2>10 DEF Finalize
    <3>2. PICK item : item = DedupItem
      OBVIOUS
    <3>3. item \in Items /\ item.kind = "dedup" /\ item.inode = i
      <4>1. item \in Items
        BY <1>1, <1>2, <3>2, BlockItemType
      <4>. QED  BY <2>1, <3>2, <4>1 DEF DedupItem
    <3>4. Appends(Pending, item, Pending')
      BY <1>1, <1>2, <3>1, <3>2, <3>3, PendingEnqueued
    <3>5. Now' = Now
      BY <1>2, NowQueued
    <3>6. PICK h : h = Handle(l, item)
      OBVIOUS
    <3>7. LaidOut(h, u, i, c, 0) /\ h.kept = u.kept /\ Preserves(l, h)
      <4>1. Compares /\ l.kept = s.kept
        BY <2>6, <2>10 DEF Compares
      <4>. QED  BY <2>2, <2>3, <2>6, <3>3, <3>6, <4>1, LaidOutCompared
    <3>8. Drained' = h /\ Steady'
      BY <2>5, <3>4, <3>5, <3>6, <3>7, DrainedQueued DEF Progress
    <3>9. WrittenAs(u, 0)'
      BY <2>9, <3>7, <3>8 DEF WrittenAs, LaidOut
    <3>10. pc' = "push" /\ resume' = "next"
      BY <1>2, <3>1 DEF Enqueue
    <3>11. Agrees(u)'
      BY <2>8, <3>9 DEF Agrees
    <3>. QED
      BY <1>4, <3>8, <3>10, <3>11
      DEF Progress, FilesDone, BlocksDone, Searched, Placing, At
  <2>11. CASE ~dedup_enabled
    <3>1. pc' = "next" /\ UNCHANGED <<resume, pushing>>
      BY <2>11 DEF Finalize
    <3>2. Drained' = l /\ Steady'
      BY <1>2, <2>5, <3>1, ClientQuiet DEF Progress
    <3>3. LaidOut(l, u, i, c, 0)
      <4>0. ~Shares(s, c)
        BY <2>11 DEF Shares, Compares
      <4>1. u.fragments = s.fragments
        BY <2>2, <2>3, AddBlocksIs
      <4>6. u = AddBlocks(s, c, dedup_enabled)
        BY <2>3
      <4>5. u.bytes = s.bytes \o StoredBlocks(c, BlockCount(c))
        <5>1. AddedAfter(s, c, u)
          BY ONLY <2>2, <4>0, <4>6, AddedBlocks
        <5>. QED  BY ONLY <5>1 DEF AddedAfter
      <4>2. u.bytes = s.bytes \o StoredBlocks(c, n)
        BY <2>3, <4>5
      <4>3. u.reports = Append(s.reports, OwnBlocks(s, c))
        BY <2>2, <2>3, <4>0, AddBlocksIs
      <4>4. OwnBlocks(s, c) = BlocksReport(Len(s.bytes), c, n)
        BY <2>3 DEF OwnBlocks
      <4>. QED  BY <2>2, <2>3, <2>6, <4>1, <4>2, <4>3, <4>4, LaidOutKept
    <3>4. WrittenAs(u, 0)'
      BY <1>2, <2>9, <2>11, <3>2, <3>3 DEF WrittenAs, LaidOut
    <3>5. Agrees(u)'
      BY <2>8, <3>4 DEF Agrees
    <3>. QED
      BY <1>4, <3>1, <3>2, <3>5
      DEF Progress, FilesDone, BlocksDone, Searched, Placing, At
  <2>. QED  BY <2>10, <2>11
<1>. QED  BY <1>5, <1>6

-----------------------------------------------------------------------------
(* The client looks for a duplicate of a small file.                       *)

LEMMA ReverseIs ==
  ASSUME NEW list \in Seq(Inodes), NEW r, r = Reverse(list)
  PROVE  /\ Len(list) \in Nat /\ Len(r) = Len(list) /\ DOMAIN r = 1 .. Len(list)
         /\ \A k \in DOMAIN r : r[k] = list[Len(r) - k + 1]
<1>1. PICK n \in Nat : n = Len(list) /\ DOMAIN list = 1 .. n
  BY LenProperties
<1>2. r = [k \in 1 .. n |-> list[(n - k) + 1]]
  BY <1>1 DEF Reverse
<1>3. ASSUME NEW k \in 1 .. n PROVE list[(n - k) + 1] \in Inodes
  BY <1>1, ElementOfSeq
<1>4. r \in Seq(Inodes) /\ Len(r) = n
  BY <1>2, <1>3, IsASeq, LenProperties
<1>. QED  BY <1>1, <1>2, <1>4

LEMMA ProgressPutFragment ==
  ASSUME IInv, Healthy, Progress, PutFragment
  PROVE  Progress'
<1>1. TypeOK /\ inode \in Nat
  BY PartsOf
<1>2. PICK s : s = Done(inode - 1)
  OBVIOUS
<1>3. /\ UNCHANGED <<input, dedup_enabled, inode, packing, current_block>>
      /\ UNCHANGED <<disk, layout, tell, wpc, held, queue, pushing>>
      /\ pc = "flush" /\ block_count = 0 /\ Len(current_block) < BlockSize
  BY DEF PutFragment, Small, options, reading, writer, channel
<1>4. Drained' = Drained /\ Steady'
  BY <1>3, ClientQuiet DEF Progress
<1>5. Agrees(s)
  BY <1>2, <1>3 DEF Progress, BlocksDone, At
<1>6. s = Done(inode - 1)'
  BY <1>2, <1>3, DoneSame
<1>7. CASE dedup_enabled
  <2>1. /\ pc' = "lookup"
        /\ candidates' = Reverse(fragmented_duplicates[Checksum(current_block)])
    BY <1>7 DEF PutFragment
  <2>2. PICK list : list = fragmented_duplicates[Checksum(current_block)]
    OBVIOUS
  <2>3. list \in Seq(Inodes)
    <3>1. Checksum(current_block) \in Checksums
      BY <1>1, ChecksumAssumption DEF TypeOK, ReadingOK
    <3>. QED  BY <1>1, <2>2, <3>1 DEF TypeOK, PackingOK
  <2>4. PICK r : r = Reverse(list)
    OBVIOUS
  <2>5. /\ Len(list) \in Nat /\ Len(r) = Len(list)
        /\ \A k \in DOMAIN r : r[k] = list[Len(r) - k + 1]
    BY <2>3, <2>4, ReverseIs
  <2>6. candidates' = r /\ fragmented_duplicates'[Checksum(current_block')] = list
    BY <1>3, <2>1, <2>2, <2>4 DEF packing
  <2>7. Agrees(s)'
    BY <1>3, <1>4, <1>5, AgreesSame
  <2>8. Searched'
    BY <1>3, <1>6, <1>7, <2>5, <2>6, <2>7 DEF Searched
  <2>. QED
    BY <1>4, <2>1, <2>8 DEF Progress, FilesDone, BlocksDone, Placing, At
<1>8. CASE ~dedup_enabled
  <2>1. pc' = "place"
    BY <1>8 DEF PutFragment
  <2>2. PICK small : small = s.small \cup {[file |-> inode,
                                            checksum |-> Checksum(current_block)]}
    OBVIOUS
  <2>3. WrittenAs(s, 0) /\ PackedAs(s, small)
    BY <1>5, <1>8 DEF Agrees, PackedAs
  <2>4. WrittenAs(s, 0)' /\ PackedAs(s, small)'
    BY <1>3, <1>4, <2>3, AgreesSame
  <2>5. small = s.small \cup {[file |-> inode', checksum |-> Checksum(current_block')]}
    BY <1>3, <2>2
  <2>6. Placing'
    BY <1>3, <1>6, <1>8, <2>4, <2>5 DEF Placing
  <2>. QED
    BY <1>4, <2>1, <2>6 DEF Progress, FilesDone, BlocksDone, Searched, At
<1>. QED  BY <1>7, <1>8

LEMMA ProgressGetFragmentEntry ==
  ASSUME IInv, Healthy, Progress, GetFragmentEntry
  PROVE  Progress'
<1>1. PICK s : s = Done(inode - 1)
  OBVIOUS
<1>2. /\ UNCHANGED <<input, dedup_enabled, inode, packing, current_block, candidates>>
      /\ UNCHANGED <<disk, layout, tell, wpc, held, queue, pushing>>
      /\ pc = "lookup" /\ pc' = "compare"
  BY DEF GetFragmentEntry, options, reading, writer, channel
<1>3. Drained' = Drained /\ Steady'
  BY <1>2, ClientQuiet DEF Progress
<1>4. s = Done(inode - 1)'
  BY <1>1, <1>2, DoneSame
<1>5. Agrees(s) => Agrees(s)'
  BY <1>2, <1>3, AgreesSame
<1>6. Searched'
  BY <1>1, <1>2, <1>4, <1>5 DEF Progress, Searched, packing
<1>. QED
  BY <1>2, <1>3, <1>6 DEF Progress, FilesDone, BlocksDone, Placing, At

\* What Searched says of the list.
LEMMA ListIs ==
  ASSUME IInv, Searched, pc \in {"lookup", "compare"},
         NEW s, s = Done(inode - 1), NEW x, x = Checksum(current_block),
         NEW list, list = fragmented_duplicates[x]
  PROVE  /\ x \in Checksums /\ list \in Seq(Inodes) /\ Len(list) \in Nat
         /\ DOMAIN list = 1 .. Len(list)
         /\ candidates \in Seq(Inodes) /\ Len(candidates) \in Nat
         /\ Len(candidates) <= Len(list) /\ DOMAIN candidates = 1 .. Len(candidates)
         /\ dedup_enabled /\ Len(current_block) < BlockSize /\ Agrees(s)
         /\ Lists(list, {i \in Inodes : [file |-> i, checksum |-> x] \in s.small})
         /\ \A k \in DOMAIN candidates : candidates[k] = list[Len(candidates) - k + 1]
         /\ \A k \in Len(candidates) + 1 .. Len(list) :
              list[k] \notin SameContents(s, current_block)
<1>1. TypeOK
  BY PartsOf
<1>2. x \in Checksums
  BY <1>1, ChecksumAssumption DEF TypeOK, ReadingOK
<1>3. list \in Seq(Inodes) /\ candidates \in Seq(Inodes)
  BY <1>1, <1>2 DEF TypeOK, PackingOK, SearchOK
<1>4. /\ Len(list) \in Nat /\ DOMAIN list = 1 .. Len(list)
      /\ Len(candidates) \in Nat /\ DOMAIN candidates = 1 .. Len(candidates)
  BY <1>3, LenProperties
<1>5. dedup_enabled /\ Agrees(s)
  BY DEF Searched
<1>6. Lists(list, {i \in Inodes : [file |-> i, checksum |-> x] \in s.small})
  BY <1>2, <1>5 DEF Agrees, PackedAs
<1>7. /\ Len(candidates) <= Len(list) /\ Len(current_block) < BlockSize
      /\ \A k \in DOMAIN candidates : candidates[k] = list[Len(candidates) - k + 1]
      /\ \A k \in Len(candidates) + 1 .. Len(list) :
           list[k] \notin SameContents(s, current_block)
  BY DEF Searched
<1>. QED  BY <1>2, <1>3, <1>4, <1>5, <1>6, <1>7

-----------------------------------------------------------------------------
(* No earlier file is equal: the client lists this one.                    *)

LEMMA ListsAppend ==
  ASSUME NEW list \in Seq(Inodes), NEW S, Lists(list, S), NEW i \in Inodes,
         \A j \in S : j < i, NEW more, more = Append(list, i)
  PROVE  Lists(more, S \cup {i})
<1>1. PICK n \in Nat : Len(list) = n
  BY LenProperties
<1>2. /\ DOMAIN list = 1 .. n /\ DOMAIN more = 1 .. n + 1
      /\ more[n + 1] = i /\ \A k \in 1 .. n : more[k] = list[k]
  BY <1>1, AppendIs
<1>3. /\ {list[k] : k \in DOMAIN list} = S
      /\ \A k, l \in DOMAIN list : k < l => list[k] < list[l]
  BY DEF Lists
<1>4. \A k \in 1 .. n : list[k] \in S
  BY <1>2, <1>3
<1>5. {more[k] : k \in DOMAIN more} = S \cup {i}
  <2>1. ASSUME NEW k \in 1 .. n + 1 PROVE more[k] \in S \cup {i}
    BY <1>2, <1>4
  <2>2. ASSUME NEW j \in S PROVE j \in {more[k] : k \in DOMAIN more}
    <3>1. PICK k \in 1 .. n : list[k] = j
      BY <1>2, <1>3
    <3>2. k \in 1 .. n + 1 /\ more[k] = j
      BY <1>2, <3>1
    <3>. QED  BY <1>2, <3>2
  <2>3. i \in {more[k] : k \in DOMAIN more}
    BY <1>2
  <2>. QED  BY <1>2, <2>1, <2>2, <2>3
<1>6. ASSUME NEW k \in DOMAIN more, NEW l \in DOMAIN more, k < l
      PROVE  more[k] < more[l]
  <2>1. k \in 1 .. n
    BY <1>2, <1>6
  <2>2. CASE l \in 1 .. n
    BY <1>2, <1>3, <1>6, <2>1, <2>2
  <2>3. CASE l = n + 1
    BY <1>2, <1>4, <2>1, <2>3
  <2>. QED  BY <1>2, <2>2, <2>3
<1>. QED  BY <1>5, <1>6 DEF Lists

LEMMA ProgressNoDuplicate ==
  ASSUME IInv, Healthy, Progress, NoDuplicate
  PROVE  Progress'
<1>1. TypeOK /\ Control
  BY PartsOf
<1>2. PICK i, s, x, list : /\ i = inode /\ s = Done(inode - 1)
                           /\ x = Checksum(current_block)
                           /\ list = fragmented_duplicates[x]
  OBVIOUS
<1>3. /\ pc = "lookup" /\ pc' = "place" /\ candidates = <<>>
      /\ fragmented_duplicates' = [fragmented_duplicates EXCEPT ![x] = Append(@, i)]
      /\ UNCHANGED <<input, dedup_enabled, inode, current_block>>
      /\ UNCHANGED <<current_fragment, fragment_count, fragment_indices>>
      /\ UNCHANGED <<disk, layout, tell, wpc, held, queue, pushing>>
  BY <1>2 DEF NoDuplicate, options, reading, writer, channel
<1>4. Drained' = Drained /\ Steady'
  BY <1>3, ClientQuiet DEF Progress
<1>5. PICK m : m = inode - 1
  OBVIOUS
<1>6. /\ i \in Inodes /\ m \in Nat /\ i = m + 1 /\ Sequential(s, m) /\ InFile
  BY <1>2, <1>3, <1>5, InFileIs DEF InFile, At
<1>. DEFINE S(y) == {j \in Inodes : [file |-> j, checksum |-> y] \in s.small}
<1>7. /\ x \in Checksums /\ list \in Seq(Inodes) /\ Len(list) \in Nat
      /\ DOMAIN list = 1 .. Len(list) /\ Len(candidates) = 0
      /\ dedup_enabled /\ Len(current_block) < BlockSize /\ Agrees(s)
      /\ Lists(list, S(x))
      /\ \A k \in Len(candidates) + 1 .. Len(list) :
           list[k] \notin SameContents(s, current_block)
  <2>1. IInv /\ Searched /\ pc \in {"lookup", "compare"} /\ s = Done(inode - 1)
    BY <1>2, <1>3 DEF Progress
  <2>2. /\ x \in Checksums /\ list \in Seq(Inodes) /\ Len(list) \in Nat
        /\ DOMAIN list = 1 .. Len(list)
        /\ dedup_enabled /\ Len(current_block) < BlockSize /\ Agrees(s)
    BY ONLY <1>2, <2>1, ListIs
  <2>3. Lists(list, S(x))
    BY <1>2, <2>1, ListIs
  <2>4. \A k \in Len(candidates) + 1 .. Len(list) :
          list[k] \notin SameContents(s, current_block)
    BY ONLY <1>2, <2>1, ListIs
  <2>5. Len(candidates) = 0
    BY <1>3, EmptySeq
  <2>. QED  BY ONLY <2>2, <2>3, <2>4, <2>5
<1>8. \A y \in Checksums : \A j \in S(y) : j < i
  <2>1. \A q \in s.small : q.file \in 1 .. m
    BY <1>6 DEF Sequential
  <2>. QED  BY <1>6, <2>1
<1>9. SameContents(s, current_block) = {}
  <2>1. SUFFICES ASSUME NEW j \in SameContents(s, current_block) PROVE FALSE
    OBVIOUS
  <2>2. [file |-> j, checksum |-> x] \in s.small /\ j \in 1 .. m
    BY <1>2, <1>6, SequentialIs DEF SameContents
  <2>3. j \in Inodes
    BY <1>6, <2>2 DEF Inodes
  <2>4. PICK k \in DOMAIN list : list[k] = j
    BY <1>7, <2>2, <2>3 DEF Lists
  <2>. QED  BY <1>7, <2>4
<1>10. PICK small : small = s.small \cup {[file |-> i, checksum |-> x]}
  OBVIOUS
<1>11. \A y \in Checksums : {j \in Inodes : [file |-> j, checksum |-> y] \in small}
         = IF y = x THEN S(y) \cup {i} ELSE S(y)
  BY <1>6, <1>10
<1>12. PICK more : more = Append(list, i)
  OBVIOUS
<1>13. fragmented_duplicates \in [Checksums -> Seq(Inodes)]
  BY <1>1 DEF TypeOK, PackingOK
<1>14. \A y \in Checksums : Lists(fragmented_duplicates[y], S(y))
  BY <1>7 DEF Agrees, PackedAs
<1>15. ASSUME NEW y \in Checksums
       PROVE  Lists(fragmented_duplicates'[y],
                    {j \in Inodes : [file |-> j, checksum |-> y] \in small})
  <2>1. CASE y = x
    <3>1. fragmented_duplicates'[y] = more
      BY <1>2, <1>3, <1>12, <1>13, <2>1
    <3>2. Lists(more, S(x) \cup {i})
      <4>1. PICK T : T = S(x)
        OBVIOUS
      <4>2. \A j \in T : j < i
        BY <1>7, <1>8, <4>1
      <4>. QED  BY ONLY <1>6, <1>7, <1>12, <4>1, <4>2, ListsAppend
    <3>. QED  BY <1>11, <2>1, <3>1, <3>2
  <2>2. CASE y # x
    <3>1. fragmented_duplicates'[y] = fragmented_duplicates[y]
      BY <1>3, <1>13, <2>2
    <3>. QED  BY <1>11, <1>14, <2>2, <3>1
  <2>. QED  BY <2>1, <2>2
<1>16. PackedAs(s, small)'
  <2>1. Inodes' = Inodes
    BY <1>3 DEF Inodes
  <2>2. PackedAs(s, s.small)
    BY <1>7 DEF Agrees
  <2>. QED  BY <1>3, <1>15, <2>1, <2>2 DEF PackedAs
<1>17. WrittenAs(s, 0)'
  BY <1>3, <1>4, <1>7 DEF Agrees, WrittenAs, LaidOut
<1>18. s = Done(inode - 1)'
  BY <1>2, <1>3, DoneSame
<1>19. small = s.small \cup {[file |-> inode', checksum |-> Checksum(current_block')]}
  BY <1>2, <1>3, <1>10
<1>20. Placing'
  BY <1>3, <1>7, <1>9, <1>16, <1>17, <1>18, <1>19 DEF Placing
<1>. QED
  BY <1>3, <1>4, <1>20 DEF Progress, FilesDone, BlocksDone, Searched, At

-----------------------------------------------------------------------------
(* The client compares a small file with an earlier one.                   *)

\* One more file without blocks leaves the layout as it is.
LEMMA LaidOutMore ==
  ASSUME NEW l \in Layouts, NEW m \in Nat, NEW s, Sequential(s, m),
         NEW i \in Inodes, i = m + 1, NEW c, LaidOut(l, s, i, c, 0),
         NEW u, u.bytes = s.bytes, u.fragments = s.fragments,
         u.reports = Append(s.reports, NoReport)
  PROVE  LaidOut(l, u, i, c, 0)
<1>1. DOMAIN l.reports = Inodes
  BY LayoutFields
<1>2. PICK f, us : f = l.reports /\ us = u.reports
  OBVIOUS
<1>3. NoReport \in Report
  BY NoReportType
<1>4. ASSUME NEW j \in Inodes
      PROVE  f[j] = IF j \in DOMAIN us THEN us[j] ELSE NoReport
  <2>1. /\ j \in DOMAIN s.reports => f[j] = s.reports[j]
        /\ j = i => f[j] = NoReport
        /\ j \notin DOMAIN s.reports /\ j # i => f[j] = NoReport
        /\ us = Append(s.reports, NoReport)
    <3>1. i \notin DOMAIN s.reports
      BY SequentialIs
    <3>. QED  BY <1>1, <1>2, <3>1 DEF LaidOut
  <2>. QED  BY <1>3, <2>1, ReportsMore
<1>5. u.bytes = l.bytes /\ u.fragments = l.fragments
  BY DEF LaidOut
<1>. QED  BY ONLY <1>1, <1>2, <1>4, <1>5 DEF LaidOut

\* The places of all files, when that of one more is in the table.
LEMMA PlacesMore ==
  ASSUME NEW m \in Nat, NEW s, Sequential(s, m), NEW i \in Inodes, i = m + 1,
         NEW p \in Place, NEW us, us = Append(s.indices, p),
         NEW j \in Inodes, NEW g, j \in DOMAIN s.indices => g[j] = s.indices[j],
         j = i => g[j] = p, j \notin DOMAIN s.indices /\ j # i => g[j] = NoFragment
  PROVE  g[j] = IF j \in DOMAIN us THEN us[j] ELSE NoFragment
<1>1. PICK is : is = s.indices
  OBVIOUS
<1>2. is \in Seq(Place) /\ Len(is) = m
  BY <1>1, SequentialIs
<1>3. /\ DOMAIN is = 1 .. m /\ DOMAIN us = 1 .. m + 1
      /\ us[m + 1] = p /\ \A k \in 1 .. m : us[k] = is[k]
  BY <1>1, <1>2, AppendIs
<1>. QED  BY <1>1, <1>3 DEF Inodes

\* The candidate matches if it is found in the sequential construction.
LEMMA CandidateIs ==
  ASSUME IInv, Healthy, Progress, pc \in {"lookup", "compare"}, candidates # <<>>,
         NEW s, s = Done(inode - 1), NEW j, j = Head(candidates)
  PROVE  /\ j \in DOMAIN s.indices /\ s.indices[j] = Candidate /\ Candidate \in Place
         /\ j \in SameContents(s, current_block)
              <=> Matches(current_block, FragmentContent(s, Candidate.fragment),
                          Candidate.offset)
         /\ j \in SameContents(s, current_block) =>
              Found(s, current_block) /\ LastSuch(s, current_block) = j
<1>1. TypeOK
  BY PartsOf
<1>2. PICK m, x, list, c : /\ m = inode - 1 /\ x = Checksum(current_block)
                           /\ list = fragmented_duplicates[x] /\ c = current_block
  OBVIOUS
<1>3. /\ m \in Nat /\ inode = m + 1 /\ inode \in Inodes /\ Sequential(s, m)
  BY <1>2, InFileIs DEF InFile, At
<1>. DEFINE S == {q \in Inodes : [file |-> q, checksum |-> x] \in s.small}
<1>4. /\ list \in Seq(Inodes) /\ Len(list) \in Nat /\ DOMAIN list = 1 .. Len(list)
      /\ candidates \in Seq(Inodes) /\ Len(candidates) \in Nat
      /\ Len(candidates) <= Len(list) /\ DOMAIN candidates = 1 .. Len(candidates)
      /\ dedup_enabled /\ Agrees(s) /\ Lists(list, S)
      /\ \A k \in DOMAIN candidates : candidates[k] = list[Len(candidates) - k + 1]
      /\ \A k \in Len(candidates) + 1 .. Len(list) :
           list[k] \notin SameContents(s, c)
  BY <1>2, ListIs DEF Progress
<1>5. PICK n \in Nat : n = Len(candidates) /\ n # 0
  BY <1>4, EmptySeq
<1>6. j = list[n] /\ n \in DOMAIN list
  <2>1. j = candidates[1] /\ n - 1 + 1 = n
    BY <1>4, <1>5
  <2>. QED  BY <1>4, <1>5, <2>1
<1>7. j \in S
  BY <1>4, <1>6 DEF Lists
<1>8. DOMAIN s.indices = 1 .. m /\ s.indices \in Seq(Place) /\ Len(s.indices) = m
  BY <1>3, SequentialIs
<1>9. j \in 1 .. m /\ j \in Inodes
  <2>1. \A q \in s.small : q.file \in 1 .. m
    BY <1>3 DEF Sequential
  <2>. QED  BY <1>7, <2>1
<1>10. s.indices[j] = Candidate /\ Candidate \in Place
  <2>1. fragment_indices[j] = s.indices[j]
    BY <1>4, <1>8, <1>9 DEF Agrees, PackedAs
  <2>. QED  BY <1>8, <1>9, <2>1, ElementOfSeq DEF Candidate
<1>11. j \in SameContents(s, c) <=> Matches(c, FragmentContent(s, Candidate.fragment),
                                            Candidate.offset)
  BY <1>2, <1>7, <1>8, <1>9, <1>10 DEF SameContents
<1>12. ASSUME j \in SameContents(s, c) PROVE Found(s, c) /\ LastSuch(s, c) = j
  <2>1. Found(s, c)
    BY <1>4, <1>12 DEF Found
  <2>2. PICK T : T = SameContents(s, c)
    OBVIOUS
  <2>3. T \subseteq 1 .. m /\ T # {} /\ \A q \in T : [file |-> q, checksum |-> x] \in s.small
    BY <1>2, <1>8, <1>12, <2>2 DEF SameContents
  <2>4. PICK g : g = Max(T)
    OBVIOUS
  <2>5. g \in T /\ \A h \in T : h <= g
    BY <1>3, <2>3, <2>4, GreatestIs
  <2>6. g \in S
    <3>1. g \in 1 .. m /\ [file |-> g, checksum |-> x] \in s.small
      BY ONLY <2>3, <2>5
    <3>2. g \in Inodes
      BY ONLY <1>3, <3>1 DEF Inodes
    <3>. QED  BY ONLY <3>1, <3>2
  <2>7. PICK k \in DOMAIN list : list[k] = g
    BY <1>4, <2>6 DEF Lists
  <2>8. k <= n
    BY <1>4, <1>5, <2>2, <2>5, <2>7
  <2>9. k < n => g < j
    BY <1>4, <1>6, <2>7 DEF Lists
  <2>10. j <= g /\ j \in Nat /\ g \in Nat
    BY <1>9, <1>12, <2>2, <2>3, <2>5
  <2>11. g = j
    BY <1>4, <1>6, <2>7, <2>8, <2>9, <2>10
  <2>. QED  BY <2>1, <2>2, <2>4, <2>11 DEF LastSuch
<1>. QED  BY <1>2, <1>8, <1>9, <1>10, <1>11, <1>12

\* What the client compares with is what the fragment will hold.
LEMMA ContentIs ==
  ASSUME IInv, Healthy, Progress, pc \in {"lookup", "compare"}, candidates # <<>>,
         NEW s, s = Done(inode - 1), NEW f, f = Candidate.fragment
  PROVE  /\ pc = "lookup" /\ f = fragment_count =>
              FragmentContent(s, f) = current_fragment
         /\ pc = "compare" => FragmentContent(s, f) = Stored(entry)
<1>1. /\ TypeOK /\ Control /\ Ordered /\ CandidatesPlaced /\ EntryInHand
      /\ stream = "good" /\ Agrees(s) /\ Steady
  BY PartsOf DEF Healthy, Progress, Searched
<1>2. current_fragment = s.current /\ fragment_count = Len(s.fragments)
  BY <1>1 DEF Agrees, PackedAs
<1>3. CASE pc = "lookup"
  BY <1>2, <1>3 DEF FragmentContent
<1>4. CASE pc = "compare"
  <2>1. f < Len(fragments) /\ entry = fragments[f + 1]
    BY <1>1, <1>4 DEF EntryInHand
  <2>2. f \in Nat
    <3>1. candidates \in Seq(Inodes) /\ Len(candidates) # 0 /\ Len(candidates) \in Nat
      BY <1>1, EmptySeq, LenProperties DEF TypeOK, SearchOK
    <3>2. 1 \in DOMAIN candidates /\ Head(candidates) = candidates[1]
      BY <3>1, LenProperties
    <3>3. Placed(Head(candidates))
      BY <1>1, <3>2 DEF CandidatesPlaced
    <3>4. fragment_count \in Nat
      BY <1>1 DEF TypeOK, PackingOK
    <3>. QED  BY <3>3, <3>4 DEF Placed, Candidate
  <2>3. /\ fragments \in Seq(Entry) /\ Len(fragments) \in Nat
        /\ DOMAIN fragments = 1 .. Len(fragments)
    BY <1>1, LenProperties DEF TypeOK, LayoutOK
  <2>4. PICK k : k = f + 1
    OBVIOUS
  <2>5. k \in 1 .. Len(fragments) /\ entry = fragments[k]
    BY <2>1, <2>2, <2>3, <2>4
  <2>6. /\ entry.start \in Int /\ entry.len \in Nat /\ 0 <= entry.start
        /\ EndOf(entry) <= End
    BY <1>1, <2>3, <2>5, StoredBefore
  <2>7. BytesIn(Now, entry) = BytesOf(entry)
    BY <1>1, <2>6, BytesInNow
  <2>8. Preserves(Now, Drained) /\ Now.fragments = fragments
    BY <1>1, SteadyPreserves, NowType
  <2>9. Drained.fragments = s.fragments /\ Drained.bytes = s.bytes
    BY <1>1 DEF Agrees, WrittenAs, LaidOut
  <2>10. /\ Len(fragments) <= Len(s.fragments) /\ s.fragments[k] = entry
         /\ BytesIn(Drained, entry) = BytesIn(Now, entry)
    BY <2>5, <2>8, <2>9 DEF Preserves
  <2>11. SubSeq(s.bytes, entry.start + 1, entry.start + entry.len) = BytesOf(entry)
    BY <2>7, <2>9, <2>10 DEF BytesIn
  <2>12. f # Len(s.fragments)
    BY <2>1, <2>2, <2>3, <2>10
  <2>. QED  BY <1>4, <2>4, <2>10, <2>11, <2>12 DEF FragmentContent, Stored
<1>. QED  BY <1>3, <1>4

\* The candidate is equal: the client takes its place for the file.
LEMMA ProgressFound ==
  ASSUME IInv, Healthy, Progress, pc \in {"lookup", "compare"}, candidates # <<>>,
         NEW j, j = Head(candidates), j \in SameContents(Done(inode - 1), current_block),
         UNCHANGED <<input, dedup_enabled, inode, unread, block_count>>,
         UNCHANGED <<current_fragment, fragment_count, fragmented_duplicates>>,
         UNCHANGED <<disk, layout, tell, wpc, held, queue, pushing>>,
         fragment_indices' = [fragment_indices EXCEPT ![inode] = Candidate],
         pc' = "read"
  PROVE  Progress'
<1>1. TypeOK /\ Control /\ Ordered /\ stream = "good"
  BY PartsOf DEF Healthy
<1>2. PICK i, m, c, s, u, p : /\ i = inode /\ m = inode - 1 /\ c = input[inode]
                              /\ s = Done(inode - 1) /\ u = Done(inode) /\ p = Candidate
  OBVIOUS
<1>3. c = current_block /\ c # <<>> /\ unread = <<>> /\ block_count = 0
  BY <1>2, SmallFile, ChunkOfFile DEF At
<1>4. /\ m \in Nat /\ i = m + 1 /\ i \in Inodes /\ Sequential(s, m) /\ c \in Seq(Byte)
      /\ u = AddFile(s, c, dedup_enabled)
  BY <1>2, InFileIs DEF InFile, At
<1>5. Len(c) < BlockSize /\ Agrees(s)
  BY <1>2, <1>3 DEF Progress, Searched
<1>6. s.indices[j] = p /\ p \in Place /\ Found(s, c) /\ LastSuch(s, c) = j
  BY <1>2, <1>3, CandidateIs
<1>7. u = AddSmall(s, c, dedup_enabled)
  BY <1>3, <1>4, <1>5 DEF AddFile
<1>8. /\ u.reports = Append(s.reports, NoReport)
      /\ u.bytes = s.bytes /\ u.fragments = s.fragments
      /\ u.current = s.current /\ u.kept = s.kept /\ u.small = s.small
      /\ u.indices = Append(s.indices, p)
  BY <1>4, <1>5, <1>6, <1>7, AddSmallFound
<1>9. Drained' = Drained /\ Steady' /\ Drained \in Layouts
  BY <1>1, ClientQuiet, DrainedType DEF Progress
<1>10. LaidOut(Drained, u, i, c, 0) /\ (dedup_enabled => Drained.kept = u.kept)
  <2>1. LaidOut(Drained, s, i, c, 0) /\ (dedup_enabled => Drained.kept = s.kept)
    BY <1>2, <1>5 DEF Agrees, WrittenAs
  <2>. QED  BY <1>4, <1>8, <1>9, <2>1, LaidOutMore
<1>11. WrittenAs(u, 0)'
  BY <1>2, <1>9, <1>10 DEF WrittenAs, LaidOut
<1>12. PackedAs(u, u.small)'
  <2>1. PICK f, g, us : f = fragment_indices /\ g = fragment_indices' /\ us = u.indices
    OBVIOUS
  <2>2. PackedAs(s, s.small)
    BY <1>5 DEF Agrees
  <2>3. \A q \in Inodes : f[q] = IF q \in DOMAIN s.indices THEN s.indices[q]
                                                           ELSE NoFragment
    BY <2>1, <2>2 DEF PackedAs
  <2>4. \A q \in Inodes : g[q] = IF q = i THEN p ELSE f[q]
    BY <1>1, <1>2, <2>1 DEF TypeOK, PackingOK
  <2>5. us = Append(s.indices, p)
    BY <1>8, <2>1
  <2>6. \A q \in Inodes : g[q] = IF q \in DOMAIN us THEN us[q] ELSE NoFragment
    <3>1. i \notin DOMAIN s.indices
      BY <1>4, SequentialIs
    <3>2. SUFFICES ASSUME NEW q \in Inodes
                   PROVE  g[q] = IF q \in DOMAIN us THEN us[q] ELSE NoFragment
      OBVIOUS
    <3>3. /\ q \in DOMAIN s.indices => g[q] = s.indices[q]
          /\ q = i => g[q] = p
          /\ q \notin DOMAIN s.indices /\ q # i => g[q] = NoFragment
      BY <2>3, <2>4, <3>1
    <3>4. m \in Nat /\ i = m + 1 /\ i \in Inodes /\ Sequential(s, m) /\ p \in Place
      BY <1>4, <1>6
    <3>. QED  BY ONLY <2>5, <3>2, <3>3, <3>4, PlacesMore
  <2>. QED  BY <1>8, <2>1, <2>2, <2>6 DEF PackedAs, Lists, Inodes
<1>13. u = Done(inode)'
  BY <1>2, DoneSame
<1>14. Agrees(u)'
  BY <1>11, <1>12 DEF Agrees
<1>. QED
  BY <1>3, <1>9, <1>13, <1>14
  DEF Progress, FilesDone, BlocksDone, Searched, Placing, At

\* It is not: the client goes on to the next.
LEMMA ProgressNotFound ==
  ASSUME IInv, Healthy, Progress, pc \in {"lookup", "compare"}, candidates # <<>>,
         Head(candidates) \notin SameContents(Done(inode - 1), current_block),
         UNCHANGED <<input, dedup_enabled, inode, packing, current_block>>,
         UNCHANGED <<disk, layout, tell, wpc, held, queue, pushing>>,
         candidates' = Tail(candidates), pc' = "lookup"
  PROVE  Progress'
<1>1. PICK s, x, list, rest : /\ s = Done(inode - 1) /\ x = Checksum(current_block)
                              /\ list = fragmented_duplicates[x]
                              /\ rest = Tail(candidates)
  OBVIOUS
<1>2. /\ list \in Seq(Inodes) /\ Len(list) \in Nat /\ DOMAIN list = 1 .. Len(list)
      /\ candidates \in Seq(Inodes) /\ Len(candidates) \in Nat
      /\ Len(candidates) <= Len(list) /\ DOMAIN candidates = 1 .. Len(candidates)
      /\ dedup_enabled /\ Len(current_block) < BlockSize /\ Agrees(s)
      /\ \A k \in DOMAIN candidates : candidates[k] = list[Len(candidates) - k + 1]
      /\ \A k \in Len(candidates) + 1 .. Len(list) :
           list[k] \notin SameContents(s, current_block)
  BY <1>1, ListIs DEF Progress
<1>3. PICK n \in Nat : n = Len(candidates) /\ n # 0
  BY <1>2, EmptySeq
<1>4. /\ Len(rest) = n - 1 /\ DOMAIN rest = 1 .. n - 1
      /\ \A k \in 1 .. n - 1 : rest[k] = candidates[k + 1]
      /\ Head(candidates) = candidates[1]
  BY <1>1, <1>2, <1>3, HeadTailProperties, LenProperties
<1>5. Len(rest) <= Len(list)
  BY <1>2, <1>3, <1>4
<1>6. \A k \in DOMAIN rest : rest[k] = list[Len(rest) - k + 1]
  <2>1. SUFFICES ASSUME NEW k \in 1 .. n - 1 PROVE rest[k] = list[Len(rest) - k + 1]
    BY <1>4
  <2>2. n - (k + 1) + 1 = Len(rest) - k + 1 /\ k + 1 \in 1 .. n
    BY <1>3, <1>4
  <2>. QED  BY <1>2, <1>3, <1>4, <2>2
<1>7. list[n] \notin SameContents(s, current_block)
  <2>1. n - 1 + 1 = n /\ 1 \in DOMAIN candidates
    BY <1>2, <1>3
  <2>2. candidates[1] = list[n]
    BY <1>2, <1>3, <2>1
  <2>. QED  BY <1>1, <1>4, <2>2
<1>8. \A k \in Len(rest) + 1 .. Len(list) : list[k] \notin SameContents(s, current_block)
  <2>1. SUFFICES ASSUME NEW k \in n .. Len(list)
                 PROVE  list[k] \notin SameContents(s, current_block)
    BY <1>3, <1>4
  <2>. QED  BY <1>2, <1>3, <1>7
<1>9. Drained' = Drained /\ Steady'
  BY ClientQuiet DEF Progress
<1>10. Agrees(s)'
  BY <1>2, <1>9, AgreesSame
<1>11. s = Done(inode - 1)'
  BY <1>1, DoneSame
<1>12. candidates' = rest /\ fragmented_duplicates'[Checksum(current_block')] = list
  BY <1>1 DEF packing
<1>13. Searched'
  BY <1>2, <1>5, <1>6, <1>8, <1>10, <1>11, <1>12 DEF Searched
<1>. QED
  BY <1>9, <1>13 DEF Progress, FilesDone, BlocksDone, Placing, At

LEMMA ProgressCompare ==
  ASSUME IInv, Healthy, Healthy', Progress, CompareCurrent \/ CompareStored
  PROVE  Progress'
<1>1. PICK s, f, j : /\ s = Done(inode - 1) /\ f = Candidate.fragment
                     /\ j = Head(candidates)
  OBVIOUS
<1>2. PICK content : content = FragmentContent(s, f)
  OBVIOUS
<1>3. Control
  BY PartsOf
<1>4. /\ pc \in {"lookup", "compare"} /\ candidates # <<>> /\ Compare(content)
  <2>1. CASE CompareCurrent
    BY <1>1, <1>2, <2>1, ContentIs DEF CompareCurrent
  <2>2. CASE CompareStored
    <3>1. pc = "compare" /\ candidates # <<>> /\ Compare(Stored(entry))
      BY <1>3, <2>2 DEF CompareStored, Control, Healthy
    <3>. QED  BY <1>1, <1>2, <3>1, ContentIs
  <2>. QED  BY <2>1, <2>2
<1>5. /\ UNCHANGED <<input, dedup_enabled, inode, unread, block_count>>
      /\ UNCHANGED <<current_fragment, fragment_count, fragmented_duplicates>>
      /\ UNCHANGED <<disk, layout, tell, wpc, held, queue, pushing>>
  BY DEF CompareCurrent, CompareStored, options, writer, channel
<1>6. j \in SameContents(s, current_block)
        <=> Matches(current_block, content, Candidate.offset)
  BY <1>1, <1>2, <1>4, CandidateIs
<1>7. CASE Matches(current_block, content, Candidate.offset)
  <2>1. /\ fragment_indices' = [fragment_indices EXCEPT ![inode] = Candidate]
        /\ pc' = "read"
    BY <1>4, <1>7 DEF Compare
  <2>. QED  BY <1>1, <1>4, <1>5, <1>6, <1>7, <2>1, ProgressFound
<1>8. CASE ~Matches(current_block, content, Candidate.offset)
  <2>1. /\ candidates' = Tail(candidates) /\ pc' = "lookup"
        /\ UNCHANGED <<fragment_indices, current_block>>
    BY <1>4, <1>8 DEF Compare
  <2>2. UNCHANGED packing
    BY <1>5, <2>1 DEF packing
  <2>. QED  BY <1>1, <1>4, <1>5, <1>6, <1>8, <2>1, <2>2, ProgressNotFound
<1>. QED  BY <1>7, <1>8

-----------------------------------------------------------------------------
(* The client flushes the fragment, puts a small file in it, and ends.     *)

\* The fragment is written as the sequential construction closes it.
LEMMA FragmentClosed ==
  ASSUME NEW l \in Layouts, NEW m \in Nat, NEW s, Sequential(s, m), s.current # <<>>,
         NEW i, NEW c, LaidOut(l, s, i, c, 0), NEW t, t = CloseFragment(s),
         NEW item, item.kind = "fragment", item.data = s.current,
         NEW h, h = Handle(l, item)
  PROVE  LaidOut(h, t, i, c, 0) /\ h.kept = l.kept /\ Preserves(l, h)
<1>1. PICK b, d : b = l.bytes /\ d = Compress(item.data).bytes
  OBVIOUS
<1>2. PICK e : e = [start |-> Len(b), len |-> Len(d), raw |-> Compress(item.data).raw]
  OBVIOUS
<1>3. item.data \in Block /\ s.bytes \in Seq(Byte) /\ DOMAIN s.reports = 1 .. m
  BY SequentialIs
<1>4. b \in Seq(Byte) /\ d \in Seq(Byte) /\ Len(b) \in Nat /\ Len(d) \in Nat
  BY <1>1, <1>3, LayoutFields, CompressType, LenProperties
<1>5. /\ h.bytes = b \o d /\ h.fragments = Append(l.fragments, e)
      /\ h.reports = l.reports /\ h.kept = l.kept /\ h \in Layouts /\ e \in Entry
  BY <1>1, <1>2, <1>3, HandleFragmentIs
<1>6. b = s.bytes /\ l.fragments = s.fragments
  BY <1>1 DEF LaidOut
<1>7. t.bytes = b \o d /\ t.fragments = Append(s.fragments, e) /\ t.reports = s.reports
  <2>1. m \in Nat /\ Sequential(s, m) /\ s.current # <<>> /\ t = CloseFragment(s)
    OBVIOUS
  <2>2. t.bytes = s.bytes \o Compress(s.current).bytes
    BY ONLY <2>1, CloseFragmentIs
  <2>3. t.fragments = Append(s.fragments, [start |-> Len(s.bytes),
                                           len |-> Len(Compress(s.current).bytes),
                                           raw |-> Compress(s.current).raw])
    BY ONLY <2>1, CloseFragmentIs
  <2>4. t.reports = s.reports
    BY ONLY <2>1, CloseFragmentIs
  <2>. QED  BY <1>1, <1>2, <1>6, <2>2, <2>3, <2>4
<1>8. LaidOut(h, t, i, c, 0)
  BY <1>5, <1>6, <1>7 DEF LaidOut
<1>9. Preserves(l, h)
  <2>1. PICK n \in Nat : n = Len(b)
    BY <1>4
  <2>2. Within(l.fragments, n)
    BY <1>6, <2>1 DEF Sequential
  <2>3. SubSeq(b \o d, 1, n) = b /\ Len(b \o d) = n + Len(d)
    BY <1>4, <2>1, ConcatParts, ConcatProperties
  <2>4. SubSeq(b, 1, n) = b
    BY <1>4, <2>1, SubSeqFull
  <2>5. n <= Len(l.bytes) /\ n <= Len(h.bytes)
    <3>1. PICK k \in Nat : k = Len(d)
      BY <1>4
    <3>2. Len(l.bytes) = n /\ Len(h.bytes) = n + k
      BY <1>1, <1>5, <2>1, <2>3, <3>1
    <3>. QED  BY <2>1, <3>1, <3>2
  <2>6. SubSeq(h.bytes, 1, n) = SubSeq(l.bytes, 1, n)
    BY <1>1, <1>5, <2>3, <2>4
  <2>. QED  BY <1>5, <2>2, <2>5, <2>6, PreservesGrown
<1>. QED  BY <1>5, <1>8, <1>9

LEMMA FragmentFlushed ==
  ASSUME IInv, Healthy, Steady, FlushFragment, NEW m \in Nat, NEW s, Sequential(s, m),
         WrittenAs(s, 0), NEW small, PackedAs(s, small), NEW t, t = CloseFragment(s)
  PROVE  /\ WrittenAs(t, 0)' /\ PackedAs(t, small)' /\ Steady'
         /\ pc' = "push" /\ resume' = pc
<1>1. TypeOK /\ Control /\ Ordered /\ stream = "good" /\ ~writer_failed
  BY PartsOf DEF Healthy
<1>2. /\ pc # "push" /\ current_fragment # <<>> /\ current_fragment' = <<>>
      /\ fragment_count' = fragment_count + 1 /\ Enqueue(FragmentItem, pc)
      /\ UNCHANGED <<input, dedup_enabled, inode, fragment_indices>>
      /\ UNCHANGED <<fragmented_duplicates, held, queue>>
      /\ UNCHANGED <<disk, layout, tell, wpc>>
  BY DEF FlushFragment, options, reading, writer, channel
<1>3. PICK i, c : i = inode /\ c = input[inode]
  OBVIOUS
<1>4. PICK item : item = FragmentItem
  OBVIOUS
<1>5. current_fragment = s.current /\ fragment_count = Len(s.fragments)
  BY DEF PackedAs
<1>6. item \in Items /\ item.kind = "fragment" /\ item.data = s.current
  <2>1. item \in Items
    BY <1>1, <1>4, FragmentItemType
  <2>. QED  BY <1>4, <1>5, <2>1 DEF FragmentItem
<1>7. Appends(Pending, item, Pending')
  BY <1>1, <1>2, <1>4, <1>6, PendingEnqueued
<1>8. Now' = Now
  BY <1>2, NowQueued
<1>9. PICK l, h : l = Drained /\ h = Handle(l, item)
  OBVIOUS
<1>10. l \in Layouts /\ LaidOut(l, s, i, c, 0) /\ (dedup_enabled => l.kept = s.kept)
  BY <1>1, <1>3, <1>9, DrainedType DEF WrittenAs
<1>11. LaidOut(h, t, i, c, 0) /\ h.kept = l.kept /\ Preserves(l, h)
  <2>1. s.current # <<>>
    BY <1>2, <1>5
  <2>. QED  BY <1>6, <1>9, <1>10, <2>1, FragmentClosed
<1>12. Drained' = h /\ Steady'
  BY <1>7, <1>8, <1>9, <1>11, DrainedQueued
<1>13. /\ t.current = <<>> /\ t.indices = s.indices /\ t.kept = s.kept
       /\ Len(t.fragments) = Len(s.fragments) + 1
  BY <1>2, <1>5, CloseFragmentIs
<1>14. WrittenAs(t, 0)'
  BY <1>2, <1>3, <1>10, <1>11, <1>12, <1>13 DEF WrittenAs, LaidOut
<1>15. PackedAs(t, small)'
  BY <1>2, <1>5, <1>13 DEF PackedAs, Lists, Inodes
<1>. QED  BY <1>1, <1>2, <1>12, <1>14, <1>15 DEF Enqueue

LEMMA ProgressFlushFragment ==
  ASSUME IInv, Healthy, Progress, FlushFragment
  PROVE  Progress'
<1>1. /\ TypeOK /\ Control /\ Steady /\ FilesDone /\ Placing
      /\ inode \in 0 .. Len(input) /\ inode \in Nat
  BY PartsOf DEF Progress
<1>2. /\ UNCHANGED <<input, dedup_enabled, inode, current_block>>
      /\ current_fragment # <<>> /\ pc \in {"finish", "place"}
  BY DEF FlushFragment, options, reading
<1>3. Len(input') = Len(input)
  BY <1>2
<1>4. CASE pc = "finish"
  <2>1. PICK s, t : s = Done(inode) /\ t = CloseFragment(s)
    OBVIOUS
  <2>2. Sequential(s, inode)
    BY <1>1, <2>1, DoneType
  <2>3. t.current = <<>> /\ t.small = s.small
    BY <1>1, <2>1, <2>2, CloseFragmentIs
  <2>4. inode = Len(input) /\ (Agrees(s) \/ Agrees(t))
    BY <1>1, <1>4, <2>1 DEF FilesDone, At
  <2>5. WrittenAs(s, 0) /\ PackedAs(s, s.small)
    BY <1>2, <2>3, <2>4 DEF Agrees, PackedAs
  <2>6. /\ WrittenAs(t, 0)' /\ PackedAs(t, s.small)' /\ Steady'
        /\ pc' = "push" /\ resume' = pc
    BY <1>1, <2>1, <2>2, <2>5, FragmentFlushed
  <2>7. Agrees(t)'
    BY <2>3, <2>6 DEF Agrees
  <2>8. s = Done(inode)'
    BY <1>2, <2>1, DoneSame
  <2>9. Agrees(CloseFragment(s))'
    BY <2>1, <2>7
  <2>. QED
    BY <1>2, <1>3, <1>4, <2>4, <2>6, <2>8, <2>9
    DEF Progress, FilesDone, BlocksDone, Searched, Placing, At
<1>5. CASE pc = "place"
  <2>1. PICK s, t, small : /\ s = Done(inode - 1) /\ t = CloseFragment(s)
                           /\ small = s.small \cup {[file |-> inode,
                                          checksum |-> Checksum(current_block)]}
    OBVIOUS
  <2>2. inode - 1 \in Nat /\ Sequential(s, inode - 1)
    BY <1>5, <2>1, InFileIs DEF InFile, At
  <2>3. t.current = <<>>
    BY <2>1, <2>2, CloseFragmentIs
  <2>4. /\ Len(current_block) < BlockSize
        /\ dedup_enabled => SameContents(s, current_block) = {}
        /\ \/ WrittenAs(s, 0) /\ PackedAs(s, small)
           \/ PackedAs(t, small)
    BY <1>1, <1>5, <2>1 DEF Placing, At
  <2>5. WrittenAs(s, 0) /\ PackedAs(s, small)
    BY <1>2, <2>3, <2>4 DEF PackedAs
  <2>6. /\ WrittenAs(t, 0)' /\ PackedAs(t, small)' /\ Steady'
        /\ pc' = "push" /\ resume' = pc
    BY <1>1, <2>1, <2>2, <2>5, FragmentFlushed
  <2>7. Len(s.current) + Len(current_block) > BlockSize
    BY <1>5, <2>5 DEF FlushFragment, Overflows, PackedAs
  <2>8. s = Done(inode - 1)'
    BY <1>2, <2>1, DoneSame
  <2>9. /\ small = s.small \cup {[file |-> inode', checksum |-> Checksum(current_block')]}
        /\ Len(current_block') < BlockSize
        /\ Len(s.current) + Len(current_block') > BlockSize
        /\ dedup_enabled' => SameContents(s, current_block') = {}
    BY <1>2, <2>1, <2>4, <2>7
  <2>10. WrittenAs(CloseFragment(s), 0)' /\ PackedAs(CloseFragment(s), small)'
    BY <2>1, <2>6
  <2>11. Placing'
    BY <2>8, <2>9, <2>10 DEF Placing
  <2>. QED
    BY <1>5, <2>6, <2>11 DEF Progress, FilesDone, BlocksDone, Searched, At
<1>. QED  BY <1>2, <1>4, <1>5

LEMMA ProgressInsert ==
  ASSUME IInv, Healthy, Progress, Insert
  PROVE  Progress'
<1>1. TypeOK /\ Control /\ Ordered /\ stream = "good"
  BY PartsOf DEF Healthy
<1>2. PICK i, m, c, s, u, r : /\ i = inode /\ m = inode - 1 /\ c = current_block
                              /\ s = Done(inode - 1) /\ u = Done(inode)
                              /\ r = Room(s, current_block)
  OBVIOUS
<1>3. /\ pc = "place" /\ ~Overflows /\ pc' = "read"
      /\ fragment_indices' =
           [fragment_indices EXCEPT ![i] = [fragment |-> fragment_count,
                                            offset |-> Len(current_fragment)]]
      /\ current_fragment' = current_fragment \o c
      /\ UNCHANGED <<input, dedup_enabled, inode, unread, block_count>>
      /\ UNCHANGED <<fragment_count, fragmented_duplicates>>
      /\ UNCHANGED <<disk, layout, tell, wpc, held, queue, pushing>>
  BY <1>2 DEF Insert, options, reading, writer, channel
<1>4. c = input[inode] /\ c # <<>> /\ unread = <<>> /\ block_count = 0
  BY <1>2, <1>3, SmallFile, ChunkOfFile DEF At
<1>5. /\ m \in Nat /\ i = m + 1 /\ i \in Inodes /\ Sequential(s, m) /\ c \in Seq(Byte)
      /\ u = AddFile(s, c, dedup_enabled)
  BY <1>2, <1>3, <1>4, InFileIs DEF InFile, At
<1>6. PICK small : small = s.small \cup {[file |-> i, checksum |-> Checksum(c)]}
  OBVIOUS
<1>7. /\ Len(c) < BlockSize /\ (dedup_enabled => SameContents(s, c) = {})
      /\ \/ WrittenAs(s, 0) /\ PackedAs(s, small)
         \/ /\ Len(s.current) + Len(c) > BlockSize
            /\ WrittenAs(CloseFragment(s), 0) /\ PackedAs(CloseFragment(s), small)
  BY <1>2, <1>3, <1>6 DEF Progress, Placing, At
<1>8. WrittenAs(r, 0) /\ PackedAs(r, small)
  <2>1. CASE WrittenAs(s, 0) /\ PackedAs(s, small)
    <3>1. ~(Len(s.current) + Len(c) > BlockSize)
      BY <1>2, <1>3, <2>1 DEF Overflows, PackedAs
    <3>. QED  BY <1>2, <2>1, <3>1 DEF Room
  <2>2. CASE /\ Len(s.current) + Len(c) > BlockSize
             /\ WrittenAs(CloseFragment(s), 0) /\ PackedAs(CloseFragment(s), small)
    BY <1>2, <2>2 DEF Room
  <2>. QED  BY <1>7, <2>1, <2>2
<1>9. Sequential(r, m) /\ r.reports = s.reports /\ r.indices = s.indices
  <2>1. Sequential(Room(s, c), m)
    BY <1>5, <1>7, RoomIs
  <2>2. Room(s, c).reports = s.reports
    BY <1>5, <1>7, <2>1, RoomIs
  <2>3. Room(s, c).indices = s.indices
    BY <1>5, <1>7, <2>1, RoomIs
  <2>. QED  BY <1>2, <2>1, <2>2, <2>3
<1>10. PICK p : p = [fragment |-> Len(r.fragments), offset |-> Len(r.current)]
  OBVIOUS
<1>11. ~Found(s, c) /\ u = AddSmall(s, c, dedup_enabled)
  BY <1>4, <1>5, <1>7 DEF Found, AddFile
<1>12. /\ u.reports = Append(r.reports, NoReport)
       /\ u.bytes = r.bytes /\ u.fragments = r.fragments
       /\ u.current = r.current \o c /\ u.kept = r.kept /\ u.small = small
       /\ u.indices = Append(r.indices, p)
  <2>1. /\ m \in Nat /\ Sequential(s, m) /\ c \in Seq(Byte) /\ Len(c) < BlockSize
        /\ ~Found(s, c) /\ u = AddSmall(s, c, dedup_enabled)
    BY <1>5, <1>7, <1>11
  <2>2. u.reports = Append(s.reports, NoReport)
    BY ONLY <2>1, AddSmallOwn
  <2>3. u.bytes = Room(s, c).bytes /\ u.fragments = Room(s, c).fragments
    BY ONLY <2>1, AddSmallOwn
  <2>4. u.kept = Room(s, c).kept /\ u.current = Room(s, c).current \o c
    BY ONLY <2>1, AddSmallOwn
  <2>5. u.small = Listed(s, m + 1, c)
    BY ONLY <2>1, AddSmallOwn
  <2>6. u.indices = Append(s.indices, Behind(Room(s, c)))
    BY ONLY <2>1, AddSmallOwn
  <2>. QED
    BY <1>2, <1>5, <1>6, <1>9, <1>10, <2>2, <2>3, <2>4, <2>5, <2>6 DEF Listed, Behind
<1>13. Drained' = Drained /\ Steady' /\ Drained \in Layouts
  BY <1>1, <1>3, ClientQuiet, DrainedType DEF Progress
<1>14. LaidOut(Drained, u, i, c, 0) /\ (dedup_enabled => Drained.kept = u.kept)
  <2>1. LaidOut(Drained, r, i, c, 0) /\ (dedup_enabled => Drained.kept = r.kept)
    BY <1>2, <1>4, <1>8 DEF WrittenAs
  <2>. QED  BY <1>5, <1>9, <1>12, <1>13, <2>1, LaidOutMore
<1>15. WrittenAs(u, 0)'
  BY <1>2, <1>3, <1>4, <1>13, <1>14 DEF WrittenAs, LaidOut
<1>16. PackedAs(u, u.small)'
  <2>1. PICK f, g, us : f = fragment_indices /\ g = fragment_indices' /\ us = u.indices
    OBVIOUS
  <2>2. \A q \in Inodes : f[q] = IF q \in DOMAIN r.indices THEN r.indices[q]
                                                           ELSE NoFragment
    BY <1>8, <2>1 DEF PackedAs
  <2>3. current_fragment = r.current /\ fragment_count = Len(r.fragments)
    BY <1>8 DEF PackedAs
  <2>4. \A q \in Inodes : g[q] = IF q = i THEN p ELSE f[q]
    BY <1>1, <1>3, <1>10, <2>1, <2>3 DEF TypeOK, PackingOK
  <2>5. us = Append(r.indices, p) /\ i \notin DOMAIN r.indices
    BY <1>5, <1>9, <1>12, <2>1, SequentialIs
  <2>6. p \in Place
    BY <1>9, <1>10, SequentialIs, <1>5 DEF Place
  <2>7. ASSUME NEW q \in Inodes
        PROVE  g[q] = IF q \in DOMAIN us THEN us[q] ELSE NoFragment
    <3>1. /\ q \in DOMAIN r.indices => g[q] = r.indices[q]
          /\ q = i => g[q] = p
          /\ q \notin DOMAIN r.indices /\ q # i => g[q] = NoFragment
      BY <2>2, <2>4, <2>5
    <3>2. m \in Nat /\ i = m + 1 /\ i \in Inodes /\ Sequential(r, m) /\ p \in Place
          /\ us = Append(r.indices, p)
      BY <1>5, <1>9, <2>5, <2>6
    <3>3. q \in Inodes
      BY <2>7
    <3>. QED  BY ONLY <3>1, <3>2, <3>3, PlacesMore
  <2>8. current_fragment' = u.current /\ fragment_count' = Len(u.fragments)
    BY <1>3, <1>12, <2>3
  <2>9. dedup_enabled => \A x \in Checksums :
          Lists(fragmented_duplicates[x],
                {q \in Inodes : [file |-> q, checksum |-> x] \in u.small})
    BY <1>8, <1>12 DEF PackedAs
  <2>. QED  BY <1>3, <2>1, <2>7, <2>8, <2>9 DEF PackedAs, Inodes
<1>17. u = Done(inode)'
  BY <1>2, <1>3, DoneSame
<1>18. Agrees(u)'
  BY <1>15, <1>16 DEF Agrees
<1>. QED
  BY <1>3, <1>4, <1>13, <1>17, <1>18
  DEF Progress, FilesDone, BlocksDone, Searched, Placing, At

LEMMA ProgressAtEnd ==
  ASSUME IInv, Healthy, Healthy', Progress, FinishQueue \/ Join
  PROVE  Progress'
<1>1. /\ TypeOK /\ FilesDone /\ inode \in 0 .. Len(input) /\ inode \in Nat
  BY PartsOf DEF Progress
<1>2. /\ UNCHANGED <<input, dedup_enabled, inode, packing>>
      /\ UNCHANGED <<disk, layout, tell, wpc, held, queue, pushing>>
      /\ pc \in {"finish", "join"} /\ pc' \in {"join", "done"}
      /\ pc = "finish" => current_fragment = <<>>
  BY DEF FinishQueue, Join, Healthy, options, reading, writer, channel
<1>3. PICK s, t : s = Done(inode) /\ t = CloseFragment(s)
  OBVIOUS
<1>4. Sequential(s, inode)
  BY <1>1, <1>3, DoneType
<1>5. Agrees(t) /\ inode = Len(input)
  <2>1. inode = Len(input)
    BY <1>1, <1>2 DEF FilesDone, At
  <2>2. CASE pc = "join"
    BY <1>1, <1>3, <2>1, <2>2 DEF FilesDone
  <2>3. CASE pc = "finish"
    <3>1. Agrees(s) \/ Agrees(t)
      BY <1>1, <1>3, <2>3 DEF FilesDone, At
    <3>2. Agrees(s) => t = s
      BY <1>2, <1>3, <2>3 DEF Agrees, PackedAs, CloseFragment
    <3>. QED  BY <2>1, <3>1, <3>2
  <2>. QED  BY <1>2, <2>2, <2>3
<1>6. Drained' = Drained /\ Steady'
  BY <1>2, ClientQuiet DEF Progress
<1>7. Agrees(t)'
  BY <1>2, <1>5, <1>6, AgreesSame
<1>8. Agrees(CloseFragment(s))' /\ s = Done(inode)' /\ inode' = Len(input')
  BY <1>2, <1>3, <1>5, <1>7, DoneSame
<1>. QED
  BY <1>2, <1>6, <1>8
  DEF Progress, FilesDone, BlocksDone, Searched, Placing, At

-----------------------------------------------------------------------------
(* The invariant from which the image is reproducible.                     *)

LEMMA ProgressNext ==
  ASSUME IInv, TypeOK', [Next]_vars, Healthy', Progress
  PROVE  Progress'
<1>1. Healthy
  BY HealthyBefore
<1>2. CASE Client
  <2>1. CASE Push \/ CallHandleWrite
    BY <2>1, ProgressMoved
  <2>2. CASE NextFile
    BY <1>1, <2>2, ProgressNextFile
  <2>3. CASE ReadChunk
    BY <1>1, <2>3, ProgressReadChunk
  <2>4. CASE FlushBlock
    BY <1>1, <2>4, ProgressFlushBlock
  <2>5. CASE Finalize
    BY <1>1, <2>5, ProgressFinalize
  <2>6. CASE PutFragment
    BY <1>1, <2>6, ProgressPutFragment
  <2>7. CASE CompareCurrent \/ CompareStored
    BY <1>1, <2>7, ProgressCompare
  <2>8. CASE GetFragmentEntry
    BY <1>1, <2>8, ProgressGetFragmentEntry
  <2>9. CASE NoDuplicate
    BY <1>1, <2>9, ProgressNoDuplicate
  <2>10. CASE FlushFragment
    BY <1>1, <2>10, ProgressFlushFragment
  <2>11. CASE Insert
    BY <1>1, <2>11, ProgressInsert
  <2>12. CASE FinishQueue \/ Join
    BY <1>1, <2>12, ProgressAtEnd
  <2>. QED
    BY <1>2, <2>1, <2>2, <2>3, <2>4, <2>5, <2>6, <2>7, <2>8, <2>9, <2>10, <2>11,
       <2>12 DEF Client
<1>3. CASE ArchiveFails
  BY <1>3 DEF ArchiveFails, Healthy
<1>4. CASE Writer
  BY <1>1, <1>4, ProgressByWriter
<1>5. CASE UNCHANGED vars
  <2>1. /\ UNCHANGED <<input, dedup_enabled, resume, inode, unread, current_block,
                       block_count, packing, candidates>>
        /\ UNCHANGED <<disk, layout, tell, wpc, held, queue, pushing>> /\ pc' = pc
    BY <1>5 DEF vars, options, control, reading, search, channel, writer
  <2>2. Drained' = Drained /\ (Steady => Steady') /\ Returns /\ TypeOK
    BY <2>1, ClientQuiet, PartsOf DEF Returns
  <2>. QED  BY <2>1, <2>2, ProgressKept
<1>. QED  BY <1>2, <1>3, <1>4, <1>5 DEF Next, Terminated

\* What the client does once the queue is finished, and the writer at its end.
LEMMA EndsLastNext ==
  ASSUME IInv, TypeOK', [Next]_vars, EndsLast
  PROVE  EndsLast'
<1>1. /\ TypeOK /\ Control /\ finished \in BOOLEAN /\ single_threaded \in BOOLEAN
      /\ resume \in {"next", "read", "place", "finish"}
  BY PartsOf DEF TypeOK, ControlOK, ChannelOK, OptionsOK
<1>2. /\ pushing # <<>> <=> pc = "push"
      /\ held # <<>> <=> wpc \in {"write", "report"}
      /\ single_threaded /\ held # <<>> => pc = "handle"
  BY <1>1 DEF Control
<1>3. /\ finished => pc \in {"join", "done", "aborted"}
      /\ wpc = "exited" => finished /\ Pending = <<>>
      /\ pc = "done" => stream = "good" /\ (single_threaded \/ wpc = "exited")
  BY DEF EndsLast
<1>4. CASE ~Stopped /\ (Client \/ ArchiveFails)
  <2>1. UNCHANGED <<single_threaded, stream>>
    BY <1>4 DEF Client, ArchiveFails, Push, CallHandleWrite, NextFile, ReadChunk,
           FlushBlock, Finalize, PutFragment, CompareCurrent, GetFragmentEntry,
           CompareStored, NoDuplicate, FlushFragment, Insert, FinishQueue, Join,
           options, disk
  <2>2. CASE finished
    <3>1. pc = "join"
      BY <1>3, <1>4, <2>2 DEF Stopped
    <3>2. Join
      BY <1>4, <3>1 DEF Client, ArchiveFails, Push, CallHandleWrite, NextFile,
             ReadChunk, FlushBlock, Finalize, PutFragment, CompareCurrent,
             GetFragmentEntry, CompareStored, NoDuplicate, FlushFragment, Insert,
             FinishQueue
    <3>3. /\ UNCHANGED <<finished, wpc, held, queue, pushing>>
          /\ single_threaded \/ wpc = "exited"
          /\ pc' = IF stream = "good" THEN "done" ELSE "aborted"
      BY <3>2 DEF Join, channel, writer
    <3>. QED  BY <1>3, <2>1, <2>2, <3>3 DEF EndsLast, Pending
  <2>3. CASE ~finished
    <3>1. wpc # "exited"
      BY <1>3, <2>3
    <3>2. CASE CallHandleWrite
      BY <2>3, <3>2 DEF CallHandleWrite, channel, EndsLast
    <3>3. CASE FinishQueue
      BY <3>1, <3>3 DEF FinishQueue, writer, EndsLast
    <3>4. CASE Join
      BY <1>1, <2>1, <2>3, <3>1, <3>4 DEF Join, channel, writer, EndsLast
    <3>5. CASE ~(CallHandleWrite \/ FinishQueue \/ Join)
      <4>1. UNCHANGED <<finished, wpc>> /\ pc' # "done"
        BY <1>1, <1>4, <3>5 DEF Client, ArchiveFails, Push, NextFile, ReadChunk,
           FlushBlock, Finalize, PutFragment, CompareCurrent, GetFragmentEntry,
           CompareStored, NoDuplicate, FlushFragment, Insert, Enqueue, Compare,
           Stopped, channel, writer
      <4>. QED  BY <2>3, <3>1, <4>1 DEF EndsLast
    <3>. QED  BY <3>2, <3>3, <3>4, <3>5
  <2>. QED  BY <1>1, <2>2, <2>3
<1>5. CASE ~Stopped /\ Writer
  <2>1. UNCHANGED <<finished, pushing, resume>>
    BY <1>5 DEF Writer, Take, Exit, WriteBytes, WriteIsLost, ReportFragment,
           ReportBlock, KeepBlocks, DropBlocks, HandleThrows, channel, control
  <2>2. wpc # "exited"
    BY <1>5 DEF Writer, Take, Exit, WriteBytes, WriteIsLost, ReportFragment,
           ReportBlock, KeepBlocks, DropBlocks, HandleThrows
  <2>3. CASE Exit
    <3>1. /\ wpc = "pop" /\ queue = <<>> /\ finished /\ pc' = pc
          /\ UNCHANGED <<held, queue>>
      BY <2>3 DEF Exit, control, channel
    <3>2. held = <<>> /\ pushing = <<>> /\ pc # "done"
      BY <1>2, <1>3, <1>5, <3>1 DEF Stopped
    <3>3. Pending' = <<>>
      <4>1. <<>> \o <<>> = <<>>
        BY EmptySeq, ConcatEmptySeq
      <4>. QED  BY <2>1, <3>1, <3>2, <4>1 DEF Pending
    <3>. QED  BY <1>3, <2>1, <3>1, <3>2, <3>3 DEF EndsLast
  <2>4. CASE ~Exit
    <3>1. wpc' # "exited"
      BY <1>5, <2>2, <2>4 DEF Writer, Take, WriteBytes, WriteIsLost, ReportFragment,
             ReportBlock, KeepBlocks, DropBlocks, HandleThrows, Handled
    <3>2. /\ pc' # "done"
          /\ finished => pc' \in {"join", "aborted"}
      <4>1. pc' \in {pc, "aborted"} \/ (single_threaded /\ held # <<>> /\ pc' = resume)
        BY <1>2, <1>5 DEF Writer, Take, Exit, WriteBytes, WriteIsLost, ReportFragment,
               ReportBlock, KeepBlocks, DropBlocks, HandleThrows, Handled, control
      <4>. QED  BY <1>1, <1>2, <1>3, <1>5, <4>1 DEF Stopped
    <3>. QED  BY <2>1, <3>1, <3>2 DEF EndsLast
  <2>. QED  BY <2>3, <2>4
<1>6. CASE UNCHANGED vars
  BY <1>6 DEF vars, EndsLast, Pending, options, control, channel, writer, disk
<1>. QED  BY <1>4, <1>5, <1>6 DEF Next, Terminated

LEMMA InitImageInv == Init => ImageInv
<1>. SUFFICES ASSUME Init PROVE ImageInv
  OBVIOUS
<1>1. IInv /\ TypeOK
  BY InitPathInv, InitOrdered, InitInHand, PartsOf DEF IInv, OrderInv
<1>2. EndsLast
  BY DEF Init, EndsLast
<1>3. Pending = <<>> /\ Len(Pending) = 0
  <2>1. <<>> \o <<>> = <<>> /\ Len(<<>>) = 0
    BY EmptySeq, ConcatEmptySeq
  <2>. QED  BY <2>1 DEF Init, Pending
<1>4. Drained = Now
  BY <1>3, AheadNone DEF Drained
<1>5. PICK l : l = Now
  OBVIOUS
<1>6. /\ l.bytes = <<>> /\ l.reports = [i \in Inodes |-> NoReport]
      /\ l.kept = <<>> /\ l.fragments = <<>>
  <2>1. SubSeq(<<>>, 1, 0) = <<>>
    BY EmptySeq, SubSeqEmpty
  <2>2. l = [bytes |-> <<>>, reports |-> [i \in Inodes |-> NoReport],
             kept |-> <<>>, fragments |-> <<>>]
    BY <1>5, <2>1 DEF Init, Now, End
  <2>. QED  BY ONLY <2>2
<1>7. PICK s : s = NoFiles
  OBVIOUS
<1>8. /\ s.bytes = <<>> /\ s.reports = <<>> /\ s.fragments = <<>>
      /\ s.indices = <<>> /\ s.current = <<>> /\ s.kept = <<>> /\ s.small = {}
      /\ DOMAIN <<>> = {} /\ Len(<<>>) = 0
  <2>1. s = [bytes |-> <<>>, reports |-> <<>>, fragments |-> <<>>, indices |-> <<>>,
             current |-> <<>>, kept |-> <<>>, small |-> {}]
    BY <1>7 DEF NoFiles
  <2>2. /\ s.bytes = <<>> /\ s.reports = <<>> /\ s.fragments = <<>>
        /\ s.indices = <<>> /\ s.current = <<>> /\ s.kept = <<>> /\ s.small = {}
    BY ONLY <2>1
  <2>. QED  BY <2>2, EmptySeq
<1>9. Agrees(s)
  <2>1. WrittenAs(s, 0)
    BY <1>4, <1>5, <1>6, <1>8 DEF WrittenAs, LaidOut
  <2>2. PackedAs(s, s.small)
    BY <1>8 DEF Init, PackedAs, Lists
  <2>. QED  BY <2>1, <2>2 DEF Agrees
<1>10. s = Done(inode)
  BY <1>1, <1>7, DoneType DEF Init
<1>11. Progress
  <2>1. Steady
    BY <1>3 DEF Steady
  <2>. QED
    BY <1>9, <1>10, <2>1
    DEF Init, Progress, FilesDone, BlocksDone, Searched, Placing, At
<1>. QED  BY <1>1, <1>2, <1>11 DEF ImageInv

LEMMA NextImageInv == ImageInv /\ [Next]_vars => ImageInv'
<1>. SUFFICES ASSUME ImageInv, [Next]_vars PROVE ImageInv'
  OBVIOUS
<1>1. IInv /\ IInv' /\ EndsLast
  BY NextIInv DEF ImageInv
<1>2. TypeOK'
  BY <1>1 DEF IInv, OrderInv, PathInv
<1>3. EndsLast'
  BY <1>1, <1>2, EndsLastNext
<1>4. ASSUME Healthy' PROVE Progress'
  <2>1. Progress
    BY <1>4, HealthyBefore DEF ImageInv
  <2>. QED  BY <1>1, <1>2, <1>4, <2>1, ProgressNext
<1>. QED  BY <1>1, <1>3, <1>4 DEF ImageInv

(* As long as nothing fails the layout is, once what is pending has been   *)
(* handled, that of the sequential construction after the files the client *)
(* has left behind: in every state of every run.                           *)
THEOREM ImageInvariant == Spec => []ImageInv
BY InitImageInv, NextImageInv, PTL DEF Spec

\* The table of all files, when no file is missing.
LEMMA TableIs ==
  ASSUME NEW S, NEW t \in Seq(S), Len(t) = Len(input)
  PROVE  DOMAIN t = Inodes /\ t = [j \in Inodes |-> t[j]]
<1>1. DOMAIN t = Inodes /\ t = [j \in DOMAIN t |-> t[j]]
  BY LenProperties DEF Inodes
<1>. QED  BY <1>1

LEMMA ImageAtEnd ==
  ASSUME ImageInv
  PROVE  Reproducible
<1>. SUFFICES ASSUME pc = "done", ~writer_failed
              PROVE  Image = SequentialImage(input, dedup_enabled)
  BY DEF Reproducible
<1>1. /\ IInv /\ EndsLast /\ TypeOK /\ Control /\ Ordered
      /\ Len(input) \in Nat /\ inode \in 0 .. Len(input) /\ inode \in Nat
  BY PartsOf DEF ImageInv
<1>2. Healthy
  BY <1>1 DEF EndsLast, Healthy
<1>3. Pending = <<>> /\ wpc # "report"
  <2>1. pushing = <<>> /\ (single_threaded => queue = <<>> /\ held = <<>>)
    BY <1>1 DEF Control
  <2>2. CASE single_threaded
    <3>1. <<>> \o <<>> = <<>>
      BY EmptySeq, ConcatEmptySeq
    <3>. QED  BY <1>1, <2>1, <2>2, <3>1 DEF Pending, Control
  <2>3. CASE ~single_threaded
    BY <1>1, <2>3 DEF EndsLast
  <2>. QED  BY <2>2, <2>3
<1>4. Drained = Now
  <2>1. Len(Pending) = 0
    BY <1>3, EmptySeq
  <2>. QED  BY <2>1, AheadNone DEF Drained
<1>5. PICK s, t : s = Done(inode) /\ t = CloseFragment(s)
  OBVIOUS
<1>6. Agrees(t) /\ inode = Len(input)
  BY <1>2, <1>5 DEF ImageInv, Progress, FilesDone, At
<1>7. Sequential(t, Len(input))
  <2>1. Sequential(s, Len(input))
    BY <1>1, <1>5, <1>6, DoneType
  <2>. QED  BY <1>1, <1>5, <2>1, CloseFragmentIs
<1>8. /\ Now.bytes = SubSeq(file, 1, pos) /\ Now.reports = reports
      /\ Now.fragments = fragments
  BY <1>1, <1>2, <1>3, NowType DEF Healthy, End
<1>9. LaidOut(Drained, t, inode, input[inode], 0) /\ PackedAs(t, t.small)
  BY <1>6 DEF Agrees, WrittenAs
<1>10. SubSeq(file, 1, pos) = t.bytes /\ fragments = t.fragments
  BY <1>4, <1>8, <1>9 DEF LaidOut
<1>11. reports \in [Inodes -> Report] /\ fragment_indices \in [Inodes -> Place]
  BY <1>1 DEF TypeOK, LayoutOK, PackingOK
<1>12. reports = t.reports
  <2>1. PICK f, r : f = reports /\ r = t.reports
    OBVIOUS
  <2>2. r \in Seq(Report) /\ Len(r) = Len(input)
    BY <1>1, <1>7, <2>1, SequentialIs
  <2>3. DOMAIN f = Inodes /\ f = [j \in Inodes |-> f[j]]
    BY <1>11, <2>1
  <2>4. \A j \in Inodes : f[j] = IF j \in DOMAIN r THEN r[j] ELSE NoReport
    BY <1>4, <1>8, <1>9, <2>1, <2>3 DEF LaidOut
  <2>5. DOMAIN r = Inodes /\ r = [j \in Inodes |-> r[j]]
    BY <2>2, TableIs
  <2>6. \A j \in Inodes : f[j] = r[j]
    BY <2>4, <2>5
  <2>7. [j \in Inodes |-> f[j]] = [j \in Inodes |-> r[j]]
    BY <2>6
  <2>. QED  BY <2>1, <2>3, <2>5, <2>7
<1>13. fragment_indices = t.indices
  <2>1. PICK f, r : f = fragment_indices /\ r = t.indices
    OBVIOUS
  <2>2. r \in Seq(Place) /\ Len(r) = Len(input)
    BY <1>1, <1>7, <2>1, SequentialIs
  <2>3. DOMAIN f = Inodes /\ f = [j \in Inodes |-> f[j]]
    BY <1>11, <2>1
  <2>4. \A j \in Inodes : f[j] = IF j \in DOMAIN r THEN r[j] ELSE NoFragment
    BY <1>9, <2>1 DEF PackedAs
  <2>5. DOMAIN r = Inodes /\ r = [j \in Inodes |-> r[j]]
    BY <2>2, TableIs
  <2>6. \A j \in Inodes : f[j] = r[j]
    BY <2>4, <2>5
  <2>7. [j \in Inodes |-> f[j]] = [j \in Inodes |-> r[j]]
    BY <2>6
  <2>. QED  BY <2>1, <2>3, <2>5, <2>7
<1>14. SequentialImage(input, dedup_enabled)
         = [bytes |-> t.bytes, reports |-> t.reports, fragments |-> t.fragments,
            indices |-> t.indices]
  BY <1>5, <1>6 DEF SequentialImage, Done
<1>. QED  BY <1>10, <1>12, <1>13, <1>14 DEF Image

(* Whatever the schedule of the two threads, and with one thread, a run    *)
(* that exits with status 0 has made the one image the archive and the     *)
(* flags determine (README.md:22-23), for every archive.                   *)
THEOREM ImageIsReproducible == Spec => []Reproducible
BY ImageInvariant, ImageAtEnd, PTL
=============================================================================
