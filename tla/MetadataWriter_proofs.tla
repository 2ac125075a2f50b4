----------------------- MODULE MetadataWriter_proofs -----------------------
(***************************************************************************)
(* For every codec, block size and sequence of records: each address that  *)
(* put has returned leads to the whole of its record, and the blocks of a  *)
(* table follow each other without a gap, all full but the last.           *)
(***************************************************************************)
EXTENDS MetadataWriter, MetadataBlocks_proofs, WellFoundedInduction

-----------------------------------------------------------------------------
(* The inductive invariant.                                                *)

Puts == [addr : [block : Nat, offset : Nat], first : Nat, data : Seq(Byte)]

LEMMA InitInvariant == Init => IInv
<1>. SUFFICES ASSUME Init PROVE IInv
  OBVIOUS
<1>. USE DEF Init
<1>1. <<>> \in Seq(Byte) /\ <<>> \in Seq(Puts) /\ <<>> \in Seq(Stored)
      /\ Len(<<>>) = 0 /\ <<>> \in Block
  BY EmptySeq, EmptyBlock
<1>2. TypeOK
  BY <1>1 DEF TypeOK, NewWriter, Writers, Puts
<1>3. Layout
  <2>1. /\ writer.table = <<>> /\ writer.size = 0 /\ writer.buff = <<>>
        /\ Len(writer.table) = 0 /\ 1 \notin DOMAIN writer.table
    BY <1>1 DEF NewWriter
  <2>2. BlockStart(writer, 1) = 0
    BY <2>1 DEF BlockStart
  <2>3. 0 < BlockSize
    BY BlockSizeAssumption
  <2>. QED  BY <1>1, <2>1, <2>2, <2>3 DEF Layout, Contiguous
<1>4. AddressIsPlace /\ RecordsHeld /\ RestIsTail
  BY DEF AddressIsPlace, RecordsHeld, RestIsTail
<1>5. AllCounted
  <2>1. /\ Len(writer.table) = 0 /\ Len(writer.buff) = 0 /\ Len(rest) = 0
        /\ Total = 0 /\ 0 * BlockSize = 0
    BY <1>1, BlockSizeAssumption DEF NewWriter, Total
  <2>. QED  BY <2>1 DEF AllCounted
<1>. QED  BY <1>2, <1>3, <1>4, <1>5 DEF IInv

(* The loop of put takes at least one byte off what is left.               *)
LEMMA RestShrinks ==
  ASSUME NEW b \in Seq(Byte), NEW n \in 1 .. Len(b)
  PROVE  /\ SubSeq(b, n + 1, Len(b)) \in Seq(Byte)
         /\ Len(SubSeq(b, n + 1, Len(b))) = Len(b) - n
<1>1. Len(b) \in Nat /\ \A i \in 1 .. Len(b) : b[i] \in Byte
  BY LenProperties, ElementOfSeq
<1>2. \A i \in n + 1 .. Len(b) : b[i] \in Byte
  BY <1>1
<1>3. /\ SubSeq(b, n + 1, Len(b)) \in Seq(Byte)
      /\ Len(SubSeq(b, n + 1, Len(b)))
           = IF n + 1 <= Len(b) THEN Len(b) - (n + 1) + 1 ELSE 0
  BY <1>1, <1>2, SubSeqProperties
<1>. QED  BY <1>1, <1>3

(* The first bytes of a sequence.                                          *)
LEMMA FirstBytes ==
  ASSUME NEW d \in Seq(Byte), NEW m \in 0 .. Len(d)
  PROVE  /\ DOMAIN SubSeq(d, 1, m) = 1 .. m
         /\ \A i \in 1 .. m : SubSeq(d, 1, m)[i] = d[i]
<1>1. Len(d) \in Nat /\ m \in Int /\ \A i \in 1 .. m : d[i] \in Byte
  BY LenProperties, ElementOfSeq
<1>2. /\ SubSeq(d, 1, m) \in Seq(Byte)
      /\ Len(SubSeq(d, 1, m)) = IF 1 <= m THEN m - 1 + 1 ELSE 0
      /\ \A i \in 1 .. m - 1 + 1 : SubSeq(d, 1, m)[i] = d[1 + i - 1]
  BY <1>1, SubSeqProperties
<1>3. Len(SubSeq(d, 1, m)) = m /\ m - 1 + 1 = m
  BY <1>1, <1>2
<1>4. \A i \in 1 .. m : SubSeq(d, 1, m)[i] = d[i]
  BY <1>1, <1>2
<1>. QED  BY <1>2, <1>3, <1>4, LenProperties

(* What remains of what remains of a sequence.                             *)
LEMMA TailOfTail ==
  ASSUME NEW d \in Seq(Byte), NEW r \in 1 .. Len(d), NEW n \in 1 .. r - 1
  PROVE  SubSeq(SubSeq(d, Len(d) - r + 1, Len(d)), n + 1, r)
           = SubSeq(d, Len(d) - (r - n) + 1, Len(d))
<1>. DEFINE i == Len(d) - r + 1
            j == Len(d)
<1>1. /\ j \in Nat /\ r \in Nat /\ n \in Nat
      /\ i \in 1 .. Len(d) /\ j \in 1 .. Len(d)
      /\ n + 1 \in 1 .. j - i + 1 /\ r \in 1 .. j - i + 1
  <2>1. Len(d) \in Nat
    BY LenProperties
  <2>. QED  BY <2>1
<1>2. i + (n + 1) - 1 = Len(d) - (r - n) + 1 /\ i + r - 1 = j
  BY <1>1
<1>. HIDE DEF i, j
<1>. DEFINE m == n + 1
<1>3. m \in 1 .. j - i + 1
  BY <1>1
<1>. HIDE DEF m
<1>4. SubSeq(SubSeq(d, i, j), m, r) = SubSeq(d, i + m - 1, i + r - 1)
  BY <1>1, <1>3, SubSeqOfSubSeq
<1>. QED  BY <1>2, <1>4 DEF m, i, j

\* The bytes that have been put, from the last record.
LEMMA TotalIs ==
  ASSUME TypeOK
  PROVE  /\ Total \in Nat
         /\ puts # <<>> => Total = puts[Len(puts)].first + Len(puts[Len(puts)].data)
<1>1. puts \in Seq(Puts) /\ Len(puts) \in Nat
  BY LenProperties DEF TypeOK, Puts
<1>2. CASE puts = <<>>
  BY <1>2 DEF Total
<1>3. CASE puts # <<>>
  <2>1. Len(puts) \in 1 .. Len(puts)
    BY <1>1, <1>3, EmptySeq
  <2>2. puts[Len(puts)] \in Puts
    BY <1>1, <2>1, ElementOfSeq
  <2>3. puts[Len(puts)].first \in Nat /\ Len(puts[Len(puts)].data) \in Nat
    BY <2>2, LenProperties DEF Puts
  <2>4. Total = puts[Len(puts)].first + Len(puts[Len(puts)].data)
    BY <1>3 DEF Total, Last
  <2>. QED  BY <1>3, <2>3, <2>4
<1>. QED  BY <1>2, <1>3

\* A byte of the rest of a sequence.
LEMMA TailElement ==
  ASSUME NEW d \in Seq(Byte), NEW r \in 1 .. Len(d), NEW j \in 1 .. r
  PROVE  SubSeq(d, Len(d) - r + 1, Len(d))[j] = d[Len(d) - r + j]
<1>. PICK i : i = Len(d) - r + 1
  OBVIOUS
<1>1. Len(d) \in Nat /\ i \in Int /\ i <= Len(d) /\ i >= 1
      /\ \A k \in i .. Len(d) : d[k] \in Byte
  BY LenProperties, ElementOfSeq
<1>2. \A k \in 1 .. Len(d) - i + 1 : SubSeq(d, i, Len(d))[k] = d[i + k - 1]
  BY <1>1, SubSeqProperties
<1>3. j \in 1 .. Len(d) - i + 1 /\ i + j - 1 = Len(d) - r + j
  BY <1>1
<1>. QED  BY <1>2, <1>3

\* The parts of what was put.
LEMMA PutType ==
  ASSUME TypeOK, RestIsTail, NEW k \in DOMAIN puts
  PROVE  /\ puts[k].addr.offset \in Nat /\ puts[k].first \in Nat
         /\ Written(k) \in Seq(Byte)
<1>1. puts \in Seq(Puts) /\ rest \in Seq(Byte) /\ Len(rest) \in Nat
  BY LenProperties DEF TypeOK, Puts
<1>2. puts[k] \in Puts
  BY <1>1, LenProperties, ElementOfSeq
<1>3. PICK d \in Seq(Byte) : d = puts[k].data
  BY <1>2 DEF Puts
<1>4. SubSeq(d, 1, Len(d) - Len(rest)) \in Seq(Byte)
  <2>1. Len(d) \in Nat /\ \A i \in 1 .. Len(d) - Len(rest) : d[i] \in Byte
    BY <1>1, LenProperties, ElementOfSeq
  <2>. QED  BY <1>1, <2>1, SubSeqProperties
<1>5. Written(k) \in Seq(Byte)
  BY <1>3, <1>4 DEF Written
<1>. QED  BY <1>2, <1>5 DEF Puts

\* No block holds more than BlockSize bytes.
LEMMA ContentFits ==
  ASSUME TypeOK, Layout, NEW j \in 1 .. Len(writer.table) + 1
  PROVE  /\ DOMAIN BlockContent(writer, j) = 1 .. Len(BlockContent(writer, j))
         /\ Len(BlockContent(writer, j)) \in Nat
         /\ Len(BlockContent(writer, j)) <= BlockSize
<1>1. writer \in Writers
  BY DEF TypeOK
<1>2. BlockContent(writer, j) \in Block
  <2>1. CASE j \in 1 .. Len(writer.table)
    BY <1>1, <2>1, WriterParts DEF Layout, BlockContent
  <2>2. CASE j \notin 1 .. Len(writer.table)
    BY <1>1, <2>2, WriterParts DEF BlockContent
  <2>. QED  BY <2>1, <2>2
<1>. QED  BY <1>2, BlockIsSeq, LenProperties

LEMMA CallPutInvariant == IInv /\ CallPut => IInv'
<1>. SUFFICES ASSUME IInv, CallPut PROVE IInv'
  OBVIOUS
<1>1. PICK b \in Records :
        /\ rest' = b
        /\ puts' = Append(puts, [addr |-> GetAddress(writer), first |-> Total,
                                 data |-> b])
  BY DEF CallPut
<1>2. ~closed /\ rest = <<>> /\ writer' = writer /\ closed' = closed
  BY DEF CallPut
<1>. DEFINE p == [addr |-> GetAddress(writer), first |-> Total, data |-> b]
            n == Len(puts)
<1>3. /\ writer \in Writers /\ puts \in Seq(Puts) /\ closed \in BOOLEAN
      /\ b \in Seq(Byte) /\ Len(b) \in Nat /\ n \in Nat
      /\ DOMAIN puts = 1 .. n /\ Total \in Nat
  <2>1. b \in Seq(Byte)
    BY RecordAssumption
  <2>. QED  BY <2>1, TotalIs, LenProperties DEF IInv, TypeOK, Puts
<1>4. p \in Puts
  BY <1>3, WriterParts DEF GetAddress, Puts
<1>5. /\ puts' \in Seq(Puts) /\ Len(puts') = n + 1
      /\ DOMAIN puts' = 1 .. n + 1
      /\ \A k \in 1 .. n : puts'[k] = puts[k]
      /\ puts'[n + 1] = p
  BY <1>1, <1>3, <1>4, AppendProperties, LenProperties
<1>6. Len(writer.table) * BlockSize + Len(writer.buff) = Total
  <2>1. Len(rest) = 0
    BY <1>2, EmptySeq
  <2>2. Len(writer.table) * BlockSize + Len(writer.buff) \in Nat
    <3>1. Len(writer.table) \in Nat /\ Len(writer.buff) \in Nat /\ BlockSize \in Nat
      BY <1>3, WriterParts, BlockSizeAssumption
    <3>2. Len(writer.table) * BlockSize \in Nat
      BY <3>1
    <3>3. PICK g \in Nat : g = Len(writer.table) * BlockSize
      BY <3>2
    <3>4. g + Len(writer.buff) \in Nat
      BY <3>1
    <3>. QED  BY <3>3, <3>4
  <2>3. Len(writer.table) * BlockSize + Len(writer.buff) + Len(rest) = Total
    BY <1>2 DEF IInv, AllCounted
  <2>. QED  BY <2>1, <2>2, <2>3
<1>. HIDE DEF p
<1>7. TypeOK'
  BY <1>1, <1>2, <1>3, <1>5 DEF TypeOK, Puts
<1>8. Layout'
  BY <1>2 DEF IInv, Layout
<1>9. AddressIsPlace'
  <2>1. ASSUME NEW k \in 1 .. n
        PROVE  IsPlace(writer, puts'[k].addr, puts'[k].first)
    BY <1>3, <1>5 DEF IInv, AddressIsPlace
  <2>2. IsPlace(writer, puts'[n + 1].addr, puts'[n + 1].first)
    <3>1. /\ puts'[n + 1].addr.block = writer.size
          /\ puts'[n + 1].addr.offset = Len(writer.buff)
          /\ puts'[n + 1].first = Total
      BY <1>5 DEF p, GetAddress
    <3>2. Len(writer.buff) < BlockSize
      BY DEF IInv, Layout
    <3>. DEFINE j == Len(writer.table) + 1
    <3>3. /\ j \in 1 .. Len(writer.table) + 1 /\ j \notin DOMAIN writer.table
          /\ j - 1 = Len(writer.table)
      BY <1>3, WriterParts
    <3>4. BlockStart(writer, j) = writer.size
      BY <3>3 DEF BlockStart
    <3>. HIDE DEF j
    <3>. QED  BY <1>6, <3>1, <3>2, <3>3, <3>4 DEF IsPlace
  <2>3. ASSUME NEW k \in 1 .. n + 1
        PROVE  IsPlace(writer, puts'[k].addr, puts'[k].first)
    <3>1. k \in 1 .. n \/ k = n + 1
      BY <1>3, <2>3
    <3>. QED  BY <2>1, <2>2, <3>1
  <2>. QED  BY <1>2, <1>5, <2>3 DEF AddressIsPlace, IsPlace
<1>10. RecordsHeld'
  <2>1. ASSUME NEW k \in 1 .. n
        PROVE  Written(k)' = Written(k)
    <3>1. puts[k] \in Puts
      BY <1>3, ElementOfSeq
    <3>2. Written(k)' = puts[k].data
      BY <1>3, <1>5 DEF Written
    <3>3. puts[k].data \in Seq(Byte) /\ Len(puts[k].data) \in Nat
      BY <3>1, LenProperties DEF Puts
    <3>4. Len(puts[k].data) - Len(rest) = Len(puts[k].data)
      BY <1>2, <3>3, EmptySeq
    <3>. QED  BY <3>2, <3>3, <3>4, SubSeqFull DEF Written
  <2>2. ASSUME NEW k, k = n + 1 PROVE Written(k)' = <<>>
    <3>1. puts'[k].data = b
      BY <1>5, <2>2 DEF p
    <3>2. Written(k)' = SubSeq(b, 1, Len(b) - Len(b))
      <4>1. rest' = b /\ Len(puts') = k
        BY <1>1, <1>5, <2>2
      <4>. QED  BY <3>1, <4>1 DEF Written
    <3>3. Len(b) - Len(b) \in Int /\ Len(b) - Len(b) < 1
      BY <1>3
    <3>. QED  BY <3>2, <3>3, SubSeqEmpty
  <2>3. ASSUME NEW k \in 1 .. n + 1, NEW i \in DOMAIN Written(k)'
        PROVE  HasByte(writer, puts'[k].first + i - 1, Written(k)'[i])
    <3>1. k \in 1 .. n
      <4>1. ASSUME k = n + 1 PROVE FALSE
        <5>1. Written(k)' = <<>>
          BY <2>2, <4>1
        <5>2. DOMAIN <<>> = {}
          OBVIOUS
        <5>. QED  BY <2>3, <5>1, <5>2
      <4>. QED  BY <1>3, <2>3, <4>1
    <3>2. puts'[k] = puts[k] /\ Written(k)' = Written(k) /\ k \in DOMAIN puts
      BY <1>3, <1>5, <2>1, <3>1
    <3>. QED  BY <2>3, <3>2 DEF IInv, RecordsHeld
  <2>. QED  BY <1>2, <1>5, <2>3 DEF RecordsHeld, HasByte
<1>11. AllCounted'
  <2>1. Total' = Total + Len(b)
    <3>1. puts' # <<>>
      BY <1>3, <1>5, EmptySeq
    <3>. QED  BY <1>5, <3>1 DEF Total, Last, p
  <2>. QED  BY <1>1, <1>2, <1>6, <2>1 DEF AllCounted
<1>12. RestIsTail'
  <2>1. puts'[Len(puts')].data = b
    BY <1>5 DEF p
  <2>2. puts' # <<>>
    BY <1>3, <1>5, EmptySeq
  <2>3. Len(b) - Len(b) + 1 = 1 /\ Len(b) <= Len(b)
    BY <1>3
  <2>4. SubSeq(b, 1, Len(b)) = b
    BY <1>3, SubSeqFull
  <2>. QED  BY <1>1, <2>1, <2>2, <2>3, <2>4 DEF RestIsTail
<1>. QED  BY <1>7, <1>8, <1>9, <1>10, <1>11, <1>12 DEF IInv

LEMMA PutChunkInvariant == IInv /\ PutChunk => IInv'
<1>. SUFFICES ASSUME IInv, PutChunk PROVE IInv'
  OBVIOUS
<1>. DEFINE w == writer
            v == AddChunk(writer, rest)
            f == Filled(writer, rest).buff
            n == Added(writer, rest)
            last == Len(puts)
            d == puts[last].data
<1>1. /\ rest # <<>> /\ writer' = v /\ rest' = SubSeq(rest, n + 1, Len(rest))
      /\ puts' = puts /\ closed' = closed
  BY DEF PutChunk
<1>2. /\ w \in Writers /\ rest \in Seq(Byte) /\ puts \in Seq(Puts)
      /\ closed \in BOOLEAN /\ Len(w.buff) < BlockSize
      /\ Contiguous(w) /\ ~closed
  BY <1>1 DEF IInv, TypeOK, Layout, Puts
<1>3. /\ puts # <<>> /\ last \in Nat \ {0} /\ DOMAIN puts = 1 .. last
      /\ d \in Seq(Byte) /\ Len(d) \in Nat /\ Len(rest) \in Nat \ {0}
      /\ \A k \in 1 .. last : puts[k] \in Puts
  <2>1. puts # <<>>
    BY <1>1 DEF IInv, RestIsTail
  <2>2. last \in Nat \ {0} /\ DOMAIN puts = 1 .. last
        /\ \A k \in 1 .. last : puts[k] \in Puts
    BY <1>2, <2>1, EmptySeq, LenProperties, ElementOfSeq
  <2>3. d \in Seq(Byte)
    BY <2>2 DEF Puts
  <2>. QED  BY <1>1, <1>2, <2>1, <2>2, <2>3, EmptySeq, LenProperties
<1>4. /\ Len(rest) <= Len(d)
      /\ rest = SubSeq(d, Len(d) - Len(rest) + 1, Len(d))
  BY <1>1 DEF IInv, RestIsTail
<1>5. /\ n \in 1 .. Len(rest)
      /\ Continues(f, w)
      /\ Len(f) = Len(w.buff) + n
      /\ \A i \in 1 .. n : f[Len(w.buff) + i] = rest[i]
      /\ \/ Len(f) = BlockSize /\ Sealed(w, v, f)
         \/ Len(f) < BlockSize /\ v = [w EXCEPT !.buff = f]
  BY <1>1, <1>2, AddChunkResult
<1>6. /\ v \in Writers /\ Extends(w, v)
      /\ Len(w.table) + 1 \in 1 .. Len(v.table) + 1
      /\ BlockContent(v, Len(w.table) + 1) = f
  BY <1>1, <1>2, AddChunkExtends
<1>7. rest' \in Seq(Byte) /\ Len(rest') = Len(rest) - n
  BY <1>1, <1>2, <1>5, RestShrinks
<1>. HIDE DEF w, v, f, n, last, d
<1>8. TypeOK'
  BY <1>1, <1>2, <1>6, <1>7 DEF TypeOK, Puts
<1>9. Layout'
  <2>1. CASE Sealed(w, v, f) /\ Len(f) = BlockSize
    <3>1. Contiguous(v)
      BY <1>2, <2>1, SealedContiguous
    <3>2. ASSUME NEW j \in 1 .. Len(v.table)
          PROVE  Content(v.table[j]) \in Block /\ Len(Content(v.table[j])) = BlockSize
      <4>1. Len(w.table) \in Nat /\ Len(v.table) = Len(w.table) + 1
        BY <1>2, <2>1, WriterParts DEF Sealed
      <4>2. CASE j \in 1 .. Len(w.table)
        BY <1>2, <2>1, <4>2 DEF Sealed, IInv, Layout, w
      <4>3. CASE j = Len(w.table) + 1
        BY <1>5, <2>1, <4>3 DEF Sealed, Continues
      <4>. QED  BY <4>1, <4>2, <4>3
    <3>3. v.buff = <<>> /\ Len(v.buff) < BlockSize
      BY <2>1, EmptySeq, BlockSizeAssumption DEF Sealed
    <3>. QED  BY <1>1, <1>2, <3>1, <3>2, <3>3 DEF Layout
  <2>2. CASE v = [w EXCEPT !.buff = f] /\ Len(f) < BlockSize
    <3>1. v.table = w.table /\ v.size = w.size /\ v.buff = f
      BY <1>2, <2>2 DEF Writers
    <3>2. Contiguous(v)
      BY <1>2, <3>1 DEF Contiguous, BlockStart
    <3>. QED  BY <1>1, <1>2, <2>2, <3>1, <3>2 DEF Layout, IInv, w
  <2>. QED  BY <1>5, <2>1, <2>2
<1>10. AddressIsPlace'
  <2>1. ASSUME NEW k \in 1 .. last
        PROVE  IsPlace(v, puts[k].addr, puts[k].first)
    <3>1. IsPlace(w, puts[k].addr, puts[k].first)
      BY <1>3 DEF IInv, AddressIsPlace, w
    <3>. QED  BY <1>2, <1>6, <3>1, PlaceStays
  <2>. QED  BY <1>1, <1>3, <2>1 DEF AddressIsPlace, IsPlace
<1>11. /\ Len(w.table) \in Nat /\ Len(w.buff) \in Nat /\ BlockSize \in Nat
       /\ Len(w.table) * BlockSize \in Nat /\ Total \in Nat
       /\ Total = puts[last].first + Len(d)
       /\ Len(w.table) * BlockSize + Len(w.buff) + Len(rest) = Total
       /\ puts[last].first \in Nat
  <2>1. TypeOK /\ AllCounted
    BY DEF IInv
  <2>2. puts[last].first \in Nat
    BY <1>3 DEF Puts
  <2>3. Total \in Nat /\ Total = puts[last].first + Len(d)
    BY <1>3, <2>1, TotalIs DEF last, d
  <2>4. Len(w.table) \in Nat /\ Len(w.buff) \in Nat /\ BlockSize \in Nat
    BY <1>2, WriterParts, BlockSizeAssumption
  <2>5. Len(w.table) * BlockSize \in Nat
    BY <2>4
  <2>6. Len(w.table) * BlockSize + Len(w.buff) + Len(rest) = Total
    BY <1>2, <2>1 DEF AllCounted, w
  <2>. QED  BY <2>2, <2>3, <2>4, <2>5, <2>6
<1>12. RecordsHeld'
  <2>1. ASSUME NEW k \in 1 .. last, NEW i \in DOMAIN Written(k)
        PROVE  HasByte(v, puts[k].first + i - 1, Written(k)[i])
    <3>1. HasByte(w, puts[k].first + i - 1, Written(k)[i])
      BY <1>3, <2>1 DEF IInv, RecordsHeld, w
    <3>. QED  BY <1>2, <1>6, <3>1, ByteStays
  <2>2. \A k \in 1 .. last : k # last => Written(k)' = Written(k)
    BY <1>1 DEF Written, last
  <2>. DEFINE l == Len(d) - Len(rest)
              m == Len(d) - Len(rest')
  <2>3. /\ l \in 0 .. Len(d) /\ m \in 0 .. Len(d) /\ m = l + n
        /\ Written(last) = SubSeq(d, 1, l)
        /\ \A k \in 1 .. last : k = last => Written(k)' = SubSeq(d, 1, m)
    <3>1. l \in 0 .. Len(d) /\ m \in 0 .. Len(d) /\ m = l + n
      BY <1>3, <1>4, <1>5, <1>7
    <3>2. /\ Written(last) = SubSeq(d, 1, l)
          /\ \A k \in 1 .. last : k = last => Written(k)' = SubSeq(d, 1, m)
      BY <1>1 DEF Written, last, d
    <3>. QED  BY <3>1, <3>2
  <2>4. PICK g \in Nat : g = Len(w.table) * BlockSize
    BY <1>11
  <2>5. g + Len(w.buff) = puts[last].first + l
    <3>1. g + Len(w.buff) + Len(rest) = puts[last].first + Len(d)
      BY <1>11, <2>4
    <3>2. /\ Len(rest) \in Int /\ Len(d) \in Int /\ Len(w.buff) \in Int
          /\ puts[last].first \in Int
      BY <1>3, <1>11
    <3>. QED  BY <3>1, <3>2
  <2>. HIDE DEF l, m
  <2>6. /\ DOMAIN SubSeq(d, 1, l) = 1 .. l /\ DOMAIN SubSeq(d, 1, m) = 1 .. m
        /\ \A i \in 1 .. l : SubSeq(d, 1, l)[i] = d[i]
        /\ \A i \in 1 .. m : SubSeq(d, 1, m)[i] = d[i]
    BY <1>3, <2>3, FirstBytes
  <2>7. ASSUME NEW i \in 1 .. m
        PROVE  HasByte(v, puts[last].first + i - 1, d[i])
    <3>1. CASE i \in 1 .. l
      <4>1. i \in DOMAIN Written(last) /\ Written(last)[i] = d[i]
        BY <2>3, <2>6, <3>1
      <4>2. last \in 1 .. last
        BY <1>3
      <4>3. HasByte(v, puts[last].first + i - 1, Written(last)[i])
        BY <2>1, <4>1, <4>2
      <4>. QED  BY <4>1, <4>3
    <3>2. CASE i \notin 1 .. l
      <4>. PICK j : j = i - l
        OBVIOUS
      <4>1. j \in 1 .. n /\ i = l + j /\ j \in 1 .. Len(rest)
        <5>1. /\ n \in Int /\ 1 <= n /\ n <= Len(rest) /\ Len(rest) \in Int
              /\ l \in Int /\ 0 <= l /\ m = l + n
          BY <1>3, <1>5, <2>3
        <5>. QED  BY <3>2, <5>1
      <4>2. rest[j] = d[i]
        BY <1>3, <1>4, <4>1, TailElement DEF l
      <4>3. f[Len(w.buff) + j] = d[i]
        BY <1>5, <4>1, <4>2
      <4>4. Len(w.buff) + j \in DOMAIN f
        <5>1. f \in Seq(Byte)
          BY <1>5, BlockIsSeq DEF Continues
        <5>2. DOMAIN f = 1 .. Len(f)
          BY <5>1, LenProperties
        <5>3. Len(f) = Len(w.buff) + n /\ Len(w.buff) \in Nat /\ n \in Int
          BY <1>3, <1>5, <1>11
        <5>. QED  BY <4>1, <5>2, <5>3
      <4>5. (puts[last].first + i - 1) - ((Len(w.table) + 1) - 1) * BlockSize + 1
              = Len(w.buff) + j
        <5>1. ((Len(w.table) + 1) - 1) * BlockSize = g
          BY <1>11, <2>4
        <5>2. (puts[last].first + i - 1) - g + 1 = Len(w.buff) + j
          <6>1. /\ puts[last].first \in Int /\ Len(w.buff) \in Int /\ l \in Int
                /\ n \in Int
            <7>1. l \in Int /\ n \in Int
              BY <1>3, <1>5, <2>3
            <7>. QED  BY <1>11, <7>1
          <6>2. PICK q \in Int : q = puts[last].first
            BY <6>1
          <6>3. PICK c \in Int : c = Len(w.buff)
            BY <6>1
          <6>4. j \in Int /\ i = l + j /\ g + c = q + l
            BY <2>5, <4>1, <6>1, <6>2, <6>3
          <6>5. (q + i - 1) - g + 1 = c + j
            BY <6>1, <6>4
          <6>. QED  BY <6>2, <6>3, <6>5
        <5>. QED  BY <5>1, <5>2
      <4>. QED  BY <1>6, <4>3, <4>4, <4>5 DEF HasByte
    <3>. QED  BY <3>1, <3>2
  <2>8. ASSUME NEW k \in 1 .. last, NEW i \in DOMAIN Written(k)'
        PROVE  HasByte(v, puts[k].first + i - 1, Written(k)'[i])
    <3>1. CASE k = last
      <4>1. i \in 1 .. m /\ Written(k)'[i] = d[i]
        <5>1. Written(k)' = SubSeq(d, 1, m)
          BY <2>3, <3>1
        <5>. QED  BY <2>6, <2>8, <5>1
      <4>. QED  BY <2>7, <3>1, <4>1
    <3>2. CASE k # last
      BY <2>1, <2>2, <2>8, <3>2
    <3>. QED  BY <3>1, <3>2
  <2>. QED  BY <1>1, <1>3, <2>8 DEF RecordsHeld, HasByte
<1>13. AllCounted'
  <2>1. Total' = Total
    BY <1>1 DEF Total
  <2>2. Len(v.table) * BlockSize + Len(v.buff) = Len(w.table) * BlockSize + Len(f)
    <3>1. CASE Len(f) = BlockSize /\ Sealed(w, v, f)
      <4>1. Len(v.table) = Len(w.table) + 1 /\ Len(v.buff) = 0
        BY <3>1, EmptySeq DEF Sealed
      <4>2. (Len(w.table) + 1) * BlockSize = Len(w.table) * BlockSize + BlockSize
        BY <1>11
      <4>. QED  BY <1>11, <3>1, <4>1, <4>2
    <3>2. CASE v = [w EXCEPT !.buff = f]
      <4>1. v.table = w.table /\ v.buff = f
        BY <1>2, <3>2 DEF Writers
      <4>. QED  BY <4>1
    <3>. QED  BY <1>5, <3>1, <3>2
  <2>3. Len(w.table) * BlockSize + Len(f) + Len(rest') = Total
    <3>1. PICK g \in Nat : g = Len(w.table) * BlockSize
      BY <1>11
    <3>2. /\ Len(f) = Len(w.buff) + n /\ Len(rest') = Len(rest) - n
          /\ Len(w.buff) \in Int /\ Len(rest) \in Int /\ n \in Int
      BY <1>3, <1>5, <1>7, <1>11
    <3>3. g + Len(w.buff) + Len(rest) = Total
      BY <1>11, <3>1
    <3>4. g + Len(f) + Len(rest') = g + Len(w.buff) + Len(rest)
      BY <3>2
    <3>. QED  BY <3>1, <3>3, <3>4
  <2>. QED  BY <1>1, <2>1, <2>2, <2>3 DEF AllCounted
<1>14. RestIsTail'
  <2>. SUFFICES ASSUME rest' # <<>>
                PROVE  /\ Len(rest') <= Len(d)
                       /\ rest' = SubSeq(d, Len(d) - Len(rest') + 1, Len(d))
    BY <1>1, <1>3 DEF RestIsTail, last, d
  <2>. DEFINE L == Len(d)
              R == Len(rest)
  <2>1. Len(rest') = R - n /\ R - n \in Nat \ {0}
    <3>1. Len(rest') \in Nat \ {0}
      BY <1>7, EmptySeq
    <3>. QED  BY <1>7, <3>1
  <2>2. R \in 1 .. L /\ n \in 1 .. R - 1
    BY <1>3, <1>4, <1>5, <2>1
  <2>3. rest' = SubSeq(SubSeq(d, L - R + 1, L), n + 1, R)
    BY <1>1, <1>4 DEF n
  <2>4. SubSeq(SubSeq(d, L - R + 1, L), n + 1, R) = SubSeq(d, L - (R - n) + 1, L)
    BY <1>3, <2>2, TailOfTail
  <2>5. R - n <= L
    BY <1>3, <2>2
  <2>. QED  BY <2>1, <2>3, <2>4, <2>5
<1>. QED  BY <1>8, <1>9, <1>10, <1>12, <1>13, <1>14 DEF IInv

(* Closing the table: what is in the buffer becomes the last block.        *)
LEMMA CloseInvariant ==
  ASSUME IInv, NEW v, v \in Writers, Extends(writer, v), Contiguous(v),
         v.buff = <<>>,
         \A j \in 1 .. Len(v.table) :
           /\ Content(v.table[j]) \in Block
           /\ \/ Len(Content(v.table[j])) = BlockSize
              \/ j = Len(v.table),
         ~closed, rest = <<>>,
         writer' = v, closed' = TRUE, rest' = rest, puts' = puts
  PROVE  IInv'
<1>1. TypeOK'
  BY DEF TypeOK, IInv
<1>2. Layout'
  BY EmptySeq, BlockSizeAssumption DEF Layout
<1>3. writer \in Writers
  BY DEF IInv, TypeOK
<1>4. AddressIsPlace'
  <2>1. \A k \in DOMAIN puts : IsPlace(v, puts[k].addr, puts[k].first)
    BY <1>3, PlaceStays DEF IInv, AddressIsPlace
  <2>. QED  BY <2>1 DEF AddressIsPlace, IsPlace
<1>5. RecordsHeld'
  <2>1. \A k \in DOMAIN puts : Written(k)' = Written(k)
    BY DEF Written
  <2>2. \A k \in DOMAIN puts : \A i \in DOMAIN Written(k) :
          HasByte(v, puts[k].first + i - 1, Written(k)[i])
    BY <1>3, ByteStays DEF IInv, RecordsHeld
  <2>. QED  BY <2>1, <2>2 DEF RecordsHeld, HasByte
<1>6. AllCounted' /\ RestIsTail'
  BY DEF AllCounted, RestIsTail
<1>. QED  BY <1>1, <1>2, <1>4, <1>5, <1>6 DEF IInv

(* A block behind those there are, all of which are full.                  *)
LEMMA SealedLast ==
  ASSUME IInv, ~closed, NEW v, NEW b, Sealed(writer, v, b), Continues(b, writer)
  PROVE  /\ v \in Writers /\ Extends(writer, v) /\ Contiguous(v) /\ v.buff = <<>>
         /\ \A j \in 1 .. Len(v.table) :
              /\ Content(v.table[j]) \in Block
              /\ \/ Len(Content(v.table[j])) = BlockSize
                 \/ j = Len(v.table)
<1>1. writer \in Writers /\ Contiguous(writer)
  BY DEF IInv, TypeOK, Layout
<1>2. v \in Writers /\ v.buff = <<>> /\ Extends(writer, v) /\ Contiguous(v)
  BY <1>1, SealedExtends, SealedContiguous DEF Sealed
<1>3. Len(writer.table) \in Nat /\ Len(v.table) = Len(writer.table) + 1
  BY <1>1, WriterParts DEF Sealed
<1>4. ASSUME NEW j \in 1 .. Len(v.table), j # Len(v.table)
      PROVE  Content(v.table[j]) \in Block /\ Len(Content(v.table[j])) = BlockSize
  <2>1. j \in 1 .. Len(writer.table)
    BY <1>3, <1>4
  <2>. QED  BY <2>1 DEF Sealed, IInv, Layout
<1>5. Content(v.table[Len(v.table)]) \in Block
  BY <1>3 DEF Sealed, Continues
<1>. QED  BY <1>2, <1>4, <1>5

LEMMA NextInvariant == IInv /\ [Next]_vars => IInv'
<1>. SUFFICES ASSUME IInv, [Next]_vars PROVE IInv'
  OBVIOUS
<1>1. CASE CallPut
  BY <1>1, CallPutInvariant
<1>2. CASE PutChunk
  BY <1>2, PutChunkInvariant
<1>3. CASE CloseWithPadding
  <2>. DEFINE v == WriteBlock(writer)
              b == Padded(writer.buff)
  <2>1. writer \in Writers
    BY DEF IInv, TypeOK
  <2>2. Sealed(writer, v, b) /\ Continues(b, writer)
    BY <2>1, WriteBlockSeals, PaddedFills
  <2>3. /\ ~closed /\ rest = <<>> /\ writer' = v /\ closed' = TRUE
        /\ rest' = rest /\ puts' = puts
    BY <1>3 DEF CloseWithPadding
  <2>. HIDE DEF v, b
  <2>. QED  BY <2>2, <2>3, SealedLast, CloseInvariant
<1>4. CASE CloseWithoutPadding
  <2>. DEFINE v == WriteBlockNoPad(writer)
              b == writer.buff
  <2>1. writer \in Writers /\ Len(b) \in Nat /\ b \in Block /\ Contiguous(writer)
    BY WriterParts DEF IInv, TypeOK, Layout
  <2>2. /\ ~closed /\ rest = <<>> /\ writer' = v /\ closed' = TRUE
        /\ rest' = rest /\ puts' = puts
    BY <1>4 DEF CloseWithoutPadding
  <2>3. CASE writer.buff = <<>>
    <3>1. v = writer
      BY <2>3 DEF WriteBlockNoPad
    <3>2. Extends(writer, v)
      BY <2>1, <3>1, WriterParts DEF Extends
    <3>3. \A j \in 1 .. Len(v.table) :
            Content(v.table[j]) \in Block /\ Len(Content(v.table[j])) = BlockSize
      BY <2>2, <3>1 DEF IInv, Layout
    <3>. HIDE DEF v
    <3>. QED  BY <2>1, <2>2, <2>3, <3>1, <3>2, <3>3, CloseInvariant
  <2>4. CASE writer.buff # <<>>
    <3>1. Sealed(writer, v, b)
      BY <2>1, <2>4, WriteBlockNoPadSeals
    <3>2. Continues(b, writer)
      BY <2>1 DEF Continues
    <3>. HIDE DEF v, b
    <3>. QED  BY <2>2, <3>1, <3>2, SealedLast, CloseInvariant
  <2>. QED  BY <2>3, <2>4
<1>5. CASE Terminated \/ UNCHANGED vars
  <2>1. UNCHANGED vars
    BY <1>5 DEF Terminated
  <2>. QED  BY <2>1 DEF vars, IInv, TypeOK, Layout, AddressIsPlace, RecordsHeld,
                        AllCounted, Total, RestIsTail, Written
<1>. QED  BY <1>1, <1>2, <1>3, <1>4, <1>5 DEF Next

(* The metadata writer keeps its invariant for any codec, block size and   *)
(* records.                                                                *)
THEOREM MetadataInvariant == Spec => []IInv
<1>. QED  BY InitInvariant, NextInvariant, PTL DEF Spec

(* An address is given by the bytes put before its record and by where the *)
(* blocks begin, and it stays right whatever is put or written later.      *)
THEOREM AddressesArePlaces == Spec => []AddressIsPlace
<1>1. IInv => AddressIsPlace
  BY DEF IInv
<1>. QED  BY <1>1, MetadataInvariant, PTL

\* Two places in full blocks are the same if they are as many bytes in.
LEMMA SamePlace ==
  ASSUME NEW i \in Nat, NEW j \in Nat, NEW o \in 0 .. BlockSize - 1,
         NEW p \in 0 .. BlockSize - 1, i * BlockSize + o = j * BlockSize + p
  PROVE  i = j /\ o = p
<1>1. BlockSize \in Nat
  BY BlockSizeAssumption
<1>2. ASSUME NEW c \in Nat, NEW e \in Nat, c + 1 <= e
      PROVE  c * BlockSize + BlockSize <= e * BlockSize
  <2>1. PICK q \in Nat : e = c + 1 + q
    BY <1>2
  <2>2. e * BlockSize = c * BlockSize + BlockSize + q * BlockSize
    BY <1>1, <2>1
  <2>3. q * BlockSize \in Nat /\ c * BlockSize \in Nat
    BY <1>1
  <2>. QED  BY <1>1, <2>2, <2>3
<1>3. i * BlockSize \in Nat /\ j * BlockSize \in Nat
  BY <1>1
<1>4. ~(i + 1 <= j) /\ ~(j + 1 <= i)
  BY <1>1, <1>2, <1>3
<1>. QED  BY <1>3, <1>4

(* Every address that put has ever returned leads to the whole record, in  *)
(* as many blocks as it takes, whatever was put, compressed and padded     *)
(* since.                                                                  *)
THEOREM AddressesLead == Spec => []AddressesResolve
<1>1. IInv => AddressesResolve
  <2>. SUFFICES ASSUME IInv, NEW k \in DOMAIN puts
                PROVE  Leads(writer, puts[k].addr, Written(k))
    BY DEF AddressesResolve
  <2>. DEFINE a == puts[k].addr
              s == Written(k)
  <2>1. PICK j \in 1 .. Len(writer.table) + 1 :
          /\ BlockStart(writer, j) = a.block
          /\ a.offset < BlockSize
          /\ puts[k].first = (j - 1) * BlockSize + a.offset
    BY DEF IInv, AddressIsPlace, IsPlace
  <2>2. \A i \in DOMAIN s : HasByte(writer, puts[k].first + i - 1, s[i])
    BY DEF IInv, RecordsHeld
  <2>3. /\ a.offset \in Nat /\ puts[k].first \in Nat /\ s \in Seq(Byte)
        /\ writer \in Writers /\ BlockSize \in Nat /\ Len(writer.table) \in Nat
    BY PutType, BlockSizeAssumption, WriterParts DEF IInv, TypeOK
  <2>4. ASSUME s # <<>> PROVE a.offset < Len(BlockContent(writer, j))
    <3>1. 1 \in DOMAIN s /\ puts[k].first + 1 - 1 = puts[k].first
      BY <2>3, <2>4, EmptySeq, LenProperties
    <3>2. HasByte(writer, puts[k].first, s[1])
      BY <2>2, <3>1
    <3>3. PICK i \in 1 .. Len(writer.table) + 1 :
            puts[k].first - (i - 1) * BlockSize + 1 \in DOMAIN BlockContent(writer, i)
      BY <3>2 DEF HasByte
    <3>4. PICK o : o = puts[k].first - (i - 1) * BlockSize
      OBVIOUS
    <3>5. /\ DOMAIN BlockContent(writer, i) = 1 .. Len(BlockContent(writer, i))
          /\ Len(BlockContent(writer, i)) \in Nat
          /\ Len(BlockContent(writer, i)) <= BlockSize
      BY <2>3, ContentFits DEF IInv
    <3>6. PICK g \in Nat : g = (i - 1) * BlockSize
      BY <2>3
    <3>7. o \in 0 .. BlockSize - 1 /\ o < Len(BlockContent(writer, i))
          /\ puts[k].first = (i - 1) * BlockSize + o
      <4>1. o + 1 \in 1 .. Len(BlockContent(writer, i))
        BY <3>3, <3>4, <3>5
      <4>2. o = puts[k].first - g /\ puts[k].first \in Int /\ BlockSize \in Nat
        BY <2>3, <3>4, <3>6
      <4>3. o \in Int /\ puts[k].first = g + o
        BY <4>2
      <4>. QED  BY <3>5, <3>6, <4>1, <4>2, <4>3
    <3>8. /\ a.offset \in 0 .. BlockSize - 1 /\ i - 1 \in Nat /\ j - 1 \in Nat
          /\ (i - 1) * BlockSize + o = (j - 1) * BlockSize + a.offset
      <4>1. a.offset \in 0 .. BlockSize - 1 /\ i - 1 \in Nat /\ j - 1 \in Nat
        BY <2>1, <2>3
      <4>. QED  BY <2>1, <3>7, <4>1
    <3>9. i - 1 = j - 1 /\ o = a.offset
      BY <3>7, <3>8, SamePlace
    <3>10. i = j
      BY <2>3, <3>9
    <3>. QED  BY <3>7, <3>9, <3>10
  <2>5. \A i \in DOMAIN s : HasByte(writer, (j - 1) * BlockSize + a.offset + i - 1, s[i])
    BY <2>1, <2>2
  <2>. HIDE DEF a, s
  <2>6. Leads(writer, a, s)
    BY <2>1, <2>4, <2>5 DEF Leads
  <2>. QED  BY <2>6 DEF a, s
<1>. QED  BY <1>1, MetadataInvariant, PTL

(* The blocks of a table follow each other without a gap; all but the last *)
(* are full.                                                               *)
THEOREM TableIsContiguous == Spec => []Layout
<1>1. IInv => Layout
  BY DEF IInv
<1>. QED  BY <1>1, MetadataInvariant, PTL
-----------------------------------------------------------------------------
(* The blocks are those of the bytes.                                      *)

(* A set of natural numbers has a least element: what induction is here.   *)
LEMMA Least ==
  ASSUME NEW T, T \subseteq Nat, T # {}
  PROVE  \E k \in T : \A h \in T : k <= h
<1>1. PICK k \in T : \A h \in T : ~(<<h, k>> \in OpToRel(<, Nat))
  BY NatLessThanWellFounded, WFMin
<1>2. \A h \in T : ~(h < k)
  BY <1>1 DEF OpToRel
<1>. QED  BY <1>2

(* Max is the greatest of the places of a sequence.                        *)
LEMMA MaxIs ==
  ASSUME NEW m \in Nat, NEW s \in SUBSET (1 .. m), s # {}
  PROVE  Max(s) \in s /\ \A y \in s : Max(s) >= y
<1>. DEFINE T == {k \in Nat : \A y \in s : y <= k}
<1>1. m \in T /\ T \subseteq Nat
  OBVIOUS
<1>2. PICK k \in T : \A h \in T : k <= h
  <2>. HIDE DEF T
  <2>. QED  BY <1>1, Least
<1>3. k \in s
  <2>. SUFFICES ASSUME k \notin s PROVE FALSE
    OBVIOUS
  <2>1. PICK y \in s : TRUE
    OBVIOUS
  <2>2. y \in 1 .. m /\ y <= k
    BY <1>2
  <2>3. k - 1 \in Nat /\ ~(k <= k - 1)
    BY <1>2, <2>2
  <2>4. \A z \in s : z <= k - 1
    BY <1>2
  <2>. QED  BY <1>2, <2>3, <2>4
<1>4. \E x \in s : \A y \in s : x >= y
  BY <1>2, <1>3
<1>. QED  BY <1>4 DEF Max

LEMMA MaxOfPrefix ==
  ASSUME NEW m \in Nat, NEW k \in 1 .. m
  PROVE  Max(1 .. k) = k /\ (1 .. k) \ {Max(1 .. k)} = 1 .. k - 1
<1>1. 1 .. k \in SUBSET (1 .. m) /\ k \in 1 .. k
  OBVIOUS
<1>2. Max(1 .. k) \in 1 .. k /\ Max(1 .. k) >= k
  BY <1>1, MaxIs, 1 .. k # {}
<1>. QED  BY <1>2

(* The recursion of FoldLeft over the places that are left. g says what    *)
(* one place does to a result.                                             *)
FoldNext(f, base, g, s) == IF s = {} THEN base ELSE g[<<f[s \ {Max(s)}], Max(s)>>]

IsStep(g, D, m) == g \in [D \X (1 .. m) -> D]
IsFold(f, D, base, g, n) ==
  /\ f \in [SUBSET (1 .. n) -> D]
  /\ \A s \in SUBSET (1 .. n) : f[s] = FoldNext(f, base, g, s)

(* There is a function that the recursion defines.                         *)
LEMMA FoldExists ==
  ASSUME NEW D, NEW base \in D, NEW m \in Nat, NEW g, IsStep(g, D, m)
  PROVE  \E f : IsFold(f, D, base, g, m)
<1>. USE DEF IsStep, IsFold
<1>. DEFINE Fold(n, f) == IsFold(f, D, base, g, n)
            T == {n \in 0 .. m : ~\E f : Fold(n, f)}
<1>1. SUFFICES ASSUME T # {} PROVE FALSE
  <2>1. m \in 0 .. m
    OBVIOUS
  <2>. QED  BY <2>1
<1>2. PICK n \in T : \A h \in T : n <= h
  <2>1. T \subseteq Nat
    OBVIOUS
  <2>. HIDE DEF T
  <2>. QED  BY <1>1, <2>1, Least
<1>3. n \in 0 .. m /\ ~\E f : Fold(n, f)
  BY <1>2
<1>4. CASE n = 0
  <2>. DEFINE f == [s \in SUBSET (1 .. 0) |-> base]
  <2>1. 1 .. 0 = {}
    OBVIOUS
  <2>2. \A s \in SUBSET (1 .. 0) : f[s] = FoldNext(f, base, g, s)
    BY <2>1 DEF FoldNext
  <2>3. Fold(0, f)
    BY <2>2
  <2>. QED  BY <1>3, <1>4, <2>3
<1>5. CASE n # 0
  <2>1. n - 1 \in 0 .. m /\ n \in Nat /\ ~(n <= n - 1) /\ n \in 1 .. m
    BY <1>3, <1>5
  <2>2. PICK f : Fold(n - 1, f)
    BY <1>2, <2>1
  <2>. DEFINE e == [s \in SUBSET (1 .. n) |->
                      IF n \in s THEN g[<<f[s \ {n}], n>>] ELSE f[s]]
  <2>3. ASSUME NEW s \in SUBSET (1 .. n)
        PROVE  e[s] \in D /\ e[s] = FoldNext(e, base, g, s)
    <3>1. CASE n \in s
      <4>1. Max(s) = n
        <5>1. Max(s) \in s /\ Max(s) >= n
          BY <2>1, <3>1, MaxIs
        <5>2. Max(s) \in 1 .. n
          BY <5>1
        <5>. QED  BY <2>1, <5>1, <5>2
      <4>2. s \ {n} \in SUBSET (1 .. n - 1) /\ s \ {n} \in SUBSET (1 .. n)
        BY <2>1
      <4>3. e[s \ {n}] = f[s \ {n}] /\ f[s \ {n}] \in D
        BY <2>2, <4>2
      <4>4. e[s] = g[<<f[s \ {n}], n>>]
        BY <3>1
      <4>. HIDE DEF e
      <4>5. <<f[s \ {n}], n>> \in D \X (1 .. m)
        BY <2>1, <4>3
      <4>. QED  BY <3>1, <4>1, <4>3, <4>4, <4>5 DEF FoldNext
    <3>2. CASE n \notin s
      <4>1. s \in SUBSET (1 .. n - 1)
        BY <2>1, <3>2
      <4>2. e[s] = f[s] /\ f[s] \in D /\ f[s] = FoldNext(f, base, g, s)
        BY <2>2, <3>2, <4>1
      <4>3. e[s \ {Max(s)}] = f[s \ {Max(s)}]
        BY <3>2
      <4>. HIDE DEF e
      <4>. QED  BY <4>2, <4>3 DEF FoldNext
    <3>. QED  BY <3>1, <3>2
  <2>4. e \in [SUBSET (1 .. n) -> D]
    <3>1. e = [s \in SUBSET (1 .. n) |-> e[s]]
      OBVIOUS
    <3>. HIDE DEF e
    <3>. QED  BY <2>3, <3>1
  <2>. HIDE DEF e
  <2>5. Fold(n, e)
    BY <2>3, <2>4
  <2>. QED  BY <1>3, <2>5
<1>. QED  BY <1>4, <1>5

(* Writers between two turns of a loop.                                    *)
Open == {w \in Writers : Len(w.buff) < BlockSize}

LEMMA AddByteOpen ==
  ASSUME NEW w \in Open, NEW b \in Seq(Byte), b # <<>>
  PROVE  AddChunk(w, b) \in Open
<1>1. w \in Writers /\ Len(w.buff) < BlockSize
  BY DEF Open
<1>2. /\ AddChunk(w, b) \in Writers
      /\ \/ Sealed(w, AddChunk(w, b), Filled(w, b).buff)
         \/ /\ Len(Filled(w, b).buff) < BlockSize
            /\ AddChunk(w, b) = [w EXCEPT !.buff = Filled(w, b).buff]
  BY <1>1, AddChunkResult, AddChunkExtends
<1>3. CASE Sealed(w, AddChunk(w, b), Filled(w, b).buff)
  <2>1. AddChunk(w, b).buff = <<>> /\ Len(<<>>) = 0 /\ 0 < BlockSize
    BY <1>3, EmptySeq, BlockSizeAssumption DEF Sealed
  <2>2. Len(AddChunk(w, b).buff) < BlockSize
    BY <2>1
  <2>. QED  BY <1>2, <2>2 DEF Open
<1>4. CASE /\ Len(Filled(w, b).buff) < BlockSize
           /\ AddChunk(w, b) = [w EXCEPT !.buff = Filled(w, b).buff]
  <2>1. AddChunk(w, b).buff = Filled(w, b).buff
    BY <1>1, <1>4 DEF Writers
  <2>2. Len(AddChunk(w, b).buff) < BlockSize
    BY <1>4, <2>1
  <2>. QED  BY <1>2, <2>2 DEF Open
<1>. QED  BY <1>2, <1>3, <1>4

(* Put adds the bytes one by one: h[k] is the writer after k of them.      *)
Bytewise(h, w, b) ==
  /\ h \in [0 .. Len(b) -> Open]
  /\ h[0] = w
  /\ \A k \in 1 .. Len(b) : h[k] = AddChunk(h[k - 1], <<b[k]>>)

PutRecursion(f, w, b) ==
  f = [s \in SUBSET DOMAIN b |->
         IF s = {} THEN w ELSE AddChunk(f[s \ {Max(s)}], <<b[Max(s)]>>)]

LEMMA PutIs ==
  ASSUME NEW w, NEW b
  PROVE  Put(w, b) = (CHOOSE f : PutRecursion(f, w, b))[DOMAIN b]
BY Zenon DEF Put, FoldLeft, MapThenFoldSet, PutRecursion

LEMMA PutIsBytewise ==
  ASSUME NEW w \in Open, NEW b \in Seq(Byte)
  PROVE  \E h : Bytewise(h, w, b) /\ Put(w, b) = h[Len(b)]
<1>. DEFINE m == Len(b)
<1>1. m \in Nat /\ DOMAIN b = 1 .. m /\ \A i \in 1 .. m : <<b[i]>> \in Seq(Byte) /\ <<b[i]>> # <<>>
  <2>1. m \in Nat /\ DOMAIN b = 1 .. m /\ \A i \in 1 .. m : b[i] \in Byte
    BY LenProperties, ElementOfSeq
  <2>. QED  BY <2>1
<1>2. \E f : PutRecursion(f, w, b)
  <2>. DEFINE g == [p \in Open \X (1 .. m) |-> AddChunk(p[1], <<b[p[2]]>>)]
  <2>1. g \in [Open \X (1 .. m) -> Open]
    <3>1. ASSUME NEW p \in Open \X (1 .. m) PROVE AddChunk(p[1], <<b[p[2]]>>) \in Open
      <4>1. p[1] \in Open /\ p[2] \in 1 .. m
        OBVIOUS
      <4>. QED  BY <1>1, <4>1, AddByteOpen
    <3>. QED  BY <3>1
  <2>2. \A v \in Open, i \in 1 .. m : g[<<v, i>>] = AddChunk(v, <<b[i]>>)
    OBVIOUS
  <2>. HIDE DEF g, m
  <2>3. PICK f \in [SUBSET (1 .. m) -> Open] :
          \A s \in SUBSET (1 .. m) : f[s] = FoldNext(f, w, g, s)
    <3>1. m \in Nat /\ IsStep(g, Open, m)
      BY <1>1, <2>1 DEF IsStep
    <3>2. \E f : IsFold(f, Open, w, g, m)
      BY <3>1, FoldExists
    <3>. QED  BY <3>2 DEF IsFold
  <2>4. ASSUME NEW s \in SUBSET (1 .. m), s # {}
        PROVE  f[s] = AddChunk(f[s \ {Max(s)}], <<b[Max(s)]>>)
    <3>1. Max(s) \in 1 .. m /\ f[s \ {Max(s)}] \in Open
      BY <1>1, <2>3, <2>4, MaxIs
    <3>. QED  BY <2>2, <2>3, <2>4, <3>1 DEF FoldNext
  <2>5. f[{}] = w
    BY <2>3 DEF FoldNext
  <2>6. f = [s \in SUBSET (1 .. m) |->
               IF s = {} THEN w ELSE AddChunk(f[s \ {Max(s)}], <<b[Max(s)]>>)]
    BY <2>3, <2>4, <2>5
  <2>7. PutRecursion(f, w, b)
    BY <1>1, <2>6, Zenon DEF PutRecursion
  <2>. QED  BY <2>7
<1>3. PICK c : c = CHOOSE f : PutRecursion(f, w, b)
  OBVIOUS
<1>4. PutRecursion(c, w, b)
  BY <1>2, <1>3
<1>5. \A s \in SUBSET (1 .. m) :
        c[s] = IF s = {} THEN w ELSE AddChunk(c[s \ {Max(s)}], <<b[Max(s)]>>)
  BY <1>1, <1>4 DEF PutRecursion
<1>. HIDE DEF m
<1>. DEFINE h == [k \in 0 .. m |-> c[1 .. k]]
<1>6. h[0] = w
  <2>1. h[0] = c[{}]
    BY <1>1, 1 .. 0 = {}
  <2>. QED  BY <1>5, <2>1
<1>7. ASSUME NEW k \in 1 .. m PROVE h[k] = AddChunk(h[k - 1], <<b[k]>>)
  <2>1. 1 .. k \in SUBSET (1 .. m) /\ 1 .. k # {} /\ k \in 0 .. m /\ k - 1 \in 0 .. m
    <3>1. k \in Nat /\ 1 <= k /\ k <= m
      BY <1>1
    <3>2. k \in 1 .. k /\ k - 1 \in 0 .. m /\ k \in 0 .. m
      BY <1>1, <3>1
    <3>3. \A i \in 1 .. k : i \in 1 .. m
      BY <1>1, <3>1
    <3>. QED  BY <3>2, <3>3
  <2>2. Max(1 .. k) = k /\ (1 .. k) \ {Max(1 .. k)} = 1 .. k - 1
    BY <1>1, MaxOfPrefix
  <2>3. c[1 .. k] = AddChunk(c[(1 .. k) \ {Max(1 .. k)}], <<b[Max(1 .. k)]>>)
    BY <1>5, <2>1
  <2>. QED  BY <2>1, <2>2, <2>3
<1>8. h = [k \in 0 .. m |-> h[k]] /\ h[m] = c[1 .. m]
  BY <1>1
<1>. HIDE DEF h
<1>9. \A k \in 0 .. m : h[k] \in Open
  <2>. DEFINE T == {k \in 0 .. m : h[k] \notin Open}
  <2>1. SUFFICES ASSUME T # {} PROVE FALSE
    OBVIOUS
  <2>2. T \subseteq Nat
    BY <1>1
  <2>3. PICK k \in T : \A i \in T : k <= i
    <3>. HIDE DEF T
    <3>. QED  BY <2>1, <2>2, Least
  <2>4. k \in 0 .. m /\ h[k] \notin Open /\ k # 0
    BY <1>6, <2>3
  <2>5. k \in 1 .. m /\ k - 1 \in 0 .. m /\ ~(k <= k - 1)
    BY <1>1, <2>4
  <2>6. h[k - 1] \in Open
    BY <2>3, <2>5
  <2>. QED  BY <1>1, <1>7, <2>4, <2>5, <2>6, AddByteOpen
<1>10. Bytewise(h, w, b)
  BY <1>6, <1>7, <1>8, <1>9 DEF Bytewise, m
<1>11. Put(w, b) = h[Len(b)]
  BY <1>1, <1>3, <1>8, PutIs DEF m
<1>. QED  BY <1>10, <1>11

(* Adding bytes one by one takes any writer on in the same way, whatever   *)
(* was added before.                                                       *)
LEMMA BytewiseOnward ==
  ASSUME NEW b, NEW h, NEW w, Bytewise(h, w, b),
         NEW c, NEW e, NEW v, Bytewise(e, v, c),
         Len(b) \in Nat, Len(c) \in Nat,
         NEW n \in Nat, NEW m \in Nat, n + m <= Len(b), m <= Len(c),
         h[n] = v, \A i \in 1 .. m : c[i] = b[n + i]
  PROVE  e[m] = h[n + m]
<1>. DEFINE T == {k \in 0 .. m : e[k] # h[n + k]}
<1>1. SUFFICES ASSUME T # {} PROVE FALSE
  <2>1. m \in 0 .. m
    OBVIOUS
  <2>. QED  BY <2>1
<1>2. PICK k \in T : \A i \in T : k <= i
  <2>1. T \subseteq Nat
    OBVIOUS
  <2>. HIDE DEF T
  <2>. QED  BY <1>1, <2>1, Least
<1>3. k \in 0 .. m /\ e[k] # h[n + k]
  BY <1>2
<1>4. k # 0
  <2>1. e[0] = v /\ n + 0 = n
    BY DEF Bytewise
  <2>. QED  BY <1>3, <2>1
<1>5. /\ k - 1 \in 0 .. m /\ ~(k <= k - 1) /\ k \in 1 .. m
      /\ k \in 1 .. Len(c) /\ n + k \in 1 .. Len(b) /\ (n + k) - 1 = n + (k - 1)
  BY <1>3, <1>4
<1>6. e[k - 1] = h[n + (k - 1)]
  BY <1>2, <1>5
<1>7. e[k] = AddChunk(e[k - 1], <<c[k]>>)
  BY <1>5 DEF Bytewise
<1>8. h[n + k] = AddChunk(h[(n + k) - 1], <<b[n + k]>>)
  BY <1>5 DEF Bytewise
<1>9. c[k] = b[n + k]
  BY <1>5
<1>. QED  BY <1>3, <1>5, <1>6, <1>7, <1>8, <1>9

(* Putting nothing changes nothing, and a writer stays between two turns.  *)
LEMMA PutNothing ==
  ASSUME NEW w \in Open
  PROVE  Put(w, <<>>) = w
<1>1. <<>> \in Seq(Byte) /\ Len(<<>>) = 0
  BY EmptySeq
<1>2. PICK h : Bytewise(h, w, <<>>) /\ Put(w, <<>>) = h[Len(<<>>)]
  BY <1>1, PutIsBytewise
<1>. QED  BY <1>1, <1>2 DEF Bytewise

LEMMA PutOpen ==
  ASSUME NEW w \in Open, NEW b \in Seq(Byte)
  PROVE  Put(w, b) \in Open
<1>1. PICK h : Bytewise(h, w, b) /\ Put(w, b) = h[Len(b)]
  BY PutIsBytewise
<1>2. Len(b) \in 0 .. Len(b)
  BY LenProperties
<1>. QED  BY <1>1, <1>2 DEF Bytewise

(* A buffer with some of the bytes added, and the turn that may write it.  *)
Holds(w, c) == [w EXCEPT !.buff = w.buff \o c]
Turned(u) == IF Len(u.buff) = BlockSize THEN WriteBlock(u) ELSE u

LEMMA AddByteIs ==
  ASSUME NEW w \in Open, NEW x \in Byte
  PROVE  AddChunk(w, <<x>>) = Turned(Holds(w, <<x>>))
<1>1. w.buff \in Seq(Byte) /\ Len(w.buff) \in Nat /\ Len(w.buff) < BlockSize
  BY WriterParts DEF Open
<1>2. Len(<<x>>) = 1 /\ <<x>> \in Seq(Byte)
  OBVIOUS
<1>3. Added(w, <<x>>) = 1
  BY <1>1, <1>2, BlockSizeAssumption DEF Added
<1>4. SubSeq(<<x>>, 1, Len(<<x>>)) = <<x>>
  BY <1>2, SubSeqFull
<1>5. Filled(w, <<x>>) = Holds(w, <<x>>)
  BY <1>2, <1>3, <1>4 DEF Filled, Holds
<1>. QED  BY <1>5 DEF AddChunk, Turned

LEMMA AddChunkIs ==
  ASSUME NEW w, NEW b
  PROVE  AddChunk(w, b) = Turned(Holds(w, SubSeq(b, 1, Added(w, b))))
BY DEF AddChunk, Filled, Turned, Holds

(* One more byte in the buffer.                                            *)
LEMMA HoldsOneMore ==
  ASSUME NEW w \in Writers, NEW c \in Seq(Byte), NEW x \in Byte
  PROVE  Holds(Holds(w, c), <<x>>) = Holds(w, c \o <<x>>)
<1>1. w.buff \in Seq(Byte) /\ <<x>> \in Seq(Byte)
  BY WriterParts
<1>2. (w.buff \o c) \o <<x>> = w.buff \o (c \o <<x>>)
  <2>1. PICK s \in Seq(Byte), u \in Seq(Byte) : s = w.buff /\ u = <<x>>
    BY <1>1
  <2>2. (s \o c) \o u = s \o (c \o u)
    BY ConcatAssociative
  <2>. QED  BY <2>1, <2>2
<1>3. Holds(w, c).buff = w.buff \o c
  BY DEF Holds, Writers
<1>4. Holds(Holds(w, c), <<x>>) = [w EXCEPT !.buff = (w.buff \o c) \o <<x>>]
  BY <1>3 DEF Holds, Writers
<1>. QED  BY <1>2, <1>4 DEF Holds

(* The bytes of one turn, added one by one, make what the turn makes.      *)
LEMMA ChunkIsBytewise ==
  ASSUME NEW w \in Open, NEW b \in Seq(Byte), b # <<>>, NEW h, Bytewise(h, w, b)
  PROVE  h[Added(w, b)] = AddChunk(w, b)
<1>. DEFINE n == Added(w, b)
            room == BlockSize - Len(w.buff)
<1>1. /\ w \in Writers /\ w.buff \in Seq(Byte) /\ Len(w.buff) \in Nat
      /\ Len(w.buff) < BlockSize /\ BlockSize \in Nat
      /\ Len(b) \in Nat /\ \A i \in 1 .. Len(b) : b[i] \in Byte
  BY WriterParts, LenProperties, ElementOfSeq, BlockSizeAssumption DEF Open
<1>2. n \in 1 .. Len(b)
  BY <1>1, AddChunkResult
<1>3. n <= room
  <2>1. room \in Nat /\ n = IF Len(b) > room THEN room ELSE Len(b)
    BY <1>1 DEF Added
  <2>. HIDE DEF n, room
  <2>. QED  BY <1>1, <2>1
<1>. HIDE DEF n
<1>4. ASSUME NEW k \in 0 .. n
      PROVE  /\ SubSeq(b, 1, k) \in Seq(Byte) /\ Len(SubSeq(b, 1, k)) = k
             /\ Len(w.buff \o SubSeq(b, 1, k)) = Len(w.buff) + k
             /\ Holds(w, SubSeq(b, 1, k)).buff = w.buff \o SubSeq(b, 1, k)
  <2>1. /\ SubSeq(b, 1, k) \in Seq(Byte)
        /\ Len(SubSeq(b, 1, k)) = IF 1 <= k THEN k - 1 + 1 ELSE 0
    <3>1. \A i \in 1 .. k : b[i] \in Byte
      BY <1>1, <1>2
    <3>2. k \in Int
      BY <1>2
    <3>. QED  BY <3>1, <3>2, SubSeqProperties
  <2>2. Len(SubSeq(b, 1, k)) = k
    BY <1>2, <2>1
  <2>3. Len(w.buff \o SubSeq(b, 1, k)) = Len(w.buff) + Len(SubSeq(b, 1, k))
    BY <1>1, <2>1, ConcatProperties
  <2>. QED  BY <1>1, <2>1, <2>2, <2>3 DEF Holds, Writers
<1>5. ASSUME NEW k \in 1 .. n
      PROVE  SubSeq(b, 1, k) = SubSeq(b, 1, k - 1) \o <<b[k]>>
  <2>1. k \in 1 .. Len(b) /\ 1 \in 1 .. Len(b) /\ k \in 1 .. Len(b)
    BY <1>1, <1>2
  <2>. QED  BY <2>1, SubSeqRecursiveSecond
<1>6. \A k \in 0 .. n - 1 : h[k] = Holds(w, SubSeq(b, 1, k))
  <2>. DEFINE T == {k \in 0 .. n - 1 : h[k] # Holds(w, SubSeq(b, 1, k))}
  <2>1. SUFFICES ASSUME T # {} PROVE FALSE
    OBVIOUS
  <2>2. PICK k \in T : \A i \in T : k <= i
    <3>1. T \subseteq Nat
      BY <1>2
    <3>. HIDE DEF T
    <3>. QED  BY <2>1, <3>1, Least
  <2>3. k \in 0 .. n - 1 /\ h[k] # Holds(w, SubSeq(b, 1, k))
    BY <2>2
  <2>4. k # 0
    <3>1. SubSeq(b, 1, 0) = <<>>
      BY SubSeqEmpty
    <3>2. w.buff \o <<>> = w.buff
      BY <1>1, ConcatEmptySeq
    <3>3. Holds(w, <<>>) = w
      BY <1>1, <3>2 DEF Holds, Writers
    <3>4. h[0] = w
      BY DEF Bytewise
    <3>. QED  BY <2>3, <3>1, <3>3, <3>4
  <2>5. /\ k \in 1 .. n /\ k - 1 \in 0 .. n - 1 /\ k - 1 \in 0 .. n /\ k \in 0 .. n
        /\ ~(k <= k - 1) /\ k \in 1 .. Len(b) /\ Len(w.buff) + k < BlockSize
    BY <1>1, <1>2, <1>3, <2>3, <2>4
  <2>6. h[k - 1] = Holds(w, SubSeq(b, 1, k - 1)) /\ h[k - 1] \in Open
    <3>1. k - 1 \in 0 .. Len(b)
      BY <1>1, <2>5
    <3>. QED  BY <2>2, <2>5, <3>1 DEF Bytewise
  <2>7. h[k] = Turned(Holds(h[k - 1], <<b[k]>>))
    BY <1>1, <2>5, <2>6, AddByteIs DEF Bytewise
  <2>8. Holds(h[k - 1], <<b[k]>>) = Holds(w, SubSeq(b, 1, k))
    <3>1. PICK c, x : c = SubSeq(b, 1, k - 1) /\ x = b[k]
      OBVIOUS
    <3>2. w \in Writers /\ c \in Seq(Byte) /\ x \in Byte
      BY <1>1, <1>4, <2>5, <3>1
    <3>3. Holds(Holds(w, c), <<x>>) = Holds(w, c \o <<x>>)
      BY ONLY <3>2, HoldsOneMore
    <3>4. h[k - 1] = Holds(w, c) /\ SubSeq(b, 1, k) = c \o <<x>>
      BY <1>5, <2>5, <2>6, <3>1
    <3>. QED  BY ONLY <3>1, <3>3, <3>4
  <2>9. Len(Holds(w, SubSeq(b, 1, k)).buff) # BlockSize
    <3>1. Len(Holds(w, SubSeq(b, 1, k)).buff) = Len(w.buff) + k
      BY <1>4, <2>5
    <3>. QED  BY <1>1, <2>5, <3>1
  <2>. QED  BY <2>3, <2>7, <2>8, <2>9 DEF Turned
<1>7. /\ n \in 1 .. n /\ n - 1 \in 0 .. n - 1 /\ n - 1 \in 0 .. n
      /\ n - 1 \in 0 .. Len(b)
  BY <1>1, <1>2
<1>8. h[n - 1] = Holds(w, SubSeq(b, 1, n - 1)) /\ h[n - 1] \in Open
  BY <1>6, <1>7 DEF Bytewise
<1>9. h[n] = Turned(Holds(h[n - 1], <<b[n]>>))
  BY <1>1, <1>2, <1>8, AddByteIs DEF Bytewise
<1>10. Holds(h[n - 1], <<b[n]>>) = Holds(w, SubSeq(b, 1, n))
  BY <1>1, <1>2, <1>4, <1>5, <1>7, <1>8, HoldsOneMore
<1>. QED  BY <1>9, <1>10, AddChunkIs DEF n

(* A turn of the loop leaves what is to come of the record.                *)
LEMMA PutOnward ==
  ASSUME NEW w \in Open, NEW b \in Seq(Byte), b # <<>>
  PROVE  Put(AddChunk(w, b), SubSeq(b, Added(w, b) + 1, Len(b))) = Put(w, b)
<1>. DEFINE n == Added(w, b)
            c == SubSeq(b, n + 1, Len(b))
            v == AddChunk(w, b)
<1>1. PICK h : Bytewise(h, w, b) /\ Put(w, b) = h[Len(b)]
  BY PutIsBytewise
<1>2. n \in 1 .. Len(b) /\ Len(b) \in Nat
  BY AddChunkResult, LenProperties DEF Open
<1>3. v \in Open /\ h[n] = v
  BY <1>1, AddByteOpen, ChunkIsBytewise
<1>. HIDE DEF n, v
<1>4. /\ c \in Seq(Byte) /\ Len(c) = Len(b) - n
      /\ \A i \in 1 .. Len(b) - n : c[i] = b[n + i]
  <2>1. c \in Seq(Byte) /\ Len(c) = Len(b) - n
    BY <1>2, RestShrinks
  <2>2. ASSUME NEW i \in 1 .. Len(b) - n PROVE c[i] = b[n + i]
    <3>1. PICK r : r = Len(b) - n
      OBVIOUS
    <3>2. r \in 1 .. Len(b) /\ i \in 1 .. r /\ Len(b) - r + 1 = n + 1 /\ Len(b) - r + i = n + i
      BY <1>2, <2>2, <3>1
    <3>3. SubSeq(b, Len(b) - r + 1, Len(b))[i] = b[Len(b) - r + i]
      BY <3>2, TailElement
    <3>. QED  BY <3>2, <3>3
  <2>. QED  BY <2>1, <2>2
<1>. HIDE DEF c
<1>5. PICK e : Bytewise(e, v, c) /\ Put(v, c) = e[Len(c)]
  BY <1>3, <1>4, PutIsBytewise
<1>6. PICK m \in Nat : m = Len(b) - n
  BY <1>2
<1>7. /\ n + m <= Len(b) /\ m <= Len(c) /\ Len(c) \in Nat /\ n + m = Len(b)
      /\ n \in Nat /\ Len(c) = m
  BY <1>2, <1>4, <1>6
<1>8. \A i \in 1 .. m : c[i] = b[n + i]
  BY <1>4, <1>6
<1>9. e[m] = h[n + m]
  <2>1. Bytewise(h, w, b) /\ Bytewise(e, v, c) /\ Len(b) \in Nat /\ Len(c) \in Nat
        /\ n \in Nat /\ m \in Nat /\ n + m <= Len(b) /\ m <= Len(c) /\ h[n] = v
        /\ \A i \in 1 .. m : c[i] = b[n + i]
    BY <1>1, <1>2, <1>3, <1>5, <1>7, <1>8
  <2>. QED  BY <2>1, BytewiseOnward, SMT
<1>. QED  BY <1>1, <1>5, <1>7, <1>9 DEF n, c, v

(* AllPut puts the records one by one.                                     *)
Recordwise(h, ps) ==
  /\ h \in [0 .. Len(ps) -> Open]
  /\ h[0] = NewWriter
  /\ \A k \in 1 .. Len(ps) : h[k] = Put(h[k - 1], ps[k].data)

AllPutRecursion(f, ps) ==
  f = [s \in SUBSET DOMAIN ps |->
         IF s = {} THEN NewWriter ELSE Put(f[s \ {Max(s)}], ps[Max(s)].data)]

LEMMA AllPutIs ==
  ASSUME NEW ps
  PROVE  AllPut(ps) = (CHOOSE f : AllPutRecursion(f, ps))[DOMAIN ps]
BY Zenon DEF AllPut, FoldLeft, MapThenFoldSet, AllPutRecursion

LEMMA NewWriterOpen == NewWriter \in Open
<1>1. <<>> \in Seq(Stored) /\ <<>> \in Block /\ Len(<<>>) = 0 /\ 0 < BlockSize
  BY EmptySeq, EmptyBlock, BlockSizeAssumption
<1>2. NewWriter.buff = <<>> /\ NewWriter \in Writers
  BY <1>1 DEF NewWriter, Writers
<1>. QED  BY <1>1, <1>2 DEF Open

LEMMA AllPutIsRecordwise ==
  ASSUME NEW ps \in Seq(Puts)
  PROVE  \E h : Recordwise(h, ps) /\ AllPut(ps) = h[Len(ps)]
<1>. DEFINE m == Len(ps)
<1>1. m \in Nat /\ DOMAIN ps = 1 .. m /\ \A i \in 1 .. m : ps[i].data \in Seq(Byte)
  <2>1. m \in Nat /\ DOMAIN ps = 1 .. m /\ \A i \in 1 .. m : ps[i] \in Puts
    BY LenProperties, ElementOfSeq
  <2>. QED  BY <2>1 DEF Puts
<1>2. \E f : AllPutRecursion(f, ps)
  <2>. DEFINE g == [p \in Open \X (1 .. m) |-> Put(p[1], ps[p[2]].data)]
  <2>1. g \in [Open \X (1 .. m) -> Open]
    <3>1. ASSUME NEW p \in Open \X (1 .. m) PROVE Put(p[1], ps[p[2]].data) \in Open
      <4>1. p[1] \in Open /\ p[2] \in 1 .. m
        OBVIOUS
      <4>. QED  BY <1>1, <4>1, PutOpen
    <3>. QED  BY <3>1
  <2>2. \A v \in Open, i \in 1 .. m : g[<<v, i>>] = Put(v, ps[i].data)
    OBVIOUS
  <2>. HIDE DEF g, m
  <2>3. PICK f \in [SUBSET (1 .. m) -> Open] :
          \A s \in SUBSET (1 .. m) : f[s] = FoldNext(f, NewWriter, g, s)
    <3>1. m \in Nat /\ IsStep(g, Open, m)
      BY <1>1, <2>1 DEF IsStep
    <3>2. \E f : IsFold(f, Open, NewWriter, g, m)
      BY <3>1, NewWriterOpen, FoldExists
    <3>. QED  BY <3>2 DEF IsFold
  <2>4. ASSUME NEW s \in SUBSET (1 .. m), s # {}
        PROVE  f[s] = Put(f[s \ {Max(s)}], ps[Max(s)].data)
    <3>1. Max(s) \in 1 .. m /\ f[s \ {Max(s)}] \in Open
      BY <1>1, <2>3, <2>4, MaxIs
    <3>. QED  BY <2>2, <2>3, <2>4, <3>1 DEF FoldNext
  <2>5. f[{}] = NewWriter
    BY <2>3 DEF FoldNext
  <2>6. f = [s \in SUBSET (1 .. m) |->
               IF s = {} THEN NewWriter ELSE Put(f[s \ {Max(s)}], ps[Max(s)].data)]
    BY <2>3, <2>4, <2>5
  <2>7. AllPutRecursion(f, ps)
    BY <1>1, <2>6, Zenon DEF AllPutRecursion
  <2>. QED  BY <2>7
<1>3. PICK c : c = CHOOSE f : AllPutRecursion(f, ps)
  OBVIOUS
<1>4. AllPutRecursion(c, ps)
  BY <1>2, <1>3
<1>5. \A s \in SUBSET (1 .. m) :
        c[s] = IF s = {} THEN NewWriter ELSE Put(c[s \ {Max(s)}], ps[Max(s)].data)
  BY <1>1, <1>4 DEF AllPutRecursion
<1>. HIDE DEF m
<1>. DEFINE h == [k \in 0 .. m |-> c[1 .. k]]
<1>6. h[0] = NewWriter
  <2>1. h[0] = c[{}]
    BY <1>1, 1 .. 0 = {}
  <2>. QED  BY <1>5, <2>1
<1>7. ASSUME NEW k \in 1 .. m PROVE h[k] = Put(h[k - 1], ps[k].data)
  <2>1. 1 .. k \in SUBSET (1 .. m) /\ 1 .. k # {} /\ k \in 0 .. m /\ k - 1 \in 0 .. m
    <3>1. k \in Nat /\ 1 <= k /\ k <= m
      BY <1>1
    <3>2. k \in 1 .. k /\ k - 1 \in 0 .. m /\ k \in 0 .. m
      BY <1>1, <3>1
    <3>3. \A i \in 1 .. k : i \in 1 .. m
      BY <1>1, <3>1
    <3>. QED  BY <3>2, <3>3
  <2>2. Max(1 .. k) = k /\ (1 .. k) \ {Max(1 .. k)} = 1 .. k - 1
    BY <1>1, MaxOfPrefix
  <2>3. c[1 .. k] = Put(c[(1 .. k) \ {Max(1 .. k)}], ps[Max(1 .. k)].data)
    BY <1>5, <2>1
  <2>. QED  BY <2>1, <2>2, <2>3
<1>8. h = [k \in 0 .. m |-> h[k]] /\ h[m] = c[1 .. m]
  BY <1>1
<1>. HIDE DEF h
<1>9. \A k \in 0 .. m : h[k] \in Open
  <2>. DEFINE T == {k \in 0 .. m : h[k] \notin Open}
  <2>1. SUFFICES ASSUME T # {} PROVE FALSE
    OBVIOUS
  <2>2. T \subseteq Nat
    BY <1>1
  <2>3. PICK k \in T : \A i \in T : k <= i
    <3>. HIDE DEF T
    <3>. QED  BY <2>1, <2>2, Least
  <2>4. k \in 0 .. m /\ h[k] \notin Open /\ k # 0
    BY <1>6, <2>3, NewWriterOpen
  <2>5. k \in 1 .. m /\ k - 1 \in 0 .. m /\ ~(k <= k - 1)
    BY <1>1, <2>4
  <2>6. h[k - 1] \in Open
    BY <2>3, <2>5
  <2>. QED  BY <1>1, <1>7, <2>4, <2>5, <2>6, PutOpen
<1>10. Recordwise(h, ps)
  BY <1>6, <1>7, <1>8, <1>9 DEF Recordwise, m
<1>11. AllPut(ps) = h[Len(ps)]
  BY <1>1, <1>3, <1>8, AllPutIs DEF m
<1>. QED  BY <1>10, <1>11

(* One more record.                                                        *)
LEMMA AllPutAppend ==
  ASSUME NEW ps \in Seq(Puts), NEW r \in Puts
  PROVE  AllPut(Append(ps, r)) = Put(AllPut(ps), r.data)
<1>. DEFINE qs == Append(ps, r)
<1>1. /\ qs \in Seq(Puts) /\ Len(qs) = Len(ps) + 1 /\ Len(ps) \in Nat
      /\ \A i \in 1 .. Len(ps) : qs[i] = ps[i]
      /\ qs[Len(ps) + 1] = r
  BY AppendProperties, LenProperties
<1>. HIDE DEF qs
<1>2. PICK h : Recordwise(h, ps) /\ AllPut(ps) = h[Len(ps)]
  BY AllPutIsRecordwise
<1>3. PICK e : Recordwise(e, qs) /\ AllPut(qs) = e[Len(qs)]
  BY <1>1, AllPutIsRecordwise
<1>4. \A k \in 0 .. Len(ps) : e[k] = h[k]
  <2>. DEFINE T == {k \in 0 .. Len(ps) : e[k] # h[k]}
  <2>1. SUFFICES ASSUME T # {} PROVE FALSE
    OBVIOUS
  <2>2. PICK k \in T : \A i \in T : k <= i
    <3>1. T \subseteq Nat
      BY <1>1
    <3>. HIDE DEF T
    <3>. QED  BY <2>1, <3>1, Least
  <2>3. k \in 0 .. Len(ps) /\ e[k] # h[k]
    BY <2>2
  <2>4. k # 0
    BY <1>2, <1>3, <2>3 DEF Recordwise
  <2>5. /\ k - 1 \in 0 .. Len(ps) /\ ~(k <= k - 1)
        /\ k \in 1 .. Len(ps) /\ k \in 1 .. Len(qs)
    BY <1>1, <2>3, <2>4
  <2>6. e[k - 1] = h[k - 1]
    BY <2>2, <2>5
  <2>7. e[k] = Put(e[k - 1], qs[k].data)
    BY <1>3, <2>5 DEF Recordwise
  <2>8. h[k] = Put(h[k - 1], ps[k].data)
    BY <1>2, <2>5 DEF Recordwise
  <2>9. qs[k] = ps[k]
    BY <1>1, <2>5
  <2>. QED  BY <2>3, <2>6, <2>7, <2>8, <2>9
<1>5. /\ Len(qs) \in 1 .. Len(qs) /\ Len(qs) - 1 = Len(ps)
      /\ Len(ps) \in 0 .. Len(ps) /\ qs[Len(qs)] = r
  BY <1>1
<1>6. e[Len(qs)] = Put(e[Len(qs) - 1], qs[Len(qs)].data)
  BY <1>3, <1>5 DEF Recordwise
<1>7. e[Len(ps)] = h[Len(ps)]
  BY <1>4, <1>5
<1>8. e[Len(qs)] = Put(AllPut(ps), r.data)
  BY <1>2, <1>5, <1>6, <1>7
<1>. QED  BY <1>3, <1>8 DEF qs

LEMMA AllPutNone == AllPut(<<>>) = NewWriter
<1>1. <<>> \in Seq(Puts) /\ Len(<<>>) = 0
  BY EmptySeq
<1>2. PICK h : Recordwise(h, <<>>) /\ AllPut(<<>>) = h[Len(<<>>)]
  BY <1>1, AllPutIsRecordwise
<1>. QED  BY <1>1, <1>2 DEF Recordwise

(* A turn of the loop takes the writer nearer to the writer of all bytes:  *)
(* put, interrupted anywhere, is on the way to where Put would get.        *)
LEMMA RestOnwardInit == Init => RestOnward
<1>. SUFFICES ASSUME Init PROVE Put(writer, rest) = AllPut(puts)
  BY DEF RestOnward
<1>1. writer = NewWriter /\ rest = <<>> /\ puts = <<>>
  BY DEF Init
<1>. QED  BY <1>1, AllPutNone, NewWriterOpen, PutNothing

LEMMA RestOnwardNext == IInv /\ RestOnward /\ [Next]_vars => RestOnward'
<1>. SUFFICES ASSUME IInv, RestOnward, [Next]_vars, ~closed' PROVE (Put(writer, rest) = AllPut(puts))'
  BY DEF RestOnward
<1>1. /\ writer \in Writers /\ Len(writer.buff) < BlockSize /\ writer \in Open
      /\ rest \in Seq(Byte) /\ puts \in Seq(Puts)
  BY DEF IInv, TypeOK, Layout, Open, Puts
<1>2. CASE CallPut
  <2>1. /\ ~closed /\ rest = <<>> /\ writer' = writer
        /\ puts' = Append(puts, [addr |-> GetAddress(writer), first |-> Total,
                                 data |-> rest'])
        /\ rest' \in Records
    BY <1>2 DEF CallPut
  <2>2. PICK r : r = [addr |-> GetAddress(writer), first |-> Total, data |-> rest']
    OBVIOUS
  <2>3. r \in Puts /\ r.data = rest'
    <3>1. Total \in Nat /\ rest' \in Seq(Byte)
      BY <2>1, TotalIs, RecordAssumption DEF IInv
    <3>2. GetAddress(writer) \in [block : Nat, offset : Nat]
      BY <1>1, WriterParts DEF GetAddress
    <3>. QED  BY <2>2, <3>1, <3>2 DEF Puts
  <2>4. Put(writer, <<>>) = AllPut(puts)
    BY <2>1 DEF RestOnward
  <2>5. writer = AllPut(puts)
    BY <1>1, <2>4, PutNothing
  <2>6. AllPut(Append(puts, r)) = Put(AllPut(puts), r.data)
    BY <1>1, <2>3, AllPutAppend
  <2>7. AllPut(puts') = Put(writer', rest')
    BY <2>1, <2>2, <2>3, <2>5, <2>6
  <2>. QED  BY <2>7
<1>3. CASE PutChunk
  <2>1. /\ rest # <<>> /\ writer' = AddChunk(writer, rest) /\ puts' = puts
        /\ rest' = SubSeq(rest, Added(writer, rest) + 1, Len(rest)) /\ closed' = closed
    BY <1>3 DEF PutChunk
  <2>2. Put(writer', rest') = Put(writer, rest)
    BY <1>1, <2>1, PutOnward
  <2>3. Put(writer, rest) = AllPut(puts)
    BY <2>1 DEF RestOnward
  <2>4. Put(writer', rest') = AllPut(puts')
    BY <2>1, <2>2, <2>3
  <2>. QED  BY <2>4
<1>4. CASE CloseWithPadding \/ CloseWithoutPadding
  BY <1>4 DEF CloseWithPadding, CloseWithoutPadding
<1>5. CASE Terminated \/ UNCHANGED vars
  <2>1. UNCHANGED vars
    BY <1>5 DEF Terminated
  <2>. QED  BY <2>1 DEF vars, RestOnward
<1>. QED  BY <1>2, <1>3, <1>4, <1>5 DEF Next

THEOREM PutIsOnItsWay == Spec => []RestOnward
<1>. QED  BY MetadataInvariant, RestOnwardInit, RestOnwardNext, PTL DEF Spec

(* The blocks depend only on the bytes put, in their order: the loop of    *)
(* put makes of any record what adding its bytes one by one would make,    *)
(* wherever it cuts it.                                                    *)
THEOREM BlocksOfBytes == Spec => []ChunksAreBytes
<1>1. IInv /\ RestOnward => ChunksAreBytes
  <2>. SUFFICES ASSUME IInv, RestOnward, rest = <<>>, ~closed
                PROVE  writer = AllPut(puts)
    BY DEF ChunksAreBytes
  <2>1. writer \in Open
    BY DEF IInv, TypeOK, Layout, Open
  <2>2. Put(writer, <<>>) = AllPut(puts)
    BY DEF RestOnward
  <2>. QED  BY <2>1, <2>2, PutNothing
<1>. QED  BY <1>1, MetadataInvariant, PutIsOnItsWay, PTL
=============================================================================
