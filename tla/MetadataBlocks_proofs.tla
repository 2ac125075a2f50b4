----------------------- MODULE MetadataBlocks_proofs -----------------------
(***************************************************************************)
(* Lemmas about blocks, the codec and what metadata_writer does to its     *)
(* members, for the proofs about tables.                                   *)
(***************************************************************************)
EXTENDS MetadataBlocks, SequenceTheorems, TLAPS

-----------------------------------------------------------------------------
(* Blocks and the codec.                                                   *)

(* A block is a sequence of at most BlockSize bytes.                       *)
LEMMA BlockIsSeq ==
  \A b : b \in Block <=> b \in Seq(Byte) /\ Len(b) <= BlockSize
<1>1. ASSUME NEW b \in Block PROVE b \in Seq(Byte) /\ Len(b) <= BlockSize
  <2>1. PICK n \in 0 .. BlockSize : b \in [1 .. n -> Byte]
    BY <1>1 DEF Block
  <2>. QED  BY <2>1, BlockSizeAssumption, SeqDef
<1>2. ASSUME NEW b \in Seq(Byte), Len(b) <= BlockSize PROVE b \in Block
  <2>1. Len(b) \in 0 .. BlockSize /\ b \in [1 .. Len(b) -> Byte]
    BY <1>2, LenProperties, BlockSizeAssumption
  <2>. QED  BY <2>1 DEF Block
<1>. QED  BY <1>1, <1>2

LEMMA EmptyBlock == <<>> \in Block
<1>1. <<>> \in Seq(Byte) /\ Len(<<>>) = 0
  BY EmptySeq
<1>2. 0 <= BlockSize
  BY BlockSizeAssumption
<1>. QED  BY <1>1, <1>2, BlockIsSeq

(* What is stored of a block is a sequence of bytes.                       *)
LEMMA CompressType ==
  ASSUME NEW b \in Block
  PROVE  /\ Compress(b).bytes \in Seq(Byte)
         /\ Len(Compress(b).bytes) \in Nat
         /\ Compress(b).raw \in BOOLEAN
<1>1. Deflate(b) \in Seq(Byte) /\ b \in Seq(Byte)
  BY CodecAssumption, BlockIsSeq
<1>. QED  BY <1>1, LenProperties DEF Compress

(* What was stored of a block gives the block back.                        *)
LEMMA RoundTrip ==
  ASSUME NEW b \in Block
  PROVE  Decompress(Compress(b).bytes, Compress(b).raw) = b
BY CodecAssumption DEF Compress, Decompress

-----------------------------------------------------------------------------
(* What the operations do to a writer, as relations between writers.       *)

\* v is w after b has been written as a block.
Sealed(w, v, b) ==
  LET n == Len(w.table)
  IN /\ v \in Writers
     /\ Len(v.table) = n + 1
     /\ \A j \in 1 .. n : v.table[j] = w.table[j]
     /\ v.table[n + 1].at = w.size
     /\ Content(v.table[n + 1]) = b
     /\ v.size = w.size + HeaderSize + Len(v.table[n + 1].bytes)
     /\ v.buff = <<>>

\* b continues what is in the buffer of w.
Continues(b, w) == /\ b \in Block
                   /\ Len(w.buff) <= Len(b)
                   /\ \A k \in 1 .. Len(w.buff) : b[k] = w.buff[k]

\* What was in w at some place is in v at that place.
Extends(w, v) ==
  /\ Len(w.table) <= Len(v.table)
  /\ \A j \in 1 .. Len(w.table) + 1 :
       /\ BlockStart(v, j) = BlockStart(w, j)
       /\ \/ BlockContent(v, j) = BlockContent(w, j)
          \/ /\ BlockContent(w, j) = w.buff
             /\ Continues(BlockContent(v, j), w)

(* The parts of a writer.                                                  *)
LEMMA WriterParts ==
  ASSUME NEW w \in Writers
  PROVE  /\ w.table \in Seq(Stored) /\ w.size \in Nat /\ w.buff \in Block
         /\ Len(w.table) \in Nat /\ DOMAIN w.table = 1 .. Len(w.table)
         /\ \A j \in 1 .. Len(w.table) : w.table[j] \in Stored
         /\ w.buff \in Seq(Byte) /\ Len(w.buff) \in Nat
         /\ Len(w.buff) <= BlockSize
<1>1. w.table \in Seq(Stored) /\ w.size \in Nat /\ w.buff \in Block
  BY DEF Writers
<1>. QED  BY <1>1, LenProperties, ElementOfSeq, BlockIsSeq

(* write_block_no_pad writes the buffer as a block.                        *)
LEMMA WriteBlockNoPadSeals ==
  ASSUME NEW w \in Writers, w.buff # <<>>
  PROVE  Sealed(w, WriteBlockNoPad(w), w.buff)
<1> DEFINE c == Compress(w.buff)
           x == [at |-> w.size, bytes |-> c.bytes, raw |-> c.raw]
<1>1. /\ w.table \in Seq(Stored) /\ w.size \in Nat /\ w.buff \in Block
      /\ Len(w.table) \in Nat
  BY WriterParts
<1>2. c.bytes \in Seq(Byte) /\ Len(c.bytes) \in Nat /\ c.raw \in BOOLEAN
  BY <1>1, CompressType
<1>3. x \in Stored
  BY <1>1, <1>2 DEF Stored
<1>4. /\ Append(w.table, x) \in Seq(Stored)
      /\ Len(Append(w.table, x)) = Len(w.table) + 1
      /\ \A j \in 1 .. Len(w.table) : Append(w.table, x)[j] = w.table[j]
      /\ Append(w.table, x)[Len(w.table) + 1] = x
  BY <1>1, <1>3, AppendProperties
<1>5. WriteBlockNoPad(w) = [table |-> Append(w.table, x),
                            size |-> w.size + HeaderSize + Len(c.bytes),
                            buff |-> <<>>]
  BY DEF WriteBlockNoPad
<1>6. Content(x) = w.buff
  BY <1>1, RoundTrip DEF Content
<1>7. w.size + HeaderSize + Len(c.bytes) \in Nat
  BY <1>1, <1>2 DEF HeaderSize
<1>8. WriteBlockNoPad(w) \in Writers
  BY <1>4, <1>5, <1>7, EmptyBlock DEF Writers
<1>. HIDE DEF c
<1>. QED  BY <1>4, <1>5, <1>6, <1>8 DEF Sealed

(* Padding makes a full block of the buffer and keeps what is in it.       *)
LEMMA PaddedFills ==
  ASSUME NEW w \in Writers
  PROVE  /\ Continues(Padded(w.buff), w)
         /\ Len(Padded(w.buff)) = BlockSize
         /\ Len(w.buff) = BlockSize => Padded(w.buff) = w.buff
<1> DEFINE n == BlockSize - Len(w.buff)
           zeros == [k \in 1 .. n |-> 0]
<1>1. w.buff \in Seq(Byte) /\ Len(w.buff) \in Nat /\ Len(w.buff) <= BlockSize
  BY WriterParts
<1>2. n \in Nat
  BY <1>1, BlockSizeAssumption
<1>3. zeros \in Seq(Byte) /\ Len(zeros) = n
  <2>1. zeros \in [1 .. n -> Byte]
    BY PaddingAssumption
  <2>. QED  BY <1>2, <2>1, SeqDef
<1>4. Padded(w.buff) = w.buff \o zeros
  BY DEF Padded
<1>. HIDE DEF zeros
<1>5. /\ w.buff \o zeros \in Seq(Byte)
      /\ Len(w.buff \o zeros) = Len(w.buff) + n
      /\ \A i \in 1 .. Len(w.buff) + n :
           (w.buff \o zeros)[i] = IF i <= Len(w.buff) THEN w.buff[i]
                                                      ELSE zeros[i - Len(w.buff)]
  BY <1>1, <1>3, ConcatProperties
<1>6. Len(w.buff) = BlockSize => Padded(w.buff) = w.buff
  <2>. SUFFICES ASSUME Len(w.buff) = BlockSize PROVE w.buff \o zeros = w.buff
    BY <1>4
  <2>1. Len(w.buff \o zeros) = Len(w.buff)
    BY <1>1, <1>5, BlockSizeAssumption
  <2>2. \A i \in 1 .. Len(w.buff \o zeros) : (w.buff \o zeros)[i] = w.buff[i]
    BY <1>1, <1>5, <2>1, BlockSizeAssumption
  <2>. QED  BY <1>1, <1>5, <2>1, <2>2, SeqEqual
<1>7. Len(w.buff \o zeros) = BlockSize
  BY <1>1, <1>5, BlockSizeAssumption
<1>8. \A i \in 1 .. Len(w.buff) : (w.buff \o zeros)[i] = w.buff[i]
  BY <1>1, <1>2, <1>5
<1>9. w.buff \o zeros \in Block
  <2>1. Len(w.buff \o zeros) <= BlockSize
    BY <1>7, BlockSizeAssumption
  <2>. QED  BY <1>5, <2>1, BlockIsSeq, Zenon
<1>. QED  BY <1>1, <1>4, <1>6, <1>7, <1>8, <1>9 DEF Continues

(* write_block writes the buffer and its padding as a block.               *)
LEMMA WriteBlockSeals ==
  ASSUME NEW w \in Writers
  PROVE  Sealed(w, WriteBlock(w), Padded(w.buff))
<1> DEFINE u == [w EXCEPT !.buff = Padded(@)]
<1>1. Padded(w.buff) \in Block /\ Len(Padded(w.buff)) = BlockSize
  BY PaddedFills DEF Continues
<1>2. u \in Writers /\ u.table = w.table /\ u.size = w.size
      /\ u.buff = Padded(w.buff)
  BY <1>1 DEF Writers
<1>3. u.buff # <<>>
  BY <1>1, <1>2, BlockSizeAssumption, EmptySeq
<1>4. Sealed(u, WriteBlockNoPad(u), u.buff)
  BY <1>2, <1>3, WriteBlockNoPadSeals
<1>5. WriteBlock(w) = WriteBlockNoPad(u)
  BY DEF WriteBlock
<1>. HIDE DEF u
<1>. QED  BY <1>2, <1>4, <1>5 DEF Sealed

(* A block that continues the buffer extends the writer.                   *)
LEMMA SealedExtends ==
  ASSUME NEW w \in Writers, NEW v, NEW b, Sealed(w, v, b), Continues(b, w)
  PROVE  Extends(w, v)
<1>1. /\ v \in Writers /\ Len(v.table) = Len(w.table) + 1
      /\ Len(w.table) \in Nat
      /\ DOMAIN w.table = 1 .. Len(w.table)
      /\ DOMAIN v.table = 1 .. Len(w.table) + 1
  BY WriterParts DEF Sealed
<1>2. ASSUME NEW j \in 1 .. Len(w.table)
      PROVE  /\ BlockStart(v, j) = BlockStart(w, j)
             /\ BlockContent(v, j) = BlockContent(w, j)
  BY <1>1, <1>2 DEF Sealed, BlockStart, BlockContent
<1>3. ASSUME NEW j, j = Len(w.table) + 1
      PROVE  /\ BlockStart(v, j) = BlockStart(w, j)
             /\ BlockContent(w, j) = w.buff
             /\ BlockContent(v, j) = b
  <2>1. j \notin DOMAIN w.table /\ j \in DOMAIN v.table
    BY <1>1, <1>3
  <2>. QED  BY <1>3, <2>1 DEF Sealed, BlockStart, BlockContent
<1>. QED  BY <1>1, <1>2, <1>3 DEF Extends

(* The place of a byte stays where it is when the writer is extended.      *)
LEMMA PlaceStays ==
  ASSUME NEW w \in Writers, NEW v \in Writers, Extends(w, v),
         NEW a, NEW n, IsPlace(w, a, n)
  PROVE  IsPlace(v, a, n)
<1>1. PICK j \in 1 .. Len(w.table) + 1 :
        /\ BlockStart(w, j) = a.block
        /\ a.offset < BlockSize
        /\ n = (j - 1) * BlockSize + a.offset
  BY DEF IsPlace
<1>2. Len(w.table) \in Nat /\ Len(v.table) \in Nat
  BY WriterParts
<1>3. j \in 1 .. Len(v.table) + 1 /\ BlockStart(v, j) = a.block
  BY <1>1, <1>2 DEF Extends
<1>. QED  BY <1>1, <1>3 DEF IsPlace

(* A byte stays where it is when the writer is extended.                   *)
LEMMA ByteStays ==
  ASSUME NEW w \in Writers, NEW v \in Writers, Extends(w, v),
         NEW n, NEW x, HasByte(w, n, x)
  PROVE  HasByte(v, n, x)
<1>1. PICK j \in 1 .. Len(w.table) + 1 :
        /\ n - (j - 1) * BlockSize + 1 \in DOMAIN BlockContent(w, j)
        /\ BlockContent(w, j)[n - (j - 1) * BlockSize + 1] = x
  BY DEF HasByte
<1>2. PICK o : o = n - (j - 1) * BlockSize + 1
  OBVIOUS
<1>3. o \in DOMAIN BlockContent(w, j) /\ BlockContent(w, j)[o] = x
  BY <1>1, <1>2
<1>4. Len(w.table) \in Nat /\ Len(v.table) \in Nat /\ Len(w.buff) \in Nat
      /\ DOMAIN w.buff = 1 .. Len(w.buff)
  BY WriterParts, LenProperties
<1>5. j \in 1 .. Len(v.table) + 1
  BY <1>4 DEF Extends
<1>6. o \in DOMAIN BlockContent(v, j) /\ BlockContent(v, j)[o] = x
  <2>1. CASE BlockContent(v, j) = BlockContent(w, j)
    BY <1>3, <2>1
  <2>2. CASE BlockContent(w, j) = w.buff /\ Continues(BlockContent(v, j), w)
    <3>1. /\ Len(w.buff) <= Len(BlockContent(v, j))
          /\ Len(BlockContent(v, j)) \in Nat
          /\ DOMAIN BlockContent(v, j) = 1 .. Len(BlockContent(v, j))
      BY <2>2, BlockIsSeq, LenProperties DEF Continues
    <3>2. o \in 1 .. Len(w.buff) /\ w.buff[o] = x
      BY <1>3, <1>4, <2>2
    <3>. QED  BY <1>4, <2>2, <3>1, <3>2 DEF Continues
  <2>. QED  BY <2>1, <2>2 DEF Extends
<1>. QED  BY <1>2, <1>5, <1>6 DEF HasByte

(* A block that is written keeps the table without gaps.                   *)
LEMMA SealedContiguous ==
  ASSUME NEW w \in Writers, NEW v, NEW b, Sealed(w, v, b), Contiguous(w)
  PROVE  Contiguous(v)
<1> DEFINE n == Len(w.table)
<1>1. /\ v \in Writers /\ Len(v.table) = n + 1 /\ n \in Nat
      /\ DOMAIN w.table = 1 .. n /\ DOMAIN v.table = 1 .. n + 1
  BY WriterParts DEF Sealed
<1>2. ASSUME NEW j \in 1 .. n + 1
      PROVE  BlockStart(v, j) = BlockStart(w, j)
  <2>1. CASE j \in 1 .. n
    BY <1>1, <2>1 DEF Sealed, BlockStart
  <2>2. CASE j = n + 1
    <3>1. j \notin DOMAIN w.table /\ j \in DOMAIN v.table
      BY <1>1, <2>2
    <3>. QED  BY <2>2, <3>1 DEF Sealed, BlockStart
  <2>. QED  BY <1>1, <2>1, <2>2
<1>3. BlockStart(v, n + 2) = v.size
  BY <1>1 DEF BlockStart
<1>4. BlockStart(v, 1) = 0
  BY <1>1, <1>2 DEF Contiguous
<1>5. ASSUME NEW j \in 1 .. n + 1
      PROVE  BlockStart(v, j + 1)
               = BlockStart(v, j) + HeaderSize + Len(v.table[j].bytes)
  <2>1. CASE j \in 1 .. n
    <3>1. j + 1 \in 1 .. n + 1 /\ v.table[j] = w.table[j]
      BY <1>1, <2>1 DEF Sealed
    <3>. QED  BY <1>1, <1>2, <2>1, <3>1 DEF Contiguous
  <2>2. CASE j = n + 1
    <3>1. BlockStart(v, n + 1) = w.size
      BY <1>1 DEF Sealed, BlockStart
    <3>2. (n + 1) + 1 = n + 2
      BY <1>1
    <3>. QED  BY <1>3, <2>2, <3>1, <3>2 DEF Sealed
  <2>. QED  BY <1>1, <2>1, <2>2
<1>. QED  BY <1>1, <1>4, <1>5 DEF Contiguous

(* A turn of the loop of put: it adds something, and writes the block just *)
(* when it is full.                                                        *)
LEMMA AddChunkResult ==
  ASSUME NEW w \in Writers, Len(w.buff) < BlockSize,
         NEW b \in Seq(Byte), b # <<>>
  PROVE  LET n == Added(w, b)
             f == Filled(w, b).buff
             v == AddChunk(w, b)
         IN /\ n \in 1 .. Len(b)
            /\ Continues(f, w)
            /\ Len(f) = Len(w.buff) + n
            /\ \A i \in 1 .. n : f[Len(w.buff) + i] = b[i]
            /\ \/ Len(f) = BlockSize /\ Sealed(w, v, f)
               \/ Len(f) < BlockSize /\ v = [w EXCEPT !.buff = f]
<1> DEFINE n == Added(w, b)
           s == SubSeq(b, 1, n)
           f == w.buff \o s
           u == Filled(w, b)
           v == AddChunk(w, b)
<1>1. /\ w.buff \in Seq(Byte) /\ Len(w.buff) \in Nat
      /\ Len(b) \in Nat \ {0} /\ BlockSize \in Nat
      /\ \A i \in 1 .. Len(b) : b[i] \in Byte
  BY WriterParts, EmptySeq, ElementOfSeq, BlockSizeAssumption
<1>2. n \in 1 .. Len(b) /\ n <= BlockSize - Len(w.buff)
  <2>. DEFINE room == BlockSize - Len(w.buff)
  <2>1. room \in Nat \ {0} /\ Len(b) \in Nat \ {0}
    BY <1>1
  <2>2. n = IF Len(b) > room THEN room ELSE Len(b)
    BY DEF Added
  <2>. HIDE DEF room, n
  <2>3. n \in 1 .. Len(b) /\ n <= room
    BY <2>1, <2>2
  <2>. QED  BY <2>3 DEF room
<1>3. u = [w EXCEPT !.buff = f]
  BY DEF Filled
<1>. HIDE DEF n
<1>4. s \in Seq(Byte) /\ Len(s) = n /\ \A i \in 1 .. n : s[i] = b[i]
  <2>1. \A i \in 1 .. n : b[i] \in Byte
    BY <1>1, <1>2
  <2>2. n \in Int /\ 1 <= n
    BY <1>1, <1>2
  <2>3. /\ s \in Seq(Byte)
        /\ Len(s) = IF 1 <= n THEN n - 1 + 1 ELSE 0
        /\ \A i \in 1 .. n - 1 + 1 : s[i] = b[1 + i - 1]
    BY <2>1, <2>2, SubSeqProperties
  <2>. QED  BY <2>2, <2>3
<1>. HIDE DEF s
<1>5. /\ f \in Seq(Byte) /\ Len(f) = Len(w.buff) + n
      /\ \A i \in 1 .. Len(w.buff) + n :
           f[i] = IF i <= Len(w.buff) THEN w.buff[i] ELSE s[i - Len(w.buff)]
  <2>1. s \in Seq(Byte) /\ Len(s) = n
    BY <1>4
  <2>. QED  BY <1>1, <2>1, ConcatProperties
<1>6. ASSUME NEW i \in 1 .. n PROVE f[Len(w.buff) + i] = b[i]
  <2>1. Len(w.buff) + i \in 1 .. Len(w.buff) + n
    BY <1>1, <1>2
  <2>2. ~(Len(w.buff) + i <= Len(w.buff)) /\ (Len(w.buff) + i) - Len(w.buff) = i
    BY <1>1, <1>2
  <2>. QED  BY <1>4, <1>5, <2>1, <2>2
<1>7. Len(f) <= BlockSize /\ Len(f) \in Nat
  BY <1>1, <1>2, <1>5
<1>8. f \in Block
  BY <1>5, <1>7, BlockIsSeq, Zenon
<1>9. Continues(f, w)
  BY <1>1, <1>2, <1>5, <1>8 DEF Continues
<1>. HIDE DEF f
<1>10. /\ u \in Writers /\ u.table = w.table /\ u.size = w.size /\ u.buff = f
  BY <1>3, <1>8 DEF Writers
<1>11. CASE Len(f) = BlockSize
  <2>1. v = WriteBlock(u)
    BY <1>10, <1>11 DEF AddChunk
  <2>2. Sealed(u, WriteBlock(u), f)
    BY <1>10, <1>11, WriteBlockSeals, PaddedFills
  <2>3. Sealed(w, v, f)
    BY <1>10, <2>1, <2>2 DEF Sealed
  <2>. QED  BY <1>2, <1>5, <1>6, <1>9, <1>10, <1>11, <2>3 DEF n
<1>12. CASE Len(f) # BlockSize
  <2>1. v = u
    BY <1>10, <1>12 DEF AddChunk
  <2>2. Len(f) < BlockSize
    BY <1>1, <1>7, <1>12
  <2>. QED  BY <1>2, <1>3, <1>5, <1>6, <1>9, <1>10, <2>1, <2>2 DEF n
<1>. QED  BY <1>11, <1>12

(* A turn of the loop extends the writer, and what it adds is behind what  *)
(* was in the buffer.                                                      *)
LEMMA AddChunkExtends ==
  ASSUME NEW w \in Writers, Len(w.buff) < BlockSize,
         NEW b \in Seq(Byte), b # <<>>
  PROVE  /\ AddChunk(w, b) \in Writers
         /\ Extends(w, AddChunk(w, b))
         /\ Len(w.table) + 1 \in 1 .. Len(AddChunk(w, b).table) + 1
         /\ BlockContent(AddChunk(w, b), Len(w.table) + 1) = Filled(w, b).buff
<1> DEFINE n == Len(w.table)
           f == Filled(w, b).buff
           v == AddChunk(w, b)
<1>1. /\ Continues(f, w) /\ Len(f) = Len(w.buff) + Added(w, b)
      /\ Added(w, b) \in 1 .. Len(b)
      /\ \/ Len(f) = BlockSize /\ Sealed(w, v, f)
         \/ Len(f) < BlockSize /\ v = [w EXCEPT !.buff = f]
  BY AddChunkResult
<1>2. /\ n \in Nat /\ Len(w.buff) \in Nat /\ DOMAIN w.table = 1 .. n
      /\ Len(b) \in Nat
  BY WriterParts, LenProperties
<1>3. Len(w.buff) < Len(f)
  BY <1>1, <1>2
<1>. HIDE DEF f, v
<1>4. /\ v \in Writers /\ Extends(w, v)
      /\ n + 1 \in 1 .. Len(v.table) + 1
      /\ BlockContent(v, n + 1) = f
  <2>1. CASE Sealed(w, v, f)
    <3>1. v \in Writers /\ Len(v.table) = n + 1
      BY <2>1 DEF Sealed
    <3>2. DOMAIN v.table = 1 .. n + 1
      BY <3>1, WriterParts
    <3>3. n + 1 \in DOMAIN v.table /\ n + 1 \in 1 .. Len(v.table) + 1
      BY <1>2, <3>1, <3>2
    <3>4. BlockContent(v, n + 1) = f
      BY <2>1, <3>3 DEF Sealed, BlockStart, BlockContent
    <3>. QED  BY <1>1, <2>1, <3>1, <3>3, <3>4, SealedExtends
  <2>2. CASE v = [w EXCEPT !.buff = f]
    <3>1. /\ v \in Writers /\ v.table = w.table /\ v.size = w.size /\ v.buff = f
      BY <1>1, <2>2 DEF Writers, Continues
    <3>2. ASSUME NEW j \in 1 .. n + 1
          PROVE  /\ BlockStart(v, j) = BlockStart(w, j)
                 /\ \/ BlockContent(v, j) = BlockContent(w, j)
                    \/ /\ BlockContent(w, j) = w.buff
                       /\ BlockContent(v, j) = f
      BY <3>1 DEF BlockStart, BlockContent
    <3>3. Extends(w, v)
      BY <1>1, <1>2, <3>1, <3>2 DEF Extends
    <3>4. n + 1 \notin DOMAIN v.table /\ n + 1 \in 1 .. Len(v.table) + 1
      BY <1>2, <3>1
    <3>. QED  BY <3>1, <3>3, <3>4 DEF BlockStart, BlockContent
  <2>. QED  BY <1>1, <2>1, <2>2
<1>. QED  BY <1>4 DEF v, f
=============================================================================
