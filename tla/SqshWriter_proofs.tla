------------------------- MODULE SqshWriter_proofs -------------------------
(***************************************************************************)
(* For every archive, codec, block size, queue capacity and choice of      *)
(* faults: the data path is type-correct, the fragments are written in the *)
(* order in which the client numbered them, the blocks of an open file are *)
(* the last in the output file, what is published stays, and no byte of    *)
(* any file is lost. At the end, the lemmas on what will be in the output  *)
(* file when all that is pending has been handled.                         *)
(***************************************************************************)
EXTENDS SqshProgress, SequenceTheorems, WellFoundedInduction, TLAPS

-----------------------------------------------------------------------------
(* Blocks and the codec.                                                   *)

(* A block is a sequence of at most BlockSize bytes.                       *)
LEMMA BlockIsSeq ==
  \A b : b \in Block <=> b \in Seq(Byte) /\ Len(b) <= BlockSize
<1>1. ASSUME NEW b \in Block PROVE b \in Seq(Byte) /\ Len(b) <= BlockSize
  <2>1. PICK n \in 0 .. BlockSize : b \in [1 .. n -> Byte]
    BY <1>1 DEF Block
  <2>. QED  BY <2>1, BlockSizeAssumption, SeqDef
<1>2. ASSUME NEW b \in Seq(Byte), Len(b) <= BlockSize PROVE b \in Block
  <2>1. Len(b) \in 0 .. BlockSize /\ b \in [1 .. Len(b) -> Byte]
    BY <1>2, LenProperties, BlockSizeAssumption
  <2>. QED  BY <2>1 DEF Block
<1>. QED  BY <1>1, <1>2

LEMMA EmptyBlock == <<>> \in Block
<1>1. <<>> \in Seq(Byte) /\ Len(<<>>) = 0
  BY EmptySeq
<1>2. 0 <= BlockSize
  BY BlockSizeAssumption
<1>. QED  BY <1>1, <1>2, BlockIsSeq

(* What is stored of a block is a sequence of bytes.                       *)
LEMMA CompressType ==
  ASSUME NEW b \in Block
  PROVE  /\ Compress(b).bytes \in Seq(Byte)
         /\ Len(Compress(b).bytes) \in Nat
         /\ Compress(b).raw \in BOOLEAN
<1>1. Deflate(b) \in Seq(Byte) /\ b \in Seq(Byte)
  BY CodecAssumption, BlockIsSeq
<1>. QED  BY <1>1, LenProperties DEF Compress

(* What was stored of a block gives the block back.                        *)
LEMMA RoundTrip ==
  ASSUME NEW b \in Block
  PROVE  Decompress(Compress(b).bytes, Compress(b).raw) = b
BY CodecAssumption DEF Compress, Decompress

-----------------------------------------------------------------------------
(* Lemmas about the operators of the model.                                *)

(* Min and Max of two integers.                                            *)
LEMMA MinOfTwo ==
  ASSUME NEW a \in Int, NEW b \in Int
  PROVE  Min({a, b}) = IF a <= b THEN a ELSE b
<1>1. CASE a <= b
  <2>1. \A x \in {a, b} : (\A y \in {a, b} : x <= y) => x = a
    BY <1>1
  <2>. QED  BY <1>1, <2>1 DEF Min
<1>2. CASE ~(a <= b)
  <2>1. \A x \in {a, b} : (\A y \in {a, b} : x <= y) => x = b
    BY <1>2
  <2>. QED  BY <1>2, <2>1 DEF Min
<1>. QED  BY <1>1, <1>2

LEMMA MaxOfTwo ==
  ASSUME NEW a \in Int, NEW b \in Int
  PROVE  Max({a, b}) = IF a >= b THEN a ELSE b
<1>1. CASE a >= b
  <2>1. \A x \in {a, b} : (\A y \in {a, b} : x >= y) => x = a
    BY <1>1
  <2>. QED  BY <1>1, <2>1 DEF Max
<1>2. CASE ~(a >= b)
  <2>1. \A x \in {a, b} : (\A y \in {a, b} : x >= y) => x = b
    BY <1>2
  <2>. QED  BY <1>2, <2>1 DEF Max
<1>. QED  BY <1>1, <1>2

-----------------------------------------------------------------------------
(* Lemmas about Numbered: the items of the queue as it grows at the end    *)
(* and shrinks at the front.                                               *)

LEMMA NumberedAppendNext ==
  ASSUME NEW items \in Seq(Items), NEW item \in Items,
         NEW t, NEW first \in Nat, NEW next \in Nat,
         Numbered(items, t, first, next), MakesEntry(item, t, next)
  PROVE  Numbered(items \o <<item>>, t, first, next + 1)
<1> DEFINE more == items \o <<item>>
<1>1. /\ more \in Seq(Items) /\ Len(more) = Len(items) + 1
      /\ \A k \in 1 .. Len(items) + 1 :
           more[k] = IF k <= Len(items) THEN items[k] ELSE item
      /\ Len(items) \in Nat
      /\ DOMAIN items = 1 .. Len(items) /\ DOMAIN more = 1 .. Len(items) + 1
  <2>1. <<item>> \in Seq(Items) /\ Len(<<item>>) = 1 /\ <<item>>[1] = item
    OBVIOUS
  <2>. QED  BY <2>1, ConcatProperties, LenProperties
<1>2. \A k \in DOMAIN more :
        TableOf(more[k]) = t => more[k].number \in first .. next
  BY <1>1 DEF Numbered, MakesEntry
<1>3. \A k, l \in DOMAIN more :
        (k < l /\ TableOf(more[k]) = t /\ TableOf(more[l]) = t)
          => more[k].number < more[l].number
  <2>. SUFFICES ASSUME NEW k \in DOMAIN more, NEW l \in DOMAIN more, k < l,
                       TableOf(more[k]) = t, TableOf(more[l]) = t
                PROVE  more[k].number < more[l].number
    OBVIOUS
  <2>1. k \in DOMAIN items /\ more[k] = items[k]
    BY <1>1
  <2>2. CASE l \in DOMAIN items
    BY <1>1, <2>1, <2>2 DEF Numbered
  <2>3. CASE l \notin DOMAIN items
    <3>1. more[l] = item
      BY <1>1, <2>3
    <3>2. items[k].number \in first .. next - 1
      BY <2>1 DEF Numbered
    <3>. QED  BY <2>1, <3>1, <3>2 DEF MakesEntry
  <2>. QED  BY <2>2, <2>3
<1>4. ASSUME NEW f \in first .. next
      PROVE  \E k \in DOMAIN more : MakesEntry(more[k], t, f)
  <2>1. CASE f = next
    BY <1>1, <2>1
  <2>2. CASE f \in first .. next - 1
    <3>1. PICK k \in DOMAIN items : MakesEntry(items[k], t, f)
      BY <2>2 DEF Numbered
    <3>. QED  BY <1>1, <3>1
  <2>. QED  BY <2>1, <2>2
<1>5. next + 1 - 1 = next
  OBVIOUS
<1>6. first <= next + 1
  BY DEF Numbered
<1>7. \A f \in first .. next + 1 - 1 :
        \E k \in DOMAIN more : MakesEntry(more[k], t, f)
  BY <1>4, <1>5
<1>8. \A k \in DOMAIN more :
        TableOf(more[k]) = t => more[k].number \in first .. next + 1 - 1
  BY <1>2, <1>5
<1>. HIDE DEF more
<1>9. Numbered(more, t, first, next + 1)
  BY <1>3, <1>6, <1>7, <1>8 DEF Numbered
<1>. QED  BY <1>9 DEF more

LEMMA NumberedAppendOther ==
  ASSUME NEW items \in Seq(Items), NEW item \in Items,
         NEW t, NEW first \in Nat, NEW next \in Nat,
         Numbered(items, t, first, next), TableOf(item) # t
  PROVE  Numbered(items \o <<item>>, t, first, next)
<1> DEFINE more == items \o <<item>>
<1>1. /\ more \in Seq(Items) /\ Len(more) = Len(items) + 1
      /\ \A k \in 1 .. Len(items) + 1 :
           more[k] = IF k <= Len(items) THEN items[k] ELSE item
      /\ Len(items) \in Nat
      /\ DOMAIN items = 1 .. Len(items) /\ DOMAIN more = 1 .. Len(items) + 1
  <2>1. <<item>> \in Seq(Items) /\ Len(<<item>>) = 1 /\ <<item>>[1] = item
    OBVIOUS
  <2>. QED  BY <2>1, ConcatProperties, LenProperties
<1>2. \A k \in DOMAIN more : TableOf(more[k]) = t =>
        k \in DOMAIN items /\ more[k] = items[k]
  BY <1>1
<1>3. \A k \in DOMAIN items : k \in DOMAIN more /\ more[k] = items[k]
  BY <1>1
<1>. QED  BY <1>2, <1>3 DEF Numbered, MakesEntry

(* When the items are Numbered and the first is one of the table's, it     *)
(* makes the next entry, and the others follow it.                         *)
LEMMA NumberedHead ==
  ASSUME NEW items \in Seq(Items), NEW item \in Items,
         NEW t, NEW first \in Nat, NEW next \in Nat,
         Numbered(<<item>> \o items, t, first, next)
  PROVE  /\ TableOf(item) # t => Numbered(items, t, first, next)
         /\ TableOf(item) = t => /\ item.number = first
                                 /\ first < next
                                 /\ Numbered(items, t, first + 1, next)
<1> DEFINE more == <<item>> \o items
<1>1. /\ more \in Seq(Items)
      /\ \A k \in 1 .. Len(items) + 1 :
           more[k] = IF k = 1 THEN item ELSE items[k - 1]
      /\ Len(items) \in Nat
      /\ DOMAIN items = 1 .. Len(items) /\ DOMAIN more = 1 .. Len(items) + 1
  <2>1. <<item>> \in Seq(Items) /\ Len(<<item>>) = 1 /\ <<item>>[1] = item
    OBVIOUS
  <2>. QED  BY <2>1, ConcatProperties, LenProperties
<1>2. \A k \in DOMAIN items : k + 1 \in DOMAIN more /\ more[k + 1] = items[k]
  BY <1>1
<1>3. 1 \in DOMAIN more /\ more[1] = item
  BY <1>1
<1>4. \A k \in DOMAIN more : k = 1 \/ (k - 1 \in DOMAIN items /\ more[k] = items[k - 1])
  BY <1>1
<1>5. \A k, l \in DOMAIN items :
        (k < l /\ TableOf(items[k]) = t /\ TableOf(items[l]) = t)
          => items[k].number < items[l].number
  <2>. SUFFICES ASSUME NEW k \in DOMAIN items, NEW l \in DOMAIN items, k < l,
                       TableOf(items[k]) = t, TableOf(items[l]) = t
                PROVE  items[k].number < items[l].number
    OBVIOUS
  <2>1. k + 1 < l + 1
    BY <1>1
  <2>. QED  BY <1>2, <2>1 DEF Numbered
<1>6. \A k \in DOMAIN items : TableOf(items[k]) = t =>
        /\ items[k].number \in first .. next - 1
        /\ TableOf(item) = t => item.number < items[k].number
  <2>. SUFFICES ASSUME NEW k \in DOMAIN items, TableOf(items[k]) = t
                PROVE  /\ items[k].number \in first .. next - 1
                       /\ TableOf(item) = t => item.number < items[k].number
    OBVIOUS
  <2>1. 1 < k + 1
    BY <1>1
  <2>. QED  BY <1>2, <1>3, <2>1 DEF Numbered
<1>7. ASSUME TableOf(item) # t
      PROVE  Numbered(items, t, first, next)
  <2>1. ASSUME NEW f \in first .. next - 1
        PROVE  \E k \in DOMAIN items : MakesEntry(items[k], t, f)
    <3>1. PICK k \in DOMAIN more : MakesEntry(more[k], t, f)
      BY DEF Numbered
    <3>2. k # 1
      BY <1>3, <1>7, <3>1 DEF MakesEntry
    <3>. QED  BY <1>4, <3>1, <3>2
  <2>. QED  BY <1>5, <1>6, <2>1 DEF Numbered
<1>8. ASSUME TableOf(item) = t
      PROVE  item.number = first /\ first < next /\ Numbered(items, t, first + 1, next)
  <2>1. item.number \in first .. next - 1
    BY <1>3, <1>8 DEF Numbered
  <2>2. PICK k \in DOMAIN more : MakesEntry(more[k], t, first)
    BY <2>1 DEF Numbered
  <2>3. item.number = first
    <3>1. CASE k = 1
      BY <1>3, <2>2, <3>1 DEF MakesEntry
    <3>2. CASE k # 1
      BY <1>4, <1>6, <1>8, <2>1, <2>2, <3>2 DEF MakesEntry
    <3>. QED  BY <3>1, <3>2
  <2>4. \A l \in DOMAIN items : TableOf(items[l]) = t =>
          items[l].number \in first + 1 .. next - 1
    BY <1>6, <1>8, <2>3
  <2>5. ASSUME NEW f \in first + 1 .. next - 1
        PROVE  \E l \in DOMAIN items : MakesEntry(items[l], t, f)
    <3>1. PICK l \in DOMAIN more : MakesEntry(more[l], t, f)
      BY <2>5 DEF Numbered
    <3>2. l # 1
      BY <1>3, <2>3, <2>5, <3>1 DEF MakesEntry
    <3>. QED  BY <1>4, <3>1, <3>2
  <2>. QED  BY <1>5, <2>1, <2>3, <2>4, <2>5 DEF Numbered
<1>. QED  BY <1>7, <1>8

-----------------------------------------------------------------------------
(* Type correctness.                                                       *)

LEMMA InitTypeOK == Init => TypeOK
<1>. SUFFICES ASSUME Init PROVE TypeOK
  OBVIOUS
<1>1. input \in Inputs /\ input \in Seq(Seq(Byte)) /\ Len(input) \in Nat
  BY InputAssumption, LenProperties DEF Init
<1>2. single_threaded \in BOOLEAN /\ dedup_enabled \in BOOLEAN
  BY InputAssumption DEF Init
<1>3. OptionsOK
  BY <1>1, <1>2 DEF OptionsOK
<1>4. /\ \A S : <<>> \in Seq(S)
      /\ Len(<<>>) = 0
  BY EmptySeq
<1>5. ControlOK /\ WriterOK
  BY <1>4 DEF Init, ControlOK, WriterOK, PcValues
<1>6. ReadingOK
  BY <1>1, <1>4, EmptyBlock DEF Init, ReadingOK
<1>7. PackingOK
  BY <1>4, EmptyBlock DEF Init, PackingOK, Place, NoFragment
<1>8. SearchOK
  BY <1>4 DEF Init, SearchOK, Entry, NoEntry
<1>9. ChannelOK /\ DiskOK
  <2>1. queue = <<>> /\ finished = FALSE /\ file = <<>> /\ pos = 0 /\ stream = "good"
    BY DEF Init
  <2>2. Len(queue) <= QueueBound /\ pos <= Len(file)
    BY <1>4, <2>1, QueueBoundAssumption
  <2>3. ChannelOK
    BY <1>4, <2>1, <2>2 DEF ChannelOK
  <2>4. file \in Seq(Byte) /\ pos \in Int
    BY <1>4, <2>1
  <2>. QED  BY <2>1, <2>2, <2>3, <2>4 DEF DiskOK
<1>10. LayoutOK
  BY <1>4 DEF Init, LayoutOK, Report, NoReport
<1>. QED  BY <1>3, <1>5, <1>6, <1>7, <1>8, <1>9, <1>10 DEF TypeOK, Init

(* What a step leaves alone keeps its type.                                *)
LEMMA Unchanged ==
  ASSUME TypeOK, UNCHANGED options
  PROVE  /\ OptionsOK' /\ Inodes' = Inodes /\ Items' = Items
         /\ UNCHANGED control => ControlOK'
         /\ UNCHANGED reading => ReadingOK'
         /\ UNCHANGED packing => PackingOK'
         /\ UNCHANGED search => SearchOK'
         /\ UNCHANGED channel => ChannelOK'
         /\ UNCHANGED writer => WriterOK'
         /\ UNCHANGED disk => DiskOK'
         /\ UNCHANGED layout => LayoutOK'
<1>1. UNCHANGED <<input, single_threaded, dedup_enabled>>
  BY DEF options
<1>2. Inodes' = Inodes
  BY <1>1 DEF Inodes
<1>3. Items' = Items
  BY <1>2 DEF Items
<1>4. OptionsOK'
  BY <1>1 DEF TypeOK, OptionsOK
<1>5. UNCHANGED control => ControlOK'
  BY <1>3 DEF TypeOK, ControlOK, control
<1>6. UNCHANGED reading => ReadingOK'
  BY <1>1 DEF TypeOK, ReadingOK, reading
<1>7. UNCHANGED packing => PackingOK'
  <2>. SUFFICES ASSUME UNCHANGED packing PROVE PackingOK'
    OBVIOUS
  <2>1. fragment_indices' \in [Inodes' -> Place]
    BY <1>2 DEF TypeOK, PackingOK, packing
  <2>2. fragmented_duplicates' \in [Checksums -> Seq(Inodes')]
    BY <1>2 DEF TypeOK, PackingOK, packing
  <2>. QED  BY <2>1, <2>2 DEF TypeOK, PackingOK, packing
<1>8. UNCHANGED search => SearchOK'
  BY <1>2 DEF TypeOK, SearchOK, search
<1>9. UNCHANGED channel => ChannelOK'
  BY <1>3 DEF TypeOK, ChannelOK, channel
<1>10. UNCHANGED writer => WriterOK'
  BY <1>3 DEF TypeOK, WriterOK, writer
<1>11. UNCHANGED disk => DiskOK'
  BY DEF TypeOK, DiskOK, disk
<1>12. UNCHANGED layout => LayoutOK'
  BY <1>2 DEF TypeOK, LayoutOK, layout
<1>. QED
  BY <1>2, <1>3, <1>4, <1>5, <1>6, <1>7, <1>8, <1>9, <1>10, <1>11, <1>12

(* The items the client queues.                                            *)
LEMMA TableOfItem ==
  ASSUME NEW item \in Items
  PROVE  /\ TableOf(item) = 0 <=> item.kind = "fragment"
         /\ \A i \in Inodes :
              TableOf(item) = i <=> item.kind = "block" /\ item.inode = i
         /\ item.kind \in {"block", "dedup", "fragment"}
         /\ item.kind # "fragment" => item.inode \in Inodes
<1>1. CASE item.kind = "fragment"
  BY <1>1 DEF TableOf, Items, Inodes
<1>2. CASE item.kind = "block"
  BY <1>2 DEF TableOf, Items, Inodes
<1>3. CASE item.kind = "dedup"
  BY <1>3 DEF TableOf, Items, Inodes
<1>. QED  BY <1>1, <1>2, <1>3 DEF Items

LEMMA BlockItemType ==
  ASSUME TypeOK, Control, pc \in {"read", "flush"}
  PROVE  BlockItem \in Items /\ DedupItem \in Items
<1>1. inode \in Inodes
  BY DEF TypeOK, ReadingOK, Control, InFile, At, Inodes
<1>. QED  BY <1>1, EmptyBlock DEF BlockItem, DedupItem, Items, TypeOK, ReadingOK

LEMMA FragmentItemType ==
  ASSUME TypeOK
  PROVE  FragmentItem \in Items
BY DEF FragmentItem, Items, TypeOK, ReadingOK, PackingOK

LEMMA EnqueueType ==
  ASSUME TypeOK, UNCHANGED options, NEW item \in Items,
         NEW next \in {"next", "read", "place", "finish"}, Enqueue(item, next)
  PROVE  ControlOK'
<1>1. <<item>> \in Seq(Items) /\ Len(<<item>>) = 1 /\ Items' = Items
  BY Unchanged
<1>2. CASE writer_failed
  BY <1>1, <1>2 DEF Enqueue, TypeOK, ControlOK, PcValues
<1>3. CASE ~writer_failed
  <2>1. pushing' = <<item>> /\ resume' = next /\ pc' = "push"
    BY <1>3 DEF Enqueue
  <2>2. pushing' \in Seq(Items') /\ Len(pushing') <= 1
    BY <1>1, <2>1
  <2>. QED  BY <2>1, <2>2 DEF ControlOK, PcValues
<1>. QED  BY <1>2, <1>3

\* One comparison, whatever it compares with.
LEMMA CompareType ==
  ASSUME TypeOK, UNCHANGED options, candidates # <<>>, NEW content,
         Compare(content),
         UNCHANGED <<resume, pushing, inode, unread, block_count,
                     current_fragment, fragment_count, fragmented_duplicates,
                     entry>>
  PROVE  ControlOK' /\ ReadingOK' /\ PackingOK' /\ SearchOK'
<1>. USE DEF TypeOK
<1>1. ControlOK'
  BY Unchanged DEF Compare, ControlOK, PcValues
<1>2. ReadingOK'
  BY EmptyBlock DEF Compare, ReadingOK, options
<1>3. Head(candidates) \in Inodes /\ Tail(candidates) \in Seq(Inodes)
  BY HeadTailProperties DEF SearchOK
<1>4. SearchOK'
  BY <1>3, EmptySeq, Unchanged DEF Compare, SearchOK
<1>5. fragment_indices' \in [Inodes -> Place]
  BY <1>3 DEF Compare, Candidate, PackingOK
<1>6. PackingOK'
  BY <1>5, Unchanged DEF PackingOK
<1>. QED  BY <1>1, <1>2, <1>4, <1>6

(* The client's steps.                                                     *)
LEMMA TypeClient ==
  ASSUME TypeOK, Control, CandidatesPlaced, Client \/ ArchiveFails
  PROVE  TypeOK'
<1>. USE DEF TypeOK
<1>1. CASE Push
  <2>1. UNCHANGED <<options, reading, packing, search, writer, disk, layout>>
    BY <1>1 DEF Push
  <2>2. ControlOK'
    BY <1>1, <2>1, Unchanged, EmptySeq DEF Push, ControlOK, PcValues
  <2>3. queue' \in Seq(Items) /\ Len(queue') = Len(queue) + Len(pushing)
    BY <1>1, ConcatProperties DEF Push, ControlOK, ChannelOK
  <2>4. ChannelOK'
    <3>1. Len(queue') <= QueueBound
      BY <1>1, <2>3, QueueBoundAssumption, LenProperties
         DEF Push, ControlOK, ChannelOK
    <3>. QED  BY <1>1, <2>1, <2>3, <3>1, Unchanged DEF Push, ChannelOK
  <2>. QED  BY <1>1, <2>1, <2>2, <2>4, Unchanged DEF Push
<1>2. CASE CallHandleWrite
  <2>1. UNCHANGED <<options, reading, packing, search, channel, disk, layout>>
    BY <1>2 DEF CallHandleWrite
  <2>2. ControlOK' /\ WriterOK'
    BY <1>2, <2>1, Unchanged, EmptySeq
       DEF CallHandleWrite, ControlOK, WriterOK, PcValues
  <2>. QED  BY <1>2, <2>1, <2>2, Unchanged DEF CallHandleWrite
<1>3. CASE NextFile
  <2>1. UNCHANGED <<options, packing, search, channel, writer, disk, layout>>
    BY <1>3 DEF NextFile
  <2>2. ControlOK'
    BY <1>3, <2>1, Unchanged DEF NextFile, ControlOK, PcValues
  <2>3. input' = input /\ input \in Seq(Seq(Byte))
    BY <2>1, InputAssumption DEF options, OptionsOK
  <2>4. ReadingOK'
    BY <1>3, <2>3, ElementOfSeq, LenProperties DEF NextFile, ReadingOK
  <2>. QED  BY <1>3, <2>1, <2>2, <2>4, Unchanged DEF NextFile
<1>4. CASE ReadChunk
  <2>1. UNCHANGED <<options, packing, search, channel, writer, disk, layout>>
    BY <1>4 DEF ReadChunk
  <2>2. ControlOK'
    BY <1>4, <2>1, Unchanged DEF ReadChunk, ControlOK, PcValues
  <2>. DEFINE n == Min({BlockSize, Len(unread)})
  <2>3. /\ n \in 0 .. Len(unread) /\ n <= BlockSize
        /\ Len(unread) \in Nat
    BY MinOfTwo, LenProperties, BlockSizeAssumption DEF ReadingOK
  <2>4. /\ current_block' = SubSeq(unread, 1, n)
        /\ unread' = SubSeq(unread, n + 1, Len(unread))
    BY <1>4 DEF ReadChunk
  <2>. HIDE DEF n
  <2>5. /\ current_block' \in Seq(Byte) /\ Len(current_block') <= BlockSize
    <3>1. \A i \in 1 .. n : unread[i] \in Byte
      BY <2>3, ElementOfSeq DEF ReadingOK
    <3>2. /\ SubSeq(unread, 1, n) \in Seq(Byte)
          /\ Len(SubSeq(unread, 1, n)) = IF 1 <= n THEN n - 1 + 1 ELSE 0
      BY <2>3, <3>1, SubSeqProperties
    <3>. QED  BY <2>3, <2>4, <3>2, BlockSizeAssumption
  <2>6. unread' \in Seq(Byte)
    <3>1. \A i \in n + 1 .. Len(unread) : unread[i] \in Byte
      BY <2>3, ElementOfSeq DEF ReadingOK
    <3>. QED  BY <2>3, <2>4, <3>1, SubSeqProperties
  <2>7. ReadingOK'
    BY <1>4, <2>1, <2>5, <2>6, BlockIsSeq DEF ReadChunk, ReadingOK, options
  <2>. QED  BY <1>4, <2>1, <2>2, <2>7, Unchanged DEF ReadChunk
<1>5. CASE FlushBlock
  <2>1. UNCHANGED <<options, packing, search, channel, writer, disk, layout>>
    BY <1>5 DEF FlushBlock
  <2>2. ControlOK'
    BY <1>5, <2>1, BlockItemType, EnqueueType DEF FlushBlock
  <2>3. ReadingOK'
    BY <1>5, <2>1, EmptyBlock DEF FlushBlock, ReadingOK, options
  <2>. QED  BY <1>5, <2>1, <2>2, <2>3, Unchanged DEF FlushBlock
<1>6. CASE Finalize
  <2>1. UNCHANGED <<options, reading, packing, search, channel, writer, disk,
                    layout>>
    BY <1>6 DEF Finalize
  <2>2. ControlOK'
    <3>1. CASE block_count # 0 /\ dedup_enabled
      BY <1>6, <2>1, <3>1, BlockItemType, EnqueueType DEF Finalize
    <3>2. CASE ~(block_count # 0 /\ dedup_enabled)
      BY <1>6, <2>1, <3>2, Unchanged DEF Finalize, ControlOK, PcValues
    <3>. QED  BY <3>1, <3>2
  <2>. QED  BY <1>6, <2>1, <2>2, Unchanged DEF Finalize
<1>7. CASE ArchiveFails
  <2>1. UNCHANGED <<options, reading, packing, search, channel, writer, disk,
                    layout>>
    BY <1>7 DEF ArchiveFails
  <2>2. ControlOK'
    BY <1>7, <2>1, Unchanged DEF ArchiveFails, ControlOK, PcValues
  <2>. QED  BY <1>7, <2>1, <2>2, Unchanged DEF ArchiveFails
<1>8. CASE PutFragment
  <2>1. UNCHANGED <<options, reading, packing, channel, writer, disk, layout>>
    BY <1>8 DEF PutFragment
  <2>2. ControlOK'
    BY <1>8, <2>1, Unchanged DEF PutFragment, ControlOK, PcValues
  <2>3. SearchOK'
    <3>1. CASE dedup_enabled
      <4>. DEFINE dups == fragmented_duplicates[Checksum(current_block)]
      <4>1. dups \in Seq(Inodes)
        BY ChecksumAssumption DEF PackingOK, ReadingOK
      <4>2. candidates' = Reverse(dups)
        BY <1>8, <3>1 DEF PutFragment
      <4>. HIDE DEF dups
      <4>3. Len(dups) \in Nat /\ \A i \in 1 .. Len(dups) : dups[i] \in Inodes
        BY <4>1, ElementOfSeq, LenProperties
      <4>4. Reverse(dups) \in [1 .. Len(dups) -> Inodes]
        BY <4>3 DEF Reverse
      <4>5. candidates' \in Seq(Inodes)
        BY <4>2, <4>3, <4>4, SeqDef
      <4>. QED  BY <1>8, <2>1, <4>5, Unchanged DEF PutFragment, SearchOK
    <3>2. CASE ~dedup_enabled
      BY <1>8, <2>1, <3>2, Unchanged DEF PutFragment, search
    <3>. QED  BY <3>1, <3>2
  <2>. QED  BY <1>8, <2>1, <2>2, <2>3, Unchanged DEF PutFragment
<1>9. CASE CompareCurrent
  <2>1. UNCHANGED <<options, channel, writer, disk, layout>>
    BY <1>9 DEF CompareCurrent
  <2>2. ControlOK' /\ ReadingOK' /\ PackingOK' /\ SearchOK'
    BY <1>9, <2>1, CompareType DEF CompareCurrent
  <2>. QED  BY <1>9, <2>1, <2>2, Unchanged DEF CompareCurrent
<1>10. CASE GetFragmentEntry
  <2>1. UNCHANGED <<options, reading, packing, channel, writer, disk, layout>>
    BY <1>10 DEF GetFragmentEntry
  <2>2. ControlOK'
    BY <1>10, <2>1, Unchanged DEF GetFragmentEntry, ControlOK, PcValues
  <2>3. Candidate.fragment \in 0 .. fragment_count
    <3>1. Head(candidates) = candidates[1] /\ 1 \in DOMAIN candidates
      BY <1>10, HeadTailProperties, EmptySeq, LenProperties
         DEF GetFragmentEntry, SearchOK
    <3>. QED  BY <3>1 DEF CandidatesPlaced, Placed, Candidate
  <2>4. Candidate.fragment + 1 \in 1 .. Len(fragments)
    BY <1>10, <2>3, LenProperties DEF GetFragmentEntry, LayoutOK, PackingOK
  <2>5. entry' \in Entry
    BY <1>10, <2>4, ElementOfSeq DEF GetFragmentEntry, LayoutOK
  <2>6. SearchOK'
    BY <1>10, <2>1, <2>5, Unchanged DEF GetFragmentEntry, SearchOK
  <2>. QED  BY <1>10, <2>1, <2>2, <2>6, Unchanged DEF GetFragmentEntry
<1>11. CASE CompareStored
  <2>1. UNCHANGED <<options, channel, writer, disk, layout>>
    BY <1>11 DEF CompareStored
  <2>2. ControlOK' /\ ReadingOK' /\ PackingOK' /\ SearchOK'
    <3>1. CASE stream = "good"
      BY <1>11, <2>1, <3>1, CompareType DEF CompareStored, Control
    <3>2. CASE stream # "good"
      <4>1. UNCHANGED <<reading, packing, search, resume, pushing>> /\ pc' = "aborted"
        BY <1>11, <3>2 DEF CompareStored, reading, packing, search
      <4>2. ControlOK'
        BY <2>1, <4>1, Unchanged DEF ControlOK, PcValues
      <4>. QED  BY <2>1, <4>1, <4>2, Unchanged
    <3>. QED  BY <3>1, <3>2
  <2>. QED  BY <1>11, <2>1, <2>2, Unchanged DEF CompareStored
<1>12. CASE NoDuplicate
  <2>1. UNCHANGED <<options, reading, search, channel, writer, disk, layout>>
    BY <1>12 DEF NoDuplicate
  <2>2. ControlOK'
    BY <1>12, <2>1, Unchanged DEF NoDuplicate, ControlOK, PcValues
  <2>3. inode \in Inodes /\ Checksum(current_block) \in Checksums
    BY <1>12, ChecksumAssumption
       DEF NoDuplicate, Control, InFile, At, ReadingOK, Inodes
  <2>4. fragmented_duplicates' \in [Checksums -> Seq(Inodes)]
    <3>1. Append(fragmented_duplicates[Checksum(current_block)], inode) \in Seq(Inodes)
      BY <2>3, AppendProperties DEF PackingOK
    <3>. QED  BY <1>12, <2>3, <3>1 DEF NoDuplicate, PackingOK
  <2>5. PackingOK'
    BY <1>12, <2>1, <2>4, Unchanged DEF NoDuplicate, PackingOK
  <2>. QED  BY <1>12, <2>1, <2>2, <2>5, Unchanged DEF NoDuplicate
<1>13. CASE FlushFragment
  <2>1. UNCHANGED <<options, reading, search, channel, writer, disk, layout>>
    BY <1>13 DEF FlushFragment
  <2>2. pc \in {"finish", "place"}
    BY <1>13 DEF FlushFragment
  <2>3. ControlOK'
    BY <1>13, <2>1, <2>2, FragmentItemType, EnqueueType DEF FlushFragment
  <2>4. PackingOK'
    BY <1>13, <2>1, EmptyBlock, Unchanged DEF FlushFragment, PackingOK
  <2>. QED  BY <1>13, <2>1, <2>3, <2>4, Unchanged DEF FlushFragment
<1>14. CASE Insert
  <2>1. UNCHANGED <<options, search, channel, writer, disk, layout>>
    BY <1>14 DEF Insert
  <2>2. ControlOK'
    BY <1>14, <2>1, Unchanged DEF Insert, ControlOK, PcValues
  <2>3. ReadingOK'
    BY <1>14, <2>1, EmptyBlock DEF Insert, ReadingOK, options
  <2>4. current_fragment' \in Block /\ Len(current_fragment) \in Nat
    <3>1. /\ current_fragment \in Seq(Byte) /\ current_block \in Seq(Byte)
          /\ Len(current_fragment) \in Nat /\ Len(current_block) \in Nat
      BY BlockIsSeq, LenProperties DEF PackingOK, ReadingOK
    <3>2. /\ current_fragment' \in Seq(Byte)
          /\ Len(current_fragment') = Len(current_fragment) + Len(current_block)
      BY <1>14, <3>1, ConcatProperties DEF Insert
    <3>3. Len(current_fragment') <= BlockSize
      BY <1>14, <3>1, <3>2, BlockSizeAssumption DEF Insert, Overflows
    <3>. QED  BY <3>1, <3>2, <3>3, BlockIsSeq
  <2>5. fragment_indices' \in [Inodes -> Place]
    <3>1. [fragment |-> fragment_count, offset |-> Len(current_fragment)] \in Place
      BY <2>4 DEF PackingOK, Place
    <3>. QED  BY <1>14, <3>1 DEF Insert, PackingOK
  <2>6. PackingOK'
    BY <1>14, <2>1, <2>4, <2>5, Unchanged DEF Insert, PackingOK
  <2>. QED  BY <1>14, <2>1, <2>2, <2>3, <2>6, Unchanged DEF Insert
<1>15. CASE FinishQueue
  <2>1. UNCHANGED <<options, reading, packing, search, writer, disk, layout>>
    BY <1>15 DEF FinishQueue
  <2>2. ControlOK' /\ ChannelOK'
    BY <1>15, <2>1, Unchanged DEF FinishQueue, ControlOK, ChannelOK, PcValues
  <2>. QED  BY <1>15, <2>1, <2>2, Unchanged DEF FinishQueue
<1>16. CASE Join
  <2>1. UNCHANGED <<options, reading, packing, search, channel, writer, disk,
                    layout>>
    BY <1>16 DEF Join
  <2>2. ControlOK'
    BY <1>16, <2>1, Unchanged DEF Join, ControlOK, PcValues
  <2>. QED  BY <1>16, <2>1, <2>2, Unchanged DEF Join
<1>. QED
  BY <1>1, <1>2, <1>3, <1>4, <1>5, <1>6, <1>7, <1>8, <1>9, <1>10, <1>11,
     <1>12, <1>13, <1>14, <1>15, <1>16 DEF Client

(* The item in hand.                                                       *)
LEMMA ItemType ==
  ASSUME TypeOK, Control, wpc \in {"write", "report"}
  PROVE  /\ held = <<Item>> /\ Item \in Items /\ Item.data \in Block
         /\ Item.kind # "fragment" => Item.inode \in Inodes
<1>1. held # <<>> /\ held \in Seq(Items) /\ Len(held) <= 1
  BY DEF Control, TypeOK, WriterOK
<1>2. Len(held) = 1
  <2>. DEFINE n == Len(held)
  <2>1. n \in Nat /\ n # 0
    BY <1>1, EmptySeq
  <2>2. n <= 1
    BY <1>1
  <2>. HIDE DEF n
  <2>3. n = 1
    BY <2>1, <2>2
  <2>. QED  BY <2>3 DEF n
<1>3. Item \in Items
  BY <1>1, <1>2, ElementOfSeq DEF Item
<1>4. held = <<Item>>
  <2>1. <<Item>> \in Seq(Items) /\ Len(<<Item>>) = 1 /\ <<Item>>[1] = held[1]
    BY <1>3 DEF Item
  <2>. QED  BY <1>1, <1>2, <2>1, SeqEqual
<1>. QED  BY <1>3, <1>4 DEF Items

LEMMA HandledType ==
  ASSUME TypeOK, UNCHANGED <<options, resume, pushing, tell>>,
         wpc' = "pop", held' = <<>>, pc' \in {pc, resume, "aborted"}
  PROVE  ControlOK' /\ WriterOK'
<1>1. ControlOK'
  BY Unchanged DEF TypeOK, ControlOK, PcValues
<1>2. WriterOK'
  BY EmptySeq DEF TypeOK, WriterOK
<1>. QED  BY <1>1, <1>2

(* The steps of the thread that writes.                                    *)
LEMMA TypeWriter ==
  ASSUME TypeOK, Control, Writer
  PROVE  TypeOK'
<1>. USE DEF TypeOK
<1>1. CASE Take
  <2>1. UNCHANGED <<options, control, reading, packing, search, disk, layout>>
    BY <1>1 DEF Take
  <2>2. Head(queue) \in Items /\ Tail(queue) \in Seq(Items)
        /\ Len(Tail(queue)) = Len(queue) - 1 /\ Len(queue) \in Nat
    BY <1>1, HeadTailProperties, LenProperties DEF Take, ChannelOK
  <2>3. ChannelOK'
    <3>1. Len(queue') <= QueueBound
      BY <1>1, <2>2, QueueBoundAssumption DEF Take, ChannelOK
    <3>. QED  BY <1>1, <2>1, <2>2, <3>1, Unchanged DEF Take, ChannelOK
  <2>4. WriterOK'
    <3>1. held' = <<Head(queue)>> /\ Items' = Items
      BY <1>1, <2>1, Unchanged DEF Take
    <3>2. held' \in Seq(Items') /\ Len(held') <= 1
      BY <2>2, <3>1
    <3>. QED  BY <1>1, <3>2 DEF Take, WriterOK
  <2>. QED  BY <1>1, <2>1, <2>3, <2>4, Unchanged DEF Take
<1>2. CASE Exit
  <2>1. UNCHANGED <<options, control, reading, packing, search, channel, disk,
                    layout>>
    BY <1>2 DEF Exit
  <2>2. WriterOK'
    BY <1>2, <2>1, Unchanged DEF Exit, WriterOK
  <2>. QED  BY <1>2, <2>1, <2>2, Unchanged DEF Exit
<1>3. CASE WriteBytes
  <2>1. UNCHANGED <<options, control, reading, packing, search, channel, layout>>
    BY <1>3 DEF WriteBytes
  <2>2. WriterOK'
    BY <1>3, <2>1, Unchanged DEF WriteBytes, WriterOK, DiskOK
  <2>. DEFINE bytes == Compress(Item.data).bytes
              end == Max({Len(file), pos + Len(bytes)})
  <2>3. bytes \in Seq(Byte) /\ Len(bytes) \in Nat
    BY <1>3, ItemType, CompressType DEF WriteBytes
  <2>4. WriteAt(bytes) /\ pos' = pos + Len(bytes) /\ stream' = stream
    BY <1>3 DEF WriteBytes
  <2>. HIDE DEF bytes
  <2>5. /\ Len(file) \in Nat /\ file \in Seq(Byte) /\ pos \in Int
        /\ pos <= Len(file)
    BY LenProperties DEF DiskOK
  <2>6. /\ end \in Nat /\ Len(file) <= end /\ pos + Len(bytes) <= end
        /\ end = Len(file) \/ end = pos + Len(bytes)
    BY <2>3, <2>5, MaxOfTwo
  <2>7. file' = [k \in 1 .. end |->
                   IF k > pos /\ k <= pos + Len(bytes) THEN bytes[k - pos]
                                                       ELSE file[k]]
    BY <2>4 DEF WriteAt
  <2>. HIDE DEF end
  <2>8. ASSUME NEW k \in 1 .. end
        PROVE  (IF k > pos /\ k <= pos + Len(bytes) THEN bytes[k - pos]
                                                    ELSE file[k]) \in Byte
    <3>1. CASE k > pos /\ k <= pos + Len(bytes)
      <4>1. k - pos \in 1 .. Len(bytes)
        BY <2>3, <2>5, <2>6, <3>1
      <4>. QED  BY <2>3, <3>1, <4>1, ElementOfSeq
    <3>2. CASE ~(k > pos /\ k <= pos + Len(bytes))
      <4>1. k \in 1 .. Len(file)
        BY <2>3, <2>5, <2>6, <3>2
      <4>. QED  BY <2>5, <3>2, <4>1, ElementOfSeq
    <3>. QED  BY <3>1, <3>2
  <2>9. file' \in [1 .. end -> Byte]
    BY <2>7, <2>8
  <2>10. file' \in Seq(Byte) /\ Len(file') = end
    BY <2>6, <2>9, SeqDef, LenProperties
  <2>11. DiskOK'
    BY <2>3, <2>4, <2>5, <2>6, <2>10 DEF DiskOK
  <2>. QED  BY <1>3, <2>1, <2>2, <2>11, Unchanged DEF WriteBytes
<1>4. CASE WriteIsLost
  <2>1. UNCHANGED <<options, control, reading, packing, search, channel, layout>>
    BY <1>4 DEF WriteIsLost
  <2>2. WriterOK'
    BY <1>4, <2>1, Unchanged DEF WriteIsLost, WriterOK, DiskOK
  <2>3. DiskOK'
    BY <1>4 DEF WriteIsLost, DiskOK
  <2>. QED  BY <1>4, <2>1, <2>2, <2>3, Unchanged DEF WriteIsLost
<1>5. CASE ReportFragment
  <2>1. UNCHANGED <<options, reading, packing, search, channel, disk>>
    BY <1>5 DEF ReportFragment
  <2>2. ControlOK' /\ WriterOK' /\ writer_failed' = writer_failed
    BY <1>5, <2>1, HandledType DEF ReportFragment, Handled
  <2>3. LayoutOK'
    <3>. DEFINE e == [start |-> tell, len |-> SizeWord.len, raw |-> SizeWord.raw]
    <3>1. e \in Entry
      BY <1>5, ItemType, CompressType DEF ReportFragment, WriterOK, SizeWord, Entry
    <3>2. fragments' = Append(fragments, e)
      BY <1>5 DEF ReportFragment
    <3>. HIDE DEF e
    <3>3. fragments' \in Seq(Entry)
      BY <3>1, <3>2, AppendProperties DEF LayoutOK
    <3>. QED  BY <1>5, <2>1, <3>3, Unchanged DEF ReportFragment, LayoutOK
  <2>. QED  BY <2>1, <2>2, <2>3, Unchanged
<1>6. CASE ReportBlock
  <2>1. UNCHANGED <<options, reading, packing, search, channel, disk>>
    BY <1>6 DEF ReportBlock
  <2>2. ControlOK' /\ WriterOK' /\ writer_failed' = writer_failed
    BY <1>6, <2>1, HandledType DEF ReportBlock, Handled
  <2>3. LayoutOK'
    <3>1. Item.inode \in Inodes
      BY <1>6, ItemType DEF ReportBlock
    <3>2. SizeWord \in Size
      BY <1>6, ItemType, CompressType DEF ReportBlock, SizeWord, Size
    <3>. DEFINE old == reports[Item.inode]
                new == [start |-> IF old.sizes = <<>> THEN tell ELSE old.start,
                        sizes |-> Append(old.sizes, SizeWord),
                        len   |-> old.len + SizeWord.len]
    <3>3. old \in Report
      BY <3>1 DEF LayoutOK
    <3>4. Append(old.sizes, SizeWord) \in Seq(Size)
      BY <3>2, <3>3, AppendProperties DEF Report
    <3>5. new \in Report
      BY <3>2, <3>3, <3>4 DEF WriterOK, Report, Size
    <3>6. reports' = [reports EXCEPT ![Item.inode] = new]
      BY <1>6 DEF ReportBlock
    <3>. HIDE DEF new
    <3>7. reports' \in [Inodes -> Report]
      BY <3>5, <3>6 DEF LayoutOK
    <3>. QED  BY <1>6, <2>1, <3>7, Unchanged DEF ReportBlock, LayoutOK
  <2>. QED  BY <2>1, <2>2, <2>3, Unchanged
<1>7. CASE KeepBlocks
  <2>1. UNCHANGED <<options, reading, packing, search, channel, disk>>
    BY <1>7 DEF KeepBlocks
  <2>2. ControlOK' /\ WriterOK' /\ writer_failed' = writer_failed
    BY <1>7, <2>1, HandledType DEF KeepBlocks, Handled
  <2>3. blocked_duplicates' \in Seq(Inodes)
    BY <1>7, ItemType, AppendProperties DEF KeepBlocks, LayoutOK
  <2>4. LayoutOK'
    BY <1>7, <2>1, <2>3, Unchanged DEF KeepBlocks, LayoutOK
  <2>. QED  BY <2>1, <2>2, <2>4, Unchanged
<1>8. CASE DropBlocks
  <2>1. UNCHANGED <<options, reading, packing, search, channel>>
    BY <1>8 DEF DropBlocks
  <2>2. ControlOK' /\ WriterOK' /\ writer_failed' = writer_failed
    BY <1>8, <2>1, HandledType DEF DropBlocks, Handled
  <2>3. Item.inode \in Inodes
    BY <1>8, ItemType DEF DropBlocks
  <2>4. reports[Item.inode].len \in Nat
    BY <2>3 DEF LayoutOK, Report
  <2>5. pos' \in Int /\ pos' <= pos /\ file' = file /\ stream' = stream
    BY <1>8, <2>4 DEF DropBlocks, DiskOK
  <2>6. DiskOK'
    <3>1. pos' <= Len(file)
      BY <2>5, LenProperties DEF DiskOK
    <3>. QED  BY <2>5, <3>1 DEF DiskOK
  <2>7. LayoutOK'
    <3>1. PICK k \in DOMAIN blocked_duplicates :
            reports' = [reports EXCEPT ![Item.inode] =
                                          reports[blocked_duplicates[k]]]
      BY <1>8 DEF DropBlocks, SameContent, SameShape
    <3>2. reports[blocked_duplicates[k]] \in Report
      BY ElementOfSeq, LenProperties DEF LayoutOK
    <3>3. reports' \in [Inodes -> Report]
      BY <3>1, <3>2 DEF LayoutOK
    <3>. QED  BY <1>8, <2>1, <3>3, Unchanged DEF DropBlocks, LayoutOK
  <2>. QED  BY <2>1, <2>2, <2>6, <2>7, Unchanged
<1>9. CASE HandleThrows
  <2>1. UNCHANGED <<options, reading, packing, search, channel, disk, layout>>
    BY <1>9 DEF HandleThrows
  <2>2. ControlOK' /\ WriterOK'
    BY <1>9, <2>1, HandledType DEF HandleThrows
  <2>3. writer_failed' \in BOOLEAN
    BY <1>9 DEF HandleThrows
  <2>. QED  BY <2>1, <2>2, <2>3, Unchanged
<1>. QED
  BY <1>1, <1>2, <1>3, <1>4, <1>5, <1>6, <1>7, <1>8, <1>9 DEF Writer

-----------------------------------------------------------------------------
(* Where the threads are.                                                  *)

LEMMA ControlClient ==
  ASSUME TypeOK, Control, Client \/ ArchiveFails
  PROVE  Control'
<1>. USE DEF Control, InFile, At, Item, options
<1>1. CASE Push
  <2>1. resume \in {"next", "read", "place", "finish"}
    BY DEF TypeOK, ControlOK
  <2>. QED  BY <1>1, <2>1 DEF Push, reading, search, writer
<1>2. CASE CallHandleWrite
  BY <1>2 DEF CallHandleWrite, reading, search, channel
<1>3. CASE NextFile
  BY <1>3 DEF NextFile, search, channel, writer, TypeOK, ReadingOK
<1>4. CASE ReadChunk
  BY <1>4 DEF ReadChunk, search, channel, writer
<1>5. CASE FlushBlock
  BY <1>5 DEF FlushBlock, Enqueue, search, channel, writer
<1>6. CASE Finalize
  BY <1>6 DEF Finalize, Enqueue, reading, search, channel, writer
<1>7. CASE ArchiveFails
  BY <1>7 DEF ArchiveFails, reading, search, channel, writer
<1>8. CASE PutFragment
  BY <1>8 DEF PutFragment, reading, channel, writer
<1>9. CASE CompareCurrent
  BY <1>9 DEF CompareCurrent, Compare, channel, writer
<1>10. CASE GetFragmentEntry
  BY <1>10 DEF GetFragmentEntry, reading, channel, writer
<1>11. CASE CompareStored
  BY <1>11 DEF CompareStored, Compare, channel, writer
<1>12. CASE NoDuplicate
  BY <1>12 DEF NoDuplicate, reading, search, channel, writer
<1>13. CASE FlushFragment
  BY <1>13 DEF FlushFragment, Enqueue, reading, search, channel, writer
<1>14. CASE Insert
  BY <1>14 DEF Insert, search, channel, writer
<1>15. CASE FinishQueue
  BY <1>15 DEF FinishQueue, reading, search, channel, writer
<1>16. CASE Join
  BY <1>16 DEF Join, reading, search, channel, writer
<1>. QED
  BY <1>1, <1>2, <1>3, <1>4, <1>5, <1>6, <1>7, <1>8, <1>9, <1>10, <1>11,
     <1>12, <1>13, <1>14, <1>15, <1>16 DEF Client

LEMMA ControlWriter ==
  ASSUME TypeOK, Control, pc # "aborted", Writer
  PROVE  Control'
<1>. USE DEF Control, InFile, At, Item, options
<1>1. CASE Take
  <2>1. queue # <<>> /\ ~single_threaded /\ held' # <<>>
    BY <1>1 DEF Take
  <2>. QED  BY <1>1, <2>1 DEF Take, options, control, reading, search
<1>2. CASE Exit
  BY <1>2 DEF Exit, options, control, reading, search, channel
<1>3. CASE WriteBytes
  BY <1>3 DEF WriteBytes, options, control, reading, search, channel
<1>4. CASE WriteIsLost
  BY <1>4 DEF WriteIsLost, options, control, reading, search, channel
<1>5. ASSUME wpc \in {"write", "report"}, wpc' = "pop", held' = <<>>,
             pc' = (IF single_threaded THEN resume ELSE pc),
             UNCHANGED <<options, resume, pushing, reading, search, channel>>
      PROVE  Control'
  <2>1. resume \in {"next", "read", "place", "finish"} /\ held # <<>>
    BY <1>5 DEF TypeOK, ControlOK
  <2>. QED  BY <1>5, <2>1 DEF options, reading, search, channel
<1>6. CASE HandleThrows
  BY <1>6 DEF HandleThrows, options, reading, search, channel
<1>. QED
  BY <1>1, <1>2, <1>3, <1>4, <1>5, <1>6
     DEF Writer, ReportFragment, ReportBlock, KeepBlocks, DropBlocks, Handled

(* The files that others are compared with.                                *)

LEMMA CandidatesUnchanged ==
  ASSUME CandidatesPlaced, TypeOK, TypeOK', Control,
         UNCHANGED <<fragment_indices, fragmented_duplicates, inode>>,
         fragment_count' >= fragment_count,
         candidates' \in {candidates, Tail(candidates), <<>>},
         candidates = <<>> => candidates' = <<>>,
         At({"place", "aborted"}, {"place"}) => At({"place", "aborted"}, {"place"})'
  PROVE  CandidatesPlaced'
<1>1. ASSUME NEW i, Placed(i) PROVE Placed(i)'
  BY <1>1 DEF Placed, TypeOK, PackingOK
<1>2. \A k \in DOMAIN candidates' : \E l \in DOMAIN candidates :
        candidates'[k] = candidates[l]
  <2>1. CASE candidates' = candidates
    BY <2>1
  <2>2. CASE candidates' = <<>>
    BY <2>2
  <2>3. CASE candidates' = Tail(candidates) /\ candidates # <<>>
    <3>1. /\ Len(Tail(candidates)) = Len(candidates) - 1
          /\ \A i \in 1 .. Len(Tail(candidates)) : Tail(candidates)[i] = candidates[i + 1]
          /\ Tail(candidates) \in Seq(Inodes)
      BY <2>3, HeadTailProperties DEF TypeOK, SearchOK
    <3>2. /\ DOMAIN candidates = 1 .. Len(candidates) /\ Len(candidates) \in Nat
          /\ DOMAIN candidates' = 1 .. Len(candidates) - 1
      BY <2>3, <3>1, LenProperties DEF TypeOK, SearchOK
    <3>. QED  BY <2>3, <3>1, <3>2
  <2>. QED  BY <2>1, <2>2, <2>3
<1>. QED  BY <1>1, <1>2 DEF CandidatesPlaced

\* What leaves the packing alone; Compare, which may share a place, does not.
LEMMA CandidatesShared ==
  ASSUME CandidatesPlaced, TypeOK, pc \in {"lookup", "compare"},
         candidates # <<>>, NEW content, Compare(content),
         UNCHANGED <<fragmented_duplicates, inode, fragment_count, resume>>,
         UNCHANGED options, TypeOK'
  PROVE  CandidatesPlaced'
<1>1. \A s \in Checksums : \A k \in DOMAIN fragmented_duplicates[s] :
        Placed(fragmented_duplicates[s][k]) /\ fragmented_duplicates[s][k] \in Inodes
  <2>1. ~At({"place", "aborted"}, {"place"})
    BY DEF At
  <2>. QED  BY <2>1, ElementOfSeq, LenProperties DEF CandidatesPlaced, TypeOK, PackingOK
<1>2. CASE fragment_indices' = [fragment_indices EXCEPT ![inode] = Candidate]
           /\ candidates' = <<>>
  <2>1. 1 \in DOMAIN candidates /\ Head(candidates) = candidates[1]
    <3>1. DOMAIN candidates = 1 .. Len(candidates) /\ Len(candidates) \in Nat \ {0}
      BY EmptySeq, LenProperties DEF TypeOK, SearchOK
    <3>. QED  BY <3>1
  <2>2. Candidate.fragment \in 0 .. fragment_count
    BY <2>1 DEF CandidatesPlaced, Placed, Candidate
  <2>3. ASSUME NEW i \in Inodes, Placed(i) PROVE Placed(i)'
    BY <1>2, <2>2, <2>3 DEF Placed, TypeOK, PackingOK
  <2>. QED  BY <1>1, <1>2, <2>3 DEF CandidatesPlaced
<1>3. CASE UNCHANGED fragment_indices /\ candidates' = Tail(candidates)
  <2>1. \A k \in DOMAIN candidates' : \E l \in DOMAIN candidates :
          candidates'[k] = candidates[l]
    <3>1. /\ Len(Tail(candidates)) = Len(candidates) - 1
          /\ \A i \in 1 .. Len(Tail(candidates)) : Tail(candidates)[i] = candidates[i + 1]
          /\ Tail(candidates) \in Seq(Inodes)
      BY HeadTailProperties DEF TypeOK, SearchOK
    <3>2. /\ DOMAIN candidates = 1 .. Len(candidates) /\ Len(candidates) \in Nat
          /\ DOMAIN candidates' = 1 .. Len(candidates) - 1
      BY <1>3, <3>1, LenProperties DEF TypeOK, SearchOK
    <3>. QED  BY <1>3, <3>1, <3>2
  <2>. QED  BY <1>1, <1>3, <2>1 DEF CandidatesPlaced, Placed
<1>. QED  BY <1>2, <1>3 DEF Compare

LEMMA CandidatesClient ==
  ASSUME TypeOK, TypeOK', Control, CandidatesPlaced, Client \/ ArchiveFails
  PROVE  CandidatesPlaced'
<1>. DEFINE Here == At({"place", "aborted"}, {"place"})
<1>1. ASSUME ~Here
      PROVE  \A s \in Checksums : \A k \in DOMAIN fragmented_duplicates[s] :
               Placed(fragmented_duplicates[s][k])
  BY <1>1 DEF CandidatesPlaced
<1>2. ASSUME UNCHANGED <<packing, candidates, inode>>, Here => Here'
      PROVE  CandidatesPlaced'
  <2>1. fragment_count' >= fragment_count
    BY <1>2 DEF packing, TypeOK, PackingOK
  <2>. QED  BY <1>2, <2>1, CandidatesUnchanged DEF packing
<1>3. CASE Push
  BY <1>2, <1>3 DEF Push, At, packing, search, reading
<1>4. CASE CallHandleWrite
  BY <1>2, <1>4 DEF CallHandleWrite, At, packing, search, reading
<1>5. CASE NextFile
  <2>1. ~Here
    BY <1>5 DEF NextFile, At
  <2>2. UNCHANGED <<fragment_indices, fragment_count, fragmented_duplicates, candidates>>
    BY <1>5 DEF NextFile, packing, search
  <2>. QED  BY <1>1, <2>1, <2>2 DEF CandidatesPlaced, Placed
<1>6. CASE ReadChunk
  BY <1>2, <1>6 DEF ReadChunk, At, packing, search
<1>7. CASE FlushBlock
  BY <1>2, <1>7 DEF FlushBlock, At, packing, search
<1>8. CASE Finalize
  BY <1>2, <1>8 DEF Finalize, At, packing, search, reading
<1>9. CASE ArchiveFails
  BY <1>2, <1>9 DEF ArchiveFails, At, packing, search, reading
<1>10. CASE PutFragment
  <2>1. ~Here
    BY <1>10 DEF PutFragment, At
  <2>2. UNCHANGED <<fragment_indices, fragment_count, fragmented_duplicates>>
    BY <1>10 DEF PutFragment, packing
  <2>3. CASE dedup_enabled
    <3>. DEFINE dups == fragmented_duplicates[Checksum(current_block)]
    <3>1. Checksum(current_block) \in Checksums
      BY ChecksumAssumption DEF TypeOK, ReadingOK
    <3>2. DOMAIN dups = 1 .. Len(dups) /\ Len(dups) \in Nat
      BY <3>1, LenProperties DEF TypeOK, PackingOK
    <3>3. \A k \in 1 .. Len(dups) : Placed(dups[k])
      BY <1>1, <2>1, <3>1, <3>2
    <3>4. candidates' = Reverse(dups)
      BY <1>10, <2>3 DEF PutFragment
    <3>. HIDE DEF dups
    <3>5. \A k \in DOMAIN candidates' : Placed(candidates'[k])
      BY <3>2, <3>3, <3>4 DEF Reverse
    <3>. QED  BY <1>1, <2>1, <2>2, <3>5 DEF CandidatesPlaced, Placed
  <2>4. CASE ~dedup_enabled
    BY <1>1, <1>10, <2>1, <2>2, <2>4 DEF PutFragment, CandidatesPlaced, Placed
  <2>. QED  BY <2>3, <2>4
<1>11. CASE CompareCurrent
  BY <1>11, CandidatesShared DEF CompareCurrent
<1>12. CASE GetFragmentEntry
  BY <1>2, <1>12 DEF GetFragmentEntry, At, packing, reading
<1>13. CASE CompareStored
  <2>1. CASE stream = "good"
    <3>1. candidates # <<>>
      BY <1>13 DEF CompareStored, Control
    <3>. QED  BY <1>13, <2>1, <3>1, CandidatesShared DEF CompareStored
  <2>2. CASE stream # "good"
    BY <1>2, <1>13, <2>2 DEF CompareStored, At, packing
  <2>. QED  BY <2>1, <2>2
<1>14. CASE NoDuplicate
  <2>. DEFINE c == Checksum(current_block)
              dups == fragmented_duplicates[c]
  <2>1. ~Here
    BY <1>14 DEF NoDuplicate, At
  <2>2. /\ UNCHANGED <<fragment_indices, fragment_count, inode, candidates>>
        /\ pc' = "place" /\ candidates = <<>>
        /\ fragmented_duplicates' =
             [fragmented_duplicates EXCEPT ![c] = Append(dups, inode)]
    BY <1>14 DEF NoDuplicate, search, reading
  <2>3. inode \in Inodes
    BY <1>14 DEF NoDuplicate, Control, InFile, At, TypeOK, ReadingOK, Inodes
  <2>4. c \in Checksums
    BY ChecksumAssumption DEF TypeOK, ReadingOK
  <2>5. dups \in Seq(Inodes) /\ Len(dups) \in Nat
        /\ DOMAIN dups = 1 .. Len(dups)
    BY <2>4, LenProperties DEF TypeOK, PackingOK
  <2>6. \A k \in DOMAIN Append(dups, inode) :
          \/ k \in DOMAIN dups /\ Append(dups, inode)[k] = dups[k]
          \/ Append(dups, inode)[k] = inode
    <3>1. /\ Append(dups, inode) \in Seq(Inodes)
          /\ Len(Append(dups, inode)) = Len(dups) + 1
          /\ \A k \in 1 .. Len(dups) : Append(dups, inode)[k] = dups[k]
          /\ Append(dups, inode)[Len(dups) + 1] = inode
      BY <2>3, <2>5, AppendProperties
    <3>2. DOMAIN Append(dups, inode) = 1 .. Len(dups) + 1
      BY <3>1, LenProperties
    <3>. QED  BY <2>5, <3>1, <3>2
  <2>7. \A i : Placed(i)' <=> Placed(i)
    BY <2>2 DEF Placed
  <2>. HIDE DEF c
  <2>8. ASSUME NEW s \in Checksums, NEW k \in DOMAIN fragmented_duplicates'[s]
        PROVE  \/ Placed(fragmented_duplicates'[s][k])
               \/ fragmented_duplicates'[s][k] = inode
    <3>1. CASE s = c
      <4>1. fragmented_duplicates'[s] = Append(dups, inode)
        BY <2>2, <2>4, <3>1 DEF TypeOK, PackingOK
      <4>. QED  BY <1>1, <2>1, <2>4, <2>6, <2>8, <3>1, <4>1
    <3>2. CASE s # c
      <4>1. fragmented_duplicates'[s] = fragmented_duplicates[s]
        BY <2>2, <2>8, <3>2 DEF TypeOK, PackingOK
      <4>. QED  BY <1>1, <2>1, <2>8, <4>1
    <3>. QED  BY <3>1, <3>2
  <2>9. Here'
    BY <2>2 DEF At
  <2>10. (\A k \in DOMAIN candidates : Placed(candidates[k]))'
    BY <2>2
  <2>. QED  BY <2>2, <2>7, <2>8, <2>9, <2>10 DEF CandidatesPlaced
<1>15. CASE FlushFragment
  <2>1. /\ UNCHANGED <<fragment_indices, fragmented_duplicates, inode, candidates>>
        /\ fragment_count' >= fragment_count
    BY <1>15 DEF FlushFragment, search, reading, TypeOK, PackingOK
  <2>2. Here => Here'
    BY <1>15 DEF FlushFragment, Enqueue, At
  <2>. QED  BY <2>1, <2>2, CandidatesUnchanged
<1>16. CASE Insert
  <2>1. /\ UNCHANGED <<fragment_count, fragmented_duplicates, inode, candidates>>
        /\ fragment_indices' = [fragment_indices EXCEPT ![inode] =
             [fragment |-> fragment_count, offset |-> Len(current_fragment)]]
    BY <1>16 DEF Insert, search
  <2>2. inode \in Inodes
    BY <1>16 DEF Insert, Control, InFile, At, TypeOK, ReadingOK, Inodes
  <2>3. Placed(inode)'
    BY <2>1, <2>2 DEF Placed, TypeOK, PackingOK
  <2>4. ASSUME NEW i \in Inodes, Placed(i) \/ i = inode PROVE Placed(i)'
    <3>1. CASE i = inode
      BY <2>1, <2>3, <3>1
    <3>2. CASE i # inode
      BY <2>1, <2>4, <3>2 DEF Placed, TypeOK, PackingOK
    <3>. QED  BY <3>1, <3>2
  <2>5. \A s \in Checksums : \A k \in DOMAIN fragmented_duplicates[s] :
          fragmented_duplicates[s][k] \in Inodes
    BY ElementOfSeq, LenProperties DEF TypeOK, PackingOK
  <2>6. \A k \in DOMAIN candidates : candidates[k] \in Inodes
    BY ElementOfSeq, LenProperties DEF TypeOK, SearchOK
  <2>. QED  BY <2>1, <2>4, <2>5, <2>6 DEF CandidatesPlaced
<1>17. CASE FinishQueue
  BY <1>2, <1>17 DEF FinishQueue, At, packing, search, reading
<1>18. CASE Join
  BY <1>2, <1>18 DEF Join, At, packing, search, reading
<1>. QED
  BY <1>3, <1>4, <1>5, <1>6, <1>7, <1>8, <1>9, <1>10, <1>11, <1>12, <1>13,
     <1>14, <1>15, <1>16, <1>17, <1>18 DEF Client

LEMMA CandidatesWriter ==
  ASSUME TypeOK, TypeOK', Control, CandidatesPlaced, pc # "aborted", Writer
  PROVE  CandidatesPlaced'
<1>. DEFINE Here == At({"place", "aborted"}, {"place"})
<1>1. UNCHANGED <<packing, search, reading, resume>>
  BY DEF Writer, Take, Exit, WriteBytes, WriteIsLost, ReportFragment,
         ReportBlock, KeepBlocks, DropBlocks, HandleThrows, control
<1>2. pc' = pc \/ pc' = "aborted" \/ (single_threaded /\ held # <<>> /\ pc' = resume)
  BY DEF Writer, Take, Exit, WriteBytes, WriteIsLost, ReportFragment,
         ReportBlock, KeepBlocks, DropBlocks, HandleThrows, Handled, control,
         Control
<1>3. Here => Here'
  BY <1>1, <1>2 DEF At, Control
<1>4. fragment_count' >= fragment_count
  BY <1>1 DEF packing, TypeOK, PackingOK
<1>. QED  BY <1>1, <1>3, <1>4, CandidatesUnchanged DEF packing, search, reading

-----------------------------------------------------------------------------
(* The fragments that are pending are those that come next.                *)

\* A sequence is its head and its tail.
LEMMA HeadAndTail ==
  ASSUME NEW S, NEW s \in Seq(S), s # <<>>
  PROVE  <<Head(s)>> \o Tail(s) = s
<1>1. Len(s) \in Nat /\ Len(s) # 0
  BY EmptySeq
<1>2. s[1] = Head(s)
  OBVIOUS
<1>3. SubSeq(s, 2, Len(s)) = Tail(s)
  BY TailIsSubSeq
<1>4. SubSeq(s, 1, Len(s)) = <<s[1]>> \o SubSeq(s, 1 + 1, Len(s))
  <2>1. 1 \in 1 .. Len(s) /\ Len(s) \in 1 .. Len(s)
    BY <1>1
  <2>. QED  BY <2>1, SubSeqRecursiveFirst
<1>5. SubSeq(s, 1, Len(s)) = s
  BY SubSeqFull
<1>. QED  BY <1>2, <1>3, <1>4, <1>5

LEMMA PendingType ==
  ASSUME TypeOK
  PROVE  /\ Pending \in Seq(Items) /\ held \o queue \in Seq(Items)
         /\ held \in Seq(Items) /\ queue \in Seq(Items) /\ pushing \in Seq(Items)
BY ConcatProperties DEF Pending, TypeOK, WriterOK, ChannelOK, ControlOK

\* A step that queues nothing and writes nothing.
LEMMA NumberingKept ==
  ASSUME FragmentNumbering, pc # "aborted", UNCHANGED writer_failed,
         Pending' = Pending, UNCHANGED <<fragments, fragment_count>>
  PROVE  FragmentNumbering'
BY DEF FragmentNumbering

\* The client has an item for the queue.
LEMMA NumberingQueued ==
  ASSUME TypeOK, Control, FragmentNumbering, pc \notin {"push", "aborted"},
         NEW item \in Items, NEW next, Enqueue(item, next),
         UNCHANGED <<held, queue, writer_failed, fragments>>,
         IF item.kind = "fragment"
           THEN item.number = fragment_count /\ fragment_count' = fragment_count + 1
           ELSE UNCHANGED fragment_count
  PROVE  FragmentNumbering'
<1>. SUFFICES ASSUME ~writer_failed
              PROVE  Numbered(Pending, 0, Len(fragments), fragment_count)'
  BY DEF FragmentNumbering
<1>1. pushing = <<>> /\ pushing' = <<item>>
  BY DEF Control, Enqueue
<1>2. held \o queue \in Seq(Items) /\ Pending \in Seq(Items)
  BY PendingType
<1>3. Pending = held \o queue /\ Pending' = (held \o queue) \o <<item>>
  BY <1>1, <1>2, ConcatEmptySeq DEF Pending
<1>4. /\ Numbered(Pending, 0, Len(fragments), fragment_count)
      /\ Len(fragments) \in Nat /\ fragment_count \in Nat
  BY LenProperties DEF FragmentNumbering, TypeOK, PackingOK, LayoutOK
<1>5. CASE item.kind = "fragment"
  BY <1>2, <1>3, <1>4, <1>5, NumberedAppendNext, TableOfItem DEF MakesEntry
<1>6. CASE item.kind # "fragment"
  BY <1>2, <1>3, <1>4, <1>6, NumberedAppendOther, TableOfItem
<1>. QED  BY <1>5, <1>6

\* The writer is done with its item.
LEMMA NumberingWritten ==
  ASSUME TypeOK, Control, FragmentNumbering, pc # "aborted",
         wpc \in {"write", "report"}, held' = <<>>,
         UNCHANGED <<queue, pushing, writer_failed, fragment_count>>,
         IF Item.kind = "fragment"
           THEN \E e \in Entry : fragments' = Append(fragments, e)
           ELSE UNCHANGED fragments
  PROVE  FragmentNumbering'
<1>. SUFFICES ASSUME ~writer_failed
              PROVE  Numbered(Pending, 0, Len(fragments), fragment_count)'
  BY DEF FragmentNumbering
<1>. DEFINE rest == queue \o pushing
<1>1. held = <<Item>> /\ Item \in Items
  BY ItemType
<1>2. /\ rest \in Seq(Items) /\ <<Item>> \o (queue \o pushing) = Pending
      /\ Pending' = rest
  <2>1. queue \in Seq(Items) /\ pushing \in Seq(Items) /\ held \in Seq(Items)
    BY PendingType
  <2>2. (held \o queue) \o pushing = held \o (queue \o pushing)
    BY <2>1, ConcatAssociative
  <2>3. <<>> \o queue = queue
    BY <2>1, ConcatEmptySeq
  <2>. QED  BY <1>1, <2>1, <2>2, <2>3, ConcatProperties DEF Pending
<1>3. /\ Numbered(<<Item>> \o rest, 0, Len(fragments), fragment_count)
      /\ Len(fragments) \in Nat /\ fragment_count \in Nat
  BY <1>2, LenProperties DEF FragmentNumbering, TypeOK, PackingOK, LayoutOK
<1>. HIDE DEF rest
<1>4. /\ Item.kind # "fragment" => Numbered(rest, 0, Len(fragments), fragment_count)
      /\ Item.kind = "fragment" =>
           Numbered(rest, 0, Len(fragments) + 1, fragment_count)
  BY <1>1, <1>2, <1>3, NumberedHead, TableOfItem
<1>5. Item.kind = "fragment" => Len(fragments') = Len(fragments) + 1
  BY AppendProperties DEF TypeOK, LayoutOK
<1>. QED  BY <1>2, <1>4, <1>5

LEMMA NumberingClient ==
  ASSUME TypeOK, Control, FragmentNumbering, pc # "aborted",
         Client \/ ArchiveFails
  PROVE  FragmentNumbering'
<1>1. CASE Push
  <2>1. /\ queue' = queue \o pushing /\ pushing' = <<>>
        /\ UNCHANGED <<held, fragments, fragment_count, writer_failed>>
    BY <1>1 DEF Push, writer, layout, packing
  <2>2. /\ held \in Seq(Items) /\ queue \in Seq(Items) /\ pushing \in Seq(Items)
        /\ queue \o pushing \in Seq(Items)
        /\ held \o (queue \o pushing) \in Seq(Items)
    BY PendingType, ConcatProperties
  <2>3. Pending' = Pending
    <3>1. Pending' = (held \o (queue \o pushing)) \o <<>>
      BY <2>1 DEF Pending
    <3>2. (held \o (queue \o pushing)) \o <<>> = held \o (queue \o pushing)
      BY <2>2, ConcatEmptySeq
    <3>3. held \o (queue \o pushing) = (held \o queue) \o pushing
      BY <2>2, ConcatAssociative
    <3>. QED  BY <3>1, <3>2, <3>3 DEF Pending
  <2>. QED  BY <2>1, <2>3, NumberingKept
<1>2. CASE CallHandleWrite
  <2>1. /\ queue = <<>> /\ queue' = queue /\ held = <<>>
        /\ held' = pushing /\ pushing' = <<>>
        /\ UNCHANGED <<fragments, fragment_count, writer_failed>>
    BY <1>2 DEF CallHandleWrite, Control, channel, layout, packing
  <2>2. Pending' = Pending
    BY <2>1, PendingType, ConcatEmptySeq DEF Pending
  <2>. QED  BY <2>1, <2>2, NumberingKept
<1>3. CASE FlushBlock
  <2>1. BlockItem \in Items /\ BlockItem.kind = "block"
    BY <1>3, BlockItemType DEF FlushBlock, BlockItem
  <2>. QED
    BY <1>3, <2>1, NumberingQueued DEF FlushBlock, writer, channel, layout, packing
<1>4. CASE Finalize
  <2>1. CASE Enqueue(DedupItem, "next")
    <3>1. DedupItem \in Items /\ DedupItem.kind = "dedup"
      BY <1>4, BlockItemType DEF Finalize, DedupItem
    <3>. QED
      BY <1>4, <2>1, <3>1, NumberingQueued DEF Finalize, writer, channel, layout, packing
  <2>2. CASE UNCHANGED pushing
    BY <1>4, <2>2, NumberingKept
       DEF Finalize, Pending, writer, channel, layout, packing
  <2>. QED  BY <1>4, <2>1, <2>2 DEF Finalize
<1>5. CASE FlushFragment
  <2>1. FragmentItem \in Items /\ FragmentItem.kind = "fragment"
        /\ FragmentItem.number = fragment_count
    BY FragmentItemType DEF FragmentItem
  <2>2. pc \notin {"push", "aborted"} /\ Enqueue(FragmentItem, pc)
        /\ UNCHANGED <<held, queue, writer_failed, fragments>>
        /\ fragment_count' = fragment_count + 1
    BY <1>5 DEF FlushFragment, writer, channel, layout
  <2>. QED  BY <2>1, <2>2, NumberingQueued
<1>6. ASSUME UNCHANGED <<held, queue, pushing, fragments, fragment_count, writer_failed>>
      PROVE  FragmentNumbering'
  BY <1>6, NumberingKept DEF Pending
<1>. QED
  BY <1>1, <1>2, <1>3, <1>4, <1>5, <1>6
     DEF Client, ArchiveFails, NextFile, ReadChunk, PutFragment, CompareCurrent,
         GetFragmentEntry, CompareStored, NoDuplicate, Insert, FinishQueue,
         Join, writer, channel, layout, packing

LEMMA NumberingWriter ==
  ASSUME TypeOK, Control, FragmentNumbering, pc # "aborted", Writer
  PROVE  FragmentNumbering'
<1>1. CASE Take
  <2>1. /\ held = <<>> /\ queue # <<>> /\ held' = <<Head(queue)>>
        /\ queue' = Tail(queue)
        /\ UNCHANGED <<pushing, fragments, fragment_count, writer_failed>>
    BY <1>1 DEF Take, Control, control, layout, packing
  <2>2. queue \in Seq(Items)
    BY PendingType
  <2>3. held' \o queue' = held \o queue
    BY <2>1, <2>2, HeadAndTail, ConcatEmptySeq
  <2>. QED  BY <2>1, <2>3, NumberingKept DEF Pending
<1>2. CASE ReportFragment
  <2>1. \E e \in Entry : fragments' = Append(fragments, e)
    <3>1. [start |-> tell, len |-> SizeWord.len, raw |-> SizeWord.raw] \in Entry
      BY <1>2, ItemType, CompressType
         DEF ReportFragment, SizeWord, Entry, TypeOK, WriterOK
    <3>. QED  BY <1>2, <3>1 DEF ReportFragment
  <2>. QED
    BY <1>2, <2>1, NumberingWritten DEF ReportFragment, Handled, channel, packing
<1>3. CASE ReportBlock
  BY <1>3, NumberingWritten DEF ReportBlock, Handled, channel, packing
<1>4. CASE KeepBlocks
  BY <1>4, NumberingWritten DEF KeepBlocks, Handled, channel, packing
<1>5. CASE DropBlocks
  BY <1>5, NumberingWritten DEF DropBlocks, Handled, channel, packing
<1>6. CASE HandleThrows
  <2>1. writer_failed' \/ pc' = "aborted"
    BY <1>6 DEF HandleThrows
  <2>. QED  BY <2>1 DEF FragmentNumbering
<1>7. ASSUME UNCHANGED <<held, queue, pushing, fragments, fragment_count, writer_failed>>
      PROVE  FragmentNumbering'
  BY <1>7, NumberingKept DEF Pending
<1>. QED
  BY <1>1, <1>2, <1>3, <1>4, <1>5, <1>6, <1>7
     DEF Writer, Exit, WriteBytes, WriteIsLost, control, channel, layout, packing

-----------------------------------------------------------------------------
(* The theorems.                                                           *)

LEMMA InitPathInv == Init => PathInv
<1>. SUFFICES ASSUME Init PROVE PathInv
  OBVIOUS
<1>1. TypeOK
  BY InitTypeOK
<1>2. Control
  BY DEF Init, Control, InFile, At
<1>3. CandidatesPlaced
  BY DEF Init, CandidatesPlaced
<1>4. Pending = <<>> /\ Len(fragments) = 0 /\ fragment_count = 0
  BY ConcatEmptySeq, EmptySeq DEF Init, Pending
<1>5. FragmentNumbering
  <2>1. DOMAIN <<>> = {} /\ 0 .. 0 - 1 = {}
    OBVIOUS
  <2>. QED  BY <1>4, <2>1 DEF FragmentNumbering, Numbered
<1>. QED  BY <1>1, <1>2, <1>3, <1>5 DEF PathInv

\* Every step keeps the invariant.
LEMMA NextPathInv == PathInv /\ [Next]_vars => PathInv'
<1>. SUFFICES ASSUME PathInv, [Next]_vars PROVE PathInv'
  OBVIOUS
<1>. USE DEF PathInv
<1>1. CASE ~Stopped /\ (Client \/ ArchiveFails)
  <2>1. pc # "aborted"
    BY <1>1 DEF Stopped
  <2>2. TypeOK'
    BY <1>1, TypeClient
  <2>3. Control'
    BY <1>1, ControlClient
  <2>4. CandidatesPlaced'
    BY <1>1, <2>2, CandidatesClient
  <2>5. FragmentNumbering'
    BY <1>1, <2>1, NumberingClient
  <2>. QED  BY <2>2, <2>3, <2>4, <2>5
<1>2. CASE ~Stopped /\ Writer
  <2>1. pc # "aborted"
    BY <1>2 DEF Stopped
  <2>2. TypeOK'
    BY <1>2, TypeWriter
  <2>3. Control'
    BY <1>2, <2>1, ControlWriter
  <2>4. CandidatesPlaced'
    BY <1>2, <2>1, <2>2, CandidatesWriter
  <2>5. FragmentNumbering'
    BY <1>2, <2>1, NumberingWriter
  <2>. QED  BY <2>2, <2>3, <2>4, <2>5
<1>3. CASE UNCHANGED vars
  <2>1. TypeOK'
    BY <1>3, Unchanged DEF vars, TypeOK
  <2>2. Control'
    BY <1>3 DEF vars, options, control, reading, search, channel, writer,
                Control, InFile, At, Item
  <2>3. CandidatesPlaced'
    BY <1>3 DEF vars, control, reading, packing, search,
                CandidatesPlaced, Placed, At
  <2>4. FragmentNumbering'
    BY <1>3 DEF vars, control, packing, channel, writer, layout,
                FragmentNumbering, Pending
  <2>. QED  BY <2>1, <2>2, <2>3, <2>4
<1>. QED  BY <1>1, <1>2, <1>3 DEF Next, Terminated

(* The inductive invariant: types, where the threads are, and what the     *)
(* search of dedup_fragment_index relies on, whatever fails.               *)
THEOREM PathInvariant == Spec => []PathInv
BY InitPathInv, NextPathInv, PTL DEF Spec

(* Type correctness of the data path (sqsh_writer, dirtree_reg,            *)
(* pending_write), with any number of files and any queue bound.           *)
THEOREM TypeCorrect == Spec => []TypeOK
<1>1. PathInv => TypeOK
  BY DEF PathInv
<1>. QED  BY <1>1, PathInvariant, PTL

(* Unless a write has failed, the fragments are published in the order in  *)
(* which put_fragment numbered them: fragment_count and the length of the  *)
(* fragment table never disagree about which fragment is which.            *)
THEOREM FragmentsInOrder == Spec => []FragmentNumbering
<1>1. PathInv => FragmentNumbering
  BY DEF PathInv
<1>. QED  BY <1>1, PathInvariant, PTL

(* get_fragment_entry never waits for a fragment that no one will write:   *)
(* as long as no write has failed, what it waits for is pending.           *)
THEOREM AwaitedFragments == Spec => []AwaitedIsPending
<1>1. PathInv => AwaitedIsPending
  <2>. SUFFICES ASSUME PathInv, pc = "lookup", candidates # <<>>, ~writer_failed,
                       Candidate.fragment # fragment_count,
                       ~(Candidate.fragment < Len(fragments))
                PROVE  \E k \in DOMAIN Pending :
                         MakesEntry(Pending[k], 0, Candidate.fragment)
    BY DEF AwaitedIsPending
  <2>1. 1 \in DOMAIN candidates /\ Head(candidates) = candidates[1]
    <3>1. DOMAIN candidates = 1 .. Len(candidates) /\ Len(candidates) \in Nat \ {0}
      BY EmptySeq, LenProperties DEF PathInv, TypeOK, SearchOK
    <3>. QED  BY <3>1
  <2>2. Candidate.fragment \in 0 .. fragment_count
    BY <2>1 DEF PathInv, CandidatesPlaced, Placed, Candidate
  <2>3. Candidate.fragment \in Len(fragments) .. fragment_count - 1
    BY <2>2, LenProperties DEF PathInv, TypeOK, PackingOK, LayoutOK
  <2>4. Numbered(Pending, 0, Len(fragments), fragment_count)
    BY DEF PathInv, FragmentNumbering
  <2>. QED  BY <2>3, <2>4 DEF Numbered
<1>. QED  BY <1>1, PathInvariant, PTL

-----------------------------------------------------------------------------
(* What a step does to the items that are pending.                         *)

\* more is items with one more at the end.
Appends(items, item, more) ==
  /\ items \in Seq(Items) /\ item \in Items /\ more = items \o <<item>>
  /\ Len(items) \in Nat
  /\ DOMAIN items = 1 .. Len(items) /\ DOMAIN more = 1 .. Len(items) + 1
  /\ \A k \in DOMAIN items : more[k] = items[k]
  /\ more[Len(items) + 1] = item

\* items is item in front of rest.
Begins(items, item, rest) ==
  /\ rest \in Seq(Items) /\ item \in Items /\ items = <<item>> \o rest
  /\ Len(rest) \in Nat
  /\ DOMAIN rest = 1 .. Len(rest) /\ DOMAIN items = 1 .. Len(rest) + 1
  /\ \A k \in DOMAIN rest : items[k + 1] = rest[k]
  /\ items[1] = item

LEMMA AppendsOne ==
  ASSUME NEW items \in Seq(Items), NEW item \in Items
  PROVE  Appends(items, item, items \o <<item>>)
<1>1. <<item>> \in Seq(Items) /\ Len(<<item>>) = 1 /\ <<item>>[1] = item
  OBVIOUS
<1>2. Len(items) \in Nat
  BY LenProperties
<1>3. /\ DOMAIN items = 1 .. Len(items)
      /\ DOMAIN (items \o <<item>>) = 1 .. Len(items) + 1
      /\ \A k \in 1 .. Len(items) + 1 :
           (items \o <<item>>)[k] = IF k <= Len(items) THEN items[k] ELSE item
  BY <1>1, <1>2, ConcatProperties, LenProperties
<1>. QED  BY <1>2, <1>3 DEF Appends

LEMMA BeginsWith ==
  ASSUME NEW rest \in Seq(Items), NEW item \in Items
  PROVE  Begins(<<item>> \o rest, item, rest)
<1>1. <<item>> \in Seq(Items) /\ Len(<<item>>) = 1 /\ <<item>>[1] = item
  OBVIOUS
<1>2. Len(rest) \in Nat
  BY LenProperties
<1>3. /\ DOMAIN rest = 1 .. Len(rest)
      /\ DOMAIN (<<item>> \o rest) = 1 .. Len(rest) + 1
      /\ \A k \in 1 .. Len(rest) + 1 :
           (<<item>> \o rest)[k] = IF k = 1 THEN item ELSE rest[k - 1]
  BY <1>1, <1>2, ConcatProperties, LenProperties
<1>. QED  BY <1>2, <1>3 DEF Begins

LEMMA PendingTypeNext ==
  ASSUME TypeOK, TypeOK', UNCHANGED options
  PROVE  Pending' \in Seq(Items)
<1>1. held' \in Seq(Items) /\ queue' \in Seq(Items) /\ pushing' \in Seq(Items)
  BY Unchanged DEF TypeOK, WriterOK, ChannelOK, ControlOK
<1>. QED  BY <1>1, ConcatProperties DEF Pending

\* The client has an item for the queue.
LEMMA PendingQueued ==
  ASSUME TypeOK, Control, pc # "push", NEW item \in Items, NEW next,
         Enqueue(item, next), UNCHANGED <<held, queue>>
  PROVE  Pending' = Pending \/ Appends(Pending, item, Pending')
<1>1. pushing = <<>>
  BY DEF Control
<1>2. CASE writer_failed
  BY <1>2 DEF Enqueue, Pending
<1>3. CASE ~writer_failed
  <2>1. pushing' = <<item>>
    BY <1>3 DEF Enqueue
  <2>2. held \o queue \in Seq(Items) /\ Pending \in Seq(Items)
    BY PendingType
  <2>3. Pending = held \o queue /\ Pending' = (held \o queue) \o <<item>>
    BY <1>1, <2>1, <2>2, ConcatEmptySeq DEF Pending
  <2>4. Pending' = Pending \o <<item>>
    BY <2>3
  <2>5. Appends(Pending, item, Pending \o <<item>>)
    BY <2>2, AppendsOne
  <2>. QED  BY <2>4, <2>5
<1>. QED  BY <1>2, <1>3

\* The writer has an item.
LEMMA PendingHead ==
  ASSUME TypeOK, Control, wpc \in {"write", "report"}
  PROVE  Begins(Pending, Item, queue \o pushing)
<1>1. held = <<Item>> /\ Item \in Items
  BY ItemType
<1>2. queue \in Seq(Items) /\ pushing \in Seq(Items) /\ held \in Seq(Items)
  BY PendingType
<1>3. queue \o pushing \in Seq(Items)
  BY <1>2, ConcatProperties
<1>4. (held \o queue) \o pushing = held \o (queue \o pushing)
  BY <1>2, ConcatAssociative
<1>5. Pending = <<Item>> \o (queue \o pushing)
  BY <1>1, <1>4 DEF Pending
<1>. QED  BY <1>1, <1>3, <1>5, BeginsWith

\* The writer is done with it.
LEMMA PendingHandled ==
  ASSUME TypeOK, Control, wpc \in {"write", "report"}, held' = <<>>,
         UNCHANGED <<queue, pushing>>
  PROVE  Begins(Pending, Item, Pending')
<1>1. queue \in Seq(Items)
  BY PendingType
<1>2. Pending' = queue \o pushing
  BY <1>1, ConcatEmptySeq DEF Pending
<1>. QED  BY <1>2, PendingHead

\* It takes one from the queue.
LEMMA PendingTaken ==
  ASSUME TypeOK, Control, Take
  PROVE  Pending' = Pending
<1>1. /\ held = <<>> /\ queue # <<>> /\ held' = <<Head(queue)>>
      /\ queue' = Tail(queue) /\ pushing' = pushing
  BY DEF Take, Control, control
<1>2. queue \in Seq(Items)
  BY PendingType
<1>3. held' \o queue' = queue
  BY <1>1, <1>2, HeadAndTail
<1>4. held \o queue = queue
  BY <1>1, <1>2, ConcatEmptySeq
<1>. QED  BY <1>1, <1>3, <1>4 DEF Pending

\* The item the client has gets into the queue, or into its own hands.
LEMMA PendingMoved ==
  ASSUME TypeOK, Control, Push \/ CallHandleWrite
  PROVE  Pending' = Pending
<1>1. /\ held \in Seq(Items) /\ queue \in Seq(Items) /\ pushing \in Seq(Items)
      /\ queue \o pushing \in Seq(Items)
      /\ held \o (queue \o pushing) \in Seq(Items)
  BY PendingType, ConcatProperties
<1>2. held \o (queue \o pushing) = (held \o queue) \o pushing
  <2>1. PICK a, b, c : a = held /\ b = queue /\ c = pushing
    OBVIOUS
  <2>2. a \in Seq(Items) /\ b \in Seq(Items) /\ c \in Seq(Items)
    BY ONLY <1>1, <2>1
  <2>3. (a \o b) \o c = a \o (b \o c)
    BY ONLY <2>2, ConcatAssociative
  <2>. QED  BY ONLY <2>1, <2>3
<1>3. CASE Push
  <2>1. Pending' = (held \o (queue \o pushing)) \o <<>>
    BY <1>3 DEF Push, Pending, writer
  <2>2. (held \o (queue \o pushing)) \o <<>> = held \o (queue \o pushing)
    BY <1>1, ConcatEmptySeq
  <2>. QED  BY <1>2, <2>1, <2>2 DEF Pending
<1>4. CASE CallHandleWrite
  <2>1. /\ queue = <<>> /\ queue' = queue /\ held = <<>>
        /\ held' = pushing /\ pushing' = <<>>
    BY <1>4 DEF CallHandleWrite, Control, channel
  <2>2. Pending = pushing
    BY <1>1, <2>1, ConcatEmptySeq DEF Pending
  <2>3. Pending' = pushing
    BY <1>1, <2>1, ConcatEmptySeq DEF Pending
  <2>. QED  BY <2>2, <2>3
<1>. QED  BY <1>3, <1>4

-----------------------------------------------------------------------------
(* Lemmas about the order of items.                                        *)

LEMMA InOrderAppend ==
  ASSUME NEW items, NEW item, NEW more, Appends(items, item, more),
         InOrder(items),
         \A k \in DOMAIN items : items[k].inode <= item.inode,
         item.kind # "fragment" =>
           \A k \in DOMAIN items : MayPrecede(items[k], item.inode)
  PROVE  InOrder(more)
<1>. SUFFICES ASSUME NEW k \in DOMAIN more, NEW l \in DOMAIN more, k < l
              PROVE  /\ more[k].inode <= more[l].inode
                     /\ more[l].kind # "fragment" =>
                          MayPrecede(more[k], more[l].inode)
  BY DEF InOrder
<1>1. k \in DOMAIN items /\ more[k] = items[k]
  BY DEF Appends
<1>2. CASE l \in DOMAIN items
  BY <1>1, <1>2 DEF Appends, InOrder
<1>3. CASE l \notin DOMAIN items
  <2>1. more[l] = item
    BY <1>3 DEF Appends
  <2>. QED  BY <1>1, <2>1
<1>. QED  BY <1>2, <1>3

LEMMA InOrderRest ==
  ASSUME NEW items, NEW item, NEW rest, Begins(items, item, rest),
         InOrder(items)
  PROVE  /\ InOrder(rest)
         /\ \A k \in DOMAIN rest :
              /\ item.inode <= rest[k].inode
              /\ rest[k].kind # "fragment" => MayPrecede(item, rest[k].inode)
<1>1. \A k \in DOMAIN rest : k + 1 \in DOMAIN items /\ items[k + 1] = rest[k]
  BY DEF Begins
<1>2. 1 \in DOMAIN items /\ items[1] = item
  BY DEF Begins
<1>3. ASSUME NEW k \in DOMAIN rest, NEW l \in DOMAIN rest, k < l
      PROVE  /\ rest[k].inode <= rest[l].inode
             /\ rest[l].kind # "fragment" => MayPrecede(rest[k], rest[l].inode)
  <2>1. k + 1 < l + 1
    BY <1>3 DEF Begins
  <2>. QED  BY <1>1, <1>3, <2>1 DEF InOrder
<1>4. ASSUME NEW k \in DOMAIN rest
      PROVE  /\ item.inode <= rest[k].inode
             /\ rest[k].kind # "fragment" => MayPrecede(item, rest[k].inode)
  <2>1. 1 < k + 1
    BY DEF Begins
  <2>. QED  BY <1>1, <1>2, <1>4, <2>1 DEF InOrder
<1>. QED  BY <1>3, <1>4 DEF InOrder

LEMMA PendingItems ==
  ASSUME TypeOK
  PROVE  /\ DOMAIN Pending = 1 .. Len(Pending) /\ Len(Pending) \in Nat
         /\ \A k \in DOMAIN Pending :
              /\ Pending[k] \in Items /\ Pending[k].inode \in Nat
              /\ Pending[k].kind # "fragment" => Pending[k].inode \in Inodes
<1>1. Pending \in Seq(Items)
  BY PendingType
<1>2. DOMAIN Pending = 1 .. Len(Pending) /\ Len(Pending) \in Nat
  BY <1>1, LenProperties
<1>3. ASSUME NEW k \in DOMAIN Pending
      PROVE  /\ Pending[k] \in Items /\ Pending[k].inode \in Nat
             /\ Pending[k].kind # "fragment" => Pending[k].inode \in Inodes
  <2>1. Pending[k] \in Items
    BY <1>1, <1>2, ElementOfSeq
  <2>. QED  BY <2>1 DEF Items, Inodes
<1>. QED  BY <1>2, <1>3

(* A file with blocks in the image that is still open is the one whose     *)
(* item is in hand, and if that is the last of its items, none is open.    *)
LEMMA OpenIsHead ==
  ASSUME TypeOK, Control, Ordered, wpc \in {"write", "report"},
         NEW i \in Inodes, Open(i), reports[i] # NoReport
  PROVE  i = Item.inode /\ Item.kind # "fragment"
<1>. DEFINE rest == queue \o pushing
<1>1. Begins(Pending, Item, rest)
  BY PendingHead
<1>. HIDE DEF rest
<1>2. \A k \in DOMAIN rest :
        rest[k].kind # "fragment" => MayPrecede(Item, rest[k].inode)
  BY <1>1, InOrderRest DEF Ordered, QueueInOrder
<1>3. 1 \in DOMAIN Pending /\ Pending[1] = Item
  BY <1>1 DEF Begins
<1>4. Item.inode >= i
  BY <1>3 DEF Ordered, ReportsInOrder
<1>5. ASSUME MayPrecede(Item, i) PROVE i = Item.inode /\ Item.kind = "block"
  <2>1. Item.inode \in Nat
    BY <1>3, PendingItems
  <2>. QED  BY <1>4, <1>5, <2>1 DEF MayPrecede, Inodes
<1>6. CASE OpenIn(Pending, i)
  <2>1. PICK k \in DOMAIN Pending : Pending[k].kind # "fragment" /\ Pending[k].inode = i
    BY <1>6 DEF OpenIn
  <2>2. CASE k = 1
    BY <1>3, <2>1, <2>2
  <2>3. CASE k # 1
    <3>1. k - 1 \in DOMAIN rest /\ Pending[k] = rest[k - 1]
      <4>1. k - 1 \in DOMAIN rest /\ k - 1 + 1 = k
        BY <1>1, <2>3 DEF Begins
      <4>. QED  BY <1>1, <4>1 DEF Begins
    <3>2. MayPrecede(Item, i)
      BY <1>2, <2>1, <3>1
    <3>. QED  BY <1>5, <3>2
  <2>. QED  BY <2>2, <2>3
<1>7. CASE BlocksToCome /\ i = inode
  <2>1. MayPrecede(Item, i)
    BY <1>3, <1>7 DEF Ordered, QueueInOrder
  <2>. QED  BY <1>5, <2>1
<1>. QED  BY <1>6, <1>7 DEF Open

LEMMA HeadIsOpen ==
  ASSUME TypeOK, Control, wpc \in {"write", "report"},
         Item.kind # "fragment", NEW i \in Inodes, i = Item.inode
  PROVE  Open(i)
<1>1. 1 \in DOMAIN Pending /\ Pending[1] = Item
  BY PendingHead DEF Begins
<1>. QED  BY <1>1 DEF Open, OpenIn

LEMMA DedupCloses ==
  ASSUME TypeOK, Control, Ordered, wpc \in {"write", "report"},
         Item.kind = "dedup"
  PROVE  /\ ~OpenIn(queue \o pushing, Item.inode)
         /\ ~(BlocksToCome /\ Item.inode = inode)
<1>. DEFINE rest == queue \o pushing
<1>1. Begins(Pending, Item, rest)
  BY PendingHead
<1>2. \A k \in DOMAIN rest :
        rest[k].kind # "fragment" => MayPrecede(Item, rest[k].inode)
  BY <1>1, InOrderRest DEF Ordered, QueueInOrder
<1>3. 1 \in DOMAIN Pending /\ Pending[1] = Item
  BY <1>1 DEF Begins
<1>4. ~MayPrecede(Item, Item.inode)
  <2>1. Item.inode \in Nat
    BY <1>3, PendingItems
  <2>. QED  BY <2>1 DEF MayPrecede
<1>5. ~OpenIn(rest, Item.inode)
  BY <1>2, <1>4 DEF OpenIn
<1>6. ~(BlocksToCome /\ Item.inode = inode)
  BY <1>3, <1>4 DEF Ordered, QueueInOrder
<1>. QED  BY <1>5, <1>6

-----------------------------------------------------------------------------
(* The client's steps keep the order.                                      *)

\* The client reports nothing and writes nothing.
LEMMA ReportsClient ==
  ASSUME TypeOK, TypeOK', Ordered,
         UNCHANGED <<options, layout, disk, tell>>,
         wpc' = "report" <=> wpc = "report", wpc = "report" => held' = held,
         inode' >= inode,
         \A i \in Inodes : Open(i)' => Open(i) \/ i > inode,
         \A k \in DOMAIN Pending' :
           \/ \E l \in DOMAIN Pending : Pending'[k] = Pending[l]
           \/ Pending'[k].inode >= inode
  PROVE  ReportsInOrder' /\ BlocksLast'
<1>1. /\ UNCHANGED <<reports, blocked_duplicates, fragments, pos, stream>>
      /\ Inodes' = Inodes
  BY Unchanged DEF layout, disk
<1>2. inode \in Nat /\ inode' \in Nat /\ Inodes \subseteq Nat
  BY DEF TypeOK, ReadingOK, Inodes
<1>3. ASSUME NEW i \in Inodes, Open(i)', reports[i] # NoReport PROVE Open(i) /\ i <= inode
  BY <1>2, <1>3 DEF Ordered, ReportsInOrder
<1>4. ReportsInOrder'
  <2>1. \A i \in Inodes : i > inode' => reports[i] = NoReport
    <3>1. \A i \in Inodes : i > inode => reports[i] = NoReport
      BY DEF Ordered, ReportsInOrder
    <3>2. \A i \in Inodes : i > inode' => i > inode
      BY <1>2
    <3>. QED  BY <3>1, <3>2
  <2>2. ASSUME NEW i \in Inodes, Open(i)', reports[i] # NoReport,
               NEW k \in DOMAIN Pending'
        PROVE  Pending'[k].inode >= i
    <3>1. Open(i) /\ i <= inode
      BY <1>3, <2>2
    <3>2. CASE \E l \in DOMAIN Pending : Pending'[k] = Pending[l]
      BY <2>2, <3>1, <3>2 DEF Ordered, ReportsInOrder
    <3>3. CASE Pending'[k].inode >= inode
      <4>1. Pending'[k].inode \in Nat
        <5>1. Pending' \in Seq(Items)
          BY PendingTypeNext
        <5>2. Pending'[k] \in Items
          BY <5>1, LenProperties, ElementOfSeq
        <5>. QED  BY <5>2 DEF Items, Inodes
      <4>. QED  BY <1>2, <3>1, <3>3, <4>1
    <3>. QED  BY <3>2, <3>3
  <2>3. ASSUME NEW k \in DOMAIN blocked_duplicates, NEW j \in Inodes,
               j = blocked_duplicates[k]
        PROVE  j <= inode' /\ ~Open(j)'
    <3>1. j <= inode /\ ~Open(j)
      BY <2>3 DEF Ordered, ReportsInOrder
    <3>2. ~(j > inode) /\ j <= inode'
      BY <1>2, <3>1
    <3>. QED  BY <3>1, <3>2
  <2>4. \A i \in Inodes : reports[i].sizes = <<>> => reports[i] = NoReport
    BY DEF Ordered, ReportsInOrder
  <2>5. ASSUME NEW k \in DOMAIN blocked_duplicates'
        PROVE  blocked_duplicates'[k] <= inode' /\ ~Open(blocked_duplicates[k])'
    <3>1. PICK j \in Inodes : j = blocked_duplicates[k]
      BY <1>1, <2>5, ElementOfSeq, LenProperties DEF TypeOK, LayoutOK
    <3>2. j <= inode' /\ ~Open(j)'
      BY <1>1, <2>3, <2>5, <3>1
    <3>3. j = blocked_duplicates'[k]
      BY <1>1, <3>1
    <3>. QED  BY <3>2, <3>3 DEF Open, OpenIn
  <2>. QED  BY <1>1, <2>1, <2>2, <2>4, <2>5 DEF ReportsInOrder
<1>5. BlocksLast'
  <2>1. End' = End
    BY <1>1 DEF End
  <2>2. wpc' = "report" => wpc = "report" /\ SizeWord' = SizeWord
    BY DEF SizeWord, Item
  <2>3. \A i \in Inodes : Open(i)' /\ reports[i] # NoReport => Open(i)
    BY <1>3
  <2>. QED  BY <1>1, <2>1, <2>2, <2>3 DEF Ordered, BlocksLast, EndOf
<1>. QED  BY <1>4, <1>5

\* A step of the client that queues nothing.
LEMMA OrderKept ==
  ASSUME TypeOK, TypeOK', Ordered,
         UNCHANGED <<options, layout, disk, tell>>,
         wpc' = "report" <=> wpc = "report", wpc = "report" => held' = held,
         Pending' = Pending,
         \/ inode' = inode /\ (BlocksToCome' => BlocksToCome)
         \/ inode' > inode /\ BeforeFinish,
         BeforeFinish' => BeforeFinish
  PROVE  QueueInOrder' /\ ReportsInOrder' /\ BlocksLast'
<1>1. inode \in Nat /\ inode' \in Nat
  BY DEF TypeOK, ReadingOK
<1>2. \A k \in DOMAIN Pending : Pending[k].inode \in Nat
  BY PendingItems
<1>3. QueueInOrder'
  <2>1. BlocksToCome' => \A k \in DOMAIN Pending : MayPrecede(Pending[k], inode')
    <3>1. CASE inode' > inode /\ BeforeFinish
      BY <1>1, <1>2, <3>1 DEF Ordered, QueueInOrder, MayPrecede
    <3>2. CASE inode' = inode
      BY <3>2, <1>1 DEF Ordered, QueueInOrder
    <3>. QED  BY <3>1, <3>2
  <2>2. \A k \in DOMAIN Pending :
          /\ Pending[k].inode <= inode' + 1
          /\ BeforeFinish' \/ Pending[k].kind # "fragment" =>
               Pending[k].inode <= inode'
    BY <1>1, <1>2 DEF Ordered, QueueInOrder
  <2>3. InOrder(Pending)
    BY DEF Ordered, QueueInOrder
  <2>. QED  BY <2>1, <2>2, <2>3 DEF QueueInOrder
<1>4. ASSUME NEW i \in Inodes, Open(i)' PROVE Open(i) \/ i > inode
  BY <1>1, <1>4 DEF Open, OpenIn
<1>5. \A k \in DOMAIN Pending' : \E l \in DOMAIN Pending : Pending'[k] = Pending[l]
  OBVIOUS
<1>6. inode' >= inode
  BY <1>1
<1>7. ReportsInOrder' /\ BlocksLast'
  BY <1>4, <1>5, <1>6, ReportsClient
<1>. QED  BY <1>3, <1>7

\* A step of the client that queues an item.
LEMMA OrderQueued ==
  ASSUME TypeOK, TypeOK', Ordered,
         UNCHANGED <<options, layout, disk, writer, inode>>,
         NEW item \in Items, Appends(Pending, item, Pending'),
         item.kind # "fragment" => BlocksToCome /\ item.inode = inode,
         BlocksToCome' => BlocksToCome /\ item.kind = "block",
         (item.inode = inode /\ BeforeFinish) \/ item.inode = inode + 1,
         BeforeFinish' => BeforeFinish /\ item.inode = inode
  PROVE  QueueInOrder' /\ ReportsInOrder' /\ BlocksLast'
<1>1. inode \in Nat /\ inode' = inode
  BY DEF TypeOK, ReadingOK
<1>2. \A k \in DOMAIN Pending' : Pending'[k] = item \/
        (k \in DOMAIN Pending /\ Pending'[k] = Pending[k])
  BY DEF Appends
<1>3. QueueInOrder'
  <2>1. InOrder(Pending')
    <3>1. \A k \in DOMAIN Pending : Pending[k].inode <= item.inode
      BY <1>1 DEF Ordered, QueueInOrder
    <3>. QED  BY <3>1, InOrderAppend DEF Ordered, QueueInOrder
  <2>2. BlocksToCome' => \A k \in DOMAIN Pending' : MayPrecede(Pending'[k], inode)
    BY <1>2 DEF Ordered, QueueInOrder, MayPrecede
  <2>3. \A k \in DOMAIN Pending' :
          /\ Pending'[k].inode <= inode + 1
          /\ BeforeFinish' \/ Pending'[k].kind # "fragment" =>
               Pending'[k].inode <= inode
    BY <1>1, <1>2 DEF Ordered, QueueInOrder
  <2>. QED  BY <1>1, <2>1, <2>2, <2>3 DEF QueueInOrder
<1>4. ASSUME NEW i \in Inodes, Open(i)' PROVE Open(i)
  <2>1. CASE BlocksToCome' /\ i = inode
    BY <2>1 DEF Open
  <2>2. CASE OpenIn(Pending', i)
    <3>1. PICK k \in DOMAIN Pending' : Pending'[k].kind # "fragment" /\ Pending'[k].inode = i
      BY <2>2 DEF OpenIn
    <3>. QED  BY <1>2, <3>1 DEF Open, OpenIn
  <2>. QED  BY <1>1, <1>4, <2>1, <2>2 DEF Open
<1>5. \A k \in DOMAIN Pending' :
        \/ \E l \in DOMAIN Pending : Pending'[k] = Pending[l]
        \/ Pending'[k].inode >= inode
  BY <1>1, <1>2
<1>6. inode' >= inode /\ UNCHANGED <<wpc, held, tell>>
  BY <1>1 DEF writer
<1>7. ReportsInOrder' /\ BlocksLast'
  BY <1>4, <1>5, <1>6, ReportsClient
<1>. QED  BY <1>3, <1>7

\* A chunk is what the file begins with: a block, or all that is left.
LEMMA ChunkRead ==
  ASSUME TypeOK, ReadChunk
  PROVE  /\ current_block' # <<>> /\ unread = current_block' \o unread'
         /\ Len(current_block') < BlockSize => unread' = <<>>
<1>. DEFINE n == Min({BlockSize, Len(unread)})
<1>1. /\ Len(unread) \in Nat \ {0} /\ BlockSize \in Nat \ {0}
      /\ unread \in Seq(Byte)
  BY BlockSizeAssumption, LenProperties, EmptySeq DEF TypeOK, ReadingOK, ReadChunk
<1>2. n = IF BlockSize <= Len(unread) THEN BlockSize ELSE Len(unread)
  BY <1>1, MinOfTwo
<1>3. /\ current_block' = SubSeq(unread, 1, n)
      /\ unread' = SubSeq(unread, n + 1, Len(unread))
  BY DEF ReadChunk
<1>. HIDE DEF n
<1>4. n \in Nat \ {0} /\ n <= Len(unread)
  BY <1>1, <1>2
<1>5. Len(current_block') = n
  <2>1. \A i \in 1 .. n : unread[i] \in Byte
    BY <1>1, <1>4, ElementOfSeq
  <2>2. Len(SubSeq(unread, 1, n)) = IF 1 <= n THEN n - 1 + 1 ELSE 0
    BY <1>4, <2>1, SubSeqProperties
  <2>. QED  BY <1>3, <1>4, <2>2
<1>6. n < BlockSize => unread' = <<>>
  <2>. SUFFICES ASSUME n < BlockSize PROVE unread' = <<>>
    OBVIOUS
  <2>1. n = Len(unread)
    BY <1>1, <1>2
  <2>2. SubSeq(unread, n + 1, n) = <<>>
    BY <1>4, SubSeqEmpty
  <2>. QED  BY <1>3, <2>1, <2>2
<1>7. unread = current_block' \o unread'
  <2>1. SubSeq(unread, 1, n) \o SubSeq(unread, n + 1, Len(unread))
          = SubSeq(unread, 1, Len(unread))
    <3>1. /\ 1 \in 1 .. Len(unread) + 1 /\ n \in 1 - 1 .. Len(unread)
          /\ Len(unread) \in n .. Len(unread)
      BY <1>1, <1>4
    <3>. QED  BY <1>1, <3>1, ConcatAdjacentSubSeq
  <2>2. SubSeq(unread, 1, Len(unread)) = unread
    BY <1>1, SubSeqFull
  <2>. QED  BY <1>3, <2>1, <2>2
<1>8. current_block' # <<>>
  <2>1. Len(current_block') # 0
    BY <1>4, <1>5
  <2>. QED  BY <2>1, EmptySeq
<1>. QED  BY <1>5, <1>6, <1>7, <1>8

LEMMA ChunksClient ==
  ASSUME TypeOK, Control, ChunksInOrder, Client \/ ArchiveFails
  PROVE  ChunksInOrder'
<1>. USE DEF ChunksInOrder, At
<1>1. CASE ReadChunk
  BY <1>1, ChunkRead DEF ReadChunk
<1>2. CASE Push
  BY <1>2 DEF Push, reading, TypeOK, ControlOK
<1>3. CASE CallHandleWrite
  BY <1>3 DEF CallHandleWrite, reading, Control
<1>4. CASE NextFile
  BY <1>4 DEF NextFile
<1>5. CASE FlushBlock
  BY <1>5 DEF FlushBlock, Enqueue
<1>6. CASE Finalize
  BY <1>6 DEF Finalize, Enqueue, reading
<1>7. CASE ArchiveFails
  BY <1>7 DEF ArchiveFails, reading
<1>8. CASE PutFragment
  BY <1>8 DEF PutFragment, Small, reading
<1>9. CASE CompareCurrent
  BY <1>9 DEF CompareCurrent, Compare
<1>10. CASE GetFragmentEntry
  BY <1>10 DEF GetFragmentEntry, reading
<1>11. CASE CompareStored
  BY <1>11 DEF CompareStored, Compare
<1>12. CASE NoDuplicate
  BY <1>12 DEF NoDuplicate, reading
<1>13. CASE FlushFragment
  BY <1>13 DEF FlushFragment, Enqueue, reading
<1>14. CASE Insert
  BY <1>14 DEF Insert
<1>15. CASE FinishQueue
  BY <1>15 DEF FinishQueue, reading
<1>16. CASE Join
  BY <1>16 DEF Join, reading
<1>. QED
  BY <1>1, <1>2, <1>3, <1>4, <1>5, <1>6, <1>7, <1>8, <1>9, <1>10, <1>11,
     <1>12, <1>13, <1>14, <1>15, <1>16 DEF Client

LEMMA OrderedClient ==
  ASSUME TypeOK, TypeOK', Control, Ordered, Client \/ ArchiveFails
  PROVE  Ordered'
<1>. DEFINE Goal == QueueInOrder' /\ ReportsInOrder' /\ BlocksLast'
<1>1. ChunksInOrder'
  BY ChunksClient DEF Ordered
<1>. SUFFICES Goal
  BY <1>1 DEF Ordered
<1>. HIDE DEF Goal
<1>2. UNCHANGED <<options, layout, disk, tell>>
  BY DEF Client, ArchiveFails, Push, CallHandleWrite, NextFile, ReadChunk,
         FlushBlock, Finalize, PutFragment, CompareCurrent, GetFragmentEntry,
         CompareStored, NoDuplicate, FlushFragment, Insert, FinishQueue, Join,
         writer
<1>3. /\ wpc' = "report" <=> wpc = "report"
      /\ wpc = "report" => held' = held
  BY DEF Client, ArchiveFails, Push, CallHandleWrite, NextFile, ReadChunk,
         FlushBlock, Finalize, PutFragment, CompareCurrent, GetFragmentEntry,
         CompareStored, NoDuplicate, FlushFragment, Insert, FinishQueue, Join,
         writer, Control
<1>4. inode \in Nat
  BY DEF TypeOK, ReadingOK
<1>5. ASSUME Pending' = Pending,
             \/ inode' = inode /\ (BlocksToCome' => BlocksToCome)
             \/ inode' > inode /\ BeforeFinish,
             BeforeFinish' => BeforeFinish
      PROVE  Goal
  BY <1>2, <1>3, <1>5, OrderKept DEF Goal
<1>6. CASE Push
  <2>1. resume \in {"next", "read", "place", "finish"}
    BY DEF TypeOK, ControlOK
  <2>2. /\ inode' = inode /\ (BlocksToCome' => BlocksToCome)
        /\ BeforeFinish' => BeforeFinish
    BY <1>6, <2>1 DEF Push, reading, BlocksToCome, BeforeFinish, At
  <2>. QED  BY <1>5, <1>6, <2>2, PendingMoved
<1>7. CASE CallHandleWrite
  <2>1. /\ inode' = inode /\ (BlocksToCome' => BlocksToCome)
        /\ BeforeFinish' => BeforeFinish
    BY <1>7 DEF CallHandleWrite, reading, BlocksToCome, BeforeFinish, At
  <2>. QED  BY <1>5, <1>7, <2>1, PendingMoved
<1>8. CASE NextFile
  <2>1. Pending' = Pending
    BY <1>8 DEF NextFile, Pending, channel, writer
  <2>2. BeforeFinish
    BY <1>8 DEF NextFile, BeforeFinish, At
  <2>3. (inode' = inode /\ ~BlocksToCome') \/ inode' > inode
    BY <1>4, <1>8 DEF NextFile, BlocksToCome, At
  <2>. QED  BY <1>5, <2>1, <2>2, <2>3
<1>9. CASE FlushBlock
  <2>1. BlockItem \in Items /\ BlockItem.kind = "block" /\ BlockItem.inode = inode
    BY <1>9, BlockItemType DEF FlushBlock, BlockItem
  <2>2. /\ pc = "flush" /\ Enqueue(BlockItem, "read") /\ inode' = inode
        /\ UNCHANGED <<held, queue, writer>>
    BY <1>9 DEF FlushBlock, writer, channel
  <2>3. BlocksToCome /\ BeforeFinish
    BY <2>2 DEF BlocksToCome, BeforeFinish, At
  <2>4. Pending' = Pending \/ Appends(Pending, BlockItem, Pending')
    BY <2>1, <2>2, PendingQueued
  <2>5. CASE Pending' = Pending
    BY <1>5, <2>2, <2>3, <2>5
  <2>6. CASE Appends(Pending, BlockItem, Pending')
    BY <1>2, <1>4, <2>1, <2>2, <2>3, <2>6, OrderQueued DEF Goal
  <2>. QED  BY <2>4, <2>5, <2>6
<1>10. CASE Finalize
  <2>1. inode' = inode /\ pc = "read" /\ unread = <<>> /\ ~BlocksToCome'
        /\ UNCHANGED <<held, queue, writer>>
    BY <1>10 DEF Finalize, Enqueue, reading, BlocksToCome, At, writer, channel
  <2>2. BeforeFinish
    BY <2>1 DEF BeforeFinish, At
  <2>3. CASE block_count # 0 /\ dedup_enabled
    <3>1. Enqueue(DedupItem, "next")
      BY <1>10, <2>3 DEF Finalize
    <3>2. DedupItem \in Items /\ DedupItem.kind = "dedup" /\ DedupItem.inode = inode
      BY <2>1, BlockItemType DEF DedupItem
    <3>3. BlocksToCome
      BY <2>1, <2>3 DEF BlocksToCome, At
    <3>4. Pending' = Pending \/ Appends(Pending, DedupItem, Pending')
      BY <2>1, <3>1, <3>2, PendingQueued
    <3>5. CASE Pending' = Pending
      BY <1>5, <2>1, <2>2, <3>5
    <3>6. CASE Appends(Pending, DedupItem, Pending')
      BY <1>2, <1>4, <2>1, <2>2, <3>2, <3>3, <3>6, OrderQueued DEF Goal
    <3>. QED  BY <3>4, <3>5, <3>6
  <2>4. CASE ~(block_count # 0 /\ dedup_enabled)
    <3>1. Pending' = Pending
      BY <1>10, <2>1, <2>4 DEF Finalize, Pending
    <3>. QED  BY <1>5, <2>1, <2>2, <3>1
  <2>. QED  BY <2>3, <2>4
<1>11. CASE FlushFragment
  <2>1. FragmentItem \in Items /\ FragmentItem.kind = "fragment"
    BY FragmentItemType DEF FragmentItem
  <2>2. /\ pc \in {"finish", "place"} /\ Enqueue(FragmentItem, pc) /\ inode' = inode
        /\ UNCHANGED <<held, queue, writer>>
    BY <1>11 DEF FlushFragment, writer, channel, reading
  <2>3. ~BlocksToCome'
    BY <2>2 DEF BlocksToCome, At, Enqueue
  <2>4. FragmentItem.inode = IF pc = "finish" THEN inode + 1 ELSE inode
    BY DEF FragmentItem
  <2>5. BeforeFinish' => BeforeFinish /\ FragmentItem.inode = inode
    BY <2>2, <2>4 DEF BeforeFinish, At, Enqueue
  <2>6. \/ FragmentItem.inode = inode /\ BeforeFinish
        \/ FragmentItem.inode = inode + 1
    BY <2>2, <2>4 DEF BeforeFinish, At
  <2>7. Pending' = Pending \/ Appends(Pending, FragmentItem, Pending')
    BY <2>1, <2>2, PendingQueued
  <2>8. CASE Pending' = Pending
    BY <1>5, <2>2, <2>3, <2>5, <2>8
  <2>9. CASE Appends(Pending, FragmentItem, Pending')
    BY <1>2, <2>1, <2>2, <2>3, <2>5, <2>6, <2>9, OrderQueued DEF Goal
  <2>. QED  BY <2>7, <2>8, <2>9
<1>12. ASSUME UNCHANGED <<held, queue, pushing, inode>>,
              BlocksToCome' => BlocksToCome, BeforeFinish' => BeforeFinish
       PROVE  Goal
  <2>1. Pending' = Pending
    BY <1>12 DEF Pending
  <2>. QED  BY <1>5, <1>12, <2>1
<1>13. CASE ReadChunk
  BY <1>12, <1>13 DEF ReadChunk, channel, writer, BlocksToCome, BeforeFinish, At
<1>14. CASE ArchiveFails
  BY <1>12, <1>14
     DEF ArchiveFails, reading, channel, writer, BlocksToCome, BeforeFinish, At
<1>15. CASE PutFragment
  BY <1>12, <1>15
     DEF PutFragment, reading, channel, writer, BlocksToCome, BeforeFinish, At
<1>16. CASE CompareCurrent \/ CompareStored
  <2>1. /\ UNCHANGED <<held, queue, pushing, inode, unread, block_count>>
        /\ pc \in {"lookup", "compare"} /\ pc' \in {"read", "lookup", "aborted"}
    BY <1>16 DEF CompareCurrent, CompareStored, Compare, channel, writer
  <2>2. unread = <<>> /\ block_count = 0
    BY <2>1 DEF Ordered, ChunksInOrder, At
  <2>3. ~BlocksToCome' /\ BeforeFinish
    BY <2>1, <2>2 DEF BlocksToCome, BeforeFinish, At
  <2>. QED  BY <1>12, <2>1, <2>3
<1>17. CASE GetFragmentEntry
  BY <1>12, <1>17
     DEF GetFragmentEntry, reading, channel, writer, BlocksToCome, BeforeFinish, At
<1>18. CASE NoDuplicate
  BY <1>12, <1>18
     DEF NoDuplicate, reading, channel, writer, BlocksToCome, BeforeFinish, At
<1>19. CASE Insert
  <2>1. /\ UNCHANGED <<held, queue, pushing, inode, unread, block_count>>
        /\ pc = "place" /\ pc' = "read"
    BY <1>19 DEF Insert, channel, writer
  <2>2. unread = <<>> /\ block_count = 0
    BY <2>1 DEF Ordered, ChunksInOrder, At
  <2>3. ~BlocksToCome' /\ BeforeFinish
    BY <2>1, <2>2 DEF BlocksToCome, BeforeFinish, At
  <2>. QED  BY <1>12, <2>1, <2>3
<1>20. CASE FinishQueue \/ Join
  BY <1>12, <1>20
     DEF FinishQueue, Join, reading, channel, writer, BlocksToCome, BeforeFinish, At
<1>. QED
  BY <1>6, <1>7, <1>8, <1>9, <1>10, <1>11, <1>13, <1>14, <1>15, <1>16, <1>17,
     <1>18, <1>19, <1>20 DEF Client

-----------------------------------------------------------------------------
(* The steps of the thread that writes keep the order.                     *)

\* The single-threaded client goes on behind enqueue, or is gone.
LEMMA ClientOfWriter ==
  ASSUME TypeOK, Control, ~Stopped, Writer
  PROVE  /\ UNCHANGED <<options, reading, inode, unread, block_count, current_block>>
         /\ BlocksToCome' => BlocksToCome
         /\ BeforeFinish' => BeforeFinish
         /\ At({"lookup", "compare", "place"}, {"place"})' =>
              At({"lookup", "compare", "place"}, {"place"})
         /\ pc' = "flush" => pc = "flush"
<1>1. UNCHANGED <<options, resume, reading>>
  BY DEF Writer, Take, Exit, WriteBytes, WriteIsLost, ReportFragment,
         ReportBlock, KeepBlocks, DropBlocks, HandleThrows, control
<1>2. pc' = pc \/ pc' = "aborted" \/ (pc = "handle" /\ pc' = resume)
  BY DEF Writer, Take, Exit, WriteBytes, WriteIsLost, ReportFragment,
         ReportBlock, KeepBlocks, DropBlocks, HandleThrows, Handled, control,
         Control
<1>3. resume \in {"next", "read", "place", "finish"}
  BY DEF TypeOK, ControlOK
<1>4. UNCHANGED <<inode, unread, block_count, current_block>>
  BY <1>1 DEF reading
<1>5. CASE pc' = pc
  BY <1>1, <1>4, <1>5 DEF BlocksToCome, BeforeFinish, At
<1>6. CASE pc' = "aborted"
  BY <1>1, <1>4, <1>6 DEF BlocksToCome, BeforeFinish, At
<1>7. CASE pc = "handle" /\ pc' = resume
  BY <1>1, <1>3, <1>4, <1>7 DEF BlocksToCome, BeforeFinish, At
<1>. QED  BY <1>2, <1>5, <1>6, <1>7

\* What is pending when the item in hand is done with.
LEMMA OrderHandled ==
  ASSUME TypeOK, Control, Ordered, ~Stopped, Writer,
         wpc \in {"write", "report"}, held' = <<>>, UNCHANGED <<queue, pushing>>
  PROVE  /\ QueueInOrder'
         /\ \A k \in DOMAIN Pending' :
              \E l \in DOMAIN Pending : Pending'[k] = Pending[l]
         /\ \A i \in Inodes : Open(i)' => Open(i)
         /\ \A i \in Inodes :
              Item.kind = "dedup" /\ i = Item.inode => ~Open(i)'
<1>1. Begins(Pending, Item, Pending')
  BY PendingHandled
<1>2. \A k \in DOMAIN Pending' :
        k + 1 \in DOMAIN Pending /\ Pending'[k] = Pending[k + 1]
  BY <1>1 DEF Begins
<1>3. /\ inode' = inode
      /\ BlocksToCome' => BlocksToCome
      /\ BeforeFinish' => BeforeFinish
  BY ClientOfWriter
<1>4. InOrder(Pending')
  BY <1>1, InOrderRest DEF Ordered, QueueInOrder
<1>5. QueueInOrder'
  BY <1>2, <1>3, <1>4 DEF Ordered, QueueInOrder
<1>6. ASSUME NEW i \in Inodes, Open(i)' PROVE Open(i)
  <2>1. CASE OpenIn(Pending', i)
    BY <1>2, <2>1 DEF Open, OpenIn
  <2>2. CASE BlocksToCome' /\ i = inode'
    BY <1>3, <2>2 DEF Open
  <2>. QED  BY <1>6, <2>1, <2>2 DEF Open
<1>7. ASSUME NEW i \in Inodes, Item.kind = "dedup", i = Item.inode
      PROVE  ~Open(i)'
  <2>1. ~OpenIn(queue \o pushing, i) /\ ~(BlocksToCome /\ i = inode)
    BY <1>7, DedupCloses
  <2>2. Pending' = queue \o pushing
    BY PendingType, ConcatEmptySeq DEF Pending
  <2>3. ~OpenIn(Pending', i)
    BY <2>1, <2>2
  <2>. QED  BY <1>3, <2>1, <2>3 DEF Open, OpenIn
<1>. QED  BY <1>2, <1>5, <1>6, <1>7

\* A step that reports nothing and keeps the item in hand.
LEMMA OrderUnreported ==
  ASSUME TypeOK, TypeOK', Control, Ordered, ~Stopped, Writer,
         Pending' = Pending, UNCHANGED layout
  PROVE  QueueInOrder' /\ ReportsInOrder' /\ \A i \in Inodes : Open(i)' => Open(i)
<1>1. /\ inode' = inode /\ Inodes' = Inodes
      /\ BlocksToCome' => BlocksToCome
      /\ BeforeFinish' => BeforeFinish
  BY ClientOfWriter, Unchanged
<1>2. QueueInOrder'
  BY <1>1 DEF Ordered, QueueInOrder
<1>3. ASSUME NEW i \in Inodes, Open(i)' PROVE Open(i)
  BY <1>1, <1>3 DEF Open, OpenIn
<1>4. UNCHANGED <<reports, blocked_duplicates>>
  BY DEF layout
<1>5. ASSUME NEW k \in DOMAIN blocked_duplicates'
      PROVE  blocked_duplicates'[k] <= inode' /\ ~Open(blocked_duplicates[k])'
  <2>1. PICK j \in Inodes : j = blocked_duplicates[k]
    BY <1>4, <1>5, ElementOfSeq, LenProperties DEF TypeOK, LayoutOK
  <2>2. j <= inode /\ ~Open(j)
    BY <1>4, <1>5, <2>1 DEF Ordered, ReportsInOrder
  <2>3. ~Open(j)' /\ j = blocked_duplicates'[k]
    BY <1>3, <1>4, <2>1, <2>2
  <2>. QED  BY <1>1, <2>2, <2>3 DEF Open, OpenIn
<1>6. ReportsInOrder'
  BY <1>1, <1>3, <1>4, <1>5 DEF Ordered, ReportsInOrder
<1>. QED  BY <1>2, <1>3, <1>6

\* A step that is done with the item: of the files only the item's may
\* change its report, and it is not behind any that are pending.
LEMMA OrderReported ==
  ASSUME TypeOK, TypeOK', Control, Ordered, ~Stopped, Writer,
         wpc \in {"write", "report"}, held' = <<>>, UNCHANGED <<queue, pushing>>,
         \A i \in Inodes : reports'[i] # reports[i] =>
           /\ i = Item.inode /\ Item.kind # "fragment"
           /\ reports'[i].sizes # <<>> \/ reports'[i] = NoReport,
         \/ UNCHANGED blocked_duplicates
         \/ /\ blocked_duplicates' = Append(blocked_duplicates, Item.inode)
            /\ Item.kind = "dedup"
  PROVE  QueueInOrder' /\ ReportsInOrder'
<1>1. /\ inode' = inode /\ Inodes' = Inodes /\ Inodes \subseteq Nat
      /\ inode \in Nat
  BY ClientOfWriter, Unchanged DEF TypeOK, ReadingOK, Inodes
<1>2. /\ QueueInOrder'
      /\ \A k \in DOMAIN Pending' :
           \E l \in DOMAIN Pending : Pending'[k] = Pending[l]
      /\ \A i \in Inodes : Open(i)' => Open(i)
  BY OrderHandled
<1>3. /\ 1 \in DOMAIN Pending /\ Pending[1] = Item
      /\ Begins(Pending, Item, Pending')
  BY PendingHandled DEF Begins
<1>4. Item.kind # "fragment" => Item.inode \in Inodes /\ Item.inode <= inode
  BY <1>3, PendingItems DEF Ordered, QueueInOrder
<1>5. \A i \in Inodes : reports'[i].sizes = <<>> => reports'[i] = NoReport
  BY DEF Ordered, ReportsInOrder
<1>6. \A i \in Inodes : i > inode => reports'[i] = NoReport
  <2>. SUFFICES ASSUME NEW i \in Inodes, i > inode PROVE reports'[i] = reports[i]
    BY DEF Ordered, ReportsInOrder
  <2>1. i # Item.inode \/ Item.kind = "fragment"
    BY <1>1, <1>4
  <2>. QED  BY <2>1
<1>7. ASSUME NEW i \in Inodes, Open(i)', reports'[i] # NoReport,
             NEW k \in DOMAIN Pending'
      PROVE  Pending'[k].inode >= i
  <2>1. CASE reports'[i] = reports[i]
    BY <1>2, <1>7, <2>1 DEF Ordered, ReportsInOrder
  <2>2. CASE reports'[i] # reports[i]
    <3>1. i = Item.inode
      BY <2>2
    <3>2. Item.inode <= Pending'[k].inode
      BY <1>3, InOrderRest DEF Ordered, QueueInOrder
    <3>3. Pending'[k].inode \in Nat
      <4>1. PICK l \in DOMAIN Pending : Pending'[k] = Pending[l]
        BY <1>2
      <4>. QED  BY <4>1, PendingItems
    <3>. QED  BY <1>1, <3>1, <3>2, <3>3
  <2>. QED  BY <2>1, <2>2
<1>8. ASSUME NEW k \in DOMAIN blocked_duplicates'
      PROVE  blocked_duplicates'[k] <= inode' /\ ~Open(blocked_duplicates[k])'
  <2>1. ASSUME k \in DOMAIN blocked_duplicates,
               blocked_duplicates'[k] = blocked_duplicates[k]
        PROVE  blocked_duplicates'[k] <= inode' /\ ~Open(blocked_duplicates[k])'
    <3>1. PICK j \in Inodes : j = blocked_duplicates[k]
      BY <2>1, ElementOfSeq, LenProperties DEF TypeOK, LayoutOK
    <3>2. j <= inode /\ ~Open(j)
      BY <2>1, <3>1 DEF Ordered, ReportsInOrder
    <3>3. ~Open(j)' /\ j = blocked_duplicates'[k]
      BY <1>2, <2>1, <3>1, <3>2
    <3>. QED  BY <1>1, <3>2, <3>3 DEF Open, OpenIn
  <2>2. ASSUME blocked_duplicates'[k] = Item.inode, Item.kind = "dedup"
        PROVE  blocked_duplicates'[k] <= inode' /\ ~Open(blocked_duplicates[k])'
    <3>1. PICK j \in Inodes : j = Item.inode
      BY <1>4, <2>2
    <3>2. ~Open(j)'
      BY <2>2, <3>1, OrderHandled
    <3>. QED  BY <1>1, <1>4, <2>2, <3>1, <3>2 DEF Open, OpenIn
  <2>3. blocked_duplicates \in Seq(Inodes)
    BY DEF TypeOK, LayoutOK
  <2>4. CASE UNCHANGED blocked_duplicates
    BY <1>8, <2>1, <2>4
  <2>5. CASE /\ blocked_duplicates' = Append(blocked_duplicates, Item.inode)
             /\ Item.kind = "dedup"
    <3>1. /\ Len(blocked_duplicates) \in Nat
          /\ DOMAIN blocked_duplicates = 1 .. Len(blocked_duplicates)
          /\ DOMAIN blocked_duplicates' = 1 .. Len(blocked_duplicates) + 1
          /\ \A l \in 1 .. Len(blocked_duplicates) :
               blocked_duplicates'[l] = blocked_duplicates[l]
          /\ blocked_duplicates'[Len(blocked_duplicates) + 1] = Item.inode
      BY <1>4, <2>3, <2>5, AppendProperties, LenProperties
    <3>2. k \in 1 .. Len(blocked_duplicates) \/ k = Len(blocked_duplicates) + 1
      BY <1>8, <3>1
    <3>. QED  BY <2>1, <2>2, <2>5, <3>1, <3>2
  <2>. QED  BY <2>4, <2>5
<1>9. ReportsInOrder'
  BY <1>1, <1>5, <1>6, <1>7, <1>8 DEF ReportsInOrder
<1>. QED  BY <1>2, <1>9

\* What BlocksLast says of the reports, with their types.
LEMMA StoredBefore ==
  ASSUME TypeOK, Ordered, stream = "good"
  PROVE  /\ pos \in Int /\ tell \in Int /\ End \in Int /\ 0 <= End
         /\ \A i \in Inodes :
              /\ reports[i] \in Report
              /\ reports[i].start \in Int /\ reports[i].len \in Nat
              /\ EndOf(reports[i]) = reports[i].start + reports[i].len
              /\ 0 <= reports[i].start /\ EndOf(reports[i]) <= End
         /\ \A f \in DOMAIN fragments :
              /\ fragments[f] \in Entry
              /\ fragments[f].start \in Int /\ fragments[f].len \in Nat
              /\ EndOf(fragments[f]) = fragments[f].start + fragments[f].len
              /\ 0 <= fragments[f].start /\ EndOf(fragments[f]) <= End
<1>1. pos \in Int /\ tell \in Int
  BY DEF TypeOK, DiskOK, WriterOK
<1>2. ASSUME NEW i \in Inodes PROVE reports[i] \in Report
  BY DEF TypeOK, LayoutOK
<1>3. ASSUME NEW f \in DOMAIN fragments PROVE fragments[f] \in Entry
  BY <1>3, ElementOfSeq, LenProperties DEF TypeOK, LayoutOK
<1>. QED
  BY <1>1, <1>2, <1>3 DEF Ordered, BlocksLast, End, EndOf, Report, Entry

LEMMA SizeWordType ==
  ASSUME TypeOK, Control, wpc \in {"write", "report"}
  PROVE  SizeWord \in Size /\ SizeWord.len \in Nat
<1>1. SizeWord \in Size
  BY ItemType, CompressType DEF SizeWord, Size
<1>. QED  BY <1>1 DEF Size

\* Nothing is stored, moved or reported.
LEMMA BlocksLastKept ==
  ASSUME Ordered, UNCHANGED <<options, reports, fragments>>,
         End' = End, stream' = stream, wpc' # "report",
         \A i \in Inodes : Open(i)' => Open(i)
  PROVE  BlocksLast'
<1>1. Inodes' = Inodes
  BY DEF Inodes, options
<1>. QED  BY <1>1 DEF Ordered, BlocksLast, EndOf

LEMMA OrderedReportBlock ==
  ASSUME TypeOK, TypeOK', Control, Ordered, ~Stopped, ReportBlock
  PROVE  Ordered'
<1>1. /\ wpc = "report" /\ Item.kind = "block" /\ wpc' = "pop" /\ held' = <<>>
      /\ UNCHANGED <<options, queue, pushing, reading, disk, tell,
                     blocked_duplicates, fragments>>
      /\ Writer
  BY DEF ReportBlock, Handled, channel, Writer
<1>2. /\ inode' = inode /\ Inodes' = Inodes /\ ChunksInOrder'
      /\ UNCHANGED <<file, pos, stream>>
  BY <1>1, ClientOfWriter, Unchanged DEF Ordered, ChunksInOrder, disk
<1>. DEFINE m == Item.inode
            old == reports[m]
            new == [start |-> IF old.sizes = <<>> THEN tell ELSE old.start,
                    sizes |-> Append(old.sizes, SizeWord),
                    len   |-> old.len + SizeWord.len]
<1>3. m \in Inodes /\ SizeWord.len \in Nat /\ SizeWord \in Size
  BY <1>1, ItemType, SizeWordType
<1>4. old \in Report /\ reports \in [Inodes -> Report]
  BY <1>3 DEF TypeOK, LayoutOK
<1>5. reports' = [reports EXCEPT ![m] = new]
  BY DEF ReportBlock
<1>6. /\ reports'[m] = new
      /\ \A i \in Inodes : i # m => reports'[i] = reports[i]
  BY <1>3, <1>4, <1>5
<1>7. new.sizes # <<>>
  <2>1. Append(old.sizes, SizeWord) # <<>>
    <3>1. old.sizes \in Seq(Size)
      BY <1>4 DEF Report
    <3>2. Len(Append(old.sizes, SizeWord)) = Len(old.sizes) + 1 /\ Len(old.sizes) \in Nat
      BY <1>3, <3>1, AppendProperties, LenProperties
    <3>3. Len(Append(old.sizes, SizeWord)) # 0
      BY <3>2
    <3>. QED  BY <3>3, EmptySeq
  <2>. QED  BY <2>1
<1>. HIDE DEF new
<1>8. QueueInOrder' /\ ReportsInOrder' /\ \A i \in Inodes : Open(i)' => Open(i)
  BY <1>1, <1>6, <1>7, OrderReported, OrderHandled
<1>9. Open(m)
  BY <1>1, <1>3, HeadIsOpen
<1>10. old.sizes = <<>> => old = NoReport
  BY <1>3 DEF Ordered, ReportsInOrder
<1>11. BlocksLast'
  <2>. SUFFICES ASSUME stream = "good" PROVE BlocksLast'
    BY <1>2 DEF BlocksLast
  <2>1. End = tell /\ pos = tell + SizeWord.len /\ End' = pos
    BY <1>1, <1>2 DEF Ordered, BlocksLast, End
  <2>2. 0 <= End /\ End <= pos /\ pos \in Int /\ tell \in Int /\ End \in Int
    BY <1>3, <2>1, StoredBefore
  <2>3. /\ 0 <= new.start /\ EndOf(new) = pos
        /\ old.sizes = <<>> => new.start = End
        /\ old.sizes # <<>> => new.start = old.start
    <3>1. CASE old.sizes = <<>>
      <4>1. old.len = 0
        BY <1>10, <3>1 DEF NoReport
      <4>. QED  BY <1>3, <2>1, <2>2, <3>1, <4>1 DEF new, EndOf
    <3>2. CASE old.sizes # <<>>
      <4>1. old # NoReport
        BY <3>2 DEF NoReport
      <4>2. EndOf(old) = End
        BY <1>3, <1>9, <4>1 DEF Ordered, BlocksLast
      <4>3. old.start + old.len = End /\ 0 <= old.start /\ old.start \in Int /\ old.len \in Nat
        BY <1>3, <4>2, StoredBefore
      <4>4. new.start = old.start /\ new.len = old.len + SizeWord.len
        BY <3>2 DEF new
      <4>. QED  BY <1>3, <2>1, <2>2, <3>2, <4>3, <4>4 DEF EndOf
    <3>. QED  BY <3>1, <3>2
  <2>4. \A i \in Inodes : 0 <= reports'[i].start /\ EndOf(reports'[i]) <= pos
    <3>. SUFFICES ASSUME NEW i \in Inodes
                  PROVE  0 <= reports'[i].start /\ EndOf(reports'[i]) <= pos
      OBVIOUS
    <3>1. CASE i = m
      BY <1>6, <2>2, <2>3, <3>1
    <3>2. CASE i # m
      <4>1. 0 <= reports[i].start /\ EndOf(reports[i]) <= End /\ EndOf(reports[i]) \in Int
        BY StoredBefore
      <4>. QED  BY <1>6, <2>2, <3>2, <4>1
    <3>. QED  BY <3>1, <3>2
  <2>5. \A f \in DOMAIN fragments :
          0 <= fragments[f].start /\ EndOf(fragments[f]) <= pos
    <3>. SUFFICES ASSUME NEW f \in DOMAIN fragments
                  PROVE  0 <= fragments[f].start /\ EndOf(fragments[f]) <= pos
      OBVIOUS
    <3>1. /\ 0 <= fragments[f].start /\ EndOf(fragments[f]) <= End
          /\ EndOf(fragments[f]) \in Int
      BY StoredBefore
    <3>. QED  BY <2>2, <3>1
  <2>6. ASSUME NEW i \in Inodes, Open(i)', reports'[i] # NoReport
        PROVE  /\ EndOf(reports'[i]) = pos
               /\ \A j \in Inodes \ {i} : EndOf(reports'[j]) <= reports'[i].start
               /\ \A f \in DOMAIN fragments : EndOf(fragments[f]) <= reports'[i].start
    <3>1. i = m
      BY <1>1, <1>6, <1>8, <2>6, OpenIsHead
    <3>2. CASE old.sizes = <<>>
      BY <1>3, <1>6, <2>3, <3>1, <3>2, StoredBefore
    <3>3. CASE old.sizes # <<>>
      <4>1. old # NoReport
        BY <3>3 DEF NoReport
      <4>2. /\ \A j \in Inodes \ {m} : EndOf(reports[j]) <= old.start
            /\ \A f \in DOMAIN fragments : EndOf(fragments[f]) <= old.start
        BY <1>3, <1>9, <4>1 DEF Ordered, BlocksLast
      <4>. QED  BY <1>6, <2>3, <3>1, <3>3, <4>2
    <3>. QED  BY <3>2, <3>3
  <2>. QED
    BY <1>1, <1>2, <2>1, <2>2, <2>4, <2>5, <2>6 DEF BlocksLast, EndOf
<1>. QED  BY <1>2, <1>8, <1>11 DEF Ordered

LEMMA OrderedDropBlocks ==
  ASSUME TypeOK, TypeOK', Control, Ordered, ~Stopped, DropBlocks
  PROVE  Ordered'
<1>1. /\ wpc = "write" /\ Item.kind = "dedup" /\ wpc' = "pop" /\ held' = <<>>
      /\ UNCHANGED <<options, queue, pushing, reading, tell, file, stream,
                     blocked_duplicates, fragments>>
      /\ Writer /\ stream = "good"
  BY DEF DropBlocks, Handled, channel, Writer
<1>2. inode' = inode /\ Inodes' = Inodes /\ ChunksInOrder'
  BY <1>1, ClientOfWriter, Unchanged DEF Ordered, ChunksInOrder
<1>. DEFINE m == Item.inode
<1>3. m \in Inodes
  BY <1>1, ItemType
<1>4. PICK k \in SameContent :
        reports' = [reports EXCEPT ![m] = reports[blocked_duplicates[k]]]
  BY DEF DropBlocks
<1>5. /\ k \in DOMAIN blocked_duplicates
      /\ reports[blocked_duplicates[k]].sizes = reports[m].sizes
  BY <1>4 DEF SameContent, SameShape
<1>6. PICK b \in Inodes : b = blocked_duplicates[k]
  BY <1>5, ElementOfSeq, LenProperties DEF TypeOK, LayoutOK
<1>7. ~Open(b)
  BY <1>5, <1>6 DEF Ordered, ReportsInOrder
<1>8. /\ reports'[m] = reports[b]
      /\ \A i \in Inodes : i # m => reports'[i] = reports[i]
  BY <1>3, <1>4, <1>6 DEF TypeOK, LayoutOK
<1>9. Open(m) /\ b # m
  <2>1. Open(m)
    BY <1>1, <1>3, HeadIsOpen
  <2>. QED  BY <1>7, <2>1
<1>10. /\ reports[m].sizes = <<>> <=> reports[m] = NoReport
       /\ reports[b].sizes = <<>> <=> reports[b] = NoReport
  BY <1>3 DEF Ordered, ReportsInOrder, NoReport
<1>11. /\ QueueInOrder' /\ ReportsInOrder'
       /\ \A i \in Inodes : Open(i)' => Open(i) /\ i # m
  <2>1. \A i \in Inodes : reports'[i] # reports[i] =>
          (i = m /\ reports'[i].sizes # <<>>) \/ reports'[i] = NoReport
    BY <1>8, <1>10
  <2>. QED  BY <1>1, <1>8, <1>10, <2>1, OrderReported, OrderHandled
<1>12. pos' = pos - reports[m].len /\ End = pos /\ End' = pos'
  BY <1>1 DEF DropBlocks, End
<1>13. /\ 0 <= pos'
       /\ \A i \in Inodes : EndOf(reports'[i]) <= pos'
       /\ \A f \in DOMAIN fragments : EndOf(fragments[f]) <= pos'
  <2>1. CASE reports[m] = NoReport
    <3>1. pos' = pos
      BY <1>1, <1>12, <2>1, StoredBefore DEF NoReport
    <3>2. \A i \in Inodes : reports'[i] = reports[i]
      BY <1>5, <1>6, <1>8, <1>10, <2>1
    <3>. QED  BY <1>1, <1>12, <3>1, <3>2, StoredBefore
  <2>2. CASE reports[m] # NoReport
    <3>1. /\ EndOf(reports[m]) = End
          /\ \A j \in Inodes \ {m} : EndOf(reports[j]) <= reports[m].start
          /\ \A f \in DOMAIN fragments : EndOf(fragments[f]) <= reports[m].start
      BY <1>1, <1>3, <1>9, <2>2 DEF Ordered, BlocksLast
    <3>2. pos' = reports[m].start /\ 0 <= pos'
      <4>1. /\ reports[m].start + reports[m].len = pos /\ pos \in Int
            /\ reports[m].start \in Int /\ reports[m].len \in Nat
            /\ 0 <= reports[m].start
        BY <1>1, <1>3, <1>12, <3>1, StoredBefore
      <4>. QED  BY <1>12, <4>1
    <3>. QED  BY <1>8, <1>9, <3>1, <3>2
  <2>. QED  BY <2>1, <2>2
<1>14. \A i \in Inodes : 0 <= reports'[i].start
  BY <1>1, <1>8, StoredBefore
<1>15. \A f \in DOMAIN fragments : 0 <= fragments[f].start
  BY <1>1, StoredBefore
<1>16. ASSUME NEW i \in Inodes, Open(i)' PROVE reports'[i] = NoReport
  BY <1>1, <1>8, <1>11, <1>16, OpenIsHead
<1>17. BlocksLast'
  BY <1>1, <1>2, <1>12, <1>13, <1>14, <1>15, <1>16 DEF BlocksLast, EndOf
<1>. QED  BY <1>2, <1>11, <1>17 DEF Ordered

LEMMA OrderedReportFragment ==
  ASSUME TypeOK, TypeOK', Control, Ordered, ~Stopped, ReportFragment
  PROVE  Ordered'
<1>1. /\ wpc = "report" /\ Item.kind = "fragment" /\ wpc' = "pop" /\ held' = <<>>
      /\ UNCHANGED <<options, queue, pushing, reading, disk, tell, reports,
                     blocked_duplicates>>
      /\ Writer
  BY DEF ReportFragment, Handled, channel, Writer
<1>2. /\ inode' = inode /\ Inodes' = Inodes /\ ChunksInOrder'
      /\ UNCHANGED <<file, pos, stream>>
  BY <1>1, ClientOfWriter, Unchanged DEF Ordered, ChunksInOrder, disk
<1>3. QueueInOrder' /\ ReportsInOrder' /\ \A i \in Inodes : Open(i)' => Open(i)
  BY <1>1, OrderReported, OrderHandled
<1>. DEFINE e == [start |-> tell, len |-> SizeWord.len, raw |-> SizeWord.raw]
<1>4. SizeWord \in Size /\ SizeWord.len \in Nat /\ tell \in Int
  BY <1>1, SizeWordType DEF TypeOK, WriterOK
<1>5. \A f \in DOMAIN fragments' :
        (f \in DOMAIN fragments /\ fragments'[f] = fragments[f]) \/ fragments'[f] = e
  <2>1. fragments' = Append(fragments, e)
    BY DEF ReportFragment
  <2>2. fragments \in Seq(Entry) /\ e \in Entry
    BY <1>4 DEF TypeOK, LayoutOK, Entry, Size
  <2>. HIDE DEF e
  <2>3. /\ DOMAIN fragments' = 1 .. Len(fragments) + 1 /\ Len(fragments) \in Nat
        /\ DOMAIN fragments = 1 .. Len(fragments)
        /\ \A f \in 1 .. Len(fragments) : fragments'[f] = fragments[f]
        /\ fragments'[Len(fragments) + 1] = e
    BY <2>1, <2>2, AppendProperties, LenProperties
  <2>. QED  BY <2>3
<1>6. BlocksLast'
  <2>. SUFFICES ASSUME stream = "good" PROVE BlocksLast'
    BY <1>2 DEF BlocksLast
  <2>1. End = tell /\ pos = tell + SizeWord.len /\ End' = pos
    BY <1>1, <1>2 DEF Ordered, BlocksLast, End
  <2>2. 0 <= End /\ End <= pos /\ pos \in Int /\ End \in Int
    BY <1>4, <2>1, StoredBefore
  <2>3. 0 <= e.start /\ EndOf(e) = pos
    BY <2>1, <2>2 DEF EndOf
  <2>. HIDE DEF e
  <2>4. ASSUME NEW f \in DOMAIN fragments'
        PROVE  0 <= fragments'[f].start /\ EndOf(fragments'[f]) <= pos
    <3>1. CASE f \in DOMAIN fragments /\ fragments'[f] = fragments[f]
      <4>1. /\ 0 <= fragments[f].start /\ EndOf(fragments[f]) <= End
            /\ EndOf(fragments[f]) \in Int
        BY <3>1, StoredBefore
      <4>. QED  BY <2>2, <3>1, <4>1
    <3>2. CASE fragments'[f] = e
      BY <2>2, <2>3, <3>2
    <3>. QED  BY <1>5, <2>4, <3>1, <3>2
  <2>5. ASSUME NEW i \in Inodes
        PROVE  0 <= reports[i].start /\ EndOf(reports[i]) <= pos
    <3>1. 0 <= reports[i].start /\ EndOf(reports[i]) <= End /\ EndOf(reports[i]) \in Int
      BY StoredBefore
    <3>. QED  BY <2>2, <3>1
  <2>6. ASSUME NEW i \in Inodes, Open(i)' PROVE reports[i] = NoReport
    BY <1>1, <1>3, <2>6, OpenIsHead
  <2>. QED
    BY <1>1, <1>2, <2>1, <2>2, <2>4, <2>5, <2>6 DEF BlocksLast, EndOf
<1>. QED  BY <1>2, <1>3, <1>6 DEF Ordered

LEMMA OrderedWriter ==
  ASSUME TypeOK, TypeOK', Control, Ordered, ~Stopped, Writer
  PROVE  Ordered'
<1>1. /\ ChunksInOrder' /\ Inodes' = Inodes
      /\ UNCHANGED <<options, inode>>
  <2>1. UNCHANGED <<options, unread, block_count, current_block, inode>>
    BY ClientOfWriter
  <2>2. ChunksInOrder'
    BY <2>1, ClientOfWriter DEF Ordered, ChunksInOrder
  <2>. QED  BY <2>1, <2>2, Unchanged
<1>2. CASE Take \/ Exit
  <2>1. /\ Pending' = Pending
        /\ UNCHANGED <<layout, reports, fragments, pos, stream>>
        /\ wpc # "report" /\ wpc' # "report"
    BY <1>2, PendingTaken DEF Take, Exit, Pending, channel, control, layout, disk
  <2>2. End' = End
    BY <2>1 DEF End
  <2>3. QueueInOrder' /\ ReportsInOrder' /\ \A i \in Inodes : Open(i)' => Open(i)
    BY <2>1, OrderUnreported
  <2>4. BlocksLast'
    BY <1>1, <2>1, <2>2, <2>3, BlocksLastKept
  <2>. QED  BY <1>1, <2>3, <2>4 DEF Ordered
<1>3. CASE WriteBytes \/ WriteIsLost
  <2>1. /\ Pending' = Pending /\ held' = held
        /\ UNCHANGED <<layout, reports, fragments>>
        /\ wpc = "write" /\ wpc' = "report" /\ tell' = pos
    BY <1>3 DEF WriteBytes, WriteIsLost, Pending, channel, control, layout
  <2>2. QueueInOrder' /\ ReportsInOrder' /\ \A i \in Inodes : Open(i)' => Open(i)
    BY <2>1, OrderUnreported
  <2>3. BlocksLast'
    <3>1. CASE WriteIsLost
      BY <3>1 DEF WriteIsLost, BlocksLast
    <3>2. CASE WriteBytes
      <4>1. /\ pos' = pos + SizeWord.len /\ SizeWord' = SizeWord
            /\ stream' = stream
        BY <2>1, <3>2 DEF WriteBytes, SizeWord, Item
      <4>2. End' = End
        BY <2>1 DEF End
      <4>. QED  BY <1>1, <2>1, <2>2, <4>1, <4>2 DEF Ordered, BlocksLast, EndOf, End
    <3>. QED  BY <1>3, <3>1, <3>2
  <2>. QED  BY <1>1, <2>2, <2>3 DEF Ordered
<1>4. CASE KeepBlocks \/ HandleThrows
  <2>1. /\ wpc = "write" /\ wpc' = "pop" /\ held' = <<>>
        /\ UNCHANGED <<queue, pushing, reports, fragments, pos, stream>>
        /\ \/ UNCHANGED blocked_duplicates
           \/ /\ blocked_duplicates' = Append(blocked_duplicates, Item.inode)
              /\ Item.kind = "dedup"
    BY <1>4 DEF KeepBlocks, HandleThrows, Handled, channel, layout, disk
  <2>2. QueueInOrder' /\ ReportsInOrder' /\ \A i \in Inodes : Open(i)' => Open(i)
    BY <2>1, OrderReported, OrderHandled
  <2>3. End' = End
    BY <2>1 DEF End
  <2>4. BlocksLast'
    BY <1>1, <2>1, <2>2, <2>3, BlocksLastKept
  <2>. QED  BY <1>1, <2>2, <2>4 DEF Ordered
<1>. QED
  BY <1>2, <1>3, <1>4, OrderedReportFragment, OrderedReportBlock,
     OrderedDropBlocks DEF Writer

-----------------------------------------------------------------------------
(* The theorems about the order.                                           *)

LEMMA InitOrdered == Init => Ordered
<1>. SUFFICES ASSUME Init PROVE Ordered
  OBVIOUS
<1>1. Pending = <<>> /\ DOMAIN Pending = {}
  BY ConcatEmptySeq, EmptySeq DEF Init, Pending
<1>2. ~BlocksToCome /\ ChunksInOrder
  BY DEF Init, BlocksToCome, ChunksInOrder, At
<1>3. QueueInOrder
  BY <1>1, <1>2 DEF QueueInOrder, InOrder
<1>4. DOMAIN blocked_duplicates = {} /\ DOMAIN fragments = {}
  BY DEF Init
<1>5. \A i \in Inodes : reports[i] = NoReport
  BY DEF Init
<1>6. ReportsInOrder
  BY <1>1, <1>4, <1>5 DEF ReportsInOrder
<1>7. BlocksLast
  BY <1>4, <1>5 DEF Init, BlocksLast, End, EndOf, NoReport
<1>. QED  BY <1>2, <1>3, <1>6, <1>7 DEF Ordered

LEMMA NextOrderInv == OrderInv /\ [Next]_vars => OrderInv'
<1>. SUFFICES ASSUME OrderInv, [Next]_vars PROVE OrderInv'
  OBVIOUS
<1>1. PathInv' /\ TypeOK /\ TypeOK' /\ Control /\ Ordered
  <2>1. PathInv'
    BY NextPathInv DEF OrderInv
  <2>. QED  BY <2>1 DEF OrderInv, PathInv
<1>2. CASE ~Stopped /\ (Client \/ ArchiveFails)
  BY <1>1, <1>2, OrderedClient DEF OrderInv
<1>3. CASE ~Stopped /\ Writer
  BY <1>1, <1>3, OrderedWriter DEF OrderInv
<1>4. CASE UNCHANGED vars
  <2>1. ChunksInOrder'
    BY <1>1, <1>4 DEF vars, control, reading, ChunksInOrder, At, Ordered
  <2>2. QueueInOrder' /\ ReportsInOrder' /\ BlocksLast'
    <3>1. /\ Pending' = Pending /\ inode' = inode
          /\ BlocksToCome' = BlocksToCome /\ BeforeFinish' = BeforeFinish
      BY <1>4 DEF vars, control, reading, writer, channel, Pending,
                  BlocksToCome, BeforeFinish, At
    <3>2. UNCHANGED <<options, layout, disk, tell, wpc, held>>
      BY <1>4 DEF vars, writer
    <3>. QED  BY <1>1, <3>1, <3>2, OrderKept
  <2>. QED  BY <1>1, <2>1, <2>2 DEF OrderInv, Ordered
<1>. QED  BY <1>2, <1>3, <1>4 DEF Next, Terminated

(* The inductive invariant of the data path, whatever fails: the items are *)
(* written file by file, and an open file's blocks are the last ones.      *)
THEOREM OrderInvariant == Spec => []OrderInv
<1>1. Init => OrderInv
  BY InitPathInv, InitOrdered DEF OrderInv
<1>. QED  BY <1>1, NextOrderInv, PTL DEF Spec

(* pending_dedup drops the bytes of its own file and no others: what       *)
(* drop_bytes moves the file position over are all the blocks of the file  *)
(* that turned out to be a duplicate.                                      *)
THEOREM OwnBytesAreLast == Spec => []OwnBytesLast
<1>1. OrderInv => OwnBytesLast
  <2>. SUFFICES ASSUME OrderInv, wpc = "write", Item.kind = "dedup", stream = "good",
                       NEW m \in Inodes, m = Item.inode, reports[m].len # 0
                PROVE  reports[m].start + reports[m].len = pos
    BY ItemType DEF OwnBytesLast, OrderInv, PathInv
  <2>1. Open(m)
    BY HeadIsOpen DEF OrderInv, PathInv
  <2>2. reports[m] # NoReport
    BY DEF NoReport
  <2>3. EndOf(reports[m]) = End
    BY <2>1, <2>2 DEF OrderInv, Ordered, BlocksLast
  <2>. QED  BY <2>3 DEF End, EndOf
<1>. QED  BY <1>1, OrderInvariant, PTL

-----------------------------------------------------------------------------
(* What the output file holds.                                             *)

\* The bytes from start to end, in a file that is long enough.
LEMMA RangeProperties ==
  ASSUME NEW S, NEW s \in Seq(S), NEW a \in Nat, NEW b \in Nat, b <= Len(s)
  PROVE  /\ SubSeq(s, a + 1, b) \in Seq(S)
         /\ Len(SubSeq(s, a + 1, b)) = IF a <= b THEN b - a ELSE 0
         /\ \A k \in 1 .. b - a : SubSeq(s, a + 1, b)[k] = s[a + k]
<1>1. \A k \in a + 1 .. b : s[k] \in S
  BY ElementOfSeq, LenProperties
<1>2. /\ SubSeq(s, a + 1, b) \in Seq(S)
      /\ Len(SubSeq(s, a + 1, b)) = IF a + 1 <= b THEN b - (a + 1) + 1 ELSE 0
      /\ \A k \in 1 .. b - (a + 1) + 1 : SubSeq(s, a + 1, b)[k] = s[a + 1 + k - 1]
  BY <1>1, SubSeqProperties
<1>3. ASSUME NEW k \in 1 .. b - a PROVE SubSeq(s, a + 1, b)[k] = s[a + k]
  <2>1. k \in 1 .. b - (a + 1) + 1 /\ a + 1 + k - 1 = a + k
    OBVIOUS
  <2>. QED  BY <1>2, <2>1
<1>. QED  BY <1>2, <1>3

\* Two ranges of files that hold the same bytes.
LEMMA RangesEqual ==
  ASSUME NEW S, NEW s \in Seq(S), NEW t \in Seq(S), NEW a \in Nat, NEW b \in Nat,
         NEW c \in Nat, NEW d \in Nat, b <= Len(s), d <= Len(t), b - a = d - c,
         \A k \in 1 .. b - a : s[a + k] = t[c + k]
  PROVE  SubSeq(s, a + 1, b) = SubSeq(t, c + 1, d)
<1>1. /\ SubSeq(s, a + 1, b) \in Seq(S) /\ SubSeq(t, c + 1, d) \in Seq(S)
      /\ Len(SubSeq(s, a + 1, b)) = IF a <= b THEN b - a ELSE 0
      /\ Len(SubSeq(t, c + 1, d)) = IF c <= d THEN d - c ELSE 0
      /\ \A k \in 1 .. b - a : SubSeq(s, a + 1, b)[k] = s[a + k]
      /\ \A k \in 1 .. d - c : SubSeq(t, c + 1, d)[k] = t[c + k]
  BY RangeProperties
<1>2. Len(SubSeq(s, a + 1, b)) = Len(SubSeq(t, c + 1, d))
  BY <1>1
<1>3. \A k \in 1 .. Len(SubSeq(s, a + 1, b)) :
        k \in 1 .. b - a /\ k \in 1 .. d - c
  BY <1>1
<1>. QED  BY <1>1, <1>2, <1>3, SeqEqual

\* The same range of files that agree so far.
LEMMA SameRange ==
  ASSUME NEW S, NEW s \in Seq(S), NEW t \in Seq(S), NEW a \in Nat, NEW b \in Nat,
         b <= Len(s), b <= Len(t), \A k \in 1 .. b : s[k] = t[k]
  PROVE  SubSeq(s, a + 1, b) = SubSeq(t, a + 1, b)
<1>1. PICK c, d : c = a /\ d = b
  OBVIOUS
<1>2. /\ s \in Seq(S) /\ t \in Seq(S) /\ a \in Nat /\ b \in Nat /\ c \in Nat /\ d \in Nat
      /\ b <= Len(s) /\ d <= Len(t) /\ b - a = d - c
      /\ \A k \in 1 .. b - a : s[a + k] = t[c + k]
  BY <1>1
<1>3. SubSeq(s, a + 1, b) = SubSeq(t, c + 1, d)
  BY ONLY <1>2, RangesEqual
<1>. QED  BY ONLY <1>1, <1>3

\* BytesOf an entry that lies within the file.
LEMMA BytesWithin ==
  ASSUME file \in Seq(Byte), NEW e, e.start \in Int, e.len \in Nat,
         0 <= e.start, EndOf(e) <= Len(file)
  PROVE  /\ BytesOf(e) = SubSeq(file, e.start + 1, EndOf(e))
         /\ BytesOf(e) \in Seq(Byte) /\ Len(BytesOf(e)) = e.len
         /\ e.start \in Nat /\ EndOf(e) \in Nat
<1>1. EndOf(e) \in Nat /\ e.start \in Nat /\ Len(file) \in Nat
      /\ EndOf(e) = e.start + e.len
  BY LenProperties DEF EndOf
<1>2. BytesOf(e) = SubSeq(file, e.start + 1, EndOf(e))
  <2>1. Min({EndOf(e), Len(file)}) = EndOf(e)
    BY <1>1, MinOfTwo
  <2>. QED  BY <2>1 DEF BytesOf, EndOf
<1>3. /\ SubSeq(file, e.start + 1, EndOf(e)) \in Seq(Byte)
      /\ Len(SubSeq(file, e.start + 1, EndOf(e))) =
           IF e.start <= EndOf(e) THEN EndOf(e) - e.start ELSE 0
  <2>1. ASSUME NEW a \in Nat, NEW b \in Nat, b <= Len(file)
        PROVE  /\ SubSeq(file, a + 1, b) \in Seq(Byte)
               /\ Len(SubSeq(file, a + 1, b)) = IF a <= b THEN b - a ELSE 0
    BY <2>1, RangeProperties
  <2>2. PICK a, b : a = e.start /\ b = EndOf(e)
    OBVIOUS
  <2>3. /\ SubSeq(file, a + 1, b) \in Seq(Byte)
        /\ Len(SubSeq(file, a + 1, b)) = IF a <= b THEN b - a ELSE 0
    BY <1>1, <2>1, <2>2
  <2>. QED  BY ONLY <2>2, <2>3
<1>. QED  BY <1>1, <1>2, <1>3

LEMMA BytesStay ==
  ASSUME file \in Seq(Byte), file' \in Seq(Byte), NEW e, e.start \in Int,
         e.len \in Nat, 0 <= e.start, EndOf(e) <= Len(file),
         Len(file) <= Len(file'), \A k \in 1 .. EndOf(e) : file'[k] = file[k]
  PROVE  BytesOf(e)' = BytesOf(e)
<1>1. /\ BytesOf(e) = SubSeq(file, e.start + 1, EndOf(e))
      /\ e.start \in Nat /\ EndOf(e) \in Nat /\ EndOf(e) = e.start + e.len
  BY BytesWithin DEF EndOf
<1>2. Len(file) \in Nat /\ Len(file') \in Nat
  BY LenProperties
<1>3. BytesOf(e)' = SubSeq(file', e.start + 1, EndOf(e))
  <2>1. Min({EndOf(e), Len(file')}) = EndOf(e)
    <3>1. EndOf(e) \in Int /\ Len(file') \in Int /\ EndOf(e) <= Len(file')
      BY <1>1, <1>2
    <3>2. \A m, n \in Int : m <= n => Min({m, n}) = m
      BY MinOfTwo
    <3>. QED  BY <3>1, <3>2
  <2>. QED  BY <2>1 DEF BytesOf, EndOf
<1>4. SubSeq(file', e.start + 1, EndOf(e)) = SubSeq(file, e.start + 1, EndOf(e))
  <2>. DEFINE a == e.start
              b == EndOf(e)
  <2>1. /\ a \in Nat /\ b \in Nat /\ b <= Len(file') /\ b <= Len(file)
        /\ \A k \in 1 .. b : file[k] = file'[k]
    BY <1>1, <1>2
  <2>. HIDE DEF a, b
  <2>2. SubSeq(file, a + 1, b) = SubSeq(file', a + 1, b)
    BY <2>1, SameRange
  <2>. QED  BY <2>2 DEF a, b
<1>. QED  BY <1>1, <1>3, <1>4

\* write_bytes keeps what is in front of the file position.
LEMMA FileWritten ==
  ASSUME TypeOK, TypeOK', Control, WriteBytes, 0 <= pos
  PROVE  /\ file \in Seq(Byte) /\ file' \in Seq(Byte)
         /\ pos \in Nat /\ pos <= Len(file) /\ Len(file) <= Len(file')
         /\ \A k \in 1 .. pos : file'[k] = file[k]
         /\ pos' = pos + SizeWord.len /\ pos' <= Len(file')
         /\ \A k \in 1 .. SizeWord.len :
              file'[pos + k] = Compress(Item.data).bytes[k]
<1>. DEFINE bytes == Compress(Item.data).bytes
            end == Max({Len(file), pos + Len(bytes)})
<1>1. /\ bytes \in Seq(Byte) /\ Len(bytes) \in Nat /\ SizeWord.len = Len(bytes)
  BY ItemType, CompressType DEF WriteBytes, SizeWord
<1>2. WriteAt(bytes) /\ pos' = pos + Len(bytes)
  BY DEF WriteBytes
<1>. HIDE DEF bytes
<1>3. /\ file \in Seq(Byte) /\ file' \in Seq(Byte) /\ Len(file) \in Nat
      /\ pos \in Nat /\ pos <= Len(file)
  BY LenProperties DEF TypeOK, DiskOK
<1>4. end \in Nat /\ Len(file) <= end /\ pos + Len(bytes) <= end
  <2>1. \A m, n \in Int : Max({m, n}) = IF m >= n THEN m ELSE n
    BY MaxOfTwo
  <2>2. pos + Len(bytes) \in Nat
    BY <1>1, <1>3
  <2>. QED  BY <1>3, <2>1, <2>2
<1>5. file' = [k \in 1 .. end |->
                 IF k > pos /\ k <= pos + Len(bytes) THEN bytes[k - pos]
                                                     ELSE file[k]]
  BY <1>2 DEF WriteAt
<1>. HIDE DEF end
<1>6. Len(file') = end
  <2>1. DOMAIN file' = 1 .. end /\ DOMAIN file' = 1 .. Len(file') /\ Len(file') \in Nat
    BY <1>3, <1>5, LenProperties
  <2>. QED  BY <1>4, <2>1
<1>7. ASSUME NEW k \in 1 .. pos PROVE file'[k] = file[k]
  BY <1>3, <1>4, <1>5
<1>8. ASSUME NEW k \in 1 .. Len(bytes) PROVE file'[pos + k] = bytes[k]
  <2>1. pos + k \in 1 .. end /\ pos + k > pos /\ pos + k <= pos + Len(bytes)
        /\ (pos + k) - pos = k
    BY <1>1, <1>3, <1>4
  <2>. QED  BY <1>5, <2>1
<1>. QED  BY <1>1, <1>2, <1>3, <1>4, <1>6, <1>7, <1>8 DEF bytes

\* What is stored in front of the file position stays, whatever the step.
LEMMA StoredStays ==
  ASSUME TypeOK, TypeOK', Control, Ordered, [Next]_vars,
         NEW e, e.start \in Int, e.len \in Nat,
         stream = "good" => 0 <= e.start /\ EndOf(e) <= End
  PROVE  BytesOf(e)' = BytesOf(e) /\ Stored(e)' = Stored(e)
<1>1. CASE WriteBytes
  <2>1. stream = "good" /\ wpc = "write"
    BY <1>1 DEF WriteBytes
  <2>2. 0 <= pos /\ 0 <= e.start /\ EndOf(e) <= pos /\ pos \in Int
    BY <2>1, StoredBefore DEF End
  <2>3. /\ file \in Seq(Byte) /\ file' \in Seq(Byte)
        /\ pos <= Len(file) /\ Len(file) <= Len(file')
        /\ \A k \in 1 .. pos : file'[k] = file[k]
    BY <1>1, <2>2, FileWritten
  <2>4. EndOf(e) \in Int /\ Len(file) \in Nat
    BY <2>3, LenProperties DEF EndOf
  <2>5. EndOf(e) <= Len(file) /\ \A k \in 1 .. EndOf(e) : file'[k] = file[k]
    BY <2>2, <2>3, <2>4
  <2>6. BytesOf(e)' = BytesOf(e)
    BY <2>2, <2>3, <2>5, BytesStay
  <2>. QED  BY <2>6 DEF Stored
<1>2. CASE ~WriteBytes
  <2>1. file' = file
    BY <1>2 DEF Next, Terminated, vars, disk, Client, ArchiveFails, Push,
       CallHandleWrite, NextFile, ReadChunk, FlushBlock, Finalize, PutFragment,
       CompareCurrent, GetFragmentEntry, CompareStored, NoDuplicate,
       FlushFragment, Insert, FinishQueue, Join, Writer, Take, Exit,
       WriteIsLost, ReportFragment, ReportBlock, KeepBlocks, DropBlocks,
       HandleThrows
  <2>2. BytesOf(e)' = BytesOf(e)
    BY <2>1 DEF BytesOf
  <2>. QED  BY <2>2 DEF Stored
<1>. QED  BY <1>1, <1>2

\* Of the files that are closed no step changes the report.
LEMMA ClosedStays ==
  ASSUME TypeOK, Control, Ordered, [Next]_vars, NEW i \in Inodes, ~Open(i)
  PROVE  reports'[i] = reports[i]
<1>1. CASE ReportBlock \/ DropBlocks
  <2>1. wpc \in {"write", "report"} /\ Item.kind # "fragment"
    BY <1>1 DEF ReportBlock, DropBlocks
  <2>2. i # Item.inode
    BY <2>1, HeadIsOpen
  <2>3. reports \in [Inodes -> Report]
    BY DEF TypeOK, LayoutOK
  <2>. QED  BY <1>1, <2>2, <2>3 DEF ReportBlock, DropBlocks
<1>2. CASE ~(ReportBlock \/ DropBlocks)
  BY <1>2 DEF Next, Terminated, vars, layout, Client, ArchiveFails, Push,
     CallHandleWrite, NextFile, ReadChunk, FlushBlock, Finalize, PutFragment,
     CompareCurrent, GetFragmentEntry, CompareStored, NoDuplicate,
     FlushFragment, Insert, FinishQueue, Join, Writer, Take, Exit, WriteBytes,
     WriteIsLost, ReportFragment, KeepBlocks, HandleThrows
<1>. QED  BY <1>1, <1>2

\* The fragment table only grows.
LEMMA FragmentsGrow ==
  ASSUME TypeOK, Control, [Next]_vars
  PROVE  fragments' = fragments \/ \E e \in Entry : fragments' = Append(fragments, e)
<1>1. CASE ReportFragment
  <2>1. [start |-> tell, len |-> SizeWord.len, raw |-> SizeWord.raw] \in Entry
    BY <1>1, SizeWordType DEF ReportFragment, TypeOK, WriterOK, Entry, Size
  <2>. QED  BY <1>1, <2>1 DEF ReportFragment
<1>2. CASE ~ReportFragment
  BY <1>2 DEF Next, Terminated, vars, layout, Client, ArchiveFails, Push,
     CallHandleWrite, NextFile, ReadChunk, FlushBlock, Finalize, PutFragment,
     CompareCurrent, GetFragmentEntry, CompareStored, NoDuplicate,
     FlushFragment, Insert, FinishQueue, Join, Writer, Take, Exit, WriteBytes,
     WriteIsLost, ReportBlock, KeepBlocks, DropBlocks, HandleThrows
<1>. QED  BY <1>1, <1>2

LEMMA FragmentsExtended ==
  ASSUME TypeOK, Control, [Next]_vars
  PROVE  /\ Len(fragments) \in Nat /\ Len(fragments') \in Nat
         /\ Len(fragments) <= Len(fragments')
         /\ fragments \in Seq(Entry) /\ fragments' \in Seq(Entry)
         /\ \A f \in 1 .. Len(fragments) : fragments'[f] = fragments[f]
<1>1. fragments \in Seq(Entry) /\ Len(fragments) \in Nat
  BY LenProperties DEF TypeOK, LayoutOK
<1>2. CASE fragments' = fragments
  BY <1>1, <1>2
<1>3. CASE \E e \in Entry : fragments' = Append(fragments, e)
  BY <1>1, <1>3, AppendProperties
<1>. QED  BY <1>2, <1>3, FragmentsGrow

LEMMA DuplicatesGrow ==
  ASSUME TypeOK, Control, [Next]_vars
  PROVE  \A k \in DOMAIN blocked_duplicates :
           blocked_duplicates'[k] = blocked_duplicates[k]
<1>1. CASE KeepBlocks
  <2>1. blocked_duplicates' = Append(blocked_duplicates, Item.inode)
        /\ Item.inode \in Inodes
    BY <1>1, ItemType DEF KeepBlocks
  <2>2. blocked_duplicates \in Seq(Inodes)
    BY DEF TypeOK, LayoutOK
  <2>. QED  BY <2>1, <2>2, AppendProperties, LenProperties
<1>2. CASE ~KeepBlocks
  BY <1>2 DEF Next, Terminated, vars, layout, Client, ArchiveFails, Push,
     CallHandleWrite, NextFile, ReadChunk, FlushBlock, Finalize, PutFragment,
     CompareCurrent, GetFragmentEntry, CompareStored, NoDuplicate,
     FlushFragment, Insert, FinishQueue, Join, Writer, Take, Exit, WriteBytes,
     WriteIsLost, ReportFragment, ReportBlock, DropBlocks, HandleThrows
<1>. QED  BY <1>1, <1>2

(* What get_fragment_entry has handed out and what the kept files lent to  *)
(* others is not overwritten, moved or withdrawn, whatever fails.          *)
THEOREM PublishedIsKept == Spec => PublishedStays
<1>. DEFINE Kept ==
       /\ IsPrefix(fragments, fragments')
       /\ \A f \in DOMAIN fragments : Stored(fragments[f])' = Stored(fragments[f])
       /\ \A k \in DOMAIN blocked_duplicates :
            LET r == reports[blocked_duplicates[k]]
            IN reports'[blocked_duplicates[k]] = r /\ BytesOf(r)' = BytesOf(r)
<1>1. ASSUME OrderInv, OrderInv', [Next]_vars PROVE Kept
  <2>1. TypeOK /\ TypeOK' /\ Control /\ Ordered
    BY <1>1 DEF OrderInv, PathInv
  <2>2. /\ Len(fragments) \in Nat /\ Len(fragments') \in Nat
        /\ Len(fragments) <= Len(fragments')
        /\ fragments \in Seq(Entry) /\ fragments' \in Seq(Entry)
        /\ \A f \in 1 .. Len(fragments) : fragments'[f] = fragments[f]
    BY <1>1, <2>1, FragmentsExtended
  <2>3. IsPrefix(fragments, fragments')
    <3>1. SubSeq(fragments, 0 + 1, Len(fragments)) = SubSeq(fragments', 0 + 1, Len(fragments))
      BY <2>2, SameRange
    <3>. QED  BY <2>2, <3>1 DEF IsPrefix
  <2>4. ASSUME NEW f \in DOMAIN fragments
        PROVE  Stored(fragments[f])' = Stored(fragments[f])
    <3>1. PICK e \in Entry : e = fragments[f]
      BY <2>2, <2>4, ElementOfSeq, LenProperties
    <3>2. /\ e.start \in Int /\ e.len \in Nat
          /\ stream = "good" => 0 <= e.start /\ EndOf(e) <= End
      BY <2>1, <2>4, <3>1, StoredBefore DEF Entry
    <3>3. Stored(e)' = Stored(e)
      BY <1>1, <2>1, <3>2, StoredStays
    <3>4. e = fragments'[f]
      BY <2>2, <2>4, <3>1, LenProperties
    <3>. QED  BY <3>1, <3>3, <3>4 DEF Stored, BytesOf
  <2>5. ASSUME NEW k \in DOMAIN blocked_duplicates
        PROVE  LET r == reports[blocked_duplicates[k]]
               IN reports'[blocked_duplicates[k]] = r /\ BytesOf(r)' = BytesOf(r)
    <3>1. PICK b \in Inodes : b = blocked_duplicates[k]
      BY <2>1, <2>5, ElementOfSeq, LenProperties DEF TypeOK, LayoutOK
    <3>2. ~Open(b) /\ blocked_duplicates'[k] = b
      BY <1>1, <2>1, <2>5, <3>1, DuplicatesGrow DEF Ordered, ReportsInOrder
    <3>3. reports'[b] = reports[b]
      BY <1>1, <2>1, <3>2, ClosedStays
    <3>4. PICK r \in Report : r = reports[b]
      BY <2>1 DEF TypeOK, LayoutOK
    <3>5. /\ r.start \in Int /\ r.len \in Nat
          /\ stream = "good" => 0 <= r.start /\ EndOf(r) <= End
      BY <2>1, <3>4, StoredBefore DEF Report
    <3>6. BytesOf(r)' = BytesOf(r)
      BY <1>1, <2>1, <3>5, StoredStays
    <3>7. r = reports'[blocked_duplicates'[k]]
      BY <3>2, <3>3, <3>4
    <3>. QED  BY <3>1, <3>3, <3>4, <3>6, <3>7 DEF BytesOf
  <2>. QED  BY <2>3, <2>4, <2>5
<1>2. PublishedStays <=> [][Kept]_vars
  BY DEF PublishedStays
<1>. HIDE DEF Kept
<1>. QED  BY <1>1, <1>2, OrderInvariant, PTL DEF Spec

-----------------------------------------------------------------------------
(* What the threads have in hand.                                          *)

LEMMA ChunkInHandClient ==
  ASSUME TypeOK, Control, ChunkInHand, Client \/ ArchiveFails
  PROVE  ChunkInHand'
<1>. USE DEF ChunkInHand, At
<1>1. inode \in Nat /\ fragment_indices \in [Inodes -> Place]
  BY DEF TypeOK, ReadingOK, PackingOK
<1>2. resume \in {"next", "read", "place", "finish"}
  BY DEF TypeOK, ControlOK
<1>3. Inodes' = Inodes
  BY DEF Client, ArchiveFails, Push, CallHandleWrite, NextFile, ReadChunk,
         FlushBlock, Finalize, PutFragment, CompareCurrent, GetFragmentEntry,
         CompareStored, NoDuplicate, FlushFragment, Insert, FinishQueue, Join,
         options, Inodes
<1>4. CASE Push \/ CallHandleWrite
  BY <1>2, <1>3, <1>4 DEF Push, CallHandleWrite, reading, packing
<1>5. CASE NextFile
  BY <1>1, <1>3, <1>5 DEF NextFile, packing, Inodes
<1>6. CASE ReadChunk
  BY <1>3, <1>6, ChunkRead DEF ReadChunk, packing
<1>7. CASE FlushBlock
  BY <1>3, <1>7 DEF FlushBlock, Enqueue, packing
<1>8. CASE Finalize
  BY <1>3, <1>8 DEF Finalize, Enqueue, reading, packing
<1>9. CASE ArchiveFails
  BY <1>3, <1>9 DEF ArchiveFails, reading, packing
<1>10. CASE PutFragment \/ GetFragmentEntry
  BY <1>3, <1>10 DEF PutFragment, GetFragmentEntry, reading, packing
<1>11. CASE CompareCurrent \/ CompareStored
  <2>1. \A i \in Inodes : i > inode => fragment_indices'[i] = fragment_indices[i]
    BY <1>1, <1>11 DEF CompareCurrent, CompareStored, Compare
  <2>2. \/ pc' = "lookup" /\ current_block' = current_block
        \/ pc' = "read" /\ current_block' = <<>>
        \/ pc' = "aborted"
    BY <1>11 DEF CompareCurrent, CompareStored, Compare
  <2>3. inode' = inode /\ pc \in {"lookup", "compare"}
    BY <1>11 DEF CompareCurrent, CompareStored
  <2>. QED  BY <1>3, <2>1, <2>2, <2>3
<1>12. CASE NoDuplicate
  BY <1>3, <1>12 DEF NoDuplicate, reading
<1>13. CASE FlushFragment
  BY <1>3, <1>13 DEF FlushFragment, Enqueue, reading
<1>14. CASE Insert
  <2>1. \A i \in Inodes : i > inode => fragment_indices'[i] = fragment_indices[i]
    BY <1>1, <1>14 DEF Insert
  <2>. QED  BY <1>3, <1>14, <2>1 DEF Insert
<1>15. CASE FinishQueue \/ Join
  BY <1>3, <1>15 DEF FinishQueue, Join, reading, packing
<1>. QED
  BY <1>4, <1>5, <1>6, <1>7, <1>8, <1>9, <1>10, <1>11, <1>12, <1>13, <1>14,
     <1>15 DEF Client

LEMMA InHandClient ==
  ASSUME TypeOK, Control, InHand, Client \/ ArchiveFails
  PROVE  InHand'
<1>1. ChunkInHand'
  BY ChunkInHandClient DEF InHand
<1>2. EntryInHand'
  <2>1. CASE GetFragmentEntry
    BY <2>1 DEF GetFragmentEntry, EntryInHand, Candidate, packing, layout
  <2>2. CASE ~GetFragmentEntry
    <3>1. pc' # "compare"
      BY <2>2 DEF Client, ArchiveFails, Push, CallHandleWrite, NextFile, ReadChunk,
             FlushBlock, Finalize, PutFragment, CompareCurrent, Compare, Enqueue,
             CompareStored, NoDuplicate, FlushFragment, Insert, FinishQueue, Join,
             TypeOK, ControlOK
    <3>. QED  BY <3>1 DEF EntryInHand
  <2>. QED  BY <2>1, <2>2
<1>3. ItemInHand'
  <2>1. /\ wpc' = "report" => wpc = "report" /\ held' = held
        /\ UNCHANGED <<tell, file, stream>>
    BY DEF Client, ArchiveFails, Push, CallHandleWrite, NextFile, ReadChunk,
           FlushBlock, Finalize, PutFragment, CompareCurrent, GetFragmentEntry,
           CompareStored, NoDuplicate, FlushFragment, Insert, FinishQueue, Join,
           writer, disk
  <2>. QED  BY <2>1 DEF InHand, ItemInHand, BytesOf, SizeWord, Item
<1>. QED  BY <1>1, <1>2, <1>3 DEF InHand

LEMMA InHandWriter ==
  ASSUME TypeOK, TypeOK', Control, CandidatesPlaced, Ordered, InHand, ~Stopped,
         Writer
  PROVE  InHand'
<1>1. /\ UNCHANGED <<options, resume, reading, packing, search>>
      /\ pc' = pc \/ pc' = "aborted" \/ (pc = "handle" /\ pc' = resume)
  BY DEF Writer, Take, Exit, WriteBytes, WriteIsLost, ReportFragment,
         ReportBlock, KeepBlocks, DropBlocks, HandleThrows, Handled, control,
         Control
<1>2. resume \in {"next", "read", "place", "finish"}
  BY DEF TypeOK, ControlOK
<1>3. ChunkInHand'
  BY <1>1, <1>2 DEF InHand, ChunkInHand, At, reading, packing, options, Inodes
<1>4. EntryInHand'
  <2>. SUFFICES ASSUME pc' = "compare" PROVE EntryInHand'
    BY DEF EntryInHand
  <2>1. pc = "compare" /\ UNCHANGED <<candidates, entry, fragment_indices>>
    BY <1>1, <1>2 DEF packing, search
  <2>2. Candidate' = Candidate /\ Candidate.fragment \in Nat
    <3>1. 1 \in DOMAIN candidates /\ Head(candidates) = candidates[1]
          /\ candidates \in Seq(Inodes)
      <4>1. DOMAIN candidates = 1 .. Len(candidates) /\ Len(candidates) \in Nat \ {0}
        BY <2>1, EmptySeq, LenProperties DEF Control, TypeOK, SearchOK
      <4>. QED  BY <4>1 DEF TypeOK, SearchOK
    <3>2. Candidate.fragment \in 0 .. fragment_count
      BY <3>1 DEF CandidatesPlaced, Placed, Candidate
    <3>. QED  BY <2>1, <3>2 DEF Candidate, TypeOK, PackingOK
  <2>. QED  BY <2>1, <2>2, FragmentsExtended DEF InHand, EntryInHand, Next
<1>5. ItemInHand'
  <2>1. CASE WriteBytes
    <3>1. /\ stream = "good" /\ wpc = "write" /\ wpc' = "report" /\ held' = held
          /\ tell' = pos
      BY <2>1 DEF WriteBytes
    <3>2. SizeWord' = SizeWord /\ Item' = Item
      BY <3>1 DEF SizeWord, Item
    <3>3. 0 <= pos
      BY <3>1, StoredBefore DEF End
    <3>. DEFINE bytes == Compress(Item.data).bytes
                len == SizeWord.len
    <3>4. bytes \in Seq(Byte) /\ len = Len(bytes) /\ len \in Nat
      BY <3>1, ItemType, CompressType DEF SizeWord
    <3>5. /\ file' \in Seq(Byte) /\ pos \in Nat
          /\ pos + len <= Len(file') /\ Len(file') \in Nat
          /\ \A k \in 1 .. len : file'[pos + k] = bytes[k]
      BY <2>1, <3>3, FileWritten, LenProperties
    <3>. HIDE DEF bytes, len
    <3>6. SubSeq(file', pos + 1, pos + len) = bytes
      <4>1. SubSeq(file', pos + 1, pos + len) = SubSeq(bytes, 0 + 1, len)
        BY <3>4, <3>5, RangesEqual
      <4>2. SubSeq(bytes, 1, len) = bytes
        BY <3>4, SubSeqFull
      <4>3. 0 + 1 = 1
        OBVIOUS
      <4>. QED  BY <4>1, <4>2, <4>3
    <3>7. Min({pos + len, Len(file')}) = pos + len
      BY <3>4, <3>5, MinOfTwo
    <3>8. SubSeq(file', tell' + 1, Min({tell' + SizeWord'.len, Len(file')}))
            = Compress(Item'.data).bytes
      BY <3>1, <3>2, <3>6, <3>7 DEF bytes, len
    <3>. QED  BY <3>8 DEF ItemInHand, BytesOf
  <2>2. CASE ~WriteBytes
    <3>1. wpc' # "report" \/ stream' = "bad"
      BY <2>2 DEF Writer, Take, Exit, WriteIsLost, ReportFragment, ReportBlock,
                  KeepBlocks, DropBlocks, HandleThrows, Handled, Control
    <3>. QED  BY <3>1 DEF ItemInHand
  <2>. QED  BY <2>1, <2>2
<1>. QED  BY <1>3, <1>4, <1>5 DEF InHand

-----------------------------------------------------------------------------
(* The blocks of a file: written, or pending.                              *)

LEMMA InputType ==
  ASSUME TypeOK
  PROVE  \A i \in Inodes : input[i] \in Seq(Byte) /\ Len(input[i]) \in Nat
<1>1. input \in Seq(Seq(Byte))
  BY InputAssumption DEF TypeOK, OptionsOK
<1>. QED  BY <1>1, ElementOfSeq, LenProperties DEF Inodes

\* The blocks that are written stay, whatever the step.
LEMMA WrittenStays ==
  ASSUME TypeOK, TypeOK', Control, Ordered, [Next]_vars, stream = "good",
         UNCHANGED input, NEW i \in Inodes, reports'[i] = reports[i],
         BlocksWritten(i, reports[i])
  PROVE  BlocksWritten(i, reports[i])'
<1>1. PICK r \in Report : r = reports[i] /\ r = reports'[i]
  BY DEF TypeOK, LayoutOK
<1>2. /\ r.start \in Int /\ r.len \in Nat /\ 0 <= r.start /\ EndOf(r) <= End
      /\ EndOf(r) \in Int /\ End \in Int /\ r.sizes \in Seq(Size)
  BY <1>1, StoredBefore DEF Report
<1>3. PICK at \in [0 .. Len(r.sizes) -> r.start .. EndOf(r)] :
        /\ at[0] = r.start /\ at[Len(r.sizes)] = EndOf(r)
        /\ \A k \in DOMAIN r.sizes :
             /\ at[k] = at[k - 1] + r.sizes[k].len
             /\ Stored([start |-> at[k - 1], len |-> r.sizes[k].len,
                        raw |-> r.sizes[k].raw]) = Chunk(i, k)
  BY <1>1 DEF BlocksWritten
<1>4. ASSUME NEW k \in DOMAIN r.sizes
      PROVE  Stored([start |-> at[k - 1], len |-> r.sizes[k].len,
                     raw |-> r.sizes[k].raw])' = Chunk(i, k)
  <2>. DEFINE e == [start |-> at[k - 1], len |-> r.sizes[k].len,
                    raw |-> r.sizes[k].raw]
  <2>1. /\ k \in 0 .. Len(r.sizes) /\ k - 1 \in 0 .. Len(r.sizes)
        /\ r.sizes[k] \in Size
    BY <1>2, <1>4, LenProperties, ElementOfSeq
  <2>2. at[k - 1] \in r.start .. EndOf(r) /\ at[k] \in r.start .. EndOf(r)
    BY <2>1
  <2>3. e.start \in Int /\ e.len \in Nat /\ 0 <= e.start /\ EndOf(e) <= End
    <3>1. r.sizes[k].len \in Nat
      BY <2>1 DEF Size
    <3>2. at[k] = at[k - 1] + r.sizes[k].len
      BY <1>3, <1>4
    <3>3. EndOf(e) = at[k]
      BY <3>2 DEF EndOf
    <3>. QED  BY <1>2, <2>2, <3>1, <3>3
  <2>4. Stored(e) = Chunk(i, k)
    BY <1>3, <1>4
  <2>. HIDE DEF e
  <2>5. PICK x : x = e
    OBVIOUS
  <2>6. Stored(x)' = Stored(x)
    BY <2>3, <2>5, StoredStays
  <2>. QED  BY <2>4, <2>5, <2>6 DEF e
<1>5. \A k \in DOMAIN r.sizes :
        /\ at[k] = at[k - 1] + r.sizes[k].len
        /\ Stored([start |-> at[k - 1], len |-> r.sizes[k].len,
                   raw |-> r.sizes[k].raw])' = Chunk(i, k)'
  BY <1>3, <1>4 DEF Chunk
<1>. QED  BY <1>1, <1>3, <1>5 DEF BlocksWritten, EndOf

LEMMA SizesType ==
  ASSUME TypeOK, NEW i \in Inodes
  PROVE  /\ reports[i] \in Report /\ reports[i].sizes \in Seq(Size)
         /\ Len(reports[i].sizes) \in Nat
<1>1. reports[i] \in Report
  BY DEF TypeOK, LayoutOK
<1>. QED  BY <1>1, LenProperties DEF Report

\* Nothing is queued or reported.
LEMMA BlocksKeptSame ==
  ASSUME TypeOK, TypeOK', Control, Ordered, [Next]_vars, stream = "good",
         UNCHANGED input, NEW i \in Inodes, NEW n, reports'[i] = reports[i],
         Pending' = Pending, BlocksKept(i, n)
  PROVE  BlocksKept(i, n)'
<1>1. BlocksWritten(i, reports[i])'
  BY WrittenStays DEF BlocksKept
<1>. QED  BY <1>1 DEF BlocksKept, Chunk, Numbered

\* An item is queued; if it is of this file, it is the next block.
LEMMA BlocksKeptQueued ==
  ASSUME TypeOK, TypeOK', Control, Ordered, [Next]_vars, stream = "good",
         UNCHANGED input, NEW i \in Inodes, NEW n \in Nat, NEW next,
         reports'[i] = reports[i],
         NEW item \in Items, Appends(Pending, item, Pending'), BlocksKept(i, n),
         IF TableOf(item) = i
           THEN item.number = n /\ item.data = Chunk(i, n + 1) /\ next = n + 1
           ELSE next = n
  PROVE  BlocksKept(i, next)'
<1>1. BlocksWritten(i, reports[i])'
  BY WrittenStays DEF BlocksKept
<1>2. Len(reports[i].sizes) \in Nat
  BY SizesType
<1>3. Numbered(Pending', i, Len(reports[i].sizes), next)
  <2>1. Pending \in Seq(Items) /\ Pending' = Pending \o <<item>>
    BY DEF Appends
  <2>2. Numbered(Pending, i, Len(reports[i].sizes), n)
    BY DEF BlocksKept
  <2>3. CASE TableOf(item) = i
    BY <1>2, <2>1, <2>2, <2>3, NumberedAppendNext DEF MakesEntry
  <2>4. CASE TableOf(item) # i
    BY <1>2, <2>1, <2>2, <2>4, NumberedAppendOther
  <2>. QED  BY <2>3, <2>4
<1>4. ASSUME NEW k \in DOMAIN Pending', TableOf(Pending'[k]) = i
      PROVE  Pending'[k].data = Chunk(i, Pending'[k].number + 1)
  <2>1. CASE k \in DOMAIN Pending /\ Pending'[k] = Pending[k]
    BY <1>4, <2>1 DEF BlocksKept
  <2>2. CASE Pending'[k] = item
    BY <1>4, <2>2
  <2>. QED  BY <2>1, <2>2 DEF Appends
<1>. QED  BY <1>1, <1>3, <1>4 DEF BlocksKept, Chunk, Numbered

\* An item of another table is done with.
LEMMA BlocksKeptHandled ==
  ASSUME TypeOK, TypeOK', Control, Ordered, [Next]_vars, stream = "good",
         UNCHANGED input, NEW i \in Inodes, NEW n \in Nat,
         reports'[i] = reports[i],
         Begins(Pending, Item, Pending'), TableOf(Item) # i, BlocksKept(i, n)
  PROVE  BlocksKept(i, n)'
<1>1. BlocksWritten(i, reports[i])'
  BY WrittenStays DEF BlocksKept
<1>2. Len(reports[i].sizes) \in Nat
  BY SizesType
<1>3. Numbered(Pending', i, Len(reports[i].sizes), n)
  <2>1. /\ Pending' \in Seq(Items) /\ Item \in Items
        /\ Pending = <<Item>> \o Pending'
    BY DEF Begins
  <2>2. Numbered(<<Item>> \o Pending', i, Len(reports[i].sizes), n)
    BY <2>1 DEF BlocksKept
  <2>. QED  BY <1>2, <2>1, <2>2, NumberedHead
<1>4. ASSUME NEW k \in DOMAIN Pending', TableOf(Pending'[k]) = i
      PROVE  Pending'[k].data = Chunk(i, Pending'[k].number + 1)
  <2>1. k + 1 \in DOMAIN Pending /\ Pending[k + 1] = Pending'[k]
    BY DEF Begins
  <2>. QED  BY <1>4, <2>1 DEF BlocksKept
<1>. QED  BY <1>1, <1>3, <1>4 DEF BlocksKept, Chunk, Numbered

\* The item that is reported has been stored.
LEMMA ItemStored ==
  ASSUME TypeOK, Control, InHand, wpc = "report", stream = "good"
  PROVE  Stored([start |-> tell, len |-> SizeWord.len, raw |-> SizeWord.raw])
           = Item.data
<1>1. BytesOf([start |-> tell, len |-> SizeWord.len]) = Compress(Item.data).bytes
  BY DEF InHand, ItemInHand
<1>2. BytesOf([start |-> tell, len |-> SizeWord.len, raw |-> SizeWord.raw])
        = BytesOf([start |-> tell, len |-> SizeWord.len])
  BY DEF BytesOf
<1>3. SizeWord.raw = Compress(Item.data).raw
  BY DEF SizeWord
<1>. QED  BY <1>1, <1>2, <1>3, ItemType, RoundTrip DEF Stored

\* The block that is reported is the next one of its file.
LEMMA BlocksKeptReported ==
  ASSUME TypeOK, TypeOK', Control, Ordered, InHand, ReportBlock, stream = "good",
         NEW i \in Inodes, i = Item.inode, NEW n \in Nat, BlocksKept(i, n)
  PROVE  BlocksKept(i, n)'
<1>1. /\ wpc = "report" /\ Item.kind = "block" /\ held' = <<>>
      /\ UNCHANGED <<input, queue, pushing, disk, file>>
  BY DEF ReportBlock, Handled, channel, options, disk
<1>2. /\ Begins(Pending, Item, Pending') /\ TableOf(Item) = i
      /\ SizeWord \in Size /\ SizeWord.len \in Nat
  BY <1>1, PendingHandled, ItemType, TableOfItem, SizeWordType
<1>. DEFINE old == reports[i]
            new == [start |-> IF old.sizes = <<>> THEN tell ELSE old.start,
                    sizes |-> Append(old.sizes, SizeWord),
                    len   |-> old.len + SizeWord.len]
            done == Len(old.sizes)
<1>3. /\ old \in Report /\ old.sizes \in Seq(Size) /\ done \in Nat
      /\ old.start \in Int /\ old.len \in Nat /\ tell \in Int
  BY SizesType DEF Report, TypeOK, WriterOK
<1>4. reports'[i] = new
  BY DEF ReportBlock, TypeOK, LayoutOK
<1>5. /\ DOMAIN old.sizes = 1 .. done /\ DOMAIN new.sizes = 1 .. done + 1
      /\ Len(new.sizes) = done + 1
      /\ \A k \in 1 .. done : new.sizes[k] = old.sizes[k]
      /\ new.sizes[done + 1] = SizeWord
  BY <1>2, <1>3, AppendProperties, LenProperties
<1>6. Numbered(<<Item>> \o Pending', i, done, n)
  BY <1>2 DEF BlocksKept, Begins
<1>7. Item.number = done /\ Numbered(Pending', i, done + 1, n)
  BY <1>2, <1>3, <1>6, NumberedHead DEF Begins
<1>8. Item.data = Chunk(i, done + 1)
  <2>1. 1 \in DOMAIN Pending /\ Pending[1] = Item
    BY <1>2 DEF Begins
  <2>2. Pending[1].data = Chunk(i, Pending[1].number + 1)
    BY <1>2, <2>1 DEF BlocksKept
  <2>. QED  BY <1>7, <2>1, <2>2
<1>9. /\ EndOf(old) \in Int /\ EndOf(new) = new.start + new.len
      /\ done # 0 => /\ old # NoReport /\ EndOf(old) = tell
                     /\ new.start = old.start /\ old.start <= tell
      /\ done = 0 => /\ new.start = tell /\ old.len = 0
      /\ EndOf(new) = tell + SizeWord.len
  <2>1. EndOf(old) \in Int /\ EndOf(old) = old.start + old.len
    BY <1>3 DEF EndOf
  <2>2. CASE done # 0
    <3>1. old.sizes # <<>> /\ old # NoReport
      BY <1>3, <2>2, EmptySeq DEF NoReport
    <3>2. EndOf(old) = tell
      BY <1>1, <3>1, HeadIsOpen DEF Ordered, BlocksLast, End
    <3>. QED  BY <1>2, <1>3, <2>1, <2>2, <3>1, <3>2 DEF EndOf
  <2>3. CASE done = 0
    <3>1. old.sizes = <<>>
      BY <1>3, <2>3, EmptySeq
    <3>2. old.len = 0
      BY <3>1 DEF Ordered, ReportsInOrder, NoReport
    <3>. QED  BY <1>2, <1>3, <2>1, <2>3, <3>1, <3>2 DEF EndOf
  <2>. QED  BY <2>2, <2>3
<1>. HIDE DEF new, done
<1>10. PICK at \in [0 .. done -> new.start .. tell] :
         /\ at[0] = new.start /\ at[done] = tell
         /\ \A k \in 1 .. done :
              /\ at[k] = at[k - 1] + old.sizes[k].len
              /\ Stored([start |-> at[k - 1], len |-> old.sizes[k].len,
                         raw |-> old.sizes[k].raw]) = Chunk(i, k)
  <2>1. CASE done = 0
    <3>. DEFINE at == [k \in 0 .. 0 |-> tell]
    <3>1. at \in [0 .. done -> new.start .. tell] /\ at[0] = tell
      BY <1>3, <1>9, <2>1
    <3>. HIDE DEF at
    <3>2. 1 .. done = {}
      BY <2>1
    <3>. QED  BY <1>9, <2>1, <3>1, <3>2
  <2>2. CASE done # 0
    <3>1. BlocksWritten(i, old)
      BY DEF BlocksKept
    <3>2. PICK r : r = old
      OBVIOUS
    <3>3. PICK at \in [0 .. Len(r.sizes) -> r.start .. EndOf(r)] :
            /\ at[0] = r.start /\ at[Len(r.sizes)] = EndOf(r)
            /\ \A k \in DOMAIN r.sizes :
                 /\ at[k] = at[k - 1] + r.sizes[k].len
                 /\ Stored([start |-> at[k - 1], len |-> r.sizes[k].len,
                            raw |-> r.sizes[k].raw]) = Chunk(i, k)
      BY <3>1, <3>2 DEF BlocksWritten
    <3>4. /\ DOMAIN r.sizes = 1 .. done /\ Len(r.sizes) = done
          /\ EndOf(r) = tell /\ r.start = new.start /\ r.sizes = old.sizes
      BY <1>5, <1>9, <2>2, <3>2 DEF done
    <3>5. at \in [0 .. done -> new.start .. tell] /\ at[0] = new.start /\ at[done] = tell
      BY <3>3, <3>4
    <3>6. ASSUME NEW k \in 1 .. done
          PROVE  /\ at[k] = at[k - 1] + old.sizes[k].len
                 /\ Stored([start |-> at[k - 1], len |-> old.sizes[k].len,
                            raw |-> old.sizes[k].raw]) = Chunk(i, k)
      BY <3>3, <3>4
    <3>. QED  BY <3>5, <3>6
  <2>. QED  BY <2>1, <2>2
<1>. DEFINE upto == [k \in 0 .. done + 1 |->
                       IF k <= done THEN at[k] ELSE tell + SizeWord.len]
<1>11. /\ upto \in [0 .. done + 1 -> new.start .. EndOf(new)]
       /\ upto[0] = new.start /\ upto[done + 1] = EndOf(new) /\ upto[done] = tell
       /\ \A k \in 0 .. done : upto[k] = at[k]
  <2>1. ASSUME NEW k \in 0 .. done + 1
        PROVE  (IF k <= done THEN at[k] ELSE tell + SizeWord.len)
                 \in new.start .. tell + SizeWord.len
    <3>1. new.start <= tell /\ new.start \in Int
      <4>1. done \in 0 .. done
        BY <1>3
      <4>2. at[done] \in new.start .. tell
        BY <4>1
      <4>3. new.start \in Int
        BY <1>3 DEF new
      <4>. QED  BY <1>3, <4>2, <4>3
    <3>2. CASE k <= done
      <4>1. k \in 0 .. done
        BY <1>3, <3>2
      <4>2. at[k] \in new.start .. tell
        BY <4>1
      <4>. QED  BY <1>2, <1>3, <3>1, <3>2, <4>2
    <3>3. CASE ~(k <= done)
      <4>1. tell \in Int /\ SizeWord.len \in Nat
        BY <1>2, <1>3
      <4>2. tell + SizeWord.len \in new.start .. tell + SizeWord.len
        BY <3>1, <4>1
      <4>. QED  BY <3>3, <4>2
    <3>. QED  BY <3>2, <3>3
  <2>2. upto \in [0 .. done + 1 -> new.start .. EndOf(new)]
    BY <1>9, <2>1
  <2>3. ASSUME NEW k \in 0 .. done PROVE upto[k] = at[k]
    <3>1. k \in 0 .. done + 1 /\ k <= done
      BY <1>3
    <3>. QED  BY <3>1
  <2>4. upto[0] = new.start /\ upto[done] = tell
    BY <1>3, <1>10, <2>3
  <2>5. upto[done + 1] = EndOf(new)
    <3>1. done + 1 \in 0 .. done + 1 /\ ~(done + 1 <= done)
      BY <1>3
    <3>. QED  BY <1>9, <3>1
  <2>. HIDE DEF upto
  <2>. QED  BY <2>2, <2>3, <2>4, <2>5
<1>. HIDE DEF upto
<1>12. ASSUME NEW k \in DOMAIN new.sizes
       PROVE  /\ upto[k] = upto[k - 1] + new.sizes[k].len
              /\ Stored([start |-> upto[k - 1], len |-> new.sizes[k].len,
                         raw |-> new.sizes[k].raw]) = Chunk(i, k)
  <2>1. CASE k \in 1 .. done
    <3>1. k \in 0 .. done /\ k - 1 \in 0 .. done
      BY <1>3, <2>1
    <3>2. upto[k] = at[k] /\ upto[k - 1] = at[k - 1] /\ new.sizes[k] = old.sizes[k]
      BY <1>5, <1>11, <2>1, <3>1
    <3>. QED  BY <1>10, <2>1, <3>2
  <2>2. CASE k = done + 1
    <3>1. k - 1 = done /\ new.sizes[k] = SizeWord
      BY <1>3, <1>5, <2>2
    <3>2. upto[k] = upto[k - 1] + new.sizes[k].len
      BY <1>9, <1>11, <2>2, <3>1
    <3>3. Stored([start |-> tell, len |-> SizeWord.len, raw |-> SizeWord.raw])
            = Chunk(i, k)
      BY <1>1, <1>8, <2>2, ItemStored
    <3>. QED  BY <1>11, <3>1, <3>2, <3>3
  <2>. QED  BY <1>3, <1>5, <1>12, <2>1, <2>2
<1>13. PICK u, r : u = upto /\ r = new
  OBVIOUS
<1>14. BlocksWritten(i, reports[i])'
  <2>1. /\ u \in [0 .. Len(r.sizes) -> r.start .. EndOf(r)]
        /\ u[0] = r.start /\ u[Len(r.sizes)] = EndOf(r)
    BY <1>5, <1>11, <1>13
  <2>2. ASSUME NEW k \in DOMAIN r.sizes
        PROVE  /\ u[k] = u[k - 1] + r.sizes[k].len
               /\ Stored([start |-> u[k - 1], len |-> r.sizes[k].len,
                          raw |-> r.sizes[k].raw])' = Chunk(i, k)'
    BY <1>1, <1>12, <1>13, <2>2 DEF Stored, BytesOf, Chunk
  <2>. QED  BY <1>4, <1>13, <2>1, <2>2 DEF BlocksWritten, EndOf
<1>15. Len(reports'[i].sizes) = done + 1
  BY <1>4, <1>5
<1>16. ASSUME NEW k \in DOMAIN Pending', TableOf(Pending'[k]) = i
       PROVE  Pending'[k].data = Chunk(i, Pending'[k].number + 1)
  <2>1. k + 1 \in DOMAIN Pending /\ Pending[k + 1] = Pending'[k]
    BY <1>2 DEF Begins
  <2>. QED  BY <1>16, <2>1 DEF BlocksKept
<1>. QED
  BY <1>1, <1>7, <1>14, <1>15, <1>16 DEF BlocksKept, Chunk, Numbered

\* Equal ranges of a sequence have equal parts.
LEMMA PartsEqual ==
  ASSUME NEW S, NEW s \in Seq(S), NEW a \in Nat, NEW c \in Nat, NEW n \in Nat,
         a + n <= Len(s), c + n <= Len(s),
         SubSeq(s, a + 1, a + n) = SubSeq(s, c + 1, c + n),
         NEW f \in Nat, NEW g \in Nat, NEW l \in Nat,
         a <= f, f + l <= a + n, g = f + (c - a)
  PROVE  SubSeq(s, f + 1, f + l) = SubSeq(s, g + 1, g + l)
<1>. Len(s) \in Nat
  BY LenProperties
<1>1. \A k \in 1 .. n : s[a + k] = s[c + k]
  <2>1. /\ a + n \in Nat /\ c + n \in Nat /\ (a + n) - a = n /\ (c + n) - c = n
    OBVIOUS
  <2>2. \A k \in 1 .. (a + n) - a : SubSeq(s, a + 1, a + n)[k] = s[a + k]
    BY <2>1, RangeProperties
  <2>3. \A k \in 1 .. (c + n) - c : SubSeq(s, c + 1, c + n)[k] = s[c + k]
    BY <2>1, RangeProperties
  <2>. QED  BY <2>1, <2>2, <2>3
<1>2. ASSUME NEW k \in 1 .. l PROVE s[f + k] = s[g + k]
  <2>. PICK j : j = (f - a) + k
    OBVIOUS
  <2>1. j \in 1 .. n /\ a + j = f + k /\ c + j = g + k
    OBVIOUS
  <2>2. s[a + j] = s[c + j]
    BY <1>1, <2>1
  <2>. QED  BY <2>1, <2>2
<1>3. PICK b : b = f + l
  OBVIOUS
<1>4. PICK d : d = g + l
  OBVIOUS
<1>5. /\ b \in Nat /\ d \in Nat /\ b - f = l /\ d - g = l
      /\ b <= Len(s) /\ d <= Len(s)
  BY <1>3, <1>4
<1>6. \A k \in 1 .. b - f : s[f + k] = s[g + k]
  BY <1>2, <1>5
<1>7. SubSeq(s, f + 1, b) = SubSeq(s, g + 1, d)
  BY <1>5, <1>6, RangesEqual
<1>. QED  BY <1>3, <1>4, <1>7

\* In two places that hold the same bytes, their parts are the same, too.
LEMMA SamePart ==
  ASSUME file \in Seq(Byte), NEW r, NEW s,
         r.start \in Nat, r.len \in Nat, EndOf(r) <= Len(file),
         s.start \in Nat, s.len \in Nat, EndOf(s) <= Len(file),
         BytesOf(r) = BytesOf(s),
         NEW e, NEW x, e.len \in Nat, x.len = e.len, e.start \in Nat,
         r.start <= e.start, EndOf(e) <= EndOf(r),
         x.start = e.start + (s.start - r.start)
  PROVE  BytesOf(x) = BytesOf(e)
<1>. DEFINE a == r.start
            c == s.start
            n == r.len
            f == e.start
            g == e.start + (s.start - r.start)
            l == e.len
<1>1. /\ a \in Nat /\ c \in Nat /\ n \in Nat /\ f \in Nat /\ l \in Nat /\ g \in Nat
      /\ a <= f /\ f + l <= a + n /\ g = f + (c - a) /\ Len(file) \in Nat
      /\ a + n <= Len(file) /\ EndOf(r) = a + n /\ EndOf(e) = f + l
      /\ EndOf(s) = c + s.len
  BY LenProperties DEF EndOf
<1>2. /\ BytesOf(r) = SubSeq(file, a + 1, a + n) /\ Len(BytesOf(r)) = n
      /\ BytesOf(s) = SubSeq(file, c + 1, c + s.len) /\ Len(BytesOf(s)) = s.len
  <2>1. BytesOf(r) = SubSeq(file, r.start + 1, EndOf(r)) /\ Len(BytesOf(r)) = r.len
    BY BytesWithin
  <2>2. BytesOf(s) = SubSeq(file, s.start + 1, EndOf(s)) /\ Len(BytesOf(s)) = s.len
    <3>1. /\ file \in Seq(Byte) /\ s.start \in Int /\ s.len \in Nat /\ 0 <= s.start
          /\ EndOf(s) <= Len(file)
      OBVIOUS
    <3>. QED  BY ONLY <3>1, BytesWithin
  <2>. QED  BY <1>1, <2>1, <2>2
<1>3. s.len = n /\ c + n <= Len(file)
  BY <1>1, <1>2
<1>4. EndOf(x) = g + l /\ g + l <= Len(file) /\ f + l <= Len(file)
  <2>1. EndOf(x) = g + l
    BY DEF EndOf
  <2>2. g + l <= Len(file) /\ f + l <= Len(file)
    <3>. HIDE DEF a, c, n, f, g, l
    <3>. QED  BY <1>1, <1>3
  <2>. QED  BY <2>1, <2>2
<1>5. /\ BytesOf(e) = SubSeq(file, f + 1, f + l)
      /\ BytesOf(x) = SubSeq(file, g + 1, g + l)
  <2>1. /\ e.start \in Int /\ e.len \in Nat /\ 0 <= e.start /\ EndOf(e) <= Len(file)
        /\ x.start \in Int /\ x.len \in Nat /\ 0 <= x.start /\ EndOf(x) <= Len(file)
    BY <1>1, <1>4
  <2>2. BytesOf(e) = SubSeq(file, e.start + 1, EndOf(e))
    <3>. HIDE DEF a, c, n, f, g, l
    <3>. QED  BY <2>1, BytesWithin
  <2>3. BytesOf(x) = SubSeq(file, x.start + 1, EndOf(x))
    <3>. HIDE DEF a, c, n, f, g, l
    <3>. QED  BY <2>1, BytesWithin
  <2>. QED  BY <1>1, <1>4, <2>2, <2>3
<1>6. SubSeq(file, a + 1, a + n) = SubSeq(file, c + 1, c + n)
  BY <1>2, <1>3
<1>. HIDE DEF a, c, n, f, g, l
<1>7. SubSeq(file, f + 1, f + l) = SubSeq(file, g + 1, g + l)
  <2>1. /\ a \in Nat /\ c \in Nat /\ n \in Nat /\ f \in Nat /\ g \in Nat /\ l \in Nat
        /\ a + n <= Len(file) /\ c + n <= Len(file)
        /\ a <= f /\ f + l <= a + n /\ g = f + (c - a)
    BY <1>1, <1>3
  <2>. QED  BY <1>6, <2>1, PartsEqual, SMTT(30)
<1>. QED  BY <1>5, <1>7

\* A file that is a duplicate has the blocks it shares.
LEMMA BlocksKeptDropped ==
  ASSUME TypeOK, TypeOK', Control, Ordered, DropBlocks,
         NEW i \in Inodes, i = Item.inode, NEW n \in Nat, BlocksKept(i, n)
  PROVE  BlocksKept(i, n)'
<1>1. /\ wpc = "write" /\ Item.kind = "dedup" /\ held' = <<>> /\ stream = "good"
      /\ UNCHANGED <<input, queue, pushing, file>>
  BY DEF DropBlocks, Handled, channel, options
<1>2. Begins(Pending, Item, Pending') /\ TableOf(Item) # i
  BY <1>1, PendingHandled, ItemType, TableOfItem
<1>3. PICK k \in SameContent :
        reports' = [reports EXCEPT ![i] = reports[blocked_duplicates[k]]]
  BY DEF DropBlocks
<1>4. /\ k \in DOMAIN blocked_duplicates
      /\ reports[blocked_duplicates[k]].sizes = reports[i].sizes
      /\ BytesOf(reports[blocked_duplicates[k]]) = BytesOf(reports[i])
  BY <1>3 DEF SameContent, SameShape
<1>5. PICK b \in Inodes : b = blocked_duplicates[k]
  BY <1>4, ElementOfSeq, LenProperties DEF TypeOK, LayoutOK
<1>6. PICK r \in Report : r = reports[i]
  BY SizesType
<1>7. PICK s \in Report : s = reports[b] /\ s = reports'[i]
  BY <1>3, <1>5, SizesType DEF TypeOK, LayoutOK
<1>8. r.sizes = s.sizes /\ BytesOf(r) = BytesOf(s)
  <2>1. reports[blocked_duplicates[k]] = s
    BY <1>5, <1>7
  <2>. QED  BY <1>4, <1>6, <2>1
<1>9. /\ r.start \in Nat /\ r.len \in Nat /\ EndOf(r) <= Len(file)
      /\ s.start \in Nat /\ s.len \in Nat /\ EndOf(s) <= Len(file)
      /\ file \in Seq(Byte) /\ Len(file) \in Nat
  <2>1. End <= Len(file) /\ End \in Int /\ file \in Seq(Byte) /\ Len(file) \in Nat
    BY <1>1, LenProperties DEF End, TypeOK, DiskOK
  <2>2. /\ 0 <= r.start /\ EndOf(r) <= End /\ 0 <= s.start /\ EndOf(s) <= End
        /\ r.start \in Int /\ r.len \in Nat /\ s.start \in Int /\ s.len \in Nat
    BY <1>1, <1>6, <1>7, StoredBefore
  <2>3. EndOf(r) \in Int /\ EndOf(s) \in Int
    BY <2>2 DEF EndOf
  <2>. QED  BY <2>1, <2>2, <2>3
<1>10. s.len = r.len
  <2>1. Len(BytesOf(r)) = r.len /\ Len(BytesOf(s)) = s.len
    BY <1>9, BytesWithin
  <2>. QED  BY <1>8, <2>1
<1>. DEFINE done == Len(r.sizes)
            shift == s.start - r.start
<1>11. /\ done \in Nat /\ DOMAIN r.sizes = 1 .. done
       /\ EndOf(r) = r.start + r.len /\ EndOf(s) = EndOf(r) + shift
       /\ shift \in Int /\ s.start = r.start + shift
       /\ \A j \in 1 .. done : r.sizes[j].len \in Nat
  <2>1. r.sizes \in Seq(Size)
    BY DEF Report
  <2>2. \A j \in 1 .. done : r.sizes[j] \in Size
    BY <2>1, ElementOfSeq, LenProperties
  <2>3. done \in Nat /\ DOMAIN r.sizes = 1 .. done
    BY <2>1, LenProperties
  <2>4. \A j \in 1 .. done : r.sizes[j].len \in Nat
    BY <2>2 DEF Size
  <2>5. EndOf(r) = r.start + r.len /\ EndOf(s) = s.start + s.len
    BY DEF EndOf
  <2>6. /\ EndOf(s) = EndOf(r) + shift
        /\ shift \in Int /\ s.start = r.start + shift
    BY <1>9, <1>10, <2>5
  <2>. QED  BY <2>3, <2>4, <2>5, <2>6
<1>12. PICK at \in [0 .. done -> r.start .. EndOf(r)] :
         /\ at[0] = r.start /\ at[done] = EndOf(r)
         /\ \A j \in DOMAIN r.sizes :
              /\ at[j] = at[j - 1] + r.sizes[j].len
              /\ Stored([start |-> at[j - 1], len |-> r.sizes[j].len,
                         raw |-> r.sizes[j].raw]) = Chunk(i, j)
  BY <1>6 DEF BlocksKept, BlocksWritten
<1>. HIDE DEF done, shift
<1>. DEFINE moved == [j \in 0 .. done |-> at[j] + shift]
<1>13. /\ moved \in [0 .. done -> s.start .. EndOf(s)]
       /\ moved[0] = s.start /\ moved[done] = EndOf(s)
       /\ \A j \in 0 .. done : moved[j] = at[j] + shift
  <2>1. \A j \in 0 .. done : at[j] + shift \in s.start .. EndOf(s)
    <3>. SUFFICES ASSUME NEW j \in 0 .. done
                  PROVE  at[j] + shift \in s.start .. EndOf(s)
      OBVIOUS
    <3>1. at[j] \in r.start .. EndOf(r)
      OBVIOUS
    <3>2. \A x1, x2, x3, d \in Int : x1 \in x2 .. x3 => x1 + d \in x2 + d .. x3 + d
      OBVIOUS
    <3>3. r.start \in Int /\ EndOf(r) \in Int /\ at[j] \in Int
      BY <1>9, <1>11, <3>1
    <3>. QED  BY <1>11, <3>1, <3>2, <3>3
  <2>2. 0 \in 0 .. done /\ done \in 0 .. done
    BY <1>11
  <2>. QED  BY <1>11, <1>12, <2>1, <2>2
<1>. HIDE DEF moved
<1>14. ASSUME NEW j \in DOMAIN s.sizes
       PROVE  /\ moved[j] = moved[j - 1] + s.sizes[j].len
              /\ Stored([start |-> moved[j - 1], len |-> s.sizes[j].len,
                         raw |-> s.sizes[j].raw]) = Chunk(i, j)
  <2>. DEFINE e == [start |-> at[j - 1], len |-> r.sizes[j].len,
                    raw |-> r.sizes[j].raw]
              x == [start |-> moved[j - 1], len |-> s.sizes[j].len,
                    raw |-> s.sizes[j].raw]
  <2>1. j \in 1 .. done /\ j \in 0 .. done /\ j - 1 \in 0 .. done /\ j \in DOMAIN r.sizes
    BY <1>8, <1>11, <1>14
  <2>2. at[j] \in r.start .. EndOf(r) /\ at[j - 1] \in r.start .. EndOf(r)
    BY <2>1
  <2>3. /\ at[j] = at[j - 1] + r.sizes[j].len
        /\ moved[j] = at[j] + shift /\ moved[j - 1] = at[j - 1] + shift
    BY <1>12, <1>13, <2>1
  <2>4. r.sizes[j].len \in Nat /\ at[j - 1] \in Nat
    <3>1. r.sizes[j].len \in Nat
      BY <1>11, <2>1
    <3>. QED  BY <1>9, <2>2, <3>1
  <2>5. moved[j] = moved[j - 1] + s.sizes[j].len
    <3>1. s.sizes[j].len = r.sizes[j].len
      BY <1>8
    <3>2. \A x1, x2, x3, d \in Int : x1 = x2 + x3 => x1 + d = x2 + d + x3
      OBVIOUS
    <3>3. at[j - 1] \in Int /\ r.sizes[j].len \in Int /\ shift \in Int
      BY <1>11, <2>4
    <3>4. at[j] \in Int
      BY <2>3, <3>3
    <3>5. at[j] + shift = at[j - 1] + shift + r.sizes[j].len
      BY <2>3, <3>2, <3>3, <3>4
    <3>. QED  BY <2>3, <3>1, <3>5
  <2>6. BytesOf(x) = BytesOf(e)
    <3>1. EndOf(e) = at[j] /\ e.start = at[j - 1] /\ e.len = r.sizes[j].len
      BY <2>3 DEF EndOf
    <3>2. x.start = at[j - 1] + (s.start - r.start) /\ x.len = r.sizes[j].len
      BY <1>8, <2>3 DEF shift
    <3>3. r.start <= e.start /\ EndOf(e) <= EndOf(r)
      BY <1>9, <1>11, <2>2, <3>1
    <3>. HIDE DEF e, x
    <3>4. /\ e.start \in Nat /\ e.len \in Nat /\ x.len = e.len
          /\ x.start = e.start + (s.start - r.start)
      BY <2>4, <3>1, <3>2
    <3>5. BytesOf(r) = BytesOf(s)
      BY <1>8
    <3>. QED  BY <1>9, <3>3, <3>4, <3>5, SamePart
  <2>7. Stored(x) = Stored(e)
    BY <1>8, <2>6 DEF Stored
  <2>8. Stored(e) = Chunk(i, j)
    BY <1>12, <2>1
  <2>. QED  BY <2>5, <2>7, <2>8
<1>15. PICK u : u = moved
  OBVIOUS
<1>16. BlocksWritten(i, reports[i])'
  <2>1. /\ u \in [0 .. Len(s.sizes) -> s.start .. EndOf(s)]
        /\ u[0] = s.start /\ u[Len(s.sizes)] = EndOf(s)
    BY <1>8, <1>13, <1>15 DEF done
  <2>2. ASSUME NEW j \in DOMAIN s.sizes
        PROVE  /\ u[j] = u[j - 1] + s.sizes[j].len
               /\ Stored([start |-> u[j - 1], len |-> s.sizes[j].len,
                          raw |-> s.sizes[j].raw])' = Chunk(i, j)'
    BY <1>1, <1>14, <1>15, <2>2 DEF Stored, BytesOf, Chunk
  <2>3. reports'[i] = s
    BY <1>7
  <2>. QED  BY <2>1, <2>2, <2>3 DEF BlocksWritten, EndOf
<1>17. Numbered(Pending', i, Len(reports'[i].sizes), n)
  <2>1. /\ Pending' \in Seq(Items) /\ Item \in Items
        /\ Pending = <<Item>> \o Pending'
    BY <1>2 DEF Begins
  <2>2. Len(reports'[i].sizes) = Len(reports[i].sizes) /\ Len(reports[i].sizes) \in Nat
    BY <1>6, <1>7, <1>8, SizesType
  <2>3. Numbered(<<Item>> \o Pending', i, Len(reports[i].sizes), n)
    BY <2>1 DEF BlocksKept
  <2>4. Numbered(Pending', i, Len(reports[i].sizes), n)
    BY <1>2, <2>1, <2>2, <2>3, NumberedHead
  <2>. QED  BY <2>2, <2>4
<1>18. ASSUME NEW j \in DOMAIN Pending', TableOf(Pending'[j]) = i
       PROVE  Pending'[j].data = Chunk(i, Pending'[j].number + 1)
  <2>1. j + 1 \in DOMAIN Pending /\ Pending[j + 1] = Pending'[j]
    BY <1>2 DEF Begins
  <2>. QED  BY <1>18, <2>1 DEF BlocksKept
<1>. QED  BY <1>1, <1>16, <1>17, <1>18 DEF BlocksKept, Chunk, Numbered

\* Whatever a fragment holds, it holds afterwards as well.
HoldsMore ==
  \A f \in Int, bytes \in Seq(Byte), offset \in Nat :
    FragmentHolds(f, bytes, offset) => FragmentHolds(f, bytes, offset)'

\* A fragment that is appended to holds what it held, and what is appended.
LEMMA MatchesMore ==
  ASSUME NEW c \in Seq(Byte), NEW d \in Seq(Byte)
  PROVE  /\ \A b \in Seq(Byte), offset \in Nat :
              Matches(b, c, offset) => Matches(b, c \o d, offset)
         /\ Matches(d, c \o d, Len(c))
<1>1. /\ c \o d \in Seq(Byte) /\ Len(c \o d) = Len(c) + Len(d)
      /\ Len(c) \in Nat /\ Len(d) \in Nat
      /\ \A k \in 1 .. Len(c) + Len(d) :
           (c \o d)[k] = IF k <= Len(c) THEN c[k] ELSE d[k - Len(c)]
  BY ConcatProperties, LenProperties
<1>2. PICK e : e = c \o d
  OBVIOUS
<1>3. ASSUME NEW b \in Seq(Byte), NEW offset \in Nat, Matches(b, c, offset)
      PROVE  Matches(b, c \o d, offset)
  <2>1. Len(b) \in Nat /\ Len(b) + offset <= Len(c)
    BY <1>3, LenProperties DEF Matches
  <2>2. PICK m \in Nat : m = offset + Len(b)
    BY <2>1
  <2>3. \A k \in 1 .. m : c[k] = e[k]
    BY <1>1, <1>2, <2>1, <2>2
  <2>4. m <= Len(c) /\ m <= Len(e) /\ e \in Seq(Byte)
    BY <1>1, <1>2, <2>1, <2>2
  <2>5. SubSeq(c, offset + 1, m) = SubSeq(e, offset + 1, m)
    BY <2>3, <2>4, SameRange
  <2>. QED  BY <1>1, <1>2, <1>3, <2>1, <2>2, <2>4, <2>5 DEF Matches
<1>4. Matches(d, c \o d, Len(c))
  <2>1. PICK m \in Nat : m = Len(c) + Len(d)
    BY <1>1
  <2>2. PICK l \in Nat : l = Len(c)
    BY <1>1
  <2>3. /\ m - l = Len(d) /\ m <= Len(e) /\ e \in Seq(Byte) /\ l <= m
    BY <1>1, <1>2, <2>1, <2>2
  <2>4. /\ SubSeq(e, l + 1, m) \in Seq(Byte) /\ Len(SubSeq(e, l + 1, m)) = m - l
        /\ \A k \in 1 .. m - l : SubSeq(e, l + 1, m)[k] = e[l + k]
    BY <2>3, RangeProperties
  <2>5. \A k \in 1 .. m - l : e[l + k] = d[k]
    BY <1>1, <1>2, <2>1, <2>2
  <2>6. SubSeq(e, l + 1, m) = d
    BY <2>3, <2>4, <2>5, SeqEqual
  <2>. QED  BY <1>1, <1>2, <2>1, <2>2, <2>6 DEF Matches
<1>. QED  BY <1>3, <1>4

\* What a published fragment holds stays there.
LEMMA PublishedHolds ==
  ASSUME TypeOK, TypeOK', Control, Ordered, [Next]_vars, stream = "good",
         NEW f \in Int, f + 1 \in DOMAIN fragments
  PROVE  /\ f + 1 \in DOMAIN fragments'
         /\ Stored(fragments[f + 1])' = Stored(fragments[f + 1])
<1>1. /\ f + 1 \in 1 .. Len(fragments) /\ f + 1 \in 1 .. Len(fragments')
      /\ DOMAIN fragments = 1 .. Len(fragments)
      /\ DOMAIN fragments' = 1 .. Len(fragments')
      /\ fragments'[f + 1] = fragments[f + 1]
  BY FragmentsExtended, LenProperties
<1>2. PICK e : e = fragments[f + 1] /\ e = fragments'[f + 1]
  BY <1>1
<1>3. e.start \in Int /\ e.len \in Nat /\ 0 <= e.start /\ EndOf(e) <= End
  BY <1>1, <1>2, StoredBefore
<1>4. Stored(e)' = Stored(e)
  BY <1>3, StoredStays
<1>. QED  BY <1>1, <1>2, <1>4 DEF Stored, BytesOf

\* A step keeps what the fragments hold if it keeps it for the fragment that
\* is filled, and if each pending one stays pending or is published.
LEMMA FragmentsHoldMore ==
  ASSUME TypeOK, TypeOK', Control, Ordered, [Next]_vars, stream = "good",
         \A f \in Int, bytes \in Seq(Byte), offset \in Nat :
           f = fragment_count /\ Matches(bytes, current_fragment, offset)
             => FragmentHolds(f, bytes, offset)',
         \A k \in DOMAIN Pending :
           TableOf(Pending[k]) = 0 =>
             \/ \E l \in DOMAIN Pending' : Pending'[l] = Pending[k]
             \/ /\ Pending[k].number + 1 \in DOMAIN fragments'
                /\ \E e \in Entry : /\ fragments'[Pending[k].number + 1] = e
                                    /\ Stored(e)' = Pending[k].data
  PROVE  HoldsMore
<1>. SUFFICES ASSUME NEW f \in Int, NEW bytes \in Seq(Byte), NEW offset \in Nat,
                     FragmentHolds(f, bytes, offset)
              PROVE  FragmentHolds(f, bytes, offset)'
  BY DEF HoldsMore
<1>1. CASE f = fragment_count /\ Matches(bytes, current_fragment, offset)
  BY <1>1
<1>2. CASE f + 1 \in DOMAIN fragments
           /\ Matches(bytes, Stored(fragments[f + 1]), offset)
  <2>1. /\ f + 1 \in DOMAIN fragments'
        /\ Stored(fragments[f + 1])' = Stored(fragments[f + 1])
    BY <1>2, PublishedHolds
  <2>. QED  BY <1>2, <2>1 DEF FragmentHolds, Matches
<1>3. ASSUME NEW k \in DOMAIN Pending, MakesEntry(Pending[k], 0, f),
             Matches(bytes, Pending[k].data, offset)
      PROVE  FragmentHolds(f, bytes, offset)'
  <2>1. TableOf(Pending[k]) = 0 /\ Pending[k].number = f
    BY <1>3 DEF MakesEntry
  <2>2. CASE \E l \in DOMAIN Pending' : Pending'[l] = Pending[k]
    <3>1. PICK l \in DOMAIN Pending' : Pending'[l] = Pending[k]
      BY <2>2
    <3>2. MakesEntry(Pending[l], 0, f)' /\ Matches(bytes, Pending'[l].data, offset)
      BY <1>3, <3>1 DEF MakesEntry, TableOf
    <3>. QED  BY <3>1, <3>2 DEF FragmentHolds, Matches
  <2>3. CASE /\ f + 1 \in DOMAIN fragments'
             /\ \E e \in Entry : fragments'[f + 1] = e /\ Stored(e)' = Pending[k].data
    <3>1. PICK e \in Entry : fragments'[f + 1] = e /\ Stored(e)' = Pending[k].data
      BY <2>3
    <3>2. Stored(fragments[f + 1])' = Pending[k].data
      BY <3>1 DEF Stored, BytesOf
    <3>. QED  BY <1>3, <2>3, <3>2 DEF FragmentHolds, Matches
  <2>. QED  BY <2>1, <2>2, <2>3
<1>. QED  BY <1>1, <1>2, <1>3 DEF FragmentHolds

LEMMA HoldsKept ==
  ASSUME TypeOK, TypeOK', Control, Ordered, [Next]_vars, stream = "good",
         UNCHANGED <<fragment_count, current_fragment>>, Pending' = Pending
  PROVE  HoldsMore
<1>1. ASSUME NEW f \in Int, NEW bytes \in Seq(Byte), NEW offset \in Nat,
             f = fragment_count, Matches(bytes, current_fragment, offset)
      PROVE  FragmentHolds(f, bytes, offset)'
  BY <1>1 DEF FragmentHolds, Matches
<1>. QED  BY <1>1, FragmentsHoldMore

LEMMA HoldsQueued ==
  ASSUME TypeOK, TypeOK', Control, Ordered, [Next]_vars, stream = "good",
         NEW item \in Items, Appends(Pending, item, Pending'),
         \/ UNCHANGED <<fragment_count, current_fragment>>
         \/ MakesEntry(item, 0, fragment_count) /\ item.data = current_fragment
  PROVE  HoldsMore
<1>1. ASSUME NEW f \in Int, NEW bytes \in Seq(Byte), NEW offset \in Nat,
             f = fragment_count, Matches(bytes, current_fragment, offset)
      PROVE  FragmentHolds(f, bytes, offset)'
  <2>1. CASE UNCHANGED <<fragment_count, current_fragment>>
    BY <1>1, <2>1 DEF FragmentHolds, Matches
  <2>2. CASE MakesEntry(item, 0, fragment_count) /\ item.data = current_fragment
    <3>1. PICK l \in DOMAIN Pending' : Pending'[l] = item
      <4>1. Len(Pending) + 1 \in DOMAIN Pending' /\ Pending'[Len(Pending) + 1] = item
        BY DEF Appends
      <4>. QED  BY <4>1
    <3>2. MakesEntry(Pending[l], 0, f)' /\ Matches(bytes, Pending'[l].data, offset)
      BY <1>1, <2>2, <3>1 DEF MakesEntry, TableOf
    <3>. QED  BY <3>1, <3>2 DEF FragmentHolds, Matches
  <2>. QED  BY <2>1, <2>2
<1>2. \A k \in DOMAIN Pending : \E l \in DOMAIN Pending' : Pending'[l] = Pending[k]
  BY DEF Appends
<1>. QED  BY <1>1, <1>2, FragmentsHoldMore

LEMMA HoldsInserted ==
  ASSUME TypeOK, TypeOK', Control, Ordered, [Next]_vars, stream = "good", Insert
  PROVE  /\ HoldsMore
         /\ \A f, bytes, offset :
              /\ f = fragment_count
              /\ bytes = current_block
              /\ offset = Len(current_fragment)
              => FragmentHolds(f, bytes, offset)'
<1>1. /\ current_fragment \in Seq(Byte) /\ current_block \in Seq(Byte)
      /\ current_fragment' = current_fragment \o current_block
      /\ UNCHANGED fragment_count /\ Pending' = Pending
  BY BlockIsSeq DEF TypeOK, PackingOK, ReadingOK, Insert, Pending, channel, writer
<1>2. ASSUME NEW f \in Int, NEW bytes \in Seq(Byte), NEW offset \in Nat,
             f = fragment_count, Matches(bytes, current_fragment, offset)
      PROVE  FragmentHolds(f, bytes, offset)'
  <2>1. Matches(bytes, current_fragment', offset)
    BY <1>1, <1>2, MatchesMore
  <2>. QED  BY <1>1, <1>2, <2>1 DEF FragmentHolds, Matches
<1>3. HoldsMore
  BY <1>1, <1>2, FragmentsHoldMore
<1>4. ASSUME NEW f, NEW bytes, NEW offset, f = fragment_count,
             bytes = current_block, offset = Len(current_fragment)
      PROVE  FragmentHolds(f, bytes, offset)'
  <2>1. Matches(bytes, current_fragment', offset)
    BY <1>1, <1>4, MatchesMore
  <2>. QED  BY <1>1, <1>4, <2>1 DEF FragmentHolds, Matches
<1>. QED  BY <1>3, <1>4

LEMMA HoldsHandled ==
  ASSUME TypeOK, TypeOK', Control, Ordered, FragmentNumbering, InHand,
         [Next]_vars, Healthy, wpc \in {"write", "report"},
         Begins(Pending, Item, Pending'),
         UNCHANGED <<fragment_count, current_fragment>>,
         Item.kind = "fragment" => ReportFragment
  PROVE  HoldsMore
<1>1. stream = "good" /\ Numbered(Pending, 0, Len(fragments), fragment_count)
  BY DEF Healthy, FragmentNumbering
<1>2. Item \in Items /\ (TableOf(Item) = 0 <=> Item.kind = "fragment")
  BY ItemType, TableOfItem
<1>3. ASSUME NEW f \in Int, NEW bytes \in Seq(Byte), NEW offset \in Nat,
             f = fragment_count, Matches(bytes, current_fragment, offset)
      PROVE  FragmentHolds(f, bytes, offset)'
  BY <1>3 DEF FragmentHolds, Matches
<1>4. ASSUME NEW k \in DOMAIN Pending, TableOf(Pending[k]) = 0
      PROVE  \/ \E l \in DOMAIN Pending' : Pending'[l] = Pending[k]
             \/ /\ Pending[k].number + 1 \in DOMAIN fragments'
                /\ \E e \in Entry : /\ fragments'[Pending[k].number + 1] = e
                                    /\ Stored(e)' = Pending[k].data
  <2>1. CASE k # 1
    <3>1. k - 1 \in DOMAIN Pending' /\ Pending'[k - 1] = Pending[k]
      <4>1. k \in 1 .. Len(Pending') + 1 /\ Len(Pending') \in Nat
        BY DEF Begins
      <4>2. k - 1 \in DOMAIN Pending' /\ (k - 1) + 1 = k
        BY <2>1, <4>1 DEF Begins
      <4>. QED  BY <4>2 DEF Begins
    <3>. QED  BY <3>1
  <2>2. CASE k = 1
    <3>1. Pending[k] = Item /\ ReportFragment
      BY <1>2, <1>4, <2>2 DEF Begins
    <3>2. wpc = "report" /\ UNCHANGED disk
      BY <3>1 DEF ReportFragment
    <3>3. PICK e : /\ e = [start |-> tell, len |-> SizeWord.len,
                           raw |-> SizeWord.raw]
                   /\ fragments' = Append(fragments, e)
      BY <3>1 DEF ReportFragment
    <3>4. e \in Entry
      BY <3>2, <3>3, SizeWordType DEF TypeOK, WriterOK, Entry, Size
    <3>5. Item.number = Len(fragments)
      <4>1. Pending' \in Seq(Items) /\ Pending = <<Item>> \o Pending'
        BY DEF Begins
      <4>2. Len(fragments) \in Nat /\ fragment_count \in Nat
        BY LenProperties DEF TypeOK, LayoutOK, PackingOK
      <4>. QED  BY <1>1, <1>2, <1>4, <3>1, <4>1, <4>2, NumberedHead
    <3>6. /\ Len(fragments) + 1 \in DOMAIN fragments'
          /\ fragments'[Len(fragments) + 1] = e
      BY <3>3, <3>4, AppendProperties, LenProperties DEF TypeOK, LayoutOK
    <3>7. Stored(e) = Item.data
      BY <1>1, <3>2, <3>3, ItemStored
    <3>8. Stored(e)' = Stored(e)
      BY <3>2 DEF Stored, BytesOf, disk
    <3>. QED  BY <3>1, <3>4, <3>5, <3>6, <3>7, <3>8
  <2>. QED  BY <2>1, <2>2
<1>. QED  BY <1>1, <1>3, <1>4, FragmentsHoldMore

\* What is behind the first n blocks of s, and the block after them.
RestOf(s, n) == SubSeq(s, n * BlockSize + 1, Len(s))
NextOf(s, n) == SubSeq(s, n * BlockSize + 1, Min({(n + 1) * BlockSize, Len(s)}))

\* What is cut from the rest of a file is its next block.
CutAs(s, c, u, n) == n + 1 <= Len(s) /\ c = NextOf(s, n) /\ u = RestOf(s, n + 1)

LEMMA NextIsCut ==
  ASSUME NEW s \in Seq(Byte), NEW c \in Seq(Byte), NEW u \in Seq(Byte),
         NEW n \in Nat, c # <<>>, Len(c) <= BlockSize,
         Len(c) < BlockSize => u = <<>>,
         c \o u = RestOf(s, n)
  PROVE  CutAs(s, c, u, n)
<1>. SUFFICES n + 1 <= Len(s) /\ c = NextOf(s, n) /\ u = RestOf(s, n + 1)
  BY DEF CutAs
<1>1. BlockSize \in Nat /\ BlockSize >= 1
  BY BlockSizeAssumption
<1>2. PICK a \in Nat : a = n * BlockSize /\ (n + 1) * BlockSize = a + BlockSize /\ n <= a
  <2>1. n * BlockSize \in Nat /\ (n + 1) * BlockSize = n * BlockSize + BlockSize
    BY <1>1
  <2>2. PICK b \in Nat : BlockSize = b + 1
    BY <1>1
  <2>3. n * BlockSize = n * b + n
    BY <2>2
  <2>4. n * b \in Nat
    OBVIOUS
  <2>. QED  BY <2>1, <2>3, <2>4
<1>3. PICK l \in Nat : l = Len(s) /\ l <= Len(s)
  BY LenProperties
<1>4. PICK m : m = Len(c) /\ m \in Nat
  BY LenProperties
<1>5. PICK k : k = Len(u) /\ k \in Nat
  BY LenProperties
<1>6. m \in Nat /\ k \in Nat /\ m >= 1 /\ m <= BlockSize
  BY <1>4, <1>5, EmptySeq, SeqEqual
<1>7. /\ Len(c \o u) = m + k
      /\ \A j \in 1 .. m : (c \o u)[j] = c[j]
      /\ \A j \in 1 .. k : (c \o u)[m + j] = u[j]
  <2>1. /\ Len(c \o u) = m + k
        /\ \A j \in 1 .. m + k : (c \o u)[j] = IF j <= m THEN c[j] ELSE u[j - m]
    BY <1>4, <1>5, ConcatProperties
  <2>2. \A j \in 1 .. k : (c \o u)[m + j] = u[j]
    <3>. SUFFICES ASSUME NEW j \in 1 .. k PROVE (c \o u)[m + j] = u[j]
      OBVIOUS
    <3>1. m + j \in 1 .. m + k /\ ~(m + j <= m) /\ (m + j) - m = j
      BY <1>6
    <3>. QED  BY <2>1, <3>1
  <2>3. \A j \in 1 .. m : (c \o u)[j] = c[j]
    <3>. SUFFICES ASSUME NEW j \in 1 .. m PROVE (c \o u)[j] = c[j]
      OBVIOUS
    <3>1. j \in 1 .. m + k /\ j <= m
      BY <1>6
    <3>. QED  BY <2>1, <3>1
  <2>. QED  BY <2>1, <2>2, <2>3
<1>8. /\ Len(SubSeq(s, a + 1, l)) = IF a <= l THEN l - a ELSE 0
      /\ \A j \in 1 .. l - a : SubSeq(s, a + 1, l)[j] = s[a + j]
  BY <1>3, RangeProperties
<1>9. c \o u = SubSeq(s, a + 1, l)
  BY <1>2, <1>3 DEF RestOf
<1>10. a + m + k = l
  <2>1. Len(c \o u) = IF a <= l THEN l - a ELSE 0
    BY <1>8, <1>9
  <2>2. m + k = IF a <= l THEN l - a ELSE 0
    BY <1>7, <2>1
  <2>. QED  BY <1>6, <2>2
<1>11. n + 1 <= l
  <2>1. n <= a
    BY <1>2
  <2>. QED  BY <1>6, <1>10, <2>1
<1>12. PICK e \in Nat : e = a + m
  BY <1>6
<1>13. c = SubSeq(s, a + 1, e)
  <2>1. /\ Len(SubSeq(s, a + 1, e)) = m
        /\ SubSeq(s, a + 1, e) \in Seq(Byte)
        /\ \A j \in 1 .. e - a : SubSeq(s, a + 1, e)[j] = s[a + j]
    BY <1>3, <1>6, <1>10, <1>12, RangeProperties
  <2>2. \A j \in 1 .. m : SubSeq(s, a + 1, e)[j] = c[j]
    <3>. SUFFICES ASSUME NEW j \in 1 .. m PROVE SubSeq(s, a + 1, e)[j] = c[j]
      OBVIOUS
    <3>1. j \in 1 .. l - a /\ j \in 1 .. e - a
      BY <1>6, <1>10, <1>12
    <3>2. (c \o u)[j] = s[a + j]
      BY <1>8, <1>9, <3>1
    <3>. QED  BY <1>7, <2>1, <3>1, <3>2
  <2>. QED  BY <1>4, <2>1, <2>2, SeqEqual
<1>14. Min({a + BlockSize, l}) = e
  <2>0. PICK g \in Int : g = a + BlockSize
    BY <1>1
  <2>1. Min({g, l}) = IF g <= l THEN g ELSE l
    <3>1. g \in Int /\ l \in Int
      OBVIOUS
    <3>. QED  BY <3>1, MinOfTwo, Zenon
  <2>2. m < BlockSize => k = 0
    BY <1>4, <1>5, EmptySeq
  <2>3. g <= l => m = BlockSize
    BY <1>1, <1>6, <1>10, <2>0, <2>2
  <2>4. Min({g, l}) = e
    <3>1. CASE g <= l
      <4>1. g = e
        BY <1>12, <2>0, <2>3, <3>1
      <4>. QED  BY <2>1, <3>1, <4>1
    <3>2. CASE ~(g <= l)
      <4>1. m < BlockSize
        BY <1>1, <1>6, <1>10, <2>0, <3>2
      <4>2. l = e
        BY <1>6, <1>10, <1>12, <2>2, <4>1
      <4>. QED  BY <2>1, <3>2, <4>2
    <3>. QED  BY <3>1, <3>2
  <2>. QED  BY <2>0, <2>4
<1>15. u = SubSeq(s, a + BlockSize + 1, l)
  <2>1. CASE m = BlockSize
    <3>0. PICK g \in Nat : g = a + BlockSize
      BY <1>1
    <3>1. /\ Len(SubSeq(s, g + 1, l)) = k
          /\ SubSeq(s, g + 1, l) \in Seq(Byte)
          /\ \A j \in 1 .. l - g : SubSeq(s, g + 1, l)[j] = s[g + j]
      BY <1>3, <1>6, <1>10, <2>1, <3>0, RangeProperties
    <3>2. \A j \in 1 .. k : SubSeq(s, g + 1, l)[j] = u[j]
      <4>. SUFFICES ASSUME NEW j \in 1 .. k PROVE SubSeq(s, g + 1, l)[j] = u[j]
        OBVIOUS
      <4>1. j \in 1 .. l - g /\ m + j \in 1 .. l - a /\ a + (m + j) = g + j
        BY <1>6, <1>10, <2>1, <3>0
      <4>2. (c \o u)[m + j] = u[j]
        BY <1>7
      <4>3. (c \o u)[m + j] = s[a + (m + j)]
        BY <1>8, <1>9, <4>1
      <4>4. SubSeq(s, g + 1, l)[j] = s[g + j]
        BY <3>1, <4>1
      <4>. QED  BY <4>1, <4>2, <4>3, <4>4
    <3>. QED  BY <1>5, <3>0, <3>1, <3>2, SeqEqual
  <2>2. CASE m # BlockSize
    <3>1. u = <<>> /\ k = 0
      <4>1. m < BlockSize
        BY <1>1, <1>6, <2>2
      <4>. QED  BY <1>4, <1>5, <4>1, EmptySeq
    <3>2. l < a + BlockSize + 1
      BY <1>1, <1>6, <1>10, <2>2, <3>1
    <3>. QED  BY <1>1, <3>1, <3>2, SubSeqEmpty
  <2>. QED  BY <2>1, <2>2
<1>. QED  BY <1>2, <1>3, <1>11, <1>12, <1>13, <1>14, <1>15 DEF RestOf, NextOf

\* What is behind the blocks of a file stays where it is.
LEMMA RestStays ==
  ASSUME TypeOK, NEW i \in Inodes, NEW n, UNCHANGED input, HoldsMore,
         fragment_indices'[i] = fragment_indices[i], Unpacked(i)' = Unpacked(i),
         RestKept(i, n)
  PROVE  RestKept(i, n)'
<1>1. PICK p \in Place : p = fragment_indices[i] /\ p = fragment_indices'[i]
  BY DEF TypeOK, PackingOK
<1>2. PICK s \in Seq(Byte) : s = input[i] /\ s = input'[i]
  BY InputType
<1>3. CASE p = NoFragment
  BY <1>1, <1>2, <1>3 DEF RestKept, Rest
<1>4. CASE p # NoFragment
  <2>1. n = 0 /\ Unpacked(i) = <<>> /\ FragmentHolds(p.fragment, s, p.offset)
    BY <1>1, <1>2, <1>4 DEF RestKept
  <2>2. FragmentHolds(p.fragment, s, p.offset)'
    BY <2>1 DEF HoldsMore, Place
  <2>. QED  BY <1>1, <1>2, <1>4, <2>1, <2>2
            DEF RestKept, FragmentHolds, MakesEntry, Matches
<1>. QED  BY <1>3, <1>4

\* A step within a file, if it keeps each.
LEMMA NothingLostIf ==
  ASSUME TypeOK, NothingLost, Healthy, UNCHANGED <<input, inode>>,
         \A i \in 1 .. inode, n \in Nat :
           /\ i = inode => n = block_count
           /\ n <= Len(input[i])
           /\ BlocksKept(i, n) /\ RestKept(i, n)
           => \E m \in Nat : /\ i = inode => m = block_count'
                             /\ m <= Len(input[i])
                             /\ BlocksKept(i, m)' /\ RestKept(i, m)'
  PROVE  NothingLost'
<1>. SUFFICES ASSUME NEW i \in 1 .. inode PROVE FileKept(i)'
  BY DEF NothingLost
<1>1. i \in Inodes /\ Len(input[i]) \in Nat
  BY InputType DEF TypeOK, ReadingOK, Inodes
<1>2. PICK n \in 0 .. Len(input[i]) :
        (i = inode => n = block_count) /\ BlocksKept(i, n) /\ RestKept(i, n)
  BY DEF NothingLost, FileKept
<1>3. PICK m \in Nat : /\ i = inode => m = block_count'
                       /\ m <= Len(input[i])
                       /\ BlocksKept(i, m)' /\ RestKept(i, m)'
  BY <1>1, <1>2
<1>. QED  BY <1>1, <1>3 DEF FileKept

LEMMA InodesRead ==
  ASSUME TypeOK
  PROVE  /\ \A i \in 1 .. inode : i \in Inodes
         /\ inode \in Nat /\ block_count \in Nat
BY LenProperties DEF TypeOK, OptionsOK, ReadingOK, Inodes

\* Steps that leave everything where it is, and those that only cut a chunk.
LEMMA KeptByQuietStep ==
  ASSUME IInv, TypeOK', Healthy, [Next]_vars,
         UNCHANGED <<options, inode, block_count, reports, fragment_indices,
                     fragment_count, current_fragment>>,
         Pending' = Pending,
         current_block' \o unread' = current_block \o unread
  PROVE  NothingLost'
<1>1. /\ TypeOK /\ Control /\ Ordered /\ NothingLost /\ stream = "good"
      /\ UNCHANGED input
  BY DEF IInv, OrderInv, PathInv, Healthy, options
<1>2. HoldsMore
  BY <1>1, HoldsKept
<1>3. ASSUME NEW i \in 1 .. inode, NEW n \in Nat,
             i = inode => n = block_count, n <= Len(input[i]),
             BlocksKept(i, n), RestKept(i, n)
      PROVE  \E m \in Nat : /\ i = inode => m = block_count'
                            /\ m <= Len(input[i])
                            /\ BlocksKept(i, m)' /\ RestKept(i, m)'
  <2>1. i \in Inodes
    BY <1>1, InodesRead
  <2>2. BlocksKept(i, n)'
    BY <1>1, <1>3, <2>1, BlocksKeptSame
  <2>3. Unpacked(i)' = Unpacked(i)
    BY DEF Unpacked
  <2>4. RestKept(i, n)'
    BY <1>1, <1>2, <1>3, <2>1, <2>3, RestStays
  <2>. QED  BY <1>3, <2>2, <2>4
<1>. QED  BY <1>1, <1>3, NothingLostIf

\* Steps that queue an item which is not a block.
LEMMA KeptByQueueing ==
  ASSUME IInv, TypeOK', Healthy, [Next]_vars,
         UNCHANGED <<options, reading, reports, fragment_indices>>,
         NEW item \in Items, Appends(Pending, item, Pending'),
         item.kind # "block",
         \/ UNCHANGED <<fragment_count, current_fragment>>
         \/ MakesEntry(item, 0, fragment_count) /\ item.data = current_fragment
  PROVE  NothingLost'
<1>1. /\ TypeOK /\ Control /\ Ordered /\ NothingLost /\ stream = "good"
      /\ UNCHANGED <<input, inode, block_count, current_block, unread>>
  BY DEF IInv, OrderInv, PathInv, Healthy, options, reading
<1>2. HoldsMore
  BY <1>1, HoldsQueued
<1>3. ASSUME NEW i \in 1 .. inode, NEW n \in Nat,
             i = inode => n = block_count, n <= Len(input[i]),
             BlocksKept(i, n), RestKept(i, n)
      PROVE  \E m \in Nat : /\ i = inode => m = block_count'
                            /\ m <= Len(input[i])
                            /\ BlocksKept(i, m)' /\ RestKept(i, m)'
  <2>1. i \in Inodes /\ TableOf(item) # i
    BY <1>1, InodesRead, TableOfItem
  <2>2. BlocksKept(i, n)'
    BY <1>1, <1>3, <2>1, BlocksKeptQueued
  <2>3. Unpacked(i)' = Unpacked(i)
    BY <1>1 DEF Unpacked
  <2>4. RestKept(i, n)'
    BY <1>1, <1>2, <1>3, <2>1, <2>3, RestStays
  <2>. QED  BY <1>1, <1>3, <2>2, <2>4
<1>. QED  BY <1>1, <1>3, NothingLostIf

\* Steps that finish the item in hand.
LEMMA KeptByHandling ==
  ASSUME IInv, TypeOK', Healthy, [Next]_vars,
         ReportFragment \/ ReportBlock \/ KeepBlocks \/ DropBlocks
  PROVE  NothingLost'
<1>1. /\ TypeOK /\ Control /\ Ordered /\ NothingLost /\ stream = "good"
      /\ FragmentNumbering /\ InHand
  BY DEF IInv, OrderInv, PathInv, Healthy
<1>2. /\ UNCHANGED <<input, inode, block_count, current_block, unread,
                     fragment_indices, fragment_count, current_fragment>>
      /\ wpc \in {"write", "report"} /\ held' = <<>>
      /\ UNCHANGED <<queue, pushing>>
  BY DEF ReportFragment, ReportBlock, KeepBlocks, DropBlocks, Handled, options,
         reading, packing, channel
<1>3. /\ Begins(Pending, Item, Pending')
      /\ Item \in Items /\ (Item.kind # "fragment" => Item.inode \in Inodes)
  BY <1>1, <1>2, PendingHandled, ItemType
<1>4. HoldsMore
  <2>1. Item.kind = "fragment" => ReportFragment
    BY DEF ReportBlock, KeepBlocks, DropBlocks
  <2>. QED  BY <1>1, <1>2, <1>3, <2>1, HoldsHandled
<1>5. ASSUME NEW i \in 1 .. inode, NEW n \in Nat,
             i = inode => n = block_count, n <= Len(input[i]),
             BlocksKept(i, n), RestKept(i, n)
      PROVE  \E m \in Nat : /\ i = inode => m = block_count'
                            /\ m <= Len(input[i])
                            /\ BlocksKept(i, m)' /\ RestKept(i, m)'
  <2>1. i \in Inodes
    BY <1>1, InodesRead
  <2>2. BlocksKept(i, n)'
    <3>1. CASE ReportBlock /\ i = Item.inode
      BY <1>1, <1>5, <2>1, <3>1, BlocksKeptReported
    <3>2. CASE DropBlocks /\ i = Item.inode
      BY <1>1, <1>5, <2>1, <3>2, BlocksKeptDropped
    <3>3. CASE ~((ReportBlock \/ DropBlocks) /\ i = Item.inode)
      <4>1. reports'[i] = reports[i]
        BY <1>1, <2>1, <3>3
           DEF ReportFragment, ReportBlock, KeepBlocks, DropBlocks, TypeOK, LayoutOK
      <4>2. TableOf(Item) # i
        BY <1>3, <2>1, <3>3, TableOfItem
           DEF ReportFragment, ReportBlock, KeepBlocks, DropBlocks
      <4>. QED  BY <1>1, <1>2, <1>3, <1>5, <2>1, <4>1, <4>2, BlocksKeptHandled
    <3>. QED  BY <3>1, <3>2, <3>3
  <2>3. Unpacked(i)' = Unpacked(i)
    BY <1>2 DEF Unpacked
  <2>4. RestKept(i, n)'
    BY <1>1, <1>2, <1>4, <1>5, <2>1, <2>3, RestStays
  <2>. QED  BY <1>2, <1>5, <2>2, <2>4
<1>. QED  BY <1>1, <1>2, <1>5, NothingLostIf

\* Nothing fails: what is enqueued is pending.
LEMMA PendingEnqueued ==
  ASSUME TypeOK, Control, pc # "push", ~writer_failed, NEW item \in Items,
         NEW next, Enqueue(item, next), UNCHANGED <<held, queue>>
  PROVE  Appends(Pending, item, Pending')
<1>1. pushing = <<>> /\ pushing' = <<item>>
  BY DEF Control, Enqueue
<1>2. held \o queue \in Seq(Items) /\ Pending \in Seq(Items)
  BY PendingType
<1>3. Pending = held \o queue /\ Pending' = (held \o queue) \o <<item>>
  BY <1>1, <1>2, ConcatEmptySeq DEF Pending
<1>4. Pending' = Pending \o <<item>>
  BY <1>3
<1>5. Appends(Pending, item, Pending \o <<item>>)
  BY <1>2, AppendsOne
<1>. QED  BY <1>4, <1>5

\* The client has a chunk in hand: it is what comes next of its file.
LEMMA ChunkOfFile ==
  ASSUME IInv, Healthy, At({"flush", "lookup", "compare", "place"}, {"place"})
  PROVE  /\ inode \in Inodes /\ inode \in 1 .. inode /\ current_block # <<>>
         /\ current_block \in Seq(Byte) /\ unread \in Seq(Byte)
         /\ Len(current_block) <= BlockSize /\ block_count \in Nat
         /\ fragment_indices[inode] = NoFragment
         /\ BlocksKept(inode, block_count) /\ block_count <= Len(input[inode])
         /\ current_block \o unread = Rest(inode, block_count)
<1>1. /\ TypeOK /\ Control /\ ChunkInHand /\ NothingLost
  BY DEF IInv, OrderInv, PathInv, InHand
<1>2. inode \in Inodes /\ inode \in 1 .. inode
  BY <1>1 DEF Control, InFile, At, TypeOK, ReadingOK, Inodes
<1>3. /\ current_block \in Seq(Byte) /\ unread \in Seq(Byte)
      /\ Len(current_block) <= BlockSize /\ block_count \in Nat
  BY <1>1, BlockIsSeq DEF TypeOK, ReadingOK
<1>4. current_block # <<>>
  BY <1>1 DEF ChunkInHand
<1>5. PICK n \in 0 .. Len(input[inode]) :
        n = block_count /\ BlocksKept(inode, n) /\ RestKept(inode, n)
  BY <1>2, <1>1 DEF NothingLost, FileKept
<1>6. Unpacked(inode) = current_block \o unread /\ Unpacked(inode) # <<>>
  BY <1>3, <1>4, ConcatEqualIffEmpty DEF Unpacked
<1>7. fragment_indices[inode] = NoFragment /\ Unpacked(inode) = Rest(inode, n)
  BY <1>5, <1>6 DEF RestKept
<1>8. block_count <= Len(input[inode])
  BY <1>1, <1>2, <1>5, InputType
<1>. QED  BY <1>2, <1>3, <1>4, <1>5, <1>6, <1>7, <1>8

\* A file that is packed is as long as its one chunk.
LEMMA SmallFile ==
  ASSUME IInv, Healthy, pc \in {"lookup", "compare", "place"}
  PROVE  current_block = input[inode] /\ unread = <<>> /\ block_count = 0
<1>1. /\ At({"flush", "lookup", "compare", "place"}, {"place"})
      /\ unread = <<>> /\ block_count = 0 /\ TypeOK
  BY DEF IInv, OrderInv, PathInv, Ordered, ChunksInOrder, At
<1>2. current_block \o unread = current_block
  BY <1>1, ChunkOfFile, ConcatEmptySeq
<1>3. PICK s \in Seq(Byte) : s = input[inode]
  BY <1>1, ChunkOfFile, InputType
<1>4. Rest(inode, block_count) = SubSeq(s, 1, Len(s))
  <2>1. 0 * BlockSize + 1 = 1
    BY BlockSizeAssumption
  <2>. QED  BY <1>1, <1>3, <2>1 DEF Rest
<1>. QED  BY <1>1, <1>2, <1>3, <1>4, ChunkOfFile, SubSeqFull

\* The next block of a file is queued.
LEMMA KeptByFlushBlock ==
  ASSUME IInv, TypeOK', Healthy, [Next]_vars, FlushBlock
  PROVE  NothingLost'
<1>1. /\ TypeOK /\ Control /\ Ordered /\ NothingLost /\ stream = "good"
      /\ ~writer_failed /\ pc = "flush"
      /\ At({"flush", "lookup", "compare", "place"}, {"place"})
      /\ Len(current_block) < BlockSize => unread = <<>>
  BY DEF IInv, OrderInv, PathInv, Healthy, FlushBlock, At, Ordered, ChunksInOrder
<1>2. /\ UNCHANGED <<input, inode, unread, reports, fragment_indices,
                     fragment_count, current_fragment, held, queue>>
      /\ block_count' = block_count + 1 /\ current_block' = <<>>
      /\ Enqueue(BlockItem, "read")
  BY DEF FlushBlock, options, packing, channel, writer, layout
<1>3. BlockItem \in Items /\ Appends(Pending, BlockItem, Pending')
  BY <1>1, <1>2, BlockItemType, PendingEnqueued
<1>4. HoldsMore
  BY <1>1, <1>2, <1>3, HoldsQueued
<1>5. PICK i : i = inode
  OBVIOUS
<1>6. PICK n : n = block_count
  OBVIOUS
<1>7. /\ i \in Inodes /\ n \in Nat /\ n + 1 <= Len(input[i])
      /\ current_block = Chunk(i, n + 1) /\ unread = Rest(i, n + 1)
      /\ fragment_indices[i] = NoFragment
  <2>1. PICK s \in Seq(Byte) : s = input[i]
    BY <1>1, <1>5, ChunkOfFile, InputType
  <2>2. current_block \o unread = RestOf(s, n)
    BY <1>1, <1>5, <1>6, <2>1, ChunkOfFile DEF Rest, RestOf
  <2>3. n + 1 <= Len(s) /\ current_block = NextOf(s, n) /\ unread = RestOf(s, n + 1)
    <3>1. /\ current_block \in Seq(Byte) /\ unread \in Seq(Byte)
          /\ n \in Nat /\ current_block # <<>> /\ Len(current_block) <= BlockSize
          /\ Len(current_block) < BlockSize => unread = <<>>
      BY <1>1, <1>6, ChunkOfFile
    <3>2. CutAs(s, current_block, unread, n)
      BY ONLY <2>1, <2>2, <3>1, NextIsCut
    <3>. QED  BY ONLY <3>2 DEF CutAs
  <2>4. (n + 1) - 1 = n
    BY <1>1, <1>6, ChunkOfFile
  <2>. QED  BY <1>1, <1>5, <1>6, <2>1, <2>3, <2>4, ChunkOfFile
              DEF Chunk, Rest, RestOf, NextOf
<1>8. ASSUME NEW j \in 1 .. inode, NEW k \in Nat,
             j = inode => k = block_count, k <= Len(input[j]),
             BlocksKept(j, k), RestKept(j, k)
      PROVE  \E m \in Nat : /\ j = inode => m = block_count'
                            /\ m <= Len(input[j])
                            /\ BlocksKept(j, m)' /\ RestKept(j, m)'
  <2>1. j \in Inodes
    BY <1>1, InodesRead
  <2>2. CASE j = i
    <3>1. PICK m \in Nat : m = n + 1 /\ m = block_count'
      BY <1>2, <1>6, <1>7
    <3>2. BlocksKept(j, m)'
      <4>1. /\ TableOf(BlockItem) = j /\ BlockItem.number = k
            /\ BlockItem.data = Chunk(j, k + 1) /\ m = k + 1
        BY <1>3, <1>5, <1>6, <1>7, <1>8, <2>1, <2>2, <3>1, TableOfItem DEF BlockItem
      <4>. QED  BY <1>1, <1>2, <1>3, <1>8, <2>1, <4>1, BlocksKeptQueued
    <3>3. RestKept(j, m)'
      <4>1. Unpacked(j)' = unread
        BY <1>2, <1>5, <1>1, <2>2, ChunkOfFile, ConcatEmptySeq DEF Unpacked
      <4>2. Rest(j, m)' = unread
        BY <1>2, <1>7, <2>2, <3>1 DEF Rest
      <4>. QED  BY <1>2, <1>7, <2>2, <4>1, <4>2 DEF RestKept
    <3>. QED  BY <1>7, <2>2, <3>1, <3>2, <3>3
  <2>3. CASE j # i
    <3>1. TableOf(BlockItem) # j
      BY <1>3, <1>5, <2>1, <2>3, TableOfItem DEF BlockItem
    <3>2. BlocksKept(j, k)'
      BY <1>1, <1>2, <1>3, <1>8, <2>1, <3>1, BlocksKeptQueued
    <3>3. Unpacked(j)' = Unpacked(j)
      BY <1>2, <1>5, <2>3 DEF Unpacked
    <3>4. RestKept(j, k)'
      BY <1>1, <1>2, <1>4, <1>8, <2>1, <3>3, RestStays
    <3>. QED  BY <1>5, <1>8, <2>3, <3>2, <3>4
  <2>. QED  BY <2>2, <2>3
<1>. QED  BY <1>1, <1>2, <1>8, NothingLostIf

\* A small file gets a place, its own or that of an equal one.
LEMMA KeptByPlacing ==
  ASSUME IInv, TypeOK', Healthy, [Next]_vars,
         pc \in {"lookup", "compare", "place"},
         UNCHANGED <<options, inode, unread, block_count, reports>>,
         Pending' = Pending, current_block' = <<>>, HoldsMore,
         NEW p \in Place, p # NoFragment,
         fragment_indices' = [fragment_indices EXCEPT ![inode] = p],
         \A f, bytes, offset :
           f = p.fragment /\ bytes = current_block /\ offset = p.offset
             => FragmentHolds(f, bytes, offset)'
  PROVE  NothingLost'
<1>1. /\ TypeOK /\ Control /\ Ordered /\ NothingLost /\ stream = "good"
      /\ At({"flush", "lookup", "compare", "place"}, {"place"})
      /\ UNCHANGED input
  BY DEF IInv, OrderInv, PathInv, Healthy, At, options
<1>2. PICK i : i = inode
  OBVIOUS
<1>3. PICK s : s = input[i]
  OBVIOUS
<1>4. /\ i \in Inodes /\ current_block = s /\ unread = <<>> /\ block_count = 0
      /\ fragment_indices \in [Inodes -> Place]
  BY <1>1, <1>2, <1>3, SmallFile, ChunkOfFile DEF TypeOK, PackingOK
<1>5. ASSUME NEW j \in 1 .. inode, NEW k \in Nat,
             j = inode => k = block_count, k <= Len(input[j]),
             BlocksKept(j, k), RestKept(j, k)
      PROVE  \E m \in Nat : /\ j = inode => m = block_count'
                            /\ m <= Len(input[j])
                            /\ BlocksKept(j, m)' /\ RestKept(j, m)'
  <2>1. j \in Inodes
    BY <1>1, InodesRead
  <2>2. BlocksKept(j, k)'
    BY <1>1, <1>5, <2>1, BlocksKeptSame
  <2>3. CASE j = i
    <3>1. fragment_indices'[j] = p
      BY <1>2, <1>4, <2>3
    <3>2. Unpacked(j)' = <<>>
      BY <1>2, <1>4, <2>3 DEF Unpacked
    <3>3. FragmentHolds(p.fragment, s, p.offset)'
      BY <1>4
    <3>4. k = 0 /\ input'[j] = s
      BY <1>1, <1>2, <1>3, <1>4, <1>5, <2>3
    <3>5. RestKept(j, k)'
      BY <3>1, <3>2, <3>3, <3>4 DEF RestKept, FragmentHolds, MakesEntry, Matches
    <3>. QED  BY <1>5, <2>2, <3>5
  <2>4. CASE j # i
    <3>1. Unpacked(j)' = Unpacked(j)
      BY <1>2, <2>4 DEF Unpacked
    <3>2. fragment_indices'[j] = fragment_indices[j]
      BY <1>2, <1>4, <2>1, <2>4
    <3>3. RestKept(j, k)'
      BY <1>1, <1>5, <2>1, <3>1, <3>2, RestStays
    <3>. QED  BY <1>5, <2>2, <3>3
  <2>. QED  BY <2>3, <2>4
<1>. QED  BY <1>1, <1>5, NothingLostIf

LEMMA KeptByInsert ==
  ASSUME IInv, TypeOK', Healthy, [Next]_vars, Insert
  PROVE  NothingLost'
<1>1. /\ TypeOK /\ Control /\ Ordered /\ stream = "good" /\ Insert
      /\ UNCHANGED <<options, inode, unread, block_count, reports>>
      /\ Pending' = Pending /\ current_block' = <<>> /\ pc = "place"
  BY DEF IInv, OrderInv, PathInv, Healthy, Insert, layout, Pending, channel, writer
<1>2. PICK p : /\ p = [fragment |-> fragment_count, offset |-> Len(current_fragment)]
               /\ fragment_indices' = [fragment_indices EXCEPT ![inode] = p]
  BY DEF Insert
<1>3. p \in Place /\ p # NoFragment
  BY <1>1, <1>2, BlockIsSeq, LenProperties DEF Place, NoFragment, TypeOK, PackingOK
<1>4. /\ HoldsMore
      /\ \A f, bytes, offset :
           f = fragment_count /\ bytes = current_block /\ offset = Len(current_fragment)
             => FragmentHolds(f, bytes, offset)'
  BY <1>1, HoldsInserted
<1>5. p.fragment = fragment_count /\ p.offset = Len(current_fragment)
  BY <1>2
<1>. QED  BY <1>1, <1>2, <1>3, <1>4, <1>5, KeptByPlacing

LEMMA KeptByCompare ==
  ASSUME IInv, TypeOK', Healthy, [Next]_vars, CompareCurrent \/ CompareStored
  PROVE  NothingLost'
<1>1. /\ TypeOK /\ Control /\ Ordered /\ stream = "good" /\ CandidatesPlaced
      /\ EntryInHand
      /\ UNCHANGED <<options, inode, unread, block_count, reports, fragments, file,
                     fragment_count, current_fragment>>
      /\ Pending' = Pending /\ pc \in {"lookup", "compare"} /\ candidates # <<>>
  BY DEF IInv, OrderInv, PathInv, InHand, Healthy, CompareCurrent, CompareStored,
         layout, Pending, channel, writer, disk, Control
<1>2. HoldsMore
  BY <1>1, HoldsKept
<1>3. PICK content : /\ Compare(content)
                     /\ \/ CompareCurrent /\ content = current_fragment
                        \/ CompareStored /\ content = Stored(entry)
  BY <1>1 DEF CompareCurrent, CompareStored
<1>4. PICK p : p = Candidate
  OBVIOUS
<1>5. p \in Place /\ p.fragment \in Nat /\ p # NoFragment
  <2>1. 1 \in DOMAIN candidates /\ Head(candidates) = candidates[1]
        /\ candidates \in Seq(Inodes)
    <3>1. DOMAIN candidates = 1 .. Len(candidates) /\ Len(candidates) \in Nat \ {0}
      BY <1>1, EmptySeq, LenProperties DEF TypeOK, SearchOK
    <3>. QED  BY <1>1, <3>1 DEF TypeOK, SearchOK
  <2>2. candidates[1] \in Inodes
    BY <2>1, ElementOfSeq, LenProperties
  <2>3. Candidate.fragment \in 0 .. fragment_count /\ Candidate \in Place
    BY <1>1, <2>1, <2>2 DEF CandidatesPlaced, Placed, Candidate, TypeOK, PackingOK
  <2>4. NoFragment.fragment = -1
    BY DEF NoFragment
  <2>. QED  BY <1>1, <1>4, <2>3, <2>4 DEF TypeOK, PackingOK
<1>6. CASE Matches(current_block, content, p.offset)
  <2>1. /\ fragment_indices' = [fragment_indices EXCEPT ![inode] = p]
        /\ current_block' = <<>>
    BY <1>3, <1>4, <1>6 DEF Compare
  <2>2. ASSUME NEW f, NEW bytes, NEW offset, f = p.fragment,
               bytes = current_block, offset = p.offset
        PROVE  FragmentHolds(f, bytes, offset)'
    <3>1. CASE CompareCurrent /\ content = current_fragment
      <4>1. f = fragment_count'
        BY <1>1, <1>4, <2>2, <3>1 DEF CompareCurrent
      <4>. QED  BY <1>1, <1>6, <2>2, <3>1, <4>1 DEF FragmentHolds, Matches
    <3>2. CASE CompareStored /\ content = Stored(entry)
      <4>1. f < Len(fragments) /\ entry = fragments[f + 1]
        BY <1>1, <1>4, <2>2, <3>2 DEF CompareStored, EntryInHand
      <4>2. f + 1 \in DOMAIN fragments
        BY <1>1, <1>5, <2>2, <4>1, LenProperties DEF TypeOK, LayoutOK
      <4>3. f + 1 \in DOMAIN fragments' /\ Stored(fragments[f + 1])' = content
        BY <1>1, <3>2, <4>1, <4>2 DEF Stored, BytesOf
      <4>. QED  BY <1>6, <2>2, <4>3 DEF FragmentHolds, Matches
    <3>. QED  BY <1>3, <3>1, <3>2
  <2>. QED  BY <1>1, <1>2, <1>5, <2>1, <2>2, KeptByPlacing
<1>7. CASE ~Matches(current_block, content, p.offset)
  <2>1. UNCHANGED <<fragment_indices, current_block>>
    BY <1>3, <1>4, <1>7 DEF Compare
  <2>. QED  BY <1>1, <2>1, KeptByQuietStep
<1>. QED  BY <1>6, <1>7

\* A file begins: nothing of it is cut or packed yet.
LEMMA KeptByNextFile ==
  ASSUME IInv, TypeOK', Healthy, [Next]_vars, NextFile
  PROVE  NothingLost'
<1>1. /\ TypeOK /\ Control /\ Ordered /\ NothingLost /\ stream = "good"
      /\ QueueInOrder /\ ReportsInOrder
      /\ unread = <<>> /\ current_block = <<>> /\ current_block' = <<>>
      /\ \A i \in Inodes : i > inode => fragment_indices[i] = NoFragment
  BY DEF IInv, OrderInv, PathInv, Healthy, InHand, ChunkInHand, At, NextFile, Ordered
<1>2. /\ UNCHANGED <<options, input, reports, fragment_indices, fragment_count,
                     current_fragment>>
      /\ Pending' = Pending
  BY DEF NextFile, options, packing, layout, Pending, channel, writer
<1>3. CASE ~(inode < Len(input))
  <2>1. UNCHANGED <<inode, unread, block_count>>
    BY <1>3 DEF NextFile
  <2>. QED  BY <1>1, <1>2, <2>1, KeptByQuietStep
<1>4. CASE inode < Len(input)
  <2>1. inode' = inode + 1 /\ unread' = input[inode + 1] /\ block_count' = 0
    BY <1>4 DEF NextFile
  <2>2. inode \in Nat /\ inode + 1 \in Inodes
    BY <1>1, <1>4, InodesRead, LenProperties
       DEF Inodes, TypeOK, OptionsOK
  <2>3. HoldsMore
    BY <1>1, <1>2, HoldsKept
  <2>. SUFFICES ASSUME NEW j \in 1 .. inode' PROVE FileKept(j)'
    BY DEF NothingLost
  <2>4. j \in Inodes /\ Len(input[j]) \in Nat
    BY <1>1, <1>4, <2>1, <2>2, InputType DEF Inodes
  <2>5. CASE j \in 1 .. inode
    <3>1. PICK k \in 0 .. Len(input[j]) : BlocksKept(j, k) /\ RestKept(j, k)
      BY <1>1, <2>5 DEF NothingLost, FileKept
    <3>2. BlocksKept(j, k)'
      BY <1>1, <1>2, <2>4, <3>1, BlocksKeptSame
    <3>3. Unpacked(j)' = Unpacked(j)
      <4>1. current_block \o unread = <<>>
        BY <1>1
      <4>2. j # inode'
        BY <2>1, <2>2, <2>5
      <4>. QED  BY <4>1, <4>2 DEF Unpacked
    <3>4. RestKept(j, k)'
      BY <1>1, <1>2, <2>3, <2>4, <3>1, <3>3, RestStays
    <3>. QED  BY <1>2, <2>1, <2>2, <2>5, <3>1, <3>2, <3>4 DEF FileKept
  <2>6. CASE j \notin 1 .. inode
    <3>1. j = inode' /\ j > inode
      BY <2>1, <2>2, <2>6
    <3>2. reports'[j] = NoReport /\ fragment_indices'[j] = NoFragment
      BY <1>1, <1>2, <2>4, <3>1 DEF ReportsInOrder
    <3>3. PICK s \in Seq(Byte) : s = input[j] /\ s = input'[j] /\ s = unread'
      BY <1>1, <1>2, <2>1, <2>4, <3>1, InputType
    <3>4. \A k \in DOMAIN Pending : TableOf(Pending[k]) # j
      <4>. SUFFICES ASSUME NEW k \in DOMAIN Pending, TableOf(Pending[k]) = j
                    PROVE  FALSE
        OBVIOUS
      <4>1. Pending[k] \in Items
        BY <1>1, PendingItems
      <4>2. Pending[k].kind # "fragment" /\ Pending[k].inode = j
        BY <2>4, <4>1, TableOfItem
      <4>3. Pending[k].inode <= inode
        BY <1>1, <4>2 DEF QueueInOrder
      <4>. QED  BY <2>2, <2>4, <3>1, <4>2, <4>3 DEF Inodes
    <3>5. BlocksKept(j, 0)'
      <4>1. \A k \in DOMAIN Pending' : TableOf(Pending'[k]) # j
        BY <1>2, <3>4
      <4>2. Numbered(Pending', j, 0, 0)
        BY <4>1 DEF Numbered
      <4>3. PICK at : at = [k \in 0 .. 0 |-> 0]
        OBVIOUS
      <4>4. Len(NoReport.sizes) = 0 /\ NoReport.start = 0 /\ NoReport.len = 0
            /\ DOMAIN NoReport.sizes = {}
        BY EmptySeq, LenProperties DEF NoReport
      <4>5. at \in [0 .. 0 -> 0 .. 0] /\ at[0] = 0
        BY <4>3
      <4>6. BlocksWritten(j, reports[j])'
        BY <3>2, <4>4, <4>5 DEF BlocksWritten, EndOf
      <4>. QED  BY <3>2, <4>1, <4>2, <4>4, <4>6 DEF BlocksKept, TableOf, Numbered
    <3>6. RestKept(j, 0)'
      <4>1. Unpacked(j)' = s
        BY <1>1, <3>1, <3>3, ConcatEmptySeq DEF Unpacked
      <4>2. Rest(j, 0)' = s
        <5>1. 0 * BlockSize + 1 = 1
          BY BlockSizeAssumption
        <5>2. SubSeq(s, 1, Len(s)) = s
          BY SubSeqFull
        <5>. QED  BY <3>3, <5>1, <5>2 DEF Rest
      <4>. QED  BY <3>2, <4>1, <4>2 DEF RestKept
    <3>7. 0 \in 0 .. Len(input'[j]) /\ block_count' = 0
      BY <1>2, <2>1, <2>4
    <3>. QED  BY <3>5, <3>6, <3>7 DEF FileKept
  <2>. QED  BY <2>5, <2>6
<1>. QED  BY <1>3, <1>4

\* The client.
LEMMA KeptByClient ==
  ASSUME IInv, TypeOK', Healthy, Healthy', [Next]_vars, Client \/ ArchiveFails
  PROVE  NothingLost'
<1>. DEFINE Quiet == /\ UNCHANGED <<options, inode, block_count, reports,
                                    fragment_indices, fragment_count,
                                    current_fragment>>
                     /\ Pending' = Pending
                     /\ current_block' \o unread' = current_block \o unread
<1>1. /\ TypeOK /\ Control /\ ~writer_failed /\ pc' # "aborted"
  BY DEF IInv, OrderInv, PathInv, Healthy
<1>2. ASSUME Quiet PROVE NothingLost'
  BY <1>2, KeptByQuietStep
<1>. HIDE DEF Quiet
<1>3. CASE Push \/ CallHandleWrite
  <2>1. Pending' = Pending
    BY <1>1, <1>3, PendingMoved
  <2>. QED  BY <1>2, <1>3, <2>1 DEF Quiet, Push, CallHandleWrite, reading, packing, layout
<1>4. CASE NextFile
  BY <1>4, KeptByNextFile
<1>5. CASE ReadChunk
  <2>1. current_block = <<>> /\ unread \in Seq(Byte)
    BY <1>1, <1>5 DEF IInv, InHand, ChunkInHand, At, ReadChunk, TypeOK, ReadingOK
  <2>2. current_block' \o unread' = current_block \o unread
    BY <1>1, <1>5, <2>1, ChunkRead, ConcatEmptySeq
  <2>. QED  BY <1>2, <1>5, <2>2 DEF Quiet, ReadChunk, packing, layout, Pending, channel, writer
<1>6. CASE FlushBlock
  BY <1>6, KeptByFlushBlock
<1>7. CASE Finalize
  <2>1. CASE block_count # 0 /\ dedup_enabled
    <3>1. /\ Enqueue(DedupItem, "next") /\ pc = "read" /\ DedupItem.kind = "dedup"
          /\ UNCHANGED <<options, reading, reports, fragment_indices,
                         fragment_count, current_fragment, held, queue>>
      BY <1>7, <2>1 DEF Finalize, DedupItem, packing, channel, writer, layout
    <3>2. DedupItem \in Items
      BY <1>1, <3>1, BlockItemType
    <3>3. Appends(Pending, DedupItem, Pending')
      BY <1>1, <3>1, <3>2, PendingEnqueued
    <3>. QED  BY <3>1, <3>2, <3>3, KeptByQueueing
  <2>2. CASE ~(block_count # 0 /\ dedup_enabled)
    BY <1>2, <1>7, <2>2 DEF Quiet, Finalize, reading, packing, layout, Pending,
                            channel, writer
  <2>. QED  BY <2>1, <2>2
<1>8. CASE ArchiveFails
  BY <1>1, <1>8 DEF ArchiveFails
<1>9. CASE PutFragment \/ GetFragmentEntry \/ NoDuplicate \/ FinishQueue \/ Join
  BY <1>2, <1>9 DEF Quiet, PutFragment, GetFragmentEntry, NoDuplicate, FinishQueue,
                    Join, reading, packing, layout, Pending, channel, writer
<1>10. CASE CompareCurrent \/ CompareStored
  BY <1>10, KeptByCompare
<1>11. CASE FlushFragment
  <2>1. /\ Enqueue(FragmentItem, pc) /\ pc \in {"finish", "place"}
        /\ UNCHANGED <<options, reading, reports, fragment_indices, held, queue>>
    BY <1>11 DEF FlushFragment, channel, writer, layout
  <2>2. /\ FragmentItem \in Items /\ FragmentItem.kind = "fragment"
        /\ MakesEntry(FragmentItem, 0, fragment_count)
        /\ FragmentItem.data = current_fragment
    BY <1>1, FragmentItemType DEF FragmentItem, MakesEntry, TableOf
  <2>3. Appends(Pending, FragmentItem, Pending')
    BY <1>1, <2>1, <2>2, PendingEnqueued
  <2>. QED  BY <2>1, <2>2, <2>3, KeptByQueueing
<1>12. CASE Insert
  BY <1>12, KeptByInsert
<1>. QED
  BY <1>3, <1>4, <1>5, <1>6, <1>7, <1>8, <1>9, <1>10, <1>11, <1>12 DEF Client

\* The writer.
LEMMA KeptByWriter ==
  ASSUME IInv, TypeOK', Healthy, Healthy', [Next]_vars, Writer
  PROVE  NothingLost'
<1>1. TypeOK /\ Control
  BY DEF IInv, OrderInv, PathInv
<1>2. CASE Take \/ Exit \/ WriteBytes
  <2>1. Pending' = Pending
    BY <1>1, <1>2, PendingTaken DEF Exit, WriteBytes, Pending, channel, control
  <2>. QED  BY <1>2, <2>1, KeptByQuietStep
            DEF Take, Exit, WriteBytes, reading, packing, layout
<1>3. CASE ReportFragment \/ ReportBlock \/ KeepBlocks \/ DropBlocks
  BY <1>3, KeptByHandling
<1>4. CASE WriteIsLost \/ HandleThrows
  BY <1>4 DEF WriteIsLost, HandleThrows, Healthy
<1>. QED  BY <1>2, <1>3, <1>4 DEF Writer

LEMMA HealthyBefore ==
  ASSUME Healthy', [Next]_vars
  PROVE  Healthy
<1>1. stream' = "good" => stream = "good"
  BY DEF Next, Terminated, Client, ArchiveFails, Push, CallHandleWrite, NextFile, ReadChunk,
         FlushBlock, Finalize, PutFragment, CompareCurrent, GetFragmentEntry,
         CompareStored, NoDuplicate, FlushFragment, Insert, FinishQueue, Join,
         Writer, Take, Exit, WriteBytes, WriteIsLost, ReportFragment,
         ReportBlock, KeepBlocks, DropBlocks, HandleThrows, disk, vars
<1>2. writer_failed => writer_failed'
  BY DEF Next, Terminated, Client, ArchiveFails, Push, CallHandleWrite, NextFile, ReadChunk,
         FlushBlock, Finalize, PutFragment, CompareCurrent, GetFragmentEntry,
         CompareStored, NoDuplicate, FlushFragment, Insert, FinishQueue, Join,
         Writer, Take, Exit, WriteBytes, WriteIsLost, ReportFragment,
         ReportBlock, KeepBlocks, DropBlocks, HandleThrows, Handled, vars
<1>3. pc = "aborted" => pc' = "aborted"
  BY DEF Next, Stopped, Terminated, vars, control
<1>. QED  BY <1>1, <1>2, <1>3 DEF Healthy

LEMMA InitInHand == Init => InHand /\ NothingLost
<1>. SUFFICES ASSUME Init PROVE InHand /\ NothingLost
  OBVIOUS
<1>1. InHand
  BY DEF Init, InHand, ChunkInHand, EntryInHand, ItemInHand, At
<1>2. NothingLost
  BY DEF Init, NothingLost
<1>. QED  BY <1>1, <1>2

LEMMA NextIInv == IInv /\ [Next]_vars => IInv'
<1>. SUFFICES ASSUME IInv, [Next]_vars PROVE IInv'
  OBVIOUS
<1>1. OrderInv /\ OrderInv' /\ InHand /\ NothingLost
  BY NextOrderInv DEF IInv
<1>2. /\ TypeOK /\ TypeOK' /\ Control /\ CandidatesPlaced /\ Ordered
  BY <1>1 DEF OrderInv, PathInv
<1>3. CASE ~Stopped /\ (Client \/ ArchiveFails)
  <2>1. InHand'
    BY <1>1, <1>2, <1>3, InHandClient
  <2>2. NothingLost'
    <3>. SUFFICES ASSUME Healthy' PROVE NothingLost'
      BY DEF NothingLost
    <3>. QED  BY <1>2, <1>3, HealthyBefore, KeptByClient
  <2>. QED  BY <1>1, <2>1, <2>2 DEF IInv
<1>4. CASE ~Stopped /\ Writer
  <2>1. InHand'
    BY <1>1, <1>2, <1>4, InHandWriter
  <2>2. NothingLost'
    <3>. SUFFICES ASSUME Healthy' PROVE NothingLost'
      BY DEF NothingLost
    <3>. QED  BY <1>2, <1>4, HealthyBefore, KeptByWriter
  <2>. QED  BY <1>1, <2>1, <2>2 DEF IInv
<1>5. CASE UNCHANGED vars
  <2>1. InHand'
    BY <1>1, <1>5 DEF vars, InHand, ChunkInHand, EntryInHand, ItemInHand, At,
       Candidate, BytesOf, SizeWord, Item, Inodes, options, control, reading,
       packing, search, channel, writer, disk, layout
  <2>2. NothingLost'
    <3>. SUFFICES ASSUME Healthy' PROVE NothingLost'
      BY DEF NothingLost
    <3>. QED  BY <1>2, <1>5, HealthyBefore, KeptByQuietStep
              DEF vars, options, control, reading, packing, channel, writer,
                  layout, Pending
  <2>. QED  BY <1>1, <2>1, <2>2 DEF IInv
<1>. QED  BY <1>3, <1>4, <1>5 DEF Next, Terminated

(* Whatever is stored, pending or still to be read makes up the files, in  *)
(* every state of every run: the whole invariant of the data path.         *)
THEOREM DataPathInvariant == Spec => []IInv
<1>1. Init => IInv
  BY InitPathInv, InitOrdered, InitInHand DEF IInv, OrderInv
<1>. QED  BY <1>1, NextIInv, PTL DEF Spec

(* As long as nothing fails no byte of a file is lost or damaged, whatever *)
(* is shared, dropped or overwritten on the way (dirtree_reg::append and   *)
(* finalize, put_fragment, pending_dedup::handle_write).                   *)
THEOREM NothingIsLost == Spec => []NothingLost
BY DataPathInvariant, PTL DEF IInv

-----------------------------------------------------------------------------
(* Recursion on the number of items, blocks or files: one lemma for the    *)
(* three of them.                                                          *)

(* A set of natural numbers has a least element: what induction is here.   *)
LEMMA LeastNumber ==
  ASSUME NEW T, T \subseteq Nat, T # {}
  PROVE  \E k \in T : \A h \in T : k <= h
<1>1. PICK k \in T : \A h \in T : ~(<<h, k>> \in OpToRel(<, Nat))
  BY NatLessThanWellFounded, WFMin
<1>2. \A h \in T : ~(h < k)
  BY <1>1 DEF OpToRel
<1>. QED  BY <1>2

\* What the k-th turn makes of the result of the one before it.
Turn(which, x, prev, k) ==
  CASE which = "ahead"  -> Handle(prev, x[k])
    [] which = "stored" -> prev \o Compress(BlockOf(x, k)).bytes
    [] OTHER            -> AddFile(prev, x.files[k], x.dedup)

Turned(h, which, x, base, n) ==
  h = [k \in 0 .. n |-> IF k = 0 THEN base ELSE Turn(which, x, h[k - 1], k)]

LEMMA TurnedExists ==
  ASSUME NEW which, NEW x, NEW base
  PROVE  \A n \in Nat : \E h : Turned(h, which, x, base, n)
<1>. DEFINE T == {n \in Nat : ~\E h : Turned(h, which, x, base, n)}
<1>1. SUFFICES ASSUME T # {} PROVE FALSE
  OBVIOUS
<1>2. PICK n \in T : \A i \in T : n <= i
  BY <1>1, LeastNumber
<1>3. CASE n = 0
  <2>. DEFINE h == [k \in 0 .. 0 |-> base]
  <2>1. Turned(h, which, x, base, 0)
    BY DEF Turned
  <2>. QED  BY <1>2, <1>3, <2>1
<1>4. CASE n # 0
  <2>1. n - 1 \in Nat /\ n \in Nat /\ ~(n <= n - 1)
    BY <1>2, <1>4
  <2>2. PICK h : Turned(h, which, x, base, n - 1)
    BY <1>2, <2>1
  <2>3. \A k \in 0 .. n - 1 : h[k] = IF k = 0 THEN base ELSE Turn(which, x, h[k - 1], k)
    BY <2>2 DEF Turned
  <2>. DEFINE g == [k \in 0 .. n |-> IF k = n THEN Turn(which, x, h[n - 1], n) ELSE h[k]]
  <2>4. ASSUME NEW k \in 0 .. n
        PROVE  g[k] = IF k = 0 THEN base ELSE Turn(which, x, g[k - 1], k)
    <3>1. k # 0 => g[k - 1] = h[k - 1]
      BY <2>1
    <3>2. k # n => k \in 0 .. n - 1
      BY <2>1
    <3>3. g[k] = IF k = n THEN Turn(which, x, h[n - 1], n) ELSE h[k]
      OBVIOUS
    <3>. HIDE DEF g
    <3>. QED  BY <1>4, <2>1, <2>3, <3>1, <3>2, <3>3
  <2>5. g = [k \in 0 .. n |-> g[k]]
    OBVIOUS
  <2>. HIDE DEF g
  <2>6. Turned(g, which, x, base, n)
    BY <2>4, <2>5, Zenon DEF Turned
  <2>. QED  BY <1>2, <2>6
<1>. QED  BY <1>3, <1>4

\* The result of k turns depends on nothing but these.
LEMMA TurnedUnique ==
  ASSUME NEW which, NEW x, NEW base, NEW m \in Nat, NEW n \in Nat, m <= n,
         NEW h, Turned(h, which, x, base, m), NEW g, Turned(g, which, x, base, n)
  PROVE  h[m] = g[m]
<1>0. SUFFICES \A k \in 0 .. m : h[k] = g[k]
  OBVIOUS
<1>. DEFINE T == {k \in 0 .. m : h[k] # g[k]}
<1>1. SUFFICES ASSUME T # {} PROVE FALSE
  OBVIOUS
<1>2. PICK k \in T : \A i \in T : k <= i
  <2>1. T \subseteq Nat
    OBVIOUS
  <2>. HIDE DEF T
  <2>. QED  BY <1>1, <2>1, LeastNumber
<1>3. k \in 0 .. m /\ k \in 0 .. n /\ h[k] # g[k]
  BY <1>2
<1>4. /\ h[k] = IF k = 0 THEN base ELSE Turn(which, x, h[k - 1], k)
      /\ g[k] = IF k = 0 THEN base ELSE Turn(which, x, g[k - 1], k)
  BY <1>3 DEF Turned
<1>5. k # 0 => k - 1 \in 0 .. m /\ ~(k <= k - 1)
  BY <1>3
<1>6. k # 0 => h[k - 1] = g[k - 1]
  BY <1>2, <1>5
<1>. QED  BY <1>3, <1>4, <1>6

\* The equations of the recursion.
LEMMA TurnedStep ==
  ASSUME NEW which, NEW x, NEW base, NEW n \in Nat,
         NEW h, Turned(h, which, x, base, n),
         NEW g, Turned(g, which, x, base, n + 1)
  PROVE  g[n + 1] = Turn(which, x, h[n], n + 1)
<1>1. n + 1 \in 0 .. n + 1 /\ n + 1 # 0 /\ (n + 1) - 1 = n /\ n <= n + 1
      /\ n + 1 \in Nat
  OBVIOUS
<1>2. g[n + 1] = Turn(which, x, g[n], n + 1)
  BY <1>1 DEF Turned
<1>3. h[n] = g[n]
  BY <1>1, TurnedUnique
<1>. QED  BY <1>2, <1>3

LEMMA AheadIs ==
  ASSUME NEW l, NEW items, NEW n \in Nat
  PROVE  \E h : Turned(h, "ahead", items, l, n) /\ Ahead(l, items, n) = h[n]
<1>. DEFINE P(h) == h = [k \in 0 .. n |-> IF k = 0 THEN l ELSE Handle(h[k - 1], items[k])]
<1>1. \A h : Turned(h, "ahead", items, l, n) <=> P(h)
  BY DEF Turned, Turn
<1>2. \E h : P(h)
  BY <1>1, TurnedExists
<1>3. PICK h : h = CHOOSE c : P(c)
  OBVIOUS
<1>4. P(h)
  BY <1>2, <1>3
<1>5. Ahead(l, items, n) = h[n]
  BY <1>3 DEF Ahead
<1>. QED  BY <1>1, <1>4, <1>5

LEMMA StoredIs ==
  ASSUME NEW c, NEW n \in Nat
  PROVE  \E h : Turned(h, "stored", c, <<>>, n) /\ StoredBlocks(c, n) = h[n]
<1>. DEFINE P(h) == h = [k \in 0 .. n |->
                           IF k = 0 THEN <<>>
                           ELSE h[k - 1] \o Compress(BlockOf(c, k)).bytes]
<1>1. \A h : Turned(h, "stored", c, <<>>, n) <=> P(h)
  BY DEF Turned, Turn
<1>2. \E h : P(h)
  BY <1>1, TurnedExists
<1>3. PICK h : h = CHOOSE x : P(x)
  OBVIOUS
<1>4. P(h)
  BY <1>2, <1>3
<1>5. StoredBlocks(c, n) = h[n]
  BY <1>3 DEF StoredBlocks
<1>. QED  BY <1>1, <1>4, <1>5

LEMMA AfterIs ==
  ASSUME NEW files, NEW dedup, NEW n \in Nat
  PROVE  \E h : /\ Turned(h, "after", [files |-> files, dedup |-> dedup], NoFiles, n)
                /\ After(files, dedup, n) = h[n]
<1>. DEFINE P(h) == h = [k \in 0 .. n |->
                           IF k = 0 THEN NoFiles
                           ELSE AddFile(h[k - 1], files[k], dedup)]
            x == [files |-> files, dedup |-> dedup]
<1>1. \A h : Turned(h, "after", x, NoFiles, n) <=> P(h)
  <2>1. x.files = files /\ x.dedup = dedup
    OBVIOUS
  <2>. HIDE DEF x
  <2>. QED  BY <2>1 DEF Turned, Turn
<1>2. \E h : P(h)
  BY <1>1, TurnedExists
<1>3. PICK h : h = CHOOSE c : P(c)
  OBVIOUS
<1>4. P(h)
  BY <1>2, <1>3
<1>5. After(files, dedup, n) = h[n]
  BY <1>3 DEF After
<1>. QED  BY <1>1, <1>4, <1>5

LEMMA AheadNext ==
  ASSUME NEW l, NEW items
  PROVE  /\ Ahead(l, items, 0) = l
         /\ \A n \in Nat : Ahead(l, items, n + 1) = Handle(Ahead(l, items, n), items[n + 1])
<1>1. Ahead(l, items, 0) = l
  BY AheadIs DEF Turned
<1>2. ASSUME NEW n \in Nat
      PROVE  Ahead(l, items, n + 1) = Handle(Ahead(l, items, n), items[n + 1])
  <2>1. PICK h : Turned(h, "ahead", items, l, n) /\ Ahead(l, items, n) = h[n]
    BY AheadIs
  <2>2. PICK g : Turned(g, "ahead", items, l, n + 1) /\ Ahead(l, items, n + 1) = g[n + 1]
    BY AheadIs
  <2>3. g[n + 1] = Turn("ahead", items, h[n], n + 1)
    BY <2>1, <2>2, TurnedStep
  <2>. QED  BY <2>1, <2>2, <2>3 DEF Turn
<1>. QED  BY <1>1, <1>2

LEMMA StoredNext ==
  ASSUME NEW c
  PROVE  /\ StoredBlocks(c, 0) = <<>>
         /\ \A n \in Nat :
              StoredBlocks(c, n + 1)
                = StoredBlocks(c, n) \o Compress(BlockOf(c, n + 1)).bytes
<1>1. StoredBlocks(c, 0) = <<>>
  BY StoredIs DEF Turned
<1>2. ASSUME NEW n \in Nat
      PROVE  StoredBlocks(c, n + 1)
               = StoredBlocks(c, n) \o Compress(BlockOf(c, n + 1)).bytes
  <2>1. PICK h : Turned(h, "stored", c, <<>>, n) /\ StoredBlocks(c, n) = h[n]
    BY StoredIs
  <2>2. PICK g : Turned(g, "stored", c, <<>>, n + 1) /\ StoredBlocks(c, n + 1) = g[n + 1]
    BY StoredIs
  <2>3. g[n + 1] = Turn("stored", c, h[n], n + 1)
    BY <2>1, <2>2, TurnedStep
  <2>. QED  BY <2>1, <2>2, <2>3 DEF Turn
<1>. QED  BY <1>1, <1>2

LEMMA AfterNext ==
  ASSUME NEW files, NEW dedup
  PROVE  /\ After(files, dedup, 0) = NoFiles
         /\ \A n \in Nat :
              After(files, dedup, n + 1)
                = AddFile(After(files, dedup, n), files[n + 1], dedup)
<1>. DEFINE x == [files |-> files, dedup |-> dedup]
<1>0. x.files = files /\ x.dedup = dedup
  OBVIOUS
<1>1. After(files, dedup, 0) = NoFiles
  <2>1. PICK h : Turned(h, "after", x, NoFiles, 0) /\ After(files, dedup, 0) = h[0]
    BY AfterIs
  <2>. HIDE DEF x
  <2>. QED  BY <2>1 DEF Turned
<1>2. ASSUME NEW n \in Nat
      PROVE  After(files, dedup, n + 1)
               = AddFile(After(files, dedup, n), files[n + 1], dedup)
  <2>1. PICK h : Turned(h, "after", x, NoFiles, n) /\ After(files, dedup, n) = h[n]
    BY AfterIs
  <2>2. PICK g : Turned(g, "after", x, NoFiles, n + 1)
                 /\ After(files, dedup, n + 1) = g[n + 1]
    BY AfterIs
  <2>. HIDE DEF x
  <2>3. g[n + 1] = Turn("after", x, h[n], n + 1)
    BY <2>1, <2>2, TurnedStep
  <2>. QED  BY <1>0, <2>1, <2>2, <2>3 DEF Turn
<1>. QED  BY <1>1, <1>2

-----------------------------------------------------------------------------
(* What is ahead of a layout.                                              *)

LEMMA AheadStep ==
  ASSUME NEW l, NEW items, NEW n \in Nat
  PROVE  Ahead(l, items, n + 1) = Handle(Ahead(l, items, n), items[n + 1])
BY AheadNext

LEMMA AheadNone ==
  ASSUME NEW l, NEW items
  PROVE  Ahead(l, items, 0) = l
BY AheadNext

\* Items that are the same as far as they are looked at.
LEMMA AheadSame ==
  ASSUME NEW l, NEW items, NEW more, NEW n \in Nat,
         \A k \in 1 .. n : items[k] = more[k]
  PROVE  \A k \in 0 .. n : Ahead(l, items, k) = Ahead(l, more, k)
<1>. DEFINE T == {k \in 0 .. n : Ahead(l, items, k) # Ahead(l, more, k)}
<1>1. SUFFICES ASSUME T # {} PROVE FALSE
  OBVIOUS
<1>2. PICK k \in T : \A h \in T : k <= h
  <2>1. T \subseteq Nat
    OBVIOUS
  <2>. HIDE DEF T
  <2>. QED  BY <1>1, <2>1, LeastNumber
<1>3. k \in 0 .. n /\ Ahead(l, items, k) # Ahead(l, more, k)
  BY <1>2
<1>4. k # 0
  BY <1>3, AheadNone
<1>5. PICK h : h = k - 1
  OBVIOUS
<1>6. h \in Nat /\ h \in 0 .. n /\ k = h + 1 /\ ~(k <= h) /\ k \in 1 .. n
  BY <1>3, <1>4, <1>5
<1>7. Ahead(l, items, h) = Ahead(l, more, h)
  BY <1>2, <1>6
<1>8. items[h + 1] = more[h + 1]
  BY <1>6
<1>9. /\ Ahead(l, items, h + 1) = Handle(Ahead(l, items, h), items[h + 1])
      /\ Ahead(l, more, h + 1) = Handle(Ahead(l, more, h), more[h + 1])
  BY <1>6, AheadStep
<1>. QED  BY <1>3, <1>6, <1>7, <1>8, <1>9

LEMMA AheadAppend ==
  ASSUME NEW l, NEW items, NEW item, NEW more, Appends(items, item, more)
  PROVE  /\ \A k \in 0 .. Len(items) : Ahead(l, more, k) = Ahead(l, items, k)
         /\ Ahead(l, more, Len(items) + 1) = Handle(Ahead(l, items, Len(items)), item)
<1>1. PICK n \in Nat : n = Len(items)
  BY DEF Appends
<1>2. \A k \in 1 .. n : items[k] = more[k]
  BY <1>1 DEF Appends
<1>3. \A k \in 0 .. n : Ahead(l, items, k) = Ahead(l, more, k)
  BY <1>2, AheadSame
<1>4. Ahead(l, items, n) = Ahead(l, more, n)
  BY <1>3
<1>5. more[n + 1] = item
  BY <1>1 DEF Appends
<1>6. Ahead(l, more, n + 1) = Handle(Ahead(l, more, n), more[n + 1])
  BY AheadStep
<1>. QED  BY <1>1, <1>3, <1>4, <1>5, <1>6

LEMMA AheadShift ==
  ASSUME NEW l, NEW items, NEW item, NEW rest, Begins(items, item, rest)
  PROVE  \A k \in 0 .. Len(rest) :
           Ahead(Handle(l, item), rest, k) = Ahead(l, items, k + 1)
<1>1. PICK n \in Nat : n = Len(rest)
  BY DEF Begins
<1>. DEFINE T == {k \in 0 .. n :
                    Ahead(Handle(l, item), rest, k) # Ahead(l, items, k + 1)}
<1>2. SUFFICES ASSUME T # {} PROVE FALSE
  BY <1>1
<1>3. PICK k \in T : \A h \in T : k <= h
  <2>1. T \subseteq Nat
    OBVIOUS
  <2>. HIDE DEF T
  <2>. QED  BY <1>2, <2>1, LeastNumber
<1>4. k \in 0 .. n /\ Ahead(Handle(l, item), rest, k) # Ahead(l, items, k + 1)
  BY <1>3
<1>5. k # 0
  <2>1. Ahead(Handle(l, item), rest, 0) = Handle(l, item)
    BY AheadNone
  <2>2. Ahead(l, items, 0 + 1) = Handle(l, items[0 + 1]) /\ 0 + 1 = 1
    <3>1. Ahead(l, items, 0 + 1) = Handle(Ahead(l, items, 0), items[0 + 1])
      BY AheadStep
    <3>. QED  BY <3>1, AheadNone
  <2>. QED  BY <1>4, <2>1, <2>2 DEF Begins
<1>6. PICK h : h = k - 1
  OBVIOUS
<1>7. h \in Nat /\ h \in 0 .. n /\ k = h + 1 /\ ~(k <= h) /\ k \in 1 .. n /\ k \in Nat
  BY <1>4, <1>5, <1>6
<1>8. Ahead(Handle(l, item), rest, h) = Ahead(l, items, h + 1)
  BY <1>3, <1>7
<1>9. rest[k] = items[k + 1]
  BY <1>1, <1>7 DEF Begins
<1>10. Ahead(Handle(l, item), rest, h + 1)
         = Handle(Ahead(Handle(l, item), rest, h), rest[h + 1])
  BY <1>7, AheadStep
<1>11. Ahead(l, items, k + 1) = Handle(Ahead(l, items, k), items[k + 1])
  BY <1>7, AheadStep
<1>. QED  BY <1>4, <1>7, <1>8, <1>9, <1>10, <1>11

LEMMA PreservesTransitive ==
  ASSUME NEW l, NEW m, NEW n, Preserves(l, m), Preserves(m, n),
         Len(l.fragments) \in Nat, Len(m.fragments) \in Nat, Len(n.fragments) \in Nat
  PROVE  Preserves(l, n)
<1>1. Len(l.fragments) <= Len(n.fragments)
  BY DEF Preserves
<1>2. ASSUME NEW f \in 1 .. Len(l.fragments)
      PROVE  /\ n.fragments[f] = l.fragments[f]
             /\ BytesIn(n, l.fragments[f]) = BytesIn(l, l.fragments[f])
  <2>1. f \in 1 .. Len(m.fragments)
    BY DEF Preserves
  <2>2. /\ m.fragments[f] = l.fragments[f]
        /\ BytesIn(m, l.fragments[f]) = BytesIn(l, l.fragments[f])
    BY DEF Preserves
  <2>3. /\ n.fragments[f] = m.fragments[f]
        /\ BytesIn(n, m.fragments[f]) = BytesIn(m, m.fragments[f])
    BY <2>1 DEF Preserves
  <2>. QED  BY <2>2, <2>3
<1>. QED  BY <1>1, <1>2 DEF Preserves

-----------------------------------------------------------------------------
(* Layouts.                                                                *)
Layouts == [bytes : Seq(Byte), reports : [Inodes -> Report],
            kept : Seq(Inodes), fragments : Seq(Entry)]

\* A layout by its members.
LEMMA LayoutFields ==
  ASSUME NEW l
  PROVE  l \in Layouts <=>
           /\ l = [bytes |-> l.bytes, reports |-> l.reports, kept |-> l.kept,
                   fragments |-> l.fragments]
           /\ l.bytes \in Seq(Byte) /\ l.reports \in [Inodes -> Report]
           /\ l.kept \in Seq(Inodes) /\ l.fragments \in Seq(Entry)
BY DEF Layouts

LEMMA LayoutsEqual ==
  ASSUME NEW l \in Layouts, NEW m \in Layouts, l.bytes = m.bytes,
         l.reports = m.reports, l.kept = m.kept, l.fragments = m.fragments
  PROVE  l = m
BY DEF Layouts

\* What an item does to a layout, member by member.
LEMMA HandleFragmentIs ==
  ASSUME NEW l \in Layouts, NEW item, item.kind = "fragment", item.data \in Block
  PROVE  LET c == Compress(item.data)
             e == [start |-> Len(l.bytes), len |-> Len(c.bytes), raw |-> c.raw]
         IN /\ Handle(l, item).bytes = l.bytes \o c.bytes
            /\ Handle(l, item).fragments = Append(l.fragments, e)
            /\ Handle(l, item).reports = l.reports /\ Handle(l, item).kept = l.kept
            /\ Handle(l, item) \in Layouts /\ e \in Entry
<1>. DEFINE c == Compress(item.data)
            e == [start |-> Len(l.bytes), len |-> Len(c.bytes), raw |-> c.raw]
<1>1. c.bytes \in Seq(Byte) /\ c.raw \in BOOLEAN /\ Len(c.bytes) \in Nat
  BY CompressType
<1>2. /\ l = [bytes |-> l.bytes, reports |-> l.reports, kept |-> l.kept,
              fragments |-> l.fragments]
      /\ l.bytes \in Seq(Byte) /\ l.reports \in [Inodes -> Report]
      /\ l.kept \in Seq(Inodes) /\ l.fragments \in Seq(Entry)
  BY LayoutFields
<1>3. e \in Entry
  BY <1>1, <1>2, LenProperties DEF Entry
<1>4. Handle(l, item) = [l EXCEPT !.bytes = l.bytes \o c.bytes,
                                  !.fragments = Append(l.fragments, e)]
  BY DEF Handle, HandleFragment
<1>. HIDE DEF e, c
<1>0. PICK m : m = Handle(l, item)
  OBVIOUS
<1>5. m = [bytes |-> l.bytes \o c.bytes, reports |-> l.reports,
                         kept |-> l.kept, fragments |-> Append(l.fragments, e)]
  BY <1>2, <1>4, <1>0
<1>6. l.bytes \o c.bytes \in Seq(Byte) /\ Append(l.fragments, e) \in Seq(Entry)
  BY <1>1, <1>2, <1>3, ConcatProperties, AppendProperties
<1>7. m \in Layouts
  BY <1>2, <1>5, <1>6 DEF Layouts
<1>8. /\ m.bytes = l.bytes \o c.bytes /\ m.fragments = Append(l.fragments, e)
      /\ m.reports = l.reports /\ m.kept = l.kept
  BY <1>5
<1>. QED  BY <1>3, <1>7, <1>8, <1>0 DEF e, c

\* The report of a file with one more block.
WithBlock(r, start, b) ==
  LET c == Compress(b)
  IN [start |-> IF r.sizes = <<>> THEN start ELSE r.start,
      sizes |-> Append(r.sizes, [len |-> Len(c.bytes), raw |-> c.raw]),
      len   |-> r.len + Len(c.bytes)]

LEMMA WithBlockType ==
  ASSUME NEW r \in Report, NEW start \in Int, NEW b \in Block
  PROVE  WithBlock(r, start, b) \in Report
<1>. DEFINE c == Compress(b)
<1>1. c.bytes \in Seq(Byte) /\ c.raw \in BOOLEAN /\ Len(c.bytes) \in Nat
  BY CompressType
<1>2. [len |-> Len(c.bytes), raw |-> c.raw] \in Size
  BY <1>1 DEF Size
<1>3. r.sizes \in Seq(Size) /\ r.len \in Nat /\ r.start \in Int
  BY DEF Report
<1>4. Append(r.sizes, [len |-> Len(c.bytes), raw |-> c.raw]) \in Seq(Size)
  BY <1>2, <1>3, AppendProperties
<1>5. r.len + Len(c.bytes) \in Nat
  BY <1>1, <1>3
<1>. HIDE DEF c
<1>. QED  BY <1>3, <1>4, <1>5 DEF WithBlock, Report, c

LEMMA HandleBlockIs ==
  ASSUME NEW l \in Layouts, NEW item, item.kind = "block", item.data \in Block,
         item.inode \in Inodes
  PROVE  /\ Handle(l, item).bytes = l.bytes \o Compress(item.data).bytes
         /\ Handle(l, item).reports =
              [l.reports EXCEPT ![item.inode] =
                 WithBlock(l.reports[item.inode], Len(l.bytes), item.data)]
         /\ Handle(l, item).fragments = l.fragments /\ Handle(l, item).kept = l.kept
         /\ Handle(l, item) \in Layouts
<1>. DEFINE c == Compress(item.data)
            r == WithBlock(l.reports[item.inode], Len(l.bytes), item.data)
<1>1. c.bytes \in Seq(Byte)
  BY CompressType
<1>2. /\ l = [bytes |-> l.bytes, reports |-> l.reports, kept |-> l.kept,
              fragments |-> l.fragments]
      /\ l.bytes \in Seq(Byte) /\ l.reports \in [Inodes -> Report]
      /\ l.kept \in Seq(Inodes) /\ l.fragments \in Seq(Entry)
  BY LayoutFields
<1>3. r \in Report
  <2>1. Len(l.bytes) \in Int /\ l.reports[item.inode] \in Report
    BY <1>2, LenProperties
  <2>. QED  BY <2>1, WithBlockType
<1>4. Handle(l, item) = [l EXCEPT !.bytes = l.bytes \o c.bytes,
                                  !.reports[item.inode] = r]
  BY <1>2 DEF Handle, HandleBlock, WithBlock
<1>. HIDE DEF r, c
<1>0. PICK m : m = Handle(l, item)
  OBVIOUS
<1>5. m = [bytes |-> l.bytes \o c.bytes,
                         reports |-> [l.reports EXCEPT ![item.inode] = r],
                         kept |-> l.kept, fragments |-> l.fragments]
  BY <1>2, <1>4, <1>0
<1>6. l.bytes \o c.bytes \in Seq(Byte)
  BY <1>1, <1>2, ConcatProperties
<1>7. [l.reports EXCEPT ![item.inode] = r] \in [Inodes -> Report]
  BY <1>2, <1>3
<1>8. m \in Layouts
  BY <1>2, <1>5, <1>6, <1>7 DEF Layouts
<1>9. /\ m.bytes = l.bytes \o c.bytes
      /\ m.reports = [l.reports EXCEPT ![item.inode] = r]
      /\ m.kept = l.kept /\ m.fragments = l.fragments
  BY <1>5
<1>. QED  BY <1>8, <1>9, <1>0 DEF r, c

-----------------------------------------------------------------------------
(* Parts of what is stored.                                                *)

LEMMA PrefixIs ==
  ASSUME NEW S, NEW s \in Seq(S), NEW n \in Nat, n <= Len(s)
  PROVE  /\ SubSeq(s, 1, n) \in Seq(S) /\ Len(SubSeq(s, 1, n)) = n
         /\ \A k \in 1 .. n : SubSeq(s, 1, n)[k] = s[k]
<1>1. PICK a \in Nat : a = 0
  OBVIOUS
<1>2. /\ SubSeq(s, a + 1, n) \in Seq(S)
      /\ Len(SubSeq(s, a + 1, n)) = IF a <= n THEN n - a ELSE 0
      /\ \A k \in 1 .. n - a : SubSeq(s, a + 1, n)[k] = s[a + k]
  BY RangeProperties
<1>3. a + 1 = 1 /\ n - a = n /\ a <= n /\ \A k \in 1 .. n : a + k = k
  BY <1>1
<1>. QED  BY <1>2, <1>3

LEMMA PartOfPrefix ==
  ASSUME NEW S, NEW s \in Seq(S), NEW n \in Nat, n <= Len(s),
         NEW a \in Nat, NEW b \in Nat, b <= n
  PROVE  SubSeq(SubSeq(s, 1, n), a + 1, b) = SubSeq(s, a + 1, b)
<1>0. /\ SubSeq(s, 1, n) \in Seq(S) /\ Len(SubSeq(s, 1, n)) = n
      /\ \A k \in 1 .. n : SubSeq(s, 1, n)[k] = s[k]
  BY ONLY n \in Nat, s \in Seq(S), n <= Len(s), PrefixIs
<1>1. PICK t : t = SubSeq(s, 1, n) /\ t \in Seq(S) /\ Len(t) = n
               /\ \A k \in 1 .. n : t[k] = s[k]
  BY ONLY <1>0
<1>2. Len(s) \in Nat
  BY LenProperties
<1>3. b <= Len(t) /\ b <= Len(s) /\ \A k \in 1 .. b : t[k] = s[k]
  BY <1>1, <1>2
<1>4. SubSeq(t, a + 1, b) = SubSeq(s, a + 1, b)
  BY <1>3, SameRange
<1>. QED  BY <1>1, <1>4

LEMMA PrefixGrows ==
  ASSUME NEW S, NEW s \in Seq(S), NEW n \in Nat, NEW m \in Nat, n + m <= Len(s)
  PROVE  SubSeq(s, 1, n + m) = SubSeq(s, 1, n) \o SubSeq(s, n + 1, n + m)
<1>1. /\ 1 \in 1 .. Len(s) + 1 /\ n \in 1 - 1 .. Len(s) /\ n + m \in n .. Len(s)
  BY LenProperties
<1>. QED  BY <1>1, ConcatAdjacentSubSeq

LEMMA PartOfConcat ==
  ASSUME NEW S, NEW s \in Seq(S), NEW t \in Seq(S),
         NEW a \in Nat, NEW b \in Nat, b <= Len(s)
  PROVE  SubSeq(s \o t, a + 1, b) = SubSeq(s, a + 1, b)
<1>1. /\ s \o t \in Seq(S) /\ Len(s \o t) = Len(s) + Len(t)
      /\ \A k \in 1 .. Len(s) + Len(t) :
           (s \o t)[k] = IF k <= Len(s) THEN s[k] ELSE t[k - Len(s)]
      /\ Len(s) \in Nat /\ Len(t) \in Nat
  BY ConcatProperties, LenProperties
<1>2. PICK u \in Seq(S) : u = s \o t
  BY <1>1
<1>3. b <= Len(u) /\ b <= Len(s) /\ \A k \in 1 .. b : u[k] = s[k]
  BY <1>1, <1>2
<1>4. SubSeq(u, a + 1, b) = SubSeq(s, a + 1, b)
  BY <1>3, SameRange
<1>. QED  BY <1>2, <1>4

LEMMA ConcatParts ==
  ASSUME NEW S, NEW s \in Seq(S), NEW t \in Seq(S)
  PROVE  /\ SubSeq(s \o t, 1, Len(s)) = s
         /\ SubSeq(s \o t, Len(s) + 1, Len(s) + Len(t)) = t
<1>1. /\ s \o t \in Seq(S) /\ Len(s \o t) = Len(s) + Len(t)
      /\ \A k \in 1 .. Len(s) + Len(t) :
           (s \o t)[k] = IF k <= Len(s) THEN s[k] ELSE t[k - Len(s)]
      /\ Len(s) \in Nat /\ Len(t) \in Nat
  BY ConcatProperties, LenProperties
<1>2. PICK u \in Seq(S) : u = s \o t
  BY <1>1
<1>3. PICK n \in Nat : n = Len(s)
  BY <1>1
<1>4. PICK m \in Nat : m = Len(t)
  BY <1>1
<1>5. Len(u) = n + m /\ \A k \in 1 .. n + m : u[k] = IF k <= n THEN s[k] ELSE t[k - n]
  BY <1>1, <1>2, <1>3, <1>4
<1>6. SubSeq(u, 1, n) = s
  <2>1. SubSeq(u, 1, n) \in Seq(S) /\ Len(SubSeq(u, 1, n)) = n
        /\ \A k \in 1 .. n : SubSeq(u, 1, n)[k] = u[k]
    BY <1>5, PrefixIs
  <2>2. \A k \in 1 .. n : SubSeq(u, 1, n)[k] = s[k]
    BY <1>5, <2>1
  <2>. QED  BY <1>3, <2>1, <2>2, SeqEqual
<1>7. SubSeq(u, n + 1, n + m) = t
  <2>1. PICK b \in Nat : b = n + m /\ n <= b /\ b <= Len(u) /\ b - n = m
    BY <1>5
  <2>2. /\ SubSeq(u, n + 1, b) \in Seq(S)
        /\ Len(SubSeq(u, n + 1, b)) = IF n <= b THEN b - n ELSE 0
        /\ \A k \in 1 .. b - n : SubSeq(u, n + 1, b)[k] = u[n + k]
    BY <2>1, RangeProperties
  <2>3. ASSUME NEW k \in 1 .. m PROVE u[n + k] = t[k]
    <3>1. n + k \in 1 .. n + m /\ ~(n + k <= n) /\ (n + k) - n = k
      OBVIOUS
    <3>. QED  BY <1>5, <3>1
  <2>4. \A k \in 1 .. m : SubSeq(u, n + 1, b)[k] = t[k]
    BY <2>1, <2>2, <2>3
  <2>5. SubSeq(u, n + 1, b) = t
    BY <1>4, <2>1, <2>2, <2>4, SeqEqual
  <2>. QED  BY <2>1, <2>5
<1>. QED  BY <1>2, <1>3, <1>4, <1>6, <1>7

-----------------------------------------------------------------------------
(* A duplicate.                                                            *)

LEMMA LeastIs ==
  ASSUME NEW T, T \subseteq Nat, T # {}
  PROVE  Min(T) \in T /\ \A h \in T : Min(T) <= h
<1>1. \E k \in T : \A h \in T : k <= h
  BY LeastNumber
<1>. QED  BY <1>1 DEF Min

LEMMA SameInLayoutIs ==
  ASSUME NEW l \in Layouts, NEW r
  PROVE  /\ SameInLayout(l, r) \subseteq DOMAIN l.kept
         /\ SameInLayout(l, r) \subseteq Nat
         /\ \A k \in DOMAIN l.kept : l.kept[k] \in Inodes
         /\ \A k \in DOMAIN l.kept :
              k \in SameInLayout(l, r) <=>
                /\ l.reports[l.kept[k]].sizes = r.sizes
                /\ BytesIn(l, l.reports[l.kept[k]]) = BytesIn(l, r)
<1>1. l.kept \in Seq(Inodes)
  BY LayoutFields
<1>2. DOMAIN l.kept = 1 .. Len(l.kept) /\ Len(l.kept) \in Nat
      /\ \A k \in DOMAIN l.kept : l.kept[k] \in Inodes
  BY <1>1, LenProperties, ElementOfSeq
<1>3. SameInLayout(l, r) \subseteq DOMAIN l.kept
  BY DEF SameInLayout
<1>4. \A k \in DOMAIN l.kept : k \in Nat
  BY <1>2
<1>. QED  BY <1>2, <1>3, <1>4 DEF SameInLayout

LEMMA HandleDedupIs ==
  ASSUME NEW l \in Layouts, NEW item, item.kind = "dedup", item.inode \in Inodes
  PROVE  LET r == l.reports[item.inode]
             same == SameInLayout(l, r)
         IN /\ Handle(l, item).fragments = l.fragments
            /\ same = {} => /\ Handle(l, item).bytes = l.bytes
                            /\ Handle(l, item).reports = l.reports
                            /\ Handle(l, item).kept = Append(l.kept, item.inode)
            /\ same # {} => /\ Handle(l, item).bytes
                                 = SubSeq(l.bytes, 1, Len(l.bytes) - r.len)
                            /\ Handle(l, item).reports =
                                 [l.reports EXCEPT ![item.inode] =
                                    l.reports[l.kept[Min(same)]]]
                            /\ Handle(l, item).kept = l.kept
            /\ Handle(l, item) \in Layouts
<1>. DEFINE r == l.reports[item.inode]
            same == SameInLayout(l, r)
<1>1. /\ l = [bytes |-> l.bytes, reports |-> l.reports, kept |-> l.kept,
              fragments |-> l.fragments]
      /\ l.bytes \in Seq(Byte) /\ l.reports \in [Inodes -> Report]
      /\ l.kept \in Seq(Inodes) /\ l.fragments \in Seq(Entry)
  BY LayoutFields
<1>2. PICK m : m = Handle(l, item)
  OBVIOUS
<1>3. CASE same = {}
  <2>1. m = [l EXCEPT !.kept = Append(l.kept, item.inode)]
    BY <1>2, <1>3 DEF Handle, HandleDedup
  <2>2. m = [bytes |-> l.bytes, reports |-> l.reports,
             kept |-> Append(l.kept, item.inode), fragments |-> l.fragments]
    BY <1>1, <2>1
  <2>3. Append(l.kept, item.inode) \in Seq(Inodes)
    BY <1>1, AppendProperties
  <2>4. m \in Layouts
    BY <1>1, <2>2, <2>3 DEF Layouts
  <2>5. /\ m.bytes = l.bytes /\ m.reports = l.reports /\ m.fragments = l.fragments
        /\ m.kept = Append(l.kept, item.inode)
    BY <2>2
  <2>. QED  BY <1>2, <1>3, <2>4, <2>5
<1>4. CASE same # {}
  <2>. DEFINE q == l.reports[l.kept[Min(same)]]
              b == SubSeq(l.bytes, 1, Len(l.bytes) - r.len)
  <2>1. Min(same) \in same /\ same \subseteq DOMAIN l.kept
        /\ \A k \in DOMAIN l.kept : l.kept[k] \in Inodes
    BY <1>4, SameInLayoutIs, LeastIs
  <2>2. q \in Report /\ r \in Report
    BY <1>1, <2>1
  <2>3. b \in Seq(Byte)
    <3>1. r.len \in Nat /\ Len(l.bytes) \in Nat
      BY <1>1, <2>2, LenProperties DEF Report
    <3>2. \A k \in 1 .. Len(l.bytes) - r.len : l.bytes[k] \in Byte
      BY <1>1, <3>1, ElementOfSeq
    <3>. QED  BY <3>1, <3>2, SubSeqProperties
  <2>4. m = [l EXCEPT !.reports[item.inode] = q, !.bytes = b]
    BY <1>1, <1>2, <1>4 DEF Handle, HandleDedup
  <2>. HIDE DEF q, b, r, same
  <2>5. m = [bytes |-> b, reports |-> [l.reports EXCEPT ![item.inode] = q],
             kept |-> l.kept, fragments |-> l.fragments]
    BY <1>1, <2>4
  <2>6. [l.reports EXCEPT ![item.inode] = q] \in [Inodes -> Report]
    BY <1>1, <2>2
  <2>7. m \in Layouts
    BY <1>1, <2>3, <2>5, <2>6 DEF Layouts
  <2>8. /\ m.bytes = b /\ m.reports = [l.reports EXCEPT ![item.inode] = q]
        /\ m.fragments = l.fragments /\ m.kept = l.kept
    BY <2>5
  <2>. QED  BY <1>2, <1>4, <2>7, <2>8 DEF q, b, r, same
<1>. QED  BY <1>3, <1>4

LEMMA HandleType ==
  ASSUME NEW l \in Layouts, NEW item \in Items
  PROVE  Handle(l, item) \in Layouts
<1>1. CASE item.kind = "fragment"
  <2>1. item.data \in Block
    BY DEF Items
  <2>. QED  BY <1>1, <2>1, HandleFragmentIs
<1>2. CASE item.kind = "block"
  <2>1. item.data \in Block /\ item.inode \in Inodes
    BY <1>2 DEF Items
  <2>. QED  BY <1>2, <2>1, HandleBlockIs
<1>3. CASE item.kind = "dedup"
  <2>1. item.inode \in Inodes
    BY <1>3 DEF Items
  <2>. QED  BY <1>3, <2>1, HandleDedupIs
<1>4. item.kind \in {"fragment", "block", "dedup"}
  BY DEF Items
<1>. QED  BY <1>1, <1>2, <1>3, <1>4

LEMMA AheadType ==
  ASSUME NEW l \in Layouts, NEW items \in Seq(Items)
  PROVE  \A k \in 0 .. Len(items) : Ahead(l, items, k) \in Layouts
<1>1. PICK n \in Nat : n = Len(items)
  BY LenProperties
<1>. DEFINE T == {k \in 0 .. n : Ahead(l, items, k) \notin Layouts}
<1>2. SUFFICES ASSUME T # {} PROVE FALSE
  BY <1>1
<1>3. PICK k \in T : \A h \in T : k <= h
  <2>1. T \subseteq Nat
    OBVIOUS
  <2>. HIDE DEF T
  <2>. QED  BY <1>2, <2>1, LeastNumber
<1>4. k \in 0 .. n /\ Ahead(l, items, k) \notin Layouts
  BY <1>3
<1>5. k # 0
  BY <1>4, AheadNone
<1>6. PICK h : h = k - 1
  OBVIOUS
<1>7. h \in Nat /\ h \in 0 .. n /\ k = h + 1 /\ ~(k <= h) /\ k \in 1 .. n
  BY <1>4, <1>5, <1>6
<1>8. Ahead(l, items, h) \in Layouts
  BY <1>3, <1>7
<1>9. items[h + 1] \in Items
  BY <1>1, <1>7, ElementOfSeq
<1>10. Ahead(l, items, h + 1) = Handle(Ahead(l, items, h), items[h + 1])
  BY <1>7, AheadStep
<1>. QED  BY <1>4, <1>7, <1>8, <1>9, <1>10, HandleType

-----------------------------------------------------------------------------
(* The thread that writes does what is ahead.                              *)

LEMMA NowType ==
  ASSUME TypeOK, Control, Ordered, stream = "good"
  PROVE  /\ Now \in Layouts /\ End \in Nat /\ Len(Now.bytes) = End
         /\ Now.bytes = SubSeq(file, 1, End) /\ Now.reports = reports
         /\ Now.kept = blocked_duplicates /\ Now.fragments = fragments
         /\ file \in Seq(Byte) /\ Len(file) \in Nat /\ End <= Len(file)
<1>1. /\ file \in Seq(Byte) /\ Len(file) \in Nat /\ pos \in Int /\ pos <= Len(file)
  BY LenProperties DEF TypeOK, DiskOK
<1>2. End \in Int /\ 0 <= End
  BY StoredBefore
<1>3. End <= pos
  <2>1. CASE wpc = "report"
    <3>1. pos = End + SizeWord.len /\ SizeWord.len \in Nat
      BY <2>1, SizeWordType DEF Ordered, BlocksLast
    <3>. QED  BY <1>1, <1>2, <3>1
  <2>2. CASE wpc # "report"
    BY <1>1, <2>2 DEF End
  <2>. QED  BY <2>1, <2>2
<1>4. PICK n \in Nat : n = End /\ n <= Len(file)
  BY <1>1, <1>2, <1>3
<1>5. PICK b \in Seq(Byte) : b = SubSeq(file, 1, n) /\ Len(b) = n
  BY <1>1, <1>4, PrefixIs
<1>6. Now = [bytes |-> b, reports |-> reports, kept |-> blocked_duplicates,
             fragments |-> fragments]
  BY <1>4, <1>5 DEF Now
<1>7. /\ reports \in [Inodes -> Report] /\ blocked_duplicates \in Seq(Inodes)
      /\ fragments \in Seq(Entry)
  BY DEF TypeOK, LayoutOK
<1>8. Now \in Layouts
  BY <1>6, <1>7 DEF Layouts
<1>9. PICK l : l = Now
  OBVIOUS
<1>10. l.bytes = b /\ l.reports = reports /\ l.kept = blocked_duplicates
       /\ l.fragments = fragments
  BY <1>6, <1>9
<1>. QED  BY <1>1, <1>4, <1>5, <1>8, <1>9, <1>10

LEMMA BytesInNow ==
  ASSUME TypeOK, Control, Ordered, stream = "good",
         NEW r, r.start \in Int, r.len \in Nat, 0 <= r.start, EndOf(r) <= End
  PROVE  BytesIn(Now, r) = BytesOf(r)
<1>1. /\ End \in Nat /\ Now.bytes = SubSeq(file, 1, End)
      /\ file \in Seq(Byte) /\ Len(file) \in Nat /\ End <= Len(file)
  BY NowType
<1>2. PICK a \in Nat : a = r.start
  OBVIOUS
<1>3. PICK b \in Nat : b = r.start + r.len /\ b = EndOf(r)
  BY DEF EndOf
<1>4. PICK n \in Nat : n = End
  BY <1>1
<1>5. BytesOf(r) = SubSeq(file, a + 1, b)
  <2>1. EndOf(r) <= Len(file)
    BY <1>1, <1>3
  <2>2. BytesOf(r) = SubSeq(file, r.start + 1, EndOf(r))
    BY <1>1, <2>1, BytesWithin
  <2>. QED  BY <1>2, <1>3, <2>2
<1>6. SubSeq(SubSeq(file, 1, n), a + 1, b) = SubSeq(file, a + 1, b)
  <2>1. b <= n /\ n <= Len(file) /\ file \in Seq(Byte)
    BY <1>1, <1>3, <1>4
  <2>. QED  BY <2>1, PartOfPrefix
<1>. QED  BY <1>1, <1>2, <1>3, <1>4, <1>5, <1>6 DEF BytesIn

\* What is about to be reported has been written behind the rest.
LEMMA BytesReported ==
  ASSUME TypeOK, Control, Ordered, InHand, stream = "good", wpc = "report"
  PROVE  /\ End = tell /\ tell \in Nat
         /\ SubSeq(file, 1, pos) = Now.bytes \o Compress(Item.data).bytes
<1>1. /\ End \in Nat /\ Now.bytes = SubSeq(file, 1, End) /\ End = tell
      /\ file \in Seq(Byte) /\ Len(file) \in Nat /\ End <= Len(file)
      /\ pos \in Int /\ pos <= Len(file)
  BY NowType DEF End, TypeOK, DiskOK
<1>2. pos = End + SizeWord.len /\ SizeWord.len \in Nat
  BY SizeWordType DEF Ordered, BlocksLast
<1>3. PICK n \in Nat : n = tell /\ n = End
  BY <1>1
<1>4. PICK m \in Nat : m = SizeWord.len
  BY <1>2
<1>5. PICK e : e = [start |-> tell, len |-> SizeWord.len]
  OBVIOUS
<1>6. e.start = n /\ e.len = m /\ EndOf(e) = n + m /\ pos = n + m
  BY <1>2, <1>3, <1>4, <1>5 DEF EndOf
<1>7. BytesOf(e) = SubSeq(file, n + 1, n + m)
  <2>1. e.start \in Int /\ e.len \in Nat /\ 0 <= e.start /\ EndOf(e) <= Len(file)
    BY <1>1, <1>6
  <2>2. BytesOf(e) = SubSeq(file, e.start + 1, EndOf(e))
    BY <1>1, <2>1, BytesWithin
  <2>. QED  BY <1>6, <2>2
<1>8. BytesOf(e) = Compress(Item.data).bytes
  BY <1>5 DEF InHand, ItemInHand
<1>9. SubSeq(file, 1, n + m) = SubSeq(file, 1, n) \o SubSeq(file, n + 1, n + m)
  BY <1>1, <1>6, PrefixGrows
<1>. QED  BY <1>1, <1>3, <1>6, <1>7, <1>8, <1>9

\* A layout is known by its members.
LEMMA NowIs ==
  ASSUME NEW l \in Layouts, NEW m,
         m = [bytes |-> l.bytes, reports |-> l.reports, kept |-> l.kept,
              fragments |-> l.fragments]
  PROVE  m = l
BY LayoutFields

LEMMA NowReported ==
  ASSUME TypeOK, Control, Ordered, InHand, stream = "good",
         ReportFragment \/ ReportBlock
  PROVE  Now' = Handle(Now, Item)
<1>1. /\ Now \in Layouts /\ Len(Now.bytes) = End /\ Now.reports = reports
      /\ Now.kept = blocked_duplicates /\ Now.fragments = fragments
  BY NowType
<1>2. /\ wpc = "report" /\ wpc' = "pop" /\ UNCHANGED <<file, pos, blocked_duplicates>>
      /\ Item \in Items
  BY ItemType DEF ReportFragment, ReportBlock, Handled, disk
<1>3. /\ End = tell /\ SubSeq(file, 1, pos) = Now.bytes \o Compress(Item.data).bytes
      /\ End' = pos
  BY <1>2, BytesReported DEF End
<1>4. PICK h : h = Handle(Now, Item)
  OBVIOUS
<1>5. PICK x : x = Item
  OBVIOUS
<1>6. /\ SizeWord.len = Len(Compress(x.data).bytes)
      /\ SizeWord.raw = Compress(x.data).raw
      /\ SizeWord = [len |-> Len(Compress(x.data).bytes), raw |-> Compress(x.data).raw]
  BY <1>5 DEF SizeWord
<1>7. CASE ReportFragment
  <2>1. x.kind = "fragment" /\ x.data \in Block
    BY <1>2, <1>5, <1>7, ItemType DEF ReportFragment
  <2>2. /\ h \in Layouts /\ h.bytes = Now.bytes \o Compress(x.data).bytes
        /\ h.fragments = Append(Now.fragments,
                                [start |-> Len(Now.bytes),
                                 len |-> Len(Compress(x.data).bytes),
                                 raw |-> Compress(x.data).raw])
        /\ h.reports = Now.reports /\ h.kept = Now.kept
    BY <1>1, <1>4, <1>5, <2>1, HandleFragmentIs
  <2>3. /\ fragments' = Append(fragments, [start |-> tell, len |-> SizeWord.len,
                                           raw |-> SizeWord.raw])
        /\ reports' = reports
    BY <1>7 DEF ReportFragment
  <2>4. fragments' = h.fragments
    BY <1>1, <1>3, <1>6, <2>2, <2>3
  <2>5. Now' = [bytes |-> h.bytes, reports |-> h.reports, kept |-> h.kept,
                fragments |-> h.fragments]
    BY <1>1, <1>2, <1>3, <1>5, <2>2, <2>3, <2>4 DEF Now
  <2>. QED  BY <1>4, <2>2, <2>5, NowIs
<1>8. CASE ReportBlock
  <2>1. x.kind = "block" /\ x.data \in Block /\ x.inode \in Inodes
    BY <1>2, <1>5, <1>8, ItemType DEF ReportBlock
  <2>2. /\ h \in Layouts /\ h.bytes = Now.bytes \o Compress(x.data).bytes
        /\ h.fragments = Now.fragments /\ h.kept = Now.kept
        /\ h.reports = [Now.reports EXCEPT ![x.inode] =
                          WithBlock(Now.reports[x.inode], Len(Now.bytes), x.data)]
    BY <1>1, <1>4, <1>5, <2>1, HandleBlockIs
  <2>3. /\ reports' = [reports EXCEPT ![x.inode] =
                        [start |-> IF reports[x.inode].sizes = <<>> THEN tell
                                   ELSE reports[x.inode].start,
                         sizes |-> Append(reports[x.inode].sizes, SizeWord),
                         len   |-> reports[x.inode].len + SizeWord.len]]
        /\ fragments' = fragments
    BY <1>5, <1>8, <2>1 DEF ReportBlock, TypeOK, LayoutOK
  <2>4. reports' = h.reports
    BY <1>1, <1>3, <1>6, <2>2, <2>3 DEF WithBlock
  <2>5. Now' = [bytes |-> h.bytes, reports |-> h.reports, kept |-> h.kept,
                fragments |-> h.fragments]
    BY <1>1, <1>2, <1>3, <1>5, <2>2, <2>3, <2>4 DEF Now
  <2>. QED  BY <1>4, <2>2, <2>5, NowIs
<1>. QED  BY <1>7, <1>8

\* The handler compares what is in the layout.
LEMMA SameContentIs ==
  ASSUME TypeOK, Control, Ordered, stream = "good", wpc = "write",
         Item.kind = "dedup"
  PROVE  SameContent = SameInLayout(Now, reports[Item.inode])
<1>1. /\ Now \in Layouts /\ Now.reports = reports /\ Now.kept = blocked_duplicates
  BY NowType
<1>2. Item.inode \in Inodes
  BY ItemType
<1>3. \A i \in Inodes : BytesIn(Now, reports[i]) = BytesOf(reports[i])
  BY StoredBefore, BytesInNow
<1>4. \A k \in DOMAIN blocked_duplicates : blocked_duplicates[k] \in Inodes
  BY ElementOfSeq, LenProperties DEF TypeOK, LayoutOK
<1>. QED  BY <1>1, <1>2, <1>3, <1>4 DEF SameContent, SameShape, SameInLayout

LEMMA NowCompared ==
  ASSUME TypeOK, Control, Ordered, stream = "good", KeepBlocks \/ DropBlocks
  PROVE  Now' = Handle(Now, Item)
<1>1. /\ Now \in Layouts /\ Now.bytes = SubSeq(file, 1, End) /\ Now.reports = reports
      /\ Now.kept = blocked_duplicates /\ Now.fragments = fragments
      /\ Len(Now.bytes) = End /\ End \in Nat /\ End <= Len(file)
      /\ file \in Seq(Byte)
  BY NowType
<1>2. /\ wpc = "write" /\ wpc' = "pop" /\ Item.kind = "dedup"
      /\ UNCHANGED <<file, fragments>>
      /\ Item.inode \in Inodes /\ End = pos /\ End' = pos'
  BY ItemType DEF KeepBlocks, DropBlocks, Handled, disk, End
<1>3. PICK h : h = Handle(Now, Item)
  OBVIOUS
<1>4. PICK x : x = Item
  OBVIOUS
<1>5. PICK same : same = SameInLayout(Now, reports[x.inode]) /\ same = SameContent
  BY <1>2, <1>4, SameContentIs
<1>6. /\ h \in Layouts /\ h.fragments = Now.fragments
      /\ same = {} => /\ h.bytes = Now.bytes /\ h.reports = Now.reports
                      /\ h.kept = Append(Now.kept, x.inode)
      /\ same # {} => /\ h.bytes = SubSeq(Now.bytes, 1,
                                          Len(Now.bytes) - Now.reports[x.inode].len)
                      /\ h.reports = [Now.reports EXCEPT ![x.inode] =
                                        Now.reports[Now.kept[Min(same)]]]
                      /\ h.kept = Now.kept
  <2>1. PICK l \in Layouts : l = Now
    BY <1>1
  <2>2. x.kind = "dedup" /\ x.inode \in Inodes /\ h = Handle(l, x)
        /\ same = SameInLayout(l, l.reports[x.inode])
    BY <1>1, <1>2, <1>3, <1>4, <1>5, <2>1
  <2>3. /\ h \in Layouts /\ h.fragments = l.fragments
        /\ same = {} => /\ h.bytes = l.bytes /\ h.reports = l.reports
                        /\ h.kept = Append(l.kept, x.inode)
        /\ same # {} => /\ h.bytes = SubSeq(l.bytes, 1, Len(l.bytes) - l.reports[x.inode].len)
                        /\ h.reports = [l.reports EXCEPT ![x.inode] =
                                          l.reports[l.kept[Min(same)]]]
                        /\ h.kept = l.kept
    BY <2>2, HandleDedupIs
  <2>. QED  BY <2>1, <2>3
<1>7. CASE KeepBlocks
  <2>1. /\ same = {} /\ UNCHANGED <<pos, reports>>
        /\ blocked_duplicates' = Append(blocked_duplicates, x.inode)
    BY <1>4, <1>5, <1>7 DEF KeepBlocks, disk
  <2>2. Now' = [bytes |-> h.bytes, reports |-> h.reports, kept |-> h.kept,
                fragments |-> h.fragments]
    BY <1>1, <1>2, <1>6, <2>1 DEF Now
  <2>. QED  BY <1>3, <1>6, <2>2, NowIs
<1>8. CASE DropBlocks
  <2>1. PICK k \in same :
          /\ \A l \in same : k <= l
          /\ reports' = [reports EXCEPT ![x.inode] = reports[blocked_duplicates[k]]]
    BY <1>4, <1>5, <1>8 DEF DropBlocks
  <2>2. /\ pos' = pos - reports[x.inode].len
        /\ UNCHANGED blocked_duplicates
    BY <1>4, <1>8 DEF DropBlocks
  <2>3. Min(same) = k
    <3>1. same \subseteq Nat
      BY <1>1, <1>5, SameInLayoutIs
    <3>2. Min(same) \in same /\ Min(same) <= k
      BY <2>1, <3>1, LeastIs
    <3>. QED  BY <2>1, <3>1, <3>2
  <2>4. pos' \in Nat /\ pos' <= pos
    <3>1. /\ reports[x.inode].start \in Int /\ reports[x.inode].len \in Nat
          /\ EndOf(reports[x.inode]) = reports[x.inode].start + reports[x.inode].len
          /\ 0 <= reports[x.inode].start /\ EndOf(reports[x.inode]) <= End
      BY <1>2, <1>4, StoredBefore
    <3>. QED  BY <1>1, <1>2, <2>2, <3>1
  <2>5. SubSeq(file, 1, pos') = h.bytes
    <3>1. PICK m \in Nat : m = pos' /\ m <= pos
      BY <2>4
    <3>2. PICK n \in Nat : n = pos /\ n = End /\ n <= Len(file)
      BY <1>1, <1>2
    <3>3. PICK a \in Nat : a = 0
      OBVIOUS
    <3>4. SubSeq(SubSeq(file, 1, n), a + 1, m) = SubSeq(file, a + 1, m)
      <4>1. m <= n /\ n <= Len(file) /\ file \in Seq(Byte)
        BY <1>1, <3>1, <3>2
      <4>. QED  BY <4>1, PartOfPrefix
    <3>5. h.bytes = SubSeq(SubSeq(file, 1, n), 1, m)
      <4>1. same # {} /\ Now.bytes = SubSeq(file, 1, n) /\ Len(Now.bytes) = n
            /\ Now.reports[x.inode].len = reports[x.inode].len
        BY <1>1, <2>1, <3>2
      <4>2. n - reports[x.inode].len = m
        BY <2>2, <3>1, <3>2
      <4>3. h.bytes = SubSeq(Now.bytes, 1, Len(Now.bytes) - Now.reports[x.inode].len)
        BY <1>6, <4>1
      <4>4. h.bytes = SubSeq(Now.bytes, 1, n - reports[x.inode].len)
        BY <4>1, <4>3
      <4>. QED  BY <4>1, <4>2, <4>4
    <3>6. a + 1 = 1
      BY <3>3
    <3>. QED  BY <3>1, <3>4, <3>5, <3>6
  <2>6. reports' = h.reports
    BY <1>1, <1>6, <2>1, <2>3
  <2>7. Now' = [bytes |-> h.bytes, reports |-> h.reports, kept |-> h.kept,
                fragments |-> h.fragments]
    BY <1>1, <1>2, <1>6, <2>1, <2>2, <2>5, <2>6 DEF Now
  <2>. QED  BY <1>3, <1>6, <2>7, NowIs
<1>. QED  BY <1>7, <1>8

-----------------------------------------------------------------------------
(* What a step does to what is ahead.                                      *)

LEMMA DrainedType ==
  ASSUME TypeOK, Control, Ordered, stream = "good"
  PROVE  /\ Drained \in Layouts /\ Len(Pending) \in Nat
         /\ \A k \in 0 .. Len(Pending) : Ahead(Now, Pending, k) \in Layouts
<1>1. Now \in Layouts
  BY NowType
<1>2. Pending \in Seq(Items) /\ Len(Pending) \in Nat
  BY PendingType, LenProperties
<1>3. \A k \in 0 .. Len(Pending) : Ahead(Now, Pending, k) \in Layouts
  BY <1>1, <1>2, AheadType
<1>. QED  BY <1>2, <1>3 DEF Drained

\* The step leaves what is stored before the item in hand, and that.
LEMMA DrainedSame ==
  ASSUME Now' = Now, Pending' = Pending
  PROVE  Drained' = Drained /\ (Steady => Steady')
<1>1. Drained' = Drained
  BY DEF Drained
<1>2. Steady => Steady'
  BY DEF Steady
<1>. QED  BY <1>1, <1>2

\* The item in hand is handled.
LEMMA DrainedHandled ==
  ASSUME TypeOK, Control, Begins(Pending, Item, Pending'), Now' = Handle(Now, Item)
  PROVE  Drained' = Drained /\ (Steady => Steady')
<1>1. PICK l : l = Now
  OBVIOUS
<1>2. PICK items : items = Pending
  OBVIOUS
<1>3. PICK rest : rest = Pending'
  OBVIOUS
<1>4. PICK x : x = Item
  OBVIOUS
<1>5. Begins(items, x, rest) /\ Now' = Handle(l, x)
  BY <1>1, <1>2, <1>3, <1>4
<1>6. PICK n \in Nat : n = Len(rest) /\ Len(items) = n + 1
  <2>1. Len(rest) \in Nat /\ DOMAIN items = 1 .. Len(rest) + 1
    BY <1>5 DEF Begins
  <2>2. Len(items) \in Nat /\ DOMAIN items = 1 .. Len(items)
    BY <1>2, PendingItems
  <2>. QED  BY <2>1, <2>2
<1>7. \A k \in 0 .. n : Ahead(Handle(l, x), rest, k) = Ahead(l, items, k + 1)
  BY <1>5, <1>6, AheadShift
<1>8. Drained' = Drained
  <2>1. Drained' = Ahead(Handle(l, x), rest, n)
    BY <1>3, <1>5, <1>6 DEF Drained
  <2>2. Drained = Ahead(l, items, n + 1)
    BY <1>1, <1>2, <1>6 DEF Drained
  <2>. QED  BY <1>7, <2>1, <2>2
<1>9. ASSUME Steady PROVE Steady'
  <2>1. \A k \in 1 .. n + 1 : Preserves(Ahead(l, items, k - 1), Ahead(l, items, k))
    BY <1>1, <1>2, <1>6, <1>9 DEF Steady
  <2>2. ASSUME NEW k \in 1 .. n
        PROVE  Preserves(Ahead(Handle(l, x), rest, k - 1), Ahead(Handle(l, x), rest, k))
    <3>1. /\ k - 1 \in 0 .. n /\ k \in 0 .. n /\ (k - 1) + 1 = k
          /\ k + 1 \in 1 .. n + 1 /\ (k + 1) - 1 = k
      OBVIOUS
    <3>2. Preserves(Ahead(l, items, (k + 1) - 1), Ahead(l, items, k + 1))
      BY <2>1, <3>1
    <3>3. /\ Ahead(Handle(l, x), rest, k - 1) = Ahead(l, items, k)
          /\ Ahead(Handle(l, x), rest, k) = Ahead(l, items, k + 1)
      BY <1>7, <3>1
    <3>. QED  BY <3>1, <3>2, <3>3
  <2>. QED  BY <1>3, <1>5, <1>6, <2>2 DEF Steady
<1>. QED  BY <1>8, <1>9

\* An item is queued.
LEMMA DrainedQueued ==
  ASSUME Now' = Now, NEW item, Appends(Pending, item, Pending')
  PROVE  /\ Drained' = Handle(Drained, item)
         /\ Steady /\ Preserves(Drained, Handle(Drained, item)) => Steady'
<1>1. PICK l : l = Now
  OBVIOUS
<1>2. PICK items : items = Pending
  OBVIOUS
<1>3. PICK more : more = Pending'
  OBVIOUS
<1>4. Appends(items, item, more) /\ Now' = l
  BY <1>1, <1>2, <1>3
<1>5. PICK n \in Nat : n = Len(items) /\ Len(more) = n + 1
  <2>1. Len(items) \in Nat /\ DOMAIN more = 1 .. Len(items) + 1 /\ more \in Seq(Items)
    <3>1. <<item>> \in Seq(Items) /\ items \in Seq(Items)
          /\ more = items \o <<item>>
      BY <1>4 DEF Appends
    <3>2. items \o <<item>> \in Seq(Items)
      BY <3>1, ConcatProperties
    <3>. QED  BY <1>4, <3>1, <3>2 DEF Appends
  <2>2. Len(more) \in Nat /\ DOMAIN more = 1 .. Len(more)
    BY <2>1, LenProperties
  <2>. QED  BY <2>1, <2>2
<1>6. /\ \A k \in 0 .. n : Ahead(l, more, k) = Ahead(l, items, k)
      /\ Ahead(l, more, n + 1) = Handle(Ahead(l, items, n), item)
  BY <1>4, <1>5, AheadAppend
<1>7. Drained = Ahead(l, items, n) /\ Drained' = Ahead(l, more, n + 1)
  BY <1>1, <1>2, <1>3, <1>4, <1>5 DEF Drained
<1>8. ASSUME Steady, Preserves(Drained, Handle(Drained, item)) PROVE Steady'
  <2>1. \A k \in 1 .. n : Preserves(Ahead(l, items, k - 1), Ahead(l, items, k))
    BY <1>1, <1>2, <1>5, <1>8 DEF Steady
  <2>2. ASSUME NEW k \in 1 .. n + 1
        PROVE  Preserves(Ahead(l, more, k - 1), Ahead(l, more, k))
    <3>1. CASE k \in 1 .. n
      <4>1. k - 1 \in 0 .. n /\ k \in 0 .. n
        BY <3>1
      <4>. QED  BY <1>6, <2>1, <3>1, <4>1
    <3>2. CASE k \notin 1 .. n
      <4>1. k = n + 1 /\ k - 1 = n /\ n \in 0 .. n
        BY <3>2
      <4>. QED  BY <1>6, <1>7, <1>8, <4>1
    <3>. QED  BY <3>1, <3>2
  <2>. QED  BY <1>3, <1>4, <1>5, <2>2 DEF Steady
<1>. QED  BY <1>6, <1>7, <1>8

\* What the client may read now stays until all is drained.
LEMMA SteadyPreserves ==
  ASSUME TypeOK, Control, Ordered, stream = "good", Steady
  PROVE  Preserves(Now, Drained)
<1>1. PICK n \in Nat : n = Len(Pending)
  BY DrainedType
<1>. DEFINE T == {k \in 0 .. n : ~Preserves(Ahead(Now, Pending, 0), Ahead(Now, Pending, k))}
<1>2. ASSUME NEW k \in 0 .. n PROVE Len(Ahead(Now, Pending, k).fragments) \in Nat
  <2>1. Ahead(Now, Pending, k) \in Layouts
    BY <1>1, DrainedType
  <2>. QED  BY <2>1, LayoutFields, LenProperties
<1>3. SUFFICES ASSUME T # {} PROVE FALSE
  <2>1. Ahead(Now, Pending, 0) = Now
    BY AheadNone
  <2>. QED  BY <1>1, <2>1 DEF Drained
<1>4. PICK k \in T : \A h \in T : k <= h
  <2>1. T \subseteq Nat
    OBVIOUS
  <2>. HIDE DEF T
  <2>. QED  BY <1>3, <2>1, LeastNumber
<1>5. k \in 0 .. n /\ ~Preserves(Ahead(Now, Pending, 0), Ahead(Now, Pending, k))
  BY <1>4
<1>6. k # 0
  <2>1. 0 \in 0 .. n
    OBVIOUS
  <2>2. Len(Ahead(Now, Pending, 0).fragments) \in Nat
    BY <1>2, <2>1
  <2>3. Preserves(Ahead(Now, Pending, 0), Ahead(Now, Pending, 0))
    BY <2>2 DEF Preserves
  <2>. QED  BY <1>5, <2>3
<1>7. PICK h : h = k - 1
  OBVIOUS
<1>8. h \in 0 .. n /\ ~(k <= h) /\ k \in 1 .. n /\ 0 \in 0 .. n
  BY <1>5, <1>6, <1>7
<1>9. Preserves(Ahead(Now, Pending, 0), Ahead(Now, Pending, h))
  BY <1>4, <1>8
<1>10. Preserves(Ahead(Now, Pending, h), Ahead(Now, Pending, k))
  BY <1>1, <1>7, <1>8 DEF Steady
<1>11. /\ Len(Ahead(Now, Pending, 0).fragments) \in Nat
       /\ Len(Ahead(Now, Pending, h).fragments) \in Nat
       /\ Len(Ahead(Now, Pending, k).fragments) \in Nat
  BY <1>2, <1>5, <1>8
<1>. QED  BY <1>5, <1>9, <1>10, <1>11, PreservesTransitive

\* The client does not touch what is stored.
LEMMA NowOfClient ==
  ASSUME UNCHANGED <<file, pos, tell, layout>>, End' = End
  PROVE  Now' = Now
BY DEF Now, layout

\* Bytes that are written come behind those that are stored.
LEMMA NowWritten ==
  ASSUME TypeOK, TypeOK', Control, Ordered, WriteBytes
  PROVE  Now' = Now
<1>1. stream = "good" /\ wpc = "write" /\ wpc' = "report" /\ tell' = pos
      /\ UNCHANGED layout
  BY DEF WriteBytes
<1>2. End = pos /\ End' = pos /\ End \in Nat
  BY <1>1, NowType DEF End
<1>3. /\ file \in Seq(Byte) /\ file' \in Seq(Byte)
      /\ pos \in Nat /\ pos <= Len(file) /\ Len(file) <= Len(file')
      /\ \A k \in 1 .. pos : file'[k] = file[k]
  BY <1>2, FileWritten
<1>4. PICK t \in Seq(Byte) : t = file'
  BY <1>3
<1>5. PICK s \in Seq(Byte) : s = file
  BY <1>3
<1>6. PICK n \in Nat : n = pos
  BY <1>3
<1>7. n <= Len(s) /\ n <= Len(t) /\ \A k \in 1 .. n : s[k] = t[k]
  <2>1. Len(s) \in Nat /\ Len(t) \in Nat
    BY LenProperties
  <2>. QED  BY <1>3, <1>4, <1>5, <1>6, <2>1
<1>8. SubSeq(s, 1, n) = SubSeq(t, 1, n)
  <2>1. PICK a \in Nat : a = 0
    OBVIOUS
  <2>2. SubSeq(s, a + 1, n) = SubSeq(t, a + 1, n)
    BY <1>7, SameRange
  <2>3. a + 1 = 1
    BY <2>1
  <2>. QED  BY <2>2, <2>3
<1>. QED  BY <1>1, <1>2, <1>4, <1>5, <1>6, <1>8 DEF Now, layout

\* The thread that writes never changes what will be.
LEMMA DrainedByWriter ==
  ASSUME IInv, TypeOK', Healthy, Healthy', Writer
  PROVE  Drained' = Drained /\ (Steady => Steady')
<1>1. /\ TypeOK /\ Control /\ Ordered /\ InHand /\ stream = "good"
  BY DEF IInv, OrderInv, PathInv, Healthy
<1>2. CASE Take \/ Exit \/ WriteBytes
  <2>1. Pending' = Pending
    BY <1>1, <1>2, PendingTaken DEF Exit, WriteBytes, Pending, channel, control
  <2>2. Now' = Now
    <3>1. CASE Take \/ Exit
      BY <3>1, NowOfClient DEF Take, Exit, End, disk
    <3>2. CASE WriteBytes
      BY <1>1, <3>2, NowWritten
    <3>. QED  BY <1>2, <3>1, <3>2
  <2>. QED  BY <2>1, <2>2, DrainedSame
<1>3. CASE ReportFragment \/ ReportBlock \/ KeepBlocks \/ DropBlocks
  <2>1. Now' = Handle(Now, Item)
    BY <1>1, <1>3, NowReported, NowCompared
  <2>2. /\ wpc \in {"write", "report"} /\ held' = <<>>
        /\ UNCHANGED <<queue, pushing>>
    BY <1>3 DEF ReportFragment, ReportBlock, KeepBlocks, DropBlocks, Handled, channel
  <2>3. Begins(Pending, Item, Pending')
    BY <1>1, <2>2, PendingHandled
  <2>. QED  BY <1>1, <2>1, <2>3, DrainedHandled
<1>4. CASE WriteIsLost \/ HandleThrows
  BY <1>4 DEF WriteIsLost, HandleThrows, Healthy
<1>. QED  BY <1>2, <1>3, <1>4 DEF Writer
=============================================================================
