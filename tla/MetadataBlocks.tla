--------------------------- MODULE MetadataBlocks ---------------------------
(***************************************************************************)
(* What metadata_writer does to its members, as operators on their values. *)
(* A writer is a record: table is the sequence of blocks written, each     *)
(* with the place at which it begins, size is table.size(), the bytes they *)
(* take with their headers, and buff is the block being filled. BlockSize  *)
(* is SQFS_META_BLOCK_SIZE here. The codec's BlockSize bounds what it is   *)
(* given, so it is the same number.                                        *)
(***************************************************************************)
EXTENDS Codec, SequencesExt

\* A block is padded with zeros.
ASSUME PaddingAssumption == 0 \in Byte

\* The 16-bit word before each block: its size and whether it is raw.
HeaderSize == 2

Stored == [at : Nat, bytes : Seq(Byte), raw : BOOLEAN]
Writers == [table : Seq(Stored), size : Nat, buff : Block]

NewWriter == [table |-> <<>>, size |-> 0, buff |-> <<>>]

\* get_address: a place in the table and one in the uncompressed block there.
GetAddress(w) == [block |-> w.size, offset |-> Len(w.buff)]

\* Mutant of WriteBlockNoPad: the header is not counted.
WriteBlockNoHeader(w) ==
  IF w.buff = <<>> THEN w
  ELSE LET c == Compress(w.buff)
       IN [table |-> Append(w.table, [at |-> w.size, bytes |-> c.bytes,
                                      raw |-> c.raw]),
           size  |-> w.size + Len(c.bytes),
           buff  |-> <<>>]

\* write_block_no_pad with write_block_compressed: nothing is written when
\* the buffer is empty.
WriteBlockNoPad(w) ==
  IF w.buff = <<>> THEN w
  ELSE LET c == Compress(w.buff)
       IN [table |-> Append(w.table, [at |-> w.size, bytes |-> c.bytes,
                                      raw |-> c.raw]),
           size  |-> w.size + HeaderSize + Len(c.bytes),
           buff  |-> <<>>]

\* write_block: an empty buffer makes a block of zeros.
Padded(b) == b \o [k \in 1 .. BlockSize - Len(b) |-> 0]
WriteBlock(w) == WriteBlockNoPad([w EXCEPT !.buff = Padded(@)])

\* Mutant of Added: the room that is left does not matter.
AddedAll(w, b) == Len(b)

\* put: how many bytes of b the buffer has room for.
Added(w, b) == IF Len(b) > BlockSize - Len(w.buff) THEN BlockSize - Len(w.buff)
                                                   ELSE Len(b)

Filled(w, b) == [w EXCEPT !.buff = @ \o SubSeq(b, 1, Added(w, b))]

\* Mutant of AddChunk: a full block is written by the next one who comes.
AddChunkLazily(w, b) == IF Len(w.buff) = BlockSize THEN WriteBlock(w)
                                                   ELSE Filled(w, b)

\* Mutant of AddChunk: only write_block and write_block_no_pad write a block.
AddChunkOnly(w, b) == Filled(w, b)

\* put: one turn of its loop. A block is written as soon as it is full.
AddChunk(w, b) == IF Len(Filled(w, b).buff) = BlockSize
                    THEN WriteBlock(Filled(w, b))
                    ELSE Filled(w, b)

\* put as a whole. That the loop's chunks come to the same as single bytes
\* is for MetadataWriter to show.
Put(w, b) == FoldLeft(LAMBDA v, x : AddChunk(v, <<x>>), w, b)

-----------------------------------------------------------------------------
(* A reader of the table: it goes to a block and on to those that follow.  *)

Content(block) == Decompress(block.bytes, block.raw)

\* The last block is the one that is still in the buffer.
BlockStart(w, j) == IF j \in DOMAIN w.table THEN w.table[j].at ELSE w.size
BlockContent(w, j) == IF j \in DOMAIN w.table THEN Content(w.table[j]) ELSE w.buff

\* Each block begins where the one before it ends.
Contiguous(w) ==
  /\ BlockStart(w, 1) = 0
  /\ \A j \in 1 .. Len(w.table) :
       BlockStart(w, j + 1)
         = BlockStart(w, j) + HeaderSize + Len(w.table[j].bytes)

\* Byte n of a table, from 0, over blocks that are full but for the last.
HasByte(w, n, x) ==
  \E j \in 1 .. Len(w.table) + 1 :
    LET o == n - (j - 1) * BlockSize
    IN o + 1 \in DOMAIN BlockContent(w, j) /\ BlockContent(w, j)[o + 1] = x

\* Address a is where byte n of the table is, or will be.
IsPlace(w, a, n) ==
  \E j \in 1 .. Len(w.table) + 1 :
    /\ BlockStart(w, j) = a.block
    /\ a.offset < BlockSize
    /\ n = (j - 1) * BlockSize + a.offset

\* Address a is inside the block it names, and there these bytes begin.
Leads(w, a, bytes) ==
  \E j \in 1 .. Len(w.table) + 1 :
    /\ BlockStart(w, j) = a.block
    /\ bytes # <<>> => a.offset < Len(BlockContent(w, j))
    /\ \A i \in DOMAIN bytes :
         HasByte(w, (j - 1) * BlockSize + a.offset + i - 1, bytes[i])
=============================================================================
