------------------------------- MODULE Codec -------------------------------
(***************************************************************************)
(* compressor.h and get_block (sqsh_writer.cc): what is done to a block on *)
(* its way into the image and out of it again: a block of file data, a     *)
(* fragment, or a block of a metadata table. The codecs themselves (zlib,  *)
(* zstd) are libraries; of them only the round trip is assumed.            *)
(***************************************************************************)
EXTENDS Integers, Sequences

CONSTANTS Byte,        \* the byte values of the archived files
          BlockSize,   \* block_size(), or the size of a metadata block
          Deflate(_),  \* what the codec makes of a block
          Inflate(_)   \* and back

Block == UNION {[1 .. n -> Byte] : n \in 0 .. BlockSize}

ASSUME BlockSizeAssumption == BlockSize \in Nat \ {0}

ASSUME CodecAssumption ==
  \A b \in Block : /\ Deflate(b) \in Seq(Byte)
                   /\ Inflate(Deflate(b)) = b

\* A block is stored compressed only when that makes it smaller; raw stands
\* for SQFS_BLOCK_COMPRESSED_BIT in its size word.
Compress(b) == IF b # <<>> /\ Len(Deflate(b)) < Len(b)
                 THEN [bytes |-> Deflate(b), raw |-> FALSE]
                 ELSE [bytes |-> b, raw |-> TRUE]

Decompress(bytes, raw) == IF raw THEN bytes ELSE Inflate(bytes)

\* compare_range: block is what content holds at offset.
Matches(block, content, offset) ==
  /\ Len(block) + offset <= Len(content)
  /\ block = SubSeq(content, offset + 1, offset + Len(block))
=============================================================================
