-------------------------- MODULE SequentialImage --------------------------
(***************************************************************************)
(* The image archive2sqfs should make of an archive, stated without        *)
(* threads, queue, file position or compression futures: the files are     *)
(* taken one after the other, and each adds its own bytes to the image or  *)
(* shares those of an earlier file. SqshWriter is held against this.       *)
(***************************************************************************)
EXTENDS Codec, SequencesExt

CONSTANTS Checksum(_), \* adler32 of a block
          Checksums    \* the values Checksum takes

ASSUME ChecksumAssumption == \A b \in Block : Checksum(b) \in Checksums

NoFragment == [fragment |-> -1, offset |-> 0]        \* SQFS_FRAGMENT_NONE
NoReport   == [start |-> 0, sizes |-> <<>>, len |-> 0]

NoFiles == [bytes |-> <<>>, reports |-> <<>>, fragments |-> <<>>,
            indices |-> <<>>,
            current |-> <<>>,   \* the fragment that is not full yet
            kept |-> <<>>,      \* the files with blocks of their own
            small |-> {}]       \* those with a place of their own

\* Block k of a file, and how many there are.
BlockOf(c, k) == SubSeq(c, (k - 1) * BlockSize + 1, Min({k * BlockSize, Len(c)}))
BlockCount(c) == (Len(c) + BlockSize - 1) \div BlockSize

\* What is stored of the first n blocks.
StoredBlocks(c, n) ==
  LET stored[k \in 0 .. n] ==
        IF k = 0 THEN <<>> ELSE stored[k - 1] \o Compress(BlockOf(c, k)).bytes
  IN stored[n]

BlocksReport(start, c, n) ==
  [start |-> start,
   sizes |-> [k \in 1 .. n |-> [len |-> Len(Compress(BlockOf(c, k)).bytes),
                                raw |-> Compress(BlockOf(c, k)).raw]],
   len   |-> Len(StoredBlocks(c, n))]

\* The kept files that are stored as the same bytes.
SameBlocks(s, own, bytes) ==
  {k \in DOMAIN s.kept :
     LET r == s.reports[s.kept[k]]
     IN r.sizes = own.sizes /\ SubSeq(s.bytes, r.start + 1, r.start + r.len) = bytes}

\* A file of at least a block: its blocks in order, unless dedup finds an
\* earlier file stored as the same bytes.
AddBlocks(s, c, dedup) ==
  LET bytes == StoredBlocks(c, BlockCount(c))
      own   == BlocksReport(Len(s.bytes), c, BlockCount(c))
      same  == SameBlocks(s, own, bytes)
  IN IF dedup /\ same # {}
       THEN [s EXCEPT !.reports = Append(@, s.reports[s.kept[Min(same)]]),
                      !.indices = Append(@, NoFragment)]
       ELSE [s EXCEPT !.bytes = @ \o bytes,
                      !.reports = Append(@, own),
                      !.indices = Append(@, NoFragment),
                      !.kept = Append(@, Len(s.reports) + 1)]

CloseFragment(s) ==
  IF s.current = <<>> THEN s
  ELSE LET c == Compress(s.current)
       IN [s EXCEPT !.bytes = @ \o c.bytes,
                    !.fragments = Append(@, [start |-> Len(s.bytes),
                                             len |-> Len(c.bytes),
                                             raw |-> c.raw]),
                    !.current = <<>>]

FragmentContent(s, f) ==
  IF f = Len(s.fragments) THEN s.current
  ELSE LET e == s.fragments[f + 1]
       IN Decompress(SubSeq(s.bytes, e.start + 1, e.start + e.len), e.raw)

\* The earlier files with the same checksum where c is found.
SameContents(s, c) ==
  {i \in DOMAIN s.indices :
     /\ [file |-> i, checksum |-> Checksum(c)] \in s.small
     /\ Matches(c, FragmentContent(s, s.indices[i].fragment), s.indices[i].offset)}

\* A smaller file: a place in the current fragment, unless dedup finds it in
\* the place of an earlier one, of the last such.
AddSmall(s, c, dedup) ==
  LET same == SameContents(s, c)
      t == IF Len(s.current) + Len(c) > BlockSize THEN CloseFragment(s) ELSE s
      at == [fragment |-> Len(t.fragments), offset |-> Len(t.current)]
      own == [file |-> Len(s.indices) + 1, checksum |-> Checksum(c)]
  IN IF dedup /\ same # {}
       THEN [s EXCEPT !.reports = Append(@, NoReport),
                      !.indices = Append(@, s.indices[Max(same)])]
       ELSE [t EXCEPT !.reports = Append(@, NoReport),
                      !.indices = Append(@, at),
                      !.current = @ \o c,
                      !.small = @ \cup {own}]

AddEmpty(s) == [s EXCEPT !.reports = Append(@, NoReport),
                         !.indices = Append(@, NoFragment)]

AddFile(s, c, dedup) ==
  CASE c = <<>> -> AddEmpty(s)
    [] c # <<>> /\ Len(c) < BlockSize -> AddSmall(s, c, dedup)
    [] OTHER -> AddBlocks(s, c, dedup)

\* What there is after the first n files.
After(files, dedup, n) ==
  LET after[k \in 0 .. n] ==
        IF k = 0 THEN NoFiles ELSE AddFile(after[k - 1], files[k], dedup)
  IN after[n]

\* The data of the image and the tables that say where it is.
SequentialImage(files, dedup) ==
  LET s == CloseFragment(After(files, dedup, Len(files)))
  IN [bytes |-> s.bytes, reports |-> s.reports, fragments |-> s.fragments,
      indices |-> s.indices]
=============================================================================
