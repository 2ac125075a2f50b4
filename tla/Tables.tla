------------------------------- MODULE Tables -------------------------------
(***************************************************************************)
(* The end of the image: dirtree::write_tables closes the inode and the    *)
(* directory table, sqsh_writer::write_tables writes them behind the data, *)
(* then the fragment and the id table, each with an index of its blocks,   *)
(* and write_header puts the superblock in front. The client is alone by   *)
(* then. An action is one statement, or one turn of the loop over entries. *)
(*                                                                         *)
(* Of the output file this keeps what the tables put into it: extents of   *)
(* blocks and of index words, with their positions.                        *)
(***************************************************************************)
EXTENDS MetadataBlocks

CONSTANTS Open,        \* the writers that put has left: MetadataWriter's Layout
          Fragments,   \* fragment tables: sequences of entries
          Ids,         \* id tables: sequences of entries
          EntrySize,   \* of each of them: 16 and 4 bytes
          IndexSize,   \* of an index word: 8 bytes
          SuperSize,   \* SQFS_SUPER_SIZE
          PadSize,     \* SQFS_PAD_SIZE
          Starts       \* where the data may end and how long the file is

Indexed == {"fragment", "id"}

ASSUME OpenAssumption ==
  \A w \in Open : w \in Writers /\ Contiguous(w) /\ Len(w.buff) < BlockSize

ASSUME EntryAssumption ==
  /\ EntrySize \in [Indexed -> Nat \ {0}]
  /\ \A t \in Indexed : BlockSize % EntrySize[t] = 0
  /\ Fragments \subseteq Seq([1 .. EntrySize["fragment"] -> Byte])
  /\ Ids \subseteq Seq([1 .. EntrySize["id"] -> Byte])

ASSUME SizeAssumption ==
  /\ IndexSize \in Nat \ {0} /\ SuperSize \in Nat \ {0} /\ PadSize \in Nat \ {0}
  /\ \A s \in Starts : /\ s.tell \in Nat /\ s.length \in Nat
                       /\ SuperSize <= s.tell /\ s.tell <= s.length

VARIABLES
  entries,                       \* fragments and rids
  inode_writer, dentry_writer,   \* the writers of the first two tables
  super,                         \* where each table starts; bytes_used
  pc, table,                     \* the statement, the table it writes
  mdw, indices, i, rest,         \* sqsh_writer_write_indexed_table and, in
                                 \* it, what put's loop has left of an entry
  disk, tell, length             \* the output file

vars == <<entries, inode_writer, dentry_writer, super, pc, table, mdw, indices,
          i, rest, disk, tell, length>>

\* The fields of the superblock that are set here.
Names == {"inode", "directory", "fragment", "id", "bytes_used"}

Init ==
  /\ \E f \in Fragments, d \in Ids :
       entries = [t \in Indexed |-> IF t = "id" THEN d ELSE f]
  /\ inode_writer \in Open /\ dentry_writer \in Open
  /\ super = [t \in Names |-> 0]
  /\ pc = "close" /\ table = "inode"
  /\ mdw = NewWriter /\ indices = <<>> /\ i = 0 /\ rest = <<>>
  /\ disk = {}
  /\ \E s \in Starts : tell = s.tell /\ length = s.length

-----------------------------------------------------------------------------
\* Extents on the disk.
Extent(kind, pos, size, what) ==
  [kind |-> kind, pos |-> pos, size |-> size, what |-> what]

\* out: the blocks go where the file position is.
Out(w) == {Extent("block", tell + b.at, HeaderSize + Len(b.bytes), b) :
             b \in Range(w.table)}

MoveTo(pos) == tell' = pos /\ length' = Max({length, pos})

CloseTables ==
  /\ pc = "close"
  /\ inode_writer' = WriteBlock(inode_writer)
  /\ dentry_writer' = WriteBlock(dentry_writer)
  /\ pc' = "tell"
  /\ UNCHANGED <<entries, super, table, mdw, indices, i, rest, disk, tell,
                 length>>

\* TELL_WR of the inode and the directory table.
WriteTable ==
  /\ pc = "tell" /\ table \in {"inode", "directory"}
  /\ LET w == IF table = "inode" THEN inode_writer ELSE dentry_writer
     IN disk' = disk \cup Out(w) /\ MoveTo(tell + w.size)
  /\ super' = [super EXCEPT ![table] = tell]
  /\ table' = IF table = "inode" THEN "directory" ELSE "fragment"
  /\ UNCHANGED <<entries, inode_writer, dentry_writer, pc, mdw, indices, i, rest>>

\* TELL_WR of the fragment and the id table, which at first start here.
BeginIndexed ==
  /\ pc = "tell" /\ table \in Indexed
  /\ super' = [super EXCEPT ![table] = tell]
  /\ mdw' = NewWriter /\ indices' = <<>> /\ i' = 0
  /\ pc' = "entries"
  /\ UNCHANGED <<entries, inode_writer, dentry_writer, table, rest, disk, tell,
                 length>>

Count == Len(entries[table])
PerBlock(t) == BlockSize \div EntrySize[t]

\* Mutant of PutEntry: a block gets its index word with its last entry.
PutEntryLate ==
  /\ pc = "entries" /\ rest = <<>> /\ i < Count
  /\ rest' = entries[table][i + 1]
  /\ indices' = IF (i + 1) % PerBlock(table) = 0
                  THEN Append(indices, super[table] + GetAddress(mdw).block)
                  ELSE indices
  /\ i' = i + 1
  /\ UNCHANGED <<entries, inode_writer, dentry_writer, super, pc, table, mdw,
                 disk, tell, length>>

\* A turn of the loop over the entries, but for the loop in put: the index
\* word is made of the address put took before its first turn.
PutEntry ==
  /\ pc = "entries" /\ rest = <<>> /\ i < Count
  /\ rest' = entries[table][i + 1]
  /\ indices' = IF i % PerBlock(table) = 0
                  THEN Append(indices, super[table] + GetAddress(mdw).block)
                  ELSE indices
  /\ i' = i + 1
  /\ UNCHANGED <<entries, inode_writer, dentry_writer, super, pc, table, mdw,
                 disk, tell, length>>

\* A turn of the loop in put.
PutChunk ==
  /\ rest # <<>>
  /\ mdw' = AddChunk(mdw, rest)
  /\ rest' = SubSeq(rest, Added(mdw, rest) + 1, Len(rest))
  /\ UNCHANGED <<entries, inode_writer, dentry_writer, super, pc, table, indices,
                 i, disk, tell, length>>

\* Mutant of LastBlock: a table that fills no block has none.
LastBlockIfFull == IF i >= PerBlock(table) THEN WriteBlockNoPad(mdw) ELSE mdw

\* A block that the entries do not fill has not been written yet.
LastBlock == IF i % PerBlock(table) # 0 THEN WriteBlockNoPad(mdw) ELSE mdw

\* After the loop: the last block, the blocks, the index behind them. The
\* table starts at its index from here on.
EndIndexed ==
  /\ pc = "entries" /\ rest = <<>> /\ i = Count
  /\ mdw' = LastBlock
  /\ LET start == tell + LastBlock.size
     IN /\ super' = [super EXCEPT ![table] = start]
        /\ disk' = disk \cup Out(LastBlock)
                     \cup {Extent("word", start + IndexSize * (k - 1), IndexSize,
                                   indices[k]) : k \in DOMAIN indices}
        /\ MoveTo(start + IndexSize * Len(indices))
  /\ IF table = "fragment" THEN table' = "id" /\ pc' = "tell"
                           ELSE pc' = "used" /\ UNCHANGED table
  /\ UNCHANGED <<entries, inode_writer, dentry_writer, indices, i, rest>>

BytesUsed ==
  /\ pc = "used"
  /\ super' = [super EXCEPT !["bytes_used"] = tell]
  /\ pc' = "header"
  /\ UNCHANGED <<entries, inode_writer, dentry_writer, table, mdw, indices, i,
                 rest, disk, tell, length>>

\* Mutant of WriteHeader: the image is padded from the end of the file.
WriteHeaderAtEnd ==
  /\ pc = "header"
  /\ disk' = disk \cup {Extent("super", 0, SuperSize, super)}
  /\ tell' = SuperSize
  /\ length' = length + (PadSize - (length % PadSize))
  /\ pc' = "done"
  /\ UNCHANGED <<entries, inode_writer, dentry_writer, super, table, mdw,
                 indices, i, rest>>

\* write_header: the superblock at the front, and resize_file: a page at
\* least is padded, and dropped blocks that reach beyond it are cut off.
WriteHeader ==
  /\ pc = "header"
  /\ disk' = disk \cup {Extent("super", 0, SuperSize, super)}
  /\ tell' = SuperSize
  /\ length' = tell + (PadSize - (tell % PadSize))
  /\ pc' = "done"
  /\ UNCHANGED <<entries, inode_writer, dentry_writer, super, table, mdw,
                 indices, i, rest>>

Terminated == pc = "done" /\ UNCHANGED vars

Next == \/ CloseTables \/ WriteTable \/ BeginIndexed \/ PutEntry \/ PutChunk
        \/ EndIndexed
        \/ BytesUsed \/ WriteHeader \/ Terminated

Spec == Init /\ [][Next]_vars

-----------------------------------------------------------------------------
(* Type invariant of the end of the image.                                 *)
TypeOK ==
  /\ entries["fragment"] \in Fragments /\ entries["id"] \in Ids
  /\ inode_writer \in Writers /\ dentry_writer \in Writers /\ mdw \in Writers
  /\ super \in [Names -> Nat]
  /\ pc \in {"close", "tell", "entries", "used", "header", "done"}
  /\ table \in Names \ {"bytes_used"}
  /\ pc = "close" => table = "inode"
  /\ pc = "entries" => table \in Indexed
  /\ pc \in {"used", "header", "done"} => table = "id"
  /\ indices \in Seq(Nat) /\ i \in Nat /\ rest \in Seq(Byte)
  /\ tell \in Nat /\ length \in Nat
  /\ \A x \in disk : x.pos \in Nat /\ x.size \in Nat \ {0}

\* What is read of entry k of a table, from 0, in the block that has it.
EntryIn(content, t, k) ==
  LET offset == (k % PerBlock(t)) * EntrySize[t]
  IN SubSeq(content, offset + 1, offset + EntrySize[t])

\* Reading the image from its superblock.
Found(kind, pos) == {x.what : x \in {y \in disk : y.kind = kind /\ y.pos = pos}}

\* Entry k of an indexed table is e.
HasEntry(t, k, e) ==
  \E word \in Found("word", super[t] + IndexSize * (k \div PerBlock(t))) :
    \E b \in Found("block", word) : e = EntryIn(Content(b), t, k)

HasEntries(t) ==
  \A k \in 0 .. Len(entries[t]) - 1 : HasEntry(t, k, entries[t][k + 1])

\* The blocks of a table that starts at pos.
HasBlocks(w, pos) ==
  w.buff = <<>> /\ \A b \in Range(w.table) : b \in Found("block", pos + b.at)

(* What is written lies behind the superblock and before the file position *)
(* until the superblock itself comes.                                      *)
Placed ==
  /\ pc # "done" =>
       /\ SuperSize <= tell /\ tell <= length
       /\ \A x \in disk : SuperSize <= x.pos /\ x.pos + x.size <= tell
       /\ \A t \in Names : super[t] <= tell
  /\ \A t \in Names : super[t] <= length
  /\ pc = "header" => super["bytes_used"] = tell

(* The first two tables have no gaps, and nothing in a buffer once closed. *)
WritersClosed ==
  \A w \in {inode_writer, dentry_writer} :
    /\ Contiguous(w) /\ Len(w.buff) < BlockSize
    /\ pc # "close" => w.buff = <<>>

(* A table that has been written can be read while the next ones are.      *)
TablesWritten ==
  /\ table # "inode" => HasBlocks(inode_writer, super["inode"])
  /\ table \in Indexed => HasBlocks(dentry_writer, super["directory"])
  /\ table = "id" => HasEntries("fragment")
  /\ pc \in {"used", "header", "done"} => HasEntries("id")

\* How many entries put has returned from, or will with its next turn.
Whole == IF rest = <<>> THEN i ELSE i - 1

(* Between turns of the loop over entries: no entry straddles blocks, so   *)
(* the last one put is in the block that the last index word is for.       *)
Entering ==
  /\ pc # "entries" => rest = <<>>
  /\ pc = "entries" =>
       /\ i <= Count /\ super[table] = tell
       /\ rest # <<>> => i > 0 /\ rest = entries[table][i]
       /\ Contiguous(mdw)
       /\ Len(mdw.table) = Whole \div PerBlock(table)
       /\ Len(mdw.buff) = (Whole % PerBlock(table)) * EntrySize[table]
       /\ \A k \in 0 .. Whole - 1 :
            entries[table][k + 1]
              = EntryIn(BlockContent(mdw, (k \div PerBlock(table)) + 1), table, k)
       /\ Len(indices) = (i \div PerBlock(table))
                           + (IF i % PerBlock(table) = 0 THEN 0 ELSE 1)
       /\ \A j \in DOMAIN indices : indices[j] = tell + BlockStart(mdw, j)

(* The fragment of a file and the owner of an inode are found: entry k of  *)
(* each table is in the block the k-th part of its index says, none is     *)
(* left in a buffer, whether or not the last block is full. And the blocks *)
(* of inodes and directories are where their addresses count from.         *)
TablesReadable ==
  pc = "done" =>
    /\ HasEntries("fragment") /\ HasEntries("id")
    /\ HasBlocks(inode_writer, super["inode"])
    /\ HasBlocks(dentry_writer, super["directory"])

(* No two things share a byte of the file; bytes_used covers the tables,   *)
(* the length of the file all of it, and no dropped block is left behind   *)
(* the padding.                                                            *)
NothingOverlaps ==
  /\ \A x, y \in disk : x # y => \/ x.pos + x.size <= y.pos
                                 \/ y.pos + y.size <= x.pos
  /\ \A x \in disk : x.pos + x.size <= length
  /\ pc = "done" => /\ \A x \in disk : x.pos + x.size <= super["bytes_used"]
                    /\ length - super["bytes_used"] \in 1 .. PadSize
                    /\ length % PadSize = 0

(* The inductive invariant of the end of the image.                        *)
IInv == /\ TypeOK /\ Placed /\ WritersClosed /\ TablesWritten /\ Entering
        /\ NothingOverlaps
=============================================================================
