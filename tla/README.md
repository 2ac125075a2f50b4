# archive2sqfs in TLA+

archive2sqfs turns an archive (anything libarchive reads) into a SquashFS
image. This directory holds models of it, the TLC configurations that check
them and proofs for TLAPS. Everything is translated from the C++ sources; where
a library stands behind them, only what the sources rely on is assumed.

    tlc -config SqshWriter.cfg MCSqshWriter.tla     # model-check a run
    tlapm SqshWriter_proofs.tla                     # check the proofs of a module

## The system

The program has two threads. The **client** thread is `main`: it reads the
archive entry by entry, builds a tree of inodes, cuts regular files into
blocks, packs small files into fragments, and queues *pending writes*. The
**writer** thread takes pending writes off a bounded queue, waits for their
compression (a `std::future`), appends the result to the output file and
records where it went. After the archive ends, the client finishes the queue,
joins the writer, and alone writes the inode, directory, fragment and id tables
and the superblock. With `--single-thread` there is no writer: the client runs
each pending write itself.

| Component | Source | State | Operations | Interacts by |
|---|---|---|---|---|
| work queue | `bounded_work_queue.h` | `queue`, `finished`, two condition variables | `push`, `pop`, `finish` | mutex; client pushes and finishes, writer pops |
| output file | `sqsh_writer.{h,cc}`, `fstream_util.h` | the stream with one position, `outfile_mutex` | `write_bytes`, `read_bytes`, `drop_bytes` | both threads |
| client's data path | `sqsh_writer.cc`, `dirtree_reg.cc` | `current_block`, `current_fragment`, `fragment_count`, `fragment_indices`, `fragmented_duplicates` | `append`, `flush`, `finalize`, `put_fragment`, `dedup_fragment_index`, `enqueue_*`, `finish_data` | queue; `fragments` under `fragments_mutex` and `fragments_cv`; reads the output file back |
| pending writes, writer thread | `pending_write.{h,cc}`, `block_report.h`, `sqsh_writer.cc` | `reports`, `blocked_duplicates`, `fragments`, `writer_failed` | `handle_write`, `report`, `writer_thread` | queue, output file, `fragments_cv` |
| compressor | `compressor*.{h,cc}`, `adler_wrapper.h` | none | `compress`, `decompress`, `compress_async` | futures |
| main, archive reader | `archive2sqfs.cc`, `archive_reader.h` | the current entry | `next`, `read` | calls everything |
| directory tree | `dirtree.h`, `dirtree_dir.cc` | `entries`, `next_inode` | `subdir_for_path`, `put_file`, `get_subdir` | client only |
| inodes and directory tables | `dirtree_write.cc` | inode addresses, `nlink`, `filesize` | `write_inode`, `dirtree_write_dirtable` | metadata writers |
| metadata writer | `metadata_writer.{h,cc}` | `table`, `buff` | `put`, `write_block`, `out` | |
| tables, ids, superblock | `sqsh_writer.{h,cc}` | `ids`, `rids`, `super` | `id_lookup`, `write_tables`, `write_header` | output file, after the join |
| byte encoding | `endian_buffer.h`, `sqsh_defs.h` | `arr` or `vec`, `index` | `l8` to `l64` | records on their way to a metadata writer |

What is hard in it:

* **The queue** has two condition variables and must lose no wakeup, with
  spurious wakeups, at capacity one or more, and when `finish` races with a
  waiting `pop`.
* **One file position.** `read_bytes` of the client (fragment deduplication)
  and of the writer (block deduplication) moves the position at which the
  writer appends; `restore_pos` puts it back, under the lock.
* **Two numberings of fragments.** The client numbers a fragment when it queues
  it (`fragment_count`), the table numbers it when it has been written. Inodes
  hold the client's number.
* **The client waits for the writer.** `get_fragment_entry` blocks until a
  fragment is published: while the writer is behind, at the same time as the
  queue may be full, and for ever if that fragment failed.
* **Dropped bytes.** A file that turns out to be a duplicate after its blocks
  were written is taken off the end of the output again (`drop_bytes`). That is
  right only if its blocks are the last thing in the file, and the bytes left
  behind the position must belong to no one.
* **The tree changes while it is built.** An entry may take the name of one
  that is there, with all that is below it; directories are made on the way to
  a file and named later, or never. Inode numbers are taken before the path is
  looked at, and what is kept by number outlives the node.
* **Narrow fields.** Inode numbers in a directory are 16-bit differences under a
  header that also fixes the metadata block; a directory's size and a file's
  decide between two forms of an inode; ids are numbered in 16 bits.
* **Failures.** What `compress` throws arrives in the writer and sets
  `writer_failed`; the queue is still drained, later items are no longer queued
  (`enqueue_*` look at the flag, not atomically with the push), the client goes
  on counting. A failed `ostream::write` sets only `badbit`, for which the
  stream does not throw; the next use of the stream does. The archive reader
  throws in the client, and nothing catches that.

What correct means, per component: the queue is a bounded FIFO channel that
ends (`FifoSpec`); the file operations are atomic (`AtomicSpec`); no byte of any
file is lost (`NothingLost`), the numberings agree (`FragmentNumbering`), what
is published never changes (`PublishedStays`), a drop takes its own bytes
(`OwnBytesLast`), every address and every index word leads to its record
(`AddressesResolve`, `TablesReadable`); the tree is what the last entry for each
path says (`LastEntryWins`), its numbers are unique (`NumbersUnique`) and what is
stored under them stays (`DataKept`); a directory entry leads to its inode
(`EntriesResolve`), an inode to its owners (`OwnersFound`), and reading the image
from its root gives the tree (`ImageIsTree`); a record is read back whole
(`ReadsBack`); the image does not depend on the scheduler (`Reproducible`;
the project's README.md:22-23 promises reproducible output), and the program
ends (`EventuallyDone`, `EndsOrWaitsInVain`, `MainEnds`, `ProgramEnds`).

## The modules

### Work queue: `BoundedFifo`, `BoundedWorkQueue`, `BoundedWorkQueue_proofs`

`BoundedFifo` is the abstract channel: values sent, values received, at most
`Bound` in between, an end that is reported only when all is received.
`BoundedWorkQueue` is the class, for any sets of producers and consumers. Each
of `push`, `pop` and `finish` holds the mutex except inside `wait`, so the
stretch between two waits is one action: `Push`/`PushWaits`, `Pop`/`PopEnds`/
`PopWaits`, `Finish`. A thread in `wait` is a member of `popped` or `pushed`;
`notify_all` empties the set; `SpuriousWakeup` removes one thread. `sent` and
`received` are history. `CallPush` does not start after `finish` and `Finish`
waits for pushes to return: the one client thread does both in order.

### Output file: `AtomicFile`, `OutFile`, `MCOutFile`, `OutFile_proofs`

`OutFile` has one action per statement of `write_bytes`, `drop_bytes` and
`read_bytes`: the lock, `tellp`, `write`, the relative `seekp`, the constructor
of `restore_pos`, `seekg`, `read`, the destructor of `restore_pos`, the unlock.
The stream is `std::basic_filebuf` behind one position (that is the standard
library's; modelled as external). `AtomicFile` is what `SqshWriter` takes the
file for: each call is one step. The mapping takes the abstract position to be
the saved one while a read has moved the real one (`Position`).

### Data path: `Codec`, `SequentialImage`, `SqshWriter`, `SqshProgress`, `MCSqshWriter` and their proof modules

`Codec` is `compress_data`, `get_block`'s way back and `compare_range`, over a
codec and a checksum that are constants with the assumptions the code makes
(the round trip, nothing about collisions).

`SqshWriter` composes client and writer. Files are sequences of bytes with the
inode numbers 1, 2, ... in archive order. Correspondence:

| Actions | Code |
|---|---|
| `NextFile`, `ReadChunk`, `ArchiveFails` | the loop of `main`; `archive_reader` throwing |
| `FlushBlock`, `Finalize` | `dirtree_reg::flush`, `finalize`, `enqueue_block`, `enqueue_dedup` |
| `PutFragment`, `CompareCurrent`, `GetFragmentEntry`, `CompareStored`, `NoDuplicate` | `put_fragment`, `dedup_fragment`, and `dedup_fragment_index` candidate by candidate |
| `FlushFragment`, `Insert` | `flush_fragment` with `enqueue_fragment`, the rest of `put_fragment` |
| `Push`, `CallHandleWrite` | `enqueue`, with threads and without |
| `FinishQueue`, `Join` | `finish_data` and the end of `main` |
| `Take`, `Exit` | `writer_queue.pop()` in `writer_thread` |
| `WriteBytes`, `WriteIsLost`, `ReportFragment`, `ReportBlock` | `pending_write::handle_write`, `report` |
| `KeepBlocks`, `DropBlocks` | `pending_dedup::handle_write` |
| `HandleThrows` | an exception in `handle_write`, caught by `writer_thread` or by no one |

A step is what a thread does between two points where it touches what the other
shares. `pc`, `resume`, `pushing` are where the client is; `wpc`, `held`,
`tell` where the handler is. The queue is the FIFO channel `BoundedWorkQueue` is
shown to be, the file is the atomic one `OutFile` is shown to be. Compression is
evaluated when the item is written; its result does not depend on when a future
runs. The items carry history that the program does not keep in them: `number`,
the entry of its table that the item makes (`block_count`, `fragment_count`), and
for a fragment the `inode` of the file that needed the room.

`SequentialImage` is the reference: what there is after each file, made from what
there was before it (`AddFile`), with no threads, queue, position or dropping. A
block file adds its bytes unless an earlier file is stored as the same bytes; a
small file goes into the open fragment unless deduplication finds it.
`Reproducible` compares the final image with it.

`SqshProgress` says how far a run has come towards that image, in any state.
`Drained` is the layout as it will be when all that is pending has been handled,
`Progress` compares it, and the client's fragment and lists, with the sequential
construction after the files the client has left behind, and `ImageInv` is the
invariant this makes. It adds no state and no action to `SqshWriter`.

### Tables: `MetadataBlocks`, `MetadataWriter`, `Tables` and their MC and proof modules

Inodes, directory entries, fragment entries and ids go through
`metadata_writer`. `MetadataBlocks` has its operations as operators on a record
of its members (`table`, `buff`; a block in `table` also records where it
begins), and a reader's way through a table. `MetadataWriter` is the state
machine: `CallPut`, then one `PutChunk` for each turn of the loop in `put`, and
the two ways a table is closed. `puts` is history: each record, the number of bytes put
before it, and its address. `Put`, the whole call as one operator, takes the bytes
one at a time; `ChunksAreBytes` shows that this is the same.

`Tables` is what the client does after the join: `CloseTables`
(`dirtree::write_tables`), `WriteTable` for the inode and the directory table,
`BeginIndexed`, `PutEntry`, `PutChunk` (a turn of `put`'s loop) and `EndIndexed` for
the fragment and the id table (`sqsh_writer_write_indexed_table`), `BytesUsed`,
`WriteHeader`. It keeps of the file only the extents it writes. The writers of the
first two tables (`Open`) are any that `put` can leave, of which only `MetadataWriter`'s
`Layout` is assumed; which records they hold, and that their entries name each other's
addresses, is for `DirtreeWrite`.

### The tree: `DirTree`, `ArchiveMain`, `MCArchiveMain` and their proof modules

`DirTree` keeps the tree as a function from paths to nodes. A directory owns the
nodes in its `entries`, so the entries of the directory at `p` are the nodes at
the paths one name longer, and assigning to a map entry (`Replace`) removes what
was below the old node. A pathname is a sequence of what lies between its
slashes, so a leading, trailing or doubled slash is an empty name.

| Actions | Code |
|---|---|
| `CallSubdirForPath`, `CallPutFile` | the calls of `main`; a file's node is made, and numbered, first |
| `SkipToken`, `EnterSubdir`, `MakeSubdir` | one turn of the loop in `subdir_for_path`, with `get_subdir` |
| `UpdateMetadata`, `PutChild` | the end of either call |
| `NextDirectory`, `NextFile`, `NextOther` | the `switch` in `main`, after `strip_path` |
| `EndOfArchive`, `NextThrows`, `ReadThrows` | `archive_reader::next` and `read` |
| `ReadData`, `FinishData` | what `SqshWriter` models in detail: reading a file's data, and the end of the data |

`ArchiveMain` is `main` on top of the tree. `TreeSpec` is the abstract tree, used
by anyone who makes one call after the other; `main` is shown to implement it.
`LastEntryWins` compares with a definition that looks only at the entries read so
far and builds nothing: which of them are a reason for a path to be there, which
take it away, and which is the last.

### Inodes and directory tables: `DirtreeWrite`, `MCDirtreeWrite`, `DirtreeWrite_proofs`

`DirtreeWrite` continues `ArchiveMain` when the data are finished. The recursion of
`write_inode` is the stack `visits` (each with the entries it still has to visit),
and a directory's table is written segment by segment.

| Actions | Code |
|---|---|
| `Begin`, `WriteHeader` | `dirtree::write_tables`; the numbers that `write_header` stores |
| `VisitSubdir`, `WriteFile` | the loop of `dirtree_dir::write_inode`; `write_inode` of the other types |
| `BeginDirtable` | `dirtree_write_dirtable` before its loop |
| `BeginSegment`, `PutEntry`, `NameThrows` | `dirtree_write_dirtable_segment` with `segment_len`, `works`, `within16` |
| `WriteDirectory` | the inode behind the table, and the return to the caller |
| `CompressionThrows` | a `put` that throws; nothing catches it |

A metadata writer is used through what `MetadataWriter` shows of it: the address
of a record follows from the number of bytes put before it and from where the
blocks begin (`BlockAt`, any increasing function), which is `AddressIsPlace`. A record is
kept as its fields and its size, and `Word` stands for 2^16. `LookUp` is `id_lookup`.
The reader of the properties has only what is in the image: it starts at the
superblock's root, decides from an inode's type where its fields are, and counts
the entries under each header.

`EndianBuffer` is how those fields become bytes: one step for each call of `l8` to
`l64`, the short and the long form of an inode, the type written over the first two
bytes of the short one, and the size `N` of the buffer, which `endian_buffer` does
not check. A reader learns the form from the bytes alone.

## The runs

| Run | Question | Bounds |
|---|---|---|
| `queue` | no lost wakeup, FIFO refinement, everyone released | 2 producers, 2 consumers, 2 values, capacity 2, 5 pushes: both waits, races for the last slot and for the last value, several waiters on each side |
| `file` | atomic calls on one position | the writer and one reader, blocks of one and two bytes, file of 3: any two calls overlap in every way the statements allow |
| `threads` | the data path without failures | blocks of 3 bytes, 2 byte values; all sequences of 3 files out of 8 contents and of 4 out of 4, and sequences of 5 around a dropped file; all four flag combinations; queue of 3 |
| `faults` | the same with failures | all sequences of 3 out of 5 contents and the drop sequences out of 4; the archive, the compressor and the write may each fail |
| `metadata` | addresses into a table | blocks of 4 bytes, up to 5 records of 0, 1, 3, 4 and 10 bytes: records that end a block, fill one, span three |
| `archive` | the tree is what the archive says | all sequences of up to 3 of 11 entries, files and directories of the same names with slashes doubled and at the ends, and of two with a third that comes with `ARCHIVE_WARN` or `ARCHIVE_FATAL`; `--strip=1` |
| `warning` | is the whole archive converted? (it is not) | the same |
| `strip` | does `--strip` remove directories? (not always) | the same |
| `dirtables` | the image read back as the tree | `Word` of 8, metadata blocks of 6 bytes; all archives of up to 2 of 10 entries and 8 long ones with directories of up to 6 entries in several orders of numbers, numbers lost to replaced entries, 7 and 9 owners for 8 numbers, a name that is too long |
| `bytes` | buffers and fields | bytes of 2 bits, so that 64 bits are 16; 12 kinds of records, every member at each number around 1, 2, 4 and 8 bytes |
| `tables` | the tables read back through the superblock | blocks of 4 bytes; 0 to 5 fragments at 2 a block, 1 to 9 ids at 4 a block, with runs of equal entries that compress; inode and directory tables that end in and at a block; the file longer than its position or not |

The two runs that expect a violation are the findings:

* `warning`: `archive_reader::next` (`archive_reader.h:104`) returns false for every
  result that is neither `ARCHIVE_OK` nor `ARCHIVE_FATAL`. libarchive returns
  `ARCHIVE_WARN` for an entry it has read in spite of something; `main` takes that
  for the end, writes an image without this entry and all behind it, and returns 0.
* `strip`: `strip_path` takes off what is in front of as many slashes as `--strip`
  says. A leading slash, or the second of two, takes up one of them, so the entry
  keeps a directory that README.md:35 says is removed.

The contents are picked for what the code distinguishes: no bytes, one byte, two
small files with the same checksum, one a prefix of another's fragment, exactly a
block, blocks with a tail, blocks that compress and blocks that do not, the same
blocks twice, a file compared with one before and after dropped bytes. The entries of
`archive` are picked so that each of a file, a directory and an implied directory
takes the place of each other, in both orders. Those of `dirtables` make segments that
end because of a difference in either direction and because of a block, both
forms of directory and file inodes, and inodes that straddle blocks; 3 bits are
enough because `within16` and the forms compare with `Word` and with nothing else.
An owner's number is right only while there are fewer ids than numbers (`OwnersFound`
and the theorem have that condition; the 65536 ids are at `sqsh_writer.cc:265`), and
`ImageIsTree` leaves out trees with an empty name, which put_file makes of a file
whose path ends in a slash and whose length does not fit its field. Three
items is the smallest bound `thread_count()` can return (2 + 1), and shorter than
the longest run of pushes the inputs make, so the client does wait. That a full
queue, a wait for an unpublished fragment, a shared prefix, bytes left behind a
drop and a push after `writer_failed` are reached was checked by looking for
them.

Each run evaluates its properties on all reachable states; the deadlock check is
off only in `faults`, where the client may wait for ever:

* `EndsOrWaitsInVain` says that this is the only way the program can fail to
  end: the client is in `get_fragment_entry` for a fragment whose write failed.
  The wait is real (`sqsh_writer.cc:122-123`); the property shows the program
  has no other.
* `Reproducible` in `faults` says an exit status of 0 is never given to a wrong
  image.
* `ImageInv` in `faults` is the invariant behind `Reproducible`, as it is proved; what
  `threads` checks of it is `IInv`, the part about the data.

**Fairness.** `BoundedWorkQueue`: weak fairness for each thread's statements, and
for `finish`, which `finish_data` calls unconditionally; none for spurious
wakeups and for starting a push. `SqshWriter`: weak fairness of the client and of
the writer as long as the process runs, that is, the operating system schedules
both threads. Failures and the archive have none. A step of either is enabled
until it waits for the other, so weak fairness is all the code needs.
`MetadataWriter`: weak fairness of the turns of `put`'s loop, nothing else.
`ArchiveMain` and `DirtreeWrite`: weak fairness of the one thread's next statement,
whichever it is; what libarchive returns and whether a read or a compression
throws is left open.

## The proofs

TLAPS proves for every value of the constants:

* `BoundedWorkQueue_proofs`: `QueueInvariant`, `NoWakeupIsLost`,
  `QueueImplementsFifo`. The invariant adds to `NoLostWakeup` that the values
  sent are those received followed by the queue, the bound, and that the end is
  final; the refinement then follows action by action.
* `OutFile_proofs`: `FileInvariant`, `FileIsAtomic`, for any number of readers.
  The invariant (`Serialised`) says who is inside has the mutex, and that what
  each statement uses is still valid; the steps that only move the position map
  to stutters.
* `SqshWriter_proofs`: `PathInvariant`, and from it `TypeCorrect`,
  `FragmentsInOrder` and `AwaitedFragments`, for every archive, codec, block
  size, queue bound, flags and faults. Types alone are not inductive:
  `HandleThrows` and the reports need to know that there is an item in hand
  exactly when `wpc` says so, single-threaded handling that the queue is empty,
  and `Compare` that there is a candidate (`Control`); `FragmentNumbering` needs
  `Control` to know that what moves from `pushing` through `queue` to `held` is
  one sequence; that what is waited for is pending needs that candidates have
  a place (`CandidatesPlaced`).
* What is in the output file, for the same constants and in the same module.
  `OrderInvariant` holds whatever fails, and with it `OwnBytesAreLast` and
  `PublishedIsKept`; `DataPathInvariant` (`IInv`) adds `NothingIsLost`. The argument
  has three parts:
  * *Order* (`Ordered`). The items of a file with blocks are queued together, in
    the order of the files, and only a fragment of an earlier file can come before
    them (`QueueInOrder`, which needs that a chunk shorter than a block is the
    last, `ChunksInOrder`). So as long as a file has items that are pending or to
    come (`Open`), its blocks end at the file position and nothing else lies
    behind its first (`BlocksLast`): a drop takes these bytes and no others, and
    what other files may share is in front of them.
  * *What is in hand* (`InHand`): the chunk the client stores, the fragment
    `get_block` reads, the bytes the writer is about to report.
  * *Each file* (`FileKept`): its reported blocks decompress to its first ones,
    the pending ones come next in order, and the rest is in its fragment or still
    to be cut. Each step moves bytes from one of these places to the next; a step
    that overwrites or drops leaves what is stored in front of `End`
    (`StoredStays`), and a duplicate's blocks read the same at the place it is
    given (`BlocksKeptDropped`).

* `SqshImage_proofs`: `ImageInvariant`, and from it `ImageIsReproducible`
  (`Reproducible`): the image does not depend on the schedule, for the same
  constants. That no byte is lost says nothing of where the bytes are; this does.
  `ImageInv` is `IInv`, that the writer ends last (`EndsLast`), and as long as nothing
  fails `Progress`:
  * *What is ahead.* `Drained` stays what it is when the writer handles an item
    (`DrainedByWriter`), and one item is added to it when the client queues one
    (`DrainedQueued`). So the schedule disappears: `Drained` changes only where
    the client's program queues something. What a `pending_dedup` does depends on the
    reports and on the kept files, so the whole layout has to be carried on, not the
    bytes alone.
  * *The files.* Between two files `Drained` is the layout of the sequential
    construction (`FilesDone`), in a file that is cut into blocks it has the queued
    ones in addition (`BlocksDone`). What the drop compares, the reports of
    the kept files, are then those the sequential construction compares.
  * *Small files.* Here the client looks at the output itself, at a moment the
    scheduler chooses. Everything that is pending preserves the fragments that have
    been written (`Steady`), so what it reads is what the sequential construction
    sees (`ContentIs`). The candidates are taken from the last, those it has passed do not
    match (`Searched`), so the first to match is the last of all that do
    (`CandidateIs`). When none does, the place is the same one (`Placing`).
  * *The end.* `EndsLast` makes the queue empty at `done`, so `Drained` is the file
    (`ImageAtEnd`).

* `MetadataWriter_proofs`: `MetadataInvariant` (`IInv`), and from it
  `AddressesArePlaces` (`AddressIsPlace`), `AddressesLead` (`AddressesResolve`) and
  `TableIsContiguous` (`Layout`), for every codec, block size and sequence of
  records. Every operation extends the writer: what was in a block, or in the
  buffer, stays at its place (`Extends` in the proofs), so a byte or a place once
  there stays there. That it gets there needs `AllCounted`: the blocks, the buffer
  and what the loop of `put` has left add up to what was put, so that the next
  chunk lands behind the record's earlier ones, and the address taken before the
  first is where the record begins. `RestIsTail` says that the loop has left the
  end of that record, and `Layout` that the buffer is never full between turns:
  otherwise an address would be behind the block it names. `AddressesLead` puts
  the two together: an address leads where its number of bytes does, because only
  one block has both its beginning and a place for that byte.
  `BlocksOfBytes` (`ChunksAreBytes`) is that the loop's chunks make the blocks that
  the bytes one by one make. In the middle of a `put` this needs `RestOnward`
  (`PutIsOnItsWay`): putting what is left takes the writer to where putting all
  records from the beginning does, so each chunk leaves the end of the call what it
  was. `Put` and `AllPut` are folds, and what a fold does at each element is shown by
  the least number of elements for which it would not (`PutIs`, `AllPutIs`).

* `Tables_proofs`: `TablesInvariant` (`IInv`), and from it `ImageReadable`
  (`TablesReadable`) and `ImageDisjoint` (`NothingOverlaps`), for every codec, block
  size, size and number of entries, and place where the data end. While a table is
  made (`Entering`), its entries divide a block, so one turn of `put`'s loop adds the
  whole of one (`EntryLands`), entry `k` is entry `k` modulo of its block, and the
  last index word is for the block being filled, whose place is known before it is
  written because nothing else writes meanwhile. Afterwards only the disk grows
  (`TablesWritten`). Nothing overlaps because all that is written is behind the
  superblock and in front of the file position (`Placed`), and blocks without gaps lie in
  their order; the last is an induction over the number of a block, by the least number
  for which it would fail.
* `DirtreeWrite_proofs`, the part on `ArchiveMain`: `TreeInvariant`, for any names, paths and calls. A walk is in a
  directory that is still there because only the end of a call replaces anything
  behind it, and a number is unique because it was below `next_inode` when taken.
  On top of the tree, `MainImplementsTree` (every step of `main` is a step of the tree
  or leaves it alone), and from it and `MainInv` the theorems `MainTyped`,
  `MainInDirectories`, `MainNumbersUnique`, `MainDataKept`. `MainInv` adds that the
  node about to be put, and the one whose data are read next, has a number that
  no data are stored under: without it `DataKept` does not follow.
  `MainLastEntryWins` (`LastEntryWins`) is from `EntriesInv`: while a call walks, the
  tree is what the entries before this one say and the directories the walk has come
  through, no more, and where it is going is named by this entry (`WalkInv`). Each
  entry then adds a reason for some paths and takes one from others, and only the
  end of its call can take away what an earlier entry put.
* The rest of `DirtreeWrite_proofs`: `WriteTyped`, `WriteEntriesResolve`, `WriteOwnersFound`, for every
  tree, order of names, block size, place of blocks and even `Word`. `WriteInv` has
  to know that an inode is written for each entry a visit has passed, or its visit
  is the one inside (`ChildrenFirst`), that `inode_address` is where the inode is
  (`InodesPlaced`), that what is left of a segment works with the header that was
  written for it (`SegmentWorks`), that tables only grow (`TablesGrow`), and that the
  id table is the inverse of the map (`IdsNumbered`).

`MetadataBlocks_proofs` holds the lemmas about metadata blocks that `MetadataWriter_proofs`
and `Tables_proofs` use: what a turn of the loop, and each way of writing a block, does
to a writer.

Assumptions, all named and evaluated by TLC in the runs: the block size and the
queue bound are positive, the codec's results are bytes and decompress to what
was compressed, checksums lie in `Checksums`, the inputs are sequences of byte
sequences, entries divide a block, the superblock, an index word and a page have a size and the data end behind the superblock, zero is a byte; paths are not empty sequences and a
stripped path is one of them; names have ranks of their own and only the empty one
has no bytes; 2^16 is even; blocks of a table begin at increasing places; the writer is not among the readers; producers are not consumers.

Only model-checked: the liveness properties, `ImageIsTree` and `EndianBuffer`.
Liveness is out of the prover's reach altogether. The library's induction theorems
are too, because they take an operator; what is said of a fold or of a recursive
function for inputs of any length is proved for the one at hand, by the least input
for which it would fail (`LeastNumber`). `ImageIsTree`, which reads a whole image back
through several such functions at once, and `ReadsBack`, which needs the arithmetic
of powers of a byte, have not been proved this way.

## Not modelled, and the plan

What is left, in the order of its worth:

1. `ImageIsTree` for any tree: that what a reader finds from the root is the tree,
   from `EntriesResolve` and the lemmas on a fold that `DirtreeWrite_proofs` has.
2. A read of the output file that fails (`fstream_util.h:36`): `restore_pos`
   then throws in its destructor and the process ends.

Left out for good:

* the codecs and adler32 (libraries), and which of them `--compressor` names;
* option parsing, the usage message and opening the archive: they come before
  anything else and keep no state;
* `optional.h` and `filesystem.h` (aliases);
* links: the repository has no case for a hard link, whose entry comes with the type
  libarchive gives it; `nlink` of a file and `xattr` are constants of the program,
  so the long forms of symlinks, devices, pipes and sockets are never written;
* limits that only a reader of the image has, such as how many entries it accepts
  under one header, and what nothing in the repository states;
* the depth of the recursion of `write_inode`, and memory exhaustion;
* the buffering of the stream (a lost write may be noticed later than the model
  says), `std::async` failing to start a thread, the text of messages;
* the destructor of `sqsh_writer`, which runs only if an exception leaves `main`.
