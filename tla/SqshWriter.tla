----------------------------- MODULE SqshWriter -----------------------------
(***************************************************************************)
(* The data path of archive2sqfs: the client thread (main, dirtree_reg and *)
(* the client's half of sqsh_writer) cuts each regular file into blocks,   *)
(* packs small files into fragments and queues pending writes; the writer  *)
(* thread takes them off the queue, writes them to the output file and     *)
(* records where they are. With --single-thread the client does both.      *)
(*                                                                         *)
(* Files have the inode numbers 1 .. Len(input). Addresses in the output   *)
(* file are counted from the end of the superblock. The queue is used      *)
(* through what BoundedWorkQueue shows of it: a bounded FIFO channel with  *)
(* an end. Each action is what one thread does between two points where it *)
(* touches what the other thread shares.                                   *)
(***************************************************************************)
EXTENDS SequentialImage

CONSTANTS Inputs,      \* the archives: sequences of file contents
          Modes,       \* pairs of flags <<--single-thread, --enable-dedup>>
          QueueBound,  \* thread_count()
          Faults       \* what may fail: "archive", "compress", "write"

ASSUME QueueBoundAssumption == QueueBound \in Nat \ {0}
ASSUME InputAssumption == /\ Inputs \subseteq Seq(Seq(Byte))
                          /\ Modes \subseteq BOOLEAN \X BOOLEAN

VARIABLES
  input, single_threaded, dedup_enabled,
  \* the client: where it is, and the item enqueue is called with
  pc, resume, pushing,
  \* the client: the file it reads
  inode, unread, current_block, block_count,
  \* the client: the fragment it fills, and where it put the small files
  current_fragment, fragment_count, fragment_indices, fragmented_duplicates,
  \* the client: the search of dedup_fragment_index
  candidates, entry,
  \* shared: the work queue and the failure flag
  queue, finished, writer_failed,
  \* the thread that writes: where it is, its item, where that item begins
  wpc, held, tell,
  \* shared: the output file, its position, its stream state
  file, pos, stream,
  \* what is known of the data written
  reports, blocked_duplicates, fragments

options == <<input, single_threaded, dedup_enabled>>
control == <<pc, resume, pushing>>
reading == <<inode, unread, current_block, block_count>>
packing == <<current_fragment, fragment_count, fragment_indices,
             fragmented_duplicates>>
search  == <<candidates, entry>>
channel == <<queue, finished>>
writer  == <<wpc, held, tell>>
disk    == <<file, pos, stream>>
layout  == <<reports, blocked_duplicates, fragments>>
vars == <<options, control, reading, packing, search, channel, writer_failed,
          writer, disk, layout>>

Inodes == 1 .. Len(input)

NoEntry == [start |-> 0, len |-> 0, raw |-> TRUE]

Init ==
  /\ input \in Inputs
  /\ \E m \in Modes : single_threaded = m[1] /\ dedup_enabled = m[2]
  /\ pc = "next" /\ resume = "next" /\ pushing = <<>>
  /\ inode = 0 /\ unread = <<>> /\ current_block = <<>> /\ block_count = 0
  /\ current_fragment = <<>> /\ fragment_count = 0
  /\ fragment_indices = [i \in Inodes |-> NoFragment]
  /\ fragmented_duplicates = [s \in Checksums |-> <<>>]
  /\ candidates = <<>> /\ entry = NoEntry
  /\ queue = <<>> /\ finished = FALSE /\ writer_failed = FALSE
  /\ wpc = "pop" /\ held = <<>> /\ tell = 0
  /\ file = <<>> /\ pos = 0 /\ stream = "good"
  /\ reports = [i \in Inodes |-> NoReport]
  /\ blocked_duplicates = <<>>
  /\ fragments = <<>>

-----------------------------------------------------------------------------
(* The pending writes (pending_write.h). They have no numbers in the       *)
(* program, and a fragment has no inode: here they record, for the         *)
(* properties, which entry of its table the item makes (block_count or     *)
(* fragment_count), and the file that needed the room of a fragment (or    *)
(* that there is no further one).                                          *)

BlockItem == [kind |-> "block", inode |-> inode, number |-> block_count,
              data |-> current_block]
DedupItem == [kind |-> "dedup", inode |-> inode, number |-> -1,
              data |-> <<>>]
FragmentItem == [kind |-> "fragment",
                 inode |-> IF pc = "finish" THEN inode + 1 ELSE inode,
                 number |-> fragment_count, data |-> current_fragment]

\* enqueue_block, enqueue_dedup and enqueue_fragment look at writer_failed
\* before they call enqueue; the client goes on at next afterwards.
Enqueue(item, next) ==
  IF writer_failed
    THEN pc' = next /\ UNCHANGED <<resume, pushing>>
    ELSE pc' = "push" /\ resume' = next /\ pushing' = <<item>>

\* Mutant of Push: the producer does not wait for room.
PushUnbounded ==
  /\ pc = "push" /\ ~single_threaded
  /\ queue' = queue \o pushing
  /\ pushing' = <<>> /\ pc' = resume
  /\ UNCHANGED <<options, resume, reading, packing, search, finished,
                 writer_failed, writer, disk, layout>>

\* enqueue: writer_queue.push, once there is room.
Push ==
  /\ pc = "push" /\ ~single_threaded
  /\ Len(queue) < QueueBound
  /\ queue' = queue \o pushing
  /\ pushing' = <<>> /\ pc' = resume
  /\ UNCHANGED <<options, resume, reading, packing, search, finished,
                 writer_failed, writer, disk, layout>>

\* enqueue with --single-thread: the client calls handle_write itself.
CallHandleWrite ==
  /\ pc = "push" /\ single_threaded
  /\ held' = pushing /\ wpc' = "write"
  /\ pushing' = <<>> /\ pc' = "handle"
  /\ UNCHANGED <<options, resume, reading, packing, search, channel,
                 writer_failed, tell, disk, layout>>

-----------------------------------------------------------------------------
(* The client reads the archive.                                           *)

\* main: the next regular file, or the end of the archive.
NextFile ==
  /\ pc = "next"
  /\ IF inode < Len(input)
       THEN /\ inode' = inode + 1 /\ unread' = input[inode + 1]
            /\ block_count' = 0 /\ pc' = "read"
       ELSE pc' = "finish" /\ UNCHANGED <<inode, unread, block_count>>
  /\ UNCHANGED <<options, resume, pushing, current_block, packing, search,
                 channel, writer_failed, writer, disk, layout>>

\* main reads the file in chunks of a block and one that is shorter, and
\* append puts each into the empty current_block.
ReadChunk ==
  /\ pc = "read" /\ unread # <<>>
  /\ LET n == Min({BlockSize, Len(unread)})
     IN /\ current_block' = SubSeq(unread, 1, n)
        /\ unread' = SubSeq(unread, n + 1, Len(unread))
  /\ pc' = "flush"
  /\ UNCHANGED <<options, resume, pushing, inode, block_count, packing,
                 search, channel, writer_failed, writer, disk, layout>>

\* Mutant of Small: the tail of a file with blocks goes into a fragment too.
SmallTail == Len(current_block) < BlockSize

\* dirtree_reg::flush: what goes into a fragment.
Small == Len(current_block) < BlockSize /\ block_count = 0

\* dirtree_reg::flush of a block, from append when it is full and from
\* finalize when the file ends in it.
FlushBlock ==
  /\ pc = "flush" /\ ~Small
  /\ Enqueue(BlockItem, "read")
  /\ block_count' = block_count + 1
  /\ current_block' = <<>>
  /\ UNCHANGED <<options, inode, unread, packing, search, channel,
                 writer_failed, writer, disk, layout>>

\* finalize: a file with blocks of its own may turn out to be a duplicate.
Finalize ==
  /\ pc = "read" /\ unread = <<>>
  /\ IF block_count # 0 /\ dedup_enabled
       THEN Enqueue(DedupItem, "next")
       ELSE pc' = "next" /\ UNCHANGED <<resume, pushing>>
  /\ UNCHANGED <<options, reading, packing, search, channel, writer_failed,
                 writer, disk, layout>>

\* archive_reader throws, and nothing catches what it throws.
ArchiveFails ==
  /\ "archive" \in Faults
  /\ pc = "next" \/ (pc = "read" /\ unread # <<>>)
  /\ pc' = "aborted"
  /\ UNCHANGED <<options, resume, pushing, reading, packing, search, channel,
                 writer_failed, writer, disk, layout>>

-----------------------------------------------------------------------------
(* The client packs a file without blocks into a fragment.                 *)

\* put_fragment: the files with this checksum are tried latest first.
PutFragment ==
  /\ pc = "flush" /\ Small
  /\ IF dedup_enabled
       THEN /\ candidates' =
                 Reverse(fragmented_duplicates[Checksum(current_block)])
            /\ pc' = "lookup"
       ELSE pc' = "place" /\ UNCHANGED candidates
  /\ UNCHANGED <<options, resume, pushing, reading, packing, entry, channel,
                 writer_failed, writer, disk, layout>>

Candidate == fragment_indices[Head(candidates)]

\* One comparison of dedup_fragment_index: share the candidate's place in
\* content, or go on to the next candidate.
Compare(content) ==
  IF Matches(current_block, content, Candidate.offset)
    THEN /\ fragment_indices' = [fragment_indices EXCEPT ![inode] = Candidate]
         /\ current_block' = <<>> /\ candidates' = <<>>
         /\ pc' = "read"
    ELSE /\ candidates' = Tail(candidates)
         /\ pc' = "lookup"
         /\ UNCHANGED <<fragment_indices, current_block>>

\* The candidate is in the fragment that is still being filled.
CompareCurrent ==
  /\ pc = "lookup" /\ candidates # <<>>
  /\ Candidate.fragment = fragment_count
  /\ Compare(current_fragment)
  /\ UNCHANGED <<options, resume, pushing, inode, unread, block_count,
                 current_fragment, fragment_count, fragmented_duplicates,
                 entry, channel, writer_failed, writer, disk, layout>>

\* Mutant of GetFragmentEntry: no waiting, a fragment that is not published
\* yet is taken for one that does not match.
GetFragmentEntryNow ==
  /\ pc = "lookup" /\ candidates # <<>>
  /\ Candidate.fragment # fragment_count
  /\ IF Len(fragments) > Candidate.fragment
       THEN /\ entry' = fragments[Candidate.fragment + 1]
            /\ pc' = "compare" /\ UNCHANGED candidates
       ELSE candidates' = Tail(candidates) /\ UNCHANGED <<pc, entry>>
  /\ UNCHANGED <<options, resume, pushing, reading, packing, channel,
                 writer_failed, writer, disk, layout>>

\* The candidate is in an earlier fragment: get_fragment_entry waits for
\* the writer to publish it.
GetFragmentEntry ==
  /\ pc = "lookup" /\ candidates # <<>>
  /\ Candidate.fragment # fragment_count
  /\ Len(fragments) > Candidate.fragment
  /\ entry' = fragments[Candidate.fragment + 1]
  /\ pc' = "compare"
  /\ UNCHANGED <<options, resume, pushing, reading, packing, candidates,
                 channel, writer_failed, writer, disk, layout>>

\* What the file holds at r; after a lost write it may end before that.
BytesOf(r) == SubSeq(file, r.start + 1, Min({r.start + r.len, Len(file)}))

\* The content of an entry of the fragment table, or of a block.
Stored(e) == Decompress(BytesOf(e), e.raw)

\* get_block reads it back, through the stream the writer writes with.
CompareStored ==
  /\ pc = "compare"
  /\ IF stream = "good"
       THEN Compare(Stored(entry))
       ELSE /\ pc' = "aborted"
            /\ UNCHANGED <<fragment_indices, current_block, candidates>>
  /\ UNCHANGED <<options, resume, pushing, inode, unread, block_count,
                 current_fragment, fragment_count, fragmented_duplicates,
                 entry, channel, writer_failed, writer, disk, layout>>

\* No earlier file is equal: remember this one.
NoDuplicate ==
  /\ pc = "lookup" /\ candidates = <<>>
  /\ fragmented_duplicates' =
       [fragmented_duplicates EXCEPT ![Checksum(current_block)] =
          Append(@, inode)]
  /\ pc' = "place"
  /\ UNCHANGED <<options, resume, pushing, reading, current_fragment,
                 fragment_count, fragment_indices, search, channel,
                 writer_failed, writer, disk, layout>>

Overflows == Len(current_fragment) + Len(current_block) > BlockSize

\* Mutant of FlushFragment: the fragment is not counted.
FlushFragmentUncounted ==
  /\ pc = "finish" \/ (pc = "place" /\ Overflows)
  /\ current_fragment # <<>>
  /\ Enqueue(FragmentItem, pc)
  /\ current_fragment' = <<>>
  /\ UNCHANGED <<options, reading, fragment_count, fragment_indices,
                 fragmented_duplicates, search, channel, writer_failed,
                 writer, disk, layout>>

\* put_fragment and finish_data call flush_fragment. The count and the
\* fragment are the client's own, so it does not matter that the program
\* updates them only once enqueue has returned.
FlushFragment ==
  /\ pc = "finish" \/ (pc = "place" /\ Overflows)
  /\ current_fragment # <<>>
  /\ Enqueue(FragmentItem, pc)
  /\ fragment_count' = fragment_count + 1
  /\ current_fragment' = <<>>
  /\ UNCHANGED <<options, reading, fragment_indices, fragmented_duplicates,
                 search, channel, writer_failed, writer, disk, layout>>

\* put_fragment: append the file to the fragment.
Insert ==
  /\ pc = "place" /\ ~Overflows
  /\ fragment_indices' =
       [fragment_indices EXCEPT ![inode] =
          [fragment |-> fragment_count, offset |-> Len(current_fragment)]]
  /\ current_fragment' = current_fragment \o current_block
  /\ current_block' = <<>>
  /\ pc' = "read"
  /\ UNCHANGED <<options, resume, pushing, inode, unread, block_count,
                 fragment_count, fragmented_duplicates, search, channel,
                 writer_failed, writer, disk, layout>>

-----------------------------------------------------------------------------
(* The client ends: finish_data, then the tables and the superblock.       *)

FinishQueue ==
  /\ pc = "finish" /\ current_fragment = <<>>
  /\ finished' = TRUE
  /\ pc' = "join"
  /\ UNCHANGED <<options, resume, pushing, reading, packing, search, queue,
                 writer_failed, writer, disk, layout>>

\* thread.join; writing the tables throws when the stream is bad. The exit
\* status is writer_failed.
Join ==
  /\ pc = "join"
  /\ single_threaded \/ wpc = "exited"
  /\ pc' = IF stream = "good" THEN "done" ELSE "aborted"
  /\ UNCHANGED <<options, resume, pushing, reading, packing, search, channel,
                 writer_failed, writer, disk, layout>>

Stopped == pc \in {"done", "aborted"}

Client == \/ Push \/ CallHandleWrite
          \/ NextFile \/ ReadChunk \/ FlushBlock \/ Finalize
          \/ PutFragment \/ CompareCurrent \/ GetFragmentEntry
          \/ CompareStored \/ NoDuplicate \/ FlushFragment \/ Insert
          \/ FinishQueue \/ Join

-----------------------------------------------------------------------------
(* The writer: writer_thread around handle_write.                          *)

\* writer_queue.pop
Take ==
  /\ wpc = "pop" /\ queue # <<>>
  /\ held' = <<Head(queue)>> /\ queue' = Tail(queue)
  /\ wpc' = "write"
  /\ UNCHANGED <<options, control, reading, packing, search, finished,
                 writer_failed, tell, disk, layout>>

\* Mutant of Exit: the writer takes an empty queue for the end.
ExitWhenEmpty ==
  /\ wpc = "pop" /\ queue = <<>> /\ ~single_threaded
  /\ wpc' = "exited"
  /\ UNCHANGED <<options, control, reading, packing, search, channel,
                 writer_failed, held, tell, disk, layout>>

\* The end of the queue.
Exit ==
  /\ wpc = "pop" /\ queue = <<>> /\ finished /\ ~single_threaded
  /\ wpc' = "exited"
  /\ UNCHANGED <<options, control, reading, packing, search, channel,
                 writer_failed, held, tell, disk, layout>>

Item == held[1]

\* write_bytes: the bytes replace whatever the file holds from pos on.
WriteAt(bytes) ==
  file' = [k \in 1 .. Max({Len(file), pos + Len(bytes)}) |->
             IF k > pos /\ k <= pos + Len(bytes) THEN bytes[k - pos]
                                                 ELSE file[k]]

WriteBytes ==
  /\ wpc = "write" /\ Item.kind # "dedup" /\ stream = "good"
  /\ LET bytes == Compress(Item.data).bytes
     IN /\ WriteAt(bytes)
        /\ pos' = pos + Len(bytes)
  /\ tell' = pos
  /\ wpc' = "report"
  /\ UNCHANGED <<options, control, reading, packing, search, channel,
                 writer_failed, held, stream, layout>>

\* The write fails. ostream::write sets badbit, and outfile throws for
\* failbit only, so the program goes on; the next use of the stream throws.
WriteIsLost ==
  /\ "write" \in Faults
  /\ wpc = "write" /\ Item.kind # "dedup" /\ stream = "good"
  /\ stream' = "bad"
  /\ tell' = pos
  /\ wpc' = "report"
  /\ UNCHANGED <<options, control, reading, packing, search, channel,
                 writer_failed, held, file, pos, layout>>

\* handle_write returns; the single-threaded client goes on.
Handled ==
  /\ wpc' = "pop" /\ held' = <<>>
  /\ pc' = IF single_threaded THEN resume ELSE pc
  /\ UNCHANGED writer_failed

SizeWord == LET c == Compress(Item.data)
            IN [len |-> Len(c.bytes), raw |-> c.raw]

\* pending_fragment::report: push_fragment_entry.
ReportFragment ==
  /\ wpc = "report" /\ Item.kind = "fragment"
  /\ fragments' = Append(fragments, [start |-> tell, len |-> SizeWord.len,
                                     raw |-> SizeWord.raw])
  /\ Handled
  /\ UNCHANGED <<options, resume, pushing, reading, packing, search, channel,
                 tell, disk, reports, blocked_duplicates>>

\* pending_block::report; len keeps the sum that range_len() computes.
ReportBlock ==
  /\ wpc = "report" /\ Item.kind = "block"
  /\ reports' = [reports EXCEPT ![Item.inode] =
       [start |-> IF @.sizes = <<>> THEN tell ELSE @.start,
        sizes |-> Append(@.sizes, SizeWord),
        len   |-> @.len + SizeWord.len]]
  /\ Handled
  /\ UNCHANGED <<options, resume, pushing, reading, packing, search, channel,
                 tell, disk, blocked_duplicates, fragments>>

\* block_report::same_shape and same_content, for the kept files. Only a
\* file of the same shape is read.
SameShape == {k \in DOMAIN blocked_duplicates :
                reports[blocked_duplicates[k]].sizes
                  = reports[Item.inode].sizes}

\* Mutant of SameContent: the sizes alone decide.
SameSizes == SameShape

SameContent == {k \in SameShape :
                  BytesOf(reports[blocked_duplicates[k]])
                    = BytesOf(reports[Item.inode])}

\* pending_dedup::handle_write: no earlier file has the same blocks.
\* blocked_checksums is never updated, so every file is in the one bucket.
KeepBlocks ==
  /\ wpc = "write" /\ Item.kind = "dedup"
  /\ IF stream = "good" THEN SameContent = {} ELSE SameShape = {}
  /\ blocked_duplicates' = Append(blocked_duplicates, Item.inode)
  /\ Handled
  /\ UNCHANGED <<options, resume, pushing, reading, packing, search, channel,
                 tell, disk, reports, fragments>>

\* pending_dedup::handle_write: the first file with the same blocks lends
\* its own, and drop_bytes moves the file position back over this file's.
DropBlocks ==
  /\ wpc = "write" /\ Item.kind = "dedup" /\ stream = "good"
  /\ \E k \in SameContent :
       /\ \A l \in SameContent : k <= l
       /\ reports' = [reports EXCEPT ![Item.inode] =
                                       reports[blocked_duplicates[k]]]
  /\ pos' = pos - reports[Item.inode].len
  /\ Handled
  /\ UNCHANGED <<options, resume, pushing, reading, packing, search, channel,
                 tell, file, stream, blocked_duplicates, fragments>>

\* Mutant of HandleThrows: writer_thread swallows the exception.
HandleThrowsSilently ==
  /\ wpc = "write"
  /\ \/ "compress" \in Faults /\ Item.kind # "dedup"
     \/ stream = "bad" /\ (Item.kind = "dedup" => SameShape # {})
  /\ wpc' = "pop" /\ held' = <<>>
  /\ IF single_threaded THEN pc' = "aborted" ELSE UNCHANGED pc
  /\ UNCHANGED <<options, resume, pushing, reading, packing, search, channel,
                 writer_failed, tell, disk, layout>>

\* Mutant of HandleThrows: the exception ends writer_thread's loop.
HandleThrowsEnds ==
  /\ wpc = "write"
  /\ \/ "compress" \in Faults /\ Item.kind # "dedup"
     \/ stream = "bad" /\ (Item.kind = "dedup" => SameShape # {})
  /\ wpc' = "exited" /\ held' = <<>>
  /\ IF single_threaded
       THEN pc' = "aborted" /\ UNCHANGED writer_failed
       ELSE writer_failed' = TRUE /\ UNCHANGED pc
  /\ UNCHANGED <<options, resume, pushing, reading, packing, search, channel,
                 tell, disk, layout>>

\* handle_write throws: future.get() hands over what compress threw, or the
\* stream is bad. writer_thread catches it, the single-threaded client not.
HandleThrows ==
  /\ wpc = "write"
  /\ \/ "compress" \in Faults /\ Item.kind # "dedup"
     \/ stream = "bad" /\ (Item.kind = "dedup" => SameShape # {})
  /\ wpc' = "pop" /\ held' = <<>>
  /\ IF single_threaded
       THEN pc' = "aborted" /\ UNCHANGED writer_failed
       ELSE writer_failed' = TRUE /\ UNCHANGED pc
  /\ UNCHANGED <<options, resume, pushing, reading, packing, search, channel,
                 tell, disk, layout>>

Writer == \/ Take \/ Exit
          \/ WriteBytes \/ WriteIsLost \/ ReportFragment \/ ReportBlock
          \/ KeepBlocks \/ DropBlocks \/ HandleThrows

Terminated == Stopped /\ UNCHANGED vars

Next == \/ ~Stopped /\ (Client \/ ArchiveFails \/ Writer)
        \/ Terminated

\* Both threads run until they stop or wait; the archive need not fail.
Fairness == /\ WF_vars(~Stopped /\ Client)
            /\ WF_vars(~Stopped /\ Writer)

Spec == Init /\ [][Next]_vars
FairSpec == Spec /\ Fairness

-----------------------------------------------------------------------------
(* Type invariant of the data path. The position is what the drops leave   *)
(* of it: that it is never before the first byte is for OwnBytesLast.      *)
Items == [kind : {"block"}, inode : Inodes, number : Nat, data : Block]
           \cup [kind : {"dedup"}, inode : Inodes, number : {-1}, data : Block]
           \cup [kind : {"fragment"}, inode : Nat, number : Nat, data : Block]
Entry == [start : Int, len : Nat, raw : BOOLEAN]
Size  == [len : Nat, raw : BOOLEAN]
Report == [start : Int, sizes : Seq(Size), len : Nat]
Place == [fragment : Nat \cup {-1}, offset : Nat]

PcValues == {"next", "read", "flush", "lookup", "compare", "place", "push",
             "handle", "finish", "join", "done", "aborted"}

OptionsOK == /\ input \in Inputs
             /\ single_threaded \in BOOLEAN /\ dedup_enabled \in BOOLEAN
ControlOK == /\ pc \in PcValues /\ resume \in {"next", "read", "place", "finish"}
             /\ pushing \in Seq(Items) /\ Len(pushing) <= 1
ReadingOK == /\ inode \in 0 .. Len(input) /\ unread \in Seq(Byte)
             /\ current_block \in Block /\ block_count \in Nat
PackingOK == /\ current_fragment \in Block /\ fragment_count \in Nat
             /\ fragment_indices \in [Inodes -> Place]
             /\ fragmented_duplicates \in [Checksums -> Seq(Inodes)]
SearchOK  == candidates \in Seq(Inodes) /\ entry \in Entry
ChannelOK == /\ queue \in Seq(Items) /\ Len(queue) <= QueueBound
             /\ finished \in BOOLEAN
WriterOK  == /\ wpc \in {"pop", "write", "report", "exited"}
             /\ held \in Seq(Items) /\ Len(held) <= 1 /\ tell \in Int
DiskOK    == /\ file \in Seq(Byte) /\ pos \in Int /\ pos <= Len(file)
             /\ stream \in {"good", "bad"}
LayoutOK  == /\ reports \in [Inodes -> Report]
             /\ blocked_duplicates \in Seq(Inodes)
             /\ fragments \in Seq(Entry)

TypeOK == /\ OptionsOK /\ ControlOK /\ ReadingOK /\ PackingOK /\ SearchOK
          /\ ChannelOK /\ WriterOK /\ DiskOK /\ LayoutOK
          /\ writer_failed \in BOOLEAN

-----------------------------------------------------------------------------
(* What is pending, in the order in which it will be written, and what of  *)
(* it makes the next entries of a table: of the fragment table (0), or of  *)
(* the block list of file i.                                               *)

Pending == held \o queue \o pushing

TableOf(item) == CASE item.kind = "fragment" -> 0
                   [] item.kind = "block"    -> item.inode
                   [] OTHER                  -> -1

MakesEntry(item, t, n) == TableOf(item) = t /\ item.number = n

\* The items make the entries first .. next - 1 of table t, in this order.
Numbered(items, t, first, next) ==
  /\ first <= next
  /\ \A k \in DOMAIN items :
       TableOf(items[k]) = t => items[k].number \in first .. next - 1
  /\ \A k, l \in DOMAIN items :
       (k < l /\ TableOf(items[k]) = t /\ TableOf(items[l]) = t)
         => items[k].number < items[l].number
  /\ \A n \in first .. next - 1 :
       \E k \in DOMAIN items : MakesEntry(items[k], t, n)

(* The fragments that are pending are, in queue order, those that come     *)
(* next in the fragment table: the client numbers fragments when it queues *)
(* them (fragment_count), the table numbers them as they are written.      *)
FragmentNumbering ==
  ~writer_failed /\ pc # "aborted" =>
    Numbered(Pending, 0, Len(fragments), fragment_count)

-----------------------------------------------------------------------------
(* Reading the image back, in any state: what has not been written yet is  *)
(* taken from the item that will write it.                                 *)

EndOf(e) == e.start + e.len

\* The k-th block of file i, and what is behind the first n.
Chunk(i, k) == SubSeq(input[i], (k - 1) * BlockSize + 1,
                      Min({k * BlockSize, Len(input[i])}))
Rest(i, n) == SubSeq(input[i], n * BlockSize + 1, Len(input[i]))

\* One behind the other from its start to its end, the blocks of report r
\* are the first of file i.
BlocksWritten(i, r) ==
  \E at \in [0 .. Len(r.sizes) -> r.start .. EndOf(r)] :
    /\ at[0] = r.start /\ at[Len(r.sizes)] = EndOf(r)
    /\ \A k \in DOMAIN r.sizes :
         /\ at[k] = at[k - 1] + r.sizes[k].len
         /\ Stored([start |-> at[k - 1], len |-> r.sizes[k].len,
                    raw |-> r.sizes[k].raw]) = Chunk(i, k)

\* The first n blocks of file i are written or pending.
BlocksKept(i, n) ==
  /\ BlocksWritten(i, reports[i])
  /\ Numbered(Pending, i, Len(reports[i].sizes), n)
  /\ \A k \in DOMAIN Pending :
       TableOf(Pending[k]) = i => Pending[k].data = Chunk(i, Pending[k].number + 1)

\* Fragment f holds the bytes at this offset.
FragmentHolds(f, bytes, offset) ==
  \/ f = fragment_count /\ Matches(bytes, current_fragment, offset)
  \/ /\ f + 1 \in DOMAIN fragments
     /\ Matches(bytes, Stored(fragments[f + 1]), offset)
  \/ \E k \in DOMAIN Pending :
       MakesEntry(Pending[k], 0, f) /\ Matches(bytes, Pending[k].data, offset)

\* What the client has not cut or packed yet of file i.
Unpacked(i) == IF i = inode THEN current_block \o unread ELSE <<>>

\* What is behind the first n blocks of file i: all of a small file in its
\* fragment, or what is still to be cut.
RestKept(i, n) ==
  LET p == fragment_indices[i]
  IN IF p = NoFragment THEN Unpacked(i) = Rest(i, n)
     ELSE /\ n = 0 /\ Unpacked(i) = <<>>
          /\ FragmentHolds(p.fragment, input[i], p.offset)

\* File i has been cut into n blocks; block_count says it of the last one.
FileKept(i) ==
  \E n \in 0 .. Len(input[i]) :
    (i = inode => n = block_count) /\ BlocksKept(i, n) /\ RestKept(i, n)

Healthy == ~writer_failed /\ stream = "good" /\ pc # "aborted"

(* No byte of any file is lost or damaged on its way: what is stored, what *)
(* is pending and what is still to be read make up each file exactly.      *)
(* Sharing, dropping and overwriting bytes keep this true.                 *)
NothingLost == Healthy => \A i \in 1 .. inode : FileKept(i)

-----------------------------------------------------------------------------
(* Where each thread is says what it holds.                                *)
At(steps, returns) == \/ pc \in steps
                      \/ pc \in {"push", "handle"} /\ resume \in returns

InFile == At({"read", "flush", "lookup", "compare", "place"}, {"read", "place"})

Control ==
  /\ (pc = "push") <=> (pushing # <<>>)
  /\ (wpc \in {"write", "report"}) <=> (held # <<>>)
  /\ wpc = "report" => Item.kind # "dedup"
  /\ single_threaded => queue = <<>> /\ (held # <<>> => pc = "handle")
  /\ InFile => inode # 0
  /\ pc = "compare" => candidates # <<>>

(* A file that others are compared with has its place in a fragment, but   *)
(* for the one that is being placed.                                       *)
Placed(i) == fragment_indices[i].fragment \in 0 .. fragment_count

CandidatesPlaced ==
  /\ \A s \in Checksums : \A k \in DOMAIN fragmented_duplicates[s] :
       LET i == fragmented_duplicates[s][k]
       IN Placed(i) \/ (i = inode /\ At({"place", "aborted"}, {"place"}))
  /\ \A k \in DOMAIN candidates : Placed(candidates[k])

(* What get_fragment_entry waits for is still on its way: unless a write   *)
(* has failed, it is never a fragment that no one will publish.            *)
AwaitedIsPending ==
  pc = "lookup" /\ candidates # <<>> /\ ~writer_failed =>
    LET f == Candidate.fragment
    IN \/ f = fragment_count \/ f < Len(fragments)
       \/ \E k \in DOMAIN Pending : MakesEntry(Pending[k], 0, f)

-----------------------------------------------------------------------------
(* The order of what is written, whatever fails.                           *)

\* The client is in a file that is cut into blocks.
BlocksToCome == \/ pc = "flush"
                \/ At({"read"}, {"read"}) /\ (unread # <<>> \/ block_count # 0)

BeforeFinish == At({"next", "read", "flush", "lookup", "compare", "place"},
                   {"next", "read", "place"})

(* A file ends in its only chunk, or in one that is not followed by more.  *)
ChunksInOrder ==
  /\ pc = "flush" /\ Len(current_block) < BlockSize => unread = <<>>
  /\ At({"lookup", "compare", "place"}, {"place"}) =>
       unread = <<>> /\ block_count = 0

\* Between the blocks of file i there is nothing else.
MayPrecede(item, i) ==
  item.inode < i \/ (item.inode = i /\ item.kind = "block")

InOrder(items) ==
  \A k, l \in DOMAIN items : k < l =>
    /\ items[k].inode <= items[l].inode
    /\ items[l].kind # "fragment" => MayPrecede(items[k], items[l].inode)

(* The items of a file with blocks are queued together, in the order of    *)
(* the files.                                                              *)
QueueInOrder ==
  /\ InOrder(Pending)
  /\ BlocksToCome => \A k \in DOMAIN Pending : MayPrecede(Pending[k], inode)
  /\ \A k \in DOMAIN Pending :
       /\ Pending[k].inode <= inode + 1
       /\ BeforeFinish \/ Pending[k].kind # "fragment" => Pending[k].inode <= inode

\* File i has items that are pending or still to come.
OpenIn(items, i) ==
  \E k \in DOMAIN items : items[k].kind # "fragment" /\ items[k].inode = i
Open(i) == OpenIn(Pending, i) \/ (BlocksToCome /\ i = inode)

(* The reports of the files: one without blocks is as it was made, and     *)
(* what other files may share will not change any more.                    *)
ReportsInOrder ==
  /\ \A i \in Inodes : reports[i].sizes = <<>> => reports[i] = NoReport
  /\ \A i \in Inodes : i > inode => reports[i] = NoReport
  /\ \A i \in Inodes : Open(i) /\ reports[i] # NoReport =>
       \A k \in DOMAIN Pending : Pending[k].inode >= i
  /\ \A k \in DOMAIN blocked_duplicates :
       blocked_duplicates[k] <= inode /\ ~Open(blocked_duplicates[k])

\* Where the item in hand begins, or the next one will.
End == IF wpc = "report" THEN tell ELSE pos

(* All that is stored is in front of the file position, and if a file is   *)
(* open that has blocks there, these are the last and nothing else is      *)
(* behind its first.                                                       *)
BlocksLast ==
  stream = "good" =>
    /\ 0 <= End /\ (wpc = "report" => pos = End + SizeWord.len)
    /\ \A i \in Inodes : 0 <= reports[i].start /\ EndOf(reports[i]) <= End
    /\ \A f \in DOMAIN fragments :
         0 <= fragments[f].start /\ EndOf(fragments[f]) <= End
    /\ \A i \in Inodes : Open(i) /\ reports[i] # NoReport =>
         /\ EndOf(reports[i]) = End
         /\ \A j \in Inodes \ {i} : EndOf(reports[j]) <= reports[i].start
         /\ \A f \in DOMAIN fragments : EndOf(fragments[f]) <= reports[i].start

(* What the client has in hand: a chunk while it is to be stored, nothing  *)
(* between files, and files that are to come have no place.                *)
ChunkInHand ==
  /\ At({"next", "finish", "join", "done"}, {"next", "finish"}) =>
       unread = <<>> /\ current_block = <<>>
  /\ At({"read"}, {"read"}) => current_block = <<>>
  /\ At({"flush", "lookup", "compare", "place"}, {"place"}) => current_block # <<>>
  /\ \A i \in Inodes : i > inode => fragment_indices[i] = NoFragment

(* get_block reads the fragment of the candidate.                          *)
EntryInHand ==
  pc = "compare" => /\ Candidate.fragment < Len(fragments)
                    /\ entry = fragments[Candidate.fragment + 1]

(* What is to be reported has been written.                                *)
ItemInHand ==
  wpc = "report" /\ stream = "good" =>
    BytesOf([start |-> tell, len |-> SizeWord.len]) = Compress(Item.data).bytes

(* The inductive invariant of the data path.                               *)
PathInv == TypeOK /\ Control /\ CandidatesPlaced /\ FragmentNumbering
Ordered == ChunksInOrder /\ QueueInOrder /\ ReportsInOrder /\ BlocksLast
OrderInv == PathInv /\ Ordered
InHand == ChunkInHand /\ EntryInHand /\ ItemInHand
IInv == OrderInv /\ InHand /\ NothingLost

(* When a file turns out to be a duplicate, the bytes before the file      *)
(* position are its own blocks, all of them, and only they are dropped.    *)
OwnBytesLast ==
  wpc = "write" /\ Item.kind = "dedup" /\ stream = "good" =>
    LET r == reports[Item.inode]
    IN r.len = 0 \/ r.start + r.len = pos

(* What the client may read, and what other files may share, is never      *)
(* overwritten, moved or withdrawn: published fragments, and the blocks of *)
(* the files in blocked_duplicates, whatever fails.                        *)
PublishedStays ==
  [][/\ IsPrefix(fragments, fragments')
     /\ \A f \in DOMAIN fragments : Stored(fragments[f])' = Stored(fragments[f])
     /\ \A k \in DOMAIN blocked_duplicates :
          LET r == reports[blocked_duplicates[k]]
          IN reports'[blocked_duplicates[k]] = r /\ BytesOf(r)' = BytesOf(r)
    ]_vars

Image == [bytes |-> SubSeq(file, 1, pos), reports |-> reports,
          fragments |-> fragments, indices |-> fragment_indices]

(* The output is reproducible (README.md:22-23): a run that exits with     *)
(* status 0 has made the one image the archive and the flags determine,    *)
(* with or without threads, however they were scheduled, and even if       *)
(* something failed on the way.                                            *)
Reproducible ==
  pc = "done" /\ ~writer_failed =>
    Image = SequentialImage(input, dedup_enabled)

(* Without a failure the program ends and reports success.                 *)
EventuallyDone == <>(pc = "done" /\ ~writer_failed)

(* get_fragment_entry waits for a fragment that was never written.         *)
WaitsInVain == /\ pc = "lookup" /\ candidates # <<>>
               /\ Candidate.fragment \in Len(fragments) .. fragment_count - 1
               /\ Pending = <<>>

(* Whatever fails, the program ends, or the client waits for a fragment    *)
(* that the failed writer did not publish: nothing else can block it.      *)
EndsOrWaitsInVain == <>(Stopped \/ (WaitsInVain /\ writer_failed))
=============================================================================
