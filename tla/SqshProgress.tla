---------------------------- MODULE SqshProgress ----------------------------
(***************************************************************************)
(* How far SqshWriter has come with the image, in any state: the layout as *)
(* it will be when all that is pending has been handled is that of the     *)
(* sequential construction, after the files the client has left behind and *)
(* the part it has queued of the one it is in. This is the invariant from  *)
(* which the image is reproducible; it holds until something fails.        *)
(***************************************************************************)
EXTENDS SqshWriter

\* The layout as a value: what is stored before the item in hand, and what
\* is known of it.
Now == [bytes |-> SubSeq(file, 1, End), reports |-> reports,
        kept |-> blocked_duplicates, fragments |-> fragments]

BytesIn(l, r) == SubSeq(l.bytes, r.start + 1, r.start + r.len)

\* What handle_write makes of a layout, as SqshWriter's actions do it.
HandleFragment(l, item) ==
  LET c == Compress(item.data)
  IN [l EXCEPT !.bytes = @ \o c.bytes,
               !.fragments = Append(@, [start |-> Len(l.bytes),
                                        len |-> Len(c.bytes), raw |-> c.raw])]

HandleBlock(l, item) ==
  LET c == Compress(item.data)
  IN [l EXCEPT !.bytes = @ \o c.bytes,
               !.reports[item.inode] =
                  [start |-> IF @.sizes = <<>> THEN Len(l.bytes) ELSE @.start,
                   sizes |-> Append(@.sizes, [len |-> Len(c.bytes), raw |-> c.raw]),
                   len   |-> @.len + Len(c.bytes)]]

SameInLayout(l, r) ==
  {k \in DOMAIN l.kept :
     LET q == l.reports[l.kept[k]]
     IN q.sizes = r.sizes /\ BytesIn(l, q) = BytesIn(l, r)}

HandleDedup(l, item) ==
  LET r == l.reports[item.inode]
      same == SameInLayout(l, r)
  IN IF same = {}
       THEN [l EXCEPT !.kept = Append(@, item.inode)]
       ELSE [l EXCEPT !.reports[item.inode] = l.reports[l.kept[Min(same)]],
                      !.bytes = SubSeq(@, 1, Len(@) - r.len)]

Handle(l, item) == CASE item.kind = "fragment" -> HandleFragment(l, item)
                     [] item.kind = "block"    -> HandleBlock(l, item)
                     [] OTHER                  -> HandleDedup(l, item)

\* The layout when the first k of the items will have been handled.
Ahead(l, items, k) ==
  LET ahead[n \in 0 .. k] ==
        IF n = 0 THEN l ELSE Handle(ahead[n - 1], items[n])
  IN ahead[k]

Drained == Ahead(Now, Pending, Len(Pending))

\* The published fragments of one layout are in a later one.
Preserves(l, m) ==
  /\ Len(l.fragments) <= Len(m.fragments)
  /\ \A f \in 1 .. Len(l.fragments) :
       /\ m.fragments[f] = l.fragments[f]
       /\ BytesIn(m, l.fragments[f]) = BytesIn(l, l.fragments[f])

(* Nothing that is pending touches a fragment that will have been written. *)
Steady ==
  \A k \in 1 .. Len(Pending) :
    Preserves(Ahead(Now, Pending, k - 1), Ahead(Now, Pending, k))

-----------------------------------------------------------------------------
Done(n) == After(input, dedup_enabled, n)

\* Layout l is that of s with the first n blocks of file i, which holds c.
LaidOut(l, s, i, c, n) ==
  /\ l.fragments = s.fragments
  /\ l.bytes = IF n = 0 THEN s.bytes ELSE s.bytes \o StoredBlocks(c, n)
  /\ \A j \in DOMAIN l.reports :
       l.reports[j] = IF j \in DOMAIN s.reports THEN s.reports[j]
                      ELSE IF j = i /\ n # 0 THEN BlocksReport(Len(s.bytes), c, n)
                      ELSE NoReport

\* So it will be when all is handled, for the file the client is in.
WrittenAs(s, n) == /\ LaidOut(Drained, s, inode, input[inode], n)
                   /\ dedup_enabled => Drained.kept = s.kept

\* list has the elements of S, the smallest first.
Lists(list, S) ==
  /\ {list[k] : k \in DOMAIN list} = S
  /\ \A k, l \in DOMAIN list : k < l => list[k] < list[l]

\* The client has packed the small files as in s, and listed those in small.
PackedAs(s, small) ==
  /\ current_fragment = s.current
  /\ fragment_count = Len(s.fragments)
  /\ \A i \in Inodes :
       fragment_indices[i] = IF i \in DOMAIN s.indices THEN s.indices[i]
                                                       ELSE NoFragment
  /\ dedup_enabled => \A x \in Checksums :
       Lists(fragmented_duplicates[x],
             {i \in Inodes : [file |-> i, checksum |-> x] \in small})

Agrees(s) == WrittenAs(s, 0) /\ PackedAs(s, s.small)

(* Between two files, and at the end.                                      *)
FilesDone ==
  /\ At({"next"}, {"next"}) => Agrees(Done(inode))
  /\ At({"finish"}, {"finish"}) => \/ Agrees(Done(inode))
                                   \/ Agrees(CloseFragment(Done(inode)))
  /\ pc \in {"join", "done"} => Agrees(CloseFragment(Done(inode)))
  /\ At({"finish", "join", "done"}, {"finish"}) => inode = Len(input)

(* In a file that is cut into blocks, or has not been cut yet.             *)
BlocksDone ==
  /\ At({"read", "flush"}, {"read"}) /\ block_count # 0 =>
       /\ WrittenAs(Done(inode - 1), block_count)
       /\ PackedAs(Done(inode - 1), Done(inode - 1).small)
       /\ (block_count - 1) * BlockSize < Len(input[inode])
       /\ BlockSize <= Len(input[inode])
  /\ At({"read", "flush"}, {"read"}) /\ block_count = 0 =>
       Agrees(IF pc # "flush" /\ unread = <<>> THEN Done(inode)
                                               ELSE Done(inode - 1))

(* In the search for a duplicate of a small file: the candidates that are  *)
(* left are the first of the list, and the others do not match.            *)
Searched ==
  pc \in {"lookup", "compare"} =>
    LET list == fragmented_duplicates[Checksum(current_block)]
    IN /\ dedup_enabled /\ Len(current_block) < BlockSize
       /\ Agrees(Done(inode - 1))
       /\ Len(candidates) <= Len(list)
       /\ \A k \in DOMAIN candidates : candidates[k] = list[Len(candidates) - k + 1]
       /\ \A k \in Len(candidates) + 1 .. Len(list) :
            list[k] \notin SameContents(Done(inode - 1), current_block)

(* When the place of a small file is made, perhaps in a new fragment, and  *)
(* the file is listed with its checksum.                                   *)
Placing ==
  At({"place"}, {"place"}) =>
    LET s == Done(inode - 1)
        small == s.small \cup {[file |-> inode, checksum |-> Checksum(current_block)]}
    IN /\ Len(current_block) < BlockSize
       /\ dedup_enabled => SameContents(s, current_block) = {}
       /\ \/ WrittenAs(s, 0) /\ PackedAs(s, small)
          \/ /\ Len(s.current) + Len(current_block) > BlockSize
             /\ WrittenAs(CloseFragment(s), 0) /\ PackedAs(CloseFragment(s), small)

(* The writer ends when all is handled, and the stream is good at the end. *)
EndsLast ==
  /\ finished => pc \in {"join", "done", "aborted"}
  /\ wpc = "exited" => finished /\ Pending = <<>>
  /\ pc = "done" => stream = "good" /\ (single_threaded \/ wpc = "exited")

Progress == Steady /\ FilesDone /\ BlocksDone /\ Searched /\ Placing

(* The inductive invariant from which the image is reproducible.           *)
ImageInv == IInv /\ EndsLast /\ (Healthy => Progress)
=============================================================================
