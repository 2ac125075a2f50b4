--------------------------- MODULE MetadataWriter ---------------------------
(***************************************************************************)
(* metadata_writer: inodes, directory entries, fragment entries and ids    *)
(* are put into a table one after the other. A record may straddle blocks, *)
(* blocks are compressed as soon as they are full, and put returns the     *)
(* address of a record before any of that happens to it. The client uses a *)
(* writer alone; an action is one turn of put's loop.                      *)
(***************************************************************************)
EXTENDS MetadataBlocks

CONSTANTS Records,   \* the byte sequences put is called with
          MaxPuts    \* bound: the number of calls

ASSUME RecordAssumption == Records \subseteq Seq(Byte) /\ MaxPuts \in Nat

VARIABLES writer,    \* the members
          rest,      \* put: what b and len still point at
          puts,      \* history: each record put, the bytes put before it,
                     \* and the address it got
          closed     \* whether the last block has been written

vars == <<writer, rest, puts, closed>>

Init == /\ writer = NewWriter
        /\ rest = <<>>
        /\ puts = <<>>
        /\ closed = FALSE

\* The bytes of all the records that have been put.
Total == IF puts = <<>> THEN 0 ELSE Last(puts).first + Len(Last(puts).data)

\* A call of put. It may have nothing to add, as for a file without blocks.
CallPut ==
  /\ ~closed /\ rest = <<>> /\ Len(puts) < MaxPuts
  /\ \E b \in Records :
       /\ rest' = b
       /\ puts' = Append(puts, [addr |-> GetAddress(writer), first |-> Total,
                                data |-> b])
  /\ UNCHANGED <<writer, closed>>

PutChunk ==
  /\ rest # <<>>
  /\ writer' = AddChunk(writer, rest)
  /\ rest' = SubSeq(rest, Added(writer, rest) + 1, Len(rest))
  /\ UNCHANGED <<puts, closed>>

\* The end of the inode and the directory table.
CloseWithPadding ==
  /\ ~closed /\ rest = <<>>
  /\ writer' = WriteBlock(writer)
  /\ closed' = TRUE
  /\ UNCHANGED <<rest, puts>>

\* The end of an indexed table. Its caller does not call write_block_no_pad
\* when the last block is full, and then there is nothing to write.
CloseWithoutPadding ==
  /\ ~closed /\ rest = <<>>
  /\ writer' = WriteBlockNoPad(writer)
  /\ closed' = TRUE
  /\ UNCHANGED <<rest, puts>>

Terminated == closed /\ UNCHANGED vars

Next == CallPut \/ PutChunk \/ CloseWithPadding \/ CloseWithoutPadding \/ Terminated

Spec == Init /\ [][Next]_vars
FairSpec == Spec /\ WF_vars(PutChunk)

-----------------------------------------------------------------------------
(* Type invariant of the metadata writer.                                  *)
TypeOK == /\ writer \in Writers
          /\ rest \in Seq(Byte)
          /\ puts \in Seq([addr : [block : Nat, offset : Nat], first : Nat,
                           data : Seq(Byte)])
          /\ closed \in BOOLEAN

(* Blocks lie one behind the other, and all but the last are full: a       *)
(* reader that has come to the end of one goes on with the next.           *)
Layout ==
  /\ Contiguous(writer)
  /\ \A j \in 1 .. Len(writer.table) :
       /\ Content(writer.table[j]) \in Block
       /\ \/ Len(Content(writer.table[j])) = BlockSize
          \/ closed /\ j = Len(writer.table)
  /\ Len(writer.buff) < BlockSize
  /\ closed => rest = <<>> /\ writer.buff = <<>>

\* The bytes of the k-th record that the loop has added.
Written(k) == LET d == puts[k].data
              IN IF k = Len(puts) THEN SubSeq(d, 1, Len(d) - Len(rest)) ELSE d

(* The address of a record depends on the bytes put before it and on where *)
(* the blocks begin, on nothing else: DirtreeWrite takes it from that.     *)
AddressIsPlace == \A k \in DOMAIN puts : IsPlace(writer, puts[k].addr, puts[k].first)

(* The bytes of all records are in the table one behind the other.         *)
RecordsHeld ==
  \A k \in DOMAIN puts : \A i \in DOMAIN Written(k) :
    HasByte(writer, puts[k].first + i - 1, Written(k)[i])

(* What has been put is in the blocks, in the buffer, or still to be added.*)
AllCounted ==
  ~closed => Len(writer.table) * BlockSize + Len(writer.buff) + Len(rest) = Total

(* Between turns the loop of put has left the end of its record.           *)
RestIsTail ==
  rest # <<>> =>
    /\ puts # <<>>
    /\ LET d == puts[Len(puts)].data
       IN /\ Len(rest) <= Len(d)
          /\ rest = SubSeq(d, Len(d) - Len(rest) + 1, Len(d))

(* The writer that Put makes of the records, one by one.                   *)
AllPut(ps) == FoldLeft(LAMBDA w, p : Put(w, p.data), NewWriter, ps)

(* put, interrupted after any turn, is on the way to where Put would get.  *)
RestOnward == ~closed => Put(writer, rest) = AllPut(puts)

(* The inductive invariant of the metadata writer.                         *)
IInv == /\ TypeOK /\ Layout /\ AddressIsPlace
        /\ RecordsHeld /\ AllCounted /\ RestIsTail

(* Every address ever returned leads to the whole record, over as many     *)
(* blocks as it takes, whatever was put, compressed and padded since.      *)
AddressesResolve ==
  \A k \in DOMAIN puts : Leads(writer, puts[k].addr, Written(k))

(* The blocks depend only on the bytes, not on how they were cut into      *)
(* records and chunks: put is the operator Put.                            *)
ChunksAreBytes == rest = <<>> /\ ~closed => writer = AllPut(puts)

(* put returns: no turn of its loop finds the buffer without room.         *)
PutReturns == rest # <<>> ~> rest = <<>>
=============================================================================
