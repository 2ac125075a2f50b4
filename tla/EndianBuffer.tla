---------------------------- MODULE EndianBuffer ----------------------------
(***************************************************************************)
(* endian_buffer and the records that are filled with it: inodes, headers  *)
(* and entries of directory tables, entries of indexed tables, the header  *)
(* of a metadata block and the superblock. A call of l8, l16, l32 or l64   *)
(* is a step; the bytes are the numbers below Byte, which is 2^8.          *)
(***************************************************************************)
EXTENDS Naturals, SequencesExt

CONSTANTS Byte,     \* 2^8
          Fills     \* what the members may be, by name

\* The bytes of each member's type. A name's length, a target's, the number of
\* ids and the difference of inode numbers have the bytes that hold them.
Width == [inode_type |-> 2, basic_type |-> 2, mode |-> 2, uid |-> 2,
          gid |-> 2, mtime |-> 4, inode_number |-> 4, nlink |-> 4,
          filesize |-> 4, block |-> 4, parent |-> 4, offset |-> 2, xattr |-> 4,
          start_block |-> 8, file_size |-> 8, sparse |-> 8, fragment |-> 4,
          place |-> 4, rdev |-> 4, length |-> 2, difference |-> 2, char |-> 1, count |-> 4,
          zero |-> 2, address |-> 8, log |-> 2]

Kinds == {"dir", "reg", "sym", "dev", "ipc", "header", "entry", "index",
          "fragment", "id", "meta", "super"}
Inodes == {"dir", "reg", "sym", "dev", "ipc"}

\* The inode types that a record is about.
InodeTypes(k) ==
  CASE k = "dir" -> {8} [] k = "reg" -> {9} [] k = "sym" -> {10}
    [] k = "dev" -> {11, 12} [] k = "ipc" -> {13, 14} [] OTHER -> 8 .. 14

None == Byte ^ 4 - 1    \* SQFS_XATTR_NONE

ASSUME ByteAssumption == Byte \in Nat /\ Byte ^ 2 > 14
ASSUME FillAssumption ==
  \A v \in Fills : /\ DOMAIN v = DOMAIN Width /\ v.zero = 0 /\ v.xattr = None
                   /\ \A m \in DOMAIN v : v[m] \in 0 .. Byte ^ Width[m] - 1

VARIABLES kind,     \* the record that is filled
          value,    \* what its members are
          todo,     \* the calls that are still to come
          buff      \* the bytes up to index

vars == <<kind, value, todo, buff>>

-----------------------------------------------------------------------------
l8(m)  == [width |-> 1, of |-> m]
l16(m) == [width |-> 2, of |-> m]
l32(m) == [width |-> 4, of |-> m]
l64(m) == [width |-> 8, of |-> m]

\* l16(0, inode_type - 7), over the first two bytes.
Patch == [width |-> 0, of |-> "basic_type"]

Common == <<l16("inode_type"), l16("mode"), l16("uid"), l16("gid"),
            l32("mtime"), l32("inode_number")>>

\* The calls for what is behind the common part, in an inode's short form.
ShortForm ==
  [dir |-> <<Patch, l32("block"), l32("nlink"), l16("filesize"), l16("offset"),
             l32("parent")>>,
   reg |-> <<Patch, l32("start_block"), l32("fragment"), l32("place"),
             l32("file_size")>>,
   sym |-> <<l32("nlink"), l32("length"), l8("char"), l8("char"), Patch>>,
   dev |-> <<l32("nlink"), l32("rdev"), Patch>>,
   ipc |-> <<l32("nlink"), Patch>>]

\* Only these have one: xattr is never set.
LongForm ==
  [dir |-> <<l32("nlink"), l32("filesize"), l32("block"), l32("parent"),
             l16("zero"), l16("offset"), l32("xattr")>>,
   reg |-> <<l64("start_block"), l64("file_size"), l64("sparse"), l32("nlink"),
             l32("fragment"), l32("place"), l32("xattr")>>]

Other ==
  [header   |-> <<l32("count"), l32("block"), l32("inode_number")>>,
   entry    |-> <<l16("offset"), l16("difference"), l16("basic_type"),
                  l16("length"), l8("char"), l8("char")>>,
   index    |-> <<l64("address"), l64("address")>>,
   fragment |-> <<l64("start_block"), l32("count"), l32("zero")>>,
   id       |-> <<l32("count")>>,
   meta     |-> <<l16("length")>>,
   super    |-> [k \in 1 .. 5 |-> l32("count")] \o [k \in 1 .. 6 |-> l16("log")]
                  \o [k \in 1 .. 8 |-> l64("address")]]

\* Mutant of IsShort: one too many goes into 16 bits.
IsShortOrOver(k, v) ==
  /\ k = "dir" => v.filesize <= Byte ^ 2
  /\ k = "reg" => v.start_block <= Byte ^ 2 /\ v.file_size <= Byte ^ 2

\* When the short form will do. nlink of a regular file is always 1.
IsShort(k, v) ==
  /\ k = "dir" => v.filesize <= Byte ^ 2 - 1
  /\ k = "reg" => v.start_block <= Byte ^ 2 - 1 /\ v.file_size <= Byte ^ 2 - 1

Form(k, short) ==
  CASE k \notin Inodes -> Other[k]
    [] short           -> Common \o ShortForm[k]
    [] OTHER           -> Common \o LongForm[k]

\* Mutant of Capacity: a directory's buffer is as large as its short form.
CapacityShort(k) == CASE k = "dir" -> 32 [] OTHER -> 60

\* The N of endian_buffer<N>; a vector (of N = 0) grows as it must.
Capacity(k) ==
  CASE k = "dir" -> 40 [] k = "reg" -> 56 [] k = "dev" -> 28 [] k = "ipc" -> 24
    [] k = "header" -> 12 [] k = "fragment" -> 16 [] k = "id" -> 4
    [] k = "meta" -> 2 [] k = "super" -> 96
    [] OTHER -> Len(buff)

-----------------------------------------------------------------------------
\* What l8, l16, l32 and l64 append: each is two of the next smaller, with
\* the low half first.
Bytes1(n) == <<n % Byte>>
Bytes2(n) == Bytes1(n) \o Bytes1(n \div Byte)
Bytes4(n) == Bytes2(n) \o Bytes2(n \div Byte ^ 2)
Bytes8(n) == Bytes4(n) \o Bytes4(n \div Byte ^ 4)

Bytes(width, n) == CASE width = 1 -> Bytes1(n) [] width = 2 -> Bytes2(n)
                     [] width = 4 -> Bytes4(n) [] width = 8 -> Bytes8(n)

Init ==
  /\ kind \in Kinds
  /\ \E v \in Fills, type \in InodeTypes(kind) :
       value = [v EXCEPT !.inode_type = type, !.basic_type = type - 7]
  /\ todo = Form(kind, IsShort(kind, value))
  /\ buff = <<>>

AppendValue ==
  /\ todo # <<>> /\ Head(todo) # Patch
  /\ buff' = buff \o Bytes(Head(todo).width, value[Head(todo).of])
  /\ todo' = Tail(todo)
  /\ UNCHANGED <<kind, value>>

\* l16(0, ...) writes over what is there and leaves index where it is.
PatchType ==
  /\ todo # <<>> /\ Head(todo) = Patch
  /\ LET type == Bytes2(value.basic_type)
     IN buff' = [i \in DOMAIN buff |-> IF i <= 2 THEN type[i] ELSE buff[i]]
  /\ todo' = Tail(todo)
  /\ UNCHANGED <<kind, value>>

\* The record is full and put, or written.
Filled == todo = <<>> /\ UNCHANGED vars

Next == AppendValue \/ PatchType \/ Filled

Spec == Init /\ [][Next]_vars

-----------------------------------------------------------------------------
(* A reader of the bytes.                                                  *)

Read(at, width) == FoldLeft(LAMBDA n, byte : n * Byte + byte, 0,
                            Reverse(SubSeq(buff, at + 1, at + width)))

\* Where the call at k of a form puts its bytes.
Offset(form, k) == FoldLeft(LAMBDA n, call : n + call.width, 0,
                            SubSeq(form, 1, k - 1))

(* Type invariant of the buffers: l8(i, n) stores at arr[i] without looking *)
(* whether there is such a place, so no sequence of calls may need more    *)
(* than the N that its buffer is declared with.                            *)
TypeOK ==
  /\ kind \in Kinds
  /\ Len(buff) <= Capacity(kind)
  /\ \A i \in DOMAIN buff : buff[i] \in 0 .. Byte - 1

(* The type that comes first in an inode tells a reader which form it has; *)
(* with the form that it tells, every member is read back as it was, none  *)
(* cut to a narrower field or at another's place, and the record ends      *)
(* where the form does.                                                    *)
ReadsBack ==
  todo = <<>> =>
    LET short == Read(0, 2) < 8
        form  == Form(kind, short)
    IN /\ Len(buff) = Offset(form, Len(form) + 1)
       /\ kind \in Inodes =>
            value.inode_type = IF short THEN Read(0, 2) + 7 ELSE Read(0, 2)
       /\ \A k \in DOMAIN form :
            form[k] # Patch /\ form[k].of # "inode_type" =>
              Read(Offset(form, k), form[k].width) = value[form[k].of]
=============================================================================
