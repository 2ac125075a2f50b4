--------------------------- MODULE MCEndianBuffer ---------------------------
(***************************************************************************)
(* Constants for checking EndianBuffer, with bytes of two bits: each       *)
(* member takes each of the numbers at which a byte, two or four are full, *)
(* as far as its type goes, next to members that have others.              *)
(***************************************************************************)
EXTENDS EndianBuffer

MCEdges == <<0, 1, Byte - 1, Byte, Byte ^ 2 - 2, Byte ^ 2 - 1, Byte ^ 2,
             Byte ^ 2 + 1, Byte ^ 4 - 1, Byte ^ 4, Byte ^ 8 - 1>>

MCMembers == <<"mode", "uid", "gid", "mtime", "inode_number", "nlink",
               "filesize", "block", "parent", "offset", "start_block",
               "file_size", "sparse", "fragment", "place", "rdev", "length",
               "difference", "char", "count", "address", "log">>

MCRank == [m \in Range(MCMembers) |-> CHOOSE i \in DOMAIN MCMembers : MCMembers[i] = m]

\* The k-th filling, with steps of s from member to member.
MCFill(k, s) ==
  [m \in DOMAIN Width |->
     CASE m \in {"inode_type", "basic_type", "zero"} -> 0
       [] m = "xattr" -> None
       [] OTHER -> MCEdges[((k + s * MCRank[m]) % Len(MCEdges)) + 1] % Byte ^ Width[m]]

MCFills == {MCFill(k, s) : k \in 1 .. Len(MCEdges), s \in {0, 1, 4}}
=============================================================================
