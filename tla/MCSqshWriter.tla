---------------------------- MODULE MCSqshWriter ----------------------------
(***************************************************************************)
(* Constants for checking SqshWriter: blocks of three bytes, two byte      *)
(* values, and a codec that shrinks only a block of three equal bytes.     *)
(***************************************************************************)
EXTENDS SqshProgress

MCDeflate(b) == IF Len(b) = 3 /\ b[1] = b[2] /\ b[2] = b[3]
                  THEN <<b[1]>> ELSE <<1, 1>> \o b
MCInflate(s) == IF Len(s) = 1 THEN <<s[1], s[1], s[1]>>
                              ELSE SubSeq(s, 3, Len(s))

\* A checksum that collides: how many ones there are.
MCChecksum(b) == Cardinality({k \in DOMAIN b : b[k] = 1})

\* Small files that collide, one of them a prefix of another; files of one
\* and two blocks, compressed and not, with equal blocks and different
\* tails; no bytes.
Contents == {<<>>, <<1>>, <<0, 1>>, <<1, 0>>,
             <<0, 0, 0>>, <<0, 0, 0, 0>>, <<0, 0, 0, 1>>, <<0, 0, 0, 0, 1, 0>>}
FewContents == {<<0, 1>>, <<1, 0>>, <<0, 0, 0, 0>>, <<0, 0, 0, 1>>}

\* Two small files that do not fit into one fragment, the same blocks twice,
\* and a file that is compared with what is before and after the dropped
\* bytes.
DropArchives == {<<<<0, 1>>, <<1, 0>>, c, c, d>> : c, d \in Contents}

Archives == [1 .. 3 -> Contents] \cup [1 .. 4 -> FewContents] \cup DropArchives
FewArchives == [1 .. 3 -> FewContents \cup {<<1>>}]
                 \cup {<<<<0, 1>>, <<1, 0>>, c, c, d>> : c, d \in FewContents}

AllModes == BOOLEAN \X BOOLEAN
=============================================================================
