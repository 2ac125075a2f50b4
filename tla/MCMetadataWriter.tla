-------------------------- MODULE MCMetadataWriter --------------------------
(***************************************************************************)
(* Constants for checking MetadataWriter: blocks of four bytes, of which   *)
(* only those that repeat one byte shrink; records of no byte, less than a *)
(* block, exactly a block, and more than two.                              *)
(***************************************************************************)
EXTENDS MetadataWriter

MCDeflate(b) == IF Len(b) > 2 /\ \A k \in DOMAIN b : b[k] = b[1]
                  THEN <<Len(b) % 2, b[1]>> ELSE <<1, 1, 1>> \o b
MCInflate(s) == IF Len(s) = 2 THEN [k \in 1 .. 4 - s[1] |-> s[2]]
                              ELSE SubSeq(s, 4, Len(s))

MCRecords == {<<>>, <<0>>, <<1, 0, 1>>, <<0, 0, 0, 0>>,
              <<1, 1, 1, 1, 1, 1, 0, 0, 0, 1>>}
=============================================================================
