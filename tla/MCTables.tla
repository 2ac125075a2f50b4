------------------------------ MODULE MCTables ------------------------------
(***************************************************************************)
(* Constants for checking Tables: blocks of four bytes, two fragment       *)
(* entries or four ids in a block, and every number of entries from none   *)
(* to a third block begun; some blocks shrink and some do not.             *)
(***************************************************************************)
EXTENDS Tables

MCDeflate(b) == IF Len(b) > 2 /\ \A k \in DOMAIN b : b[k] = b[1]
                  THEN <<Len(b) % 2, b[1]>> ELSE <<1, 1, 1>> \o b
MCInflate(s) == IF Len(s) = 2 THEN [k \in 1 .. 4 - s[1] |-> s[2]]
                              ELSE SubSeq(s, 4, Len(s))

MCOpen == {Put(NewWriter, b) : b \in {<<1>>, <<1, 1, 1, 1>>, <<0, 1, 0, 0, 0, 0, 0>>}}

\* The first few entries are equal, the others alternate.
MCFragments == {[k \in 1 .. n |-> IF k <= e THEN <<0, 0>> ELSE <<k % 2, 1>>] :
                  n \in 0 .. 5, e \in {0, 2, 4}}
MCIds == {[k \in 1 .. n |-> IF k <= e THEN <<1>> ELSE <<k % 2>>] :
            n \in 1 .. 9, e \in {0, 4, 6}}
MCEntrySize == [fragment |-> 2, id |-> 1]

MCStarts == {[tell |-> 3, length |-> 3], [tell |-> 6, length |-> 90]}
=============================================================================
