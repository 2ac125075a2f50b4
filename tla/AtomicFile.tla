----------------------------- MODULE AtomicFile -----------------------------
(***************************************************************************)
(* What SqshWriter takes the output file for: its bytes and one position,  *)
(* at which write_bytes and drop_bytes act and which read_bytes leaves     *)
(* where it was, each of them in one step.                                 *)
(***************************************************************************)
EXTENDS Integers, Sequences

CONSTANTS Threads,     \* the threads that use the file
          Chunks       \* the sequences of bytes that are written

VARIABLES file,        \* the bytes of the file
          pos,         \* where the next byte is written
          returned     \* what each thread's last call returned

fileVars == <<file, pos, returned>>

\* bytes replace what the file holds from position p on.
Overwrite(f, p, bytes) ==
  LET end == p + Len(bytes)
  IN [k \in 1 .. (IF end > Len(f) THEN end ELSE Len(f)) |->
        IF k > p /\ k <= end THEN bytes[k - p] ELSE f[k]]

Init == /\ file = <<>>
        /\ pos = 0
        /\ returned = [t \in Threads |-> <<>>]

Write(t, bytes) ==
  /\ file' = Overwrite(file, pos, bytes)
  /\ pos' = pos + Len(bytes)
  /\ returned' = [returned EXCEPT ![t] = <<pos>>]

Drop(t, count) ==
  /\ pos' = pos - count
  /\ returned' = [returned EXCEPT ![t] = <<>>]
  /\ UNCHANGED file

Read(t, p, len) ==
  /\ p + len <= Len(file)
  /\ returned' = [returned EXCEPT ![t] = SubSeq(file, p + 1, p + len)]
  /\ UNCHANGED <<file, pos>>

Next == \E t \in Threads :
          \/ \E bytes \in Chunks : Write(t, bytes)
          \/ \E count \in 0 .. pos : Drop(t, count)
          \/ \E p, len \in 0 .. Len(file) : Read(t, p, len)

Spec == Init /\ [][Next]_fileVars
=============================================================================
