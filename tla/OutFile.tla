------------------------------ MODULE OutFile ------------------------------
(***************************************************************************)
(* outfile and outfile_mutex (sqsh_writer): write_bytes, drop_bytes and    *)
(* read_bytes, statement by statement. The stream has one position for     *)
(* reading and writing, as std::basic_filebuf does. The thread that writes *)
(* also drops and reads (pending_write.cc), the client reads (get_block).  *)
(***************************************************************************)
EXTENDS Integers, Sequences

CONSTANTS Writer,      \* the thread that runs handle_write
          Readers,     \* the other threads
          Byte,
          Chunks,      \* what is written: sequences of bytes
          MaxLen       \* bounds the model: how long the file gets

ASSUME FileAssumption == /\ Writer \notin Readers
                         /\ Chunks \subseteq Seq(Byte) /\ MaxLen \in Nat

VARIABLES file, pos,   \* outfile: its bytes and its position
          owner,       \* who holds outfile_mutex: <<t>>, or no one: <<>>
          pc,          \* the statement each thread is at
          args,        \* the arguments of the call each thread is in
          saved,       \* tell of write_bytes, gpos and ppos of restore_pos
          returned     \* what each thread's last call returned

vars == <<file, pos, owner, pc, args, saved, returned>>

Threads == {Writer} \cup Readers

\* Inside read_bytes, once its position is saved.
Moved(t) == pc[t] \in {"seek", "read", "restore"}

\* The position the other calls will find.
Position == IF owner # <<>> /\ Moved(owner[1]) THEN saved[owner[1]] ELSE pos

Atomic == INSTANCE AtomicFile WITH pos <- Position

NoArgs == [bytes |-> <<>>, pos |-> 0, len |-> 0]

Init == /\ file = <<>> /\ pos = 0
        /\ owner = <<>>
        /\ pc = [t \in Threads |-> "idle"]
        /\ args = [t \in Threads |-> NoArgs]
        /\ saved = [t \in Threads |-> 0]
        /\ returned = [t \in Threads |-> <<>>]

Step(t, from, to) == pc[t] = from /\ pc' = [pc EXCEPT ![t] = to]

\* A thread calls one of the three operations.
Call(t, operation, arguments) ==
  /\ Step(t, "idle", operation)
  /\ args' = [args EXCEPT ![t] = arguments]
  /\ UNCHANGED <<file, pos, owner, saved, returned>>

CallWrite == \E b \in Chunks :
               /\ Position + Len(b) <= MaxLen
               /\ Call(Writer, "write_bytes", [bytes |-> b, pos |-> 0, len |-> 0])

\* What is dropped has been written before.
CallDrop == \E n \in 0 .. Position :
              Call(Writer, "drop_bytes", [bytes |-> <<>>, pos |-> 0, len |-> n])

CallRead(t) == \E p, n \in 0 .. Len(file) :
                 /\ p + n <= Len(file)
                 /\ Call(t, "read_bytes", [bytes |-> <<>>, pos |-> p, len |-> n])

\* std::lock_guard, the first thing each operation has.
First(operation) == CASE operation = "write_bytes" -> "tell"
                      [] operation = "drop_bytes" -> "drop"
                      [] operation = "read_bytes" -> "save"

Operations == {"write_bytes", "drop_bytes", "read_bytes"}

\* Mutant of Lock: write_bytes does without the mutex.
LockSome(t) ==
  /\ pc[t] \in Operations
  /\ Step(t, pc[t], First(pc[t]))
  /\ IF pc[t] = "write_bytes" THEN UNCHANGED owner
                              ELSE owner = <<>> /\ owner' = <<t>>
  /\ UNCHANGED <<file, pos, args, saved, returned>>

Lock(t) ==
  /\ pc[t] \in Operations
  /\ Step(t, pc[t], First(pc[t]))
  /\ owner = <<>> /\ owner' = <<t>>
  /\ UNCHANGED <<file, pos, args, saved, returned>>

\* The lock_guard goes out of scope, and so do the locals.
Unlock(t) ==
  /\ Step(t, "return", "idle")
  /\ owner' = <<>>
  /\ args' = [args EXCEPT ![t] = NoArgs]
  /\ saved' = [saved EXCEPT ![t] = 0]
  /\ UNCHANGED <<file, pos, returned>>

-----------------------------------------------------------------------------
(* write_bytes                                                             *)

Tell(t) ==
  /\ Step(t, "tell", "write")
  /\ saved' = [saved EXCEPT ![t] = pos]
  /\ UNCHANGED <<file, pos, owner, args, returned>>

\* outfile.write, and tell is returned.
Write(t) ==
  /\ Step(t, "write", "return")
  /\ file' = Atomic!Overwrite(file, pos, args[t].bytes)
  /\ pos' = pos + Len(args[t].bytes)
  /\ returned' = [returned EXCEPT ![t] = <<saved[t]>>]
  /\ UNCHANGED <<owner, args, saved>>

-----------------------------------------------------------------------------
(* drop_bytes: seekp relative to the current position                      *)

Drop(t) ==
  /\ Step(t, "drop", "return")
  /\ pos' = pos - args[t].len
  /\ returned' = [returned EXCEPT ![t] = <<>>]
  /\ UNCHANGED <<file, owner, args, saved>>

-----------------------------------------------------------------------------
(* read_bytes, with restore_pos around it                                  *)

SavePos(t) ==
  /\ Step(t, "save", "seek")
  /\ saved' = [saved EXCEPT ![t] = pos]
  /\ UNCHANGED <<file, pos, owner, args, returned>>

Seek(t) ==
  /\ Step(t, "seek", "read")
  /\ pos' = args[t].pos
  /\ UNCHANGED <<file, owner, args, saved, returned>>

Read(t) ==
  /\ Step(t, "read", "restore")
  /\ returned' = [returned EXCEPT ![t] =
                    SubSeq(file, pos + 1, pos + args[t].len)]
  /\ pos' = pos + args[t].len
  /\ UNCHANGED <<file, owner, args, saved>>

\* Mutant of RestorePos: the position stays where the read left it.
RestoreNothing(t) ==
  /\ Step(t, "restore", "return")
  /\ UNCHANGED <<file, pos, owner, args, saved, returned>>

\* ~restore_pos runs before the lock_guard is destroyed.
RestorePos(t) ==
  /\ Step(t, "restore", "return")
  /\ pos' = saved[t]
  /\ UNCHANGED <<file, owner, args, saved, returned>>

-----------------------------------------------------------------------------
Inside(t) == \/ Tell(t) \/ Write(t) \/ Drop(t)
             \/ SavePos(t) \/ Seek(t) \/ Read(t) \/ RestorePos(t)

Next == \/ CallWrite \/ CallDrop
        \/ \E t \in Threads : CallRead(t) \/ Lock(t) \/ Inside(t) \/ Unlock(t)

Spec == Init /\ [][Next]_vars

-----------------------------------------------------------------------------
(* Type invariant of the output file.                                      *)
Arguments == [bytes : Seq(Byte), pos : Nat, len : Nat]

TypeOK == /\ file \in Seq(Byte) /\ pos \in 0 .. Len(file)
          /\ owner \in {<<>>} \cup {<<t>> : t \in Threads}
          /\ pc \in [Threads -> Operations \cup
                       {"idle", "tell", "write", "drop", "save", "seek",
                        "read", "restore", "return"}]
          /\ args \in [Threads -> Arguments]
          /\ saved \in [Threads -> 0 .. Len(file)]

(* The calls are serialised, and what each was given still makes sense at  *)
(* the statement that uses it: the bytes to read are there, those to drop  *)
(* have been written, tell is where the bytes go.                          *)
Serialised == \A t \in Threads :
  /\ pc[t] \notin Operations \cup {"idle"} <=> owner = <<t>>
  /\ pc[t] \in {"write_bytes", "tell", "write", "drop_bytes", "drop"} => t = Writer
  /\ pc[t] \in {"read_bytes", "save", "seek", "read"} =>
       args[t].pos + args[t].len <= Len(file)
  /\ pc[t] \in {"drop_bytes", "drop"} => args[t].len <= Position
  /\ pc[t] = "write" => saved[t] = pos
  /\ pc[t] \in {"write_bytes", "tell", "write"} => args[t].bytes \in Chunks
  /\ pc[t] = "read" => pos = args[t].pos

IInv == TypeOK /\ Serialised

(* Each call is atomic, as SqshWriter has it: a block goes where            *)
(* write_bytes says it went, a read returns what is in the file, and no     *)
(* read moves the position the next block is written at.                    *)
AtomicSpec == Atomic!Spec
=============================================================================
