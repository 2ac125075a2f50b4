--------------------------- MODULE OutFile_proofs ---------------------------
(***************************************************************************)
(* For any number of reading threads and any blocks: the calls on the      *)
(* output file are serialised, and each of them is atomic.                 *)
(***************************************************************************)
EXTENDS OutFile, SequenceTheorems, TLAPS

(* What write_bytes leaves is a sequence of bytes, no shorter than before  *)
(* and as long as its new position.                                        *)
LEMMA OverwriteType ==
  ASSUME NEW f \in Seq(Byte), NEW p \in 0 .. Len(f), NEW bytes \in Seq(Byte)
  PROVE  /\ Atomic!Overwrite(f, p, bytes) \in Seq(Byte)
         /\ Len(Atomic!Overwrite(f, p, bytes)) \in Nat
         /\ Len(f) <= Len(Atomic!Overwrite(f, p, bytes))
         /\ p + Len(bytes) <= Len(Atomic!Overwrite(f, p, bytes))
<1>. DEFINE end == p + Len(bytes)
            long == IF end > Len(f) THEN end ELSE Len(f)
            new == Atomic!Overwrite(f, p, bytes)
<1>1. Len(f) \in Nat /\ Len(bytes) \in Nat /\ p \in Nat
  BY LenProperties
<1>2. end \in Nat /\ long \in Nat /\ Len(f) <= long /\ end <= long
      /\ (long = Len(f) \/ long = end)
  BY <1>1
<1>3. ASSUME NEW k \in 1 .. long
      PROVE  (IF k > p /\ k <= end THEN bytes[k - p] ELSE f[k]) \in Byte
  <2>1. CASE k > p /\ k <= end
    <3>1. k - p \in 1 .. Len(bytes)
      BY <1>1, <2>1
    <3>2. bytes[k - p] \in Byte
      BY <3>1, ElementOfSeq
    <3>. QED  BY <2>1, <3>2
  <2>2. CASE ~(k > p /\ k <= end)
    <3>1. k \in 1 .. Len(f)
      BY <1>1, <1>2, <2>2
    <3>2. f[k] \in Byte
      BY <3>1, ElementOfSeq
    <3>. QED  BY <2>2, <3>2
  <2>. QED  BY <2>1, <2>2
<1>4. new = [k \in 1 .. long |-> IF k > p /\ k <= end THEN bytes[k - p] ELSE f[k]]
  BY DEF Atomic!Overwrite
<1>. HIDE DEF long, end, new
<1>5. new \in [1 .. long -> Byte]
  BY <1>3, <1>4
<1>6. new \in Seq(Byte) /\ Len(new) = long
  BY <1>2, <1>5, SeqDef, LenProperties
<1>. QED  BY <1>2, <1>6 DEF new, end

-----------------------------------------------------------------------------
(* The inductive invariant.                                                *)

LEMMA PositionOf ==
  ASSUME IInv
  PROVE  /\ Position \in 0 .. Len(file)
         /\ \A t \in Threads : owner = <<t>> =>
              Position = IF Moved(t) THEN saved[t] ELSE pos
         /\ owner = <<>> => Position = pos
<1>1. \A t \in Threads : owner = <<t>> =>
        Position = IF Moved(t) THEN saved[t] ELSE pos
  BY DEF Position
<1>2. owner = <<>> => Position = pos
  BY DEF Position
<1>3. Position \in 0 .. Len(file)
  <2>1. CASE owner = <<>>
    BY <1>2, <2>1 DEF IInv, TypeOK
  <2>2. ASSUME NEW t \in Threads, owner = <<t>>
        PROVE  Position \in 0 .. Len(file)
    BY <1>1, <2>2 DEF IInv, TypeOK
  <2>. QED  BY <2>1, <2>2 DEF IInv, TypeOK
<1>. QED  BY <1>1, <1>2, <1>3

LEMMA InitIInv == Init => IInv
<1>. SUFFICES ASSUME Init PROVE IInv
  OBVIOUS
<1>1. <<>> \in Seq(Byte) /\ Len(<<>>) = 0
  BY EmptySeq
<1>2. NoArgs \in Arguments
  BY <1>1 DEF NoArgs, Arguments
<1>3. TypeOK
  BY <1>1, <1>2 DEF Init, TypeOK
<1>4. Serialised
  BY DEF Init, Serialised, Operations
<1>. QED  BY <1>3, <1>4 DEF IInv

\* A call begins: nothing shared changes.
LEMMA CallIInv ==
  ASSUME IInv, NEW t \in Threads, NEW operation \in Operations,
         NEW a \in Arguments, Call(t, operation, a),
         operation \in {"write_bytes", "drop_bytes"} => t = Writer,
         operation = "write_bytes" => a.bytes \in Chunks,
         operation = "drop_bytes" => a.len <= Position,
         operation = "read_bytes" => a.pos + a.len <= Len(file)
  PROVE  IInv'
<1>1. /\ pc[t] = "idle" /\ pc' = [pc EXCEPT ![t] = operation]
      /\ args' = [args EXCEPT ![t] = a]
      /\ UNCHANGED <<file, pos, owner, saved, returned>>
  BY DEF Call, Step
<1>2. TypeOK'
  BY <1>1 DEF IInv, TypeOK
<1>3. Position' = Position
  <2>1. ASSUME NEW u \in Threads, owner = <<u>> PROVE Moved(u)' = Moved(u)
    BY <1>1, <2>1 DEF IInv, TypeOK, Moved, Operations
  <2>2. CASE owner = <<>>
    BY <1>1, <2>2 DEF Position
  <2>3. ASSUME NEW u \in Threads, owner = <<u>> PROVE Position' = Position
    BY <1>1, <2>1, <2>3 DEF Position
  <2>. QED  BY <2>2, <2>3 DEF IInv, TypeOK
<1>4. ASSUME NEW u \in Threads
      PROVE  /\ pc'[u] = IF u = t THEN operation ELSE pc[u]
             /\ args'[u] = IF u = t THEN a ELSE args[u]
  BY <1>1 DEF IInv, TypeOK
<1>5. Serialised'
  BY <1>1, <1>3, <1>4 DEF IInv, Serialised, Operations
<1>. QED  BY <1>2, <1>5 DEF IInv

\* A step of the thread that has the lock, or takes it.
LEMMA StepIInv ==
  ASSUME IInv, NEW t \in Threads, Lock(t) \/ Inside(t) \/ Unlock(t)
  PROVE  IInv'
<1>. USE DEF IInv, TypeOK
<1>1. Len(file) \in Nat /\ pos \in Nat /\ args[t] \in Arguments
  BY LenProperties
<1>2. args[t].bytes \in Seq(Byte) /\ args[t].pos \in Nat /\ args[t].len \in Nat
  BY <1>1 DEF Arguments
<1>3. \A u \in Threads : u # t =>
        pc'[u] = pc[u] /\ args'[u] = args[u] /\ saved'[u] = saved[u]
  BY DEF Lock, Inside, Unlock, Step, Tell, Write, Drop, SavePos, Seek, Read,
         RestorePos
<1>4. CASE Lock(t)
  <2>1. /\ owner = <<>> /\ owner' = <<t>>
        /\ UNCHANGED <<file, pos, args, saved>>
        /\ pc[t] \in Operations
        /\ pc' = [pc EXCEPT ![t] = First(pc[t])]
    BY <1>4 DEF Lock, Step
  <2>2. First(pc[t]) = CASE pc[t] = "write_bytes" -> "tell"
                         [] pc[t] = "drop_bytes" -> "drop"
                         [] pc[t] = "read_bytes" -> "save"
    BY DEF First
  <2>3. TypeOK'
    BY <2>1, <2>2 DEF Operations
  <2>4. pc'[t] \in {"tell", "drop", "save"} /\ pc'[t] = First(pc[t])
    BY <2>1, <2>2 DEF Operations
  <2>5. Position = pos /\ Position' = pos
    BY <2>1, <2>4 DEF Position, Moved
  <2>6. ASSUME NEW u \in Threads, u # t PROVE owner # <<u>> /\ owner' # <<u>>
    BY <2>1, <2>6
  <2>7. Serialised'
    BY <1>3, <2>1, <2>2, <2>4, <2>5, <2>6 DEF Serialised, Operations
  <2>. QED  BY <2>3, <2>7
<1>5. ASSUME ~Lock(t) PROVE owner = <<t>>
  BY <1>5 DEF Inside, Unlock, Step, Tell, Write, Drop, SavePos, Seek, Read,
              RestorePos, Serialised, Operations
<1>6. ASSUME owner = <<t>>, NEW u \in Threads, u # t
      PROVE  pc[u] \in Operations \cup {"idle"} /\ owner # <<u>>
  BY <1>6 DEF Serialised
<1>7. CASE Tell(t) \/ SavePos(t)
  <2>1. /\ pc' = [pc EXCEPT ![t] = IF pc[t] = "tell" THEN "write" ELSE "seek"]
        /\ saved' = [saved EXCEPT ![t] = pos]
        /\ pc[t] \in {"tell", "save"}
        /\ UNCHANGED <<file, pos, owner, args>> /\ owner = <<t>>
    BY <1>5, <1>7 DEF Tell, SavePos, Step, Lock, Serialised, Operations
  <2>2. TypeOK'
    BY <1>1, <2>1
  <2>3. Position' = pos /\ Position = pos
    BY <2>1 DEF Position, Moved
  <2>4. Serialised'
    BY <1>3, <1>6, <2>1, <2>3 DEF Serialised, Operations
  <2>. QED  BY <2>2, <2>4
<1>8. CASE Write(t)
  <2>1. /\ pc[t] = "write" /\ pc' = [pc EXCEPT ![t] = "return"]
        /\ file' = Atomic!Overwrite(file, pos, args[t].bytes)
        /\ pos' = pos + Len(args[t].bytes)
        /\ UNCHANGED <<owner, args, saved>> /\ owner = <<t>>
    BY <1>5, <1>8 DEF Write, Step, Lock, Serialised, Operations
  <2>2. /\ file' \in Seq(Byte) /\ Len(file') \in Nat /\ Len(file) <= Len(file')
        /\ pos' <= Len(file')
    BY <1>2, <2>1, OverwriteType
  <2>3. Len(args[t].bytes) \in Nat
    BY <1>2, LenProperties
  <2>4. TypeOK'
    BY <1>1, <2>1, <2>2, <2>3
  <2>5. Position' = pos' /\ Position = pos /\ pos <= pos'
    BY <1>1, <2>1, <2>3 DEF Position, Moved
  <2>6. t = Writer
    BY <2>1 DEF Serialised
  <2>7. ASSUME NEW u \in Threads, u # t
        PROVE  /\ pc[u] \in {"read_bytes", "idle"}
               /\ args[u].pos \in Nat /\ args[u].len \in Nat
               /\ pc[u] = "read_bytes" => args[u].pos + args[u].len <= Len(file')
    <3>1. pc[u] \in {"read_bytes", "idle"}
      BY <1>6, <2>1, <2>6, <2>7 DEF Serialised, Operations
    <3>2. args[u].pos \in Nat /\ args[u].len \in Nat
      BY DEF Arguments
    <3>3. pc[u] = "read_bytes" => args[u].pos + args[u].len <= Len(file)
      BY DEF Serialised
    <3>. QED  BY <1>1, <2>2, <3>1, <3>2, <3>3
  <2>8. Serialised'
    BY <1>3, <1>6, <2>1, <2>7 DEF Serialised, Operations
  <2>. QED  BY <2>4, <2>8
<1>9. CASE Drop(t)
  <2>1. /\ pc[t] = "drop" /\ pc' = [pc EXCEPT ![t] = "return"]
        /\ pos' = pos - args[t].len
        /\ UNCHANGED <<file, owner, args, saved>> /\ owner = <<t>>
    BY <1>5, <1>9 DEF Drop, Step, Lock, Serialised, Operations
  <2>2. Position = pos
    BY <2>1 DEF Position, Moved
  <2>3. args[t].len <= pos /\ t = Writer
    BY <2>1, <2>2 DEF Serialised
  <2>4. TypeOK'
    BY <1>1, <1>2, <2>1, <2>3
  <2>5. \A u \in Threads : u # t => pc[u] \in {"read_bytes", "idle"}
    BY <1>6, <2>1, <2>3 DEF Serialised, Operations
  <2>6. Serialised'
    BY <1>3, <1>6, <2>1, <2>5 DEF Serialised, Operations
  <2>. QED  BY <2>4, <2>6
<1>10. CASE Seek(t) \/ Read(t)
  <2>1. /\ pc[t] \in {"seek", "read"}
        /\ pc' = [pc EXCEPT ![t] = IF pc[t] = "seek" THEN "read" ELSE "restore"]
        /\ pos' = IF pc[t] = "seek" THEN args[t].pos ELSE pos + args[t].len
        /\ UNCHANGED <<file, owner, args, saved>> /\ owner = <<t>>
    BY <1>5, <1>10 DEF Seek, Read, Step, Lock, Serialised, Operations
  <2>2. /\ args[t].pos + args[t].len <= Len(file)
        /\ pc[t] = "read" => pos = args[t].pos
    BY <2>1 DEF Serialised
  <2>3. TypeOK'
    BY <1>1, <1>2, <2>1, <2>2
  <2>4. Position' = saved[t] /\ Position = saved[t]
    BY <2>1 DEF Position, Moved
  <2>5. Serialised'
    BY <1>3, <1>6, <2>1, <2>4 DEF Serialised, Operations
  <2>. QED  BY <2>3, <2>5
<1>11. CASE RestorePos(t)
  <2>1. /\ pc[t] = "restore" /\ pc' = [pc EXCEPT ![t] = "return"]
        /\ pos' = saved[t]
        /\ UNCHANGED <<file, owner, args, saved>> /\ owner = <<t>>
    BY <1>5, <1>11 DEF RestorePos, Step, Lock, Serialised, Operations
  <2>2. TypeOK'
    BY <2>1
  <2>3. Position' = saved[t] /\ Position = saved[t]
    BY <2>1 DEF Position, Moved
  <2>4. Serialised'
    BY <1>3, <1>6, <2>1, <2>3 DEF Serialised, Operations
  <2>. QED  BY <2>2, <2>4
<1>12. CASE Unlock(t)
  <2>1. /\ pc[t] = "return" /\ pc' = [pc EXCEPT ![t] = "idle"]
        /\ owner' = <<>> /\ UNCHANGED <<file, pos>> /\ owner = <<t>>
        /\ args' = [args EXCEPT ![t] = NoArgs]
        /\ saved' = [saved EXCEPT ![t] = 0]
    BY <1>5, <1>12 DEF Unlock, Step, Lock, Serialised, Operations
  <2>2. NoArgs \in Arguments
    BY EmptySeq DEF NoArgs, Arguments
  <2>3. TypeOK'
    BY <1>1, <2>1, <2>2
  <2>4. Position' = pos /\ Position = pos
    BY <2>1 DEF Position, Moved
  <2>5. Serialised'
    BY <1>3, <1>6, <2>1, <2>4 DEF Serialised, Operations
  <2>. QED  BY <2>3, <2>5
<1>. QED  BY <1>4, <1>7, <1>8, <1>9, <1>10, <1>11, <1>12 DEF Inside

LEMMA NextIInv == IInv /\ [Next]_vars => IInv'
<1>. SUFFICES ASSUME IInv, [Next]_vars PROVE IInv'
  OBVIOUS
<1>1. Len(file) \in Nat /\ <<>> \in Seq(Byte) /\ Writer \in Threads
  BY LenProperties, EmptySeq DEF IInv, TypeOK, Threads
<1>2. CASE CallWrite
  <2>1. PICK b \in Chunks : Call(Writer, "write_bytes", [bytes |-> b, pos |-> 0, len |-> 0])
    BY <1>2 DEF CallWrite
  <2>2. b \in Seq(Byte)
    BY FileAssumption
  <2>. QED  BY <1>1, <2>1, <2>2, CallIInv DEF Operations, Arguments
<1>3. CASE CallDrop
  <2>1. PICK n \in 0 .. Position :
          Call(Writer, "drop_bytes", [bytes |-> <<>>, pos |-> 0, len |-> n])
    BY <1>3 DEF CallDrop
  <2>2. n \in Nat /\ n <= Position
    BY PositionOf
  <2>. QED  BY <1>1, <2>1, <2>2, CallIInv DEF Operations, Arguments
<1>4. ASSUME NEW t \in Threads, CallRead(t) PROVE IInv'
  <2>1. PICK p \in 0 .. Len(file), n \in 0 .. Len(file) :
          /\ p + n <= Len(file)
          /\ Call(t, "read_bytes", [bytes |-> <<>>, pos |-> p, len |-> n])
    BY <1>4 DEF CallRead
  <2>2. [bytes |-> <<>>, pos |-> p, len |-> n] \in Arguments
    BY <1>1 DEF Arguments
  <2>. DEFINE a == [bytes |-> <<>>, pos |-> p, len |-> n]
  <2>3. a.pos + a.len <= Len(file) /\ "read_bytes" \in Operations
    BY <2>1 DEF Operations
  <2>. HIDE DEF a
  <2>4. Call(t, "read_bytes", a) /\ a \in Arguments
    BY <2>1, <2>2 DEF a
  <2>. QED  BY <2>3, <2>4, CallIInv
<1>5. ASSUME NEW t \in Threads, Lock(t) \/ Inside(t) \/ Unlock(t) PROVE IInv'
  BY <1>5, StepIInv
<1>6. CASE UNCHANGED vars
  BY <1>6 DEF vars, IInv, TypeOK, Serialised, Position, Moved
<1>. QED  BY <1>2, <1>3, <1>4, <1>5, <1>6 DEF Next

(* The mutex serialises the calls (write_bytes, drop_bytes, read_bytes),   *)
(* and every statement finds what its call was given still valid.          *)
THEOREM FileInvariant == Spec => []IInv
BY InitIInv, NextIInv, PTL DEF Spec

-----------------------------------------------------------------------------
(* The refinement.                                                         *)

LEMMA InitAtomic == Init => Atomic!Init
BY DEF Init, Atomic!Init, Position

\* Every step is a call of AtomicFile, or none of its business.
LEMMA NextAtomic ==
  IInv /\ IInv' /\ [Next]_vars => [Atomic!Next]_(Atomic!fileVars)
<1>. SUFFICES ASSUME IInv, IInv', [Next]_vars,
                     ~UNCHANGED <<file, Position, returned>>
              PROVE  Atomic!Next
  BY DEF Atomic!fileVars
<1>1. ASSUME UNCHANGED <<file, returned, owner, pos>>, NEW t \in Threads,
             pc[t] \in Operations \cup {"idle"},
             \A u \in Threads : u # t => UNCHANGED <<pc[u], saved[u]>>
      PROVE  FALSE
  <2>1. CASE owner = <<>>
    BY <1>1, <2>1 DEF Position
  <2>2. ASSUME NEW u \in Threads, owner = <<u>> PROVE Position' = Position
    <3>1. u # t
      BY <1>1, <2>2 DEF IInv, Serialised
    <3>. QED  BY <1>1, <2>2, <3>1 DEF Position, Moved
  <2>. QED  BY <1>1, <2>1, <2>2 DEF IInv, TypeOK
<1>2. ASSUME NEW t \in Threads, NEW o, NEW a, Call(t, o, a) PROVE FALSE
  BY <1>1, <1>2 DEF Call, Step, IInv, TypeOK
<1>3. ASSUME NEW t \in Threads, Lock(t) \/ Inside(t) \/ Unlock(t)
      PROVE  Atomic!Next
  <2>1. CASE Lock(t)
    <3>1. owner = <<>> /\ owner' = <<t>> /\ UNCHANGED <<file, pos, returned>>
      BY <2>1 DEF Lock
    <3>2. ~Moved(t)'
      BY <2>1 DEF Lock, Step, Moved, First, Operations, IInv, TypeOK
    <3>. QED  BY <3>1, <3>2 DEF Position
  <2>2. ASSUME ~Lock(t) PROVE owner = <<t>>
    BY <1>3, <2>2 DEF Inside, Unlock, Step, Tell, Write, Drop, SavePos, Seek,
                      Read, RestorePos, IInv, Serialised, Operations
  <2>3. CASE ~Lock(t) /\ (Tell(t) \/ SavePos(t) \/ Seek(t) \/ RestorePos(t) \/ Unlock(t))
    <3>1. owner = <<t>>
      BY <2>2, <2>3
    <3>. QED
      BY <2>3, <3>1
         DEF Tell, SavePos, Seek, RestorePos, Unlock, Step, Position,
             Moved, IInv, TypeOK
  <2>4. CASE ~Lock(t) /\ Write(t)
    <3>1. /\ owner = <<t>> /\ pc[t] = "write" /\ pc'[t] = "return" /\ owner' = <<t>>
          /\ file' = Atomic!Overwrite(file, pos, args[t].bytes)
          /\ pos' = pos + Len(args[t].bytes)
          /\ returned' = [returned EXCEPT ![t] = <<saved[t]>>]
      BY <2>2, <2>4 DEF Write, Step, IInv, TypeOK
    <3>2. Position = pos /\ Position' = pos'
      BY <3>1 DEF Position, Moved
    <3>3. saved[t] = pos /\ args[t].bytes \in Chunks
      BY <3>1 DEF IInv, Serialised
    <3>4. Atomic!Write(t, args[t].bytes)
      BY <3>1, <3>2, <3>3 DEF Atomic!Write
    <3>. QED  BY <3>3, <3>4 DEF Atomic!Next
  <2>5. CASE ~Lock(t) /\ Drop(t)
    <3>1. /\ owner = <<t>> /\ pc[t] = "drop" /\ pc'[t] = "return" /\ owner' = <<t>>
          /\ pos' = pos - args[t].len /\ file' = file
          /\ returned' = [returned EXCEPT ![t] = <<>>]
      BY <2>2, <2>5 DEF Drop, Step, IInv, TypeOK
    <3>2. Position = pos /\ Position' = pos'
      BY <3>1 DEF Position, Moved
    <3>3. args[t].len \in 0 .. Position
      BY <3>1, <3>2 DEF IInv, TypeOK, Arguments, Serialised
    <3>4. Atomic!Drop(t, args[t].len)
      BY <3>1, <3>2 DEF Atomic!Drop
    <3>. QED  BY <3>3, <3>4 DEF Atomic!Next
  <2>6. CASE ~Lock(t) /\ Read(t)
    <3>1. /\ owner = <<t>> /\ pc[t] = "read" /\ pc'[t] = "restore" /\ owner' = <<t>>
          /\ UNCHANGED <<file, saved>>
          /\ returned' = [returned EXCEPT ![t] =
                            SubSeq(file, pos + 1, pos + args[t].len)]
      BY <2>2, <2>6 DEF Read, Step, IInv, TypeOK
    <3>2. Position = saved[t] /\ Position' = saved[t]
      BY <3>1 DEF Position, Moved
    <3>3. pos = args[t].pos /\ args[t].pos + args[t].len <= Len(file)
      BY <3>1 DEF IInv, Serialised
    <3>4. args[t].pos \in Nat /\ args[t].len \in Nat /\ Len(file) \in Nat
      BY LenProperties DEF IInv, TypeOK, Arguments
    <3>5. args[t].pos \in 0 .. Len(file) /\ args[t].len \in 0 .. Len(file)
      BY <3>3, <3>4
    <3>6. Atomic!Read(t, args[t].pos, args[t].len)
      BY <3>1, <3>2, <3>3 DEF Atomic!Read
    <3>. QED  BY <3>5, <3>6 DEF Atomic!Next
  <2>. QED  BY <1>3, <2>1, <2>3, <2>4, <2>5, <2>6 DEF Inside
<1>4. ASSUME UNCHANGED vars PROVE FALSE
  BY <1>4 DEF vars, Position, Moved
<1>5. Writer \in Threads
  BY DEF Threads
<1>. QED
  BY <1>2, <1>3, <1>4, <1>5 DEF Next, CallWrite, CallDrop, CallRead

(* write_bytes, drop_bytes and read_bytes are the atomic operations of     *)
(* AtomicFile, for any number of reading threads: what SqshWriter assumes  *)
(* of the output file holds of the code's statements under outfile_mutex.  *)
THEOREM FileIsAtomic == Spec => AtomicSpec
<1>1. Spec => []IInv
  BY FileInvariant
<1>. QED  BY <1>1, InitAtomic, NextAtomic, PTL DEF Spec, AtomicSpec, Atomic!Spec
=============================================================================
