---------------------- MODULE BoundedWorkQueue_proofs ----------------------
(***************************************************************************)
(* For every set of threads, every capacity and every set of values: the   *)
(* work queue has no lost wakeup and implements BoundedFifo.               *)
(***************************************************************************)
EXTENDS BoundedWorkQueue, SequenceTheorems, TLAPS

(* Sequences: moving the head of the right operand of a concatenation to    *)
(* the end of the left one.                                                 *)
LEMMA MoveHead ==
  ASSUME NEW S, NEW s \in Seq(S), NEW t \in Seq(S), t # <<>>
  PROVE  s \o t = Append(s, Head(t)) \o Tail(t)
<1>1. Head(t) \in S /\ Tail(t) \in Seq(S) /\ <<Head(t)>> \in Seq(S)
  BY HeadTailProperties
<1>2. t = <<Head(t)>> \o Tail(t)
  <2>1. /\ Len(t) \in Nat \ {0}
        /\ Len(Tail(t)) = Len(t) - 1
        /\ \A i \in 1 .. Len(Tail(t)) : Tail(t)[i] = t[i+1]
    BY EmptySeq, HeadTailProperties
  <2>2. /\ <<Head(t)>> \o Tail(t) \in Seq(S)
        /\ Len(<<Head(t)>> \o Tail(t)) = 1 + Len(Tail(t))
        /\ \A i \in 1 .. 1 + Len(Tail(t)) :
             (<<Head(t)>> \o Tail(t))[i] =
               IF i <= 1 THEN <<Head(t)>>[i] ELSE Tail(t)[i - 1]
    BY <1>1, ConcatProperties
  <2>3. \A i \in 1 .. Len(t) : t[i] = (<<Head(t)>> \o Tail(t))[i]
    BY <2>1, <2>2
  <2>. QED  BY <2>1, <2>2, <2>3, SeqEqual
<1>3. Append(s, Head(t)) = s \o <<Head(t)>>
  BY <1>1, AppendIsConcat
<1>4. s \o (<<Head(t)>> \o Tail(t)) = (s \o <<Head(t)>>) \o Tail(t)
  BY <1>1, ConcatAssociative
<1>. QED  BY <1>2, <1>3, <1>4

(* The element that follows a prefix is the head of the rest.               *)
LEMMA NextOfPrefix ==
  ASSUME NEW S, NEW s \in Seq(S), NEW t \in Seq(S), t # <<>>
  PROVE  /\ Len(s) < Len(s \o t)
         /\ (s \o t)[Len(s) + 1] = Head(t)
<1>1. Len(t) \in Nat \ {0} /\ Len(s) \in Nat
  BY EmptySeq
<1>2. /\ Len(s \o t) = Len(s) + Len(t)
      /\ \A i \in 1 .. Len(s) + Len(t) : (s \o t)[i] =
           IF i <= Len(s) THEN s[i] ELSE t[i - Len(s)]
  BY ConcatProperties
<1>3. (s \o t)[Len(s) + 1] = t[1]
  BY <1>1, <1>2
<1>. QED  BY <1>1, <1>2, <1>3

-----------------------------------------------------------------------------
LEMMA InitIInv == Init => IInv
<1>. SUFFICES ASSUME Init PROVE IInv
  OBVIOUS
<1>. USE BoundAssumption DEF Init
<1>1. TypeOK
  <2>1. <<>> \in Seq(Value)
    BY EmptySeq
  <2>. QED  BY <2>1 DEF TypeOK, Threads
<1>2. NoLostWakeup /\ WithinBound
  BY DEF NoLostWakeup, WithinBound
<1>3. Conserved
  BY DEF Conserved
<1>4. EndIsFinal
  BY DEF EndIsFinal, Ended, Threads
<1>. QED  BY <1>1, <1>2, <1>3, <1>4 DEF IInv, Threads

(* One step of the inductive invariant: one case per action of the queue.   *)
LEMMA NextIInv == IInv /\ [Next]_vars => IInv'
<1>. SUFFICES ASSUME IInv, [Next]_vars PROVE IInv'
  OBVIOUS
<1>. USE BoundAssumption, ThreadAssumption DEF Threads
<1>0. TypeOK /\ NoLostWakeup /\ Conserved /\ WithinBound /\ EndIsFinal
  BY DEF IInv
<1>1. ASSUME NEW p \in Producers, NEW v \in Value, CallPush(p, v)
      PROVE  IInv'
  BY <1>0, <1>1 DEF CallPush, IInv, TypeOK, NoLostWakeup, Conserved,
                    WithinBound, EndIsFinal, Ended
<1>2. ASSUME NEW c \in Consumers, CallPop(c)
      PROVE  IInv'
  BY <1>0, <1>2 DEF CallPop, IInv, TypeOK, NoLostWakeup, Conserved,
                    WithinBound, EndIsFinal, Ended
<1>3. ASSUME NEW p \in Producers, Push(p)
      PROVE  IInv'
  <2>1. arg[p] \in Value /\ ~finished /\ queue \in Seq(Value)
    BY <1>0, <1>3 DEF Push, TypeOK, IInv
  <2>2. /\ queue' \in Seq(Value)
        /\ Len(queue') = Len(queue) + 1
        /\ queue' # <<>>
    BY <1>3, <2>1, AppendProperties DEF Push
  <2>3. TypeOK'
    BY <1>0, <1>3, <2>1, <2>2 DEF Push, TypeOK
  <2>4. popped = {}  \/ Len(queue) = bound
    BY <1>0 DEF NoLostWakeup
  <2>5. popped = {}
    BY <1>3, <2>4 DEF Push, HasRoom
  <2>6. NoLostWakeup'
    BY <1>3, <2>5 DEF Push, NoLostWakeup
  <2>7. Conserved'
    <3>1. received \in Seq(Value) /\ received \o queue \in Seq(Value)
      BY <1>0, <2>1, ConcatProperties DEF TypeOK
    <3>2. /\ <<arg[p]>> \in Seq(Value)
          /\ Append(queue, arg[p]) = queue \o <<arg[p]>>
      BY <2>1, AppendIsConcat
    <3>3. Append(received \o queue, arg[p]) = (received \o queue) \o <<arg[p]>>
      BY <2>1, <3>1, AppendIsConcat
    <3>4. (received \o queue) \o <<arg[p]>> = received \o (queue \o <<arg[p]>>)
      BY <2>1, <3>1, <3>2, ConcatAssociative
    <3>. QED  BY <1>0, <1>3, <3>2, <3>3, <3>4 DEF Push, Conserved
  <2>8. WithinBound'
    BY <1>3, <2>1, <2>2 DEF Push, HasRoom, WithinBound
  <2>9. EndIsFinal'
    BY <1>0, <1>3, <2>1 DEF Push, EndIsFinal, Ended, TypeOK
  <2>. QED  BY <1>3, <2>1, <2>3, <2>6, <2>7, <2>8, <2>9 DEF IInv, Push
<1>4. ASSUME NEW p \in Producers, PushWaits(p)
      PROVE  IInv'
  <2>1. Len(queue) = bound
    BY <1>0, <1>4 DEF PushWaits, HasRoom, WithinBound, TypeOK
  <2>. QED  BY <1>0, <1>4, <2>1 DEF PushWaits, IInv, TypeOK, NoLostWakeup,
                    Conserved, WithinBound, EndIsFinal, Ended
<1>5. ASSUME NEW c \in Consumers, Pop(c)
      PROVE  IInv'
  <2>1. queue \in Seq(Value) /\ queue # <<>> /\ received \in Seq(Value)
    BY <1>0, <1>5 DEF Pop, TypeOK
  <2>2. /\ Head(queue) \in Value
        /\ queue' \in Seq(Value)
        /\ Len(queue') = Len(queue) - 1
    BY <1>5, <2>1, HeadTailProperties DEF Pop
  <2>3. TypeOK'
    BY <1>0, <1>5, <2>1, <2>2, AppendProperties DEF Pop, TypeOK
  <2>4. pushed = {}
    BY <1>0, <2>1 DEF NoLostWakeup
  <2>5. NoLostWakeup'
    BY <1>5, <2>4 DEF Pop, NoLostWakeup
  <2>6. Conserved'
    BY <1>0, <1>5, <2>1, MoveHead DEF Pop, Conserved
  <2>7. WithinBound'
    BY <1>0, <1>5, <2>1, <2>2 DEF Pop, WithinBound
  <2>8. EndIsFinal'
    BY <1>0, <1>5, <2>1 DEF Pop, EndIsFinal, Ended, TypeOK
  <2>. QED  BY <1>0, <1>5, <2>3, <2>5, <2>6, <2>7, <2>8
              DEF IInv, Pop, TypeOK
<1>6. ASSUME NEW c \in Consumers, PopEnds(c)
      PROVE  IInv'
  BY <1>0, <1>6 DEF PopEnds, IInv, TypeOK, NoLostWakeup, Conserved,
                    WithinBound, EndIsFinal, Ended
<1>7. ASSUME NEW c \in Consumers, PopWaits(c)
      PROVE  IInv'
  BY <1>0, <1>7 DEF PopWaits, IInv, TypeOK, NoLostWakeup, Conserved,
                    WithinBound, EndIsFinal, Ended
<1>8. CASE Finish
  BY <1>0, <1>8 DEF Finish, IInv, TypeOK, NoLostWakeup, Conserved,
                    WithinBound, EndIsFinal, Ended
<1>9. ASSUME NEW t \in Threads, SpuriousWakeup(t)
      PROVE  IInv'
  BY <1>0, <1>9 DEF SpuriousWakeup, IInv, TypeOK, NoLostWakeup, Conserved,
                    WithinBound, EndIsFinal, Ended
<1>10. CASE UNCHANGED vars
  BY <1>0, <1>10 DEF vars, IInv, TypeOK, NoLostWakeup, Conserved,
                    WithinBound, EndIsFinal, Ended
<1>. QED
  BY <1>1, <1>2, <1>3, <1>4, <1>5, <1>6, <1>7, <1>8, <1>9, <1>10
     DEF Next, Producer, Consumer, Terminated

(* The inductive invariant holds in every reachable state: in particular   *)
(* the types, the capacity, and the conservation of the values in order.   *)
THEOREM QueueInvariant == Spec => []IInv
  BY InitIInv, NextIInv, PTL DEF Spec

(* No thread sleeps on a condition that already holds: a producer waits on *)
(* popped only while the queue is full, a consumer on pushed only while it *)
(* is empty and unfinished (the notify_all calls of push, pop and finish). *)
THEOREM NoWakeupIsLost == Spec => []NoLostWakeup
<1>1. IInv => NoLostWakeup
  BY DEF IInv
<1>. QED  BY <1>1, QueueInvariant, PTL

-----------------------------------------------------------------------------
LEMMA InitRefines == Init => Fifo!Init
BY DEF Init, Fifo!Init, Ended, Threads

(* Each step of the queue is a step of the channel or leaves it unchanged.  *)
LEMMA StepRefines == IInv /\ [Next]_vars => [Fifo!Next]_Fifo!fifoVars
<1>. SUFFICES ASSUME IInv, [Next]_vars PROVE [Fifo!Next]_Fifo!fifoVars
  OBVIOUS
<1>. USE BoundAssumption, ThreadAssumption DEF Threads, Fifo!fifoVars
<1>0. TypeOK /\ Conserved /\ WithinBound /\ EndIsFinal
  BY DEF IInv
<1>1. ASSUME NEW p \in Producers, NEW v \in Value, CallPush(p, v)
      PROVE  UNCHANGED Fifo!fifoVars
  BY <1>0, <1>1 DEF CallPush, Ended, TypeOK
<1>2. ASSUME NEW c \in Consumers, CallPop(c)
      PROVE  UNCHANGED Fifo!fifoVars
  BY <1>0, <1>2 DEF CallPop, Ended, TypeOK
<1>3. ASSUME NEW p \in Producers, Push(p)
      PROVE  Fifo!Send(arg[p]) /\ arg[p] \in Value
  <2>1. Len(sent) - Len(received) = Len(queue)
    <3>1. Len(received \o queue) = Len(received) + Len(queue)
      BY <1>0, ConcatProperties DEF TypeOK
    <3>. QED  BY <1>0, <3>1 DEF Conserved, TypeOK
  <2>2. ~finished /\ arg[p] \in Value
    BY <1>0, <1>3 DEF IInv, Push, TypeOK
  <2>3. Ended' = Ended
    BY <1>0, <1>3 DEF Push, Ended, TypeOK
  <2>. QED  BY <1>3, <2>1, <2>2, <2>3 DEF Push, HasRoom, Fifo!Send
<1>4. ASSUME NEW p \in Producers, PushWaits(p)
      PROVE  UNCHANGED Fifo!fifoVars
  BY <1>4 DEF PushWaits, Ended
<1>5. ASSUME NEW c \in Consumers, Pop(c)
      PROVE  Fifo!Receive
  <2>1. queue \in Seq(Value) /\ queue # <<>> /\ received \in Seq(Value)
    BY <1>0, <1>5 DEF Pop, TypeOK
  <2>2. Len(received) < Len(sent) /\ sent[Len(received) + 1] = Head(queue)
    BY <1>0, <2>1, NextOfPrefix DEF Conserved
  <2>3. Ended' = Ended
    BY <1>0, <1>5 DEF Pop, Ended, TypeOK
  <2>. QED  BY <1>5, <2>2, <2>3 DEF Pop, Fifo!Receive
<1>6. ASSUME NEW c \in Consumers, PopEnds(c)
      PROVE  Fifo!End(c)
  <2>1. sent = received
    BY <1>0, <1>6, ConcatEmptySeq DEF PopEnds, Conserved, TypeOK
  <2>2. Ended' = Ended \cup {c}
    BY <1>0, <1>6 DEF PopEnds, Ended, TypeOK
  <2>. QED  BY <1>6, <2>1, <2>2 DEF PopEnds, Fifo!End
<1>7. ASSUME NEW c \in Consumers, PopWaits(c)
      PROVE  UNCHANGED Fifo!fifoVars
  BY <1>7 DEF PopWaits, Ended
<1>8. CASE Finish
  BY <1>8 DEF Finish, Fifo!Next, Fifo!Close, Ended
<1>9. ASSUME NEW t \in Threads, SpuriousWakeup(t)
      PROVE  UNCHANGED Fifo!fifoVars
  BY <1>9 DEF SpuriousWakeup, Ended
<1>10. CASE UNCHANGED vars
  BY <1>10 DEF vars, Ended
<1>. QED
  BY <1>1, <1>2, <1>3, <1>4, <1>5, <1>6, <1>7, <1>8, <1>9, <1>10
     DEF Next, Producer, Consumer, Terminated, Fifo!Next

(* bounded_work_queue is a bounded first-in first-out channel: values come *)
(* out once, in the order in which their pushes took the mutex, and pop    *)
(* reports the end only after finish and after the last value.             *)
THEOREM QueueImplementsFifo == Spec => FifoSpec
<1>1. Init /\ [][Next]_vars /\ []IInv => Fifo!Spec
  BY InitRefines, StepRefines, PTL DEF Fifo!Spec
<1>. QED  BY <1>1, QueueInvariant, PTL DEF Spec, FifoSpec
=============================================================================
