------------------------- MODULE BoundedWorkQueue -------------------------
(***************************************************************************)
(* bounded_work_queue<T> (bounded_work_queue.h): a queue guarded by one    *)
(* mutex and two condition variables. Each of push, pop and finish holds   *)
(* the mutex from its first statement to its last, except inside wait, so  *)
(* the stretch between two waits is one atomic step here. A thread inside  *)
(* wait is a member of the condition variable's set; notify_all empties    *)
(* the set, and a thread that leaves it evaluates the predicate again.     *)
(*                                                                         *)
(* The class is modelled for any number of threads. archive2sqfs uses one  *)
(* producer (the client thread, sqsh_writer::enqueue) and one consumer     *)
(* (sqsh_writer::writer_thread), and calls finish after its last push      *)
(* (sqsh_writer::finish_data).                                             *)
(***************************************************************************)
EXTENDS Integers, Sequences, FiniteSets

CONSTANTS Producers, Consumers,
          Value,       \* the values pushed
          bound,       \* the queue's capacity
          MaxPushes    \* bounds the model: how many pushes are started

ASSUME ThreadAssumption == Producers \cap Consumers = {}
ASSUME BoundAssumption == bound \in Nat \ {0} /\ MaxPushes \in Nat

VARIABLES queue, finished,   \* the members of the class
          popped, pushed,    \* the threads waiting on each condition variable
          call,              \* the call each thread is in
          arg,               \* the argument of each producer's push
          sent, received     \* history: the values pushed, the values popped

vars == <<queue, finished, popped, pushed, call, arg, sent, received>>

Threads == Producers \cup Consumers

Init == /\ queue = <<>>
        /\ finished = FALSE
        /\ popped = {}
        /\ pushed = {}
        /\ call = [t \in Threads |-> "none"]
        /\ arg \in [Producers -> Value]
        /\ sent = <<>>
        /\ received = <<>>

Pushing == {p \in Producers : call[p] = "push"}

\* A producer calls push(v). No thread pushes after finish.
CallPush(p, v) ==
  /\ call[p] = "none"
  /\ ~finished
  /\ Len(sent) + Cardinality(Pushing) < MaxPushes
  /\ call' = [call EXCEPT ![p] = "push"]
  /\ arg' = [arg EXCEPT ![p] = v]
  /\ UNCHANGED <<queue, finished, popped, pushed, sent, received>>

\* A consumer calls pop(), as the loop of writer_thread does until it is
\* told that there is nothing more.
CallPop(c) ==
  /\ call[c] = "none"
  /\ call' = [call EXCEPT ![c] = "pop"]
  /\ UNCHANGED <<queue, finished, popped, pushed, arg, sent, received>>

HasRoom == Len(queue) < bound

\* Mutant of Push: the predicate is not looked at.
PushUnbounded(p) ==
  /\ call[p] = "push" /\ p \notin popped
  /\ queue' = Append(queue, arg[p])
  /\ pushed' = {}
  /\ call' = [call EXCEPT ![p] = "none"]
  /\ sent' = Append(sent, arg[p])
  /\ UNCHANGED <<finished, popped, arg, received>>

\* push: popped.wait finds room, the value goes in, pushed.notify_all().
Push(p) ==
  /\ call[p] = "push" /\ p \notin popped
  /\ HasRoom
  /\ queue' = Append(queue, arg[p])
  /\ pushed' = {}
  /\ call' = [call EXCEPT ![p] = "none"]
  /\ sent' = Append(sent, arg[p])
  /\ UNCHANGED <<finished, popped, arg, received>>

\* push: popped.wait finds the queue full.
PushWaits(p) ==
  /\ call[p] = "push" /\ p \notin popped
  /\ ~HasRoom
  /\ popped' = popped \cup {p}
  /\ UNCHANGED <<queue, finished, pushed, call, arg, sent, received>>

\* Mutant of Pop: pop does not notify the producers.
PopSilent(c) ==
  /\ call[c] = "pop" /\ c \notin pushed
  /\ queue # <<>>
  /\ queue' = Tail(queue)
  /\ call' = [call EXCEPT ![c] = "none"]
  /\ received' = Append(received, Head(queue))
  /\ UNCHANGED <<finished, popped, pushed, arg, sent>>

\* pop: pushed.wait finds a value, it comes out, popped.notify_all().
Pop(c) ==
  /\ call[c] = "pop" /\ c \notin pushed
  /\ queue # <<>>
  /\ queue' = Tail(queue)
  /\ popped' = {}
  /\ call' = [call EXCEPT ![c] = "none"]
  /\ received' = Append(received, Head(queue))
  /\ UNCHANGED <<finished, pushed, arg, sent>>

\* Mutant of PopEnds: finished is enough, the values left are forgotten.
PopEndsEarly(c) ==
  /\ call[c] = "pop" /\ c \notin pushed
  /\ finished
  /\ call' = [call EXCEPT ![c] = "ended"]
  /\ UNCHANGED <<queue, finished, popped, pushed, arg, sent, received>>

\* pop: the queue is finished and drained, so there is no value to return.
PopEnds(c) ==
  /\ call[c] = "pop" /\ c \notin pushed
  /\ finished /\ queue = <<>>
  /\ call' = [call EXCEPT ![c] = "ended"]
  /\ UNCHANGED <<queue, finished, popped, pushed, arg, sent, received>>

\* pop: pushed.wait finds the queue empty and not finished.
PopWaits(c) ==
  /\ call[c] = "pop" /\ c \notin pushed
  /\ ~(finished \/ queue # <<>>)
  /\ pushed' = pushed \cup {c}
  /\ UNCHANGED <<queue, finished, popped, call, arg, sent, received>>

\* Mutant of Finish: finish does not notify the consumers.
FinishSilently ==
  /\ ~finished
  /\ \A p \in Producers : call[p] = "none"
  /\ finished' = TRUE
  /\ UNCHANGED <<queue, popped, pushed, call, arg, sent, received>>

\* finish: called once every producer is done pushing.
Finish ==
  /\ ~finished
  /\ \A p \in Producers : call[p] = "none"
  /\ finished' = TRUE
  /\ pushed' = {}
  /\ UNCHANGED <<queue, popped, call, arg, sent, received>>

\* wait may return without a notification (std::condition_variable).
SpuriousWakeup(t) ==
  /\ t \in popped \cup pushed
  /\ popped' = popped \ {t}
  /\ pushed' = pushed \ {t}
  /\ UNCHANGED <<queue, finished, call, arg, sent, received>>

Ended == {c \in Consumers : call[c] = "ended"}

Terminated == /\ finished /\ Ended = Consumers
              /\ UNCHANGED vars

Producer(p) == Push(p) \/ PushWaits(p)
Consumer(c) == CallPop(c) \/ Pop(c) \/ PopEnds(c) \/ PopWaits(c)

Next == \/ \E p \in Producers : Producer(p) \/ \E v \in Value : CallPush(p, v)
        \/ \E c \in Consumers : Consumer(c)
        \/ \E t \in Threads : SpuriousWakeup(t)
        \/ Finish
        \/ Terminated

\* The scheduler runs every thread that can run, and the client does call
\* finish once it has nothing more to push.
Fairness == /\ \A p \in Producers : WF_vars(Producer(p))
            /\ \A c \in Consumers : WF_vars(Consumer(c))
            /\ WF_vars(Finish)

Spec == Init /\ [][Next]_vars
FairSpec == Spec /\ Fairness

-----------------------------------------------------------------------------
(* Type invariant of the queue (bounded_work_queue.h:32-37).               *)
TypeOK ==
  /\ queue \in Seq(Value)
  /\ finished \in BOOLEAN
  /\ popped \subseteq Producers
  /\ pushed \subseteq Consumers
  /\ call \in [Threads -> {"none", "push", "pop", "ended"}]
  /\ arg \in [Producers -> Value]
  /\ sent \in Seq(Value)
  /\ received \in Seq(Value)

(* No lost wakeup: a thread sleeps in popped.wait only while the queue is  *)
(* full, and in pushed.wait only while it is empty and unfinished. Every   *)
(* notify_all the class needs is there (push, pop and finish).             *)
NoLostWakeup ==
  /\ popped # {} => Len(queue) = bound
  /\ pushed # {} => queue = <<>> /\ ~finished

(* Nothing is lost, duplicated or reordered between push and pop.          *)
Conserved == sent = received \o queue

(* The capacity is never exceeded, whoever races for the last slot.        *)
WithinBound == Len(queue) <= bound

(* The end of the stream is final: pop reports it only when the queue is   *)
(* finished and drained, which is what lets writer_thread leave its loop.  *)
EndIsFinal == Ended # {} => finished /\ queue = <<>>

IInv == /\ TypeOK
        /\ NoLostWakeup
        /\ Conserved
        /\ WithinBound
        /\ EndIsFinal
        /\ finished => \A p \in Producers : call[p] # "push"

(* The queue implements the channel of BoundedFifo.                        *)
Fifo == INSTANCE BoundedFifo
          WITH Bound <- bound, closed <- finished, ended <- Ended

FifoSpec == Fifo!Spec

(* Every value pushed is popped and every consumer is released at the end. *)
EventuallyDrained == <>[](received = sent /\ Ended = Consumers)
=============================================================================
