---------------------------- MODULE BoundedFifo ----------------------------
(***************************************************************************)
(* What the work queue between the client and the writer thread promises:  *)
(* a first-in first-out channel that holds at most Bound values, delivers  *)
(* every value once and in order, and reports the end of the stream only   *)
(* when it has been closed and everything sent has been received.          *)
(***************************************************************************)
EXTENDS Integers, Sequences

CONSTANTS Value,      \* what the channel carries
          Bound,      \* how many values may be in transit
          Consumers   \* the threads that receive

VARIABLES sent,       \* every value sent, in order
          received,   \* every value received, in order of receipt
          closed,     \* no more values will be sent
          ended       \* the consumers told that the stream is over

fifoVars == <<sent, received, closed, ended>>

Init == /\ sent = <<>>
        /\ received = <<>>
        /\ closed = FALSE
        /\ ended = {}

Send(v) == /\ ~closed
           /\ Len(sent) - Len(received) < Bound
           /\ sent' = Append(sent, v)
           /\ UNCHANGED <<received, closed, ended>>

Receive == /\ Len(received) < Len(sent)
           /\ received' = Append(received, sent[Len(received) + 1])
           /\ UNCHANGED <<sent, closed, ended>>

Close == /\ closed' = TRUE
         /\ UNCHANGED <<sent, received, ended>>

End(c) == /\ closed
          /\ received = sent
          /\ ended' = ended \cup {c}
          /\ UNCHANGED <<sent, received, closed>>

Next == \/ \E v \in Value : Send(v)
        \/ Receive
        \/ Close
        \/ \E c \in Consumers : End(c)

Spec == Init /\ [][Next]_fifoVars
=============================================================================
