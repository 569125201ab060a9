---------------------------- MODULE BoundedQueue ----------------------------
(***************************************************************************)
(* What a byte FIFO promises its two users: a queue of at most Capacity     *)
(* bytes, put at one end, taken at the other in the same order, and emptied *)
(* at once by a flush.                                                      *)
(***************************************************************************)
EXTENDS Naturals, Sequences

CONSTANTS Data, Capacity, Nothing, Flushed

VARIABLES
  queue,   \* the bytes waiting
  got      \* what the consumer's last operation gave

Init == queue = <<>> /\ got = Nothing

Put(c) ==
  /\ Len(queue) < Capacity
  /\ queue' = Append(queue, c)
  /\ UNCHANGED got

Get ==
  /\ queue # <<>>
  /\ got' = Head(queue) /\ queue' = Tail(queue)

GetNothing ==
  /\ queue = <<>>
  /\ got' = Nothing /\ UNCHANGED queue

Flush == queue' = <<>> /\ got' = Flushed

Next == (\E c \in Data : Put(c)) \/ Get \/ GetNothing \/ Flush

Spec == Init /\ [][Next]_<<queue, got>>
=============================================================================
