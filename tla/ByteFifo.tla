------------------------------ MODULE ByteFifo ------------------------------
(***************************************************************************)
(* The ring buffer of system/include/aprs/cfifo.h, between one producer and *)
(* one consumer that preempts it.  On the transmit path the main loop puts  *)
(* (ax25_putchar) and the DAC interrupt takes (AFSK_DAC_ISR); nothing       *)
(* protects the two pointers.  A push is two steps, the byte and then the   *)
(* pointer, and the interrupt can come between them.  head and tail are     *)
(* offsets from begin; end is the offset Size - 1.                          *)
(***************************************************************************)
EXTENDS Naturals

CONSTANTS
  Data,      \* the bytes
  Size       \* the length of the buffer

ASSUME SizeAssumption == Size \in Nat /\ Size >= 1

Nothing == "-1"   \* what fifo_getc returns of an empty buffer

Flushed == "flushed"   \* the consumer has thrown the contents away

ASSUME DataAssumption == {Nothing, Flushed} \cap Data = {} /\ Data # {}

VARIABLES
  buf,       \* the bytes of the buffer
  head,      \* where the consumer takes
  tail,      \* where the producer puts
  ppc,       \* the producer is between its two steps
  got        \* what the consumer's last operation gave

vars == <<buf, head, tail, ppc, got>>

Slots == 0 .. Size - 1

(* mutant: the pointer runs off the buffer *)
NextSlotPastEnd(p) == p + 1
(* The pointer after p, around the end of the buffer. *)
NextSlot(p) == IF p = Size - 1 THEN 0 ELSE p + 1

Init ==
  /\ buf \in [Slots -> Data]
  /\ head = 0 /\ tail = 0
  /\ ppc = "idle" /\ got = Nothing

IsEmpty == head = tail

(* mutant: the last slot of the buffer is filled too *)
IsFullTooLate == FALSE
(* fifo_isfull; with head at begin, head - 1 is no slot.                    *)
IsFull == (head = 0 /\ tail = Size - 1) \/ tail + 1 = head

(* fifo_putc: a full buffer drops the byte.  Between the test and the store *)
(* the consumer can only make room.                                         *)
StoreByte(c) ==
  /\ ppc = "idle" /\ ~IsFull
  /\ buf' = [buf EXCEPT ![tail] = c]
  /\ ppc' = "stored"
  /\ UNCHANGED <<head, tail, got>>

MoveTail ==
  /\ ppc = "stored"
  /\ tail' = NextSlot(tail)
  /\ ppc' = "idle"
  /\ UNCHANGED <<buf, head, got>>

(* fifo_getc, in the interrupt *)
Getc ==
  /\ IF IsEmpty THEN got' = Nothing /\ head' = head
     ELSE got' = buf[head] /\ head' = NextSlot(head)
  /\ UNCHANGED <<buf, tail, ppc>>

(* fifo_flush, in the interrupt *)
Flush ==
  /\ head' = tail /\ got' = Flushed
  /\ UNCHANGED <<buf, tail, ppc>>

Next ==
  \/ \E c \in Data : StoreByte(c)
  \/ MoveTail
  \/ Getc
  \/ Flush

Spec == Init /\ [][Next]_vars

----------------------------------------------------------------------------
(* The bytes between head and tail, the oldest first. *)
Waiting == IF head <= tail THEN tail - head ELSE Size - head + tail

SlotOf(i) == IF head + i - 1 < Size THEN head + i - 1 ELSE head + i - 1 - Size

Contents == [i \in 1 .. Waiting |-> buf[SlotOf(i)]]

(* Every field keeps its type. *)
TypeOK ==
  /\ buf \in [Slots -> Data]
  /\ head \in Slots /\ tail \in Slots
  /\ ppc \in {"idle", "stored"}
  /\ got \in Data \cup {Nothing, Flushed}

(* A byte the producer has stored and not yet published is never within     *)
(* what the consumer may take, and publishing it never makes a full buffer  *)
(* look empty.                                                              *)
StoredByteHasRoom == ppc = "stored" => Waiting < Size - 1

(* The ring buffer behaves as a queue of Size - 1 bytes, wherever the       *)
(* interrupt comes in a push.                                               *)
Queue == INSTANCE BoundedQueue
           WITH queue <- Contents, Capacity <- Size - 1

ImplementsQueue == Queue!Spec
=============================================================================
