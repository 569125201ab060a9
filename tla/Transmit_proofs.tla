--------------------------- MODULE Transmit_proofs ---------------------------
(***************************************************************************)
(* The transmit path.  The ring buffer of cfifo.h implements a bounded      *)
(* queue for every length and every set of bytes, although a push is two    *)
(* steps and the consumer may preempt the producer between them; and with   *)
(* such a queue between the main loop and the DAC interrupt the AFSK        *)
(* transmitter puts the frames on the air that it was given, for every      *)
(* capacity and all frames, and says that it sends exactly while it does.   *)
(***************************************************************************)
EXTENDS ByteFifo, AfskTx, SequenceTheorems, TLAPS

Inv == TypeOK /\ StoredByteHasRoom

LEMMA NextSlotInside == \A p \in Slots : NextSlot(p) \in Slots
BY SizeAssumption DEF Slots, NextSlot

LEMMA TypeInit == Init => TypeOK
BY SizeAssumption DEF Init, TypeOK, Slots

LEMMA TypeStep == TypeOK /\ [Next]_vars => TypeOK'
<1> SUFFICES ASSUME TypeOK, [Next]_vars PROVE TypeOK'
  OBVIOUS
<1> USE DEF TypeOK
<1>1. ASSUME NEW c \in Data, StoreByte(c) PROVE TypeOK'
  BY <1>1 DEF StoreByte
<1>2. CASE MoveTail
  BY <1>2, NextSlotInside DEF MoveTail
<1>3. CASE Getc
  BY <1>3, NextSlotInside DEF Getc
<1>4. CASE Flush
  BY <1>4 DEF Flush
<1>5. CASE UNCHANGED vars
  BY <1>5 DEF vars
<1>6. QED
  BY <1>1, <1>2, <1>3, <1>4, <1>5 DEF Next

(* The pointers stay inside the buffer in every run. *)
THEOREM TypeCorrect == Spec => []TypeOK
<1>1. QED
  BY TypeInit, TypeStep, PTL DEF Spec

----------------------------------------------------------------------------
LEMMA InvStep == Inv /\ [Next]_vars => Inv'
<1> SUFFICES ASSUME Inv, [Next]_vars PROVE StoredByteHasRoom'
  BY TypeStep DEF Inv
<1> USE SizeAssumption DEF Inv, TypeOK, StoredByteHasRoom, Waiting, Slots
<1>1. ASSUME NEW c \in Data, StoreByte(c) PROVE StoredByteHasRoom'
  BY <1>1 DEF StoreByte, IsFull
<1>2. CASE MoveTail
  BY <1>2 DEF MoveTail
<1>3. CASE Getc
  BY <1>3 DEF Getc, IsEmpty, NextSlot
<1>4. CASE Flush
  BY <1>4 DEF Flush
<1>5. CASE UNCHANGED vars
  BY <1>5 DEF vars
<1>6. QED
  BY <1>1, <1>2, <1>3, <1>4, <1>5 DEF Next

(* A byte that is stored and not yet published has a slot of its own,       *)
(* whatever the consumer does between the two steps of fifo_push.           *)
THEOREM RoomForStoredByte == Spec => []StoredByteHasRoom
<1>1. Init => Inv
  BY TypeInit DEF Init, Inv, StoredByteHasRoom
<1>2. Inv => StoredByteHasRoom
  BY DEF Inv
<1>3. QED
  BY <1>1, <1>2, InvStep, PTL DEF Spec

----------------------------------------------------------------------------
LEMMA FunctionIsSeq ==
  ASSUME NEW n \in Nat, NEW f \in [1 .. n -> Data]
  PROVE  f \in Seq(Data) /\ Len(f) = n
<1>1. f \in Seq(Data)
  BY SeqDef
<1>2. QED
  BY <1>1, LenProperties

(* The contents are a sequence of as many bytes as are waiting. *)
LEMMA ContentsTyped ==
  ASSUME TypeOK
  PROVE  /\ Waiting \in 0 .. Size - 1
         /\ \A i \in 1 .. Waiting : SlotOf(i) \in Slots
         /\ Contents \in Seq(Data)
         /\ Len(Contents) = Waiting
         /\ \A i \in 1 .. Waiting : Contents[i] = buf[SlotOf(i)]
<1>1. Waiting \in 0 .. Size - 1
  BY SizeAssumption DEF TypeOK, Slots, Waiting
<1>2. \A i \in 1 .. Waiting : SlotOf(i) \in Slots
  BY <1>1, SizeAssumption DEF TypeOK, Slots, Waiting, SlotOf
<1>3. Contents \in [1 .. Waiting -> Data]
  BY <1>2 DEF Contents, TypeOK
<1>4. Contents \in Seq(Data) /\ Len(Contents) = Waiting
  BY <1>1, <1>3, FunctionIsSeq
<1>5. QED
  BY <1>1, <1>2, <1>4 DEF Contents

(* Putting a byte is appending it when its pointer is moved. *)
LEMMA MoveTailPuts ==
  ASSUME TypeOK, StoredByteHasRoom, MoveTail
  PROVE  Queue!Put(buf[tail])
<1> USE SizeAssumption
<1>1. Waiting \in 0 .. Size - 2 /\ Waiting' = Waiting + 1
  BY DEF MoveTail, NextSlot, Waiting, StoredByteHasRoom, TypeOK, Slots
<1>2. \A i \in 1 .. Waiting : SlotOf(i)' = SlotOf(i)
  BY DEF MoveTail, SlotOf
<1>3. \A i \in Nat : i = Waiting + 1 => SlotOf(i)' = tail
  BY DEF MoveTail, SlotOf, Waiting, TypeOK, Slots, StoredByteHasRoom
<1>4. buf[tail] \in Data /\ buf' = buf
  BY DEF TypeOK, MoveTail
<1> DEFINE added == Append(Contents, buf[tail])
<1>5. /\ added \in Seq(Data) /\ Len(added) = Waiting + 1
      /\ \A i \in 1 .. Waiting : added[i] = Contents[i]
      /\ added[Waiting + 1] = buf[tail]
  BY <1>4, ContentsTyped, AppendProperties
<1>6. Contents' = [i \in 1 .. Waiting + 1 |-> buf[SlotOf(i)']]
  BY <1>1, <1>4 DEF Contents
<1>7. \A i \in 1 .. Waiting + 1 : Contents'[i] = added[i]
  BY <1>1, <1>2, <1>3, <1>5, <1>6, ContentsTyped
<1>8. \A i \in 1 .. Waiting + 1 : added[i] \in Data
  BY <1>1, <1>5, ElementOfSeq
<1>9. Contents' \in Seq(Data) /\ Len(Contents') = Waiting + 1
  <2>1. Contents' \in [1 .. Waiting + 1 -> Data]
    BY <1>6, <1>7, <1>8
  <2>2. QED
    BY <1>1, <2>1, FunctionIsSeq
<1>10. Contents' = added
  <2> HIDE DEF added
  <2>1. QED
    BY <1>5, <1>7, <1>9, SeqEqual
<1>11. QED
  BY <1>1, <1>10, ContentsTyped DEF Queue!Put, MoveTail

(* Taking a byte is taking the head of the queue. *)
LEMMA GetcTakes ==
  ASSUME TypeOK, Getc
  PROVE  Queue!Get \/ Queue!GetNothing
<1> USE SizeAssumption
<1>1. CASE IsEmpty
  <2>1. Waiting = 0
    BY <1>1 DEF IsEmpty, Waiting, TypeOK, Slots
  <2>2. Contents = <<>>
    BY <2>1, ContentsTyped, EmptySeq, SeqEqual
  <2>3. Contents' = Contents
    BY <1>1 DEF Getc, Contents, Waiting, SlotOf
  <2>4. QED
    BY <1>1, <2>2, <2>3 DEF Getc, Queue!GetNothing
<1>2. CASE ~IsEmpty
  <2>1. Waiting \in 1 .. Size - 1 /\ Waiting' = Waiting - 1
    BY <1>2 DEF IsEmpty, Getc, NextSlot, Waiting, TypeOK, Slots
  <2>2. \A i \in 1 .. Waiting - 1 : SlotOf(i)' = SlotOf(i + 1)
    BY <1>2, <2>1 DEF Getc, NextSlot, SlotOf, Waiting, TypeOK, Slots
  <2>3. buf' = buf /\ SlotOf(1) = head
    BY DEF Getc, SlotOf, TypeOK, Slots
  <2>4. Contents # <<>>
    BY <2>1, ContentsTyped, EmptySeq
  <2>5. /\ Tail(Contents) \in Seq(Data) /\ Len(Tail(Contents)) = Waiting - 1
        /\ \A i \in 1 .. Waiting - 1 : Tail(Contents)[i] = Contents[i + 1]
    BY <2>4, ContentsTyped, HeadTailProperties
  <2>6. Contents' = [i \in 1 .. Waiting - 1 |-> buf[SlotOf(i)']]
    BY <2>1, <2>3 DEF Contents
  <2>7. \A i \in 1 .. Waiting - 1 : Contents'[i] = Tail(Contents)[i]
    BY <2>1, <2>2, <2>5, <2>6, ContentsTyped
  <2>8. Contents' \in Seq(Data) /\ Len(Contents') = Waiting - 1
    <3>1. \A i \in 1 .. Waiting - 1 : Tail(Contents)[i] \in Data
      BY <2>1, <2>5, ElementOfSeq
    <3>2. Contents' \in [1 .. Waiting - 1 -> Data]
      BY <2>6, <2>7, <3>1
    <3>3. QED
      BY <2>1, <3>2, FunctionIsSeq
  <2>9. Contents' = Tail(Contents)
    BY <2>5, <2>7, <2>8, SeqEqual
  <2>10. got' = Head(Contents)
    BY <1>2, <2>1, <2>3, ContentsTyped DEF Getc
  <2>11. QED
    BY <2>4, <2>9, <2>10 DEF Queue!Get
<1>3. QED
  BY <1>1, <1>2

LEMMA FlushEmpties ==
  ASSUME TypeOK, Flush
  PROVE  Queue!Flush
<1>1. Waiting' = 0 /\ got' = Flushed
  BY SizeAssumption DEF Flush, Waiting, TypeOK, Slots
<1>2. Contents' = <<>>
  BY <1>1 DEF Contents
<1>3. QED
  BY <1>1, <1>2 DEF Queue!Flush

(* Storing the byte changes nothing of what the consumer may take. *)
LEMMA StoreByteStutters ==
  ASSUME TypeOK, NEW c \in Data, StoreByte(c)
  PROVE  UNCHANGED <<Contents, got>>
<1>1. Waiting' = Waiting /\ \A i \in 1 .. Waiting : SlotOf(i)' = SlotOf(i)
  BY DEF StoreByte, Waiting, SlotOf
<1>2. \A i \in 1 .. Waiting : SlotOf(i) # tail
  BY SizeAssumption DEF SlotOf, Waiting, TypeOK, Slots
<1>3. \A i \in 1 .. Waiting : buf'[SlotOf(i)] = buf[SlotOf(i)]
  BY <1>2, ContentsTyped DEF StoreByte, TypeOK
<1>4. QED
  BY <1>1, <1>3 DEF Contents, StoreByte

LEMMA QueueInit == Init => Queue!Init
<1> SUFFICES ASSUME Init PROVE Contents = <<>> /\ got = Nothing
  BY DEF Queue!Init
<1>1. Waiting = 0
  BY SizeAssumption DEF Init, Waiting
<1>2. QED
  BY <1>1 DEF Contents, Init

LEMMA QueueStep == Inv /\ [Next]_vars => [Queue!Next]_<<Contents, got>>
<1> SUFFICES ASSUME Inv, [Next]_vars PROVE [Queue!Next]_<<Contents, got>>
  OBVIOUS
<1> TypeOK /\ StoredByteHasRoom
  BY DEF Inv
<1>1. ASSUME NEW c \in Data, StoreByte(c) PROVE UNCHANGED <<Contents, got>>
  BY <1>1, StoreByteStutters
<1>2. CASE MoveTail
  <2>1. buf[tail] \in Data
    BY DEF TypeOK
  <2>2. QED
    BY <1>2, <2>1, MoveTailPuts DEF Queue!Next
<1>3. CASE Getc
  BY <1>3, GetcTakes DEF Queue!Next
<1>4. CASE Flush
  BY <1>4, FlushEmpties DEF Queue!Next
<1>5. CASE UNCHANGED vars
  BY <1>5 DEF vars, Contents, Waiting, SlotOf
<1>6. QED
  BY <1>1, <1>2, <1>3, <1>4, <1>5 DEF Next

(* The ring buffer of cfifo.h, used by a producer and a consumer that       *)
(* preempts it, is a queue of Size - 1 bytes: nothing is taken twice, out   *)
(* of order, or before it was put.                                          *)
THEOREM FifoIsAQueue == Spec => ImplementsQueue
<1>1. Init => Inv
  BY TypeInit DEF Init, Inv, StoredByteHasRoom
<1>2. Inv /\ [Next]_vars => Inv'
  BY InvStep
<1>3. QED
  BY <1>1, <1>2, QueueInit, QueueStep, PTL DEF Spec, ImplementsQueue, Queue!Spec

----------------------------------------------------------------------------
(* The AFSK transmitter. *)
Bytes == {"FLAG", "ESC", "plain", "special"}

AfskTypeOK ==
  /\ fifo \in Seq(Bytes) /\ Len(fifo) <= Capacity
  /\ sending \in BOOLEAN /\ running \in BOOLEAN /\ dropped \in BOOLEAN
  /\ preamble \in Nat /\ trailer \in Nat
  /\ mpc \in {"idle", "put", "escape", "start", "key", "trailer"}
  /\ handed \in Seq(Frames) /\ nth \in Nat /\ ahead \in 0 .. Pace
  /\ Putting => Len(handed) > 0 /\ nth <= Len(Frame) + 1
  /\ mpc = "escape" => nth \in 1 .. Len(Frame) /\ Frame[nth] = "special"
  /\ air \in Seq(Bytes) /\ aired \in Seq(Seq(Bytes))

LEMMA FrameTyped ==
  ASSUME NEW s \in Seq(Frames), NEW k \in 1 .. Len(s)
  PROVE  /\ s[k] \in Frames /\ s[k] \in Seq({"plain", "special"})
         /\ Len(s[k]) \in Nat /\ Len(s[k]) > 0
         /\ DOMAIN s[k] = 1 .. Len(s[k])
         /\ \A j \in 1 .. Len(s[k]) : s[k][j] \in {"plain", "special"}
<1>1. s[k] \in Frames
  BY ElementOfSeq
<1>2. s[k] \in Seq({"plain", "special"}) /\ s[k] # <<>>
  BY <1>1, AfskConstants
<1>3. Len(s[k]) \in Nat /\ DOMAIN s[k] = 1 .. Len(s[k])
  BY <1>2, LenProperties
<1>4. Len(s[k]) > 0
  BY <1>2, <1>3, EmptySeq
<1>5. QED
  BY <1>1, <1>2, <1>3, <1>4, ElementOfSeq

LEMMA PutcTyped ==
  ASSUME AfskTypeOK, NEW b \in Bytes, Putc(b)
  PROVE  /\ fifo' \in Seq(Bytes) /\ Len(fifo') <= Capacity
         /\ dropped' \in BOOLEAN /\ ahead' \in 0 .. Pace
         /\ UNCHANGED <<sending, running, preamble, trailer, handed, air, aired>>
<1> USE AfskConstants DEF AfskTypeOK, Putc
<1>1. Len(fifo) \in Nat /\ Append(fifo, b) \in Seq(Bytes)
      /\ Len(Append(fifo, b)) = Len(fifo) + 1
  BY LenProperties, AppendProperties
<1>2. QED
  BY <1>1

(* What the interrupt takes is a byte, and so is what stays.                *)
LEMMA TailsTyped ==
  ASSUME AfskTypeOK, fifo # <<>>
  PROVE  /\ Len(fifo) \in Nat \ {0} /\ Head(fifo) = fifo[1] /\ fifo[1] \in Bytes
         /\ Tail(fifo) \in Seq(Bytes) /\ Len(Tail(fifo)) = Len(fifo) - 1
         /\ \A i \in 1 .. Len(fifo) - 1 : Tail(fifo)[i] = fifo[i + 1]
         /\ Len(fifo) > 1 =>
              /\ fifo[2] \in Bytes
              /\ Tail(Tail(fifo)) \in Seq(Bytes) /\ Len(Tail(Tail(fifo))) = Len(fifo) - 2
              /\ \A i \in 1 .. Len(fifo) - 2 : Tail(Tail(fifo))[i] = fifo[i + 2]
<1> USE DEF AfskTypeOK
<1>1. Len(fifo) \in Nat \ {0} /\ fifo[1] \in Bytes
  BY LenProperties, EmptySeq, ElementOfSeq
<1>2. /\ Head(fifo) = fifo[1] /\ Tail(fifo) \in Seq(Bytes)
      /\ Len(Tail(fifo)) = Len(fifo) - 1
      /\ \A i \in 1 .. Len(fifo) - 1 : Tail(fifo)[i] = fifo[i + 1]
  BY <1>1, HeadTailProperties
<1>3. ASSUME Len(fifo) > 1
      PROVE  /\ fifo[2] \in Bytes
             /\ Tail(Tail(fifo)) \in Seq(Bytes) /\ Len(Tail(Tail(fifo))) = Len(fifo) - 2
             /\ \A i \in 1 .. Len(fifo) - 2 : Tail(Tail(fifo))[i] = fifo[i + 2]
  <2> DEFINE t == Tail(fifo)
  <2>1. t \in Seq(Bytes) /\ Len(t) = Len(fifo) - 1 /\ t # <<>>
    <3>1. t \in Seq(Bytes) /\ Len(t) = Len(fifo) - 1
      BY <1>2
    <3>2. Len(t) # 0
      BY <1>1, <1>3, <3>1
    <3> HIDE DEF t
    <3>3. QED
      BY <3>1, <3>2, EmptySeq
  <2>2. /\ Tail(t) \in Seq(Bytes) /\ Len(Tail(t)) = Len(t) - 1
        /\ \A i \in 1 .. Len(t) - 1 : Tail(t)[i] = t[i + 1]
    BY <2>1, HeadTailProperties
  <2>3. fifo[2] \in Bytes
    BY <1>1, <1>3, ElementOfSeq
  <2>4. ASSUME NEW i \in 1 .. Len(fifo) - 2 PROVE Tail(t)[i] = fifo[i + 2]
    BY <1>1, <1>2, <2>1, <2>2
  <2>5. QED
    BY <1>1, <2>1, <2>2, <2>3, <2>4
<1>4. QED
  BY <1>1, <1>2, <1>3

LEMMA AfskTypeInit == AfskInit => AfskTypeOK
<1> SUFFICES ASSUME AfskInit PROVE AfskTypeOK
  OBVIOUS
<1>1. <<>> \in Seq(Bytes) /\ <<>> \in Seq(Frames) /\ <<>> \in Seq(Seq(Bytes))
  BY EmptySeq
<1>2. Len(<<>>) = 0
  OBVIOUS
<1>3. /\ fifo \in Seq(Bytes) /\ handed \in Seq(Frames)
      /\ air \in Seq(Bytes) /\ aired \in Seq(Seq(Bytes))
  BY <1>1 DEF AfskInit
<1>4. Len(fifo) <= Capacity /\ ahead \in 0 .. Pace /\ nth \in Nat
      /\ preamble \in Nat /\ trailer \in Nat
  BY <1>2, AfskConstants DEF AfskInit
<1>5. QED
  BY <1>3, <1>4 DEF AfskInit, AfskTypeOK, Putting

LEMMA AfskTypeStep == AfskTypeOK /\ [AfskNext]_afskVars => AfskTypeOK'
<1> SUFFICES ASSUME AfskTypeOK, [AfskNext]_afskVars PROVE AfskTypeOK'
  OBVIOUS
<1> USE AfskConstants DEF Putting, Frame
<1>1. ASSUME NEW f \in Frames, SendFrame(f) PROVE AfskTypeOK'
  <2>1. Append(handed, f) \in Seq(Frames) /\ Len(handed) \in Nat
        /\ Len(Append(handed, f)) = Len(handed) + 1
    BY AppendProperties, LenProperties DEF AfskTypeOK
  <2>2. Len(Append(handed, f)[Len(handed) + 1]) \in Nat
    BY <2>1, FrameTyped
  <2>3. QED
    BY <1>1, <2>1, <2>2 DEF SendFrame, AfskTypeOK
<1>2. ASSUME Putting, Len(handed) \in Nat \ {0}
      PROVE  /\ DOMAIN Frame = 1 .. Len(Frame) /\ Len(Frame) \in Nat \ {0}
             /\ \A j \in 1 .. Len(Frame) : Frame[j] \in Bytes
  BY <1>2, FrameTyped DEF AfskTypeOK, Bytes
<1>3. Putting => Len(handed) \in Nat \ {0}
  BY LenProperties DEF AfskTypeOK
<1>4. CASE PutFlag
  <2>1. UNCHANGED <<sending, running, preamble, trailer, handed, air, aired>>
        /\ fifo' \in Seq(Bytes) /\ Len(fifo') <= Capacity
        /\ dropped' \in BOOLEAN /\ ahead' \in 0 .. Pace
    BY <1>4, PutcTyped DEF PutFlag, Bytes
  <2>2. QED
    BY <1>2, <1>3, <1>4, <2>1 DEF PutFlag, AfskTypeOK
<1>5. CASE PutEscape
  <2>1. UNCHANGED <<sending, running, preamble, trailer, handed, air, aired>>
        /\ fifo' \in Seq(Bytes) /\ Len(fifo') <= Capacity
        /\ dropped' \in BOOLEAN /\ ahead' \in 0 .. Pace
    BY <1>5, PutcTyped DEF PutEscape, Bytes
  <2>2. QED
    BY <1>2, <1>3, <1>5, <2>1 DEF PutEscape, NeedsEscape, AfskTypeOK
<1>6. CASE PutByte
  <2>1. nth \in 1 .. Len(Frame) /\ Frame[nth] \in Bytes
    BY <1>2, <1>3, <1>6 DEF PutByte, AfskTypeOK
  <2>2. UNCHANGED <<sending, running, preamble, trailer, handed, air, aired>>
        /\ fifo' \in Seq(Bytes) /\ Len(fifo') <= Capacity
        /\ dropped' \in BOOLEAN /\ ahead' \in 0 .. Pace
    BY <1>6, <2>1, PutcTyped DEF PutByte
  <2>3. QED
    BY <1>2, <1>3, <1>6, <2>1, <2>2 DEF PutByte, AfskTypeOK
<1>7. CASE TxStart
  BY <1>7 DEF TxStart, AfskTypeOK
<1>8. CASE Key
  BY <1>8 DEF Key, AfskTypeOK
<1>9. CASE StoreTrailer
  BY <1>9 DEF StoreTrailer, AfskTypeOK
<1>10. ASSUME Begins, air' \in Seq(Bytes), aired' \in Seq(Seq(Bytes)),
              fifo' \in Seq(Bytes), Len(fifo') <= Capacity,
              sending' \in BOOLEAN, running' \in BOOLEAN,
              preamble' \in Nat, trailer' \in Nat
       PROVE  AfskTypeOK'
  BY <1>10 DEF Begins, mainvars, AfskTypeOK
<1>11. <<>> \in Seq(Bytes)
  BY EmptySeq
<1>12. OutFlag => air' \in Seq(Bytes) /\ aired' \in Seq(Seq(Bytes))
  BY <1>11, AppendProperties DEF OutFlag, AfskTypeOK
<1>13. CASE DacStops
  BY <1>10, <1>11, <1>13 DEF DacStops, Unkeys, AfskTypeOK
<1>14. CASE DacPreamble
  BY <1>10, <1>12, <1>14 DEF DacPreamble, AfskTypeOK
<1>15. CASE DacTrailer
  BY <1>10, <1>12, <1>15 DEF DacTrailer, Drained, AfskTypeOK
<1>16. CASE DacTakes
  <2>1. fifo # <<>> /\ Begins
    BY <1>16 DEF DacTakes
  <2>2. /\ Tail(fifo) \in Seq(Bytes) /\ Len(Tail(fifo)) <= Capacity
        /\ Len(fifo) > 1 => /\ fifo[2] \in Bytes
                            /\ Tail(Tail(fifo)) \in Seq(Bytes)
                            /\ Len(Tail(Tail(fifo))) <= Capacity
    BY <2>1, TailsTyped DEF AfskTypeOK
  <2>3. ASSUME NEW b \in Bytes PROVE Append(air, b) \in Seq(Bytes)
    BY AppendProperties DEF AfskTypeOK
  <2>4. "plain" \in Bytes
    BY DEF Bytes
  <2>5. Len(<<>>) <= Capacity
    OBVIOUS
  <2>6. PICK b \in ReadAs(Head(fifo)) :
          \/ /\ b = "FLAG" /\ fifo' = Tail(fifo) /\ OutFlag
             /\ UNCHANGED <<sending, running, preamble, trailer>>
          \/ /\ b = "RESET" /\ fifo' = Tail(fifo) /\ OutReset
             /\ UNCHANGED <<sending, running, preamble, trailer>>
          \/ /\ b = "plain" /\ fifo' = Tail(fifo) /\ OutByte(b)
             /\ UNCHANGED <<sending, running, preamble, trailer>>
          \/ /\ b = "ESC" /\ Len(fifo) > 1
             /\ fifo' = Tail(Tail(fifo)) /\ OutByte(fifo[2])
             /\ UNCHANGED <<sending, running, preamble, trailer>>
          \/ /\ b = "ESC" /\ Len(fifo) = 1
             /\ fifo' = <<>> /\ Unkeys
    BY <1>16 DEF DacTakes
  <2>7. air' \in Seq(Bytes) /\ aired' \in Seq(Seq(Bytes))
    BY <1>11, <1>12, <2>2, <2>3, <2>4, <2>6 DEF OutByte, OutReset, Unkeys, AfskTypeOK
  <2>8. fifo' \in Seq(Bytes) /\ Len(fifo') <= Capacity
    BY <1>11, <2>2, <2>5, <2>6
  <2>9. /\ sending' \in BOOLEAN /\ running' \in BOOLEAN
        /\ preamble' \in Nat /\ trailer' \in Nat
    BY <2>6 DEF Unkeys, AfskTypeOK
  <2>10. QED
    BY <1>10, <2>1, <2>7, <2>8, <2>9
<1>17. CASE UNCHANGED afskVars
  BY <1>17 DEF afskVars, mainvars, AfskTypeOK
<1>18. QED
  BY <1>1, <1>4, <1>5, <1>6, <1>7, <1>8, <1>9, <1>13, <1>14, <1>15, <1>16, <1>17
     DEF AfskNext, AfskMain, Put, Dac

(* Every field of the transmitter keeps its type, the FIFO never holds more *)
(* than it can, and the main loop never leaves the frame it puts, for every *)
(* capacity and all frames.                                                 *)
THEOREM AfskTypeCorrect == AfskSpec => []AfskTypeOK
<1>1. QED
  BY AfskTypeInit, AfskTypeStep, PTL DEF AfskSpec

----------------------------------------------------------------------------
(* The interrupt unkeys only when it finds the FIFO empty; whatever the     *)
(* main loop puts after that, it starts the transmitter for.                *)
OnlyUnkeyedEmpty == ~sending /\ ~Putting /\ mpc # "start" => fifo = <<>>

LEMMA OnlyUnkeyedEmptyStep == OnlyUnkeyedEmpty /\ [AfskNext]_afskVars => OnlyUnkeyedEmpty'
<1> SUFFICES ASSUME OnlyUnkeyedEmpty, [AfskNext]_afskVars PROVE OnlyUnkeyedEmpty'
  OBVIOUS
<1> USE DEF OnlyUnkeyedEmpty, Putting
<1>1. ASSUME NEW f \in Frames, SendFrame(f) PROVE OnlyUnkeyedEmpty'
  BY <1>1 DEF SendFrame
<1>2. CASE Put
  BY <1>2 DEF Put, PutFlag, PutEscape, PutByte
<1>3. CASE TxStart
  BY <1>3 DEF TxStart
<1>4. CASE Key
  BY <1>4 DEF Key
<1>5. CASE StoreTrailer
  BY <1>5 DEF StoreTrailer
<1>6. CASE DacStops
  BY <1>6 DEF DacStops, Begins, Drained, mainvars
<1>7. CASE DacPreamble
  BY <1>7 DEF DacPreamble, Begins, mainvars
<1>8. CASE DacTrailer
  BY <1>8 DEF DacTrailer, Begins, mainvars
<1>9. CASE DacTakes
  <2>1. fifo # <<>> /\ UNCHANGED mpc /\ (fifo' = <<>> \/ UNCHANGED sending)
    BY <1>9 DEF DacTakes, Begins, mainvars, Unkeys
  <2>2. QED
    BY <2>1
<1>10. CASE UNCHANGED afskVars
  BY <1>10 DEF afskVars, mainvars
<1>11. QED
  BY <1>1, <1>2, <1>3, <1>4, <1>5, <1>6, <1>7, <1>8, <1>9, <1>10
     DEF AfskNext, AfskMain, Dac

(* No frame is left in the FIFO of an unkeyed transmitter, for every        *)
(* capacity and all frames, wherever the interrupt falls into afsk_txStart. *)
THEOREM NoneLeftBehind == AfskSpec => []NothingLeftBehind
<1>1. AfskInit => OnlyUnkeyedEmpty
  BY DEF AfskInit, OnlyUnkeyedEmpty
<1>2. OnlyUnkeyedEmpty => NothingLeftBehind
  BY DEF OnlyUnkeyedEmpty, NothingLeftBehind, Putting
<1>3. QED
  BY <1>1, <1>2, OnlyUnkeyedEmptyStep, PTL DEF AfskSpec
----------------------------------------------------------------------------
(* A place in the stream of bytes that the frames are put as: byte j of     *)
(* frame k, or (e) the escape before it; the flags are byte 0 and the byte  *)
(* behind the last.                                                         *)
Place == [k : Nat, j : Nat, e : BOOLEAN]

PlaceOf(k, j) ==
  [k |-> k, j |-> j, e |-> j \in 1 .. Len(handed[k]) /\ handed[k][j] = "special"]

IsFlag(p) == p.j = 0 \/ p.j > Len(handed[p.k])

ByteAt(p) == IF IsFlag(p) THEN "FLAG" ELSE IF p.e THEN "ESC" ELSE handed[p.k][p.j]

After(p) ==
  IF p.e THEN [k |-> p.k, j |-> p.j, e |-> FALSE]
  ELSE IF p.j > Len(handed[p.k]) THEN [k |-> p.k + 1, j |-> 0, e |-> FALSE]
  ELSE PlaceOf(p.k, p.j + 1)

(* Where the main loop puts next. *)
Writer ==
  IF ~Putting THEN [k |-> Len(handed) + 1, j |-> 0, e |-> FALSE]
  ELSE IF mpc = "escape" THEN [k |-> Len(handed), j |-> nth, e |-> FALSE]
  ELSE PlaceOf(Len(handed), nth)

(* The bytes of the FIFO lie one behind the other in the stream, up to      *)
(* where the main loop puts next.                                           *)
Path(at) ==
  /\ at[Len(fifo) + 1] = Writer
  /\ \A i \in 1 .. Len(fifo) :
       /\ at[i].k \in 1 .. Len(handed)
       /\ at[i + 1] = After(at[i]) /\ fifo[i] = ByteAt(at[i])

(* The interrupt is at place p: what is on the air is what lies before it   *)
(* in its frame.  Of the frame that is being put, it has left in the FIFO   *)
(* what was put since its last byte.                                        *)
ReadTo(p) ==
  /\ p.k = Len(aired) + 1
  /\ p.j = 0 => air = <<>> /\ ~p.e
  /\ p.j > 0 =>
       /\ p.k <= Len(handed) /\ p.j <= Len(handed[p.k]) + 1 /\ p = PlaceOf(p.k, p.j)
       /\ air = SubSeq(handed[p.k], 1, p.j - 1)
       /\ Putting /\ p.k = Len(handed) => ahead <= Len(fifo)

AiredInOrder == \A i \in 1 .. Len(aired) : i <= Len(handed) /\ aired[i] = handed[i]

Stream ==
  ~dropped =>
    /\ AiredInOrder
    /\ \E at \in [1 .. Len(fifo) + 1 -> Place] : Path(at) /\ ReadTo(at[1])

(* An unkeyed transmitter has nothing on the air, and no frame is on it     *)
(* before the preamble is over.                                             *)
Keying ==
  /\ running => sending
  /\ mpc = "key" => ~running /\ sending
  /\ ~running \/ preamble > 0 => air = <<>>

FrameInv == AfskTypeOK /\ OnlyUnkeyedEmpty /\ Keying /\ Stream

LEMMA KeyingStep == AfskTypeOK /\ Keying /\ [AfskNext]_afskVars => Keying'
<1> SUFFICES ASSUME AfskTypeOK, Keying, [AfskNext]_afskVars PROVE Keying'
  OBVIOUS
<1> USE DEF Keying
<1>1. ASSUME NEW f \in Frames, SendFrame(f) PROVE Keying'
  BY <1>1 DEF SendFrame
<1>2. CASE Put
  BY <1>2 DEF Put, PutFlag, PutEscape, PutByte, Putc
<1>3. CASE TxStart
  BY <1>3 DEF TxStart
<1>4. CASE Key
  BY <1>4 DEF Key
<1>5. CASE StoreTrailer
  BY <1>5 DEF StoreTrailer
<1>6. CASE DacStops
  BY <1>6 DEF DacStops, Begins, Unkeys, mainvars
<1>7. CASE DacPreamble
  BY <1>7 DEF DacPreamble, Begins, OutFlag, mainvars
<1>8. CASE DacTrailer
  BY <1>8 DEF DacTrailer, Begins, OutFlag, mainvars
<1>9. CASE DacTakes
  <2>1. /\ running /\ preamble = 0 /\ mpc' = mpc /\ preamble' = preamble
        /\ (sending' = sending /\ running' = running) \/ (~running' /\ air' = <<>>)
    BY <1>9 DEF DacTakes, Begins, Unkeys, mainvars
  <2>2. ~(preamble' > 0)
    BY <2>1
  <2>3. ((sending' <=> sending) /\ (running' <=> running)) \/ (~running' /\ air' = <<>>)
    BY <2>1
  <2>4. QED
    BY <2>1, <2>2, <2>3, Zenon
<1>10. CASE UNCHANGED afskVars
  BY <1>10 DEF afskVars, mainvars
<1>11. QED
  BY <1>1, <1>2, <1>3, <1>4, <1>5, <1>6, <1>7, <1>8, <1>9, <1>10
     DEF AfskNext, AfskMain, Dac

LEMMA LensTyped ==
  ASSUME AfskTypeOK
  PROVE  Len(fifo) \in Nat /\ Len(handed) \in Nat /\ Len(air) \in Nat /\ Len(aired) \in Nat
BY LenProperties DEF AfskTypeOK

(* The writer's place and the byte it puts. *)
LEMMA WriterTyped ==
  ASSUME AfskTypeOK
  PROVE  /\ Writer \in Place
         /\ Putting => Writer.k = Len(handed) /\ Len(handed) > 0 /\ Writer.j = nth
         /\ ~Putting => Writer.k = Len(handed) + 1 /\ Writer.j = 0 /\ ~Writer.e
<1>1. Len(handed) \in Nat /\ nth \in Nat
  BY LensTyped DEF AfskTypeOK
<1>2. QED
  BY <1>1 DEF Writer, PlaceOf, Place, AfskTypeOK

LEMMA AfterTyped == \A p \in Place : After(p) \in Place
BY DEF After, PlaceOf, Place

LEMMA WriterByteTyped ==
  ASSUME AfskTypeOK, Putting
  PROVE  ByteAt(Writer) \in Bytes
<1>1. CASE IsFlag(Writer)
  BY <1>1 DEF ByteAt, Bytes
<1>2. CASE ~IsFlag(Writer)
  <2>1. Writer.k \in 1 .. Len(handed) /\ Writer.j \in Nat
    BY LensTyped, WriterTyped DEF Place
  <2>2. Len(handed[Writer.k]) \in Nat
    BY <2>1, FrameTyped DEF AfskTypeOK
  <2>3. Writer.j \in 1 .. Len(handed[Writer.k])
    BY <1>2, <2>1, <2>2 DEF IsFlag
  <2>4. handed[Writer.k][Writer.j] \in {"plain", "special"}
    BY <2>1, <2>3, FrameTyped DEF AfskTypeOK
  <2>5. QED
    BY <1>2, <2>4 DEF ByteAt, Bytes
<1>3. QED
  BY <1>1, <1>2

(* The frame changes nothing of the stream before it. *)
LEMMA SendFrameStream ==
  ASSUME AfskTypeOK, Stream, NEW f \in Frames, SendFrame(f)
  PROVE  Stream'
<1> SUFFICES ASSUME ~dropped
             PROVE  /\ AiredInOrder'
                    /\ \E at \in [1 .. Len(fifo') + 1 -> Place] : Path(at)' /\ ReadTo(at[1])'
  BY DEF Stream, SendFrame
<1>1. PICK at \in [1 .. Len(fifo) + 1 -> Place] : Path(at) /\ ReadTo(at[1])
  BY DEF Stream
<1>2. /\ Len(fifo) \in Nat /\ Len(handed) \in Nat /\ Len(aired) \in Nat
      /\ Len(handed') = Len(handed) + 1
      /\ \A i \in 1 .. Len(handed) : handed'[i] = handed[i]
  BY LensTyped, AppendProperties DEF AfskTypeOK, SendFrame
<1>3. AiredInOrder'
  BY <1>2 DEF Stream, AiredInOrder, SendFrame
<1>4. Writer' = Writer
  <2>1. ~Putting /\ Putting' /\ mpc' # "escape" /\ nth' = 0
    BY DEF SendFrame, Putting
  <2>2. Len(handed'[Len(handed')]) \in Nat
    <3>1. handed' \in Seq(Frames)
      BY AppendProperties DEF SendFrame, AfskTypeOK
    <3>2. QED
      BY <1>2, <3>1, FrameTyped
  <2>3. Writer' = [k |-> Len(handed'), j |-> 0, e |-> 0 \in 1 .. Len(handed'[Len(handed')])
                                                      /\ handed'[Len(handed')][0] = "special"]
    BY <2>1 DEF Writer, PlaceOf
  <2>4. ~(0 \in 1 .. Len(handed'[Len(handed')]))
    BY <2>2
  <2>5. Writer = [k |-> Len(handed) + 1, j |-> 0, e |-> FALSE]
    BY <2>1 DEF Writer
  <2>6. QED
    BY <1>2, <2>3, <2>4, <2>5
<1>5. \A p \in Place : p.k \in 1 .. Len(handed) => After(p)' = After(p) /\ ByteAt(p)' = ByteAt(p)
  BY <1>2 DEF After, ByteAt, IsFlag, PlaceOf, Place
<1>6. Path(at)'
  <2>1. \A i \in 1 .. Len(fifo) : at[i] \in Place
    BY <1>2
  <2>2. fifo' = fifo
    BY DEF SendFrame
  <2>3. QED
    BY <1>1, <1>2, <1>4, <1>5, <2>1, <2>2 DEF Path
<1>7. ReadTo(at[1])'
  <2>1. at[1] \in Place
    BY <1>2
  <2>2. UNCHANGED <<aired, air, fifo>>
    BY DEF SendFrame
  <2>3. QED
    BY <1>1, <1>2, <2>1, <2>2 DEF ReadTo, PlaceOf, Place
<1>8. QED
  BY <1>1, <1>3, <1>6, <1>7 DEF SendFrame

(* A byte that is put makes the path one longer. *)
LEMMA PutStream ==
  ASSUME AfskTypeOK, AfskTypeOK', Stream, Putting, Putc(ByteAt(Writer)),
         Writer' = After(Writer)
  PROVE  Stream'
<1> SUFFICES ASSUME ~dropped'
             PROVE  /\ AiredInOrder'
                    /\ \E at \in [1 .. Len(fifo') + 1 -> Place] : Path(at)' /\ ReadTo(at[1])'
  BY DEF Stream
<1>1. ~dropped /\ ~(Len(fifo) >= Capacity)
  BY Zenon DEF Putc
<1>2. /\ fifo' = Append(fifo, ByteAt(Writer)) /\ ahead' <= ahead + 1
      /\ UNCHANGED <<handed, air, aired>>
  BY <1>1, LensTyped, AfskConstants DEF Putc, AfskTypeOK
<1>3. PICK at \in [1 .. Len(fifo) + 1 -> Place] : Path(at) /\ ReadTo(at[1])
  BY <1>1 DEF Stream
<1>4. Len(fifo) \in Nat /\ Len(handed) \in Nat /\ ahead \in Nat /\ ahead' \in Nat
  BY LensTyped, AfskConstants DEF AfskTypeOK
<1>5. /\ Len(fifo') = Len(fifo) + 1 /\ fifo'[Len(fifo) + 1] = ByteAt(Writer)
      /\ \A i \in 1 .. Len(fifo) : fifo'[i] = fifo[i]
  <2>1. ByteAt(Writer) \in Bytes
    BY WriterByteTyped
  <2>2. fifo \in Seq(Bytes)
    BY DEF AfskTypeOK
  <2>3. QED
    BY <1>2, <2>1, <2>2, AppendProperties
<1>6. Writer \in Place /\ Writer' \in Place /\ Writer.k \in 1 .. Len(handed)
  <2>1. Writer \in Place /\ Writer.k \in 1 .. Len(handed)
    BY <1>4, WriterTyped
  <2>2. QED
    BY <2>1, AfterTyped
<1>7. PICK to \in [1 .. Len(fifo) + 2 -> Place] :
        to[Len(fifo) + 2] = Writer' /\ \A i \in 1 .. Len(fifo) + 1 : to[i] = at[i]
  <2> DEFINE f == [i \in 1 .. Len(fifo) + 2 |-> IF i <= Len(fifo) + 1 THEN at[i] ELSE Writer']
  <2>1. /\ f \in [1 .. Len(fifo) + 2 -> Place] /\ f[Len(fifo) + 2] = Writer'
        /\ \A i \in 1 .. Len(fifo) + 1 : f[i] = at[i]
    BY <1>4, <1>6
  <2> HIDE DEF f
  <2>2. QED
    BY <2>1
<1>8. \A p : After(p)' = After(p) /\ ByteAt(p)' = ByteAt(p)
  BY <1>2 DEF After, ByteAt, IsFlag, PlaceOf
<1>9. Path(to)'
  <2>1. to[Len(fifo) + 1] = Writer
    BY <1>3, <1>4, <1>7 DEF Path
  <2>2. ASSUME NEW i \in 1 .. Len(fifo) + 1
        PROVE  to[i].k \in 1 .. Len(handed) /\ to[i + 1] = After(to[i]) /\ fifo'[i] = ByteAt(to[i])
    <3>1. CASE i = Len(fifo) + 1
      BY <1>4, <1>5, <1>6, <1>7, <2>1, <3>1
    <3>2. CASE i \in 1 .. Len(fifo)
      <4>1. to[i] = at[i] /\ to[i + 1] = at[i + 1]
        BY <1>4, <1>7, <3>2
      <4>2. QED
        BY <1>3, <1>5, <3>2, <4>1 DEF Path
    <3>3. QED
      BY <1>4, <3>1, <3>2
  <2>3. to[Len(fifo') + 1] = Writer'
    BY <1>4, <1>5, <1>7
  <2>4. QED
    BY <1>2, <1>5, <1>8, <2>2, <2>3 DEF Path
<1>10. ReadTo(to[1])'
  <2>1. at[1] \in Place /\ to[1] = at[1] /\ Len(fifo') = Len(fifo) + 1
    BY <1>4, <1>5, <1>7
  <2>2. QED
    BY <1>2, <1>3, <1>4, <2>1 DEF ReadTo, PlaceOf, Place
<1>11. AiredInOrder'
  BY <1>1, <1>2 DEF Stream, AiredInOrder
<1>12. QED
  BY <1>4, <1>5, <1>7, <1>9, <1>10, <1>11

(* A step that changes neither the FIFO nor the places of the two sides.    *)
LEMMA SameStream ==
  ASSUME AfskTypeOK, Stream, UNCHANGED <<fifo, handed, dropped, air, aired, Writer>>,
         Putting' => Putting /\ (ahead' = ahead \/ ahead' = 0)
  PROVE  Stream'
<1> SUFFICES ASSUME ~dropped
             PROVE  /\ AiredInOrder'
                    /\ \E at \in [1 .. Len(fifo') + 1 -> Place] : Path(at)' /\ ReadTo(at[1])'
  BY DEF Stream
<1>1. PICK at \in [1 .. Len(fifo) + 1 -> Place] : Path(at) /\ ReadTo(at[1])
  BY DEF Stream
<1>2. UNCHANGED <<fifo, air, aired, handed, Writer>> /\ Len(fifo) \in Nat
  BY LensTyped
<1>3. AiredInOrder'
  BY <1>2 DEF Stream, AiredInOrder
<1>4. Path(at)'
  BY <1>1, <1>2 DEF Path, After, ByteAt, IsFlag, PlaceOf
<1>5. ReadTo(at[1])'
  BY <1>1, <1>2 DEF ReadTo, PlaceOf
<1>6. QED
  BY <1>1, <1>2, <1>3, <1>4, <1>5

(* When the interrupt finds the FIFO empty, it is at the end of a frame:    *)
(* the main loop is faster than the air.                                    *)
LEMMA EmptyBetweenFrames ==
  ASSUME AfskTypeOK, Stream, Begins, ~dropped, fifo = <<>>
  PROVE  air = <<>>
<1>1. PICK at \in [1 .. Len(fifo) + 1 -> Place] : Path(at) /\ ReadTo(at[1])
  BY DEF Stream
<1>2. Len(fifo) = 0 /\ (Putting => ahead > 0)
  BY AfskConstants DEF Begins, AfskTypeOK
<1>3. at[1] = Writer
  BY <1>1, <1>2 DEF Path
<1>4. CASE Putting
  BY <1>1, <1>2, <1>3, <1>4, WriterTyped, LensTyped DEF ReadTo, Place, AfskTypeOK
<1>5. CASE ~Putting
  BY <1>1, <1>3, <1>5, WriterTyped DEF ReadTo
<1>6. QED
  BY <1>4, <1>5

(* Taking m bytes is going m places on. *)
LEMMA TakeStream ==
  ASSUME AfskTypeOK, Begins, AiredInOrder', NEW m \in 1 .. 2, m <= Len(fifo),
         Len(fifo') = Len(fifo) - m,
         \A i \in 1 .. Len(fifo) - m : fifo'[i] = fifo[i + m],
         NEW at \in [1 .. Len(fifo) + 1 -> Place], Path(at),
         NEW q, q = at[m + 1], ReadTo(q)'
  PROVE  Stream'
<1>1. UNCHANGED <<mpc, nth, handed>> /\ Len(fifo) \in Nat /\ m \in Nat
  BY LensTyped DEF Begins, mainvars
<1>2. PICK to \in [1 .. Len(fifo) - m + 1 -> Place] :
        \A i \in 1 .. Len(fifo) - m + 1 : to[i] = at[i + m]
  <2> DEFINE f == [i \in 1 .. Len(fifo) - m + 1 |-> at[i + m]]
  <2>1. f \in [1 .. Len(fifo) - m + 1 -> Place]
        /\ \A i \in 1 .. Len(fifo) - m + 1 : f[i] = at[i + m]
    BY <1>1
  <2> HIDE DEF f
  <2>2. QED
    BY <2>1
<1>3. \A p : After(p)' = After(p) /\ ByteAt(p)' = ByteAt(p)
  BY <1>1 DEF After, ByteAt, IsFlag, PlaceOf
<1>4. Writer' = Writer
  BY <1>1 DEF Writer, Putting, PlaceOf
<1>5. Path(to)'
  <2>1. to[Len(fifo') + 1] = Writer'
    BY <1>1, <1>2, <1>4 DEF Path
  <2>2. ASSUME NEW i \in 1 .. Len(fifo')
        PROVE  to[i].k \in 1 .. Len(handed) /\ to[i + 1] = After(to[i]) /\ fifo'[i] = ByteAt(to[i])
    <3>1. i + m \in 1 .. Len(fifo) /\ (i + 1) + m = (i + m) + 1
          /\ i \in 1 .. Len(fifo) - m + 1 /\ i + 1 \in 1 .. Len(fifo) - m + 1
      BY <1>1
    <3>2. to[i] = at[i + m] /\ to[i + 1] = at[(i + m) + 1] /\ fifo'[i] = fifo[i + m]
      BY <1>1, <1>2, <3>1
    <3>3. QED
      BY <3>1, <3>2 DEF Path
  <2>3. QED
    BY <1>1, <1>3, <2>1, <2>2 DEF Path
<1>6. to \in [1 .. Len(fifo') + 1 -> Place] /\ to[1] = q
  BY <1>1, <1>2
<1>7. ReadTo(to[1])'
  BY <1>6
<1>8. QED
  BY <1>5, <1>6, <1>7 DEF Stream

LEMMA TakeOne ==
  ASSUME AfskTypeOK, Begins, AiredInOrder', fifo # <<>>, fifo' = Tail(fifo),
         NEW at \in [1 .. Len(fifo) + 1 -> Place], Path(at),
         NEW q, q = at[2], ReadTo(q)'
  PROVE  Stream'
<1> DEFINE m == 1
<1>1. /\ m \in 1 .. 2 /\ m <= Len(fifo) /\ Len(fifo') = Len(fifo) - m /\ q = at[m + 1]
      /\ \A i \in 1 .. Len(fifo) - m : fifo'[i] = fifo[i + m]
  BY TailsTyped
<1> HIDE DEF m
<1>2. QED
  BY <1>1, TakeStream

LEMMA TakeTwo ==
  ASSUME AfskTypeOK, Begins, AiredInOrder', Len(fifo) > 1, fifo' = Tail(Tail(fifo)),
         NEW at \in [1 .. Len(fifo) + 1 -> Place], Path(at),
         NEW q, q = at[3], ReadTo(q)'
  PROVE  Stream'
<1> DEFINE m == 2
<1>1. fifo # <<>>
  OBVIOUS
<1>2. /\ m \in 1 .. 2 /\ m <= Len(fifo) /\ Len(fifo') = Len(fifo) - m /\ q = at[m + 1]
      /\ \A i \in 1 .. Len(fifo) - m : fifo'[i] = fifo[i + m]
  BY <1>1, TailsTyped
<1> HIDE DEF m
<1>3. QED
  BY <1>2, TakeStream

LEMMA PrefixGrows ==
  ASSUME NEW S, NEW s \in Seq(S), NEW j \in 1 .. Len(s)
  PROVE  SubSeq(s, 1, j + 1 - 1) = Append(SubSeq(s, 1, j - 1), s[j])
<1>1. Len(s) \in Nat /\ j \in Nat /\ j + 1 - 1 = j /\ 1 \in 1 .. Len(s)
  BY LenProperties
<1>2. SubSeq(s, 1, j) = SubSeq(s, 1, j - 1) \o <<s[j]>>
  BY <1>1, SubSeqRecursiveSecond
<1>3. \A i \in 1 .. j : s[i] \in S
  BY <1>1, ElementOfSeq
<1>4. SubSeq(s, 1, j - 1) \in Seq(S) /\ s[j] \in S
  BY <1>1, <1>3, SubSeqProperties
<1>5. QED
  BY <1>1, <1>2, <1>4, AppendIsConcat

(* The interrupt takes the bytes of the frames as they were put. *)
LEMMA DacTakesStream ==
  ASSUME AfskTypeOK, Stream, DacTakes
  PROVE  Stream'
<1> SUFFICES ASSUME ~dropped PROVE Stream'
  BY DEF Stream, DacTakes, Begins, mainvars
<1>1. fifo # <<>> /\ Begins
  BY DEF DacTakes
<1>2. /\ Len(fifo) \in Nat \ {0} /\ Head(fifo) = fifo[1]
      /\ Len(Tail(fifo)) = Len(fifo) - 1
      /\ \A i \in 1 .. Len(fifo) - 1 : Tail(fifo)[i] = fifo[i + 1]
      /\ Len(fifo) > 1 =>
           /\ Len(Tail(Tail(fifo))) = Len(fifo) - 2
           /\ \A i \in 1 .. Len(fifo) - 2 : Tail(Tail(fifo))[i] = fifo[i + 2]
  BY <1>1, TailsTyped
<1>3. PICK b \in ReadAs(fifo[1]) :
        \/ b = "FLAG" /\ fifo' = Tail(fifo) /\ OutFlag
        \/ b = "RESET" /\ fifo' = Tail(fifo) /\ OutReset
        \/ b = "plain" /\ fifo' = Tail(fifo) /\ OutByte(b)
        \/ b = "ESC" /\ Len(fifo) > 1 /\ fifo' = Tail(Tail(fifo)) /\ OutByte(fifo[2])
        \/ b = "ESC" /\ Len(fifo) = 1
  BY <1>2 DEF DacTakes
<1>4. PICK at \in [1 .. Len(fifo) + 1 -> Place] : Path(at) /\ ReadTo(at[1])
  BY DEF Stream
<1> DEFINE p == at[1]
<1>5. /\ p \in Place /\ p.k \in 1 .. Len(handed) /\ p.k = Len(aired) + 1
      /\ at[2] = After(p) /\ fifo[1] = ByteAt(p) /\ ReadTo(p)
  BY <1>2, <1>4 DEF Path, ReadTo
<1>6. /\ handed[p.k] \in Seq({"plain", "special"})
      /\ Len(handed[p.k]) \in Nat /\ Len(handed[p.k]) > 0
      /\ \A j \in 1 .. Len(handed[p.k]) : handed[p.k][j] \in {"plain", "special"}
  BY <1>5, FrameTyped DEF AfskTypeOK
<1>7. /\ UNCHANGED <<mpc, nth, handed>> /\ ahead' = 0
      /\ Len(handed) \in Nat /\ Len(aired) \in Nat
  BY <1>1, <1>2, <1>3, LensTyped DEF Begins, mainvars
<1>8. AiredInOrder
  BY DEF Stream
<1> HIDE DEF p
<1>9. ASSUME NEW j \in Nat, 0 < j, j <= Len(handed[p.k]) + 1, at[2] = PlaceOf(p.k, j),
             air' = SubSeq(handed[p.k], 1, j - 1), UNCHANGED aired, fifo' = Tail(fifo)
      PROVE  Stream'
  <2>1. ReadTo(at[2])'
    BY <1>2, <1>5, <1>6, <1>7, <1>9 DEF ReadTo, PlaceOf, Place
  <2>2. AiredInOrder'
    BY <1>7, <1>8, <1>9 DEF AiredInOrder
  <2>3. QED
    BY <1>1, <1>4, <1>9, <2>1, <2>2, TakeOne
<1>10. CASE IsFlag(p) /\ p.j = 0
  <2>1. b = "FLAG" /\ fifo' = Tail(fifo) /\ OutFlag
    BY <1>3, <1>5, <1>10 DEF ByteAt, ReadAs
  <2>2. air = <<>> /\ ~p.e
    BY <1>5, <1>10 DEF ReadTo
  <2>3. air' = <<>> /\ UNCHANGED aired
    BY <2>1, <2>2 DEF OutFlag
  <2>4. at[2] = PlaceOf(p.k, 1)
    BY <1>5, <1>6, <1>10, <2>2 DEF After
  <2>5. SubSeq(handed[p.k], 1, 1 - 1) = <<>>
    BY SubSeqEmpty
  <2>6. QED
    BY <1>6, <1>9, <2>1, <2>3, <2>4, <2>5
<1>11. CASE IsFlag(p) /\ p.j # 0
  <2>1. b = "FLAG" /\ fifo' = Tail(fifo) /\ OutFlag
    BY <1>3, <1>5, <1>11 DEF ByteAt, ReadAs
  <2>2. p.j = Len(handed[p.k]) + 1 /\ p = PlaceOf(p.k, p.j)
        /\ air = SubSeq(handed[p.k], 1, p.j - 1)
    BY <1>5, <1>6, <1>11 DEF IsFlag, ReadTo, Place
  <2>3. air = handed[p.k]
    BY <1>6, <2>2, SubSeqFull
  <2>4. air # <<>>
    BY <1>6, <2>3, EmptySeq
  <2>5. aired' = Append(aired, air) /\ air' = <<>>
    BY <2>1, <2>4 DEF OutFlag
  <2>6. Len(aired') = Len(aired) + 1 /\ aired'[Len(aired) + 1] = handed[p.k]
        /\ \A i \in 1 .. Len(aired) : aired'[i] = aired[i]
    BY <2>3, <2>5, AppendProperties DEF AfskTypeOK
  <2>7. ~p.e
    <3>1. p.e = (p.j \in 1 .. Len(handed[p.k]) /\ handed[p.k][p.j] = "special")
      BY <2>2 DEF PlaceOf
    <3>2. ~(p.j \in 1 .. Len(handed[p.k]))
      BY <1>6, <2>2
    <3>3. QED
      BY <3>1, <3>2
  <2>8. at[2] = [k |-> p.k + 1, j |-> 0, e |-> FALSE]
    BY <1>5, <1>6, <2>2, <2>7 DEF After
  <2>9. ReadTo(at[2])'
    BY <1>5, <1>7, <2>5, <2>6, <2>8 DEF ReadTo
  <2>10. AiredInOrder'
    BY <1>5, <1>7, <1>8, <2>6 DEF AiredInOrder
  <2>11. QED
    BY <1>1, <1>4, <2>1, <2>9, <2>10, TakeOne
<1>12. ASSUME ~IsFlag(p)
       PROVE  /\ p.j \in 1 .. Len(handed[p.k]) /\ p = PlaceOf(p.k, p.j)
              /\ p.e <=> handed[p.k][p.j] = "special"
              /\ Append(air, handed[p.k][p.j]) = SubSeq(handed[p.k], 1, p.j + 1 - 1)
  <2>1. /\ p.j \in 1 .. Len(handed[p.k]) /\ p = PlaceOf(p.k, p.j)
        /\ air = SubSeq(handed[p.k], 1, p.j - 1)
    BY <1>5, <1>6, <1>12 DEF IsFlag, ReadTo, Place
  <2>2. p.e = (p.j \in 1 .. Len(handed[p.k]) /\ handed[p.k][p.j] = "special")
    BY <2>1 DEF PlaceOf
  <2>3. p.e <=> handed[p.k][p.j] = "special"
    BY <2>1, <2>2
  <2>4. Append(air, handed[p.k][p.j]) = SubSeq(handed[p.k], 1, p.j + 1 - 1)
    BY <1>6, <2>1, PrefixGrows
  <2>5. QED
    BY <2>1, <2>3, <2>4
<1>13. CASE ~IsFlag(p) /\ ~p.e
  <2>1. handed[p.k][p.j] = "plain" /\ fifo[1] = "plain"
    BY <1>5, <1>6, <1>12, <1>13 DEF ByteAt
  <2>2. fifo' = Tail(fifo) /\ OutByte("plain")
    BY <1>3, <2>1 DEF ReadAs
  <2>3. at[2] = PlaceOf(p.k, p.j + 1)
    BY <1>5, <1>6, <1>12, <1>13 DEF After
  <2>4. air' = SubSeq(handed[p.k], 1, p.j + 1 - 1) /\ UNCHANGED aired
    BY <1>12, <1>13, <2>1, <2>2 DEF OutByte
  <2>5. PICK j \in Nat : j = p.j + 1 /\ 0 < j /\ j <= Len(handed[p.k]) + 1
    BY <1>6, <1>12, <1>13
  <2>6. at[2] = PlaceOf(p.k, j) /\ air' = SubSeq(handed[p.k], 1, j - 1)
    <3>1. p.j \in Nat
      BY <1>6, <1>12, <1>13
    <3>2. j - 1 = p.j + 1 - 1
      BY <2>5, <3>1
    <3>3. QED
      BY <2>3, <2>4, <2>5, <3>2
  <2>7. QED
    BY <1>9, <2>2, <2>4, <2>5, <2>6
<1>14. CASE ~IsFlag(p) /\ p.e
  <2>1. fifo[1] = "ESC" /\ b = "ESC"
    BY <1>3, <1>5, <1>14 DEF ByteAt, ReadAs
  <2>2. at[2] = [k |-> p.k, j |-> p.j, e |-> FALSE]
    BY <1>5, <1>14 DEF After
  <2>3. Len(fifo) > 1
    <3>1. SUFFICES ASSUME Len(fifo) = 1 PROVE FALSE
      BY <1>2
    <3>2. at[2] = Writer
      BY <1>4, <3>1 DEF Path
    <3>3. Putting /\ p.k = Len(handed)
      BY <1>6, <1>12, <1>14, <2>2, <3>2, WriterTyped
    <3>4. ahead <= 1
      BY <1>5, <1>6, <1>12, <1>14, <3>1, <3>3 DEF ReadTo
    <3>5. ahead > 1
      BY <1>1, <3>3, AfskConstants DEF Begins, AfskTypeOK
    <3>6. QED
      BY <3>4, <3>5, AfskConstants DEF AfskTypeOK
  <2>4. fifo' = Tail(Tail(fifo)) /\ OutByte(fifo[2])
    BY <1>3, <2>1, <2>3
  <2>5. at[3] = After(at[2]) /\ fifo[2] = ByteAt(at[2])
    BY <1>2, <1>4, <2>3 DEF Path
  <2>6. fifo[2] = handed[p.k][p.j]
    BY <1>14, <2>2, <2>5 DEF ByteAt, IsFlag
  <2>7. at[3] = PlaceOf(p.k, p.j + 1)
    BY <1>6, <1>12, <1>14, <2>2, <2>5 DEF After
  <2>8. air' = SubSeq(handed[p.k], 1, p.j + 1 - 1) /\ UNCHANGED aired
    BY <1>12, <1>14, <2>4, <2>6 DEF OutByte
  <2>9. ReadTo(at[3])'
    BY <1>2, <1>5, <1>6, <1>7, <1>12, <1>14, <2>3, <2>4, <2>7, <2>8 DEF ReadTo, PlaceOf, Place
  <2>10. AiredInOrder'
    BY <1>7, <1>8, <2>8 DEF AiredInOrder
  <2>11. QED
    BY <1>1, <1>4, <2>3, <2>4, <2>9, <2>10, TakeTwo
<1>15. QED
  BY <1>10, <1>11, <1>13, <1>14

LEMMA StreamStep ==
  ASSUME AfskTypeOK, AfskTypeOK', Keying, Stream, [AfskNext]_afskVars
  PROVE  Stream'
<1>1. ASSUME NEW f \in Frames, SendFrame(f) PROVE Stream'
  BY <1>1, SendFrameStream
<1>2. ASSUME Putting, Len(handed) \in Nat \ {0}
      PROVE  /\ DOMAIN Frame = 1 .. Len(Frame) /\ Len(Frame) \in Nat \ {0}
             /\ Frame = handed[Len(handed)]
             /\ \A j \in 1 .. Len(Frame) : Frame[j] \in {"plain", "special"}
  BY <1>2, FrameTyped DEF AfskTypeOK, Frame
<1>3. Putting => Len(handed) \in Nat \ {0} /\ nth \in Nat /\ nth <= Len(Frame) + 1
  BY LensTyped DEF AfskTypeOK
<1>4. CASE PutFlag
  <2>1. Putting /\ Putc("FLAG")
    BY <1>4 DEF PutFlag, Putting
  <2>2. Writer = PlaceOf(Len(handed), nth) /\ ~(nth \in 1 .. Len(Frame))
    BY <1>2, <1>3, <1>4, <2>1 DEF PutFlag, Writer
  <2>3. ~Writer.e /\ Writer.k = Len(handed) /\ Writer.j = nth
    BY <1>2, <1>3, <2>1, <2>2 DEF PlaceOf
  <2>4. "FLAG" = ByteAt(Writer)
    BY <1>2, <1>3, <2>1, <2>2, <2>3 DEF ByteAt, IsFlag
  <2>5. Writer' = After(Writer)
    <3>1. CASE nth = 0
      BY <1>2, <1>3, <1>4, <2>1, <2>3, <3>1 DEF PutFlag, Putc, Writer, After, PlaceOf, Putting
    <3>2. CASE nth # 0
      <4>1. Writer' = [k |-> Len(handed) + 1, j |-> 0, e |-> FALSE]
        BY <1>4, <3>2 DEF PutFlag, Putc, Writer, Putting
      <4>2. Writer.j > Len(handed[Writer.k])
        BY <1>2, <1>3, <2>1, <2>2, <2>3, <3>2
      <4>3. QED
        BY <2>3, <4>1, <4>2 DEF After
    <3>3. QED
      BY <3>1, <3>2
  <2>6. QED
    BY <2>1, <2>4, <2>5, PutStream
<1>5. CASE PutEscape
  <2>1. /\ Putting /\ Putc("ESC") /\ mpc = "put" /\ mpc' = "escape" /\ nth' = nth /\ handed' = handed
        /\ nth \in 1 .. Len(Frame) /\ Frame[nth] = "special"
    BY <1>2, <1>3, <1>5 DEF PutEscape, Putting, NeedsEscape, Putc
  <2>2. Writer = [k |-> Len(handed), j |-> nth, e |-> TRUE]
    BY <1>2, <1>3, <2>1 DEF Writer, PlaceOf
  <2>3. "ESC" = ByteAt(Writer)
    BY <1>2, <1>3, <2>1, <2>2 DEF ByteAt, IsFlag
  <2>4. Writer' = [k |-> Len(handed), j |-> nth, e |-> FALSE]
    BY <2>1 DEF Writer, Putting
  <2>5. Writer' = After(Writer)
    BY <2>2, <2>4 DEF After
  <2>6. QED
    BY <2>1, <2>3, <2>5, PutStream
<1>6. CASE PutByte
  <2> nth \in 1 .. Len(Frame)
    <3>1. Putting
      BY <1>6 DEF PutByte, Putting
    <3>2. mpc = "escape" => nth \in 1 .. Len(Frame)
      BY DEF AfskTypeOK
    <3>3. QED
      BY <1>2, <1>3, <1>6, <3>1, <3>2 DEF PutByte
  <2>1. /\ Putting /\ Putc(Frame[nth]) /\ mpc' = "put" /\ nth' = nth + 1 /\ handed' = handed
        /\ nth \in 1 .. Len(Frame)
        /\ mpc = "escape" \/ (mpc = "put" /\ Frame[nth] # "special")
    <3>1. /\ Putc(Frame[nth]) /\ mpc' = "put" /\ nth' = nth + 1
          /\ mpc = "escape" \/ (mpc = "put" /\ ~NeedsEscape(Frame[nth]))
      BY <1>6 DEF PutByte
    <3>2. handed' = handed
      BY <3>1 DEF Putc
    <3>3. QED
      BY <3>1, <3>2 DEF NeedsEscape, Putting
  <2>2. Writer = [k |-> Len(handed), j |-> nth, e |-> FALSE]
    BY <1>2, <1>3, <2>1 DEF Writer, PlaceOf
  <2>3. Frame[nth] = ByteAt(Writer)
    BY <1>2, <1>3, <2>1, <2>2 DEF ByteAt, IsFlag
  <2>4. Writer' = PlaceOf(Len(handed), nth + 1)
    BY <2>1 DEF Writer, PlaceOf, Putting
  <2>5. ~(Writer.j > Len(handed[Writer.k])) /\ ~Writer.e /\ Writer.k = Len(handed) /\ Writer.j = nth
    BY <1>2, <1>3, <2>1, <2>2
  <2>6. Writer' = After(Writer)
    BY <2>4, <2>5 DEF After
  <2>7. QED
    BY <2>1, <2>3, <2>6, PutStream
<1>7. ASSUME ~Putting, ~Putting', UNCHANGED <<fifo, handed, dropped, air, aired>>
      PROVE  Stream'
  BY <1>7, SameStream DEF Writer
<1>8. CASE TxStart \/ Key \/ StoreTrailer
  BY <1>7, <1>8 DEF TxStart, Key, StoreTrailer, Putting
<1>9. ASSUME Begins, UNCHANGED fifo, air = <<>>, OutFlag \/ (air' = <<>> /\ UNCHANGED aired)
      PROVE  Stream'
  <2>1. UNCHANGED <<mpc, nth, handed, dropped, air, aired>> /\ ahead' = 0
    BY <1>9 DEF OutFlag, Begins, mainvars
  <2>2. UNCHANGED <<Writer, Putting>>
    BY <2>1 DEF Writer, Putting, PlaceOf
  <2>3. QED
    BY <1>9, <2>1, <2>2, SameStream
<1>10. ASSUME dropped, UNCHANGED dropped PROVE Stream'
  BY <1>10 DEF Stream
<1>11. Begins => UNCHANGED dropped
  BY DEF Begins, mainvars
<1>12. CASE DacStops
  BY <1>9, <1>10, <1>11, <1>12, EmptyBetweenFrames DEF DacStops, Drained, Unkeys
<1>13. CASE DacPreamble
  BY <1>9, <1>13 DEF DacPreamble, Keying
<1>14. CASE DacTrailer
  BY <1>9, <1>10, <1>11, <1>14, EmptyBetweenFrames DEF DacTrailer
<1>15. CASE DacTakes
  BY <1>15, DacTakesStream
<1>16. CASE UNCHANGED afskVars
  <2>1. UNCHANGED <<mpc, nth, handed, dropped, air, aired, fifo, ahead>>
    BY <1>16 DEF afskVars, mainvars
  <2>2. UNCHANGED <<Writer, Putting>>
    BY <2>1 DEF Writer, Putting, PlaceOf
  <2>3. QED
    BY <2>1, <2>2, SameStream
<1>17. QED
  BY <1>1, <1>4, <1>5, <1>6, <1>8, <1>12, <1>13, <1>14, <1>15, <1>16
     DEF AfskNext, AfskMain, Put, Dac

(* The frames are on the air whole and in order, and none is missing when   *)
(* the transmitter is off again, for all frames, every capacity of the FIFO *)
(* and every length of preamble and trailer, whenever the interrupt takes   *)
(* a byte and however often.                                                *)
THEOREM FramesReachAir == AfskSpec => []FramesOnAir
<1>1. AfskInit => FrameInv
  <2> SUFFICES ASSUME AfskInit PROVE FrameInv
    OBVIOUS
  <2>1. AfskTypeOK /\ OnlyUnkeyedEmpty /\ Keying
    BY AfskTypeInit DEF AfskInit, OnlyUnkeyedEmpty, Keying
  <2>2. Len(fifo) = 0 /\ Len(aired) = 0 /\ Len(handed) = 0
    BY DEF AfskInit
  <2>3. Writer = [k |-> 1, j |-> 0, e |-> FALSE]
    BY <2>2 DEF AfskInit, Writer, Putting
  <2> DEFINE at == [i \in 1 .. 1 |-> [k |-> 1, j |-> 0, e |-> FALSE]]
  <2>4. at \in [1 .. 1 -> Place] /\ at[1] = [k |-> 1, j |-> 0, e |-> FALSE]
    BY DEF Place
  <2> HIDE DEF at
  <2>5. Path(at) /\ ReadTo(at[1])
    BY <2>2, <2>3, <2>4 DEF Path, ReadTo, AfskInit
  <2>6. AiredInOrder
    BY <2>2 DEF AiredInOrder
  <2>7. at \in [1 .. Len(fifo) + 1 -> Place]
    BY <2>2, <2>4
  <2>8. QED
    BY <2>1, <2>5, <2>6, <2>7 DEF FrameInv, Stream
<1>2. FrameInv /\ [AfskNext]_afskVars => FrameInv'
  BY AfskTypeStep, OnlyUnkeyedEmptyStep, KeyingStep, StreamStep DEF FrameInv
<1>3. FrameInv => FramesOnAir
  <2> SUFFICES ASSUME FrameInv, ~dropped
               PROVE  /\ IsPrefix(aired, handed)
                      /\ mpc = "idle" /\ ~sending => aired = handed
    BY DEF FramesOnAir
  <2>1. AfskTypeOK /\ AiredInOrder
    BY DEF FrameInv, Stream
  <2>2. PICK at \in [1 .. Len(fifo) + 1 -> Place] : Path(at) /\ ReadTo(at[1])
    BY DEF FrameInv, Stream
  <2>3. Len(fifo) \in Nat /\ Len(handed) \in Nat /\ Len(aired) \in Nat
    BY <2>1, LensTyped
  <2>4. Len(aired) <= Len(handed)
    BY <2>1, <2>3 DEF AiredInOrder
  <2>5. /\ aired \in Seq(Seq(Bytes)) /\ handed \in Seq(Seq({"plain", "special"}))
        /\ \A i \in 1 .. Len(aired) : aired[i] = handed[i]
    <3>1. \A i \in 1 .. Len(handed) : handed[i] \in Seq({"plain", "special"})
      BY <2>1, FrameTyped DEF AfskTypeOK
    <3>2. handed \in [1 .. Len(handed) -> Seq({"plain", "special"})]
      BY <2>1, <3>1, LenProperties DEF AfskTypeOK
    <3>3. handed \in Seq(Seq({"plain", "special"}))
      BY <2>3, <3>2, SeqDef
    <3>4. aired \in Seq(Seq(Bytes))
      BY <2>1 DEF AfskTypeOK
    <3>5. QED
      BY <2>1, <3>3, <3>4 DEF AiredInOrder
  <2>6. SubSeq(aired, 1, Len(aired)) = SubSeq(handed, 1, Len(aired))
    <3>1. /\ SubSeq(aired, 1, Len(aired)) = aired
          /\ SubSeq(handed, 1, Len(aired)) \in Seq(Seq({"plain", "special"}))
          /\ Len(SubSeq(handed, 1, Len(aired))) = Len(aired)
          /\ \A i \in 1 .. Len(aired) : SubSeq(handed, 1, Len(aired))[i] = handed[i]
      <4>1. \A i \in 1 .. Len(aired) : handed[i] \in Seq({"plain", "special"})
        BY <2>3, <2>4, <2>5, ElementOfSeq
      <4>2. SubSeq(aired, 1, Len(aired)) = aired
        BY <2>5, SubSeqFull
      <4>3. 1 \in Int /\ Len(aired) \in Int
        BY <2>3
      <4>4. /\ SubSeq(handed, 1, Len(aired)) \in Seq(Seq({"plain", "special"}))
            /\ Len(SubSeq(handed, 1, Len(aired))) = IF 1 <= Len(aired) THEN Len(aired) - 1 + 1 ELSE 0
            /\ \A i \in 1 .. Len(aired) - 1 + 1 : SubSeq(handed, 1, Len(aired))[i] = handed[1 + i - 1]
        BY <4>1, <4>3, SubSeqProperties
      <4>5. QED
        BY <2>3, <4>2, <4>4
    <3>2. QED
      BY <2>5, <3>1, SeqEqual
  <2>7. ASSUME mpc = "idle", ~sending PROVE aired = handed
    <3>1. fifo = <<>> /\ ~Putting
      BY <2>7 DEF FrameInv, OnlyUnkeyedEmpty, Putting
    <3>2. Len(fifo) = 0
      BY <3>1
    <3>3. at[1] = Writer
      BY <2>2, <3>2 DEF Path
    <3>4. Len(aired) = Len(handed)
      BY <2>1, <2>2, <2>3, <3>1, <3>3, WriterTyped DEF ReadTo
    <3>5. QED
      BY <2>5, <2>6, <3>4, SubSeqFull
  <2>8. QED
    BY <2>4, <2>6, <2>7 DEF IsPrefix
<1>4. QED
  BY <1>1, <1>2, <1>3, PTL DEF AfskSpec
----------------------------------------------------------------------------
(* What the transmitter says of itself is true: afsk.sending, which         *)
(* main_wait_for_tx_complete polls without a limit, is on exactly while the *)
(* timer of the DAC runs, whose interrupt takes it off again, or afsk_txStart *)
(* is about to start that timer.                                            *)
SendingMeansKeyed == sending <=> running \/ mpc = "key"

(* The loop never waits for a transmitter that nothing switches off, and    *)
(* never takes one for off that is on: a frame put while the interrupt      *)
(* decides to unkey neither loses the flag nor leaves it behind.            *)
THEOREM NobodyWaitsUnkeyed == AfskSpec => []SendingMeansKeyed
<1> DEFINE WaitInv == AfskTypeOK /\ Keying /\ (sending => running \/ mpc = "key")
<1>1. AfskInit => WaitInv
  BY AfskTypeInit DEF AfskInit, Keying
<1>2. ASSUME WaitInv, [AfskNext]_afskVars
      PROVE  sending' => running' \/ mpc' = "key"
  <2>1. ASSUME NEW f \in Frames, SendFrame(f) PROVE sending' => running' \/ mpc' = "key"
    BY <1>2, <2>1 DEF SendFrame
  <2>2. CASE Put
    BY <1>2, <2>2 DEF Put, PutFlag, PutEscape, PutByte, Putc
  <2>3. CASE TxStart
    BY <1>2, <2>3 DEF TxStart
  <2>4. CASE Key \/ StoreTrailer
    BY <1>2, <2>4 DEF Key, StoreTrailer
  <2>5. CASE DacStops
    BY <2>5 DEF DacStops, Unkeys
  <2>6. CASE DacPreamble \/ DacTrailer \/ DacTakes
    <3>1. \/ running /\ running' = running
          \/ sending' = FALSE
      BY <2>6 DEF DacPreamble, DacTrailer, DacTakes, Begins, Unkeys
    <3>2. CASE running /\ running' = running
      <4>1. running'
        BY <3>2
      <4>2. QED
        BY <4>1
    <3>3. CASE sending' = FALSE
      BY <3>3
    <3>4. QED
      BY <3>1, <3>2, <3>3
  <2>7. CASE UNCHANGED afskVars
    BY <1>2, <2>7 DEF afskVars, mainvars
  <2>8. QED
    BY <1>2, <2>1, <2>2, <2>3, <2>4, <2>5, <2>6, <2>7 DEF AfskNext, AfskMain, Dac
<1>3. WaitInv /\ [AfskNext]_afskVars => WaitInv'
  BY <1>2, AfskTypeStep, KeyingStep
<1>4. WaitInv => SendingMeansKeyed
  BY DEF Keying, SendingMeansKeyed
<1>5. QED
  BY <1>1, <1>3, <1>4, PTL DEF AfskSpec
=============================================================================
