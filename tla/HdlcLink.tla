------------------------------ MODULE HdlcLink ------------------------------
(***************************************************************************)
(* One station sends, another hears, bit by bit: the framing of             *)
(* AFSK_DAC_ISR on one side, hdlc_parse and ax25_poll on the other          *)
(* (system/src/aprs/afsk.c and ax25.c).  A 0 switches the tone and a 1      *)
(* keeps it, and the receiver takes an edge for a 0, so the line carries    *)
(* bits.  A bit may be heard wrong, and a station may fade: from then on    *)
(* the receiver hears no edges, as on a silent channel.                     *)
(*                                                                          *)
(* The ADC interrupt pushes at most two bytes into the receive FIFO for a   *)
(* bit and empties it before the next one, so the FIFO is never full and is *)
(* not seen here.  On the other side an escape and the byte behind it, which *)
(* AFSK_DAC_ISR takes together (see AfskTx), are one element of the FIFO.   *)
(* The checksum of a frame is good when its bytes are those of a frame that *)
(* was sent.                                                                *)
(***************************************************************************)
EXTENDS Naturals, SequencesExt

CONSTANTS
  Frames,       \* what is sent: sequences of bytes, the checksum included
  BufLen,       \* CONFIG_AX25_FRAME_BUF_LEN
  MinFrameLen,  \* AX25_MIN_FRAME_LEN
  SsidAt,       \* where the SSID of the destination is in a frame
  Preamble,     \* flags sent before a frame
  Trailer,      \* flags sent after it
  MaxFrames,    \* bound: frames sent
  MaxHits       \* bound: disturbances of the line

Byte == 0 .. 255
Bit  == 0 .. 1

ASSUME LinkConstants ==
  /\ Frames \subseteq Seq(Byte) /\ <<>> \notin Frames
  /\ BufLen \in Nat /\ MinFrameLen \in 1 .. BufLen /\ SsidAt \in 0 .. BufLen - 1
  /\ Preamble \in Nat /\ Trailer \in Nat
  /\ MaxFrames \in Nat /\ MaxHits \in Nat

FLAG  == 126   \* HDLC_FLAG
RESET == 127   \* HDLC_RESET
ESC   == 27    \* AX25_ESC
UI    == 3     \* AX25_CTRL_UI
PID   == 240   \* AX25_PID_NOLAYER3

VARIABLES
  fifo, sending, preamble, trailer,      \* the transmitter, as in AfskTx
  curr, txBit, bitStuff, stuffCnt,       \* its byte: curr_out, tx_bit, bit_stuff, stuff_cnt
  hdlc,    \* the Hdlc struct of the receiver
  ax,      \* its AX25Ctx, and ax25_new_msg_rx_flag
  main,    \* the main loop: idle, or at work on the frame received
  sent,    \* history: the frames put
  heard,   \* history: the frames ax25_poll gave to ax25_decode
  hit,     \* history: the line was disturbed since the last frame was put
  faded,   \* the station that sends is not heard any more
  hits     \* history: disturbances

txvars == <<fifo, sending, preamble, trailer, curr, txBit, bitStuff, stuffCnt>>
rxvars == <<hdlc, ax, heard>>
line == <<hit, faded, hits>>
linkVars == <<txvars, rxvars, line, main, sent>>

LinkInit ==
  /\ fifo = <<>> /\ sending = FALSE /\ preamble = 0 /\ trailer = 0
  /\ curr = 0 /\ txBit = 0 /\ bitStuff = FALSE /\ stuffCnt = 0
  /\ hdlc = [demod |-> 0, rxstart |-> FALSE, currchar |-> 0, bitIdx |-> 0,
             s |-> FALSE, rawDcd |-> FALSE]
  /\ ax = [buf |-> [i \in 0 .. BufLen - 1 |-> 0], len |-> 0, sync |-> FALSE, escape |-> FALSE,
           dcd |-> FALSE, dcdState |-> 0, msg |-> FALSE]
  /\ main = "idle" /\ sent = <<>> /\ heard = <<>>
  /\ hit = FALSE /\ faded = FALSE /\ hits = 0

----------------------------------------------------------------------------
(* The transmitter *)

(* ax25_putchar, and hdlc_parse: a byte that would be taken for another     *)
(* thing goes behind an escape.                                             *)
Special == {FLAG, RESET, ESC}

Delimiter == [byte |-> FLAG, escaped |-> FALSE]
Data(c)   == [byte |-> c, escaped |-> c \in Special]

(* ax25_sendRaw or ax25_sendVia, and afsk_txStart.                          *)
PutFrame(f) ==
  /\ ~sending /\ Len(sent) < MaxFrames
  /\ fifo' = <<Delimiter>> \o [i \in 1 .. Len(f) |-> Data(f[i])] \o <<Delimiter>>
  /\ sending' = TRUE /\ preamble' = Preamble /\ trailer' = Trailer /\ stuffCnt' = 0
  /\ sent' = Append(sent, f) /\ hit' = FALSE /\ faded' = FALSE
  /\ UNCHANGED <<curr, txBit, bitStuff, rxvars, hits, main>>

OnesStuffed(item) == item.escaped \/ item.byte \notin {FLAG, RESET}

(* The end of a byte: the next one, and whether its ones are stuffed.       *)
NextByte ==
  \/ /\ preamble > 0 /\ preamble' = preamble - 1
     /\ curr' = FLAG /\ bitStuff' = FALSE
     /\ UNCHANGED <<fifo, trailer>>
  \/ /\ preamble = 0 /\ fifo = <<>> /\ trailer' = trailer - 1
     /\ curr' = FLAG /\ bitStuff' = FALSE
     /\ UNCHANGED <<fifo, preamble>>
  \/ /\ preamble = 0 /\ fifo # <<>> /\ curr' = Head(fifo).byte /\ fifo' = Tail(fifo)
     /\ bitStuff' = OnesStuffed(Head(fifo))
     /\ UNCHANGED <<preamble, trailer>>

(* mutant: BIT_STUFF_LEN one too large *)
SixthOne(count) == count >= 6
FifthOne(count) == count >= 5

(* AFSK_DAC_ISR where it begins a bit; b is the bit that goes out.          *)
SendBit(b) ==
  /\ sending
  /\ \/ txBit # 0 /\ UNCHANGED <<fifo, preamble, trailer, curr, bitStuff>>
     \/ txBit = 0 /\ (fifo # <<>> \/ trailer > 0) /\ NextByte
  /\ LET mask  == IF txBit = 0 THEN 1 ELSE txBit
         count == IF txBit = 0 /\ ~bitStuff THEN 0 ELSE stuffCnt
     IN  \/ /\ bitStuff' /\ FifthOne(count)
            /\ b = 0 /\ stuffCnt' = 0 /\ txBit' = mask
         \/ /\ ~(bitStuff' /\ FifthOne(count))
            /\ b = (curr' \div mask) % 2
            /\ stuffCnt' = IF b = 1 THEN count + 1 ELSE 0
            /\ txBit' = (2 * mask) % 256
  /\ UNCHANGED sending

TxStops ==
  /\ sending /\ txBit = 0 /\ fifo = <<>> /\ trailer = 0
  /\ sending' = FALSE
  /\ UNCHANGED <<fifo, preamble, trailer, curr, txBit, bitStuff, stuffCnt, rxvars, line, main, sent>>

----------------------------------------------------------------------------
(* The receiver *)

(* ax25_poll: a flag ends a frame that is long enough and has a good        *)
(* checksum, and begins another one.                                        *)
Received(a)  == [i \in 1 .. a.len |-> a.buf[i - 1]]
GoodFrame(a) == a.len >= MinFrameLen /\ \E i \in DOMAIN sent : sent[i] = Received(a)

(* ax25_decode sets ax25_new_msg_rx_flag for the frames of APRS only.       *)
Decoded(a) ==
  GoodFrame(a) /\ \E i \in 1 .. a.len - 1 : a.buf[i - 1] = UI /\ a.buf[i] = PID

(* mutant: a frame is kept in the buffer when its flag has come *)
FlagTakenKeepingLen(a) ==
  [a EXCEPT !.sync = TRUE, !.dcdState = 0, !.dcd = FALSE, !.msg = @ \/ Decoded(a)]
(* mutant: the carrier is not taken back at the end of a frame *)
FlagTakenKeepingDcd(a) ==
  [a EXCEPT !.sync = TRUE, !.len = 0, !.dcdState = 0, !.msg = @ \/ Decoded(a)]
FlagTaken(a) ==
  [a EXCEPT !.sync = TRUE, !.len = 0, !.dcdState = 0, !.dcd = FALSE, !.msg = @ \/ Decoded(a)]

Fits(a) == a.len < BufLen

(* A byte of a frame; the carrier is detected by the destination address or *)
(* by the control byte and the protocol, before the frame is complete.      *)
DataTaken(a, c) ==
  LET buf     == [a.buf EXCEPT ![a.len] = c]
      address == buf[SsidAt] = 96 /\ buf[0] = 130
      proto   == a.dcdState = 1 /\ c = PID
  IN  [a EXCEPT !.buf = buf, !.len = @ + 1, !.escape = FALSE,
                !.dcd = @ \/ address \/ proto,
                !.dcdState = IF proto THEN 2 ELSE IF @ = 0 /\ c = UI THEN 1 ELSE @]

Taken(a, c) ==
  CASE ~a.escape /\ c = FLAG  -> FlagTaken(a)
    [] ~a.escape /\ c = RESET -> [a EXCEPT !.sync = FALSE, !.dcd = FALSE]
    [] ~a.escape /\ c = ESC   -> [a EXCEPT !.escape = TRUE]
    [] (a.escape \/ c \notin Special) /\ a.sync /\ Fits(a) -> DataTaken(a, c)
    [] (a.escape \/ c \notin Special) /\ a.sync /\ ~Fits(a) ->
         [a EXCEPT !.escape = FALSE, !.sync = FALSE, !.dcd = FALSE]
    [] (a.escape \/ c \notin Special) /\ ~a.sync -> [a EXCEPT !.escape = FALSE]

PollNothing == UNCHANGED <<ax, heard>>

PollFlag ==
  /\ ax' = Taken(ax, FLAG)
  /\ heard' = IF GoodFrame(ax) THEN Append(heard, Received(ax)) ELSE heard

PollByte(c) ==
  /\ ax' = Taken(IF c \in Special THEN Taken(ax, ESC) ELSE ax, c)
  /\ UNCHANGED heard

(* hdlc_parse of a bit: a flag, seven ones, a bit that is stuffed or outside *)
(* a frame, a bit of a byte, the last bit of a byte.                         *)
ParseFlag(d) ==
  /\ d = FLAG
  /\ hdlc' = [hdlc EXCEPT !.demod = d, !.rxstart = TRUE, !.currchar = 0, !.bitIdx = 0,
                          !.s = TRUE, !.rawDcd = @ /\ hdlc.s]
  /\ PollFlag

ParseReset(d) ==
  /\ d % 128 = RESET
  /\ hdlc' = [hdlc EXCEPT !.demod = d, !.rxstart = FALSE, !.s = FALSE]
  /\ PollNothing

Stuffed(d) == d % 64 = 62

ParseSkipped(d) ==
  /\ d # FLAG /\ d % 128 # RESET /\ (~hdlc.rxstart \/ Stuffed(d))
  /\ hdlc' = [hdlc EXCEPT !.demod = d]
  /\ PollNothing

Currchar(d) == hdlc.currchar + 128 * (d % 2)

ParseBit(d) ==
  /\ d # FLAG /\ d % 128 # RESET /\ hdlc.rxstart /\ ~Stuffed(d)
  /\ \/ /\ hdlc.bitIdx < 7
        /\ hdlc' = [hdlc EXCEPT !.demod = d, !.currchar = Currchar(d) \div 2, !.bitIdx = @ + 1]
        /\ PollNothing
     \/ /\ hdlc.bitIdx = 7
        /\ hdlc' = [hdlc EXCEPT !.demod = d, !.currchar = 0, !.bitIdx = 0,
                                !.s = FALSE, !.rawDcd = @ \/ hdlc.s]
        /\ PollByte(Currchar(d))

(* AFSK_ADC_ISR once a bit, with the poll that follows before the next one. *)
Hear(b) ==
  LET d == (2 * hdlc.demod + b) % 256
  IN  ParseFlag(d) \/ ParseReset(d) \/ ParseSkipped(d) \/ ParseBit(d)

(* The main loop sees the frame; it is done with it when digi_process has   *)
(* returned, which may take a while.                                        *)
MainSees ==
  /\ main = "idle" /\ ax.msg
  /\ main' = "frame" /\ ax' = [ax EXCEPT !.dcd = FALSE]
  /\ UNCHANGED <<txvars, hdlc, heard, line, sent>>

MainDone ==
  /\ main = "frame"
  /\ main' = "idle" /\ ax' = [ax EXCEPT !.msg = FALSE]
  /\ UNCHANGED <<txvars, hdlc, heard, line, sent>>

----------------------------------------------------------------------------
(* The line: what is heard of the bit b. *)
Clear(b, got) == got = (IF faded THEN 1 ELSE b) /\ UNCHANGED line

Disturbed(b, got) ==
  /\ ~faded /\ hits < MaxHits /\ got = 1 - b
  /\ hit' = TRUE /\ hits' = hits + 1 /\ UNCHANGED faded

BitSent ==
  \E b, got \in Bit :
    SendBit(b) /\ (Clear(b, got) \/ Disturbed(b, got)) /\ Hear(got) /\ UNCHANGED <<main, sent>>

(* Nobody sends: no edges, or noise. *)
BitOfSilence ==
  /\ ~sending
  /\ \E got \in Bit : (Clear(1, got) \/ Disturbed(1, got)) /\ Hear(got)
  /\ UNCHANGED <<txvars, main, sent>>

Fade ==
  /\ sending /\ ~faded /\ hits < MaxHits
  /\ faded' = TRUE /\ hit' = TRUE /\ hits' = hits + 1
  /\ UNCHANGED <<txvars, rxvars, main, sent>>

LinkNext ==
  \/ \E f \in Frames : PutFrame(f)
  \/ BitSent \/ TxStops \/ BitOfSilence \/ Fade \/ MainSees \/ MainDone

LinkSpec == LinkInit /\ [][LinkNext]_linkVars

(* Time goes on, and the main loop looks at the flag. *)
LinkFairSpec ==
  /\ LinkSpec
  /\ WF_linkVars(BitSent \/ TxStops \/ BitOfSilence) /\ WF_linkVars(MainSees \/ MainDone)

----------------------------------------------------------------------------
(* A frame that was not disturbed is heard, whatever its bytes look like    *)
(* and whatever the receiver made of the line before: hdlc_parse takes the  *)
(* bits of AFSK_DAC_ISR apart again.                                        *)
FrameFits(f) == Len(f) \in MinFrameLen .. BufLen

UndisturbedHeard ==
  ~sending /\ sent # <<>> /\ ~hit /\ FrameFits(Last(sent)) =>
    heard # <<>> /\ Last(heard) = Last(sent)

(* No frame is heard twice, or before one that was sent earlier.  A frame   *)
(* whose last flag was lost may be heard at the first flag of the next one. *)
HeardInOrder ==
  \E at \in [DOMAIN heard -> DOMAIN sent] :
    /\ \A i, j \in DOMAIN heard : i < j => at[i] < at[j]
    /\ \A i \in DOMAIN heard : heard[i] = sent[at[i]]

(* Carrier detect goes off again when the frame goes on to its end, also    *)
(* when it is disturbed.                                                    *)
DcdGoesOff == ax.dcd /\ ~faded ~> ~ax.dcd \/ faded
=============================================================================
