------------------------------- MODULE AfskTx -------------------------------
(***************************************************************************)
(* The AFSK transmitter, system/src/aprs/ax25.c and afsk.c: the main loop   *)
(* puts AX.25 frames into the transmit FIFO (ax25_sendVia, ax25_sendRaw)    *)
(* and keys the transmitter (afsk_txStart); the DAC interrupt takes one     *)
(* byte after the other (AFSK_DAC_ISR) and unkeys when nothing is left.     *)
(* Neither side locks anything.  The FIFO is the queue that ByteFifo is     *)
(* shown to implement.                                                      *)
(*                                                                          *)
(* A byte of a frame is plain or one of 0x7E, 0x7F and 0x1B, which need an  *)
(* escape.  The callsigns, the control bytes, the payload and the checksum  *)
(* all go through ax25_putchar: a frame is the bytes it is given.           *)
(***************************************************************************)
EXTENDS Naturals, Sequences, SequencesExt

CONSTANTS
  Frames,     \* the frames, sequences of "plain" and "special" bytes
  Capacity,   \* how many bytes the FIFO holds
  Preamble,   \* flags sent before the frames
  Trailer,    \* flags sent after them
  MaxFrames,  \* bound: frames sent in a run
  Pace        \* bytes the main loop puts, at least, while one is on the air

ASSUME AfskConstants ==
  /\ Frames \subseteq Seq({"plain", "special"}) /\ <<>> \notin Frames
  /\ Capacity \in Nat \ {0} /\ Preamble \in Nat /\ Trailer \in Nat \ {0}
  /\ MaxFrames \in Nat /\ Pace \in Nat /\ Pace > 1

VARIABLES
  fifo,      \* tx_fifo
  sending,   \* afsk.sending, what main_wait_for_tx_complete polls
  running,   \* TIM4 runs and PTT is on (DA_Start, DA_Stop)
  preamble,  \* afsk.preamble_len
  trailer,   \* afsk.trailer_len
  mpc,       \* where the main loop is
  nth,       \* which byte of the frame it puts next, 0 and the last one for the flags
  ahead,     \* bytes it has put since the interrupt began one, up to Pace
  handed,    \* the frames begun so far
  dropped,   \* a byte met a full FIFO
  air,       \* the bytes on the air since the last flag
  aired      \* the frames on the air, each ended by a flag

mainvars == <<mpc, nth, handed, dropped>>
afskVars == <<fifo, sending, running, preamble, trailer, ahead, air, aired, mainvars>>

AfskInit ==
  /\ fifo = <<>> /\ sending = FALSE /\ running = FALSE
  /\ preamble = 0 /\ trailer = 0
  /\ mpc = "idle" /\ nth = 0 /\ ahead = 0
  /\ handed = <<>> /\ dropped = FALSE
  /\ air = <<>> /\ aired = <<>>

----------------------------------------------------------------------------
(* Some callers wait for the transmitter before (main_wait_for_tx_complete),*)
(* some do not.                                                             *)
SendFrame(f) ==
  /\ mpc = "idle" /\ Len(handed) < MaxFrames
  /\ handed' = Append(handed, f)
  /\ mpc' = "put" /\ nth' = 0 /\ ahead' = Pace
  /\ UNCHANGED <<fifo, sending, running, preamble, trailer, dropped, air, aired>>

Putting == mpc \in {"put", "escape"}

(* The frame that is being put. *)
Frame == handed[Len(handed)]

(* fifo_putc drops the byte when the FIFO is full. *)
Putc(b) ==
  /\ fifo' = IF Len(fifo) < Capacity THEN Append(fifo, b) ELSE fifo
  /\ dropped' = (dropped \/ Len(fifo) >= Capacity)
  /\ ahead' = IF ahead < Pace THEN ahead + 1 ELSE ahead
  /\ UNCHANGED <<sending, running, preamble, trailer, handed, air, aired>>

(* The flags before and behind a frame, which are not escaped. *)
PutFlag ==
  /\ mpc = "put" /\ nth \notin DOMAIN Frame
  /\ Putc("FLAG")
  /\ \/ nth = 0 /\ nth' = 1 /\ mpc' = "put"
     \/ nth # 0 /\ nth' = 0 /\ mpc' = "start"

(* mutant: no byte is escaped *)
NeverEscapes(b) == FALSE
(* ax25_putchar *)
NeedsEscape(b) == b = "special"

PutEscape ==
  /\ mpc = "put" /\ nth \in DOMAIN Frame /\ NeedsEscape(Frame[nth])
  /\ Putc("ESC") /\ mpc' = "escape" /\ UNCHANGED nth

PutByte ==
  /\ \/ mpc = "put" /\ nth \in DOMAIN Frame /\ ~NeedsEscape(Frame[nth])
     \/ mpc = "escape"
  /\ Putc(Frame[nth]) /\ mpc' = "put" /\ nth' = nth + 1

(* afsk_txStart.  The caller may have waited for a free channel first.      *)
TxStart ==
  /\ mpc = "start"
  /\ \/ ~sending /\ sending' = TRUE /\ mpc' = "key"
     \/ sending /\ mpc' = "trailer" /\ UNCHANGED sending
  /\ UNCHANGED <<fifo, running, preamble, trailer, nth, ahead, handed, dropped, air, aired>>

Key ==
  /\ mpc = "key"
  /\ preamble' = Preamble /\ running' = TRUE
  /\ mpc' = "trailer"
  /\ UNCHANGED <<fifo, sending, trailer, nth, ahead, handed, dropped, air, aired>>

StoreTrailer ==
  /\ mpc = "trailer"
  /\ trailer' = Trailer /\ mpc' = "idle"
  /\ UNCHANGED <<fifo, sending, running, preamble, nth, ahead, handed, dropped, air, aired>>

----------------------------------------------------------------------------
(* AFSK_DAC_ISR where it begins a byte, which lasts eight bits of eight     *)
(* samples each, 6.7 ms.  The main loop waits for nothing while it puts a   *)
(* frame: it puts hundreds of bytes in that time.                           *)
Begins ==
  /\ running
  /\ Putting => ahead >= Pace
  /\ ahead' = 0
  /\ UNCHANGED mainvars

OutFlag ==
  /\ aired' = IF air = <<>> THEN aired ELSE Append(aired, air)
  /\ air' = <<>>

(* Seven ones: the receiver forgets the frame. *)
OutReset == air' = <<>> /\ UNCHANGED aired

OutByte(b) == air' = Append(air, b) /\ UNCHANGED aired

(* mutant: PTT goes off and the flag stays *)
UnkeysButSends ==
  /\ running' = FALSE /\ sending' = sending
  /\ air' = <<>> /\ UNCHANGED <<preamble, trailer, aired>>

(* DA_Stop: what is on the air of an unfinished frame is lost.              *)
Unkeys ==
  /\ running' = FALSE /\ sending' = FALSE
  /\ air' = <<>> /\ UNCHANGED <<preamble, trailer, aired>>

(* mutant: a queued frame does not keep the transmitter keyed *)
DrainedByTrailer == trailer = 0
Drained == fifo = <<>> /\ trailer = 0

DacStops ==
  /\ Begins /\ Drained
  /\ Unkeys /\ UNCHANGED fifo

DacPreamble ==
  /\ Begins /\ ~Drained /\ preamble > 0
  /\ preamble' = preamble - 1 /\ OutFlag
  /\ UNCHANGED <<fifo, sending, running, trailer>>

DacTrailer ==
  /\ Begins /\ ~Drained /\ preamble = 0 /\ fifo = <<>>
  /\ trailer' = trailer - 1 /\ OutFlag
  /\ UNCHANGED <<fifo, sending, running, preamble>>

(* What the interrupt makes of a byte; one of the three special ones that   *)
(* has lost its escape to a full FIFO is a flag, a reset or an escape.      *)
ReadAs(b) == IF b = "special" THEN {"FLAG", "RESET", "ESC"} ELSE {b}

DacTakes ==
  /\ Begins /\ ~Drained /\ preamble = 0 /\ fifo # <<>>
  /\ \E b \in ReadAs(Head(fifo)) :
       \/ /\ b = "FLAG" /\ fifo' = Tail(fifo) /\ OutFlag
          /\ UNCHANGED <<sending, running, preamble, trailer>>
       \/ /\ b = "RESET" /\ fifo' = Tail(fifo) /\ OutReset
          /\ UNCHANGED <<sending, running, preamble, trailer>>
       \/ /\ b = "plain" /\ fifo' = Tail(fifo) /\ OutByte(b)
          /\ UNCHANGED <<sending, running, preamble, trailer>>
       \/ /\ b = "ESC" /\ Len(fifo) > 1
          /\ fifo' = Tail(Tail(fifo)) /\ OutByte(fifo[2])
          /\ UNCHANGED <<sending, running, preamble, trailer>>
       \/ /\ b = "ESC" /\ Len(fifo) = 1
          /\ fifo' = <<>> /\ Unkeys

Dac == DacStops \/ DacPreamble \/ DacTrailer \/ DacTakes

Put == PutFlag \/ PutEscape \/ PutByte
AfskMain == Put \/ TxStart \/ Key \/ StoreTrailer

AfskNext == (\E f \in Frames : SendFrame(f)) \/ AfskMain \/ Dac

AfskSpec == AfskInit /\ [][AfskNext]_afskVars

(* The main loop finishes what it has begun and the timer's interrupt is    *)
(* served while the timer runs.                                             *)
AfskFairSpec == AfskSpec /\ WF_afskVars(AfskMain) /\ WF_afskVars(Dac)

----------------------------------------------------------------------------
(* The frames on the air are the frames that were sent, whole and in order, *)
(* also when one is put while the one before is on the air; when the        *)
(* transmitter is off again none is missing.  (As long as the FIFO had room *)
(* for every byte: fifo_putc drops silently.)                               *)
FramesOnAir ==
  ~dropped => /\ IsPrefix(aired, handed)
              /\ (mpc = "idle" /\ ~sending) => aired = handed

(* No frame is left in the FIFO of an unkeyed transmitter: afsk_txStart and *)
(* the interrupt that is just ending never miss each other.                 *)
NothingLeftBehind == (mpc = "idle" /\ ~sending) => fifo = <<>>

(* The transmitter goes off after the last frame, whatever was dropped.     *)
TransmitterGoesOff == sending ~> ~sending
=============================================================================
