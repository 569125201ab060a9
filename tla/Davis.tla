------------------------------- MODULE Davis -------------------------------
(***************************************************************************)
(* The client of a Davis Vantage console, davis_vantage/davis.c: the two    *)
(* poolers that share one serial port under davis_global_state, with the    *)
(* main loop that calls and triggers them (main.c:638-645, 731-738,         *)
(* 764-766, 841-850).                                                       *)
(*                                                                          *)
(* It starts after the wake-up at the start of the program, which blocks    *)
(* and without whose success the poolers are never called (main.c:330-351); *)
(* davis_avaliable is 1 from then on.  The serial port is what its client   *)
(* sees of SerialRx and SerialTx: a reception without a start byte has no   *)
(* timeout before its first byte, and srl_receive_data refuses to arm one   *)
(* while one is running.  The reception that is armed before the main loop  *)
(* waits for a frame of the KISS host (main.c:570).                         *)
(***************************************************************************)
EXTENDS Naturals, Sequences

CONSTANTS
  RxcheckPeriod,  \* LOOP pools between two RXCHECK triggers, 65 s to 10 s
  MaxFrames,      \* bound: frames heard on the radio
  MaxFaults       \* bound: commands left unanswered, answers cut short or too early

ASSUME DavisConstants ==
  /\ RxcheckPeriod \in Nat \ {0} /\ MaxFrames \in Nat /\ MaxFaults \in Nat

VARIABLES
  global,     \* davis_global_state, which locks the port
  query,      \* davis_loop_state and davis_rx_check_state
  flag,       \* rte_wx_davis_loop_packet_avaliable
  sending,    \* the command the port sends
  rx,         \* srl_rx_state of the port
  length,     \* for whose answer the number of bytes was requested
  buffer,     \* what its receive buffer holds
  answers,    \* answers of the console on their way
  loop,       \* where the main loop is
  due,        \* the timers that have run out
  age,        \* LOOP pools since the last RXCHECK trigger
  faults,     \* history: the faults so far
  frames,     \* history: the frames so far
  user        \* history: the query whose packet the buffer was last for

port  == <<sending, rx, length, buffer, answers>>
time  == <<due, age>>
vars  == <<global, query, flag, port, loop, time, faults, frames, user>>

Command == {"LOOP", "RXCHECK"}

(* A buffer with more than RX_CHECK_MIN_LN_WITH_ACK bytes.  LONG is neither *)
(* packet; SCRATCHED is a LOOP packet whose ACK has been overwritten.       *)
MoreThanMinimal == {"LOOP", "RXCHECK", "LONG", "SCRATCHED"}

Init ==
  /\ global = "IDLE" /\ query = [c \in Command |-> "IDLE"] /\ flag = 0
  /\ sending = "NOTHING"
  /\ rx = "WAITING" /\ length = "KISS" /\ buffer = "NONE"   \* main.c:570
  /\ answers = <<>>
  /\ loop = "RADIO" /\ due = {} /\ age = 0
  /\ faults = 0 /\ frames = 0 /\ user = "LOOP"

Goes(from, to) == loop = from /\ loop' = to

(* mutant: a pooler does not look at the lock *)
NeverLocked(c) == FALSE
Locked(c) == global \notin {"IDLE", c}

Becomes(c, s) == query' = [query EXCEPT ![c] = s]

----------------------------------------------------------------------------
(* davis_loop_packet_pooler and davis_rxcheck_packet_pooler.                *)

(* mutant: the flag of the packet before stays *)
FlagOfNextKept == flag
FlagOfNext == 0

(* DAVIS_QUERY_IDLE: srl_send_data refuses while the port is sending, but   *)
(* its result is not looked at.                                             *)
Query(c) ==
  /\ query[c] = "IDLE" /\ Becomes(c, "SENDING_QUERY")
  /\ sending' = IF sending = "NOTHING" THEN c ELSE sending
  /\ global' = c
  /\ flag' = IF c = "LOOP" THEN FlagOfNext ELSE flag
  /\ UNCHANGED <<rx, length, buffer, user>>

(* DAVIS_QUERY_SENDING_QUERY; serial.c never sets SRL_TX_ERROR. *)
Listen(c) ==
  /\ query[c] = "SENDING_QUERY" /\ sending = "NOTHING" /\ Becomes(c, "RECEIVING")
  /\ IF rx = "RXING" THEN UNCHANGED <<rx, length, buffer>>
     ELSE rx' = "RXING" /\ length' = c /\ buffer' = "NONE"
  /\ user' = IF c = "RXCHECK" THEN c ELSE user
  /\ UNCHANGED <<global, flag, sending>>

(* mutant: the lock is kept after a timeout *)
LockKept == global
LockAfterError == "IDLE"

(* DAVIS_QUERY_RECEIVING of LOOP.  The state stays after a complete packet, *)
(* so that the flag is set again in every round.                            *)
TakeLoop ==
  /\ query["LOOP"] = "RECEIVING"
  /\ \/ /\ rx = "DONE" /\ flag' = 1 /\ global' = "IDLE"
        /\ user' = IF global = "LOOP" THEN "LOOP" ELSE user
        /\ UNCHANGED query
     \/ /\ rx = "ERROR" /\ Becomes("LOOP", "ERROR") /\ global' = LockAfterError
        /\ UNCHANGED <<flag, user>>
  /\ UNCHANGED <<sending, rx, length, buffer>>

(* DAVIS_QUERY_ERROR of LOOP *)
ClearFlag ==
  /\ query["LOOP"] = "ERROR" /\ flag' = 0
  /\ UNCHANGED <<query, global, sending, rx, length, buffer, user>>

(* DAVIS_QUERY_RECEIVING of RXCHECK, with davis_parsers_rxcheck, which      *)
(* stores a line feed over the first byte that it means to compare with one *)
(* (davis_parsers.c:255).  After a short answer the state stays.            *)
TakeRxcheck ==
  /\ query["RXCHECK"] = "RECEIVING" /\ rx \in {"DONE", "ERROR"}
  /\ global' = "IDLE"
  /\ \/ /\ buffer \in MoreThanMinimal
        /\ \/ buffer \in {"RXCHECK", "LONG"} /\ Becomes("RXCHECK", "OK")
           \/ buffer # "RXCHECK" /\ Becomes("RXCHECK", "ERROR")
        /\ buffer' = IF buffer = "LOOP" THEN "SCRATCHED" ELSE buffer
        /\ user' = "RXCHECK"
     \/ buffer \notin MoreThanMinimal /\ UNCHANGED <<query, buffer, user>>
  /\ UNCHANGED <<flag, sending, rx, length>>

Steps(c) ==
  \/ Query(c) \/ Listen(c)
  \/ c = "LOOP" /\ (TakeLoop \/ ClearFlag)
  \/ c = "RXCHECK" /\ TakeRxcheck

(* What is left of a call: busy, waiting for the port, or ended. *)
Waits(c) ==
  \/ Locked(c)
  \/ query[c] = "SENDING_QUERY" /\ sending # "NOTHING"
  \/ query[c] = "RECEIVING" /\ rx \notin {"DONE", "ERROR"}
  \/ query[c] = "OK"
  \/ c = "RXCHECK" /\ query[c] = "ERROR"

Pooler(c) ==
  /\ \/ ~Locked(c) /\ Steps(c)
     \/ Waits(c) /\ UNCHANGED <<global, query, flag, sending, rx, length, buffer, user>>
  /\ UNCHANGED <<answers, time, faults, frames>>

LoopPooler    == loop \in {"RADIO", "HELD"} /\ loop' = "RXCHECK" /\ Pooler("LOOP")
RxcheckPooler == Goes("RXCHECK", "POOLS") /\ Pooler("RXCHECK")

----------------------------------------------------------------------------
(* The rest of the main loop.                                               *)

(* A frame heard on the radio empties the transmit buffer of the port, also *)
(* while it sends from it, and may hold the loop up for seconds.            *)
RadioFrame ==
  /\ Goes("RADIO", "HELD") /\ frames < MaxFrames /\ frames' = frames + 1
  /\ sending' = IF sending = "NOTHING" THEN "NOTHING" ELSE "SPOILT"
  /\ UNCHANGED <<global, query, flag, rx, length, buffer, answers, time, faults, user>>

(* The main loop hands the buffer to davis_parsers_loop (main.c:844-845). *)
Parses == loop = "POOLS" /\ "LOOP" \in due /\ flag = 1

(* mutant: a new query takes the lock with it *)
TriggeredUnlocking(g) == IF due = {} THEN g ELSE "IDLE"
Triggered(g) == g

(* davis_trigger_rxcheck_packet and davis_trigger_loop_packet, whatever the *)
(* state of the query is.                                                   *)
TimedPools ==
  /\ Goes("POOLS", "RADIO")
  /\ query' = [c \in Command |-> IF c \in due THEN "IDLE" ELSE query[c]]
  /\ global' = Triggered(global)
  /\ age' = IF "RXCHECK" \in due THEN 0 ELSE age
  /\ due' = {}
  /\ UNCHANGED <<flag, port, faults, frames, user>>

MainLoop == RadioFrame \/ LoopPooler \/ RxcheckPooler \/ TimedPools

----------------------------------------------------------------------------
(* The port, the console and the time.                                      *)

Fault == faults < MaxFaults /\ faults' = faults + 1

Sent ==
  /\ sending # "NOTHING" /\ sending' = "NOTHING"
  /\ \/ sending # "SPOILT" /\ answers' = Append(answers, sending) /\ UNCHANGED faults
     \/ sending # "SPOILT" /\ Fault /\ UNCHANGED answers
     \/ sending = "SPOILT" /\ UNCHANGED <<answers, faults>>
  /\ UNCHANGED <<global, query, flag, rx, length, buffer, loop, time, frames, user>>

(* An answer that nobody listens to is lost.  That to RXCHECK has from 17   *)
(* bytes on, of which 32 are taken: a shorter one ends with the timeout.    *)
Whole ==
  \/ /\ Head(answers) = length /\ buffer' = length
     /\ rx' \in IF length = "RXCHECK" THEN {"DONE", "ERROR"} ELSE {"DONE"}
  \/ Head(answers) = "RXCHECK" /\ length = "LOOP" /\ rx' = "ERROR" /\ buffer' = "RXCHECK"
  \/ Head(answers) = "LOOP" /\ length = "RXCHECK" /\ rx' = "DONE" /\ buffer' = "LONG"

(* A LOOP packet is binary.  One that comes before the first command listens *)
(* may hold the 0xC0 that begins and ends a KISS frame; when that is its    *)
(* last byte, the next answer goes on with the frame.                       *)
StartsKissFrame ==
  /\ Head(answers) = "LOOP"
  /\ \/ rx' \in {"DONE", "ERROR"} /\ buffer' \in {"SHORT", "LONG"}
     \/ rx' = "RXING" /\ UNCHANGED buffer

EndsKissFrame ==
  \/ Head(answers) = "LOOP" /\ rx' = "DONE" /\ buffer' \in {"SHORT", "LONG"}
  \/ Head(answers) = "RXCHECK" /\ rx' = "ERROR" /\ buffer' = "LONG"

Taken ==
  \/ rx = "RXING" /\ length # "KISS" /\ Whole
  \/ rx = "RXING" /\ length = "KISS" /\ EndsKissFrame
  \/ rx = "WAITING" /\ StartsKissFrame
  \/ rx # "RXING" /\ UNCHANGED <<rx, buffer>>
Cut   == rx = "RXING" /\ rx' = "ERROR" /\ buffer' \in {"SHORT", "LONG"}

(* The loop listens before the answer is there, unless it is held up. *)
Overtaken == \E c \in Command : ~Locked(c) /\ query[c] = "SENDING_QUERY"

Answered ==
  /\ answers # <<>> /\ answers' = Tail(answers)
  /\ \/ ~Overtaken /\ Taken /\ UNCHANGED faults
     \/ Fault /\ (Taken \/ Cut)
  /\ UNCHANGED <<global, query, flag, sending, length, loop, time, frames, user>>

(* An exchange takes far less than the ten seconds between two pools, so    *)
(* that the timers run out when neither pooler has anything to do but wait, *)
(* or when the loop is held up.                                             *)
Quiet ==
  /\ sending = "NOTHING" /\ answers = <<>>
  /\ \A c \in Command : Locked(c) \/ query[c] \notin {"IDLE", "SENDING_QUERY"}
  /\ global = "IDLE" \/ rx = "RXING"

Tick ==
  /\ Quiet \/ loop = "HELD"
  /\ \/ /\ "LOOP" \notin due /\ due' = due \cup {"LOOP"}
        /\ age' = IF age < RxcheckPeriod THEN age + 1 ELSE age
     \/ /\ "RXCHECK" \notin due /\ age = RxcheckPeriod
        /\ due' = due \cup {"RXCHECK"} /\ UNCHANGED age
  /\ UNCHANGED <<global, query, flag, port, loop, faults, frames, user>>

Next == MainLoop \/ Sent \/ Answered \/ Tick

Spec == Init /\ [][Next]_vars

(* The loop goes round, a transmission ends, an answer comes or is lost,    *)
(* each timer runs out.                                                     *)
FairSpec ==
  /\ Spec /\ WF_vars(MainLoop) /\ WF_vars(Sent) /\ WF_vars(Answered)
  /\ \A c \in Command : WF_vars(Tick /\ c \notin due /\ c \in due')

----------------------------------------------------------------------------
(* Every field keeps its type. *)
TypeOK ==
  /\ global \in {"IDLE", "LOOP", "RXCHECK"}
  /\ query \in [Command -> {"IDLE", "SENDING_QUERY", "RECEIVING", "OK", "ERROR"}]
  /\ flag \in {0, 1} /\ sending \in Command \cup {"NOTHING", "SPOILT"}
  /\ rx \in {"WAITING", "RXING", "DONE", "ERROR"} /\ length \in Command \cup {"KISS"}
  /\ buffer \in MoreThanMinimal \cup {"NONE", "SHORT"}
  /\ answers \in Seq(Command)
  /\ loop \in {"RADIO", "HELD", "RXCHECK", "POOLS"}
  /\ due \subseteq Command /\ age \in 0 .. RxcheckPeriod
  /\ faults \in 0 .. MaxFaults /\ frames \in 0 .. MaxFrames /\ user \in Command

(* The one lock of the two poolers is worth its name: while the port waits  *)
(* for an answer, the lock belongs to the query whose answer that is, also  *)
(* when triggers come in the middle of an exchange and commands or answers  *)
(* are lost.  A KISS frame that an answer has begun belongs to nobody.      *)
LockOwnsPort == rx = "RXING" => global = length \/ length = "KISS"

(* The flag means what the main loop takes it for: "if previous LOOP packet *)
(* is ready for processing" (main.c:843).  It does as long as no RXCHECK    *)
(* comes in between, which works in the same buffer and leaves the flag,    *)
(* and the reception is not the one that was armed for KISS at the start.   *)
FlagMeansPacket ==
  flag = 1 => (rx = "DONE" /\ buffer = "LOOP") \/ user = "RXCHECK" \/ length = "KISS"

(* However often the console has been silent or cut off, an answer was late *)
(* or a radio frame came in between: LOOP packets come through to the       *)
(* parser again, without a restart.                                         *)
PacketsComeAgain == []<>(Parses /\ buffer = "LOOP")
=============================================================================
