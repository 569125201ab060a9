-------------------------------- MODULE Digi --------------------------------
(***************************************************************************)
(* Digipeaters on one radio channel: digi_process of                        *)
(* system/src/aprs/digi.c with what it uses of the main loop, of delay.c    *)
(* and of the receiver (ax25_rxed_frame, ax25_new_msg_rx_flag, dcd), which  *)
(* the ADC interrupt goes on writing meanwhile.  Trackers send frames when  *)
(* they like; a transmission may be heard or not, as when two collide.      *)
(*                                                                          *)
(* digi_check_with_viscous and digi_pool_viscous have no step: their calls  *)
(* in main.c are commented out.  AfskTx and HdlcLink show how the frames    *)
(* get on the air and from there into the receiver.                         *)
(***************************************************************************)
EXTENDS Naturals, Sequences

CONSTANTS
  Digis,      \* the digipeaters
  Trackers,   \* the other stations
  Traffic,    \* what the other stations may send, each frame once: sets of frames
  OwnPath,    \* the path of a packet of the digipeater's own (PathConfig.c)
  Configs,    \* the digi_mode of each digipeater
  None,
  Preset,     \* preset_delay_msecs, in ticks that are longer than a byte
  Random,     \* the delays delay_random draws from, {0} without _RANDOM_DELAY
  MaxOwn      \* bound: packets of the digipeaters' own

Stations == Digis \cup Trackers

Modes == {"ON_ALL", "ON_SSID", "VISCOUS_ALL", "VISCOUS_SSID"}

(* A call of a path: an alias, an alias that is used up, or a digipeater.   *)
Calls == Digis \cup {"WIDE1-1", "WIDE2-1", "WIDE2-2", "WIDE1*"}

(* The fields of a frame that matter: who sent it first and which frame of  *)
(* his it is, whether his SSID is 7, 8 or 9, whether it is too long for the *)
(* buffer, whether the destination address already tells it from noise, and *)
(* its path.  info is the frame whose payload it carries; torn marks, as    *)
(* history, a payload that was copied late.                                 *)
Frame == [src : Stations, id : Nat, tracker : BOOLEAN, long : BOOLEAN, known : BOOLEAN,
          path : Seq(Calls), info : Nat \cup {None}, torn : BOOLEAN]

ASSUME DigiConstants ==
  /\ Digis \cap Trackers = {} /\ "WIDE1-1" \notin Digis
  /\ None \notin Stations \cup Nat /\ None \notin Frame
  /\ Traffic \subseteq SUBSET Frame
  /\ \A F \in Traffic : \A f, g \in F : f.src = g.src /\ f.id = g.id => f = g
  /\ \A f \in UNION Traffic : f.src \in Trackers /\ f.info = f.id /\ ~f.torn
  /\ OwnPath \in Seq(Calls)
  /\ Configs \subseteq [Digis -> Modes]
  /\ Preset \in Nat /\ Random \subseteq Nat /\ Random # {} /\ MaxOwn \in Nat

VARIABLES
  mode,      \* digi_mode
  unsent,    \* frames the trackers have not sent yet
  own,       \* how many packets of their own the digipeaters have sent
  air,       \* the frames a station has on the air or in its transmit FIFO
  hearing,   \* the station a digipeater is taking a frame from
  missed,    \* the stations whose frame on the air it has lost a part of
  dcd,       \* dcd of its receiver
  frame,     \* ax25_rxed_frame
  flag,      \* ax25_new_msg_rx_flag
  torn,      \* history: the buffer with the payload has been written to since
  pc,        \* where its main loop is in digi_process
  msg,       \* digi_path and digi_msg, None where digi_msg_len is 0
  lock,      \* after_tx_lock
  delayCnt,  \* delay_cnt
  repeated   \* history: the frames it has repeated

channel  == <<unsent, own, air>>
receiver == <<hearing, missed, dcd, frame, flag, torn>>
digi     == <<pc, msg, lock, delayCnt, repeated>>
vars     == <<mode, channel, receiver, digi>>

All(x) == [d \in Digis |-> x]

(* digi_init *)
Init ==
  /\ mode \in Configs
  /\ unsent \in Traffic /\ own = 0 /\ air = [s \in Stations |-> <<>>]
  /\ hearing = All(None) /\ missed = All({}) /\ dcd = All(FALSE) /\ frame = All(None) /\ flag = All(FALSE)
  /\ torn = All(FALSE)
  /\ pc = All("idle") /\ msg = All(None) /\ lock = All(FALSE) /\ delayCnt = All(0)
  /\ repeated = All({})

----------------------------------------------------------------------------
(* The channel and the interrupts *)

TrackerSends(f) ==
  /\ air[f.src] = <<>> /\ unsent' = unsent \ {f}
  /\ air' = [air EXCEPT ![f.src] = Append(@, f)]
  /\ UNCHANGED <<mode, own, receiver, digi>>

(* The flags before a frame: a carrier left over from one that was lost     *)
(* goes off.                                                                *)
Opens(d, s) ==
  /\ s # d /\ air[s] # <<>> /\ air[d] = <<>> /\ hearing[d] = None /\ s \notin missed[d]
  /\ dcd[d] /\ dcd' = [dcd EXCEPT ![d] = FALSE]
  /\ UNCHANGED <<mode, channel, hearing, missed, frame, flag, torn, digi>>

(* ax25_poll takes the bytes of a frame into the buffer where the payload   *)
(* of the frame before still is, and detects the carrier.                   *)
Hears(d, s) ==
  /\ s # d /\ air[s] # <<>> /\ air[d] = <<>> /\ hearing[d] = None /\ s \notin missed[d]
  /\ hearing' = [hearing EXCEPT ![d] = s] /\ dcd' = [dcd EXCEPT ![d] = TRUE]
  /\ torn' = [torn EXCEPT ![d] = TRUE]
  /\ UNCHANGED <<mode, channel, missed, frame, flag, digi>>

(* The station fades: dcd stays as it is, since only a flag clears it,      *)
(* unless the noise happens to look like one.                               *)
Loses(d) ==
  /\ hearing[d] # None
  /\ hearing' = [hearing EXCEPT ![d] = None]
  /\ missed' = [missed EXCEPT ![d] = @ \cup {hearing[d]}]
  /\ \E on \in {dcd[d], FALSE} : dcd' = [dcd EXCEPT ![d] = on]
  /\ UNCHANGED <<mode, channel, frame, flag, torn, digi>>

(* The flag after the frame, for those who are still listening to it.  Who  *)
(* has heard it whole decodes it, over the frame before, of which the main  *)
(* loop may have the header already.                                        *)
FrameEnds(s) ==
  /\ air[s] # <<>> /\ air' = [air EXCEPT ![s] = Tail(@)]
  /\ LET listening == {d \in Digis : hearing[d] = s}
     IN  \E good \in SUBSET listening :
           /\ frame' = [d \in Digis |-> IF d \in good THEN Head(air[s]) ELSE frame[d]]
           /\ flag' = [d \in Digis |-> flag[d] \/ d \in good]
           /\ torn' = [d \in Digis |-> torn[d] /\ ~(d \in good /\ pc[d] # "copy")]
           /\ hearing' = [d \in Digis |-> IF d \in listening THEN None ELSE hearing[d]]
           /\ dcd' = [d \in Digis |-> dcd[d] /\ d \notin listening]
  /\ missed' = [d \in Digis |-> missed[d] \ {s}]
  /\ UNCHANGED <<mode, unsent, own, digi>>

(* Time for another byte.  The carrier is detected at every byte of a frame *)
(* whose destination is known, and only once in a frame with another one.   *)
Known(d) == hearing[d] # None /\ Head(air[hearing[d]]).known

Tick ==
  /\ delayCnt' = [d \in Digis |-> IF delayCnt[d] > 0 THEN delayCnt[d] - 1 ELSE 0]
  /\ dcd' = [d \in Digis |-> dcd[d] \/ Known(d)]
  /\ <<delayCnt, dcd>>' # <<delayCnt, dcd>>
  /\ UNCHANGED <<mode, channel, hearing, missed, frame, flag, torn, pc, msg, lock, repeated>>

----------------------------------------------------------------------------
(* The main loop *)

(* The station keys its transmitter and hears nothing any more: the frame   *)
(* it was taking is lost, and dcd stays as it is.                           *)
PutsOnAir(d, f) ==
  /\ air' = [air EXCEPT ![d] = Append(@, f)]
  /\ hearing' = [hearing EXCEPT ![d] = None]
  /\ missed' = [missed EXCEPT ![d] = @ \cup ({hearing[d]} \ {None})]

(* A beacon, weather or telemetry packet, which sets after_tx_lock, or a    *)
(* Modbus status, which does not.                                           *)
SendsOwn(d) ==
  /\ pc[d] = "idle" /\ own < MaxOwn
  /\ own' = own + 1
  /\ PutsOnAir(d, [src |-> d, id |-> own, tracker |-> FALSE, long |-> FALSE, known |-> TRUE,
                   path |-> OwnPath, info |-> own, torn |-> FALSE])
  /\ \/ lock' = [lock EXCEPT ![d] = TRUE]
     \/ UNCHANGED lock
  /\ UNCHANGED <<mode, unsent, dcd, frame, flag, torn, pc, msg, delayCnt, repeated>>

SeesFrame(d) ==
  /\ pc[d] = "idle" /\ flag[d]
  /\ pc' = [pc EXCEPT ![d] = "filter"] /\ dcd' = [dcd EXCEPT ![d] = FALSE]
  /\ UNCHANGED <<mode, channel, hearing, missed, frame, flag, torn, msg, lock, delayCnt, repeated>>

(* The end of digi_process: ax25_new_msg_rx_flag goes off, also when        *)
(* another frame has been decoded meanwhile.                                *)
Done(d) ==
  /\ pc' = [pc EXCEPT ![d] = "idle"] /\ flag' = [flag EXCEPT ![d] = FALSE]

Accepted(d) ==
  /\ ~frame[d].long
  /\ frame[d].tracker \/ mode[d] \notin {"ON_SSID", "VISCOUS_SSID"}

Alias(p) ==
  \/ p = <<"WIDE1-1">>
  \/ Len(p) > 1 /\ p[1] = "WIDE1-1" /\ p[2] \in {"WIDE2-1", "WIDE2-2"}

(* mutant: the path stays as it came *)
NewPathKeeping(d, p) == p

(* The alias becomes the own call and WIDE1*, of WIDE2 one hop is left, and *)
(* what comes after it is cut off.                                          *)
NewPath(d, p) == IF Len(p) = 1 THEN <<d, "WIDE1*">> ELSE <<d, "WIDE1*", "WIDE2-1">>

Unlock(d) ==
  /\ pc[d] = "filter" /\ Accepted(d) /\ lock[d]
  /\ lock' = [lock EXCEPT ![d] = FALSE] /\ Done(d)
  /\ UNCHANGED <<mode, channel, hearing, missed, dcd, frame, torn, msg, delayCnt, repeated>>

Drops(d) ==
  /\ pc[d] = "filter"
  /\ \/ ~Accepted(d)
     \/ Accepted(d) /\ ~lock[d] /\ (msg[d] # None \/ ~Alias(frame[d].path))
  /\ Done(d)
  /\ UNCHANGED <<mode, channel, hearing, missed, dcd, frame, torn, msg, lock, delayCnt, repeated>>

(* The path is rewritten into digi_path; whoever's header is there is taken. *)
Takes(d) ==
  /\ pc[d] = "filter" /\ Accepted(d) /\ ~lock[d] /\ msg[d] = None /\ Alias(frame[d].path)
  /\ msg' = [msg EXCEPT ![d] = [frame[d] EXCEPT !.path = NewPath(d, @), !.info = None]]
  /\ pc' = [pc EXCEPT ![d] = "copy"]
  /\ UNCHANGED <<mode, channel, receiver, lock, delayCnt, repeated>>

(* The payload is copied from the buffer that ax25_poll writes to.          *)
Copied(d, info) == [msg[d] EXCEPT !.info = info, !.torn = @ \/ torn[d]]
InBuffer(d)     == {frame[d].info} \cup (IF torn[d] THEN {None} ELSE {})

(* mutant: no delay before the channel is looked at *)
NoDelay == 0
FixedDelay == Preset

StartsDelay(d) ==
  /\ pc[d] = "copy" /\ mode[d] \in {"ON_ALL", "ON_SSID"}
  /\ \E info \in InBuffer(d) : msg' = [msg EXCEPT ![d] = Copied(d, info)]
  /\ pc' = [pc EXCEPT ![d] = "delay"] /\ delayCnt' = [delayCnt EXCEPT ![d] = FixedDelay]
  /\ UNCHANGED <<mode, channel, receiver, lock, repeated>>

(* In viscous mode the frame is left to digi_pool_viscous. *)
LeavesToViscous(d) ==
  /\ pc[d] = "copy" /\ mode[d] \in {"VISCOUS_ALL", "VISCOUS_SSID"}
  /\ \E info \in InBuffer(d) : msg' = [msg EXCEPT ![d] = Copied(d, info)]
  /\ Done(d)
  /\ UNCHANGED <<mode, channel, hearing, missed, dcd, frame, torn, lock, delayCnt, repeated>>

(* delay_from_preset: delay_random sets the counter once more and returns.  *)
DelayEnds(d) ==
  /\ pc[d] = "delay" /\ delayCnt[d] = 0
  /\ \E n \in Random : delayCnt' = [delayCnt EXCEPT ![d] = n]
  /\ pc' = [pc EXCEPT ![d] = "channel"]
  /\ UNCHANGED <<mode, channel, receiver, msg, lock, repeated>>

(* mutant: digi_msg_len is left as it is *)
Kept(d)    == msg[d]
Cleared(d) == None

(* mutant: the payload is read again when the channel is free *)
SentLate(d) == [msg[d] EXCEPT !.info = frame[d].info]
Sent(d) == msg[d]

(* The end of while(main_ax25.dcd == true).  The ADC interrupt goes on      *)
(* until afsk_txStart stops it, and may detect a carrier in between.        *)
FindsFree(d) ==
  /\ pc[d] = "channel" /\ ~dcd[d] /\ pc' = [pc EXCEPT ![d] = "send"]
  /\ UNCHANGED <<mode, channel, receiver, msg, lock, delayCnt, repeated>>

Repeats(d) ==
  /\ pc[d] = "send"
  /\ PutsOnAir(d, Sent(d))
  /\ repeated' = [repeated EXCEPT ![d] = @ \cup {<<msg[d].src, msg[d].id>>}]
  /\ lock' = [lock EXCEPT ![d] = TRUE] /\ msg' = [msg EXCEPT ![d] = Cleared(d)]
  /\ Done(d)
  /\ UNCHANGED <<mode, unsent, own, dcd, frame, torn, delayCnt>>

Main(d) ==
  \/ SeesFrame(d) \/ Unlock(d) \/ Drops(d) \/ Takes(d)
  \/ StartsDelay(d) \/ LeavesToViscous(d) \/ DelayEnds(d)
  \/ FindsFree(d) \/ Repeats(d)

Next ==
  \/ \E f \in unsent : TrackerSends(f)
  \/ \E d \in Digis, s \in Stations : Opens(d, s) \/ Hears(d, s)
  \/ \E d \in Digis : Loses(d)
  \/ \E s \in Stations : FrameEnds(s)
  \/ Tick
  \/ \E d \in Digis : SendsOwn(d) \/ Main(d)

Spec == Init /\ [][Next]_vars

(* Transmissions end, SysTick goes on, and so does the main loop. *)
FairSpec ==
  /\ Spec /\ WF_vars(Tick)
  /\ \A s \in Stations : WF_vars(FrameEnds(s))
  /\ \A d \in Digis : WF_vars(Main(d))

----------------------------------------------------------------------------
(* Every field keeps its type, and a message waits in digi_msg where        *)
(* digi_process works on one. *)
TypeOK ==
  /\ mode \in Configs /\ unsent \subseteq UNION Traffic /\ own \in 0 .. MaxOwn
  /\ \A s \in Stations : \A i \in DOMAIN air[s] : air[s][i] \in Frame
  /\ hearing \in [Digis -> Stations \cup {None}] /\ missed \in [Digis -> SUBSET Stations]
  /\ dcd \in [Digis -> BOOLEAN]
  /\ \A d \in Digis : frame[d] \in Frame \cup {None} /\ msg[d] \in Frame \cup {None}
  /\ flag \in [Digis -> BOOLEAN] /\ torn \in [Digis -> BOOLEAN] /\ lock \in [Digis -> BOOLEAN]
  /\ pc \in [Digis -> {"idle", "filter", "copy", "delay", "channel", "send"}]
  /\ delayCnt \in [Digis -> Nat]
  /\ \A d \in Digis : pc[d] \in {"copy", "delay", "channel", "send"} => msg[d] # None
  /\ \A d \in Digis : pc[d] # "idle" => frame[d] # None /\ flag[d]

GoesOnAir(d) == pc[d] = "send" /\ pc'[d] = "idle"

(* A digipeater repeats a frame once, whoever else repeats it, and never a  *)
(* packet of its own that comes back to it: no loops among digipeaters.     *)
FrameOnce ==
  [][\A d \in Digis : GoesOnAir(d) =>
       <<msg[d].src, msg[d].id>> \notin repeated[d] /\ msg[d].src # d]_vars

(* What goes on the air is the header and the payload of one frame, unless  *)
(* another one came in before the main loop had copied the payload.         *)
WholeFrame ==
  [][\A d \in Digis : GoesOnAir(d) =>
       LET f == air'[d][Len(air'[d])] IN f.torn \/ f.info = f.id]_vars

(* The digipeater does not take the channel for free while it hears a       *)
(* frame that it knows by its destination, although the main loop clears    *)
(* dcd for frames gone by (main.c:647).  Over any other frame it may        *)
(* transmit: dcd is set for those only once, at the PID, and stays off when *)
(* it has been cleared, although station_config_example.h:157-159 has the   *)
(* software wait for the channel.  And over any frame whose carrier is      *)
(* detected after that, before afsk_txStart (digi.c:232-235).               *)
WaitsForKnown ==
  [][\A d \in Digis : pc[d] = "channel" /\ pc'[d] = "send" => ~Known(d)]_vars

(* A frame that was taken is repeated, unless in viscous mode, or when a    *)
(* carrier is left over that nobody clears: a frame was lost before its     *)
(* end and no flag is heard any more, so that digi_process stays in its     *)
(* wait for the channel.                                                    *)
Stuck(d) == pc[d] = "channel" /\ dcd[d] /\ hearing[d] = None

TakenIsRepeated ==
  \A d \in Digis :
    mode[d] \in {"ON_ALL", "ON_SSID"} /\ msg[d] # None ~> (msg[d] = None \/ []Stuck(d))
=============================================================================
