# ParaTNC: a TLA+ model of the firmware

ParaTNC is the firmware of an STM32F100 board that is an APRS digipeater, a KISS
modem and a weather-station controller: it sends and receives AX.25 packets over
a radio as AFSK tones, talks KISS to a host computer, and polls weather sensors
over RS-485 (UMB, Modbus RTU), a Davis Vantage console, DHT22, I2C and analogue
inputs.  There is no operating system: one main loop (`src/src/main.c`) polls
every component, and interrupts of different priorities preempt it and each
other (`src/src/it_handlers.c:28-68`).  Nothing is locked; what is shared is a
struct with a state field, a flag, or a ring buffer.

This directory holds TLA+ models of the components, the TLC configurations that
check them, and proofs that TLAPS checks.  `PROJECT.json` maps every definition
to the lines it was translated from.

    tlc -workers 2 -config MCSerialRx.cfg MCSerialRx     # check a model
    tlapm SerialRx_proofs.tla                            # check the proofs of a module

## The system's parts

| Part (sources) | State | Operations | Works with | What makes it correct |
|---|---|---|---|---|
| Serial driver (`drivers/serial.c`) | one `srl_context_t` per USART: buffers, byte counters, rx and tx state, timeouts | open, close, receive (3 variants), send (2 variants), wait, timeout and delay switches | every wired client; SysTick keeps its timeouts, the USART interrupt moves its bytes | no byte outside a buffer; every reception and transmission ends; a completed frame stays untouched; the bus driver follows the transmission |
| Byte FIFO (`include/aprs/cfifo.h`) | buffer, head, tail | put, get, flush | transmit FIFO (main loop to DAC interrupt) and receive FIFO (ADC interrupt to main loop) | it is a queue, without a lock |
| AFSK transmitter (`aprs/afsk.c`, `aprs/ax25.c`) | `sending`, preamble, trailer, the current byte, tone phase | send a frame, start, the DAC interrupt | digipeater, beacons, KISS host, weather packets | frames leave whole and in order, the transmitter goes off after the last |
| AFSK demodulator and HDLC receiver (`aprs/afsk.c`) | filters, shift registers, HDLC bit counters, receive FIFO | the ADC interrupt | AX.25 reception | frames between flags are passed on whole or not at all |
| AX.25 reception (`aprs/ax25.c`) | frame buffer, CRC, the shared message and its flag | `ax25_poll`, `ax25_decode` | main loop | a frame with a good CRC is delivered once |
| KISS host interface (`src/KissCommunication.c`) | the serial port's buffers | frame to host, frame from host | serial driver, AFSK transmitter | what is framed on one side is unframed on the other |
| Digipeater (`aprs/digi.c`) | mode, message buffer, lock after an own transmission | `digi_process`; the viscous check and pool, which nobody calls | AX.25 reception, AFSK transmitter, the delay of `src/delay.c` | a frame is repeated at most once, whole, and on a free channel |
| Modbus RTU master (`modbus_rtu/`) | pool state, queue position, error counter, register data | start of a cycle, `rtu_serial_pool` | serial driver, main loop, status message, restart | registers hold the reply of the slave they belong to; a cycle asks every slave and ends |
| UMB master (`umb_master/`) | state, current routine and channel, ages of the last success, timeout and error, quality factor | poll, callbacks, status and channel requests | serial driver, weather handler, supply | a request is answered or given up; a value belongs to its channel; silence is told |
| Davis client (`davis_vantage/`) | a global state and one state for each of three exchanges | wake-up, LOOP, RXCHECK poolers | serial driver | one exchange at a time; the flag means a packet; packets come again |
| VE.Direct client (`ve_direct_protocol/`) | averages | parse, average | serial driver | text parsing |
| Packet scheduler (`src/packet_tx_handler.c`) | minute counters, intervals | one step each minute | all packets | every packet is sent at its interval |
| Weather handler (`src/wx_handler.c`) | values, quality factors, the power of the sensors | poll sensors, power reset | every sensor | a stale value is never reported as good; no reset loop; a reboot means a fault |
| I2C master (`drivers/i2c.c`) | state, counters, error counter | send, receive, event and error interrupts, timeout | MS5611, BME280 | a transfer ends and tells how |
| Thermometer (`drivers/dallas.c`) | the counter it shares with the DHT22 | query, blocking | weather handler, telemetry | the query ends; the modem goes on after it |
| DHT22 (`drivers/_dht22.c`) | state, bit counter | start, edge interrupt, decode, timeout | weather handler | forty bits or an error; an old value is not valid |
| Analogue anemometer (`drivers/analog_anemometer.c`) | times of the pulses, interval, flags of corrections | DMA and timer interrupts, quality factor | weather handler | the interval is a true one; a steady wind is measured |

The behaviours that are hard here are interrupts that fall between two stores of
an unlocked update; the order of stores that announce a state and stores that
prepare it; timeouts in SysTick that race the interrupt they guard; replies of
slaves that are late, garbled or of another slave; polling loops without a
timeout in the main loop; eight- and sixteen-bit counters; and full buffers.
`PROJECT.json` lists each as a hazard at its line.

## The modules

| Module | Models |
|---|---|
| `Reception` | what the receiving half of the serial driver promises its clients (abstract) |
| `SerialRx`, `SerialRxProps`, `MCSerialRx` | the receiving half of the serial driver and its refinement of `Reception` |
| `SerialRx_proofs` | its types, the buffer bound, the one step in which a reception goes deaf, that a completed frame stays and that it implements `Reception`, proved |
| `Transmission` | what the transmitting half promises its clients and the bus (abstract) |
| `SerialTx`, `SerialTxProps`, `MCSerialTx` | the transmitting half, with the transmit registers of the USART, and its refinement of `Transmission` |
| `SerialTx_proofs` | its types, the buffer bound, that it implements `Transmission`, which steps leave its interrupt unserved and that it goes on, proved |
| `BoundedQueue` | what a byte FIFO promises (abstract) |
| `ByteFifo`, `MCByteFifo` | the ring buffer and its refinement of `BoundedQueue` |
| `AfskTx`, `MCAfskTx` | the AFSK transmitter: framing, keying and the DAC interrupt |
| `Transmit_proofs` | the refinement of the FIFO; that the frames reach the air, none stays behind and nobody waits for a transmitter that is off; proved |
| `HdlcLink`, `MCHdlcLink` | the bits of the AFSK transmitter, the HDLC receiver and `ax25_poll` behind it |
| `Digi`, `MCDigi` | several digipeaters on one channel: `digi_process`, the received frame it shares with the receiver, dcd, the delay |
| `Channel_proofs` | of `Digi` no loops, no mixed frames, that a channel with a known frame on it is not found free and no message left behind, for every network; of `HdlcLink` its types, that an undisturbed frame is heard and that there is no carrier without a frame, for every frame; proved |
| `ModbusMaster`, `MCModbusMaster` | the Modbus RTU master, with the part of the main loop that drives it |
| `ModbusMaster_proofs` | its types, whose registers are whose, that a cycle is whole and that it waits for a port at work, proved |
| `WxPower` | the supply of the weather sensors and the timers of the last good measurements |
| `UmbMaster`, `MCUmbMaster` | the UMB master and the port it shares, on top of `WxPower` |
| `UmbMaster_proofs` | that it implements `WxPower`, that the supply is not taken away over and over, whose channel a timer is and that silence is told, proved |
| `Davis`, `MCDavis` | the Davis client: two poolers under one lock |
| `Davis_proofs` | its types, its lock, that it comes back, and its flag, proved |
| `I2cMaster`, `MCI2cMaster` | the I2C driver, with its three interrupts at their priorities |
| `WxSensors`, `MCWxSensors` | the DS18B20 and the DHT22 on one timer, what the weather handler and the telemetry make of them, the Modbus slave beside them, and resets |
| `Anemometer`, `MCAnemometer` | the speed of the analogue anemometer: timer, DMA, their interrupts and the quality factor |
| `Sensors_proofs` | of the I2C driver its types, that a success is one and that a transfer is timed; the safety of `WxSensors`, with the timer that is waited for, and of `Anemometer`; proved |

### SerialRx

One `srl_context_t` is preempted at two levels: the main loop arms a reception
(`srl_receive_data` and its variants), the USART interrupt (priority 9 or 10)
takes the bytes, and SysTick (priority 5) preempts both and applies the
timeouts.  The arming functions are therefore split at each of their stores
(`mpc`: state, waiting start, counter, length, timeout, enable), in the order of
the source, and the interrupt at the one place where SysTick can make a
difference (`ipc`: the branch chosen by the state, then its effect).  Bytes are
small numbers, because the driver compares them with the triggers and reads one
of them as a length.  Times are ages in SysTick periods, cut off at
`TimeoutTicks + 1`, since only the comparison with the limit matters.  `protocol`
is the set of requests that the clients of this port make; `MCSerialRx` lists
those of the firmware with lengths scaled to the buffer.  A callback of
`srl_receive_data_with_callback` may end the frame at any byte.  An idle line and
an overrun are flags of the port: the handler discards the byte with them.  Either timeout
may be switched on and off between two receptions or within one (`SrlSwitchTimeout`,
`SrlSwitchTimeoutForWaiting`).

`Seen` is the refinement mapping to `Reception`: a client sees nothing of the reception
while it is being armed, and while the interrupt takes a byte what it saw before.  The
store of the byte and the counter is the abstract `Takes`, the end of a
reception that has nothing left to take `Ends`; a timeout that falls between the halves of the
interrupt is seen when the byte is.

Left out: the echo option, the statistics counters, the two waiting functions
(they only poll).

### SerialTx

`srl_start_tx` and `srl_send_data` change CR1 with a load and a store; the
interrupt that ends a transmission can fall between them.  The data register, the
shift register and the flags TXE and TC are modelled as the reference of the USART
has them and as the code uses them.  The bytes are counted.  `sent` counts those
that really left the shift register.  The start functions are taken to be faster
than one byte on the line (1 ms at 9600 baud).

A start function refuses only a port that is sending (`serial.c:166`, `238`), so a frame that
still waits for its delay may be asked for again (`SrlStartTx` from WAITING, `WaitAgain`).
If SysTick begins it between the test of the state and its store, the store takes the
state back and the frame is cut short (`cut`).  `srl_send_data` knows no delay; only the
Davis client calls it, on the first port (`main.c:325`), whose delay is never switched on.

`Transmission` knows nothing of registers and enables: a phase, a length, whether the frame is
`broken` off, the bytes that are out and the driver of the bus.  It is implemented with the
state, the length asked for, `cut`, `sent` and the driver's pin; the other stores of the start
functions, the fetching of a byte and its move into the shift register stutter.

### ByteFifo

A push is two steps, the byte and the pointer; the consumer, in an interrupt, may
come between them.  `Contents` is the refinement mapping: the slots from head to
tail.  The step that publishes the byte is the abstract `Put`; the step that
stores it stutters.

### AfskTx

The main loop puts a frame into the FIFO byte by byte, the flags (`PutFlag`), the
escape before 0x7E, 0x7F and 0x1B (`PutEscape`, `ax25_putchar`) and the bytes (`PutByte`),
and then calls `afsk_txStart`, split at its stores; the DAC interrupt takes a
byte whenever it has sent the one before, in `DacPreamble`, `DacTakes`,
`DacTrailer` and `DacStops`, in the order of the code's tests, and may come between
any two bytes that are put.  The FIFO is the
queue that `ByteFifo` implements.  A byte is `plain` or `special`: nothing else
about it decides what happens.  A special byte whose escape met a full FIFO is read
for a flag, a reset or an escape (`ReadAs`).  A byte takes 6.7 ms on the air, in which the
main loop puts hundreds: `Pace` is how many it puts at least between two that are taken.

### HdlcLink

Two stations, and one bit for each step: `SendBit` is `AFSK_DAC_ISR` where it begins
a bit (the next byte, the stuffing, the mask), `Hear` is `AFSK_ADC_ISR` where the
bit clock closes a bit, with the four ways through `hdlc_parse` and then
`ax25_poll`, which the same interrupt calls every third sample, eight samples
making a bit.  So the receive FIFO holds two bytes at most and is not seen.  A 0
switches the tone and an edge is read as a 0, so the line carries bits.  It may
get one of them wrong at any time, also between the frames, or lose the station
from one bit on, after which no edges are heard.  An escape and the byte behind it,
which the DAC interrupt takes together, are one element of the transmit FIFO.  Frames are short sequences of
real bytes, because stuffing, escaping and carrier detection look into them; the
checksum is part of them, and it is good for what was sent and for nothing else.
Left out: the correlator, the bit clock, the tone.

### Digi

A network: every station has a queue of frames on the air, and a digipeater that
does not send may begin to hear one (`Hears`), at the point where `ax25_poll` detects
the carrier.  The flags before a frame put out a carrier that was left over (`Opens`); the flag
behind it does so for those who still listen (`FrameEnds`), any of whom may have got it whole.
Who loses the station in between (`Loses`) keeps its dcd, since only a flag, a reset or an
overflow clears it, unless the noise looks like one, and hears no more of this frame (`missed`).
So collisions, fading and hidden stations are frames that somebody does not get.
`digi_process` is split where the interrupt can make a difference: the flag is seen
and dcd cleared (`SeesFrame`), the header is tested and the path rewritten (`Takes`,
`Drops`, `Unlock`), the payload is copied from the receiver's buffer (`StartsDelay`),
the delay ends, the channel is found free (`FindsFree`) and the transmitter is keyed
(`Repeats`); a carrier detected between the last two is transmitted over.  The reading of one
header is one step.  The interrupt could fall into it as well, and would mix two headers
instead of a header and a payload.  A tick is longer than a byte: the
carrier of a frame whose destination begins with an A is detected again at each byte
(`Known`), that of any other frame once.  Calls in a path are members of a small
set; a payload is the number of its frame, or `None` for a mixture.  Payloads are
taken to hold no zero byte, at which `snprintf` would cut them.

`digi_check_with_viscous` and `digi_pool_viscous` are commented out in `main.c`
(651, 795), so in the viscous modes the first frame taken stays in the message buffer
for ever and no other is taken (`LeavesToViscous`); `TakenIsRepeated` leaves these modes out.

### ModbusMaster

One action for each state of `rtu_serial_pool`, preceded by `PoolEntry` (the error
status and the wrap of the queue) and followed by the rest of the main loop, which
may start a new cycle (`SerialStart`) and, at its top, obeys the restart request
(`Reset`).  The port is what its client sees of `SerialRx` and `SerialTx`.  A reply
is a record of the element it answers, how many registers it was asked for and what
the parser makes of it; it stays in `late` until it arrives or is lost, so a
reply can arrive while the reply to another request is awaited.

Left out: the CRC and the length check of the termination callback, the decoding
of registers, the success and error statistics of the telemetry.

### WxPower

`wx_pwr_periodic_handle` takes the power of the sensors away when the wind or the
temperature has not been good for `WX_WATCHDOG_PERIOD` (90 s), for one round of the
handler (UNDER_RESET), and starts both timers again.  A timer is kept as its age.
Whatever refreshes the timers does it by `UpdateLastMeasurementTimers`, so the
module is also the abstract specification of the supply, with any source of
measurements: `UmbMaster` is shown to implement it.  Left out: the quality factor of the wind,
which the handler sets to degraded (`wx_handler.c:660`).

### UmbMaster

A round of the main loop is RADIO (a frame heard is passed to the KISS host),
RECEIVE, TRANSMIT (the pooling handler with the port's receive and transmit state),
STATUS (the quality factor and the supply) and POOLS (the timer of the weather
measurements triggers a routine; each of the two routines sends its request).  The
channel pool is a place in the list of channels and the channel last asked for,
which `umb_channel_pool` moves even when the request is refused.  `shared` is the
first board revision, where the KISS host and the bus have one port, so that a radio
frame may take the transmit buffer under a request.  Such a port comes into the main loop with
the beacon on its way (`main.c:523`) or with nothing, and with a reception armed for a frame of the
host (`main.c:570`, `rx` = KISS), which the answers of the bus may start.  On the later revisions the
bus has its own port, but the request is still written into the buffer of the
first one.  The slave may answer, answer an error, answer late, answer for another
channel, answer garbled or in part, or not at all.  A tick is ten seconds.

### Davis

Both poolers are one action each for every state, with `davis_global_state` as the
lock and a trigger for each.  LOOP stays in RECEIVING after a complete packet and
sets the flag again in each round, so the RXCHECK exchange in between is what the
model is about: it uses the buffer and the length of the port, and its parser
spoils a LOOP packet that is still in the buffer (`*input = '\n'`,
`davis_parsers.c:255`).  A console that stays mute keeps the lock until the next
trigger of the same query.  Radio frames overwrite a command, as in `UmbMaster`.  The
reception armed for the KISS host before the main loop (`main.c:570`) is still there when the
first query is sent.  It waits for a 0xC0, which a LOOP packet, being binary, may contain
(`StartsKissFrame`); from there on the answer is taken for a frame of the host, and when it
ends, the pooler takes it for its own (`EndsKissFrame`).

### I2cMaster

The main loop starts a transfer and waits in a loop on `i2c_state`; the event
interrupt (priority 2), SysTick with the timeout (5) and the error interrupt (11) end
it.  Each is split where one above it makes a difference: the wait for STOP, which
the event interrupt makes above SysTick; the load and the store of the error
interrupt's counter; the stores after `i2cStop`.  The flags of SR1 are those the
handlers look at.  A slave may refuse its address, refuse a byte, disturb the bus or
hold the clock for good.  That the last byte was refused is never noticed: the
driver is at its end by then.

### WxSensors

Both sensors use `delay_5us`, which TIM2 counts down, and both mask the interrupts
of the modem while they use it.  The query of the thermometer stands in the main
loop until the counter has run down; the DHT22 is started by the main loop, counted
edge by edge by EXTI4, and given up by a keeper in the main loop that tests the state
and the timer and then stores.  `exti_disable` of the DHT22 is never configured, so the
keeper leaves the interrupt on.  A query that began while a DHT22 transfer is open
would wait for a timer that the last edge has switched off; nothing in the code
excludes it but the 65 s between queries and the 13 s after which the watchdog
(`main.h:13`, `main.c:404-421`, `819`) restarts a station whose loop does not go
round.  `calm` counts the quiet rounds that stand for these times.  The temperature goes
on to its slew-rate check, the request to reboot, the two quality factors and the
telemetry; a Modbus slave may give the temperature instead.

### Anemometer

TIM17 counts milliseconds, the DMA stores its value at each pulse, and after ten
pulses the DMA interrupt makes an interval of them, starts the DMA again and then
sets the timer to zero (`RESTARTED` is the time between the two).  `it_handlers.c`
sets no priority for this interrupt nor for that of the timer, so both have the
highest and neither preempts the other; the DMA and the timer go on in either.  The
arithmetic of a batch (differences modulo 2^16, debouncing, the limit of the slew
rate, the second shortest and the second longest) is taken from the code, at a small
scale.  Two pulses within one count make an interval of 0, which is a bounce like any below the
limit.  `analog_anemometer_get_qf` reads the flags of the corrections one after the other and
clears them one after the other (`GetQfStarts`, `GetQfTests`, `GetQfClears`, `GetQfReturns`),
and the interrupt may come between any two.  The wind is gusty at first, with pulses at any time, and may become steady.
Left out: the direction, and the averages of `wx_pool_anemometer`.

## What the runs check

| Run | Properties | States | What it shows |
|---|---|---|---|
| `serial_rx` | `BufferNeverOverrun`, `ImplementsReception`, `ReceivingMeansListening`, `ReceptionEnds` | 559 214 | four ports (KISS, KISS shared with UMB, Davis/VE.Direct, Modbus), every interleaving of arming, bytes, overruns, idle lines and SysTick |
| `serial_tx` | `NeverPastBuffer`, `InterruptIsServed`, `ImplementsTransmission`, `TransmissionEnds` | 1 688 | a transmission waits, is asked for again, sends its frame, ends, and holds the bus exactly as long |
| `byte_fifo` | `ImplementsQueue` | 1 344 | the ring buffer implements the queue |
| `afsk_tx` | `FramesOnAir`, `NothingLeftBehind`, `TransmitterGoesOff` | 49 217 | frames put before, during and at the end of a transmission |
| `hdlc_link` | `UndisturbedHeard`, `HeardInOrder`, `DcdGoesOff` | 1 274 066 | pairs of ten frames that look like flags, resets and escapes, a disturbance at every bit |
| `digi` | `FrameOnce`, `WholeFrame`, `WaitsForKnown`, `TakenIsRepeated` | 127 415 | two digipeaters in three modes, a tracker's frame, a packet of their own, stations that fade: no loops, no mixtures, no frame forgotten |
| `modbus` | `RegistersOfItsSlave`, `CycleAsksAll`, `CycleEnds` | 681 598 | replies late, garbled, refused or missing, cycles started over, restarts, both I/O modes |
| `umb_master` | `TimerOfItsChannel`, `NoResetLoop`, `PollEnds`, `SilenceIsTold` | 748 854 | a slave that answers, errs, is late, garbled, cut off or mute, on a port of its own or a shared one, with the supply |
| `davis` | `LockOwnsPort`, `FlagMeansPacket`, `PacketsComeAgain` | 85 796 | triggers at any state, a silent or late console, radio frames in between |
| `i2c` | `SuccessIsReal`, `TransferEnds` | 46 271 | event, error and timeout at their priorities; refusals, bus errors, a held clock |
| `wx_sensors` | `ModemMaskedByExchange`, `HumidityIsCurrent`, `ToldIsEarned`, `RebootMeansJump`, `ExchangesEnd` | 260 966 | edges missed and added, silent sensors, jumps, a Modbus slave, the watchdog and requested restarts |
| `anemometer` | `MeasuredBetweenGaps`, `SteadyWindIsMeasured`, `FullMeansUncorrected` | 3 190 005 | every phase of pulses, timer and interrupts, gusts, bounces and lulls, the flags read in between, then a steady wind |

The type invariants are not among the runs: `TypeOK` is proved, for all constants, for
the serial driver, the FIFO, the transmitter, the Modbus, UMB, Davis and I2C clients, the
digipeater and the line.

Properties that were first stated more broadly, and where the model showed why they
cannot be, keep the exception in their comment: `ReceivingMeansListening` (one step: the interrupt
stores SRL_RXING over a timeout that came after it had chosen its branch), `ReceptionEnds`
(the client switches the timeout off, or the one for the first byte before a further byte),
`ImplementsReception` (the instant timeout), `ImplementsTransmission` (a length that does not
fit the buffer, a frame cut short), `InterruptIsServed` (the late store of CR1 behind a frame of
one byte, a frame longer than the buffer or cut short), `TransmissionEnds` (asked for again and
again while it waits), `FramesOnAir` (a full FIFO), `HeardInOrder` (a frame whose last flag was lost is heard at
the first flag of the next one), `DcdGoesOff` (a station that fades), `WholeFrame`
(another frame came in first), `WaitsForKnown` (frames known by their destination
only, and only at the test of dcd), `TakenIsRepeated` (a carrier left over that no flag clears), `RegistersOfItsSlave` (two elements of one slave), `TimerOfItsChannel` (a refused
request, a late reply), `PollEnds` (a reply that does not parse or stops after its
start byte), `LockOwnsPort` and `FlagMeansPacket` (the reception of
the KISS host is still armed; RXCHECK came in between), `SuccessIsReal` (a counter left
by the transfer before), `TransferEnds` (a held clock), `RebootMeansJump` (the first
reading that is used), `MeasuredBetweenGaps` (a pulse or the end of the timer within the
interrupt), `SteadyWindIsMeasured` (the timer runs round within the interrupt again and
again), `FullMeansUncorrected` (a batch whose interrupt falls into the call that reads the flags).

### Bounds

* `SerialRx`: a buffer of five bytes holds a length byte that fits, one that does
  not, and a frame of each length around the limit; byte values 0 to 3 are the
  two triggers, the terminator 0 and lengths that, with the modifier 3, fall on both
  sides of the limit; a timeout of one tick is new, about to pass or long since past.
* `SerialTx`: lengths -1, 1, 2, one in the middle, the largest accepted and the
  first refused; two ticks of delay.
* `ByteFifo`: four slots are empty, full, wrapped and in between; two byte values.
* `AfskTx`: three frames, so that one is put into an idle transmitter, into a busy
  one and behind another; nine bytes of FIFO hold two short frames and not three,
  so bytes do get dropped; two flags of preamble and trailer; two bytes put,
  at least, while one is on the air, so that a frame is taken while it is put.
* `HdlcLink`: a buffer of three bytes and a minimum of two, so that there are frames
  that are too short and too long; two frames, one disturbance, one flag before and
  behind a frame.  The bytes put ones at the end of a byte, at its start, across two
  bytes and before the closing flag.  One wrong bit makes none of the frames into
  another, as the checksum would see to.
* `Digi`: two digipeaters, one for every frame and one for trackers or viscous, so that
  either can hear the other's repetition; frames of the three paths that are repeated,
  one of a station that is no tracker, one too long, with known and unknown destinations, one
  of them and one packet of a digipeater's own in a run, with what is repeated of them, so
  that one comes in while another is worked on; one tick of delay.
* `ModbusMaster`: three queue elements, two of one slave, and a queue that ends early;
  two errors trigger the status and the counter is three bits wide, so the
  restart comes after a few cycles; one cycle is started over and one reply is late
  at a time.
* `UmbMaster`: two stations, one with the channels of both measurements and one
  with an empty place and no wind; the watchdog after three ticks and "ten minutes" after one, so
  that each can pass before the other's event; one radio frame and one reply under way,
  which may be late.
* `Davis`: an RXCHECK every third LOOP, so that packets come alone and beside
  it; two radio frames and three faults, one for each state of an exchange.
* `I2cMaster`: one byte, three bytes, two bytes to receive: the first byte is the last,
  or is not; a timeout of one tick, which passes or does not; five errors before the
  driver gives up.
* `WxSensors`: three edges instead of 41, so that there is a first, a middle and a
  last one; one tick of interrupt and of waiting; three quiet rounds; two faults;
  temperatures 28, 38 and 41, which differ by no jump, a jump, and more than a jump.
* `Anemometer`: three pulses to a batch, so that two intervals are compared; a period of
  seven and a width of ten, so that the timer ends before its number does; a steady
  wind of 2, whose batches fit into a period, and one of 4, whose batches do not.
  Winds between the two, whose batches may or may not fit, are not claimed anything of.

### Fairness

Weak fairness only, of what the hardware and the loop do by themselves: SysTick goes
on; an interrupt that is raised is served; a byte in the shift register leaves it;
the main loop goes on with what it has begun (functions have no unbounded loops
apart from the polls that are the properties' subject); bits follow each other on
the line, silent or not; a transmission comes to its end; the main loop of the
weather station goes round, and its timers run down; the I2C interrupts are served and
the caller that waits looks at the state; TIM2 counts while it is on.  A steady wind
is assumed to go on turning the cups (`SteadyWindIsMeasured` only), and the DHT22 to
send the edge it owes or miss it.  That the main loop goes round is enforced: the
watchdog restarts a station whose loop hangs for 13 s.  `PacketsComeAgain` rests on
the bound of faults: from some time on the console answers.  No fairness is assumed
of bytes that arrive, of stations that send or fade, of slaves that answer or of clients that ask.

## What is proved

`SerialRx_proofs` proves `Spec => []TypeOK` (`TypeCorrect`) and
`Spec => []BufferNeverOverrun` (`BufferSafe`) for every buffer length, timeout and set
of protocols that satisfies the module's assumptions.  `BufferNeverOverrun` is not
inductive.  The state is stored first and the counter and the requested length
after it, so a byte that arrives in between is stored at the counter, and up to
the length, *of the reception before*.  The inductive invariant `IInv` therefore
adds two parts to `TypeOK`.  `ArmedLength`: while an arming function has the length
still to store, that length fits the buffer.  `CounterInside`: the requested
length in force always fits; the counter is below the buffer length except
between the store of the state and its clearing; and wherever a start byte may
be counted (the state is WAITING_TO_RX, or the interrupt has just read it) it is
still below it then and 0 afterwards; an interrupt in its receiving branch excludes a
state WAITING_TO_RX.  `ReceptionListens` (`ReceivingMeansListening`: of all steps only the
interrupt's store of SRL_RXING behind a timeout leaves an armed reception, waiting or in progress,
without its receiver or interrupt, and that on a port with `TimedStart`) and `FrameStaysUntouched` (the interrupt adds nothing to a completed frame) rest on a second
invariant, `ListenInv`: what the state says of the receiver, its interrupt and the timeouts
at each store of an arming function and in each branch of the interrupt.

`ReceptionImplemented` (`Spec => ImplementsReception`) puts these together: each step of the
driver is one of `Reception` or leaves what a client sees alone.  The hard cases are those
where SysTick ends a reception between the two halves of the interrupt, and the interrupt
then finishes what it began: `ListenInv` shows that its branch was chosen for a state that
nothing but the timeout can have changed since.  `StateStored` adds that the state an arming
function leaves behind is not that of a closed port and that no timeout runs on an unused one.

`Transmit_proofs` proves of `ByteFifo` `TypeCorrect`, `RoomForStoredByte`
(`Spec => []StoredByteHasRoom`) and `FifoIsAQueue` (`Spec => ImplementsQueue`) for
every size and every set of bytes.  The proof shows that the initial states map to
the empty queue and that each step maps to the abstract one: storing a byte leaves
`Contents` as it is, because the slot is outside head to tail; moving the tail
appends it; taking one removes the head; around the end of the buffer each is a
case of its own.  `StoredByteHasRoom` is what makes moving the tail an abstract
`Put` and not an emptying of the buffer.

Of `AfskTx`, which uses this queue, it proves `AfskTypeCorrect`, `NoneLeftBehind`
(`NothingLeftBehind`) and `FramesReachAir` (`FramesOnAir`) for all frames, every capacity and
every number of flags.  `OnlyUnkeyedEmpty` says where in `afsk_txStart` a transmitter
may be off with bytes in its FIFO: only until the main loop's own test of `sending`.  For the
frames, `Stream` reads the transmitter as one line of bytes: the frames on the air, what
is on the air since the last flag, what the FIFO holds and what the main loop has
still to put are, in this order and with the escapes taken away, the frames handed over.
Putting a byte moves it from the last part to the one before, taking it moves it on; a flag
ends a frame.  Nothing is asked of the pace: the interrupt may take bytes at any time.
`NobodyWaitsUnkeyed` (`SendingMeansKeyed`): `sending`, on which `main_wait_for_tx_complete` loops, is on
exactly while the timer runs whose interrupt takes it off, or is about to be started.

`SerialTx_proofs` proves `TypeCorrect`, `BufferSafe` (`NeverPastBuffer`),
`BusHeldAsLong` (the RS-485 driver is on only while a transmission goes on) and
`FrameIsComplete` (what is reported as ended is out) for every buffer
length above one, every delay and every set of lengths.  The invariant keeps an
account of the bytes: while a transmission goes on, those that left the shift
register, the one in it and the one in front of it are those fetched from the
buffer (`Accounted`); the interrupt polls for the end only when all have been fetched
(`PollsAtEnd`); and nothing of a frame that fitted is left in the registers at rest.
`StartInv` says what `srl_start_tx` has already stored at each of its steps; with it
`InterruptServed` (`InterruptIsServed`) follows: the interrupt comes to be enabled with nothing to
serve only where a store of CR1 follows the end of a frame of one byte, or by a frame that
does not fit or is cut short.

`TransmissionImplemented` (`Spec => ImplementsTransmission`) follows from the account: `sent` grows
by one where a byte leaves the shift register, which is the abstract `ByteOut`, and the interrupt
that finds TC with all bytes fetched has nothing left in the registers, which is what the
abstract `End` asks.  `TransmissionGoesOn` (`GoesOn`) says that a transmission never waits for
nothing: a delay has its start time stored or about to be, an interrupt that is to come is enabled,
and the loop of the interrupt on TC has a byte on the line or TC itself.

`ModbusMaster_proofs` proves `TypeCorrect` and `RegistersStayWithSlave`
(`RegistersOfItsSlave`) for every queue, every configuration and any number of late
replies.  The invariant follows a reply from its request: the element in use is one of
the queue (`ElementInUse`), it does not change while the request is sent
(`RequestOfElement`), and each reply on its way has as many registers as an element
of its slave asks for (`RepliesFit`).  `CycleIsWhole` (`CycleAsksAll`) adds that the elements
asked for since the queue was rewound are those before the one in use.  `NoIdleWait`
(`WaitsForItsPort`): in the loops without a limit and in the two states of the pooler that wait, the
port is at work for the pooler or has ended, also when a cycle is started over or the station
reboots in the middle of an exchange, because the blocking exchange begins with the pooler
idle (`BlockingFromIdle`).

`Channel_proofs` proves of `Digi` `TypeCorrect`, `NoLoops` (`FrameOnce`) and `HeaderFitsPayload`
(`WholeFrame`) for any number of digipeaters and trackers.  A frame whose path still
begins with an alias is an original, and each is on the air once; a repetition
begins with a call, so nobody takes it.  What a digipeater takes is therefore either
new to it or still under `digi_process`.  For the payload, a second invariant says
what each copy of a header and of a payload is a copy of, and that a frame that came in
meanwhile marks the one under work as torn.  `ChannelAwaited` (`WaitsForKnown`: the
wait for the channel does not end while a known frame is heard) holds for every delay above
zero (`Preset > 0`, as the firmware has it): with none, no byte would follow the clearing of
dcd and detect the carrier again.  `NothingLeftWaiting` (`WaitsUnderWay`): outside the viscous
modes a message stands in the buffer only while `digi_process` works on it, so the next frame
is not dropped for it.

Of `HdlcLink` it proves `LinkTypeCorrect` and `UndisturbedIsHeard`
(`LinkSpec => []UndisturbedHeard`) for every frame of any bytes
between the minimum and the buffer's length, any number of flags before and behind it, any other
frames and disturbances before it, and whatever the receiver made of those.  The invariant
`LinkInv` follows the frame put last, while its bits go out undisturbed, through five phases: the
flags before it (`Opening`), between two bytes (`Between`), within one (`InByte`), its last flag
(`Closing`) and heard (`Closed`).  Within the frame the sender's `stuff_cnt` is the
number of ones at the end of the receiver's `demod_bits` (`OnesCounted`), at most five.  So the
receiver takes for stuffed exactly the zeros that were, and finds neither a flag nor
seven ones in a byte; its `currchar` is what was sent of the byte so far (`Shifted`).  In the flags
nothing is stuffed, and the receiver may be a bit behind (`FlagBits`), because their first zero may
follow five ones and look like a stuffed one; the flag sets it right.
`CarrierWithinFrame` (`CarrierInFrame`): whatever is heard, the carrier is detected only within a
frame of which a byte has come; each of the flag, the reset, the escape and the byte that does
not fit either leaves the carrier as it is or takes it away with the frame.

`UmbMaster_proofs` proves `DrivesSupply`, that `UmbMaster` implements `WxPower`
(`Spec => PwrSpec`: each step is one of the supply or leaves it alone), and with it
`StationNeverLoops` (`NoResetLoop`): no timer is older than the time since the last
reset, because a reset restarts both, so after one a whole period passes before
the next.  It holds for every list of channels and every behaviour of the bus.
`TypeCorrect` and `PwrTypeCorrect` are the types of both.  `TimerIsItsChannels`
(`TimerOfItsChannel`): a reply that is neither late nor replaced belongs to the
channel the pool asked for last, from the request to the refreshing of the timer.
`SilenceToldInTime` (`ServedSilenceTold`): from ten minutes of silence on the quality factor says so as
soon as the pool of ten seconds has been served, whatever else the bus does; no error that
comes after the silence improves it.

`Davis_proofs` proves `TypeCorrect`, `LockIsWorthItsName` (`LockOwnsPort`) and
`FlagIsTrue` (`FlagMeansPacket`) for any number of faults and frames: who sends a command
has the lock; the flag is down from the command to the packet; with the lock LOOP
finds its own answer or none, and without it the packet it took, until RXCHECK.  As long as the
reception armed for the KISS host is there, neither has been received for (`KissWaits`).
`LockIsGivenBack` (`HolderGoesOn`): who has the lock has a command to send, or awaits an answer
that is being received or has ended; who gave up or is done has given it back.

`Sensors_proofs` proves of `I2cMaster` `TypeCorrect` and `SuccessReachedSlave` (`SuccessIsReal`)
for every timeout, number of errors and lengths up to 31: when no transfer is under
way the peripheral raises no interrupt and no handler is halfway, and a transfer no
slave has heard of has made no progress the event interrupt could take for its end.
`TransferIsTimed` (`TimeoutInTime`): a transfer under way is no older than the timeout, unless SysTick
is just giving it up; one that the error interrupt starts again is given no more time.

Of `WxSensors` it proves every safety property, for every number of edges, waits and
faults, all temperatures and every set of the slave's answers.  `MaskedByExchange`
(`ModemMaskedByExchange`) is inductive as it stands.  `HumidityCurrent`
(`HumidityIsCurrent`) is not: it needs that a transfer that went wrong is decoded as
such (`BadIsDecodedBad`), that the keeper is overtaken by the last edge only
(`KeeperOfOpen`), and that no query meets a timeout the pool has not looked at yet
(`UnlookedTimeout`).  The last rests on `StartedByQuery`: a transfer is started in the
round of a query, when the next one is not due; this is where `CalmRounds` must not be
zero.  `ToldEarned` (`ToldIsEarned`) keeps what each of the two quality factors is worth
alone (`Earned`); `RebootsOnJump` (`RebootMeansJump`) that the stored temperature is within
a degree of the last reading (`StoredIsNear`).

`NobodyWaitsUntimed` (`TimerAwaited`) is about the counter the two sensors share: the query, which
blocks the main loop, and an open transfer find its timer on.  The last edge of a transfer switches
it off, so what is needed is that no query begins while one is open (`TransferAlone`), and for
this that a transfer comes to its end within one calm round (`OneCalmRound`).  It holds for
`CalmRounds > 1` and not for 1, as TLC shows: a query may then be due in the round in which the
transfer stands.  The code has no such test; what grants it is that 65 s pass between two
queries and a transfer outlives at most the 13 s of the watchdog.

Of `Anemometer` it proves `FullIsUncorrected` (`FullMeansUncorrected`) and
`BatchIsMeasured` (`MeasuredBetweenGaps`) for every number of pulses to a batch, every
period and width of the timer, every limit and every wind.  For the first, a correction not yet
told is in a flag that the call has still to read (`UntoldIsFlagged`).  `BatchInv` relates the timer,
the time since the last pulse and what the DMA has stored: while the timer neither
ran round nor was set to zero, the stored values tell the true times between the pulses.  What
the loops of the interrupt then make of them is proved by induction over the batch:
a corrected interval stays between two that were measured and a bounce stays a bounce
(`SlewLimitedBetween`), and the extremes, and what they were before, are intervals of
the batch or their first values (`ExtremesFound`).  The induction is drawn from the
library's theorem that the natural numbers are well founded (`SmallestOf`,
`RangeInduction`, `RecursionExists`), because the theorems of induction that take a predicate
as a parameter cannot be used.

The assumptions are those named in the modules (`ConstantsAssumption`,
`SizeAssumption`, ...); TLC evaluates them in each run.  The code justifies those that
the proofs brought in: an RS-485 port is never asked for a length of -1 (`TxConstants`;
the Modbus client passes the length of its request), the second query does not follow the
first at once (`CalmRounds`), and "no slave" is none of the qualities a slave can have
(`NoSource`).

Only model-checked:

* every liveness property: `ReceptionEnds`, `TransmissionEnds`, `TransmitterGoesOff`,
  `DcdGoesOff`, `TakenIsRepeated`, `CycleEnds`, `PollEnds`, `SilenceIsTold`,
  `PacketsComeAgain`, `TransferEnds`, `ExchangesEnd`, `SteadyWindIsMeasured`.  Fairness and
  ENABLED are out of the prover's reach.  Of most of them the part that is safety is proved: who
  waits, waits for something that is at work and timed (`TransmissionGoesOn`, `NobodyWaitsUnkeyed`,
  `CarrierWithinFrame`, `NothingLeftWaiting`, `NoIdleWait`, `SilenceToldInTime`, `LockIsGivenBack`,
  `TransferIsTimed`, `NobodyWaitsUntimed`); that it then comes is what the runs add;
* `HeardInOrder`: no frame is heard twice or out of its
  order.  It is not true of all frames: one that a wrong bit turns into another would be heard as
  that one, which the checksum, not modelled, sees to.

## Where the code differs from what it says

Met while the modules were written; the properties name these cases as their
exceptions or leave them out.  No run is spent on any of them.

* A reception with a start byte has no timeout from that byte on
  (`serial.c:124-126` says it has; `618-631` switches it off).
* The main loop clears dcd when it comes to a received frame (`main.c:647`), which may be
  late: the next frame is then on the air, and one that is not known by its
  destination is transmitted over, although `station_config_example.h:157-159` has the
  software wait for the channel.
* A carrier detected after the wait for the channel and before `afsk_txStart` stops the
  receiver is transmitted over (`digi.c:232-235`).
* A station that fades within a frame leaves dcd on for as long as the channel is
  silent (`it_handlers.c:187`, `afsk.c:100-105`).  `digi_process` then stays in its wait
  (`digi.c:232`) until another station sends or the watchdog resets the board.
* `serial.h:94-100` speaks of a delay between calling `srl_start_tx` or `srl_send_data`
  and the transmission.  `srl_send_data` has none (`serial.c:165-231`); the pin of the bus driver,
  which the delay would give time, is set in the interrupt after the first byte
  (`serial.c:653-654`); and SysTick between the store of the state and that of the start
  time finds the delay long over.
* A frame asked for again while it waits may be cut short: the test of the state and its
  store are two steps (`serial.c:238`, `270`).
* The late store of CR1 of a one-byte frame leaves the transmit interrupt enabled with nothing
  that serves it (`serial.c:227-228`, `265-266`).
* The random part of the delay is drawn and not waited for (`delay.c:44`, `65-67`;
  `station_config_example.h:154`).
* The errors that trigger the Modbus status are called consecutive (`rte_rtu.c:11`)
  and are counted without being cleared by a success (`rtu_serial_io.c:243`, `481`).
* In the viscous modes the first frame taken blocks all others, since the functions
  that would release it are commented out (`main.c:651`, `795`).
* A UMB reply that does not parse is parsed again in every round and ends the polls
  (`umb_master.c:239`); the sensor is then reported as not available.
* A slave that holds the I2C clock holds the event interrupt in its wait for STOP,
  above the SysTick that is to end the transfer (`i2c.c:189`).
* The counter that the I2C error interrupt takes back may be left behind by a
  timeout in between, and the next transfer then begins in its middle (`i2c.c:241`).
* The sensors of a station without a wind channel are restarted every 90 s, although a
  comment allows for it (`wx_handler.c:654`; the call at `:500` is commented out).
* `+= 1.0f` moves the new reading by a degree instead of limiting its increase
  (`wx_handler.c:272-284`).
* The telemetry speaks of "at least one successfull communication"
  (`packet_tx_handler.c:203`), but the last query alone decides.
* The first reading that is used is compared with 0.0 when the first query failed, so
  that a warm day reboots the board (`wx_handler.c:256`, `rte_wx.c:14`).
* The flag of the Davis packet (`main.c:843`) may be set for what the reception of the KISS
  host, armed in `main.c:570`, made of the first answer.
* The post-increment of the KISS escape overwrites FESC (`KissCommunication.c:52`).
* The flag of a frame is cleared after `digi_process`, which blocks for the delay, so a
  frame decoded meanwhile is lost (`main.c:657`).
* The interval of the anemometer changes at a batch only: when the wind stops, the last
  one is reported, with full quality, until ten more pulses come
  (`analog_anemometer.c:214-243`).  Before the first batch the interval is 0, by which
  `analog_anemometer_get_ms_from_pulse` divides (`:393`; the core returns 0).
* A correction that the DMA interrupt makes between the tests of the flags, or between them and
  the clearing (`analog_anemometer.c:520-577`), may never be told.
* The second test of `main.c:803` cannot be reached behind the first, so a late poll takes the
  wind's direction from the count of more than a second.

## Not modelled

* The KISS conversion (stateless), the text of packets, the telemetry's sequence number,
  the rest of the packet scheduler (minute counters of one thread compared with intervals).
* The wake-up of the Davis console (it blocks before the main loop begins), the VE.Direct
  client (text and averages), the TX20, the BME280's and MS5611's arithmetic, the wind's
  direction and averages, the decoding of UMB and Modbus values.
* The correlator, bit clock, tone and filters of the modem: numeric, beyond what TLC can
  enumerate; bits that may be heard wrong stand for them.
* Pin set-up, configuration records, start-up and trace code, newlib, the StdPeriph
  library and the CMSIS headers.  These vendored files are three quarters of the
  repository's lines (60 000 of 80 000); of the firmware's own 19 400 lines about 4 200
  are mapped.  The USART, the timers, the DMA, the I2C peripheral and the interrupt
  controller are modelled as far as the drivers use them.
* The main loop with all clients at once: each module holds the part that drives its
  component.

## Plan

1. An abstract specification of `HdlcLink`, a line that delivers or loses whole
   frames, as the channel of `Digi`.
2. `KissHost` composed with `SerialTx`: the transmit buffer that is refilled, and with it
   what a KISS host makes of two frames run together.
3. The direction of the anemometer: the external counter of TIM3 and the late poll.
4. A proof of `HeardInOrder` for frames that are far enough apart, which needs the
   checksum or a distance in its place.
