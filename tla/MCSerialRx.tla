----------------------------- MODULE MCSerialRx -----------------------------
(* The ways the firmware uses a port, with lengths scaled to a buffer of    *)
(* five bytes.                                                              *)
EXTENDS SerialRxProps

(* srl_receive_data(ctx, 120, FEND, FEND, 0, 0, 0) *)
Kiss == [kind |-> "data", num |-> 4, start |-> 3, stop |-> 3, lenAddr |-> 0, lenMod |-> 0,
         waits |-> FALSE, duplex |-> TRUE]
(* srl_receive_data(ctx, 8, SOH, 0x00, 0, 6, 12) *)
Umb == [kind |-> "data", num |-> 4, start |-> 1, stop |-> 0, lenAddr |-> 1, lenMod |-> 3,
         waits |-> TRUE, duplex |-> FALSE]
(* srl_receive_data(ctx, n, 0, 0, 0, 0, 0) *)
Plain == [kind |-> "data", num |-> 2, start |-> 0, stop |-> 0, lenAddr |-> 0, lenMod |-> 0,
         waits |-> FALSE, duplex |-> FALSE]
(* srl_receive_data_with_instant_timeout(ctx, 2, 0, 0, 0, 0, 0) *)
Instant == [kind |-> "instant", num |-> 2, start |-> 0, stop |-> 0, lenAddr |-> 0, lenMod |-> 0,
         waits |-> FALSE, duplex |-> FALSE]
(* srl_receive_data_with_callback(ctx, rtu_serial_callback) *)
Modbus == [kind |-> "callback", num |-> 0, start |-> 0, stop |-> 0, lenAddr |-> 0, lenMod |-> 0,
         waits |-> TRUE, duplex |-> FALSE]
(* a trigger with fewer than three bytes, which the driver refuses *)
Refused == [kind |-> "data", num |-> 2, start |-> 3, stop |-> 0, lenAddr |-> 0, lenMod |-> 0,
         waits |-> FALSE, duplex |-> TRUE]

(* On the first hardware revision KISS and UMB share a port (main.c:282). *)
MCProtocols == {{Kiss, Refused}, {Kiss, Umb}, {Plain, Instant}, {Modbus}}
=============================================================================
