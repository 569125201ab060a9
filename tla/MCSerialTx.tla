----------------------------- MODULE MCSerialTx -----------------------------
(* Lengths that are refused, cut short, and of one, two and more bytes.     *)
EXTENDS SerialTxProps

MCLengths == [p \in Ports |-> IF p = "kiss" THEN {-1, 1, 2, 3, 4, 5} ELSE {1, 2, 4}]
=============================================================================
