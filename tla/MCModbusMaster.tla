--------------------------- MODULE MCModbusMaster ---------------------------
(* Three queue elements: a queue that is full and asks one of two slaves    *)
(* twice, and a queue that ends early.                                      *)
EXTENDS ModbusMaster

CONSTANTS s1, s2

Queue(a, b, c) == [i \in 0 .. 2 |-> IF i = 0 THEN a ELSE IF i = 1 THEN b ELSE c]

MCNetworks == {Queue(s1, s2, s1), Queue(s1, NoSlave, s2)}
MCRegisters == Queue(1, 2, 3)
=============================================================================
