----------------------------- MODULE MCByteFifo -----------------------------
EXTENDS ByteFifo

MCData == {"a", "b"}
=============================================================================
