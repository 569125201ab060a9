------------------------------ MODULE MCDavis ------------------------------
(* The instances of Davis that TLC checks; the configurations give the      *)
(* bounds.                                                                  *)
EXTENDS Davis
=============================================================================
