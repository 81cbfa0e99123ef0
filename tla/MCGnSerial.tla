----------------------------- MODULE MCGnSerial -----------------------------
(* Model values of GnSerial.                                               *)
EXTENDS GnSerial

Step == 24
NoneToThree == 0 .. 3
=============================================================================
