---------------------------- MODULE MCRkdgSerial ----------------------------
(* Model values of RkdgSerial: a step of 24 time units, meteorological data*)
(* never or every one, two or three steps, output every one to three.      *)
EXTENDS RkdgSerial

Step == 24
NoneToThree == 0 .. 3
OneToThree == 1 .. 3
=============================================================================
