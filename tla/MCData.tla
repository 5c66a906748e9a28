------------------------------- MODULE MCData -------------------------------
(* MT5Data for TLC: a second of two milliseconds, a bar of one second.      *)
EXTENDS MT5Data
=============================================================================
