------------------------------ MODULE MCNews ------------------------------
(* News for TLC: an entry of each of two calendars.                        *)
EXTENDS News

MCSourceOf == [e \in Entries |-> IF e = "f" THEN "forexfactory" ELSE "tradingview"]
=============================================================================
