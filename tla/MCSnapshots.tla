---------------------------- MODULE MCSnapshots ----------------------------
(* An instance of Snapshots small enough for TLC. *)
EXTENDS Snapshots

CONSTANTS FirstTicks, SecondTicks       \* bounds: ticks of the two maps

MCMaxTick == [n \in 1 .. MaxMaps |-> IF n = 1 THEN FirstTicks ELSE SecondTicks]
=============================================================================
