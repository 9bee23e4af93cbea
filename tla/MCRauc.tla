------------------------------- MODULE MCRauc -------------------------------
(***************************************************************************)
(* Instances of RaucDevice for TLC: the devices a run considers.           *)
(***************************************************************************)
EXTENDS RaucDevice

\* Devices of every kind.
EveryDevice == SUBSET AllHabits
=============================================================================
