------------------------------- MODULE MCFwup -------------------------------
(***************************************************************************)
(* Instances of FwupDevice for TLC: the devices a run considers.           *)
(***************************************************************************)
EXTENDS FwupDevice

\* Devices of every kind.
EveryDevice == SUBSET AllHabits

\* A device that only defers its reboots.
Deferring == {{"reboot_later"}}
=============================================================================
