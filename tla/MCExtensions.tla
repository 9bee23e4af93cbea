---------------------------- MODULE MCExtensions ----------------------------
(***************************************************************************)
(* Instances of Extensions for TLC: the configurations a run considers.    *)
(***************************************************************************)
EXTENDS Extensions

\* Whatever a configuration enables.
EveryOffer == SUBSET Keys
=============================================================================
