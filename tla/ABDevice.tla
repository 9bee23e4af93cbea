------------------------------ MODULE ABDevice ------------------------------
(***************************************************************************)
(* What an A/B device promises, whatever tool updates it                   *)
(* (src/update_tool/mod.rs: an install leaves its result staged but not    *)
(* yet running, and the running firmware bootable on any failure; new      *)
(* firmware that is never confirmed is rolled back).  FwupDevice and       *)
(* RaucDevice implement it.                                                *)
(***************************************************************************)
CONSTANTS
  Firmwares,  \* the firmware there is
  Factory,    \* the one the device is made with
  None

VARIABLES
  standing,   \* the firmware to fall back on, which is always whole
  candidate,  \* firmware that is installed, and not confirmed yet
  runs        \* the firmware that runs; None while nothing does

vars == <<standing, candidate, runs>>

Init == standing = Factory /\ candidate = None /\ runs = None

\* Once the device fell back, the candidate is not tried again.
BootsStanding ==
  /\ runs = None
  /\ runs' = standing
  /\ candidate' = None
  /\ UNCHANGED standing

BootsCandidate ==
  /\ runs = None /\ candidate # None
  /\ runs' = candidate
  /\ UNCHANGED <<standing, candidate>>

\* A reboot, or power that is cut; the candidate may have had its last chance.
GoesDown ==
  /\ runs # None
  /\ runs' = None
  /\ candidate' \in {candidate} \cup (IF runs = candidate THEN {None} ELSE {})
  /\ UNCHANGED standing

\* Its slot is to be written again, or it had its last chance and did not come
\* up.  A candidate that runs alone is not given up.
GivesUp ==
  /\ runs \in {None, standing}
  /\ candidate' = None
  /\ UNCHANGED <<standing, runs>>

\* Firmware is installed beside the standing one, which runs.
Installs(fw) ==
  /\ runs = standing
  /\ candidate' = fw
  /\ UNCHANGED <<standing, runs>>

\* Only firmware that runs is confirmed.
Confirms ==
  /\ runs # None /\ runs = candidate
  /\ standing' = candidate
  /\ candidate' = None
  /\ UNCHANGED runs

Next ==
  \/ BootsStanding \/ BootsCandidate \/ GoesDown \/ GivesUp
  \/ \E fw \in Firmwares : Installs(fw)
  \/ Confirms

Spec == Init /\ [][Next]_vars
=============================================================================
