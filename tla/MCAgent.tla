------------------------------ MODULE MCAgent ------------------------------
(***************************************************************************)
(* Instances of Agent for TLC: the configurations a run considers.         *)
(***************************************************************************)
EXTENDS Agent, TLC

Fleet(updates, onNoController, reboot, maxDefer, touches) ==
  [updates |-> updates, onTimeout |-> "apply",
   onNoController |-> onNoController, reboot |-> reboot,
   maxDefer |-> maxDefer, touches |-> touches]

\* The defaults: apply, and reboot at once.
Headless == Fleet("apply", "apply", "immediate", {}, TRUE)

\* An application decides both; silence declines, absence declines.
Asking == Fleet("ask", "ignore", "ask", {}, TRUE)

\* A deferral is bounded; installs need no approval.
Deferring == Fleet("apply", "apply", "ask", {3600}, TRUE)

\* A bound of zero, which overrides whatever is answered.
NeverDefers == Fleet("ask", "apply", "ask", {0}, TRUE)

\* The application reboots when it pleases.
ByHand == Fleet("apply", "apply", "never", {}, TRUE)

\* A container: nothing to reboot.
Container == Fleet("ask", "apply", "immediate", {}, FALSE)

AllConfigs == {Headless, Asking, Deferring, NeverDefers, ByHand, Container}
MainConfigs == {Headless, Asking}
HeadlessOnly == {Headless}

FirmwareSymmetry == Permutations(Firmwares)
=============================================================================
