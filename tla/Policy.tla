------------------------------- MODULE Policy -------------------------------
(***************************************************************************)
(* The two decisions of src/ipc/policy.rs as operators: what to do about   *)
(* an offered update, and whether to reboot into an installed one.         *)
(* A configuration is a record of the fields of [updates] and [reboot]     *)
(* that the decisions read.  An Option is a set with at most one element.  *)
(***************************************************************************)
EXTENDS Naturals

UpdateDecisions == {"apply", "ignore", "reschedule"}
RebootDecisions == {"reboot", "defer"}

\* What Ipc::ask returned: nothing, or what the controller decided.
NoAnswer == "none"

Config ==
  [updates        : {"apply", "ask"},
   onTimeout      : {"apply", "ignore"},
   onNoController : {"apply", "ignore"},
   reboot         : {"immediate", "ask", "never"},
   maxDefer       : SUBSET Nat,
   touches        : BOOLEAN]   \* UpdateToolConfig::can_touch_the_system

Fallback(config, hadController) ==
  IF hadController THEN config.onTimeout ELSE config.onNoController

DecideUpdate(config, hadController, answer) ==
  IF config.updates = "apply" THEN "apply"
  ELSE IF answer # NoAnswer THEN answer
  ELSE Fallback(config, hadController)

\* The elapsed deferral forces a reboot before the answer is looked at; a
\* deferral that is accepted is accepted whole.
DecideReboot(config, answer, alreadyDeferred) ==
  IF config.reboot = "immediate" THEN "reboot"
  ELSE IF config.reboot = "never" THEN "defer"
  ELSE IF \E max \in config.maxDefer : alreadyDeferred >= max THEN "reboot"
  ELSE IF answer # NoAnswer THEN answer
  ELSE "reboot"
=============================================================================
