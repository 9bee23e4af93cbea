-------------------------- MODULE InstallProtocol --------------------------
(***************************************************************************)
(* What NervesHub may rely on about the update reports of one device: at   *)
(* most one install at a time, and on any one connection the reports come  *)
(* in the order of the life of an install.  A report may be lost (a socket *)
(* dies), and the install goes on without it; it is never sent out of      *)
(* turn.  `said' is the last report the current connection carried.        *)
(***************************************************************************)
CONSTANTS Firmwares,   \* the firmware an update can carry
          None         \* no firmware

VARIABLES installing, said

vars == <<installing, said>>

Reports == {"nothing", "started", "progress", "completed", "failed",
            "declined", "rebooting"}

\* Reports after which an install may still be running.
Open == {"started", "progress"}

TypeOK ==
  /\ installing \in Firmwares \cup {None}
  /\ said \in Reports

Init ==
  /\ installing = None
  /\ said = "nothing"

Connect ==
  /\ said' = "nothing"
  /\ UNCHANGED installing

Begin(fw) ==
  /\ installing = None
  /\ installing' = fw
  /\ said' = said \/ (said \notin Open /\ said' = "started")

Progress ==
  /\ installing # None
  /\ said \in Open \cup {"nothing"}
  /\ said' = "progress"
  /\ UNCHANGED installing

Finish(outcome) ==
  /\ installing # None
  /\ installing' = None
  /\ \/ said' = said
     \/ said \in Open \cup {"nothing"} /\ said' = outcome

\* Declining an update and rebooting are said between installs only, and
\* never while the connection's last word is that one is under way.
Between(report) ==
  /\ installing = None
  /\ said \notin Open
  /\ said' = report
  /\ UNCHANGED installing

\* The device or the agent restarts; an install under way is forgotten.
Restart ==
  /\ installing' = None
  /\ said' = "nothing"

Next ==
  \/ Connect
  \/ \E fw \in Firmwares : Begin(fw)
  \/ Progress
  \/ \E outcome \in {"completed", "failed"} : Finish(outcome)
  \/ \E report \in {"declined", "rebooting"} : Between(report)
  \/ Restart

Spec == Init /\ [][Next]_vars
=============================================================================
