----------------------------- MODULE FwupDevice -----------------------------
(***************************************************************************)
(* An A/B device updated by fwup: the two slots, the environment on disk   *)
(* that fwup and Linux write, the environment in flash that u-boot writes, *)
(* the boot script that chooses a slot from both, and what the agent does  *)
(* to them (src/update_tool/fwup.rs with test/device/fwup.conf and         *)
(* test/device/boot.cmd).                                                  *)
(*                                                                         *)
(* A firmware stands for its image and for its uuid.  An Option is a value *)
(* or None.  Power may be cut at any time.                                 *)
(***************************************************************************)
EXTENDS Naturals

CONSTANTS
  Firmwares,    \* the firmware there is
  Factory,      \* the one the device is made with
  Bad,          \* firmware whose application never marks it valid
  None,
  Garbage,      \* the contents of a slot that was written in part
  BootLimit,    \* boots without validation before a rollback
  MaxInstalls,  \* bound on the installs begun
  Habits        \* the sets of habits that devices have

\* What may happen to some devices, beside what happens to all of them.
\* "reboot_later":        a device defers its reboot, and is updated meanwhile
\* "fails_afterwards":    an install fails although fwup succeeded: the checksum
\*                        is not the archive's, or the transfer's task failed
\* "update_on_probation": a device is updated before it was marked valid
\* "validate_early":      mark_valid is called before the reboot it is for
\* "validate_late":       mark_valid is called on the last boot of the count
\* "setenv_fails":        the agent cannot correct the environment
AllHabits == {"reboot_later", "fails_afterwards", "update_on_probation",
              "validate_early", "validate_late", "setenv_fails"}

Slots == {"a", "b"}

ASSUME FwupAssumption ==
  /\ Factory \in Firmwares \ Bad
  /\ Bad \subseteq Firmwares
  /\ None \notin Firmwares \cup Slots /\ Garbage \notin Firmwares
  /\ BootLimit \in Nat \ {0} /\ MaxInstalls \in Nat
  /\ Habits \subseteq SUBSET AllHabits

VARIABLES
  habits,     \* what may happen to this device; never changes
  content,    \* content[s]: the image in slot s
  disk,       \* the environment on disk
  flash,      \* u-boot's own environment
  running,    \* the slot that is booted; None while nothing runs
  loaded,     \* the image that was booted
  trusted,    \* fw_validated on the kernel command line
  agent,      \* the agent runs
  pending,    \* Shared.pending_validation
  target,     \* the slot fwup is writing
  incoming,   \* and what
  outcome,    \* the last install's, since the agent started
  proven,     \* firmware that was marked valid while it ran
  installs    \* installs begun

boot    == <<running, loaded, trusted>>
writing == <<target, incoming>>
vars    == <<habits, content, disk, flash, boot, agent, pending, writing,
             outcome, proven, installs>>

Other(s) == IF s = "a" THEN "b" ELSE "a"

Disk == [active    : Slots,                     \* fw_active
         validated : BOOLEAN,                   \* fw_validated
         previous  : Slots \cup {None},         \* fw_previous
         uuid      : Firmwares,                 \* fw_uuid
         ids       : [Slots -> Firmwares \cup {None}]]  \* a.fw_uuid, b.fw_uuid

Flash == [override    : Slots \cup {None},      \* fw_override
          overrideFor : Firmwares \cup {None},  \* fw_override_for
          armed       : BOOLEAN,                \* upgrade_available
          count       : 0..BootLimit]           \* bootcount

TypeOK ==
  /\ habits \in Habits
  /\ content \in [Slots -> Firmwares \cup {Garbage}]
  /\ disk \in Disk
  /\ flash \in Flash
  /\ running \in Slots \cup {None}
  /\ loaded \in Firmwares \cup {None}
  /\ trusted \in BOOLEAN
  /\ agent \in BOOLEAN /\ pending \in BOOLEAN
  /\ target \in Slots \cup {None}
  /\ incoming \in Firmwares \cup {None}
  /\ outcome \in {"none", "ok", "failed"}
  /\ proven \subseteq Firmwares
  /\ installs \in 0..MaxInstalls

\* The factory's task: slot a, trusted.
Init ==
  /\ habits \in Habits
  /\ content = [s \in Slots |-> IF s = "a" THEN Factory ELSE Garbage]
  /\ disk = [active |-> "a", validated |-> TRUE, previous |-> None,
             uuid |-> Factory,
             ids |-> [s \in Slots |-> IF s = "a" THEN Factory ELSE None]]
  /\ flash = [override |-> None, overrideFor |-> None, armed |-> FALSE,
              count |-> 0]
  /\ running = None /\ loaded = None /\ trusted = TRUE
  /\ agent = FALSE /\ pending = FALSE
  /\ target = None /\ incoming = None /\ outcome = "none"
  /\ proven = {Factory}
  /\ installs = 0
-----------------------------------------------------------------------------
(* u-boot                                                                  *)

\* Mutant: the counter is never incremented.
CountedOnce == 1

\* u-boot's count starts from nothing unless it is armed, and past the limit
\* it takes altbootcmd.
Counted == IF flash.armed THEN flash.count + 1 ELSE 1

\* Mutant: one boot too many.
RollsBackLate == Counted > BootLimit + 1

RollsBack == Counted > BootLimit

Disarmed == [flash EXCEPT !.armed = FALSE, !.count = 0]

\* An override holds for the firmware it was recorded against.
Overridden == flash.override # None /\ flash.overrideFor = disk.uuid

\* The slot the script boots, with fw_validated as it passes it on.
Choice ==
  IF RollsBack THEN [slot |-> disk.previous, validated |-> disk.validated]
  ELSE IF Overridden THEN [slot |-> flash.override, validated |-> TRUE]
  ELSE [slot |-> disk.active, validated |-> disk.validated]

\* What the script saves: a rollback is recorded, an override for another
\* firmware forgotten, and the counter armed on probation only.
Saved ==
  IF RollsBack
  THEN [Disarmed EXCEPT !.override = disk.previous, !.overrideFor = disk.uuid]
  ELSE IF Overridden THEN Disarmed
  ELSE [override |-> None, overrideFor |-> None,
        armed |-> ~disk.validated,
        count |-> IF disk.validated THEN 0 ELSE Counted]

\* A slot without a whole image does not come up.
Boots ==
  /\ running = None
  /\ flash' = Saved
  /\ IF Choice.slot # None /\ content[Choice.slot] # Garbage
     THEN /\ running' = Choice.slot
          /\ loaded' = content[Choice.slot]
          /\ trusted' = Choice.validated
     ELSE UNCHANGED boot
  /\ UNCHANGED <<habits, content, disk, agent, pending, writing, outcome,
                 proven, installs>>

\* A reboot, or power that is cut.
GoesDown ==
  /\ running # None
  /\ running' = None /\ loaded' = None
  /\ agent' = FALSE /\ pending' = FALSE
  /\ target' = None /\ incoming' = None
  /\ outcome' = "none"
  /\ UNCHANGED <<habits, content, disk, flash, trusted, proven, installs>>
-----------------------------------------------------------------------------
(* The agent                                                               *)

\* Mutant: the environment is believed, whatever booted.
AgentStartsTrusting ==
  /\ running # None /\ ~agent
  /\ agent' = TRUE
  /\ pending' = ~disk.validated
  /\ UNCHANGED <<habits, content, disk, flash, boot, writing, outcome, proven,
                 installs>>

\* validated_flag: what the environment says, whichever firmware it is about.
BootState == IF disk.validated THEN "Confirmed" ELSE "PendingValidation"

\* Fwup::new and Agent::new: the environment is made to agree with the slot
\* that booted, and validation is owed if it says so.
AgentStarts ==
  /\ running # None /\ ~agent
  /\ agent' = TRUE
  /\ \/ disk' = [disk EXCEPT !.active = running]
     \/ "setenv_fails" \in habits /\ UNCHANGED disk
  /\ pending' = (BootState = "PendingValidation")
  /\ UNCHANGED <<habits, content, flash, boot, writing, outcome, proven,
                 installs>>

\* The agent is killed.  fwup loses its input, and fails; one that was fed to the
\* end already, and outlives its agent, is left out.
AgentStops ==
  /\ agent
  /\ agent' = FALSE /\ pending' = FALSE
  /\ target' = None /\ incoming' = None
  /\ outcome' = "none"
  /\ UNCHANGED <<habits, content, disk, flash, boot, proven, installs>>

OnProbation ==
  ~disk.validated /\ disk.active = running /\ disk.uuid = loaded

\* With the default policy an install that succeeded ends in a reboot, and no
\* offer comes before it.
OfferComes ==
  /\ outcome = "ok" => disk.active = running \/ "reboot_later" \in habits
  /\ OnProbation => "update_on_probation" \in habits

\* No url, no metadata, a server that has no such file, or a fwup that cannot be
\* started.
InstallRefused ==
  /\ agent /\ target = None
  /\ installs < MaxInstalls
  /\ OfferComes
  /\ installs' = installs + 1
  /\ outcome' = "failed"
  /\ UNCHANGED <<habits, content, disk, flash, boot, agent, pending, writing,
                 proven>>

\* Mutant: the slot is made active before it is written.
BeginInstallActive(fw) ==
  /\ agent /\ target = None
  /\ installs < MaxInstalls
  /\ OfferComes
  /\ installs' = installs + 1
  /\ target' = Other(disk.active)
  /\ incoming' = fw
  /\ content' = [content EXCEPT ![target'] = Garbage]
  /\ disk' = [disk EXCEPT !.active = target']
  /\ UNCHANGED <<habits, flash, boot, agent, pending, outcome, proven>>

\* fwup --task upgrade: the task is the one whose slot is not fw_active.
BeginInstall(fw) ==
  /\ agent /\ target = None
  /\ installs < MaxInstalls
  /\ OfferComes
  /\ installs' = installs + 1
  /\ target' = Other(disk.active)
  /\ incoming' = fw
  /\ content' = [content EXCEPT ![target'] = Garbage]
  /\ UNCHANGED <<habits, disk, flash, boot, agent, pending, outcome, proven>>

\* The transfer breaks, or fwup refuses what came.
InstallFails ==
  /\ target # None
  /\ target' = None /\ incoming' = None
  /\ outcome' = "failed"
  /\ UNCHANGED <<habits, content, disk, flash, boot, agent, pending, proven,
                 installs>>

\* Mutant: the firmware is recorded under the other slot.
ActivatedElsewhere ==
  [active |-> target, validated |-> FALSE, previous |-> Other(target),
   uuid |-> incoming, ids |-> [disk.ids EXCEPT ![Other(target)] = incoming]]

\* Mutant: the firmware is trusted before it ran.
ActivatedTrusted ==
  [active |-> target, validated |-> TRUE, previous |-> Other(target),
   uuid |-> incoming, ids |-> [disk.ids EXCEPT ![target] = incoming]]

\* on-finish: the slot is recorded and made active.
Activated ==
  [active |-> target, validated |-> FALSE, previous |-> Other(target),
   uuid |-> incoming, ids |-> [disk.ids EXCEPT ![target] = incoming]]

\* What the transfer came to, and the checksum, are looked at once fwup is done:
\* either may fail an install that has switched the slot.
InstallEnds ==
  /\ target # None
  /\ content' = [content EXCEPT ![target] = incoming]
  /\ disk' = Activated
  /\ \/ /\ outcome' = "ok"
        /\ pending' = TRUE
     \/ /\ "fails_afterwards" \in habits
        /\ outcome' = "failed"
        /\ UNCHANGED pending
  /\ target' = None /\ incoming' = None
  /\ UNCHANGED <<habits, flash, boot, agent, proven, installs>>

\* confirm_command, when the application finds what it runs good; refused
\* while an install has the tool.
MarkValid ==
  /\ agent /\ target = None
  /\ loaded \notin Bad
  /\ disk.active = running \/ "validate_early" \in habits
  /\ flash.count < BootLimit \/ "validate_late" \in habits
  /\ disk' = [disk EXCEPT !.validated = TRUE]
  /\ pending' = FALSE
  /\ proven' = proven \cup {loaded}
  /\ UNCHANGED <<habits, content, flash, boot, agent, writing, outcome,
                 installs>>

\* Mutant: the environment's slot is believed.
FirmwareOfActive ==
  IF disk.ids[disk.active] # None THEN disk.ids[disk.active] ELSE disk.uuid

\* What the join says runs: the identity recorded for the slot that booted, and
\* the bare one on a device without.
CurrentFirmware ==
  IF disk.ids[running] # None THEN disk.ids[running] ELSE disk.uuid
-----------------------------------------------------------------------------
Next ==
  \/ Boots \/ GoesDown
  \/ AgentStarts \/ AgentStops
  \/ InstallRefused \/ \E fw \in Firmwares : BeginInstall(fw)
  \/ InstallFails \/ InstallEnds
  \/ MarkValid

Spec == Init /\ [][Next]_vars

\* A device that is off is switched on, and one that runs is rebooted or loses
\* power now and then.
LiveSpec == Spec /\ WF_vars(Boots) /\ WF_vars(GoesDown)
-----------------------------------------------------------------------------
(* Properties                                                              *)

\* A device whose reboot follows its update, whose failed updates armed nothing
\* and whose environment can be corrected.
Orderly == habits \cap {"reboot_later", "fails_afterwards", "setenv_fails"} = {}

\* One that is confirmed in time, and not updated before it is.
Settled == Orderly /\ habits \cap {"update_on_probation", "validate_late"} = {}

\* One whose confirmation is about the firmware that runs, and comes before the
\* next update.
Honest == Orderly /\ habits \cap {"update_on_probation", "validate_early"} = {}

\* The image that runs is never written over, whatever reboots, rollbacks and
\* restarts came before (fwup.rs:14, the write goes to the inactive slot;
\* Fwup::reconcile keeps fw_active true).
RunningSlotIntact == Orderly /\ running # None => content[running] = loaded

\* fwup.rs:14, of any device: "a failure leaves the running system exactly as
\* it was", because the write goes to the inactive slot.
NeverWrittenOver == running # None => content[running] = loaded

\* However an install goes and whenever power is cut, the slot that the boot
\* script would choose next, and the one it would fall back to, are whole.
AlwaysBootable ==
  Settled =>
    /\ content[Choice.slot] # Garbage
    /\ ~disk.validated => content[disk.previous] # Garbage

\* The identity the agent reports is that of what runs, after a rollback too
\* (Fwup::current_firmware reads the slot that booted).
IdentityIsTrue == Orderly /\ running # None => CurrentFirmware = loaded

\* docs/fwup.md:90, a device that boots new firmware and never confirms it gets
\* rolled back: only firmware that was confirmed while it ran is booted as
\* validated, without the boot counter.
OnlyProvenIsTrusted ==
  Honest /\ running # None /\ trusted => loaded \in proven

\* A device without habits; the others are not spoken of.
Plain == habits = {}

\* What the device falls back on, what is on probation, and what runs.
Standing ==
  IF ~Plain THEN Factory
  ELSE IF disk.validated THEN content[disk.active]
  ELSE IF Overridden THEN content[flash.override]
  ELSE content[disk.previous]

Candidate ==
  IF Plain /\ ~disk.validated /\ ~Overridden THEN content[disk.active] ELSE None

Runs == IF Plain THEN loaded ELSE None

AB == INSTANCE ABDevice WITH
  standing <- Standing, candidate <- Candidate, runs <- Runs

\* A device without habits is an A/B device: what it falls back on stays whole
\* until other firmware is confirmed while it runs, and once that is confirmed
\* nothing takes it back (src/update_tool/mod.rs, UpdateTool::install;
\* docs/fwup.md:188, confirm it and the countdown stops).
ImplementsAB == AB!Spec

\* docs/fwup.md:194, do nothing, reboot and watch it revert: firmware nobody
\* marks valid does not stay, once no more updates come.
BadFirmwareReverts ==
  (Honest /\ loaded \in Bad /\ installs = MaxInstalls)
    ~> (running # None /\ loaded \notin Bad)
=============================================================================
