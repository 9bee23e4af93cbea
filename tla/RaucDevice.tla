----------------------------- MODULE RaucDevice -----------------------------
(***************************************************************************)
(* An A/B device updated by RAUC: the two slots, what RAUC's service       *)
(* records about them, the attempts that the boot script counts down, and  *)
(* what the agent does to them (src/update_tool/rauc.rs with               *)
(* test/device/rauc-boot.cmd and test/device/rauc-system.conf).            *)
(*                                                                         *)
(* A firmware stands for its image, for the uuid in the image and for the  *)
(* hash of its bundle.  The service writes slots; `rauc install' is its    *)
(* client, and the service goes on without it.  Power may be cut at any    *)
(* time.                                                                   *)
(***************************************************************************)
EXTENDS Naturals

CONSTANTS
  Firmwares,    \* the firmware there is
  Factory,      \* the one the device is made with
  Bad,          \* firmware that hangs, or is never marked good
  Declared,     \* firmware whose image has a uuid in its firmware_file
  None,
  Garbage,      \* the contents of a slot that was written in part
  Attempts,     \* BOOT_x_LEFT of a slot that was installed or marked good
  MaxInstalls,  \* bound on the installs begun
  Habits        \* the sets of habits that devices have

\* What may happen to some devices, beside what happens to all of them.
\* "unmarked":            a confirmed slot spends its attempts before it is
\*                        marked good again
\* "update_on_probation": a device is updated before it was marked good
\* "asks_first":          the application calls mark_valid only while the agent
\*                        says that validation is owed
AllHabits == {"unmarked", "update_on_probation", "asks_first"}

Slots == {"a", "b"}

ASSUME RaucAssumption ==
  /\ Factory \in Firmwares \ Bad
  /\ Bad \subseteq Firmwares /\ Declared \subseteq Firmwares
  /\ None \notin Firmwares \cup Slots /\ Garbage \notin Firmwares
  /\ Attempts \in Nat \ {0} /\ MaxInstalls \in Nat
  /\ Habits \subseteq SUBSET AllHabits

VARIABLES
  habits,     \* what may happen to this device; never changes
  content,    \* content[s]: the image in slot s
  record,     \* record[s]: the bundle RAUC installed into s
  first,      \* the slot that comes first in BOOT_ORDER
  left,       \* left[s]: BOOT_s_LEFT
  running,    \* the slot that is booted; None while nothing runs
  loaded,     \* the image that was booted
  agent,      \* the agent runs
  client,     \* and so does its `rauc install'
  pending,    \* Shared.pending_validation
  target,     \* the slot the service is writing
  incoming,   \* and what
  confirmed,  \* the slot that was marked good last
  installs    \* installs begun

slots   == <<content, record>>
env     == <<first, left>>
boot    == <<running, loaded>>
process == <<agent, client, pending>>
writing == <<target, incoming>>
vars    == <<habits, slots, env, boot, process, writing, confirmed, installs>>

Other(s) == IF s = "a" THEN "b" ELSE "a"

TypeOK ==
  /\ habits \in Habits
  /\ content \in [Slots -> Firmwares \cup {Garbage}]
  /\ record \in [Slots -> Firmwares \cup {None}]
  /\ first \in Slots
  /\ left \in [Slots -> 0..Attempts]
  /\ running \in Slots \cup {None}
  /\ loaded \in Firmwares \cup {None}
  /\ agent \in BOOLEAN /\ client \in BOOLEAN /\ pending \in BOOLEAN
  /\ target \in Slots \cup {None}
  /\ incoming \in Firmwares \cup {None}
  /\ confirmed \in Slots
  /\ installs \in 0..MaxInstalls

\* Slot a was written in the factory, by something else than RAUC; the
\* environment is empty, and the script has its defaults for that.
Init ==
  /\ habits \in Habits
  /\ content = [s \in Slots |-> IF s = "a" THEN Factory ELSE Garbage]
  /\ record = [s \in Slots |-> None]
  /\ first = "a" /\ left = [s \in Slots |-> Attempts]
  /\ running = None /\ loaded = None
  /\ agent = FALSE /\ client = FALSE /\ pending = FALSE
  /\ target = None /\ incoming = None
  /\ confirmed = "a"
  /\ installs = 0
-----------------------------------------------------------------------------
(* u-boot                                                                  *)

\* The first slot in BOOT_ORDER with attempts left; without one, slot a.
Choice ==
  IF left[first] > 0 THEN first
  ELSE IF left[Other(first)] > 0 THEN Other(first)
  ELSE "a"

\* Mutant: the attempt is not spent.
Unspent == left

\* Mutant: a count that is spent is counted down too.
SpentBlindly == [left EXCEPT ![Choice] = @ - 1]

\* The attempt is spent before the boot.
Spent ==
  IF left[Choice] > 0 THEN [left EXCEPT ![Choice] = @ - 1]
  ELSE [left EXCEPT !["a"] = 1]

\* A slot without a whole image does not come up, and bad firmware may not.
Boots ==
  /\ running = None
  /\ left' = Spent
  /\ \/ /\ content[Choice] # Garbage
        /\ running' = Choice /\ loaded' = content[Choice]
     \/ /\ content[Choice] \in Bad \cup {Garbage}
        /\ UNCHANGED boot
  /\ UNCHANGED <<habits, slots, first, process, writing, confirmed, installs>>

OnTrial == running # confirmed

\* A reboot, or power that is cut.  A confirmed slot is marked good again before
\* it has spent its attempts.
GoesDown ==
  /\ running # None
  /\ OnTrial \/ left[running] > 0 \/ "unmarked" \in habits
  /\ running' = None /\ loaded' = None
  /\ agent' = FALSE /\ client' = FALSE /\ pending' = FALSE
  /\ target' = None /\ incoming' = None
  /\ UNCHANGED <<habits, slots, env, confirmed, installs>>
-----------------------------------------------------------------------------
(* The agent, and RAUC's service                                           *)

\* RAUC calls a slot good while the boot loader would try it.
Good(s) == left[s] > 0

BootState == IF Good(running) THEN "Confirmed" ELSE "PendingValidation"

\* Rauc::new and Agent::new.
AgentStarts ==
  /\ running # None /\ ~agent
  /\ agent' = TRUE
  /\ pending' = (BootState = "PendingValidation")
  /\ UNCHANGED <<habits, slots, env, boot, client, writing, confirmed, installs>>

\* The agent is killed, and `rauc install' with it.  The service goes on.
AgentStops ==
  /\ agent
  /\ agent' = FALSE /\ client' = FALSE /\ pending' = FALSE
  /\ UNCHANGED <<habits, slots, env, boot, writing, confirmed, installs>>

\* An offer that is accepted.
OfferComes ==
  /\ OnTrial => "update_on_probation" \in habits
  /\ left[running] = 0 => "unmarked" \in habits

\* Mutant: RAUC writes the slot that is not preferred.
WritesUnpreferred(fw) ==
  /\ agent /\ ~client /\ target = None
  /\ installs < MaxInstalls
  /\ OfferComes
  /\ installs' = installs + 1
  /\ client' = TRUE
  /\ target' = Other(first) /\ incoming' = fw
  /\ content' = [content EXCEPT ![target'] = Garbage]
  /\ left' \in {left, [left EXCEPT ![target'] = 0]}
  /\ UNCHANGED <<habits, record, first, boot, agent, pending, confirmed>>

\* rauc install: the service writes the slot that is not booted, however the
\* last install went.  (It may mark that slot bad first, and it refuses a client
\* while it writes for another.)
BeginInstall(fw) ==
  /\ agent /\ ~client /\ target = None
  /\ installs < MaxInstalls
  /\ OfferComes
  /\ installs' = installs + 1
  /\ client' = TRUE
  /\ target' = Other(running) /\ incoming' = fw
  /\ content' = [content EXCEPT ![target'] = Garbage]
  /\ left' \in {left, [left EXCEPT ![target'] = 0]}
  /\ UNCHANGED <<habits, record, first, boot, agent, pending, confirmed>>

\* The transfer breaks, or RAUC refuses the bundle.
InstallFails ==
  /\ target # None
  /\ target' = None /\ incoming' = None
  /\ client' = FALSE
  /\ UNCHANGED <<habits, slots, env, boot, agent, pending, confirmed, installs>>

\* Mutant: the bundle is recorded against the slot that runs.
RecordsRunning ==
  /\ target # None
  /\ content' = [content EXCEPT ![target] = incoming]
  /\ record' = [record EXCEPT ![running] = incoming]
  /\ first' = target
  /\ left' = [left EXCEPT ![target] = Attempts]
  /\ target' = None /\ incoming' = None
  /\ pending' = (pending \/ client)
  /\ client' = FALSE
  /\ UNCHANGED <<habits, boot, agent, confirmed, installs>>

\* The slot is recorded, and goes first with a fresh count.  An agent that
\* waited for it owes validation from here on.
InstallEnds ==
  /\ target # None
  /\ content' = [content EXCEPT ![target] = incoming]
  /\ record' = [record EXCEPT ![target] = incoming]
  /\ first' = target
  /\ left' = [left EXCEPT ![target] = Attempts]
  /\ target' = None /\ incoming' = None
  /\ pending' = (pending \/ client)
  /\ client' = FALSE
  /\ UNCHANGED <<habits, boot, agent, confirmed, installs>>

\* Mutant: the slot that goes first is marked, and not the booted one.
MarkFirst ==
  /\ agent /\ ~client
  /\ loaded \notin Bad
  /\ "asks_first" \in habits => pending
  /\ left' = [left EXCEPT ![first] = Attempts]
  /\ confirmed' = first
  /\ pending' = FALSE
  /\ UNCHANGED <<habits, slots, first, boot, agent, client, writing, installs>>

\* rauc status mark-good booted, when the application finds what it runs good;
\* refused while an install has the tool.
MarkValid ==
  /\ agent /\ ~client
  /\ loaded \notin Bad
  /\ "asks_first" \in habits => pending
  /\ left' = [left EXCEPT ![running] = Attempts]
  /\ confirmed' = running
  /\ pending' = FALSE
  /\ UNCHANGED <<habits, slots, first, boot, agent, client, writing, installs>>

\* metadata_from_file: what the image says of itself, if it has a uuid.
ImageUuid == IF loaded \in Declared THEN loaded ELSE None

\* metadata_from_status: what RAUC recorded about the booted slot, which is
\* nothing for a slot that it did not write.
BundleUuid == record[running]

\* What the join says runs.
CurrentFirmware == IF ImageUuid # None THEN ImageUuid ELSE BundleUuid
-----------------------------------------------------------------------------
Next ==
  \/ Boots \/ GoesDown
  \/ AgentStarts \/ AgentStops
  \/ \E fw \in Firmwares : BeginInstall(fw)
  \/ InstallFails \/ InstallEnds
  \/ MarkValid

Spec == Init /\ [][Next]_vars

\* A device that is off is switched on, and one that runs is rebooted or loses
\* power now and then.
LiveSpec == Spec /\ WF_vars(Boots) /\ WF_vars(GoesDown)
-----------------------------------------------------------------------------
(* Properties                                                              *)

\* A device that is marked good in time, and not updated before it is.
Kept == habits \cap {"unmarked", "update_on_probation"} = {}

\* The agent never reports firmware that does not run, after a rollback or an
\* install that nobody waited for either.  It may report none, on firmware that
\* RAUC did not install and that says nothing itself (Rauc::current_firmware,
\* metadata_from_status).
IdentityIsTrue ==
  running # None =>
    \/ CurrentFirmware = loaded
    \/ CurrentFirmware = None /\ loaded = Factory

\* The slot that is tried until it is confirmed or has no attempts left.
Trial == Other(confirmed)

Tried ==
  /\ first = Trial /\ content[Trial] # Garbage
  /\ left[Trial] > 0 \/ running = Trial

\* Devices that are not kept are not spoken of.
Standing  == IF Kept THEN content[confirmed] ELSE Factory
Candidate == IF Kept /\ Tried THEN content[Trial] ELSE None
Runs      == IF Kept THEN loaded ELSE None

AB == INSTANCE ABDevice WITH
  standing <- Standing, candidate <- Candidate, runs <- Runs

\* However installs, agents, boots and power fail, a device that is kept is an
\* A/B device: firmware to fall back on is there, whole, until other firmware is
\* confirmed while it runs, and firmware that was given up is not tried again
\* (src/update_tool/mod.rs, UpdateTool::install and BootState).
ImplementsAB == AB!Spec

\* docs/rauc.md:164, leave it unconfirmed and each boot spends an attempt, and
\* at zero the device falls back: bad firmware does not stay.
UnconfirmedReverts ==
  (Kept /\ loaded \in Bad) ~> (running # None /\ loaded \notin Bad)
=============================================================================
