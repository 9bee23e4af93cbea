----------------------------- MODULE FwupProofs -----------------------------
(***************************************************************************)
(* Proofs about FwupDevice, for any firmware, boot limit and number of     *)
(* installs: on an orderly device the image that runs is never written     *)
(* over, and is reported for what it is; on an honest one only what was    *)
(* confirmed is trusted; on a settled one there is always a slot to boot;  *)
(* and a device without habits is an A/B device.                           *)
(***************************************************************************)
EXTENDS FwupDevice, TLAPS

\* What a slot holds is what its identity says, unless it is half written.
Identified == \A s \in Slots : content[s] # Garbage => disk.ids[s] = content[s]

\* While the agent runs, the environment names the slot that runs, unless the
\* last install succeeded and waits for its reboot.
Agreed ==
  /\ agent => running # None
  /\ agent => disk.active = running \/ outcome = "ok"

\* fwup writes the slot that does not run.
WritesOther ==
  target # None =>
    /\ agent /\ disk.active = running
    /\ target = Other(running) /\ incoming \in Firmwares

Shapes ==
  /\ content \in [Slots -> Firmwares \cup {Garbage}]
  /\ disk \in Disk
  /\ running \in Slots \cup {None}
  /\ flash.override \in Slots \cup {None}

Loaded == running # None => loaded = content[running] /\ loaded # Garbage

Kept == Shapes /\ Identified /\ Agreed /\ WritesOther /\ Loaded

\* The inductive invariant.
IInv == Orderly => Kept

USE FwupAssumption

LEMMA InitKept == Init => Kept
BY DEF Init, Kept, Shapes, Identified, Agreed, WritesOther, Loaded, Slots, Disk

LEMMA BootsKeeps == Kept /\ Boots => Kept'
<1> SUFFICES ASSUME Kept, Boots PROVE Kept'
  OBVIOUS
<1>1. UNCHANGED <<content, disk, agent, target, incoming, outcome>>
  BY DEF Boots, writing
<1>2. flash'.override \in Slots \cup {None}
  BY DEF Boots, Saved, Disarmed, Kept, Shapes, Disk
<1>3. /\ running' \in Slots \cup {None}
      /\ running' # None => loaded' = content[running'] /\ loaded' # Garbage
  BY DEF Boots, boot, Choice, Kept, Shapes, Loaded, Disk
<1>4. ~agent /\ target = None
  BY DEF Boots, Kept, Agreed, WritesOther
<1> QED
  BY <1>1, <1>2, <1>3, <1>4
     DEF Kept, Shapes, Identified, Agreed, WritesOther, Loaded

LEMMA NextKept == Orderly /\ Kept /\ [Next]_vars => Kept'
<1> SUFFICES ASSUME Orderly, Kept, [Next]_vars PROVE Kept'
  OBVIOUS
<1> USE DEF Kept
<1>1. CASE Boots
  BY <1>1, BootsKeeps
<1>2. CASE GoesDown
  BY <1>2 DEF GoesDown, Shapes, Identified, Agreed, WritesOther, Loaded
<1>3. CASE AgentStarts
  <2>1. disk' = [disk EXCEPT !.active = running] /\ running \in Slots
    BY <1>3 DEF AgentStarts, Orderly, Shapes
  <2>2. disk' \in Disk /\ disk'.ids = disk.ids /\ disk'.active = running
    BY <2>1 DEF Shapes, Disk
  <2>3. target = None
    BY <1>3 DEF AgentStarts, WritesOther
  <2> QED
    BY <1>3, <2>1, <2>2, <2>3
       DEF AgentStarts, boot, writing, Shapes, Identified, Agreed,
           WritesOther, Loaded
<1>4. CASE AgentStops
  BY <1>4 DEF AgentStops, boot, Shapes, Identified, Agreed, WritesOther, Loaded
<1>5. ASSUME NEW fw \in Firmwares, BeginInstall(fw)
      PROVE  Kept'
  <2>1. disk.active = running /\ running \in Slots
    BY <1>5 DEF BeginInstall, OfferComes, Orderly, Agreed, Shapes
  <2>2. target' = Other(running) /\ target' \in Slots /\ target' # running
    BY <1>5, <2>1 DEF BeginInstall, Other, Slots
  <2>3. content' = [content EXCEPT ![target'] = Garbage]
    BY <1>5 DEF BeginInstall
  <2>4. content' \in [Slots -> Firmwares \cup {Garbage}]
    BY <2>2, <2>3 DEF Shapes
  <2>5. Identified'
    BY <1>5, <2>2, <2>3 DEF BeginInstall, Identified, Shapes
  <2>6. Loaded'
    BY <1>5, <2>1, <2>2, <2>3 DEF BeginInstall, boot, Loaded, Shapes
  <2> QED
    BY <1>5, <2>1, <2>2, <2>4, <2>5, <2>6
       DEF BeginInstall, boot, Shapes, Agreed, WritesOther
<1>6. CASE InstallFails
  BY <1>6 DEF InstallFails, boot, Shapes, Identified, Agreed, WritesOther, Loaded
<1>7. CASE InstallEnds
  <2>1. /\ target = Other(running) /\ target \in Slots /\ running \in Slots
        /\ target # running /\ incoming \in Firmwares
    BY <1>7 DEF InstallEnds, WritesOther, Agreed, Shapes, Other, Slots
  <2>2. /\ content' = [content EXCEPT ![target] = incoming]
        /\ disk' = Activated /\ outcome' = "ok"
    BY <1>7 DEF InstallEnds, Orderly
  <2>3. /\ disk'.ids = [disk.ids EXCEPT ![target] = incoming]
        /\ disk' \in Disk
    BY <2>1, <2>2 DEF Activated, Disk, Shapes, Other, Slots
  <2>4. content' \in [Slots -> Firmwares \cup {Garbage}]
    BY <2>1, <2>2 DEF Shapes
  <2>5. Identified'
    BY <2>1, <2>2, <2>3 DEF Identified, Shapes, Disk
  <2>6. Loaded'
    BY <1>7, <2>1, <2>2 DEF InstallEnds, boot, Loaded, Shapes
  <2> QED
    BY <1>7, <2>1, <2>2, <2>3, <2>4, <2>5, <2>6
       DEF InstallEnds, boot, Shapes, Agreed, WritesOther
<1>8. CASE MarkValid
  <2>1. /\ disk' = [disk EXCEPT !.validated = TRUE]
        /\ disk' \in Disk /\ disk'.ids = disk.ids /\ disk'.active = disk.active
    BY <1>8 DEF MarkValid, Shapes, Disk
  <2> QED
    BY <1>8, <2>1 DEF MarkValid, boot, writing, Shapes, Identified, Agreed,
                      WritesOther, Loaded
<1>9. CASE InstallRefused
  BY <1>9 DEF InstallRefused, OfferComes, Orderly, boot, writing, Shapes,
              Identified, Agreed, WritesOther, Loaded
<1>10. CASE UNCHANGED vars
  BY <1>10 DEF vars, boot, writing, Shapes, Identified, Agreed, WritesOther, Loaded
<1> QED
  BY <1>1, <1>2, <1>3, <1>4, <1>5, <1>6, <1>7, <1>8, <1>9, <1>10 DEF Next

LEMMA HabitsStay == [Next]_vars => (Orderly' <=> Orderly)
BY DEF Next, vars, Boots, GoesDown, AgentStarts, AgentStops, BeginInstall,
       InstallRefused, InstallFails, InstallEnds, MarkValid, Orderly

LEMMA InitInv == Init => IInv
BY InitKept DEF IInv

LEMMA NextInv == IInv /\ [Next]_vars => IInv'
BY NextKept, HabitsStay DEF IInv

\* The image that runs is never written over (fwup chooses the slot by
\* fw_active; the agent keeps fw_active true).
THEOREM RunningSlotKept == Spec => []RunningSlotIntact
<1>1. IInv => RunningSlotIntact
  BY DEF IInv, Kept, Loaded, RunningSlotIntact
<1>2. Init => IInv
  BY InitInv
<1>3. IInv /\ [Next]_vars => IInv'
  BY NextInv
<1> QED
  BY <1>1, <1>2, <1>3, PTL DEF Spec

\* The firmware the agent reports is the firmware that runs (current_firmware).
THEOREM IdentityTrue == Spec => []IdentityIsTrue
<1>1. IInv => IdentityIsTrue
  BY DEF IInv, Kept, Loaded, Identified, Shapes, IdentityIsTrue,
         CurrentFirmware
<1>2. Init => IInv
  BY InitInv
<1>3. IInv /\ [Next]_vars => IInv'
  BY NextInv
<1> QED
  BY <1>1, <1>2, <1>3, PTL DEF Spec

-----------------------------------------------------------------------------
\* What the types rest on: what is being written, and what runs, is firmware.
Firm ==
  /\ target # None => incoming \in Firmwares
  /\ IF running = None THEN loaded = None ELSE loaded \in Firmwares
  /\ agent => running # None

LEMMA FlashTyped ==
  ASSUME disk \in Disk, flash \in Flash
  PROVE  Saved \in Flash /\ Choice.slot \in Slots \cup {None}
                        /\ Choice.validated \in BOOLEAN
<1>1. Counted \in Nat
  BY DEF Counted, Flash
<1>2. Disarmed \in Flash
  <2>1. 0 \in 0..BootLimit
    OBVIOUS
  <2>2. [flash EXCEPT !.armed = FALSE] \in Flash
    BY DEF Flash
  <2> QED
    BY <2>1, <2>2 DEF Disarmed, Flash
<1>3. ~RollsBack => Counted \in 0..BootLimit
  BY <1>1 DEF RollsBack
<1>4. CASE RollsBack
  BY <1>2, <1>4 DEF Saved, Choice, Disarmed, Flash, Disk
<1>5. CASE ~RollsBack /\ Overridden
  BY <1>2, <1>5 DEF Saved, Choice, Overridden, Flash, Disk
<1>6. CASE ~RollsBack /\ ~Overridden
  BY <1>3, <1>6 DEF Saved, Choice, Flash, Disk
<1> QED
  BY <1>4, <1>5, <1>6

LEMMA TypeStep == TypeOK /\ Firm /\ [Next]_vars => TypeOK' /\ Firm'
<1> SUFFICES ASSUME TypeOK, Firm, [Next]_vars PROVE TypeOK' /\ Firm'
  OBVIOUS
<1> USE DEF Firm
<1>1. CASE Boots
  BY <1>1, FlashTyped DEF Boots, boot, writing, TypeOK
<1>2. CASE GoesDown
  BY <1>2 DEF GoesDown, TypeOK
<1>3. CASE AgentStarts
  <2>1. disk' \in Disk
    BY <1>3 DEF AgentStarts, TypeOK, Disk
  <2> QED
    BY <1>3, <2>1 DEF AgentStarts, BootState, boot, writing, TypeOK, Disk
<1>4. CASE AgentStops
  BY <1>4 DEF AgentStops, boot, TypeOK
<1>5. ASSUME NEW fw \in Firmwares, BeginInstall(fw)
      PROVE  TypeOK' /\ Firm'
  BY <1>5 DEF BeginInstall, Other, Slots, boot, TypeOK, Disk
<1>6. CASE InstallFails
  BY <1>6 DEF InstallFails, boot, TypeOK
<1>7. CASE InstallEnds
  <2>1. disk' \in Disk
    BY <1>7 DEF InstallEnds, Activated, Other, Slots, TypeOK, Disk
  <2> QED
    BY <1>7, <2>1 DEF InstallEnds, boot, TypeOK
<1>8. CASE MarkValid
  <2>1. disk' \in Disk
    BY <1>8 DEF MarkValid, TypeOK, Disk
  <2> QED
    BY <1>8, <2>1 DEF MarkValid, boot, writing, TypeOK
<1>9. CASE InstallRefused
  BY <1>9 DEF InstallRefused, boot, writing, TypeOK
<1>10. CASE UNCHANGED vars
  BY <1>10 DEF vars, boot, writing, TypeOK
<1> QED
  BY <1>1, <1>2, <1>3, <1>4, <1>5, <1>6, <1>7, <1>8, <1>9, <1>10 DEF Next

LEMMA InitTyped == Init => TypeOK /\ Firm
<1> SUFFICES ASSUME Init PROVE TypeOK /\ Firm
  OBVIOUS
<1>1. 0 \in 0..BootLimit /\ 0 \in 0..MaxInstalls
  OBVIOUS
<1>2. flash \in Flash
  BY <1>1 DEF Init, Flash
<1>3. disk \in Disk
  BY DEF Init, Disk, Slots
<1> QED
  BY <1>1, <1>2, <1>3 DEF Init, TypeOK, Firm, Slots

\* The device's state keeps its types on every device; the boot counter, which
\* u-boot increments, never passes the limit it is compared with.
THEOREM FwupTypeCorrect == Spec => []TypeOK
BY InitTyped, TypeStep, PTL DEF Spec
-----------------------------------------------------------------------------
(* What the steps do, for the invariants below                             *)

\* What the first two invariants give.
Base == TypeOK /\ Firm /\ IInv

LEMMA BootFacts ==
  ASSUME TypeOK, Boots
  PROVE  /\ running = None
         /\ UNCHANGED <<habits, content, disk, agent, target, incoming, proven>>
         /\ \/ /\ running' = Choice.slot /\ running' \in Slots
               /\ content[running'] # Garbage /\ loaded' = content[running']
               /\ trusted' = Choice.validated
            \/ /\ UNCHANGED <<running, loaded, trusted>>
               /\ Choice.slot = None \/ content[Choice.slot] = Garbage
         /\ \/ /\ RollsBack
               /\ Choice.slot = disk.previous
               /\ Choice.validated = disk.validated
               /\ flash'.override = disk.previous
               /\ flash'.overrideFor = disk.uuid
               /\ flash'.armed = FALSE /\ flash'.count = 0
            \/ /\ ~RollsBack /\ Overridden
               /\ Choice.slot = flash.override /\ Choice.validated = TRUE
               /\ flash'.override = flash.override
               /\ flash'.overrideFor = flash.overrideFor
               /\ flash'.armed = FALSE /\ flash'.count = 0
            \/ /\ ~RollsBack /\ ~Overridden
               /\ Choice.slot = disk.active
               /\ Choice.validated = disk.validated
               /\ flash'.override = None /\ flash'.overrideFor = None
               /\ flash'.armed = ~disk.validated
<1>1. Choice.slot \in Slots \cup {None}
  BY FlashTyped DEF TypeOK
<1>2. flash' = Saved /\ flash \in Flash
  BY DEF Boots, TypeOK
<1>3. running = None /\ UNCHANGED <<habits, content, disk, agent, target, incoming, proven>>
  BY DEF Boots, writing
<1>4. \/ /\ running' = Choice.slot /\ running' \in Slots
         /\ content[running'] # Garbage /\ loaded' = content[running']
         /\ trusted' = Choice.validated
      \/ /\ UNCHANGED <<running, loaded, trusted>>
         /\ Choice.slot = None \/ content[Choice.slot] = Garbage
  BY <1>1 DEF Boots, boot
<1>5. CASE RollsBack
  BY <1>2, <1>3, <1>4, <1>5 DEF Choice, Saved, Disarmed, Flash
<1>6. CASE ~RollsBack /\ Overridden
  BY <1>2, <1>3, <1>4, <1>6 DEF Choice, Saved, Disarmed, Flash
<1>7. CASE ~RollsBack /\ ~Overridden
  BY <1>2, <1>3, <1>4, <1>7 DEF Choice, Saved, Flash
<1> QED
  BY <1>5, <1>6, <1>7

LEMMA StartFacts ==
  ASSUME Base, Orderly, AgentStarts
  PROVE  /\ running \in Slots /\ target = None
         /\ disk' = [disk EXCEPT !.active = running]
         /\ disk'.active = running /\ disk'.previous = disk.previous
         /\ disk'.validated = disk.validated /\ disk'.uuid = disk.uuid
         /\ UNCHANGED <<habits, content, flash, running, loaded, trusted, target,
                        proven>>
<1>1. running \in Slots /\ disk' = [disk EXCEPT !.active = running]
  BY DEF AgentStarts, Orderly, Base, TypeOK
<1>2. disk \in Disk
  BY DEF Base, TypeOK
<1>3. target = None
  BY DEF AgentStarts, Base, IInv, Kept, WritesOther
<1> QED
  BY <1>1, <1>2, <1>3 DEF AgentStarts, boot, writing, Disk

LEMMA BeginFacts ==
  ASSUME Base, Orderly, NEW fw \in Firmwares, BeginInstall(fw)
  PROVE  /\ running \in Slots /\ disk.active = running
         /\ loaded = content[running] /\ loaded \in Firmwares
         /\ target' = Other(running) /\ target' \in Slots /\ target' # running
         /\ \A s \in Slots : content'[s] = IF s = running THEN loaded ELSE Garbage
         /\ OfferComes /\ target = None
         /\ UNCHANGED <<habits, disk, flash, running, loaded, trusted, proven>>
<1>1. disk.active = running /\ running \in Slots
  BY DEF BeginInstall, OfferComes, Orderly, Base, IInv, Kept, Agreed, Shapes, Firm
<1>2. loaded = content[running] /\ loaded \in Firmwares
  BY <1>1 DEF Base, IInv, Kept, Loaded, Firm, Slots
<1>3. /\ target' = Other(running) /\ target' \in Slots /\ target' # running
      /\ content' = [content EXCEPT ![target'] = Garbage]
  BY <1>1 DEF BeginInstall, Other, Slots
<1>4. \A s \in Slots : content'[s] = IF s = running THEN loaded ELSE Garbage
  BY <1>1, <1>2, <1>3 DEF Base, TypeOK, Slots
<1> QED
  BY <1>1, <1>2, <1>3, <1>4 DEF BeginInstall, boot

LEMMA EndFacts ==
  ASSUME Base, Orderly, InstallEnds
  PROVE  /\ running \in Slots /\ disk.active = running
         /\ loaded = content[running] /\ loaded \in Firmwares
         /\ target = Other(running) /\ target \in Slots /\ target # running
         /\ incoming \in Firmwares /\ target' = None
         /\ \A s \in Slots : content'[s] = IF s = running THEN loaded ELSE incoming
         /\ disk'.active = target /\ disk'.previous = running
         /\ disk'.validated = FALSE /\ disk'.uuid = incoming
         /\ UNCHANGED <<habits, flash, running, loaded, trusted, proven>>
<1>1. /\ disk.active = running /\ running \in Slots /\ incoming \in Firmwares
      /\ target = Other(running)
  BY DEF InstallEnds, Base, IInv, Kept, WritesOther, Firm, TypeOK
<1>2. loaded = content[running] /\ loaded \in Firmwares
  BY <1>1 DEF Base, IInv, Kept, Loaded, Firm, Slots
<1>3. target \in Slots /\ target # running /\ Other(target) = running
  BY <1>1 DEF Other, Slots
<1>4. \A s \in Slots : content'[s] = IF s = running THEN loaded ELSE incoming
  BY <1>1, <1>2, <1>3 DEF InstallEnds, Base, TypeOK, Slots
<1> QED
  BY <1>1, <1>2, <1>3, <1>4 DEF InstallEnds, Activated, boot

LEMMA MarkFacts ==
  ASSUME Base, Orderly, MarkValid
  PROVE  /\ running \in Slots /\ target = None
         /\ loaded = content[running] /\ loaded \in Firmwares
         /\ disk'.active = disk.active /\ disk'.previous = disk.previous
         /\ disk'.validated = TRUE /\ disk'.uuid = disk.uuid
         /\ proven' = proven \cup {loaded}
         /\ disk.active = running \/ "validate_early" \in habits
         /\ flash.count < BootLimit \/ "validate_late" \in habits
         /\ UNCHANGED <<habits, content, flash, running, loaded, trusted, target>>
<1>1. running \in Slots /\ running # None
  BY DEF MarkValid, Base, Firm, TypeOK
<1>2. loaded = content[running] /\ loaded \in Firmwares
  BY <1>1 DEF Base, IInv, Kept, Loaded, Firm
<1>3. disk' = [disk EXCEPT !.validated = TRUE] /\ disk \in Disk
  BY DEF MarkValid, Base, TypeOK
<1> QED
  BY <1>1, <1>2, <1>3 DEF MarkValid, boot, writing, Disk

\* The steps that leave the slots, the environments and what runs alone.
LEMMA QuietFacts ==
  ASSUME AgentStops \/ InstallRefused \/ InstallFails \/ UNCHANGED vars
  PROVE  /\ target' \in {target, None}
         /\ UNCHANGED <<habits, content, disk, flash, running, loaded, trusted,
                        proven>>
BY DEF AgentStops, InstallRefused, InstallFails, vars, boot, writing

LEMMA DownFacts ==
  ASSUME GoesDown
  PROVE  /\ running # None
         /\ running' = None /\ loaded' = None /\ target' = None
         /\ UNCHANGED <<habits, content, disk, flash, proven>>
BY DEF GoesDown

-----------------------------------------------------------------------------
(* Only what was confirmed is trusted                                      *)

\* What the environment owes no probation for, or what it says is on probation.
Excused == proven \cup (IF disk.validated THEN {} ELSE {disk.uuid})

\* A slot that a rollback may take is confirmed firmware, or is being written.
Confirmed(s) == content[s] \in proven \cup {Garbage}

\* On an honest device: what is active is confirmed or on probation, what the
\* environments fall back on is confirmed, and confirmed firmware runs while
\* other firmware is written.
TrustInv ==
  Honest =>
    /\ content[disk.active] \in Excused \cup {Garbage}
    /\ disk.previous # None => Confirmed(disk.previous)
    /\ flash.override # None => Confirmed(flash.override)
    /\ flash.override # None /\ running # None => running = flash.override
    /\ running # None => loaded \in Excused
    /\ running # None /\ trusted => loaded \in proven
    /\ target # None => loaded \in proven

LEMMA InitTrust == Init => TrustInv
<1> SUFFICES ASSUME Init PROVE TrustInv
  OBVIOUS
<1>1. content[disk.active] = Factory /\ Factory \in proven
  BY DEF Init, Slots
<1> QED
  BY <1>1 DEF Init, TrustInv, Excused

LEMMA TrustStep ==
  ASSUME Base, TrustInv, [Next]_vars
  PROVE  TrustInv'
<1>1. (Orderly' <=> Orderly) /\ habits' = habits
  BY HabitsStay DEF Next, vars, Boots, GoesDown, AgentStarts, AgentStops,
     BeginInstall, InstallRefused, InstallFails, InstallEnds, MarkValid
<1> SUFFICES ASSUME Honest, Honest' PROVE TrustInv'
  BY <1>1 DEF TrustInv, Honest
<1> USE DEF TrustInv
<1>2. Orderly
  BY DEF Honest
<1>3. CASE Boots
  <2>1. TypeOK
    BY DEF Base
  <2>2. Excused' = Excused /\ target' = None
    BY <1>2, <1>3, <2>1, BootFacts
       DEF Excused, Base, Firm, IInv, Kept, WritesOther
  <2>3. \A s : Confirmed(s)' <=> Confirmed(s)
    BY <1>3, <2>1, BootFacts DEF Confirmed
  <2>4. flash'.override # None =>
          /\ flash'.override = Choice.slot
          /\ Confirmed(flash'.override)
    BY <1>3, <2>1, BootFacts
  <2>5. running' # None => running' = Choice.slot /\ loaded' = content[running']
                          /\ content[running'] # Garbage
    BY <1>3, <2>1, BootFacts
  <2>6. running' # None => loaded' \in Excused
    BY <1>3, <2>1, <2>5, BootFacts DEF Excused, Confirmed
  <2>7. running' # None /\ trusted' => loaded' \in proven
    BY <1>3, <2>1, <2>5, BootFacts DEF Excused, Confirmed
  <2> QED
    BY <1>3, <2>1, <2>2, <2>3, <2>4, <2>5, <2>6, <2>7, BootFacts DEF Confirmed
<1>4. CASE GoesDown
  BY <1>4, DownFacts DEF Excused, Confirmed
<1>5. CASE AgentStarts
  <2>1. loaded = content[running] /\ running # None
    BY <1>2, <1>5, StartFacts DEF Base, IInv, Kept, Loaded, Slots
  <2> QED
    BY <1>2, <1>5, <2>1, StartFacts DEF Excused, Confirmed
<1>6. ASSUME NEW fw \in Firmwares, BeginInstall(fw)
      PROVE  TrustInv'
  <2>1. loaded \in proven
    BY <1>2, <1>6, BeginFacts DEF OfferComes, OnProbation, Honest, Excused, Slots
  <2>2. disk.active = running /\ running # None
    BY <1>2, <1>6, BeginFacts DEF Slots
  <2>3. \A s \in Slots : Confirmed(s)'
    BY <1>2, <1>6, <2>1, BeginFacts DEF Confirmed
  <2>4. disk.previous \in Slots \cup {None} /\ flash.override \in Slots \cup {None}
    BY DEF Base, TypeOK, Disk, Flash
  <2> QED
    BY <1>2, <1>6, <2>1, <2>2, <2>3, <2>4, BeginFacts DEF Excused
<1>7. CASE InstallEnds
  <2>1. loaded \in proven
    BY <1>2, <1>7, EndFacts DEF Slots
  <2>2. flash.override # None => flash.override = running
    BY <1>2, <1>7, EndFacts DEF Slots
  <2>3. Confirmed(running)'
    BY <1>2, <1>7, <2>1, EndFacts DEF Confirmed
  <2>4. content'[disk'.active] \in Excused'
    BY <1>2, <1>7, EndFacts DEF Excused
  <2> QED
    BY <1>2, <1>7, <2>1, <2>2, <2>3, <2>4, EndFacts DEF Excused
<1>8. CASE MarkValid
  <2>1. disk.active = running /\ loaded = content[running]
    BY <1>2, <1>8, MarkFacts DEF Honest
  <2>2. \A s : Confirmed(s) => Confirmed(s)'
    BY <1>2, <1>8, MarkFacts DEF Confirmed
  <2>3. loaded' \in proven' /\ proven \subseteq proven' /\ Excused' = proven'
    BY <1>2, <1>8, MarkFacts DEF Excused
  <2> QED
    BY <1>2, <1>8, <2>1, <2>2, <2>3, MarkFacts
<1>9. CASE AgentStops \/ InstallRefused \/ InstallFails \/ UNCHANGED vars
  BY <1>9, QuietFacts DEF Excused, Confirmed
<1> QED
  BY <1>3, <1>4, <1>5, <1>6, <1>7, <1>8, <1>9 DEF Next

LEMMA InitBase == Init => Base
BY InitInv, InitTyped DEF Base

LEMMA NextBase == Base /\ [Next]_vars => Base'
BY NextInv, TypeStep DEF Base

\* docs/fwup.md:90: only firmware that was confirmed while it ran is ever booted
\* as validated, outside the boot counter, on any honest device and through any
\* rollbacks, reboots and installs (boot.cmd, MarkValid).
THEOREM TrustIsProven == Spec => []OnlyProvenIsTrusted
<1>1. TrustInv => OnlyProvenIsTrusted
  BY DEF TrustInv, OnlyProvenIsTrusted
<1> QED
  BY <1>1, InitBase, NextBase, InitTrust, TrustStep, PTL DEF Spec
-----------------------------------------------------------------------------
(* There is always a slot to boot                                          *)

\* On a settled device: the active slot is whole; on probation so is the one
\* before, and the other holds what is on probation, if anything whole; an
\* override names a whole slot, the one that runs; and a counter that is used
\* up is that of a probation.
BootInv ==
  Settled =>
    /\ content[disk.active] # Garbage
    /\ ~disk.validated =>
         /\ disk.previous \in Slots
         /\ content[disk.previous] # Garbage
         /\ content[Other(disk.previous)] \in {disk.uuid, Garbage}
    /\ flash.override # None => content[flash.override] # Garbage
    /\ flash.override # None /\ running # None => running = flash.override
    /\ flash.armed /\ flash.count = BootLimit => ~disk.validated

\* A rollback is that of a probation, and has somewhere to go.
LEMMA RollbackOnProbation ==
  ASSUME TypeOK, BootInv, Settled, RollsBack
  PROVE  ~disk.validated /\ disk.previous \in Slots
<1>1. flash.armed \in BOOLEAN /\ flash.count \in 0..BootLimit
  BY DEF TypeOK, Flash
<1>2. flash.armed /\ flash.count = BootLimit
  BY <1>1 DEF RollsBack, Counted
<1> QED
  BY <1>2 DEF BootInv

\* An update begins on probation only after a rollback, and spares what the
\* device fell back on.
LEMMA UpdateSparesPrevious ==
  ASSUME Base, BootInv, Settled, ~disk.validated,
         NEW fw \in Firmwares, BeginInstall(fw)
  PROVE  disk.previous = running
<1>1. Orderly /\ disk.active = running /\ running \in Slots /\ OfferComes
      /\ loaded = content[running] /\ loaded \in Firmwares
  BY BeginFacts DEF Settled
<1>2. loaded # disk.uuid
  BY <1>1 DEF OfferComes, OnProbation, Settled
<1>3. loaded # Garbage
  BY <1>1
<1> QED
  BY <1>1, <1>2, <1>3 DEF BootInv, Other, Slots

LEMMA InitBoot == Init => BootInv
<1> SUFFICES ASSUME Init PROVE BootInv
  OBVIOUS
<1>1. content[disk.active] = Factory /\ Factory # Garbage
  BY DEF Init, Slots
<1> QED
  BY <1>1 DEF Init, BootInv

LEMMA BootStep ==
  ASSUME Base, BootInv, [Next]_vars
  PROVE  BootInv'
<1>1. habits' = habits
  BY DEF Next, vars, Boots, GoesDown, AgentStarts, AgentStops, BeginInstall,
     InstallRefused, InstallFails, InstallEnds, MarkValid
<1> SUFFICES ASSUME Settled, Settled' PROVE BootInv'
  BY <1>1 DEF BootInv, Settled, Orderly
<1>2. Orderly
  BY DEF Settled
<1>3. disk.validated \in BOOLEAN /\ disk.active \in Slots
      /\ flash.override \in Slots \cup {None}
  BY DEF Base, TypeOK, Disk, Flash
<1>4. CASE Boots
  <2>1. TypeOK
    BY DEF Base
  <2>2. UNCHANGED <<content, disk>>
    BY <1>4, <2>1, BootFacts
  <2>3. flash'.override # None =>
          flash'.override = Choice.slot /\ content[flash'.override] # Garbage
    BY <1>4, <2>1, BootFacts, RollbackOnProbation DEF BootInv
  <2>4. flash'.override # None /\ running' # None => running' = flash'.override
    BY <1>4, <2>1, <2>3, BootFacts
  <2>5. flash'.armed => ~disk.validated
    BY <1>4, <2>1, BootFacts
  <2> QED
    BY <2>2, <2>3, <2>4, <2>5 DEF BootInv
<1>5. CASE GoesDown
  BY <1>5, DownFacts DEF BootInv
<1>6. CASE AgentStarts
  <2>1. content[running] # Garbage
    BY <1>2, <1>6, StartFacts DEF Base, IInv, Kept, Loaded, Slots
  <2> QED
    BY <1>2, <1>6, <2>1, StartFacts DEF BootInv
<1>7. ASSUME NEW fw \in Firmwares, BeginInstall(fw)
      PROVE  BootInv'
  <2>1. disk.active = running /\ content'[running] = loaded /\ loaded # Garbage
        /\ running \in Slots /\ running # None
    BY <1>2, <1>7, BeginFacts DEF Slots
  <2>2. ~disk.validated =>
          disk.previous = running /\ content'[Other(running)] = Garbage
    BY <1>2, <1>7, <2>1, BeginFacts, UpdateSparesPrevious DEF Other, Slots
  <2> QED
    BY <1>2, <1>7, <2>1, <2>2, BeginFacts DEF BootInv
<1>8. CASE InstallEnds
  <2>1. content'[running] = loaded /\ loaded # Garbage /\ running # None
        /\ running \in Slots
    BY <1>2, <1>8, EndFacts DEF Slots
  <2>2. content'[target] = incoming /\ incoming # Garbage /\ target = Other(running)
    BY <1>2, <1>8, EndFacts
  <2> QED
    BY <1>2, <1>8, <2>1, <2>2, EndFacts DEF BootInv
<1>9. CASE MarkValid
  <2>1. flash' = flash /\ flash.count < BootLimit /\ flash.count \in 0..BootLimit
    BY <1>2, <1>9, MarkFacts DEF Settled, Base, TypeOK, Flash
  <2>2. flash'.count # BootLimit
    BY <2>1
  <2> QED
    BY <1>2, <1>9, <2>2, MarkFacts DEF BootInv
<1>10. CASE AgentStops \/ InstallRefused \/ InstallFails \/ UNCHANGED vars
  BY <1>10, QuietFacts DEF BootInv
<1> QED
  BY <1>4, <1>5, <1>6, <1>7, <1>8, <1>9, <1>10 DEF Next

\* On a settled device there is always a whole slot that the boot script would
\* choose, and one to fall back on during a probation, however an install goes
\* and whenever power is cut (fwup.conf, boot.cmd).
THEOREM StaysBootable == Spec => []AlwaysBootable
<1>1. TypeOK /\ BootInv => AlwaysBootable
  BY RollbackOnProbation DEF Choice, BootInv, Overridden, AlwaysBootable
<1>2. Base => TypeOK
  BY DEF Base
<1> QED
  BY <1>1, <1>2, InitBase, NextBase, InitBoot, BootStep, PTL DEF Spec
-----------------------------------------------------------------------------
(* The refinement                                                          *)

\* On a plain device: an override disarms the counter and names the firmware
\* to fall back on; that or the active firmware runs; and that firmware runs
\* while other firmware is written.
FallbackInv ==
  Plain =>
    /\ flash.override # None =>
         /\ ~flash.armed
         /\ flash.override = IF disk.validated THEN disk.active ELSE disk.previous
    /\ running # None =>
         IF disk.validated THEN running = disk.active
         ELSE running \in {disk.active, disk.previous}
    /\ target # None /\ ~disk.validated => running = disk.previous

\* The abstract steps and stutters that a step of the device may be.
Implements == [AB!Next]_(AB!vars) /\ FallbackInv'

\* Where every step of a plain device starts.
Ready == Base /\ BootInv /\ FallbackInv /\ Plain

LEMMA ReadyFacts ==
  ASSUME Ready
  PROVE  /\ TypeOK /\ Base /\ Orderly /\ Settled
         /\ disk.active \in Slots /\ disk.validated \in BOOLEAN
         /\ content[disk.active] \in Firmwares
         /\ IF running = None THEN loaded = None /\ target = None
            ELSE running \in Slots /\ loaded = content[running] /\ loaded \in Firmwares
<1>1. TypeOK /\ Base /\ Orderly /\ Settled
  BY DEF Ready, Base, Plain, Orderly, Settled
<1>2. disk.active \in Slots /\ disk.validated \in BOOLEAN
  BY <1>1 DEF TypeOK, Disk
<1>3. content[disk.active] \in Firmwares
  BY <1>1, <1>2 DEF TypeOK, Ready, BootInv
<1>4. running # None => running \in Slots /\ loaded = content[running] /\ loaded \in Firmwares
  BY <1>1 DEF Base, IInv, Kept, Loaded, Firm, TypeOK
<1>5. running = None => loaded = None /\ target = None
  BY <1>1 DEF Base, Firm, IInv, Kept, WritesOther
<1> QED
  BY <1>1, <1>2, <1>3, <1>4, <1>5

LEMMA InitFallback == Init => FallbackInv /\ AB!Init
BY DEF Init, FallbackInv, AB!Init, Standing, Candidate, Runs, Slots

\* Devices that are not plain do nothing in ABDevice.
LEMMA OthersImplement ==
  ASSUME ~Plain, UNCHANGED habits
  PROVE  Implements
BY DEF Plain, Implements, FallbackInv, Standing, Candidate, Runs, AB!vars

LEMMA BootImplements ==
  ASSUME Ready, Boots
  PROVE  Implements
<1>1. /\ TypeOK /\ Settled /\ BootInv /\ FallbackInv /\ Plain
      /\ running = None /\ loaded = None /\ target = None
      /\ disk.active \in Slots /\ content[disk.active] \in Firmwares
  BY ReadyFacts, BootFacts DEF Ready
<1>2. UNCHANGED <<content, disk, target>> /\ Plain'
  BY <1>1, BootFacts DEF Plain
<1>3. Runs = None /\ Runs' = loaded'
  BY <1>1, <1>2 DEF Runs
<1>4. CASE RollsBack
  <2>1. ~disk.validated /\ disk.previous \in Slots /\ content[disk.previous] # Garbage
    BY <1>1, <1>4, RollbackOnProbation DEF BootInv
  <2>2. ~Overridden
    BY <1>1, <1>4 DEF RollsBack, Counted, Overridden, FallbackInv, FwupAssumption
  <2>3. /\ running' = disk.previous /\ loaded' = content[disk.previous]
        /\ flash'.override = disk.previous /\ flash'.armed = FALSE /\ Overridden'
    BY <1>1, <1>2, <1>4, <2>1, BootFacts DEF Overridden, Slots
  <2>4. Standing = content[disk.previous] /\ UNCHANGED Standing /\ Candidate' = None
    BY <1>1, <1>2, <2>1, <2>2, <2>3 DEF Standing, Candidate
  <2>5. AB!BootsStanding
    BY <1>3, <2>3, <2>4 DEF AB!BootsStanding
  <2>6. FallbackInv'
    BY <1>1, <1>2, <2>1, <2>3 DEF FallbackInv
  <2> QED
    BY <2>5, <2>6 DEF Implements, AB!Next
<1>5. CASE ~RollsBack /\ Overridden
  <2>1. /\ running' = flash.override /\ loaded' = content[flash.override]
        /\ flash'.override = flash.override /\ flash'.armed = FALSE /\ Overridden'
    BY <1>1, <1>2, <1>5, BootFacts DEF Overridden, BootInv
  <2>2. Standing = content[flash.override] /\ UNCHANGED Standing /\ Candidate' = None
    BY <1>1, <1>2, <1>5, <2>1 DEF Standing, Candidate, FallbackInv, Overridden
  <2>3. AB!BootsStanding
    BY <1>3, <2>1, <2>2 DEF AB!BootsStanding
  <2>4. FallbackInv'
    BY <1>1, <1>2, <1>5, <2>1 DEF FallbackInv, Overridden
  <2> QED
    BY <2>3, <2>4 DEF Implements, AB!Next
<1>6. CASE ~RollsBack /\ ~Overridden
  <2>1. /\ running' = disk.active /\ loaded' = content[disk.active]
        /\ flash'.override = None /\ ~Overridden'
    BY <1>1, <1>2, <1>6, BootFacts DEF Overridden, Slots
  <2>2. UNCHANGED <<Standing, Candidate>>
    BY <1>1, <1>2, <1>6, <2>1 DEF Standing, Candidate
  <2>3. AB!BootsStanding \/ AB!BootsCandidate
    BY <1>1, <1>3, <1>6, <2>1, <2>2
       DEF Standing, Candidate, AB!BootsStanding, AB!BootsCandidate
  <2>4. FallbackInv'
    BY <1>1, <1>2, <2>1 DEF FallbackInv
  <2> QED
    BY <2>3, <2>4 DEF Implements, AB!Next
<1> QED
  BY <1>4, <1>5, <1>6

LEMMA DownImplements ==
  ASSUME Ready, GoesDown
  PROVE  Implements
<1>1. /\ running' = None /\ loaded' = None /\ target' = None /\ Plain /\ Plain'
      /\ running # None /\ loaded # None /\ UNCHANGED <<content, disk, flash>>
  BY ReadyFacts, DownFacts DEF Ready, Plain
<1>2. UNCHANGED <<Standing, Candidate>> /\ Runs # None /\ Runs' = None
  BY <1>1 DEF Standing, Candidate, Runs, Overridden
<1>3. FallbackInv'
  BY <1>1 DEF Ready, FallbackInv
<1> QED
  BY <1>2, <1>3 DEF Implements, AB!Next, AB!GoesDown

\* An agent that starts under the firmware that stands makes the slot it runs
\* in active again: as if that firmware had been installed once more.
LEMMA StartImplements ==
  ASSUME Ready, AgentStarts
  PROVE  Implements
<1>1. /\ Plain /\ Plain' /\ FallbackInv /\ target' = None
      /\ running \in Slots /\ running # None /\ loaded = content[running]
      /\ loaded \in Firmwares
      /\ disk'.active = running /\ disk'.previous = disk.previous
      /\ disk'.validated = disk.validated /\ disk'.uuid = disk.uuid
      /\ UNCHANGED <<content, flash, running, loaded>>
  BY ReadyFacts, StartFacts DEF Ready, Plain, Slots
<1>2. Overridden' = Overridden /\ Runs = loaded /\ Runs' = loaded
  BY <1>1 DEF Overridden, Runs
<1>3. FallbackInv'
  BY <1>1 DEF FallbackInv, Ready, BootInv, Plain, Settled, Orderly
<1>4. Standing' = Standing
  BY <1>1, <1>2 DEF Standing, FallbackInv
<1>5. CASE running = disk.active \/ disk.validated \/ Overridden
  <2>1. Candidate' = Candidate
    BY <1>1, <1>2, <1>5 DEF Candidate
  <2> QED
    BY <1>2, <1>3, <1>4, <2>1 DEF Implements, AB!vars
<1>6. CASE ~(running = disk.active \/ disk.validated \/ Overridden)
  <2>1. running = disk.previous /\ Standing = loaded /\ Candidate' = loaded
    BY <1>1, <1>2, <1>6 DEF FallbackInv, Standing, Candidate
  <2>2. AB!Installs(loaded)
    BY <1>2, <1>4, <2>1 DEF AB!Installs
  <2> QED
    BY <1>1, <1>3, <2>2 DEF Implements, AB!Next
<1> QED
  BY <1>5, <1>6

LEMMA BeginImplements ==
  ASSUME Ready, NEW fw \in Firmwares, BeginInstall(fw)
  PROVE  Implements
<1>1. /\ Plain /\ Plain' /\ FallbackInv /\ Base /\ BootInv /\ Settled /\ Orderly
      /\ running # None /\ disk.active = running
      /\ content'[running] = content[running] /\ running \in Slots
      /\ UNCHANGED <<disk, flash, running, loaded>>
  BY ReadyFacts, BeginFacts DEF Ready, Plain, Slots
<1>2. ~disk.validated => disk.previous = running
  BY <1>1, UpdateSparesPrevious
<1>3. flash.override # None => flash.override = running
  BY <1>1 DEF BootInv
<1>4. FallbackInv'
  BY <1>1, <1>2 DEF FallbackInv
<1>5. UNCHANGED <<Standing, Candidate, Runs>>
  BY <1>1, <1>2, <1>3 DEF Standing, Candidate, Runs, Overridden
<1> QED
  BY <1>4, <1>5 DEF Implements, AB!vars

LEMMA EndImplements ==
  ASSUME Ready, InstallEnds
  PROVE  Implements
<1>1. /\ Plain /\ Plain' /\ FallbackInv /\ BootInv /\ Settled /\ Orderly
      /\ running # None /\ disk.active = running /\ target # None /\ target' = None
      /\ loaded = content[running] /\ content'[running] = loaded
      /\ content'[target] = incoming /\ incoming \in Firmwares
      /\ disk'.active = target /\ disk'.previous = running
      /\ disk'.validated = FALSE /\ disk'.uuid = incoming
      /\ UNCHANGED <<flash, running, loaded>>
  BY ReadyFacts, EndFacts DEF Ready, Plain, Slots
<1>2. flash.override # None => flash.override = running
  BY <1>1 DEF BootInv
<1>3. FallbackInv'
  BY <1>1, <1>2 DEF FallbackInv
<1>4. Standing = loaded /\ Standing' = loaded /\ Runs = loaded /\ Runs' = loaded
  BY <1>1, <1>2 DEF Standing, Runs, Overridden, FallbackInv
<1>5. Candidate' \in {None, incoming}
  BY <1>1 DEF Candidate
<1>6. AB!GivesUp \/ AB!Installs(incoming)
  BY <1>4, <1>5 DEF AB!GivesUp, AB!Installs
<1> QED
  BY <1>1, <1>3, <1>6 DEF Implements, AB!Next

LEMMA MarkImplements ==
  ASSUME Ready, MarkValid
  PROVE  Implements
<1>1. /\ Plain /\ Plain' /\ FallbackInv /\ BootInv /\ Settled /\ Orderly
      /\ running # None /\ loaded = content[running] /\ loaded # None
      /\ disk.active = running /\ target' = None
      /\ disk'.active = disk.active /\ disk'.validated = TRUE /\ disk'.uuid = disk.uuid
      /\ UNCHANGED <<content, flash, running, loaded>>
  BY ReadyFacts, MarkFacts DEF Ready, Plain, Slots
<1>2. flash.override # None => flash.override = running
  BY <1>1 DEF BootInv
<1>3. FallbackInv'
  BY <1>1, <1>2 DEF FallbackInv
<1>4. /\ Standing' = loaded /\ Candidate' = None /\ Runs = loaded /\ Runs' = loaded
  BY <1>1 DEF Standing, Candidate, Runs
<1>5. CASE disk.validated \/ Overridden
  <2>1. Standing = loaded /\ Candidate = None
    BY <1>1, <1>2, <1>5 DEF Standing, Candidate, Overridden
  <2> QED
    BY <1>3, <1>4, <2>1 DEF Implements, AB!vars
<1>6. CASE ~disk.validated /\ ~Overridden
  <2>1. Candidate = loaded
    BY <1>1, <1>6 DEF Candidate
  <2> QED
    BY <1>1, <1>3, <1>4, <2>1 DEF Implements, AB!Next, AB!Confirms
<1> QED
  BY <1>5, <1>6

LEMMA QuietImplements ==
  ASSUME Ready, AgentStops \/ InstallRefused \/ InstallFails \/ UNCHANGED vars
  PROVE  Implements
<1>1. /\ target' \in {target, None} /\ Plain' /\ Plain /\ FallbackInv
      /\ UNCHANGED <<content, disk, flash, running, loaded>>
  BY QuietFacts DEF Ready, Plain
<1>2. UNCHANGED <<Standing, Candidate, Runs>>
  BY <1>1 DEF Standing, Candidate, Runs, Overridden
<1>3. FallbackInv'
  BY <1>1 DEF FallbackInv
<1> QED
  BY <1>2, <1>3 DEF Implements, AB!vars

LEMMA StepImplements ==
  ASSUME Base, BootInv, FallbackInv, [Next]_vars
  PROVE  Implements
<1>1. UNCHANGED habits
  BY DEF Next, vars, Boots, GoesDown, AgentStarts, AgentStops, BeginInstall,
     InstallRefused, InstallFails, InstallEnds, MarkValid
<1>2. CASE ~Plain
  BY <1>1, <1>2, OthersImplement
<1>3. CASE Plain
  <2>1. Ready
    BY <1>3 DEF Ready
  <2> QED
    BY <2>1, BootImplements, DownImplements, StartImplements, BeginImplements,
       EndImplements, MarkImplements, QuietImplements DEF Next
<1> QED
  BY <1>2, <1>3

\* On a plain device, firmware to fall back on is whole and tried until other
\* firmware is confirmed while it runs, and once it is confirmed nothing takes
\* it back: the agent, fwup's tasks and the boot script together do what an
\* update tool promises (update_tool/mod.rs).
THEOREM FwupRefinement == Spec => ImplementsAB
<1>1. Base /\ BootInv /\ FallbackInv /\ [Next]_vars
        => FallbackInv' /\ [AB!Next]_(AB!vars)
  BY StepImplements DEF Implements
<1> QED
  BY <1>1, InitBase, NextBase, InitBoot, BootStep, InitFallback, PTL
     DEF Spec, ImplementsAB, AB!Spec
=============================================================================
