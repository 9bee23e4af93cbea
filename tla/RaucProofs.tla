----------------------------- MODULE RaucProofs -----------------------------
(***************************************************************************)
(* Proofs about RaucDevice, for any firmware, attempts and number of       *)
(* installs: its types, the identity it reports, and that a device which   *)
(* is kept is an A/B device.                                               *)
(***************************************************************************)
EXTENDS RaucDevice, TLAPS

\* What runs is a whole slot, and what is being written is the other one.
Intact ==
  /\ IF running = None THEN loaded = None
     ELSE loaded = content[running] /\ loaded \in Firmwares
  /\ target # None =>
       /\ running # None /\ target = Other(running)
       /\ incoming \in Firmwares
       /\ content[target] = Garbage
  /\ agent => running # None

\* What RAUC recorded about a slot is true, or it never wrote that slot.
Recorded ==
  \A s \in Slots :
    content[s] # Garbage =>
      \/ record[s] = content[s]
      \/ record[s] = None /\ content[s] = Factory

\* The inductive invariant of every device.
IInv == TypeOK /\ Intact /\ Recorded

\* On a device that is kept the confirmed slot is whole and can be booted, and
\* nothing but the firmware that goes first is on trial.
KeptInv ==
  Kept =>
    /\ content[confirmed] \in Firmwares \ Bad
    /\ left[confirmed] > 0 \/ running = confirmed
    /\ running \notin {None, confirmed} => first = running /\ target = None

USE RaucAssumption

LEMMA ChoiceTyped == TypeOK => Choice \in Slots /\ Spent \in [Slots -> 0..Attempts]
<1> SUFFICES ASSUME TypeOK PROVE Choice \in Slots /\ Spent \in [Slots -> 0..Attempts]
  OBVIOUS
<1>1. Choice \in Slots
  BY DEF TypeOK, Choice, Other, Slots
<1>2. 1 \in 0..Attempts
  OBVIOUS
<1>3. left[Choice] > 0 => left[Choice] - 1 \in 0..Attempts
  BY <1>1 DEF TypeOK
<1> QED
  BY <1>1, <1>2, <1>3 DEF TypeOK, Spent

LEMMA InitInv == Init => IInv
<1> SUFFICES ASSUME Init PROVE IInv
  OBVIOUS
<1>1. Attempts \in 0..Attempts /\ 0 \in 0..MaxInstalls
  OBVIOUS
<1> QED
  BY <1>1 DEF Init, IInv, TypeOK, Intact, Recorded, Slots

LEMMA NextInv == IInv /\ [Next]_vars => IInv'
<1> SUFFICES ASSUME IInv, [Next]_vars PROVE IInv'
  OBVIOUS
<1> USE DEF IInv
<1>1. CASE Boots
  <2>1. left' \in [Slots -> 0..Attempts] /\ Choice \in Slots
    BY <1>1, ChoiceTyped DEF Boots
  <2>2. content[Choice] \in Firmwares \cup {Garbage}
    BY <2>1 DEF TypeOK
  <2>3. target = None
    BY <1>1 DEF Boots, Intact
  <2> QED
    BY <1>1, <2>1, <2>2, <2>3
       DEF Boots, slots, process, writing, boot, TypeOK, Intact, Recorded
<1>2. CASE GoesDown
  BY <1>2 DEF GoesDown, slots, env, TypeOK, Intact, Recorded
<1>3. CASE AgentStarts
  BY <1>3 DEF AgentStarts, slots, env, boot, writing, TypeOK, Intact, Recorded
<1>4. CASE AgentStops
  BY <1>4 DEF AgentStops, slots, env, boot, writing, TypeOK, Intact, Recorded
<1>5. ASSUME NEW fw \in Firmwares, BeginInstall(fw)
      PROVE  IInv'
  <2>1. running \in Slots /\ target' \in Slots /\ target' # running
    BY <1>5 DEF BeginInstall, Intact, TypeOK, Other, Slots
  <2>2. content' = [content EXCEPT ![target'] = Garbage]
    BY <1>5 DEF BeginInstall
  <2>3. left' \in [Slots -> 0..Attempts]
    BY <1>5, <2>1 DEF BeginInstall, TypeOK
  <2>4. installs' \in 0..MaxInstalls
    BY <1>5 DEF BeginInstall, TypeOK
  <2>5. TypeOK'
    BY <1>5, <2>1, <2>2, <2>3, <2>4 DEF BeginInstall, boot, TypeOK
  <2>6. Intact'
    BY <1>5, <2>1, <2>2 DEF BeginInstall, boot, TypeOK, Intact
  <2>7. Recorded'
    BY <1>5, <2>1, <2>2 DEF BeginInstall, TypeOK, Recorded
  <2> QED
    BY <2>5, <2>6, <2>7
<1>6. CASE InstallFails
  BY <1>6 DEF InstallFails, slots, env, boot, TypeOK, Intact, Recorded
<1>7. CASE InstallEnds
  <2>1. /\ running \in Slots /\ target \in Slots /\ target # running
        /\ incoming \in Firmwares
    BY <1>7 DEF InstallEnds, Intact, TypeOK, Other, Slots
  <2>2. /\ content' = [content EXCEPT ![target] = incoming]
        /\ record' = [record EXCEPT ![target] = incoming]
    BY <1>7 DEF InstallEnds
  <2>3. left' \in [Slots -> 0..Attempts]
    BY <1>7, <2>1 DEF InstallEnds, TypeOK
  <2>4. /\ habits' = habits /\ running' = running /\ loaded' = loaded
        /\ first' = target /\ target' = None /\ incoming' = None
        /\ confirmed' = confirmed /\ installs' = installs
    BY <1>7 DEF InstallEnds, boot
  <2>5. pending' \in BOOLEAN /\ client' \in BOOLEAN /\ agent' = agent
    BY <1>7 DEF InstallEnds
  <2>6. content' \in [Slots -> Firmwares \cup {Garbage}]
    BY <2>1, <2>2 DEF TypeOK
  <2>7. record' \in [Slots -> Firmwares \cup {None}]
    BY <2>1, <2>2 DEF TypeOK
  <2>8. TypeOK'
    BY <2>1, <2>3, <2>4, <2>5, <2>6, <2>7 DEF TypeOK
  <2>9. Intact'
    BY <2>1, <2>2, <2>4, <2>5 DEF TypeOK, Intact
  <2>10. Recorded'
    BY <2>1, <2>2 DEF TypeOK, Recorded
  <2> QED
    BY <2>8, <2>9, <2>10
<1>8. CASE MarkValid
  <2>1. running \in Slots
    BY <1>8 DEF MarkValid, Intact, TypeOK
  <2>2. left' \in [Slots -> 0..Attempts]
    BY <1>8, <2>1 DEF MarkValid, TypeOK
  <2> QED
    BY <1>8, <2>1, <2>2
       DEF MarkValid, slots, boot, writing, TypeOK, Intact, Recorded
<1>9. CASE UNCHANGED vars
  BY <1>9 DEF vars, slots, env, boot, process, writing, TypeOK, Intact, Recorded
<1> QED
  BY <1>1, <1>2, <1>3, <1>4, <1>5, <1>6, <1>7, <1>8, <1>9 DEF Next

\* The device's state keeps its types on every device: no count of attempts is
\* ever spent below zero (rauc-boot.cmd).
THEOREM RaucTypeCorrect == Spec => []TypeOK
<1>1. IInv => TypeOK
  BY DEF IInv
<1> QED
  BY <1>1, InitInv, NextInv, PTL DEF Spec

\* The agent never reports firmware that does not run, on any device
\* (Rauc::current_firmware).
THEOREM RaucIdentityTrue == Spec => []IdentityIsTrue
<1>1. IInv => IdentityIsTrue
  BY DEF IInv, TypeOK, Intact, Recorded, IdentityIsTrue, CurrentFirmware, ImageUuid,
         BundleUuid
<1> QED
  BY <1>1, InitInv, NextInv, PTL DEF Spec
-----------------------------------------------------------------------------
(* The refinement                                                          *)

\* The abstract steps and stutters that a step of the device may be.
Implements == [AB!Next]_(AB!vars) /\ KeptInv'

LEMMA InitKept == Init => KeptInv /\ AB!Init
  BY DEF Init, KeptInv, AB!Init, Standing, Candidate, Runs, Tried, Trial, Other,
         Slots

\* Devices that are not kept do nothing in ABDevice.
LEMMA UnkeptImplements ==
  ASSUME ~Kept, UNCHANGED habits
  PROVE  Implements
  BY DEF Kept, Implements, KeptInv, Standing, Candidate, Runs, AB!vars

LEMMA BootImplements ==
  ASSUME IInv, KeptInv, Kept, Boots
  PROVE  Implements
<1> USE DEF IInv
<1>1. /\ running = None /\ loaded = None /\ left' = Spent
      /\ UNCHANGED <<habits, content, first, target, confirmed>>
  BY DEF Boots, slots, writing, Intact
<1>2. /\ content[confirmed] \in Firmwares \ Bad
      /\ left[confirmed] > 0 /\ target = None
  BY <1>1 DEF KeptInv, Intact, TypeOK
<1>3. Choice \in {confirmed, Trial} /\ Trial # confirmed /\ Trial \in Slots
  BY DEF Choice, Trial, Other, TypeOK, Slots
<1>4. Kept' /\ Standing' = Standing /\ Trial' = Trial
  BY <1>1 DEF Kept, Standing, Trial
<1>5. CASE Choice = confirmed
  <2>1. /\ running' = confirmed /\ loaded' = content[confirmed]
        /\ Runs' = Standing /\ Runs = None
    BY <1>1, <1>2, <1>4, <1>5 DEF Boots, Runs, Standing
  <2>2. first = confirmed \/ left[Trial] = 0
    BY <1>3, <1>5 DEF Choice, Trial, Other, TypeOK, Slots
  <2>3. left' = [left EXCEPT ![confirmed] = @ - 1]
    BY <1>1, <1>2, <1>5 DEF Spent
  <2>4. left'[Trial] = left[Trial]
    BY <1>3, <2>3 DEF TypeOK
  <2>5. ~Tried'
    BY <1>1, <1>3, <1>4, <2>1, <2>2, <2>4 DEF Tried
  <2>6. AB!BootsStanding
    BY <1>4, <2>1, <2>5 DEF AB!BootsStanding, Candidate
  <2>7. KeptInv'
    BY <1>1, <1>2, <2>1 DEF KeptInv
  <2> QED
    BY <2>6, <2>7 DEF Implements, AB!Next
<1>6. CASE Choice = Trial
  <2>1. first = Trial /\ left[Trial] > 0
    BY <1>2, <1>3, <1>6 DEF Choice, Trial, Other, TypeOK, Slots
  <2>2. left' = [left EXCEPT ![Trial] = @ - 1]
    BY <1>1, <1>6, <2>1 DEF Spent
  <2>3. left'[confirmed] = left[confirmed]
    BY <1>3, <2>2 DEF TypeOK
  <2>4. CASE running' = Trial
    <3>1. loaded' = content[Trial] /\ content[Trial] # Garbage
      BY <1>1, <1>3, <1>6, <2>4, RaucAssumption DEF Boots, boot, Slots
    <3>2. Tried /\ Tried'
      BY <1>1, <1>4, <2>1, <2>4, <3>1 DEF Tried
    <3>3. content[Trial] # None
      BY <1>3, <3>1 DEF TypeOK
    <3>4. AB!BootsCandidate
      BY <1>1, <1>4, <3>1, <3>2, <3>3 DEF AB!BootsCandidate, Candidate, Runs
    <3>5. KeptInv'
      BY <1>1, <1>2, <2>1, <2>3, <2>4 DEF KeptInv
    <3> QED
      BY <3>4, <3>5 DEF Implements, AB!Next
  <2>5. CASE UNCHANGED boot
    <3>1. Runs = None /\ Runs' = None /\ running' = None
      BY <1>1, <2>5 DEF boot, Runs
    <3>2. Candidate' \in {Candidate, None}
      BY <1>1, <1>4, <2>1 DEF Candidate, Tried
    <3>3. AB!GivesUp \/ UNCHANGED AB!vars
      BY <1>4, <3>1, <3>2 DEF AB!GivesUp, AB!vars
    <3>4. KeptInv'
      BY <1>1, <1>2, <2>3, <3>1 DEF KeptInv
    <3> QED
      BY <3>3, <3>4 DEF Implements, AB!Next
  <2> QED
    BY <1>6, <2>4, <2>5 DEF Boots
<1> QED
  BY <1>3, <1>5, <1>6

LEMMA DownImplements ==
  ASSUME IInv, KeptInv, Kept, GoesDown
  PROVE  Implements
<1> USE DEF IInv
<1>1. /\ running # None /\ running' = None /\ loaded' = None /\ target' = None
      /\ UNCHANGED <<habits, content, first, left, confirmed>>
      /\ running # confirmed \/ left[running] > 0
  BY DEF GoesDown, slots, env, OnTrial, Kept
<1>2. /\ Kept' /\ Standing' = Standing /\ Trial' = Trial /\ Trial # confirmed
      /\ Runs = loaded /\ Runs # None /\ Runs' = None
  BY <1>1 DEF Kept, Standing, Trial, Runs, Other, Intact
<1>3. KeptInv'
  BY <1>1 DEF KeptInv
<1>4. CASE running = confirmed
  <2>1. Trial \in Slots
    BY DEF Trial, Other, Slots
  <2>2. Tried' = Tried
    BY <1>1, <1>2, <1>4, <2>1 DEF Tried
  <2>3. Candidate' = Candidate
    BY <1>1, <1>2, <2>2 DEF Candidate
  <2> QED
    BY <1>2, <1>3, <2>3 DEF Implements, AB!Next, AB!GoesDown
<1>5. CASE running # confirmed
  <2>1. running = Trial /\ first = Trial /\ content[Trial] # Garbage
    BY <1>1, <1>5 DEF KeptInv, Trial, Other, TypeOK, Slots, Intact
  <2>2. Candidate = loaded
    BY <1>1, <2>1 DEF Candidate, Tried, Intact
  <2>3. Candidate' \in {Candidate, None}
    BY <1>1, <1>2, <2>1, <2>2 DEF Candidate, Tried, Intact
  <2> QED
    BY <1>2, <1>3, <2>2, <2>3 DEF Implements, AB!Next, AB!GoesDown
<1> QED
  BY <1>4, <1>5

LEMMA InstallImplements ==
  ASSUME IInv, KeptInv, Kept,
         \/ \E fw \in Firmwares : BeginInstall(fw)
         \/ InstallFails \/ InstallEnds
  PROVE  Implements
<1> USE DEF IInv
<1>1. /\ UNCHANGED <<habits, running, loaded, confirmed>>
      /\ Kept' /\ Trial' = Trial /\ Trial # confirmed /\ Runs' = Runs
      /\ confirmed \in Slots /\ Trial \in Slots
  BY DEF BeginInstall, InstallFails, InstallEnds, boot, Kept, Trial, Runs,
         Other, TypeOK, Slots
<1>2. ASSUME NEW fw \in Firmwares, BeginInstall(fw)
      PROVE  Implements
  <2>1. running # None /\ running = confirmed /\ left[confirmed] > 0
    <3>1. "unmarked" \notin habits /\ "update_on_probation" \notin habits
      BY DEF Kept
    <3>2. running = confirmed
      BY <1>2, <3>1 DEF BeginInstall, OfferComes, OnTrial
    <3>3. left[running] # 0 /\ left[running] \in 0..Attempts /\ running # None
      BY <1>1, <1>2, <3>1, <3>2 DEF BeginInstall, OfferComes, TypeOK, Intact
    <3> QED
      BY <3>2, <3>3
  <2>2. target' = Trial /\ content' = [content EXCEPT ![Trial] = Garbage]
    BY <1>2, <2>1 DEF BeginInstall, Trial
  <2>3. content'[Trial] = Garbage /\ content'[confirmed] = content[confirmed]
    BY <1>1, <2>2 DEF TypeOK
  <2>4. left'[confirmed] = left[confirmed]
    BY <1>1, <1>2, <2>2 DEF BeginInstall, TypeOK
  <2>5. Standing' = Standing /\ Runs = Standing
    BY <1>1, <2>1, <2>3 DEF Standing, Runs, Intact
  <2>6. Candidate' = None
    BY <1>1, <2>3 DEF Candidate, Tried
  <2>7. AB!GivesUp
    BY <1>1, <2>5, <2>6 DEF AB!GivesUp
  <2>8. KeptInv'
    BY <1>1, <2>1, <2>3, <2>4 DEF KeptInv
  <2> QED
    BY <2>7, <2>8 DEF Implements, AB!Next
<1>3. CASE InstallFails
  <2>1. UNCHANGED <<content, first, left>> /\ target' = None
    BY <1>3 DEF InstallFails, slots, env
  <2>2. UNCHANGED AB!vars
    BY <1>1, <2>1 DEF AB!vars, Standing, Candidate, Tried
  <2>3. KeptInv'
    BY <1>1, <2>1 DEF KeptInv
  <2> QED
    BY <2>2, <2>3 DEF Implements
<1>4. CASE InstallEnds
  <2>1. running # None /\ running = confirmed /\ target = Trial /\ incoming \in Firmwares
    BY <1>4 DEF InstallEnds, KeptInv, Intact, Trial
  <2>2. /\ content' = [content EXCEPT ![Trial] = incoming]
        /\ left' = [left EXCEPT ![Trial] = Attempts]
        /\ first' = Trial
    BY <1>4, <2>1 DEF InstallEnds
  <2>3. /\ content'[Trial] = incoming /\ content'[confirmed] = content[confirmed]
        /\ left'[Trial] = Attempts /\ left'[confirmed] = left[confirmed]
    BY <1>1, <2>2 DEF TypeOK
  <2>4. Standing' = Standing /\ Runs = Standing
    BY <1>1, <2>1, <2>3 DEF Standing, Runs, Intact
  <2>5. Candidate' = incoming
    BY <1>1, <2>1, <2>2, <2>3 DEF Candidate, Tried
  <2>6. AB!Installs(incoming)
    BY <1>1, <2>4, <2>5 DEF AB!Installs
  <2>7. KeptInv'
    BY <1>1, <2>1, <2>3 DEF KeptInv
  <2> QED
    BY <2>1, <2>6, <2>7 DEF Implements, AB!Next
<1> QED
  BY <1>2, <1>3, <1>4

LEMMA MarkImplements ==
  ASSUME IInv, KeptInv, Kept, MarkValid
  PROVE  Implements
<1> USE DEF IInv
<1>1. /\ UNCHANGED <<habits, content, first, running, loaded, target>>
      /\ confirmed' = running /\ running \in Slots
      /\ left' = [left EXCEPT ![running] = Attempts]
      /\ loaded = content[running] /\ loaded \in Firmwares \ Bad
  BY DEF MarkValid, slots, boot, writing, Intact, TypeOK
<1>2. Kept' /\ Runs = loaded /\ Runs' = loaded /\ Standing' = loaded
  BY <1>1 DEF Kept, Runs, Standing
<1>3. left'[running] > 0
  BY <1>1 DEF TypeOK
<1>4. KeptInv'
  BY <1>1, <1>3 DEF KeptInv
<1>5. CASE running = confirmed
  <2>1. Trial' = Trial /\ Trial # running /\ Trial \in Slots
    BY <1>1, <1>5 DEF Trial, Other, Slots
  <2>2. left'[Trial] = left[Trial]
    BY <1>1, <2>1 DEF TypeOK
  <2>3. Tried' = Tried
    BY <1>1, <2>1, <2>2 DEF Tried
  <2>4. Candidate' = Candidate /\ Standing' = Standing
    BY <1>1, <1>2, <1>5, <2>1, <2>3 DEF Candidate, Standing
  <2> QED
    BY <1>2, <1>4, <2>4 DEF Implements, AB!vars
<1>6. CASE running # confirmed
  <2>1. running = Trial /\ first = running /\ running # None
    BY <1>1, <1>6 DEF KeptInv, Trial, Other, TypeOK, Slots
  <2>2. Candidate = loaded /\ loaded # None
    BY <1>1, <2>1 DEF Candidate, Tried
  <2>3. Trial' # running
    BY <1>1 DEF Trial, Other, Slots
  <2>4. Candidate' = None
    BY <1>1, <2>1, <2>3 DEF Candidate, Tried
  <2>5. AB!Confirms
    BY <1>2, <2>2, <2>4 DEF AB!Confirms
  <2> QED
    BY <1>4, <2>5 DEF Implements, AB!Next
<1> QED
  BY <1>5, <1>6

LEMMA StepImplements == IInv /\ KeptInv /\ [Next]_vars => Implements
<1> SUFFICES ASSUME IInv, KeptInv, [Next]_vars PROVE Implements
  OBVIOUS
<1>1. UNCHANGED habits
  BY DEF Next, vars, Boots, GoesDown, AgentStarts, AgentStops, BeginInstall,
         InstallFails, InstallEnds, MarkValid
<1>2. CASE ~Kept
  BY <1>1, <1>2, UnkeptImplements
<1>3. CASE Kept
  <2>1. CASE AgentStarts \/ AgentStops \/ UNCHANGED vars
    BY <2>1 DEF AgentStarts, AgentStops, vars, slots, env, boot, writing,
       Implements, KeptInv, Kept, AB!vars, Standing, Candidate, Runs, Tried, Trial
  <2> QED
    BY <1>3, <2>1, BootImplements, DownImplements, InstallImplements,
       MarkImplements DEF Next
<1> QED
  BY <1>2, <1>3

\* On a device that is kept, firmware to fall back on is whole and tried until
\* other firmware is confirmed while it runs, whatever installs, agents, boots
\* and power do (UpdateTool::install, BootState).
THEOREM RaucRefinement == Spec => ImplementsAB
<1>1. IInv /\ KeptInv /\ [Next]_vars => KeptInv' /\ [AB!Next]_(AB!vars)
  BY StepImplements DEF Implements
<1> QED
  BY <1>1, InitInv, NextInv, InitKept, PTL DEF Spec, ImplementsAB, AB!Spec
=============================================================================
