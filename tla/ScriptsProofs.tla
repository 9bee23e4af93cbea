--------------------------- MODULE ScriptsProofs ----------------------------
(***************************************************************************)
(* Proofs about Scripts, for any requests, any room in the channel and any *)
(* number of restarts: its types, that a script runs and answers for its   *)
(* own text, and that the tasks clean up.                                  *)
(***************************************************************************)
EXTENDS Scripts, TLAPS

\* The stages in which a task has a directory.
Placed == {"made", "staged", "written", "running", "ended"}

\* A directory that tempdir has given out, in the life of this agent or before.
Given(r) ==
  \E a \in 0..agents, n \in 0..MaxStaged :
    directory[r] = <<a, n>> /\ (a = agents => n < next)

\* Tasks that are at work have directories, with what they wrote in them; those
\* that are over have none, or one that was never made private.
OwnDirectory ==
  \A r \in Requests :
    /\ directory[r] # None => Given(r)
    /\ stage[r] \in Placed => directory[r] # None
    /\ stage[r] \in {"unasked", "spawned"} => directory[r] = None
    /\ stage[r] = "made" => disk[directory[r]] = Shared
    /\ stage[r] = "written" => disk[directory[r]] = r
    /\ stage[r] \in Finished /\ directory[r] # None =>
         disk[directory[r]] \in {Absent, Shared}

\* What is on the disk was made for a task.
Accounted ==
  \A d \in Names : disk[d] # Absent => \E r \in Requests : directory[r] = d

\* No directory is given twice.
Apart ==
  \A r, s \in Requests :
    r # s /\ directory[r] # None => directory[s] # directory[r]

\* A process runs only while its task waits for it, or its agent is gone; and an
\* ok was said of one that succeeded on its own text.
Truthful ==
  \A r \in Requests :
    /\ ran[r] \in {None, r}
    /\ child[r] = "runs" => stage[r] \in {"running", "gone"}
    /\ child[r] # "none" => ran[r] = r
    /\ outcome[r] = "ok" => child[r] = "succeeded"
    /\ stage[r] \in {"unasked", "spawned", "made", "staged", "written"} => child[r] = "none"

\* What waits in the channel is over.
Queued == \A i \in 1..Len(results) : stage[results[i]] \in Finished

IInv == TypeOK /\ OwnDirectory /\ Accounted /\ Apart /\ Truthful /\ Queued

USE ScriptsAssumption

LEMMA InitInv == Init => IInv
<1> SUFFICES ASSUME Init PROVE IInv
  OBVIOUS
<1>1. results \in Seq(Requests) /\ Len(results) = 0
  BY DEF Init
<1>2. 0 \in 0..MaxRestarts /\ 0 \in 0..MaxStaged /\ 0 <= Channel
  OBVIOUS
<1>3. enabled \in BOOLEAN /\ online \in BOOLEAN
  BY DEF Init
<1>4. TypeOK
  BY <1>1, <1>2, <1>3 DEF Init, TypeOK, Stages
<1>5. OwnDirectory
  BY DEF Init, OwnDirectory, Placed, Finished
<1>6. Accounted /\ Apart /\ Truthful
  BY DEF Init, Accounted, Apart, Truthful, Finished
<1>7. Queued
  BY <1>1 DEF Queued
<1> QED
  BY <1>4, <1>5, <1>6, <1>7 DEF IInv

\* The directory that tempdir makes next is nobody's.
LEMMA Fresh ==
  ASSUME IInv, next < MaxStaged
  PROVE  /\ <<agents, next>> \in Names /\ next + 1 \in 0..MaxStaged
         /\ \A r \in Requests : directory[r] # <<agents, next>>
<1> USE DEF IInv
<1>1. agents \in 0..MaxRestarts /\ next \in 0..MaxStaged /\ next + 1 \in 0..MaxStaged
  BY DEF TypeOK
<1>2. ASSUME NEW r \in Requests, directory[r] = <<agents, next>>
      PROVE  FALSE
  <2>1. directory[r] # None => Given(r)
    BY DEF OwnDirectory, Given
  <2>2. <<agents, next>> # None
    BY <1>1 DEF Names
  <2> QED
    BY <1>1, <1>2, <2>1, <2>2 DEF Given
<1> QED
  BY <1>1, <1>2 DEF Names

LEMMA LoopInv ==
  ASSUME IInv,
         \/ SessionStarts \/ SessionEnds \/ SendsResult \/ AgentRestarts
         \/ \E r \in Requests : RunScript(r)
  PROVE  IInv'
<1> USE DEF IInv
<1>1. CASE SessionStarts \/ SessionEnds
  <2>1. UNCHANGED <<enabled, agents, next, directory, disk, stage, ran, child,
                    others, outcome, results>>
    BY <1>1 DEF SessionStarts, SessionEnds, staged, ground
  <2>2. online' \in BOOLEAN
    BY <1>1 DEF SessionStarts, SessionEnds
  <2>3. TypeOK'
    BY <2>1, <2>2 DEF TypeOK
  <2>4. OwnDirectory' /\ Accounted' /\ Apart' /\ Truthful' /\ Queued'
    BY <2>1 DEF OwnDirectory, Given, Accounted, Apart, Truthful, Queued
  <2> QED
    BY <2>3, <2>4
<1>2. ASSUME NEW r \in Requests, RunScript(r)
      PROVE  IInv'
  <2>1. /\ stage[r] = "unasked" /\ stage' = [stage EXCEPT ![r] = "spawned"]
        /\ UNCHANGED <<enabled, online, agents, next, directory, disk, ran,
                       child, others, outcome, results>>
    BY <1>2 DEF RunScript, Goes, staged, ground
  <2>2. TypeOK' /\ Queued'
    BY <2>1 DEF TypeOK, Queued, Stages, Working, Finished
  <2>3. OwnDirectory'
    <3>1. \A s \in Requests : directory[s] # None => Given(s)'
      BY <2>1 DEF OwnDirectory, Given
    <3>2. \A s \in Requests : s # r => stage'[s] = stage[s]
      BY <2>1
    <3>3. stage'[r] = "spawned" /\ directory[r] = None
      BY <2>1 DEF TypeOK, OwnDirectory
    <3> QED
      BY <2>1, <3>1, <3>2, <3>3 DEF OwnDirectory, Placed, Finished
  <2>4. Accounted' /\ Apart' /\ Truthful'
    BY <2>1 DEF TypeOK, Accounted, Apart, Truthful
  <2> QED
    BY <2>2, <2>3, <2>4
<1>3. CASE SendsResult
  <2>1. /\ results \in Seq(Requests) /\ results # << >> /\ results' = Tail(results)
        /\ UNCHANGED <<enabled, agents, next, directory, disk, ran, child,
                       others, outcome>>
        /\ online' \in BOOLEAN
    BY <1>3 DEF SendsResult, staged, ground, TypeOK
  <2>2. PICK to \in {"sent", "lost"} : stage' = [stage EXCEPT ![Head(results)] = to]
    BY <1>3 DEF SendsResult
  <2>3. DEFINE h == Head(results)
  <2>4. /\ h \in Requests /\ h = results[1] /\ 1 \in 1..Len(results)
        /\ results' \in Seq(Requests) /\ Len(results') = Len(results) - 1
        /\ \A i \in 1..Len(results') : i + 1 \in 1..Len(results)
                                       /\ results'[i] = results[i + 1]
        /\ \A i \in 1..Len(results) : results[i] \in Requests
    BY <2>1
  <2>5. stage[h] \in Finished
    BY <2>4 DEF Queued
  <2> HIDE DEF h
  <2>6. stage' = [stage EXCEPT ![h] = to]
    BY <2>2 DEF h
  <2>7. Len(results') <= Channel
    BY <2>4 DEF TypeOK
  <2>8. TypeOK'
    BY <2>1, <2>2, <2>4, <2>6, <2>7 DEF TypeOK, Stages, Finished
  <2>9. OwnDirectory'
    BY <2>1, <2>2, <2>4, <2>5, <2>6 DEF TypeOK, OwnDirectory, Given, Placed, Finished
  <2>10. Accounted' /\ Apart' /\ Truthful'
    BY <2>1, <2>2, <2>4, <2>5, <2>6 DEF TypeOK, Accounted, Apart, Truthful, Finished
  <2>11. ASSUME NEW i \in 1..Len(results')
         PROVE  stage'[results'[i]] \in Finished
    <3>1. stage[results[i + 1]] \in Finished /\ results'[i] = results[i + 1]
          /\ results[i + 1] \in Requests
      BY <2>4, <2>11 DEF Queued
    <3> QED
      BY <2>2, <2>6, <3>1 DEF TypeOK, Finished
  <2> QED
    BY <2>8, <2>9, <2>10, <2>11 DEF Queued
<1>4. CASE AgentRestarts
  <2>1. /\ agents \in 0..MaxRestarts /\ agents < MaxRestarts
        /\ agents' = agents + 1 /\ next' = 0 /\ results' = << >> /\ online' = FALSE
        /\ UNCHANGED <<enabled, directory, disk, ran, others, outcome>>
    BY <1>4 DEF AgentRestarts, TypeOK
  <2>2. \A r \in Requests :
          stage'[r] = IF stage[r] \in Working THEN "gone"
                      ELSE IF stage[r] \in {"waiting", "queued"} THEN "lost"
                      ELSE stage[r]
    BY <1>4 DEF AgentRestarts
  <2>3. /\ child' \in [Requests -> {"none", "runs", "succeeded", "failed", "killed"}]
        /\ \A r \in Requests :
             \/ child'[r] = child[r]
             \/ child[r] = "runs" /\ child'[r] = "killed"
    BY <1>4 DEF AgentRestarts, TypeOK
  <2>4. stage' \in [Requests -> Stages]
    BY <1>4 DEF AgentRestarts, TypeOK, Stages, Working, Finished
  <2>5. agents' \in 0..MaxRestarts /\ next' \in 0..MaxStaged
    BY <2>1
  <2>11. results' \in Seq(Requests) /\ Len(results') <= Channel
    BY <2>1
  <2>12. online' \in BOOLEAN
    BY <2>1
  <2>6. TypeOK'
    BY <2>1, <2>3, <2>4, <2>5, <2>11, <2>12 DEF TypeOK
  <2>7. ASSUME NEW r \in Requests, directory[r] # None
        PROVE  Given(r)'
    BY <2>1, <2>7 DEF OwnDirectory, Given
  <2>8. OwnDirectory'
    BY <2>1, <2>2, <2>7 DEF TypeOK, OwnDirectory, Placed, Working, Finished
  <2>9. Accounted' /\ Apart' /\ Queued'
    BY <2>1 DEF Accounted, Apart, Queued
  <2>10. Truthful'
    BY <2>1, <2>2, <2>3 DEF TypeOK, Truthful, Working
  <2> QED
    BY <2>6, <2>8, <2>9, <2>10
<1> QED
  BY <1>1, <1>2, <1>3, <1>4

\* A task that goes from one stage to another, and changes nothing but its
\* outcome and what is on the disk.
Moves(r, from, to) ==
  /\ stage[r] = from /\ stage' = [stage EXCEPT ![r] = to]
  /\ UNCHANGED <<enabled, online, agents, ran, others, results>>

\* What a move leaves to be shown, where its disk is concerned.
LEMMA Moved ==
  ASSUME IInv, NEW r \in Requests, NEW from \in Working \cup {"waiting"},
         NEW to \in Stages, Moves(r, from, to),
         to \in Finished \/ from # "waiting"
  PROVE  stage' \in [Requests -> Stages] /\ Queued'
<1>1. stage' \in [Requests -> Stages]
  BY DEF IInv, TypeOK, Moves
<1>2. ASSUME NEW i \in 1..Len(results)
      PROVE  stage'[results[i]] \in Finished
  <2>1. results[i] \in Requests /\ stage[results[i]] \in Finished
    BY <1>2 DEF IInv, TypeOK, Queued
  <2> QED
    BY <2>1 DEF IInv, TypeOK, Moves, Working, Finished
<1> QED
  BY <1>1, <1>2 DEF Queued, Moves

LEMMA DisabledInv ==
  ASSUME IInv, NEW r \in Requests, Disabled(r)
  PROVE  IInv'
<1> USE DEF IInv
<1>1. /\ Moves(r, "spawned", "waiting")
      /\ outcome' = [outcome EXCEPT ![r] = "error"]
      /\ UNCHANGED <<next, directory, disk, child>>
  BY DEF Disabled, Goes, Result, Moves, staged, ground
<1>2. stage' \in [Requests -> Stages] /\ Queued'
  BY <1>1, Moved DEF Working, Stages, Finished
<1>3. TypeOK'
  BY <1>1, <1>2 DEF Moves, TypeOK
<1>4. OwnDirectory'
  BY <1>1 DEF Moves, TypeOK, OwnDirectory, Given, Placed, Finished
<1>5. Accounted' /\ Apart' /\ Truthful'
  BY <1>1 DEF Moves, TypeOK, Accounted, Apart, Truthful
<1> QED
  BY <1>2, <1>3, <1>4, <1>5

LEMMA CreateDirectoryInv ==
  ASSUME IInv, NEW r \in Requests, CreateDirectory(r)
  PROVE  IInv'
<1> USE DEF IInv
<1> DEFINE d == <<agents, next>>
<1>1. /\ Moves(r, "spawned", "made") /\ next < MaxStaged /\ next' = next + 1
      /\ directory' = [directory EXCEPT ![r] = d]
      /\ UNCHANGED <<child, outcome>>
  BY DEF CreateDirectory, Goes, Moves, ground
<1>2. /\ d \in Names /\ next + 1 \in 0..MaxStaged
      /\ \A s \in Requests : directory[s] # d
  BY <1>1, Fresh
<1>3. disk' = [disk EXCEPT ![d] = Shared]
  <2>1. disk[d] = Absent
    BY <1>2 DEF Accounted
  <2> QED
    BY <1>2, <2>1 DEF CreateDirectory, TypeOK
<1>4. /\ disk' \in [Names -> Requests \cup {Absent, Shared, Empty}]
      /\ disk'[d] = Shared
      /\ \A e \in Names : e # d => disk'[e] = disk[e]
  BY <1>2, <1>3 DEF TypeOK
<1>5. stage' \in [Requests -> Stages] /\ Queued'
  BY <1>1, Moved DEF Working, Stages, Finished
<1>6. TypeOK'
  BY <1>1, <1>2, <1>4, <1>5 DEF Moves, TypeOK
<1>7. Given(r)'
  BY <1>1, <1>2 DEF Moves, TypeOK, Given
<1>8. ASSUME NEW s \in Requests, s # r
      PROVE  /\ directory'[s] = directory[s] /\ stage'[s] = stage[s]
             /\ directory[s] # None => Given(s)' /\ disk'[directory[s]] = disk[directory[s]]
  <2>1. directory'[s] = directory[s] /\ stage'[s] = stage[s]
    BY <1>1, <1>8 DEF Moves, TypeOK
  <2>2. directory[s] # None => Given(s)'
    BY <1>1, <2>1 DEF Moves, OwnDirectory, Given, TypeOK
  <2>3. directory[s] # None => disk'[directory[s]] = disk[directory[s]]
    BY <1>2, <1>4 DEF TypeOK
  <2> QED
    BY <2>1, <2>2, <2>3
<1>9. directory'[r] = d /\ stage'[r] = "made" /\ d # None
  BY <1>1, <1>2 DEF Moves, TypeOK
<1> HIDE DEF d
<1>10. OwnDirectory'
  BY <1>4, <1>7, <1>8, <1>9 DEF OwnDirectory, Placed, Finished
<1>11. Apart'
  BY <1>2, <1>8, <1>9 DEF Apart
<1>12. Truthful'
  BY <1>1 DEF Moves, TypeOK, Truthful
<1>13. Accounted'
  <2>1. ASSUME NEW e \in Names, disk'[e] # Absent
        PROVE  \E s \in Requests : directory'[s] = e
    <3>1. CASE e = d
      BY <1>9, <3>1
    <3>2. CASE e # d
      <4>1. disk[e] # Absent
        BY <1>4, <2>1, <3>2
      <4>2. PICK s \in Requests : directory[s] = e
        BY <4>1, <2>1 DEF Accounted
      <4>3. s # r
        BY <1>1, <4>2, <2>1 DEF Moves, OwnDirectory, Names
      <4> QED
        BY <1>8, <4>2, <4>3
    <3> QED
      BY <3>1, <3>2
  <2> QED
    BY <2>1 DEF Accounted
<1> QED
  BY <1>5, <1>6, <1>10, <1>11, <1>12, <1>13

LEMMA TempdirFailsInv ==
  ASSUME IInv, NEW r \in Requests, TempdirFails(r)
  PROVE  IInv'
<1> USE DEF IInv
<1>1. PICK from \in {"spawned", "made"} :
        /\ Moves(r, from, "waiting")
        /\ next' = next \/ (next < MaxStaged /\ next' = next + 1)
        /\ outcome' = [outcome EXCEPT ![r] = "error"]
        /\ UNCHANGED <<directory, disk, child>>
  BY DEF TempdirFails, Goes, Result, Moves, ground
<1>2. next' \in 0..MaxStaged /\ next <= next'
  BY <1>1 DEF TypeOK
<1>3. stage' \in [Requests -> Stages] /\ Queued'
  BY <1>1, Moved DEF Working, Stages, Finished
<1>4. TypeOK'
  BY <1>1, <1>2, <1>3 DEF Moves, TypeOK
<1>5. ASSUME NEW s \in Requests, directory[s] # None
      PROVE  Given(s)'
  BY <1>1, <1>2, <1>5 DEF Moves, OwnDirectory, Given, TypeOK
<1>6. OwnDirectory'
  BY <1>1, <1>5 DEF Moves, TypeOK, OwnDirectory, Placed, Finished
<1>7. Accounted' /\ Apart' /\ Truthful'
  BY <1>1 DEF Moves, TypeOK, Accounted, Apart, Truthful
<1> QED
  BY <1>3, <1>4, <1>6, <1>7

\* What a task does in its own directory touches no other.
LEMMA DirectoryInv ==
  ASSUME IInv, NEW r \in Requests,
         MakePrivate(r) \/ WriteScript(r) \/ WriteFails(r) \/ RemoveDirectory(r)
  PROVE  IInv'
<1> USE DEF IInv
<1>1. PICK from \in {"made", "staged", "ended"},
           to \in {"staged", "written", "waiting"},
           held \in {Empty, r, Absent} :
        /\ Moves(r, from, to)
        /\ disk' = [disk EXCEPT ![directory[r]] = held]
        /\ to = "written" => held = r
        /\ to = "waiting" => held = Absent
        /\ outcome' \in {outcome, [outcome EXCEPT ![r] = "error"]}
        /\ UNCHANGED <<next, directory, child>>
        /\ to = "written" => from = "staged"
        /\ to = "staged" => from = "made"
  <2>1. CASE MakePrivate(r)
    <3>1. disk' = [disk EXCEPT ![directory[r]] = Empty]
      BY <2>1 DEF MakePrivate, Goes, OwnDirectory
    <3> QED
      BY <2>1, <3>1 DEF MakePrivate, Goes, Moves, ground
  <2>2. CASE WriteScript(r)
    BY <2>2 DEF WriteScript, Goes, Moves, ground
  <2>3. CASE WriteFails(r) \/ RemoveDirectory(r)
    BY <2>3 DEF WriteFails, RemoveDirectory, Goes, Result, Moves, ground
  <2> QED
    BY <2>1, <2>2, <2>3
<1>2. directory[r] # None /\ directory[r] \in Names
  BY <1>1 DEF Moves, OwnDirectory, Placed, TypeOK
<1>3. stage' \in [Requests -> Stages] /\ Queued'
  BY <1>1, Moved DEF Working, Stages, Finished
<1>4. /\ disk' \in [Names -> Requests \cup {Absent, Shared, Empty}]
      /\ disk'[directory[r]] = held
      /\ \A s \in Requests : s # r /\ directory[s] # None =>
           disk'[directory[s]] = disk[directory[s]]
  BY <1>1, <1>2 DEF TypeOK, Apart
<1>5. TypeOK'
  BY <1>1, <1>3, <1>4 DEF Moves, TypeOK
<1>6. ASSUME NEW s \in Requests, directory[s] # None
      PROVE  Given(s)'
  BY <1>1, <1>6 DEF Moves, OwnDirectory, Given
<1>7. OwnDirectory'
  BY <1>1, <1>2, <1>4, <1>6 DEF Moves, TypeOK, OwnDirectory, Placed, Finished
<1>8. Apart'
  BY <1>1 DEF Apart
<1>9. Truthful'
  BY <1>1 DEF Moves, TypeOK, Truthful
<1>10. Accounted'
  BY <1>1 DEF TypeOK, Accounted
<1> QED
  BY <1>3, <1>5, <1>7, <1>8, <1>9, <1>10

LEMMA RunningInv ==
  ASSUME IInv, NEW r \in Requests,
         Spawn(r) \/ SpawnFails(r) \/ Finishes(r) \/ TimesOut(r)
  PROVE  IInv'
<1> USE DEF IInv
<1>1. PICK from \in {"written", "running"}, to \in {"running", "ended"} :
        /\ stage[r] = from /\ stage' = [stage EXCEPT ![r] = to]
        /\ UNCHANGED <<enabled, online, agents, next, directory, disk, others, results>>
  BY DEF Spawn, SpawnFails, Finishes, TimesOut, Goes, staged, ground
<1>2. stage' \in [Requests -> Stages]
  BY <1>1 DEF TypeOK, Stages, Working
<1>3. Queued'
  <2>1. ASSUME NEW i \in 1..Len(results)
        PROVE  stage'[results[i]] \in Finished
    <3>1. results[i] \in Requests /\ stage[results[i]] \in Finished
      BY <2>1 DEF TypeOK, Queued
    <3> QED
      BY <1>1, <3>1 DEF TypeOK, Finished
  <2> QED
    BY <1>1, <2>1 DEF Queued
<1>4. OwnDirectory'
  BY <1>1 DEF TypeOK, OwnDirectory, Given, Placed, Finished
<1>5. Accounted' /\ Apart'
  BY <1>1 DEF Accounted, Apart
<1>6. CASE Spawn(r)
  <2>1. /\ stage[r] = "written" /\ stage' = [stage EXCEPT ![r] = "running"]
        /\ disk[directory[r]] = r
    BY <1>6 DEF Spawn, Goes, OwnDirectory
  <2>2. /\ ran' = [ran EXCEPT ![r] = r] /\ child' = [child EXCEPT ![r] = "runs"]
        /\ outcome' = outcome
    BY <1>6, <2>1 DEF Spawn
  <2>3. TypeOK'
    BY <1>1, <1>2, <2>2 DEF TypeOK
  <2>4. Truthful'
    BY <2>1, <2>2 DEF TypeOK, Truthful
  <2> QED
    BY <1>3, <1>4, <1>5, <2>3, <2>4
<1>7. CASE SpawnFails(r)
  <2>1. /\ stage[r] = "written" /\ stage' = [stage EXCEPT ![r] = "ended"]
        /\ outcome' = [outcome EXCEPT ![r] = "error"] /\ UNCHANGED <<ran, child>>
    BY <1>7 DEF SpawnFails, Goes, Result, ground
  <2>2. TypeOK' /\ Truthful'
    BY <1>1, <1>2, <2>1 DEF TypeOK, Truthful
  <2> QED
    BY <1>3, <1>4, <1>5, <2>2
<1>8. CASE Finishes(r)
  <2>1. /\ stage[r] = "running" /\ stage' = [stage EXCEPT ![r] = "ended"]
        /\ child[r] \in {"succeeded", "failed"}
        /\ outcome' = [outcome EXCEPT ![r] =
                         IF child[r] = "succeeded" THEN "ok" ELSE "error"]
        /\ UNCHANGED <<ran, child>>
    BY <1>8 DEF Finishes, Goes, Result, ground
  <2>2. TypeOK' /\ Truthful'
    BY <1>1, <1>2, <2>1 DEF TypeOK, Truthful
  <2> QED
    BY <1>3, <1>4, <1>5, <2>2
<1>9. CASE TimesOut(r)
  <2>1. /\ stage[r] = "running" /\ stage' = [stage EXCEPT ![r] = "ended"]
        /\ outcome' = [outcome EXCEPT ![r] = "error"] /\ ran' = ran
        /\ child' = [child EXCEPT ![r] = IF @ = "runs" THEN "killed" ELSE @]
    BY <1>9 DEF TimesOut, Goes, Result
  <2>2. TypeOK' /\ Truthful'
    BY <1>1, <1>2, <2>1 DEF TypeOK, Truthful
  <2> QED
    BY <1>3, <1>4, <1>5, <2>2
<1> QED
  BY <1>6, <1>7, <1>8, <1>9

LEMMA QueueResultInv ==
  ASSUME IInv, NEW r \in Requests, QueueResult(r)
  PROVE  IInv'
<1> USE DEF IInv
<1>1. /\ stage[r] = "waiting" /\ stage' = [stage EXCEPT ![r] = "queued"]
      /\ Len(results) < Channel /\ results' = Append(results, r)
      /\ UNCHANGED <<enabled, online, agents, next, directory, disk, ran, child,
                     others, outcome>>
  BY DEF QueueResult, Goes, staged, ground
<1>2. /\ results' \in Seq(Requests) /\ Len(results') = Len(results) + 1
      /\ Len(results) \in Nat
      /\ \A i \in 1..Len(results) : results'[i] = results[i]
      /\ results'[Len(results) + 1] = r
  BY <1>1 DEF TypeOK
<1>3. TypeOK'
  BY <1>1, <1>2 DEF TypeOK, Stages, Finished
<1>4. OwnDirectory'
  BY <1>1 DEF TypeOK, OwnDirectory, Given, Placed, Finished
<1>5. Accounted' /\ Apart' /\ Truthful'
  BY <1>1 DEF TypeOK, Accounted, Apart, Truthful
<1>6. ASSUME NEW i \in 1..Len(results')
      PROVE  stage'[results'[i]] \in Finished
  <2>1. CASE i = Len(results) + 1
    BY <1>1, <1>2, <2>1 DEF TypeOK, Finished
  <2>2. CASE i # Len(results) + 1
    <3>1. i \in 1..Len(results)
      BY <1>2, <1>6, <2>2
    <3>2. results'[i] = results[i] /\ results[i] \in Requests
          /\ stage[results[i]] \in Finished
      BY <1>2, <3>1 DEF TypeOK, Queued
    <3> QED
      BY <1>1, <3>2 DEF TypeOK, Finished
  <2> QED
    BY <2>1, <2>2
<1> QED
  BY <1>3, <1>4, <1>5, <1>6 DEF Queued

LEMMA ScriptRunsInv ==
  ASSUME IInv, NEW r \in Requests, ScriptRuns(r)
  PROVE  IInv'
<1> USE DEF IInv
<1>1. /\ UNCHANGED <<enabled, online, agents, next, directory, disk, stage, ran,
                     outcome, results>>
      /\ others' \in [Requests -> BOOLEAN]
  BY DEF ScriptRuns, staged, TypeOK
<1>2. \/ child' = child
      \/ /\ child[r] = "runs"
         /\ \E end \in {"succeeded", "failed"} : child' = [child EXCEPT ![r] = end]
  BY DEF ScriptRuns
<1>3. child' \in [Requests -> {"none", "runs", "succeeded", "failed", "killed"}]
  BY <1>2 DEF TypeOK
<1>4. TypeOK'
  BY <1>1, <1>3 DEF TypeOK
<1>5. OwnDirectory' /\ Accounted' /\ Apart' /\ Queued'
  BY <1>1 DEF OwnDirectory, Given, Accounted, Apart, Queued
<1>6. Truthful'
  BY <1>1, <1>2 DEF TypeOK, Truthful
<1> QED
  BY <1>4, <1>5, <1>6
-----------------------------------------------------------------------------
LEMMA NextInv == IInv /\ [Next]_vars => IInv'
<1> SUFFICES ASSUME IInv, [Next]_vars PROVE IInv'
  OBVIOUS
<1>1. CASE UNCHANGED vars
  BY <1>1 DEF vars, staged, ground, IInv, TypeOK, OwnDirectory, Given, Accounted,
     Apart, Truthful, Queued
<1>2. CASE Next
  BY <1>2, LoopInv, DisabledInv, CreateDirectoryInv, TempdirFailsInv, DirectoryInv,
     RunningInv, QueueResultInv, ScriptRunsInv DEF Next, Task
<1> QED
  BY <1>1, <1>2

LEMMA Invariance == Spec => []IInv
  BY InitInv, NextInv, PTL DEF Spec

\* The state keeps its types: no more outcomes wait than the channel has room
\* for, whatever the number of scripts that end at once (script_results).
THEOREM ScriptsTypeCorrect == Spec => []TypeOK
<1>1. IInv => TypeOK
  BY DEF IInv
<1> QED
  BY <1>1, Invariance, PTL

\* However many tasks interleave, a script runs its own text, and ok is said of
\* none but one that ended well by itself (scripts.rs, run and tempdir).
THEOREM ScriptsAnswerThemselves == Spec => []AnswersItself
<1>1. IInv => AnswersItself
  BY DEF IInv, Truthful, AnswersItself
<1> QED
  BY <1>1, Invariance, PTL

\* A script that has an outcome has no process, and every directory there is, is
\* that of a task at work, of one its agent did not survive, or an empty one that
\* could not be made private (scripts.rs, run, execute and tempdir).
THEOREM ScriptsCleanUp == Spec => []CleansUp
<1>1. ASSUME IInv
      PROVE  CleansUp
  <2>1. ASSUME NEW r \in Requests, stage[r] \in Finished
        PROVE  child[r] # "runs"
    BY <1>1, <2>1 DEF IInv, Truthful, Finished
  <2>2. ASSUME NEW d \in Names, disk[d] # Absent
        PROVE  \E r \in Requests :
                 /\ directory[r] = d
                 /\ stage[r] \in Working \cup {"gone"} \/ disk[d] = Shared
    <3>1. PICK r \in Requests : directory[r] = d
      BY <1>1, <2>2 DEF IInv, Accounted
    <3>2. d # None /\ stage[r] \in Stages
      BY <1>1, <2>2 DEF IInv, TypeOK
    <3>3. stage[r] # "unasked"
      BY <1>1, <3>1, <3>2 DEF IInv, OwnDirectory
    <3>4. stage[r] \in Finished => disk[d] = Shared
      BY <1>1, <2>2, <3>1, <3>2 DEF IInv, OwnDirectory
    <3> QED
      BY <3>1, <3>2, <3>3, <3>4 DEF Stages
  <2> QED
    BY <2>1, <2>2 DEF CleansUp
<1> QED
  BY <1>1, Invariance, PTL
=============================================================================
