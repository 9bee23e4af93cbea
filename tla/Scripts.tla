------------------------------ MODULE Scripts -------------------------------
(***************************************************************************)
(* Support scripts (src/scripts.rs; spawn_script, the results' channel and *)
(* its arm of the loop in src/agent.rs): every request is a task of its    *)
(* own, which stages the text, runs it, removes what it staged and hands   *)
(* its outcome to the loop, which sends it in whatever session is up.      *)
(*                                                                         *)
(* A request stands for its reference and for its text.  The agent may be  *)
(* killed at any time and started again; what it staged stays, and so may  *)
(* what it ran.  A file system that writes is taken to remove, too.        *)
(***************************************************************************)
EXTENDS Naturals, Sequences

CONSTANTS
  Requests,     \* the requests operators make
  None,
  Channel,      \* room in script_results
  MaxRestarts,  \* bound on the times the agent is killed
  MaxStaged     \* bound on the directories one agent makes

\* What may be there instead of a text: no directory, one that is empty and that
\* others may enter, and one that is empty and private.
Absent == "absent"
Shared == "shared"
Empty  == "empty"

\* A directory's name: the pid and the clock of its agent, and its count.
Names == (0..MaxRestarts) \X (0..MaxStaged)

ASSUME ScriptsAssumption ==
  /\ {None, Absent, Shared, Empty} \cap Requests = {} /\ None \notin Names
  /\ Channel \in Nat \ {0} /\ MaxRestarts \in Nat /\ MaxStaged \in Nat

VARIABLES
  enabled,   \* scripts.enabled; never changes
  online,    \* a session is in its loop
  agents,    \* how often the agent was started again: its pid and clock
  next,      \* tempdir's NEXT
  stage,     \* stage[r]: how far the task of r is
  directory, \* directory[r]: the directory that tempdir made for the task of r
  disk,      \* disk[d]: what is in directory d
  ran,       \* ran[r]: the text that the script of r was started with
  child,     \* child[r]: its process
  others,    \* others[r]: what it started is alive and holds its output
  outcome,   \* outcome[r]: Outcome.result
  results    \* script_results

staged == <<next, directory, disk>>
ground == <<ran, child, others>>
vars   == <<enabled, online, agents, staged, stage, ground, outcome, results>>

Working  == {"spawned", "made", "staged", "written", "running", "ended"}
Finished == {"waiting", "queued", "sent", "lost"}
Stages   == {"unasked", "gone"} \cup Working \cup Finished

TypeOK ==
  /\ enabled \in BOOLEAN /\ online \in BOOLEAN
  /\ agents \in 0..MaxRestarts
  /\ next \in 0..MaxStaged
  /\ stage \in [Requests -> Stages]
  /\ directory \in [Requests -> Names \cup {None}]
  /\ disk \in [Names -> Requests \cup {Absent, Shared, Empty}]
  /\ ran \in [Requests -> Requests \cup {None}]
  /\ child \in [Requests -> {"none", "runs", "succeeded", "failed", "killed"}]
  /\ others \in [Requests -> BOOLEAN]
  /\ outcome \in [Requests -> {"none", "ok", "error"}]
  /\ results \in Seq(Requests) /\ Len(results) <= Channel

Init ==
  /\ enabled \in BOOLEAN
  /\ online = FALSE /\ agents = 0 /\ next = 0
  /\ stage = [r \in Requests |-> "unasked"]
  /\ directory = [r \in Requests |-> None]
  /\ disk = [d \in Names |-> Absent]
  /\ ran = [r \in Requests |-> None]
  /\ child = [r \in Requests |-> "none"]
  /\ others = [r \in Requests |-> FALSE]
  /\ outcome = [r \in Requests |-> "none"]
  /\ results = << >>

Goes(r, from, to) == stage[r] = from /\ stage' = [stage EXCEPT ![r] = to]

Result(r, result) == outcome' = [outcome EXCEPT ![r] = result]
-----------------------------------------------------------------------------
(* The loop                                                                *)

SessionStarts ==
  /\ ~online /\ online' = TRUE
  /\ UNCHANGED <<enabled, agents, staged, stage, ground, outcome, results>>

SessionEnds ==
  /\ online /\ online' = FALSE
  /\ UNCHANGED <<enabled, agents, staged, stage, ground, outcome, results>>

\* Action::RunScript: spawn_script.
RunScript(r) ==
  /\ online
  /\ Goes(r, "unasked", "spawned")
  /\ UNCHANGED <<enabled, online, agents, staged, ground, outcome, results>>

\* script_result.  An outcome is taken before it is sent, and is lost with a
\* session that cannot send it.
SendsResult ==
  /\ online /\ results # << >>
  /\ results' = Tail(results)
  /\ \/ /\ stage' = [stage EXCEPT ![Head(results)] = "sent"]
        /\ UNCHANGED online
     \/ /\ stage' = [stage EXCEPT ![Head(results)] = "lost"]
        /\ online' = FALSE
  /\ UNCHANGED <<enabled, agents, staged, ground, outcome>>

\* The agent is killed and started again, or stops and takes the scripts it runs
\* with it (kill_on_drop).  A process group of its own outlives a killed agent.
AgentRestarts ==
  /\ agents < MaxRestarts
  /\ agents' = agents + 1
  /\ online' = FALSE /\ next' = 0 /\ results' = << >>
  /\ stage' = [r \in Requests |->
                 IF stage[r] \in Working THEN "gone"
                 ELSE IF stage[r] \in {"waiting", "queued"} THEN "lost"
                 ELSE stage[r]]
  /\ \/ UNCHANGED child
     \/ child' = [r \in Requests |->
                    IF child[r] = "runs" THEN "killed" ELSE child[r]]
  /\ UNCHANGED <<enabled, directory, disk, ran, others, outcome>>
-----------------------------------------------------------------------------
(* A script's task                                                         *)

Disabled(r) ==
  /\ ~enabled
  /\ Goes(r, "spawned", "waiting") /\ Result(r, "error")
  /\ UNCHANGED <<enabled, online, agents, staged, ground, results>>

\* Mutant: the clock alone tells directories apart, and it stands still.
CreateByClock(r) ==
  /\ enabled /\ next < MaxStaged
  /\ Goes(r, "spawned", "made")
  /\ LET d == <<agents, 0>> IN
       /\ directory' = [directory EXCEPT ![r] = d]
       /\ disk' = [disk EXCEPT ![d] = IF @ = Absent THEN Shared ELSE @]
  /\ next' = next + 1
  /\ UNCHANGED <<enabled, online, agents, ground, outcome, results>>

\* tempdir's first half; create_dir_all takes a directory that is there already.
CreateDirectory(r) ==
  /\ enabled /\ next < MaxStaged
  /\ Goes(r, "spawned", "made")
  /\ LET d == <<agents, next>> IN
       /\ directory' = [directory EXCEPT ![r] = d]
       /\ disk' = [disk EXCEPT ![d] = IF @ = Absent THEN Shared ELSE @]
  /\ next' = next + 1
  /\ UNCHANGED <<enabled, online, agents, ground, outcome, results>>

\* Its second half, set_permissions.
MakePrivate(r) ==
  /\ Goes(r, "made", "staged")
  /\ disk[directory[r]] # Absent
  /\ disk' = [disk EXCEPT ![directory[r]] = IF @ = Shared THEN Empty ELSE @]
  /\ UNCHANGED <<enabled, online, agents, next, directory, ground, outcome, results>>

\* Either half fails.  What the first has made stays.
TempdirFails(r) ==
  /\ \/ /\ enabled /\ next < MaxStaged
        /\ Goes(r, "spawned", "waiting")
        /\ next' = next + 1
     \/ Goes(r, "made", "waiting") /\ UNCHANGED next
  /\ Result(r, "error")
  /\ UNCHANGED <<enabled, online, agents, directory, disk, ground, results>>

WriteScript(r) ==
  /\ Goes(r, "staged", "written")
  /\ disk[directory[r]] # Absent
  /\ disk' = [disk EXCEPT ![directory[r]] = r]
  /\ UNCHANGED <<enabled, online, agents, next, directory, ground, outcome, results>>

\* Mutant: a script that could not be written leaves its directory.
WriteLeaves(r) ==
  /\ Goes(r, "staged", "waiting") /\ Result(r, "error")
  /\ UNCHANGED <<enabled, online, agents, staged, ground, results>>

WriteFails(r) ==
  /\ Goes(r, "staged", "waiting") /\ Result(r, "error")
  /\ disk' = [disk EXCEPT ![directory[r]] = Absent]
  /\ UNCHANGED <<enabled, online, agents, next, directory, ground, results>>

\* The interpreter, or the script itself, starts on what the file holds by now.
Spawn(r) ==
  /\ Goes(r, "written", "running")
  /\ disk[directory[r]] \in Requests
  /\ ran' = [ran EXCEPT ![r] = disk[directory[r]]]
  /\ child' = [child EXCEPT ![r] = "runs"]
  /\ UNCHANGED <<enabled, online, agents, staged, others, outcome, results>>

SpawnFails(r) ==
  /\ Goes(r, "written", "ended") /\ Result(r, "error")
  /\ UNCHANGED <<enabled, online, agents, staged, ground, results>>

\* wait_with_output waits for the end of the output, which is that of everything
\* that holds it.
Finishes(r) ==
  /\ child[r] \in {"succeeded", "failed"} /\ ~others[r]
  /\ Goes(r, "running", "ended")
  /\ Result(r, IF child[r] = "succeeded" THEN "ok" ELSE "error")
  /\ UNCHANGED <<enabled, online, agents, staged, ground, results>>

\* Mutant: the child is left to itself.
TimesOutAlone(r) ==
  /\ Goes(r, "running", "ended") /\ Result(r, "error")
  /\ UNCHANGED <<enabled, online, agents, staged, ground, results>>

\* Mutant: the deadline is for the child, and not for its output.
TimesOutChild(r) ==
  /\ child[r] = "runs"
  /\ Goes(r, "running", "ended") /\ Result(r, "error")
  /\ child' = [child EXCEPT ![r] = "killed"]
  /\ UNCHANGED <<enabled, online, agents, staged, ran, others, results>>

\* At the deadline, or when waiting fails, the child is dropped: it is killed,
\* and what it started is not.
TimesOut(r) ==
  /\ Goes(r, "running", "ended") /\ Result(r, "error")
  /\ child' = [child EXCEPT ![r] = IF @ = "runs" THEN "killed" ELSE @]
  /\ UNCHANGED <<enabled, online, agents, staged, ran, others, results>>

RemoveDirectory(r) ==
  /\ Goes(r, "ended", "waiting")
  /\ disk' = [disk EXCEPT ![directory[r]] = Absent]
  /\ UNCHANGED <<enabled, online, agents, next, directory, ground, outcome, results>>

\* Mutant: the channel has room for everything.
QueueUnbounded(r) ==
  /\ Goes(r, "waiting", "queued")
  /\ results' = Append(results, r)
  /\ UNCHANGED <<enabled, online, agents, staged, ground, outcome>>

\* results.send(outcome).await, at the end of the task.
QueueResult(r) ==
  /\ Len(results) < Channel
  /\ Goes(r, "waiting", "queued")
  /\ results' = Append(results, r)
  /\ UNCHANGED <<enabled, online, agents, staged, ground, outcome>>

\* What a script does: it starts others, which end when they like, and it ends.
ScriptRuns(r) ==
  /\ \/ /\ child[r] = "runs" /\ ~others[r]
        /\ others' = [others EXCEPT ![r] = TRUE]
        /\ UNCHANGED child
     \/ /\ child[r] = "runs"
        /\ child' \in {[child EXCEPT ![r] = end] : end \in {"succeeded", "failed"}}
        /\ UNCHANGED others
     \/ /\ others[r]
        /\ others' = [others EXCEPT ![r] = FALSE]
        /\ UNCHANGED child
  /\ UNCHANGED <<enabled, online, agents, staged, stage, ran, outcome, results>>

Task(r) ==
  \/ Disabled(r)
  \/ CreateDirectory(r) \/ MakePrivate(r) \/ TempdirFails(r)
  \/ WriteScript(r) \/ WriteFails(r)
  \/ Spawn(r) \/ SpawnFails(r) \/ Finishes(r) \/ TimesOut(r)
  \/ RemoveDirectory(r) \/ QueueResult(r)
-----------------------------------------------------------------------------
Next ==
  \/ SessionStarts \/ SessionEnds \/ SendsResult \/ AgentRestarts
  \/ \E r \in Requests : RunScript(r) \/ Task(r) \/ ScriptRuns(r)

Spec == Init /\ [][Next]_vars

\* Tasks go on whatever the script does, since every wait has a deadline; the
\* agent connects again and again; and the loop, which picks one of what is ready
\* at random, comes to the results in one of those sessions.
LiveSpec ==
  /\ Spec
  /\ \A r \in Requests : WF_vars(Task(r))
  /\ WF_vars(SessionStarts) /\ SF_vars(SendsResult)
-----------------------------------------------------------------------------
(* Properties                                                              *)

\* However tasks interleave, a script is run on its own text and its request is
\* answered with what that did: ok is the end of the whole script, and never of
\* one that was killed or that timed out (scripts.rs:262, two scripts in flight
\* must not share a path).
AnswersItself ==
  \A r \in Requests :
    /\ ran[r] \in {None, r}
    /\ outcome[r] = "ok" => ran[r] = r /\ child[r] = "succeeded"

\* A task that has an outcome runs nothing any more, and every directory on the
\* disk is accounted for: it is that of a task at work, or of one that its agent
\* did not survive, or it is an empty one that could not be made private
\* (scripts.rs, run and tempdir).  What the script itself started may go on: only
\* the child is killed, and not its group.
CleansUp ==
  /\ \A r \in Requests : stage[r] \in Finished => child[r] # "runs"
  /\ \A d \in Names : disk[d] # Absent =>
       \E r \in Requests :
         /\ directory[r] = d
         /\ stage[r] \in Working \cup {"gone"} \/ disk[d] = Shared

\* Every request is answered in the end, or its answer is lost with a session or
\* with the agent, whatever the script does with its time and its output
\* (scripts.rs:81, reporting nothing would leave them watching a spinner).
EveryScriptIsAnswered ==
  \A r \in Requests :
    stage[r] = "spawned" ~> stage[r] \in {"sent", "lost", "gone"}
=============================================================================
