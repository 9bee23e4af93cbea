------------------------------- MODULE Agent -------------------------------
(***************************************************************************)
(* The agent's session loop (src/agent.rs): connecting and reconnecting,   *)
(* offers, the install task that owns the update tool, its progress and    *)
(* its outcome, the questions put to the controller, reboots, and the      *)
(* commands applications send.                                             *)
(*                                                                         *)
(* A select! arm is one action, up to the first await at which another     *)
(* actor can act: the socket lookup of Ipc::ask, and the wait for the      *)
(* answer.  The update tool, NervesHub and the applications are            *)
(* abstracted to what they may do to the loop.                             *)
(***************************************************************************)
EXTENDS Naturals, Sequences, Policy

CONSTANTS
  Firmwares,     \* the firmware an update can carry
  None,          \* no firmware
  Configs,       \* the configurations considered
  Requests,      \* the commands applications send
  Panics,        \* whether an install task can panic
  MaxInstalls,   \* bound on the installs begun since the device was made
  MaxReports,    \* bound on the progress reports queued at once
  MaxCommands,   \* capacity of the command channel
  MaxRestarts    \* bound on the restarts nobody asked for

ASSUME AgentAssumption ==
  /\ None \notin Firmwares
  /\ Configs \subseteq Config
  /\ Requests \subseteq {"mark_valid", "reboot"}
  /\ Panics \in BOOLEAN
  /\ MaxInstalls \in Nat /\ MaxReports \in Nat
  /\ MaxCommands \in Nat /\ MaxRestarts \in Nat

VARIABLES
  config,        \* fixed for the life of the process
  phase,         \* where run() and session() are
  question,      \* what the loop is asking the controller about
  offer,         \* the update being decided on
  had,           \* had_controller, read before the question is asked
  controller,    \* the controller slot is taken
  socket,        \* the websocket; "lost" until the loop notices
  connection,    \* Shared.connection
  said,          \* the last update report this connection carried
  tool,          \* who owns the update tool
  cached,        \* a join is cached (Agent.firmware and Agent.join_params)
  install,       \* Agent.install
  task,          \* the install task
  reports,       \* progress reports queued by the task
  update,        \* Shared.update
  pending,       \* Shared.pending_validation
  commands,      \* the command channel
  rebooting,     \* the reboot command was accepted, the system still runs
  staged,        \* firmware is installed and waits for a reboot
  unproven,      \* the running firmware has not been validated
  installs,      \* installs begun
  restarts       \* restarts nobody asked for

asking   == <<question, offer, had>>
online   == <<socket, connection, said>>
working  == <<tool, cached, install, task, reports>>
shown    == <<update, pending>>
device   == <<rebooting, staged, unproven>>
bounds   == <<installs, restarts>>
vars == <<config, phase, asking, controller, online, working, shown,
          commands, device, bounds>>

Phases    == {"backoff", "connecting", "serving", "polling", "asking", "waiting"}
Questions == {"none", "update", "reboot", "identify"}

\* What a Link says of an update: its progress, and the statuses, of which
\* "declined" stands for ignored and rescheduled.
Reports   == {"nothing", "started", "progress", "completed", "failed",
              "declined", "rebooting"}

TypeOK ==
  /\ config \in Configs
  /\ phase \in Phases
  /\ question \in Questions
  /\ offer \in Firmwares \cup {None}
  /\ had \in BOOLEAN
  /\ controller \in BOOLEAN
  /\ socket \in {"none", "up", "lost"}
  /\ connection \in {"disconnected", "connecting", "connected"}
  /\ said \in Reports
  /\ tool \in {"agent", "task", "lost"}
  /\ cached \in BOOLEAN
  /\ install \in Firmwares \cup {None}
  /\ task \in {"none", "running", "ok", "failed", "panicked"}
  /\ reports \in 0..MaxReports
  /\ update \in Firmwares \cup {None}
  /\ pending \in BOOLEAN
  /\ commands \in Seq(Requests)
  /\ Len(commands) <= MaxCommands
  /\ rebooting \in BOOLEAN
  /\ staged \in BOOLEAN
  /\ unproven \in BOOLEAN
  /\ installs \in 0..MaxInstalls
  /\ restarts \in 0..MaxRestarts

Init ==
  /\ config \in Configs
  /\ rebooting = FALSE /\ staged = FALSE /\ unproven \in BOOLEAN
  /\ installs = 0 /\ restarts = 0
  /\ phase = "backoff" /\ question = "none" /\ offer = None /\ had = FALSE
  /\ controller = FALSE /\ commands = <<>>
  /\ socket = "none" /\ connection = "disconnected" /\ said = "nothing"
  /\ tool = "agent" /\ install = None /\ task = "none" /\ reports = 0
  /\ cached \in BOOLEAN
  /\ update = None /\ pending \in {FALSE, unproven}

\* Agent::new, after a restart.  The join is cached if the tool can name the
\* firmware; validation is owed if the tool can be read and says so.
AgentNew ==
  /\ phase' = "backoff" /\ question' = "none" /\ offer' = None /\ had' = FALSE
  /\ controller' = FALSE /\ commands' = <<>>
  /\ socket' = "none" /\ connection' = "disconnected" /\ said' = "nothing"
  /\ tool' = "agent" /\ install' = None /\ task' = "none" /\ reports' = 0
  /\ cached' \in BOOLEAN
  /\ update' = None /\ pending' \in {FALSE, unproven'}
-----------------------------------------------------------------------------
(* Sending.  A socket whose peer is gone may swallow a message or refuse   *)
(* it; a refusal ends the session unless the report is best effort.        *)

Carried(report) == IF socket = "up" THEN report ELSE said

EndSession ==
  /\ phase' = "backoff"
  /\ socket' = "none"
  /\ connection' = "disconnected"
  /\ question' = "none" /\ offer' = None
  /\ UNCHANGED <<said, had>>

Stay ==
  /\ phase' = "serving"
  /\ question' = "none" /\ offer' = None
  /\ UNCHANGED <<socket, had>>

\* transport.send(...).await?  `now' is the connection state meanwhile.
SendOrEnd(report, now) ==
  \/ /\ said' = Carried(report)
     /\ connection' = now
     /\ Stay
  \/ /\ socket = "lost"
     /\ EndSession

\* Agent::reboot: the sandbox stays up, and the command may fail.
RebootCommand ==
  \/ UNCHANGED rebooting
  \/ config.touches /\ rebooting' = TRUE
-----------------------------------------------------------------------------
(* Connecting                                                              *)

Reconnect ==
  /\ phase = "backoff"
  /\ phase' = "connecting"
  /\ connection' = "connecting"
  /\ UNCHANGED <<config, asking, controller, socket, said, working, shown,
                 commands, device, bounds>>

\* Mutant: a session forgets to cache the join it sends.
SessionStartsUncached ==
  /\ phase = "connecting"
  /\ tool = "agent" \/ cached
  /\ phase' = "serving" /\ socket' = "up" /\ said' = "nothing"
  /\ UNCHANGED <<config, asking, controller, connection, working, shown,
                 commands, device, bounds>>

\* Mutant: a session asks the tool, whoever has it.
SessionStartsWithTool ==
  /\ phase = "connecting"
  /\ tool = "agent" /\ cached' = TRUE
  /\ phase' = "serving" /\ socket' = "up" /\ said' = "nothing"
  /\ UNCHANGED <<config, asking, controller, connection, tool, install, task,
                 reports, shown, commands, device, bounds>>

\* The tool names what is running and builds the join; while an install holds
\* it, the cached join is sent instead.
SessionStarts ==
  /\ phase = "connecting"
  /\ \/ tool = "agent" /\ cached' = TRUE
     \/ tool # "agent" /\ cached /\ UNCHANGED cached
  /\ phase' = "serving"
  /\ socket' = "up"
  /\ said' = "nothing"
  /\ UNCHANGED <<config, asking, controller, connection, tool, install, task,
                 reports, shown, commands, device, bounds>>

\* No transport, no current firmware, no cached join, or the join is not sent.
ConnectFails ==
  /\ phase = "connecting"
  /\ EndSession
  /\ \/ UNCHANGED cached
     \/ tool = "agent" /\ cached' = TRUE
  /\ UNCHANGED <<config, controller, tool, install, task, reports, shown,
                 commands, device, bounds>>

\* The peer closes, the join is refused, NervesHub asks for a reconnect, or a
\* heartbeat cannot be sent.
SessionEnds ==
  /\ phase = "serving"
  /\ EndSession
  /\ UNCHANGED <<config, controller, working, shown, commands, device, bounds>>

SocketDies ==
  /\ socket = "up"
  /\ socket' = "lost"
  /\ UNCHANGED <<config, phase, asking, controller, connection, said, working,
                 shown, commands, device, bounds>>
-----------------------------------------------------------------------------
(* Offers                                                                  *)

\* The part of on_update after the decision.  "started" is sent before the
\* tool is known to be there to be taken.
Begin(fw, now) ==
  /\ said' = Carried("started")
  /\ connection' = now
  /\ Stay
  /\ IF tool = "agent"
     THEN /\ tool' = "task"
          /\ install' = fw
          /\ task' = "running"
          /\ installs' = installs + 1
     ELSE UNCHANGED <<tool, install, task, installs>>
  /\ UNCHANGED <<cached, reports, restarts>>

Act(decision, fw, now) ==
  \/ /\ decision = "apply"
     /\ Begin(fw, now)
  \/ /\ decision \in {"ignore", "reschedule"}
     /\ SendOrEnd("declined", now)
     /\ UNCHANGED <<working, bounds>>

OnUpdate(fw, now) ==
  /\ installs < MaxInstalls
  /\ IF config.updates = "ask"
     THEN /\ had' = controller
          /\ question' = "update"
          /\ offer' = fw
          /\ phase' = "asking"
          /\ connection' = now
          /\ UNCHANGED <<socket, said, working, bounds>>
     ELSE Act(DecideUpdate(config, controller, NoAnswer), fw, now)

\* A frame was received.  Frames that arrived before the socket was lost are
\* still read.
Received == phase = "serving" /\ socket \in {"up", "lost"}

\* Mutant: an update in the join's answer is taken in spite of an install.
JoinedAnyway(fw) ==
  /\ Received
  /\ connection = "connecting"
  /\ IF fw # None
     THEN OnUpdate(fw, "connected")
     ELSE /\ connection' = "connected"
          /\ UNCHANGED <<phase, asking, socket, said, working, bounds>>
  /\ UNCHANGED <<config, controller, shown, commands, device>>

\* The answer to the join, which may carry an update.
Joined(fw) ==
  /\ Received
  /\ connection = "connecting"
  /\ IF fw # None /\ install = None
     THEN OnUpdate(fw, "connected")
     ELSE /\ connection' = "connected"
          /\ UNCHANGED <<phase, asking, socket, said, working, bounds>>
  /\ UNCHANGED <<config, controller, shown, commands, device>>

\* Mutant: an offer is decided on in spite of an install.
ApplyUpdateAnyway(fw) ==
  /\ Received
  /\ connection = "connected"
  /\ OnUpdate(fw, connection)
  /\ UNCHANGED <<config, controller, shown, commands, device>>

\* One at a time: an offer that meets an install is dropped.
ApplyUpdate(fw) ==
  /\ Received
  /\ connection = "connected"
  /\ install = None
  /\ OnUpdate(fw, connection)
  /\ UNCHANGED <<config, controller, shown, commands, device>>
-----------------------------------------------------------------------------
(* The install task                                                        *)

TaskReports ==
  /\ task = "running"
  /\ reports < MaxReports
  /\ reports' = reports + 1
  /\ UNCHANGED <<config, phase, asking, controller, online, tool, cached,
                 install, task, shown, commands, device, bounds>>

\* The tool's install returns, or the task panics.  The slot is armed by the
\* tool itself, and may be even when the checksum fails the install afterwards.
TaskEnds(outcome) ==
  /\ task = "running"
  /\ outcome = "panicked" => Panics
  /\ task' = outcome
  /\ \/ staged' = TRUE
     \/ outcome # "ok" /\ UNCHANGED staged
  /\ UNCHANGED <<config, phase, asking, controller, online, tool, cached,
                 install, reports, shown, commands, rebooting, unproven, bounds>>

\* next_install_event polls progress first: a queued report is forwarded.  A
\* refused send loses the report it was for.
ForwardProgress ==
  /\ phase = "serving"
  /\ install # None
  /\ reports > 0
  /\ reports' = reports - 1
  /\ \/ /\ said' = Carried("progress")
        /\ update' = install
        /\ UNCHANGED <<phase, asking, socket, connection>>
     \/ /\ socket = "lost"
        /\ EndSession
        /\ UNCHANGED update
  /\ UNCHANGED <<config, controller, tool, cached, install, task, pending,
                 commands, device, bounds>>

\* No report was queued; the task is polled next, and it runs on a thread of
\* its own in between.
PollProgressEmpty ==
  /\ phase = "serving"
  /\ install # None
  /\ reports = 0
  /\ phase' = "polling"
  /\ UNCHANGED <<config, asking, controller, online, working, shown, commands,
                 device, bounds>>

PollTaskRunning ==
  /\ phase = "polling"
  /\ task = "running"
  /\ phase' = "serving"
  /\ UNCHANGED <<config, asking, controller, online, working, shown, commands,
                 device, bounds>>

\* Mutant: "completed" goes out, and the reboot is not settled.
InstallSucceededUnsettled ==
  /\ phase = "polling"
  /\ task = "ok"
  /\ tool' = "agent" /\ install' = None /\ task' = "none" /\ reports' = 0
  /\ update' = None
  /\ pending' = TRUE
  /\ said' = Carried("completed")
  /\ Stay
  /\ UNCHANGED <<config, controller, connection, cached, commands, device,
                 bounds>>

\* on_install_finished, Ok: "completed" goes out before the reboot is settled.
InstallSucceeded ==
  /\ phase = "polling"
  /\ task = "ok"
  /\ tool' = "agent" /\ install' = None /\ task' = "none" /\ reports' = 0
  /\ update' = None
  /\ pending' = TRUE
  /\ said' = Carried("completed")
  /\ had' = controller
  /\ question' = "reboot"
  /\ phase' = "asking"
  /\ UNCHANGED <<config, offer, controller, socket, connection, cached,
                 commands, device, bounds>>

\* Mutant: the tool of an install that failed is not put back.
InstallFailedKeepsTool ==
  /\ phase = "polling"
  /\ task = "failed"
  /\ install' = None /\ task' = "none" /\ reports' = 0
  /\ update' = None
  /\ said' = Carried("failed")
  /\ Stay
  /\ UNCHANGED <<config, controller, connection, tool, cached, pending,
                 commands, device, bounds>>

\* Mutant: an install that failed is still shown.
InstallFailedStillShown ==
  /\ phase = "polling"
  /\ task = "failed"
  /\ tool' = "agent" /\ install' = None /\ task' = "none" /\ reports' = 0
  /\ said' = Carried("failed")
  /\ Stay
  /\ UNCHANGED <<config, controller, connection, cached, shown, commands,
                 device, bounds>>

\* on_install_finished, Err.
InstallFailed ==
  /\ phase = "polling"
  /\ task = "failed"
  /\ tool' = "agent" /\ install' = None /\ task' = "none" /\ reports' = 0
  /\ update' = None
  /\ said' = Carried("failed")
  /\ Stay
  /\ UNCHANGED <<config, controller, connection, cached, pending, commands,
                 device, bounds>>

\* The task went, and the tool with it.
InstallLost ==
  /\ phase = "polling"
  /\ task = "panicked"
  /\ tool' = "lost" /\ install' = None /\ task' = "none" /\ reports' = 0
  /\ EndSession
  /\ UNCHANGED <<config, controller, cached, shown, commands, device, bounds>>
-----------------------------------------------------------------------------
(* Questions                                                               *)

\* Agent::reboot, or RebootPending to whoever subscribes.
Settle(decision) ==
  /\ IF decision = "reboot"
     THEN said' = Carried("rebooting") /\ RebootCommand
     ELSE UNCHANGED <<said, rebooting>>
  /\ Stay
  /\ UNCHANGED <<connection, staged, unproven, working, bounds>>

Resolve(answer) ==
  \/ /\ question = "update"
     /\ Act(DecideUpdate(config, had, answer), offer, connection)
     /\ UNCHANGED device
  \/ /\ question = "reboot"
     /\ Settle(DecideReboot(config, answer, 0))
  \/ /\ question = "identify"
     /\ Stay
     /\ UNCHANGED <<connection, said, working, device, bounds>>

\* Ipc::ask looks the controller up.  settle_reboot asks nobody unless the
\* policy is to ask.
Asked == question # "reboot" \/ config.reboot = "ask"

AskNobody ==
  /\ phase = "asking"
  /\ ~Asked \/ ~controller
  /\ Resolve(NoAnswer)
  /\ UNCHANGED <<config, controller, shown, commands>>

AskController ==
  /\ phase = "asking"
  /\ Asked /\ controller
  /\ phase' = "waiting"
  /\ UNCHANGED <<config, asking, controller, online, working, shown, commands,
                 device, bounds>>

Answers ==
  CASE question = "update" -> UpdateDecisions
    [] question = "reboot" -> RebootDecisions
    [] OTHER -> {}

Answered(answer) ==
  /\ phase = "waiting"
  /\ controller
  /\ answer \in Answers
  /\ Resolve(answer)
  /\ UNCHANGED <<config, controller, shown, commands>>

\* The deadline passes, the controller goes, or what it says is no answer.
Unanswered ==
  /\ phase = "waiting"
  /\ Resolve(NoAnswer)
  /\ UNCHANGED <<config, controller, shown, commands>>

\* A question is with the controller it was put to: whoever comes after that
\* one is gone makes no difference until the loop has moved on.
ControllerComesOrGoes ==
  /\ phase = "waiting" => controller
  /\ controller' = ~controller
  /\ UNCHANGED <<config, phase, asking, online, working, shown, commands,
                 device, bounds>>

Identify ==
  /\ Received
  /\ question' = "identify"
  /\ phase' = "asking"
  /\ UNCHANGED <<config, offer, had, controller, online, working, shown,
                 commands, device, bounds>>
-----------------------------------------------------------------------------
(* Reboots, commands and restarts                                          *)

\* NervesHub asks for a reboot; refused while an install is running.
OperatorReboot ==
  /\ Received
  /\ install = None
  /\ said' = Carried("rebooting")
  /\ RebootCommand
  /\ UNCHANGED <<config, phase, asking, controller, socket, connection,
                 working, shown, commands, staged, unproven, bounds>>

\* Mutant: the command channel has no capacity.
RequestAlways(command) ==
  /\ commands' = Append(commands, command)
  /\ UNCHANGED <<config, phase, asking, controller, online, working, shown,
                 device, bounds>>

Request(command) ==
  /\ Len(commands) < MaxCommands
  /\ commands' = Append(commands, command)
  /\ UNCHANGED <<config, phase, asking, controller, online, working, shown,
                 device, bounds>>

\* Command::Reboot: whatever the install is doing.
ApplicationReboot ==
  /\ phase = "serving"
  /\ commands # <<>> /\ Head(commands) = "reboot"
  /\ commands' = Tail(commands)
  /\ said' = Carried("rebooting")
  /\ RebootCommand
  /\ UNCHANGED <<config, phase, asking, controller, socket, connection,
                 working, shown, staged, unproven, bounds>>

\* Command::MarkValid: refused without the tool, and the tool may fail.
MarkValid ==
  /\ phase = "serving"
  /\ commands # <<>> /\ Head(commands) = "mark_valid"
  /\ commands' = Tail(commands)
  /\ \/ /\ tool = "agent"
        /\ unproven' = FALSE
        /\ pending' = FALSE
     \/ UNCHANGED <<unproven, pending>>
  /\ UNCHANGED <<config, phase, asking, controller, online, working, update,
                 rebooting, staged, bounds>>

\* The system goes down, because it was asked to or on its own, and boots
\* what is staged.
SystemRestarts ==
  /\ IF rebooting THEN UNCHANGED restarts
     ELSE restarts < MaxRestarts /\ restarts' = restarts + 1
  /\ rebooting' = FALSE
  /\ staged' = FALSE
  /\ unproven' = (unproven \/ staged)
  /\ AgentNew
  /\ UNCHANGED <<config, installs>>

\* The agent alone is killed and started again.
AgentRestarts ==
  /\ restarts < MaxRestarts
  /\ restarts' = restarts + 1
  /\ UNCHANGED <<config, device, installs>>
  /\ AgentNew
-----------------------------------------------------------------------------
Next ==
  \/ Reconnect \/ SessionStarts \/ ConnectFails \/ SessionEnds \/ SocketDies
  \/ \E fw \in Firmwares \cup {None} : Joined(fw)
  \/ \E fw \in Firmwares : ApplyUpdate(fw)
  \/ TaskReports
  \/ \E outcome \in {"ok", "failed", "panicked"} : TaskEnds(outcome)
  \/ ForwardProgress \/ PollProgressEmpty \/ PollTaskRunning
  \/ InstallSucceeded \/ InstallFailed \/ InstallLost
  \/ AskNobody \/ AskController \/ Unanswered
  \/ \E answer \in UpdateDecisions \cup RebootDecisions : Answered(answer)
  \/ ControllerComesOrGoes \/ Identify
  \/ OperatorReboot \/ ApplicationReboot \/ MarkValid
  \/ \E command \in Requests : Request(command)
  \/ SystemRestarts \/ AgentRestarts

Spec == Init /\ [][Next]_vars

(***************************************************************************)
(* Fairness.  The loop, the task and the deadlines are run by the runtime. *)
(* The network lets a session start again and again, and a session that is *)
(* up again and again is, by select!'s random choice among ready arms,     *)
(* sooner or later served by the install's arm.  Nothing is asked of       *)
(* applications, of NervesHub or of the socket.                            *)
(***************************************************************************)
LiveSpec ==
  /\ Spec
  /\ WF_vars(Reconnect)
  /\ SF_vars(SessionStarts)
  /\ WF_vars(\E outcome \in {"ok", "failed"} : TaskEnds(outcome))
  /\ SF_vars(ForwardProgress)
  /\ SF_vars(PollProgressEmpty)
  /\ WF_vars(PollTaskRunning \/ InstallSucceeded \/ InstallFailed \/ InstallLost)
  /\ WF_vars(AskNobody \/ AskController)
  /\ WF_vars(Unanswered)
-----------------------------------------------------------------------------
(* Properties                                                              *)

\* The update tool is in exactly one place: an install, its task and the tool
\* in the task's hands come and go together (Agent.tool and Agent.install),
\* so that no second task can write a slot and no finished one keeps the tool.
ToolHasOneOwner ==
  /\ tool = "task" <=> install # None
  /\ task # "none" <=> install # None

\* Whenever the tool is away a join has been cached, so a session can start
\* in the middle of an install (the cached join of Agent::session).
JoinNeedsNoTool == tool # "agent" => cached

\* An update whose install came to an end, well or not, is not shown to
\* applications any more: what Shared.update names is the update in flight, or the
\* one whose task was lost to a panic.  That one stays until the agent starts again,
\* although protocol.rs:192 has it "present while an update is in flight"
\* (forward_progress and on_install_finished against agent.rs:577).
EndedUpdatesAreNotShown == update # None => update = install \/ tool = "lost"

\* The controller is asked about an update or a reboot only between installs:
\* an answer never acts on a slot that is being written.
QuestionsBetweenInstalls ==
  question \in {"update", "reboot"} => tool # "task" /\ install = None

IP == INSTANCE InstallProtocol WITH installing <- install

\* What a connection carries about updates is in the order of an install's
\* life, through losses, reconnects and restarts (session, on_update,
\* forward_progress and on_install_finished against InstallProtocol).
ImplementsInstallProtocol == IP!Spec

\* The tool always comes back, however often the socket dies meanwhile: the
\* install that a dropped connection stranded for good is the failure the
\* cached join exists for.
ToolComesBack == tool = "task" ~> tool = "agent"

\* An install that succeeded is settled -- its reboot decided -- unless the
\* agent was restarted before it could be.
SuccessIsSettled ==
  (task = "ok" /\ restarts = MaxRestarts) ~> (question = "reboot" \/ rebooting)

\* agent.rs:511, "Rebooting now would leave a half-written slot": no install
\* runs while an accepted reboot is about to take the system down.
NoInstallUnderReboot == rebooting => install = None
=============================================================================
