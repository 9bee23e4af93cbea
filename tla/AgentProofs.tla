---------------------------- MODULE AgentProofs ----------------------------
(***************************************************************************)
(* Proofs about Agent for every value of its constants.                    *)
(*                                                                         *)
(* The invariants are not inductive alone.  What carries them is where the *)
(* loop can be: a question is open exactly while the loop is in it, only a *)
(* loop that is in a session begins an install, and a session has a cached *)
(* join from its first step.                                               *)
(***************************************************************************)
EXTENDS Agent, TLAPS

InQuestion == phase \in {"asking", "waiting"}

\* Where the loop is says what it may hold.
LoopInv ==
  /\ question # "none" <=> InQuestion
  /\ question = "update" => offer \in Firmwares /\ installs < MaxInstalls
  /\ phase = "polling" => install # None
  /\ phase \notin {"backoff", "connecting"} => cached
  /\ phase \in {"backoff", "connecting"} <=> socket = "none"

IInv ==
  /\ TypeOK
  /\ ToolHasOneOwner
  /\ JoinNeedsNoTool
  /\ QuestionsBetweenInstalls
  /\ LoopInv

USE AgentAssumption
    DEF Phases, Questions, Reports, InQuestion

\* The initial states satisfy the inductive invariant.
LEMMA InitIInv == Init => IInv
<1> SUFFICES ASSUME Init PROVE IInv
  OBVIOUS
<1> USE DEF Init
<1>1. TypeOK
  <2>1. commands \in Seq(Requests) /\ Len(commands) <= MaxCommands
    OBVIOUS
  <2>2. reports \in 0..MaxReports /\ installs \in 0..MaxInstalls /\ restarts \in 0..MaxRestarts
    OBVIOUS
  <2> QED
    BY <2>1, <2>2 DEF TypeOK
<1>2. ToolHasOneOwner /\ JoinNeedsNoTool /\ QuestionsBetweenInstalls
  BY DEF ToolHasOneOwner, JoinNeedsNoTool, QuestionsBetweenInstalls
<1>3. LoopInv
  BY DEF LoopInv
<1> QED
  BY <1>1, <1>2, <1>3 DEF IInv

\* A step that touches neither the install nor a question.
LEMMA ConnectingIInv ==
  ASSUME IInv,
         Reconnect \/ SessionStarts \/ ConnectFails \/ SessionEnds \/ SocketDies
  PROVE  IInv'
<1> USE DEF IInv, TypeOK, ToolHasOneOwner, JoinNeedsNoTool,
            QuestionsBetweenInstalls, LoopInv, EndSession,
            asking, online, working, shown, device, bounds
<1>1. CASE Reconnect
  BY <1>1 DEF Reconnect
<1>2. CASE SessionStarts
  <2>1. cached'
    BY <1>2 DEF SessionStarts
  <2>2. cached' \in BOOLEAN
    BY <1>2, Zenon DEF SessionStarts
  <2>3. TypeOK'
    BY <1>2, <2>2 DEF SessionStarts
  <2> QED
    BY <1>2, <2>1, <2>3 DEF SessionStarts
<1>3. CASE ConnectFails
  <2>1. cached' \in BOOLEAN /\ (cached => cached')
    BY <1>3, Zenon DEF ConnectFails
  <2>2. TypeOK'
    BY <1>3, <2>1 DEF ConnectFails
  <2> QED
    BY <1>3, <2>1, <2>2 DEF ConnectFails
<1>4. CASE SessionEnds
  BY <1>4 DEF SessionEnds
<1>5. CASE SocketDies
  BY <1>5 DEF SocketDies
<1> QED
  BY <1>1, <1>2, <1>3, <1>4, <1>5

\* Acting on a decision: an install begins, or the offer is declined.
LEMMA ActIInv ==
  ASSUME IInv, install = None, installs < MaxInstalls,
         phase \notin {"backoff", "connecting"},
         NEW fw \in Firmwares, NEW decision,
         NEW now \in {"disconnected", "connecting", "connected"},
         Act(decision, fw, now),
         UNCHANGED <<config, controller, shown, commands, device>>
  PROVE  IInv'
<1> USE DEF IInv, TypeOK, ToolHasOneOwner, JoinNeedsNoTool,
            QuestionsBetweenInstalls, LoopInv, EndSession, Stay, Carried,
            asking, online, working, shown, device, bounds
<1>1. CASE Begin(fw, now)
  <2>1. CASE tool = "agent"
    BY <1>1, <2>1 DEF Begin
  <2>2. CASE tool # "agent"
    BY <1>1, <2>2 DEF Begin
  <2> QED
    BY <2>1, <2>2
<1>2. CASE SendOrEnd("declined", now) /\ UNCHANGED <<working, bounds>>
  BY <1>2 DEF SendOrEnd
<1> QED
  BY <1>1, <1>2 DEF Act

\* An offer is acted on, or put to the controller.
LEMMA OnUpdateIInv ==
  ASSUME IInv, install = None, phase = "serving",
         NEW fw \in Firmwares,
         NEW now \in {"disconnected", "connecting", "connected"},
         OnUpdate(fw, now),
         UNCHANGED <<config, controller, shown, commands, device>>
  PROVE  IInv'
<1>1. CASE config.updates = "ask"
  BY <1>1 DEF OnUpdate, IInv, TypeOK, ToolHasOneOwner, JoinNeedsNoTool,
              QuestionsBetweenInstalls, LoopInv, asking, working, shown,
              device, bounds
<1>2. CASE config.updates # "ask"
  BY <1>2, ActIInv DEF OnUpdate
<1> QED
  BY <1>1, <1>2

LEMMA OfferIInv ==
  ASSUME IInv,
         \/ \E fw \in Firmwares \cup {None} : Joined(fw)
         \/ \E fw \in Firmwares : ApplyUpdate(fw)
  PROVE  IInv'
<1>1. ASSUME NEW fw \in Firmwares \cup {None}, Joined(fw)
      PROVE  IInv'
  <2>1. CASE fw # None /\ install = None
    BY <1>1, <2>1, OnUpdateIInv DEF Joined, Received
  <2>2. CASE ~(fw # None /\ install = None)
    <3>1. /\ phase = "serving" /\ connection' = "connected"
          /\ UNCHANGED <<phase, asking, socket, said, working, bounds>>
          /\ UNCHANGED <<config, controller, shown, commands, device>>
      BY <1>1, <2>2 DEF Joined, Received
    <3> QED
      BY <3>1
         DEF IInv, TypeOK, ToolHasOneOwner, JoinNeedsNoTool,
             QuestionsBetweenInstalls, LoopInv, asking, working, shown, device,
             bounds
  <2> QED
    BY <2>1, <2>2
<1>2. ASSUME NEW fw \in Firmwares, ApplyUpdate(fw)
      PROVE  IInv'
  BY <1>2, OnUpdateIInv DEF ApplyUpdate, Received, IInv, TypeOK
<1> QED
  BY <1>1, <1>2

\* The task runs, and the loop hears from it.
LEMMA TaskIInv ==
  ASSUME IInv,
         \/ TaskReports \/ ForwardProgress
         \/ \E outcome \in {"ok", "failed", "panicked"} : TaskEnds(outcome)
         \/ PollProgressEmpty \/ PollTaskRunning
         \/ InstallSucceeded \/ InstallFailed \/ InstallLost
  PROVE  IInv'
<1> USE DEF IInv, TypeOK, ToolHasOneOwner, JoinNeedsNoTool,
            QuestionsBetweenInstalls, LoopInv, EndSession, Stay, Carried,
            asking, online, working, shown, device, bounds
<1>1. CASE TaskReports
  BY <1>1 DEF TaskReports
<1>2. CASE ForwardProgress
  BY <1>2 DEF ForwardProgress
<1>3. ASSUME NEW outcome \in {"ok", "failed", "panicked"}, TaskEnds(outcome)
      PROVE  IInv'
  <2>1. staged' \in BOOLEAN
    BY <1>3 DEF TaskEnds
  <2>2. task' \in {"ok", "failed", "panicked"} /\ task = "running"
    BY <1>3 DEF TaskEnds
  <2>3. TypeOK'
    BY <1>3, <2>1, <2>2 DEF TaskEnds
  <2> QED
    BY <1>3, <2>2, <2>3 DEF TaskEnds
<1>4. CASE PollProgressEmpty
  BY <1>4 DEF PollProgressEmpty
<1>5. CASE PollTaskRunning
  BY <1>5 DEF PollTaskRunning
<1>6. CASE InstallSucceeded
  BY <1>6 DEF InstallSucceeded
<1>7. CASE InstallFailed
  BY <1>7 DEF InstallFailed
<1>8. CASE InstallLost
  BY <1>8 DEF InstallLost
<1> QED
  BY <1>1, <1>2, <1>3, <1>4, <1>5, <1>6, <1>7, <1>8

\* Questions are put and answered.
LEMMA ResolveIInv ==
  ASSUME IInv, InQuestion, NEW answer, Resolve(answer),
         UNCHANGED <<config, controller, shown, commands>>
  PROVE  IInv'
<1>1. CASE question = "update"
  <2>1. offer \in Firmwares /\ install = None /\ installs < MaxInstalls
    BY <1>1 DEF IInv, LoopInv, QuestionsBetweenInstalls
  <2>2. connection \in {"disconnected", "connecting", "connected"}
    BY DEF IInv, TypeOK
  <2>3. Act(DecideUpdate(config, had, answer), offer, connection) /\ UNCHANGED device
    BY <1>1 DEF Resolve
  <2> QED
    BY <2>1, <2>2, <2>3, ActIInv
<1>2. CASE question = "reboot"
  <2>1. rebooting' \in BOOLEAN
    BY <1>2 DEF Resolve, Settle, RebootCommand, IInv, TypeOK
  <2> QED
    BY <1>2, <2>1
       DEF Resolve, Settle, Stay, Carried, IInv, TypeOK, ToolHasOneOwner,
           JoinNeedsNoTool, QuestionsBetweenInstalls, LoopInv, working, shown,
           bounds
<1>3. CASE question = "identify"
  BY <1>3 DEF Resolve, Stay, IInv, TypeOK, ToolHasOneOwner, JoinNeedsNoTool,
              QuestionsBetweenInstalls, LoopInv, working, shown, device, bounds
<1> QED
  BY <1>1, <1>2, <1>3 DEF Resolve

LEMMA QuestionIInv ==
  ASSUME IInv,
         \/ AskNobody \/ AskController \/ Unanswered
         \/ \E answer \in UpdateDecisions \cup RebootDecisions : Answered(answer)
         \/ ControllerComesOrGoes \/ Identify
  PROVE  IInv'
<1> USE DEF IInv, TypeOK, ToolHasOneOwner, JoinNeedsNoTool,
            QuestionsBetweenInstalls, LoopInv,
            asking, online, working, shown, device, bounds
<1>1. CASE AskNobody
  BY <1>1, ResolveIInv DEF AskNobody
<1>2. CASE AskController
  BY <1>2 DEF AskController
<1>3. CASE Unanswered
  BY <1>3, ResolveIInv DEF Unanswered
<1>4. ASSUME NEW answer \in UpdateDecisions \cup RebootDecisions, Answered(answer)
      PROVE  IInv'
  BY <1>4, ResolveIInv DEF Answered
<1>5. CASE ControllerComesOrGoes
  BY <1>5 DEF ControllerComesOrGoes
<1>6. CASE Identify
  BY <1>6 DEF Identify, Received
<1> QED
  BY <1>1, <1>2, <1>3, <1>4, <1>5, <1>6

\* Commands, reboots and restarts.
LEMMA CommandIInv ==
  ASSUME IInv,
         \/ OperatorReboot \/ ApplicationReboot \/ MarkValid
         \/ \E command \in Requests : Request(command)
         \/ SystemRestarts \/ AgentRestarts
  PROVE  IInv'
<1> USE DEF IInv, TypeOK, ToolHasOneOwner, JoinNeedsNoTool,
            QuestionsBetweenInstalls, LoopInv, Carried,
            asking, online, working, shown, device, bounds
<1>1. commands # <<>> =>
        Tail(commands) \in Seq(Requests) /\ Len(Tail(commands)) <= MaxCommands
  OBVIOUS
<1>2. RebootCommand => rebooting' \in BOOLEAN
  BY DEF RebootCommand
<1>3. CASE OperatorReboot
  <2>1. rebooting' \in BOOLEAN
    BY <1>2, <1>3 DEF OperatorReboot
  <2> QED
    BY <1>3, <2>1 DEF OperatorReboot, Received
<1>4. CASE ApplicationReboot
  <2>1. rebooting' \in BOOLEAN
    BY <1>2, <1>4 DEF ApplicationReboot
  <2> QED
    BY <1>1, <1>4, <2>1 DEF ApplicationReboot
<1>5. CASE MarkValid
  <2>1. unproven' \in BOOLEAN /\ pending' \in BOOLEAN
    BY <1>5 DEF MarkValid
  <2> QED
    BY <1>1, <1>5, <2>1 DEF MarkValid
<1>6. ASSUME NEW command \in Requests, Request(command)
      PROVE  IInv'
  <2>1. commands' \in Seq(Requests) /\ Len(commands') <= MaxCommands
    BY <1>6 DEF Request
  <2> QED
    BY <1>6, <2>1 DEF Request
<1>7. ASSUME AgentNew
      PROVE  /\ phase' = "backoff" /\ question' = "none" /\ offer' = None
             /\ had' \in BOOLEAN /\ controller' \in BOOLEAN /\ cached' \in BOOLEAN
             /\ socket' = "none" /\ connection' = "disconnected" /\ said' = "nothing"
             /\ tool' = "agent" /\ install' = None /\ task' = "none"
             /\ reports' \in 0..MaxReports /\ update' = None
             /\ commands' \in Seq(Requests) /\ Len(commands') <= MaxCommands
  <2>1. cached' \in BOOLEAN
    BY <1>7, Zenon DEF AgentNew
  <2>2. commands' \in Seq(Requests) /\ Len(commands') <= MaxCommands
    <3>1. commands' = <<>>
      BY <1>7 DEF AgentNew
    <3> QED
      BY <3>1
  <2>3. reports' \in 0..MaxReports
    <3>1. reports' = 0
      BY <1>7 DEF AgentNew
    <3> QED
      BY <3>1
  <2> QED
    BY <1>7, <2>1, <2>2, <2>3 DEF AgentNew
<1>8. CASE SystemRestarts
  <2>1. restarts' \in 0..MaxRestarts
    BY <1>8 DEF SystemRestarts
  <2>2. unproven' \in BOOLEAN
    BY <1>8 DEF SystemRestarts
  <2>3. pending' \in BOOLEAN
    BY <1>8, <2>2 DEF SystemRestarts, AgentNew
  <2>4. TypeOK'
    BY <1>8, <2>1, <2>2, <2>3, <1>7 DEF SystemRestarts
  <2> QED
    BY <1>8, <1>7, <2>4 DEF SystemRestarts
<1>9. CASE AgentRestarts
  <2>1. restarts' \in 0..MaxRestarts
    BY <1>9 DEF AgentRestarts
  <2>2. pending' \in BOOLEAN
    BY <1>9 DEF AgentRestarts, AgentNew
  <2>3. TypeOK'
    BY <1>9, <2>1, <2>2, <1>7 DEF AgentRestarts
  <2> QED
    BY <1>9, <1>7, <2>3 DEF AgentRestarts
<1> QED
  BY <1>3, <1>4, <1>5, <1>6, <1>8, <1>9

-----------------------------------------------------------------------------
LEMMA StepIInv == IInv /\ [Next]_vars => IInv'
<1> SUFFICES ASSUME IInv, [Next]_vars PROVE IInv'
  OBVIOUS
<1>1. CASE UNCHANGED vars
  BY <1>1 DEF vars, asking, online, working, shown, device, bounds, IInv,
              TypeOK, ToolHasOneOwner, JoinNeedsNoTool,
              QuestionsBetweenInstalls, LoopInv
<1>2. CASE Next
  BY <1>2, ConnectingIInv, OfferIInv, TaskIInv, QuestionIInv, CommandIInv
     DEF Next
<1> QED
  BY <1>1, <1>2

\* The inductive invariant holds in every state of every behaviour.
THEOREM Invariance == Spec => []IInv
  BY InitIInv, StepIInv, PTL DEF Spec

\* Every variable keeps its type: no action of the loop, of the task or of a
\* restart leaves the values Agent gives its fields.
THEOREM TypeCorrect == Spec => []TypeOK
<1>1. IInv => TypeOK
  BY DEF IInv
<1> QED
  BY <1>1, Invariance, PTL

\* The tool is in exactly one place, however many installs, disconnects,
\* panics and restarts there are (Agent.tool against Agent.install).
THEOREM OneOwner == Spec => []ToolHasOneOwner
<1>1. IInv => ToolHasOneOwner
  BY DEF IInv
<1> QED
  BY <1>1, Invariance, PTL

\* A session never has to reach for a tool that is away: a join is cached
\* whenever an install, or a panic, has taken it (Agent::session).
THEOREM SessionsNeedNoTool == Spec => []JoinNeedsNoTool
<1>1. IInv => JoinNeedsNoTool
  BY DEF IInv
<1> QED
  BY <1>1, Invariance, PTL

\* The controller is asked about an update or a reboot between installs only
\* (on_update and settle_reboot).
THEOREM AsksBetweenInstalls == Spec => []QuestionsBetweenInstalls
<1>1. IInv => QuestionsBetweenInstalls
  BY DEF IInv
<1> QED
  BY <1>1, Invariance, PTL

-----------------------------------------------------------------------------
\* What a step may do to the update that is shown: clear it, lose its tool, leave
\* it while an install begins, or leave it or make it the one that is installed.
ShownStep ==
  \/ update' = None
  \/ tool' = "lost"
  \/ tool = "agent" /\ update' = update
  \/ update' \in {update, install} /\ UNCHANGED <<tool, install>>

LEMMA ActShows ==
  ASSUME NEW decision, NEW fw, NEW now, Act(decision, fw, now), UNCHANGED shown
  PROVE  ShownStep
<1>1. CASE Begin(fw, now)
  BY <1>1 DEF Begin, ShownStep, shown
<1>2. CASE UNCHANGED <<working, bounds>>
  BY <1>2 DEF ShownStep, shown, working
<1> QED
  BY <1>1, <1>2 DEF Act

LEMMA OfferShows ==
  ASSUME \/ \E fw \in Firmwares \cup {None} : Joined(fw)
         \/ \E fw \in Firmwares : ApplyUpdate(fw)
  PROVE  ShownStep
<1>1. ASSUME NEW fw, NEW now, OnUpdate(fw, now), UNCHANGED shown
      PROVE  ShownStep
  <2>1. CASE config.updates = "ask"
    BY <1>1, <2>1 DEF OnUpdate, ShownStep, shown, working
  <2>2. CASE config.updates # "ask"
    BY <1>1, <2>2, ActShows DEF OnUpdate
  <2> QED
    BY <2>1, <2>2
<1>2. ASSUME NEW fw, Joined(fw)
      PROVE  ShownStep
  <2>1. CASE fw # None /\ install = None
    BY <1>1, <1>2, <2>1 DEF Joined
  <2>2. CASE ~(fw # None /\ install = None)
    BY <1>2, <2>2 DEF Joined, ShownStep, shown, working
  <2> QED
    BY <2>1, <2>2
<1>3. ASSUME NEW fw, ApplyUpdate(fw)
      PROVE  ShownStep
  BY <1>1, <1>3 DEF ApplyUpdate
<1> QED
  BY <1>2, <1>3

LEMMA QuestionShows ==
  ASSUME \/ AskNobody \/ AskController \/ Unanswered
         \/ \E answer \in UpdateDecisions \cup RebootDecisions : Answered(answer)
         \/ ControllerComesOrGoes \/ Identify
  PROVE  ShownStep
<1>1. ASSUME NEW answer, Resolve(answer), UNCHANGED shown
      PROVE  ShownStep
  <2>1. CASE question = "update"
    <3>1. Act(DecideUpdate(config, had, answer), offer, connection)
      BY <1>1, <2>1 DEF Resolve
    <3> QED
      BY <1>1, <3>1, ActShows
  <2>2. CASE question # "update"
    BY <1>1, <2>2 DEF Resolve, Settle, ShownStep, shown, working
  <2> QED
    BY <2>1, <2>2
<1>2. CASE AskNobody
  BY <1>1, <1>2 DEF AskNobody
<1>3. CASE Unanswered
  BY <1>1, <1>3 DEF Unanswered
<1>4. ASSUME NEW answer, Answered(answer)
      PROVE  ShownStep
  BY <1>1, <1>4 DEF Answered
<1>5. CASE AskController \/ ControllerComesOrGoes \/ Identify
  BY <1>5 DEF AskController, ControllerComesOrGoes, Identify, ShownStep, shown,
              working
<1> QED
  BY <1>2, <1>3, <1>4, <1>5

LEMMA OthersShow ==
  ASSUME \/ Reconnect \/ SessionStarts \/ ConnectFails \/ SessionEnds \/ SocketDies
         \/ TaskReports \/ ForwardProgress
         \/ \E outcome \in {"ok", "failed", "panicked"} : TaskEnds(outcome)
         \/ PollProgressEmpty \/ PollTaskRunning
         \/ InstallSucceeded \/ InstallFailed \/ InstallLost
         \/ OperatorReboot \/ ApplicationReboot \/ MarkValid
         \/ \E command \in Requests : Request(command)
         \/ SystemRestarts \/ AgentRestarts
  PROVE  ShownStep
<1> USE DEF ShownStep, shown, working
<1>1. CASE Reconnect \/ SessionStarts \/ ConnectFails \/ SessionEnds \/ SocketDies
  BY <1>1 DEF Reconnect, SessionStarts, ConnectFails, SessionEnds, SocketDies
<1>2. CASE TaskReports \/ PollProgressEmpty \/ PollTaskRunning
  BY <1>2 DEF TaskReports, PollProgressEmpty, PollTaskRunning
<1>3. ASSUME NEW outcome, TaskEnds(outcome)
      PROVE  ShownStep
  BY <1>3 DEF TaskEnds
<1>4. CASE ForwardProgress
  BY <1>4 DEF ForwardProgress
<1>5. CASE InstallSucceeded \/ InstallFailed \/ InstallLost
  BY <1>5 DEF InstallSucceeded, InstallFailed, InstallLost
<1>6. CASE OperatorReboot \/ ApplicationReboot \/ MarkValid
  BY <1>6 DEF OperatorReboot, ApplicationReboot, MarkValid
<1>7. ASSUME NEW command, Request(command)
      PROVE  ShownStep
  BY <1>7 DEF Request
<1>8. CASE SystemRestarts \/ AgentRestarts
  BY <1>8 DEF SystemRestarts, AgentRestarts, AgentNew
<1> QED
  BY <1>1, <1>2, <1>3, <1>4, <1>5, <1>6, <1>7, <1>8

LEMMA StepShows == [Next]_vars => ShownStep
<1>1. CASE UNCHANGED vars
  BY <1>1 DEF vars, shown, working, ShownStep
<1>2. CASE Next
  BY <1>2, OfferShows, QuestionShows, OthersShow DEF Next
<1> QED
  BY <1>1, <1>2

\* Through disconnects, panics and restarts, no update is shown whose install came
\* to an end: what is shown is in flight, or its task took the tool with it
\* (Shared.update).
THEOREM EndedNotShown == Spec => []EndedUpdatesAreNotShown
<1>1. Init => EndedUpdatesAreNotShown
  BY DEF Init, EndedUpdatesAreNotShown
<1>2. IInv /\ EndedUpdatesAreNotShown /\ [Next]_vars => EndedUpdatesAreNotShown'
  <2> SUFFICES ASSUME IInv, EndedUpdatesAreNotShown, ShownStep
               PROVE  EndedUpdatesAreNotShown'
    BY StepShows
  <2>1. tool = "agent" => install = None
    BY DEF IInv, ToolHasOneOwner
  <2> QED
    BY <2>1 DEF EndedUpdatesAreNotShown, ShownStep
<1> QED
  BY <1>1, <1>2, Invariance, PTL DEF Spec
=============================================================================
