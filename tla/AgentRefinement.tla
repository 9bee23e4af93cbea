------------------------- MODULE AgentRefinement --------------------------
(***************************************************************************)
(* Agent implements InstallProtocol: on every connection, the reports about *)
(* updates come in the order of an install's life.                         *)
(*                                                                         *)
(* Two things the code does break the protocol and are excluded by         *)
(* assumption: a panicking install task takes the tool with it, and the    *)
(* application's reboot command is announced in the middle of an install.  *)
(***************************************************************************)
EXTENDS AgentProofs

\* What a connection that is up last carried tells whether an install runs.
WireInv ==
  /\ tool # "lost" /\ task # "panicked"
  /\ socket = "up" /\ install = None => said \notin IP!Open
  /\ socket = "up" /\ install # None => said \in IP!Open \cup {"nothing"}

\* The abstract steps and stutters a step of the agent may be.
Implements == [IP!Next]_(IP!vars) /\ WireInv'

LEMMA InitWireInv == Init => WireInv /\ IP!Init
  BY DEF Init, WireInv, IP!Init, IP!Open

LEMMA ConnectingImplements ==
  ASSUME IInv, WireInv,
         Reconnect \/ SessionStarts \/ ConnectFails \/ SessionEnds \/ SocketDies
  PROVE  Implements
<1> USE DEF WireInv, EndSession, online, working,
            Implements, IP!vars, IP!Open
<1>1. CASE Reconnect
  BY <1>1 DEF Reconnect
<1>2. CASE SessionStarts
  BY <1>2 DEF SessionStarts, IP!Next, IP!Connect
<1>3. CASE ConnectFails
  BY <1>3 DEF ConnectFails
<1>4. CASE SessionEnds
  BY <1>4 DEF SessionEnds
<1>5. CASE SocketDies
  BY <1>5 DEF SocketDies
<1> QED
  BY <1>1, <1>2, <1>3, <1>4, <1>5

\* Acting on a decision begins an install, declines, or ends the session.
LEMMA ActImplements ==
  ASSUME IInv, WireInv, install = None, NEW fw \in Firmwares, NEW decision, NEW now,
         socket \in {"up", "lost"},
         Act(decision, fw, now)
  PROVE  Implements
<1> USE DEF WireInv, EndSession, Stay, Carried, working,
            Implements, IP!vars, IP!Open
<1>1. tool = "agent"
  BY DEF IInv, TypeOK, ToolHasOneOwner
<1>2. CASE Begin(fw, now)
  <2>1. /\ tool' = "task" /\ install' = fw /\ task' = "running"
        /\ said' = Carried("started") /\ UNCHANGED socket
    BY <1>1, <1>2 DEF Begin
  <2>2. install' # None
    BY <2>1, AgentAssumption
  <2>3. IP!Begin(fw)
    BY <2>1 DEF IP!Begin
  <2> QED
    BY <2>1, <2>2, <2>3 DEF IP!Next
<1>3. CASE SendOrEnd("declined", now) /\ UNCHANGED <<working, bounds>>
  <2>1. install' = install /\ tool' = tool /\ task' = task
    BY <1>3
  <2>2. CASE socket = "up"
    <3>1. socket' = "up" /\ said' = "declined"
      BY <1>3, <2>2 DEF SendOrEnd
    <3>2. IP!Between("declined")
      BY <2>1, <2>2, <3>1 DEF IP!Between
    <3> QED
      BY <2>1, <3>1, <3>2 DEF IP!Next
  <2>3. CASE socket = "lost"
    BY <1>3, <2>1, <2>3 DEF SendOrEnd
  <2> QED
    BY <2>2, <2>3
<1> QED
  BY <1>2, <1>3 DEF Act

LEMMA OnUpdateImplements ==
  ASSUME IInv, WireInv, install = None, NEW fw \in Firmwares, NEW now,
         socket \in {"up", "lost"}, OnUpdate(fw, now)
  PROVE  Implements
<1>1. CASE config.updates = "ask"
  BY <1>1 DEF OnUpdate, Implements, WireInv, IP!vars, working
<1>2. CASE config.updates # "ask"
  BY <1>2, ActImplements DEF OnUpdate
<1> QED
  BY <1>1, <1>2

LEMMA OfferImplements ==
  ASSUME IInv, WireInv,
         \/ \E fw \in Firmwares \cup {None} : Joined(fw)
         \/ \E fw \in Firmwares : ApplyUpdate(fw)
  PROVE  Implements
<1>1. ASSUME NEW fw \in Firmwares \cup {None}, Joined(fw)
      PROVE  Implements
  <2>1. CASE fw # None /\ install = None
    BY <1>1, <2>1, OnUpdateImplements DEF Joined, Received
  <2>2. CASE ~(fw # None /\ install = None)
    <3>1. UNCHANGED <<socket, said, working>>
      BY <1>1, <2>2 DEF Joined
    <3> QED
      BY <3>1 DEF Implements, WireInv, IP!vars, working
  <2> QED
    BY <2>1, <2>2
<1>2. ASSUME NEW fw \in Firmwares, ApplyUpdate(fw)
      PROVE  Implements
  BY <1>2, OnUpdateImplements DEF ApplyUpdate, Received
<1> QED
  BY <1>1, <1>2

LEMMA TaskImplements ==
  ASSUME IInv, WireInv, ~Panics,
         \/ TaskReports \/ ForwardProgress
         \/ \E outcome \in {"ok", "failed", "panicked"} : TaskEnds(outcome)
         \/ PollProgressEmpty \/ PollTaskRunning
         \/ InstallSucceeded \/ InstallFailed \/ InstallLost
  PROVE  Implements
<1> USE DEF WireInv, EndSession, Stay, Carried, online, working,
            Implements, IP!vars, IP!Open
<1>1. CASE TaskReports
  BY <1>1 DEF TaskReports
<1>2. CASE ForwardProgress
  BY <1>2 DEF ForwardProgress, IP!Next, IP!Progress
<1>3. ASSUME NEW outcome \in {"ok", "failed", "panicked"}, TaskEnds(outcome)
      PROVE  Implements
  BY <1>3 DEF TaskEnds
<1>4. CASE PollProgressEmpty
  BY <1>4 DEF PollProgressEmpty
<1>5. CASE PollTaskRunning
  BY <1>5 DEF PollTaskRunning
<1>6. CASE InstallSucceeded
  <2>1. install # None
    BY <1>6 DEF InstallSucceeded, IInv, ToolHasOneOwner
  <2> QED
    BY <1>6, <2>1 DEF InstallSucceeded, IP!Next, IP!Finish
<1>7. CASE InstallFailed
  <2>1. install # None
    BY <1>7 DEF InstallFailed, IInv, ToolHasOneOwner
  <2> QED
    BY <1>7, <2>1 DEF InstallFailed, IP!Next, IP!Finish
<1>8. CASE InstallLost
  BY <1>8 DEF InstallLost
<1> QED
  BY <1>1, <1>2, <1>3, <1>4, <1>5, <1>6, <1>7, <1>8

LEMMA ResolveImplements ==
  ASSUME IInv, WireInv, InQuestion, NEW answer, Resolve(answer)
  PROVE  Implements
<1>1. socket \in {"up", "lost"}
  BY DEF IInv, TypeOK, LoopInv, InQuestion
<1>2. CASE question = "update"
  <2>1. offer \in Firmwares /\ install = None
    BY <1>2 DEF IInv, LoopInv, QuestionsBetweenInstalls
  <2> QED
    BY <1>1, <1>2, <2>1, ActImplements DEF Resolve
<1>3. CASE question = "reboot"
  <2>1. install = None
    BY <1>3 DEF IInv, QuestionsBetweenInstalls
  <2>2. UNCHANGED <<socket, working>> /\ said' \in {said, Carried("rebooting")}
    BY <1>3 DEF Resolve, Settle, Stay
  <2> QED
    BY <2>1, <2>2 DEF Carried, Implements, WireInv, working, IP!vars,
                      IP!Next, IP!Between, IP!Open
<1>4. CASE question = "identify"
  BY <1>4 DEF Resolve, Stay, Implements, WireInv, working, IP!vars
<1> QED
  BY <1>2, <1>3, <1>4 DEF Resolve

LEMMA QuestionImplements ==
  ASSUME IInv, WireInv,
         \/ AskNobody \/ AskController \/ Unanswered
         \/ \E answer \in UpdateDecisions \cup RebootDecisions : Answered(answer)
         \/ ControllerComesOrGoes \/ Identify
  PROVE  Implements
<1> USE DEF WireInv, InQuestion, online, working, Implements, IP!vars
<1>1. CASE AskNobody
  BY <1>1, ResolveImplements DEF AskNobody
<1>2. CASE AskController
  BY <1>2 DEF AskController
<1>3. CASE Unanswered
  BY <1>3, ResolveImplements DEF Unanswered
<1>4. ASSUME NEW answer \in UpdateDecisions \cup RebootDecisions, Answered(answer)
      PROVE  Implements
  BY <1>4, ResolveImplements DEF Answered
<1>5. CASE ControllerComesOrGoes
  BY <1>5 DEF ControllerComesOrGoes
<1>6. CASE Identify
  BY <1>6 DEF Identify
<1> QED
  BY <1>1, <1>2, <1>3, <1>4, <1>5, <1>6

LEMMA CommandImplements ==
  ASSUME IInv, WireInv, "reboot" \notin Requests,
         \/ OperatorReboot \/ ApplicationReboot \/ MarkValid
         \/ \E command \in Requests : Request(command)
         \/ SystemRestarts \/ AgentRestarts
  PROVE  Implements
<1> USE DEF WireInv, Carried, online, working, Implements, IP!vars,
            IP!Open
<1>1. CASE OperatorReboot
  BY <1>1 DEF OperatorReboot, IP!Next, IP!Between
<1>2. CASE ApplicationReboot
  <2>1. Head(commands) \in Requests
    BY <1>2 DEF ApplicationReboot, IInv, TypeOK
  <2> QED
    BY <1>2, <2>1 DEF ApplicationReboot
<1>3. CASE MarkValid
  BY <1>3 DEF MarkValid
<1>4. ASSUME NEW command \in Requests, Request(command)
      PROVE  Implements
  BY <1>4 DEF Request
<1>5. CASE SystemRestarts
  BY <1>5 DEF SystemRestarts, AgentNew, IP!Next, IP!Restart
<1>6. CASE AgentRestarts
  BY <1>6 DEF AgentRestarts, AgentNew, IP!Next, IP!Restart
<1> QED
  BY <1>1, <1>2, <1>3, <1>4, <1>5, <1>6
-----------------------------------------------------------------------------
LEMMA StepImplements ==
  ~Panics /\ "reboot" \notin Requests /\ IInv /\ WireInv /\ [Next]_vars
    => Implements
<1> SUFFICES ASSUME ~Panics, "reboot" \notin Requests, IInv, WireInv, [Next]_vars
             PROVE  Implements
  OBVIOUS
<1>1. CASE UNCHANGED vars
  BY <1>1 DEF vars, online, working, Implements, WireInv, IP!vars
<1>2. CASE Next
  BY <1>2, ConnectingImplements, OfferImplements, TaskImplements,
     QuestionImplements, CommandImplements DEF Next
<1> QED
  BY <1>1, <1>2

\* Without panics and without the application's reboot command, everything an
\* agent says about updates follows InstallProtocol: one install at a time,
\* started before progress before the outcome, the outcome before a reboot
\* (on_update, forward_progress, on_install_finished and settle_reboot).
THEOREM Refinement ==
  ASSUME ~Panics, "reboot" \notin Requests
  PROVE  Spec => ImplementsInstallProtocol
<1>1. IInv /\ WireInv /\ [Next]_vars => WireInv' /\ [IP!Next]_(IP!vars)
  BY StepImplements DEF Implements
<1>2. Init => WireInv /\ IP!Init
  BY InitWireInv
<1> QED
  BY <1>1, <1>2, Invariance, PTL DEF Spec, ImplementsInstallProtocol, IP!Spec
=============================================================================
