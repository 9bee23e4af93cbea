-------------------------------- MODULE Ipc --------------------------------
(***************************************************************************)
(* The socket applications connect to (src/ipc/mod.rs): the controller     *)
(* slot, the pump of each connection, the channel a question takes to the  *)
(* controller, the commands that come back, and the session loop as far as *)
(* it asks questions and serves commands.                                  *)
(*                                                                         *)
(* A question is its number.  On the wire it has the id its connection     *)
(* gave it; `about' says which question an application answers.            *)
(* Applications send what the protocol lets them, read when they like and  *)
(* close when they like.                                                   *)
(***************************************************************************)
EXTENDS Naturals, Sequences, FiniteSets

CONSTANTS
  Conns,         \* names for connections
  None,          \* no connection
  Callers,       \* the roles whose applications call mark_valid and reboot
  SlotQueue,     \* capacity of the channel to the controller
  CommandQueue,  \* capacity of the command channel
  SocketBuffer,  \* frames a socket holds before its writer waits
  MaxQuestions,  \* bound on the questions asked
  MaxInbox       \* bound on the frames an application has under way

ASSUME IpcAssumption ==
  /\ None \notin Conns
  /\ Callers \subseteq {"observer", "controller"}
  /\ SlotQueue \in Nat \ {0} /\ CommandQueue \in Nat \ {0}
  /\ SocketBuffer \in Nat \ {0}
  /\ MaxQuestions \in Nat /\ MaxInbox \in Nat

VARIABLES
  stage,        \* stage[c]: where the task that serves c is
  role,         \* role[c]
  peer,         \* peer[c]: the application still holds its end
  inbox,        \* inbox[c]: frames from the application, not yet read
  unread,       \* unread[c]: frames for the application, not yet read
  known,        \* known[c]: questions the application read, and can answer
  writing,      \* writing[c]: the frame the task has in hand
  queue,        \* queue[c]: the channel to the controller
  nextId,       \* nextId[c]: the last id given to a request
  outstanding,  \* outstanding[c]: ids, each with the question to reply to
  slot,         \* whose sender is in Ipc.controller
  commands,     \* the command channel
  loop,         \* the session loop
  asked,        \* the question it asks, or asked last
  target,       \* the connection it puts that question to
  verdict       \* what the answer it accepted was about; 0 without one

app   == <<peer, inbox, unread, known>>
pump  == <<stage, role, writing, queue, nextId, outstanding>>
asks  == <<loop, asked, target, verdict>>
vars  == <<app, pump, slot, commands, asks>>

Questions == 1..MaxQuestions
Frames == [id : 0..MaxQuestions, about : 0..MaxQuestions]

\* A frame that is no question: welcome, response or event.
Reply == [id |-> 0, about |-> 0]

Answer(request) == [kind |-> "answer", request |-> request]
Call(method)    == [kind |-> method, request |-> Reply]

TypeOK ==
  /\ stage \in [Conns -> {"free", "hello", "welcome", "select", "write",
                          "command", "reply", "ended"}]
  /\ role \in [Conns -> {"observer", "controller"}]
  /\ peer \in [Conns -> BOOLEAN]
  /\ \A c \in Conns :
       /\ \A i \in 1..Len(inbox[c]) :
            inbox[c][i] \in {Answer(f) : f \in Frames}
                            \cup {Call(m) : m \in {"status", "mark_valid", "reboot"}}
       /\ unread[c] \in Seq(Frames) /\ Len(unread[c]) <= SocketBuffer
       /\ queue[c] \in Seq(Questions) /\ Len(queue[c]) <= SlotQueue
  /\ known \in [Conns -> SUBSET Frames]
  /\ writing \in [Conns -> Frames]
  /\ nextId \in [Conns -> 0..MaxQuestions]
  /\ outstanding \in [Conns -> SUBSET Frames]
  /\ slot \in Conns \cup {None}
  /\ commands \in Seq([kind : {"mark_valid", "reboot"}, from : Conns])
  /\ Len(commands) <= CommandQueue
  /\ loop \in {"away", "serving", "sending", "waiting"}
  /\ asked \in 0..MaxQuestions
  /\ target \in Conns \cup {None}
  /\ verdict \in 0..MaxQuestions

Init ==
  /\ stage = [c \in Conns |-> "free"]
  /\ role = [c \in Conns |-> "observer"]
  /\ peer = [c \in Conns |-> FALSE]
  /\ inbox = [c \in Conns |-> <<>>] /\ unread = [c \in Conns |-> <<>>]
  /\ known = [c \in Conns |-> {}]
  /\ writing = [c \in Conns |-> Reply]
  /\ queue = [c \in Conns |-> <<>>]
  /\ nextId = [c \in Conns |-> 0] /\ outstanding = [c \in Conns |-> {}]
  /\ slot = None /\ commands = <<>>
  /\ loop = "away" /\ asked = 0 /\ target = None /\ verdict = 0

\* The receiver of a controller's channel lives from the claim to the end of
\* the pump.
Listening(c) ==
  role[c] = "controller" /\ stage[c] \notin {"free", "hello", "ended"}

Goto(c, s) == stage' = [stage EXCEPT ![c] = s]
-----------------------------------------------------------------------------
(* Applications                                                            *)

\* A new connection; its hello is on the way.  The name is one that nothing
\* refers to any more.
Connects(c, r) ==
  /\ stage[c] = "free" /\ slot # c /\ target # c
  /\ \A i \in 1..Len(commands) : commands[i].from # c
  /\ Goto(c, "hello")
  /\ role' = [role EXCEPT ![c] = r]
  /\ peer' = [peer EXCEPT ![c] = TRUE]
  /\ UNCHANGED <<inbox, unread, known, writing, queue, nextId, outstanding,
                 slot, commands, asks>>

Sends(c, frame) ==
  /\ peer[c] /\ stage[c] \notin {"hello", "welcome"}
  /\ Len(inbox[c]) < MaxInbox
  /\ inbox' = [inbox EXCEPT ![c] = Append(@, frame)]

Calls(c, method) ==
  /\ method \in {"mark_valid", "reboot"} => role[c] \in Callers
  /\ Sends(c, Call(method))
  /\ UNCHANGED <<peer, unread, known, pump, slot, commands, asks>>

\* An application may answer late, and the same request again and again.
AnswersQuestion(c) ==
  \E request \in known[c] :
    /\ Sends(c, Answer(request))
    /\ UNCHANGED <<peer, unread, known, pump, slot, commands, asks>>

Reads(c) ==
  /\ peer[c] /\ unread[c] # <<>>
  /\ unread' = [unread EXCEPT ![c] = Tail(@)]
  /\ known' = [known EXCEPT ![c] = @ \cup ({Head(unread[c])} \ {Reply})]
  /\ UNCHANGED <<peer, inbox, pump, slot, commands, asks>>

Closes(c) ==
  /\ peer[c]
  /\ peer' = [peer EXCEPT ![c] = FALSE]
  /\ unread' = [unread EXCEPT ![c] = <<>>]
  /\ known' = [known EXCEPT ![c] = {}]
  /\ UNCHANGED <<inbox, pump, slot, commands, asks>>
-----------------------------------------------------------------------------
(* Ipc::serve                                                              *)

\* The task is over: what it holds is dropped.
Gone(c) ==
  /\ Goto(c, "free")
  /\ peer' = [peer EXCEPT ![c] = FALSE]
  /\ inbox' = [inbox EXCEPT ![c] = <<>>]
  /\ unread' = [unread EXCEPT ![c] = <<>>]
  /\ known' = [known EXCEPT ![c] = {}]

\* Mutant: a second controller takes the slot over.
ClaimsAnyway(c) ==
  /\ stage[c] = "hello"
  /\ Goto(c, "welcome")
  /\ slot' = IF role[c] = "controller" THEN c ELSE slot
  /\ UNCHANGED <<app, role, writing, queue, nextId, outstanding, commands, asks>>

\* The hello is read.  A second controller is refused, and its connection
\* closed.
Claims(c) ==
  /\ stage[c] = "hello"
  /\ IF role[c] = "controller" /\ slot # None
     THEN Gone(c) /\ UNCHANGED slot
     ELSE /\ Goto(c, "welcome")
          /\ slot' = IF role[c] = "controller" THEN c ELSE slot
          /\ UNCHANGED app
  /\ UNCHANGED <<role, writing, queue, nextId, outstanding, commands, asks>>

\* No hello came, or one that speaks another api.
HelloFails(c) ==
  /\ stage[c] = "hello"
  /\ Gone(c)
  /\ UNCHANGED <<role, writing, queue, nextId, outstanding, slot, commands, asks>>

Welcomes(c) ==
  /\ stage[c] = "welcome"
  /\ peer[c]
  /\ Goto(c, "select")
  /\ unread' = [unread EXCEPT ![c] = Append(@, Reply)]
  /\ UNCHANGED <<peer, inbox, known, role, writing, queue, nextId, outstanding,
                 slot, commands, asks>>

\* The application is gone before its welcome is written: serve returns early.
WelcomeFails(c) ==
  /\ stage[c] = "welcome"
  /\ ~peer[c]
  /\ Gone(c)
  /\ queue' = [queue EXCEPT ![c] = <<>>]
  /\ UNCHANGED <<role, writing, nextId, outstanding, slot, commands, asks>>

\* pump returns: the channel's receiver and the outstanding replies go first,
EndPump(c) ==
  /\ Goto(c, "ended")
  /\ writing' = [writing EXCEPT ![c] = Reply]
  /\ queue' = [queue EXCEPT ![c] = <<>>]
  /\ nextId' = [nextId EXCEPT ![c] = 0]
  /\ outstanding' = [outstanding EXCEPT ![c] = {}]

\* and then the slot.
Releases(c) ==
  /\ stage[c] = "ended"
  /\ Gone(c)
  /\ slot' = IF role[c] = "controller" THEN None ELSE slot
  /\ UNCHANGED <<role, writing, queue, nextId, outstanding, commands, asks>>
-----------------------------------------------------------------------------
(* Ipc::pump                                                               *)

Write(c, frame) ==
  /\ Goto(c, "write")
  /\ writing' = [writing EXCEPT ![c] = frame]

\* The reply goes to whoever waits for it: the session loop, unless it has
\* given that question up.
Deliver(c, q, answer) ==
  IF loop = "waiting" /\ target = c /\ asked = q
  THEN /\ loop' = "serving" /\ target' = None
       /\ verdict' = answer.about
       /\ UNCHANGED asked
  ELSE UNCHANGED asks

\* Mutant: a response goes to any reply that is outstanding.
AcceptAny(c, answer) ==
  LET kept == outstanding[c] IN
  /\ outstanding' = [outstanding EXCEPT ![c] = @ \ kept]
  /\ IF kept = {} THEN UNCHANGED asks
     ELSE \E entry \in kept : Deliver(c, entry.about, answer)

\* A Response frame: the reply is the one that was kept under its id.
Accept(c, answer) ==
  LET kept == {entry \in outstanding[c] : entry.id = answer.id} IN
  /\ outstanding' = [outstanding EXCEPT ![c] = @ \ kept]
  /\ IF kept = {} THEN UNCHANGED asks
     ELSE \E entry \in kept : Deliver(c, entry.about, answer)

ReadsFrame(c) ==
  /\ stage[c] = "select"
  /\ inbox[c] # <<>>
  /\ LET frame == Head(inbox[c]) IN
     \/ /\ frame.kind = "answer"
        /\ Accept(c, frame.request)
        /\ inbox' = [inbox EXCEPT ![c] = Tail(@)]
        /\ UNCHANGED <<stage, writing>>
     \/ /\ frame.kind = "status"
        /\ Write(c, Reply)
        /\ inbox' = [inbox EXCEPT ![c] = Tail(@)]
        /\ UNCHANGED <<outstanding, asks>>
     \/ /\ frame.kind \in {"mark_valid", "reboot"}
        /\ Goto(c, "command")
        /\ UNCHANGED <<inbox, writing, outstanding, asks>>
  /\ UNCHANGED <<peer, unread, known, role, queue, nextId, slot, commands>>

\* Mutant: a full command channel takes one more.
SendsCommandAlways(c) ==
  /\ stage[c] = "command"
  /\ LET kind == Head(inbox[c]).kind IN
     /\ commands' = Append(commands, [kind |-> kind, from |-> c])
     /\ \/ kind = "mark_valid" /\ Goto(c, "reply")
        \/ kind = "reboot" /\ Goto(c, "write")
  /\ inbox' = [inbox EXCEPT ![c] = Tail(@)]
  /\ UNCHANGED <<peer, unread, known, role, writing, queue, nextId, outstanding,
                 slot, asks>>

\* handle_method: the command channel may be full.  mark_valid then waits for
\* its outcome; a reboot is answered at once.
SendsCommand(c) ==
  /\ stage[c] = "command"
  /\ Len(commands) < CommandQueue
  /\ LET kind == Head(inbox[c]).kind IN
     /\ commands' = Append(commands, [kind |-> kind, from |-> c])
     /\ \/ kind = "mark_valid" /\ Goto(c, "reply")
        \/ kind = "reboot" /\ Goto(c, "write")
  /\ inbox' = [inbox EXCEPT ![c] = Tail(@)]
  /\ UNCHANGED <<peer, unread, known, role, writing, queue, nextId, outstanding,
                 slot, asks>>

TakesQuestion(c) ==
  /\ stage[c] = "select"
  /\ queue[c] # <<>>
  /\ queue' = [queue EXCEPT ![c] = Tail(@)]
  /\ nextId' = [nextId EXCEPT ![c] = @ + 1]
  /\ LET request == [id |-> nextId'[c], about |-> Head(queue[c])] IN
     /\ outstanding' = [outstanding EXCEPT ![c] = @ \cup {request}]
     /\ Write(c, request)
  /\ UNCHANGED <<app, role, slot, commands, asks>>

\* An event that this connection subscribed to.
ForwardsEvent(c) ==
  /\ stage[c] = "select"
  /\ Write(c, Reply)
  /\ UNCHANGED <<app, role, queue, nextId, outstanding, slot, commands, asks>>

\* write_line waits for the application to read, and fails once it is gone.
Writes(c) ==
  /\ stage[c] = "write"
  /\ peer[c] /\ Len(unread[c]) < SocketBuffer
  /\ unread' = [unread EXCEPT ![c] = Append(@, writing[c])]
  /\ writing' = [writing EXCEPT ![c] = Reply]
  /\ Goto(c, "select")
  /\ UNCHANGED <<peer, inbox, known, role, queue, nextId, outstanding, slot,
                 commands, asks>>

WriteFails(c) ==
  /\ stage[c] = "write"
  /\ ~peer[c]
  /\ EndPump(c)
  /\ UNCHANGED <<app, role, slot, commands, asks>>

EndOfInput(c) ==
  /\ stage[c] = "select"
  /\ ~peer[c] /\ inbox[c] = <<>>
  /\ EndPump(c)
  /\ UNCHANGED <<app, role, slot, commands, asks>>
-----------------------------------------------------------------------------
(* The session loop and Ipc::ask                                           *)

SessionComesOrGoes ==
  /\ loop \in {"away", "serving"}
  /\ loop' = IF loop = "away" THEN "serving" ELSE "away"
  /\ UNCHANGED <<app, pump, slot, commands, asked, target, verdict>>

\* The controller's sender is cloned from the slot; without one, no answer.
Asks ==
  /\ loop = "serving"
  /\ asked < MaxQuestions
  /\ asked' = asked + 1
  /\ verdict' = 0
  /\ IF slot = None THEN UNCHANGED <<loop, target>>
     ELSE loop' = "sending" /\ target' = slot
  /\ UNCHANGED <<app, pump, slot, commands>>

\* The send waits for room, and no deadline runs yet.
SendsQuestion ==
  /\ loop = "sending"
  /\ Listening(target) /\ Len(queue[target]) < SlotQueue
  /\ queue' = [queue EXCEPT ![target] = Append(@, asked)]
  /\ loop' = "waiting"
  /\ UNCHANGED <<app, stage, role, writing, nextId, outstanding, slot, commands,
                 asked, target, verdict>>

GivesUp ==
  /\ loop' = "serving" /\ target' = None
  /\ UNCHANGED <<app, pump, slot, commands, asked, verdict>>

\* Mutant: a send into a channel that was dropped is not noticed.
NobodyToHear == loop = "waiting" /\ ~Listening(target) /\ GivesUp

\* Mutant: a reply that was dropped is not noticed.
NobodyToSend == loop = "sending" /\ ~Listening(target) /\ GivesUp

\* Nobody receives what was sent: the send fails, or the reply is dropped.
NobodyThere == loop \in {"sending", "waiting"} /\ ~Listening(target) /\ GivesUp

Deadline == loop = "waiting" /\ GivesUp

\* Mutant: what came of mark_valid is not told.
ServesSilently ==
  /\ loop = "serving"
  /\ commands # <<>>
  /\ commands' = Tail(commands)
  /\ UNCHANGED <<app, pump, slot, asks>>

ServesCommand ==
  /\ loop = "serving"
  /\ commands # <<>>
  /\ commands' = Tail(commands)
  /\ LET command == Head(commands) IN
     \/ /\ command.kind = "mark_valid"
        /\ Goto(command.from, "write")
     \/ command.kind = "reboot" /\ UNCHANGED stage
  /\ UNCHANGED <<app, role, writing, queue, nextId, outstanding, slot, asks>>
-----------------------------------------------------------------------------
Pumps(c) ==
  \/ ReadsFrame(c) \/ SendsCommand(c) \/ TakesQuestion(c)
  \/ Writes(c) \/ WriteFails(c) \/ EndOfInput(c)

Next ==
  \/ \E c \in Conns :
       \/ \E r \in {"observer", "controller"} : Connects(c, r)
       \/ \E m \in {"status", "mark_valid", "reboot"} : Calls(c, m)
       \/ AnswersQuestion(c) \/ Reads(c) \/ Closes(c)
       \/ Claims(c) \/ HelloFails(c) \/ Welcomes(c) \/ WelcomeFails(c)
       \/ Releases(c) \/ ForwardsEvent(c) \/ Pumps(c)
  \/ SessionComesOrGoes \/ Asks \/ SendsQuestion \/ NobodyThere \/ Deadline
  \/ ServesCommand

Spec == Init /\ [][Next]_vars

(***************************************************************************)
(* Fairness: the runtime runs every task, select! starves no ready arm for *)
(* ever, and sessions start again.  Applications read; the deadline passes  *)
(* where a property says so, and nothing else is asked of anyone.          *)
(***************************************************************************)
Served ==
  /\ \A c \in Conns :
       /\ WF_vars(Claims(c)) /\ WF_vars(Welcomes(c) \/ WelcomeFails(c))
       /\ WF_vars(Releases(c))
       /\ SF_vars(SendsCommand(c))
       /\ WF_vars(Writes(c) \/ WriteFails(c))
       /\ SF_vars(ReadsFrame(c)) /\ SF_vars(TakesQuestion(c))
       /\ SF_vars(EndOfInput(c))
  /\ WF_vars(loop = "away" /\ SessionComesOrGoes)
  /\ WF_vars(SendsQuestion) /\ WF_vars(NobodyThere)
  /\ SF_vars(ServesCommand)

\* Every application reads what it is sent.
LiveSpec == Spec /\ Served /\ \A c \in Conns : WF_vars(Reads(c))
-----------------------------------------------------------------------------
(* Properties                                                              *)

\* At most one connection decides for the device, and it is the one in the
\* slot, from its claim to the end of its pump (Ipc::serve).
OneController == \A c \in Conns : Listening(c) => slot = c

\* The answer that decides a question was given to that question: never a late
\* one, to a question that has timed out (Ipc::ask, outstanding in Ipc::pump).
AnswersOwnQuestion == verdict # 0 => verdict = asked

\* A pump waits for the outcome of mark_valid exactly as long as the command that
\* will tell it waits for the loop: none is dropped or served twice
\* (Ipc::handle_method, and the session loop's Command::MarkValid).
CallersAreHeard ==
  \A c \in Conns :
    stage[c] = "reply" <=>
      \E i \in 1..Len(commands) :
        commands[i] = [kind |-> "mark_valid", from |-> c]

\* While the loop waits on a controller that listens, its question is in the
\* channel or its reply is kept: no answer to another question, and no question
\* that expired, takes that reply away (outstanding in Ipc::pump).
ReplyIsKept ==
  loop = "waiting" /\ Listening(target) =>
    \/ \E i \in 1..Len(queue[target]) : queue[target][i] = asked
    \/ \E entry \in outstanding[target] : entry.about = asked

\* Whoever waits, a caller for its outcome or the loop for an answer, waits for
\* something that is still under way.
NoWaitIsOrphaned == CallersAreHeard /\ ReplyIsKept

\* Nothing that c sent keeps its pump from noticing the end of its input.
NothingToServe(c) ==
  /\ stage[c] \notin {"command", "reply"}
  /\ \A i \in 1..Len(inbox[c]) :
       inbox[c][i].kind \notin {"mark_valid", "reboot"}

\* A controller that goes away ends the question it was asked, without the
\* deadline, unless it left a command to be served first (docs/ipc.md,
\* "disconnecting mid-request"; EOF in Ipc::pump drops the outstanding replies).
DisconnectResolves ==
  \A c \in Conns :
    (loop = "waiting" /\ target = c /\ ~peer[c] /\ NothingToServe(c))
      ~> loop # "waiting"

\* As long as deadlines pass, every question the agent asks comes to an end
\* (Ipc::ask; docs/ipc.md, "has a deadline").
QuestionsEnd ==
  WF_vars(Deadline) =>
    (loop \in {"sending", "waiting"} ~> loop \in {"serving", "away"})

\* As long as deadlines pass, an application that called mark_valid is told
\* what came of it, or is gone (Ipc::handle_method and the session loop).
CallsReturn ==
  WF_vars(Deadline) =>
    \A c \in Conns :
      stage[c] \in {"command", "reply"} ~> stage[c] \in {"write", "free"}
=============================================================================
