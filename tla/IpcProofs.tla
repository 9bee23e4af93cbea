----------------------------- MODULE IpcProofs -----------------------------
(***************************************************************************)
(* Proofs about Ipc, for any number of connections and any capacities: no  *)
(* two connections ever decide for the device, the state keeps its types   *)
(* and its bounds, the answer that decides a question was given to it, and *)
(* whoever waits, waits for something that is under way.                   *)
(***************************************************************************)
EXTENDS Ipc, TLAPS

Stages == {"free", "hello", "welcome", "select", "write", "command", "reply",
           "ended"}

Commands == [kind : {"mark_valid", "reboot"}, from : Conns]

Shapes ==
  /\ stage \in [Conns -> Stages]
  /\ role \in [Conns -> {"observer", "controller"}]
  /\ commands \in Seq(Commands)

\* A controller that was let in, until its task is over, has the slot.
Held(c) == role[c] = "controller" /\ stage[c] \notin {"free", "hello"}
SlotIsHeld == \A c \in Conns : Held(c) => slot = c

\* A mark_valid that waits is that of a connection that waits for it, and of
\* no connection are there two.
Waits(i) == commands[i].kind = "mark_valid"

CallersWait ==
  /\ \A i \in 1..Len(commands) : Waits(i) => stage[commands[i].from] = "reply"
  /\ \A i, j \in 1..Len(commands) :
       Waits(i) /\ Waits(j) /\ commands[i].from = commands[j].from => i = j

\* The inductive invariant.
IInv == Shapes /\ SlotIsHeld /\ CallersWait

LEMMA TailOf ==
  ASSUME NEW S, NEW s \in Seq(S), s # <<>>
  PROVE  /\ Head(s) = s[1] /\ Tail(s) \in Seq(S) /\ Len(Tail(s)) = Len(s) - 1
         /\ Len(s) \in Nat /\ Len(s) >= 1
         /\ \A i \in 1..Len(s) : s[i] \in S
         /\ \A i \in 1..(Len(s) - 1) : Tail(s)[i] = s[i + 1]
OBVIOUS

LEMMA AppendTo ==
  ASSUME NEW S, NEW s \in Seq(S), NEW e \in S
  PROVE  /\ Append(s, e) \in Seq(S) /\ Len(s) \in Nat
         /\ Len(Append(s, e)) = Len(s) + 1
         /\ \A i \in 1..Len(s) : s[i] \in S /\ Append(s, e)[i] = s[i]
         /\ Append(s, e)[Len(s) + 1] = e
OBVIOUS

\* A task that neither comes from its hello nor goes to a reply, and is not
\* waiting for one, moves without disturbing anything.
LEMMA MoveKeeps ==
  ASSUME IInv, NEW c \in Conns, NEW s \in Stages, Goto(c, s),
         stage[c] \notin {"free", "hello", "reply"} \/ s \in {"free", "hello"},
         stage[c] # "reply", s # "reply",
         UNCHANGED <<role, slot, commands>>
  PROVE  IInv'
<1> USE DEF IInv, Shapes, Goto
<1>1. Shapes'
  OBVIOUS
<1>2. SlotIsHeld'
  BY DEF SlotIsHeld, Held
<1>3. CallersWait'
  BY DEF CallersWait, Waits
<1> QED
  BY <1>1, <1>2, <1>3

LEMMA StayKeeps ==
  ASSUME IInv, UNCHANGED <<stage, role, slot, commands>> PROVE IInv'
BY DEF IInv, Shapes, SlotIsHeld, Held, CallersWait, Waits

LEMMA InitInv == Init => IInv
BY DEF Init, IInv, Shapes, Stages, SlotIsHeld, Held, CallersWait

LEMMA ConnectsKeeps ==
  ASSUME IInv, NEW c \in Conns, NEW r \in {"observer", "controller"},
         Connects(c, r)
  PROVE  IInv'
<1>1. /\ stage[c] = "free" /\ stage' = [stage EXCEPT ![c] = "hello"]
      /\ role' = [role EXCEPT ![c] = r] /\ UNCHANGED <<slot, commands>>
  BY DEF Connects, Goto
<1>2. Shapes'
  BY <1>1 DEF IInv, Shapes, Stages
<1>3. SlotIsHeld'
  BY <1>1 DEF IInv, Shapes, SlotIsHeld, Held
<1>4. CallersWait'
  BY <1>1 DEF IInv, Shapes, CallersWait, Waits
<1> QED
  BY <1>2, <1>3, <1>4 DEF IInv

LEMMA ClaimsKeeps == ASSUME IInv, NEW c \in Conns, Claims(c) PROVE IInv'
<1> USE DEF IInv
<1>1. CASE role[c] = "controller" /\ slot # None
  BY <1>1, MoveKeeps DEF Claims, Gone, Stages
<1>2. CASE ~(role[c] = "controller" /\ slot # None)
  <2>1. /\ stage[c] = "hello" /\ stage' = [stage EXCEPT ![c] = "welcome"]
        /\ slot' = IF role[c] = "controller" THEN c ELSE slot
        /\ UNCHANGED <<role, commands>>
    BY <1>2 DEF Claims, Goto
  <2>2. Shapes'
    BY <2>1 DEF Shapes, Stages
  <2>3. SlotIsHeld'
    <3>1. CASE role[c] = "controller"
      <4>1. slot = None
        BY <1>2, <3>1
      <4>2. \A d \in Conns : ~Held(d)
        BY <4>1, IpcAssumption DEF SlotIsHeld
      <4> QED
        BY <2>1, <3>1, <4>2 DEF Shapes, SlotIsHeld, Held
    <3>2. CASE role[c] # "controller"
      BY <2>1, <3>2 DEF Shapes, SlotIsHeld, Held
    <3> QED
      BY <3>1, <3>2
  <2>4. CallersWait'
    BY <2>1 DEF Shapes, CallersWait, Waits
  <2> QED
    BY <2>2, <2>3, <2>4
<1> QED
  BY <1>1, <1>2

LEMMA ReleasesKeeps == ASSUME IInv, NEW c \in Conns, Releases(c) PROVE IInv'
<1> USE DEF IInv
<1>1. /\ stage[c] = "ended" /\ stage' = [stage EXCEPT ![c] = "free"]
      /\ slot' = IF role[c] = "controller" THEN None ELSE slot
      /\ UNCHANGED <<role, commands>>
  BY DEF Releases, Gone, Goto
<1>2. Shapes'
  BY <1>1 DEF Shapes, Stages
<1>3. SlotIsHeld'
  <2>1. ASSUME NEW d \in Conns, Held(d)' PROVE slot' = d
    <3>1. d # c /\ Held(d)
      BY <1>1, <2>1 DEF Shapes, Held
    <3>2. slot = d
      BY <3>1 DEF SlotIsHeld
    <3>3. role[c] # "controller"
      BY <1>1, <3>1, <3>2 DEF SlotIsHeld, Held
    <3> QED
      BY <1>1, <3>2, <3>3
  <2> QED
    BY <2>1 DEF SlotIsHeld
<1>4. CallersWait'
  BY <1>1 DEF Shapes, CallersWait, Waits
<1> QED
  BY <1>2, <1>3, <1>4

LEMMA SendsCommandKeeps ==
  ASSUME IInv, NEW c \in Conns, SendsCommand(c) PROVE IInv'
<1> USE DEF IInv
<1>1. PICK kind \in {"mark_valid", "reboot"} :
        /\ commands' = Append(commands, [kind |-> kind, from |-> c])
        /\ \/ kind = "mark_valid" /\ stage' = [stage EXCEPT ![c] = "reply"]
           \/ kind = "reboot" /\ stage' = [stage EXCEPT ![c] = "write"]
  BY DEF SendsCommand, Goto
<1>2. stage[c] = "command" /\ UNCHANGED <<role, slot>>
  BY DEF SendsCommand
<1> DEFINE command == [kind |-> kind, from |-> c]
<1>a. command \in Commands /\ command.kind = kind /\ command.from = c
  BY DEF Commands
<1>b. commands \in Seq(Commands)
  BY DEF Shapes
<1>c. /\ commands' \in Seq(Commands) /\ Len(commands) \in Nat
      /\ Len(commands') = Len(commands) + 1
      /\ \A i \in 1..Len(commands) :
           commands[i] \in Commands /\ commands'[i] = commands[i]
      /\ commands'[Len(commands) + 1] = command
  <2> HIDE DEF command
  <2> QED
    BY <1>1, <1>a, <1>b, AppendTo DEF command
<1>3. Shapes'
  BY <1>1, <1>2, <1>c DEF Shapes, Stages
<1>4. SlotIsHeld'
  BY <1>1, <1>2 DEF Shapes, SlotIsHeld, Held
<1>5. CallersWait'
  <2> DEFINE n == Len(commands)
  <2>1. /\ n \in Nat /\ Len(commands') = n + 1
        /\ \A i \in 1..n : commands'[i] = commands[i]
        /\ commands'[n + 1].kind = kind /\ commands'[n + 1].from = c
    BY <1>a, <1>c
  <2>2. \A i \in 1..n : Waits(i) => commands[i].from # c
    BY <1>2 DEF CallersWait
  <2>3. \A i \in 1..n : commands[i].from \in Conns
    BY <1>c DEF Commands
  <2>4. \A i \in 1..(n + 1) : Waits(i)' => stage'[commands'[i].from] = "reply"
    <3> TAKE i \in 1..(n + 1)
    <3>1. CASE i \in 1..n
      BY <1>1, <2>1, <2>2, <2>3, <3>1 DEF CallersWait, Waits, Shapes
    <3>2. CASE i = n + 1
      BY <1>1, <2>1, <3>2 DEF Waits, Shapes
    <3> QED
      BY <2>1, <3>1, <3>2
  <2>5. \A i, j \in 1..(n + 1) :
          Waits(i)' /\ Waits(j)' /\ commands'[i].from = commands'[j].from => i = j
    BY <2>1, <2>2 DEF CallersWait, Waits
  <2> QED
    BY <2>1, <2>4, <2>5 DEF CallersWait
<1> QED
  BY <1>3, <1>4, <1>5

LEMMA ServesCommandKeeps == ASSUME IInv, ServesCommand PROVE IInv'
<1> USE DEF IInv
<1> DEFINE command == Head(commands)
<1>1. /\ commands # <<>> /\ commands' = Tail(commands)
      /\ UNCHANGED <<role, slot>>
      /\ \/ command.kind = "mark_valid" /\ Goto(command.from, "write")
         \/ command.kind = "reboot" /\ UNCHANGED stage
  BY DEF ServesCommand
<1>b. commands \in Seq(Commands)
  BY DEF Shapes
<1>2. /\ command = commands[1] /\ Len(commands) \in Nat /\ Len(commands) >= 1
      /\ Len(commands') = Len(commands) - 1
      /\ \A i \in 1..Len(commands) : commands[i] \in Commands
      /\ \A i \in 1..(Len(commands) - 1) : commands'[i] = commands[i + 1]
      /\ commands' \in Seq(Commands)
  BY <1>1, <1>b, TailOf
<1>c. /\ 1 \in 1..Len(commands)
      /\ \A i \in 1..Len(commands') :
           /\ i + 1 \in 1..Len(commands) /\ i + 1 # 1
           /\ commands'[i] = commands[i + 1]
  BY <1>2
<1>d. command.from \in Conns
  BY <1>2, <1>c DEF Commands
<1>3. \A i \in 1..Len(commands') :
        Waits(i)' => /\ commands'[i].from \in Conns
                     /\ stage[commands'[i].from] = "reply"
                     /\ command.kind = "mark_valid"
                          => commands'[i].from # command.from
  <2> TAKE i \in 1..Len(commands')
  <2>1. i + 1 \in 1..Len(commands) /\ commands'[i] = commands[i + 1] /\ i + 1 # 1
    BY <1>c
  <2> DEFINE k == i + 1
  <2>2. k \in 1..Len(commands) /\ commands'[i] = commands[k] /\ k # 1
    BY <2>1
  <2> HIDE DEF k
  <2>3. commands[k].from \in Conns
    BY <1>2, <2>2 DEF Commands
  <2>4. commands[k].kind = "mark_valid" => stage[commands[k].from] = "reply"
    BY <2>2 DEF CallersWait, Waits
  <2>5. commands[k].kind = "mark_valid" /\ command.kind = "mark_valid"
          => commands[k].from # command.from
    BY <1>2, <1>c, <2>2 DEF CallersWait, Waits
  <2> QED
    BY <2>2, <2>3, <2>4, <2>5 DEF Waits
<1>4. \A i, j \in 1..Len(commands') :
        Waits(i)' /\ Waits(j)' /\ commands'[i].from = commands'[j].from => i = j
  <2> TAKE i, j \in 1..Len(commands')
  <2>1. /\ i + 1 \in 1..Len(commands) /\ j + 1 \in 1..Len(commands)
        /\ commands'[i] = commands[i + 1] /\ commands'[j] = commands[j + 1]
    BY <1>c
  <2>2. ASSUME Waits(i)', Waits(j)', commands'[i].from = commands'[j].from
        PROVE  i + 1 = j + 1
    BY <2>1, <2>2 DEF CallersWait, Waits
  <2> QED
    BY <2>1, <2>2
<1>5. CASE command.kind = "mark_valid" /\ Goto(command.from, "write")
  <2>1. stage[command.from] = "reply"
    BY <1>2, <1>c, <1>5 DEF CallersWait, Waits
  <2>2. Shapes'
    BY <1>1, <1>2, <1>d, <1>5 DEF Shapes, Stages, Goto
  <2>3. SlotIsHeld'
    BY <1>1, <1>2, <1>d, <1>5, <2>1 DEF Shapes, SlotIsHeld, Held, Goto
  <2>4. CallersWait'
    BY <1>3, <1>4, <1>d, <1>5 DEF CallersWait, Goto, Shapes
  <2> QED
    BY <2>2, <2>3, <2>4
<1>6. CASE UNCHANGED stage
  BY <1>1, <1>2, <1>3, <1>4, <1>6 DEF Shapes, SlotIsHeld, Held, CallersWait
<1> QED
  BY <1>1, <1>5, <1>6

LEMMA NextInv == IInv /\ [Next]_vars => IInv'
<1> SUFFICES ASSUME IInv, [Next]_vars PROVE IInv'
  OBVIOUS
<1>1. ASSUME NEW c \in Conns, NEW r \in {"observer", "controller"},
             Connects(c, r)
      PROVE  IInv'
  BY <1>1, ConnectsKeeps
<1>2. ASSUME NEW c \in Conns,
             \/ \E m \in {"status", "mark_valid", "reboot"} : Calls(c, m)
             \/ AnswersQuestion(c) \/ Reads(c) \/ Closes(c)
      PROVE  IInv'
  BY <1>2, StayKeeps DEF Calls, AnswersQuestion, Reads, Closes, pump
<1>3. ASSUME NEW c \in Conns, Claims(c) PROVE IInv'
  BY <1>3, ClaimsKeeps
<1>4. ASSUME NEW c \in Conns, HelloFails(c) \/ Welcomes(c) \/ WelcomeFails(c)
      PROVE  IInv'
  BY <1>4, MoveKeeps DEF HelloFails, Welcomes, WelcomeFails, Gone, Stages
<1>5. ASSUME NEW c \in Conns, Releases(c) PROVE IInv'
  BY <1>5, ReleasesKeeps
<1>6. ASSUME NEW c \in Conns, ForwardsEvent(c) \/ TakesQuestion(c) PROVE IInv'
  BY <1>6, MoveKeeps DEF ForwardsEvent, TakesQuestion, Write, Stages
<1>7. ASSUME NEW c \in Conns, ReadsFrame(c) PROVE IInv'
  <2>1. /\ stage[c] = "select" /\ UNCHANGED <<role, slot, commands>>
        /\ UNCHANGED stage \/ Goto(c, "write") \/ Goto(c, "command")
    BY <1>7 DEF ReadsFrame, Write
  <2> QED
    BY <2>1, StayKeeps, MoveKeeps DEF Stages
<1>8. ASSUME NEW c \in Conns, SendsCommand(c) PROVE IInv'
  BY <1>8, SendsCommandKeeps
<1>9. ASSUME NEW c \in Conns, Writes(c) \/ WriteFails(c) \/ EndOfInput(c)
      PROVE  IInv'
  BY <1>9, MoveKeeps DEF Writes, WriteFails, EndOfInput, EndPump, Stages
<1>10. CASE \/ SessionComesOrGoes \/ Asks \/ SendsQuestion \/ NobodyThere
            \/ Deadline \/ UNCHANGED vars
  BY <1>10, StayKeeps DEF SessionComesOrGoes, Asks, SendsQuestion, NobodyThere,
                          Deadline, GivesUp, pump, vars
<1>11. CASE ServesCommand
  BY <1>11, ServesCommandKeeps
<1> QED
  BY <1>1, <1>2, <1>3, <1>4, <1>5, <1>6, <1>7, <1>8, <1>9, <1>10, <1>11
     DEF Next, Pumps

\* At most one connection decides for the device, from its claim of the slot
\* to the end of its pump (Ipc::serve).
THEOREM OneDecides == Spec => []OneController
<1>1. IInv => OneController
  BY DEF IInv, SlotIsHeld, Held, Listening, OneController
<1> QED
  BY <1>1, InitInv, NextInv, PTL DEF Spec
-----------------------------------------------------------------------------
(* Types                                                                   *)

Inputs == {Answer(f) : f \in Frames}
          \cup {Call(m) : m \in {"status", "mark_valid", "reboot"}}

\* What a queue holds.
Elems(s) == {s[i] : i \in 1..Len(s)}

Queues ==
  /\ inbox \in [Conns -> Seq(Inputs)]
  /\ unread \in [Conns -> Seq(Frames)]
  /\ queue \in [Conns -> Seq(Questions)]

Places ==
  /\ stage \in [Conns -> Stages]
  /\ role \in [Conns -> {"observer", "controller"}]
  /\ peer \in [Conns -> BOOLEAN]
  /\ known \in [Conns -> SUBSET Frames]
  /\ writing \in [Conns -> Frames]
  /\ nextId \in [Conns -> Nat]
  /\ outstanding \in [Conns -> SUBSET Frames]

Loop ==
  /\ slot \in Conns \cup {None}
  /\ commands \in Seq(Commands) /\ Len(commands) <= CommandQueue
  /\ loop \in {"away", "serving", "sending", "waiting"}
  /\ asked \in 0..MaxQuestions
  /\ loop = "sending" => asked > 0 /\ target \in Conns
  /\ target \in Conns \cup {None}
  /\ verdict \in 0..MaxQuestions

\* The question that is being sent to c.
OnTheWay(c) == IF loop = "sending" /\ target = c THEN 1 ELSE 0

\* Buffers keep their bounds, nothing is written before the welcome, and no
\* more ids are given than there were questions.
Bounded(c) ==
  /\ Len(unread[c]) <= SocketBuffer
  /\ Len(queue[c]) <= SlotQueue
  /\ stage[c] \in {"free", "hello", "welcome"} => unread[c] = <<>>
  /\ nextId[c] + Len(queue[c]) + OnTheWay(c) <= asked

\* A command stays in its connection's inbox until there is room for it.
Holding(c) == stage[c] = "command" => inbox[c] # <<>>

Typed ==
  /\ Queues /\ Places /\ Loop
  /\ \A c \in Conns : Bounded(c) /\ Holding(c)

LEMMA Pushed ==
  ASSUME NEW S, NEW f \in [Conns -> Seq(S)], NEW c \in Conns, NEW e \in S,
         NEW g, g = [f EXCEPT ![c] = Append(@, e)]
  PROVE  /\ g \in [Conns -> Seq(S)]
         /\ Len(f[c]) \in Nat /\ Len(g[c]) = Len(f[c]) + 1
          /\ \A d \in Conns : d # c => g[d] = f[d]
<1>1. f[c] \in Seq(S) /\ g[c] = Append(f[c], e)
  OBVIOUS
<1>2. /\ g[c] \in Seq(S) /\ Len(f[c]) \in Nat /\ Len(g[c]) = Len(f[c]) + 1
      /\ \A i \in 1..Len(f[c]) : g[c][i] = f[c][i]
      /\ g[c][Len(f[c]) + 1] = e
  BY <1>1, AppendTo
<1> QED
  BY <1>2

LEMMA Popped ==
  ASSUME NEW S, NEW f \in [Conns -> Seq(S)], NEW c \in Conns, f[c] # <<>>,
         NEW g, g = [f EXCEPT ![c] = Tail(@)]
  PROVE  /\ g \in [Conns -> Seq(S)]
         /\ Len(f[c]) \in Nat /\ Len(g[c]) = Len(f[c]) - 1 /\ Len(g[c]) \in Nat
         /\ Head(f[c]) \in S
         /\ \A d \in Conns : d # c => g[d] = f[d]
<1>1. f[c] \in Seq(S) /\ g[c] = Tail(f[c])
  OBVIOUS
<1>2. /\ g[c] \in Seq(S) /\ Len(f[c]) \in Nat /\ Len(f[c]) >= 1
      /\ Len(g[c]) = Len(f[c]) - 1 /\ Head(f[c]) = f[c][1]
      /\ \A i \in 1..Len(f[c]) : f[c][i] \in S
      /\ \A i \in 1..(Len(f[c]) - 1) : g[c][i] = f[c][i + 1]
  BY <1>1, TailOf
<1>3. 1 \in 1..Len(f[c])
  BY <1>2
<1> QED
  BY <1>2, <1>3

LEMMA Emptied ==
  ASSUME NEW S, NEW f \in [Conns -> Seq(S)], NEW c \in Conns,
         NEW g, g = [f EXCEPT ![c] = <<>>]
  PROVE  /\ g \in [Conns -> Seq(S)] /\ g[c] = <<>> /\ Len(g[c]) = 0
         /\ Elems(g[c]) = {}
         /\ \A d \in Conns : d # c => g[d] = f[d]
<1>1. <<>> \in Seq(S) /\ Len(<<>>) = 0
  OBVIOUS
<1> QED
  BY <1>1 DEF Elems

LEMMA TypedIsTypeOK == Typed => TypeOK
<1> SUFFICES ASSUME Typed PROVE TypeOK
  OBVIOUS
<1>1. nextId \in [Conns -> 0..MaxQuestions]
  <2> SUFFICES ASSUME NEW c \in Conns PROVE nextId[c] \in 0..MaxQuestions
    BY DEF Typed, Places
  <2>1. Len(queue[c]) \in Nat /\ OnTheWay(c) \in Nat /\ nextId[c] \in Nat
        /\ asked \in Nat /\ asked <= MaxQuestions /\ MaxQuestions \in Nat
    BY IpcAssumption DEF Typed, Queues, Places, Loop, OnTheWay
  <2> QED
    BY <2>1 DEF Typed, Bounded
<1>2. \A c \in Conns :
        /\ \A i \in 1..Len(inbox[c]) : inbox[c][i] \in Inputs
        /\ unread[c] \in Seq(Frames) /\ Len(unread[c]) <= SocketBuffer
        /\ queue[c] \in Seq(Questions) /\ Len(queue[c]) <= SlotQueue
  BY DEF Typed, Queues, Bounded
<1> QED
  BY <1>1, <1>2 DEF TypeOK, Typed, Places, Loop, Stages, Commands, Inputs

LEMMA ReplyTyped == Reply \in Frames /\ \A m \in {"status", "mark_valid", "reboot"} :
                                          Call(m) \in Inputs /\ Call(m).request = Reply
BY IpcAssumption DEF Reply, Frames, Inputs, Call

LEMMA InitTyped == Init => Typed
<1> SUFFICES ASSUME Init PROVE Typed
  OBVIOUS
<1>1. Queues
  BY DEF Init, Queues
<1>2. Places
  BY ReplyTyped DEF Init, Places, Stages
<1>3. Loop
  BY IpcAssumption DEF Init, Loop
<1>4. ASSUME NEW c \in Conns PROVE Bounded(c) /\ Holding(c)
  BY IpcAssumption DEF Init, Bounded, OnTheWay, Holding
<1> QED
  BY <1>1, <1>2, <1>3, <1>4 DEF Typed

\* A connection whose buffers stay, while the loop sends nothing new.
LEMMA BoundsStay ==
  ASSUME NEW c \in Conns, Bounded(c),
         UNCHANGED <<unread[c], queue[c], nextId[c], loop, target, asked>>,
         stage'[c] \in {"free", "hello", "welcome"} => unread[c] = <<>>
  PROVE  Bounded(c)'
BY DEF Bounded, OnTheWay

\* One that drops what it buffers.
LEMMA BoundsDropped ==
  ASSUME Typed, NEW c \in Conns, unread'[c] = <<>>,
         queue'[c] = queue[c] \/ queue'[c] = <<>>,
         nextId'[c] = nextId[c],
         UNCHANGED <<loop, target, asked>>
  PROVE  Bounded(c)'
<1>1. /\ Bounded(c) /\ Len(queue[c]) \in Nat /\ nextId[c] \in Nat /\ asked \in Nat
      /\ OnTheWay(c)' = OnTheWay(c) /\ OnTheWay(c) \in Nat
      /\ SlotQueue \in Nat /\ SocketBuffer \in Nat
  BY IpcAssumption DEF Typed, Queues, Places, Loop, OnTheWay
<1>2. Len(<<>>) = 0
  OBVIOUS
<1> QED
  BY <1>1, <1>2 DEF Bounded

\* What applications do to their connection.
LEMMA AppTyped ==
  ASSUME Typed, NEW c \in Conns,
         \/ \E r \in {"observer", "controller"} : Connects(c, r)
         \/ \E m \in {"status", "mark_valid", "reboot"} : Calls(c, m)
         \/ AnswersQuestion(c) \/ Reads(c) \/ Closes(c)
  PROVE  Typed'
<1> USE DEF Typed
<1>1. Loop' /\ UNCHANGED <<queue, nextId, loop, target, asked>>
  BY DEF Loop, Connects, Calls, AnswersQuestion, Reads, Closes, pump, asks
<1>2. ASSUME NEW r \in {"observer", "controller"}, Connects(c, r)
      PROVE  Typed'
  <2>1. /\ stage[c] = "free" /\ stage' = [stage EXCEPT ![c] = "hello"]
        /\ UNCHANGED <<inbox, unread, queue>>
    BY <1>2 DEF Connects, Goto
  <2>2. Queues' /\ Places'
    BY <1>2, <2>1 DEF Connects, Queues, Places, Stages
  <2>3. ASSUME NEW d \in Conns PROVE Bounded(d)'
    <3>1. stage'[d] \in {"free", "hello", "welcome"} => unread[d] = <<>>
      BY <2>1 DEF Bounded, Places
    <3> QED
      BY <1>1, <2>1, <3>1, BoundsStay
  <2>4. ASSUME NEW d \in Conns PROVE Holding(d)'
    BY <2>1 DEF Holding, Places
  <2> QED
    BY <1>1, <2>2, <2>3, <2>4
<1>3. ASSUME NEW frame \in Inputs, Sends(c, frame),
             UNCHANGED <<peer, unread, known, pump>>
      PROVE  Typed'
  <2>1. /\ inbox' \in [Conns -> Seq(Inputs)]
        /\ \A d \in Conns : inbox[d] # <<>> => inbox'[d] # <<>>
    <3>1. inbox' = [inbox EXCEPT ![c] = Append(@, frame)]
      BY <1>3 DEF Sends
    <3>2. /\ inbox' \in [Conns -> Seq(Inputs)]
          /\ Len(inbox[c]) \in Nat /\ Len(inbox'[c]) = Len(inbox[c]) + 1
          /\ \A d \in Conns : d # c => inbox'[d] = inbox[d]
      BY <3>1, Pushed DEF Queues
    <3>3. Len(inbox'[c]) # 0 /\ Len(<<>>) = 0
      BY <3>2
    <3>4. inbox'[c] # <<>>
      BY <3>3
    <3> QED
      BY <3>2, <3>4
  <2>2. Queues' /\ Places'
    BY <1>3, <2>1 DEF pump, Queues, Places
  <2>3. ASSUME NEW d \in Conns PROVE Bounded(d)'
    BY <1>1, <1>3, BoundsStay DEF pump, Bounded
  <2>4. ASSUME NEW d \in Conns PROVE Holding(d)'
    BY <1>3, <2>1 DEF pump, Holding
  <2> QED
    BY <1>1, <2>2, <2>3, <2>4
<1>4. CASE \E m \in {"status", "mark_valid", "reboot"} : Calls(c, m)
  BY <1>3, <1>4, ReplyTyped DEF Calls, Places
<1>5. CASE AnswersQuestion(c)
  <2>1. PICK request \in known[c] :
          /\ Sends(c, Answer(request))
          /\ UNCHANGED <<peer, unread, known, pump>>
    BY <1>5 DEF AnswersQuestion
  <2>2. request \in Frames /\ Answer(request) \in Inputs
    BY <2>1 DEF Places, Inputs
  <2> QED
    BY <1>3, <2>1, <2>2
<1>6. CASE Reads(c) \/ Closes(c)
  <2>1. /\ unread' \in [Conns -> Seq(Frames)]
        /\ Len(unread[c]) \in Nat /\ Len(unread'[c]) \in Nat
        /\ Len(unread'[c]) <= Len(unread[c])
        /\ unread[c] = <<>> => unread'[c] = <<>>
        /\ \A d \in Conns : d # c => unread'[d] = unread[d]
    <3>1. CASE Reads(c)
      <4>1. unread[c] # <<>> /\ unread' = [unread EXCEPT ![c] = Tail(@)]
        BY <3>1 DEF Reads
      <4> QED
        BY <4>1, Popped DEF Queues
    <3>2. CASE Closes(c)
      <4>1. unread' = [unread EXCEPT ![c] = <<>>]
        BY <3>2 DEF Closes
      <4>2. unread[c] \in Seq(Frames)
        BY DEF Queues
      <4>3. Len(unread[c]) \in Nat
        BY <4>2
      <4>4. unread \in [Conns -> Seq(Frames)]
        BY DEF Queues
      <4> QED
        BY <4>1, <4>3, <4>4, Emptied
    <3> QED
      BY <1>6, <3>1, <3>2
  <2>2. known' \in [Conns -> SUBSET Frames] /\ peer' \in [Conns -> BOOLEAN]
        /\ UNCHANGED <<inbox, pump>>
    <3>1. CASE Reads(c)
      <4>1. Head(unread[c]) \in Frames
        <5>1. unread[c] # <<>> /\ unread' = [unread EXCEPT ![c] = Tail(@)]
          BY <3>1 DEF Reads
        <5> QED
          BY <5>1, Popped DEF Queues
      <4> QED
        BY <3>1, <4>1 DEF Reads, Places
    <3>2. CASE Closes(c)
      BY <3>2 DEF Closes, Places
    <3> QED
      BY <1>6, <3>1, <3>2
  <2>3. Queues' /\ Places'
    BY <2>1, <2>2 DEF pump, Queues, Places
  <2>4. ASSUME NEW d \in Conns PROVE Bounded(d)'
    <3>1. Bounded(d) /\ UNCHANGED <<stage, OnTheWay(d)>>
      BY <1>1, <2>2 DEF pump, OnTheWay
    <3>2. CASE d = c
      <4>1. Len(unread'[c]) <= SocketBuffer
        BY <2>1, <3>1, <3>2, IpcAssumption DEF Bounded
      <4> QED
        BY <1>1, <2>1, <3>1, <3>2, <4>1 DEF Bounded
    <3>3. CASE d # c
      BY <1>1, <2>1, <3>1, <3>3, BoundsStay DEF Bounded
    <3> QED
      BY <3>2, <3>3
  <2>5. ASSUME NEW d \in Conns PROVE Holding(d)'
    BY <2>2 DEF pump, Holding
  <2> QED
    BY <1>1, <2>3, <2>4, <2>5
<1> QED
  BY <1>2, <1>4, <1>5, <1>6

\* A task that is over.
LEMMA GoneTyped ==
  ASSUME Typed, Loop', NEW c \in Conns, Gone(c),
         queue' = queue \/ queue' = [queue EXCEPT ![c] = <<>>],
         UNCHANGED <<role, writing, nextId, outstanding, loop, target, asked>>
  PROVE  Typed'
<1> USE DEF Typed
<1>1. /\ unread' \in [Conns -> Seq(Frames)] /\ unread'[c] = <<>>
      /\ \A d \in Conns : d # c => unread'[d] = unread[d]
  <2>1. unread' = [unread EXCEPT ![c] = <<>>]
    BY DEF Gone
  <2> QED
    BY <2>1, Emptied DEF Queues
<1>2. /\ inbox' \in [Conns -> Seq(Inputs)]
      /\ \A d \in Conns : d # c => inbox'[d] = inbox[d]
  <2>1. inbox' = [inbox EXCEPT ![c] = <<>>]
    BY DEF Gone
  <2> QED
    BY <2>1, Emptied DEF Queues
<1>3. /\ queue' \in [Conns -> Seq(Questions)]
      /\ queue'[c] = queue[c] \/ queue'[c] = <<>>
      /\ \A d \in Conns : d # c => queue'[d] = queue[d]
  BY Emptied DEF Queues
<1>4. Queues' /\ Places'
  BY <1>1, <1>2, <1>3 DEF Gone, Goto, Queues, Places, Stages
<1>5. ASSUME NEW d \in Conns PROVE Bounded(d)'
  <2>1. CASE d = c
    BY <1>1, <1>3, <2>1, BoundsDropped
  <2>2. CASE d # c
    <3>1. stage'[d] = stage[d]
      BY <2>2 DEF Gone, Goto, Places
    <3> QED
      BY <1>1, <1>3, <2>2, <3>1, BoundsStay DEF Bounded
  <2> QED
    BY <2>1, <2>2
<1>6. ASSUME NEW d \in Conns PROVE Holding(d)'
  BY <1>2 DEF Gone, Goto, Places, Holding
<1> QED
  BY <1>4, <1>5, <1>6

LEMMA ServeTyped ==
  ASSUME Typed, NEW c \in Conns,
         Claims(c) \/ HelloFails(c) \/ Welcomes(c) \/ WelcomeFails(c) \/ Releases(c)
  PROVE  Typed'
<1> USE DEF Typed
<1>1. /\ slot' \in Conns \cup {None}
      /\ UNCHANGED <<role, writing, nextId, outstanding, commands, asks>>
  BY DEF Claims, HelloFails, Welcomes, WelcomeFails, Releases, Loop
<1>2. Loop' /\ UNCHANGED <<role, writing, nextId, outstanding, loop, target, asked>>
  BY <1>1 DEF Loop, asks
<1>3. CASE Gone(c) /\ (queue' = queue \/ queue' = [queue EXCEPT ![c] = <<>>])
  BY <1>2, <1>3, GoneTyped
<1>4. CASE stage[c] = "hello" /\ Goto(c, "welcome") /\ UNCHANGED <<app, queue>>
  <2>1. Queues' /\ Places'
    BY <1>2, <1>4 DEF app, Goto, Queues, Places, Stages
  <2>2. ASSUME NEW d \in Conns PROVE Bounded(d)'
    <3>1. stage'[d] \in {"free", "hello", "welcome"} => unread[d] = <<>>
      BY <1>4 DEF Goto, Bounded, Places
    <3> QED
      BY <1>2, <1>4, <3>1, BoundsStay DEF app
  <2>3. ASSUME NEW d \in Conns PROVE Holding(d)'
    BY <1>4 DEF app, Goto, Places, Holding
  <2> QED
    BY <1>2, <2>1, <2>2, <2>3
<1>5. CASE Welcomes(c)
  <2>1. /\ stage[c] = "welcome" /\ stage' = [stage EXCEPT ![c] = "select"]
        /\ unread' = [unread EXCEPT ![c] = Append(@, Reply)]
        /\ UNCHANGED <<peer, inbox, known, queue>>
    BY <1>5 DEF Welcomes, Goto
  <2>2. unread[c] = <<>> /\ Len(<<>>) = 0
    BY <2>1 DEF Bounded
  <2>3. /\ unread' \in [Conns -> Seq(Frames)]
        /\ Len(unread'[c]) = Len(unread[c]) + 1
        /\ \A d \in Conns : d # c => unread'[d] = unread[d]
    BY <2>1, ReplyTyped, Pushed DEF Queues
  <2>4. Len(unread'[c]) <= SocketBuffer
    BY <2>2, <2>3, IpcAssumption
  <2>5. Queues' /\ Places'
    BY <1>2, <2>1, <2>3 DEF Queues, Places, Stages
  <2>6. ASSUME NEW d \in Conns PROVE Bounded(d)'
    <3>1. Bounded(d) /\ OnTheWay(d)' = OnTheWay(d)
      BY <1>2 DEF OnTheWay
    <3>2. CASE d = c
      BY <1>2, <2>1, <2>4, <3>1, <3>2 DEF Bounded, Places
    <3>3. CASE d # c
      BY <1>2, <2>1, <2>3, <3>1, <3>3 DEF Bounded, Places
    <3> QED
      BY <3>2, <3>3
  <2>7. ASSUME NEW d \in Conns PROVE Holding(d)'
    BY <2>1 DEF Places, Holding
  <2> QED
    BY <1>2, <2>5, <2>6, <2>7
<1> QED
  BY <1>3, <1>4, <1>5 DEF Claims, HelloFails, WelcomeFails, Releases

LEMMA ReadsFrameTyped ==
  ASSUME Typed, NEW c \in Conns, ReadsFrame(c)
  PROVE  Typed'
<1> USE DEF Typed
<1> DEFINE frame == Head(inbox[c])
<1>1. /\ stage[c] = "select" /\ inbox[c] # <<>>
      /\ UNCHANGED <<peer, unread, known, role, queue, nextId, slot, commands>>
      /\ \/ inbox' = inbox /\ Goto(c, "command")
         \/ inbox' = [inbox EXCEPT ![c] = Tail(@)] /\ (stage' = stage \/ Goto(c, "write"))
      /\ writing' = writing \/ writing' = [writing EXCEPT ![c] = Reply]
  BY DEF ReadsFrame, Write
<1>2. /\ frame \in Inputs /\ inbox' \in [Conns -> Seq(Inputs)]
      /\ \A d \in Conns : d # c => inbox'[d] = inbox[d]
  BY <1>1, Popped DEF Queues
<1>3. /\ stage' \in [Conns -> Stages] /\ stage'[c] \in {"select", "write", "command"}
      /\ stage'[c] = "command" => inbox' = inbox
      /\ \A d \in Conns : d # c => stage'[d] = stage[d]
  BY <1>1 DEF Goto, Places, Stages
<1>4. /\ outstanding' \in [Conns -> SUBSET Frames]
      /\ \/ UNCHANGED asks
         \/ /\ loop' = "serving" /\ target' = None
            /\ asked' = asked /\ loop = "waiting"
            /\ verdict' \in 0..MaxQuestions
  <2>1. CASE outstanding' = outstanding /\ UNCHANGED asks
    BY <2>1 DEF Places
  <2>2. CASE frame.kind = "answer" /\ Accept(c, frame.request)
    <3>1. frame.request \in Frames
      BY <1>2, <2>2 DEF Inputs, Answer, Call
    <3>2. outstanding' \in [Conns -> SUBSET Frames]
      BY <2>2 DEF Accept, Places
    <3>3. frame.request.about \in 0..MaxQuestions
      BY <3>1 DEF Frames
    <3>4. \/ UNCHANGED asks
          \/ \E q : Deliver(c, q, frame.request)
      BY <2>2 DEF Accept
    <3> QED
      BY <3>2, <3>3, <3>4 DEF Deliver
  <2> QED
    BY <2>1, <2>2 DEF ReadsFrame
<1>5. Queues'
  BY <1>1, <1>2 DEF Queues
<1>6. Places'
  BY <1>1, <1>3, <1>4, ReplyTyped DEF Places
<1>7. Loop'
  BY <1>1, <1>4 DEF Loop, asks
<1>8. ASSUME NEW d \in Conns PROVE Bounded(d)' /\ Holding(d)'
  <2>1. stage'[d] \in {"free", "hello", "welcome"} => unread[d] = <<>>
    BY <1>1, <1>3 DEF Bounded
  <2>2. OnTheWay(d)' = OnTheWay(d) /\ asked' = asked
    BY <1>4 DEF OnTheWay, asks
  <2>3. Bounded(d)'
    BY <1>1, <2>1, <2>2 DEF Bounded
  <2>4. Holding(d)'
    BY <1>1, <1>2, <1>3 DEF Holding
  <2> QED
    BY <2>3, <2>4
<1> QED
  BY <1>5, <1>6, <1>7, <1>8

LEMMA SendsCommandTyped ==
  ASSUME Typed, NEW c \in Conns, SendsCommand(c)
  PROVE  Typed'
<1> USE DEF Typed
<1>1. PICK kind \in {"mark_valid", "reboot"} :
        /\ commands' = Append(commands, [kind |-> kind, from |-> c])
        /\ (Goto(c, "reply") \/ Goto(c, "write"))
  BY DEF SendsCommand
<1>2. /\ stage[c] = "command" /\ Len(commands) < CommandQueue
      /\ inbox' = [inbox EXCEPT ![c] = Tail(@)]
      /\ UNCHANGED <<peer, unread, known, role, writing, queue, nextId,
                     outstanding, slot, asks>>
  BY DEF SendsCommand
<1>3. /\ inbox' \in [Conns -> Seq(Inputs)]
      /\ \A d \in Conns : d # c => inbox'[d] = inbox[d]
  BY <1>2, Popped DEF Queues, Holding
<1>4. Loop'
  <2>1. [kind |-> kind, from |-> c] \in Commands
    BY <1>1 DEF Commands
  <2>2. commands' \in Seq(Commands) /\ Len(commands') = Len(commands) + 1
        /\ Len(commands) \in Nat
    BY <1>1, <2>1, AppendTo DEF Loop
  <2>3. Len(commands') <= CommandQueue
    BY <1>2, <2>2, IpcAssumption
  <2> QED
    BY <1>2, <2>2, <2>3 DEF Loop, asks
<1>5. Queues' /\ Places'
  BY <1>1, <1>2, <1>3 DEF Goto, Queues, Places, Stages
<1>6. ASSUME NEW d \in Conns PROVE Bounded(d)' /\ Holding(d)'
  <2>1. stage'[d] \in {"free", "hello", "welcome"} => unread[d] = <<>>
    BY <1>1, <1>2 DEF Goto, Bounded, Places
  <2>2. Bounded(d)'
    BY <1>2, <2>1, BoundsStay DEF asks
  <2>3. Holding(d)'
    BY <1>1, <1>2, <1>3 DEF Goto, Places, Holding
  <2> QED
    BY <2>2, <2>3
<1> QED
  BY <1>4, <1>5, <1>6

LEMMA TakesQuestionTyped ==
  ASSUME Typed, NEW c \in Conns, TakesQuestion(c)
  PROVE  Typed'
<1> USE DEF Typed
<1> DEFINE request == [id |-> nextId[c] + 1, about |-> Head(queue[c])]
<1>1. /\ stage[c] = "select" /\ stage' = [stage EXCEPT ![c] = "write"]
      /\ queue[c] # <<>> /\ queue' = [queue EXCEPT ![c] = Tail(@)]
      /\ nextId' = [nextId EXCEPT ![c] = @ + 1]
      /\ outstanding' = [outstanding EXCEPT ![c] = @ \cup {request}]
      /\ writing' = [writing EXCEPT ![c] = request]
      /\ UNCHANGED <<app, role, slot, commands, asks>>
  BY DEF TakesQuestion, Write, Goto, Places
<1>2. /\ queue' \in [Conns -> Seq(Questions)] /\ Head(queue[c]) \in Questions
      /\ Len(queue[c]) \in Nat /\ Len(queue'[c]) \in Nat
      /\ Len(queue'[c]) = Len(queue[c]) - 1
      /\ \A d \in Conns : d # c => queue'[d] = queue[d]
  BY <1>1, Popped DEF Queues
<1>3. /\ nextId[c] \in Nat /\ OnTheWay(c) \in Nat /\ asked \in Nat
      /\ asked <= MaxQuestions /\ MaxQuestions \in Nat
      /\ SlotQueue \in Nat
      /\ nextId[c] + Len(queue[c]) + OnTheWay(c) <= asked /\ Len(queue[c]) <= SlotQueue
  BY IpcAssumption DEF Places, Loop, OnTheWay, Bounded
<1>4. nextId[c] + 1 \in 0..MaxQuestions
  BY <1>2, <1>3
<1>5. request \in Frames
  BY <1>2, <1>4 DEF Frames, Questions
<1>6. Queues' /\ Loop'
  BY <1>1, <1>2 DEF app, asks, Queues, Loop
<1>7. Places'
  BY <1>1, <1>3, <1>5 DEF app, Places, Stages
<1>8. ASSUME NEW d \in Conns PROVE Bounded(d)' /\ Holding(d)'
  <2>1. Bounded(d) /\ OnTheWay(d)' = OnTheWay(d) /\ asked' = asked /\ unread' = unread
    BY <1>1 DEF app, asks, OnTheWay
  <2>2. CASE d = c
    <3>1. nextId'[c] = nextId[c] + 1 /\ stage'[c] = "write"
      BY <1>1 DEF Places
    <3>2. nextId'[c] + Len(queue'[c]) + OnTheWay(c)' <= asked'
      BY <1>2, <1>3, <2>1, <2>2, <3>1
    <3>3. Len(queue'[c]) <= SlotQueue
      BY <1>2, <1>3
    <3> QED
      BY <2>1, <2>2, <3>1, <3>2, <3>3 DEF Bounded, Holding
  <2>3. CASE d # c
    BY <1>1, <1>2, <2>1, <2>3 DEF app, Bounded, Places, Holding
  <2> QED
    BY <2>2, <2>3
<1> QED
  BY <1>6, <1>7, <1>8

\* What is written leaves the pump's hands.
LEMMA WritesTyped ==
  ASSUME Typed, NEW c \in Conns, Writes(c) \/ ForwardsEvent(c)
  PROVE  Typed'
<1> USE DEF Typed
<1>1. /\ stage[c] \in {"select", "write"} /\ (Goto(c, "select") \/ Goto(c, "write"))
      /\ writing' = [writing EXCEPT ![c] = Reply]
      /\ UNCHANGED <<peer, inbox, known, role, queue, nextId, outstanding, slot,
                     commands, asks>>
  BY DEF Writes, ForwardsEvent, Write, app
<1>2. /\ unread' \in [Conns -> Seq(Frames)] /\ Len(unread'[c]) <= SocketBuffer
      /\ \A d \in Conns : d # c => unread'[d] = unread[d]
  <2>1. CASE Writes(c)
    <3>1. /\ Len(unread[c]) < SocketBuffer
          /\ unread' = [unread EXCEPT ![c] = Append(@, writing[c])]
          /\ writing[c] \in Frames
      BY <2>1 DEF Writes, Places
    <3>2. /\ unread' \in [Conns -> Seq(Frames)]
          /\ Len(unread[c]) \in Nat /\ Len(unread'[c]) = Len(unread[c]) + 1
          /\ \A d \in Conns : d # c => unread'[d] = unread[d]
      BY <3>1, Pushed DEF Queues
    <3> QED
      BY <3>1, <3>2, IpcAssumption
  <2>2. CASE ForwardsEvent(c)
    BY <2>2 DEF ForwardsEvent, app, Queues, Bounded
  <2> QED
    BY <2>1, <2>2
<1>3. Queues' /\ Loop'
  BY <1>1, <1>2 DEF asks, Queues, Loop
<1>4. Places'
  BY <1>1, ReplyTyped DEF Goto, Places, Stages
<1>5. ASSUME NEW d \in Conns PROVE Bounded(d)' /\ Holding(d)'
  <2>1. Bounded(d) /\ OnTheWay(d)' = OnTheWay(d) /\ asked' = asked
    BY <1>1 DEF asks, OnTheWay
  <2> QED
    BY <1>1, <1>2, <2>1 DEF Goto, Bounded, Places, Holding
<1> QED
  BY <1>3, <1>4, <1>5

LEMMA EndPumpTyped ==
  ASSUME Typed, NEW c \in Conns, EndPump(c),
         UNCHANGED <<app, role, slot, commands, asks>>
  PROVE  Typed'
<1> USE DEF Typed
<1>1. /\ queue' \in [Conns -> Seq(Questions)] /\ Len(queue'[c]) = 0
      /\ \A d \in Conns : d # c => queue'[d] = queue[d]
  <2>1. queue' = [queue EXCEPT ![c] = <<>>]
    BY DEF EndPump
  <2> QED
    BY <2>1, Emptied DEF Queues
<1>2. Queues' /\ Loop'
  BY <1>1 DEF app, asks, Queues, Loop
<1>3. Places'
  BY ReplyTyped DEF EndPump, Goto, app, Places, Stages
<1>4. ASSUME NEW d \in Conns PROVE Bounded(d)' /\ Holding(d)'
  <2>1. /\ Bounded(d) /\ OnTheWay(d)' = OnTheWay(d) /\ OnTheWay(d) \in {0, 1}
        /\ asked' = asked /\ unread' = unread /\ inbox' = inbox
    BY DEF asks, app, OnTheWay
  <2>2. CASE d = c
    <3>1. nextId'[c] = 0 /\ stage'[c] = "ended"
      BY DEF EndPump, Goto, Places
    <3>2. OnTheWay(c) <= asked /\ SlotQueue >= 0
      <4>1. asked \in Nat /\ (OnTheWay(c) = 1 => asked > 0)
        BY IpcAssumption DEF Loop, OnTheWay
      <4> QED
        BY <2>1, <2>2, <4>1, IpcAssumption
    <3> QED
      BY <1>1, <2>1, <2>2, <3>1, <3>2 DEF Bounded, Holding
  <2>3. CASE d # c
    BY <1>1, <2>1, <2>3 DEF EndPump, Goto, Bounded, Places, Holding
  <2> QED
    BY <2>2, <2>3
<1> QED
  BY <1>2, <1>3, <1>4

\* What the loop does to no connection.
LEMMA LoopTyped ==
  ASSUME Typed, SessionComesOrGoes \/ Asks \/ NobodyThere \/ Deadline
  PROVE  Typed'
<1> USE DEF Typed
<1>1. UNCHANGED <<app, pump, slot, commands>>
  BY DEF SessionComesOrGoes, Asks, NobodyThere, Deadline, GivesUp
<1>2. Queues' /\ Places'
  BY <1>1 DEF app, pump, Queues, Places
<1>3. CASE Asks
  <2>1. /\ loop = "serving" /\ asked' = asked + 1 /\ verdict' = 0
        /\ asked \in Nat /\ asked < MaxQuestions /\ MaxQuestions \in Nat
        /\ \/ loop' = loop /\ target' = target
           \/ loop' = "sending" /\ target' = slot /\ slot # None
    BY <1>3, IpcAssumption DEF Asks, Loop
  <2>2. /\ asked' \in 0..MaxQuestions /\ asked' > 0 /\ 0 \in 0..MaxQuestions
        /\ loop' = "sending" => target' \in Conns
    BY <2>1 DEF Loop
  <2>3. Loop'
    BY <1>1, <2>1, <2>2 DEF Loop
  <2>4. ASSUME NEW d \in Conns PROVE Bounded(d)' /\ Holding(d)'
    <3>1. /\ UNCHANGED <<stage, unread, inbox, queue, nextId>>
          /\ nextId[d] \in Nat /\ Len(queue[d]) \in Nat
      BY <1>1 DEF app, pump, Queues, Places
    <3>2. OnTheWay(d) = 0 /\ OnTheWay(d)' \in {0, 1}
      BY <2>1 DEF OnTheWay
    <3>3. nextId[d] + Len(queue[d]) <= asked
      BY <3>1, <3>2 DEF Bounded
    <3>4. nextId[d] + Len(queue[d]) + OnTheWay(d)' <= asked'
      BY <2>1, <3>1, <3>2, <3>3
    <3> QED
      BY <3>1, <3>4 DEF Bounded, Holding
  <2> QED
    BY <1>2, <2>3, <2>4
<1>4. CASE SessionComesOrGoes \/ NobodyThere \/ Deadline
  <2>1. /\ loop' \in {"away", "serving"} /\ asked' = asked /\ verdict' = verdict
        /\ target' \in {target, None}
    BY <1>4 DEF SessionComesOrGoes, NobodyThere, Deadline, GivesUp, Loop
  <2>2. Loop'
    BY <1>1, <2>1 DEF Loop
  <2>3. ASSUME NEW d \in Conns PROVE Bounded(d)' /\ Holding(d)'
    <3>1. /\ UNCHANGED <<stage, unread, inbox, queue, nextId>>
          /\ nextId[d] \in Nat /\ Len(queue[d]) \in Nat /\ asked \in Nat
      BY <1>1, IpcAssumption DEF app, pump, Queues, Places, Loop
    <3>2. OnTheWay(d)' = 0 /\ OnTheWay(d) \in {0, 1}
      BY <2>1 DEF OnTheWay
    <3>3. nextId[d] + Len(queue[d]) + OnTheWay(d) <= asked
      BY DEF Bounded
    <3>4. nextId[d] + Len(queue[d]) + OnTheWay(d)' <= asked'
      BY <2>1, <3>1, <3>2, <3>3
    <3> QED
      BY <3>1, <3>4 DEF Bounded, Holding
  <2> QED
    BY <1>2, <2>2, <2>3
<1> QED
  BY <1>3, <1>4

LEMMA SendsQuestionTyped == Typed /\ SendsQuestion => Typed'
<1> SUFFICES ASSUME Typed, SendsQuestion PROVE Typed'
  OBVIOUS
<1> USE DEF Typed
<1>1. /\ loop = "sending" /\ loop' = "waiting"
      /\ Listening(target) /\ Len(queue[target]) < SlotQueue
      /\ queue' = [queue EXCEPT ![target] = Append(@, asked)]
      /\ UNCHANGED <<app, stage, role, writing, nextId, outstanding, slot, commands,
                     asked, target, verdict>>
  BY DEF SendsQuestion
<1>2. asked \in Questions /\ asked \in Nat /\ target \in Conns
  BY <1>1, IpcAssumption DEF Loop, Questions
<1>3. /\ queue' \in [Conns -> Seq(Questions)]
      /\ Len(queue[target]) \in Nat /\ Len(queue'[target]) = Len(queue[target]) + 1
      /\ \A d \in Conns : d # target => queue'[d] = queue[d]
  BY <1>1, <1>2, Pushed DEF Queues
<1>4. Queues' /\ Places' /\ Loop'
  BY <1>1, <1>3 DEF app, Queues, Places, Loop
<1>5. ASSUME NEW d \in Conns PROVE Bounded(d)' /\ Holding(d)'
  <2>1. /\ OnTheWay(d)' = 0 /\ OnTheWay(d) = IF d = target THEN 1 ELSE 0
        /\ OnTheWay(d) \in Nat
        /\ Len(queue[d]) \in Nat /\ nextId[d] \in Nat
        /\ nextId[d] + Len(queue[d]) + OnTheWay(d) <= asked
        /\ SlotQueue \in Nat /\ Len(queue[d]) <= SlotQueue
    BY <1>1, <1>2, IpcAssumption DEF OnTheWay, Bounded, Queues, Places
  <2>2. Len(queue'[d]) = Len(queue[d]) + OnTheWay(d) /\ Len(queue'[d]) <= SlotQueue
    BY <1>1, <1>3, <2>1
  <2>3. nextId[d] + Len(queue'[d]) + OnTheWay(d)' <= asked
    <3>1. \A i, l, k, n \in Nat : i + l + k <= n => i + (l + k) + 0 <= n
      OBVIOUS
    <3> QED
      BY <1>2, <2>1, <2>2, <3>1
  <2> QED
    BY <1>1, <2>2, <2>3 DEF app, Bounded, Holding
<1> QED
  BY <1>4, <1>5

\* A command that is served sends its caller on.
LEMMA ServesCommandTyped == Typed /\ ServesCommand => Typed'
<1> SUFFICES ASSUME Typed, ServesCommand PROVE Typed'
  OBVIOUS
<1> USE DEF Typed
<1> DEFINE command == Head(commands)
<1>1. /\ commands # <<>> /\ commands' = Tail(commands)
      /\ stage' = stage \/ Goto(command.from, "write")
      /\ UNCHANGED <<app, role, writing, queue, nextId, outstanding, slot, asks>>
  BY DEF ServesCommand
<1>2. /\ command \in Commands /\ commands' \in Seq(Commands)
      /\ Len(commands) \in Nat /\ Len(commands') = Len(commands) - 1
      /\ commands \in Seq(Commands) /\ Len(commands) <= CommandQueue
  BY <1>1, TailOf DEF Loop
<1>3. /\ command.from \in Conns /\ Len(commands') <= CommandQueue
  BY <1>2, IpcAssumption DEF Commands
<1>4. Queues' /\ Loop'
  BY <1>1, <1>2, <1>3 DEF app, asks, Queues, Loop
<1>5. Places'
  BY <1>1, <1>3 DEF app, Goto, Places, Stages
<1>6. ASSUME NEW d \in Conns PROVE Bounded(d)' /\ Holding(d)'
  <2>1. stage'[d] = stage[d] \/ stage'[d] = "write"
    BY <1>1, <1>3 DEF Goto, Places
  <2>2. OnTheWay(d)' = OnTheWay(d) /\ UNCHANGED <<unread, inbox, queue, nextId, asked>>
    BY <1>1 DEF app, asks, OnTheWay
  <2> QED
    BY <2>1, <2>2 DEF Bounded, Holding
<1> QED
  BY <1>4, <1>5, <1>6

LEMMA TypeStep == Typed /\ [Next]_vars => Typed'
<1> SUFFICES ASSUME Typed, [Next]_vars PROVE Typed'
  OBVIOUS
<1>1. ASSUME NEW c \in Conns,
             \/ \E r \in {"observer", "controller"} : Connects(c, r)
             \/ \E m \in {"status", "mark_valid", "reboot"} : Calls(c, m)
             \/ AnswersQuestion(c) \/ Reads(c) \/ Closes(c)
      PROVE  Typed'
  BY <1>1, AppTyped
<1>2. ASSUME NEW c \in Conns,
             Claims(c) \/ HelloFails(c) \/ Welcomes(c) \/ WelcomeFails(c) \/ Releases(c)
      PROVE  Typed'
  BY <1>2, ServeTyped
<1>3. ASSUME NEW c \in Conns, ForwardsEvent(c) \/ Pumps(c)
      PROVE  Typed'
  <2>1. CASE WriteFails(c) \/ EndOfInput(c)
    BY <2>1, EndPumpTyped DEF WriteFails, EndOfInput
  <2> QED
    BY <1>3, <2>1, ReadsFrameTyped, SendsCommandTyped, TakesQuestionTyped, WritesTyped
       DEF Pumps
<1>4. CASE SessionComesOrGoes \/ Asks \/ NobodyThere \/ Deadline
  BY <1>4, LoopTyped
<1>5. CASE UNCHANGED vars
  BY <1>5 DEF vars, app, pump, asks, Typed, Queues, Places, Loop, Bounded, Holding, OnTheWay
<1> QED
  BY <1>1, <1>2, <1>3, <1>4, <1>5, SendsQuestionTyped, ServesCommandTyped DEF Next

\* The socket's state keeps its types: the channel to the controller, the command
\* channel and the sockets stay within their capacities, and ids never outnumber
\* questions (Ipc::serve, Ipc::pump, Ipc::ask).
THEOREM IpcTypeCorrect == Spec => []TypeOK
BY InitTyped, TypeStep, TypedIsTypeOK, PTL DEF Spec
-----------------------------------------------------------------------------
(* Answers                                                                 *)

\* The frames that a connection's task, its socket and its application hold;
\* an answer carries the question's frame.
Answered(c) == {f.request : f \in Elems(inbox[c])}
Sent(c) == {Reply, writing[c]} \cup known[c] \cup outstanding[c]
             \cup Elems(unread[c]) \cup Answered(c)

\* An id stands for one question, and the next one is new; a pump that is over
\* waits for no answer.
Labelled(c) ==
  /\ \A f, g \in Sent(c) : f.id = g.id => f.about = g.about
  /\ stage[c] # "ended" => \A f \in Sent(c) : f.id <= nextId[c]
  /\ stage[c] = "ended" => outstanding[c] = {} /\ writing[c] = Reply

Labels == \A c \in Conns : Labelled(c)

OInv == IInv /\ Typed /\ Labels /\ AnswersOwnQuestion

LEMMA SentAreFrames == ASSUME Typed, NEW c \in Conns PROVE Sent(c) \subseteq Frames
<1>1. Elems(unread[c]) \subseteq Frames
  BY DEF Typed, Queues, Elems
<1>2. \A f \in Inputs : f.request \in Frames
  BY ReplyTyped DEF Inputs, Answer, Call
<1>3. Elems(inbox[c]) \subseteq Inputs
  BY DEF Typed, Queues, Elems
<1>4. Answered(c) \subseteq Frames
  BY <1>2, <1>3 DEF Answered
<1> QED
  BY <1>1, <1>4, ReplyTyped DEF Sent, Typed, Places

\* What a connection has, as far as its labels go.
Has(c) == <<stage[c], writing[c], known[c], outstanding[c], unread[c], inbox[c], nextId[c]>>

LEMMA PushedElems ==
  ASSUME NEW S, NEW s \in Seq(S), NEW e \in S
  PROVE  Elems(Append(s, e)) = Elems(s) \cup {e}
BY AppendTo DEF Elems

LEMMA PoppedElems ==
  ASSUME NEW S, NEW s \in Seq(S), s # <<>>
  PROVE  Head(s) \in Elems(s) /\ Elems(Tail(s)) \subseteq Elems(s)
BY TailOf DEF Elems

\* A step of c that sends nothing new keeps every label.
LEMMA FewerLabels ==
  ASSUME Typed, Labels, NEW c \in Conns,
         \A d \in Conns : d # c => UNCHANGED Has(d),
         Sent(c)' \subseteq Sent(c),
         stage'[c] = "ended" => outstanding'[c] = {} /\ writing'[c] = Reply,
         stage'[c] # "ended" => \/ stage[c] # "ended" /\ nextId'[c] = nextId[c]
                                \/ nextId'[c] \in Nat /\ Sent(c)' \subseteq {Reply}
  PROVE  Labels'
<1>1. ASSUME NEW d \in Conns, d # c PROVE Labelled(d)'
  <2>1. Labelled(d) /\ UNCHANGED Has(d)
    BY <1>1 DEF Labels
  <2>2. Sent(d)' = Sent(d)
    BY <2>1 DEF Has, Sent, Answered, Elems
  <2> QED
    BY <2>1, <2>2 DEF Has, Labelled
<1>2. Labelled(c)'
  <2>1. Labelled(c)
    BY DEF Labels
  <2>2. \A f, g \in Sent(c)' : f.id = g.id => f.about = g.about
    BY <2>1 DEF Labelled
  <2>3. ASSUME stage'[c] # "ended", NEW f \in Sent(c)' PROVE f.id <= nextId'[c]
    <3>1. CASE stage[c] # "ended" /\ nextId'[c] = nextId[c]
      BY <2>1, <3>1 DEF Labelled
    <3>2. CASE nextId'[c] \in Nat /\ Sent(c)' \subseteq {Reply}
      BY <2>3, <3>2 DEF Reply
    <3> QED
      BY <2>3, <3>1, <3>2
  <2> QED
    BY <2>2, <2>3 DEF Labelled
<1> QED
  BY <1>1, <1>2 DEF Labels

\* A step that leaves what connections have.
LEMMA SameLabels ==
  ASSUME Labels, \A d \in Conns : UNCHANGED Has(d) PROVE Labels'
BY DEF Labels, Labelled, Has, Sent, Answered, Elems

LEMMA AppLabels ==
  ASSUME Typed, Labels, NEW c \in Conns,
         \/ \E r \in {"observer", "controller"} : Connects(c, r)
         \/ \E m \in {"status", "mark_valid", "reboot"} : Calls(c, m)
         \/ AnswersQuestion(c) \/ Reads(c) \/ Closes(c)
  PROVE  Labels'
<1>q. inbox \in [Conns -> Seq(Inputs)] /\ unread \in [Conns -> Seq(Frames)]
  BY DEF Typed, Queues
<1>1. CASE \E r \in {"observer", "controller"} : Connects(c, r)
  <2>1. /\ stage[c] = "free" /\ stage' = [stage EXCEPT ![c] = "hello"]
        /\ UNCHANGED <<writing, known, outstanding, unread, inbox, nextId>>
    BY <1>1 DEF Connects, Goto
  <2>2. /\ Sent(c)' = Sent(c) /\ stage'[c] = "hello"
        /\ \A d \in Conns : d # c => UNCHANGED Has(d)
    BY <2>1 DEF Sent, Answered, Elems, Has, Typed, Places
  <2> QED
    BY <2>1, <2>2, FewerLabels
<1>2. ASSUME NEW frame \in Inputs, Sends(c, frame), frame.request \in Sent(c),
             UNCHANGED <<peer, unread, known, pump>>
      PROVE  Labels'
  <2>1. inbox' = [inbox EXCEPT ![c] = Append(@, frame)]
    BY <1>2 DEF Sends
  <2>2. /\ Elems(inbox'[c]) = Elems(inbox[c]) \cup {frame}
        /\ \A d \in Conns : d # c => inbox'[d] = inbox[d]
    <3>1. inbox'[c] = Append(inbox[c], frame) /\ inbox[c] \in Seq(Inputs)
      BY <2>1, <1>q
    <3>2. Elems(inbox'[c]) = Elems(inbox[c]) \cup {frame}
      BY <3>1, PushedElems
    <3> QED
      BY <2>1, <3>2, <1>q
  <2>3. Answered(c)' = Answered(c) \cup {frame.request}
    BY <2>2 DEF Answered
  <2>4. Sent(c)' \subseteq Sent(c)
    BY <1>2, <2>3 DEF pump, Sent
  <2>5. \A d \in Conns : d # c => UNCHANGED Has(d)
    BY <1>2, <2>2 DEF pump, Has
  <2>6. Labelled(c) /\ UNCHANGED <<stage, writing, outstanding, nextId>>
    BY <1>2 DEF Labels, pump
  <2> QED
    BY <2>4, <2>5, <2>6, FewerLabels DEF Labelled
<1>3. CASE \E m \in {"status", "mark_valid", "reboot"} : Calls(c, m)
  BY <1>2, <1>3, ReplyTyped DEF Calls, Sent
<1>4. CASE AnswersQuestion(c)
  <2>1. PICK request \in known[c] :
          /\ Sends(c, Answer(request))
          /\ UNCHANGED <<peer, unread, known, pump>>
    BY <1>4 DEF AnswersQuestion
  <2>2. Answer(request) \in Inputs /\ Answer(request).request = request
    BY <2>1 DEF Typed, Places, Inputs, Answer
  <2> QED
    BY <1>2, <2>1, <2>2 DEF Sent
<1>5. CASE Reads(c)
  <2>1. /\ unread[c] # <<>> /\ unread' = [unread EXCEPT ![c] = Tail(@)]
        /\ known' = [known EXCEPT ![c] = @ \cup ({Head(unread[c])} \ {Reply})]
        /\ UNCHANGED <<inbox, pump>>
    BY <1>5 DEF Reads
  <2>2. /\ Elems(unread'[c]) \subseteq Elems(unread[c])
        /\ Head(unread[c]) \in Elems(unread[c])
        /\ \A d \in Conns : d # c => unread'[d] = unread[d]
    <3>1. unread'[c] = Tail(unread[c]) /\ unread[c] \in Seq(Frames)
      BY <2>1, <1>q
    <3>2. Elems(unread'[c]) \subseteq Elems(unread[c]) /\ Head(unread[c]) \in Elems(unread[c])
      BY <2>1, <3>1, PoppedElems
    <3> QED
      BY <2>1, <3>2, <1>q
  <2>3. Sent(c)' \subseteq Sent(c)
    BY <2>1, <2>2 DEF pump, Sent, Answered, Elems, Typed, Places
  <2>4. \A d \in Conns : d # c => UNCHANGED Has(d)
    BY <2>1, <2>2 DEF pump, Has, Typed, Places
  <2>5. Labelled(c) /\ UNCHANGED <<stage, writing, outstanding, nextId>>
    BY <2>1 DEF Labels, pump
  <2> QED
    BY <2>3, <2>4, <2>5, FewerLabels DEF Labelled
<1>6. CASE Closes(c)
  <2>1. /\ unread' = [unread EXCEPT ![c] = <<>>]
        /\ known' = [known EXCEPT ![c] = {}]
        /\ UNCHANGED <<inbox, pump>>
    BY <1>6 DEF Closes
  <2>2. /\ Elems(unread'[c]) = {}
        /\ \A d \in Conns : d # c => unread'[d] = unread[d]
    BY <2>1, Emptied DEF Typed, Queues
  <2>3. Sent(c)' \subseteq Sent(c)
    BY <2>1, <2>2 DEF pump, Sent, Answered, Typed, Places
  <2>4. \A d \in Conns : d # c => UNCHANGED Has(d)
    BY <2>1, <2>2 DEF pump, Has, Typed, Places
  <2>5. Labelled(c) /\ UNCHANGED <<stage, writing, outstanding, nextId>>
    BY <2>1 DEF Labels, pump
  <2> QED
    BY <2>3, <2>4, <2>5, FewerLabels DEF Labelled
<1> QED
  BY <1>1, <1>3, <1>4, <1>5, <1>6

\* A task that is over leaves no frame behind but its reply.
LEMMA ServeLabels ==
  ASSUME Typed, Labels, NEW c \in Conns,
         Claims(c) \/ HelloFails(c) \/ Welcomes(c) \/ WelcomeFails(c) \/ Releases(c)
  PROVE  Labels'
<1>q. inbox \in [Conns -> Seq(Inputs)] /\ unread \in [Conns -> Seq(Frames)]
  BY DEF Typed, Queues
<1>1. UNCHANGED <<writing, nextId, outstanding>> /\ stage[c] \in {"hello", "welcome", "ended"}
  BY DEF Claims, HelloFails, Welcomes, WelcomeFails, Releases
<1>2. CASE Gone(c)
  <2>1. /\ inbox' = [inbox EXCEPT ![c] = <<>>] /\ unread' = [unread EXCEPT ![c] = <<>>]
        /\ known' = [known EXCEPT ![c] = {}] /\ stage' = [stage EXCEPT ![c] = "free"]
    BY <1>2 DEF Gone, Goto
  <2>2. /\ Elems(inbox'[c]) = {} /\ Elems(unread'[c]) = {}
        /\ \A d \in Conns : d # c => inbox'[d] = inbox[d] /\ unread'[d] = unread[d]
    BY <2>1, Emptied DEF Typed, Queues
  <2>3. stage'[c] = "free" /\ known'[c] = {}
    BY <2>1 DEF Typed, Places
  <2>4. Sent(c)' \subseteq {Reply, writing[c]} \cup outstanding[c]
    BY <1>1, <2>2, <2>3 DEF Sent, Answered
  <2>5. /\ Sent(c)' \subseteq Sent(c)
        /\ stage[c] = "ended" => Sent(c)' \subseteq {Reply}
    BY <2>4 DEF Sent, Labels, Labelled
  <2>6. \A d \in Conns : d # c => UNCHANGED Has(d)
    BY <1>1, <2>1, <2>2 DEF Has, Typed, Places
  <2>7. nextId'[c] \in Nat
    BY <1>1 DEF Typed, Places
  <2> QED
    BY <1>1, <2>3, <2>5, <2>6, <2>7, FewerLabels
<1>3. CASE stage[c] = "hello" /\ Goto(c, "welcome") /\ UNCHANGED app
  <2>1. stage'[c] = "welcome" /\ \A d \in Conns : d # c => UNCHANGED Has(d)
    BY <1>1, <1>3 DEF Goto, app, Has, Typed, Places
  <2>2. Sent(c)' = Sent(c)
    BY <1>1, <1>3 DEF app, Sent, Answered, Elems
  <2> QED
    BY <1>1, <1>3, <2>1, <2>2, FewerLabels
<1>4. CASE Welcomes(c)
  <2>1. /\ stage[c] = "welcome" /\ stage' = [stage EXCEPT ![c] = "select"]
        /\ unread' = [unread EXCEPT ![c] = Append(@, Reply)]
        /\ UNCHANGED <<inbox, known>>
    BY <1>4 DEF Welcomes, Goto
  <2>2. /\ Elems(unread'[c]) = Elems(unread[c]) \cup {Reply}
        /\ \A d \in Conns : d # c => unread'[d] = unread[d]
    <3>1. unread'[c] = Append(unread[c], Reply) /\ unread[c] \in Seq(Frames)
      BY <2>1, <1>q
    <3>2. Elems(unread'[c]) = Elems(unread[c]) \cup {Reply}
      BY <3>1, ReplyTyped, PushedElems
    <3> QED
      BY <2>1, <3>2, <1>q
  <2>3. Sent(c)' \subseteq Sent(c)
    BY <1>1, <2>1, <2>2 DEF Sent, Answered
  <2>4. stage'[c] = "select" /\ \A d \in Conns : d # c => UNCHANGED Has(d)
    BY <1>1, <2>1, <2>2 DEF Has, Typed, Places
  <2> QED
    BY <1>1, <2>1, <2>3, <2>4, FewerLabels
<1> QED
  BY <1>2, <1>3, <1>4 DEF Claims, HelloFails, WelcomeFails, Releases

\* What the pump reads, and where it goes next.
LEMMA ReadsFrameLabels ==
  ASSUME Typed, Labels, NEW c \in Conns, ReadsFrame(c)
  PROVE  Labels'
<1> DEFINE frame == Head(inbox[c])
<1>1. /\ stage[c] = "select" /\ inbox[c] # <<>>
      /\ UNCHANGED <<unread, known, nextId>>
      /\ inbox' = inbox \/ inbox' = [inbox EXCEPT ![c] = Tail(@)]
      /\ stage' = stage \/ Goto(c, "command") \/ Goto(c, "write")
      /\ writing' = writing \/ writing' = [writing EXCEPT ![c] = Reply]
      /\ \/ outstanding' = outstanding
         \/ \E kept : outstanding' = [outstanding EXCEPT ![c] = @ \ kept]
  BY DEF ReadsFrame, Write, Accept
<1>2. /\ Elems(inbox'[c]) \subseteq Elems(inbox[c])
      /\ \A d \in Conns : d # c => inbox'[d] = inbox[d]
  <2>1. inbox \in [Conns -> Seq(Inputs)]
    BY DEF Typed, Queues
  <2>2. CASE inbox' = inbox
    BY <2>2
  <2>3. CASE inbox' = [inbox EXCEPT ![c] = Tail(@)]
    <3>1. inbox'[c] = Tail(inbox[c]) /\ inbox[c] \in Seq(Inputs)
      BY <2>1, <2>3
    <3>2. Elems(inbox'[c]) \subseteq Elems(inbox[c])
      BY <1>1, <3>1, PoppedElems
    <3> QED
      BY <2>1, <2>3, <3>2
  <2> QED
    BY <1>1, <2>2, <2>3
<1>3. outstanding'[c] \subseteq outstanding[c]
      /\ writing'[c] \in {Reply, writing[c]} /\ stage'[c] # "ended"
  BY <1>1 DEF Goto, Typed, Places
<1>4. Sent(c)' \subseteq Sent(c)
  BY <1>1, <1>2, <1>3 DEF Sent, Answered
<1>5. \A d \in Conns : d # c => UNCHANGED Has(d)
  BY <1>1, <1>2 DEF Has, Goto, Typed, Places
<1> QED
  BY <1>1, <1>3, <1>4, <1>5, FewerLabels

LEMMA SendsCommandLabels ==
  ASSUME Typed, Labels, NEW c \in Conns, SendsCommand(c)
  PROVE  Labels'
<1>1. /\ stage[c] = "command" /\ (Goto(c, "reply") \/ Goto(c, "write"))
      /\ inbox' = [inbox EXCEPT ![c] = Tail(@)]
      /\ UNCHANGED <<unread, known, writing, nextId, outstanding>>
  BY DEF SendsCommand
<1>2. inbox[c] # <<>> /\ inbox \in [Conns -> Seq(Inputs)]
  BY <1>1 DEF Typed, Queues, Holding
<1>3. inbox'[c] = Tail(inbox[c]) /\ inbox[c] \in Seq(Inputs)
  BY <1>1, <1>2
<1>4. Elems(inbox'[c]) \subseteq Elems(inbox[c])
  BY <1>2, <1>3, PoppedElems
<1>5. Sent(c)' \subseteq Sent(c) /\ stage'[c] # "ended"
  BY <1>1, <1>4 DEF Sent, Answered, Elems, Goto, Typed, Places
<1>6. \A d \in Conns : d # c => UNCHANGED Has(d)
  BY <1>1, <1>2 DEF Has, Goto, Typed, Places
<1> QED
  BY <1>1, <1>5, <1>6, FewerLabels

\* The new id is larger than any the connection has seen.
LEMMA TakesQuestionLabels ==
  ASSUME Typed, Labels, NEW c \in Conns, TakesQuestion(c)
  PROVE  Labels'
<1> DEFINE request == [id |-> nextId[c] + 1, about |-> Head(queue[c])]
<1>1. /\ stage[c] = "select" /\ stage' = [stage EXCEPT ![c] = "write"]
      /\ nextId' = [nextId EXCEPT ![c] = @ + 1]
      /\ outstanding' = [outstanding EXCEPT ![c] = @ \cup {request}]
      /\ writing' = [writing EXCEPT ![c] = request]
      /\ UNCHANGED <<unread, known, inbox>>
  BY DEF TakesQuestion, Write, Goto, Typed, Places, app
<1>2. \A d \in Conns : d # c => UNCHANGED Has(d) /\ Labelled(d)
  BY <1>1 DEF Has, Typed, Places, Labels
<1>3. ASSUME NEW d \in Conns, d # c PROVE Labelled(d)'
  <2>1. Sent(d)' = Sent(d)
    BY <1>2, <1>3 DEF Has, Sent, Answered, Elems
  <2> QED
    BY <1>2, <1>3, <2>1 DEF Has, Labelled
<1>4. /\ nextId'[c] = nextId[c] + 1 /\ nextId[c] \in Nat /\ stage'[c] = "write"
      /\ outstanding'[c] = outstanding[c] \cup {request} /\ writing'[c] = request
  BY <1>1 DEF Typed, Places
<1>5. Sent(c)' \subseteq Sent(c) \cup {request}
  BY <1>1, <1>4 DEF Sent, Answered, Elems
<1>6. \A f \in Sent(c) : f.id \in Nat /\ f.id <= nextId[c] /\ f.id # request.id
  <2>1. \A f \in Sent(c) : f.id \in Nat
    BY SentAreFrames, IpcAssumption DEF Frames
  <2>2. \A f \in Sent(c) : f.id <= nextId[c]
    BY <1>1 DEF Labels, Labelled
  <2>3. request.id = nextId[c] + 1
    OBVIOUS
  <2> QED
    BY <1>4, <2>1, <2>2, <2>3
<1>7. \A f, g \in Sent(c)' : f.id = g.id => f.about = g.about
  <2>1. \A f, g \in Sent(c) : f.id = g.id => f.about = g.about
    BY DEF Labels, Labelled
  <2> HIDE DEF request
  <2> QED
    BY <1>5, <1>6, <2>1
<1>8. \A f \in Sent(c)' : f.id <= nextId'[c]
  <2>1. request.id = nextId[c] + 1
    OBVIOUS
  <2> HIDE DEF request
  <2> QED
    BY <1>4, <1>5, <1>6, <2>1
<1>9. Labelled(c)'
  BY <1>4, <1>7, <1>8 DEF Labelled
<1> QED
  BY <1>3, <1>9 DEF Labels

LEMMA WritesLabels ==
  ASSUME Typed, Labels, NEW c \in Conns, Writes(c) \/ ForwardsEvent(c)
  PROVE  Labels'
<1>1. /\ stage[c] \in {"select", "write"} /\ (Goto(c, "select") \/ Goto(c, "write"))
      /\ writing' = [writing EXCEPT ![c] = Reply]
      /\ UNCHANGED <<inbox, known, nextId, outstanding>>
      /\ unread' = unread \/ unread' = [unread EXCEPT ![c] = Append(@, writing[c])]
  BY DEF Writes, ForwardsEvent, Write, app
<1>2. unread \in [Conns -> Seq(Frames)] /\ writing[c] \in Frames
  BY DEF Typed, Queues, Places
<1>3. /\ Elems(unread'[c]) \subseteq Elems(unread[c]) \cup {writing[c]}
      /\ \A d \in Conns : d # c => unread'[d] = unread[d]
  <2>1. CASE unread' = unread
    BY <2>1
  <2>2. CASE unread' = [unread EXCEPT ![c] = Append(@, writing[c])]
    <3>1. unread'[c] = Append(unread[c], writing[c]) /\ unread[c] \in Seq(Frames)
      BY <1>2, <2>2
    <3>2. Elems(unread'[c]) = Elems(unread[c]) \cup {writing[c]}
      BY <1>2, <3>1, PushedElems
    <3> QED
      BY <1>2, <2>2, <3>2
  <2> QED
    BY <1>1, <2>1, <2>2
<1>4. writing'[c] = Reply /\ stage'[c] # "ended"
  BY <1>1 DEF Goto, Typed, Places
<1>5. Sent(c)' \subseteq Sent(c)
  BY <1>1, <1>3, <1>4 DEF Sent, Answered
<1>6. \A d \in Conns : d # c => UNCHANGED Has(d)
  BY <1>1, <1>3 DEF Has, Goto, Typed, Places
<1> QED
  BY <1>1, <1>4, <1>5, <1>6, FewerLabels

\* The replies a pump waits for go with it.
LEMMA EndPumpLabels ==
  ASSUME Typed, Labels, NEW c \in Conns, EndPump(c), UNCHANGED app
  PROVE  Labels'
<1>1. writing'[c] = Reply /\ outstanding'[c] = {} /\ stage'[c] = "ended"
  BY DEF EndPump, Goto, Typed, Places
<1>2. Sent(c)' \subseteq Sent(c)
  BY <1>1 DEF app, Sent, Answered, Elems
<1>3. \A d \in Conns : d # c => UNCHANGED Has(d)
  BY DEF EndPump, Goto, app, Has, Typed, Places
<1> QED
  BY <1>1, <1>2, <1>3, FewerLabels

\* A caller that is told was waiting for its reply, so that its pump is not over.
LEMMA ServesCommandLabels ==
  ASSUME IInv, Typed, Labels, ServesCommand
  PROVE  Labels'
<1>c. PICK c : c = Head(commands).from
  OBVIOUS
<1>1. /\ commands # <<>>
      /\ \/ UNCHANGED stage
         \/ Head(commands).kind = "mark_valid" /\ stage' = [stage EXCEPT ![c] = "write"]
      /\ UNCHANGED <<app, writing, nextId, outstanding>>
  BY <1>c DEF ServesCommand, Goto
<1>2. /\ Head(commands) = commands[1] /\ commands[1] \in Commands
      /\ 1 \in 1..Len(commands)
  <2>1. commands \in Seq(Commands)
    BY DEF Typed, Loop
  <2>2. /\ Head(commands) = commands[1] /\ Len(commands) \in Nat /\ Len(commands) >= 1
        /\ \A i \in 1..Len(commands) : commands[i] \in Commands
    BY <1>1, <2>1, TailOf
  <2>3. 1 \in 1..Len(commands)
    BY <2>2
  <2> QED
    BY <2>2, <2>3
<1>3. CASE UNCHANGED stage
  BY <1>1, <1>3, SameLabels DEF app, Has
<1>4. CASE Head(commands).kind = "mark_valid" /\ stage' = [stage EXCEPT ![c] = "write"]
  <2>1. c \in Conns /\ stage[c] = "reply"
    BY <1>c, <1>2, <1>4 DEF IInv, CallersWait, Waits, Commands
  <2>2. Sent(c)' = Sent(c) /\ nextId'[c] = nextId[c] /\ stage'[c] = "write"
    BY <1>1, <1>4, <2>1 DEF app, Sent, Answered, Elems, Typed, Places
  <2>3. \A d \in Conns : d # c => UNCHANGED Has(d)
    BY <1>1, <1>4 DEF app, Has, Typed, Places
  <2> QED
    BY <2>1, <2>2, <2>3, FewerLabels
<1> QED
  BY <1>1, <1>3, <1>4

\* An answer decides the question whose id it has, and that is its own.
LEMMA VerdictStep ==
  ASSUME Typed, Labels, AnswersOwnQuestion, [Next]_vars
  PROVE  AnswersOwnQuestion'
<1> USE DEF AnswersOwnQuestion
<1>1. CASE asked' = asked /\ verdict' = verdict
  BY <1>1
<1>2. CASE verdict' = 0
  BY <1>2
<1>3. ASSUME NEW c \in Conns, ReadsFrame(c) PROVE AnswersOwnQuestion'
  <2>1. CASE Head(inbox[c]).kind = "answer" /\ Accept(c, Head(inbox[c]).request)
    <3> DEFINE answer == Head(inbox[c]).request
    <3>1. answer \in Sent(c)
      <4>1. inbox[c] \in Seq(Inputs) /\ inbox[c] # <<>>
        BY <1>3 DEF ReadsFrame, Typed, Queues
      <4>2. Head(inbox[c]) \in Elems(inbox[c])
        BY <4>1, PoppedElems
      <4> QED
        BY <4>2 DEF Sent, Answered
    <3>2. \/ UNCHANGED asks
          \/ \E entry \in outstanding[c] :
               entry.id = answer.id /\ Deliver(c, entry.about, answer)
      BY <2>1 DEF Accept
    <3>3. ASSUME NEW entry \in outstanding[c], entry.id = answer.id,
                 Deliver(c, entry.about, answer)
          PROVE  AnswersOwnQuestion'
      <4>1. entry.about = answer.about
        BY <3>1, <3>3 DEF Labels, Labelled, Sent
      <4> QED
        BY <3>3, <4>1, <1>1 DEF Deliver, asks
    <3> QED
      BY <1>1, <3>2, <3>3 DEF asks
  <2>2. CASE UNCHANGED asks
    BY <1>1, <2>2 DEF asks
  <2> QED
    BY <1>3, <2>1, <2>2 DEF ReadsFrame
<1>4. ASSUME NEW c \in Conns,
             \/ \E r \in {"observer", "controller"} : Connects(c, r)
             \/ \E m \in {"status", "mark_valid", "reboot"} : Calls(c, m)
             \/ AnswersQuestion(c) \/ Reads(c) \/ Closes(c)
             \/ Claims(c) \/ HelloFails(c) \/ Welcomes(c) \/ WelcomeFails(c)
             \/ Releases(c) \/ ForwardsEvent(c)
             \/ SendsCommand(c) \/ TakesQuestion(c)
             \/ Writes(c) \/ WriteFails(c) \/ EndOfInput(c)
      PROVE  UNCHANGED asks
  BY <1>4 DEF Connects, Calls, AnswersQuestion, Reads, Closes, Claims, HelloFails,
              Welcomes, WelcomeFails, Releases, ForwardsEvent, SendsCommand,
              TakesQuestion, Writes, WriteFails, EndOfInput
<1>5. CASE SessionComesOrGoes \/ SendsQuestion \/ NobodyThere \/ Deadline \/ ServesCommand
  BY <1>1, <1>5 DEF SessionComesOrGoes, SendsQuestion, NobodyThere, Deadline, GivesUp,
                    ServesCommand, asks
<1>6. CASE Asks
  BY <1>2, <1>6 DEF Asks
<1>7. CASE UNCHANGED vars
  BY <1>1, <1>7 DEF vars, asks
<1>8. UNCHANGED asks => AnswersOwnQuestion'
  BY <1>1 DEF asks
<1> QED
  BY <1>3, <1>4, <1>5, <1>6, <1>7, <1>8 DEF Next, Pumps

LEMMA LabelStep ==
  ASSUME IInv, Typed, Labels, [Next]_vars
  PROVE  Labels'
<1>1. ASSUME NEW c \in Conns,
             \/ \E r \in {"observer", "controller"} : Connects(c, r)
             \/ \E m \in {"status", "mark_valid", "reboot"} : Calls(c, m)
             \/ AnswersQuestion(c) \/ Reads(c) \/ Closes(c)
      PROVE  Labels'
  BY <1>1, AppLabels
<1>2. ASSUME NEW c \in Conns,
             Claims(c) \/ HelloFails(c) \/ Welcomes(c) \/ WelcomeFails(c) \/ Releases(c)
      PROVE  Labels'
  BY <1>2, ServeLabels
<1>3. ASSUME NEW c \in Conns, ForwardsEvent(c) \/ Pumps(c)
      PROVE  Labels'
  <2>1. CASE WriteFails(c) \/ EndOfInput(c)
    BY <2>1, EndPumpLabels DEF WriteFails, EndOfInput
  <2> QED
    BY <1>3, <2>1, ReadsFrameLabels, SendsCommandLabels, TakesQuestionLabels,
       WritesLabels DEF Pumps
<1>4. CASE \/ SessionComesOrGoes \/ Asks \/ SendsQuestion \/ NobodyThere \/ Deadline
           \/ UNCHANGED vars
  <2>1. UNCHANGED <<app, stage, writing, nextId, outstanding>>
    BY <1>4 DEF SessionComesOrGoes, Asks, SendsQuestion, NobodyThere, Deadline, GivesUp,
                pump, vars
  <2> QED
    BY <2>1, SameLabels DEF app, Has
<1> QED
  BY <1>1, <1>2, <1>3, <1>4, ServesCommandLabels DEF Next

LEMMA InitLabels == Init => Labels /\ AnswersOwnQuestion
<1> SUFFICES ASSUME Init PROVE Labels /\ AnswersOwnQuestion
  OBVIOUS
<1>1. ASSUME NEW c \in Conns PROVE Labelled(c)
  <2>1. Sent(c) = {Reply}
    BY <1>1 DEF Init, Sent, Answered, Elems
  <2> QED
    BY <1>1, <2>1 DEF Init, Labelled, Reply
<1> QED
  BY <1>1 DEF Init, Labels, AnswersOwnQuestion

\* The answer that decides a question was given to that question: a late one is
\* dropped, and none is taken for the answer to another question or to another
\* connection's (Ipc::ask, outstanding in Ipc::pump).
THEOREM AnswersDecideTheirOwn == Spec => []AnswersOwnQuestion
<1>1. Init => OInv
  BY InitInv, InitTyped, InitLabels DEF OInv
<1>2. OInv /\ [Next]_vars => OInv'
  BY NextInv, TypeStep, LabelStep, VerdictStep DEF OInv
<1>3. OInv => AnswersOwnQuestion
  BY DEF OInv
<1> QED
  BY <1>1, <1>2, <1>3, PTL DEF Spec
-----------------------------------------------------------------------------
(* Callers and replies                                                     *)

\* The command that tells c what came of its mark_valid waits for the loop.
Heard(c) == \E i \in 1..Len(commands) : Waits(i) /\ commands[i].from = c

HInv == \A c \in Conns : stage[c] = "reply" => Heard(c)

LEMMA HeardStays ==
  ASSUME HInv, UNCHANGED commands,
         \A c \in Conns : stage'[c] = "reply" => stage[c] = "reply"
  PROVE  HInv'
BY DEF HInv, Heard, Waits

LEMMA HeardStep ==
  ASSUME IInv, Typed, HInv, [Next]_vars
  PROVE  HInv'
<1>q. commands \in Seq(Commands) /\ stage \in [Conns -> Stages]
  BY DEF Typed, Loop, Places
<1>1. ASSUME NEW c \in Conns,
             \/ \E r \in {"observer", "controller"} : Connects(c, r)
             \/ \E m \in {"status", "mark_valid", "reboot"} : Calls(c, m)
             \/ AnswersQuestion(c) \/ Reads(c) \/ Closes(c)
             \/ Claims(c) \/ HelloFails(c) \/ Welcomes(c) \/ WelcomeFails(c)
             \/ Releases(c) \/ ForwardsEvent(c)
             \/ ReadsFrame(c) \/ TakesQuestion(c)
             \/ Writes(c) \/ WriteFails(c) \/ EndOfInput(c)
      PROVE  HInv'
  <2>1. /\ UNCHANGED commands
        /\ UNCHANGED stage \/ \E s \in Stages \ {"reply"} : Goto(c, s)
    BY <1>1 DEF Connects, Calls, AnswersQuestion, Reads, Closes, Claims, HelloFails,
                Welcomes, WelcomeFails, Releases, ForwardsEvent, ReadsFrame,
                TakesQuestion, Writes, WriteFails, EndOfInput, EndPump, Gone, Write,
                pump, Stages
  <2>2. \A d \in Conns : stage'[d] = "reply" => stage[d] = "reply"
    BY <1>q, <2>1 DEF Goto
  <2> QED
    BY <2>1, <2>2, HeardStays
<1>2. ASSUME NEW c \in Conns, SendsCommand(c) PROVE HInv'
  <2>1. PICK kind \in {"mark_valid", "reboot"} :
          /\ commands' = Append(commands, [kind |-> kind, from |-> c])
          /\ \/ kind = "mark_valid" /\ stage' = [stage EXCEPT ![c] = "reply"]
             \/ kind = "reboot" /\ stage' = [stage EXCEPT ![c] = "write"]
    BY <1>2 DEF SendsCommand, Goto
  <2> DEFINE n == Len(commands)
  <2>2. [kind |-> kind, from |-> c] \in Commands
    BY DEF Commands
  <2>3. /\ n \in Nat /\ Len(commands') = n + 1
        /\ \A i \in 1..n : commands'[i] = commands[i]
        /\ commands'[n + 1].kind = kind /\ commands'[n + 1].from = c
    BY <1>q, <2>1, <2>2, AppendTo
  <2> HIDE DEF n
  <2>4. \A d \in Conns : Heard(d) => Heard(d)'
    <3> SUFFICES ASSUME NEW d \in Conns, Heard(d) PROVE Heard(d)'
      OBVIOUS
    <3>1. PICK i \in 1..n : Waits(i) /\ commands[i].from = d
      BY DEF Heard, n
    <3>2. i \in 1..Len(commands') /\ commands'[i] = commands[i]
      BY <2>3
    <3> QED
      BY <3>1, <3>2 DEF Heard, Waits
  <2>5. kind = "mark_valid" => Heard(c)'
    <3>1. n + 1 \in 1..Len(commands')
      BY <2>3
    <3> QED
      BY <2>3, <3>1 DEF Heard, Waits
  <2> QED
    BY <1>q, <2>1, <2>4, <2>5 DEF HInv
<1>3. CASE ServesCommand
  <2>1. /\ commands # <<>> /\ commands' = Tail(commands)
        /\ \/ commands[1].kind = "mark_valid"
                /\ stage' = [stage EXCEPT ![commands[1].from] = "write"]
           \/ commands[1].kind = "reboot" /\ stage' = stage
    BY <1>3, <1>q, TailOf DEF ServesCommand, Goto
  <2>2. /\ Len(commands) \in Nat /\ Len(commands') = Len(commands) - 1
        /\ \A i \in 1..(Len(commands) - 1) : commands'[i] = commands[i + 1]
        /\ commands[1].from \in Conns
    <3>1. 1 \in 1..Len(commands) /\ \A i \in 1..Len(commands) : commands[i] \in Commands
      BY <1>q, <2>1, TailOf
    <3> QED
      BY <1>q, <2>1, <3>1, TailOf DEF Commands
  <2>3. ASSUME NEW d \in Conns, stage'[d] = "reply" PROVE Heard(d)'
    <3>1. /\ stage[d] = "reply"
          /\ commands[1].kind = "mark_valid" => d # commands[1].from
      BY <1>q, <2>1, <2>2, <2>3
    <3>2. PICK i \in 1..Len(commands) : Waits(i) /\ commands[i].from = d
      BY <3>1 DEF HInv, Heard
    <3>3. i # 1
      BY <3>1, <3>2 DEF Waits
    <3> DEFINE k == i - 1
    <3>4. k \in 1..Len(commands') /\ k \in 1..(Len(commands) - 1) /\ k + 1 = i
      BY <2>2, <3>3
    <3> HIDE DEF k
    <3>5. commands'[k] = commands[i]
      BY <2>2, <3>4
    <3> QED
      BY <3>2, <3>4, <3>5 DEF Heard, Waits
  <2> QED
    BY <2>3 DEF HInv
<1>4. CASE \/ SessionComesOrGoes \/ Asks \/ SendsQuestion \/ NobodyThere \/ Deadline
           \/ UNCHANGED vars
  <2>1. UNCHANGED <<stage, commands>>
    BY <1>4 DEF SessionComesOrGoes, Asks, SendsQuestion, NobodyThere, Deadline, GivesUp,
                pump, vars
  <2> QED
    BY <2>1, HeardStays
<1> QED
  BY <1>1, <1>2, <1>3, <1>4 DEF Next, Pumps

\* A pump that waits for the outcome of mark_valid has its command in the
\* channel, and no command there is of a caller that does not wait
\* (Ipc::handle_method, and the session loop's Command::MarkValid).
THEOREM CallersHeard == Spec => []CallersAreHeard
<1>1. Init => IInv /\ Typed /\ HInv
  BY InitInv, InitTyped DEF Init, HInv
<1>2. IInv /\ Typed /\ HInv /\ [Next]_vars => (IInv /\ Typed /\ HInv)'
  BY NextInv, TypeStep, HeardStep
<1>3. IInv /\ Typed /\ HInv => CallersAreHeard
  <2> SUFFICES ASSUME IInv, Typed, HInv, NEW c \in Conns
               PROVE  stage[c] = "reply" <=>
                        \E i \in 1..Len(commands) :
                          commands[i] = [kind |-> "mark_valid", from |-> c]
    BY DEF CallersAreHeard
  <2>1. \A i \in 1..Len(commands) : commands[i] \in Commands
    BY DEF Typed, Loop
  <2>2. ASSUME NEW i \in 1..Len(commands)
        PROVE  commands[i] = [kind |-> "mark_valid", from |-> c]
                 <=> Waits(i) /\ commands[i].from = c
    BY <2>1 DEF Waits, Commands
  <2>3. Heard(c) <=> \E i \in 1..Len(commands) :
                       commands[i] = [kind |-> "mark_valid", from |-> c]
    BY <2>2 DEF Heard
  <2>4. Heard(c) => stage[c] = "reply"
    BY DEF IInv, CallersWait, Heard
  <2> QED
    BY <2>3, <2>4 DEF HInv
<1> QED
  BY <1>1, <1>2, <1>3, PTL DEF Spec

\* A question is put to a connection, and a connection that has not been let in
\* is none that was asked.
Asking ==
  /\ loop \in {"sending", "waiting"} => target \in Conns
  /\ \A c \in Conns : stage[c] = "hello" => slot # c /\ target # c

Kept == OInv /\ Asking /\ ReplyIsKept

LEMMA AskingStays ==
  ASSUME Asking, loop' = loop, target' = target, slot' = slot,
         \A c \in Conns : stage'[c] = "hello" => stage[c] = "hello"
  PROVE  Asking'
BY DEF Asking

LEMMA AskingStep ==
  ASSUME Typed, Asking, [Next]_vars
  PROVE  Asking'
<1>q. stage \in [Conns -> Stages] /\ slot \in Conns \cup {None}
  BY DEF Typed, Loop, Places
<1>1. ASSUME NEW c \in Conns, NEW r \in {"observer", "controller"}, Connects(c, r)
      PROVE  Asking'
  BY <1>q, <1>1 DEF Connects, Goto, Asking, asks
<1>2. ASSUME NEW c \in Conns,
             Claims(c) \/ HelloFails(c) \/ Releases(c)
      PROVE  Asking'
  <2>1. /\ slot' \in {slot, c, None} /\ UNCHANGED <<loop, target>>
        /\ stage' = [stage EXCEPT ![c] = "free"] \/ stage' = [stage EXCEPT ![c] = "welcome"]
    BY <1>2 DEF Claims, HelloFails, Releases, Gone, Goto, asks
  <2> QED
    BY <1>q, <2>1, IpcAssumption DEF Asking
<1>3. ASSUME NEW c \in Conns,
             \/ \E m \in {"status", "mark_valid", "reboot"} : Calls(c, m)
             \/ AnswersQuestion(c) \/ Reads(c) \/ Closes(c)
             \/ Welcomes(c) \/ WelcomeFails(c) \/ ForwardsEvent(c)
             \/ SendsCommand(c) \/ TakesQuestion(c)
             \/ Writes(c) \/ WriteFails(c) \/ EndOfInput(c)
      PROVE  Asking'
  <2>1. /\ UNCHANGED <<slot, loop, target>>
        /\ UNCHANGED stage \/ \E s \in Stages \ {"hello"} : Goto(c, s)
    BY <1>3 DEF Calls, AnswersQuestion, Reads, Closes, Welcomes, WelcomeFails,
                ForwardsEvent, SendsCommand, TakesQuestion, Writes, WriteFails,
                EndOfInput, EndPump, Gone, Write, pump, asks, Stages
  <2>2. \A d \in Conns : stage'[d] = "hello" => stage[d] = "hello"
    BY <1>q, <2>1 DEF Goto
  <2> QED
    BY <2>1, <2>2, AskingStays
<1>4. ASSUME NEW c \in Conns, ReadsFrame(c) PROVE Asking'
  <2>1. /\ slot' = slot
        /\ UNCHANGED stage \/ \E s \in Stages \ {"hello"} : Goto(c, s)
        /\ UNCHANGED asks \/ (loop' = "serving" /\ target' = None)
    BY <1>4 DEF ReadsFrame, Accept, Deliver, Write, Stages
  <2>2. \A d \in Conns : stage'[d] = "hello" => stage[d] = "hello"
    BY <1>q, <2>1 DEF Goto
  <2> QED
    BY <2>1, <2>2, IpcAssumption DEF Asking, asks
<1>5. CASE SessionComesOrGoes \/ Asks \/ NobodyThere \/ Deadline
  <2>1. /\ UNCHANGED <<stage, slot>>
        /\ \/ loop' \in {"away", "serving"} /\ target' \in {target, None}
           \/ slot # None /\ target' = slot
    BY <1>5 DEF SessionComesOrGoes, Asks, NobodyThere, Deadline, GivesUp, pump
  <2> QED
    BY <1>q, <2>1, IpcAssumption DEF Asking
<1>6. CASE SendsQuestion \/ UNCHANGED vars
  BY <1>6 DEF SendsQuestion, Asking, vars, pump, asks
<1>7. CASE ServesCommand
  <2>1. /\ UNCHANGED <<slot, loop, target>>
        /\ UNCHANGED stage \/ Goto(Head(commands).from, "write")
    BY <1>7 DEF ServesCommand, asks
  <2>2. \A d \in Conns : stage'[d] = "hello" => stage[d] = "hello"
    BY <1>q, <2>1 DEF Goto
  <2> QED
    BY <2>1, <2>2, AskingStays
<1> QED
  BY <1>1, <1>2, <1>3, <1>4, <1>5, <1>6, <1>7 DEF Next, Pumps

\* What may hold the reply to question q at connection c.
Holds(c, q) == q \in Elems(queue[c]) \/ \E entry \in outstanding[c] : entry.about = q

LEMMA ReplyIsHeld ==
  ReplyIsKept <=> (loop = "waiting" /\ Listening(target) => Holds(target, asked))
BY DEF ReplyIsKept, Holds, Elems

\* A step of another connection, or one that keeps what this one holds.
LEMMA HoldsStays ==
  ASSUME Asking, ReplyIsKept, UNCHANGED asks,
         \A d \in Conns : Listening(d)' /\ target = d =>
           /\ Listening(d)
           /\ \A q : Holds(d, q) => Holds(d, q)'
  PROVE  ReplyIsKept'
<1> SUFFICES ASSUME loop = "waiting", Listening(target)'
             PROVE  Holds(target, asked)'
  BY DEF ReplyIsKept, Holds, Elems, asks, Listening
<1>1. target \in Conns
  BY DEF Asking
<1>2. Listening(target) /\ (Holds(target, asked) => Holds(target, asked)')
  BY <1>1 DEF asks
<1> QED
  BY <1>2, ReplyIsHeld

\* Taken from the channel, the question is kept with its reply.
LEMMA TakesQuestionKeeps ==
  ASSUME Typed, Asking, ReplyIsKept, NEW c \in Conns, TakesQuestion(c)
  PROVE  ReplyIsKept'
<1> DEFINE request == [id |-> nextId[c] + 1, about |-> Head(queue[c])]
<1>1. /\ stage[c] = "select" /\ stage' = [stage EXCEPT ![c] = "write"]
      /\ queue[c] # <<>> /\ queue' = [queue EXCEPT ![c] = Tail(@)]
      /\ outstanding' = [outstanding EXCEPT ![c] = @ \cup {request}]
      /\ UNCHANGED <<role, asks>>
  BY DEF TakesQuestion, Write, Goto, Typed, Places
<1>2. /\ queue \in [Conns -> Seq(Questions)] /\ stage \in [Conns -> Stages]
      /\ outstanding \in [Conns -> SUBSET Frames]
  BY DEF Typed, Queues, Places
<1>3. \A q \in Elems(queue[c]) : q = request.about \/ q \in Elems(queue'[c])
  <2>1. queue[c] \in Seq(Questions) /\ queue'[c] = Tail(queue[c])
    BY <1>1, <1>2
  <2>2. /\ Head(queue[c]) = queue[c][1] /\ Len(queue[c]) \in Nat
        /\ Len(queue'[c]) = Len(queue[c]) - 1
        /\ \A i \in 1..(Len(queue[c]) - 1) : queue'[c][i] = queue[c][i + 1]
    BY <1>1, <2>1, TailOf
  <2>3. ASSUME NEW i \in 1..Len(queue[c]), i # 1 PROVE queue[c][i] \in Elems(queue'[c])
    <3> DEFINE k == i - 1
    <3>1. k \in 1..Len(queue'[c]) /\ k \in 1..(Len(queue[c]) - 1) /\ k + 1 = i
      BY <2>2, <2>3
    <3> HIDE DEF k
    <3>2. queue'[c][k] = queue[c][i]
      BY <2>2, <3>1
    <3> QED
      BY <3>1, <3>2 DEF Elems
  <2> QED
    BY <2>2, <2>3 DEF Elems
<1>4. outstanding'[c] = outstanding[c] \cup {request}
  BY <1>1, <1>2
<1>5. \A q : Holds(c, q) => Holds(c, q)'
  <2> SUFFICES ASSUME NEW q, Holds(c, q) PROVE Holds(c, q)'
    OBVIOUS
  <2> HIDE DEF request
  <2>1. CASE q \in Elems(queue[c])
    <3>1. q = request.about \/ q \in Elems(queue'[c])
      BY <1>3, <2>1
    <3>2. request \in outstanding'[c]
      BY <1>4
    <3> QED
      BY <3>1, <3>2 DEF Holds
  <2>2. CASE \E entry \in outstanding[c] : entry.about = q
    BY <1>4, <2>2 DEF Holds
  <2> QED
    BY <2>1, <2>2 DEF Holds
<1>6. \A d \in Conns : d # c =>
        /\ stage'[d] = stage[d] /\ role'[d] = role[d]
        /\ queue'[d] = queue[d] /\ outstanding'[d] = outstanding[d]
  BY <1>1, <1>2
<1>7. ASSUME NEW d \in Conns, Listening(d)'
      PROVE  Listening(d) /\ \A q : Holds(d, q) => Holds(d, q)'
  <2>1. CASE d = c
    BY <1>1, <1>5, <1>7, <2>1 DEF Listening
  <2>2. CASE d # c
    BY <1>6, <1>7, <2>2 DEF Listening, Holds
  <2> QED
    BY <2>1, <2>2
<1> QED
  BY <1>1, <1>7, HoldsStays

\* An answer takes the replies with its id, all of them to one question: when
\* that is the question that waits, it waits no longer.
LEMMA ReadsFrameKeeps ==
  ASSUME Typed, Labels, Asking, ReplyIsKept, NEW c \in Conns, ReadsFrame(c)
  PROVE  ReplyIsKept'
<1> DEFINE answer == Head(inbox[c]).request
<1> DEFINE kept == {entry \in outstanding[c] : entry.id = answer.id}
<1>q. /\ stage \in [Conns -> Stages] /\ outstanding \in [Conns -> SUBSET Frames]
  BY DEF Typed, Places
<1>1. /\ stage[c] = "select" /\ UNCHANGED <<role, queue>>
      /\ UNCHANGED stage \/ Goto(c, "write") \/ Goto(c, "command")
  BY DEF ReadsFrame, Write
<1>2. \A d \in Conns : (Listening(d)' <=> Listening(d))
  BY <1>q, <1>1 DEF Goto, Listening
<1>3. CASE UNCHANGED <<outstanding, asks>>
  <2>1. ASSUME NEW d \in Conns, Listening(d)'
        PROVE  Listening(d) /\ \A q : Holds(d, q) => Holds(d, q)'
    BY <1>1, <1>2, <1>3, <2>1 DEF Holds
  <2> QED
    BY <1>3, <2>1, HoldsStays
<1>4. CASE Accept(c, answer)
  <2>1. outstanding' = [outstanding EXCEPT ![c] = @ \ kept]
    BY <1>4 DEF Accept
  <2>2. \/ kept = {} /\ UNCHANGED asks
        \/ \E entry \in kept : Deliver(c, entry.about, answer)
    BY <1>4 DEF Accept
  <2>3. CASE kept = {} /\ UNCHANGED asks
    <3>1. outstanding' = outstanding
      BY <1>q, <2>1, <2>3
    <3> QED
      BY <1>3, <2>3, <3>1
  <2>4. ASSUME NEW entry \in kept, Deliver(c, entry.about, answer)
        PROVE  ReplyIsKept'
    <3>1. CASE loop = "waiting" /\ target = c /\ asked = entry.about
      BY <2>4, <3>1 DEF Deliver, ReplyIsKept
    <3>2. CASE ~(loop = "waiting" /\ target = c /\ asked = entry.about)
      <4>1. UNCHANGED asks
        BY <2>4, <3>2 DEF Deliver
      <4>2. \A other \in kept : other.about = entry.about
        BY <2>4 DEF Labels, Labelled, Sent
      <4>3. SUFFICES ASSUME loop = "waiting", Listening(target)'
                     PROVE  Holds(target, asked)'
        BY <4>1 DEF ReplyIsKept, Holds, Elems, asks, Listening
      <4>4. target \in Conns /\ Listening(target) /\ Holds(target, asked)
            /\ asked' = asked /\ target' = target
        <5>1. target \in Conns /\ asked' = asked /\ target' = target
          BY <4>1, <4>3 DEF Asking, asks
        <5>2. Listening(target)
          BY <1>2, <4>3, <5>1
        <5> QED
          BY <4>3, <5>1, <5>2, ReplyIsHeld
      <4>5. CASE target = c
        <5>1. asked # entry.about
          BY <3>2, <4>3, <4>5
        <5>2. \A other \in outstanding[c] : other.about = asked => other \in outstanding'[c]
          BY <1>q, <2>1, <4>2, <5>1
        <5> QED
          BY <1>1, <4>4, <4>5, <5>2 DEF Holds
      <4>6. CASE target # c
        <5>1. outstanding'[target] = outstanding[target] /\ queue' = queue
          BY <1>q, <1>1, <2>1, <4>4, <4>6
        <5> QED
          BY <4>4, <5>1 DEF Holds
      <4> QED
        BY <4>5, <4>6
    <3> QED
      BY <3>1, <3>2
  <2> QED
    BY <2>2, <2>3, <2>4
<1> QED
  BY <1>3, <1>4 DEF ReadsFrame

LEMMA KeptStep ==
  ASSUME Typed, Labels, Asking, ReplyIsKept, [Next]_vars
  PROVE  ReplyIsKept'
<1>q. /\ stage \in [Conns -> Stages] /\ role \in [Conns -> {"observer", "controller"}]
      /\ outstanding \in [Conns -> SUBSET Frames]
      /\ queue \in [Conns -> Seq(Questions)]
  BY DEF Typed, Places, Queues
\* What c does, when it is not asked, or nobody listens to it any more.
<1>a. ASSUME NEW c \in Conns, UNCHANGED asks, target # c \/ ~Listening(c)',
             \A d \in Conns : d # c =>
               /\ stage'[d] = stage[d] /\ role'[d] = role[d]
               /\ queue'[d] = queue[d] /\ outstanding'[d] = outstanding[d]
      PROVE  ReplyIsKept'
  <2>1. ASSUME NEW d \in Conns, Listening(d)', target = d
        PROVE  Listening(d) /\ \A q : Holds(d, q) => Holds(d, q)'
    BY <1>a, <2>1 DEF Listening, Holds
  <2> QED
    BY <1>a, <2>1, HoldsStays
\* What it does with its own hands, and not to the channel or the replies.
<1>b. ASSUME UNCHANGED <<queue, outstanding, asks>>,
             \A d \in Conns : Listening(d)' => Listening(d)
      PROVE  ReplyIsKept'
  BY <1>b, HoldsStays DEF Holds
<1>1. ASSUME NEW c \in Conns, NEW r \in {"observer", "controller"}, Connects(c, r)
      PROVE  ReplyIsKept'
  <2>1. /\ target # c /\ stage' = [stage EXCEPT ![c] = "hello"]
        /\ role' = [role EXCEPT ![c] = r] /\ UNCHANGED <<queue, outstanding, asks>>
    BY <1>1 DEF Connects, Goto
  <2> QED
    BY <1>q, <1>a, <2>1
<1>2. ASSUME NEW c \in Conns,
             \/ \E m \in {"status", "mark_valid", "reboot"} : Calls(c, m)
             \/ AnswersQuestion(c) \/ Reads(c) \/ Closes(c)
      PROVE  ReplyIsKept'
  <2>1. UNCHANGED <<pump, asks>>
    BY <1>2 DEF Calls, AnswersQuestion, Reads, Closes
  <2> QED
    BY <1>b, <2>1 DEF pump, Listening
<1>3. ASSUME NEW c \in Conns, Claims(c) \/ HelloFails(c) PROVE ReplyIsKept'
  <2>1. /\ stage[c] = "hello" /\ UNCHANGED <<role, queue, outstanding, asks>>
        /\ \A d \in Conns : d # c => stage'[d] = stage[d]
    BY <1>q, <1>3 DEF Claims, HelloFails, Gone, Goto
  <2>2. target # c
    BY <2>1 DEF Asking
  <2> QED
    BY <1>a, <2>1, <2>2
<1>4. ASSUME NEW c \in Conns, Gone(c), UNCHANGED <<role, outstanding, asks>>,
             queue' = queue \/ queue' = [queue EXCEPT ![c] = <<>>]
      PROVE  ReplyIsKept'
  <2>1. /\ stage'[c] = "free"
        /\ \A d \in Conns : d # c => stage'[d] = stage[d] /\ queue'[d] = queue[d]
    BY <1>q, <1>4 DEF Gone, Goto
  <2> QED
    BY <1>4, <1>a, <2>1 DEF Listening
<1>5. ASSUME NEW c \in Conns, EndPump(c), UNCHANGED <<role, asks>> PROVE ReplyIsKept'
  <2>1. /\ stage'[c] = "ended"
        /\ \A d \in Conns : d # c =>
             /\ stage'[d] = stage[d]
             /\ queue'[d] = queue[d] /\ outstanding'[d] = outstanding[d]
    BY <1>q, <1>5 DEF EndPump, Goto
  <2> QED
    BY <1>5, <1>a, <2>1 DEF Listening
<1>6. ASSUME NEW c \in Conns,
             Welcomes(c) \/ ForwardsEvent(c) \/ SendsCommand(c) \/ Writes(c)
      PROVE  ReplyIsKept'
  <2>1. /\ UNCHANGED <<role, queue, outstanding, asks>>
        /\ stage[c] \in {"welcome", "select", "command", "write"}
        /\ \E s \in {"select", "write", "reply"} : Goto(c, s)
    BY <1>6 DEF Welcomes, ForwardsEvent, SendsCommand, Writes, Write
  <2>2. \A d \in Conns : Listening(d)' => Listening(d)
    BY <1>q, <2>1 DEF Goto, Listening
  <2> QED
    BY <1>b, <2>1, <2>2
<1>7. ASSUME loop' # "waiting" PROVE ReplyIsKept'
  BY <1>7 DEF ReplyIsKept
<1>8. CASE SessionComesOrGoes \/ Asks \/ NobodyThere \/ Deadline \/ ServesCommand
  <2>1. loop' # "waiting"
    BY <1>8 DEF SessionComesOrGoes, Asks, NobodyThere, Deadline, GivesUp, ServesCommand,
                asks
  <2> QED
    BY <1>7, <2>1
<1>9. CASE SendsQuestion
  <2>1. /\ target \in Conns /\ target' = target /\ asked' = asked
        /\ queue' = [queue EXCEPT ![target] = Append(@, asked)]
    BY <1>9 DEF SendsQuestion, Asking
  <2>2. queue[target] \in Seq(Questions) /\ queue'[target] = Append(queue[target], asked)
    BY <1>q, <2>1
  <2>3. /\ Len(queue'[target]) = Len(queue[target]) + 1 /\ Len(queue[target]) \in Nat
        /\ queue'[target][Len(queue[target]) + 1] = asked
    BY <2>2
  <2>4. Len(queue[target]) + 1 \in 1..Len(queue'[target])
    BY <2>3
  <2> QED
    BY <2>1, <2>3, <2>4 DEF ReplyIsKept
<1>10. CASE UNCHANGED vars
  BY <1>10, <1>b DEF vars, pump, Listening
<1> QED
  BY <1>1, <1>2, <1>3, <1>4, <1>5, <1>6, <1>8, <1>9, <1>10, ReadsFrameKeeps,
     TakesQuestionKeeps
     DEF Next, Pumps, WelcomeFails, Releases, WriteFails, EndOfInput

\* While the loop waits on a controller that listens, nothing takes away the reply
\* it waits for, but the answer to its question (outstanding in Ipc::pump).
THEOREM RepliesAreKept == Spec => []ReplyIsKept
<1>1. Init => Kept
  BY InitInv, InitTyped, InitLabels, IpcAssumption
     DEF Kept, OInv, Init, Asking, ReplyIsKept
<1>2. Kept /\ [Next]_vars => Kept'
  BY NextInv, TypeStep, LabelStep, VerdictStep, AskingStep, KeptStep DEF Kept, OInv
<1>3. Kept => ReplyIsKept
  BY DEF Kept
<1> QED
  BY <1>1, <1>2, <1>3, PTL DEF Spec

\* Whoever waits, a caller for its outcome or the loop for an answer, waits for
\* something that is still under way (Ipc::handle_method, Ipc::ask, Ipc::pump).
THEOREM NoOrphanedWaits == Spec => []NoWaitIsOrphaned
BY CallersHeard, RepliesAreKept, PTL DEF NoWaitIsOrphaned
=============================================================================
