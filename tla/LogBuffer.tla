----------------------------- MODULE LogBuffer -----------------------------
(***************************************************************************)
(* The way of a log line: from the tail's task, through its channel, into  *)
(* the buffer the session loop flushes once a second                       *)
(* (src/extensions/logging.rs and the arms of src/agent.rs that use it).   *)
(*                                                                         *)
(* A line is its number: line n is the n-th the source produced, and n     *)
(* stands for its timestamp too.                                           *)
(***************************************************************************)
EXTENDS Integers, Sequences

CONSTANTS
  MaxBatch,        \* max_lines_per_batch
  PendingBatches,  \* how many batches the buffer holds
  ChannelSize,     \* capacity of the tail's channel
  MaxLines         \* bound on the lines the source produces

ASSUME LogAssumption ==
  /\ MaxBatch \in Nat /\ PendingBatches \in Nat
  /\ ChannelSize \in Nat /\ MaxLines \in Nat

VARIABLES
  written,     \* lines the tail has read
  channel,     \* read, and not yet taken by the session loop
  lines,       \* Pending.lines
  dropped,     \* Pending.dropped
  gapOpened,   \* Pending.gap_opened; 0 when it is None
  covered,     \* lines the accepted messages carried or reported as dropped
  message,     \* the last message the socket accepted
  session      \* "down", "up", or "attached" once logging is attached

buffer == <<lines, dropped, gapOpened>>
vars == <<written, channel, buffer, covered, message, session>>

\* Pending::new never makes a buffer of no capacity.
Capacity == IF MaxBatch * PendingBatches = 0 THEN 1 ELSE MaxBatch * PendingBatches

\* A message: how many dropped lines its notice reports (none without one),
\* the notice's timestamp, and the lines after it.
Message == [gap : Nat, time : Nat, lines : Seq(Nat)]
Nothing == [gap |-> 0, time |-> 0, lines |-> <<>>]

Notices(gap) == IF gap > 0 THEN 1 ELSE 0
Size(m) == Notices(m.gap) + Len(m.lines)

\* Types, and the bounds: the buffer's, and each message's, the notice included
\* (Pending::push and batch).
TypeOK ==
  /\ written \in 0..MaxLines
  /\ channel \in Seq(Nat) /\ Len(channel) <= ChannelSize
  /\ lines \in Seq(Nat) /\ Len(lines) <= Capacity
  /\ dropped \in Nat
  /\ gapOpened \in Nat
  /\ covered \in Nat
  /\ message \in Message /\ Size(message) <= MaxBatch
  /\ session \in {"down", "up", "attached"}

Init ==
  /\ written = 0 /\ channel = <<>>
  /\ lines = <<>> /\ dropped = 0 /\ gapOpened = 0
  /\ covered = 0 /\ message = Nothing
  /\ session = "down"
-----------------------------------------------------------------------------
\* The tail's task; a full channel makes it wait.
TailReads ==
  /\ written < MaxLines
  /\ Len(channel) < ChannelSize
  /\ written' = written + 1
  /\ channel' = Append(channel, written')
  /\ UNCHANGED <<buffer, covered, message, session>>

\* Mutant: the lines that make room are not counted.
PushUncounted(line) ==
  /\ lines' = Append(IF Len(lines) < Capacity THEN lines ELSE Tail(lines), line)
  /\ UNCHANGED <<dropped, gapOpened>>

\* Pending::push.  The buffer is over its capacity by at most the line pushed.
Push(line) ==
  IF Len(lines) < Capacity
  THEN /\ lines' = Append(lines, line)
       /\ UNCHANGED <<dropped, gapOpened>>
  ELSE /\ lines' = Append(Tail(lines), line)
       /\ dropped' = dropped + 1
       /\ gapOpened' = IF gapOpened = 0 THEN written ELSE gapOpened

RecvLog ==
  /\ session # "down"
  /\ channel # <<>>
  /\ Push(Head(channel))
  /\ channel' = Tail(channel)
  /\ UNCHANGED <<written, covered, message, session>>

SessionStarts ==
  /\ session = "down"
  /\ session' = "up"
  /\ UNCHANGED <<written, channel, buffer, covered, message>>

Attach ==
  /\ session = "up"
  /\ session' = "attached"
  /\ UNCHANGED <<written, channel, buffer, covered, message>>

\* The buffer outlives the session.
SessionEnds ==
  /\ session # "down"
  /\ session' = "down"
  /\ UNCHANGED <<written, channel, buffer, covered, message>>

\* Pending::batch: the notice counts against the size like a line.
Room(max, taken) == IF max > taken THEN max - taken ELSE 0

FirstLines(n) == SubSeq(lines, 1, IF n < Len(lines) THEN n ELSE Len(lines))

\* Mutant: the notice goes on top of a whole batch.
BatchBesideNotice(max) ==
  IF max = 0 THEN Nothing
  ELSE [gap |-> dropped, time |-> gapOpened, lines |-> FirstLines(max)]

Batch(max) ==
  IF max = 0 THEN Nothing
  ELSE [gap |-> dropped, time |-> gapOpened,
        lines |-> FirstLines(Room(max, Notices(dropped)))]

\* Mutant: the notice is not counted among what went.
SentForgettingNotice(count) ==
  /\ dropped' = IF count > 0 THEN 0 ELSE dropped
  /\ gapOpened' = IF count > 0 THEN 0 ELSE gapOpened
  /\ lines' = SubSeq(lines, count + 1, Len(lines))

\* Pending::sent: the notice is the first of what went.
Sent(count) ==
  LET noticed == dropped > 0 /\ count > 0
      popped  == IF noticed THEN count - 1 ELSE count
  IN  /\ dropped' = IF noticed THEN 0 ELSE dropped
      /\ gapOpened' = IF noticed THEN 0 ELSE gapOpened
      /\ lines' = SubSeq(lines, popped + 1, Len(lines))

Waiting == lines # <<>> \/ dropped > 0

\* Mutant: a flush waits until a whole batch is there.
FlushWhole ==
  /\ session = "attached"
  /\ Len(lines) >= MaxBatch
  /\ message' = Batch(MaxBatch)
  /\ Sent(Size(message'))
  /\ covered' = covered + message'.gap + Len(message'.lines)
  /\ UNCHANGED <<written, channel, session>>

\* The flush, when the socket accepts the message.
Flush ==
  /\ session = "attached"
  /\ Waiting
  /\ message' = Batch(MaxBatch)
  /\ Sent(Size(message'))
  /\ covered' = covered + message'.gap + Len(message'.lines)
  /\ UNCHANGED <<written, channel, session>>

\* The flush, when the socket refuses it: nothing is forgotten.
FlushFails ==
  /\ session = "attached"
  /\ Waiting
  /\ session' = "down"
  /\ UNCHANGED <<written, channel, buffer, covered, message>>

Next ==
  \/ TailReads \/ RecvLog
  \/ SessionStarts \/ Attach \/ SessionEnds
  \/ Flush \/ FlushFails

Spec == Init /\ [][Next]_vars

\* The loop's arms are served; sessions come back, and logging is attached,
\* again and again.
LiveSpec ==
  /\ Spec
  /\ WF_vars(SessionStarts)
  /\ SF_vars(Attach)
  /\ SF_vars(RecvLog)
  /\ SF_vars(Flush)
-----------------------------------------------------------------------------
\* Every line that was read is covered by an accepted message, or dropped and
\* still to be reported, or waiting, in this order and none of them twice
\* (Pending::push, batch and sent, over failed sends and reconnects).
NothingUnaccounted ==
  /\ written = covered + dropped + Len(lines) + Len(channel)
  /\ \A i \in 1..Len(lines) : lines[i] = covered + dropped + i
  /\ \A i \in 1..Len(channel) :
       channel[i] = covered + dropped + Len(lines) + i

\* What a message carries starts where the last one ended, after exactly the
\* gap that its notice reports: no line goes missing unreported, or goes twice.
GapsAreReported ==
  [][covered' # covered =>
       \A i \in 1..Len(message'.lines) :
         message'.lines[i] = covered + message'.gap + i]_vars

\* With sessions that come back and get logging attached, whatever waits goes.
Drains == Waiting ~> ~Waiting
=============================================================================
