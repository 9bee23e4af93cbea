-------------------------- MODULE LogBufferProofs --------------------------
(***************************************************************************)
(* Proofs about LogBuffer, for every batch size, buffer and channel: every *)
(* line is accounted for, the bounds are kept, and what a message carries  *)
(* starts where the last one ended, after the gap it reports.              *)
(***************************************************************************)
EXTENDS LogBuffer, TLAPS

USE LogAssumption

\* NothingUnaccounted by parts: the count, the buffer's order, the channel's.
Counted == written = covered + dropped + Len(lines) + Len(channel)

BufferInOrder == \A i \in 1..Len(lines) : lines[i] = covered + dropped + i

ChannelInOrder ==
  \A i \in 1..Len(channel) : channel[i] = covered + dropped + Len(lines) + i

Typed ==
  /\ written \in Nat /\ written <= MaxLines
  /\ channel \in Seq(Nat) /\ Len(channel) <= ChannelSize
  /\ lines \in Seq(Nat)
  /\ dropped \in Nat /\ gapOpened \in Nat /\ covered \in Nat
  /\ message \in Message
  /\ session \in {"down", "up", "attached"}

\* The inductive invariant.
IInv ==
  /\ Typed
  /\ Counted /\ BufferInOrder /\ ChannelInOrder
  /\ Len(lines) <= Capacity
  /\ Size(message) <= MaxBatch

\* A buffer is never without capacity.
LEMMA CapacityPositive == Capacity \in Nat /\ Capacity >= 1
<1> DEFINE product == MaxBatch * PendingBatches
<1>1. product \in Nat
  OBVIOUS
<1> HIDE DEF product
<1>2. (IF product = 0 THEN 1 ELSE product) \in Nat
      /\ (IF product = 0 THEN 1 ELSE product) >= 1
  BY <1>1
<1> QED
  BY <1>2 DEF Capacity, product

\* What a flush takes from the buffer: a prefix that fits next to the notice.
LEMMA BatchFits ==
  ASSUME Typed
  PROVE  /\ Batch(MaxBatch) \in Message
         /\ Size(Batch(MaxBatch)) <= MaxBatch
         /\ Len(Batch(MaxBatch).lines) <= Len(lines)
         /\ \A i \in 1..Len(Batch(MaxBatch).lines) :
              Batch(MaxBatch).lines[i] = lines[i]
         /\ Batch(MaxBatch).gap \in {0, dropped}
         /\ Size(Batch(MaxBatch)) = 0
              => Batch(MaxBatch).gap = 0 /\ Len(Batch(MaxBatch).lines) = 0
         /\ Size(Batch(MaxBatch)) > 0 => Batch(MaxBatch).gap = dropped
<1>1. CASE MaxBatch = 0
  BY <1>1 DEF Batch, Nothing, Message, Size, Notices, Typed
<1>2. CASE MaxBatch # 0
  <2> DEFINE room == Room(MaxBatch, Notices(dropped))
             taken == FirstLines(room)
  <2>1. /\ Notices(dropped) \in 0..1 /\ room \in Nat
        /\ room + Notices(dropped) <= MaxBatch
    BY <1>2 DEF Notices, Room, Typed
  <2>2. /\ taken \in Seq(Nat) /\ Len(taken) <= room /\ Len(taken) <= Len(lines)
        /\ \A i \in 1..Len(taken) : taken[i] = lines[i]
    BY <2>1 DEF FirstLines, Typed
  <2>3. Batch(MaxBatch) = [gap |-> dropped, time |-> gapOpened, lines |-> taken]
    BY <1>2 DEF Batch
  <2> HIDE DEF room, taken
  <2> QED
    BY <2>1, <2>2, <2>3 DEF Message, Size, Notices, Typed
<1> QED
  BY <1>1, <1>2

LEMMA InitInv == Init => IInv
BY CapacityPositive
   DEF Init, IInv, Typed, Counted, BufferInOrder, ChannelInOrder, Message,
       Nothing, Size, Notices

\* Pending::push keeps the account of what it evicts.
LEMMA RecvKeeps == IInv /\ RecvLog => IInv'
<1> SUFFICES ASSUME IInv, RecvLog PROVE IInv'
  OBVIOUS
<1> USE DEF IInv, Typed, RecvLog
<1>1. /\ channel # <<>> /\ Head(channel) \in Nat
      /\ channel' \in Seq(Nat) /\ Len(channel') = Len(channel) - 1
      /\ \A i \in 1..Len(channel') : channel'[i] = channel[i + 1]
  OBVIOUS
<1>2. Head(channel) = covered + dropped + Len(lines) + 1
  BY DEF ChannelInOrder
<1>3. CASE Len(lines) < Capacity
  <2>1. /\ lines' = Append(lines, Head(channel))
        /\ dropped' = dropped /\ gapOpened' = gapOpened
    BY <1>3 DEF Push
  <2>2. lines' \in Seq(Nat) /\ Len(lines') = Len(lines) + 1
    BY <2>1, <1>1
  <2>3. Typed'
    BY <1>1, <2>1, <2>2
  <2>4. Counted'
    BY <1>1, <2>1, <2>2 DEF Counted
  <2>5. BufferInOrder'
    <3>1. ASSUME NEW i \in 1..(Len(lines) + 1)
          PROVE  lines'[i] = covered + dropped + i
      <4>1. CASE i = Len(lines) + 1
        BY <1>1, <1>2, <2>1, <4>1
      <4>2. CASE i \in 1..Len(lines)
        BY <1>1, <2>1, <4>2 DEF BufferInOrder
      <4> QED
        BY <4>1, <4>2
    <3> QED
      BY <2>1, <2>2, <3>1 DEF BufferInOrder
  <2>6. ChannelInOrder'
    BY <1>1, <2>1, <2>2 DEF ChannelInOrder
  <2>7. Len(lines') <= Capacity
    BY <1>3, <2>2, CapacityPositive
  <2> QED
    BY <2>3, <2>4, <2>5, <2>6, <2>7 DEF Size, Capacity
<1>4. CASE ~(Len(lines) < Capacity)
  <2>1. /\ lines' = Append(Tail(lines), Head(channel))
        /\ dropped' = dropped + 1 /\ gapOpened' \in Nat
    BY <1>4 DEF Push
  <2>2. Len(lines) = Capacity /\ Len(lines) >= 1 /\ lines # <<>>
    BY <1>4, CapacityPositive
  <2>3. /\ lines' \in Seq(Nat) /\ Len(lines') = Len(lines)
        /\ \A i \in 1..(Len(lines) - 1) : lines'[i] = lines[i + 1]
        /\ lines'[Len(lines)] = Head(channel)
    BY <1>1, <2>1, <2>2
  <2>4. Typed'
    BY <1>1, <2>1, <2>3
  <2>5. Counted'
    BY <1>1, <2>1, <2>3 DEF Counted
  <2>6. BufferInOrder'
    <3>1. ASSUME NEW i \in 1..Len(lines)
          PROVE  lines'[i] = covered' + dropped' + i
      <4>1. CASE i = Len(lines)
        BY <1>2, <2>1, <2>3, <4>1
      <4>2. CASE i \in 1..(Len(lines) - 1)
        <5>1. lines[i + 1] = covered + dropped + (i + 1)
          BY <4>2 DEF BufferInOrder
        <5> QED
          BY <2>1, <2>3, <4>2, <5>1
      <4> QED
        BY <4>1, <4>2
    <3> QED
      BY <2>3, <3>1 DEF BufferInOrder
  <2>7. ChannelInOrder'
    BY <1>1, <2>1, <2>3 DEF ChannelInOrder
  <2> QED
    BY <2>2, <2>3, <2>4, <2>5, <2>6, <2>7 DEF Size, Capacity
<1> QED
  BY <1>3, <1>4

LEMMA SuffixOf ==
  ASSUME NEW s \in Seq(Nat), NEW k \in Nat, k <= Len(s),
         NEW t, t = SubSeq(s, k + 1, Len(s))
  PROVE  /\ t \in Seq(Nat) /\ Len(t) = Len(s) - k
         /\ \A i \in 1..Len(t) : t[i] = s[i + k]
OBVIOUS

\* What a flush sends goes from the buffer, and nothing else does.
LEMMA FlushMoves ==
  ASSUME Typed, Flush
  PROVE  \E gap \in {0, dropped}, k \in 0..Len(lines) :
           /\ message' \in Message /\ Size(message') <= MaxBatch
           /\ message'.gap = gap /\ Len(message'.lines) = k
           /\ \A i \in 1..k : message'.lines[i] = lines[i]
           /\ gap = dropped \/ k = 0
           /\ covered' = covered + gap + k
           /\ dropped' = dropped - gap
           /\ gapOpened' \in Nat
           /\ lines' = SubSeq(lines, k + 1, Len(lines))
<1> DEFINE m == Batch(MaxBatch)
           k == Len(m.lines)
<1>1. /\ message' = m /\ Sent(Size(m))
      /\ covered' = covered + m.gap + k
  BY DEF Flush
<1>2. /\ m \in Message /\ Size(m) <= MaxBatch /\ k \in 0..Len(lines)
      /\ \A i \in 1..k : m.lines[i] = lines[i]
      /\ m.gap \in {0, dropped}
      /\ Size(m) = 0 => m.gap = 0 /\ k = 0
      /\ Size(m) > 0 => m.gap = dropped
  BY BatchFits DEF Typed, Message
<1>3. Size(m) = Notices(m.gap) + k
  BY DEF Size
<1> HIDE DEF m, k
<1>4. /\ lines' = SubSeq(lines, k + 1, Len(lines))
      /\ dropped' = dropped - m.gap /\ gapOpened' \in Nat
  <2>1. CASE Size(m) = 0
    BY <1>1, <1>2, <2>1 DEF Sent, Typed
  <2>2. CASE Size(m) > 0 /\ dropped = 0
    <3>1. Size(m) = k /\ m.gap = 0
      BY <1>2, <1>3, <2>2 DEF Notices
    <3> QED
      BY <1>1, <2>2, <3>1 DEF Sent, Typed
  <2>3. CASE Size(m) > 0 /\ dropped > 0
    <3>1. Size(m) - 1 = k /\ m.gap = dropped
      BY <1>2, <1>3, <2>3 DEF Notices
    <3>2. /\ lines' = SubSeq(lines, (Size(m) - 1) + 1, Len(lines))
          /\ dropped' = 0 /\ gapOpened' = 0
      BY <1>1, <2>3 DEF Sent
    <3>3. lines' = SubSeq(lines, k + 1, Len(lines))
      BY <3>1, <3>2
    <3>4. dropped' = dropped - m.gap
      BY <3>1, <3>2 DEF Typed
    <3> QED
      BY <3>2, <3>3, <3>4
  <2>4. Size(m) \in Nat
    BY <1>2, <1>3 DEF Notices
  <2> QED
    BY <2>1, <2>2, <2>3, <2>4 DEF Typed
<1>5. m.gap = dropped \/ k = 0
  BY <1>2, <1>3 DEF Notices
<1>6. k = Len(m.lines)
  BY DEF k
<1> QED
  BY <1>1, <1>2, <1>4, <1>5, <1>6

LEMMA FlushKeeps == IInv /\ Flush => IInv'
<1> SUFFICES ASSUME IInv, Flush PROVE IInv'
  OBVIOUS
<1>1. PICK gap \in {0, dropped}, k \in 0..Len(lines) :
           /\ message' \in Message /\ Size(message') <= MaxBatch
           /\ covered' = covered + gap + k
           /\ dropped' = dropped - gap
           /\ gapOpened' \in Nat
           /\ lines' = SubSeq(lines, k + 1, Len(lines))
  BY FlushMoves DEF IInv
<1>2. gap \in Nat /\ dropped' \in Nat /\ k \in Nat /\ covered' \in Nat
  BY <1>1 DEF IInv, Typed
<1>3. /\ lines' \in Seq(Nat) /\ Len(lines') = Len(lines) - k
      /\ \A i \in 1..Len(lines') : lines'[i] = lines[i + k]
  <2>1. lines \in Seq(Nat)
    BY DEF IInv, Typed
  <2>2. k \in Nat /\ k <= Len(lines)
    BY <2>1
  <2>3. lines' = SubSeq(lines, k + 1, Len(lines))
    BY <1>1
  <2> QED
    BY <2>1, <2>2, <2>3, SuffixOf
<1>4. covered' + dropped' = covered + dropped + k
  BY <1>1, <1>2 DEF IInv, Typed
<1>5. UNCHANGED <<written, channel, session>>
  BY DEF Flush
<1>6. Typed'
  BY <1>1, <1>2, <1>3, <1>5 DEF IInv, Typed
<1>7. /\ covered' + dropped' + Len(lines') = covered + dropped + Len(lines)
      /\ covered' + dropped' + Len(lines') + Len(channel)
           = covered + dropped + Len(lines) + Len(channel)
      /\ \A i \in Nat : covered + dropped + (i + k) = covered' + dropped' + i
  <2>1. /\ covered \in Nat /\ dropped \in Nat /\ Len(lines) \in Nat
        /\ Len(channel) \in Nat /\ Len(lines') \in Nat
    BY <1>3 DEF IInv, Typed
  <2>2. covered' + dropped' + Len(lines') = covered + dropped + Len(lines)
    <3>1. covered' + dropped' + Len(lines')
            = (covered + dropped + k) + (Len(lines) - k)
      BY <1>3, <1>4
    <3>2. (covered + dropped + k) + (Len(lines) - k)
            = covered + dropped + Len(lines)
      BY <1>2, <2>1
    <3> QED
      BY <3>1, <3>2
  <2>3. \A i \in Nat : covered + dropped + (i + k) = covered' + dropped' + i
    <3> TAKE i \in Nat
    <3>1. covered + dropped + (i + k) = (covered + dropped + k) + i
      BY <1>2, <2>1
    <3> QED
      BY <1>4, <3>1
  <2> QED
    BY <2>2, <2>3
<1>8. Counted'
  BY <1>5, <1>7 DEF IInv, Counted
<1>9. BufferInOrder'
  <2>1. ASSUME NEW i \in 1..Len(lines')
        PROVE  lines[i + k] = covered + dropped + (i + k)
    BY <1>2, <1>3 DEF IInv, Typed, BufferInOrder
  <2> QED
    BY <1>3, <1>7, <2>1 DEF BufferInOrder
<1>11. ChannelInOrder'
  BY <1>5, <1>7 DEF IInv, ChannelInOrder
<1>10. Len(lines') <= Capacity
  BY <1>2, <1>3, CapacityPositive DEF IInv, Typed
<1> QED
  BY <1>1, <1>6, <1>8, <1>9, <1>10, <1>11 DEF IInv, Size, Capacity

LEMMA NextInv == IInv /\ [Next]_vars => IInv'
<1> SUFFICES ASSUME IInv, [Next]_vars PROVE IInv'
  OBVIOUS
<1>1. CASE TailReads
  <2>1. /\ written' = written + 1 /\ written' <= MaxLines
        /\ channel' = Append(channel, written + 1)
        /\ Len(channel) < ChannelSize
        /\ UNCHANGED <<buffer, covered, message, session>>
    BY <1>1 DEF TailReads, IInv, Typed
  <2>2. /\ channel' \in Seq(Nat) /\ Len(channel') = Len(channel) + 1
        /\ channel'[Len(channel) + 1] = written + 1
        /\ \A i \in 1..Len(channel) : channel'[i] = channel[i]
    BY <2>1 DEF IInv, Typed
  <2>3. Typed'
    BY <2>1, <2>2 DEF IInv, Typed, buffer
  <2>4. Counted'
    BY <2>1, <2>2 DEF IInv, Typed, buffer, Counted
  <2>6. BufferInOrder'
    BY <2>1 DEF IInv, buffer, BufferInOrder
  <2>5. ChannelInOrder'
    <3>1. channel'[Len(channel) + 1]
            = covered + dropped + Len(lines) + (Len(channel) + 1)
      BY <2>2 DEF IInv, Typed, Counted
    <3>2. ASSUME NEW i \in 1..(Len(channel) + 1)
          PROVE  channel'[i] = covered + dropped + Len(lines) + i
      <4>1. CASE i = Len(channel) + 1
        BY <3>1, <4>1
      <4>2. CASE i \in 1..Len(channel)
        BY <2>2, <4>2 DEF IInv, ChannelInOrder
      <4> QED
        BY <4>1, <4>2 DEF IInv, Typed
    <3> QED
      BY <2>1, <2>2, <3>2 DEF buffer, ChannelInOrder
  <2> QED
    BY <2>1, <2>3, <2>4, <2>5, <2>6 DEF IInv, buffer, Size, Capacity
<1>2. CASE RecvLog
  BY <1>2, RecvKeeps
<1>3. CASE Flush
  BY <1>3, FlushKeeps
<1>4. CASE SessionStarts \/ Attach \/ SessionEnds \/ FlushFails
  BY <1>4 DEF SessionStarts, Attach, SessionEnds, FlushFails, buffer, IInv,
              Typed, Counted, BufferInOrder, ChannelInOrder, Size, Capacity
<1>5. CASE UNCHANGED vars
  BY <1>5 DEF vars, buffer, IInv, Typed, Counted, BufferInOrder,
              ChannelInOrder, Size, Capacity
<1> QED
  BY <1>1, <1>2, <1>3, <1>4, <1>5 DEF Next

\* The inductive invariant holds.
THEOREM LogInvariance == Spec => []IInv
BY InitInv, NextInv, PTL DEF Spec

\* Every line the tail read was carried, is dropped and owed a notice, or
\* waits, in order (Pending::push, batch, sent).
THEOREM LinesAccountedFor == Spec => []NothingUnaccounted
<1>1. IInv => NothingUnaccounted
  BY DEF IInv, Counted, BufferInOrder, ChannelInOrder, NothingUnaccounted
<1> QED
  BY <1>1, LogInvariance, PTL

\* Types, and the bounds of the buffer and of every message, for every value of
\* the constants (Pending::push and batch).
THEOREM LogTypeCorrect == Spec => []TypeOK
<1>1. IInv => TypeOK
  BY DEF IInv, Typed, TypeOK
<1> QED
  BY <1>1, LogInvariance, PTL

\* A message that covers lines starts where the last one ended, after exactly
\* the gap its notice reports (Pending::batch and sent).
THEOREM GapsReported == Spec => GapsAreReported
<1>1. IInv /\ [Next]_vars =>
        [covered' # covered =>
           \A i \in 1..Len(message'.lines) :
             message'.lines[i] = covered + message'.gap + i]_vars
  <2> SUFFICES ASSUME IInv, Next, covered' # covered
               PROVE  \A i \in 1..Len(message'.lines) :
                        message'.lines[i] = covered + message'.gap + i
    OBVIOUS
  <2>1. Flush
    BY DEF Next, TailReads, RecvLog, SessionStarts, Attach, SessionEnds,
           FlushFails
  <2>2. PICK gap \in {0, dropped}, k \in 0..Len(lines) :
             /\ message'.gap = gap /\ Len(message'.lines) = k
             /\ \A i \in 1..k : message'.lines[i] = lines[i]
             /\ gap = dropped \/ k = 0
    BY <2>1, FlushMoves DEF IInv
  <2>3. CASE k = 0
    BY <2>2, <2>3
  <2>4. CASE gap = dropped
    BY <2>2, <2>4 DEF IInv, Typed, BufferInOrder
  <2> QED
    BY <2>2, <2>3, <2>4
<1> QED
  BY <1>1, LogInvariance, PTL DEF Spec, GapsAreReported
=============================================================================
