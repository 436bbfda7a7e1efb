--------------------------- MODULE JournalProofs ---------------------------
(***************************************************************************)
(* For every journal, channel and pipe: the tailer implements the lossless *)
(* queue, and the end of the stream means that all that was printed was    *)
(* received.  The invariant follows the entries through the pipeline: what *)
(* is at most LastReceived is in received, what lies between it and Sent   *)
(* is in the channel, and what lies beyond is still in the pipe.           *)
(***************************************************************************)
EXTENDS Journal, TLAPS

Last == Stream!LastReceived

Usable(i) == Stream!Forwardable(journal[i])

(* The last entry whose fate the task has decided.                         *)
Sent == IF tailer = "sending" THEN taken - 1 ELSE taken

Ends ==
  /\ tailer = "sending" => first < taken /\ Usable(taken)
  /\ tailer = "eof" => taken = printed /\ journalctl = "exited"
  /\ tailer = "cancelled" => receiver = "dropped"
  /\ receiver = "ended" => channel = <<>> /\ tailer \in Over

LastInRange == Last \in Nat /\ first <= Last /\ Last <= Sent

ReceivedAll ==
  \A i \in Nat : first < i /\ i <= Last /\ Usable(i) =>
    \E k \in 1..Len(received) : received[k] = i

ChannelSorted ==
  /\ \A k \in 1..Len(channel) :
       Last < channel[k] /\ channel[k] <= Sent /\ Usable(channel[k])
  /\ \A k, l \in 1..Len(channel) : k < l => channel[k] < channel[l]

ChannelHolds ==
  receiver # "dropped" =>
    \A i \in Nat : Last < i /\ i <= Sent /\ Usable(i) =>
      \E k \in 1..Len(channel) : channel[k] = i

IInv ==
  TypeOK /\ Ends /\ LastInRange /\ ReceivedAll /\ ChannelSorted /\ ChannelHolds

-----------------------------------------------------------------------------
LEMMA InitInv == Init => IInv
<1> SUFFICES ASSUME Init PROVE IInv
  OBVIOUS
<1>1. PICK j \in Seq(Entries) : \E n \in 0..Len(j) : StartAt(j, n)
  BY DEF Init
<1>2. PICK n \in 0..Len(j) : StartAt(j, n)
  BY <1>1
<1>3. TypeOK
  BY <1>2, JournalAssumption DEF StartAt, TypeOK
<1>4. Last = first /\ Sent = first
  BY <1>2 DEF StartAt, Last, Stream!LastReceived, Sent
<1>5. Ends /\ LastInRange
  BY <1>2, <1>4 DEF StartAt, Ends, LastInRange
<1>6. ReceivedAll /\ ChannelSorted /\ ChannelHolds
  BY <1>2, <1>3, <1>4
  DEF TypeOK, StartAt, ReceivedAll, ChannelSorted, ChannelHolds
<1> QED
  BY <1>3, <1>5, <1>6 DEF IInv

-----------------------------------------------------------------------------
(* A step that leaves journal, received and channel alone and does not     *)
(* move what is sent keeps the parts about the entries' whereabouts.       *)
LEMMA Whereabouts ==
  ASSUME IInv,
         UNCHANGED <<journal, first, received, channel>>,
         Sent' = Sent,
         receiver' # "dropped" => receiver # "dropped"
  PROVE  (LastInRange /\ ReceivedAll /\ ChannelSorted /\ ChannelHolds)'
<1>1. Last' = Last
  BY DEF Last, Stream!LastReceived
<1>2. \A i : Usable(i)' = Usable(i)
  BY DEF Usable, Stream!Forwardable
<1> HIDE DEF Last, Usable, Sent
<1> QED
  BY <1>1, <1>2 DEF IInv, LastInRange, ReceivedAll, ChannelSorted, ChannelHolds

LEMMA StepLog == ASSUME IInv, NEW e \in Entries, Log(e) PROVE IInv'
<1> USE DEF IInv
<1>1. journal \in Seq(Entries) /\ journal' = Append(journal, e)
  BY DEF Log, TypeOK
<1>2. /\ journal' \in Seq(Entries)
      /\ Len(journal') = Len(journal) + 1
      /\ \A i \in 1..Len(journal) : journal'[i] = journal[i]
  BY <1>1
<1>3. TypeOK'
  BY <1>2 DEF Log, TypeOK
<1>4. \A i \in 1..Len(journal) : Usable(i)' = Usable(i)
  BY <1>2 DEF Usable, Stream!Forwardable
<1>5. Last' = Last /\ Sent' = Sent
  BY DEF Log, Last, Stream!LastReceived, Sent
<1>6. /\ taken \in 0..Len(journal) /\ first \in Nat
      /\ Sent \in Int /\ Sent <= taken /\ Len(journal) \in Nat
  BY DEF TypeOK, Sent
<1>7. Ends'
  BY <1>4, <1>6 DEF Log, Ends
<1>8. LastInRange'
  BY <1>5 DEF Log, LastInRange
<1> HIDE DEF Last, Usable, Sent
<1>9. ReceivedAll'
  <2> SUFFICES ASSUME NEW i \in Nat, first < i, i <= Last, Usable(i)'
               PROVE  \E k \in 1..Len(received) : received[k] = i
    BY <1>5 DEF Log, ReceivedAll
  <2>1. i \in 1..Len(journal)
    BY <1>6 DEF LastInRange
  <2>2. Usable(i)
    BY <1>4, <2>1
  <2> QED
    BY <2>2 DEF ReceivedAll
<1>10. ChannelSorted'
  <2>1. channel \in Seq(Nat) /\ channel' = channel /\ Len(journal) \in Nat
    BY DEF Log, TypeOK
  <2>2. \A k \in 1..Len(channel) : channel[k] \in 1..Len(journal)
    BY <1>6, <2>1 DEF ChannelSorted, LastInRange, TypeOK
  <2> QED
    BY <1>4, <1>5, <2>1, <2>2 DEF ChannelSorted
<1>11. ChannelHolds'
  <2> SUFFICES ASSUME receiver # "dropped", NEW i \in Nat,
                      Last < i, i <= Sent, Usable(i)'
               PROVE  \E k \in 1..Len(channel) : channel[k] = i
    BY <1>5 DEF Log, ChannelHolds
  <2>1. i \in 1..Len(journal)
    BY <1>6 DEF LastInRange
  <2>2. Usable(i)
    BY <1>4, <2>1
  <2> QED
    BY <2>2 DEF ChannelHolds
<1> QED
  BY <1>3, <1>7, <1>8, <1>9, <1>10, <1>11

LEMMA StepPrint == ASSUME IInv, JournalctlPrints PROVE IInv'
<1>1. TypeOK'
  BY JournalAssumption DEF IInv, JournalctlPrints, TypeOK, Over
<1>2. Ends'
  BY DEF IInv, JournalctlPrints, Ends, Usable, Stream!Forwardable
<1>3. (LastInRange /\ ReceivedAll /\ ChannelSorted /\ ChannelHolds)'
  BY Whereabouts DEF JournalctlPrints, Sent
<1> QED
  BY <1>1, <1>2, <1>3 DEF IInv

LEMMA StepJournalctlExits == ASSUME IInv, JournalctlExits PROVE IInv'
<1>1. TypeOK'
  BY JournalAssumption DEF IInv, JournalctlExits, TypeOK, Over
<1>2. Ends'
  BY DEF IInv, JournalctlExits, Ends, Usable, Stream!Forwardable
<1>3. (LastInRange /\ ReceivedAll /\ ChannelSorted /\ ChannelHolds)'
  BY Whereabouts DEF JournalctlExits, Sent
<1> QED
  BY <1>1, <1>2, <1>3 DEF IInv

LEMMA StepTakeLine == ASSUME IInv, TakeLine PROVE IInv'
<1>1. TypeOK'
  BY JournalAssumption DEF IInv, TakeLine, NextLine, TypeOK, Over
<1>2. Ends'
  BY DEF IInv, TakeLine, NextLine, TypeOK, Ends, Usable, Over
<1>3. (LastInRange /\ ReceivedAll /\ ChannelSorted /\ ChannelHolds)'
  BY Whereabouts DEF IInv, TypeOK, TakeLine, NextLine, Sent
<1> QED
  BY <1>1, <1>2, <1>3 DEF IInv

(* The entry that is passed over is of no use to anyone.                   *)
LEMMA StepSkipLine == ASSUME IInv, SkipLine PROVE IInv'
<1> USE DEF IInv
<1>1. TypeOK'
  BY JournalAssumption DEF SkipLine, NextLine, TypeOK, Over
<1>2. Ends'
  BY DEF SkipLine, NextLine, Ends
<1>3. Last' = Last /\ \A i : Usable(i)' = Usable(i)
  BY DEF SkipLine, NextLine, Last, Usable, Stream!LastReceived,
         Stream!Forwardable
<1>4. Sent = taken /\ Sent' = Sent + 1 /\ Sent \in Nat
  BY DEF SkipLine, NextLine, Sent, TypeOK
<1>5. ~Usable(Sent')
  BY <1>4 DEF SkipLine, NextLine, Usable
<1>6. UNCHANGED <<journal, first, received, channel, receiver>>
  BY DEF SkipLine, NextLine
<1>7. channel \in Seq(Nat)
  BY DEF TypeOK
<1> HIDE DEF Last, Usable, Sent
<1>8. LastInRange'
  BY <1>3, <1>4, <1>6 DEF LastInRange, TypeOK
<1>9. ReceivedAll'
  BY <1>3, <1>6 DEF ReceivedAll
<1>10. ChannelSorted'
  BY <1>3, <1>4, <1>6, <1>7 DEF ChannelSorted
<1>11. ChannelHolds'
  <2> SUFFICES ASSUME receiver # "dropped", NEW i \in Nat,
                      Last < i, i <= Sent + 1, Usable(i)
               PROVE  \E k \in 1..Len(channel) : channel[k] = i
    BY <1>3, <1>4, <1>6 DEF ChannelHolds
  <2>1. i <= Sent
    BY <1>4, <1>5
  <2> QED
    BY <2>1 DEF ChannelHolds
<1> QED
  BY <1>1, <1>2, <1>8, <1>9, <1>10, <1>11

LEMMA StepSend == ASSUME IInv, Send PROVE IInv'
<1> USE DEF IInv
<1>1. TypeOK'
  BY JournalAssumption DEF Send, TypeOK, Over
<1>2. Ends'
  BY DEF Send, Ends
<1>3. Last' = Last /\ \A i : Usable(i)' = Usable(i)
  BY DEF Send, Last, Usable, Stream!LastReceived, Stream!Forwardable
<1>4. Sent' = Sent + 1 /\ Sent' = taken /\ Sent \in Int
  BY DEF Send, Sent, TypeOK
<1>5. Usable(taken) /\ Last \in Nat /\ Last < taken
  BY <1>4 DEF Send, Ends, LastInRange
<1>6. UNCHANGED <<journal, first, received, receiver>>
  BY DEF Send
<1>7. /\ channel \in Seq(Nat) /\ channel' = Append(channel, taken)
      /\ taken \in Nat
  BY DEF Send, TypeOK
<1>8. /\ Len(channel') = Len(channel) + 1
      /\ \A k \in 1..Len(channel) : channel'[k] = channel[k]
      /\ channel'[Len(channel) + 1] = taken
  BY <1>7
<1> HIDE DEF Last, Usable, Sent
<1>9. LastInRange'
  BY <1>3, <1>4, <1>6 DEF LastInRange
<1>10. ReceivedAll'
  BY <1>3, <1>6 DEF ReceivedAll
<1>11. ChannelSorted'
  <2>1. \A k \in 1..Len(channel) : channel[k] < taken
    BY <1>4, <1>7 DEF ChannelSorted
  <2> HIDE DEF IInv
  <2>2. ASSUME NEW k \in 1..Len(channel')
        PROVE  Last < channel'[k] /\ channel'[k] <= taken /\ Usable(channel'[k])
    <3>1. CASE k \in 1..Len(channel)
      BY <1>7, <1>8, <2>1, <3>1 DEF IInv, ChannelSorted
    <3>2. CASE k = Len(channel) + 1
      BY <1>5, <1>7, <1>8, <3>2
    <3> QED
      BY <1>7, <1>8, <3>1, <3>2
  <2>3. ASSUME NEW k \in 1..Len(channel'), NEW l \in 1..Len(channel'), k < l
        PROVE  channel'[k] < channel'[l]
    <3>1. k \in 1..Len(channel)
      BY <1>7, <1>8, <2>3
    <3>2. CASE l \in 1..Len(channel)
      BY <1>8, <2>3, <3>1, <3>2 DEF IInv, ChannelSorted
    <3>3. CASE l = Len(channel) + 1
      BY <1>8, <2>1, <3>1, <3>3
    <3> QED
      BY <1>7, <1>8, <3>2, <3>3
  <2> QED
    BY <1>3, <1>4, <2>2, <2>3 DEF ChannelSorted
<1>12. ChannelHolds'
  <2> SUFFICES ASSUME receiver # "dropped", NEW i \in Nat,
                      Last < i, i <= taken, Usable(i)
               PROVE  \E k \in 1..Len(channel') : channel'[k] = i
    BY <1>3, <1>4, <1>6 DEF ChannelHolds
  <2>1. CASE i = taken
    BY <1>7, <1>8, <2>1
  <2>2. CASE i # taken
    <3>1. i <= Sent
      BY <1>4, <2>2
    <3>2. PICK k \in 1..Len(channel) : channel[k] = i
      BY <3>1 DEF ChannelHolds
    <3> QED
      BY <1>7, <1>8, <3>2
  <2> QED
    BY <2>1, <2>2
<1> QED
  BY <1>1, <1>2, <1>9, <1>10, <1>11, <1>12

(* The entry that could not be sent is lost, with the receiver gone.       *)
LEMMA StepCancel == ASSUME IInv, Cancel PROVE IInv'
<1> USE DEF IInv
<1>1. TypeOK'
  BY JournalAssumption DEF Cancel, TypeOK, Over
<1>2. Ends'
  BY DEF Cancel, Ends
<1>3. Last' = Last /\ \A i : Usable(i)' = Usable(i)
  BY DEF Cancel, Last, Usable, Stream!LastReceived, Stream!Forwardable
<1>4. Sent' = Sent + 1 /\ Sent \in Int
  BY DEF Cancel, Sent, TypeOK
<1>5. UNCHANGED <<first, received, channel>> /\ receiver' = "dropped"
  BY DEF Cancel
<1>6. channel \in Seq(Nat)
  BY DEF TypeOK
<1> HIDE DEF Last, Usable, Sent
<1>7. LastInRange' /\ ReceivedAll' /\ ChannelHolds'
  BY <1>3, <1>4, <1>5 DEF LastInRange, ReceivedAll, ChannelHolds
<1>8. ChannelSorted'
  BY <1>3, <1>4, <1>5, <1>6 DEF ChannelSorted
<1> QED
  BY <1>1, <1>2, <1>7, <1>8

LEMMA StepTaskEnds ==
  ASSUME IInv, EndOfStream \/ ReadFails
  PROVE  IInv'
<1>1. TypeOK'
  BY JournalAssumption DEF IInv, EndOfStream, ReadFails, TypeOK, Over
<1>2. Ends'
  BY DEF IInv, EndOfStream, ReadFails, Ends, Usable, Stream!Forwardable, Over
<1>3. (LastInRange /\ ReceivedAll /\ ChannelSorted /\ ChannelHolds)'
  BY Whereabouts DEF EndOfStream, ReadFails, Sent
<1> QED
  BY <1>1, <1>2, <1>3 DEF IInv

LEMMA StepRecvNone == ASSUME IInv, RecvNone PROVE IInv'
<1>1. TypeOK'
  BY JournalAssumption DEF IInv, RecvNone, TypeOK, Over
<1>2. Ends'
  BY DEF IInv, RecvNone, Ends, Usable, Stream!Forwardable
<1>3. (LastInRange /\ ReceivedAll /\ ChannelSorted /\ ChannelHolds)'
  BY Whereabouts DEF RecvNone, Sent
<1> QED
  BY <1>1, <1>2, <1>3 DEF IInv

LEMMA StepDropReceiver == ASSUME IInv, DropReceiver PROVE IInv'
<1> USE DEF IInv
<1>1. TypeOK'
  BY JournalAssumption DEF DropReceiver, TypeOK, Over
<1>2. Ends'
  BY DEF DropReceiver, Ends, Usable, Stream!Forwardable
<1>3. Last' = Last /\ Sent' = Sent /\ \A i : Usable(i)' = Usable(i)
  BY DEF DropReceiver, Last, Sent, Usable, Stream!LastReceived,
         Stream!Forwardable
<1>4. UNCHANGED <<first, received>> /\ receiver' = "dropped" /\ channel' = <<>>
  BY DEF DropReceiver
<1> HIDE DEF Last, Usable, Sent
<1>5. (LastInRange /\ ReceivedAll /\ ChannelHolds)'
  BY <1>3, <1>4 DEF LastInRange, ReceivedAll, ChannelHolds
<1>6. ChannelSorted'
  BY <1>4 DEF ChannelSorted
<1> QED
  BY <1>1, <1>2, <1>5, <1>6

-----------------------------------------------------------------------------
(* What recv() takes from the channel is the next usable entry.            *)
LEMMA HeadIsNext ==
  ASSUME IInv, Recv
  PROVE  /\ channel[1] \in Stream!Pending
         /\ \A j \in Stream!Pending : channel[1] <= j
         /\ Last' = channel[1]
         /\ received' = Append(received, channel[1])
         /\ channel[1] \in Nat /\ Len(channel) >= 1
<1> USE DEF IInv
<1>1. channel \in Seq(Nat) /\ channel # <<>> /\ received \in Seq(Nat)
  BY DEF Recv, TypeOK
<1>2. Len(channel) >= 1 /\ channel[1] \in Nat
  BY <1>1
<1>3. received' = Append(received, channel[1])
  BY <1>1 DEF Recv
<1>4. Last' = channel[1]
  BY <1>1, <1>2, <1>3 DEF Last, Stream!LastReceived
<1>5. 1 \in 1..Len(channel) /\ Len(channel) \in Nat
  BY <1>1, <1>2
<1>6. Last < channel[1] /\ channel[1] <= Sent /\ Usable(channel[1])
  BY <1>5 DEF ChannelSorted
<1>7. Sent <= Len(journal) /\ Sent \in Int /\ Len(journal) \in Nat
  BY DEF TypeOK, Sent
<1>8. channel[1] \in Stream!Pending
  BY <1>2, <1>6, <1>7
  DEF Stream!Pending, Last, Usable, LastInRange
<1>9. ASSUME NEW j \in Stream!Pending PROVE channel[1] <= j
  <2>1. j \in Nat /\ Last < j /\ Usable(j)
    BY DEF Stream!Pending, Last, Usable
  <2>2. CASE j <= Sent
    <3>1. PICK k \in 1..Len(channel) : channel[k] = j
      BY <2>1, <2>2 DEF ChannelHolds, Recv
    <3> QED
      BY <1>1, <1>2, <1>5, <3>1 DEF ChannelSorted
  <2> QED
    BY <1>2, <1>6, <1>7, <2>1, <2>2
<1> QED
  BY <1>2, <1>3, <1>4, <1>8, <1>9

LEMMA StepRecv == ASSUME IInv, Recv PROVE IInv'
<1> USE DEF IInv
<1>1. /\ channel \in Seq(Nat) /\ channel # <<>> /\ received \in Seq(Nat)
      /\ channel' = Tail(channel)
  BY DEF Recv, TypeOK
<1>2. /\ channel' \in Seq(Nat) /\ Len(channel') = Len(channel) - 1
      /\ \A k \in 1..Len(channel') : channel'[k] = channel[k + 1]
  BY <1>1
<1>3. /\ Last' = channel[1] /\ received' = Append(received, channel[1])
      /\ channel[1] \in Nat /\ Len(channel) >= 1 /\ Len(channel) \in Nat
  BY <1>1, HeadIsNext
<1>4. /\ received' \in Seq(Nat) /\ Len(received') = Len(received) + 1
      /\ \A k \in 1..Len(received) : received'[k] = received[k]
      /\ received'[Len(received) + 1] = channel[1]
      /\ Len(received) \in Nat
  BY <1>1, <1>3
<1>5. Sent' = Sent /\ (\A i : Usable(i)' = Usable(i)) /\ Sent \in Int
  BY DEF Recv, Sent, Usable, Stream!Forwardable, TypeOK
<1>6. UNCHANGED <<journal, first, receiver>>
  BY DEF Recv
<1>7. TypeOK'
  BY JournalAssumption, <1>2, <1>3, <1>4 DEF Recv, TypeOK, Over
<1>8. Ends'
  BY DEF Recv, Ends, Usable, Stream!Forwardable
<1> HIDE DEF Last, Usable, Sent
<1>9. 1 \in 1..Len(channel)
  BY <1>3
<1>10. Last < channel[1] /\ channel[1] <= Sent /\ Usable(channel[1])
  BY <1>9 DEF ChannelSorted
<1>11. LastInRange'
  BY <1>3, <1>5, <1>6, <1>10 DEF LastInRange, TypeOK
<1>12. ReceivedAll'
  <2> SUFFICES ASSUME NEW i \in Nat, first < i, i <= channel[1], Usable(i)
               PROVE  \E k \in 1..Len(received') : received'[k] = i
    BY <1>3, <1>5, <1>6 DEF ReceivedAll
  <2>1. CASE i <= Last
    <3>1. PICK k \in 1..Len(received) : received[k] = i
      BY <2>1 DEF ReceivedAll
    <3> QED
      BY <1>4, <3>1
  <2>2. CASE Last < i
    <3>1. i <= Sent
      BY <1>3, <1>5, <1>10
    <3>2. PICK k \in 1..Len(channel) : channel[k] = i
      BY <2>2, <3>1 DEF ChannelHolds, Recv
    <3>3. channel[1] <= channel[k]
      BY <1>1, <1>3, <1>9 DEF ChannelSorted
    <3>4. i = channel[1]
      BY <1>3, <3>2, <3>3
    <3> QED
      BY <1>4, <3>4
  <2>3. Last \in Nat
    BY DEF LastInRange
  <2> QED
    BY <2>1, <2>2, <2>3
<1>13. ChannelSorted'
  <2>1. ASSUME NEW k \in 1..Len(channel')
        PROVE  channel[1] < channel'[k] /\ channel'[k] <= Sent
               /\ Usable(channel'[k])
    <3>1. k + 1 \in 1..Len(channel) /\ 1 < k + 1
      BY <1>2, <1>3
    <3> QED
      BY <1>2, <1>9, <3>1 DEF ChannelSorted
  <2>2. ASSUME NEW k \in 1..Len(channel'), NEW l \in 1..Len(channel'), k < l
        PROVE  channel'[k] < channel'[l]
    <3>1. /\ k + 1 \in 1..Len(channel) /\ l + 1 \in 1..Len(channel)
          /\ k + 1 < l + 1
      BY <1>2, <1>3, <2>2
    <3> QED
      BY <1>2, <3>1 DEF ChannelSorted
  <2> QED
    BY <1>3, <1>5, <2>1, <2>2 DEF ChannelSorted
<1>14. ChannelHolds'
  <2> SUFFICES ASSUME receiver # "dropped", NEW i \in Nat,
                      channel[1] < i, i <= Sent, Usable(i)
               PROVE  \E k \in 1..Len(channel') : channel'[k] = i
    BY <1>3, <1>5, <1>6 DEF ChannelHolds
  <2>1. Last \in Nat /\ Last < i
    BY <1>3, <1>10 DEF LastInRange
  <2>2. PICK k \in 1..Len(channel) : channel[k] = i
    BY <2>1 DEF ChannelHolds
  <2>3. k # 1
    BY <1>3, <2>2
  <2>4. k - 1 \in 1..Len(channel') /\ (k - 1) + 1 = k
    BY <1>2, <1>3, <2>3
  <2> QED
    BY <1>2, <2>2, <2>4
<1> QED
  BY <1>7, <1>8, <1>11, <1>12, <1>13, <1>14

-----------------------------------------------------------------------------
LEMMA StepInv == IInv /\ [Next]_journalVars => IInv'
<1> SUFFICES ASSUME IInv, [Next]_journalVars PROVE IInv'
  OBVIOUS
<1>1. CASE UNCHANGED journalVars
  <2>1. TypeOK' /\ Ends'
    BY <1>1 DEF IInv, journalVars, TypeOK, Ends, Usable, Stream!Forwardable
  <2>2. (LastInRange /\ ReceivedAll /\ ChannelSorted /\ ChannelHolds)'
    BY <1>1, Whereabouts DEF journalVars, Sent
  <2> QED
    BY <2>1, <2>2 DEF IInv
<1>2. CASE Outside
  BY <1>2, StepLog, StepPrint, StepJournalctlExits DEF Outside
<1>3. CASE Task
  BY <1>3, StepSkipLine, StepTakeLine, StepSend, StepCancel, StepTaskEnds
  DEF Task
<1> QED
  BY <1>1, <1>2, <1>3, StepRecv, StepRecvNone, StepDropReceiver DEF Next

LEMMA Inductive == Spec => []IInv
  BY InitInv, StepInv, PTL DEF Spec

(***************************************************************************)
(* Pipe, channel and receiver have their types; the bounded channel never  *)
(* holds more than its capacity.                                           *)
(***************************************************************************)
THEOREM TypeCorrect == Spec => []TypeOK
<1>1. IInv => TypeOK
  BY DEF IInv
<1> QED
  BY <1>1, Inductive, PTL

(* What the invariant says of a receiver that has seen the end.            *)
LEMMA DrainedInv == IInv => EndMeansDrained
<1> SUFFICES ASSUME IInv, receiver = "ended", tailer = "eof",
                    NEW i \in (first + 1)..printed, Usable(i)
             PROVE  \E k \in 1..Len(received) : received[k] = i
  BY DEF EndMeansDrained, Usable, IInv
<1> USE DEF IInv
<1>1. /\ first \in Nat /\ printed \in Nat /\ taken = printed
      /\ channel = <<>> /\ Sent = taken
  BY DEF TypeOK, Ends, Sent
<1>2. i \in Nat /\ first < i /\ i <= Sent
  BY <1>1
<1>3. ~(Last < i)
  BY <1>1, <1>2 DEF ChannelHolds
<1> QED
  BY <1>2, <1>3 DEF ReceivedAll, LastInRange

(***************************************************************************)
(* After the end of journalctl, recv() returns None only when everything   *)
(* that was printed has been received (journal.rs:72-101).                 *)
(***************************************************************************)
THEOREM DrainedAtTheEnd == Spec => []EndMeansDrained
BY DrainedInv, Inductive, PTL

(***************************************************************************)
(* Every step of the tailer is a step of the lossless queue or none        *)
(* (journal.rs:72-104).                                                    *)
(***************************************************************************)
THEOREM TailerImplementsLineQueue == Spec => ImplementsLineQueue
<1>1. Init => Stream!Init
  BY DEF Init, StartAt, Stream!Init
<1>2. IInv /\ [Next]_journalVars => [Stream!Next]_Stream!queueVars
  <2> SUFFICES ASSUME IInv, [Next]_journalVars
               PROVE  Stream!Next \/ UNCHANGED Stream!queueVars
    OBVIOUS
  <2>1. CASE UNCHANGED journalVars
    BY <2>1 DEF journalVars, Stream!queueVars
  <2>2. ASSUME NEW e \in Entries, Log(e) PROVE Stream!Next
    BY <2>2 DEF Log, Stream!Log, Stream!Next
  <2>3. CASE JournalctlPrints \/ JournalctlExits \/ Task
    BY <2>3 DEF JournalctlPrints, JournalctlExits, Task, SkipLine, TakeLine, NextLine,
                Send, Cancel, EndOfStream, ReadFails, Stream!queueVars
  <2>4. CASE Recv
    <3>1. Stream!Deliver
      BY <2>4, HeadIsNext DEF Recv, Stream!Deliver
    <3> QED
      BY <3>1 DEF Stream!Next
  <2>5. CASE RecvNone \/ DropReceiver
    BY <2>5 DEF RecvNone, DropReceiver, Stream!Close, Stream!Next
  <2> QED
    BY <2>1, <2>2, <2>3, <2>4, <2>5 DEF Next, Outside
<1> QED
  BY <1>1, <1>2, Inductive, PTL DEF Spec, ImplementsLineQueue, Stream!Spec
=============================================================================
