------------------------------ MODULE Journal ------------------------------
(***************************************************************************)
(* The journal tailer (src/src/journal.rs): journalctl writes entries to a *)
(* pipe; a tokio task reads them line by line and sends what it can use to *)
(* a bounded channel; the daemon's main loop receives.  An entry is known  *)
(* by its index in the journal, so the pipe holds the entries taken + 1 to *)
(* printed.  A line journalctl did not finish before it died does not      *)
(* deserialize and is skipped: it counts as not printed.                   *)
(***************************************************************************)
EXTENDS Integers, Sequences, FiniteSets

CONSTANTS
  None,        \* an absent field
  Entries,     \* what the services log, as the journal prints it
  ChannelCap,  \* capacity of the channel, 1024
  PipeCap      \* entries the pipe buffers before journalctl blocks

ASSUME JournalAssumption ==
  /\ ChannelCap \in Nat \ {0} /\ PipeCap \in Nat \ {0}
  /\ \A e \in Entries : e.deserializes \in BOOLEAN

VARIABLES
  journal,     \* the entries of the tailed units, oldest first
  first,       \* the stream starts after this many entries
  journalctl,  \* the child process: "running" or "exited"
  printed,     \* the last entry journalctl wrote to the pipe
  taken,       \* the last entry the task read from it
  tailer,      \* the task: "reading", "sending" the entry taken, or over:
               \* "eof", "failed" (read error), "cancelled" (receiver gone)
  channel,     \* the entries in the channel
  received,    \* the entries received so far, in order
  receiver     \* "open", "ended" (recv returned None) or "dropped"

journalVars == <<journal, first, journalctl, printed, taken, tailer, channel,
                 received, receiver>>

Stream == INSTANCE LineQueue

Over == {"eof", "failed", "cancelled"}

TypeOK ==
  /\ journal \in Seq(Entries)
  /\ journalctl \in {"running", "exited"}
  /\ first \in Nat /\ taken \in Nat /\ printed \in Nat
  /\ first <= taken /\ taken <= printed /\ printed <= Len(journal)
  /\ printed - taken <= PipeCap
  /\ tailer \in {"reading", "sending"} \cup Over
  /\ channel \in Seq(Nat) /\ Len(channel) <= ChannelCap
  /\ received \in Seq(Nat)
  /\ receiver \in {"open", "ended", "dropped"}

(***************************************************************************)
(* spawn(): journalctl -f starts somewhere in the journal (it prints the   *)
(* last entries it has, then follows).                                     *)
(***************************************************************************)
StartAt(j, n) ==
  /\ journal = j
  /\ first = n
  /\ journalctl = "running"
  /\ printed = n
  /\ taken = n
  /\ tailer = "reading"
  /\ channel = <<>>
  /\ received = <<>>
  /\ receiver = "open"

Init == \E j \in Seq(Entries) : \E n \in 0..Len(j) : StartAt(j, n)

-----------------------------------------------------------------------------
(***************************************************************************)
(* The outside: services log; journalctl prints while the pipe has room,   *)
(* and may die at any time, what it has printed staying in the pipe.       *)
(***************************************************************************)
Log(e) ==
  /\ journal' = Append(journal, e)
  /\ UNCHANGED <<first, journalctl, printed, taken, tailer, channel,
                 received, receiver>>

JournalctlPrints ==
  /\ journalctl = "running"
  /\ printed < Len(journal)
  /\ printed - taken < PipeCap
  /\ printed' = printed + 1
  /\ UNCHANGED <<journal, first, journalctl, taken, tailer, channel,
                 received, receiver>>

JournalctlExits ==
  /\ journalctl = "running"
  /\ journalctl' = "exited"
  /\ UNCHANGED <<journal, first, printed, taken, tailer, channel,
                 received, receiver>>

-----------------------------------------------------------------------------
(***************************************************************************)
(* The tailer task.                                                        *)
(***************************************************************************)
NextLine ==
  /\ tailer = "reading"
  /\ taken < printed
  /\ taken' = taken + 1
  /\ UNCHANGED <<journal, first, journalctl, printed, channel,
                 received, receiver>>

(* Mutant of SkipLine: the task returns where it should continue.          *)
SkipLineReturning ==
  /\ NextLine
  /\ ~Stream!Forwardable(journal[taken'])
  /\ tailer' = "eof"

(* Not an object of the expected shape, or without message or unit.        *)
SkipLine ==
  /\ NextLine
  /\ ~Stream!Forwardable(journal[taken'])
  /\ tailer' = "reading"

TakeLine ==
  /\ NextLine
  /\ Stream!Forwardable(journal[taken'])
  /\ tailer' = "sending"

(* Mutants of Send: it does not wait for room; it drops the line instead.  *)
SendUnbounded ==
  /\ tailer = "sending"
  /\ receiver = "open"
  /\ channel' = Append(channel, taken)
  /\ tailer' = "reading"
  /\ UNCHANGED <<journal, first, journalctl, printed, taken,
                 received, receiver>>

TrySend ==
  /\ tailer = "sending"
  /\ receiver = "open"
  /\ channel' = IF Len(channel) < ChannelCap
                THEN Append(channel, taken) ELSE channel
  /\ tailer' = "reading"
  /\ UNCHANGED <<journal, first, journalctl, printed, taken,
                 received, receiver>>

(* tx.send().await completes once the channel has room.                    *)
Send ==
  /\ tailer = "sending"
  /\ receiver = "open"
  /\ Len(channel) < ChannelCap
  /\ channel' = Append(channel, taken)
  /\ tailer' = "reading"
  /\ UNCHANGED <<journal, first, journalctl, printed, taken,
                 received, receiver>>

(* tx.send().await fails: the child is killed and reaped.                  *)
Cancel ==
  /\ tailer = "sending"
  /\ receiver = "dropped"
  /\ tailer' = "cancelled"
  /\ journalctl' = "exited"
  /\ UNCHANGED <<journal, first, printed, taken, channel, received, receiver>>

(* Mutants of EndOfStream: the task polls on; the child's exit is acted    *)
(* upon before the pipe has been read to its end.                          *)
EndOfStreamIgnored ==
  /\ tailer = "reading"
  /\ taken = printed
  /\ journalctl = "exited"
  /\ UNCHANGED journalVars

EndOfStreamEarly ==
  /\ tailer = "reading"
  /\ journalctl = "exited"
  /\ tailer' = "eof"
  /\ UNCHANGED <<journal, first, journalctl, printed, taken, channel,
                 received, receiver>>

EndOfStream ==
  /\ tailer = "reading"
  /\ taken = printed
  /\ journalctl = "exited"
  /\ tailer' = "eof"
  /\ UNCHANGED <<journal, first, journalctl, printed, taken, channel,
                 received, receiver>>

(* The task returns and drops the child, which kill_on_drop kills.         *)
ReadFails ==
  /\ tailer = "reading"
  /\ tailer' = "failed"
  /\ journalctl' = "exited"
  /\ UNCHANGED <<journal, first, printed, taken, channel, received, receiver>>

-----------------------------------------------------------------------------
(* Mutant of Recv: the entry is read and left in the channel.              *)
RecvPeeking ==
  /\ receiver = "open"
  /\ channel # <<>>
  /\ received' = Append(received, Head(channel))
  /\ UNCHANGED <<journal, first, journalctl, printed, taken, tailer, channel,
                 receiver>>

(***************************************************************************)
(* The receiver: recv() yields what was sent before the task ended, and    *)
(* None only then.  Dropping it discards what is in the channel.           *)
(***************************************************************************)
Recv ==
  /\ receiver = "open"
  /\ channel # <<>>
  /\ received' = Append(received, Head(channel))
  /\ channel' = Tail(channel)
  /\ UNCHANGED <<journal, first, journalctl, printed, taken, tailer, receiver>>

RecvNone ==
  /\ receiver = "open"
  /\ channel = <<>>
  /\ tailer \in Over
  /\ receiver' = "ended"
  /\ UNCHANGED <<journal, first, journalctl, printed, taken, tailer, channel,
                 received>>

DropReceiver ==
  /\ receiver = "open"
  /\ receiver' = "dropped"
  /\ channel' = <<>>
  /\ UNCHANGED <<journal, first, journalctl, printed, taken, tailer, received>>

-----------------------------------------------------------------------------
Outside ==
  (\E e \in Entries : Log(e)) \/ JournalctlPrints \/ JournalctlExits

Task == SkipLine \/ TakeLine \/ Send \/ Cancel \/ EndOfStream \/ ReadFails

Next == Outside \/ Task \/ Recv \/ RecvNone \/ DropReceiver

Spec == Init /\ [][Next]_journalVars

(***************************************************************************)
(* The task is polled when its pipe or its channel is ready, and a live    *)
(* journalctl prints what is there.  A read error is never due.            *)
(***************************************************************************)
TailerFairness ==
  /\ WF_journalVars(SkipLine \/ TakeLine \/ Send \/ Cancel \/ EndOfStream)
  /\ WF_journalVars(JournalctlPrints)

(***************************************************************************)
(* The main loop comes back to recv(), as it does whenever every sink's    *)
(* dispatch returns.                                                       *)
(***************************************************************************)
ReceiverFairness == WF_journalVars(Recv \/ RecvNone)

-----------------------------------------------------------------------------
(***************************************************************************)
(* The receiver sees the journal's usable entries in order, none twice and *)
(* none left out, although a full channel stops the task, a full pipe      *)
(* stops journalctl, and unusable lines lie between (journal.rs:72-101).   *)
(***************************************************************************)
ImplementsLineQueue == Stream!Spec

(***************************************************************************)
(* When journalctl has died and recv() returns None, everything journalctl *)
(* managed to print has been received: the lines that explain a crash are  *)
(* not lost in the pipe or the channel (journal.rs:92-95).                 *)
(***************************************************************************)
EndMeansDrained ==
  receiver = "ended" /\ tailer = "eof" =>
    \A i \in (first + 1)..printed :
      Stream!Forwardable(journal[i]) =>
        \E k \in 1..Len(received) : received[k] = i

(***************************************************************************)
(* As long as the receiver receives and no read fails, a usable entry that *)
(* was printed is received (journal.rs:78-91), for the first n entries.    *)
(***************************************************************************)
PrintedIsReceived(n) ==
  \A i \in 1..n :
    first < i /\ i <= printed /\ Stream!Forwardable(journal[i])
      ~> \/ \E k \in 1..Len(received) : received[k] = i
         \/ tailer = "failed" \/ receiver = "dropped"
=============================================================================
