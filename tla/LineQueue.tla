----------------------------- MODULE LineQueue -----------------------------
(***************************************************************************)
(* What journal::spawn promises the receiver: the entries of the journal   *)
(* that carry a unit and a message, from where the stream starts, in the   *)
(* order they were logged, each once and with none left out, until the     *)
(* stream ends or the receiver is dropped.  It is an unbounded queue       *)
(* without a process, a pipe or a channel.                                 *)
(***************************************************************************)
EXTENDS Integers, Sequences

CONSTANTS
  None,     \* an absent field
  Entries   \* what the services log, as the journal prints it

(***************************************************************************)
(* JournalLine: an entry is forwarded when it deserializes and has both    *)
(* MESSAGE and _SYSTEMD_UNIT.                                              *)
(***************************************************************************)
Forwardable(e) == e.deserializes /\ e.message # None /\ e.unit # None

VARIABLES
  journal,   \* the entries of the tailed units, oldest first
  first,     \* the stream starts after this many entries
  received,  \* the indices received so far, in order
  receiver   \* "open", "ended" (recv returned None) or "dropped"

queueVars == <<journal, first, received, receiver>>

LastReceived == IF received = <<>> THEN first ELSE received[Len(received)]

Pending ==
  { i \in 1..Len(journal) : i > LastReceived /\ Forwardable(journal[i]) }

Init ==
  /\ journal \in Seq(Entries)
  /\ first \in 0..Len(journal)
  /\ received = <<>>
  /\ receiver = "open"

Log(e) ==
  /\ journal' = Append(journal, e)
  /\ UNCHANGED <<first, received, receiver>>

Deliver ==
  /\ receiver = "open"
  /\ \E i \in Pending :
       /\ \A j \in Pending : i <= j
       /\ received' = Append(received, i)
  /\ UNCHANGED <<journal, first, receiver>>

Close ==
  /\ receiver = "open"
  /\ receiver' \in {"ended", "dropped"}
  /\ UNCHANGED <<journal, first, received>>

Next == (\E e \in Entries : Log(e)) \/ Deliver \/ Close

Spec == Init /\ [][Next]_queueVars
=============================================================================
