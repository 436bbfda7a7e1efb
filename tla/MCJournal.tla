----------------------------- MODULE MCJournal -----------------------------
(***************************************************************************)
(* A small tailer: a channel for two entries, a pipe for two, and journals *)
(* of up to MaxEntries entries, the first of which may have been logged    *)
(* before the tailer starts.  One entry is usable; one is not an object of *)
(* the expected shape, one has no message and one no unit.                 *)
(***************************************************************************)
EXTENDS Journal

CONSTANTS MaxEntries, MaxPast

Entry(d, m, u) == [deserializes |-> d, message |-> m, unit |-> u]

MCEntries ==
  { Entry(TRUE, "m", "u"), Entry(FALSE, None, None),
    Entry(TRUE, None, "u"), Entry(TRUE, "m", None) }

MCInit ==
  \E k \in 0..MaxPast : \E j \in [1..k -> Entries] : \E n \in 0..k : StartAt(j, n)

Bounded == Len(journal') <= MaxEntries

MCSpec == MCInit /\ [][Next /\ Bounded]_journalVars

MCLiveSpec == MCSpec /\ TailerFairness /\ ReceiverFairness

(***************************************************************************)
(* PrintedIsReceived for every entry of the instance: what was printed     *)
(* reaches a receiver that goes on receiving (journal.rs:78-91).           *)
(***************************************************************************)
MCPrintedIsReceived == PrintedIsReceived(MaxEntries)
=============================================================================
