-------------------------- MODULE WatchtowerPolicy --------------------------
(***************************************************************************)
(* What the daemon owes its operator, from the journal to the sinks.       *)
(***************************************************************************)
EXTENDS Watchtower

Given(s) ==
  [k \in DOMAIN offered[s] |-> [entry |-> offered[s][k].entry,
                                rule |-> offered[s][k].rule]]

(***************************************************************************)
(* "a single failing sink does not suppress the others" (alert/mod.rs:13): *)
(* every sink is given the alerts in the order they were raised, none      *)
(* twice and none left out, no sink is ahead of the one before it, and     *)
(* nothing is received until the last sink has had them all.               *)
(***************************************************************************)
SinksInStep ==
  /\ \A s \in DOMAIN Sinks : IsPrefix(Given(s), raised)
  /\ \A s, t \in DOMAIN Sinks : s < t => Len(offered[t]) <= Len(offered[s])
  /\ Receiving => \A s \in DOMAIN Sinks : Len(offered[s]) = Len(raised)

(***************************************************************************)
(* The alerts tell the story of the journal: they come in the order in     *)
(* which the entries that caused them were logged, whatever waited in      *)
(* pipe, channel or Vec meanwhile, and no entry raises an alert of the     *)
(* same rule twice (main.rs:130-146, journal.rs:78-91).                    *)
(***************************************************************************)
AlertsFollowJournal ==
  \A k, l \in 1..Len(raised) : k < l =>
    /\ raised[k].entry <= raised[l].entry
    /\ raised[k].entry = raised[l].entry => raised[k].rule # raised[l].rule

(***************************************************************************)
(* MultiSink::dispatch returned an error exactly if no sink took the alert *)
(* it was last called for (alert/mod.rs:95-107).                           *)
(***************************************************************************)
ErrorMeansNobodyHeard ==
  LET n == Len(offered[Len(Sinks)])
  IN n > 0 => outcome = IF \E s \in DOMAIN Sinks : offered[s][n].ok
                        THEN "ok" ELSE "failed"

(***************************************************************************)
(* When journalctl died and main returned Ok, every usable entry that was  *)
(* printed has been classified and every alert that came of it has been    *)
(* given to every sink: nothing is left behind in pipe, channel or Vec     *)
(* (main.rs:130-150, journal.rs:92-95).                                    *)
(***************************************************************************)
ExitMeansDelivered ==
  daemon = "succeeded" /\ tailer = "eof" =>
    /\ \A i \in (first + 1)..printed :
         J!Stream!Forwardable(journal[i]) => i \in Range(received)
    /\ \A s \in DOMAIN Sinks : Given(s) = raised

(***************************************************************************)
(* "LoggerSink is always-on so the daemon never silently drops alerts"     *)
(* (README.md:87): when the daemon has stopped, the logger, the first      *)
(* sink, has had every alert that was raised.                              *)
(***************************************************************************)
NeverSilentlyDropped ==
  daemon # "running" => Given(1) = raised

-----------------------------------------------------------------------------
(***************************************************************************)
(* The tokio tasks are polled, a live journalctl prints, and the sinks     *)
(* return: of a list of logger, ntfy and auto-claude that is so, since the *)
(* first does not wait, the request of the second has a timeout            *)
(* (ntfy.rs:61), and the third leaves git and claude to a task.            *)
(***************************************************************************)
Fairness ==
  /\ WF_vars(J!JournalctlPrints /\ UNCHANGED <<classifierVars, mainVars>>)
  /\ WF_vars((J!SkipLine \/ J!TakeLine \/ J!Send \/ J!EndOfStream)
             /\ UNCHANGED <<classifierVars, mainVars>>)
  /\ WF_vars(Receive \/ Exit)
  /\ WF_vars(\E ok \in BOOLEAN : SinkReturns(ok))
  /\ WF_vars(SinkPanics)

(***************************************************************************)
(* The daemon does not outlive its journalctl as a deaf process: its death *)
(* ends the main loop, after which the heartbeat stops                     *)
(* (journal.rs:92-95, main.rs:148-150).                                    *)
(***************************************************************************)
DeafDaemonStops == journalctl = "exited" ~> daemon # "running"

(***************************************************************************)
(* A usable entry that was printed is classified and its alerts are given  *)
(* to every sink, unless the daemon stops (main.rs:130-146), for the first *)
(* n entries.                                                              *)
(***************************************************************************)
EntryIsHandled(n) ==
  \A i \in 1..n :
    /\ daemon = "running" /\ first < i /\ i <= printed
    /\ J!Stream!Forwardable(journal[i])
    ~> \/ daemon # "running" \/ tailer = "failed"
       \/ i \in Range(received)
            /\ \A s \in DOMAIN Sinks :
                 \A k \in DOMAIN raised :
                   raised[k].entry = i => k <= Len(offered[s])
=============================================================================
