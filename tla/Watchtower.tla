----------------------------- MODULE Watchtower -----------------------------
(***************************************************************************)
(* The daemon (src/src/main.rs): the journal tailer, the main loop with    *)
(* its classifier, and the fan-out of MultiSink (src/src/alert/mod.rs) to  *)
(* the sinks, under systemd.  The main loop is one task: while a sink's    *)
(* dispatch runs, nothing is received, and entries queue in the channel,   *)
(* the pipe and the journal.  A sink is seen through its contract: its     *)
(* dispatch takes time and returns, with an error or without, or panics.   *)
(***************************************************************************)
EXTENDS StartUp, SequencesExt

CONSTANTS
  Chains, Steps, Events, Window, Threshold, Cooldown,  \* Classifier
  Entries, ChannelCap, PipeCap,                              \* Journal
  Unstructured,  \* LogEvent::Unstructured
  ParseLine,     \* message |-> the event parse_line makes of it (LogParse)
  Env,           \* the environment the daemon is started with
  MayFail,       \* the sinks whose dispatch may return an error
  MayPanic,      \* <<sink, message>>: dispatch of such a sample may panic
  RuleOrder,     \* the rules in the order of builtin_rules
  Backlog        \* how many old entries journalctl -f prints first, 10

VARIABLES
  journal, first, journalctl, printed, taken, tailer, channel,
  received, receiver,                         \* Journal
  now, events, last_fired, fired,             \* Classifier
  daemon,     \* "running", "succeeded" (exit 0) or "failed", as systemd sees it
  alerts,     \* alerts of the last ingest still to be dispatched
  sink,       \* the sink whose dispatch of Head(alerts) runs
  failures,   \* sinks that failed on Head(alerts)
  outcome,    \* what the last MultiSink::dispatch returned: "ok", "failed"
  raised,     \* history: the alerts this boot raised, in order
  offered     \* history: sink |-> the alerts it was given and what it made
              \* of them, in order

J == INSTANCE Journal
C == INSTANCE Classifier

ASSUME WatchtowerAssumption ==
  /\ Env \in Environment
  /\ ~Refuses(Env)
  /\ C!RulesAssumption
  /\ RuleOrder \in Seq(C!Rules) /\ Range(RuleOrder) = C!Rules
  /\ IsInjective(RuleOrder)
  /\ Backlog \in Nat
  /\ ChannelCap \in Nat \ {0} /\ PipeCap \in Nat \ {0}
  /\ \A e \in Entries :
       /\ e.deserializes \in BOOLEAN
       /\ J!Stream!Forwardable(e) =>
            ParseLine[e.message] \in Events \cup {Unstructured}

(* MultiSink::sinks, in order.                                             *)
Sinks == SinkList(Env)

mainVars ==
  <<daemon, alerts, sink, failures, outcome, raised, offered>>

journalVars == <<journal, first, journalctl, printed, taken, tailer, channel,
                 received, receiver>>

classifierVars == <<now, events, last_fired, fired>>

vars == <<journalVars, classifierVars, mainVars>>

TypeOK ==
  /\ J!TypeOK
  /\ C!TypeOK
  /\ daemon \in {"running", "succeeded", "failed"}
  /\ alerts \in Seq(C!Alert) /\ Len(alerts) <= Len(RuleOrder)
  /\ sink \in 1..Len(Sinks)
  /\ daemon = "running" <=> receiver = "open"
  /\ failures \in 0..(sink - 1)
  /\ outcome \in {"ok", "failed"}
  /\ raised \in Seq([entry: Nat, rule: C!Rules])
  /\ DOMAIN offered = DOMAIN Sinks

FreshMain ==
  /\ daemon = "running"
  /\ alerts = <<>>
  /\ sink = 1
  /\ failures = 0
  /\ outcome = "ok"
  /\ raised = <<>>
  /\ offered = [s \in DOMAIN Sinks |-> <<>>]

Init == J!Init /\ C!Init /\ FreshMain

-----------------------------------------------------------------------------
(***************************************************************************)
(* The main loop.                                                          *)
(***************************************************************************)
Receiving == daemon = "running" /\ alerts = <<>>

Message(i) == journal[i].message

Ingest(event) ==
  IF event = Unstructured THEN C!IngestUnstructured ELSE C!Ingest(event)

(* The Vec ingest returns: at most one alert per rule, in rule order.      *)
Positions(as) ==
  { i \in 1..Len(RuleOrder) : \E a \in as : a.rule = RuleOrder[i] }

AlertAt(as, k) ==
  CHOOSE a \in as : \E i \in Positions(as) :
    a.rule = RuleOrder[i] /\ Cardinality({ j \in Positions(as) : j <= i }) = k

InRuleOrder(as) == [k \in 1..Cardinality(Positions(as)) |-> AlertAt(as, k)]

Receive ==
  /\ Receiving
  /\ J!Recv
  /\ Ingest(ParseLine[Message(Head(channel))])
  /\ alerts' = InRuleOrder(fired')
  /\ raised' = raised \o
       [k \in DOMAIN alerts' |->
         [entry |-> Head(channel), rule |-> alerts'[k].rule]]
  /\ UNCHANGED <<daemon, sink, failures, outcome, offered>>

(* Mutant of Exit: main leaves as soon as the tailer is over.              *)
ExitEarly ==
  /\ Receiving
  /\ tailer \in J!Over
  /\ receiver' = "ended"
  /\ daemon' = "succeeded"
  /\ UNCHANGED <<journal, first, journalctl, printed, taken, tailer, channel,
                 received, classifierVars, alerts, sink, failures, outcome, raised,
                 offered>>

(* The channel is closed and empty: main returns Ok.                       *)
Exit ==
  /\ Receiving
  /\ J!RecvNone
  /\ daemon' = "succeeded"
  /\ UNCHANGED <<classifierVars, alerts, sink, failures, outcome, raised, offered>>

-----------------------------------------------------------------------------
(***************************************************************************)
(* MultiSink::dispatch: one sink after the other, whatever they return; an *)
(* error only if every sink failed, and main does no more than log it.     *)
(***************************************************************************)
Sample == received[Len(received)]

Dispatching == daemon = "running" /\ alerts # <<>>

(* The sink cannot make a body of the sample.  It panics if it comes so    *)
(* far, which an ntfy that is over its rate does not (ntfy.rs:155-168).    *)
Poisoned == <<Sinks[sink], Message(Sample)>> \in MayPanic

Offer(ok) ==
  offered' = [offered EXCEPT ![sink] =
    Append(@, [entry |-> Sample, rule |-> Head(alerts).rule, ok |-> ok])]

MoreSinks(failed) ==
  /\ sink < Len(Sinks)
  /\ sink' = sink + 1
  /\ failures' = failed
  /\ UNCHANGED <<alerts, outcome>>

(* Mutants of LastSink: the count is carried over to the next alert; one   *)
(* failure is enough for an error.                                         *)
LastSinkCountingOn(failed) ==
  /\ sink = Len(Sinks)
  /\ sink' = 1
  /\ failures' = failed
  /\ outcome' = IF failed = Len(Sinks) THEN "failed" ELSE "ok"
  /\ alerts' = Tail(alerts)

LastSinkAnyFailure(failed) ==
  /\ sink = Len(Sinks)
  /\ sink' = 1
  /\ failures' = 0
  /\ outcome' = IF failed > 0 THEN "failed" ELSE "ok"
  /\ alerts' = Tail(alerts)

LastSink(failed) ==
  /\ sink = Len(Sinks)
  /\ sink' = 1
  /\ failures' = 0
  /\ outcome' = IF failed = Len(Sinks) THEN "failed" ELSE "ok"
  /\ alerts' = Tail(alerts)

(* Mutant of SinkReturns: the loop is left at the first error.             *)
SinkReturnsOrLeaves(ok) ==
  /\ Dispatching
  /\ ok \/ (Sinks[sink] \in MayFail /\ ~Poisoned)
  /\ Offer(ok)
  /\ IF ok THEN MoreSinks(0) \/ LastSink(0)
           ELSE /\ sink' = 1
                /\ failures' = 0
                /\ outcome' = "failed"
                /\ alerts' = Tail(alerts)
  /\ UNCHANGED <<journalVars, classifierVars, daemon, raised>>

SinkReturns(ok) ==
  /\ Dispatching
  /\ ok \/ (Sinks[sink] \in MayFail /\ ~Poisoned)
  /\ Offer(ok)
  /\ LET failed == IF ok THEN failures ELSE failures + 1
     IN MoreSinks(failed) \/ LastSink(failed)
  /\ UNCHANGED <<journalVars, classifierVars, daemon, raised>>

(* The panic unwinds out of main; the runtime cancels the tailer and the   *)
(* child is killed with the control group.                                 *)
SinkPanics ==
  /\ Dispatching
  /\ Poisoned
  /\ daemon' = "failed"
  /\ receiver' = "dropped"
  /\ channel' = <<>>
  /\ tailer' = "cancelled"
  /\ journalctl' = "exited"
  /\ UNCHANGED <<journal, first, printed, taken, received, classifierVars,
                 alerts, sink, failures, outcome, raised, offered>>

-----------------------------------------------------------------------------
(***************************************************************************)
(* The outside.  systemd starts a daemon that failed again, not one that   *)
(* succeeded (Restart=on-failure); the new journalctl prints the last      *)
(* Backlog entries again.                                                  *)
(***************************************************************************)
Restart ==
  /\ daemon = "failed"
  /\ UNCHANGED <<journal, now>>
  /\ first' = IF Len(journal) > Backlog THEN Len(journal) - Backlog ELSE 0
  /\ journalctl' = "running"
  /\ printed' = first'
  /\ taken' = first'
  /\ tailer' = "reading"
  /\ channel' = <<>>
  /\ received' = <<>>
  /\ receiver' = "open"
  /\ events' = [s \in C!Slots |-> <<>>]
  /\ last_fired' = [s \in C!Slots |-> None]
  /\ fired' = {}
  /\ daemon' = "running"
  /\ alerts' = <<>>
  /\ sink' = 1
  /\ failures' = 0
  /\ outcome' = "ok"
  /\ raised' = <<>>
  /\ offered' = [s \in DOMAIN Sinks |-> <<>>]

Log(e) ==
  /\ J!Log(e)
  /\ UNCHANGED <<classifierVars, mainVars>>

Journalctl ==
  /\ J!JournalctlPrints \/ J!JournalctlExits
  /\ UNCHANGED <<classifierVars, mainVars>>

Tailer == J!Task /\ UNCHANGED <<classifierVars, mainVars>>

Tick == C!Tick /\ UNCHANGED <<journalVars, mainVars>>

Next ==
  \/ \E e \in Entries : Log(e)
  \/ Journalctl
  \/ Tailer
  \/ Receive
  \/ Exit
  \/ \E ok \in BOOLEAN : SinkReturns(ok)
  \/ SinkPanics
  \/ Restart
  \/ Tick

Spec == Init /\ [][Next]_vars
=============================================================================
