------------------------------ MODULE LogLines ------------------------------
(***************************************************************************)
(* From what a service logs to what the classifier counts: the lines of    *)
(* its logger, parse_line and ingest, called in turn by the main loop      *)
(* (src/src/main.rs).  The wall clock may be set back.                     *)
(***************************************************************************)
EXTENDS ClassifierHistory, LogParse

CONSTANT Records  \* what the services log

(***************************************************************************)
(* A record of the logger: a level, None for output that does not come     *)
(* from it; a chain, a rid and a step, or None; and a free-form message.   *)
(* The step is the words behind "step=", in whatever layout.               *)
(***************************************************************************)
IsRecord(w) ==
  /\ w = [level |-> w.level, chain |-> w.chain, rid |-> w.rid,
          step |-> w.step, message |-> w.message]
  /\ w.chain # None => w.chain \in STRING \ {""}
  /\ w.rid # None => w.rid \in STRING
  /\ w.step # None => w.step \in Seq(Token)
  /\ w.message \in Seq(Token)

Field(name, value) ==
  IF value = None THEN <<>> ELSE <<[field |-> name, text |-> value]>>

WrittenRest(w) ==
  Field("chain", w.chain) \o Field("rid", w.rid)
    \o (IF w.step = None THEN <<>> ELSE w.step) \o w.message

WrittenLine(w) == [level |-> w.level, rest |-> WrittenRest(w)]

ASSUME RecordsAssumption ==
  /\ Unstructured \notin Events
  /\ \A w \in Records :
       /\ IsRecord(w)
       /\ w.level # None => ParseLine(WrittenLine(w)) \in Events

VARIABLES
  line,   \* history: the record of the line received last
  heard   \* history: how many lines were received

lineVars == <<historyVars, line, heard>>

LInit ==
  /\ HInit
  /\ line = None
  /\ heard = 0

(***************************************************************************)
(* The body of the receive loop, up to the dispatch.                       *)
(***************************************************************************)
IngestLine(w) ==
  LET event == ParseLine(WrittenLine(w))
  IN /\ IF event = Unstructured THEN HOther(IngestUnstructured)
                                ELSE HIngest(event)
     /\ line' = w
     /\ heard' = heard + 1

LNext ==
  \/ \E w \in Records : IngestLine(w)
  \/ HOther(Tick \/ SetClockBack) /\ UNCHANGED <<line, heard>>

LSpec == LInit /\ [][LNext]_lineVars

-----------------------------------------------------------------------------
Mentions(tokens, field) == \E i \in DOMAIN tokens : tokens[i].field = field

(***************************************************************************)
(* The layout of a step in parse.rs:6: its first word behind "step=", and  *)
(* its N/M fragment at its end and nowhere before.  The ones of            *)
(* README.md:31 and README.md:64, with the N/M first, are not read as such.*)
(***************************************************************************)
WrittenStep(st) ==
  /\ st \in Seq(Token)
  /\ Len(st) >= 2
  /\ Gives(st[1], "step")
  /\ IsFragment(st[Len(st)])
  /\ \A i \in 2..(Len(st) - 1) :
       st[i].field = "word" /\ ~IsFragment(st[i])

(***************************************************************************)
(* A record whose step, if any, is laid out like that, and whose message   *)
(* does not mention a field it lacks: parse_line takes a missing field     *)
(* from the message.  Nothing is asked of the message for a field that the *)
(* record has.                                                             *)
(***************************************************************************)
Legible(w) ==
  /\ w.level # None
  /\ w.chain = None => ~Mentions(w.message, "chain")
  /\ IF w.step = None THEN ~Mentions(w.message, "step") ELSE WrittenStep(w.step)

(* The event with the level, the chain and the step the service gave.      *)
Named(w, reject) ==
  [level |-> LevelOf(w.level), chain |-> w.chain,
   step |-> IF w.step = None THEN None ELSE Text(w.step), reject |-> reject]

(***************************************************************************)
(* "Anything after that is free-form" (parse.rs:112-113): a legible record *)
(* counts under its own level, chain and step, whatever other fields and   *)
(* fragments its message mentions.  All that text can decide is whether    *)
(* reject_cluster_per_step counts the line as well (classify.rs:105), and  *)
(* then in the slot of the record's chain and step.                        *)
(***************************************************************************)
CountedAsNamed ==
  [][ heard' # heard /\ Legible(line') =>
        \E reject \in BOOLEAN : \A s \in Slots :
          arrivals'[s] = IF s \in SlotsOf(Named(line', reject))
                         THEN Append(arrivals[s], now) ELSE arrivals[s]
    ]_lineVars
=============================================================================
