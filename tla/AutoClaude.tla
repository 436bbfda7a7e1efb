----------------------------- MODULE AutoClaude -----------------------------
(***************************************************************************)
(* AutoClaudeSink (src/src/alert/auto_claude.rs): an alert that passes the *)
(* preflight takes a permit, opens a transcript and spawns a task, which   *)
(* adds a git worktree, runs claude in it, copies its output to the        *)
(* transcript and gives the permit back.                                   *)
(*                                                                         *)
(* An incident is an alert that got a permit.  Its stage says how far the  *)
(* call of dispatch ("opening", "heading") and then its task (the rest)    *)
(* are; the incident holds its permit until it has ended, one way or the   *)
(* other.  The main loop dispatches one alert at a time; the tasks, the    *)
(* two copiers of each, git, claude and the operator run beside it.        *)
(***************************************************************************)
EXTENDS Integers, Sequences, FiniteSets, Functions

CONSTANTS
  None,           \* Rust's None
  Alerts,         \* what the classifier may raise: rule, key, sample chain
  AllowedRules,   \* WATCHTOWER_AUTO_CLAUDE_RULES
  LowerCase,      \* chain |-> its lower-case form
  Projects,       \* lower-case chain |-> repository path
  SafeKey,        \* key |-> the key with every other character an underscore
  MaxConcurrent   \* permits of the semaphore

(***************************************************************************)
(* from_env refuses an empty whitelist, an empty project map and a cap of  *)
(* zero.                                                                   *)
(***************************************************************************)
ASSUME AutoClaudeAssumption ==
  /\ AllowedRules # {}
  /\ DOMAIN Projects # {}
  /\ MaxConcurrent \in Nat \ {0}

Ended == {"done", "failed", "lost"}

InDispatch == {"opening", "heading"}

Stages ==
  InDispatch \cup {"basing", "adding", "spawning", "running", "draining"}
             \cup Ended

Streams == {"stdout", "stderr"}

VARIABLES
  second,       \* Utc::now(), as the slug formats it: to the second
  raised,       \* what this boot has raised in this second
  permits,      \* available permits
  incidents,    \* every incident there has been, in order
  transcripts,  \* incident_dir: slug |-> the parts written, and by whom
  worktrees,    \* worktree_base: slug |-> the incident that added it
  outcome       \* what the last call of dispatch returned: "ok", "failed"

vars ==
  <<second, raised, permits, incidents, transcripts, worktrees, outcome>>

Slug(a, t) == <<t, a.rule, SafeKey[a.key]>>

TypeOK ==
  /\ second \in Nat
  /\ permits \in 0..MaxConcurrent
  /\ \A i \in DOMAIN incidents :
       /\ incidents[i].stage \in Stages
       /\ incidents[i].stage \in InDispatch => i = Len(incidents)
       /\ \A s \in Streams :
            incidents[i].stage \in {"running", "draining"}
              <=> incidents[i].pipe[s] # "none"
  /\ \A g \in DOMAIN transcripts :
       transcripts[g] \subseteq
         (DOMAIN incidents) \X ({"header"} \cup Streams)
  /\ \A g \in DOMAIN worktrees :
       worktrees[g] \in DOMAIN incidents /\ incidents[worktrees[g]].slug = g
  /\ outcome \in {"ok", "failed"}

Init ==
  /\ second = 0
  /\ raised = {}
  /\ permits = MaxConcurrent
  /\ incidents = <<>>
  /\ transcripts = [g \in {} |-> {}]
  /\ worktrees = [g \in {} |-> 0]
  /\ outcome = "ok"

-----------------------------------------------------------------------------
(***************************************************************************)
(* Helpers on incidents.                                                   *)
(***************************************************************************)
At(i, stage) == i \in DOMAIN incidents /\ incidents[i].stage = stage

NoPipes == [s \in Streams |-> "none"]

Moves(i, stage) == incidents' = [incidents EXCEPT ![i].stage = stage]

(* The permit is dropped when its holder returns.                          *)
Ends(i, stage) ==
  /\ incidents' = [incidents EXCEPT ![i].stage = stage, ![i].pipe = NoPipes]
  /\ permits' = permits + 1

(* Mutants of Fails: the permit is forgotten (a leaked guard); it is added *)
(* to the semaphore by hand and then dropped as well.                      *)
FailsLeaking(i) ==
  /\ Moves(i, "failed")
  /\ UNCHANGED permits

FailsReleasingTwice(i) ==
  /\ Moves(i, "failed")
  /\ permits' = permits + 2

Fails(i) == Ends(i, "failed")

(* f with an entry for x, which it keeps if it has one.                    *)
Extended(f, x, v) ==
  [y \in DOMAIN f \cup {x} |-> IF y \in DOMAIN f THEN f[y] ELSE v]

Writes(i, part) ==
  transcripts' = [transcripts EXCEPT ![incidents[i].slug] = @ \cup {<<i, part>>}]

-----------------------------------------------------------------------------
(***************************************************************************)
(* dispatch.  The classifier's cooldown keeps it from raising one rule for *)
(* one key twice in a second; a restart forgets the cooldowns.             *)
(***************************************************************************)
Raise(a) ==
  /\ \A i \in DOMAIN incidents : incidents[i].stage \notin InDispatch
  /\ <<a.rule, a.key>> \notin raised
  /\ raised' = raised \cup {<<a.rule, a.key>>}

(* preflight: whitelisted rule, a chain in the sample, a mapped project.   *)
Preflight(a) ==
  /\ a.rule \in AllowedRules
  /\ a.chain # None
  /\ LowerCase[a.chain] \in DOMAIN Projects

Skip(a) ==
  /\ Raise(a)
  /\ ~Preflight(a)
  /\ outcome' = "ok"
  /\ UNCHANGED <<second, permits, incidents, transcripts, worktrees>>

RefuseOverCap(a) ==
  /\ Raise(a)
  /\ Preflight(a)
  /\ permits = 0
  /\ outcome' = "failed"
  /\ UNCHANGED <<second, permits, incidents, transcripts, worktrees>>

NewIncident(a) ==
  [slug |-> Slug(a, second), project |-> Projects[LowerCase[a.chain]],
   stage |-> "opening", pipe |-> NoPipes]

(* Mutant of Acquire: the run goes ahead without a permit.                 *)
AcquireUnguarded(a) ==
  /\ Raise(a)
  /\ Preflight(a)
  /\ permits' = IF permits > 0 THEN permits - 1 ELSE 0
  /\ incidents' = Append(incidents, NewIncident(a))
  /\ UNCHANGED <<second, transcripts, worktrees, outcome>>

Acquire(a) ==
  /\ Raise(a)
  /\ Preflight(a)
  /\ permits > 0
  /\ permits' = permits - 1
  /\ incidents' = Append(incidents, NewIncident(a))
  /\ UNCHANGED <<second, transcripts, worktrees, outcome>>

(* Mutant of OpenTranscript: create instead of create_new.                 *)
OpenTranscriptReusing(i) ==
  /\ At(i, "opening")
  /\ Moves(i, "heading")
  /\ transcripts' = Extended(transcripts, incidents[i].slug, {})
  /\ UNCHANGED <<second, raised, permits, worktrees, outcome>>

(* create_new: the file must not exist.                                    *)
OpenTranscript(i) ==
  /\ At(i, "opening")
  /\ incidents[i].slug \notin DOMAIN transcripts
  /\ Moves(i, "heading")
  /\ transcripts' = Extended(transcripts, incidents[i].slug, {})
  /\ UNCHANGED <<second, raised, permits, worktrees, outcome>>

(* mkdir, open (always, if the slug is taken) or the header write fails.   *)
DispatchFails(i) ==
  /\ At(i, "opening") \/ At(i, "heading")
  /\ Fails(i)
  /\ outcome' = "failed"
  /\ UNCHANGED <<second, raised, transcripts, worktrees>>

(* The header is written, the task spawned, and dispatch returns.          *)
WriteHeader(i) ==
  /\ At(i, "heading")
  /\ Writes(i, "header")
  /\ Moves(i, "basing")
  /\ outcome' = "ok"
  /\ UNCHANGED <<second, raised, permits, worktrees>>

-----------------------------------------------------------------------------
(***************************************************************************)
(* The task.                                                               *)
(***************************************************************************)
MakeBase(i) ==
  /\ At(i, "basing")
  /\ Moves(i, "adding")
  /\ UNCHANGED <<second, raised, permits, transcripts, worktrees, outcome>>

(* Mutant of AddWorktree: a path that exists is taken as it is.            *)
AddWorktreeReusing(i) ==
  /\ At(i, "adding")
  /\ Moves(i, "spawning")
  /\ worktrees' = Extended(worktrees, incidents[i].slug, i)
  /\ UNCHANGED <<second, raised, permits, transcripts, outcome>>

(* git worktree add refuses a path that exists.                            *)
AddWorktree(i) ==
  /\ At(i, "adding")
  /\ incidents[i].slug \notin DOMAIN worktrees
  /\ Moves(i, "spawning")
  /\ worktrees' = Extended(worktrees, incidents[i].slug, i)
  /\ UNCHANGED <<second, raised, permits, transcripts, outcome>>

SpawnClaude(i) ==
  /\ At(i, "spawning")
  /\ incidents' = [incidents EXCEPT ![i].stage = "running",
                                    ![i].pipe = [s \in Streams |-> "open"]]
  /\ UNCHANGED <<second, raised, permits, transcripts, worktrees, outcome>>

(* mkdir, git or the spawn of claude fails, and the task returns.          *)
TaskFails(i) ==
  /\ At(i, "basing") \/ At(i, "adding") \/ At(i, "spawning")
  /\ Fails(i)
  /\ UNCHANGED <<second, raised, transcripts, worktrees, outcome>>

(* stream_to_file copies a chunk.                                          *)
Copy(i, s) ==
  /\ i \in DOMAIN incidents
  /\ incidents[i].pipe[s] = "open"
  /\ Writes(i, s)
  /\ UNCHANGED <<second, raised, permits, incidents, worktrees, outcome>>

(* The append-open, a read or a write fails: the copier gives up.          *)
CopierFails(i, s) ==
  /\ i \in DOMAIN incidents
  /\ incidents[i].pipe[s] = "open"
  /\ incidents' = [incidents EXCEPT ![i].pipe[s] = "ended"]
  /\ UNCHANGED <<second, raised, permits, transcripts, worktrees, outcome>>

(* Mutant of CopierEnds: Ok(0) does not end the loop.                      *)
CopierSpins(i, s) ==
  /\ i \in DOMAIN incidents
  /\ incidents[i].pipe[s] = "closed"
  /\ UNCHANGED vars

CopierEnds(i, s) ==
  /\ i \in DOMAIN incidents
  /\ incidents[i].pipe[s] = "closed"
  /\ incidents' = [incidents EXCEPT ![i].pipe[s] = "ended"]
  /\ UNCHANGED <<second, raised, permits, transcripts, worktrees, outcome>>

(* claude has been waited for and both copiers joined.                     *)
Release(i) ==
  /\ At(i, "draining")
  /\ \A s \in Streams : incidents[i].pipe[s] = "ended"
  /\ Ends(i, "done")
  /\ UNCHANGED <<second, raised, transcripts, worktrees, outcome>>

-----------------------------------------------------------------------------
(***************************************************************************)
(* Outside: claude may exit, a pipe closes when the last process that has  *)
(* it has gone, the operator discards what an ended incident left.  None   *)
(* of it need ever happen.                                                 *)
(***************************************************************************)
ClaudeExits(i) ==
  /\ At(i, "running")
  /\ Moves(i, "draining")
  /\ UNCHANGED <<second, raised, permits, transcripts, worktrees, outcome>>

PipeCloses(i, s) ==
  /\ i \in DOMAIN incidents
  /\ incidents[i].pipe[s] = "open"
  /\ incidents' = [incidents EXCEPT ![i].pipe[s] = "closed"]
  /\ UNCHANGED <<second, raised, permits, transcripts, worktrees, outcome>>

Tidy(g) == \A i \in DOMAIN incidents :
             incidents[i].slug = g => incidents[i].stage \in Ended

DiscardTranscript(g) ==
  /\ Tidy(g)
  /\ transcripts' = Restrict(transcripts, DOMAIN transcripts \ {g})
  /\ UNCHANGED <<second, raised, permits, incidents, worktrees, outcome>>

DiscardWorktree(g) ==
  /\ Tidy(g)
  /\ worktrees' = Restrict(worktrees, DOMAIN worktrees \ {g})
  /\ UNCHANGED <<second, raised, permits, incidents, transcripts, outcome>>

Tick ==
  /\ second' = second + 1
  /\ raised' = {}
  /\ UNCHANGED <<permits, incidents, transcripts, worktrees, outcome>>

(***************************************************************************)
(* The daemon dies and systemd starts it again, having killed what was     *)
(* left of its control group.  The disk stays; the clock may have been set *)
(* while it was down.                                                      *)
(***************************************************************************)
Restart ==
  /\ incidents' = [i \in DOMAIN incidents |->
       IF incidents[i].stage \in Ended THEN incidents[i]
       ELSE [incidents[i] EXCEPT !.stage = "lost", !.pipe = NoPipes]]
  /\ permits' = MaxConcurrent
  /\ raised' = {}
  /\ second' \in 0..(second + 1)
  /\ outcome' = "ok"
  /\ UNCHANGED <<transcripts, worktrees>>

-----------------------------------------------------------------------------
Dispatch(a) == Skip(a) \/ RefuseOverCap(a) \/ Acquire(a)

Step(i) ==
  \/ OpenTranscript(i) \/ DispatchFails(i) \/ WriteHeader(i)
  \/ MakeBase(i) \/ AddWorktree(i) \/ SpawnClaude(i) \/ TaskFails(i)
  \/ \E s \in Streams : Copy(i, s) \/ CopierFails(i, s) \/ CopierEnds(i, s)
  \/ Release(i)

Outside(i) == ClaudeExits(i) \/ \E s \in Streams : PipeCloses(i, s)

Next ==
  \/ \E a \in Alerts : Dispatch(a)
  \/ \E i \in DOMAIN incidents : Step(i) \/ Outside(i)
  \/ \E g \in DOMAIN transcripts : DiscardTranscript(g)
  \/ \E g \in DOMAIN worktrees : DiscardWorktree(g)
  \/ Tick \/ Restart

Spec == Init /\ [][Next]_vars

(***************************************************************************)
(* What tokio gives an incident's task and its copiers: at end of file a   *)
(* copier returns, and a task that can return does.  Nothing is assumed of *)
(* git, claude, the pipes or the disk.                                     *)
(***************************************************************************)
TaskFairness(i) ==
  /\ \A s \in Streams : WF_vars(CopierEnds(i, s))
  /\ WF_vars(Release(i))
=============================================================================
