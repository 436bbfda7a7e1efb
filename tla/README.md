# Watchtower in TLA+

A formal model of `plausiden-watchtower`, the daemon that follows the journal,
turns log lines into structured events, counts them in sliding windows, and
sends the alerts that result to a logger, ntfy, e-mail and, if it is enabled, a
sandboxed `claude` process. Paths below are relative to the repository
(`src/src/classify.rs` is the file `src/classify.rs` of the crate, with the
crate in `src/`).

1. [The system](#1-the-system)
2. [The modules](#2-the-modules)
3. [What is checked](#3-what-is-checked)
4. [What is proved](#4-what-is-proved)
5. [Where the code and its documentation differ](#5-where-the-code-and-its-documentation-differ)
6. [What is not modelled](#6-what-is-not-modelled)
7. [Plan](#7-plan)
8. [Running it](#8-running-it)

## 1. The system

```
 journalctl --follow ──stdout──▶ tailer task ──mpsc(1024)──▶ main loop
                                                               │ parse_line
                                                               │ Classifier::ingest
                                                               ▼ Vec<Alert>
                                                           MultiSink::dispatch
                                            ┌──────────┬──────┴─────┬─────────────┐
                                            ▼          ▼            ▼             ▼
                                        LoggerSink  NtfySink    EmailSink   AutoClaudeSink
                                                    (POST)      (mail(1))   (git worktree,
                                                                             claude, 2 copiers)
 heartbeat task ──fs::write──▶ heartbeat file ◀──mtime── staleness check (timer unit)
```

| Component | State | Operations | What makes it correct |
|---|---|---|---|
| Rules and classifier, `classify.rs` | per (rule, key): a deque of timestamps, the time of the last alert | `ingest` | a window is exactly the events it covers; no burst is missed; an alarm is not repeated within its cooldown |
| Token bucket, `alert/rate_limit.rs` | `capacity`, `tokens`, `last_refill` | `try_take_at` | never more grants than a full bucket plus what the time earns; no caller refused who is within the rate |
| Dedup cache, `alert/rate_limit.rs` | key ↦ last emission | `should_emit_at` | the opportunistic garbage collection changes no answer and bounds the map |
| E-mail sink, `alert/email.rs` | a dedup cache, a bucket; a `mail(1)` process | `dispatch` | dedup before cap; `Ok` means an e-mail went out; a repeat is silenced only if there was an e-mail |
| Auto-Claude sink, `alert/auto_claude.rs` | a semaphore; per incident a task, a transcript, a worktree, a `claude` process with two pipes, two copier tasks | `preflight`, `spawn_claude`, the spawned task | at most `max_concurrent` processes; every permit comes back exactly once; incidents do not share a transcript or a worktree |
| ntfy sink, `alert/ntfy.rs` | a bucket, one request under way | `dispatch` | the rate is kept and refuses nobody who keeps it; `Ok` for a request means the server took it |
| MultiSink and logger, `alert/mod.rs` | none | `dispatch` | a sink that fails does not keep the alert from the next one |
| Journal tailer, `journal.rs` | a child process, a bounded channel | `spawn`, the read loop | lines reach the main loop in order and none is dropped; the end of the stream ends the daemon |
| Main loop, `main.rs` | the classifier, the sink list | start-up, receive loop | refuses an incoherent environment before it looks alive; every alert is dispatched |
| Heartbeat, `self_monitor.rs` | an interval, a counter, the heartbeat file | beat | one beat per interval, the file is fresh while the task can write it and not otherwise |
| Staleness check, `scripts/` and `deploy/` | the file's mtime | one-shot check | a silent daemon is reported, a healthy one is not |
| Line parser, `parse.rs` | none | `parse_line` | a line counts under the chain and the step its service gave it, whatever others its free text mentions |

Components interact in three ways: the channel between the tailer task and the
main loop; synchronous calls from the main loop down to each sink in turn, with
an `.await` in which the whole loop stands still (`mail(1)`, the POST, the
transcript's header); and, for Auto-Claude, tasks that run git and claude after
`dispatch` has returned and hold a semaphore permit while they do.

What is hard in this code:

* **Time.** Windows and cooldowns use the wall clock (`main.rs:133` passes
  `Utc::now()`), which can be set back; buckets and dedup use `Instant`, which
  cannot. Every comparison has a boundary case.
* **Partial failure.** A dispatch stamps a key, takes a token, and only then
  starts something that can fail in several ways. An Auto-Claude dispatch has
  seven early exits between taking a permit and handing it to a task.
* **Concurrency.** Several incidents run at once; each has a task and two
  copiers that append to one file by name, with processes behind them that may
  outlive `claude` and keep the pipes open.
* **Restart.** Classifier, buckets, caches and permits live in memory; transcripts
  and worktrees do not, and are found again by a slug that can recur.
* **Two programs on one file.** The heartbeat's task and the staleness check share
  an mtime and an environment and nothing else; each may be stopped, refused or
  slow at any point of what the other does.
* **Free text.** Fields are found in a line by regexes, and the message behind them
  may contain anything.
* **Liveness.** The main loop is one task: a sink that does not return stops
  all of them.

`PROJECT.json` lists each of these at the line where it bites.

## 2. The modules

### Classifier

| Module | Role |
|---|---|
| `AlertRules` | the rule table of `builtin_rules`: what a rule matches, its key, the alert it makes. Durations and thresholds are constants. |
| `Classifier` | the engine: `events` and `last_fired` are the two fields of `WindowState`, `fired` the `Vec<Alert>` returned by the last `ingest`, `now` the argument. |
| `AlertMonitor` | the abstract specification: it keeps every arrival and every alarm, and fires when a window holds `Threshold` arrivals and no alarm lies in the last `Cooldown`. |
| `ClassifierHistory` | the classifier with history variables, its properties, and the refinement of `AlertMonitor`. |
| `MCClassifier`, `ClassifierProofs` | the checked instance; the proofs. |

`ingest` is synchronous and holds `&mut self`, so a call is one action although
it visits five rules: no other code can see the state between two of them. An
absent entry of `states` behaves as a fresh `WindowState`, so the map is a total
function. `DropExpired` translates the loop that pops the front while it is
older than the cutoff: it stops at the first entry that is not, and does not
filter. That difference is unobservable while the clock moves forward; section 5
says what it does when the clock does not. `SetClockBack` is only in
`NextStepped`, so each property says which clock it needs.

### Token bucket and dedup cache

| Module | Role |
|---|---|
| `RateLimit` | both structures as operators on values (`Refilled`, `HasToken`, `Spent`, `Suppresses`, `Remembered`), so that a sink can embed them. |
| `TokenBucket`, `DedupCache` | one structure alone, called at arbitrary times, with its promises. |
| `DedupKeys` | the parameters of the cache. |
| `DedupMonitor` | the abstract cache that keeps every emission for ever. |
| `TokenBucketProofs` | proofs about the bucket and the ntfy sink. |

Neither structure has a run of its own. The bucket is checked under its caller, the
ntfy sink, whose module extends it; the cache and a second bucket under theirs, the
e-mail sink, which is shown to implement both.

Tokens are an `f64` in the code. The model multiplies by the refill interval and
is exact: a bucket of `Capacity` tokens holds `Capacity * Interval` units, one
elapsed time unit earns `Capacity` of them, a grant costs `Interval`.

### ntfy sink

| Module | Role |
|---|---|
| `NtfySink` | `dispatch` on top of `TokenBucket`: `Throttle` (over the rate, `Ok`), `Send`, `BodyPanics` (the byte slice of `body_for`), `Respond` and `RequestFails`; the server, the daemon's death and its restart with a full bucket. |
| `MCNtfy` | the instance. |

Each call of `try_take` is the first step of a `dispatch`. `Pass` lets time go by only
up to the client's timeout, by which the request has been answered or has failed. The
server may have accepted a push whose answer is late: then `dispatch` returns an error.
The poisoned-mutex branch is unreachable, since `try_take` does not panic.

### E-mail sink

| Module | Role |
|---|---|
| `EmailSink` | `dispatch` with its error paths; `mail(1)` as a process of its own: spawn fails, or it reads the body or not, delivers or not, and exits with or without success. |
| `EmailPolicy` | the promises: what `Ok` means, what the cap bounds and what it refuses, the documented cap and dedup, and the refinements of `DedupCache` and `TokenBucket`. |
| `MCEmail`, `EmailProofs` | instances; proofs about the sink, its cache and its bucket. |

Three variables are histories, which nothing reads but the properties: `decisions`
(what became of each Page alert), `attempts` (when a token was taken) and `mails`
(what `mail(1)` sent, and when).

### Auto-Claude sink

| Module | Role |
|---|---|
| `AutoClaude` | `preflight`, the steps of `spawn_claude` in order (transcript, header, `git worktree add`, spawn, task), the task, its two copiers, `claude` and the processes that inherit its pipes, the operator who discards a worktree, and the restart. |
| `AutoClaudePolicy` | the promises, and the fairness of the task. |
| `MCAutoClaude`, `AutoClaudeProofs` | instances; proofs. |

The daemon has one dispatch in flight (`phase`, `pc`-like) and any number of
incidents whose tasks run beside it. `sandbox_root` and the transcript directory
outlive the daemon: `Restart` drops permits and tasks, and systemd kills the
control group, but files stay. `SafeKey` and `LowerCase` are given as constants
and stand for the character map of `build_slug` and `to_lowercase`; the checked
instances contain two keys with the same image, as the code's map has.

### Journal tailer

| Module | Role |
|---|---|
| `LineQueue` | the abstract specification: an unbounded queue that hands out the usable entries of the journal in order, each once and none left out. |
| `Journal` | the pipeline behind it: the journal, `journalctl -f`, the pipe, the task of `journal::spawn`, the bounded channel, the receiver. |
| `MCJournal`, `JournalProofs` | instances; proofs. |

An entry is known by its index in the journal. `printed` and `taken` bound what
is in the pipe; `tailer` is where the task waits (in `next_line()` or in
`send().await`) or how it ended. `SkipLine` is the two `continue`s, `Send` and
`Cancel` the two outcomes of `send().await`, `EndOfStream` and `ReadFails` the
two other arms of the match. A task that returns drops the child, which
`kill_on_drop` kills. A line that a dying `journalctl` did not finish fails to
deserialize and counts as not printed.

### Line parser

| Module | Role |
|---|---|
| `LogParse` | `parse_line`: a line is a level and a sequence of tokens; what each regex takes of it. |
| `LogLines` | the records a service logs, how its logger writes them, and the receive loop up to `ingest`, on top of `ClassifierHistory`. |
| `MCLogLines`, `LogLinesProofs` | the instance; proofs. |

A token is what white space separates: a word, or one of `chain=`, `rid=`, `step=` with
its value. `Chain` is the first token that gives a chain; `StepSpan` is the run of tokens
that the lazy repetition of the step's regex takes, to the first `N/M` behind it. The
text of a run matters by its identity, so it is the run itself, printed. `Rejects` is
`message.contains("REJECT")`, where the message is all that follows the prefix, fields
included; `Rejecting` holds the texts in which the word occurs, alone or inside another. What the regexes do inside a
word (`\b`, the character classes of a value) is abstracted: a token gives a field or it
does not.

### Daemon

| Module | Role |
|---|---|
| `StartUp` | the environment, reduced to the cases the code tells apart; the `from_env` of each sink, the refusals of `main`, the list of sinks, the heartbeat's interval. |
| `Watchtower` | the main loop over `INSTANCE Journal` and `INSTANCE Classifier`, the fan-out of `MultiSink` to the sinks of `StartUp`, the panic of a sink, and systemd. |
| `WatchtowerPolicy` | the promises from the journal to the sinks, and the fairness. |
| `MCWatchtower`, `WatchtowerProofs` | instances; proofs. |

`Receive` is `recv()`, `parse_line` and `ingest`, with no other task able to
see what lies between; the channel is emptied by it alone. From then until the
last alert of the `Vec` has been through the last sink, nothing is received,
while the tailer, `journalctl` and the services go on: each `dispatch` of a sink
is a step of its own. `SinkReturns` is one turn of the loop in
`MultiSink::dispatch`; `SinkPanics` is the slice `&m[..240]` in ntfy's
`body_for`, which unwinds out of `main`; a throttled ntfy returns before it gets there, so a
poisoned sample may also come back `Ok`. `Restart` is `Restart=on-failure` with a
new classifier and a `journalctl` that prints the last `Backlog` entries again.
A sink is represented by its contract; each sink but the logger has a module of
its own, and the clock of the composition is the classifier's. `ParseLine` gives the
event of a message; `LogParse` says which, and `LogLines` what follows from it.

### Heartbeat and staleness check

| Module | Role |
|---|---|
| `SelfMonitor` | a daemon that is refused or starts, spawns its heartbeat, follows the journal, ends in one of four ways and is started again; its heartbeat task between ticks of tokio's `Interval`. |
| `StalenessCheck` | the script under its timer: misconfigured, look, healthy, post. |
| `StalenessPolicy` | what the two promise together. |
| `MCStaleness`, `StalenessProofs` | the instance; proofs. |

The clock is discrete and urgent: what is due at an instant (a start, a tick, the
steps between two awaits, the timer) happens before the clock moves on, unless the
daemon is *frozen*, which stands for a stopped process and for a write that hangs.
`curl` takes any time. `NextDeadline` is `MissedTickBehavior::Skip`. `fs::write` is two
steps, `Truncate` and `WriteBody`, and either may fail; when `main` ends, the runtime
cancels the task where it awaits but waits for a write that was begun (`CanReturn`),
and a kill waits for nothing. `able` records since when the heartbeat can be written
(the daemon runs and is not frozen, and no open has failed since) or cannot (it is down
or frozen).

## 3. What is checked

Every run finishes; the numbers are distinct states.

| Run | States | Checks | Shows |
|---|---|---|---|
| `classifier` | 83,663 | `HTypeOK`, `DequeIsWindow`, `NoSilentBurst`, `ImplementsMonitor` | with a clock that does not go back, pruning is exact, a burst always has its alarm, and the classifier fires what the monitor fires, with the same counts |
| `log_lines` | 38,704 | `AlarmsSpaced`, `CountedAsNamed` | a line whose step is laid out as in `parse.rs:6` is counted under its own level, chain and step, whatever other fields and fragments its message mentions; the text decides at most whether `reject_cluster_per_step` counts it as well; alarms of a slot stay a cooldown apart although the clock may be set back at any time |
| `ntfy` | 570,107 | `NtfyTypeOK`, `RateBound`, `RefusalJustified`, `OkMeansPushed` | through late, missing and negative answers, panics and restarts: the pushes between any two instants of a boot are bounded by a full bucket plus what was earned, a throttled caller had used up its rate, and `Ok` for a request means the server took it |
| `email` | 110,694 | `TypeOK`, `CacheSpansOneCooldown`, `CapRefusalsJustified`, `MailsBounded`, `OkMeansMailed`, `ImplementsDedup`, `ImplementsMonitor`, `ImplementsBucket` | through every failure of `mail(1)`, the sink calls its dedup cache and its bucket as each is specified to be called, the bucket is asked only about alerts dedup let through, `Ok` for an attempt means an e-mail went out, the garbage collection changes no answer and leaves the keys of one cooldown; the cap refuses only after `DailyCap` attempts within a day, and the e-mails that follow a given one are at most a full bucket plus what was earned since, however late `mail(1)` sends |
| `email_daily_cap` | – | `DailyCapHolds`, violated | more than `DailyCap` e-mails fit in a rolling day |
| `email_dedup` | – | `SuppressedOnlyAfterMail`, violated | an alert nobody was mailed about silences its repeats |
| `auto_claude` | 443,363 | `TypeOK`, `PermitsConserved`, `OneIncidentPerTranscript`, `OwnWorktree` | with colliding slugs, failures at every step, restarts and discards, permits are conserved and incidents stay apart |
| `auto_claude_live` | 143,818 | `CapHolds`, `MCPermitComesBack` | at most `MaxConcurrent` processes; once `claude` and its pipes are gone the permit returns |
| `journal` | 425,805 | `TypeOK`, `EndMeansDrained`, `ImplementsLineQueue`, `MCPrintedIsReceived` | through a full channel, a full pipe, unusable lines and the death of `journalctl`, the receiver sees the usable entries in order, none twice, none left out, and all that was printed before the stream ends; what is printed is received while the receiver receives and no read fails |
| `watchtower` | 221,246 | `TypeOK`, `SinksInStep`, `AlertsFollowJournal`, `ErrorMeansNobodyHeard`, `ExitMeansDelivered`, `DeafDaemonStops`, `MCEntryIsHandled` | through failing and panicking sinks, restarts and the death of `journalctl`: the sinks see the same alerts in the order raised, that order is the journal's, no entry raises a rule twice, `dispatch` fails only if nobody heard, a regular exit leaves nothing in pipe, channel or `Vec`; the death of `journalctl` ends the daemon; what was printed is classified and given to every sink unless the daemon stops |
| `watchtower_silent` | – | `NeverSilentlyDropped`, violated | a panic in ntfy on the first alert of a `Vec` keeps the second from every sink, the logger included |
| `staleness` | 1,307,674 | `TypeOK`, `OneBeatPerSlot`, `SilenceReported`, `RefusalReported`, `HealthyNotReported` | a daemon that stays dead or frozen is reported within a threshold and a timer period, also one that systemd keeps starting and that refuses its environment; one that beats is not reported; a pause causes no burst of beats |

**Bounds.** Each is a named constant of an MC module.

* Classifier: `MaxTime = 4`, `MaxArrivals` 6. The instance keeps the order of the durations in the code: `fatal_any`
  has a window longer than its cooldown, the cluster rules a shorter one, the
  baselines an equal one, so each way in which windows and cooldowns overlap
  occurs, and time passes the longest window. Thresholds 1 and 2 suffice to have
  a burst that straddles a window or a cooldown. The five inputs cover all rules,
  the substitutes for a missing chain and step, and a line counted by two rules.
* Log lines: three lines within three time units and a clock that is set back; the
  records are a complete one whose message mentions another chain, another step, another
  `N/M` and a reject, one with the `N/M` of its step in front, ones that lack the step, the
  chain or both, levels under an alias, and raw output. `CountedAsNamed` says nothing of
  three kinds of record, though the run has them all: raw output; a step in another
  layout than that of `parse.rs:6`; and a record whose message mentions a field that it
  lacks, for `parse_line` then takes the field from the message.
* ntfy: `MaxTime` and `MaxTakes` allow a bucket of two tokens to be drained, to
  refill in part and in full, and to idle past a full interval; one of the two messages
  makes `body_for` panic. The run stops at `MaxTakes` calls, so it does not check for
  deadlock.
* Staleness: intervals of 2 to 4 beside thresholds of 4 and 5 and a timer period of 1,
  so a beat or two may be missed before the check speaks; `MaxTime = 8` lets a silence
  begin after some beats and last a threshold and a period. The environments are a good
  one, one whose interval is out of range, three that the daemon refuses (units,
  Auto-Claude, URL) and one that the check refuses. The clock stops at `MaxTime`,
  so the run does not check for deadlock.
* E-mail: more keys than tokens, so the cap is reached by distinct keys; the
  cooldown equals the time that earns one token, as in the code (6 h = 24 h / 4);
  four decisions over four keys (three in the two runs that show a violation), so that
  two entries of the cache can expire in one call while a third is live, and as many
  e-mails as `MailsBounded` allows do go out. Keys are interchangeable: every property of
  these runs is an invariant or speaks of single steps, and none names a key.
* Auto-Claude: one incident more than permits (3 and 2, or 2 and 1), two clock
  values in the safety runs (a slug recurs within the second and not after it).
  The liveness run keeps the clock still and uses a wider set of alerts, so that
  every early return of `preflight` occurs.
* Journal: channel and pipe of two entries each fill and block within five
  entries, so `send().await` waits, `journalctl` waits, and a receiver that is
  dropped or a child that dies finds entries in both. The four entries are the
  four ways through the two `let ... else` of the task. `MaxPast` lets the stream
  start behind entries already in the journal.
* Daemon: channel and pipe of one entry; three entries, so that one is being
  dispatched, one waits in the channel and one in the task or the pipe. The
  parameters make one error raise two alerts (two elements of the `Vec`), or one,
  or none, depending on what was raised before; three sinks, each of which may
  fail and the middle one panic; a restart that reads `Backlog = 1` old entries
  again. What windows, thresholds and cooldowns do to each other is the
  classifier's own run. The runs of the journal and the daemon do not check for
  deadlock: the stream ends for good when `journalctl` dies, and systemd does not
  restart a daemon that exits with 0.

**Fairness.** `auto_claude_live` assumes weak fairness of `CopierEnds`
and `Release` for each incident. Both are steps of tokio tasks that are runnable
once their pipe has ended, or the two copiers have; the runtime polls a task
that was woken. Nothing is assumed of `claude`, `git`, `mail(1)`, the disk, the
clock or the operator: `PermitComesBack` begins at the state in which `claude`
has exited and its pipes are closed. A process that `claude` left behind with a
pipe open keeps the permit, in the code and in the model.

`journal` assumes `TailerFairness` (the task is polled when its pipe or channel
is ready; a live `journalctl` prints what is there) and `ReceiverFairness` (the
main loop comes back to `recv()`, which is enabled until the receiver is dropped).
`watchtower` does not assume the latter but its causes: the main loop receives or
exits, and a sink's `dispatch` returns or panics. That holds of the logger, which
does not wait, of ntfy, whose client has a timeout of 5 s, and of Auto-Claude,
whose dispatch leaves git and claude to a task; it does not hold of a `mail(1)`
that hangs, and the run's sinks are the other three. No fairness is assumed of services
logging, of `journalctl` dying, of read errors, of systemd or of the clock. The
properties of `staleness` are safety properties over the discrete clock, and assume no
fairness.

**Mutants.** Beside a definition there is, for each property of a passing run, a
mutated form (`ExpiredOffByOne`, `IngestRestartingCooldown`, ...). Each is a bug one
could write at that place; with it in place of the original the property fails
under the run's configuration. They are never used by the specifications.

## 4. What is proved

For every value of the constants that satisfies the modules' assumptions
(`RulesAssumption` and its like: durations and thresholds of the right type and,
where a division of roles needs it, positive). All assumptions are evaluated by
TLC on the instances.

* **Classifier** (`ClassifierProofs`). `TypeCorrect` and `CooldownHolds` hold with a
  clock that may be set back. The invariant of `CooldownHolds` adds that
  `last_fired` is an alarm and that every alarm later than it is at a distance:
  with a clock set back, `now - last_fired` is negative, hence below the cooldown,
  so nothing fires until the clock has caught up. `WindowExact` and
  `EveryBurstAlarms` need a clock that does not go back: the invariant says that
  arrivals are sorted and not in the future, and the deque is the suffix of the
  arrivals its window covers; the popping loop then removes exactly the expired
  ones, because in a sorted sequence they are a prefix. `ClassifierImplementsMonitor`
  follows: the deque has as many entries as the monitor counts, and the last alarm
  decides whether any alarm lies within the cooldown.
* **Token bucket and ntfy sink** (`TokenBucketProofs`). `TokensInRange`; `RateBounded`: for any
  earlier instant, tokens now plus the cost of the grants since are at most a full
  bucket plus what the time earned. That sum is the induction hypothesis; capping
  at a full bucket only lowers its left side. `PushesRateBounded` carries it over to the
  sink, in which each `dispatch` is one call of the bucket and a failed request returns
  no token; `SinkTyped`, `OkIsPushed`. `RefusalsJustified` needs the account from the
  other side (`Debit`): counted from the start or from any grant, the tokens left and
  the grants since come to a full bucket, or to what was earned since. So at a refusal
  the grant that lies `Capacity` back is younger than an interval, and the later ones
  are too; what was refused before stays justified because grants are only added.
* **E-mail sink, its cache and its cap** (`EmailProofs`). First the cache, under arbitrary
  calls: the cached time of a key is its latest emission, and a key that is not cached
  has none within the cooldown (`CacheTracks`), which is what the collection must keep.
  Then `SinkImplementsDedup`: each decision about a Page alert, read from the list of
  decisions, is one such call (`DecisionRead`), and no other step is. So
  `SinkCacheBounded` and `SinkImplementsMonitor` hold of the sink. `TypeCorrect`;
  `OkIsMailed` rests on the invariant that the attempt under way is the last decision
  and that `mail(1)` exits with 0 only after it handed over a mail for it (`SinkInv`).
  `SinkImplementsBucket`: an attempt is a grant, a capped alert a refusal, and a
  duplicate no call at all, so that what `TokenBucketProofs` shows of a bucket under any
  caller (`BucketRefusalsJustified`) holds of the cap: `CapRefusesOnlyUsedUp`, which
  fails as soon as duplicates cost tokens. `SinkMailsBounded` is what remains true of
  "at most 4 emails in any rolling 24h". It does not follow from the bound on attempts,
  since `mail(1)` sends any time after the token was taken and the time between two
  e-mails may be much shorter than that between their attempts. What saves it is that
  one attempt is under way at a time. The invariant (`AccountedFor`) says, for each
  e-mail no younger than the last refill: the tokens left, the one the attempt under way
  stands for, and those of the e-mails since are at most a full bucket plus what was
  earned since; and only the last e-mail can be younger than the last refill, with
  nothing under way behind it.
* **Auto-Claude** (`AutoClaudeProofs`). `TypeCorrect`, `PermitsAccounted`,
  `CapEnforced`, `TranscriptsApart`, `WorktreesApart`. The inductive invariant is the conjunction of
  the type, `PermitsConserved`, `OwnersApart` and `OwnerAlone` (a live incident with
  a transcript or worktree is the only live one that claims it, and no later one
  can have created it again), `OneIncidentPerTranscript` and `OwnWorktree`. None
  but the type is inductive alone: that the transcript is not shared rests on
  `create_new`, and that the worktree is not shared rests on the transcript being
  taken first. Lemmas `Shift` and `Effect` say once what a step changes, so the
  cases of `Next` are short.
* **Journal** (`JournalProofs`). `TypeCorrect`, `DrainedAtTheEnd` and
  `TailerImplementsLineQueue`. Neither of the last two property is inductive: the invariant
  follows each entry through the pipeline. What is not later than the last entry
  received is in `received` (`ReceivedAll`); what lies between it and the last
  entry the task has decided on (`Sent`) is in the channel (`ChannelHolds`),
  which is sorted and holds nothing else (`ChannelSorted`); the rest is in the
  pipe or unprinted. So the head of the channel is the least pending entry, which
  is what `LineQueue` delivers, and when the task has seen the end of the pipe
  and the channel is empty nothing is left between them (`Ends`). Every other
  step of the pipeline is a stutter of `LineQueue`. The lemma `Whereabouts`
  covers the steps that move no entry.

* **Log lines** (`LogLinesProofs`). `LinesCountAsNamed`: for every set of records, of those
  that are `Legible` (section 3, bounds, names the others). A written line is the chain, the rid, the step and the message
  one after the other (`Layout`, `Places`); the record's chain is the first token
  that gives one (`ChainIsFound`), the record's step the first that gives one with an
  `N/M` behind it, and the lazy cut ends at its own `N/M` because there is none before
  it (`StepIsCutOut`, `StepIsFound`). So the parsed event has the record's level, chain and step,
  and of the message only whether it rejects (`ParseIsNamed`). `LinesSpaceAlarms` is about
  all records, legible or not: it carries `CooldownHolds` over from the classifier.
* **Daemon** (`WatchtowerProofs`). `FanOutInStep` and `FailureMeansNobodyHeard`, for every
  list of sinks the environment can give, and every way in which they fail and panic. The
  invariant says that each sink's list is a prefix of `raised`, that the sinks before the
  one at work are one alert ahead (`Lag`), and that what is still to be dispatched is the
  rest of `raised` (`Faithful`); for the second, that `failures` counts the errors on the
  alert at hand (`Count`) and the verdict on the last complete one stands (`Verdict`).
  `NothingLeftBehind` (`ExitMeansDelivered`) takes the tailer's invariant over from
  `JournalProofs`: every step of the daemon is a step of the tailer or leaves it alone,
  except that a panic drops the receiver and a restart begins a new stream, for which the
  invariant is shown anew; and the loop ends in good order only with an empty `Vec`
  (`Leaving`). `AlertsInJournalOrder`: nothing was raised that lies beyond the last
  entry received (`Story`), the head of the channel does, and the alerts of one entry
  have different rules. That and the bound on the `Vec` in `TypeCorrect` rest on how the
  `Vec` is put in rule order: counting the positions up to a given one numbers them
  from 1 without a gap (`RankOnto`, an injection of a finite set into one of its size is
  onto). `FiredIsRaised` adds that nothing is lost on the way: an event has one key for
  each rule it matches, so the classifier fires at most one alert per rule, and the `Vec`
  holds exactly what fired. For `TypeCorrect` the classifier's type is taken over from
  `ClassifierProofs` (`ClassifierKeepsType`), and an entry received is a usable one
  (`ReceivedUsable`), so that the event of its message is one the classifier knows.
* **Staleness** (`StalenessProofs`), for all durations. `Timing`: while the heartbeat
  can be written the clock does not overtake a deadline, and the deadline is at most an
  interval behind the last write. `LastLook`: a check started a threshold after the
  heartbeat became impossible saw a file no younger than that, and has reported it or is about
  to; hence `SilenceIsReported`. `Refused`: a refused daemon never spawns its heartbeat;
  hence `RefusalIsReported`. `SeenFresh`: what the script reads of a live heartbeat
  is at most an interval old by the time it compares; hence `HealthyIsNotReported`.
  `TicksInSlots`: a deadline is a whole number of intervals from the start and all ticks
  lie in earlier slots; hence `NoBurst`. `TypeCorrect`.

Besides the modules' assumptions on durations, the daemon's proofs assume of its
constants (`WatchtowerAssumption`) that the environment is not refused, that
`RuleOrder` lists each rule once, and that `ParseLine` makes of the message of a usable
entry an event of `Events` or `Unstructured`, which is the type of `parse_line`.

Every invariant and every property of single steps that a run checks is also the
statement of a theorem, the three that the code violates excepted. Only model-checked are
`MCPermitComesBack`, `MCPrintedIsReceived`, `DeafDaemonStops` and `MCEntryIsHandled`,
since liveness under fairness is out of reach of TLAPS, as are `ENABLED` and induction
over data. No module of the project uses a `RECURSIVE` operator.

## 5. Where the code and its documentation differ

Shown by a run:

| Run | The code | The text |
|---|---|---|
| `email_daily_cap` | a refilling bucket: 7 e-mails in a rolling 24 h | `README.md:185` "at most 4 emails in any rolling 24h" |
| `email_dedup` | the key is stamped before the cap and before `mail(1)` | `README.md:182` "once an email goes out ..., the next 6h are suppressed" |
| `watchtower_silent` | `ntfy.rs:133` `&m[..240]` panics inside a character; alerts behind it in the `Vec` reach no sink | `README.md:87` "always-on so the daemon never silently drops alerts" |

Visible in a definition, and not the subject of a run:

| Definition | The code | The text |
|---|---|---|
| `Classifier!DropExpired` | pruning stops at the first entry inside the window, on a wall clock; after it was set back, expired entries stay behind a newer front and are counted | `classify.rs:188` "Drop events older than the window", `classify.rs:133` "oldest-first" |
| `AutoClaude!Slug` | two keys that differ in a non-alphanumeric character have one slug within a second, and the second dispatch fails | `auto_claude.rs:252` "unique incident slug" |
| `AutoClaude!DispatchFails` | `?` on `open_incident_log`: no transcript, no claude | `auto_claude.rs:264` "Failures here are non-fatal" |
| `Journal!Cancel` | the closed channel is observed only by the next `send`; on a quiet journal `journalctl` lives on. `main` drops the receiver only together with the runtime, so this is about other callers of `journal::spawn` | `journal.rs:43` "Cancels cleanly when the receiver is dropped" |
| `Watchtower!Receive` | `main.rs:133` stamps an entry when it is received: entries that queued behind a slow sink, or that are read again at a restart, fall into one window however far apart they were logged | `README.md:74` "5 in 60s" |

And around the heartbeat and the parser:

| Definition | The code | The text |
|---|---|---|
| `StartUp!HeartbeatInterval` | intervals up to 600 s are accepted beside a default threshold of 300 s, and neither program compares the two; `HealthyNotReported` has to assume it | `self_monitor.rs:41` "prevents an interval so long that the heartbeat looks dead even when healthy" |
| `StartUp!HeartbeatInterval` | what is out of range is replaced by the default | `README.md:152` "clamp" |
| `SelfMonitor!Truncate`, `WriteBody` | an open that truncates, then a write: a reader may find an empty file under a fresh mtime | `self_monitor.rs:119` "in one syscall" |
| `SelfMonitor!WriteBody` | when the open succeeds and the write fails, the mtime is fresh all the same | `self_monitor.rs:164` "a heartbeat write failure means the stale-detector will eventually fire" |
| `SelfMonitor!SpawnHeartbeat` | the heartbeat beats before `journalctl` is spawned: a daemon that fails right after each start freshens the file every few seconds and is never reported | `self_monitor.rs:39` "a real crash pages within 5min", `watchtower-staleness-check.sh:4` |
| `NtfySink!Restart` | the bucket is full again after a restart, so the rate holds per boot | `ntfy.rs:12` "10 pushes/minute" |
| `LogParse!Step` | an `N/M` is recognised only behind the first word of a step. Of `step=5/8 POST /api/register` the step is none, and all rejects of a chain count together as `unspecified`; or, if the message has an `N/M` of its own, the step is all the text up to that | `README.md:31` "`step=<n/m> <event>`", `README.md:64` "`<index>/<total> <description>`"; `parse.rs:6` and `README.md:55` have the `N/M` last |
| `LogParse!StepSpan`, `Chain` | a `step=` without its `N/M` takes text up to the next `N/M` of the message; a field the record lacks is taken from the message if that mentions one | `parse.rs:112-113` "Anything after that is free-form" |
| `LogParse!Rejects` | REJECT is looked for in the whole rest of the line: a chain or a step that contains the word, or a message that only speaks of REJECTED, counts as a reject | `README.md:76` "chain step REJECT clusters" |

Noticed while reading, not the subject of a run: `parse.rs:13-16` says what becomes
of unstructured lines otherwise than `classify.rs:173-175`; `main.rs:6-8` names a
check that does not decide anything; the severity comments at `classify.rs:23` and
`:25` differ from the priorities at `ntfy.rs:103`. An empty `WATCHTOWER_NTFY_TOPIC`
turns the ntfy sink off (`ntfy.rs:90`), while the script uses the default topic for it;
a rate of 0 is accepted and drops every push with `Ok`.

## 6. What is not modelled

* Rounding of `f64` token counts, and the branch for a refill interval of zero that
  no call site reaches.
* The buffering inside tokio's `File`: a write counts as done when `write_all`
  returns. The header of a transcript could still be in flight when the file is
  dropped; `git` runs between it and the first append.
* Wording: subjects, bodies, headers, the prompt, log messages, the body of the heartbeat
  file and with it the event counter, which nothing reads but a person. Of `from_env`
  what does not decide between on, off and refused (paths, addresses, the rate) appears
  as the assumptions on the constants.
* The map of the classifier never loses an entry. No bound is promised, so there
  is no property of it.
* Steps of the wall clock in the staleness model: the script subtracts an mtime from
  `date`, so a clock that is set back makes a dead daemon look fresh for that long. A host
  that is suspended is a frozen daemon, with the script going on.
* Time between the script's `stat` and its `date`. They are two steps, and the daemon may
  write, end or start between them, but at one instant, since the clock is urgent.
* The main loop beside the heartbeat: the two tasks are independent, so a main loop
  that hangs in a dispatch is not noticed by the heartbeat; nothing promises it is.
* A heartbeat path that exists and is no regular file, and an unreadable one.
* In the parser: `rid`, source and raw text, which no rule reads; the regexes inside a word.
* In the composition, what a sink does inside its `dispatch`.
* The library root, the deployment scripts and continuous integration, which keep no
  state the properties could be about. Of the units, `Restart=`, `RestartSec=`, the kill of
  the control group and the timer's periods are in the models that need them.

## 7. Plan

All components that keep state are modelled. What would add most next:

* proofs: that the classifier inside the daemon keeps its promises from one restart to
  the next, with the histories of `ClassifierHistory` in the composition;
* the staleness model with a wall clock that steps, as the classifier's has;
* in the composition, `EmailSink` in place of its contract, for what a `mail(1)` that
  hangs does to the other sinks.

## 8. Running it

```
tlc -workers 2 -config MCClassifier.cfg MCClassifier
tlapm ClassifierProofs.tla
```

`PROJECT.json` names the module, configuration and expectation of every run.
