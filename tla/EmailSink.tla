----------------------------- MODULE EmailSink -----------------------------
(***************************************************************************)
(* EmailSink::dispatch (src/src/alert/email.rs) and the mail(1) process it *)
(* runs.  The severity gate, the dedup, the daily cap and the spawn run    *)
(* without an await: one step.  Writing the body and waiting for mail(1)   *)
(* are awaits, between which time passes and mail(1) lives its own life.   *)
(* The daemon dispatches one alert at a time, so a call starts only when   *)
(* the previous one has returned.                                          *)
(***************************************************************************)
EXTENDS RateLimit, DedupKeys, Sequences, FiniteSets

CONSTANTS
  None,      \* no alert is being mailed
  DailyCap,  \* DAILY_CAP = 4
  Day        \* the 24 h the cap's bucket takes to fill

ASSUME EmailAssumption ==
  /\ DailyCap \in Nat /\ Day \in Nat \ {0}
  /\ None \notin Keys

Severities == {"Info", "Warn", "Page"}

Verdicts == {"deduped", "capped", "mailing"}

VARIABLES
  now,           \* Instant::now()
  seen,          \* dedup: key |-> time of the last emission
  daily_bucket,  \* the token bucket behind the daily cap
  phase,         \* where dispatch stands: "idle", "writing", "waiting"
  current,       \* the key of the alert being mailed, or None
  mail,          \* mail(1): "none", "reading", "exited_ok", "exited_bad"
  outcome,       \* what the last call of dispatch returned: "ok", "failed"
  decisions,     \* history: what became of each Page alert, in order
  attempts,      \* history: the times at which a token was taken, in order
  mails          \* history: the emails that went out, in order

vars ==
  <<now, seen, daily_bucket, phase, current, mail, outcome, decisions,
    attempts, mails>>

TypeOK ==
  /\ now \in Nat
  /\ DOMAIN seen \subseteq Keys /\ \A k \in DOMAIN seen : seen[k] \in Nat
  /\ daily_bucket \in [tokens: 0..(DailyCap * Day), last_refill: Nat]
  /\ phase \in {"idle", "writing", "waiting"}
  /\ current \in Keys \cup {None}
  /\ mail \in {"none", "reading", "exited_ok", "exited_bad"}
  /\ phase = "idle" <=> mail = "none"
  /\ phase = "idle" <=> current = None
  /\ outcome \in {"ok", "failed"}
  /\ decisions \in Seq([key: Keys, at: Nat, verdict: Verdicts])
  /\ attempts \in Seq(Nat)
  /\ mails \in Seq([key: Keys, at: Nat])

Init ==
  /\ now = 0
  /\ seen = [k \in {} |-> 0]
  /\ daily_bucket = FullBucket(DailyCap, Day, now)
  /\ phase = "idle"
  /\ current = None
  /\ mail = "none"
  /\ outcome = "ok"
  /\ decisions = <<>>
  /\ attempts = <<>>
  /\ mails = <<>>

-----------------------------------------------------------------------------
(***************************************************************************)
(* The part of dispatch before the first await.                            *)
(***************************************************************************)
Refill == Refilled(daily_bucket, DailyCap, Day, now)

Decide(k, v) ==
  /\ decisions' = Append(decisions, [key |-> k, at |-> now, verdict |-> v])
  /\ attempts' = IF v = "mailing" THEN Append(attempts, now) ELSE attempts

Return(result) == outcome' = result

(* An alert below Page returns before any guard is consulted.              *)
DropBelowPage(sev) ==
  /\ phase = "idle"
  /\ sev # "Page"
  /\ Return("ok")
  /\ UNCHANGED <<now, seen, daily_bucket, phase, current, mail,
                 decisions, attempts, mails>>

(* Mutant of DropDuplicate: the cap is consulted before the dedup, so a    *)
(* duplicate costs a token.                                                *)
DropDuplicateSpending(sev, k) ==
  /\ phase = "idle"
  /\ sev = "Page"
  /\ Suppresses(seen, k, DedupCooldown, now)
  /\ HasToken(Refill, Day)
  /\ daily_bucket' = Spent(Refill, Day)
  /\ Decide(k, "deduped")
  /\ Return("ok")
  /\ UNCHANGED <<now, seen, phase, current, mail, mails>>

DropDuplicate(sev, k) ==
  /\ phase = "idle"
  /\ sev = "Page"
  /\ Suppresses(seen, k, DedupCooldown, now)
  /\ Decide(k, "deduped")
  /\ Return("ok")
  /\ UNCHANGED <<now, seen, daily_bucket, phase, current, mail, mails>>

(* Mutant of DropOverCap: a capped alert does not stamp its key.           *)
DropOverCapUnstamped(sev, k) ==
  /\ phase = "idle"
  /\ sev = "Page"
  /\ ~Suppresses(seen, k, DedupCooldown, now)
  /\ ~HasToken(Refill, Day)
  /\ daily_bucket' = Refill
  /\ Decide(k, "capped")
  /\ Return("ok")
  /\ UNCHANGED <<now, seen, phase, current, mail, mails>>

(* should_emit has stamped the key by the time the cap refuses.            *)
DropOverCap(sev, k) ==
  /\ phase = "idle"
  /\ sev = "Page"
  /\ ~Suppresses(seen, k, DedupCooldown, now)
  /\ ~HasToken(Refill, Day)
  /\ seen' = Remembered(seen, k, DedupCooldown, now)
  /\ daily_bucket' = Refill
  /\ Decide(k, "capped")
  /\ Return("ok")
  /\ UNCHANGED <<now, phase, current, mail, mails>>

(* Mutant of Attempt: the token is looked at and not taken.                *)
AttemptForFree(sev, k) ==
  /\ phase = "idle"
  /\ sev = "Page"
  /\ ~Suppresses(seen, k, DedupCooldown, now)
  /\ HasToken(Refill, Day)
  /\ seen' = Remembered(seen, k, DedupCooldown, now)
  /\ daily_bucket' = Refill
  /\ Decide(k, "mailing")
  /\ UNCHANGED <<now, mails>>

(* Key stamped, token spent, whether or not the spawn succeeds.            *)
Attempt(sev, k) ==
  /\ phase = "idle"
  /\ sev = "Page"
  /\ ~Suppresses(seen, k, DedupCooldown, now)
  /\ HasToken(Refill, Day)
  /\ seen' = Remembered(seen, k, DedupCooldown, now)
  /\ daily_bucket' = Spent(Refill, Day)
  /\ Decide(k, "mailing")
  /\ UNCHANGED <<now, mails>>

SpawnFails(sev, k) ==
  /\ Attempt(sev, k)
  /\ Return("failed")
  /\ UNCHANGED <<phase, current, mail>>

Spawn(sev, k) ==
  /\ Attempt(sev, k)
  /\ phase' = "writing"
  /\ mail' = "reading"
  /\ current' = k
  /\ UNCHANGED outcome

-----------------------------------------------------------------------------
(***************************************************************************)
(* The two awaits.  The write completes when mail(1) has read or the pipe  *)
(* has buffered the body; closing stdin follows at once.  It fails when    *)
(* mail(1) has left its end of the pipe.                                   *)
(***************************************************************************)
Finish(result) ==
  /\ phase' = "idle"
  /\ current' = None
  /\ mail' = "none"
  /\ Return(result)
  /\ UNCHANGED <<now, seen, daily_bucket, decisions, attempts, mails>>

WriteBody ==
  /\ phase = "writing"
  /\ mail = "reading"
  /\ phase' = "waiting"
  /\ UNCHANGED <<now, seen, daily_bucket, current, mail,
                 outcome, decisions, attempts, mails>>

WriteFails ==
  /\ phase = "writing"
  /\ mail = "exited_bad"
  /\ Finish("failed")

Exited == mail \in {"exited_ok", "exited_bad"}

(* Mutant of Reap: the exit status is not looked at.                       *)
ReapIgnoringStatus ==
  /\ phase = "waiting"
  /\ Exited
  /\ Finish("ok")

Reap ==
  /\ phase = "waiting"
  /\ Exited
  /\ Finish(IF mail = "exited_ok" THEN "ok" ELSE "failed")

(* wait() itself errs: the call fails whatever mail(1) did.                *)
WaitFails ==
  /\ phase = "waiting"
  /\ Exited
  /\ Finish("failed")

-----------------------------------------------------------------------------
(***************************************************************************)
(* mail(1), external: it may die at any time, and once it has read the end *)
(* of its input it may hand the mail over and exit with 0.  Nothing bounds *)
(* the time it takes.                                                      *)
(***************************************************************************)
MailDies ==
  /\ mail = "reading"
  /\ mail' = "exited_bad"
  /\ UNCHANGED <<now, seen, daily_bucket, phase, current,
                 outcome, decisions, attempts, mails>>

MailDelivers ==
  /\ mail = "reading"
  /\ phase = "waiting"
  /\ mail' = "exited_ok"
  /\ mails' = Append(mails, [key |-> current, at |-> now])
  /\ UNCHANGED <<now, seen, daily_bucket, phase, current, outcome,
                 decisions, attempts>>

Tick ==
  /\ now' = now + 1
  /\ UNCHANGED <<seen, daily_bucket, phase, current, mail,
                 outcome, decisions, attempts, mails>>

-----------------------------------------------------------------------------
Dispatch(sev, k) ==
  \/ DropBelowPage(sev)
  \/ DropDuplicate(sev, k)
  \/ DropOverCap(sev, k)
  \/ SpawnFails(sev, k)
  \/ Spawn(sev, k)

Next ==
  \/ \E sev \in Severities, k \in Keys : Dispatch(sev, k)
  \/ WriteBody \/ WriteFails \/ Reap \/ WaitFails
  \/ MailDies \/ MailDelivers
  \/ Tick

Spec == Init /\ [][Next]_vars
=============================================================================
