---------------------------- MODULE EmailPolicy ----------------------------
(***************************************************************************)
(* What the email sink promises: it implements the dedup cache and the     *)
(* token bucket on the decisions it takes, and its result says whether an  *)
(* email went out.  And what the README's "Email policy" says of it.       *)
(***************************************************************************)
EXTENDS EmailSink

(***************************************************************************)
(* The sink's decisions, read as calls of should_emit.                     *)
(***************************************************************************)
Emitted == [k \in Keys |->
  { decisions[i].at : i \in { j \in DOMAIN decisions :
      decisions[j].key = k /\ decisions[j].verdict # "deduped" } }]

LastVerdict ==
  IF decisions = <<>> THEN {}
  ELSE LET d == decisions[Len(decisions)]
       IN { <<d.key, d.verdict # "deduped">> }

Dedup == INSTANCE DedupCache WITH emitted <- Emitted, verdict <- LastVerdict

(***************************************************************************)
(* The sink uses the cache as the cache is meant to be used: every Page    *)
(* alert, and no other alert, is one call of should_emit, whatever becomes *)
(* of the mail after it (email.rs:140-157).                                *)
(***************************************************************************)
ImplementsDedup == Dedup!Spec

(***************************************************************************)
(* So the cache of the sink keeps what DedupCache promises, under the      *)
(* calls the sink makes: the GC forgets nothing that matters, the answers  *)
(* being those of the monitor that keeps every emission                    *)
(* (rate_limit.rs:88-98) ...                                               *)
(***************************************************************************)
ImplementsMonitor == Dedup!ImplementsMonitor

(***************************************************************************)
(* ... and it does forget: "so the map doesn't grow unbounded across long  *)
(* runs" (rate_limit.rs:92-93).                                            *)
(***************************************************************************)
CacheSpansOneCooldown == Dedup!CacheSpansOneCooldown

(***************************************************************************)
(* The same decisions, read as calls of try_take.                          *)
(***************************************************************************)
Refused == { d.at : d \in { decisions[i] : i \in { j \in DOMAIN decisions :
                              decisions[j].verdict = "capped" } } }

Bucket == INSTANCE TokenBucket
  WITH Capacity <- DailyCap, Interval <- Day, bucket <- daily_bucket,
       granted <- attempts, refused <- Refused

(***************************************************************************)
(* Every alert that passes the dedup, and no other, is one call of         *)
(* try_take: an attempt costs one token even if mail(1) fails, and a       *)
(* duplicate costs none (email.rs:159-172).                                *)
(***************************************************************************)
ImplementsBucket == Bucket!Spec

(***************************************************************************)
(* So the cap refuses only what it is there to refuse: when an alert is    *)
(* dropped over the cap, DailyCap attempts were made within the last Day.  *)
(* The repeats of an alert never use it up (email.rs:140-172).             *)
(***************************************************************************)
CapRefusalsJustified == Bucket!RefusalJustified

(***************************************************************************)
(* dispatch returns Ok for an attempt only if its email went out, after    *)
(* the attempt and for its key (email.rs:200-211).                         *)
(***************************************************************************)
OkMeansMailed ==
  [][ phase # "idle" /\ phase' = "idle" /\ outcome' = "ok" =>
        \E i \in 1..Len(mails) : /\ mails[i].key = current
                                 /\ mails[i].at >= decisions[Len(decisions)].at
    ]_vars

(***************************************************************************)
(* What the daily cap does bound.  A token is taken before mail(1) starts, *)
(* mail(1) may take any time to send, and the bucket earns tokens          *)
(* meanwhile.  Still the emails that follow a given one are at most a full *)
(* bucket plus what the time since that one has earned (email.rs:159-189). *)
(***************************************************************************)
MailsBounded ==
  \A i, j \in 1..Len(mails) : i < j =>
    (j - i) * Day <= DailyCap * Day + DailyCap * (mails[j].at - mails[i].at)

-----------------------------------------------------------------------------
(***************************************************************************)
(* README.md:185: "at most 4 emails in any rolling 24h, regardless of      *)
(* dedup state".                                                           *)
(***************************************************************************)
DailyCapHolds ==
  \A i \in 1..Len(mails) :
    Cardinality({ j \in i..Len(mails) : mails[j].at < mails[i].at + Day })
      <= DailyCap

(***************************************************************************)
(* README.md:182-183: "once an email goes out for a given (rule, key), the *)
(* next 6h are suppressed".  Read backwards: an alert is suppressed as a   *)
(* duplicate only if an email for its key went out in the last 6 h.        *)
(***************************************************************************)
SuppressedOnlyAfterMail ==
  \A i \in 1..Len(decisions) : decisions[i].verdict = "deduped" =>
    \E j \in 1..Len(mails) :
      /\ mails[j].key = decisions[i].key
      /\ mails[j].at <= decisions[i].at
      /\ decisions[i].at - mails[j].at < DedupCooldown
=============================================================================
