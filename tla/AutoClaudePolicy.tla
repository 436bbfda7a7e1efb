-------------------------- MODULE AutoClaudePolicy --------------------------
(***************************************************************************)
(* What AutoClaudeSink promises.                                           *)
(***************************************************************************)
EXTENDS AutoClaude

Holders == { i \in DOMAIN incidents : incidents[i].stage \notin Ended }

(***************************************************************************)
(* No path loses a permit or returns one twice: those out are those of the *)
(* incidents under way (auto_claude.rs:285, "the spawned task owns the     *)
(* permit; releasing it on completion", and every ? and return between).   *)
(***************************************************************************)
PermitsConserved == permits + Cardinality(Holders) = MaxConcurrent

(***************************************************************************)
(* The hard cap on claude processes (README.md:121), through failures,     *)
(* copiers that outlive claude, and restarts.                              *)
(***************************************************************************)
CapHolds ==
  Cardinality({ i \in DOMAIN incidents : incidents[i].stage = "running" })
    <= MaxConcurrent

(***************************************************************************)
(* A transcript is the record of one incident: no other wrote to it, not   *)
(* even one of an earlier boot, though slugs may be equal, and the copiers *)
(* open the file again by name (auto_claude.rs:272-277, 434).              *)
(***************************************************************************)
OneIncidentPerTranscript ==
  \A g \in DOMAIN transcripts : \A v, w \in transcripts[g] : v[1] = w[1]

(***************************************************************************)
(* claude works in a worktree that was added for its own incident and that *)
(* is still there (auto_claude.rs:22-25), whatever slugs have been used    *)
(* before and whatever the operator has discarded of them.                 *)
(***************************************************************************)
OwnWorktree ==
  \A i \in DOMAIN incidents :
    incidents[i].stage \in {"spawning", "running", "draining"} =>
      /\ incidents[i].slug \in DOMAIN worktrees
      /\ worktrees[incidents[i].slug] = i

(***************************************************************************)
(* Once claude has exited and both pipes have closed or been given up, the *)
(* permit comes back: nothing of the daemon's own stands in the way        *)
(* (auto_claude.rs:405-407).                                               *)
(***************************************************************************)
NothingLeftToDo(i) ==
  At(i, "draining") /\ \A s \in Streams : incidents[i].pipe[s] # "open"

PermitComesBack(n) ==
  \A i \in 1..n : NothingLeftToDo(i) ~> \E e \in Ended : At(i, e)

=============================================================================
