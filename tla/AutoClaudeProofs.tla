-------------------------- MODULE AutoClaudeProofs --------------------------
(***************************************************************************)
(* Proofs about AutoClaudeSink, for any alerts, whitelist, project map,    *)
(* key sanitiser and number of permits.                                    *)
(***************************************************************************)
EXTENDS AutoClaudePolicy, FiniteSetTheorems, TLAPS

Slugs == { Slug(a, t) : a \in Alerts, t \in Nat }

Repositories == { Projects[c] : c \in DOMAIN Projects }

Pipes == [Streams -> {"none", "open", "closed", "ended"}]

Incident == [slug: Slugs, project: Repositories, stage: Stages, pipe: Pipes]

(***************************************************************************)
(* The incidents that have opened their transcript and not ended.          *)
(***************************************************************************)
Owner(i) ==
  /\ i \in DOMAIN incidents
  /\ incidents[i].stage \notin Ended \cup {"opening"}

IsFunction(f) == f = [x \in DOMAIN f |-> f[x]]

Typed ==
  /\ TypeOK
  /\ incidents \in Seq(Incident)
  /\ IsFunction(transcripts)
  /\ IsFunction(worktrees)

(***************************************************************************)
(* An owner's transcript exists and holds nothing of anybody else, and no  *)
(* two owners have the same slug: both may have written nothing yet.       *)
(***************************************************************************)
OwnersApart ==
  \A i, j : Owner(i) /\ Owner(j) /\ incidents[i].slug = incidents[j].slug
              => i = j

OwnerAlone ==
  \A i : Owner(i) =>
    /\ incidents[i].slug \in DOMAIN transcripts
    /\ \A v \in transcripts[incidents[i].slug] : v[1] = i

IInv ==
  /\ Typed
  /\ PermitsConserved
  /\ OwnersApart
  /\ OwnerAlone
  /\ OneIncidentPerTranscript
  /\ OwnWorktree

-----------------------------------------------------------------------------
(***************************************************************************)
(* A step that changes the stage and the pipes of incident i only.         *)
(***************************************************************************)
Shift(i, stage, pipe) ==
  /\ i \in DOMAIN incidents
  /\ incidents' \in Seq(Incident)
  /\ DOMAIN incidents' = DOMAIN incidents
  /\ Len(incidents') = Len(incidents)
  /\ \A j \in DOMAIN incidents : incidents'[j].slug = incidents[j].slug
  /\ \A j \in DOMAIN incidents \ {i} : incidents'[j] = incidents[j]
  /\ incidents'[i].stage = stage
  /\ incidents'[i].pipe = pipe

LEMMA PipesTyped ==
  /\ NoPipes \in Pipes
  /\ [s \in Streams |-> "open"] \in Pipes
  /\ \A p \in Pipes, s \in Streams, v \in {"closed", "ended"} :
       [p EXCEPT ![s] = v] \in Pipes
BY DEF NoPipes, Pipes

LEMMA FieldsKept ==
  ASSUME NEW r \in Incident
  PROVE  /\ r.stage \in Stages /\ r.pipe \in Pipes
         /\ \A st : [r EXCEPT !.stage = st]
                    = [r EXCEPT !.stage = st, !.pipe = r.pipe]
         /\ \A q : [r EXCEPT !.pipe = q]
                   = [r EXCEPT !.stage = r.stage, !.pipe = q]
BY DEF Incident

LEMMA SequenceChange ==
  ASSUME NEW S, NEW f \in Seq(S), NEW i \in DOMAIN f, NEW x \in S,
         NEW h, h = [f EXCEPT ![i] = x]
  PROVE  /\ h \in Seq(S)
         /\ DOMAIN h = DOMAIN f /\ Len(h) = Len(f)
         /\ h[i] = x
         /\ \A j \in DOMAIN f \ {i} : h[j] = f[j]
OBVIOUS

(* What the four lemmas below have in common.                              *)
LEMMA ChangeShifts ==
  ASSUME incidents \in Seq(Incident), NEW i \in DOMAIN incidents,
         NEW st \in Stages, NEW q \in Pipes,
         incidents' = [incidents EXCEPT
           ![i] = [incidents[i] EXCEPT !.stage = st, !.pipe = q]]
  PROVE  Shift(i, st, q)
<1> DEFINE x == [incidents[i] EXCEPT !.stage = st, !.pipe = q]
<1>1. incidents[i] \in Incident
  OBVIOUS
<1>0. x = [incidents[i] EXCEPT !.stage = st, !.pipe = q]
  OBVIOUS
<1> HIDE DEF x
<1>2. x \in Incident /\ x.slug = incidents[i].slug /\ x.stage = st /\ x.pipe = q
  BY <1>0, <1>1 DEF Incident
<1>3. incidents' = [incidents EXCEPT ![i] = x]
  BY DEF x
<1>4. /\ incidents' \in Seq(Incident)
      /\ DOMAIN incidents' = DOMAIN incidents
      /\ Len(incidents') = Len(incidents)
      /\ incidents'[i] = x
      /\ \A j \in DOMAIN incidents \ {i} : incidents'[j] = incidents[j]
  BY <1>2, <1>3, SequenceChange
<1> QED BY <1>2, <1>4, Zenon DEF Shift

LEMMA MovesShifts ==
  ASSUME incidents \in Seq(Incident), NEW i \in DOMAIN incidents,
         NEW st \in Stages, Moves(i, st)
  PROVE  Shift(i, st, incidents[i].pipe)
<1>1. incidents[i] \in Incident
  OBVIOUS
<1>2. incidents' = [incidents EXCEPT ![i] = [incidents[i] EXCEPT !.stage = st]]
  BY Zenon DEF Moves
<1> QED BY <1>1, <1>2, FieldsKept, ChangeShifts

LEMMA EndsShifts ==
  ASSUME incidents \in Seq(Incident), NEW i \in DOMAIN incidents,
         NEW st \in Stages, Ends(i, st)
  PROVE  Shift(i, st, NoPipes) /\ permits' = permits + 1
<1>1. incidents' = [incidents EXCEPT ![i] =
                      [incidents[i] EXCEPT !.stage = st, !.pipe = NoPipes]]
  BY DEF Ends
<1> QED BY <1>1, PipesTyped, ChangeShifts DEF Ends

LEMMA SpawnShifts ==
  ASSUME incidents \in Seq(Incident), NEW i, SpawnClaude(i)
  PROVE  Shift(i, "running", [s \in Streams |-> "open"])
<1>1. incidents' = [incidents EXCEPT ![i] = [incidents[i] EXCEPT
                      !.stage = "running", !.pipe = [s \in Streams |-> "open"]]]
  BY DEF SpawnClaude
<1>2. i \in DOMAIN incidents
  BY DEF SpawnClaude, At
<1>3. "running" \in Stages
  BY DEF Stages
<1> QED BY <1>1, <1>2, <1>3, PipesTyped, ChangeShifts

LEMMA PipeShifts ==
  ASSUME incidents \in Seq(Incident), NEW i \in DOMAIN incidents,
         NEW s \in Streams, NEW v \in {"closed", "ended"},
         incidents' = [incidents EXCEPT ![i].pipe[s] = v]
  PROVE  Shift(i, incidents[i].stage, [incidents[i].pipe EXCEPT ![s] = v])
<1> DEFINE q == [incidents[i].pipe EXCEPT ![s] = v]
<1>1. incidents[i] \in Incident
  OBVIOUS
<1>2. q \in Pipes /\ incidents[i].stage \in Stages
  BY <1>1, FieldsKept, PipesTyped
<1>3. incidents' = [incidents EXCEPT ![i] = [incidents[i] EXCEPT !.pipe = q]]
  BY Zenon
<1> HIDE DEF q
<1>4. [incidents[i] EXCEPT !.pipe = q]
        = [incidents[i] EXCEPT !.stage = incidents[i].stage, !.pipe = q]
  BY <1>1, FieldsKept
<1>5. Shift(i, incidents[i].stage, q)
  BY <1>2, <1>3, <1>4, ChangeShifts
<1> QED BY <1>5 DEF q

-----------------------------------------------------------------------------
(***************************************************************************)
(* What every step of incident i but Copy does.                            *)
(***************************************************************************)
Working == {"spawning", "running", "draining"}

Effect(i) ==
  \E st \in Stages, q \in Pipes :
    /\ Shift(i, st, q)
    /\ incidents[i].stage \notin Ended
    /\ \A s \in Streams : st \in {"running", "draining"} <=> q[s] # "none"
    /\ st \in InDispatch => incidents[i].stage \in InDispatch
    /\ permits' = IF st \in Ended THEN permits + 1 ELSE permits
    /\ st \in Ended \cup {"opening"} \/ incidents[i].stage # "opening"
                                    \/ OpenTranscript(i)
    /\ st \notin Working \/ incidents[i].stage \in Working \/ AddWorktree(i)
    /\ transcripts' = transcripts \/ OpenTranscript(i) \/ WriteHeader(i)
    /\ worktrees' = worktrees \/ AddWorktree(i)
    /\ second' = second /\ outcome' \in {"ok", "failed"}

LEMMA StepEffect ==
  ASSUME Typed, NEW i \in DOMAIN incidents,
         \/ OpenTranscript(i) \/ DispatchFails(i) \/ WriteHeader(i)
         \/ MakeBase(i) \/ AddWorktree(i) \/ SpawnClaude(i) \/ TaskFails(i)
         \/ \E s \in Streams : CopierFails(i, s) \/ CopierEnds(i, s)
         \/ Release(i)
         \/ Outside(i)
  PROVE  Effect(i)
<1> USE DEF Typed
<1>0. /\ incidents \in Seq(Incident)
      /\ incidents[i].pipe \in Pipes
      /\ incidents[i].stage \in Stages
      /\ \A s \in Streams : incidents[i].stage \in {"running", "draining"}
                            <=> incidents[i].pipe[s] # "none"
      /\ outcome \in {"ok", "failed"}
  <2>1. incidents[i] \in Incident
    OBVIOUS
  <2> QED BY <2>1, FieldsKept DEF TypeOK
<1>1. ASSUME NEW st \in Stages \ Ended, Moves(i, st),
             incidents[i].stage \notin Ended,
             st \in {"running", "draining"}
               <=> incidents[i].stage \in {"running", "draining"},
             st \in InDispatch => incidents[i].stage \in InDispatch,
             permits' = permits, second' = second,
             outcome' \in {"ok", "failed"},
             st = "opening" \/ incidents[i].stage # "opening"
                            \/ OpenTranscript(i),
             st \notin Working \/ incidents[i].stage \in Working
                              \/ AddWorktree(i),
             transcripts' = transcripts \/ OpenTranscript(i) \/ WriteHeader(i),
             worktrees' = worktrees \/ AddWorktree(i)
      PROVE  Effect(i)
  <2>1. Shift(i, st, incidents[i].pipe)
    BY <1>0, <1>1, MovesShifts
  <2> QED BY <1>0, <1>1, <2>1 DEF Effect
<1>2. ASSUME NEW st \in Ended, Ends(i, st), incidents[i].stage \notin Ended,
             UNCHANGED <<second, transcripts, worktrees>>,
             outcome' \in {"ok", "failed"}
      PROVE  Effect(i)
  <2>1. st \in Stages /\ st \notin Working \cup InDispatch
    BY DEF Stages, Ended, Working, InDispatch
  <2>2. Shift(i, st, NoPipes) /\ permits' = permits + 1
    BY <1>0, <1>2, <2>1, EndsShifts
  <2>3. \A s \in Streams : st \in {"running", "draining"} <=> NoPipes[s] # "none"
    BY <2>1 DEF NoPipes, Working
  <2> QED BY <1>2, <2>1, <2>2, <2>3, PipesTyped DEF Effect
<1>3. ASSUME NEW s \in Streams, NEW v \in {"closed", "ended"},
             incidents' = [incidents EXCEPT ![i].pipe[s] = v],
             incidents[i].pipe[s] # "none",
             UNCHANGED <<second, raised, permits, transcripts, worktrees, outcome>>
      PROVE  Effect(i)
  <2> DEFINE q == [incidents[i].pipe EXCEPT ![s] = v]
  <2>1. Shift(i, incidents[i].stage, q)
    BY <1>0, <1>3, PipeShifts
  <2>2. q \in Pipes
    BY <1>0, PipesTyped
  <2>3. incidents[i].stage \in {"running", "draining"}
    BY <1>0, <1>3
  <2>4. \A t \in Streams : q[t] # "none"
    BY <1>0, <2>3 DEF Pipes
  <2> HIDE DEF q
  <2> QED BY <1>0, <1>3, <2>1, <2>2, <2>3, <2>4 DEF Effect, Ended, Working, InDispatch
<1>4. CASE OpenTranscript(i)
  BY <1>0, <1>1, <1>4
     DEF OpenTranscript, At, Stages, Ended, InDispatch, Working
<1>5. CASE DispatchFails(i)
  BY <1>0, <1>2, <1>5 DEF DispatchFails, Fails, At, Ended
<1>6. CASE WriteHeader(i)
  BY <1>0, <1>1, <1>6 DEF WriteHeader, At, Stages, Ended, InDispatch, Working
<1>7. CASE MakeBase(i)
  BY <1>0, <1>1, <1>7 DEF MakeBase, At, Stages, Ended, InDispatch, Working
<1>8. CASE AddWorktree(i)
  BY <1>0, <1>1, <1>8 DEF AddWorktree, At, Stages, Ended, InDispatch, Working
<1>9. CASE SpawnClaude(i)
  <2>1. Shift(i, "running", [s \in Streams |-> "open"])
    BY <1>0, <1>9, SpawnShifts
  <2> QED BY <1>0, <1>9, <2>1, PipesTyped
             DEF Effect, SpawnClaude, At, Stages, Ended, InDispatch, Working
<1>10. CASE TaskFails(i)
  BY <1>0, <1>2, <1>10 DEF TaskFails, Fails, At, Ended
<1>11. CASE \E s \in Streams : CopierFails(i, s) \/ CopierEnds(i, s)
  BY <1>0, <1>3, <1>11 DEF CopierFails, CopierEnds
<1>12. CASE Release(i)
  BY <1>0, <1>2, <1>12 DEF Release, At, Ended
<1>13. CASE Outside(i)
  <2>1. CASE ClaudeExits(i)
    BY <1>0, <1>1, <2>1 DEF ClaudeExits, At, Stages, Ended, InDispatch, Working
  <2>2. CASE \E s \in Streams : PipeCloses(i, s)
    BY <1>0, <1>3, <2>2 DEF PipeCloses
  <2> QED BY <1>13, <2>1, <2>2 DEF Outside
<1> QED BY <1>4, <1>5, <1>6, <1>7, <1>8, <1>9, <1>10, <1>11, <1>12, <1>13

-----------------------------------------------------------------------------
(***************************************************************************)
(* Counting permit holders.                                                *)
(***************************************************************************)
LEMMA LiveFinite ==
  ASSUME NEW inc \in Seq(Incident)
  PROVE  LET live == { i \in DOMAIN inc : inc[i].stage \notin Ended }
         IN IsFiniteSet(live) /\ Cardinality(live) \in Nat
<1> DEFINE live == { i \in DOMAIN inc : inc[i].stage \notin Ended }
<1>1. live \in SUBSET (1..Len(inc)) /\ Len(inc) \in Nat
  OBVIOUS
<1>2. IsFiniteSet(1..Len(inc))
  BY <1>1, FS_Interval
<1>3. IsFiniteSet(live)
  BY <1>1, <1>2, FS_Subset
<1> QED BY <1>3, FS_CardinalityType

LEMMA HoldersFinite ==
  ASSUME incidents \in Seq(Incident)
  PROVE  IsFiniteSet(Holders) /\ Cardinality(Holders) \in Nat
BY LiveFinite DEF Holders

LEMMA EffectKeepsPermits ==
  ASSUME Typed, PermitsConserved, NEW i, Effect(i)
  PROVE  PermitsConserved'
<1> USE AutoClaudeAssumption
<1>1. PICK st \in Stages, q \in Pipes :
        /\ Shift(i, st, q)
        /\ incidents[i].stage \notin Ended
        /\ permits' = IF st \in Ended THEN permits + 1 ELSE permits
  BY DEF Effect
<1>2. /\ IsFiniteSet(Holders) /\ Cardinality(Holders) \in Nat
      /\ i \in Holders
      /\ permits \in Nat
  BY <1>1, HoldersFinite DEF Typed, TypeOK, Holders, Shift
<1>3. CASE st \in Ended
  <2>1. Holders' = Holders \ {i}
    BY <1>1, <1>3 DEF Holders, Shift
  <2>2. Cardinality(Holders') = Cardinality(Holders) - 1
    BY <1>2, <2>1, FS_RemoveElement
  <2> QED BY <1>1, <1>2, <1>3, <2>2 DEF PermitsConserved
<1>4. CASE st \notin Ended
  <2>1. Holders' = Holders
    BY <1>1, <1>4 DEF Holders, Shift
  <2> QED BY <1>1, <1>4, <2>1 DEF PermitsConserved
<1> QED BY <1>3, <1>4

(***************************************************************************)
(* The new incident takes the permit it finds.                             *)
(***************************************************************************)
LEMMA AcquireAppends ==
  ASSUME Typed, NEW a \in Alerts, Acquire(a)
  PROVE  LET n == Len(incidents) + 1
         IN /\ incidents' \in Seq(Incident)
            /\ Len(incidents') = n
            /\ DOMAIN incidents' = DOMAIN incidents \cup {n}
            /\ n \notin DOMAIN incidents
            /\ \A j \in DOMAIN incidents : incidents'[j] = incidents[j]
            /\ incidents'[n].stage = "opening"
            /\ incidents'[n].pipe = NoPipes
            /\ \A j \in DOMAIN incidents : incidents[j].stage \notin InDispatch
<1> DEFINE x == NewIncident(a)
<1>1. x \in Incident /\ x.stage = "opening" /\ x.pipe = NoPipes
  BY PipesTyped DEF Typed, TypeOK, Acquire, Preflight, NewIncident, Incident,
                    Slugs, Repositories, Stages, InDispatch
<1>2. incidents' = Append(incidents, x) /\ incidents \in Seq(Incident)
  BY DEF Acquire, Typed
<1>3. \A j \in DOMAIN incidents : incidents[j].stage \notin InDispatch
  BY DEF Acquire, Raise
<1> HIDE DEF x
<1> QED BY <1>1, <1>2, <1>3

LEMMA AcquireKeepsPermits ==
  ASSUME Typed, PermitsConserved, NEW a \in Alerts, Acquire(a)
  PROVE  PermitsConserved'
<1> DEFINE n == Len(incidents) + 1
<1>1. Holders' = Holders \cup {n} /\ n \notin Holders
  BY AcquireAppends DEF Holders, Ended
<1>2. IsFiniteSet(Holders) /\ Cardinality(Holders) \in Nat
  BY HoldersFinite DEF Typed
<1>3. Cardinality(Holders') = Cardinality(Holders) + 1
  BY <1>1, <1>2, FS_AddElement
<1> QED BY <1>2, <1>3, AutoClaudeAssumption
           DEF PermitsConserved, Acquire, Typed, TypeOK

(***************************************************************************)
(* A restart ends every incident, and the semaphore is a new one.          *)
(***************************************************************************)
LEMMA RestartEndsAll ==
  ASSUME Typed, Restart
  PROVE  /\ incidents' \in Seq(Incident)
         /\ DOMAIN incidents' = DOMAIN incidents
         /\ Len(incidents') = Len(incidents)
         /\ \A i \in DOMAIN incidents :
              /\ incidents'[i].slug = incidents[i].slug
              /\ incidents'[i].stage \in Ended
              /\ incidents'[i].pipe = NoPipes \/ incidents'[i] = incidents[i]
<1> DEFINE lost(i) == [incidents[i] EXCEPT !.stage = "lost", !.pipe = NoPipes]
           next(i) == IF incidents[i].stage \in Ended THEN incidents[i] ELSE lost(i)
<1>1. incidents' = [i \in DOMAIN incidents |-> next(i)]
  BY DEF Restart
<1>2. incidents \in Seq(Incident)
  BY DEF Typed
<1>3. ASSUME NEW i \in DOMAIN incidents
      PROVE  /\ next(i) \in Incident
             /\ next(i).slug = incidents[i].slug
             /\ next(i).stage \in Ended
             /\ next(i).pipe = NoPipes \/ next(i) = incidents[i]
  <2>1. incidents[i] \in Incident
    BY <1>2
  <2> QED BY <2>1, PipesTyped DEF Incident, Stages, Ended
<1> HIDE DEF next
<1>4. incidents' \in Seq(Incident) /\ DOMAIN incidents' = DOMAIN incidents
        /\ Len(incidents') = Len(incidents)
  BY <1>1, <1>2, <1>3
<1> QED BY <1>1, <1>3, <1>4

LEMMA RestartKeepsPermits ==
  ASSUME Typed, Restart
  PROVE  PermitsConserved'
<1>1. Holders' = {}
  BY RestartEndsAll DEF Holders
<1>2. Cardinality({}) = 0
  BY FS_EmptySet
<1>3. Cardinality(Holders') = 0
  BY <1>1, <1>2, Zenon
<1>4. permits' = MaxConcurrent
  BY DEF Restart
<1> QED BY <1>3, <1>4, AutoClaudeAssumption DEF PermitsConserved

-----------------------------------------------------------------------------
(***************************************************************************)
(* What the rest of the invariant needs of an effect: who owns, and whose  *)
(* worktree, afterwards.                                                   *)
(***************************************************************************)
LEMMA EffectOwners ==
  ASSUME Typed, NEW i, Effect(i)
  PROVE  /\ \A j : Owner(j)' => Owner(j) \/ (j = i /\ OpenTranscript(i))
         /\ \A j \in DOMAIN incidents :
              /\ incidents'[j].slug = incidents[j].slug
              /\ incidents'[j].stage \in Working =>
                   \/ incidents[j].stage \in Working
                   \/ j = i /\ AddWorktree(i)
<1>1. PICK st \in Stages, q \in Pipes :
        /\ Shift(i, st, q)
        /\ incidents[i].stage \notin Ended
        /\ st \in Ended \cup {"opening"} \/ incidents[i].stage # "opening"
                                        \/ OpenTranscript(i)
        /\ st \notin Working \/ incidents[i].stage \in Working \/ AddWorktree(i)
  BY DEF Effect
<1> QED BY <1>1 DEF Shift, Owner, Ended, Working

LEMMA EffectKeepsTyped ==
  ASSUME Typed, PermitsConserved, NEW i, Effect(i)
  PROVE  Typed'
<1>1. PICK st \in Stages, q \in Pipes :
        /\ Shift(i, st, q)
        /\ \A s \in Streams : st \in {"running", "draining"} <=> q[s] # "none"
        /\ st \in InDispatch => incidents[i].stage \in InDispatch
        /\ permits' = IF st \in Ended THEN permits + 1 ELSE permits
        /\ transcripts' = transcripts \/ OpenTranscript(i) \/ WriteHeader(i)
        /\ worktrees' = worktrees \/ AddWorktree(i)
        /\ second' = second /\ outcome' \in {"ok", "failed"}
  BY DEF Effect
<1>2. second' \in Nat /\ outcome' \in {"ok", "failed"}
  BY <1>1 DEF Typed, TypeOK
<1>3. permits' \in 0..MaxConcurrent
  <2>1. PermitsConserved'
    BY EffectKeepsPermits
  <2>2. Cardinality(Holders') \in Nat
    BY <1>1, LiveFinite DEF Shift, Holders
  <2> QED BY <1>1, <2>1, <2>2, AutoClaudeAssumption
             DEF PermitsConserved, Typed, TypeOK
<1>4. ASSUME NEW j \in DOMAIN incidents'
      PROVE  /\ incidents'[j].stage \in Stages
             /\ incidents'[j].stage \in InDispatch => j = Len(incidents')
             /\ \A s \in Streams : incidents'[j].stage \in {"running", "draining"}
                                   <=> incidents'[j].pipe[s] # "none"
  BY <1>1 DEF Shift, Typed, TypeOK
<1>5. /\ IsFunction(transcripts')
      /\ \A g \in DOMAIN transcripts' :
           transcripts'[g] \subseteq (DOMAIN incidents') \X ({"header"} \cup Streams)
  <2>1. CASE transcripts' = transcripts
    BY <1>1, <2>1 DEF Typed, TypeOK, Shift
  <2>2. CASE OpenTranscript(i)
    BY <1>1, <2>2 DEF Typed, TypeOK, Shift, OpenTranscript, Extended, IsFunction
  <2>3. CASE WriteHeader(i)
    <3>1. /\ i \in DOMAIN incidents
          /\ transcripts' = [g \in DOMAIN transcripts |->
               IF g = incidents[i].slug
               THEN transcripts[g] \cup {<<i, "header">>} ELSE transcripts[g]]
      BY <2>3 DEF WriteHeader, Writes, At, Typed, IsFunction
    <3>2. <<i, "header">> \in (DOMAIN incidents) \X ({"header"} \cup Streams)
      BY <3>1
    <3> QED BY <1>1, <3>1, <3>2 DEF Typed, TypeOK, Shift, IsFunction
  <2> QED BY <1>1, <2>1, <2>2, <2>3
<1>6. /\ IsFunction(worktrees')
      /\ \A g \in DOMAIN worktrees' :
           /\ worktrees'[g] \in DOMAIN incidents'
           /\ incidents'[worktrees'[g]].slug = g
  <2>1. CASE worktrees' = worktrees
    BY <1>1, <2>1 DEF Typed, TypeOK, Shift
  <2>2. CASE AddWorktree(i)
    BY <1>1, <2>2 DEF Typed, TypeOK, Shift, AddWorktree, Extended, IsFunction
  <2> QED BY <1>1, <2>1, <2>2
<1>7. TypeOK'
  BY <1>2, <1>3, <1>4, <1>5, <1>6, Zenon DEF TypeOK
<1>8. incidents' \in Seq(Incident)
  BY <1>1 DEF Shift
<1> QED BY <1>5, <1>6, <1>7, <1>8, Zenon DEF Typed, IsFunction

LEMMA EffectKeepsOwners ==
  ASSUME IInv, NEW i, Effect(i)
  PROVE  OwnersApart' /\ OwnerAlone' /\ OneIncidentPerTranscript'
<1>1. /\ \A j : Owner(j)' => Owner(j) \/ (j = i /\ OpenTranscript(i))
      /\ \A j \in DOMAIN incidents : incidents'[j].slug = incidents[j].slug
  BY EffectOwners DEF IInv
<1>2. transcripts' = transcripts \/ OpenTranscript(i) \/ WriteHeader(i)
  BY DEF Effect
<1>3. CASE transcripts' = transcripts /\ ~OpenTranscript(i)
  BY <1>1, <1>3 DEF IInv, OwnersApart, OwnerAlone, OneIncidentPerTranscript, Owner
<1>4. CASE OpenTranscript(i)
  <2>1. /\ i \in DOMAIN incidents
        /\ incidents[i].slug \notin DOMAIN transcripts
        /\ DOMAIN transcripts' = DOMAIN transcripts \cup {incidents[i].slug}
        /\ transcripts'[incidents[i].slug] = {}
        /\ \A g \in DOMAIN transcripts : transcripts'[g] = transcripts[g]
    BY <1>4 DEF OpenTranscript, Extended, At
  <2>2. \A j : Owner(j) => incidents[j].slug # incidents[i].slug
    BY <2>1 DEF IInv, OwnerAlone
  <2>3. OwnersApart'
    BY <1>1, <2>1, <2>2 DEF IInv, OwnersApart, Owner
  <2>4. OwnerAlone'
    BY <1>1, <2>1, <2>2 DEF IInv, OwnerAlone, Owner
  <2>5. OneIncidentPerTranscript'
    BY <2>1 DEF IInv, OneIncidentPerTranscript
  <2> QED BY <2>3, <2>4, <2>5
<1>5. CASE WriteHeader(i) /\ ~OpenTranscript(i)
  <2>1. /\ Owner(i)
        /\ DOMAIN transcripts' = DOMAIN transcripts
        /\ \A g \in DOMAIN transcripts \ {incidents[i].slug} :
             transcripts'[g] = transcripts[g]
    BY <1>5 DEF WriteHeader, Writes, At, Owner, Ended, IInv, Typed, IsFunction
  <2>2. /\ incidents[i].slug \in DOMAIN transcripts
        /\ \A v \in transcripts'[incidents[i].slug] : v[1] = i
    BY <1>5, <2>1 DEF WriteHeader, Writes, IInv, OwnerAlone
  <2>3. OwnersApart'
    BY <1>1, <1>5 DEF IInv, OwnersApart, Owner
  <2>4. OwnerAlone'
    BY <1>1, <1>5, <2>1, <2>2 DEF IInv, OwnersApart, OwnerAlone, Owner
  <2>5. OneIncidentPerTranscript'
    BY <2>1, <2>2 DEF IInv, OneIncidentPerTranscript
  <2> QED BY <2>3, <2>4, <2>5
<1> QED BY <1>2, <1>3, <1>4, <1>5

LEMMA EffectKeepsWorktrees ==
  ASSUME IInv, NEW i, Effect(i)
  PROVE  OwnWorktree'
<1>1. \A j \in DOMAIN incidents :
        /\ incidents'[j].slug = incidents[j].slug
        /\ incidents'[j].stage \in Working =>
             incidents[j].stage \in Working \/ (j = i /\ AddWorktree(i))
  BY EffectOwners DEF IInv
<1>2. DOMAIN incidents' = DOMAIN incidents
  BY DEF Effect, Shift
<1>3. worktrees' = worktrees \/ AddWorktree(i)
  BY DEF Effect
<1>4. CASE worktrees' = worktrees /\ ~AddWorktree(i)
  BY <1>1, <1>2, <1>4 DEF IInv, OwnWorktree, Working
<1>5. CASE AddWorktree(i)
  <2>1. /\ incidents[i].slug \notin DOMAIN worktrees
        /\ DOMAIN worktrees' = DOMAIN worktrees \cup {incidents[i].slug}
        /\ worktrees'[incidents[i].slug] = i
        /\ \A g \in DOMAIN worktrees : worktrees'[g] = worktrees[g]
    BY <1>5 DEF AddWorktree, Extended
  <2> QED BY <1>1, <1>2, <2>1 DEF IInv, OwnWorktree, Working
<1> QED BY <1>3, <1>4, <1>5

-----------------------------------------------------------------------------
(***************************************************************************)
(* The steps that are not effects.                                         *)
(***************************************************************************)
LEMMA InitEstablishes == Init => IInv
<1> SUFFICES ASSUME Init PROVE IInv
  OBVIOUS
<1>1. incidents = <<>> /\ incidents \in Seq(Incident) /\ DOMAIN incidents = {}
  BY DEF Init
<1>2. Holders = {} /\ Cardinality(Holders) = 0
  BY <1>1, FS_EmptySet DEF Holders
<1>3. Typed
  BY <1>1, AutoClaudeAssumption DEF Init, Typed, TypeOK, IsFunction
<1>4. PermitsConserved
  BY <1>2, AutoClaudeAssumption DEF Init, PermitsConserved
<1>5. OwnersApart /\ OwnerAlone /\ OwnWorktree
  BY <1>1 DEF OwnersApart, OwnerAlone, OwnWorktree, Owner
<1>6. OneIncidentPerTranscript
  BY DEF Init, OneIncidentPerTranscript
<1> QED BY <1>3, <1>4, <1>5, <1>6 DEF IInv

LEMMA QuietKeeps ==
  ASSUME IInv, UNCHANGED <<permits, incidents, transcripts, worktrees>>,
         second' \in Nat, outcome' \in {"ok", "failed"}
  PROVE  IInv'
<1>1. Typed'
  BY DEF IInv, Typed, TypeOK, At, IsFunction
<1>2. PermitsConserved'
  BY DEF IInv, PermitsConserved, Holders
<1>3. OwnersApart' /\ OwnerAlone' /\ OneIncidentPerTranscript' /\ OwnWorktree'
  BY DEF IInv, OwnersApart, OwnerAlone, Owner, OneIncidentPerTranscript,
         OwnWorktree
<1> QED BY <1>1, <1>2, <1>3 DEF IInv

LEMMA AcquireKeeps ==
  ASSUME IInv, NEW a \in Alerts, Acquire(a)
  PROVE  IInv'
<1> DEFINE n == Len(incidents) + 1
<1>1. /\ incidents' \in Seq(Incident)
      /\ Len(incidents') = n
      /\ DOMAIN incidents' = DOMAIN incidents \cup {n}
      /\ n \notin DOMAIN incidents
      /\ \A j \in DOMAIN incidents : incidents'[j] = incidents[j]
      /\ incidents'[n].stage = "opening"
      /\ incidents'[n].pipe = NoPipes
      /\ \A j \in DOMAIN incidents : incidents[j].stage \notin InDispatch
  BY AcquireAppends DEF IInv
<1>2. /\ UNCHANGED <<second, transcripts, worktrees, outcome>>
      /\ permits > 0 /\ permits' = permits - 1
  BY DEF Acquire
<1> HIDE DEF n
<1>3. TypeOK'
  <2>1. second' \in Nat /\ outcome' \in {"ok", "failed"}
    BY <1>2 DEF IInv, Typed, TypeOK
  <2>2. permits' \in 0..MaxConcurrent
    BY <1>2, AutoClaudeAssumption DEF IInv, Typed, TypeOK
  <2>3. ASSUME NEW j \in DOMAIN incidents'
        PROVE  /\ incidents'[j].stage \in Stages
               /\ incidents'[j].stage \in InDispatch => j = Len(incidents')
               /\ \A s \in Streams : incidents'[j].stage \in {"running", "draining"}
                                     <=> incidents'[j].pipe[s] # "none"
    <3>1. CASE j = n
      BY <1>1, <3>1 DEF Stages, InDispatch, NoPipes
    <3>2. CASE j # n
      BY <1>1, <3>2 DEF IInv, Typed, TypeOK
    <3> QED BY <3>1, <3>2
  <2>4. \A g \in DOMAIN transcripts' :
          transcripts'[g] \subseteq (DOMAIN incidents') \X ({"header"} \cup Streams)
    BY <1>1, <1>2 DEF IInv, Typed, TypeOK
  <2>5. \A g \in DOMAIN worktrees' :
          /\ worktrees'[g] \in DOMAIN incidents'
          /\ incidents'[worktrees'[g]].slug = g
    BY <1>1, <1>2 DEF IInv, Typed, TypeOK
  <2> QED BY <2>1, <2>2, <2>3, <2>4, <2>5, Zenon DEF TypeOK
<1>4. Typed'
  BY <1>1, <1>2, <1>3 DEF IInv, Typed, IsFunction
<1>5. PermitsConserved'
  BY AcquireKeepsPermits DEF IInv
<1>6. \A j : Owner(j)' => Owner(j) /\ incidents'[j] = incidents[j]
  BY <1>1 DEF Owner
<1>7. OwnersApart' /\ OwnerAlone'
  BY <1>2, <1>6 DEF IInv, OwnersApart, OwnerAlone
<1>8. OneIncidentPerTranscript'
  BY <1>2 DEF IInv, OneIncidentPerTranscript
<1>9. OwnWorktree'
  BY <1>1, <1>2 DEF IInv, OwnWorktree
<1> QED BY <1>4, <1>5, <1>7, <1>8, <1>9 DEF IInv

LEMMA CopyKeeps ==
  ASSUME IInv, NEW i, NEW s \in Streams, Copy(i, s)
  PROVE  IInv'
<1> DEFINE g == incidents[i].slug
<1>1. /\ i \in DOMAIN incidents
      /\ incidents[i].pipe[s] = "open"
      /\ UNCHANGED <<second, permits, incidents, worktrees, outcome>>
      /\ transcripts' = [transcripts EXCEPT ![g] = @ \cup {<<i, s>>}]
  BY DEF Copy, Writes
<1>2. Owner(i)
  BY <1>1 DEF Owner, Ended, IInv, Typed, TypeOK
<1>3. g \in DOMAIN transcripts /\ \A v \in transcripts[g] : v[1] = i
  BY <1>2 DEF IInv, OwnerAlone
<1>4. transcripts' = [h \in DOMAIN transcripts |->
          IF h = g THEN transcripts[h] \cup {<<i, s>>} ELSE transcripts[h]]
  BY <1>1 DEF IInv, Typed, IsFunction
<1> HIDE DEF g
<1>5. \A h \in DOMAIN transcripts :
        transcripts'[h] \subseteq (DOMAIN incidents) \X ({"header"} \cup Streams)
  <2>1. <<i, s>> \in (DOMAIN incidents) \X ({"header"} \cup Streams)
    BY <1>1
  <2> QED BY <1>4, <2>1 DEF IInv, Typed, TypeOK
<1>6. Typed'
  <2>1. TypeOK'
    BY <1>1, <1>4, <1>5 DEF IInv, Typed, TypeOK
  <2>2. IsFunction(transcripts')
    BY <1>4 DEF IsFunction
  <2> QED BY <1>1, <2>1, <2>2 DEF IInv, Typed, IsFunction
<1>7. PermitsConserved'
  BY <1>1 DEF IInv, PermitsConserved, Holders
<1>8. OwnersApart' /\ OwnWorktree'
  BY <1>1 DEF IInv, OwnersApart, Owner, OwnWorktree
<1>9. /\ \A v \in transcripts'[g] : v[1] = i
      /\ \A h \in DOMAIN transcripts \ {g} : transcripts'[h] = transcripts[h]
      /\ DOMAIN transcripts' = DOMAIN transcripts
  BY <1>3, <1>4
<1>10. OneIncidentPerTranscript'
  BY <1>9 DEF IInv, OneIncidentPerTranscript
<1>11. OwnerAlone'
  BY <1>1, <1>2, <1>9 DEF IInv, OwnerAlone, OwnersApart, Owner, g
<1> QED BY <1>6, <1>7, <1>8, <1>10, <1>11 DEF IInv

LEMMA DiscardTranscriptKeeps ==
  ASSUME IInv, NEW g, DiscardTranscript(g)
  PROVE  IInv'
<1>1. /\ UNCHANGED <<second, permits, incidents, worktrees, outcome>>
      /\ transcripts' = [h \in DOMAIN transcripts \ {g} |-> transcripts[h]]
  BY DEF DiscardTranscript, Restrict
<1>2. \A j : Owner(j) => incidents[j].slug # g
  BY DEF DiscardTranscript, Tidy, Owner
<1>3. Typed'
  BY <1>1 DEF IInv, Typed, TypeOK, IsFunction
<1>4. PermitsConserved'
  BY <1>1 DEF IInv, PermitsConserved, Holders
<1>5. OwnersApart' /\ OwnWorktree'
  BY <1>1 DEF IInv, OwnersApart, Owner, OwnWorktree
<1>6. OwnerAlone' /\ OneIncidentPerTranscript'
  BY <1>1, <1>2 DEF IInv, OwnerAlone, Owner, OneIncidentPerTranscript
<1> QED BY <1>3, <1>4, <1>5, <1>6 DEF IInv

LEMMA DiscardWorktreeKeeps ==
  ASSUME IInv, NEW g, DiscardWorktree(g)
  PROVE  IInv'
<1>1. /\ UNCHANGED <<second, permits, incidents, transcripts, outcome>>
      /\ worktrees' = [h \in DOMAIN worktrees \ {g} |-> worktrees[h]]
  BY DEF DiscardWorktree, Restrict
<1>2. \A j \in DOMAIN incidents :
        incidents[j].stage \in Working => incidents[j].slug # g
  BY DEF DiscardWorktree, Tidy, Working, Ended
<1>3. Typed'
  BY <1>1 DEF IInv, Typed, TypeOK, IsFunction
<1>4. PermitsConserved'
  BY <1>1 DEF IInv, PermitsConserved, Holders
<1>5. OwnersApart' /\ OwnerAlone' /\ OneIncidentPerTranscript'
  BY <1>1 DEF IInv, OwnersApart, OwnerAlone, Owner, OneIncidentPerTranscript
<1>6. OwnWorktree'
  BY <1>1, <1>2 DEF IInv, OwnWorktree, Working
<1> QED BY <1>3, <1>4, <1>5, <1>6 DEF IInv

LEMMA RestartKeeps ==
  ASSUME IInv, Restart
  PROVE  IInv'
<1>1. /\ incidents' \in Seq(Incident)
      /\ DOMAIN incidents' = DOMAIN incidents
      /\ \A i \in DOMAIN incidents :
           /\ incidents'[i].slug = incidents[i].slug
           /\ incidents'[i].stage \in Ended
           /\ incidents'[i].pipe = NoPipes \/ incidents'[i] = incidents[i]
  BY RestartEndsAll DEF IInv
<1>2. /\ UNCHANGED <<transcripts, worktrees>>
      /\ permits' = MaxConcurrent
      /\ second' \in 0..(second + 1) /\ outcome' = "ok"
  BY DEF Restart
<1>3. TypeOK'
  <2>1. /\ second' \in Nat /\ outcome' \in {"ok", "failed"}
        /\ permits' \in 0..MaxConcurrent
    BY <1>2, AutoClaudeAssumption DEF IInv, Typed, TypeOK
  <2>2. ASSUME NEW j \in DOMAIN incidents'
        PROVE  /\ incidents'[j].stage \in Stages
               /\ incidents'[j].stage \notin InDispatch
               /\ incidents'[j].stage \notin {"running", "draining"}
    BY <1>1 DEF Stages, Ended, InDispatch
  <2>3. ASSUME NEW j \in DOMAIN incidents', NEW s \in Streams
        PROVE  incidents'[j].pipe[s] = "none"
    BY <1>1, <2>2 DEF IInv, Typed, TypeOK, NoPipes
  <2>4. /\ \A g \in DOMAIN transcripts' : transcripts'[g]
             \subseteq (DOMAIN incidents') \X ({"header"} \cup Streams)
        /\ \A g \in DOMAIN worktrees' :
             /\ worktrees'[g] \in DOMAIN incidents'
             /\ incidents'[worktrees'[g]].slug = g
    BY <1>1, <1>2 DEF IInv, Typed, TypeOK
  <2> QED BY <2>1, <2>2, <2>3, <2>4, Zenon DEF TypeOK
<1>4. Typed'
  BY <1>1, <1>2, <1>3 DEF IInv, Typed, IsFunction
<1>5. PermitsConserved'
  BY RestartKeepsPermits DEF IInv
<1>6. OwnersApart' /\ OwnerAlone' /\ OwnWorktree'
  BY <1>1 DEF OwnersApart, OwnerAlone, Owner, OwnWorktree, Ended
<1>7. OneIncidentPerTranscript'
  BY <1>2 DEF IInv, OneIncidentPerTranscript
<1> QED BY <1>4, <1>5, <1>6, <1>7 DEF IInv

-----------------------------------------------------------------------------
LEMMA StepKeeps == IInv /\ [Next]_vars => IInv'
<1> SUFFICES ASSUME IInv, [Next]_vars PROVE IInv'
  OBVIOUS
<1>1. ASSUME NEW a \in Alerts, Dispatch(a) PROVE IInv'
  <2>1. CASE Skip(a)
    BY <2>1, QuietKeeps DEF Skip, IInv, Typed, TypeOK
  <2>2. CASE RefuseOverCap(a)
    BY <2>2, QuietKeeps DEF RefuseOverCap, IInv, Typed, TypeOK
  <2>3. CASE Acquire(a)
    BY <2>3, AcquireKeeps
  <2> QED BY <1>1, <2>1, <2>2, <2>3 DEF Dispatch
<1>2. ASSUME NEW i \in DOMAIN incidents, Step(i) \/ Outside(i) PROVE IInv'
  <2>1. CASE \E s \in Streams : Copy(i, s)
    BY <2>1, CopyKeeps
  <2>2. CASE ~ \E s \in Streams : Copy(i, s)
    <3>1. Effect(i)
      BY <1>2, <2>2, StepEffect DEF Step, IInv
    <3> QED BY <3>1, EffectKeepsTyped, EffectKeepsPermits, EffectKeepsOwners,
               EffectKeepsWorktrees DEF IInv
  <2> QED BY <2>1, <2>2
<1>3. ASSUME NEW g, DiscardTranscript(g) PROVE IInv'
  BY <1>3, DiscardTranscriptKeeps
<1>4. ASSUME NEW g, DiscardWorktree(g) PROVE IInv'
  BY <1>4, DiscardWorktreeKeeps
<1>5. CASE Tick
  BY <1>5, QuietKeeps DEF Tick, IInv, Typed, TypeOK
<1>6. CASE Restart
  BY <1>6, RestartKeeps
<1>7. CASE UNCHANGED vars
  BY <1>7, QuietKeeps DEF vars, IInv, Typed, TypeOK
<1> QED BY <1>1, <1>2, <1>3, <1>4, <1>5, <1>6, <1>7 DEF Next

LEMMA Invariant == Spec => []IInv
BY InitEstablishes, StepKeeps, PTL DEF Spec

(***************************************************************************)
(* The state of the sink, its incidents and what they leave on disk has    *)
(* its type.                                                               *)
(***************************************************************************)
THEOREM TypeCorrect == Spec => []TypeOK
<1>1. IInv => TypeOK
  BY DEF IInv, Typed
<1> QED BY <1>1, Invariant, PTL

(***************************************************************************)
(* No permit is ever lost or returned twice.                               *)
(***************************************************************************)
THEOREM PermitsAccounted == Spec => []PermitsConserved
<1>1. IInv => PermitsConserved
  BY DEF IInv
<1> QED BY <1>1, Invariant, PTL

(***************************************************************************)
(* There are never more claude processes than MaxConcurrent.               *)
(***************************************************************************)
THEOREM CapEnforced == Spec => []CapHolds
<1>1. ASSUME IInv PROVE CapHolds
  <2> DEFINE running == { i \in DOMAIN incidents : incidents[i].stage = "running" }
  <2>1. IsFiniteSet(Holders) /\ Cardinality(Holders) \in Nat
    BY <1>1, HoldersFinite DEF IInv, Typed
  <2>2. running \in SUBSET Holders
    BY DEF Holders, Ended
  <2>3. Cardinality(running) <= Cardinality(Holders) /\ IsFiniteSet(running)
    BY <2>1, <2>2, FS_Subset
  <2>4. Cardinality(running) \in Nat
    BY <2>3, FS_CardinalityType
  <2>5. Cardinality(Holders) <= MaxConcurrent
    BY <1>1, <2>1, AutoClaudeAssumption DEF IInv, PermitsConserved, Typed, TypeOK
  <2> QED BY <2>1, <2>3, <2>4, <2>5, AutoClaudeAssumption DEF CapHolds
<1> QED BY <1>1, Invariant, PTL

(***************************************************************************)
(* No transcript is written by two incidents, though slugs may collide     *)
(* (create_new, auto_claude.rs:263-279).                                   *)
(***************************************************************************)
THEOREM TranscriptsApart == Spec => []OneIncidentPerTranscript
<1>1. IInv => OneIncidentPerTranscript
  BY DEF IInv
<1> QED BY <1>1, Invariant, PTL

(***************************************************************************)
(* claude always works in a worktree added for its own incident, also      *)
(* after a restart that left the worktrees of earlier ones.                *)
(***************************************************************************)
THEOREM WorktreesApart == Spec => []OwnWorktree
<1>1. IInv => OwnWorktree
  BY DEF IInv
<1> QED BY <1>1, Invariant, PTL
=============================================================================
