--------------------------- MODULE CoordinatorProofs ---------------------------
(***************************************************************************)
(* Theorems about the coordinator, for every number of trainers, every     *)
(* hold-out result and every setting of the gates and bounds.              *)
(***************************************************************************)
EXTENDS CoordinatorHistory, SequenceTheorems, TLAPS

-----------------------------------------------------------------------------
(* Lemmas about the operators.                                               *)

LEMMA LowerInt ==
    ASSUME NEW a \in Int, NEW b \in Int
    PROVE  /\ Lower(a, b) \in Int
           /\ Lower(a, b) <= a /\ Lower(a, b) <= b
           /\ Lower(a, b) = a \/ Lower(a, b) = b
BY DEF Lower

LEMMA DivNat ==
    ASSUME NEW n \in Nat, NEW d \in Nat \ {0}
    PROVE  n \div d \in Nat
OBVIOUS

LEMMA ProductNat ==
    ASSUME NEW m \in Nat, NEW n \in Nat
    PROVE  m * n \in Nat
OBVIOUS

\* submit() keeps at most the cap, and only proposals that were there or the new one.
LEMMA EnqueueProperties ==
    ASSUME NEW S, NEW q \in Seq(S), Len(q) <= QueueCap, NEW p \in S
    PROVE  /\ Enqueue(q, p) \in Seq(S)
           /\ Len(Enqueue(q, p)) <= QueueCap
           /\ \A i \in DOMAIN Enqueue(q, p) :
                 \/ Enqueue(q, p)[i] = p
                 \/ \E j \in DOMAIN q : Enqueue(q, p)[i] = q[j]
<1> USE CoordinatorAssumption
<1>1. CASE Len(q) < QueueCap
  BY <1>1 DEF Enqueue
<1>2. CASE ~(Len(q) < QueueCap)
  <2>1. q # <<>>
    BY <1>2
  <2>2. /\ Tail(q) \in Seq(S)
        /\ Len(Tail(q)) = Len(q) - 1
        /\ \A i \in 1 .. Len(Tail(q)) : Tail(q)[i] = q[i + 1]
    BY <2>1, HeadTailProperties
  <2> DEFINE t == Tail(q)
  <2>3. Enqueue(q, p) = Append(t, p)
    BY <1>2 DEF Enqueue
  <2> HIDE DEF t
  <2>4. t \in Seq(S) /\ Len(t) = Len(q) - 1 /\ \A i \in 1 .. Len(t) : t[i] = q[i + 1]
    BY <2>2 DEF t
  <2>5. /\ Append(t, p) \in Seq(S)
        /\ Len(Append(t, p)) = Len(q)
        /\ DOMAIN Append(t, p) = 1 .. Len(q)
        /\ \A i \in 1 .. Len(q) : Append(t, p)[i] = IF i = Len(q) THEN p ELSE t[i]
    BY <2>4
  <2>6. DOMAIN q = 1 .. Len(q)
    OBVIOUS
  <2>7. \A i \in 1 .. Len(q) : i # Len(q) => i \in 1 .. Len(t) /\ i + 1 \in 1 .. Len(q)
    BY <2>4
  <2> QED
    BY <2>3, <2>4, <2>5, <2>6, <2>7
<1> QED
  BY <1>1, <1>2

-----------------------------------------------------------------------------
(* Type correctness.                                                         *)

\* The search numbers the alphas from one; while a candidate is evaluated or
\* committed, the alpha it was built with is one of the configured ones.
AlphaInRange ==
    /\ phase = "search" => round.alpha >= 1
    /\ phase \in {"evaluate", "commit"} => round.alpha \in 1 .. Len(Alphas)

TypeInv == CoordTypeOK /\ AlphaInRange

LEMMA TypeInit == Init => TypeInv
<1> SUFFICES ASSUME Init PROVE TypeInv
  OBVIOUS
<1> USE CoordinatorAssumption DEF Init
<1>1. InitWeights \in Weights /\ 0 \in Nat /\ 1 \in Nat
  OBVIOUS
<1>2. trainer \in [Sources -> Trainer]
  BY <1>1 DEF Trainer
<1>3. round \in Round
  BY <1>1 DEF Round, NoRound
<1>4. ui \in UiState
  BY <1>1 DEF UiState, UiSteps
<1>5. /\ queue \in Seq(Proposal) /\ Len(queue) <= QueueCap
      /\ props \in Seq(Proposal)
      /\ disk_backups \in Seq(Nat) /\ Len(disk_backups) <= MaxDiskBackups
  OBVIOUS
<1>6. best_val \in Int /\ best_lang \in [Langs -> Int]
  BY <1>1
<1>7. rate_bucket \in 0 .. RateBurst
  OBVIOUS
<1> QED
  BY <1>1, <1>2, <1>3, <1>4, <1>5, <1>6, <1>7
     DEF TypeInv, CoordTypeOK, AlphaInRange, Phases

\* Assigning one field of the locals of round(), of a trainer or of restore_best().
LEMMA RoundFields ==
    ASSUME NEW r \in Round, NEW w \in Weights, NEW v \in Weights,
           NEW n \in Nat, NEW m \in Nat
    PROVE  /\ [r EXCEPT !.base = w, !.version = n] \in Round
           /\ [r EXCEPT !.before = w, !.step = n, !.alpha = m] \in Round
           /\ [r EXCEPT !.before = w, !.step = n, !.alpha = m].alpha = m
           /\ [r EXCEPT !.alpha = n] \in Round
           /\ [r EXCEPT !.alpha = n].alpha = n
           /\ [r EXCEPT !.cand = w] \in Round
           /\ [r EXCEPT !.cand = w].alpha = r.alpha
           /\ [r EXCEPT !.after = w] \in Round
           /\ [r EXCEPT !.after = w].alpha = r.alpha
BY DEF Round

LEMMA TrainerFields ==
    ASSUME NEW f \in [Sources -> Trainer], NEW s \in Sources, NEW w \in Weights,
           NEW n \in Nat
    PROVE  /\ [f EXCEPT ![s].busy = FALSE] \in [Sources -> Trainer]
           /\ [f EXCEPT ![s] = [weights |-> w, version |-> n, busy |-> TRUE]]
                 \in [Sources -> Trainer]
<1>1. f[s] \in Trainer
  OBVIOUS
<1>2. [f[s] EXCEPT !.busy = FALSE] \in Trainer
  BY <1>1 DEF Trainer
<1>3. [weights |-> w, version |-> n, busy |-> TRUE] \in Trainer
  BY DEF Trainer
<1> QED
  BY <1>2, <1>3

LEMMA UiFields ==
    ASSUME NEW u \in UiState, NEW p \in UiSteps, NEW w \in Weights
    PROVE  /\ [u EXCEPT !.pc = p] \in UiState
           /\ [u EXCEPT !.pc = p, !.best = w] \in UiState
           /\ [u EXCEPT !.pc = p, !.eval = w] \in UiState
           /\ [pc |-> p, best |-> w, eval |-> w] \in UiState
BY DEF UiState

LEMMA ResultsAreWeights ==
    ASSUME CoordTypeOK, NEW who, NEW w \in Weights
    PROVE  ResultsOf(who, w) \subseteq Weights
BY DEF ResultsOf

LEMMA RacedType ==
    ASSUME CoordTypeOK, NEW a \in {"coordinator", "ui"}, NEW b \in {"coordinator", "ui"},
           BeginEvaluate(a, b) \/ EndEvaluate(a) \/ UNCHANGED raced
    PROVE  raced' \in SUBSET {"coordinator", "ui"}
BY DEF CoordTypeOK, BeginEvaluate, EndEvaluate

\* What a commit consumes is a natural number.
LEMMA ConsumedNat ==
    ASSUME TypeInv, phase = "commit"
    PROVE  Consumed \in Nat
<1>1. round.step \in Nat /\ round.alpha \in 1 .. Len(Alphas)
  BY DEF TypeInv, CoordTypeOK, AlphaInRange, Round
<1>2. Alphas[round.alpha] \in Nat
  BY <1>1, CoordinatorAssumption
<1>3. round.step * Alphas[round.alpha] \in Nat
  BY <1>1, <1>2, ProductNat
<1> QED
  BY <1>3, DivNat, CoordinatorAssumption DEF Consumed

\* Every step keeps the type invariant.
LEMMA TypeStep == TypeInv /\ [Next]_vars => TypeInv'
<1> SUFFICES ASSUME TypeInv, [Next]_vars
             PROVE  TypeInv'
  OBVIOUS
<1> USE DEF TypeInv, CoordTypeOK, AlphaInRange, Phases, UiSteps
<1>1. ASSUME NEW s \in Sources, StartTraining(s)
      PROVE  TypeInv'
  BY <1>1, TrainerFields DEF StartTraining, registryVars, roundVars, statVars
<1>2. ASSUME NEW s \in Sources, Submit(s)
      PROVE  TypeInv'
  <2> DEFINE p == [source |-> s, base_version |-> trainer[s].version]
  <2>1. p \in Proposal
    BY DEF Proposal, Trainer
  <2>2. queue' = Enqueue(queue, p)
    BY <1>2 DEF Submit
  <2>3. queue' \in Seq(Proposal) /\ Len(queue') <= QueueCap
    <3> HIDE DEF p
    <3> QED BY <2>1, <2>2, EnqueueProperties
  <2>4. trainer' \in [Sources -> Trainer]
    BY <1>2, TrainerFields, 0 \in Nat DEF Submit
  <2> QED
    BY <1>2, <2>3, <2>4 DEF Submit, registryVars, roundVars, statVars
<1>3. ASSUME NEW s \in Sources, Abandon(s)
      PROVE  TypeInv'
  BY <1>3, TrainerFields DEF Abandon, registryVars, roundVars, statVars
<1>4. ASSUME NEW refill \in Refills, Collect(refill)
      PROVE  TypeInv'
  <2>1. rate_bucket' \in 0 .. RateBurst
    BY <1>4, CoordinatorAssumption DEF Collect, Lower
  <2> QED
    BY <1>4, <2>1, CoordinatorAssumption DEF Collect, registryVars, statVars
<1>5. ASSUME DropForStop
      PROVE  TypeInv'
  BY <1>5 DEF DropForStop, registryVars, statVars
<1>5a. ASSUME DropMisfits
       PROVE  TypeInv'
  <2>1. round' \in Round /\ phase' = "idle" /\ props' = <<>>
    BY <1>5a, CoordinatorAssumption DEF DropMisfits, NoRound, Round
  <2> QED
    BY <1>5a, <2>1 DEF DropMisfits, registryVars, statVars
<1>6. ASSUME ReadBase
      PROVE  TypeInv'
  BY <1>6, RoundFields DEF ReadBase, registryVars, statVars
<1>7. ASSUME NEW rel \in Rels, OpenGate(rel)
      PROVE  TypeInv'
  <2>1. Lower(rel, rate_bucket) \in Nat
    BY CoordinatorAssumption DEF Lower
  <2>2. round' \in Round /\ round'.alpha = 1
    BY <1>7, <2>1 DEF OpenGate, Round
  <2>3. props' = <<>> /\ phase' = "search"
    BY <1>7 DEF OpenGate
  <2> QED
    BY <1>7, <2>2, <2>3 DEF OpenGate, registryVars, statVars
<1>8. ASSUME SkipAlpha
      PROVE  TypeInv'
  <2>1. round.alpha + 1 \in Nat /\ round.alpha \in Nat
    BY DEF Round
  <2>2. round' \in Round /\ round'.alpha = round.alpha + 1
    BY <1>8, <2>1, RoundFields DEF SkipAlpha
  <2> QED
    BY <1>8, <2>1, <2>2 DEF SkipAlpha, registryVars, statVars
<1>9. ASSUME TryAlpha
      PROVE  TypeInv'
  <2>1. raced' \in SUBSET {"coordinator", "ui"}
    BY <1>9, RacedType DEF TryAlpha
  <2>2. Candidates \subseteq Weights
    BY DEF Candidates, Round
  <2>3. PICK w \in Weights : round' = [round EXCEPT !.cand = w]
    BY <1>9, <2>2 DEF TryAlpha
  <2>4. round' \in Round /\ round'.alpha = round.alpha
    BY <2>3, RoundFields
  <2>5. round.alpha \in 1 .. Len(Alphas)
    BY <1>9 DEF TryAlpha, Round
  <2> QED
    BY <1>9, <2>1, <2>4, <2>5 DEF TryAlpha, registryVars, statVars
<1>10. ASSUME AcceptCandidate
       PROVE  TypeInv'
  <2>1. raced' \in SUBSET {"coordinator", "ui"}
    BY <1>10, RacedType DEF AcceptCandidate
  <2>2. ResultsOf("coordinator", round.cand) \subseteq Weights
    BY ResultsAreWeights DEF Round
  <2>3. PICK e \in Weights : round' = [round EXCEPT !.after = e]
    BY <1>10, <2>2 DEF AcceptCandidate
  <2>4. round' \in Round /\ round'.alpha = round.alpha
    BY <2>3, RoundFields
  <2> QED
    BY <1>10, <2>1, <2>4 DEF AcceptCandidate, registryVars, statVars
<1>11. ASSUME RefuseCandidate
       PROVE  TypeInv'
  <2>1. raced' \in SUBSET {"coordinator", "ui"}
    BY <1>11, RacedType DEF RefuseCandidate
  <2>2. round.alpha + 1 \in Nat
    BY DEF Round
  <2>3. round' \in Round /\ round'.alpha = round.alpha + 1
    BY <1>11, <2>2, RoundFields DEF RefuseCandidate
  <2>4. round.alpha >= 1
    BY <1>11 DEF RefuseCandidate, Round
  <2> QED
    BY <1>11, <2>1, <2>2, <2>3, <2>4 DEF RefuseCandidate, registryVars, statVars
<1>12. ASSUME CommitSwap
       PROVE  TypeInv'
  <2>1. rate_bucket' \in 0 .. RateBurst
    <3>1. Consumed \in Nat
      BY <1>12, ConsumedNat DEF CommitSwap
    <3>3. rate_bucket \in 0 .. RateBurst /\ RateBurst \in Nat
      BY CoordinatorAssumption
    <3>2. rate_bucket' = IF Consumed <= rate_bucket THEN rate_bucket - Consumed ELSE 0
      BY <1>12 DEF CommitSwap
    <3> HIDE DEF TypeInv, CoordTypeOK, AlphaInRange
    <3> QED
      BY <3>1, <3>2, <3>3
  <2> QED
    <3>1. round.cand \in Weights
      BY DEF Round
    <3> QED
      BY <1>12, <2>1, <3>1 DEF CommitSwap, statVars
<1>13. ASSUME CommitBump
       PROVE  TypeInv'
  BY <1>13 DEF CommitBump, statVars
<1>14. ASSUME RecordCommit
       PROVE  TypeInv'
  <2>1. round.after \in Weights /\ round.cand \in Weights
    BY DEF Round
  <2>2. LangLoss[round.after] \in [Langs -> Int] /\ HoldLoss[round.after] \in Int
    BY <2>1, CoordinatorAssumption
  <2>3. best_val' \in Int
    BY <1>14, <2>2, LowerInt DEF RecordCommit
  <2>4. \A l \in Langs : Lower(best_lang[l], LangLoss[round.after][l]) \in Int
    BY <2>2, LowerInt
  <2>5. best_lang' \in [Langs -> Int]
    BY <1>14, <2>4 DEF RecordCommit
  <2>6. best_snapshot' \in Weights
    BY <1>14, <2>1 DEF RecordCommit
  <2> QED
    BY <1>14, <2>1, <2>3, <2>5, <2>6 DEF RecordCommit, registryVars
<1>15. ASSUME RecordReject
       PROVE  TypeInv'
  BY <1>15 DEF RecordReject, registryVars
<1>16. ASSUME FinishRound
       PROVE  TypeInv'
  <2>1. raced' \in SUBSET {"coordinator", "ui"}
    BY <1>16, RacedType DEF FinishRound
  <2>2. disk_backups' \in Seq(Nat) /\ Len(disk_backups') <= MaxDiskBackups
    <3>1. CASE UNCHANGED disk_backups
      BY <3>1
    <3>2. CASE disk_backups' # disk_backups
      <4> DEFINE saved == Append(disk_backups, rounds)
      <4>1. disk_backups' = IF Len(saved) > MaxDiskBackups THEN Tail(saved) ELSE saved
        BY <1>16, <3>2 DEF FinishRound, SaveBackup
      <4>2. saved \in Seq(Nat) /\ Len(saved) = Len(disk_backups) + 1
        OBVIOUS
      <4>5. Len(disk_backups) \in Nat
        OBVIOUS
      <4> HIDE DEF saved
      <4>3. saved # <<>>
        BY <4>2
      <4>4. Tail(saved) \in Seq(Nat) /\ Len(Tail(saved)) = Len(disk_backups)
        BY <4>2, <4>3, HeadTailProperties
      <4> QED
        BY <4>1, <4>2, <4>4, <4>5, CoordinatorAssumption
    <3> QED
      BY <3>1, <3>2
  <2>3. round' \in Round /\ phase' \in {"idle", "fisher"}
    BY <1>16, CoordinatorAssumption DEF FinishRound, NoRound, Round
  <2> QED
    BY <1>16, <2>1, <2>2, <2>3 DEF FinishRound, registryVars, statVars
<1>17. ASSUME FinishFisher
       PROVE  TypeInv'
  <2>1. raced' \in SUBSET {"coordinator", "ui"}
    BY <1>17, RacedType DEF FinishFisher
  <2> QED
    BY <1>17, <2>1 DEF FinishFisher, registryVars, statVars
<1>18. ASSUME RestoreRead
       PROVE  TypeInv'
  BY <1>18, UiFields DEF RestoreRead, registryVars, roundVars, statVars
<1>19. ASSUME RestoreSwap
       PROVE  TypeInv'
  <2>1. ui.best \in Weights
    BY DEF UiState
  <2> QED
    BY <1>19, <2>1, UiFields DEF RestoreSwap, roundVars, statVars
<1>20. ASSUME RestoreBump
       PROVE  TypeInv'
  <2>1. ui' \in UiState
    BY <1>20, UiFields DEF RestoreBump
  <2>2. version' \in Nat /\ UNCHANGED <<phase, round>>
    BY <1>20 DEF RestoreBump, roundVars
  <2> QED
    BY <1>20, <2>1, <2>2 DEF RestoreBump, roundVars, statVars
<1>21. ASSUME RestoreEvaluate
       PROVE  TypeInv'
  <2>1. raced' \in SUBSET {"coordinator", "ui"}
    BY <1>21, RacedType DEF RestoreEvaluate
  <2> QED
    BY <1>21, <2>1, UiFields DEF RestoreEvaluate, registryVars, roundVars, statVars
<1>22. ASSUME RestoreEvaluated
       PROVE  TypeInv'
  <2>1. raced' \in SUBSET {"coordinator", "ui"}
    BY <1>22, RacedType DEF RestoreEvaluated
  <2>2. ResultsOf("ui", ui.best) \subseteq Weights
    BY ResultsAreWeights DEF UiState
  <2>3. PICK e \in Weights : ui' = [ui EXCEPT !.pc = "record", !.eval = e]
    BY <1>22, <2>2 DEF RestoreEvaluated
  <2> QED
    BY <1>22, <2>1, <2>3, UiFields DEF RestoreEvaluated, registryVars, roundVars, statVars
<1>23. ASSUME RestoreRecord
       PROVE  TypeInv'
  <2>1. ui.eval \in Weights
    BY DEF UiState
  <2> QED
    BY <1>23, <2>1, UiFields, CoordinatorAssumption DEF RestoreRecord, registryVars, roundVars
<1>24. ASSUME ToggleStop
       PROVE  TypeInv'
  BY <1>24 DEF ToggleStop, registryVars, roundVars, statVars
<1>25. CASE UNCHANGED vars
  BY <1>25 DEF vars, registryVars, roundVars, statVars
<1> HIDE DEF TypeInv
<1> QED
  BY <1>1, <1>2, <1>3, <1>4, <1>5, <1>5a, <1>6, <1>7, <1>8, <1>9, <1>10, <1>11, <1>12,
     <1>13, <1>14, <1>15, <1>16, <1>17, <1>18, <1>19, <1>20, <1>21, <1>22, <1>23,
     <1>24, <1>25
     DEF Next, SoleWriterNext, TrainerStep, CoordinatorStep, RoundStep, RestoreStep

\* Every variable of the coordinator keeps its type: in particular the queue and
\* the list of backups never outgrow their caps and the rate bucket stays
\* between empty and the burst, whatever restores and stops interleave.
THEOREM TypeCorrect == Spec => []CoordTypeOK
<1>1. TypeInv => CoordTypeOK
  BY DEF TypeInv
<1> QED
  BY <1>1, TypeInit, TypeStep, PTL DEF Spec

-----------------------------------------------------------------------------
(* No proposal is ever newer than the weights it is merged into.             *)

\* Every version noted by a trainer, and carried by a proposal from there on,
\* was the published one at some time; versions only grow.
VersionsBehind ==
    /\ \A s \in Sources : trainer[s].version <= version
    /\ \A i \in DOMAIN queue : queue[i].base_version <= version
    /\ phase = "collected" => \A i \in DOMAIN props : props[i].base_version <= version
    /\ phase = "based" => \A i \in DOMAIN props : props[i].base_version <= round.version

LEMMA VersionsInit == Init => VersionsBehind
BY DEF Init, VersionsBehind

\* The version is a natural number and only the two bumps change it, by one.
LEMMA VersionGrows ==
    ASSUME TypeInv, [Next]_vars
    PROVE  version \in Nat /\ version' \in Nat /\ version <= version'
<1>1. version \in Nat
  BY DEF TypeInv, CoordTypeOK
<1>2. version' = version \/ version' = version + 1
  BY DEF Next, SoleWriterNext, TrainerStep, CoordinatorStep, RoundStep, RestoreStep,
         StartTraining, Submit, Abandon, Collect, DropForStop, ReadBase, DropMisfits, OpenGate,
         SkipAlpha, TryAlpha, AcceptCandidate, RefuseCandidate, CommitSwap, CommitBump,
         RecordCommit, RecordReject, FinishRound, FinishFisher, RestoreRead,
         RestoreSwap, RestoreBump, RestoreEvaluate, RestoreEvaluated, RestoreRecord,
         ToggleStop, vars, registryVars
<1> QED
  BY <1>1, <1>2

\* Proposals behind an older version are behind a newer one.
LEMMA BehindGrows ==
    ASSUME NEW q \in Seq(Proposal), NEW v \in Nat, NEW w \in Nat, v <= w,
           \A i \in DOMAIN q : q[i].base_version <= v
    PROVE  \A i \in DOMAIN q : q[i].base_version <= w
<1> SUFFICES ASSUME NEW i \in DOMAIN q
             PROVE  q[i].base_version <= w
  OBVIOUS
<1>1. q[i] \in Proposal
  OBVIOUS
<1>2. q[i].base_version \in Nat
  BY <1>1 DEF Proposal
<1> QED
  BY <1>2

LEMMA VersionsStep == TypeInv /\ VersionsBehind /\ [Next]_vars => VersionsBehind'
<1> SUFFICES ASSUME TypeInv, VersionsBehind, [Next]_vars
             PROVE  VersionsBehind'
  OBVIOUS
<1>1. version \in Nat /\ version' \in Nat /\ version <= version'
  BY VersionGrows
<1>2. /\ queue \in Seq(Proposal) /\ props \in Seq(Proposal) /\ Len(queue) <= QueueCap
      /\ trainer \in [Sources -> Trainer]
      /\ \A s \in Sources : trainer[s].version \in Nat
  BY DEF TypeInv, CoordTypeOK, Trainer
<1>3. \A s \in Sources : trainer[s].version <= version'
  BY <1>1, <1>2 DEF VersionsBehind
<1>4. \A i \in DOMAIN queue : queue[i].base_version <= version'
  BY <1>1, <1>2, BehindGrows DEF VersionsBehind
<1>5. phase = "collected" => \A i \in DOMAIN props : props[i].base_version <= version'
  BY <1>1, <1>2, BehindGrows DEF VersionsBehind
<1>6. CASE UNCHANGED <<trainer, queue, phase, props, round>>
  BY <1>3, <1>4, <1>5, <1>6 DEF VersionsBehind
<1>7. CASE /\ UNCHANGED <<trainer, queue, props>>
           /\ phase \notin {"collected", "based"} /\ phase' \notin {"collected", "based"}
  BY <1>3, <1>4, <1>7 DEF VersionsBehind
<1>8. ASSUME NEW s \in Sources, StartTraining(s)
      PROVE  VersionsBehind'
  <2>1. UNCHANGED <<version, queue, phase, props, round>>
    BY <1>8 DEF StartTraining, registryVars, roundVars
  <2>2. \A t \in Sources : trainer'[t].version <= version
    BY <1>1, <1>2, <1>8 DEF StartTraining, VersionsBehind
  <2> QED
    BY <2>1, <2>2 DEF VersionsBehind
<1>9. ASSUME NEW s \in Sources, Submit(s)
      PROVE  VersionsBehind'
  <2> DEFINE p == [source |-> s, base_version |-> trainer[s].version]
  <2>1. /\ UNCHANGED <<version, phase, props, round>>
        /\ queue' = Enqueue(queue, p)
        /\ trainer' = [trainer EXCEPT ![s].busy = FALSE]
    BY <1>9 DEF Submit, registryVars, roundVars
  <2>2. \A t \in Sources : trainer'[t].version = trainer[t].version
    BY <1>2, <2>1 DEF Trainer
  <2>3. p \in Proposal /\ p.base_version = trainer[s].version
    BY <1>2 DEF Proposal
  <2>4. p.base_version <= version
    BY <2>3 DEF VersionsBehind
  <2> HIDE DEF p
  <2>5. \A i \in DOMAIN queue' : queue'[i] = p \/ \E j \in DOMAIN queue : queue'[i] = queue[j]
    BY <1>2, <2>1, <2>3, EnqueueProperties
  <2>6. \A i \in DOMAIN queue' : queue'[i].base_version <= version
    BY <2>4, <2>5 DEF VersionsBehind
  <2> QED
    BY <2>1, <2>2, <2>6 DEF VersionsBehind
<1>10. ASSUME NEW s \in Sources, Abandon(s)
       PROVE  VersionsBehind'
  <2>1. /\ UNCHANGED <<version, queue, phase, props, round>>
        /\ trainer' = [trainer EXCEPT ![s].busy = FALSE]
    BY <1>10 DEF Abandon, registryVars, roundVars
  <2>2. \A t \in Sources : trainer'[t].version = trainer[t].version
    BY <1>2, <2>1 DEF Trainer
  <2> QED
    BY <2>1, <2>2 DEF VersionsBehind
<1>11. ASSUME NEW refill \in Refills, Collect(refill)
       PROVE  VersionsBehind'
  BY <1>3, <1>4, <1>11 DEF Collect, registryVars, VersionsBehind
<1>12. CASE DropForStop \/ DropMisfits
  BY <1>3, <1>4, <1>12 DEF DropForStop, DropMisfits, VersionsBehind
<1>13. CASE ReadBase
  <2>1. UNCHANGED <<version, trainer, queue, props>> /\ phase = "collected" /\ phase' = "based"
    BY <1>13 DEF ReadBase, registryVars
  <2>2. round'.version = version
    BY <1>13 DEF ReadBase, TypeInv, CoordTypeOK, Round
  <2> QED
    BY <2>1, <2>2 DEF VersionsBehind
<1>14. ASSUME NEW rel \in Rels, OpenGate(rel)
       PROVE  VersionsBehind'
  BY <1>3, <1>4, <1>14 DEF OpenGate, VersionsBehind
<1>15. CASE \/ SkipAlpha \/ TryAlpha \/ AcceptCandidate \/ RefuseCandidate
            \/ CommitSwap \/ CommitBump \/ RecordCommit \/ RecordReject
            \/ FinishRound \/ FinishFisher
  BY <1>7, <1>15
     DEF SkipAlpha, TryAlpha, AcceptCandidate, RefuseCandidate, CommitSwap,
         CommitBump, RecordCommit, RecordReject, FinishRound, FinishFisher
<1>16. CASE RestoreRead \/ RestoreStep \/ ToggleStop \/ UNCHANGED vars
  BY <1>6, <1>16
     DEF RestoreStep, RestoreRead, RestoreSwap, RestoreBump, RestoreEvaluate,
         RestoreEvaluated, RestoreRecord, ToggleStop, vars, roundVars
<1> QED
  BY <1>8, <1>9, <1>10, <1>11, <1>12, <1>13, <1>14, <1>15, <1>16
     DEF Next, SoleWriterNext, TrainerStep, CoordinatorStep, RoundStep

\* The staleness of a proposal (coordinator.cpp, version - base_version in
\* uint64_t) never wraps, with any number of trainers and with restores at any
\* point of a round.
THEOREM StalenessNeverWraps == Spec => []NoStalenessUnderflow
<1>1. TypeInv /\ VersionsBehind => NoStalenessUnderflow
  BY DEF VersionsBehind, NoStalenessUnderflow
<1> QED
  BY <1>1, TypeInit, TypeStep, VersionsInit, VersionsStep, PTL DEF Spec

-----------------------------------------------------------------------------
(* A session without restores: the coordinator is the single writer.         *)

\* Nobody else publishes, so what round() read stays true to its end, and the
\* evaluation it gets back is the candidate's own.
SoleWriterOnly ==
    /\ ui.pc = "none" /\ raced = {}
    /\ phase \in {"based", "search", "evaluate", "commit"}
          => round.base = cur /\ round.version = version
    /\ phase \in {"commit", "swapped", "bumped"} => round.after = round.cand
    /\ phase \in {"swapped", "bumped"} => cur = round.cand
    /\ BaselineIsPublished

\* What the ratchet needs from the gates: a candidate about to be committed, and
\* the weights published ever since, are within the budget of the session's best.
WithinBudget(w) ==
    /\ HoldLoss[w] <= best_val + RegressionBudget
    /\ w \notin Collapsed
    /\ PerLanguageGate => /\ \A l \in Langs : LangLoss[w][l] <= best_lang[l] + RegressionBudget
                          /\ w \notin LangCollapsed

BestIsLowest ==
    phase \notin {"swapped", "bumped"} =>
        \A l \in Langs : best_lang[l] <= LangLoss[cur][l]

RatchetInv ==
    /\ SessionRatchet
    /\ BestSnapshotIsBest
    /\ BestIsLowest
    /\ phase = "commit" => WithinBudget(round.cand)

SoleInv == SoleWriterOnly /\ RatchetInv

\* Hold-out losses are integers.
LEMMA LossTypes ==
    ASSUME TypeInv, NEW w \in Weights
    PROVE  /\ HoldLoss[w] \in Int /\ best_val \in Int /\ RegressionBudget \in Nat
           /\ \A l \in Langs : LangLoss[w][l] \in Int /\ best_lang[l] \in Int
BY CoordinatorAssumption DEF TypeInv, CoordTypeOK

\* The gates compare with the lower of the two limits, so passing them means
\* passing the session's limit, whatever the round started from.
LEMMA GatesBound ==
    ASSUME TypeInv, NEW e \in Weights, PassesGates(e)
    PROVE  WithinBudget(e)
<1>1. round.before \in Weights /\ AcceptTolerance \in Nat
  BY CoordinatorAssumption DEF TypeInv, CoordTypeOK, Round
<1>2. LossGate <= best_val + RegressionBudget /\ LossGate \in Int
  BY <1>1, LossTypes DEF LossGate, Lower
<1>3. HoldLoss[e] <= best_val + RegressionBudget
  BY <1>2, LossTypes DEF PassesGates
<1>4. ASSUME NEW l \in Langs, PerLanguageGate
      PROVE  LangLoss[e][l] <= best_lang[l] + RegressionBudget
  <2>1. LangGate(l) <= best_lang[l] + RegressionBudget /\ LangGate(l) \in Int
    BY <1>1, LossTypes DEF LangGate, Lower
  <2>2. LangLoss[e][l] <= LangGate(l)
    BY <1>4 DEF PassesGates
  <2> QED
    BY <2>1, <2>2, LossTypes
<1> QED
  BY <1>3, <1>4 DEF WithinBudget, PassesGates

LEMMA SoleInit == Init => SoleInv
<1> SUFFICES ASSUME Init PROVE SoleInv
  OBVIOUS
<1> USE CoordinatorAssumption DEF Init
<1>1. SoleWriterOnly
  BY DEF SoleWriterOnly, BaselineIsPublished
<1>2. HoldLoss[InitWeights] \in Int /\ \A l \in Langs : LangLoss[InitWeights][l] \in Int
  OBVIOUS
<1>3. RatchetInv
  BY <1>2 DEF RatchetInv, SessionRatchet, BestSnapshotIsBest, BestIsLowest
<1> QED
  BY <1>1, <1>3 DEF SoleInv

\* What a commit records: the losses of the weights it published.
LEMMA RecordCommitRecords ==
    ASSUME TypeInv, SoleInv, RecordCommit
    PROVE  /\ UNCHANGED <<cur, version, ui, raced>> /\ phase' = "accepted"
           /\ base_eval' = cur
           /\ best_val' = Lower(best_val, HoldLoss[cur])
           /\ best_lang' = [l \in Langs |-> Lower(best_lang[l], LangLoss[cur][l])]
           /\ best_snapshot' = IF HoldLoss[cur] < best_val THEN cur ELSE best_snapshot
<1>1. phase = "bumped"
  BY DEF RecordCommit
<1>2. round.after = cur /\ round.cand = cur
  BY <1>1 DEF SoleInv, SoleWriterOnly
<1> QED
  BY <1>2 DEF RecordCommit, registryVars

LEMMA SoleStep == TypeInv /\ SoleInv /\ [SoleWriterNext]_vars => SoleInv'
<1> SUFFICES ASSUME TypeInv, SoleInv, [SoleWriterNext]_vars
             PROVE  SoleInv'
  OBVIOUS
<1>1. round \in Round /\ cur \in Weights /\ round.cand \in Weights
  BY DEF TypeInv, CoordTypeOK, Round
<1> DEFINE kept == <<cur, base_eval, best_val, best_lang, best_snapshot, ui, raced>>
\* Most steps leave all that the ratchet is about alone.
<1>2. ASSUME UNCHANGED kept,
             phase \notin {"swapped", "bumped"}, phase' \notin {"commit", "swapped", "bumped"}
      PROVE  RatchetInv' /\ BaselineIsPublished'
  BY <1>2 DEF SoleInv, SoleWriterOnly, RatchetInv, SessionRatchet, BestSnapshotIsBest,
              BestIsLowest, BaselineIsPublished
<1>3. ASSUME UNCHANGED <<kept, version, phase, round>>
      PROVE  SoleInv'
  BY <1>3 DEF SoleInv, SoleWriterOnly, RatchetInv, SessionRatchet, BestSnapshotIsBest,
              BestIsLowest, BaselineIsPublished, WithinBudget
<1>4. ASSUME UNCHANGED <<kept, version>>, phase \notin {"swapped", "bumped"},
             phase' \notin {"based", "search", "evaluate", "commit", "swapped", "bumped"}
      PROVE  SoleInv'
  BY <1>2, <1>4 DEF SoleInv, SoleWriterOnly
<1>5. ASSUME UNCHANGED <<kept, version>>, phase \in {"based", "search", "evaluate"},
             phase' \in {"search", "evaluate"},
             round'.base = round.base, round'.version = round.version
      PROVE  SoleInv'
  BY <1>2, <1>5 DEF SoleInv, SoleWriterOnly
<1>6. ASSUME NEW s \in Sources, TrainerStep(s)
      PROVE  SoleInv'
  BY <1>3, <1>6 DEF TrainerStep, StartTraining, Submit, Abandon, registryVars, roundVars, statVars
<1>7. ASSUME NEW refill \in Refills, Collect(refill)
      PROVE  SoleInv'
  BY <1>4, <1>7 DEF Collect, registryVars, statVars
<1>8. CASE DropForStop \/ DropMisfits
  BY <1>4, <1>8 DEF DropForStop, DropMisfits, registryVars, statVars
<1>9. CASE ReadBase
  <2>1. UNCHANGED <<kept, version>> /\ phase = "collected" /\ phase' = "based"
    BY <1>9 DEF ReadBase, registryVars, statVars
  <2>2. round'.base = cur /\ round'.version = version
    BY <1>1, <1>9 DEF ReadBase, Round
  <2>3. RatchetInv' /\ BaselineIsPublished'
    BY <1>2, <2>1
  <2> QED
    BY <2>1, <2>2, <2>3 DEF SoleInv, SoleWriterOnly
<1>10. ASSUME NEW rel \in Rels, OpenGate(rel)
       PROVE  SoleInv'
  <2>1. round'.base = round.base /\ round'.version = round.version
    BY <1>1, <1>10 DEF OpenGate, Round
  <2> QED
    BY <1>5, <1>10, <2>1 DEF OpenGate, registryVars, statVars
<1>11. CASE SkipAlpha
  <2>1. round'.base = round.base /\ round'.version = round.version
    BY <1>1, <1>11 DEF SkipAlpha, Round
  <2> QED
    BY <1>5, <1>11, <2>1 DEF SkipAlpha, registryVars, statVars
<1>12. CASE TryAlpha
  <2>1. round'.base = round.base /\ round'.version = round.version
    BY <1>1, <1>12 DEF TryAlpha, Round
  <2>2. UNCHANGED raced
    BY <1>12 DEF TryAlpha, BeginEvaluate, Evaluating, SoleInv, SoleWriterOnly
  <2> QED
    BY <1>5, <1>12, <2>1, <2>2 DEF TryAlpha, registryVars, statVars
<1>13. CASE AcceptCandidate
  <2>1. PICK e : e = round.cand /\ PassesGates(e) /\ round' = [round EXCEPT !.after = e]
    BY <1>13 DEF AcceptCandidate, ResultsOf, SoleInv, SoleWriterOnly
  <2>2. UNCHANGED <<kept, version>> /\ phase = "evaluate" /\ phase' = "commit"
    BY <1>13 DEF AcceptCandidate, registryVars, statVars, EndEvaluate, SoleInv, SoleWriterOnly
  <2>3. /\ round'.base = round.base /\ round'.version = round.version
        /\ round'.cand = round.cand /\ round'.after = round.cand
    BY <1>1, <2>1 DEF Round
  <2>4. WithinBudget(round.cand)
    BY <1>1, <2>1, GatesBound
  <2>5. WithinBudget(round.cand)'
    BY <2>2, <2>3, <2>4 DEF WithinBudget
  <2>6. SoleWriterOnly'
    BY <2>2, <2>3 DEF SoleInv, SoleWriterOnly, BaselineIsPublished
  <2>7. RatchetInv'
    BY <2>2, <2>5
       DEF SoleInv, RatchetInv, SessionRatchet, BestSnapshotIsBest, BestIsLowest
  <2> QED
    BY <2>6, <2>7 DEF SoleInv
<1>14. CASE RefuseCandidate
  <2>1. round'.base = round.base /\ round'.version = round.version
    BY <1>1, <1>14 DEF RefuseCandidate, Round
  <2>2. UNCHANGED raced
    BY <1>14 DEF RefuseCandidate, EndEvaluate, SoleInv, SoleWriterOnly
  <2> QED
    BY <1>5, <1>14, <2>1, <2>2 DEF RefuseCandidate, registryVars, statVars
<1>15. CASE CommitSwap
  <2>1. /\ UNCHANGED <<version, base_eval, best_val, best_lang, best_snapshot, ui, raced, round>>
        /\ cur' = round.cand /\ phase = "commit" /\ phase' = "swapped"
    BY <1>15 DEF CommitSwap, statVars
  <2>2. WithinBudget(round.cand) /\ round.after = round.cand /\ HoldLoss[best_snapshot] = best_val
    BY <2>1 DEF SoleInv, SoleWriterOnly, RatchetInv, BestSnapshotIsBest
  <2>3. SoleWriterOnly'
    BY <2>1, <2>2 DEF SoleInv, SoleWriterOnly, BaselineIsPublished
  <2>4. RatchetInv'
    BY <2>1, <2>2
       DEF RatchetInv, SessionRatchet, BestSnapshotIsBest, BestIsLowest, WithinBudget
  <2> QED
    BY <2>3, <2>4 DEF SoleInv
<1>16. CASE CommitBump
  <2>1. UNCHANGED <<kept, round>> /\ phase = "swapped" /\ phase' = "bumped"
    BY <1>16 DEF CommitBump, statVars
  <2>2. SoleWriterOnly'
    BY <2>1 DEF SoleInv, SoleWriterOnly, BaselineIsPublished
  <2>3. RatchetInv'
    BY <2>1 DEF SoleInv, RatchetInv, SessionRatchet, BestSnapshotIsBest, BestIsLowest
  <2> QED
    BY <2>2, <2>3 DEF SoleInv
<1>17. CASE RecordCommit
  <2>1. /\ UNCHANGED <<cur, ui, raced>> /\ phase' = "accepted"
        /\ base_eval' = cur
        /\ best_val' = Lower(best_val, HoldLoss[cur])
        /\ best_lang' = [l \in Langs |-> Lower(best_lang[l], LangLoss[cur][l])]
        /\ best_snapshot' = IF HoldLoss[cur] < best_val THEN cur ELSE best_snapshot
    BY <1>17, RecordCommitRecords
  <2>2. HoldLoss[cur] <= best_val + RegressionBudget /\ HoldLoss[best_snapshot] = best_val
    BY DEF SoleInv, RatchetInv, SessionRatchet, BestSnapshotIsBest
  <2>3. HoldLoss[cur] \in Int /\ best_val \in Int /\ RegressionBudget \in Nat
    BY <1>1, LossTypes
  <2>4. SoleWriterOnly'
    BY <2>1 DEF SoleInv, SoleWriterOnly, BaselineIsPublished
  <2>5. SessionRatchet' /\ BestSnapshotIsBest'
    BY <2>1, <2>2, <2>3 DEF SessionRatchet, BestSnapshotIsBest, Lower
  <2>6. \A l \in Langs : best_lang'[l] <= LangLoss[cur][l]
    BY <1>1, <2>1, LossTypes, LowerInt
  <2>7. BestIsLowest'
    BY <2>1, <2>6 DEF BestIsLowest
  <2> QED
    BY <2>1, <2>4, <2>5, <2>7 DEF SoleInv, RatchetInv
<1>18. CASE RecordReject
  BY <1>4, <1>18 DEF RecordReject, registryVars
<1>19. CASE FinishRound
  <2>1. UNCHANGED raced
    BY <1>19 DEF FinishRound, BeginEvaluate, Evaluating, SoleInv, SoleWriterOnly
  <2> QED
    BY <1>4, <1>19, <2>1 DEF FinishRound, registryVars, statVars
<1>20. CASE FinishFisher
  <2>1. UNCHANGED raced
    BY <1>20 DEF FinishFisher, EndEvaluate, SoleInv, SoleWriterOnly
  <2> QED
    BY <1>4, <1>20, <2>1 DEF FinishFisher, registryVars, statVars
<1>21. CASE ToggleStop \/ UNCHANGED vars
  BY <1>3, <1>21 DEF ToggleStop, vars, registryVars, roundVars, statVars
<1> QED
  BY <1>6, <1>7, <1>8, <1>9, <1>10, <1>11, <1>12, <1>13, <1>14, <1>15, <1>16, <1>17,
     <1>18, <1>19, <1>20, <1>21
     DEF SoleWriterNext, CoordinatorStep, RoundStep

\* The sole writer's steps are steps of the whole system.
LEMMA SoleWriterIsNext == [SoleWriterNext]_vars => [Next]_vars
BY DEF Next

LEMMA SoleWriterInv == SoleWriterSpec => [](TypeInv /\ SoleInv)
BY TypeInit, TypeStep, SoleInit, SoleStep, SoleWriterIsNext, PTL DEF SoleWriterSpec

\* The ratchet (regression_budget in coordinator.h): however many rounds each
\* use up the tolerance of one, the published weights stay within the budget of
\* the best of the session, as long as nobody restores.
THEOREM RatchetHolds == SoleWriterSpec => []SessionRatchet
<1>1. SoleInv => SessionRatchet
  BY DEF SoleInv, RatchetInv
<1> QED
  BY <1>1, SoleWriterInv, PTL

\* base_eval_ always describes the published weights between two commits.
THEOREM BaselineCorrect == SoleWriterSpec => []BaselineIsPublished
<1>1. SoleInv => BaselineIsPublished
  BY DEF SoleInv, SoleWriterOnly
<1> QED
  BY <1>1, SoleWriterInv, PTL

\* best_snapshot_ is the snapshot best_val_ was measured on, and the best there was.
THEOREM BestSnapshotCorrect == SoleWriterSpec => []BestSnapshotIsBest
<1>1. SoleInv => BestSnapshotIsBest
  BY DEF SoleInv, RatchetInv
<1> QED
  BY <1>1, SoleWriterInv, PTL

-----------------------------------------------------------------------------
(* The sole writer implements the promise of the ratchet.                    *)

LEMMA LowerIdempotent ==
    ASSUME NEW a \in Int, NEW b \in Int
    PROVE  Lower(Lower(a, b), b) = Lower(a, b) /\ (a <= b => Lower(a, b) = a)
BY DEF Lower

LEMMA PromiseLower == \A a, b : Promise!Lower(a, b) = Lower(a, b)
BY DEF Promise!Lower, Lower

LEMMA PromiseInit == Init => Promise!AInit
<1> SUFFICES ASSUME Init PROVE Promise!AInit
  OBVIOUS
<1> USE CoordinatorAssumption DEF Init
<1>1. InitWeights \in Weights
  OBVIOUS
<1>2. HoldLoss[InitWeights] \in Int /\ LangLoss[InitWeights] \in [Langs -> Int]
  BY <1>1
<1>3. Lower(best_val, HoldLoss[cur]) = HoldLoss[InitWeights]
  BY <1>2 DEF Lower
<1>4. \A l \in Langs : Lower(best_lang[l], LangLoss[cur][l]) = LangLoss[InitWeights][l]
  BY <1>2 DEF Lower
<1>5. [l \in Langs |-> Lower(best_lang[l], LangLoss[cur][l])] = LangLoss[InitWeights]
  BY <1>2, <1>4
<1> QED
  BY <1>3, <1>5 DEF Promise!AInit

LEMMA PromiseStep ==
    TypeInv /\ SoleInv /\ [SoleWriterNext]_vars => [Promise!ANext]_(Promise!avars)
<1> SUFFICES ASSUME TypeInv, SoleInv, [SoleWriterNext]_vars
             PROVE  [Promise!ANext]_(Promise!avars)
  OBVIOUS
<1> DEFINE bestOf(w) == Lower(best_val, HoldLoss[w])
           langOf(w) == [l \in Langs |-> Lower(best_lang[l], LangLoss[w][l])]
<1>1. cur \in Weights /\ round.cand \in Weights
  BY DEF TypeInv, CoordTypeOK, Round
<1>2. CASE UNCHANGED <<cur, best_val, best_lang>>
  BY <1>2 DEF Promise!avars
<1>3. CASE CommitSwap
  <2>1. /\ phase = "commit" /\ cur' = round.cand
        /\ UNCHANGED <<best_val, best_lang>>
    BY <1>3 DEF CommitSwap, statVars
  <2>2. /\ WithinBudget(round.cand) /\ best_val <= HoldLoss[cur]
        /\ \A l \in Langs : best_lang[l] <= LangLoss[cur][l]
    BY <2>1 DEF SoleInv, RatchetInv, BestSnapshotIsBest, BestIsLowest
  <2>3. bestOf(cur) = best_val
    BY <1>1, <2>2, LossTypes, LowerIdempotent
  <2>4. \A l \in Langs : langOf(cur)[l] = best_lang[l]
    BY <1>1, <2>2, LossTypes, LowerIdempotent
  <2>5. \A l \in Langs : Lower(langOf(cur)[l], LangLoss[round.cand][l])
                            = Lower(best_lang[l], LangLoss[round.cand][l])
    BY <2>4
  <2>6. langOf(cur)' = [l \in Langs |-> Lower(langOf(cur)[l], LangLoss[round.cand][l])]
    BY <2>1, <2>5
  <2>7. bestOf(cur)' = Lower(bestOf(cur), HoldLoss[round.cand])
    BY <2>1, <2>3
  <2>8. Promise!Commit(round.cand)
    BY <2>1, <2>2, <2>3, <2>4, <2>6, <2>7, PromiseLower
       DEF Promise!Commit, WithinBudget
  <2> QED
    BY <1>1, <2>8 DEF Promise!ANext
<1>4. CASE RecordCommit
  <2>1. /\ UNCHANGED cur
        /\ best_val' = bestOf(cur) /\ best_lang' = langOf(cur)
    BY <1>4, RecordCommitRecords
  <2>2. bestOf(cur)' = bestOf(cur)
    BY <1>1, <2>1, LossTypes, LowerIdempotent
  <2>3. \A l \in Langs : Lower(langOf(cur)[l], LangLoss[cur][l]) = langOf(cur)[l]
    BY <1>1, LossTypes, LowerIdempotent
  <2>4. langOf(cur)' = langOf(cur)
    BY <2>1, <2>3
  <2> QED
    BY <2>1, <2>2, <2>4 DEF Promise!avars
<1>5. CASE \/ \E s \in Sources : TrainerStep(s)
           \/ \E refill \in Refills : Collect(refill)
           \/ DropForStop \/ ReadBase \/ DropMisfits \/ \E rel \in Rels : OpenGate(rel)
           \/ SkipAlpha \/ TryAlpha \/ AcceptCandidate \/ RefuseCandidate \/ CommitBump
           \/ RecordReject \/ FinishRound \/ FinishFisher \/ ToggleStop \/ UNCHANGED vars
  <2>1. UNCHANGED <<cur, best_val, best_lang>>
    BY <1>5
       DEF TrainerStep, StartTraining, Submit, Abandon, Collect, DropForStop, ReadBase, DropMisfits,
           OpenGate, SkipAlpha, TryAlpha, AcceptCandidate, RefuseCandidate, CommitBump,
           RecordReject, FinishRound, FinishFisher, ToggleStop, vars, registryVars,
           statVars
  <2> QED
    BY <1>2, <2>1
<1> QED
  BY <1>3, <1>4, <1>5 DEF SoleWriterNext, CoordinatorStep, RoundStep

\* The whole machinery of rounds, queues and searches, run by a single writer,
\* only ever publishes what the ratchet allows: within the budget of the best of
\* the session on the mean and on every language, and never collapsed.
THEOREM PromiseKept == SoleWriterSpec => ImplementsPromise
<1>1. SoleWriterSpec => Promise!AInit
  BY PromiseInit, PTL DEF SoleWriterSpec
<1>2. SoleWriterSpec => [][Promise!ANext]_(Promise!avars)
  BY SoleWriterInv, PromiseStep, PTL DEF SoleWriterSpec
<1> QED
  BY <1>1, <1>2, PTL DEF ImplementsPromise, Promise!ASpec

-----------------------------------------------------------------------------
(* Coordinator, trainers and dashboard use the registry as it is meant to be. *)

mappedReplica ==
    [s \in Sources |-> [weights |-> trainer[s].weights, version |-> trainer[s].version]]

mappedPublishing ==
    {w \in {"coordinator", "ui"} : \/ w = "coordinator" /\ phase = "swapped"
                                   \/ w = "ui" /\ ui.pc = "swapped"}

LEMMA RegistryMapInit == Init => Registry!RegInit
BY DEF Init, Registry!RegInit, Registry!Readers

LEMMA RegistryMapStep == TypeInv /\ [Next]_vars => [Registry!RegNext]_(Registry!rvars)
<1> SUFFICES ASSUME TypeInv, [Next]_vars
             PROVE  [Registry!RegNext]_(Registry!rvars)
  OBVIOUS
<1>1. round.cand \in Weights /\ ui \in UiState /\ ui.best \in Weights
  BY DEF TypeInv, CoordTypeOK, Round, UiState
<1>2. trainer \in [Sources -> Trainer]
  BY DEF TypeInv, CoordTypeOK
<1>3. ASSUME UNCHANGED <<cur, version, mappedPublishing, mappedReplica>>
      PROVE  [Registry!RegNext]_(Registry!rvars)
  BY <1>3 DEF Registry!rvars, mappedPublishing, mappedReplica
<1>4. ASSUME NEW s \in Sources, StartTraining(s)
      PROVE  [Registry!RegNext]_(Registry!rvars)
  <2>1. /\ UNCHANGED <<cur, version, phase, ui>>
        /\ trainer' = [trainer EXCEPT ![s] =
                         [weights |-> cur, version |-> version, busy |-> TRUE]]
    BY <1>4 DEF StartTraining, registryVars, roundVars
  <2>2. mappedReplica' = [mappedReplica EXCEPT ![s] = [weights |-> cur, version |-> version]]
    <3>1. \A t \in Sources : trainer'[t] = IF t = s
             THEN [weights |-> cur, version |-> version, busy |-> TRUE] ELSE trainer[t]
      BY <1>2, <2>1
    <3>2. mappedReplica' = [t \in Sources |-> IF t = s
             THEN [weights |-> cur, version |-> version]
             ELSE [weights |-> trainer[t].weights, version |-> trainer[t].version]]
      BY <3>1 DEF mappedReplica
    <3> QED
      BY <3>2 DEF mappedReplica
  <2>3. UNCHANGED mappedPublishing
    BY <2>1 DEF mappedPublishing
  <2>4. Registry!Sync(s)
    BY <2>1, <2>2, <2>3 DEF Registry!Sync, mappedReplica, mappedPublishing
  <2> QED
    BY <2>4 DEF Registry!RegNext
<1>5. ASSUME NEW s \in Sources, Submit(s) \/ Abandon(s)
      PROVE  [Registry!RegNext]_(Registry!rvars)
  <2>1. /\ UNCHANGED <<cur, version, phase, ui>>
        /\ trainer' = [trainer EXCEPT ![s].busy = FALSE]
    BY <1>5 DEF Submit, Abandon, registryVars, roundVars
  <2>2. \A t \in Sources : /\ trainer'[t].weights = trainer[t].weights
                           /\ trainer'[t].version = trainer[t].version
    BY <1>2, <2>1 DEF Trainer
  <2>3. UNCHANGED <<mappedReplica, mappedPublishing>>
    BY <2>1, <2>2 DEF mappedReplica, mappedPublishing
  <2> QED
    BY <1>3, <2>1, <2>3
<1>6. CASE CommitSwap
  <2>1. /\ cur' = round.cand /\ phase = "commit" /\ phase' = "swapped"
        /\ UNCHANGED <<version, trainer, ui>>
    BY <1>6 DEF CommitSwap
  <2>2. /\ "coordinator" \notin mappedPublishing
        /\ mappedPublishing' = mappedPublishing \cup {"coordinator"}
        /\ UNCHANGED mappedReplica
    BY <2>1 DEF mappedPublishing, mappedReplica
  <2>3. PICK p \in Weights : p = round.cand
    BY <1>1
  <2>4. Registry!Swap("coordinator", p)
    BY <2>1, <2>2, <2>3 DEF Registry!Swap, mappedPublishing, mappedReplica
  <2> QED
    BY <2>4 DEF Registry!RegNext
<1>7. CASE CommitBump
  <2>1. /\ version' = version + 1 /\ phase = "swapped" /\ phase' = "bumped"
        /\ UNCHANGED <<cur, trainer, ui>>
    BY <1>7 DEF CommitBump
  <2>2. /\ "coordinator" \in mappedPublishing
        /\ mappedPublishing' = mappedPublishing \ {"coordinator"}
        /\ UNCHANGED mappedReplica
    BY <2>1 DEF mappedPublishing, mappedReplica
  <2>3. Registry!Bump("coordinator")
    BY <2>1, <2>2 DEF Registry!Bump, mappedPublishing, mappedReplica
  <2> QED
    BY <2>3 DEF Registry!RegNext
<1>8. CASE RestoreSwap
  <2>1. /\ cur' = ui.best /\ ui.pc = "read" /\ ui' = [ui EXCEPT !.pc = "swapped"]
        /\ UNCHANGED <<version, trainer, phase>>
    BY <1>8 DEF RestoreSwap, roundVars
  <2>2. ui'.pc = "swapped"
    BY <1>1, <2>1 DEF UiState
  <2>3. /\ "ui" \notin mappedPublishing
        /\ mappedPublishing' = mappedPublishing \cup {"ui"}
        /\ UNCHANGED mappedReplica
    BY <2>1, <2>2 DEF mappedPublishing, mappedReplica
  <2>4. PICK p \in Weights : p = ui.best
    BY <1>1
  <2>5. Registry!Swap("ui", p)
    BY <2>1, <2>3, <2>4 DEF Registry!Swap, mappedPublishing, mappedReplica
  <2> QED
    BY <2>5 DEF Registry!RegNext
<1>9. CASE RestoreBump
  <2>1. /\ version' = version + 1 /\ ui.pc = "swapped" /\ ui' = [ui EXCEPT !.pc = "bumped"]
        /\ UNCHANGED <<cur, trainer, phase>>
    BY <1>9 DEF RestoreBump, roundVars
  <2>2. ui'.pc = "bumped"
    BY <1>1, <2>1 DEF UiState
  <2>3. /\ "ui" \in mappedPublishing
        /\ mappedPublishing' = mappedPublishing \ {"ui"}
        /\ UNCHANGED mappedReplica
    BY <2>1, <2>2 DEF mappedPublishing, mappedReplica
  <2>4. Registry!Bump("ui")
    BY <2>1, <2>3 DEF Registry!Bump, mappedPublishing, mappedReplica
  <2> QED
    BY <2>4 DEF Registry!RegNext
<1>10. CASE \/ \E refill \in Refills : Collect(refill)
            \/ DropForStop \/ ReadBase \/ DropMisfits \/ \E rel \in Rels : OpenGate(rel)
            \/ SkipAlpha \/ TryAlpha \/ AcceptCandidate \/ RefuseCandidate
            \/ RecordCommit \/ RecordReject \/ FinishRound \/ FinishFisher
  <2>1. UNCHANGED <<cur, version, trainer, ui>> /\ phase # "swapped" /\ phase' # "swapped"
    BY <1>10
       DEF Collect, DropForStop, ReadBase, DropMisfits, OpenGate, SkipAlpha, TryAlpha,
           AcceptCandidate, RefuseCandidate, RecordCommit, RecordReject, FinishRound,
           FinishFisher, registryVars
  <2> QED
    BY <1>3, <2>1 DEF mappedPublishing, mappedReplica
<1>11. CASE RestoreRead \/ RestoreEvaluate \/ RestoreEvaluated \/ RestoreRecord
  <2>1. UNCHANGED <<cur, version, trainer, phase>> /\ ui.pc # "swapped"
    BY <1>11 DEF RestoreRead, RestoreEvaluate, RestoreEvaluated, RestoreRecord,
                 registryVars, roundVars
  <2>2. ui'.pc # "swapped"
    <3>1. CASE RestoreRead \/ RestoreEvaluate \/ RestoreRecord
      <4>1. CASE RestoreRead
        BY <1>1, <4>1 DEF RestoreRead, UiState
      <4>2. CASE RestoreEvaluate
        BY <1>1, <4>2 DEF RestoreEvaluate, UiState
      <4>3. CASE RestoreRecord
        BY <4>3 DEF RestoreRecord
      <4> QED
        BY <3>1, <4>1, <4>2, <4>3
    <3>2. CASE RestoreEvaluated
      <4>1. PICK e : ui' = [ui EXCEPT !.pc = "record", !.eval = e]
        BY <3>2 DEF RestoreEvaluated
      <4> QED
        BY <1>1, <4>1 DEF UiState
    <3> QED
      BY <1>11, <3>1, <3>2
  <2> QED
    BY <1>3, <2>1, <2>2 DEF mappedPublishing, mappedReplica
<1>12. CASE ToggleStop \/ UNCHANGED vars
  BY <1>3, <1>12 DEF ToggleStop, vars, registryVars, roundVars, mappedPublishing, mappedReplica
<1> QED
  BY <1>4, <1>5, <1>6, <1>7, <1>8, <1>9, <1>10, <1>11, <1>12
     DEF Next, SoleWriterNext, TrainerStep, CoordinatorStep, RoundStep, RestoreStep

\* Every publish of either writer is a swap and then a bump, and every trainer
\* loads the weights together with their version: the system, with restores at
\* any point, uses the registry as WeightRegistry describes it.
THEOREM RegistryImplemented == Spec => ImplementsRegistry
<1>1. Spec => Registry!RegInit
  BY RegistryMapInit, PTL DEF Spec
<1>2. Spec => [][Registry!RegNext]_(Registry!rvars)
  BY TypeInit, TypeStep, RegistryMapStep, PTL DEF Spec
<1> QED
  BY <1>1, <1>2, PTL DEF ImplementsRegistry, Registry!RegSpec
-----------------------------------------------------------------------------
(* Whole stretches of a session: the rate limiter and the stop.              *)

\* A share of a quantity is no more than the quantity.
LEMMA ShareBounded ==
    ASSUME NEW n \in Nat, NEW d \in Nat \ {0}, NEW a \in 0 .. d
    PROVE  (n * a) \div d <= n
<1>1. n * (d - a) \in Nat
  BY ProductNat, d - a \in Nat
<1>2. n * a <= n * d
  BY <1>1
<1>3. n * a \in Nat /\ n * d \in Nat
  BY ProductNat
<1> DEFINE x == n * a
           q == x \div d
<1>4. q \in Nat /\ d * q <= x
  BY <1>3
<1>5. CASE q > n
  <2>1. q - n \in Nat /\ q - n >= 1
    BY <1>4, <1>5
  <2>2. d * (q - n) \in Nat /\ d * (q - n) >= d
    BY <2>1
  <2>3. d * q = d * n + d * (q - n)
    BY <1>4, <2>1
  <2> QED BY <1>2, <1>3, <1>4, <2>2, <2>3
<1> QED BY <1>4, <1>5

\* From OpenGate() to the commit the step fits what is in the bucket.
StepFits == phase \in {"search", "evaluate", "commit"} => round.step <= rate_bucket

\* A candidate that is past the last check of the stop is the first since it was
\* engaged.
FirstSinceStop ==
    /\ stopCommits \in 0 .. 1
    /\ ~estop => stopCommits = 0
    /\ phase \in {"evaluate", "commit"} => stopCommits = 0

HistoryInv ==
    /\ TypeInv /\ allowance \in Int
    /\ StepFits /\ RateLimited
    /\ FirstSinceStop

LEMMA HistoryInit == HInit => HistoryInv
<1> SUFFICES ASSUME HInit PROVE HistoryInv
  OBVIOUS
<1>1. Init /\ TypeInv
  BY TypeInit DEF HInit
<1>2. allowance = RateBurst /\ rate_bucket = RateBurst /\ stopCommits = 0 /\ phase = "idle"
  BY DEF HInit, Init
<1>3. RateBurst \in Nat
  BY CoordinatorAssumption
<1> QED BY <1>1, <1>2, <1>3 DEF HistoryInv, StepFits, RateLimited, FirstSinceStop

\* Every step of the history is a step of the coordinator.
LEMMA HistoryIsNext == [HNext]_hvars => [Next]_vars
<1>1. ASSUME NEW refill \in Refills, HCollect(refill) PROVE Next
  BY <1>1 DEF HCollect, Next, SoleWriterNext, CoordinatorStep
<1>2. ASSUME HCommit PROVE Next
  BY <1>2 DEF HCommit, Next, SoleWriterNext, CoordinatorStep, RoundStep
<1>3. ASSUME HToggle PROVE Next
  BY <1>3 DEF HToggle, Next, SoleWriterNext
<1>4. ASSUME HOther PROVE Next
  BY <1>4 DEF HOther, Next, SoleWriterNext, CoordinatorStep
<1>5. UNCHANGED hvars => UNCHANGED vars
  BY DEF hvars
<1> QED BY <1>1, <1>2, <1>3, <1>4, <1>5 DEF HNext

LEMMA CollectKeepsHistory ==
    ASSUME HistoryInv, NEW refill \in Refills, HCollect(refill)
    PROVE  StepFits' /\ RateLimited' /\ FirstSinceStop' /\ allowance' \in Int
<1>1. /\ rate_bucket' = Lower(RateBurst, rate_bucket + refill)
      /\ phase' = "collected" /\ estop' = estop
      /\ allowance' = allowance + refill /\ stopCommits' = stopCommits
  BY DEF HCollect, Collect
<1>2. refill \in Nat /\ RateBurst \in Nat /\ rate_bucket \in Nat /\ allowance \in Int
  BY CoordinatorAssumption DEF HistoryInv, TypeInv, CoordTypeOK
<1>3. Lower(RateBurst, rate_bucket + refill) <= rate_bucket + refill
  BY <1>2, LowerInt
<1>4. Lower(RateBurst, rate_bucket + refill) \in Int
  BY <1>2, LowerInt
<1>5. RateLimited' /\ allowance' \in Int
  BY <1>1, <1>2, <1>3, <1>4 DEF HistoryInv, RateLimited
<1>6. StepFits'
  BY <1>1 DEF StepFits
<1>7. FirstSinceStop'
  BY <1>1 DEF HistoryInv, FirstSinceStop
<1> QED BY <1>5, <1>6, <1>7

LEMMA CommitKeepsHistory ==
    ASSUME HistoryInv, HCommit
    PROVE  StepFits' /\ RateLimited' /\ FirstSinceStop' /\ allowance' \in Int
<1>1. /\ phase = "commit" /\ phase' = "swapped" /\ estop' = estop
      /\ rate_bucket' = IF Consumed <= rate_bucket THEN rate_bucket - Consumed ELSE 0
      /\ allowance' = allowance - Consumed
      /\ stopCommits' = IF estop THEN stopCommits + 1 ELSE stopCommits
  BY DEF HCommit, CommitSwap
<1>2. round.step \in Nat /\ round.alpha \in 1 .. Len(Alphas)
  BY <1>1 DEF HistoryInv, TypeInv, CoordTypeOK, AlphaInRange, Round
<1>3. Alphas[round.alpha] \in 0 .. AlphaUnit /\ AlphaUnit \in Nat \ {0}
  BY <1>2, CoordinatorAssumption
<1>4. Consumed <= round.step
  BY <1>2, <1>3, ShareBounded DEF Consumed
<1>5. Consumed \in Nat
  BY <1>1, ConsumedNat DEF HistoryInv
<1>6. rate_bucket \in Nat /\ allowance \in Int /\ round.step <= rate_bucket
  BY <1>1, CoordinatorAssumption DEF HistoryInv, TypeInv, CoordTypeOK, StepFits
<1>7. rate_bucket' = rate_bucket - Consumed
  BY <1>1, <1>2, <1>4, <1>5, <1>6
<1>8. RateLimited' /\ allowance' \in Int
  BY <1>1, <1>5, <1>6, <1>7 DEF HistoryInv, RateLimited
<1>9. StepFits'
  BY <1>1 DEF StepFits
<1>10. stopCommits = 0
  BY <1>1 DEF HistoryInv, FirstSinceStop
<1>11. FirstSinceStop'
  <2>1. CASE estop
    <3>1. stopCommits' = 1 /\ estop'
      BY <1>1, <1>10, <2>1
    <3> QED BY <1>1, <3>1 DEF FirstSinceStop
  <2>2. CASE ~estop
    <3>1. stopCommits' = 0
      BY <1>1, <1>10, <2>2
    <3> QED BY <3>1 DEF FirstSinceStop
  <2> QED BY <2>1, <2>2
<1> QED BY <1>8, <1>9, <1>11

LEMMA ToggleKeepsHistory ==
    ASSUME HistoryInv, HToggle
    PROVE  StepFits' /\ RateLimited' /\ FirstSinceStop' /\ allowance' \in Int
<1>1. phase' = phase /\ round' = round /\ rate_bucket' = rate_bucket
  BY DEF HToggle, ToggleStop, roundVars
<1>2. stopCommits' = 0 /\ allowance' = allowance
  BY DEF HToggle
<1>3. FirstSinceStop'
  BY <1>2 DEF FirstSinceStop
<1> QED BY <1>1, <1>2, <1>3 DEF HistoryInv, StepFits, RateLimited

\* The other steps move neither the bucket nor the stop, and only OpenGate() sets a
\* step, of what is in the bucket; a candidate is tried only while no stop is seen.
LEMMA OtherKeepsHistory ==
    ASSUME HistoryInv, HOther
    PROVE  StepFits' /\ RateLimited' /\ FirstSinceStop' /\ allowance' \in Int
<1>1. allowance' = allowance /\ stopCommits' = stopCommits
  BY DEF HOther
<1>2. CASE \/ RestoreRead \/ RestoreStep
           \/ \E s \in Sources : TrainerStep(s)
  <2>1. UNCHANGED <<phase, round, rate_bucket, estop>>
    BY <1>2 DEF RestoreRead, RestoreStep, RestoreSwap, RestoreBump, RestoreEvaluate,
                RestoreEvaluated, RestoreRecord, TrainerStep, StartTraining, Submit,
                Abandon, roundVars
  <2> QED BY <1>1, <2>1 DEF HistoryInv, StepFits, RateLimited, FirstSinceStop
<1>3. CASE RoundStep /\ phase # "commit"
  <2>1. rate_bucket' = rate_bucket /\ estop' = estop
    BY <1>3 DEF RoundStep, DropForStop, ReadBase, DropMisfits, OpenGate, SkipAlpha, TryAlpha,
                AcceptCandidate, RefuseCandidate, CommitSwap, CommitBump, RecordCommit,
                RecordReject, FinishRound, FinishFisher
  <2>2. rate_bucket \in Nat /\ round \in Round
    BY CoordinatorAssumption DEF HistoryInv, TypeInv, CoordTypeOK
  <2>3. StepFits'
    <3>1. CASE \E rel \in Rels : OpenGate(rel)
      <4>1. PICK rel \in Rels : OpenGate(rel)
        BY <3>1
      <4>2. round'.step = Lower(rel, rate_bucket)
        BY <2>2, <4>1 DEF OpenGate, Round
      <4>3. rel \in Int
        BY CoordinatorAssumption
      <4>4. Lower(rel, rate_bucket) <= rate_bucket
        BY <2>2, <4>3, LowerInt
      <4> QED BY <2>1, <4>2, <4>4 DEF StepFits
    <3>2. CASE SkipAlpha \/ TryAlpha \/ AcceptCandidate \/ RefuseCandidate
      <4>1. phase \in {"search", "evaluate"}
        BY <3>2 DEF SkipAlpha, TryAlpha, AcceptCandidate, RefuseCandidate
      <4>2. round'.step = round.step
        BY <2>2, <3>2 DEF SkipAlpha, TryAlpha, AcceptCandidate, RefuseCandidate, Round
      <4> QED BY <2>1, <4>1, <4>2 DEF HistoryInv, StepFits
    <3>3. CASE \/ DropForStop \/ DropMisfits \/ ReadBase \/ CommitBump \/ RecordCommit \/ RecordReject
               \/ FinishRound \/ FinishFisher
      <4>1. phase' \notin {"search", "evaluate", "commit"}
        BY <3>3 DEF DropForStop, DropMisfits, ReadBase, CommitBump, RecordCommit, RecordReject,
                    FinishRound, FinishFisher
      <4> QED BY <4>1 DEF StepFits
    <3>4. ~CommitSwap
      BY <1>3 DEF CommitSwap
    <3> QED BY <1>3, <3>1, <3>2, <3>3, <3>4 DEF RoundStep
  <2>4. FirstSinceStop'
    <3>1. CASE TryAlpha
      <4>1. ~estop
        BY <3>1 DEF TryAlpha, Stopped
      <4>2. stopCommits' = 0
        BY <1>1, <4>1 DEF HistoryInv, FirstSinceStop
      <4> QED BY <4>2 DEF FirstSinceStop
    <3>2. CASE AcceptCandidate
      <4>1. phase = "evaluate"
        BY <3>2 DEF AcceptCandidate
      <4>2. stopCommits' = 0
        BY <1>1, <4>1 DEF HistoryInv, FirstSinceStop
      <4> QED BY <4>2 DEF FirstSinceStop
    <3>3. CASE ~TryAlpha /\ ~AcceptCandidate
      <4>1. phase' \notin {"evaluate", "commit"}
        BY <1>3, <3>3 DEF RoundStep, DropForStop, ReadBase, DropMisfits, OpenGate, SkipAlpha,
             RefuseCandidate, CommitSwap, CommitBump, RecordCommit, RecordReject,
             FinishRound, FinishFisher
      <4> QED BY <1>1, <2>1, <4>1 DEF HistoryInv, FirstSinceStop
    <3> QED BY <3>1, <3>2, <3>3
  <2> QED BY <1>1, <2>1, <2>3, <2>4 DEF HistoryInv, RateLimited
<1> QED BY <1>2, <1>3 DEF HOther

LEMMA HistoryStep == HistoryInv /\ [HNext]_hvars => HistoryInv'
<1> SUFFICES ASSUME HistoryInv, [HNext]_hvars PROVE HistoryInv'
  OBVIOUS
<1>1. TypeInv'
  BY HistoryIsNext, TypeStep DEF HistoryInv
<1>2. StepFits' /\ RateLimited' /\ FirstSinceStop' /\ allowance' \in Int
  <2>1. CASE UNCHANGED hvars
    BY <2>1 DEF hvars, vars, roundVars, HistoryInv, StepFits, RateLimited, FirstSinceStop
  <2> QED BY <2>1, CollectKeepsHistory, CommitKeepsHistory, ToggleKeepsHistory,
             OtherKeepsHistory DEF HNext
<1> QED BY <1>1, <1>2 DEF HistoryInv

\* The committed steps of any stretch of a session add up to no more than the burst
\* plus what the clock refilled (coordinator.cpp, the token bucket of stage 6), for
\* every burst, refill, list of alphas and size of the merged updates.
THEOREM DriftIsLimited == HSpec => []RateLimited
<1>1. HistoryInv => RateLimited
  BY DEF HistoryInv
<1> QED BY <1>1, HistoryInit, HistoryStep, PTL DEF HSpec

\* Once the stop is engaged, at most the one candidate that was past the last check
\* of the flag is published (coordinator.cpp, round()).
THEOREM StopHolds == HSpec => []OneCommitPerStop
<1>1. HistoryInv => OneCommitPerStop
  BY DEF HistoryInv, FirstSinceStop, OneCommitPerStop
<1> QED BY <1>1, HistoryInit, HistoryStep, PTL DEF HSpec

\* The history variables only observe: what they are kept for is a behaviour of the
\* coordinator, trainers, stops and restores included.
THEOREM HistoryObserves == HSpec => Spec
<1>1. HInit => Init
  BY DEF HInit
<1> QED BY <1>1, HistoryIsNext, PTL DEF HSpec, Spec
=============================================================================
