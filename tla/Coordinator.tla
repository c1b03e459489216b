------------------------------ MODULE Coordinator ------------------------------
(***************************************************************************)
(* The coordinator (src/coordinator.cpp): three trainers train on replicas *)
(* and queue proposals; one coordinator thread merges what is queued,      *)
(* searches for a step that passes the hold-out gates and publishes it;    *)
(* the dashboard thread engages or releases the emergency stop and may     *)
(* restore the best snapshot.                                              *)
(*                                                                         *)
(* One action is what one thread does between two points where another     *)
(* thread can see or change what it uses.  Weights are opaque values with  *)
(* given hold-out results; an EvalResult is represented by the weights it  *)
(* describes.  The merge pipeline (Fisher damping, TIES, PCGrad, credit    *)
(* weights) decides which weights a candidate has, and is a free choice    *)
(* here; the size of the step is kept because the rate limiter bounds it.  *)
(*                                                                         *)
(* Operators named Mut... are deliberately wrong versions of the operator  *)
(* that follows them; a property is only kept if one of them breaks it.    *)
(***************************************************************************)
EXTENDS Integers, Sequences

CONSTANTS
    Weights,            \* weight snapshots
    InitWeights,        \* what the session starts from
    Langs,              \* languages present in the hold-out set
    HoldLoss,           \* Weights -> mean hold-out loss
    LangLoss,           \* Weights -> language -> hold-out loss
    Collapsed,          \* weights whose mean entropy is below the floor
    LangCollapsed,      \* weights with a language below its entropy floor
    PerLanguageGate,    \* coord.per_language_gate
    AcceptTolerance,    \* coord.accept_tolerance
    RegressionBudget,   \* coord.regression_budget
    Alphas,             \* coord.alphas, in units of 1/AlphaUnit, largest first
    AlphaUnit,
    RateBurst,          \* coord.rate_burst
    Refills,            \* what the clock may add to the bucket between rounds
    Rels,               \* relative norms a merged update may have
    SaveEvery,          \* coord.save_every_rounds
    MaxDiskBackups,     \* coord.max_disk_backups
    FisherEvery,        \* coord.fisher_refresh_rounds
    Sources,            \* the trainers
    QueueCap,           \* 32 in submit()
    MaxRounds,          \* model bound: no round starts after this many
    MaxVersion          \* model bound: no restore starts at this version

ASSUME CoordinatorAssumption ==
    /\ InitWeights \in Weights \ (Collapsed \cup LangCollapsed)
    /\ HoldLoss \in [Weights -> Int]
    /\ LangLoss \in [Weights -> [Langs -> Int]]
    /\ PerLanguageGate \in BOOLEAN
    /\ AcceptTolerance \in Nat
    /\ RegressionBudget \in Nat
    /\ AlphaUnit \in Nat \ {0}
    /\ Alphas \in Seq(0 .. AlphaUnit)
    /\ RateBurst \in Nat
    /\ Refills \subseteq Nat
    /\ Rels \subseteq Nat
    /\ SaveEvery \in Nat \ {0}
    /\ FisherEvery \in Nat \ {0}
    /\ MaxDiskBackups \in Nat
    /\ QueueCap \in Nat \ {0}
    /\ MaxRounds \in Nat
    /\ MaxVersion \in Nat

VARIABLES
    \* WeightRegistry
    cur,                \* cur_
    version,            \* version_
    \* under q_m_
    queue,              \* queue_: proposals, oldest first
    \* trainers
    trainer,            \* per source: replica weights, base_version_, in a round?
    \* coordinator thread
    phase,              \* where round() is
    props,              \* what collect() took
    round,              \* the locals of round()
    rate_bucket,        \* rate_bucket_
    disk_backups,       \* disk_backups_: rounds saved, oldest first
    \* under st_m_
    base_eval,          \* base_eval_: the weights whose result it holds
    best_val,           \* best_val_
    best_lang,          \* best_lang_
    best_snapshot,      \* best_snapshot_
    rounds,             \* st_.rounds
    \* dashboard thread and shared flags
    ui,                 \* where restore_best() is, and its locals
    estop,              \* Telemetry::estop_
    raced               \* users of eval_model_ that overlapped another one

registryVars == <<cur, version>>
roundVars    == <<phase, props, round, rate_bucket, disk_backups>>
statVars     == <<base_eval, best_val, best_lang, best_snapshot, rounds>>
vars == <<registryVars, queue, trainer, roundVars, statVars, ui, estop, raced>>

Proposal == [source : Sources, base_version : Nat]

Trainer == [weights : Weights, version : Nat, busy : BOOLEAN]

Phases == {"idle", "collected", "based", "search", "evaluate", "commit",
           "swapped", "bumped", "accepted", "rejected", "fisher"}

Round == [base : Weights, version : Nat, before : Weights, step : Nat,
          alpha : Nat, cand : Weights, after : Weights]

\* The locals of round() while no round is running.
NoRound == [base |-> InitWeights, version |-> 0, before |-> InitWeights,
            step |-> 0, alpha |-> 0, cand |-> InitWeights, after |-> InitWeights]

UiSteps == {"none", "read", "swapped", "bumped", "evaluate", "record"}

UiState == [pc : UiSteps, best : Weights, eval : Weights]

CoordTypeOK ==
    /\ cur \in Weights
    /\ version \in Nat
    /\ queue \in Seq(Proposal) /\ Len(queue) <= QueueCap
    /\ trainer \in [Sources -> Trainer]
    /\ phase \in Phases
    /\ props \in Seq(Proposal)
    /\ round \in Round
    /\ rate_bucket \in 0 .. RateBurst
    /\ disk_backups \in Seq(Nat) /\ Len(disk_backups) <= MaxDiskBackups
    /\ base_eval \in Weights
    /\ best_val \in Int
    /\ best_lang \in [Langs -> Int]
    /\ best_snapshot \in Weights
    /\ rounds \in Nat
    /\ ui \in UiState
    /\ estop \in BOOLEAN
    /\ raced \in SUBSET {"coordinator", "ui"}

\* The constructor: publish(initial), evaluate it, take it as best and as base.
Init ==
    /\ cur = InitWeights
    /\ version = 1
    /\ queue = <<>>
    /\ trainer = [s \in Sources |->
                    [weights |-> InitWeights, version |-> 1, busy |-> FALSE]]
    /\ phase = "idle"
    /\ props = <<>>
    /\ round = NoRound
    /\ rate_bucket = RateBurst
    /\ disk_backups = <<>>
    /\ base_eval = InitWeights
    /\ best_val = HoldLoss[InitWeights]
    /\ best_lang = LangLoss[InitWeights]
    /\ best_snapshot = InitWeights
    /\ rounds = 0
    /\ ui = [pc |-> "none", best |-> InitWeights, eval |-> InitWeights]
    /\ estop = FALSE
    /\ raced = {}

Lower(a, b) == IF a <= b THEN a ELSE b

\* Mutant: the flag never seen.
MutStopped == FALSE

\* Telemetry::stopped().
Stopped == estop

-----------------------------------------------------------------------------
(* The shared evaluation model.  evaluate() and refresh_fisher() load        *)
(* weights into the one eval_model_ and run it with no lock: two users at    *)
(* once is a data race, and either may come back with any result.            *)

Evaluating(who) ==
    \/ who = "coordinator" /\ phase \in {"evaluate", "fisher"}
    \/ who = "ui" /\ ui.pc = "evaluate"

BeginEvaluate(who, other) ==
    raced' = IF Evaluating(other) THEN {who, other} ELSE raced

EndEvaluate(who) == raced' = raced \ {who}

\* What evaluate(w) may return to who.
ResultsOf(who, w) == IF who \in raced THEN Weights ELSE {w}

-----------------------------------------------------------------------------
(* Trainers (src/trainer.cpp).                                               *)

\* Mutant: sync() takes the new version and leaves the replica as it was.
MutStartTraining(s) ==
    /\ ~trainer[s].busy
    /\ ~Stopped
    /\ trainer' = [trainer EXCEPT ![s].version = version, ![s].busy = TRUE]
    /\ UNCHANGED <<registryVars, queue, roundVars, statVars, ui, estop, raced>>

\* loop() finds data and no stop; the round starts with sync().
StartTraining(s) ==
    /\ ~trainer[s].busy
    /\ ~Stopped
    /\ trainer' = [trainer EXCEPT ![s] =
                    [weights |-> cur, version |-> version, busy |-> TRUE]]
    /\ UNCHANGED <<registryVars, queue, roundVars, statVars, ui, estop, raced>>

\* submit(): the oldest proposal gives way when the queue is full.
Enqueue(q, p) ==
    IF Len(q) < QueueCap THEN Append(q, p) ELSE Append(Tail(q), p)

\* submit_delta(): a finished round, or one cut short by should_stop().
Submit(s) ==
    /\ trainer[s].busy
    /\ queue' = Enqueue(queue, [source |-> s, base_version |-> trainer[s].version])
    /\ trainer' = [trainer EXCEPT ![s].busy = FALSE]
    /\ UNCHANGED <<registryVars, roundVars, statVars, ui, estop, raced>>

\* The round had nothing to submit, or threw.
Abandon(s) ==
    /\ trainer[s].busy
    /\ trainer' = [trainer EXCEPT ![s].busy = FALSE]
    /\ UNCHANGED <<registryVars, queue, roundVars, statVars, ui, estop, raced>>

-----------------------------------------------------------------------------
(* The coordinator thread: loop() and round().                               *)

\* Mutant: the gather window has no deadline and waits for every source.
MutCollect(refill) ==
    /\ phase = "idle"
    /\ \A s \in Sources : \E i \in DOMAIN queue : queue[i].source = s
    /\ rounds < MaxRounds
    /\ rate_bucket' = Lower(RateBurst, rate_bucket + refill)
    /\ props' = queue
    /\ queue' = <<>>
    /\ phase' = "collected"
    /\ UNCHANGED <<registryVars, trainer, round, disk_backups, statVars, ui,
                   estop, raced>>

\* loop() woke with a proposal queued: refill the bucket, let the gather window
\* pass, collect() everything that is queued by then.
Collect(refill) ==
    /\ phase = "idle"
    /\ queue # <<>>
    /\ rounds < MaxRounds
    /\ rate_bucket' = Lower(RateBurst, rate_bucket + refill)
    /\ props' = queue
    /\ queue' = <<>>
    /\ phase' = "collected"
    /\ UNCHANGED <<registryVars, trainer, round, disk_backups, statVars, ui,
                   estop, raced>>

\* The stop is engaged: everything collected is dropped.
DropForStop ==
    /\ phase = "collected"
    /\ Stopped
    /\ props' = <<>>
    /\ phase' = "idle"
    /\ UNCHANGED <<registryVars, queue, trainer, round, rate_bucket, disk_backups,
                   statVars, ui, estop, raced>>

\* weights_.current(&version): the base every candidate is built on.  Merging
\* subtracts each proposal's base_version from this version.
ReadBase ==
    /\ phase = "collected"
    /\ ~Stopped
    /\ round' = [round EXCEPT !.base = cur, !.version = version]
    /\ phase' = "based"
    /\ UNCHANGED <<registryVars, queue, trainer, props, rate_bucket, disk_backups,
                   statVars, ui, estop, raced>>

\* Mutant: the limiter lets the merged update through at its full size.
MutOpenGate(rel) ==
    /\ phase = "based"
    /\ round' = [round EXCEPT !.before = base_eval,
                              !.step = rel,
                              !.alpha = 1]
    /\ props' = <<>>
    /\ phase' = "search"
    /\ UNCHANGED <<registryVars, queue, trainer, rate_bucket, disk_backups,
                   statVars, ui, estop, raced>>

\* No proposal has a delta of the model's size: each is logged and dropped, and
\* round() returns with nothing merged, the round not even counted.  A delta's
\* size is not in Proposal, so whether any fits is a free choice.
DropMisfits ==
    /\ phase = "based"
    /\ props' = <<>>
    /\ round' = NoRound
    /\ phase' = "idle"
    /\ UNCHANGED <<registryVars, queue, trainer, rate_bucket, disk_backups,
                   statVars, ui, estop, raced>>

\* The merge of the proposals that fit (there is one), its size after the trust
\* regions and the rate limiter, and the result the gates compare with, read
\* under st_m_.
OpenGate(rel) ==
    /\ phase = "based"
    /\ round' = [round EXCEPT !.before = base_eval,
                              !.step = Lower(rel, rate_bucket),
                              !.alpha = 1]
    /\ props' = <<>>
    /\ phase' = "search"
    /\ UNCHANGED <<registryVars, queue, trainer, rate_bucket, disk_backups,
                   statVars, ui, estop, raced>>

\* A merged update scaled to nothing leaves the base as its only candidate.
Candidates == IF round.step = 0 THEN {round.base} ELSE Weights

\* Mutant: the search starts over after an alpha the drift guard refuses.
MutSkipAlpha ==
    /\ phase = "search"
    /\ round.alpha <= Len(Alphas)
    /\ ~Stopped
    /\ round' = [round EXCEPT !.alpha = 1]
    /\ UNCHANGED <<registryVars, queue, trainer, phase, props, rate_bucket,
                   disk_backups, statVars, ui, estop, raced>>

\* The drift guard refuses this alpha.
SkipAlpha ==
    /\ phase = "search"
    /\ round.alpha <= Len(Alphas)
    /\ ~Stopped
    /\ round' = [round EXCEPT !.alpha = @ + 1]
    /\ UNCHANGED <<registryVars, queue, trainer, phase, props, rate_bucket,
                   disk_backups, statVars, ui, estop, raced>>

\* Build the candidate for this alpha and start evaluating it.
TryAlpha ==
    /\ phase = "search"
    /\ round.alpha <= Len(Alphas)
    /\ ~Stopped
    /\ \E w \in Candidates : round' = [round EXCEPT !.cand = w]
    /\ phase' = "evaluate"
    /\ BeginEvaluate("coordinator", "ui")
    /\ UNCHANGED <<registryVars, queue, trainer, props, rate_bucket, disk_backups,
                   statVars, ui, estop>>

\* The two-sided gates on the mean loss and on every language.
LossGate ==
    Lower(HoldLoss[round.before] + AcceptTolerance, best_val + RegressionBudget)

\* Mutant: the same for a language.
MutLangGate(l) == LangLoss[round.before][l] + AcceptTolerance

LangGate(l) ==
    Lower(LangLoss[round.before][l] + AcceptTolerance, best_lang[l] + RegressionBudget)

PassesGates(e) ==
    /\ PerLanguageGate => /\ \A l \in Langs : LangLoss[e][l] <= LangGate(l)
                          /\ e \notin LangCollapsed
    /\ HoldLoss[e] <= LossGate
    /\ e \notin Collapsed

\* evaluate() returned a result that passes: the search is over.
AcceptCandidate ==
    /\ phase = "evaluate"
    /\ \E e \in ResultsOf("coordinator", round.cand) :
          /\ PassesGates(e)
          /\ round' = [round EXCEPT !.after = e]
    /\ phase' = "commit"
    /\ EndEvaluate("coordinator")
    /\ UNCHANGED <<registryVars, queue, trainer, props, rate_bucket, disk_backups,
                   statVars, ui, estop>>

\* evaluate() returned a result that does not pass: the next alpha.
RefuseCandidate ==
    /\ phase = "evaluate"
    /\ \E e \in ResultsOf("coordinator", round.cand) : ~PassesGates(e)
    /\ round' = [round EXCEPT !.alpha = @ + 1]
    /\ phase' = "search"
    /\ EndEvaluate("coordinator")
    /\ UNCHANGED <<registryVars, queue, trainer, props, rate_bucket, disk_backups,
                   statVars, ui, estop>>

\* What a commit at this alpha takes from the bucket: rel * alpha * rate_scale.
Consumed == (round.step * Alphas[round.alpha]) \div AlphaUnit

\* First half of publish(committed).
CommitSwap ==
    /\ phase = "commit"
    /\ rate_bucket' = IF Consumed <= rate_bucket THEN rate_bucket - Consumed ELSE 0
    /\ cur' = round.cand
    /\ phase' = "swapped"
    /\ UNCHANGED <<version, queue, trainer, props, round, disk_backups, statVars,
                   ui, estop, raced>>

\* Second half of publish(committed).
CommitBump ==
    /\ phase = "swapped"
    /\ version' = version + 1
    /\ phase' = "bumped"
    /\ UNCHANGED <<cur, queue, trainer, props, round, rate_bucket, disk_backups,
                   statVars, ui, estop, raced>>

\* Mutant: the base result is left at what the round started from.
MutRecordCommit ==
    /\ phase = "bumped"
    /\ rounds' = rounds + 1
    /\ best_val' = Lower(best_val, HoldLoss[round.after])
    /\ best_snapshot' = IF HoldLoss[round.after] < best_val THEN round.cand
                                                            ELSE best_snapshot
    /\ best_lang' = [l \in Langs |-> Lower(best_lang[l], LangLoss[round.after][l])]
    /\ phase' = "accepted"
    /\ UNCHANGED <<registryVars, queue, trainer, props, round, rate_bucket,
                   disk_backups, base_eval, ui, estop, raced>>

\* Mutant: the snapshot for rollback is whatever was committed last.
MutRecordCommitKeepsLast ==
    /\ phase = "bumped"
    /\ base_eval' = round.after
    /\ rounds' = rounds + 1
    /\ best_val' = Lower(best_val, HoldLoss[round.after])
    /\ best_snapshot' = round.cand
    /\ best_lang' = [l \in Langs |-> Lower(best_lang[l], LangLoss[round.after][l])]
    /\ phase' = "accepted"
    /\ UNCHANGED <<registryVars, queue, trainer, props, round, rate_bucket,
                   disk_backups, ui, estop, raced>>

\* The statistics of an accepted round, under st_m_.
RecordCommit ==
    /\ phase = "bumped"
    /\ base_eval' = round.after
    /\ rounds' = rounds + 1
    /\ best_val' = Lower(best_val, HoldLoss[round.after])
    /\ best_snapshot' = IF HoldLoss[round.after] < best_val THEN round.cand
                                                            ELSE best_snapshot
    /\ best_lang' = [l \in Langs |-> Lower(best_lang[l], LangLoss[round.after][l])]
    /\ phase' = "accepted"
    /\ UNCHANGED <<registryVars, queue, trainer, props, round, rate_bucket,
                   disk_backups, ui, estop, raced>>

\* No alpha is left, or the stop was engaged during the search: the round is
\* counted and nothing else changes.
RecordReject ==
    /\ phase = "search"
    /\ round.alpha > Len(Alphas) \/ Stopped
    /\ rounds' = rounds + 1
    /\ phase' = "rejected"
    /\ UNCHANGED <<registryVars, queue, trainer, props, round, rate_bucket,
                   disk_backups, base_eval, best_val, best_lang, best_snapshot,
                   ui, estop, raced>>

\* save_backup(): the file that no longer fits is removed, oldest first.  A
\* checkpoint that cannot be written is not listed.
SaveBackup ==
    IF phase = "accepted" /\ rounds % SaveEvery = 0
    THEN \/ LET saved == Append(disk_backups, rounds)
            IN  disk_backups' = IF Len(saved) > MaxDiskBackups THEN Tail(saved)
                                                               ELSE saved
         \/ UNCHANGED disk_backups
    ELSE UNCHANGED disk_backups

\* The tail of round(), outside the lock: the backup, then the Fisher refresh,
\* which loads the published weights into eval_model_.
FinishRound ==
    /\ phase \in {"accepted", "rejected"}
    /\ SaveBackup
    /\ round' = NoRound
    /\ IF rounds % FisherEvery = 0
       THEN phase' = "fisher" /\ BeginEvaluate("coordinator", "ui")
       ELSE phase' = "idle" /\ UNCHANGED raced
    /\ UNCHANGED <<registryVars, queue, trainer, props, rate_bucket, statVars, ui,
                   estop>>

FinishFisher ==
    /\ phase = "fisher"
    /\ phase' = "idle"
    /\ EndEvaluate("coordinator")
    /\ UNCHANGED <<registryVars, queue, trainer, props, round, rate_bucket,
                   disk_backups, statVars, ui, estop>>

-----------------------------------------------------------------------------
(* The dashboard thread: restore_best() and the emergency stop.              *)

\* best = best_snapshot_, under st_m_.
RestoreRead ==
    /\ ui.pc = "none"
    /\ version < MaxVersion
    /\ ui' = [ui EXCEPT !.pc = "read", !.best = best_snapshot]
    /\ UNCHANGED <<registryVars, queue, trainer, roundVars, statVars, estop, raced>>

\* publish(best), in its two halves.
RestoreSwap ==
    /\ ui.pc = "read"
    /\ cur' = ui.best
    /\ ui' = [ui EXCEPT !.pc = "swapped"]
    /\ UNCHANGED <<version, queue, trainer, roundVars, statVars, estop, raced>>

\* Mutant: a restore brings the version of the restored snapshot back as well.
MutRestoreBump ==
    /\ ui.pc = "swapped"
    /\ version' = 1
    /\ ui' = [ui EXCEPT !.pc = "bumped"]
    /\ UNCHANGED <<cur, queue, trainer, roundVars, statVars, estop, raced>>

RestoreBump ==
    /\ ui.pc = "swapped"
    /\ version' = version + 1
    /\ ui' = [ui EXCEPT !.pc = "bumped"]
    /\ UNCHANGED <<cur, queue, trainer, roundVars, statVars, estop, raced>>

\* evaluate(best), on the same eval_model_ the coordinator uses.
RestoreEvaluate ==
    /\ ui.pc = "bumped"
    /\ ui' = [ui EXCEPT !.pc = "evaluate"]
    /\ BeginEvaluate("ui", "coordinator")
    /\ UNCHANGED <<registryVars, queue, trainer, roundVars, statVars, estop>>

RestoreEvaluated ==
    /\ ui.pc = "evaluate"
    /\ \E e \in ResultsOf("ui", ui.best) : ui' = [ui EXCEPT !.pc = "record", !.eval = e]
    /\ EndEvaluate("ui")
    /\ UNCHANGED <<registryVars, queue, trainer, roundVars, statVars, estop>>

\* base_eval_ = e, under st_m_.
RestoreRecord ==
    /\ ui.pc = "record"
    /\ base_eval' = ui.eval
    /\ ui' = [pc |-> "none", best |-> InitWeights, eval |-> InitWeights]
    /\ UNCHANGED <<registryVars, queue, trainer, roundVars, best_val, best_lang,
                   best_snapshot, rounds, estop, raced>>

\* The same thread handles the stop key, so never in the middle of a restore.
ToggleStop ==
    /\ ui.pc = "none"
    /\ estop' = ~estop
    /\ UNCHANGED <<registryVars, queue, trainer, roundVars, statVars, ui, raced>>

-----------------------------------------------------------------------------
TrainerStep(s) == StartTraining(s) \/ Submit(s) \/ Abandon(s)

RoundStep ==
    \/ DropForStop \/ ReadBase \/ DropMisfits
    \/ \E rel \in Rels : OpenGate(rel)
    \/ SkipAlpha \/ TryAlpha \/ AcceptCandidate \/ RefuseCandidate
    \/ CommitSwap \/ CommitBump \/ RecordCommit \/ RecordReject
    \/ FinishRound \/ FinishFisher

CoordinatorStep == (\E refill \in Refills : Collect(refill)) \/ RoundStep

RestoreStep ==
    \/ RestoreSwap \/ RestoreBump \/ RestoreEvaluate
    \/ RestoreEvaluated \/ RestoreRecord

\* A session in which nobody restores: the coordinator is the single writer.
SoleWriterNext ==
    \/ \E s \in Sources : TrainerStep(s)
    \/ CoordinatorStep
    \/ ToggleStop

Next == SoleWriterNext \/ RestoreRead \/ RestoreStep

SoleWriterSpec == Init /\ [][SoleWriterNext]_vars
Spec == Init /\ [][Next]_vars

\* The coordinator thread and a restore that began keep running; trainers and
\* the user owe nothing.
FairSpec ==
    /\ Spec
    /\ WF_vars(CoordinatorStep)
    /\ WF_vars(RestoreStep)

-----------------------------------------------------------------------------
(* Safety.                                                                   *)

\* The merge computes version - base_version in uint64_t (coordinator.cpp,
\* staleness): no proposal of a round is newer than the version the round read,
\* so the difference never wraps to a huge staleness.
NoStalenessUnderflow ==
    phase = "based" => \A i \in DOMAIN props : props[i].base_version <= round.version

\* "The model may never end up worse than the best state seen this session plus
\* this budget" (coordinator.h, regression_budget).
SessionRatchet == HoldLoss[cur] <= best_val + RegressionBudget

\* What the next round compares its candidates with is the result of the
\* weights that are really published.
BaselineIsPublished == phase \notin {"swapped", "bumped"} => base_eval = cur

\* The snapshot a rollback would publish is the one best_val_ was measured on,
\* and nothing published since was better.
BestSnapshotIsBest ==
    /\ HoldLoss[best_snapshot] = best_val
    /\ phase \notin {"swapped", "bumped"} => best_val <= HoldLoss[cur]

-----------------------------------------------------------------------------
(* Liveness.                                                                 *)

\* Every round that collected proposals comes to a decision and ends, however
\* the gates, the drift guard and the stop go.
RoundTerminates == (phase # "idle") ~> (phase = "idle")

\* A proposal alone in the queue is not held back until others arrive: the
\* gather window has a deadline.
QueueDrains == (queue # <<>>) ~> (phase = "collected" \/ rounds >= MaxRounds)

-----------------------------------------------------------------------------
(* Refinement.                                                               *)

\* publish() and current() as the registry describes them: the two halves of a
\* publish of either writer, and trainers that load what they read.
Registry == INSTANCE WeightRegistry WITH
    Writers    <- {"coordinator", "ui"},
    Trainers   <- Sources,
    Sessions   <- {},
    publishing <- {w \in {"coordinator", "ui"} :
                     \/ w = "coordinator" /\ phase = "swapped"
                     \/ w = "ui" /\ ui.pc = "swapped"},
    replica    <- [s \in Sources |-> [weights |-> trainer[s].weights,
                                      version |-> trainer[s].version]]

ImplementsRegistry == Registry!RegSpec

\* The promise of the ratchet.  Between the swap of a commit and its record the
\* best values of the session are those of the record to come.
Promise == INSTANCE RatchetedWeights WITH
    live     <- cur,
    bestLoss <- Lower(best_val, HoldLoss[cur]),
    bestLang <- [l \in Langs |-> Lower(best_lang[l], LangLoss[cur][l])]

ImplementsPromise == Promise!ASpec
=============================================================================
