-------------------------- MODULE CoordinatorHistory --------------------------
(***************************************************************************)
(* The coordinator with two history variables, for promises about whole    *)
(* stretches of a session: how far the weights may have moved, and what    *)
(* lands while the stop is engaged.  They only observe: every step is a    *)
(* step of the coordinator.                                                *)
(***************************************************************************)
EXTENDS Coordinator

CONSTANT MaxAllowance   \* model bound: the clock refills no further than this

VARIABLES
    allowance,      \* burst plus all refills, less every relative step committed
    stopCommits     \* commits since the stop was last engaged

hvars == <<vars, allowance, stopCommits>>

HInit == Init /\ allowance = RateBurst /\ stopCommits = 0

HCollect(refill) ==
    /\ allowance + refill <= MaxAllowance
    /\ Collect(refill)
    /\ allowance' = allowance + refill
    /\ UNCHANGED stopCommits

\* The published weights move by the relative norm of the scaled step.
HCommit ==
    /\ CommitSwap
    /\ allowance' = allowance - Consumed
    /\ stopCommits' = IF estop THEN stopCommits + 1 ELSE stopCommits

HToggle ==
    /\ ToggleStop
    /\ stopCommits' = 0
    /\ UNCHANGED allowance

HOther ==
    /\ \/ RestoreRead \/ RestoreStep
       \/ RoundStep /\ phase # "commit"
       \/ \E s \in Sources : TrainerStep(s)
    /\ UNCHANGED <<allowance, stopCommits>>

HNext ==
    \/ \E refill \in Refills : HCollect(refill)
    \/ HCommit
    \/ HToggle
    \/ HOther

HSpec == HInit /\ [][HNext]_hvars

-----------------------------------------------------------------------------
\* "Bounds how much the model may drift per minute" (coordinator.h, stage 6):
\* over any stretch of a session the committed steps add up to no more than the
\* burst plus what the clock refilled, and the clamp of the bucket at zero never
\* hides an overdraft.
RateLimited == allowance >= rate_bucket

\* After the stop is engaged at most the one candidate already past the last
\* check of the flag is published; no later round gets that far.
OneCommitPerStop == stopCommits <= 1
=============================================================================
