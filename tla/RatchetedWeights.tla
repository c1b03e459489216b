--------------------------- MODULE RatchetedWeights ---------------------------
(***************************************************************************)
(* What the coordinator promises about the weights it publishes, with no   *)
(* threads, rounds or queues (src/coordinator.h: the header comment and    *)
(* CoordinatorConfig).  The published weights change only to weights whose *)
(* hold-out loss is within the regression budget of the best loss of the   *)
(* session, for the mean and for every language, and that did not lose     *)
(* their predictive entropy.                                               *)
(***************************************************************************)
EXTENDS Integers

CONSTANTS
    Weights,            \* weight snapshots
    InitWeights,        \* weights of the checkpoint the session starts from
    Langs,              \* languages present in the hold-out set
    HoldLoss,           \* Weights -> mean hold-out loss
    LangLoss,           \* Weights -> language -> hold-out loss
    Collapsed,          \* weights whose mean entropy is below the floor
    LangCollapsed,      \* weights with a language below its entropy floor
    PerLanguageGate,    \* coord.per_language_gate
    RegressionBudget    \* coord.regression_budget

VARIABLES
    live,               \* the published weights
    bestLoss,           \* lowest mean loss published so far
    bestLang            \* per language, lowest loss published so far

avars == <<live, bestLoss, bestLang>>

Lower(a, b) == IF a <= b THEN a ELSE b

AInit ==
    /\ live = InitWeights
    /\ bestLoss = HoldLoss[InitWeights]
    /\ bestLang = LangLoss[InitWeights]

Commit(w) ==
    /\ HoldLoss[w] <= bestLoss + RegressionBudget
    /\ w \notin Collapsed
    /\ PerLanguageGate =>
          /\ \A l \in Langs : LangLoss[w][l] <= bestLang[l] + RegressionBudget
          /\ w \notin LangCollapsed
    /\ live' = w
    /\ bestLoss' = Lower(bestLoss, HoldLoss[w])
    /\ bestLang' = [l \in Langs |-> Lower(bestLang[l], LangLoss[w][l])]

ANext == \E w \in Weights : Commit(w)

ASpec == AInit /\ [][ANext]_avars
=============================================================================
