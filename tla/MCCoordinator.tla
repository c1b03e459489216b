---------------------------- MODULE MCCoordinator ----------------------------
\* Small instances of the coordinator.
EXTENDS Coordinator, MCHoldout

CONSTANTS continual, feedback

TwoSources == {continual, feedback}
OneSource  == {continual}

=============================================================================
