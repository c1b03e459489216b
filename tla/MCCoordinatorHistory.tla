------------------------- MODULE MCCoordinatorHistory -------------------------
\* A small instance of the coordinator with its history variables.
EXTENDS CoordinatorHistory, MCHoldout

CONSTANTS continual

OneSource == {continual}
=============================================================================
