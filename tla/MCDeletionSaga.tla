-------------------------- MODULE MCDeletionSaga --------------------------
\* TLC instances of DeletionSaga.
EXTENDS DeletionSaga

\* The document starts with two artifacts; a third may be attached.
MCArtifacts == 1..3
MCEnclosed == 1..2

============================================================================
