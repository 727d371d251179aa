---------------------------- MODULE MCKillSwitch ----------------------------
EXTENDS KillSwitch

\* Two threads of the first process race each other and the binary.
CONSTANT a1
OneProcess == [c \in Callers |-> a1]
=============================================================================
