---------------------------- MODULE Environment ----------------------------
(***************************************************************************)
(* What the gate of C6 and the regulatory API stand in: a clock, and a     *)
(* Redis some of whose calls fail.  Either component keeps its state in    *)
(* that Redis or, when it is given no client, in the memory of a process.  *)
(***************************************************************************)
EXTENDS Naturals

CONSTANTS
    MaxTime,        \* bound on the clock
    MaxFaults       \* bound on failing Redis calls

ASSUME EnvironmentAssumption == MaxTime \in Nat /\ MaxFaults \in Nat

VARIABLES clock, faults

Backends == {"redis", "memory"}

EnvironmentOK == clock \in 0 .. MaxTime /\ faults \in 0 .. MaxFaults

EnvironmentInit == clock = 0 /\ faults = 0

TimePasses ==
    /\ clock < MaxTime
    /\ clock' = clock + 1
    /\ UNCHANGED faults

\* A call of Redis fails; the caller says what comes of it.
RedisFails ==
    /\ faults < MaxFaults
    /\ faults' = faults + 1
    /\ UNCHANGED clock
=============================================================================
