------------------------------ MODULE KillSwitch ------------------------------
(***************************************************************************)
(* The Rust kill switch: its library (rust_kill_switch/src/lib.rs, shm.rs) *)
(* in the processes that load it, its binary with its signals (main.rs),   *)
(* the segment in shared memory they all write, and the Go routers that    *)
(* poll it (go_offer_router/kill_switch.go).  A write of the segment reads *)
(* it under a lock that is released before the buffer is committed, so     *)
(* writes interleave between the two.                                      *)
(***************************************************************************)
EXTENDS Integers, FiniteSets

CONSTANTS
    Callers,    \* threads that call the library through its Python bindings
    Agents,     \* the Python processes that have loaded it
    Home,       \* the process of each caller
    Main,       \* the main loop of the binary
    Binary,     \* and its process
    Routers,    \* Go offer routers
    MaxCalls,   \* bound on calls and signals
    MaxFaults   \* bound on failing system calls and on processes that die

ASSUME KillSwitchAssumption ==
    /\ Home \in [Callers -> Agents]
    /\ Main \notin Callers /\ Binary \notin Agents
    /\ IsFiniteSet(Callers)
    /\ MaxCalls \in Nat /\ MaxFaults \in Nat

Writers == Callers \cup {Main}
Processes == Agents \cup {Binary}
ProcessOf(w) == IF w = Main THEN Binary ELSE Home[w]
Signals == {"SIGUSR1", "SIGHUP", "SIGTERM"}

VARIABLES
    segment,    \* /dev/shm/lip_kill_switch: its size, kill_flag, activation_count
    flag,       \* KILL_FLAG of each process
    write,      \* where each writer stands, what it writes, the count it read
    up,         \* the binary runs
    signalled,    \* the flags its signal handlers have set
    loop,       \* the flag its main loop looks at next
    killed,     \* each router's copy of the flag
    held,       \* an activation was committed with no reset since or under way
    activations,\* the activations committed
    overlapped, \* two writes of the segment were under way at once
    calls, faults

binary == <<up, signalled, loop>>
ghosts == <<held, activations, overlapped>>
ksVars == <<segment, flag, write, binary, killed, ghosts, calls, faults>>

Rest == [step |-> "idle", kill |-> FALSE, count |-> 0]

KSTypeOK ==
    /\ segment \in [size : {"absent", "empty", "full"}, kill : BOOLEAN, count : Nat]
    /\ flag \in [Processes -> BOOLEAN]
    /\ write \in [Writers -> [step : {"idle", "store", "open", "read", "commit"},
                              kill : BOOLEAN, count : Nat]]
    /\ up \in BOOLEAN
    /\ signalled \subseteq Signals
    /\ loop \in Signals
    /\ killed \in [Routers -> BOOLEAN]
    /\ held \in BOOLEAN /\ overlapped \in BOOLEAN
    /\ activations \in Nat /\ calls \in Nat /\ faults \in Nat

\* Nothing has written the segment, so a router's first read fails, and closed.
KSInit ==
    /\ segment = [size |-> "absent", kill |-> FALSE, count |-> 0]
    /\ flag = [p \in Processes |-> FALSE]
    /\ write = [w \in Writers |-> Rest]
    /\ up = FALSE /\ signalled = {} /\ loop = "SIGTERM"
    /\ killed = [g \in Routers |-> TRUE]
    /\ held = FALSE /\ activations = 0 /\ overlapped = FALSE
    /\ calls = 0 /\ faults = 0

Busy(w) == write[w].step # "idle"
Resetting(w) == Busy(w) /\ ~ write[w].kill
Counted == calls < MaxCalls /\ calls' = calls + 1 /\ UNCHANGED faults
Fault == faults < MaxFaults /\ faults' = faults + 1 /\ UNCHANGED calls

\* w starts to write kill, at a step; a reset takes back what was held.
Begin(w, step, kill) ==
    /\ write' = [write EXCEPT ![w] = [step |-> step, kill |-> kill, count |-> 0]]
    /\ held' = (held /\ kill)
    /\ overlapped' = (overlapped \/ \E v \in Writers : Busy(v))
    /\ UNCHANGED activations

-----------------------------------------------------------------------------
(* The library: activate and reset. *)

Call(w, kill) ==
    /\ ~ Busy(w)
    /\ Begin(w, "store", kill)
    /\ Counted
    /\ UNCHANGED <<segment, flag, binary, killed>>

\* The process's own flag first.
Store(w) ==
    /\ write[w].step = "store"
    /\ flag' = [flag EXCEPT ![ProcessOf(w)] = write[w].kill]
    /\ write' = [write EXCEPT ![w].step = "open"]
    /\ UNCHANGED <<segment, binary, killed, ghosts, calls, faults>>

\* shm_open creates the segment, empty.
Open(w) ==
    /\ write[w].step = "open"
    /\ segment' = IF segment.size = "absent"
                    THEN [segment EXCEPT !.size = "empty"] ELSE segment
    /\ write' = [write EXCEPT ![w].step = "read"]
    /\ UNCHANGED <<flag, binary, killed, ghosts, calls, faults>>

\* The segment is sized, zeroed when it was empty, and read under its lock, which
\* is let go with the descriptor.
Read(w) ==
    /\ write[w].step = "read"
    /\ segment' = [segment EXCEPT !.size = "full"]
    /\ write' = [write EXCEPT ![w].step = "commit", ![w].count = segment.count]
    /\ UNCHANGED <<flag, binary, killed, ghosts, calls, faults>>

\* Variant: a reset writes a fresh buffer.
CountAfterOrNone(w) == IF write[w].kill THEN write[w].count + 1 ELSE 0

\* An activation counts from what was read; a reset keeps the count.
CountAfter(w) ==
    IF write[w].kill THEN write[w].count + 1 ELSE write[w].count

\* Variant: an activation that finds an earlier one on record only counts.
KillAfterOrOld(w) ==
    IF write[w].kill /\ write[w].count > 0 THEN segment.kill ELSE write[w].kill

\* The kill_flag of the buffer is the one asked for, whatever was read.
KillAfter(w) == write[w].kill

\* The whole buffer goes back, without a lock.
Commit(w) ==
    /\ write[w].step = "commit"
    /\ segment' = [size |-> "full", kill |-> KillAfter(w), count |-> CountAfter(w)]
    /\ write' = [write EXCEPT ![w] = Rest]
    /\ held' = (write[w].kill /\ ~ \E v \in Writers : Resetting(v))
    /\ activations' = IF write[w].kill THEN activations + 1 ELSE activations
    /\ UNCHANGED <<flag, binary, killed, overlapped, calls, faults>>

\* A system call fails: activate and reset log it and return.  Opening may have
\* created the segment, and reading may have sized it, before the failure.
Fail(w) ==
    /\ write[w].step \in {"open", "read", "commit"}
    /\ Fault
    /\ \/ UNCHANGED segment
       \/ /\ write[w].step = "open" /\ segment.size = "absent"
          /\ segment' = [segment EXCEPT !.size = "empty"]
       \/ /\ write[w].step = "read"
          /\ segment' = [segment EXCEPT !.size = "full"]
    /\ write' = [write EXCEPT ![w] = Rest]
    /\ UNCHANGED <<flag, binary, killed, ghosts>>

-----------------------------------------------------------------------------
(* The binary. *)

\* It writes INACTIVE before its loop, whatever the segment holds.
Start ==
    /\ ~ up
    /\ up' = TRUE /\ signalled' = {} /\ loop' = "SIGTERM"
    /\ Begin(Main, "open", FALSE)
    /\ Counted
    /\ UNCHANGED <<segment, flag, killed>>

\* A handler sets a flag; a second signal of the kind before the loop has seen the
\* first changes nothing.
Signal(s) ==
    /\ up
    /\ signalled' = signalled \cup {s}
    /\ Counted
    /\ UNCHANGED <<segment, flag, write, up, loop, killed, ghosts>>

After(s) == CASE s = "SIGTERM" -> "SIGUSR1"
              [] s = "SIGUSR1" -> "SIGHUP"
              [] s = "SIGHUP"  -> "SIGTERM"

\* The process is gone, with what its threads had under way.
Gone(p) ==
    /\ flag' = [flag EXCEPT ![p] = FALSE]
    /\ write' = [w \in Writers |-> IF ProcessOf(w) = p THEN Rest ELSE write[w]]
    /\ UNCHANGED <<segment, killed, ghosts>>

Exit ==
    /\ up /\ ~ Busy(Main)
    /\ loop = "SIGTERM" /\ "SIGTERM" \in signalled
    /\ up' = FALSE /\ signalled' = {}
    /\ Gone(Binary)
    /\ UNCHANGED <<loop, calls, faults>>

\* Variant: a call takes back every request.
TakenAll(s) == signalled \ {"SIGUSR1", "SIGHUP"}

Taken(s) == signalled \ {s}

\* The loop takes a request that is set and makes the call.
Serve(s) ==
    /\ up /\ ~ Busy(Main)
    /\ s \in {"SIGUSR1", "SIGHUP"} /\ loop = s /\ s \in signalled
    /\ signalled' = Taken(s) /\ loop' = After(s)
    /\ Begin(Main, "store", s = "SIGUSR1")
    /\ UNCHANGED <<segment, flag, up, killed, calls, faults>>

Pass ==
    /\ up /\ ~ Busy(Main)
    /\ loop \notin signalled
    /\ loop' = After(loop)
    /\ UNCHANGED <<segment, flag, write, up, signalled, killed, ghosts, calls, faults>>

Crash(p) ==
    /\ p = Binary => up
    /\ Fault
    /\ Gone(p)
    /\ IF p = Binary
         THEN up' = FALSE /\ signalled' = {} /\ UNCHANGED loop
         ELSE UNCHANGED binary

-----------------------------------------------------------------------------
(* The routers. *)

\* Variant: a router that has opened keeps what it has.
SeenOnce(g) == IF killed[g] THEN segment.size # "full" \/ segment.kill ELSE FALSE

\* What a read of byte 0 says: closed unless there is one and it is zero.
Seen(g) == segment.size # "full" \/ segment.kill

Poll(g) ==
    /\ killed' = [killed EXCEPT ![g] = Seen(g)]
    /\ UNCHANGED <<segment, flag, write, binary, ghosts, calls, faults>>

PollFails(g) ==
    /\ Fault
    /\ killed' = [killed EXCEPT ![g] = TRUE]
    /\ UNCHANGED <<segment, flag, write, binary, ghosts>>

-----------------------------------------------------------------------------

Writes(w) == Store(w) \/ Open(w) \/ Read(w) \/ Commit(w)
Loop == Exit \/ Pass \/ \E s \in Signals : Serve(s)

KSNext ==
    \/ \E c \in Callers, kill \in BOOLEAN : Call(c, kill)
    \/ \E w \in Writers : Writes(w) \/ Fail(w)
    \/ Start \/ \E s \in Signals : Signal(s)
    \/ Loop
    \/ \E p \in Processes : Crash(p)
    \/ \E g \in Routers : Poll(g) \/ PollFails(g)

KSSpec == KSInit /\ [][KSNext]_ksVars

\* Threads run, the loop wakes every 10 ms and the routers' monitors every 100 ms.
KSFairness ==
    /\ \A w \in Writers : WF_ksVars(Writes(w))
    /\ WF_ksVars(Loop)
    /\ \A g \in Routers : WF_ksVars(Poll(g))

KSFairSpec == KSSpec /\ KSFairness

-----------------------------------------------------------------------------
(* Properties. *)

\* An activation that was committed stands in the segment until a reset, or a start
\* of the binary, begins: no other write that read before it, no failure and no
\* process that dies takes it away.
HaltStands == held => segment.size = "full" /\ segment.kill

\* The count is right as long as writes do not overlap, and never too high.
CountsActivations ==
    /\ segment.count <= activations
    /\ ~ overlapped => segment.count = activations

\* A router that has seen a halt does not open while it stands.
HaltIsKept ==
    [][\A g \in Routers : held /\ held' /\ killed[g] => killed'[g]]_ksVars

\* Every router obeys a halt, unless it is taken back.
HaltReachesRouters == \A g \in Routers : held ~> killed[g] \/ ~ held

\* A SIGUSR1 sets the flag even when a SIGHUP comes with it, unless the binary stops.
SignalIsServed == "SIGUSR1" \in signalled ~> flag[Binary] \/ ~ up

(* What the documentation says and the code does not keep. *)

\* rust_kill_switch/src/shm.rs:27: "The kill flag persists across Rust binary
\* restarts."
HaltSurvivesStart == [][~ up /\ up' /\ held => held']_ksVars

\* shm.rs:14: "activation_count (u64 little-endian, monotonic)".
CountIsMonotonic == [][segment'.count >= segment.count]_ksVars
=============================================================================
