----------------------------- MODULE NodeDaemon -----------------------------
(***************************************************************************)
(* The kai-os-node daemon: boot, tick loop and shutdown of main.rs, the    *)
(* Supervisor (supervisor.rs), its state (module Lifecycle), the health    *)
(* aggregation (health.rs) and the ShutdownCoordinator (shutdown.rs).      *)
(*                                                                         *)
(* The daemon is one thread; only the signal handler runs beside it.  The  *)
(* subsystems are what the trait Subsystem lets them be: start, stop and   *)
(* tick may return Err, a subsystem that is up may call itself Degraded,   *)
(* one that is not is Unhealthy (as StubSubsystem is).  A stop that fails  *)
(* leaves the subsystem up.                                                *)
(***************************************************************************)
EXTENDS Lifecycle, Naturals, Sequences, FiniteSets, FiniteSetsExt, Functions

CONSTANTS Configs,       \* values of enabled_subsystems: sequences of names
          MaxRestarts,   \* max_restarts
          MaxFaults      \* bound on calls to subsystems that return Err

\* NodeConfig::validate: at least one subsystem, max_restarts in 1..10.
\* Nothing there keeps a name from being listed twice.
ASSUME ConfigAssumption ==
    /\ \A c \in Configs : c \in Seq(STRING) /\ c # <<>>
    /\ MaxRestarts \in 1..10
    /\ MaxFaults \in Nat

VARIABLES
    names,       \* the names of the registered subsystems, in start order
    lc,          \* Lifecycle.current
    pc, at,      \* where run() is; the entry its loop is at
    running, restarts, health,   \* the fields of Entry
    up,          \* a subsystem itself is started
    stuck,       \* history: its last stop returned Err
    requested,   \* SHUTDOWN_REQUESTED
    order,       \* shutdown_order: what shutdown_all has left to stop
    stopped,     \* history: the entries shutdown_all has stopped, in order
    faults       \* counter for the bound

entries == <<running, restarts, health, up, stuck>>
vars == <<names, lc, pc, at, entries, requested, order, stopped, faults>>

Entry == DOMAIN names

----------------------------------------------------------------------------
(* Health.                                                                 *)

\* Mutant: the best status wins.
OverallBest(statuses) ==
    IF "Healthy" \in statuses THEN "Healthy"
    ELSE IF "Degraded" \in statuses THEN "Degraded" ELSE "Unhealthy"

\* HealthStatus::worst over all entries
Overall(statuses) ==
    IF "Unhealthy" \in statuses THEN "Unhealthy"
    ELSE IF "Degraded" \in statuses THEN "Degraded" ELSE "Healthy"

\* What health() may return.
HealthOf(isUp) == IF isUp THEN {"Healthy", "Degraded"} ELSE {"Unhealthy"}

\* Calls of a subsystem return Err n times in this step.
Fail(n) == faults + n <= MaxFaults /\ faults' = faults + n
----------------------------------------------------------------------------
(* main.rs up to the registration of the subsystems.                      *)

Init ==
    /\ names \in Configs
    /\ lc = Transition("Init", "Boot") /\ pc = "boot" /\ at = 1
    /\ running = [i \in Entry |-> FALSE]
    /\ restarts = [i \in Entry |-> 0]
    /\ health = [i \in Entry |-> "Healthy"]
    /\ up = [i \in Entry |-> FALSE]
    /\ stuck = [i \in Entry |-> FALSE]
    /\ requested = FALSE
    /\ order = <<>> /\ stopped = <<>>
    /\ faults = 0
----------------------------------------------------------------------------
(* start_all.                                                              *)

StartOk ==
    /\ pc = "boot" /\ at \in Entry
    /\ up' = [up EXCEPT ![at] = TRUE]
    /\ running' = [running EXCEPT ![at] = TRUE]
    /\ \E h \in HealthOf(TRUE) : health' = [health EXCEPT ![at] = h]
    /\ at' = at + 1
    /\ UNCHANGED <<names, lc, pc, restarts, stuck, requested, order, stopped, faults>>

\* Mutant: no rollback of the subsystems already started.
StartFailsNoRollback ==
    /\ pc = "boot" /\ at \in Entry
    /\ Fail(1)
    /\ health' = [health EXCEPT ![at] = "Unhealthy"]
    /\ lc' = Transition(Transition(lc, "Shutdown"), "Stopped")
    /\ pc' = "exit"
    /\ UNCHANGED <<names, at, running, up, stuck, restarts, requested, order, stopped>>

\* A failed start: stop_started_reverse, and the boot is over.
StartFails ==
    /\ pc = "boot" /\ at \in Entry
    /\ \E unstoppable \in SUBSET {i \in Entry : running[i]} :
          /\ Fail(1 + Cardinality(unstoppable))
          /\ up' = [i \in Entry |-> i \in unstoppable]
          /\ stuck' = [i \in Entry |-> i \in unstoppable]
    /\ running' = [i \in Entry |-> FALSE]
    /\ health' = [health EXCEPT ![at] = "Unhealthy"]
    /\ lc' = Transition(Transition(lc, "Shutdown"), "Stopped")
    /\ pc' = "exit"
    /\ UNCHANGED <<names, at, restarts, requested, order, stopped>>

BootDone ==
    /\ pc = "boot" /\ at \notin Entry
    /\ lc' = Transition(lc, "Running")
    /\ pc' = "loop"
    /\ UNCHANGED <<names, at, entries, requested, order, stopped, faults>>
----------------------------------------------------------------------------
(* The tick loop.                                                          *)

\* SIGTERM or SIGINT, once the handler is installed.
Signal ==
    /\ pc \in {"loop", "tick", "drain"}
    /\ ~requested
    /\ requested' = TRUE
    /\ UNCHANGED <<names, lc, pc, at, entries, order, stopped, faults>>

BeginTick ==
    /\ pc = "loop" /\ ~requested
    /\ at' = 1
    /\ pc' = "tick"
    /\ UNCHANGED <<names, lc, entries, requested, order, stopped, faults>>

\* tick_all at an entry: one that does not run is passed over.
TickSkip ==
    /\ pc = "tick" /\ at \in Entry /\ ~running[at]
    /\ at' = at + 1
    /\ UNCHANGED <<names, lc, pc, entries, requested, order, stopped, faults>>

TickOk ==
    /\ pc = "tick" /\ at \in Entry /\ running[at]
    /\ \E h \in HealthOf(up[at]) : health' = [health EXCEPT ![at] = h]
    /\ at' = at + 1
    /\ UNCHANGED <<names, lc, pc, running, restarts, up, stuck, requested,
                   order, stopped, faults>>

\* The tick failed and the entry is given new values.
Replace(isUp, isRunning, isStuck, count) ==
    /\ up' = [up EXCEPT ![at] = isUp]
    /\ running' = [running EXCEPT ![at] = isRunning]
    /\ stuck' = [stuck EXCEPT ![at] = isStuck]
    /\ restarts' = [restarts EXCEPT ![at] = count]
    /\ \E h \in HealthOf(isUp) : health' = [health EXCEPT ![at] = h]
    /\ at' = at + 1
    /\ UNCHANGED <<names, lc, pc, requested, order, stopped>>

\* Mutant: one restart too many.
TickRestartTooOften ==
    /\ pc = "tick" /\ at \in Entry /\ running[at]
    /\ restarts[at] <= MaxRestarts
    /\ \E startOk \in BOOLEAN :
          /\ Fail(IF startOk THEN 1 ELSE 2)
          /\ Replace(startOk, startOk, FALSE, restarts[at] + 1)

TickRestart ==
    /\ pc = "tick" /\ at \in Entry /\ running[at]
    /\ restarts[at] < MaxRestarts
    /\ \E stopOk, startOk \in BOOLEAN :
          /\ Fail(1 + (IF stopOk THEN 0 ELSE 1) + (IF startOk THEN 0 ELSE 1))
          /\ Replace(startOk \/ ~stopOk, startOk, ~stopOk /\ ~startOk,
                     restarts[at] + 1)

TickGiveUp ==
    /\ pc = "tick" /\ at \in Entry /\ running[at]
    /\ restarts[at] = MaxRestarts
    /\ \E stopOk \in BOOLEAN :
          /\ Fail(IF stopOk THEN 1 ELSE 2)
          /\ Replace(~stopOk, FALSE, ~stopOk, restarts[at])

\* What run() makes of the overall health tick_all returns.
AfterTick(status) ==
    IF status = "Healthy"
    THEN IF lc = "Degraded" THEN Transition(lc, "Running") ELSE lc
    ELSE IF lc = "Running" THEN Transition(lc, "Degraded") ELSE lc

EndTick ==
    /\ pc = "tick" /\ at \notin Entry
    /\ lc' = AfterTick(Overall({health[i] : i \in Entry}))
    /\ pc' = "loop"
    /\ UNCHANGED <<names, at, entries, requested, order, stopped, faults>>
----------------------------------------------------------------------------
(* shutdown_all.                                                           *)

Running == {i \in Entry : running[i]}

\* Mutant: first started, first stopped.
PlaceInStartOrder(i) == Cardinality({k \in Running : k <= i})

\* The place of a running entry, counted from the one started last.
Place(i) == Cardinality({k \in Running : k >= i})

\* shutdown_order: the names of the running entries, last started first.
ShutdownOrder ==
    [j \in 1..Cardinality(Running) |-> names[CHOOSE i \in Running : Place(i) = j]]

BeginShutdown ==
    /\ pc = "loop" /\ requested
    /\ lc' = Transition(lc, "Shutdown")
    /\ order' = ShutdownOrder
    /\ pc' = "drain"
    /\ UNCHANGED <<names, at, entries, requested, stopped, faults>>

\* stop_subsystem finds the first running entry of that name.
Victim(name) == Min({i \in Entry : names[i] = name /\ running[i]})

StopNext ==
    /\ pc = "drain" /\ order # <<>>
    /\ LET i == Victim(Head(order)) IN
          /\ \E ok \in BOOLEAN :
                /\ Fail(IF ok THEN 0 ELSE 1)
                /\ up' = [up EXCEPT ![i] = ~ok]
                /\ stuck' = [stuck EXCEPT ![i] = ~ok]
          /\ running' = [running EXCEPT ![i] = FALSE]
          /\ stopped' = Append(stopped, i)
    /\ order' = Tail(order)
    /\ UNCHANGED <<names, lc, pc, at, restarts, health, requested>>

EndShutdown ==
    /\ pc = "drain" /\ order = <<>>
    /\ lc' = Transition(lc, "Stopped")
    /\ pc' = "exit"
    /\ UNCHANGED <<names, at, entries, requested, order, stopped, faults>>
----------------------------------------------------------------------------
DaemonStep ==
    \/ StartOk \/ StartFails \/ BootDone
    \/ BeginTick \/ TickSkip \/ TickOk \/ TickRestart \/ TickGiveUp \/ EndTick
    \/ BeginShutdown \/ StopNext \/ EndShutdown

Next == DaemonStep \/ Signal

\* The daemon's thread goes on; nobody has to send a signal.
Spec == Init /\ [][Next]_vars /\ WF_vars(DaemonStep)
----------------------------------------------------------------------------
\* Type invariant of the daemon; max_restarts is never exceeded.
TypeOK ==
    /\ lc \in {"Boot", "Running", "Degraded", "Shutdown", "Stopped"}
    /\ pc \in {"boot", "loop", "tick", "drain", "exit"}
    /\ at \in 1..Len(names) + 1
    /\ running \in [Entry -> BOOLEAN] /\ up \in [Entry -> BOOLEAN]
    /\ stuck \in [Entry -> BOOLEAN]
    /\ restarts \in [Entry -> 0..MaxRestarts]
    /\ health \in [Entry -> {"Healthy", "Degraded", "Unhealthy"}]
    /\ requested \in BOOLEAN
    /\ faults \in 0..MaxFaults

\* However the daemon ends (a failed boot and its rollback, restarts that
\* failed half way, a drain), it ends in Stopped and leaves no subsystem up
\* that did not refuse its last stop.
NothingLeftUp ==
    pc = "exit" => lc = "Stopped" /\ \A i \in Entry : up[i] => stuck[i]

\* The state the node reports is that of its subsystems: between ticks it
\* is Running only while every subsystem is supervised, unless one given up
\* could not be stopped, and Degraded only while one is not healthy.
NodeStateIsHonest ==
    pc = "loop" =>
        /\ lc = "Running" => \A i \in Entry : running[i] \/ stuck[i]
        /\ lc = "Degraded" => \E i \in Entry : health[i] # "Healthy"

\* "Shutdown-Reihenfolge: umgekehrte Start-Reihenfolge" (supervisor.rs:208).
ReverseOrder ==
    \A a, b \in DOMAIN stopped : a < b => stopped[a] > stopped[b]

\* It holds when no subsystem is configured twice; otherwise the drain still
\* stops every running entry, each of them once.
DrainIsComplete ==
    /\ IsInjective(names) => ReverseOrder
    /\ IsInjective(stopped)
    /\ lc = "Stopped" => \A i \in Entry : ~running[i]

\* "Restart bis max_restarts, danach Unhealthy" (supervisor.rs:112-113): an
\* entry the tick loop no longer runs has had its max_restarts restarts.
RestartsAreUsed ==
    pc = "loop" => \A i \in Entry : running[i] \/ restarts[i] = MaxRestarts

\* "SIGTERM/SIGINT -> graceful Shutdown -> STOPPED" (main.rs:6), also when
\* the signal comes in the middle of a tick or of a restart.
ShutdownCompletes == requested ~> (pc = "exit" /\ lc = "Stopped")
=============================================================================
