------------------------------ MODULE Watchdog ------------------------------
(***************************************************************************)
(* The tick-based Watchdog (kai-os/health/src/watchdog.rs).  A service is  *)
(* registered with two tolerances, sends heartbeats, and is judged at each *)
(* tick by how many ticks ago its last heartbeat was.  Calls that return   *)
(* an error change nothing and have no action.                             *)
(***************************************************************************)
EXTENDS Integers

CONSTANTS Services,      \* service ids
          Tolerances,    \* [stale_after, dead_after] services register with
          Modulus,       \* 2^64: u64 sums are taken modulo it
          MaxTick,       \* bound on the clock
          MaxRestarts,   \* bound on restarts of a service
          Unknown        \* a service that is not registered

ASSUME WidthAssumption ==
    /\ Modulus \in Nat /\ MaxTick \in Nat /\ MaxRestarts \in Nat
    /\ Tolerances \subseteq [stale_after : 0..Modulus - 1, dead_after : 0..Modulus - 1]

VARIABLES now_tick, services

vars == <<now_tick, services>>

ServiceState == {"Running", "Stale", "DeclaredDead"}

ServiceEntry ==
    [state : ServiceState, last_heartbeat : Nat, restarts : Nat, tolerance : Tolerances]

ASSUME UnknownAssumption == Unknown \notin ServiceEntry

Registered == {s \in Services : services[s] # Unknown}

Init ==
    /\ now_tick = 0
    /\ services = [s \in Services |-> Unknown]

Register(s, tolerance) ==
    /\ s \notin Registered
    /\ services' = [services EXCEPT ![s] =
                       [state |-> "Running", last_heartbeat |-> now_tick,
                        restarts |-> 0, tolerance |-> tolerance]]
    /\ UNCHANGED now_tick

\* Mutant: a heartbeat revives a service that is DeclaredDead.
HeartbeatRevives(s) ==
    /\ s \in Registered
    /\ services' = [services EXCEPT ![s].state = "Running",
                                    ![s].last_heartbeat = now_tick]
    /\ UNCHANGED now_tick

Heartbeat(s) ==
    /\ s \in Registered
    /\ services[s].state # "DeclaredDead"
    /\ services' = [services EXCEPT ![s].state = "Running",
                                    ![s].last_heartbeat = now_tick]
    /\ UNCHANGED now_tick

\* entry.stale_after + entry.dead_after, which wraps in a release build.
DeadLimit(tolerance) == (tolerance.stale_after + tolerance.dead_after) % Modulus

\* Mutant: DeclaredDead one tick early.
JudgeEarly(state, missed, tolerance) ==
    LET first == IF state = "Running" /\ missed > tolerance.stale_after
                 THEN "Stale" ELSE state
    IN  IF first = "Stale" /\ missed >= DeadLimit(tolerance)
        THEN "DeclaredDead" ELSE first

\* The two conditions of tick(), the second on the state the first leaves.
Judge(state, missed, tolerance) ==
    LET first == IF state = "Running" /\ missed > tolerance.stale_after
                 THEN "Stale" ELSE state
    IN  IF first = "Stale" /\ missed > DeadLimit(tolerance)
        THEN "DeclaredDead" ELSE first

JudgeAt(now, entry) ==
    [entry EXCEPT !.state = Judge(@, now - entry.last_heartbeat, entry.tolerance)]

Tick ==
    /\ now_tick < MaxTick
    /\ now_tick' = now_tick + 1
    /\ services' = [s \in Services |->
                       IF services[s] = Unknown THEN Unknown
                       ELSE JudgeAt(now_tick + 1, services[s])]

Restart(s) ==
    /\ s \in Registered
    /\ services[s].state = "DeclaredDead"
    /\ services[s].restarts < MaxRestarts
    /\ services' = [services EXCEPT ![s].state = "Running",
                                    ![s].last_heartbeat = now_tick,
                                    ![s].restarts = @ + 1]
    /\ UNCHANGED now_tick

Next ==
    \/ \E s \in Services, t \in Tolerances : Register(s, t)
    \/ \E s \in Services : Heartbeat(s) \/ Restart(s)
    \/ Tick

Spec == Init /\ [][Next]_vars
----------------------------------------------------------------------------
\* Type invariant; no heartbeat lies in the future.
TypeOK ==
    /\ now_tick \in Nat
    /\ services \in [Services -> ServiceEntry \cup {Unknown}]
    /\ \A s \in Registered : services[s].last_heartbeat <= now_tick

Missed(s) == now_tick - services[s].last_heartbeat

\* The judgement that the tolerances mean, with no overflow.
Expected(missed, tolerance) ==
    IF missed <= tolerance.stale_after THEN "Running"
    ELSE IF missed <= tolerance.stale_after + tolerance.dead_after THEN "Stale"
    ELSE "DeclaredDead"

\* "Running -> Stale nach Toleranzueberschreitung, -> DeclaredDead nach Limit"
\* (kai-os/README.md:134): after any mixture of ticks, heartbeats, late
\* registrations and restarts, a state is neither reached early nor late, for
\* services whose two tolerances fit into a u64 together (for others the sum
\* wraps and they are declared dead too early).
StateIsExactBelowOverflow ==
    \A s \in Registered :
        LET t == services[s].tolerance
        IN  t.stale_after + t.dead_after < Modulus =>
                services[s].state = Expected(Missed(s), t)

StateSeverity(state) ==
    IF state = "Running" THEN 0 ELSE IF state = "Stale" THEN 1 ELSE 2

\* "vergangene Zeit kann Zustaende nur VERSCHLECHTERN, nie heilen", and a
\* DeclaredDead service comes back only through a restart that is counted.
HealsOnlyByAction(s) ==
    /\ now_tick' # now_tick =>
           StateSeverity(services'[s].state) >= StateSeverity(services[s].state)
    /\ services[s].state = "DeclaredDead" /\ services'[s].state # "DeclaredDead" =>
           services'[s].restarts = services[s].restarts + 1

NeverHealsItself == [][\A s \in Registered : HealsOnlyByAction(s)]_vars
=============================================================================
