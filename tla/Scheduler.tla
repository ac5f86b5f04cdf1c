------------------------------ MODULE Scheduler ------------------------------
(***************************************************************************)
(* The round-robin scheduler (kai-os/runtime/src/scheduler.rs): sandboxes  *)
(* are appended to order, also between turns and more than once, and each  *)
(* call of next_turn gives the turn to the one under the cursor; one_pass  *)
(* is that call Len(order) times over.                                     *)
(***************************************************************************)
EXTENDS Integers, Sequences

CONSTANTS Ids,       \* sandbox ids
          MaxRegistered    \* bound on calls of register

VARIABLES order, cursor,
          waits            \* history: turns each place of order waits by now

schedule == <<order, cursor, waits>>

SchedulerInit == order = <<>> /\ cursor = 0 /\ waits = <<>>

Enlist(id) ==
    /\ Len(order) < MaxRegistered
    /\ order' = Append(order, id)
    /\ waits' = Append(waits, 0)
    /\ UNCHANGED cursor

\* Mutant: the cursor is moved when the turn is read and again afterwards.
AdvanceTwice(c, n) == (c + 2) % n

Advance(c, n) == (c + 1) % n

\* The place of order that has the turn; places start at 1.
Turn == (cursor % Len(order)) + 1

NextTurn ==
    /\ order # <<>>
    /\ cursor' = Advance(cursor, Len(order))
    /\ waits' = [i \in 1..Len(order) |-> IF i = Turn THEN 0 ELSE waits[i] + 1]
    /\ UNCHANGED order

SchedulerNext == NextTurn \/ \E id \in Ids : Enlist(id)

SchedulerSpec == SchedulerInit /\ [][SchedulerNext]_schedule
----------------------------------------------------------------------------
\* Type invariant; the cursor stays inside the vector.
ScheduleTypeOK ==
    /\ order \in Seq(Ids)
    /\ cursor \in Nat /\ (order = <<>> => cursor = 0)
    /\ order # <<>> => cursor < Len(order)
    /\ waits \in Seq(Nat) /\ Len(waits) = Len(order)

\* Round robin: however registrations fall between turns, a registered
\* sandbox never waits for as many turns as there are registrations.
NobodyStarves == \A i \in 1..Len(order) : waits[i] < Len(order)
=============================================================================
