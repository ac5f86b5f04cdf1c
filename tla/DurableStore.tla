---------------------------- MODULE DurableStore ----------------------------
(***************************************************************************)
(* What PersistentState promises its caller (kai-os/state/src/wal.rs,      *)
(* header): a store that is one with the history of its operations.  An    *)
(* operation enters the history at once or not at all; once confirmed it   *)
(* stays, whatever stops the process; the store that comes up again is the *)
(* one the history gives.                                                  *)
(*                                                                         *)
(* The promise ends with the first I/O error a call returns and with the   *)
(* first record that lands behind an unterminated one (harmed): what the   *)
(* code does then is in the runs torn_tail and failed_append.              *)
(***************************************************************************)
EXTENDS StateStore

CONSTANT Op           \* transactions and checkpoint markers

VARIABLES history,    \* the operations a start would find
          kept,       \* how many of them are confirmed
          up, served, \* a process runs, and the store it serves
          harmed

durable == <<history, kept, up, served, harmed>>

Init ==
    /\ history = <<>> /\ kept = 0
    /\ up = FALSE /\ served = EmptyStore
    /\ harmed = FALSE

Start ==
    /\ ~up /\ up'
    /\ served' = ApplyAll(EmptyStore, history)
    /\ UNCHANGED <<history, kept>>

Enter(op) ==
    /\ up
    /\ history' = Append(history, op)
    /\ UNCHANGED <<kept, up, served>>

\* The call returns Ok: the store has all operations, and keeps them.
Confirm ==
    /\ up
    /\ kept' = Len(history)
    /\ served' = ApplyAll(EmptyStore, history)
    /\ UNCHANGED <<history, up>>

\* A crash or a power loss may take what is not confirmed.
Stop ==
    /\ ~up' /\ served' = EmptyStore
    /\ \E n \in kept..Len(history) : history' = SubSeq(history, 1, n)
    /\ UNCHANGED kept

Step == Start \/ (\E op \in Op : Enter(op)) \/ Confirm \/ Stop

Next == harmed \/ harmed' \/ (Step /\ UNCHANGED harmed)

Spec == Init /\ [][Next]_durable
=============================================================================
