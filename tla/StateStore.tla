----------------------------- MODULE StateStore -----------------------------
(***************************************************************************)
(* The key-value state every other part of the state layer is built on     *)
(* (kai-os/state/src/state.rs): a BTreeMap from keys to values and two     *)
(* transactions, Set and Remove.                                           *)
(*                                                                         *)
(* A store is a total function on Keys; Absent marks a key that has no     *)
(* entry.  A transaction names its key and what the key holds afterwards;  *)
(* a Remove leaves it Absent.                                              *)
(***************************************************************************)
EXTENDS Naturals, Sequences

CONSTANTS Keys,     \* the keys a transaction may name
          Values,   \* the values a Set may write
          Absent    \* what a key without an entry maps to

ASSUME AbsentAssumption == Absent \notin Values

Store == [Keys -> Values \cup {Absent}]

Tx == [type : {"Set"}, key : Keys, value : Values]
        \cup [type : {"Remove"}, key : Keys, value : {Absent}]

\* StateStore::new
EmptyStore == [k \in Keys |-> Absent]

\* StateStore::apply
Apply(store, tx) == [store EXCEPT ![tx.key] = tx.value]

(***************************************************************************)
(* The state root commits to the entries that are present.  The Merkle     *)
(* tree over them is the subject of module Merkle, where the root is shown *)
(* to determine the entries of stores that are plain: no "|" in a key, no  *)
(* entry that reads as an inner node.  Here the root is the set of entries, *)
(* which is the root of the code for such stores only.                     *)
(***************************************************************************)
Entries(store) == {<<k, store[k]>> : k \in {j \in Keys : store[j] # Absent}}

StateRoot(store) == Entries(store)

(***************************************************************************)
(* The effect of the loop "for op in &ops[from..] { store.apply(op) }": a  *)
(* key ends with what the last transaction on it wrote, or with what it    *)
(* held before.  Members of ops that are not transactions (the checkpoint  *)
(* markers of the log) write nothing.  StateStoreLemmas proves that this is *)
(* what the loop does with one op more.                                    *)
(***************************************************************************)
Writes(op, k) == op.type \in {"Set", "Remove"} /\ op.key = k

LastWrite(ops, from, k, j) ==
    /\ j \in DOMAIN ops
    /\ j > from
    /\ Writes(ops[j], k)
    /\ \A i \in DOMAIN ops : i > j => ~Writes(ops[i], k)

LastWriter(ops, from, k) == CHOOSE j \in DOMAIN ops : LastWrite(ops, from, k, j)

ApplyFrom(store, ops, from) ==
    [k \in Keys |->
        IF \E j \in DOMAIN ops : LastWrite(ops, from, k, j)
        THEN ops[LastWriter(ops, from, k)].value
        ELSE store[k]]

\* StateStore::apply_all
ApplyAll(store, txs) == ApplyFrom(store, txs, 0)
=============================================================================
