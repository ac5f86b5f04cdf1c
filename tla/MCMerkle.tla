------------------------------ MODULE MCMerkle ------------------------------
(* Merkle with the constants of its run.  Five keys, so that the odd-node   *)
(* rule applies at the leaves, above them, and at both.  One is empty, one  *)
(* begins with another, one holds a separator, and one is the hash of the   *)
(* entry (a, ""); one value is the hash of (b, ""), one is a separator.  So *)
(* the stores {a: "", b: ""} and {sha(a|): sha(b|)} are both there, and so  *)
(* are the entries (a, "|") and ("a|", "").                                 *)
EXTENDS Merkle

CONSTANTS a, b
MCKeyOrder ==
    <<<<>>, LeafHash(<<Char(a)>>, <<>>), <<Char(a)>>, <<Char(a), Bar>>, <<Char(b)>>>>
MCKeys == {MCKeyOrder[i] : i \in 1..5}
MCValues == {<<>>, <<Bar>>, LeafHash(<<Char(b)>>, <<>>)}
=============================================================================
