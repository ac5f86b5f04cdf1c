------------------------------- MODULE Channel -------------------------------
(***************************************************************************)
(* What a TcpPeer promises its caller (kai-os/network/src/tcp.rs, header): *)
(* whole messages, in the order they were sent, each of them once, until   *)
(* the connection ends or a message comes that is too large.               *)
(***************************************************************************)
EXTENDS Naturals, Sequences

CONSTANTS Messages,
          Oversized     \* the messages no receiver takes

VARIABLES pending,      \* messages sent and not yet received
          received,     \* messages received
          open          \* the sender may send

Init == pending = <<>> /\ received = <<>> /\ open = TRUE

Send(m) ==
    /\ open
    /\ pending' = Append(pending, m)
    /\ UNCHANGED <<received, open>>

Receive ==
    /\ pending # <<>> /\ Head(pending) \notin Oversized
    /\ received' = Append(received, Head(pending))
    /\ pending' = Tail(pending)
    /\ UNCHANGED open

\* The sender ends, and what it sent still arrives ...
Close == open' = FALSE /\ UNCHANGED <<pending, received>>

\* ... or the connection breaks, and some last messages do not.
Break ==
    /\ open' = FALSE
    /\ \E n \in 0..Len(pending) : pending' = SubSeq(pending, 1, n)
    /\ UNCHANGED received

Next == (\E m \in Messages : Send(m)) \/ Receive \/ Close \/ Break

\* What can be received is received.
Spec == Init /\ [][Next]_<<pending, received, open>>
             /\ WF_<<pending, received, open>>(Receive)
=============================================================================
