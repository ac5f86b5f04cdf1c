------------------------------- MODULE MCSync -------------------------------
(***************************************************************************)
(* The sync daemon and, below it, the frames of its connections.  Module   *)
(* SyncDaemon uses connections that carry whole messages or end, which is  *)
(* what module Framing is shown to implement; no state is shared, so each  *)
(* behaviour lets one of the two levels run.                               *)
(*                                                                         *)
(* Two bits of length, frames of at most two bytes and reads of at most    *)
(* three: a read may cut a header, hold two frames, or a frame and the     *)
(* front of one that is too large.                                         *)
(***************************************************************************)
EXTENDS MCSyncDaemon, Framing

VARIABLE part     \* the level that runs

MCPayloads == {<<>>, <<1>>, <<0, 1>>, <<1, 1, 1>>}

SyncInit == part \in {"daemon", "frames"} /\ Init /\ FramingInit

SyncNext ==
    /\ UNCHANGED part
    /\ \/ part = "daemon" /\ Next /\ UNCHANGED framing
       \/ part = "frames" /\ FramingNext /\ UNCHANGED vars

SyncSpec ==
    /\ SyncInit /\ [][SyncNext]_<<part, vars, framing>>
    /\ part = "daemon" => Fairness
    /\ part = "frames" => FramingFairness

\* The type invariants of both levels: the processes and their files
\* (syncd), the stream and the receiver's buffer (tcp.rs).
SyncTypeOK == TypeOK /\ FramingTypeOK
=============================================================================
