------------------------------- MODULE Framing -------------------------------
(***************************************************************************)
(* Length-prefix framing (kai-os/network/src/transport.rs) over a TCP      *)
(* stream (tcp.rs): one direction of a connection, a TcpPeer that sends    *)
(* and one that receives.  The stream keeps the bytes and their order, but *)
(* not where they were cut: a read returns what has arrived.               *)
(*                                                                         *)
(* Bytes are digits to the base Base and the header is HeaderLen of them   *)
(* (in the code: 256 and 4); parsing works on the bytes, whatever they     *)
(* are.  As its callers do, a sender whose send failed drops the           *)
(* connection; a receiver whose receive failed may call it again.          *)
(***************************************************************************)
EXTENDS Naturals, Sequences

CONSTANTS Payloads,       \* what is sent
          Base, HeaderLen,
          MaxFrame,       \* MAX_FRAME
          Chunk,          \* bytes a read returns at most (8192)
          MaxMessages     \* bound on calls of send

\* The number n without its last HeaderLen - i digits: n >> 8 * (4 - i).
Shifted(n) ==
    LET s[i \in 0..HeaderLen] == IF i = HeaderLen THEN n ELSE s[i + 1] \div Base
    IN  s

\* len() as u32 loses nothing: no payload has 4 GiB.
ASSUME FramingAssumption ==
    /\ Base \in Nat /\ Base > 1 /\ HeaderLen \in Nat \ {0}
    /\ \A p \in Payloads : p \in Seq(0..Base - 1) /\ Shifted(Len(p))[0] = 0
    /\ MaxFrame \in Nat /\ Chunk \in Nat \ {0} /\ MaxMessages \in Nat

VARIABLES wire,       \* bytes written and not yet read
          buf,        \* TcpPeer.buf of the receiver
          open,       \* the sender's end of the connection
          broken,     \* the connection was reset
          result,     \* what the last call of receive returned, or "reading"
          pending,    \* history: messages sent and not yet received
          received    \* history: messages receive returned

framing == <<wire, buf, open, broken, result, pending, received>>

FramingInit ==
    /\ wire = <<>> /\ buf = <<>>
    /\ open = TRUE /\ broken = FALSE
    /\ result = "reading"
    /\ pending = <<>> /\ received = <<>>
----------------------------------------------------------------------------
(* transport.rs                                                            *)

\* The length in big-endian order, then the payload.
Frame(payload) ==
    [i \in 1..HeaderLen |-> Shifted(Len(payload))[i] % Base] \o payload

\* The length the header at the front of b declares.
Declared(b) ==
    LET value[i \in 0..HeaderLen] == IF i = 0 THEN 0 ELSE Base * value[i - 1] + b[i]
    IN  value[HeaderLen]

\* parse_frame returns Oversized ...
TooLarge(b) == Len(b) >= HeaderLen /\ Declared(b) > MaxFrame

\* ... or a payload and the bytes it consumed; else Incomplete.
Complete(b) ==
    Len(b) >= HeaderLen /\ ~TooLarge(b) /\ Len(b) - HeaderLen >= Declared(b)

Consumed(b) == HeaderLen + Declared(b)
----------------------------------------------------------------------------
(* The sender.                                                             *)

Sent == Len(pending) + Len(received)

\* send
SendFrame(payload) ==
    /\ open /\ Sent < MaxMessages
    /\ wire' = wire \o Frame(payload)
    /\ pending' = Append(pending, payload)
    /\ UNCHANGED <<buf, open, broken, result, received>>

\* write_all returns Err after some bytes; the sender gives up.
SendFails(payload) ==
    /\ open
    /\ \E n \in 0..Len(Frame(payload)) - 1 : wire' = wire \o SubSeq(Frame(payload), 1, n)
    /\ open' = FALSE
    /\ UNCHANGED <<buf, broken, result, pending, received>>

CloseStream ==
    /\ open
    /\ open' = FALSE
    /\ UNCHANGED <<wire, buf, broken, result, pending, received>>

\* Where the frames of the messages end in the stream.
FrameEnd(messages) ==
    LET end[i \in 0..Len(messages)] ==
            IF i = 0 THEN 0 ELSE end[i - 1] + Len(Frame(messages[i]))
    IN  end

\* The messages that have arrived whole in b: all before the first whose
\* frame ends behind it.
Arrived(b) ==
    SubSeq(pending, 1,
           CHOOSE n \in 0..Len(pending) :
               /\ FrameEnd(pending)[n] <= Len(b)
               /\ n < Len(pending) => FrameEnd(pending)[n + 1] > Len(b))

\* The network or the other process resets the connection: what was not
\* read is lost.
ResetStream ==
    /\ ~broken
    /\ broken' = TRUE /\ open' = FALSE
    /\ wire' = <<>>
    /\ pending' = Arrived(buf)
    /\ UNCHANGED <<buf, result, received>>
----------------------------------------------------------------------------
(* receive: one action for each turn of its loop.                          *)

\* Mutant: what follows the frame in the buffer is dropped.
DrainAll(b) == <<>>

Drain(b) == SubSeq(b, Consumed(b) + 1, Len(b))

ReceiveFrame ==
    /\ Complete(buf)
    /\ received' = Append(received, SubSeq(buf, HeaderLen + 1, Consumed(buf)))
    /\ buf' = Drain(buf)
    /\ result' = "Ok"
    /\ pending' = Tail(pending)
    /\ UNCHANGED <<wire, open, broken>>

\* A read returns some of the bytes; a header that declares too much ends
\* the call, and the bytes stay in the buffer.
ReceiveChunk(n) ==
    /\ ~Complete(buf)
    /\ n \in 1..Chunk /\ n <= Len(wire)
    /\ buf' = buf \o SubSeq(wire, 1, n)
    /\ wire' = SubSeq(wire, n + 1, Len(wire))
    /\ result' = IF TooLarge(buf') THEN "Oversized" ELSE "reading"
    /\ UNCHANGED <<open, broken, pending, received>>

\* A read of 0 bytes, also between two frames.
ReceiveEof ==
    /\ ~Complete(buf)
    /\ wire = <<>> /\ ~open /\ ~broken
    /\ result' = "ClosedMidFrame"
    /\ UNCHANGED <<wire, buf, open, broken, pending, received>>

\* The read timeout passes before bytes arrive, or the read fails.
ReceiveIoError ==
    /\ ~Complete(buf)
    /\ result' = "Io"
    /\ UNCHANGED <<wire, buf, open, broken, pending, received>>

ReceiveBytes == \E n \in 1..Chunk : ReceiveChunk(n)

FramingNext ==
    \/ \E p \in Payloads : SendFrame(p) \/ SendFails(p)
    \/ CloseStream \/ ResetStream
    \/ ReceiveFrame \/ ReceiveBytes \/ ReceiveEof \/ ReceiveIoError

\* The receiver calls receive again and again, and bytes that were written
\* arrive in the end: no timeout comes before them for ever.
FramingFairness == WF_framing(ReceiveFrame) /\ WF_framing(ReceiveBytes)

FramingSpec == FramingInit /\ [][FramingNext]_framing /\ FramingFairness
----------------------------------------------------------------------------
\* Type invariant.  "MAX_FRAME begrenzt den Speicher" (tcp.rs, 6): until a
\* frame was found too large the buffer holds less than a frame and a read.
FramingTypeOK ==
    /\ wire \in Seq(0..Base - 1) /\ buf \in Seq(0..Base - 1)
    /\ TooLarge(buf) \/ Len(buf) < HeaderLen + MaxFrame + Chunk
    /\ open \in BOOLEAN /\ broken \in BOOLEAN
    /\ result \in {"reading", "Ok", "Oversized", "ClosedMidFrame", "Io"}
    /\ pending \in Seq(Payloads) /\ received \in Seq(Payloads)

Promise == INSTANCE Channel WITH
    Messages <- Payloads,
    Oversized <- {p \in Payloads : Len(p) > MaxFrame}

\* "receive() liest genau EINEN Frame; unvollständige Frames bleiben im
\* Puffer", "keine stillen Teilzustände" (tcp.rs, 8-11): however the stream
\* is cut, however many frames come in one read, whatever times out and is
\* tried again, the frames implement a channel of whole messages, and every
\* message that can arrive does.
ImplementsChannel == Promise!Spec
=============================================================================
