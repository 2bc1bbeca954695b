-------------------------------- MODULE Link --------------------------------
(***************************************************************************)
(* The polling exchange of zlink byte by byte, on a link that loses,       *)
(* doubles or alters bytes: zlink_read_frame and zlink_poll_once on the    *)
(* MSX (src/src/drivers/zlink.c), parse_tx_stream on the host              *)
(* (src/openmsx/zlink.tcl).  Nothing is sent again: what is to be shown is *)
(* that both ends find the beginning of a frame again.                     *)
(*                                                                         *)
(* A byte is its value and the place it was sent in: the type and length   *)
(* of its frame, and the position there.  The ends go by the values; the   *)
(* places stand for the CRC, which tells that the bytes read are one frame *)
(* and undamaged.  A number, a CRC or a payload may have the value of a    *)
(* start or of a length.                                                   *)
(***************************************************************************)
EXTENDS Integers, Sequences

CONSTANTS
  ByteMod,     \* 256
  MaxPayload,  \* ZLINK_MAX_PAYLOAD, 64
  Sof,         \* the value of a first byte, 0xA8 .. 0xAF; as a length, too long
  Crc,         \* the CRC of a frame without payload, by its number
  Payloads,    \* the payloads of the host's DATA frames
  MaxData,     \* bound on the DATA frames
  MaxFaults    \* bound on the bytes damaged

Values == 0 .. ByteMod - 1
NoByte == ByteMod - 1    \* 0xFF, what the port reads when nothing is there

ASSUME LinkAssumption ==
  /\ MaxPayload \in Nat \ {0} /\ MaxPayload < Sof /\ Sof < NoByte /\ ByteMod \in Nat
  /\ Crc \in [Values -> Values]
  /\ Payloads \subseteq UNION {[1 .. n -> Values] : n \in 1 .. MaxPayload}
  /\ MaxData \in Nat /\ MaxFaults \in Nat

VARIABLES
  stream,    \* tx_stream: from the MSX, not yet taken by the host
  fifo,      \* rx_fifo: from the host, not yet read by the MSX
  poll_seq,  \* g_zlink_next_poll_seq
  polling,   \* the MSX is inside zlink_poll_once
  in_sync,   \* history: the last poll read a frame
  data,      \* the DATA frames the host has sent
  faults     \* the bytes damaged

vars == <<stream, fifo, poll_seq, polling, in_sync, data, faults>>

Init ==
  /\ stream = <<>> /\ fifo = <<>> /\ poll_seq = 0
  /\ polling = FALSE /\ in_sync = TRUE /\ data = 0 /\ faults = 0

----------------------------------------------------------------------------
(* Frames, and what becomes of them on the way *)

\* build_frame, zlink_send_frame: start, TTY, length, number, payload, CRC
Frame(type, seq, payload) ==
  LET len   == Len(payload)
      value == <<Sof, 0, len, seq>> \o payload \o <<Crc[seq]>>
  IN [at \in 1 .. len + 5 |-> [type |-> type, len |-> len, at |-> at, v |-> value[at]]]

Noise(v) == [type |-> "noise", len |-> 0, at |-> 0, v |-> v]

\* The frame with a byte lost, doubled, or altered to a start or a zero.
Damaged(frame) ==
  UNION {LET before == SubSeq(frame, 1, i - 1)
             after  == SubSeq(frame, i + 1, Len(frame))
         IN {before \o after, before \o <<frame[i], frame[i]>> \o after}
            \cup {before \o <<Noise(v)>> \o after : v \in {0, Sof} \ {frame[i].v}}
         : i \in DOMAIN frame}

Versions(frame) == {frame} \cup (IF faults < MaxFaults THEN Damaged(frame) ELSE {})

Counted(frame, received) == IF received = frame THEN faults ELSE faults + 1

\* The CRC is right.
IsFrame(bytes) ==
  \A i \in DOMAIN bytes :
    bytes[i].at = i /\ bytes[i].type = bytes[1].type /\ bytes[i].len = Len(bytes) - 5

----------------------------------------------------------------------------
(* parse_tx_stream, each time a byte has come *)

HostSkips ==
  /\ stream # <<>> /\ stream[1].v # Sof
  /\ stream' = Tail(stream)
  /\ UNCHANGED <<fifo, poll_seq, polling, in_sync, data, faults>>

HasFrame == Len(stream) >= 3 /\ stream[1].v = Sof /\ Len(stream) >= 5 + stream[3].v

\* handle_msx_frame answers a POLL with DATA, or with EMPTY and its number.
HostTakes ==
  /\ HasFrame
  /\ LET frame == SubSeq(stream, 1, 5 + stream[3].v) IN
     IF IsFrame(frame) /\ frame[1].type = "POLL"
     THEN \/ \E received \in Versions(Frame("EMPTY", frame[4].v, <<>>)) :
               /\ fifo' = fifo \o received
               /\ faults' = Counted(Frame("EMPTY", frame[4].v, <<>>), received)
               /\ UNCHANGED data
          \/ /\ data < MaxData /\ data' = data + 1
             /\ \E payload \in Payloads :
                \E received \in Versions(Frame("DATA", data, payload)) :
                  /\ fifo' = fifo \o received
                  /\ faults' = Counted(Frame("DATA", data, payload), received)
     ELSE UNCHANGED <<fifo, data, faults>>
  /\ stream' = SubSeq(stream, 6 + stream[3].v, Len(stream))
  /\ UNCHANGED <<poll_seq, polling, in_sync>>

HostIsDone == ~HasFrame /\ (stream # <<>> => stream[1].v = Sof)

----------------------------------------------------------------------------
(* zlink_poll_once: a POLL goes out, and one frame is read *)

SendPoll ==
  /\ ~polling /\ HostIsDone
  /\ \E received \in Versions(Frame("POLL", poll_seq, <<>>)) :
       /\ stream' = stream \o received
       /\ faults' = Counted(Frame("POLL", poll_seq, <<>>), received)
  /\ poll_seq' = (poll_seq + 1) % ByteMod
  /\ polling' = TRUE
  /\ UNCHANGED <<fifo, in_sync, data>>

\* The value of the i-th byte that is read.
Value(i) == IF i <= Len(fifo) THEN fifo[i].v ELSE NoByte

Dropped(n) == SubSeq(fifo, n + 1, Len(fifo))

\* Mutant: a header that does not begin with a start costs five bytes.
HeaderMutant == 5

Header == 4

\* The bytes that zlink_read_frame takes, whatever it makes of them.
Taken ==
  IF Value(1) # Sof THEN Header
  ELSE 5 + Value(3)

GoodFrame ==
  /\ Value(1) = Sof /\ Value(3) <= MaxPayload /\ Taken <= Len(fifo)
  /\ IsFrame(SubSeq(fifo, 1, Taken))

\* The frame is a good one; DATA is acknowledged, which the host ignores.
ReadGood ==
  /\ polling /\ HostIsDone /\ GoodFrame
  /\ fifo' = Dropped(Taken)
  /\ IF fifo[1].type = "DATA"
     THEN \E received \in Versions(Frame("ACK", fifo[4].v, <<>>)) :
            /\ stream' = stream \o received
            /\ faults' = Counted(Frame("ACK", fifo[4].v, <<>>), received)
     ELSE UNCHANGED <<stream, faults>>
  /\ in_sync' = TRUE /\ polling' = FALSE
  /\ UNCHANGED <<poll_seq, data>>

\* No start, a length that is too long, or a CRC that is wrong.
ReadBad ==
  /\ polling /\ HostIsDone /\ ~GoodFrame
  /\ fifo' = Dropped(Taken)
  /\ in_sync' = FALSE /\ polling' = FALSE
  /\ UNCHANGED <<stream, poll_seq, data, faults>>

Next == HostSkips \/ HostTakes \/ SendPoll \/ ReadGood \/ ReadBad

\* The tick polls again and again; the host works off what it was given.
Spec == Init /\ [][Next]_vars /\ WF_vars(Next)

----------------------------------------------------------------------------
\* However bytes are lost, doubled or altered, and whatever the bytes that
\* the ends then take for headers, they find each other again: from some
\* poll on every poll reads a frame (zlink.c:97-173, zlink.tcl:916-955).
Resynchronises == <>[]in_sync

=============================================================================
