------------------------------- MODULE Zlink -------------------------------
(***************************************************************************)
(* The link between the MSX (src/src/drivers/zlink.c) and its openMSX host *)
(* (src/openmsx/zlink.tcl), frame by frame.  Every byte the MSX writes is  *)
(* handled by the host before the next instruction, so the host's answer   *)
(* to a frame is in the fifo when the OUT of its last byte returns; CRCs   *)
(* and lengths are always good on this link and are left out.              *)
(*                                                                         *)
(* Ids number the DATA frames of the host in the order they are queued;    *)
(* the program does not have them, it has sequence numbers of eight bits.  *)
(***************************************************************************)
EXTENDS Integers, Sequences

CONSTANTS
  Ttys,         \* TTY numbers
  KernelTty,    \* ZBUS_KERNEL_TTY_ID
  SeqMod,       \* 256: a sequence number is a byte
  FrameBudget,  \* frame_budget of zlink_poll_once
  TxChunk,      \* ZBUS_TX_CHUNK
  MaxReplies,   \* the most frames a kernel control reply takes
  MaxFrames,    \* bound on the DATA frames the host queues
  MaxSent       \* bound on the DATA frames the tasks send

ASSUME ZlinkAssumption ==
  /\ KernelTty \in Ttys /\ SeqMod \in Nat \ {0} /\ FrameBudget \in Nat \ {0}
  /\ TxChunk \in Nat /\ MaxReplies \in Nat \ {0} /\ MaxFrames \in Nat /\ MaxSent \in Nat

VARIABLES
  pending,        \* pending_data of the host
  next_data_seq,  \* the host's one counter for all TTYs
  fifo,           \* rx_fifo: what the MSX will read
  last_seq,       \* g_zlink_last_seq; NoSeq where last_seq_valid is 0
  budget,         \* frame_budget while zlink_poll_once runs, else 0
  queued,         \* history: the number of frames queued
  log,            \* history: the DATA frames read, and whether as duplicates
  sent            \* history: the number of frames the tasks sent

vars == <<pending, next_data_seq, fifo, last_seq, budget, queued, log, sent>>

NoSeq   == SeqMod
NoFrame == [tty |-> KernelTty, seq |-> 0, id |-> 0]
Empty   == [type |-> "EMPTY", data |-> NoFrame]
Ack     == [type |-> "ACK", data |-> NoFrame]
Data(f) == [type |-> "DATA", data |-> f]
Acks(n) == [i \in 1 .. n |-> Ack]

\* zlink_init, reset_state
Init ==
  /\ pending = <<>> /\ next_data_seq = 0 /\ fifo = <<>>
  /\ last_seq = [y \in Ttys |-> NoSeq]
  /\ budget = 0 /\ queued = 0 /\ log = <<>> /\ sent = 0

----------------------------------------------------------------------------
(* The host *)

NextSeq(n) == (n + 1) % SeqMod

\* queue_data, with seq auto
QueueData(y) ==
  /\ queued < MaxFrames
  /\ pending' = Append(pending, [tty |-> y, seq |-> next_data_seq, id |-> queued + 1])
  /\ next_data_seq' = NextSeq(next_data_seq)
  /\ queued' = queued + 1
  /\ UNCHANGED <<fifo, last_seq, budget, log, sent>>

\* Mutant: nothing to send, nothing sent.
PollReplyMutant(waiting) == IF waiting = <<>> THEN <<>> ELSE <<Data(Head(waiting))>>

\* Mutant: off by one, the last frame waits for another.
PollReplyMutant2(waiting) == IF Len(waiting) <= 1 THEN <<Empty>> ELSE <<Data(Head(waiting))>>

\* What handle_msx_frame answers to a POLL.
PollReply(waiting) == IF waiting = <<>> THEN <<Empty>> ELSE <<Data(Head(waiting))>>

\* Mutant: the frame sent stays queued.
AfterPollMutant(waiting) == waiting

AfterPoll(waiting) == IF waiting = <<>> THEN <<>> ELSE Tail(waiting)

----------------------------------------------------------------------------
(* The MSX, in its tick *)

\* zbus_tick sends n frames, each of which the host acknowledges, and
\* zlink_poll_once its POLL.
SendAndPoll(n) ==
  /\ budget = 0 /\ sent + n <= MaxSent
  /\ fifo'    = fifo \o Acks(n) \o PollReply(pending)
  /\ pending' = AfterPoll(pending)
  /\ budget'  = FrameBudget
  /\ sent'    = sent + n
  /\ UNCHANGED <<next_data_seq, last_seq, queued, log>>

NextIs(type) == budget > 0 /\ fifo # <<>> /\ Head(fifo).type = type

ReadAck ==
  /\ NextIs("ACK")
  /\ fifo'   = Tail(fifo)
  /\ budget' = budget - 1
  /\ UNCHANGED <<pending, next_data_seq, last_seq, queued, log, sent>>

ReadEmpty ==
  /\ NextIs("EMPTY")
  /\ fifo'   = Tail(fifo)
  /\ budget' = 0
  /\ UNCHANGED <<pending, next_data_seq, last_seq, queued, log, sent>>

\* Mutant: one last number for all TTYs.
DuplicateMutant(f) == \E y \in Ttys : last_seq[y] = f.seq

Duplicate(f) == last_seq[f.tty] = f.seq

\* Acknowledged (the host ignores that) and dropped.
ReadDuplicate ==
  /\ NextIs("DATA")
  /\ LET f == Head(fifo).data IN
       /\ Duplicate(f)
       /\ log' = Append(log, [frame |-> f, dup |-> TRUE])
  /\ fifo'   = Tail(fifo)
  /\ budget' = 0
  /\ UNCHANGED <<pending, next_data_seq, last_seq, queued, sent>>

\* Delivered; a frame for the kernel is a command, and its reply DATA.
ReadData ==
  /\ NextIs("DATA")
  /\ LET f == Head(fifo).data IN
       /\ ~Duplicate(f)
       /\ last_seq' = [last_seq EXCEPT ![f.tty] = f.seq]
       /\ log' = Append(log, [frame |-> f, dup |-> FALSE])
       /\ IF f.tty = KernelTty
          THEN \E n \in 1 .. MaxReplies : fifo' = Tail(fifo) \o Acks(n)
          ELSE fifo' = Tail(fifo)
  /\ budget' = 0
  /\ UNCHANGED <<pending, next_data_seq, queued, sent>>

Poll == (\E n \in 0 .. TxChunk : SendAndPoll(n)) \/ ReadAck \/ ReadEmpty \/ ReadDuplicate \/ ReadData

Next == Poll \/ \E y \in Ttys : QueueData(y)

Spec == Init /\ [][Next]_vars

\* The timer interrupt keeps coming.
FairSpec == Spec /\ WF_vars(Poll)

----------------------------------------------------------------------------
SeqNos  == 0 .. SeqMod - 1
Frames  == [tty : Ttys, seq : SeqNos, id : 0 .. MaxFrames]

TypeOK ==
  /\ pending \in Seq(Frames) /\ next_data_seq \in SeqNos
  /\ fifo \in Seq([type : {"EMPTY", "ACK", "DATA"}, data : Frames])
  /\ last_seq \in [Ttys -> SeqNos \cup {NoSeq}]
  /\ budget \in 0 .. FrameBudget
  /\ queued \in 0 .. MaxFrames /\ sent \in 0 .. MaxSent
  /\ log \in Seq([frame : Frames, dup : BOOLEAN])

\* While zlink_poll_once reads, there is a whole frame to read: the four
\* bytes of a header are never the 0xFF of an empty fifo (zlink.c:109-116).
ReadsOnlyFrames == budget > 0 => fifo # <<>>

\* Where the DATA frames are that the MSX has still to read.
InFlight == {i \in 1 .. Len(fifo) : fifo[i].type = "DATA"}

\* Frames leave the link in the order they were queued, none lost or
\* doubled on the way: each is read, under way or pending, exactly once,
\* although neither side retransmits (zlink.tcl:759-769).
AllFramesAccounted ==
  LET sentOff == queued - Len(pending) IN
  /\ Len(log) <= sentOff
  /\ \A i \in 1 .. Len(log) : log[i].frame.id = i
  /\ {fifo[i].data.id : i \in InFlight} = Len(log) + 1 .. sentOff
  /\ \A i, j \in InFlight : i < j => fifo[i].data.id < fifo[j].data.id
  /\ \A i \in 1 .. Len(pending) : pending[i].id = sentOff + i

\* A frame is taken for a duplicate only when the last frame its TTY got
\* is a whole number of turns of the sequence counter older: a TTY that
\* gets one frame in every turn loses none (zlink.c:243-247).
LossNeedsWrap ==
  \A i \in 1 .. Len(log) : log[i].dup =>
    \E j \in 1 .. i - 1 :
      /\ log[j].frame.tty = log[i].frame.tty /\ ~log[j].dup
      /\ \A k \in j + 1 .. i - 1 : log[k].frame.tty = log[i].frame.tty => log[k].dup
      /\ (i - j) % SeqMod = 0

\* Every frame the host queues is read in the end, however many
\* acknowledgements come before it (zlink.c:209-233).
EveryFrameIsRead == \A n \in 1 .. MaxFrames : queued >= n ~> Len(log) >= n

\* What README.md:109 and :130 say of SEQ: it tells a frame sent again from
\* a new one.  No frame is ever sent again here, so none is a duplicate.
NoFalseDuplicates == \A i \in 1 .. Len(log) : ~log[i].dup

=============================================================================
